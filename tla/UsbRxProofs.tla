------------------------------ MODULE UsbRxProofs ------------------------------
(***************************************************************************)
(* Proofs about reception from the USB bus, for any number of urbs and     *)
(* buffers and any faults.                                                 *)
(*                                                                         *)
(* Counted says what rx_cnt counts, which is what makes a count of one the *)
(* right moment to trigger.  The ways to go deaf need no more than the     *)
(* accounts: an empty free list means urbs submitted or in hand.           *)
(***************************************************************************)
EXTENDS UsbRx, TLAPS

Counted ==
  rx_cnt = rxq + One(busrx \in {"frame", "freed", "clear", "count"})
             - One(at["irq"] = "count") + stranded

-----------------------------------------------------------------------------

\* A move of one submitter changes what is held by what it takes and gives.
LEMMA Moved ==
  ASSUME NEW s \in Submitters, NEW p, NEW q \in Places,
         at \in [Submitters -> Places], Move(s, p, q)
  PROVE  /\ at' \in [Submitters -> Places]
         /\ Held(HasUrb)' = Held(HasUrb) - One(p \in HasUrb) + One(q \in HasUrb)
         /\ Held(HasBuffer)' = Held(HasBuffer) - One(p \in HasBuffer) + One(q \in HasBuffer)
         /\ at[s] = p /\ at'[s] = q
         /\ \A t \in Submitters \ {s} : at'[t] = at[t]
<1>1. at' = [at EXCEPT ![s] = q] /\ at[s] = p
  BY DEF Move
<1>2. at' \in [Submitters -> Places] /\ at'[s] = q
      /\ \A t \in Submitters \ {s} : at'[t] = at[t]
  BY <1>1
<1>3. ASSUME NEW P
      PROVE  /\ One(at'["irq"] \in P) + One(at'["work"] \in P) + One(at'["pm"] \in P)
                = Held(P) - One(p \in P) + One(q \in P)
  <2>1. CASE s = "irq"
    BY <1>1, <1>2, <2>1, SMT DEF Held, One, Submitters
  <2>2. CASE s = "work"
    BY <1>1, <1>2, <2>2, SMT DEF Held, One, Submitters
  <2>3. CASE s = "pm"
    BY <1>1, <1>2, <2>3, SMT DEF Held, One, Submitters
  <2> QED
    BY <2>1, <2>2, <2>3 DEF Submitters
<1>4. /\ Held(HasUrb)' = One(at'["irq"] \in HasUrb) + One(at'["work"] \in HasUrb) + One(at'["pm"] \in HasUrb)
      /\ Held(HasBuffer)' = One(at'["irq"] \in HasBuffer) + One(at'["work"] \in HasBuffer) + One(at'["pm"] \in HasBuffer)
  BY DEF Held, One, HasUrb, HasBuffer
<1> QED
  BY <1>1, <1>2, <1>3, <1>4

\* Which places hold an urb and which a buffer.
LEMMA Weights ==
  /\ "check" \in Places /\ One("check" \in HasUrb) = 1 /\ One("check" \in HasBuffer) = 1
  /\ "count" \in Places /\ One("count" \in HasUrb) = 1 /\ One("count" \in HasBuffer) = 0
  /\ "test" \in Places /\ One("test" \in HasUrb) = 1 /\ One("test" \in HasBuffer) = 0
  /\ "put" \in Places /\ One("put" \in HasUrb) = 1 /\ One("put" \in HasBuffer) = 0
  /\ "putstop" \in Places /\ One("putstop" \in HasUrb) = 1 /\ One("putstop" \in HasBuffer) = 0
  /\ "fill" \in Places /\ One("fill" \in HasUrb) = 1 /\ One("fill" \in HasBuffer) = 0
  /\ "submit" \in Places /\ One("submit" \in HasUrb) = 1 /\ One("submit" \in HasBuffer) = 1
  /\ "idle" \in Places /\ One("idle" \in HasUrb) = 0 /\ One("idle" \in HasBuffer) = 0
  /\ "look" \in Places /\ One("look" \in HasUrb) = 0 /\ One("look" \in HasBuffer) = 0
  /\ "get" \in Places /\ One("get" \in HasUrb) = 0 /\ One("get" \in HasBuffer) = 0
  /\ "flag" \in Places /\ One("flag" \in HasUrb) = 0 /\ One("flag" \in HasBuffer) = 0
  BY DEF Places, One, HasUrb, HasBuffer

LEMMA HeldType ==
  at \in [Submitters -> Places] => Held(HasUrb) \in 0 .. 3 /\ Held(HasBuffer) \in 0 .. 3
  BY DEF Held, One

\* A submitter keeps the types and the accounts.
LEMMA SubmitAllTypes ==
  ASSUME TypeOK, NEW s \in Submitters, SubmitAll(s) PROVE TypeOK'
<1> USE Weights, HeldType, SizesAssumption DEF TypeOK, urbVars, queueVars, schedVars
<1>1. CASE look(s)
  <2>1. PICK q \in {"get", "idle"} : Move(s, "look", q)
    BY <1>1 DEF look
  <2>2. UNCHANGED <<usb, ready, urbVars, queueVars, schedVars, busrx, stranded>>
    BY <1>1 DEF look
  <2>3. Held(HasUrb)' = Held(HasUrb) /\ Held(HasBuffer)' = Held(HasBuffer) /\ at' \in [Submitters -> Places]
    BY <2>1, Moved
  <2> QED
    BY <2>2, <2>3
<1>2. CASE rx_buf_get(s)
  <2>1. CASE free > 0
    <3>1. Move(s, "get", "fill") /\ free' = free - 1
      BY <1>2, <2>1 DEF rx_buf_get
    <3>2. /\ Held(HasUrb)' = Held(HasUrb) + 1 /\ Held(HasBuffer)' = Held(HasBuffer)
          /\ at' \in [Submitters -> Places]
      BY <3>1, Moved
    <3> QED
      BY <1>2, <2>1, <3>1, <3>2 DEF rx_buf_get
  <2>2. CASE ~(free > 0)
    <3>1. Move(s, "get", "idle") /\ UNCHANGED free
      BY <1>2, <2>2 DEF rx_buf_get
    <3>2. /\ Held(HasUrb)' = Held(HasUrb) /\ Held(HasBuffer)' = Held(HasBuffer)
          /\ at' \in [Submitters -> Places]
      BY <3>1, Moved
    <3> QED
      BY <1>2, <3>1, <3>2 DEF rx_buf_get
  <2> QED
    BY <2>1, <2>2
<1>3. CASE submit_rx_urb(s)
  <2>1. CASE pool > 0 /\ Move(s, "fill", "submit") /\ pool' = pool - 1 /\ UNCHANGED free
    <3>1. /\ Held(HasUrb)' = Held(HasUrb) /\ Held(HasBuffer)' = Held(HasBuffer) + 1
          /\ at' \in [Submitters -> Places]
      BY <2>1, Moved
    <3> QED
      BY <1>3, <2>1, <3>1 DEF submit_rx_urb
  <2>2. CASE ~(pool > 0 /\ Move(s, "fill", "submit") /\ pool' = pool - 1 /\ UNCHANGED free)
    <3>1. PICK q \in {"flag", "idle"} : Move(s, "fill", q)
      BY <1>3, <2>2 DEF submit_rx_urb
    <3>2. free' = free + 1 /\ UNCHANGED pool
      BY <1>3, <2>2 DEF submit_rx_urb
    <3>3. /\ Held(HasUrb)' = Held(HasUrb) - 1 /\ Held(HasBuffer)' = Held(HasBuffer)
          /\ at' \in [Submitters -> Places]
      BY <3>1, Moved
    <3> QED
      BY <1>3, <3>2, <3>3 DEF submit_rx_urb
  <2> QED
    BY <2>1, <2>2
<1>4. CASE flag(s)
  <2>1. Held(HasUrb)' = Held(HasUrb) /\ Held(HasBuffer)' = Held(HasBuffer) /\ at' \in [Submitters -> Places]
    BY <1>4, Moved DEF flag
  <2> QED
    BY <1>4, <2>1 DEF flag
<1>5. CASE usb_submit_urb(s)
  <2>1. CASE Move(s, "submit", "get") /\ submitted' = submitted + 1 /\ UNCHANGED <<free, pool>>
    <3>1. /\ Held(HasUrb)' = Held(HasUrb) - 1 /\ Held(HasBuffer)' = Held(HasBuffer) - 1
          /\ at' \in [Submitters -> Places]
      BY <2>1, Moved
    <3> QED
      BY <1>5, <2>1, <3>1 DEF usb_submit_urb
  <2>2. CASE /\ Move(s, "submit", "idle") /\ free' = free + 1 /\ pool' = pool + 1
             /\ UNCHANGED submitted
    <3>1. /\ Held(HasUrb)' = Held(HasUrb) - 1 /\ Held(HasBuffer)' = Held(HasBuffer) - 1
          /\ at' \in [Submitters -> Places]
      BY <2>2, Moved
    <3> QED
      BY <1>5, <2>2, <3>1 DEF usb_submit_urb
  <2> QED
    BY <1>5, <2>1, <2>2 DEF usb_submit_urb
<1> QED
  BY <1>1, <1>2, <1>3, <1>4, <1>5 DEF SubmitAll

\* The completion handler keeps the types and the accounts.
LEMMA CompletionTypes ==
  ASSUME TypeOK, Completion PROVE TypeOK'
<1> USE Weights, HeldType, SizesAssumption DEF TypeOK, urbVars, queueVars, schedVars
<1> DEFINE irq == "irq"
<1>0. irq \in Submitters
  BY DEF Submitters
<1>1. CASE rx_complete
  <2>1. CASE Move("irq", "idle", "check") /\ UNCHANGED pool
    <3>1. /\ Held(HasUrb)' = Held(HasUrb) + 1 /\ Held(HasBuffer)' = Held(HasBuffer) + 1
          /\ at' \in [Submitters -> Places]
      BY <1>0, <2>1, Moved
    <3> QED
      BY <1>1, <2>1, <3>1 DEF rx_complete
  <2>2. CASE ~(Move("irq", "idle", "check") /\ UNCHANGED pool)
    <3>1. PICK q \in {"put", "putstop"} : Move("irq", "idle", q)
      BY <1>1, <2>2 DEF rx_complete
    <3>2. pool' = pool + 1
      BY <1>1, <2>2 DEF rx_complete
    <3>3. /\ Held(HasUrb)' = Held(HasUrb) + 1 /\ Held(HasBuffer)' = Held(HasBuffer)
          /\ at' \in [Submitters -> Places]
      BY <1>0, <3>1, Moved
    <3> QED
      BY <1>1, <3>2, <3>3 DEF rx_complete
  <2> QED
    BY <2>1, <2>2
<1>2. CASE rxbuff_enqueue
  <2>1. PICK q \in {"count", "putstop"} : Move("irq", "check", q)
    BY <1>2 DEF rxbuff_enqueue
  <2>2. /\ Held(HasUrb)' = Held(HasUrb) /\ Held(HasBuffer)' = Held(HasBuffer) - 1
        /\ at' \in [Submitters -> Places]
    BY <1>0, <2>1, Moved
  <2>3. rxq' \in Nat /\ pool' \in Nat /\ rxq' + pool' = rxq + pool + 1
    BY <1>2 DEF rxbuff_enqueue
  <2> QED
    BY <1>2, <2>2, <2>3 DEF rxbuff_enqueue
<1>3. CASE count \/ test
  <2>1. Move("irq", "count", "test") \/ Move("irq", "test", "put")
    BY <1>3 DEF count, test
  <2>2. Held(HasUrb)' = Held(HasUrb) /\ Held(HasBuffer)' = Held(HasBuffer) /\ at' \in [Submitters -> Places]
    BY <1>0, <2>1, Moved
  <2>3. rx_cnt' \in Int /\ busrx_trgg' \in 0 .. MaxTriggers
    BY <1>3 DEF count, test
  <2> QED
    BY <1>3, <2>2, <2>3 DEF count, test
<1>4. CASE rx_buf_put
  <2>1. Move("irq", "put", "look") \/ Move("irq", "putstop", "idle")
    BY <1>4 DEF rx_buf_put
  <2>2. /\ Held(HasUrb)' = Held(HasUrb) - 1 /\ Held(HasBuffer)' = Held(HasBuffer)
        /\ at' \in [Submitters -> Places]
    BY <1>0, <2>1, Moved
  <2> QED
    BY <1>4, <2>2 DEF rx_buf_put
<1> QED
  BY <1>1, <1>2, <1>3, <1>4 DEF Completion

\* While the submitters rest, what they hold is what they held.
LEMMA HeldStill ==
  ASSUME UNCHANGED at
  PROVE  Held(HasUrb)' = Held(HasUrb) /\ Held(HasBuffer)' = Held(HasBuffer)
  BY DEF Held

\* The thread keeps the types and the accounts.
LEMMA BusrxTypes ==
  ASSUME TypeOK, Busrx PROVE TypeOK'
<1> USE HeldType, SizesAssumption DEF TypeOK, urbVars, queueVars, schedVars
<1>0. UNCHANGED at
  BY DEF Busrx, busrx_wake, rxbuff_dequeue, rx_frame, schedule_work, discount
<1>1. CASE busrx_wake
  BY <1>0, <1>1, HeldStill DEF busrx_wake, One
<1>2. CASE rxbuff_dequeue
  <2>1. One(busrx = "frame") = 0
    BY <1>2 DEF rxbuff_dequeue, One
  <2>2. CASE rxq = 0
    <3>1. busrx' = "wait" /\ UNCHANGED rxq
      BY <1>2, <2>2 DEF rxbuff_dequeue
    <3>2. One((busrx = "frame")') = 0
      BY <3>1 DEF One
    <3> QED
      BY <1>0, <1>2, <2>1, <3>1, <3>2, HeldStill DEF rxbuff_dequeue
  <2>3. CASE rxq # 0
    <3>1. busrx' = "frame" /\ rxq' = rxq - 1
      BY <1>2, <2>3 DEF rxbuff_dequeue
    <3>2. One((busrx = "frame")') = 1
      BY <3>1 DEF One
    <3> QED
      BY <1>0, <1>2, <2>1, <2>3, <3>1, <3>2, HeldStill DEF rxbuff_dequeue
  <2> QED
    BY <2>2, <2>3
<1>3. CASE rx_frame
  <2>1. busrx = "frame" /\ busrx' \in {"freed", "count", "wait"}
    BY <1>3 DEF rx_frame
  <2>2. stranded' \in 0 .. MaxStranded
    BY <1>3 DEF rx_frame
  <2>3. One(busrx = "frame") = 1 /\ One((busrx = "frame")') = 0
    BY <2>1 DEF One
  <2> QED
    BY <1>0, <1>3, <2>1, <2>2, <2>3, HeldStill DEF rx_frame
<1>4. CASE schedule_work
  <2>1. busrx \in {"freed", "clear"} /\ busrx' \in {"clear", "count"}
        /\ rx_urb_sched' \in BOOLEAN /\ rx_urb_work' \in BOOLEAN
    BY <1>4 DEF schedule_work
  <2>2. One(busrx = "frame") = 0 /\ One(busrx' = "frame") = 0
    BY <2>1 DEF One
  <2> QED
    BY <1>0, <1>4, <2>1, <2>2, HeldStill DEF schedule_work
<1>5. CASE discount
  BY <1>0, <1>5, HeldStill DEF discount, One
<1> QED
  BY <1>1, <1>2, <1>3, <1>4, <1>5 DEF Busrx

\* Every step keeps the types and the accounts.
LEMMA TypeInvariant == TypeOK /\ [Next]_vars => TypeOK'
<1> SUFFICES ASSUME TypeOK, [Next]_vars PROVE TypeOK'
  OBVIOUS
<1> USE DEF urbVars, queueVars, schedVars
<1>1. CASE \E s \in Submitters : SubmitAll(s)
  BY <1>1, SubmitAllTypes
<1>2. CASE Completion
  BY <1>2, CompletionTypes
<1>3. CASE Busrx
  BY <1>3, BusrxTypes
<1>4. CASE rx_urb_work_run \/ resume
  <2>1. PICK s \in Submitters : Move(s, "idle", "look")
    BY <1>4 DEF rx_urb_work_run, resume, Submitters
  <2>2. Held(HasUrb)' = Held(HasUrb) /\ Held(HasBuffer)' = Held(HasBuffer) /\ at' \in [Submitters -> Places]
    BY <2>1, Moved, Weights, HeldType DEF TypeOK
  <2> QED
    BY <1>4, <2>2 DEF TypeOK, rx_urb_work_run, resume
<1>5. CASE platform_init \/ suspend \/ UNCHANGED vars
  <2>1. UNCHANGED at
    BY <1>5 DEF platform_init, suspend, vars
  <2> QED
    BY <1>5, <2>1, HeldStill DEF TypeOK, platform_init, suspend, vars
<1> QED
  BY <1>1, <1>2, <1>3, <1>4, <1>5 DEF Next

\* At the start every urb is free and every buffer in the pool.
LEMMA InitTypes == Init => TypeOK
<1> SUFFICES ASSUME Init PROVE TypeOK
  OBVIOUS
<1>1. at \in [Submitters -> Places]
  BY DEF Init, Submitters, Places
<1>2. at["irq"] = "idle" /\ at["work"] = "idle" /\ at["pm"] = "look"
  BY DEF Init, Submitters
<1>3. Held(HasUrb) = 0 /\ Held(HasBuffer) = 0
  BY <1>2, Weights DEF Held
<1>4. One(busrx = "frame") = 0
  BY DEF Init, One
<1>5. /\ usb \in {"UP", "SLEEP", "DOWN"} /\ ready \in BOOLEAN
      /\ rx_urb_sched \in BOOLEAN /\ rx_urb_work \in BOOLEAN
      /\ busrx \in {"wait", "loop", "frame", "freed", "clear", "count", "stopped"}
  BY DEF Init
<1> QED
  BY <1>1, <1>3, <1>4, <1>5, SizesAssumption DEF Init, TypeOK

\* The state keeps its types, and no urb and no buffer is ever lost
\* (the exits of aicwf_usb_submit_rx_urb, aicwf_usb_rx_complete and
\* aicwf_process_rxframes).
THEOREM TypeCorrect == Spec => []TypeOK
  BY InitTypes, TypeInvariant, PTL DEF Spec

-----------------------------------------------------------------------------
(* The count and the trigger. *)

\* Only the completion and the thread touch the queue, its count and its
\* trigger, and no other step takes the handler between queue and trigger.
LEMMA QueueUntouched ==
  ASSUME TypeOK,
         \/ \E s \in Submitters : SubmitAll(s)
         \/ rx_urb_work_run \/ platform_init \/ suspend \/ resume
         \/ UNCHANGED vars
  PROVE  /\ UNCHANGED <<queueVars, busrx, stranded>>
         /\ (at["irq"] = "count")' <=> at["irq"] = "count"
         /\ (at["irq"] = "test")' <=> at["irq"] = "test"
<1> USE DEF queueVars
<1>1. CASE \E s \in Submitters : SubmitAll(s)
  <2>1. PICK s \in Submitters : SubmitAll(s)
    BY <1>1
  <2>2. PICK p \in {"look", "get", "fill", "flag", "submit"},
             q \in {"idle", "get", "fill", "flag", "submit"} : Move(s, p, q)
    BY <2>1 DEF SubmitAll, look, rx_buf_get, submit_rx_urb, flag, usb_submit_urb
  <2>3. at["irq"] = at["irq"]' \/ (at["irq"] = p /\ at["irq"]' = q)
    BY <2>2 DEF Move, TypeOK, Submitters
  <2> QED
    BY <2>1, <2>3 DEF SubmitAll, look, rx_buf_get, submit_rx_urb, flag, usb_submit_urb
<1>2. CASE rx_urb_work_run \/ resume
  <2>1. at["irq"] = at["irq"]'
    BY <1>2 DEF rx_urb_work_run, resume, Move, TypeOK, Submitters
  <2> QED
    BY <1>2, <2>1 DEF rx_urb_work_run, resume
<1>3. CASE platform_init \/ suspend \/ UNCHANGED vars
  BY <1>3 DEF platform_init, suspend, vars
<1> QED
  BY <1>1, <1>2, <1>3

\* What a frame in the thread's hands and one not counted yet add to rx_cnt.
LEMMA CountInvariant == TypeOK /\ Counted /\ [Next]_vars => Counted'
<1> SUFFICES ASSUME TypeOK, Counted, [Next]_vars PROVE Counted'
  OBVIOUS
<1> DEFINE Handled == One(busrx \in {"frame", "freed", "clear", "count"})
           Pending == One(at["irq"] = "count")
<1>a. Handled \in 0 .. 1 /\ Pending \in 0 .. 1
  BY DEF One
<1>b. rx_cnt = rxq + Handled - Pending + stranded
  BY DEF Counted
<1>c. rxq \in Nat /\ rx_cnt \in Int /\ stranded \in Nat
  BY SizesAssumption DEF TypeOK
<1>d. SUFFICES rx_cnt' = rxq' + Handled' - Pending' + stranded'
  BY DEF Counted
<1>1. CASE \/ \E s \in Submitters : SubmitAll(s)
           \/ rx_urb_work_run \/ platform_init \/ suspend \/ resume
           \/ UNCHANGED vars
  <2>1. UNCHANGED <<rx_cnt, rxq, stranded, busrx>> /\ Pending' = Pending /\ Handled' = Handled
    BY <1>1, QueueUntouched DEF queueVars, One
  <2> QED
    BY <2>1, <1>b
<1>2. CASE Completion
  <2>1. Handled' = Handled /\ stranded' = stranded
    BY <1>2 DEF Completion, rx_complete, rxbuff_enqueue, count, test, rx_buf_put, One
  <2>2. CASE rxbuff_enqueue /\ usb = "UP"
    <3>1. rxq' = rxq + 1 /\ rx_cnt' = rx_cnt /\ at["irq"] = "check" /\ at'["irq"] = "count"
      BY <2>2 DEF rxbuff_enqueue, Move, TypeOK, Submitters
    <3>2. Pending = 0 /\ Pending' = 1
      BY <3>1 DEF One
    <3> QED
      BY <1>a, <1>b, <1>c, <2>1, <3>1, <3>2
  <2>3. CASE count
    <3>1. rxq' = rxq /\ rx_cnt' = rx_cnt + 1 /\ at["irq"] = "count" /\ at'["irq"] = "test"
      BY <2>3 DEF count, Move, TypeOK, Submitters
    <3>2. Pending = 1 /\ Pending' = 0
      BY <3>1 DEF One
    <3> QED
      BY <1>a, <1>b, <1>c, <2>1, <3>1, <3>2
  <2>4. CASE rx_complete \/ (rxbuff_enqueue /\ usb # "UP") \/ test \/ rx_buf_put
    <3>1. rxq' = rxq /\ rx_cnt' = rx_cnt
      BY <2>4 DEF rx_complete, rxbuff_enqueue, test, rx_buf_put, queueVars
    <3>2. at["irq"] # "count" /\ at'["irq"] # "count"
      BY <2>4 DEF rx_complete, rxbuff_enqueue, test, rx_buf_put, Move, TypeOK, Submitters
    <3>3. Pending = 0 /\ Pending' = 0
      BY <3>2 DEF One
    <3> QED
      BY <1>a, <1>b, <1>c, <2>1, <3>1, <3>3
  <2> QED
    BY <1>2, <2>2, <2>3, <2>4 DEF Completion
<1>3. CASE Busrx
  <2>0. Pending' = Pending
    BY <1>3 DEF Busrx, busrx_wake, rxbuff_dequeue, rx_frame, schedule_work, discount, One
  <2>1. CASE busrx_wake \/ schedule_work
    <3>1. UNCHANGED <<rxq, rx_cnt, stranded>> /\ Handled' = Handled
      BY <2>1 DEF busrx_wake, schedule_work, queueVars, One
    <3> QED
      BY <1>b, <2>0, <3>1
  <2>2. CASE rxbuff_dequeue /\ rxq = 0
    <3>1. UNCHANGED <<rxq, rx_cnt, stranded>> /\ busrx = "loop" /\ busrx' = "wait"
      BY <2>2 DEF rxbuff_dequeue
    <3>2. Handled' = Handled
      BY <3>1 DEF One
    <3> QED
      BY <1>b, <2>0, <3>1, <3>2
  <2>3. CASE rxbuff_dequeue /\ rxq # 0
    <3>1. UNCHANGED <<rx_cnt, stranded>> /\ rxq' = rxq - 1 /\ busrx = "loop" /\ busrx' = "frame"
      BY <2>3 DEF rxbuff_dequeue
    <3>2. Handled = 0 /\ Handled' = 1
      BY <3>1 DEF One
    <3> QED
      BY <1>a, <1>b, <1>c, <2>0, <3>1, <3>2
  <2>4. CASE rx_frame
    <3>1. UNCHANGED <<rx_cnt, rxq>> /\ busrx = "frame"
          /\ \/ busrx' \in {"freed", "count"} /\ stranded' = stranded
             \/ busrx' = "wait" /\ stranded' = stranded + 1
      BY <2>4 DEF rx_frame, queueVars
    <3>2. Handled = 1
      BY <3>1 DEF One
    <3>3. CASE busrx' \in {"freed", "count"} /\ stranded' = stranded
      <4>1. Handled' = 1
        BY <3>3 DEF One
      <4> QED
        BY <1>b, <2>0, <3>1, <3>2, <3>3, <4>1
    <3>4. CASE busrx' = "wait" /\ stranded' = stranded + 1
      <4>1. Handled' = 0
        BY <3>4 DEF One
      <4> QED
        BY <1>a, <1>b, <1>c, <2>0, <3>1, <3>2, <3>4, <4>1
    <3> QED
      BY <3>1, <3>3, <3>4
  <2>5. CASE discount
    <3>1. UNCHANGED <<rxq, stranded>> /\ rx_cnt' = rx_cnt - 1 /\ busrx = "count" /\ busrx' = "loop"
      BY <2>5 DEF discount
    <3>2. Handled = 1 /\ Handled' = 0
      BY <3>1 DEF One
    <3> QED
      BY <1>a, <1>b, <1>c, <2>0, <3>1, <3>2
  <2> QED
    BY <1>3, <2>1, <2>2, <2>3, <2>4, <2>5 DEF Busrx
<1> QED
  BY <1>1, <1>2, <1>3 DEF Next

\* The trigger is not lost.
LEMMA SeenInvariant ==
  TypeOK /\ Counted /\ FramesAreSeen /\ [Next]_vars => FramesAreSeen'
<1> SUFFICES ASSUME TypeOK, Counted, FramesAreSeen, [Next]_vars,
                    (rxq > 0 /\ stranded = 0 /\ busrx # "stopped")', (busrx = "wait")',
                    ~(busrx_trgg > 0)'
             PROVE  (\/ at["irq"] = "count" /\ rx_cnt = 0
                     \/ at["irq"] = "test" /\ rx_cnt = 1)'
  BY DEF FramesAreSeen, Triggered
<1>a. rxq \in Nat /\ rx_cnt \in Int /\ stranded \in Nat /\ busrx_trgg \in Nat
  BY SizesAssumption DEF TypeOK
<1>b. rxq > 0 /\ stranded = 0 /\ busrx = "wait" /\ ~(busrx_trgg > 0) =>
        \/ at["irq"] = "count" /\ rx_cnt = 0
        \/ at["irq"] = "test" /\ rx_cnt = 1
  BY DEF FramesAreSeen, Triggered
<1>1. CASE \/ \E s \in Submitters : SubmitAll(s)
           \/ rx_urb_work_run \/ platform_init \/ suspend \/ resume
           \/ UNCHANGED vars
  BY <1>1, <1>b, QueueUntouched DEF queueVars
<1>2. CASE Completion
  <2>0. UNCHANGED <<busrx, stranded>>
    BY <1>2 DEF Completion, rx_complete, rxbuff_enqueue, count, test, rx_buf_put
  <2>1. CASE rxbuff_enqueue /\ usb = "UP"
    <3>1. rxq' = rxq + 1 /\ rx_cnt' = rx_cnt /\ busrx_trgg' = busrx_trgg
          /\ at["irq"] = "check" /\ at'["irq"] = "count"
      BY <2>1 DEF rxbuff_enqueue, Move, TypeOK, Submitters
    <3>2. rxq = 0
      BY <2>0, <3>1, <1>a, <1>b
    <3>3. One(busrx \in {"frame", "freed", "clear", "count"}) = 0 /\ One(at["irq"] = "count") = 0
      BY <2>0, <3>1 DEF One
    <3>4. rx_cnt = 0
      BY <2>0, <3>2, <3>3, <1>a DEF Counted
    <3> QED
      BY <3>1, <3>4
  <2>2. CASE count
    <3>1. at["irq"] = "count" /\ at'["irq"] = "test" /\ rx_cnt' = rx_cnt + 1
          /\ UNCHANGED <<rxq, busrx_trgg>>
      BY <2>2 DEF count, Move, TypeOK, Submitters
    <3> QED
      BY <2>0, <3>1, <1>b
  <2>3. CASE test
    <3>1. at["irq"] = "test" /\ UNCHANGED <<rxq, rx_cnt>>
      BY <2>3 DEF test, Move
    <3>2. busrx_trgg' = busrx_trgg + 1 \/ rx_cnt # 1 \/ ~(busrx_trgg < MaxTriggers)
      BY <2>3 DEF test
    <3>3. busrx_trgg' >= busrx_trgg
      BY <2>3, <1>a DEF test
    <3>4. ~(busrx_trgg > 0) /\ busrx_trgg = 0 /\ busrx_trgg' = 0
      BY <3>3, <1>a, TypeInvariant, SizesAssumption DEF TypeOK
    <3>5. rx_cnt = 1
      BY <2>0, <3>1, <3>4, <1>b
    <3>6. busrx_trgg < MaxTriggers
      BY <3>4, SizesAssumption
    <3> QED
      BY <3>2, <3>4, <3>5, <3>6
  <2>4. CASE rx_complete \/ (rxbuff_enqueue /\ usb # "UP") \/ rx_buf_put
    <3>1. UNCHANGED <<rxq, rx_cnt, busrx_trgg>>
      BY <2>4 DEF rx_complete, rxbuff_enqueue, rx_buf_put, queueVars
    <3>2. at["irq"] \notin {"count", "test"}
      BY <2>4 DEF rx_complete, rxbuff_enqueue, rx_buf_put, Move
    <3> QED
      BY <2>0, <3>1, <3>2, <1>b
  <2> QED
    BY <1>2, <2>1, <2>2, <2>3, <2>4 DEF Completion
<1>3. CASE Busrx
  <2>1. CASE rxbuff_dequeue
    <3>1. rxq = 0 => rxq' = 0
      BY <2>1 DEF rxbuff_dequeue
    <3>2. rxq # 0 => busrx' = "frame"
      BY <2>1 DEF rxbuff_dequeue
    <3> QED
      BY <3>1, <3>2
  <2>2. CASE rx_frame
    BY <2>2, <1>a DEF rx_frame
  <2>3. CASE busrx_wake \/ schedule_work \/ discount
    BY <2>3 DEF busrx_wake, schedule_work, discount
  <2> QED
    BY <1>3, <2>1, <2>2, <2>3 DEF Busrx
<1> QED
  BY <1>1, <1>2, <1>3 DEF Next

\* A queued frame is never forgotten: rx_cnt is one exactly when the thread
\* has to be triggered, as long as the thread neither ended nor left a frame
\* counted (aicwf_usb_rx_complete against aicwf_process_rxframes).
THEOREM FramesAreSeenAlways == Spec => []FramesAreSeen
<1>1. Init => Counted /\ FramesAreSeen
  <2> SUFFICES ASSUME Init PROVE Counted /\ FramesAreSeen
    OBVIOUS
  <2>1. One(busrx \in {"frame", "freed", "clear", "count"}) = 0 /\ One(at["irq"] = "count") = 0
    BY DEF Init, One, Submitters
  <2> QED
    BY <2>1 DEF Init, Counted, FramesAreSeen, Triggered
<1> QED
  BY <1>1, InitTypes, TypeInvariant, CountInvariant, SeenInvariant, PTL DEF Spec

-----------------------------------------------------------------------------
(* Somebody listens. *)

\* With no urb left on the list, all are submitted or in somebody's hands.
LEMMA NoneFree ==
  ASSUME TypeOK, free = 0 PROVE submitted > 0 \/ \E s \in Submitters : at[s] \in HasUrb
<1>1. SUFFICES ASSUME submitted = 0 PROVE \E s \in Submitters : at[s] \in HasUrb
  BY DEF TypeOK
<1>2. Held(HasUrb) > 0
  BY <1>1, HeldType, SizesAssumption DEF TypeOK
<1> QED
  BY <1>2 DEF Held, One, Submitters

\* A submitter of a device that is up ends its round with all urbs submitted
\* or in somebody's hands, with a note the thread will look at, or in one of
\* the named ways.
LEMMA SubmitterListens ==
  ASSUME TypeOK, NEW s \in Submitters, SubmitAll(s), usb = "UP"
  PROVE  Listening' \/ GivenUp \/ MissedNote
<1>1. CASE at'[s] # "idle"
  BY <1>1 DEF Listening
<1>2. CASE at'[s] = "idle"
  <2>1. CASE look(s) \/ submit_rx_urb(s)
    BY <1>2, <2>1 DEF look, submit_rx_urb, Move, TypeOK
  <2>2. CASE rx_buf_get(s)
    <3>1. /\ free = 0 /\ at[s] = "get" /\ submitted' = submitted
          /\ \A t \in Submitters \ {s} : at'[t] = at[t]
      BY <1>2, <2>2 DEF rx_buf_get, Move, TypeOK
    <3>2. submitted > 0 \/ \E t \in Submitters \ {s} : at'[t] # "idle"
      BY <3>1, NoneFree DEF HasUrb
    <3> QED
      BY <3>1, <3>2 DEF Listening
  <2>3. CASE flag(s)
    <3>1. at[s] = "flag" /\ rx_urb_sched' = TRUE /\ UNCHANGED <<rxq, busrx, busrx_trgg, rx_cnt>>
      BY <2>3 DEF flag, Move, queueVars
    <3>2. CASE busrx = "clear" \/ ~WillLook
      BY <1>2, <3>1, <3>2 DEF MissedNote
    <3>3. CASE busrx # "clear" /\ WillLook
      <4>1. CASE at'["irq"] # "idle"
        BY <4>1 DEF Listening, Submitters
      <4>2. CASE at'["irq"] = "idle"
        <5>1. at["irq"] \notin {"count", "test"}
          BY <2>3, <4>2 DEF flag, Move, TypeOK, Submitters
        <5>2. WillLook'
          BY <3>1, <3>3, <5>1 DEF WillLook, Triggered
        <5> QED
          BY <3>1, <3>3, <5>2 DEF Listening
      <4> QED
        BY <4>1, <4>2
    <3> QED
      BY <3>2, <3>3
  <2>4. CASE usb_submit_urb(s)
    <3>1. at[s] = "submit"
      BY <2>4 DEF usb_submit_urb, Move
    <3> QED
      BY <1>2, <3>1 DEF GivenUp
  <2> QED
    BY <2>1, <2>2, <2>3, <2>4 DEF SubmitAll
<1> QED
  BY <1>1, <1>2

\* The completion handler goes on to submit, or gives up.
LEMMA CompletionListens ==
  ASSUME TypeOK, Completion PROVE Listening' \/ GivenUp
<1>1. CASE rx_buf_put /\ at["irq"] = "putstop"
  <2>1. at'["irq"] = "idle"
    BY <1>1 DEF rx_buf_put, Move, TypeOK, Submitters
  <2> QED
    BY <1>1, <2>1 DEF GivenUp
<1>2. CASE ~(rx_buf_put /\ at["irq"] = "putstop")
  <2>1. PICK q \in Places \ {"idle"} : at'["irq"] = q
    BY <1>2 DEF Completion, rx_complete, rxbuff_enqueue, count, test, rx_buf_put,
                Move, TypeOK, Submitters, Places, HasUrb
  <2> QED
    BY <2>1 DEF Listening, Submitters
<1> QED
  BY <1>1, <1>2

\* The work and the resume begin to submit.
LEMMA StartListens ==
  ASSUME TypeOK, rx_urb_work_run \/ resume PROVE Listening'
<1>1. at'["work"] = "look" \/ at'["pm"] = "look"
  BY DEF rx_urb_work_run, resume, Move, TypeOK, Submitters
<1> QED
  BY <1>1 DEF Listening, Submitters

\* The thread takes no note away without scheduling the work for it, and on its
\* way to the look it turns away only by giving up.
LEMMA BusrxListens ==
  ASSUME TypeOK, Busrx, usb = "UP", Listening PROVE Listening' \/ GivenUp
<1>1. UNCHANGED <<usb, submitted, at>>
  BY DEF Busrx, busrx_wake, rxbuff_dequeue, rx_frame, schedule_work, discount, urbVars
<1>2. CASE submitted > 0 \/ \E s \in Submitters : at[s] # "idle"
  BY <1>1, <1>2 DEF Listening
<1>3. CASE rx_urb_work
  <2>1. rx_urb_work' = TRUE
    BY <1>3 DEF Busrx, busrx_wake, rxbuff_dequeue, rx_frame, schedule_work, discount,
                schedVars, TypeOK
  <2> QED
    BY <2>1 DEF Listening
<1>4. CASE /\ rx_urb_sched /\ busrx # "clear" /\ WillLook
           /\ \A s \in Submitters : at[s] = "idle"
  <2>0. rxq \in Nat /\ busrx_trgg \in Nat /\ ~(at["irq"] \in {"count", "test"})
    BY <1>4 DEF TypeOK, Submitters
  <2>1. CASE busrx_wake \/ rxbuff_dequeue \/ discount
    <3>1. rx_urb_sched' /\ busrx' # "clear"
      BY <1>4, <2>1 DEF busrx_wake, rxbuff_dequeue, discount, schedVars
    <3>2. WillLook'
      BY <1>4, <2>0, <2>1 DEF busrx_wake, rxbuff_dequeue, discount, WillLook, Triggered
    <3> QED
      BY <3>1, <3>2 DEF Listening
  <2>2. CASE rx_frame
    <3>1. busrx = "frame" /\ rx_urb_sched'
      BY <1>4, <2>2 DEF rx_frame, schedVars
    <3> QED
      BY <3>1 DEF Listening, GivenUp, WillLook
  <2>3. CASE schedule_work
    <3>1. rx_urb_work' = TRUE
      BY <1>4, <2>3 DEF schedule_work
    <3> QED
      BY <3>1 DEF Listening
  <2> QED
    BY <2>1, <2>2, <2>3 DEF Busrx
<1> QED
  BY <1>2, <1>3, <1>4 DEF Listening

\* A step that makes a device deaf that is up is one of the named ones.
LEMMA DeafStep ==
  ASSUME TypeOK, [Next]_vars, ~Deaf, Deaf' PROVE GivenUp \/ MissedNote
<1>0. usb' = "UP" /\ ~Listening'
  BY DEF Deaf
<1>1. ASSUME NEW s \in Submitters, SubmitAll(s) PROVE GivenUp \/ MissedNote
  <2>1. usb = "UP"
    BY <1>0, <1>1 DEF SubmitAll, look, rx_buf_get, submit_rx_urb, flag, usb_submit_urb
  <2> QED
    BY <1>0, <1>1, <2>1, SubmitterListens
<1>2. CASE rx_urb_work_run \/ resume
  BY <1>0, <1>2, StartListens
<1>3. CASE Completion
  BY <1>0, <1>3, CompletionListens
<1>4. CASE Busrx
  <2>1. usb = "UP" /\ Listening
    BY <1>0, <1>4 DEF Deaf, Busrx, busrx_wake, rxbuff_dequeue, rx_frame, schedule_work, discount
  <2> QED
    BY <1>0, <1>4, <2>1, BusrxListens
<1>5. CASE platform_init \/ suspend \/ UNCHANGED vars
  <2>1. UNCHANGED <<usb, urbVars, queueVars, schedVars, busrx, at>>
    BY <1>0, <1>5 DEF platform_init, suspend, vars
  <2>2. Listening' = Listening
    BY <2>1 DEF Listening, WillLook, Triggered, urbVars, queueVars, schedVars
  <2> QED
    BY <1>0, <2>1, <2>2 DEF Deaf
<1> QED
  BY <1>1, <1>2, <1>3, <1>4, <1>5 DEF Next

\* Whatever the interleaving of completions, work, thread and resume, a device
\* that is up goes deaf only where the code gives up, or by a note written
\* after the thread's last look or cleared unseen (rx_urb_sched is written
\* without a lock); no step is excused for what happened before it.
THEOREM DeafSteps == Spec => WaysToGoDeaf
<1>1. TypeOK /\ [Next]_vars => (~Deaf /\ Deaf' => GivenUp \/ MissedNote)
  BY DeafStep
<1> QED
  BY <1>1, InitTypes, TypeInvariant, PTL DEF Spec, WaysToGoDeaf

\* A step of a deaf device leaves it deaf, or begins a suspend.
LEMMA DeafStays ==
  ASSUME TypeOK, [Next]_vars, Deaf PROVE Deaf' \/ usb' # "UP"
<1>0. /\ usb = "UP" /\ submitted = 0 /\ rx_urb_work = FALSE
      /\ at["irq"] = "idle" /\ at["work"] = "idle" /\ at["pm"] = "idle"
      /\ ~(rx_urb_sched /\ busrx # "clear" /\ WillLook)
  BY DEF Deaf, Listening, TypeOK, Submitters
<1>a. rxq \in Nat /\ busrx_trgg \in Nat
  BY DEF TypeOK
<1>1. CASE Busrx
  <2>1. UNCHANGED <<usb, submitted, at>>
    BY <1>1 DEF Busrx, busrx_wake, rxbuff_dequeue, rx_frame, schedule_work, discount, urbVars
  <2>2. rx_urb_work' = FALSE
    BY <1>0, <1>1 DEF Busrx, busrx_wake, rxbuff_dequeue, rx_frame, schedule_work, discount,
                      schedVars, WillLook
  <2>3. ~(rx_urb_sched /\ busrx # "clear" /\ WillLook)'
    <3>1. CASE schedule_work
      BY <1>0, <3>1 DEF schedule_work, schedVars, WillLook
    <3>2. CASE rx_frame
      <4>1. busrx = "frame" /\ rx_urb_sched' = rx_urb_sched
        BY <3>2 DEF rx_frame, schedVars
      <4> QED
        BY <1>0, <4>1 DEF WillLook
    <3>3. CASE busrx_wake \/ rxbuff_dequeue \/ discount
      <4>1. rx_urb_sched' = rx_urb_sched /\ busrx # "clear"
        BY <3>3 DEF busrx_wake, rxbuff_dequeue, discount, schedVars
      <4>2. WillLook' => WillLook
        BY <1>0, <1>a, <2>1, <3>3 DEF busrx_wake, rxbuff_dequeue, discount, WillLook, Triggered
      <4> QED
        BY <1>0, <4>1, <4>2
    <3> QED
      BY <1>1, <3>1, <3>2, <3>3 DEF Busrx
  <2> QED
    BY <1>0, <2>1, <2>2, <2>3 DEF Deaf, Listening, Submitters
<1>2. CASE platform_init \/ suspend \/ UNCHANGED vars
  BY <1>0, <1>2 DEF platform_init, suspend, vars, urbVars, queueVars, schedVars,
                    Deaf, Listening, WillLook, Triggered, Submitters
<1>3. CASE (\E s \in Submitters : SubmitAll(s)) \/ rx_urb_work_run \/ Completion \/ resume
  BY <1>0, <1>3 DEF SubmitAll, look, rx_buf_get, submit_rx_urb, flag, usb_submit_urb,
                    rx_urb_work_run, Completion, rx_complete, rxbuff_enqueue, count, test,
                    rx_buf_put, resume, Move, Submitters
<1> QED
  BY <1>1, <1>2, <1>3 DEF Next

\* Deaf says what it should: nothing but a suspend, whose resume submits every
\* urb, ends it; no submission, frame or late note does.
THEOREM DeafUntilSuspend == Spec => [][Deaf => Deaf' \/ usb' # "UP"]_vars
<1>1. TypeOK /\ [Next]_vars => (Deaf => Deaf' \/ usb' # "UP")
  BY DeafStays
<1> QED
  BY <1>1, InitTypes, TypeInvariant, PTL DEF Spec

==============================================================================
