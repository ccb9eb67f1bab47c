--------------------------------- MODULE UsbRx ---------------------------------
(***************************************************************************)
(* Reception of data from the USB bus: aicwf_usb.c, the receive loop of    *)
(* aicwf_txrxif.c and the buffers aic_load_fw allocated, as built          *)
(* (preallocated buffers, no aggregation, no reassembly).                  *)
(*                                                                         *)
(* A receive urb is on the free list or with the USB core, with a buffer.  *)
(* Its completion puts the buffer on the receive queue, counts it,         *)
(* triggers the busrx thread when the count is one, and submits every free *)
(* urb again.  Urbs are also submitted by a work, which the thread         *)
(* schedules when a submission found no buffer, and by probe and resume.   *)
(*                                                                         *)
(* Urbs, buffers and frames differ in nothing that is looked at here, so   *)
(* lists are their lengths.  The queue takes twice as many frames as there *)
(* are buffers, so that it is never full.  Completions of one endpoint run *)
(* one at a time (the USB core's bottom half).  The message endpoint, with *)
(* lists of its own, and the removal of the device are not modelled here.  *)
(***************************************************************************)
EXTENDS Integers

CONSTANTS
  NumUrbs,      \* AICWF_USB_RX_URBS
  NumBufs,      \* the buffers aicwf_prealloc_init allocates
  MaxTriggers,  \* bound on the triggers the thread has not consumed
  MaxStranded,  \* bound on the times the thread leaves frames behind
  Faults        \* what may go wrong: "submit", "status", "drop", "memory", "suspend"

\* There are more buffers than urbs (1000 and 20).
ASSUME SizesAssumption ==
  /\ NumUrbs \in Nat \ {0} /\ NumBufs \in Nat /\ NumBufs > NumUrbs
  /\ MaxTriggers \in Nat \ {0} /\ MaxStranded \in Nat

ASSUME FaultsAssumption ==
  Faults \subseteq {"submit", "status", "drop", "memory", "suspend"}

VARIABLES
  usb,           \* usb_dev.state; bus_if.state is down exactly when this is
  ready,         \* usb_dev.rwnx_hw is there
  free,          \* the length of rx_free_list
  submitted,     \* rx_urb_cnt, the urbs the USB core has
  pool,          \* the length of aic_rx_buff_list
  rxq,           \* rxq.qcnt
  rx_cnt,        \* rx_priv.rx_cnt
  busrx_trgg,    \* the triggers of the completion
  rx_urb_sched,  \* a submission found no buffer
  rx_urb_work,   \* the work is scheduled
  busrx,         \* where the busrx thread is
  at,            \* where each submitter is
  stranded       \* history: returns of the thread that left the count behind

urbVars    == <<free, submitted, pool>>
queueVars  == <<rxq, rx_cnt, busrx_trgg>>
schedVars  == <<rx_urb_sched, rx_urb_work>>
vars == <<usb, ready, urbVars, queueVars, schedVars, busrx, at, stranded>>

\* The completion handler, the work, and probe or resume.
Submitters == {"irq", "work", "pm"}

\* Where a submitter holds an urb, and where it also holds a buffer.
HasUrb    == {"check", "count", "test", "put", "putstop", "fill", "submit"}
HasBuffer == {"check", "submit"}
Places    == HasUrb \cup {"idle", "look", "get", "flag"}

\* The first preparation follows the start of the bus; on chips without a
\* message endpoint it precedes the initialisation of the platform.
Init ==
  /\ usb = "UP" /\ ready \in BOOLEAN
  /\ free = NumUrbs /\ submitted = 0 /\ pool = NumBufs
  /\ rxq = 0 /\ rx_cnt = 0 /\ busrx_trgg = 0
  /\ rx_urb_sched = FALSE /\ rx_urb_work = FALSE
  /\ busrx = "wait"
  /\ at = [s \in Submitters |-> IF s = "pm" THEN "look" ELSE "idle"]
  /\ stranded = 0

Move(s, p, q) == at[s] = p /\ at' = [at EXCEPT ![s] = q]

-----------------------------------------------------------------------------
(* Submitting every free urb: aicwf_usb_rx_submit_all_urb. *)

look(s) ==
  /\ Move(s, "look", IF usb = "UP" THEN "get" ELSE "idle")
  /\ UNCHANGED <<usb, ready, urbVars, queueVars, schedVars, busrx, stranded>>

\* With no urb left on the list, all are submitted.
rx_buf_get(s) ==
  /\ Move(s, "get", IF free > 0 THEN "fill" ELSE "idle")
  /\ free' = IF free > 0 THEN free - 1 ELSE free
  /\ UNCHANGED <<usb, ready, submitted, pool, queueVars, schedVars, busrx, stranded>>

\* Slip: the urb is not put back when there is no buffer.
submit_rx_urb_keeps(s) ==
  /\ \/ usb # "UP" /\ Move(s, "fill", "idle") /\ free' = free + 1 /\ UNCHANGED pool
     \/ usb = "UP" /\ pool = 0 /\ Move(s, "fill", "flag") /\ UNCHANGED <<free, pool>>
     \/ usb = "UP" /\ pool > 0 /\ Move(s, "fill", "submit") /\ pool' = pool - 1 /\ UNCHANGED free
  /\ UNCHANGED <<usb, ready, submitted, queueVars, schedVars, busrx, stranded>>

\* The urb goes back to the list when the device is not up or no buffer is left.
submit_rx_urb(s) ==
  /\ \/ usb # "UP" /\ Move(s, "fill", "idle") /\ free' = free + 1 /\ UNCHANGED pool
     \/ usb = "UP" /\ pool = 0 /\ Move(s, "fill", "flag") /\ free' = free + 1 /\ UNCHANGED pool
     \/ usb = "UP" /\ pool > 0 /\ Move(s, "fill", "submit") /\ pool' = pool - 1 /\ UNCHANGED free
  /\ UNCHANGED <<usb, ready, submitted, queueVars, schedVars, busrx, stranded>>

\* Slip: the lack of a buffer is not noted.
flag_nothing(s) ==
  /\ Move(s, "flag", "idle")
  /\ UNCHANGED <<usb, ready, urbVars, queueVars, schedVars, busrx, stranded>>

\* The lack of a buffer is noted for the thread, after the urb was put back.
\* Nothing orders the note against the thread: it may come behind the last
\* frame, where nobody looks, or just before the thread clears an older one.
flag(s) ==
  /\ Move(s, "flag", "idle")
  /\ rx_urb_sched' = TRUE
  /\ UNCHANGED <<usb, ready, urbVars, queueVars, rx_urb_work, busrx, stranded>>

\* A submission that fails ends the loop and is not repeated.
usb_submit_urb(s) ==
  /\ \/ Move(s, "submit", "get") /\ submitted' = submitted + 1
        /\ UNCHANGED <<free, pool>>
     \/ "submit" \in Faults /\ Move(s, "submit", "idle")
        /\ free' = free + 1 /\ pool' = pool + 1
        /\ UNCHANGED submitted
  /\ UNCHANGED <<usb, ready, queueVars, schedVars, busrx, stranded>>

SubmitAll(s) ==
  look(s) \/ rx_buf_get(s) \/ submit_rx_urb(s) \/ flag(s) \/ usb_submit_urb(s)

\* The work: schedule_work has no effect while it is scheduled.
rx_urb_work_run ==
  /\ rx_urb_work /\ rx_urb_work' = FALSE
  /\ Move("work", "idle", "look")
  /\ UNCHANGED <<usb, ready, urbVars, queueVars, rx_urb_sched, busrx, stranded>>

-----------------------------------------------------------------------------
(* The completion of a receive urb: aicwf_usb_rx_complete. *)

\* Before the platform is there and after an error of the bus the urb is put
\* back and nothing is submitted; a wrong length or nothing received is
\* passed over.  A suspend ends every urb with an error.
rx_complete ==
  /\ submitted > 0 /\ submitted' = submitted - 1
  /\ \/ /\ ready
        /\ Move("irq", "idle", "check") /\ UNCHANGED pool
     \/ /\ ready
        /\ Move("irq", "idle", "put") /\ pool' = pool + 1
     \/ /\ ~ready \/ "status" \in Faults \/ usb = "DOWN"
        /\ Move("irq", "idle", "putstop") /\ pool' = pool + 1
  /\ UNCHANGED <<usb, ready, free, queueVars, schedVars, busrx, stranded>>

\* The frame is queued, or dropped when the device is not up.
rxbuff_enqueue ==
  /\ IF usb = "UP" THEN rxq' = rxq + 1 /\ Move("irq", "check", "count") /\ UNCHANGED pool
                   ELSE pool' = pool + 1 /\ Move("irq", "check", "putstop") /\ UNCHANGED rxq
  /\ UNCHANGED <<usb, ready, free, submitted, rx_cnt, busrx_trgg, schedVars, busrx, stranded>>

\* The count follows the queue, outside its lock, and is read again.
count ==
  /\ Move("irq", "count", "test")
  /\ rx_cnt' = rx_cnt + 1
  /\ UNCHANGED <<usb, ready, urbVars, rxq, busrx_trgg, schedVars, busrx, stranded>>

test ==
  /\ Move("irq", "test", "put")
  /\ busrx_trgg' = IF rx_cnt = 1 /\ busrx_trgg < MaxTriggers THEN busrx_trgg + 1 ELSE busrx_trgg
  /\ UNCHANGED <<usb, ready, urbVars, rxq, rx_cnt, schedVars, busrx, stranded>>

rx_buf_put ==
  /\ Move("irq", "put", "look") \/ Move("irq", "putstop", "idle")
  /\ free' = free + 1
  /\ UNCHANGED <<usb, ready, submitted, pool, queueVars, schedVars, busrx, stranded>>

Completion == rx_complete \/ rxbuff_enqueue \/ count \/ test \/ rx_buf_put

-----------------------------------------------------------------------------
(* The busrx thread: usb_busrx_thread and aicwf_process_rxframes. *)

\* A trigger consumed while the bus is down ends the thread.
busrx_wake ==
  /\ busrx = "wait" /\ busrx_trgg > 0
  /\ busrx_trgg' = busrx_trgg - 1
  /\ busrx' = IF usb = "DOWN" THEN "stopped" ELSE "loop"
  /\ UNCHANGED <<usb, ready, urbVars, rxq, rx_cnt, schedVars, at, stranded>>

rxbuff_dequeue ==
  /\ busrx = "loop"
  /\ IF rxq = 0 THEN busrx' = "wait" /\ UNCHANGED rxq
                ELSE busrx' = "frame" /\ rxq' = rxq - 1
  /\ UNCHANGED <<usb, ready, urbVars, rx_cnt, busrx_trgg, schedVars, at, stranded>>

\* Slip: a dropped frame stays counted.
rx_frame_uncounted ==
  /\ busrx = "frame" /\ pool' = pool + 1
  /\ \/ busrx' = "freed" /\ UNCHANGED stranded
     \/ "drop" \in Faults /\ busrx' = "loop" /\ UNCHANGED stranded
     \/ "memory" \in Faults /\ stranded < MaxStranded
        /\ busrx' = "wait" /\ stranded' = stranded + 1
  /\ UNCHANGED <<usb, ready, free, submitted, queueVars, schedVars, at>>

\* A frame is handed up.  One that is too long, or for which there is no skb,
\* is dropped without a look at rx_urb_sched.  Without memory for a message
\* the thread leaves the loop, the frame still counted.
rx_frame ==
  /\ busrx = "frame" /\ pool' = pool + 1
  /\ \/ busrx' = "freed" /\ UNCHANGED stranded
     \/ "drop" \in Faults /\ busrx' = "count" /\ UNCHANGED stranded
     \/ "memory" \in Faults /\ stranded < MaxStranded
        /\ busrx' = "wait" /\ stranded' = stranded + 1
  /\ UNCHANGED <<usb, ready, free, submitted, queueVars, schedVars, at>>

\* The work is scheduled first and the note cleared afterwards.
schedule_work ==
  /\ \/ /\ busrx = "freed" /\ rx_urb_sched
        /\ rx_urb_work' = TRUE /\ busrx' = "clear" /\ UNCHANGED rx_urb_sched
     \/ /\ busrx = "freed" /\ ~rx_urb_sched
        /\ busrx' = "count" /\ UNCHANGED schedVars
     \/ /\ busrx = "clear" /\ rx_urb_sched' = FALSE
        /\ busrx' = "count" /\ UNCHANGED rx_urb_work
  /\ UNCHANGED <<usb, ready, urbVars, queueVars, at, stranded>>

discount ==
  /\ busrx = "count" /\ busrx' = "loop"
  /\ rx_cnt' = rx_cnt - 1
  /\ UNCHANGED <<usb, ready, urbVars, rxq, busrx_trgg, schedVars, at, stranded>>

Busrx == busrx_wake \/ rxbuff_dequeue \/ rx_frame \/ schedule_work \/ discount

-----------------------------------------------------------------------------
(* Probe, suspend and resume. *)

platform_init ==
  /\ ~ready /\ ready' = TRUE
  /\ UNCHANGED <<usb, urbVars, queueVars, schedVars, busrx, at, stranded>>

\* A suspend follows the end of the last preparation.
suspend ==
  /\ "suspend" \in Faults /\ at["pm"] = "idle" /\ ready
  /\ \/ usb = "UP" /\ usb' = "SLEEP"
     \/ usb = "SLEEP" /\ usb' = "DOWN"
  /\ UNCHANGED <<ready, urbVars, queueVars, schedVars, busrx, at, stranded>>

\* By then the kernel has ended every urb.
resume ==
  /\ usb = "DOWN" /\ submitted = 0 /\ usb' = "UP"
  /\ Move("pm", "idle", "look")
  /\ UNCHANGED <<ready, urbVars, queueVars, schedVars, busrx, stranded>>

Next ==
  \/ \E s \in Submitters : SubmitAll(s)
  \/ rx_urb_work_run \/ Completion \/ Busrx
  \/ platform_init \/ suspend \/ resume

Spec == Init /\ [][Next]_vars

-----------------------------------------------------------------------------
(* Properties. *)

One(b) == IF b THEN 1 ELSE 0
Held(P) == One(at["irq"] \in P) + One(at["work"] \in P) + One(at["pm"] \in P)

\* Every urb is free, submitted or in one submitter's hands, and every buffer
\* in the pool, with an urb, queued or in somebody's hands (the exits of
\* aicwf_usb_submit_rx_urb, aicwf_usb_rx_complete and aicwf_process_rxframes).
TypeOK ==
  /\ usb \in {"UP", "SLEEP", "DOWN"} /\ ready \in BOOLEAN
  /\ free \in Nat /\ submitted \in Nat /\ pool \in Nat
  /\ free + submitted + Held(HasUrb) = NumUrbs
  /\ pool + submitted + rxq + Held(HasBuffer) + One(busrx = "frame") = NumBufs
  /\ rxq \in Nat /\ rx_cnt \in Int /\ busrx_trgg \in 0 .. MaxTriggers
  /\ rx_urb_sched \in BOOLEAN /\ rx_urb_work \in BOOLEAN
  /\ busrx \in {"wait", "loop", "frame", "freed", "clear", "count", "stopped"}
  /\ at \in [Submitters -> Places]
  /\ stranded \in 0 .. MaxStranded

\* The thread has a trigger, or a completion is about to trigger it.
Triggered ==
  \/ busrx_trgg > 0
  \/ at["irq"] = "count" /\ rx_cnt = 0
  \/ at["irq"] = "test" /\ rx_cnt = 1

\* A queued frame has a thread that will look at it: the thread is running,
\* triggered or about to be, unless it ended during a suspend or left a count
\* behind (rx_cnt counts what is queued, outside the queue's lock, and only a
\* count of one triggers).
FramesAreSeen ==
  rxq > 0 /\ stranded = 0 /\ busrx # "stopped" => busrx # "wait" \/ Triggered

\* Where the thread comes to a look at rx_urb_sched: it has a frame in hand, or
\* it will take one from the queue.
WillLook ==
  \/ busrx \in {"frame", "freed"}
  \/ rxq > 0 /\ busrx \in {"loop", "clear", "count"}
  \/ rxq > 0 /\ busrx = "wait" /\ Triggered

\* An urb is submitted, or is about to be: by a submitter, by the work, or by
\* the work the thread will schedule for a note it does not just clear.
Listening ==
  \/ submitted > 0
  \/ \E s \in Submitters : at[s] # "idle"
  \/ rx_urb_work
  \/ rx_urb_sched /\ busrx # "clear" /\ WillLook

\* The device is up, but no urb is submitted, nor will be before a suspend.
Deaf == usb = "UP" /\ ~Listening

\* A step after which the code submits nothing for the urb or frame in hand: a
\* submission fails, an urb came back with an error or before the platform was
\* there, the thread drops a frame or leaves for want of memory.
GivenUp ==
  \/ \E s \in Submitters : at[s] = "submit" /\ at'[s] = "idle"
  \/ at["irq"] = "putstop" /\ at'["irq"] = "idle"
  \/ busrx = "frame" /\ busrx' # "freed"

\* A note is written that the thread will not look at, or will clear unseen.
MissedNote ==
  \E s \in Submitters :
    at[s] = "flag" /\ at'[s] = "idle" /\ (busrx = "clear" \/ ~WillLook)

\* Of all the steps of completion, work, thread, resume and suspend, only two
\* kinds make a device that is up deaf: the code gives up as above, or, with
\* nothing gone wrong, the lack of a buffer is noted after the thread's last
\* look or cleared unseen (aicwf_usb.c:759 against aicwf_txrxif.c:717-719).
WaysToGoDeaf ==
  [][~Deaf /\ Deaf' => GivenUp \/ MissedNote]_vars
==============================================================================
