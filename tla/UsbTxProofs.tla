------------------------------ MODULE UsbTxProofs ------------------------------
(***************************************************************************)
(* Proofs about the transmit side of the USB bus, for any number of        *)
(* buffers, any frames and any faults.                                     *)
(*                                                                         *)
(* UsbUp says in which phases of a power transition the bus is up, and     *)
(* Triggered extends PostedHasTrigger to the moment before the resume      *)
(* wakes the queues, when the post list was just found empty.              *)
(***************************************************************************)
EXTENDS UsbTx, SeqLemmas

\* The bus is up outside suspend, from the first to the last step of resume.
UsbUp ==
  pm \in {"awake", "stopping", "coming_up", "prepare", "dequeue", "wake", "oops"} => usb = "UP"

Triggered ==
  "submit" \notin Faults /\ pm \in {"awake", "wake"} /\ bustx # "exited" /\ post # <<>> =>
    \/ bustx_trgg > 0
    \/ bustx \in {"process", "dequeue", "submit"}
    \/ sender = "trigger"

-----------------------------------------------------------------------------

\* The water marks: what is below the low one is not above the high one.
LEMMA WaterMarks == LowWater \in Nat /\ HighWater \in Nat /\ LowWater <= HighWater
  BY SizesAssumption DEF LowWater, HighWater

\* All variables keep their types.
LEMMA TypeInvariant == TypeOK /\ [Next]_vars => TypeOK'
<1> SUFFICES ASSUME TypeOK, [Next]_vars PROVE TypeOK'
  OBVIOUS
<1>1. CASE aicwf_frame_tx
  BY <1>1 DEF TypeOK, aicwf_frame_tx, powerVars, flowVars, bustxVars
<1>2. CASE frame_down
  BY <1>2 DEF TypeOK, frame_down, powerVars, bustxVars
<1>3. CASE take_buf
  BY <1>3 DEF TypeOK, take_buf, powerVars, flowVars, bustxVars
<1>4. CASE trigger
  BY <1>4 DEF TypeOK, trigger, powerVars, flowVars, bustxVars
<1>5. CASE flow_ctrl
  BY <1>5 DEF TypeOK, flow_ctrl, powerVars, flowVars, bustxVars
<1>6. CASE post_buf
  BY <1>6 DEF TypeOK, post_buf, powerVars, flowVars, bustxVars
<1>7. CASE bustx_wake
  BY <1>7 DEF TypeOK, bustx_wake, powerVars, flowVars, senderVars
<1>16. CASE enter_bus \/ tx_process
  BY <1>16 DEF TypeOK, enter_bus, tx_process, powerVars, flowVars, senderVars, bustxVars
<1>8. CASE dequeue_buf
  <2>1. post # <<>> => Head(post) \in Frames /\ Tail(post) \in Seq(Frames)
    BY HeadTailProperties DEF TypeOK
  <2> QED
    BY <1>8, <2>1 DEF TypeOK, dequeue_buf, powerVars, flowVars, senderVars
<1>9. CASE usb_submit_urb
  BY <1>9 DEF TypeOK, usb_submit_urb, powerVars, flowVars, senderVars
<1>10. CASE submit_fail
  BY <1>10 DEF TypeOK, submit_fail, powerVars, flowVars, senderVars
<1>11. CASE tx_complete
  <2>1. inflight # <<>> => Tail(inflight) \in Seq(Frames)
    BY HeadTailProperties DEF TypeOK
  <2> QED
    BY <1>11, <2>1 DEF TypeOK, tx_complete, powerVars, flowVars, senderVars, bustxVars
<1>12. CASE complete_flow
  <2>1. CASE free > HighWater /\ tbusy
    BY <1>12, <2>1 DEF TypeOK, complete_flow, powerVars, senderVars, bustxVars
  <2>2. CASE ~(free > HighWater /\ tbusy)
    BY <1>12, <2>2 DEF TypeOK, complete_flow, powerVars, flowVars, senderVars, bustxVars
  <2> QED
    BY <2>1, <2>2
<1>13. CASE prepare_free
  <2>1. post # <<>> => Tail(post) \in Seq(Frames)
    BY HeadTailProperties DEF TypeOK
  <2> QED
    <3>1. CASE post = <<>>
      BY <1>13, <3>1 DEF TypeOK, prepare_free, PmStep, flowVars, senderVars, bustxVars
    <3>2. CASE post # <<>>
      BY <1>13, <2>1, <3>2 DEF TypeOK, prepare_free, PmStep, flowVars, senderVars, bustxVars
    <3> QED
      BY <3>1, <3>2
<1>14. CASE Power /\ ~prepare_free
  <2>1. UNCHANGED <<free, post, inflight, bustx_trgg, tbusy, senderVars, bustxVars, completer>>
    BY <1>14 DEF Power, suspend_stop_queues, suspend_sleep, bus_stop, bus_down, bus_start,
       bus_up, tx_prepare, resume_wake_queues, flowVars
  <2>2. usb' \in {"UP", "SLEEP", "DOWN"} /\ bus' \in {"UP", "DOWN"}
    BY <1>14 DEF Power, suspend_stop_queues, suspend_sleep, bus_stop, bus_down, bus_start,
       bus_up, tx_prepare, resume_wake_queues, TypeOK
  <2>3. pm' \in {"awake", "stopping", "sleeping", "going_down", "asleep",
                 "coming_up", "prepare", "dequeue", "wake", "oops"}
    BY <1>14 DEF Power, suspend_stop_queues, suspend_sleep, bus_stop, bus_down, bus_start,
       bus_up, tx_prepare, resume_wake_queues, PmStep
  <2>4. stopped' = TRUE \/ stopped' = FALSE \/ stopped' = stopped
    BY <1>14 DEF Power, suspend_stop_queues, suspend_sleep, bus_stop, bus_down, bus_start,
       bus_up, tx_prepare, resume_wake_queues, flowVars
  <2> QED
    BY <2>1, <2>2, <2>3, <2>4 DEF TypeOK, senderVars, bustxVars
<1>15. CASE UNCHANGED vars
  BY <1>15 DEF TypeOK, vars, powerVars, flowVars, senderVars, bustxVars
<1> QED
  BY <1>1, <1>2, <1>3, <1>4, <1>5, <1>6, <1>7, <1>8, <1>9, <1>10, <1>11, <1>12, <1>13,
     <1>14, <1>15, <1>16 DEF Next, Send, Bustx

\* The initial states have their types.
LEMMA TypeInit == Init => TypeOK
<1> SUFFICES ASSUME Init PROVE TypeOK
  OBVIOUS
<1>1. free \in Nat /\ post \in Seq(Frames) /\ inflight \in Seq(Frames)
  BY SizesAssumption DEF Init
<1> QED
  BY <1>1 DEF Init, TypeOK

\* In every reachable state the variables have their types.
THEOREM TypeCorrect == Spec => []TypeOK
  BY TypeInit, TypeInvariant, PTL DEF Spec

-----------------------------------------------------------------------------
(* The buffers. *)

\* Each step moves a buffer from one place to the next.
LEMMA ConservedStep == TypeOK /\ BuffersConserved /\ [Next]_vars => BuffersConserved'
<1> SUFFICES ASSUME TypeOK, BuffersConserved, [Next]_vars PROVE BuffersConserved'
  OBVIOUS
<1>0. /\ \A f \in Frames : Len(Append(post, f)) = Len(post) + 1
      /\ Len(Append(inflight, taken)) = Len(inflight) + 1
      /\ post # <<>> => Len(Tail(post)) = Len(post) - 1
      /\ inflight # <<>> => Len(Tail(inflight)) = Len(inflight) - 1
      /\ Len(post) \in Nat /\ Len(inflight) \in Nat
  BY AppendProperties, HeadTailProperties, LenProperties DEF TypeOK
<1>1. CASE aicwf_frame_tx \/ frame_down \/ enter_bus \/ trigger \/ flow_ctrl \/ complete_flow
  <2>1. UNCHANGED <<free, post, inflight, bustx>> /\ (sender = "post" <=> sender' = "post")
    BY <1>1 DEF aicwf_frame_tx, frame_down, enter_bus, trigger, flow_ctrl, complete_flow, senderVars, bustxVars
  <2> QED
    BY <2>1 DEF BuffersConserved
<1>2. CASE take_buf
  BY <1>0, <1>2 DEF TypeOK, BuffersConserved, take_buf, bustxVars
<1>3. CASE post_buf
  BY <1>0, <1>3 DEF TypeOK, BuffersConserved, post_buf, bustxVars
<1>4. CASE bustx_wake \/ tx_process
  BY <1>4 DEF TypeOK, BuffersConserved, bustx_wake, tx_process, senderVars
<1>5. CASE dequeue_buf
  BY <1>0, <1>5 DEF TypeOK, BuffersConserved, dequeue_buf, senderVars
<1>6. CASE usb_submit_urb
  BY <1>0, <1>6 DEF TypeOK, BuffersConserved, usb_submit_urb, senderVars
<1>11. CASE submit_fail
  <2>1. free' = free + 1 /\ bustx = "submit" /\ bustx' # "submit"
        /\ UNCHANGED <<post, inflight, sender>>
    BY <1>11 DEF submit_fail, senderVars
  <2> QED
    BY <1>0, <2>1 DEF TypeOK, BuffersConserved
<1>7. CASE tx_complete
  BY <1>0, <1>7 DEF TypeOK, BuffersConserved, tx_complete, senderVars, bustxVars
<1>8. CASE prepare_free
  <2>1. UNCHANGED <<inflight, sender, bustx>>
    BY <1>8 DEF prepare_free, senderVars, bustxVars
  <2>2. CASE post = <<>>
    BY <1>8, <2>1, <2>2 DEF BuffersConserved, prepare_free
  <2>3. CASE post # <<>>
    BY <1>0, <1>8, <2>1, <2>3 DEF TypeOK, BuffersConserved, prepare_free
  <2> QED
    BY <2>2, <2>3
<1>9. CASE Power /\ ~prepare_free
  BY <1>9 DEF BuffersConserved, Power, suspend_stop_queues, suspend_sleep, bus_stop, bus_down,
     bus_start, bus_up, tx_prepare, resume_wake_queues, senderVars, bustxVars
<1>10. CASE UNCHANGED vars
  BY <1>10 DEF BuffersConserved, vars, senderVars, bustxVars
<1> QED
  BY <1>1, <1>2, <1>3, <1>4, <1>5, <1>6, <1>7, <1>8, <1>9, <1>10, <1>11
  DEF Next, Send, Bustx

\* No buffer is ever lost or used twice, whatever fails.
THEOREM BuffersConservedAlways == Spec => []BuffersConserved
<1>1. Init => BuffersConserved
  BY SizesAssumption DEF Init, BuffersConserved
<1> QED
  BY <1>1, TypeCorrect, ConservedStep, PTL DEF Spec

-----------------------------------------------------------------------------
(* The flow control. *)

\* Only the sender takes a buffer, and it judges the count before it is done;
\* a completion clears tbusy above the high mark only.
LEMMA LowIsBusyStep == TypeOK /\ LowIsBusy /\ [Next]_vars => LowIsBusy'
<1> SUFFICES ASSUME TypeOK, LowIsBusy, [Next]_vars PROVE LowIsBusy'
  OBVIOUS
<1> USE WaterMarks
<1>1. CASE aicwf_frame_tx \/ frame_down \/ enter_bus
  BY <1>1 DEF LowIsBusy, aicwf_frame_tx, frame_down, enter_bus, flowVars
<1>2. CASE take_buf
  BY <1>2 DEF TypeOK, LowIsBusy, take_buf, flowVars
<1>3. CASE post_buf \/ trigger
  BY <1>3 DEF LowIsBusy, post_buf, trigger, flowVars
<1>4. CASE flow_ctrl
  BY <1>4 DEF TypeOK, LowIsBusy, flow_ctrl, flowVars
<1>5. CASE bustx_wake \/ tx_process \/ dequeue_buf \/ usb_submit_urb
  BY <1>5 DEF LowIsBusy, bustx_wake, tx_process, dequeue_buf, usb_submit_urb, flowVars, senderVars
<1>6. CASE submit_fail \/ tx_complete
  BY <1>6 DEF TypeOK, LowIsBusy, submit_fail, tx_complete, flowVars, senderVars
<1>7. CASE complete_flow
  BY <1>7 DEF TypeOK, LowIsBusy, complete_flow, flowVars, senderVars
<1>8. CASE prepare_free
  BY <1>8 DEF TypeOK, LowIsBusy, prepare_free, flowVars, senderVars
<1>9. CASE Power /\ ~prepare_free
  BY <1>9 DEF LowIsBusy, Power, suspend_stop_queues, suspend_sleep, bus_stop, bus_down,
     bus_start, bus_up, tx_prepare, resume_wake_queues, flowVars, senderVars
<1>10. CASE UNCHANGED vars
  BY <1>10 DEF LowIsBusy, vars, flowVars, senderVars
<1> QED
  BY <1>1, <1>2, <1>3, <1>4, <1>5, <1>6, <1>7, <1>8, <1>9, <1>10 DEF Next, Send, Bustx

\* Too few free buffers never go unnoticed.
THEOREM LowIsBusyAlways == Spec => []LowIsBusy
<1>1. Init => LowIsBusy
  BY WaterMarks, SizesAssumption DEF Init, LowIsBusy, LowWater
<1> QED
  BY <1>1, TypeCorrect, LowIsBusyStep, PTL DEF Spec

\* A completion that raises the count above the high mark judges it next, and
\* a resume wakes the queues.
LEMMA BusyHasWakerStep == TypeOK /\ BusyHasWaker /\ [Next]_vars => BusyHasWaker'
<1> SUFFICES ASSUME TypeOK, BusyHasWaker, [Next]_vars,
                    "submit" \notin Faults, pm' = "awake", tbusy', stopped', free' > HighWater
             PROVE  completer' = "flow"
  BY DEF BusyHasWaker
<1> USE WaterMarks
<1>1. CASE aicwf_frame_tx \/ enter_bus \/ post_buf \/ trigger
  BY <1>1 DEF BusyHasWaker, aicwf_frame_tx, enter_bus, post_buf, trigger, flowVars, powerVars
<1>2. CASE frame_down
  BY <1>2 DEF BusyHasWaker, frame_down, powerVars
<1>3. CASE take_buf
  BY <1>3 DEF TypeOK, BusyHasWaker, take_buf, flowVars, powerVars
<1>4. CASE flow_ctrl
  <2>1. free > HighWater /\ free \in Nat
    BY <1>4 DEF flow_ctrl, TypeOK
  <2>2. ~(free < LowWater)
    BY <2>1
  <2>3. UNCHANGED <<tbusy, stopped, pm, completer>>
    BY <1>4, <2>2 DEF flow_ctrl, flowVars, powerVars
  <2> QED
    BY <2>1, <2>3 DEF BusyHasWaker
<1>5. CASE bustx_wake \/ tx_process \/ dequeue_buf \/ usb_submit_urb
  BY <1>5 DEF BusyHasWaker, bustx_wake, tx_process, dequeue_buf, usb_submit_urb, flowVars, powerVars
<1>6. CASE submit_fail \/ tx_complete
  BY <1>6 DEF submit_fail, tx_complete
<1>7. CASE complete_flow
  <2>1. CASE free > HighWater /\ tbusy
    BY <1>7, <2>1 DEF complete_flow
  <2>2. CASE ~(free > HighWater /\ tbusy)
    BY <1>7, <2>2 DEF complete_flow, flowVars
  <2> QED
    BY <2>1, <2>2
<1>8. CASE Power
  <2>1. resume_wake_queues
    BY <1>8 DEF Power, PmStep, suspend_stop_queues, suspend_sleep, bus_stop, bus_down,
       bus_start, bus_up, tx_prepare, prepare_free
  <2> QED
    BY <2>1 DEF resume_wake_queues
<1>10. CASE UNCHANGED vars
  BY <1>10 DEF BusyHasWaker, vars, flowVars, powerVars
<1> QED
  BY <1>1, <1>2, <1>3, <1>4, <1>5, <1>6, <1>7, <1>8, <1>10 DEF Next, Send, Bustx

\* Queues stopped by tbusy are not forgotten above the high water mark.
THEOREM BusyHasWakerAlways == Spec => []BusyHasWaker
<1>1. Init => BusyHasWaker
  BY DEF Init, BusyHasWaker
<1> QED
  BY <1>1, TypeCorrect, BusyHasWakerStep, PTL DEF Spec

-----------------------------------------------------------------------------
(* The bustx thread. *)

\* A power transition brings the bus up before it looks at the list.
LEMMA UsbUpStep == UsbUp /\ [Next]_vars => UsbUp'
<1> SUFFICES ASSUME UsbUp, [Next]_vars PROVE UsbUp'
  OBVIOUS
<1>1. CASE Power
  BY <1>1 DEF UsbUp, Power, PmStep, suspend_stop_queues, suspend_sleep, bus_stop, bus_down,
     bus_start, bus_up, tx_prepare, prepare_free, resume_wake_queues
<1>2. CASE UNCHANGED <<usb, pm>>
  BY <1>2 DEF UsbUp
<1> QED
  BY <1>1, <1>2 DEF Next, Send, Bustx, aicwf_frame_tx, frame_down, enter_bus, take_buf, post_buf,
     trigger, flow_ctrl, bustx_wake, tx_process, dequeue_buf, usb_submit_urb, submit_fail, tx_complete,
     complete_flow, vars, powerVars

\* The sender triggers after it posts, the thread consumes a trigger only to
\* empty the list, and the resume goes on only once it found the list empty.
LEMMA TriggeredStep == TypeOK /\ UsbUp /\ Triggered /\ [Next]_vars => Triggered'
<1> SUFFICES ASSUME TypeOK, UsbUp, Triggered, [Next]_vars, "submit" \notin Faults,
                    pm' \in {"awake", "wake"}, bustx' # "exited", post' # <<>>
             PROVE  \/ bustx_trgg' > 0
                    \/ bustx' \in {"process", "dequeue", "submit"}
                    \/ sender' = "trigger"
  BY DEF Triggered
<1>1. CASE aicwf_frame_tx \/ frame_down \/ enter_bus \/ take_buf \/ flow_ctrl
  BY <1>1 DEF Triggered, aicwf_frame_tx, frame_down, enter_bus, take_buf, flow_ctrl, powerVars, bustxVars
<1>2. CASE post_buf
  BY <1>2 DEF post_buf
<1>3. CASE trigger
  BY <1>3 DEF TypeOK, trigger
<1>4. CASE bustx_wake
  BY <1>4 DEF TypeOK, bustx_wake
<1>5. CASE tx_process
  BY <1>5 DEF UsbUp, tx_process, powerVars
<1>10. CASE dequeue_buf
  <2>1. post # <<>>
    BY <1>10 DEF dequeue_buf
  <2> QED
    BY <1>10, <2>1 DEF dequeue_buf
<1>6. CASE usb_submit_urb
  BY <1>6 DEF usb_submit_urb
<1>7. CASE submit_fail
  BY <1>7 DEF submit_fail
<1>8. CASE tx_complete \/ complete_flow \/ UNCHANGED vars
  BY <1>8 DEF Triggered, tx_complete, complete_flow, vars, powerVars, senderVars, bustxVars
<1>9. CASE Power
  <2>1. (tx_prepare /\ post = <<>>) \/ resume_wake_queues
    BY <1>9 DEF Power, PmStep, suspend_stop_queues, suspend_sleep, bus_stop, bus_down,
       bus_start, bus_up, tx_prepare, prepare_free
  <2>2. CASE tx_prepare /\ post = <<>>
    BY <2>2 DEF tx_prepare
  <2>3. CASE resume_wake_queues
    BY <2>3 DEF Triggered, resume_wake_queues, PmStep, senderVars, bustxVars
  <2> QED
    BY <2>1, <2>2, <2>3
<1> QED
  BY <1>1, <1>2, <1>3, <1>4, <1>5, <1>6, <1>7, <1>8, <1>9, <1>10
  DEF Next, Send, Bustx

\* A posted frame never waits without a trigger.
THEOREM PostedHasTriggerAlways == Spec => []PostedHasTrigger
<1>1. Init => UsbUp /\ Triggered
  BY DEF Init, UsbUp, Triggered
<1>2. Triggered => PostedHasTrigger
  BY DEF Triggered, PostedHasTrigger
<1> QED
  BY <1>1, <1>2, TypeCorrect, UsbUpStep, TriggeredStep, PTL DEF Spec

-----------------------------------------------------------------------------
(* The refinement. *)

\* A frame the bustx thread took waits until it is given, lost or dropped.
LEMMA QueueStep ==
  TypeOK /\ BuffersConserved /\ [Next]_vars => [Queue!Next]_<<Waiting, inflight>>
<1> SUFFICES ASSUME TypeOK, BuffersConserved, [Next]_vars
             PROVE  Queue!Next \/ UNCHANGED <<Waiting, inflight>>
  OBVIOUS
<1>0. /\ post \in Seq(Frames) /\ <<taken>> \in Seq(Frames) /\ Waiting \in Seq(Frames)
      /\ inflight \in Seq(Frames) /\ Len(post) \in Nat /\ Len(inflight) \in Nat
  BY ConcatProperties, LenProperties DEF TypeOK, Waiting
<1>1. CASE UNCHANGED <<post, inflight, bustx, taken>>
  BY <1>1 DEF Waiting
<1>2. CASE post_buf
  <2>1. /\ frame \in Frames /\ post' = Append(post, frame) /\ sender = "post"
        /\ UNCHANGED <<inflight, bustx, taken>>
    BY <1>2 DEF post_buf, bustxVars, TypeOK
  <2>2. Waiting' = Append(Waiting, frame)
    <3>1. CASE bustx = "submit"
      <4>1. <<taken>> \o Append(post, frame) = Append(<<taken>> \o post, frame)
        BY <1>0, <2>1
      <4> QED
        BY <2>1, <3>1, <4>1 DEF Waiting
    <3> QED
      BY <2>1, <3>1 DEF Waiting
  <2>3. Len(Waiting) + Len(inflight) < NumBufs
    <3>1. Len(Waiting) = Len(post) + IF bustx = "submit" THEN 1 ELSE 0
      BY <1>0, ConcatProperties DEF Waiting
    <3> QED
      BY <1>0, <2>1, <3>1 DEF BuffersConserved, TypeOK
  <2>4. Queue!Accept(frame)
    BY <2>1, <2>2, <2>3 DEF Queue!Accept
  <2> QED
    BY <2>1, <2>4 DEF Queue!Next
<1>3. CASE bustx_wake \/ tx_process
  BY <1>3 DEF Waiting, bustx_wake, tx_process
<1>4. CASE dequeue_buf
  <2>1. CASE post # <<>>
    <3>1. bustx' = "submit" /\ Waiting = post /\ taken' = Head(post) /\ post' = Tail(post)
          /\ UNCHANGED inflight
      BY <1>4, <2>1 DEF dequeue_buf, Waiting
    <3>2. Waiting' = <<Head(post)>> \o Tail(post)
      BY <3>1 DEF Waiting
    <3> QED
      BY <1>0, <2>1, <3>1, <3>2, HeadBack
  <2>2. CASE post = <<>>
    BY <1>4, <2>2 DEF dequeue_buf, Waiting
  <2> QED
    BY <2>1, <2>2
<1>5. CASE usb_submit_urb \/ submit_fail
  <2>1. /\ bustx = "submit" /\ bustx' # "submit"
        /\ Waiting = <<taken>> \o post /\ Waiting' = post
    BY <1>5 DEF usb_submit_urb, submit_fail, Waiting, senderVars
  <2>2. Waiting # <<>> /\ Head(Waiting) = taken /\ Tail(Waiting) = post
    BY <1>0, <2>1, FrontBack
  <2>3. CASE usb_submit_urb
    BY <2>1, <2>2, <2>3 DEF usb_submit_urb, Queue!Next, Queue!Give
  <2>4. CASE submit_fail
    <3>1. 1 \in DOMAIN Waiting /\ RemoveAt(Waiting, 1) = Tail(Waiting)
      BY <1>0, <2>2, RemoveAtOne
    <3> QED
      BY <2>1, <2>2, <2>4, <3>1 DEF submit_fail, Queue!Next, Queue!Lose, Queue!RemoveAt, RemoveAt
  <2> QED
    BY <1>5, <2>3, <2>4
<1>6. CASE tx_complete
  BY <1>6 DEF tx_complete, Waiting, bustxVars, Queue!Next, Queue!Finish
<1>7. CASE prepare_free
  <2>1. UNCHANGED <<inflight, bustx, taken>>
    BY <1>7 DEF prepare_free, bustxVars
  <2>2. CASE post = <<>>
    BY <1>7, <2>1, <2>2 DEF prepare_free, Waiting
  <2>3. CASE post # <<>> /\ bustx # "submit"
    <3>1. Waiting = post /\ Waiting' = Tail(post)
      BY <1>7, <2>1, <2>3 DEF prepare_free, Waiting
    <3>2. 1 \in DOMAIN Waiting /\ RemoveAt(Waiting, 1) = Tail(Waiting)
      BY <1>0, <2>3, <3>1, RemoveAtOne
    <3> QED
      BY <2>1, <3>1, <3>2 DEF Queue!Next, Queue!Lose, Queue!RemoveAt, RemoveAt
  <2>4. CASE post # <<>> /\ bustx = "submit"
    <3>1. Waiting = <<taken>> \o post /\ Waiting' = <<taken>> \o Tail(post)
      BY <1>7, <2>1, <2>4 DEF prepare_free, Waiting
    <3>2. 2 \in DOMAIN Waiting /\ RemoveAt(Waiting, 2) = <<taken>> \o Tail(post)
      BY <1>0, <2>4, <3>1, RemoveAtTwo DEF TypeOK
    <3> QED
      BY <2>1, <3>1, <3>2 DEF Queue!Next, Queue!Lose, Queue!RemoveAt, RemoveAt
  <2> QED
    BY <2>2, <2>3, <2>4
<1>8. CASE (Power /\ ~prepare_free) \/ complete_flow \/ UNCHANGED vars
  <2>1. UNCHANGED <<post, inflight, bustx, taken>>
    BY <1>8 DEF Power, suspend_stop_queues, suspend_sleep, bus_stop, bus_down, bus_start,
       bus_up, tx_prepare, resume_wake_queues, complete_flow, vars, bustxVars
  <2> QED
    BY <1>1, <2>1
<1>9. CASE aicwf_frame_tx \/ frame_down \/ enter_bus \/ take_buf \/ trigger \/ flow_ctrl
  <2>1. UNCHANGED <<post, inflight, bustx, taken>>
    BY <1>9 DEF aicwf_frame_tx, frame_down, enter_bus, take_buf, trigger, flow_ctrl, bustxVars
  <2> QED
    BY <1>1, <2>1
<1> QED
  BY <1>2, <1>3, <1>4, <1>5, <1>6, <1>7, <1>8, <1>9 DEF Next, Send, Bustx

\* The transmit side of the bus implements FrameQueue.
THEOREM ImplementsFrameQueue == Spec => InOrder
<1>1. Init => Queue!Init
  BY DEF Init, Queue!Init, Waiting
<1> QED
  BY <1>1, TypeCorrect, BuffersConservedAlways, QueueStep, PTL DEF Spec, InOrder, Queue!Spec
===============================================================================
