--------------------------------- MODULE UsbTx ---------------------------------
(***************************************************************************)
(* The transmit side of the USB bus: aicwf_usb.c and aicwf_txrxif.c, as    *)
(* built (no aggregation, no tasklet, no flow control per station).        *)
(*                                                                         *)
(* Whoever holds tx_lock sends a frame: it takes a buffer from the free    *)
(* list, puts it on the post list, triggers the bustx thread and checks    *)
(* the flow control.  The bustx thread hands posted buffers to the USB     *)
(* core, whose completion returns each one to the free list and may wake   *)
(* the network queues.  The power management of the kernel stops and       *)
(* restarts all this at any point.                                         *)
(*                                                                         *)
(* A list and its counter change under one lock and are one sequence here, *)
(* and of the free list only its length matters.  The removal of the       *)
(* device is not part of this module.                                      *)
(***************************************************************************)
EXTENDS Integers, SequencesExt

CONSTANTS
  Frames,       \* the frames, told apart to see their order
  NumBufs,      \* AICWF_USB_TX_URBS
  Faults,       \* what may go wrong: "submit" (usb_submit_urb), "suspend"
  MaxTriggers   \* bound on the triggers the bustx thread has not consumed

ASSUME SizesAssumption == NumBufs \in Nat \ {0} /\ MaxTriggers \in Nat \ {0}

ASSUME FaultsAssumption == Faults \subseteq {"submit", "suspend"}

LowWater  == NumBufs \div 4

\* Slip: a mark no count exceeds.
HighWater_all == NumBufs

HighWater == LowWater * 3

VARIABLES
  usb,        \* usb_dev.state
  bus,        \* bus_if.state
  free,       \* tx_free_count
  post,       \* the frames on tx_post_list
  inflight,   \* the frames the USB core has
  bustx_trgg, \* the triggers of the completion
  tbusy,      \* usb_dev.tbusy
  stopped,    \* the network queues are stopped
  sender,     \* where the holder of tx_lock is, and its frame
  frame,
  bustx,      \* where the bustx thread is, and the frame it took
  taken,
  completer,  \* where the completion handler is
  pm          \* where suspend and resume are

flowVars   == <<tbusy, stopped>>
powerVars  == <<usb, bus, pm>>
senderVars == <<sender, frame>>
bustxVars  == <<bustx, taken>>
vars == <<powerVars, free, post, inflight, bustx_trgg, flowVars,
          senderVars, bustxVars, completer>>

Init ==
  /\ usb = "UP" /\ bus = "UP" /\ pm = "awake"
  /\ free = NumBufs
  /\ post = <<>> /\ inflight = <<>>
  /\ bustx_trgg = 0
  /\ tbusy = FALSE /\ stopped = FALSE
  /\ sender = "idle" /\ frame \in Frames
  /\ bustx = "wait" /\ taken \in Frames
  /\ completer = "idle"

-----------------------------------------------------------------------------
(* Sending a frame, under tx_lock. *)

\* The state is looked at before the bus is entered.
aicwf_frame_tx ==
  /\ sender = "idle"
  /\ frame' \in Frames
  /\ sender' = IF usb = "DOWN" THEN "down" ELSE "enter"
  /\ UNCHANGED <<powerVars, free, post, inflight, bustx_trgg, flowVars, bustxVars, completer>>

\* The frame is dropped and the queues are stopped, tbusy staying clear.
frame_down ==
  /\ sender = "down"
  /\ stopped' = IF tbusy THEN stopped ELSE TRUE
  /\ sender' = "idle"
  /\ UNCHANGED <<powerVars, free, post, inflight, bustx_trgg, tbusy, frame, bustxVars, completer>>

\* aicwf_usb_bus_txdata: dropped when the device is not up.
enter_bus ==
  /\ sender = "enter"
  /\ sender' = IF usb = "UP" THEN "take" ELSE "idle"
  /\ UNCHANGED <<powerVars, free, post, inflight, bustx_trgg, flowVars, frame, bustxVars, completer>>

\* A buffer from the free list; without one the frame is dropped.
take_buf ==
  /\ sender = "take"
  /\ IF free > 0 THEN sender' = "post" /\ free' = free - 1
                 ELSE sender' = "flow" /\ UNCHANGED free
  /\ UNCHANGED <<powerVars, post, inflight, bustx_trgg, flowVars, frame, bustxVars, completer>>

\* Slip: the newest frame goes first.
post_buf_front ==
  /\ sender = "post"
  /\ post' = <<frame>> \o post
  /\ sender' = "trigger"
  /\ UNCHANGED <<powerVars, free, inflight, bustx_trgg, flowVars, frame, bustxVars, completer>>

post_buf ==
  /\ sender = "post"
  /\ post' = Append(post, frame)
  /\ sender' = "trigger"
  /\ UNCHANGED <<powerVars, free, inflight, bustx_trgg, flowVars, frame, bustxVars, completer>>

\* complete(&bus_if->bustx_trgg).
trigger ==
  /\ sender = "trigger"
  /\ bustx_trgg < MaxTriggers
  /\ bustx_trgg' = bustx_trgg + 1
  /\ sender' = "flow"
  /\ UNCHANGED <<powerVars, free, post, inflight, flowVars, frame, bustxVars, completer>>

\* Below the low water mark the queues are stopped.
flow_ctrl ==
  /\ sender = "flow"
  /\ IF free < LowWater THEN tbusy' = TRUE /\ stopped' = TRUE
                        ELSE UNCHANGED flowVars
  /\ sender' = "idle"
  /\ UNCHANGED <<powerVars, free, post, inflight, bustx_trgg, frame, bustxVars, completer>>

Send == frame_down \/ enter_bus \/ take_buf \/ post_buf \/ trigger \/ flow_ctrl

-----------------------------------------------------------------------------
(* usb_bustx_thread and aicwf_usb_tx_process. *)

\* Slip: one posted frame is not enough to run for.
bustx_wake_few ==
  /\ bustx = "wait"
  /\ bustx_trgg > 0
  /\ bustx_trgg' = bustx_trgg - 1
  /\ \/ bus = "DOWN" /\ bustx' = "exited"
     \/ bus = "UP" /\ Len(post) > 1 /\ bustx' = "process"
     \/ bus = "UP" /\ Len(post) <= 1 /\ bustx' = "wait"
  /\ UNCHANGED <<powerVars, free, post, inflight, flowVars, senderVars, taken, completer>>

\* A trigger consumed while the bus is down ends the thread's loop.
bustx_wake ==
  /\ bustx = "wait"
  /\ bustx_trgg > 0
  /\ bustx_trgg' = bustx_trgg - 1
  /\ \/ bus = "DOWN" /\ bustx' = "exited"
     \/ bus = "UP" /\ post # <<>> /\ bustx' = "process"
     \/ bus = "UP" /\ post = <<>> /\ bustx' = "wait"
  /\ UNCHANGED <<powerVars, free, post, inflight, flowVars, senderVars, taken, completer>>

\* The loop of tx_process goes on while something is posted and the device up.
tx_process ==
  /\ bustx = "process"
  /\ bustx' = IF usb = "UP" /\ post # <<>> THEN "dequeue" ELSE "wait"
  /\ UNCHANGED <<powerVars, free, post, inflight, bustx_trgg, flowVars, senderVars, taken, completer>>

\* The oldest posted buffer, unless the resume took it first.
dequeue_buf ==
  /\ bustx = "dequeue"
  /\ IF post # <<>>
       THEN bustx' = "submit" /\ taken' = Head(post) /\ post' = Tail(post)
       ELSE bustx' = "wait" /\ UNCHANGED <<taken, post>>
  /\ UNCHANGED <<powerVars, free, inflight, bustx_trgg, flowVars, senderVars, completer>>

usb_submit_urb ==
  /\ bustx = "submit"
  /\ inflight' = Append(inflight, taken)
  /\ bustx' = "process"
  /\ UNCHANGED <<powerVars, free, post, bustx_trgg, flowVars, senderVars, taken, completer>>

\* Slip: the buffer of a failed submission is lost.
submit_fail_leaks ==
  /\ "submit" \in Faults
  /\ bustx = "submit"
  /\ bustx' \in {"process", "wait"}
  /\ UNCHANGED <<powerVars, free, post, inflight, bustx_trgg, flowVars, senderVars, taken, completer>>

\* The frame is freed and its buffer returned; -ENODEV ends the loop.  Nobody
\* looks at the high water mark.
submit_fail ==
  /\ "submit" \in Faults
  /\ bustx = "submit"
  /\ free' = free + 1
  /\ bustx' \in {"process", "wait"}
  /\ UNCHANGED <<powerVars, post, inflight, bustx_trgg, flowVars, senderVars, taken, completer>>

Bustx == bustx_wake \/ tx_process \/ dequeue_buf \/ usb_submit_urb

-----------------------------------------------------------------------------
(* aicwf_usb_tx_complete.  The USB core gives the buffers of one endpoint    *)
(* back in order and one at a time.                                          *)

tx_complete ==
  /\ completer = "idle"
  /\ inflight # <<>>
  /\ inflight' = Tail(inflight)
  /\ free' = free + 1
  /\ completer' = "flow"
  /\ UNCHANGED <<powerVars, post, bustx_trgg, flowVars, senderVars, bustxVars>>

\* Slip: the count is judged before the buffer is back on the free list.
complete_flow_before ==
  /\ completer = "flow"
  /\ IF free - 1 > HighWater /\ tbusy THEN tbusy' = FALSE /\ stopped' = FALSE
                                       ELSE UNCHANGED flowVars
  /\ completer' = "idle"
  /\ UNCHANGED <<powerVars, free, post, inflight, bustx_trgg, senderVars, bustxVars>>

\* Above the high water mark the queues are woken, if tbusy stopped them.
complete_flow ==
  /\ completer = "flow"
  /\ IF free > HighWater /\ tbusy THEN tbusy' = FALSE /\ stopped' = FALSE
                                   ELSE UNCHANGED flowVars
  /\ completer' = "idle"
  /\ UNCHANGED <<powerVars, free, post, inflight, bustx_trgg, senderVars, bustxVars>>

-----------------------------------------------------------------------------
(* aicwf_usb_suspend and aicwf_usb_resume, one step per change of state. *)

PmStep(from, to) == pm = from /\ pm' = to

suspend_stop_queues ==
  /\ "suspend" \in Faults
  /\ PmStep("awake", "stopping")
  /\ stopped' = TRUE
  /\ UNCHANGED <<usb, bus, free, post, inflight, bustx_trgg, tbusy, senderVars, bustxVars, completer>>

suspend_sleep ==
  /\ PmStep("stopping", "sleeping")
  /\ usb' = "SLEEP"
  /\ UNCHANGED <<bus, free, post, inflight, bustx_trgg, flowVars, senderVars, bustxVars, completer>>

bus_stop ==
  /\ PmStep("sleeping", "going_down")
  /\ usb' = "DOWN"
  /\ UNCHANGED <<bus, free, post, inflight, bustx_trgg, flowVars, senderVars, bustxVars, completer>>

bus_down ==
  /\ PmStep("going_down", "asleep")
  /\ bus' = "DOWN"
  /\ UNCHANGED <<usb, free, post, inflight, bustx_trgg, flowVars, senderVars, bustxVars, completer>>

bus_start ==
  /\ PmStep("asleep", "coming_up")
  /\ usb' = "UP"
  /\ UNCHANGED <<bus, free, post, inflight, bustx_trgg, flowVars, senderVars, bustxVars, completer>>

bus_up ==
  /\ PmStep("coming_up", "prepare")
  /\ bus' = "UP"
  /\ UNCHANGED <<usb, free, post, inflight, bustx_trgg, flowVars, senderVars, bustxVars, completer>>

\* aicwf_usb_tx_prepare looks at the list, without the lock.
tx_prepare ==
  /\ PmStep("prepare", IF post = <<>> THEN "wake" ELSE "dequeue")
  /\ UNCHANGED <<usb, bus, free, post, inflight, bustx_trgg, flowVars, senderVars, bustxVars, completer>>

\* It frees the oldest posted frame.  Nothing is checked here: with the list
\* emptied meanwhile by the bustx thread it follows a null pointer.
prepare_free ==
  /\ IF post = <<>>
       THEN PmStep("dequeue", "oops") /\ UNCHANGED <<post, free>>
       ELSE PmStep("dequeue", "prepare") /\ post' = Tail(post) /\ free' = free + 1
  /\ UNCHANGED <<usb, bus, inflight, bustx_trgg, flowVars, senderVars, bustxVars, completer>>

resume_wake_queues ==
  /\ PmStep("wake", "awake")
  /\ stopped' = FALSE
  /\ UNCHANGED <<usb, bus, free, post, inflight, bustx_trgg, tbusy, senderVars, bustxVars, completer>>

Power ==
  \/ suspend_stop_queues \/ suspend_sleep \/ bus_stop \/ bus_down
  \/ bus_start \/ bus_up \/ tx_prepare \/ prepare_free \/ resume_wake_queues

-----------------------------------------------------------------------------

Next ==
  \/ aicwf_frame_tx \/ Send
  \/ Bustx \/ submit_fail
  \/ tx_complete \/ complete_flow
  \/ Power

Spec == Init /\ [][Next]_vars

(***************************************************************************)
(* The thread and the handlers run, and the USB core finishes every urb:   *)
(* the device takes it or the transfer fails.  No frame need be sent.      *)
(***************************************************************************)
Fairness ==
  /\ WF_vars(Send) /\ WF_vars(Bustx)
  /\ WF_vars(tx_complete) /\ WF_vars(complete_flow)

FairSpec == Spec /\ Fairness

-----------------------------------------------------------------------------
(* Properties. *)

\* The types of the variables.
TypeOK ==
  /\ usb \in {"UP", "SLEEP", "DOWN"}
  /\ bus \in {"UP", "DOWN"}
  /\ free \in Nat
  /\ post \in Seq(Frames) /\ inflight \in Seq(Frames)
  /\ bustx_trgg \in Nat
  /\ tbusy \in BOOLEAN /\ stopped \in BOOLEAN
  /\ sender \in {"idle", "down", "enter", "take", "post", "trigger", "flow"}
  /\ frame \in Frames
  /\ bustx \in {"wait", "process", "dequeue", "submit", "exited"}
  /\ taken \in Frames
  /\ completer \in {"idle", "flow"}
  /\ pm \in {"awake", "stopping", "sleeping", "going_down", "asleep",
             "coming_up", "prepare", "dequeue", "wake", "oops"}

\* Every buffer is free, posted, with the USB core or in one thread's hands,
\* through failed submissions and power transitions alike.
BuffersConserved ==
  free + Len(post) + Len(inflight)
    + (IF sender = "post" THEN 1 ELSE 0) + (IF bustx = "submit" THEN 1 ELSE 0)
  = NumBufs

\* No sender leaves the buffers below the low water mark without saying so:
\* a free count changed by the sender, the bustx thread, the completion and
\* the resume is judged by two of them only (flow_ctrl in aicwf_usb_bus_txdata,
\* aicwf_usb_tx_complete).
LowIsBusy ==
  free < LowWater => tbusy \/ sender \in {"post", "trigger", "flow"}

\* Once nothing of a power transition is left, queues stopped by tbusy never
\* sit above the high water mark with no completion about to wake them,
\* submissions that fail apart.
BusyHasWaker ==
  "submit" \notin Faults /\ pm = "awake" /\ tbusy /\ stopped /\ free > HighWater =>
    completer = "flow"

\* A posted frame never waits without a trigger: the bustx thread is at it,
\* or will be woken for it.  Not so after a failed submission, or once the
\* thread left its loop.
PostedHasTrigger ==
  "submit" \notin Faults /\ pm = "awake" /\ bustx # "exited" /\ post # <<>> =>
    \/ bustx_trgg > 0
    \/ bustx \in {"process", "dequeue", "submit"}
    \/ sender = "trigger"

\* The frames not yet given to the USB core, oldest first.
Waiting == IF bustx = "submit" THEN <<taken>> \o post ELSE post

Queue == INSTANCE FrameQueue WITH Capacity <- NumBufs, waiting <- Waiting, device <- inflight

\* The bus is a FrameQueue: frames leave in the order they were accepted,
\* whatever fails and whenever the power goes.
InOrder == Queue!Spec

\* Queues the bus stopped are woken again, once suspends cease and unless the
\* bustx thread left its loop, or frames that do not come through the queues
\* (management, power save) keep being sent.
QueuesWake ==
  <>[](pm = "awake" /\ bustx # "exited" /\ (stopped => sender = "idle"))
    => (stopped /\ tbusy ~> ~stopped)
===============================================================================
