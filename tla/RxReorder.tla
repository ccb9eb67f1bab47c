------------------------------- MODULE RxReorder -------------------------------
(***************************************************************************)
(* The reordering of received frames, for one station and TID: rwnx_rx.c.  *)
(*                                                                         *)
(* The receive thread gives every frame of a block-ack session to          *)
(* reord_process_unit, which lists it by its 12-bit sequence number and    *)
(* hands up what is in order.  A gap starts reord_timer; its handler       *)
(* schedules reord_timer_work, which gives the gap up.  A frame outside a  *)
(* session flushes the list.                                               *)
(*                                                                         *)
(* A frame is the number n its sender counts; the driver sees SN(n) alone. *)
(* What runs under reord_list_lock is one step.  The end of a station      *)
(* (reord_deinit_sta) is not part of this module.                          *)
(***************************************************************************)
EXTENDS Integers, FiniteSetsExt, SequencesExt

CONSTANTS
  SnMod,        \* the count of sequence numbers, 2^12
  Window,       \* AICWF_REORDER_WINSIZE
  PoolSize,     \* MAX_REORD_RXFRAME
  Ahead,        \* a frame arrives at most this far ahead of the newest one,
  Behind,       \* and at most this far behind it
  Start,        \* the number the sender starts near
  MaxN,         \* bound on the numbers of frames
  None

ASSUME SizesAssumption ==
  /\ Window \in Nat \ {0} /\ PoolSize \in Nat
  /\ SnMod \in Nat \ {0} /\ SnMod % 2 = 0 /\ Window < SnMod \div 2
  /\ MaxN \in Nat /\ Start \in 0 .. MaxN

\* Numbers half the space apart or more cannot be compared.
ASSUME DisorderAssumption ==
  /\ Ahead \in Nat /\ Ahead + Window <= SnMod \div 2
  /\ Behind \in Nat /\ Behind < SnMod \div 2

ASSUME NoneAssumption == None \notin Int

VARIABLES
  enable,       \* preorder_ctrl.enable; FALSE too for a station not yet known
  ind_sn,       \* preorder_ctrl.ind_sn, None for 0xffff
  reord_list,   \* preorder_ctrl.reord_list
  free,         \* the length of rxframes_freequeue
  timer,        \* reord_timer is pending
  handler,      \* where the timer's handler is
  work,         \* reord_timer_work is pending
  worker,       \* where its worker is
  rx,           \* where the receive thread is, and its frame
  frame,
  usb,          \* the device is up
  up,           \* the frames handed up last
  top,          \* history: the newest frame reordered
  missed        \* history: the handler last run scheduled nothing, the device
                \* being down, and the timer has not been started since

ctrlVars  == <<enable, ind_sn, reord_list>>
timerVars == <<timer, handler, work, worker>>
rxVars    == <<rx, frame>>
vars == <<ctrlVars, free, timerVars, rxVars, usb, up, top, missed>>

Init ==
  /\ enable = FALSE /\ ind_sn = None /\ reord_list = <<>>
  /\ free = PoolSize
  /\ timer = FALSE /\ handler = "idle"
  /\ work = FALSE /\ worker = "idle"
  /\ rx = "idle" /\ frame = None
  /\ usb = TRUE
  /\ up = <<>>
  /\ top = Start
  /\ missed = FALSE

-----------------------------------------------------------------------------
(* Sequence numbers. *)

SN(n) == n % SnMod

\* ((a - b) & 0x800) != 0
SN_LESS(a, b) == (a - b) % SnMod >= SnMod \div 2

\* The frames of l that follow ind without a gap.
Following(ind, l) ==
  {n \in ToSet(l) : \A j \in 0 .. (SN(n) - ind) % SnMod :
                     \E k \in ToSet(l) : SN(k) = (ind + j) % SnMod}

\* The loop of reord_rxframes_process, over a list in order: ind is moved past
\* those frames ...
reord_rxframes_process(ind, l) == (ind + Cardinality(Following(ind, l))) % SnMod

\* ... and tells whether a frame is beyond the gap.
Beyond(ind, l) == \E n \in ToSet(l) : SN_LESS(ind, SN(n))

\* How many frames reord_rxframes_ind takes from the front of l.
Due(ind, l) == Cardinality({i \in DOMAIN l : ~SN_LESS(ind, SN(l[i]))})

\* k frames of l are handed up, and go back to the free queue.
HandUp(l, k) ==
  /\ reord_list' = SubSeq(l, k + 1, Len(l))
  /\ up' = IF k = 0 THEN up ELSE SubSeq(l, 1, k)
  /\ free' = free + k

-----------------------------------------------------------------------------
(* The receive thread. *)

\* A frame of a block-ack session arrives.  Without a recv_msdu it is dropped.
rwnx_rxdataind ==
  /\ rx = "idle"
  /\ free > 0
  /\ free' = free - 1
  /\ frame' \in (top - Behind .. top + Ahead) \cap (0 .. MaxN)
  /\ rx' = "lookup"
  /\ UNCHANGED <<ctrlVars, timerVars, usb, up, top, missed>>

\* Handed up past the list: multicast, EAPOL, or no memory for the station.
reord_bypass ==
  /\ rx = "lookup"
  /\ free' = free + 1
  /\ rx' = "idle" /\ frame' = None
  /\ UNCHANGED <<ctrlVars, timerVars, usb, up, top, missed>>

\* The control block is found or made, and enabled, under stas_reord_lock.
reord_lookup ==
  /\ rx = "lookup"
  /\ enable' = TRUE
  /\ ind_sn' = IF enable THEN ind_sn ELSE None
  /\ rx' = "process"
  /\ UNCHANGED <<reord_list, free, timerVars, frame, usb, up, top, missed>>

\* The first frame of a session is the one expected.
Expected == IF ind_sn = None THEN SN(frame) ELSE ind_sn

\* reord_need_check: a frame before the expected one is not reordered ...
IsLate == SN_LESS(SN(frame), Expected)

\* Slip: the window is one too small.
Checked_narrow ==
  LET s    == SN(frame)
      wend == (Expected + Window - 1) % SnMod
  IN  IF s = Expected THEN (s + 1) % SnMod
      ELSE IF SN_LESS(wend, s) THEN (s - (Window - 2)) % SnMod
      ELSE Expected

\* Slip: the window is not moved.
Checked_unmoved ==
  IF SN(frame) = Expected THEN (SN(frame) + 1) % SnMod ELSE Expected

\* ... the expected one moves ind_sn, and so does one beyond the window.
Checked ==
  LET s    == SN(frame)
      wend == (Expected + Window - 1) % SnMod
  IN  IF s = Expected THEN (s + 1) % SnMod
      ELSE IF SN_LESS(wend, s) THEN (s - (Window - 1)) % SnMod
      ELSE Expected

\* reord_rxframe_enqueue: the place of the frame, before the first not less.
Place ==
  LET notLess == {i \in DOMAIN reord_list : ~SN_LESS(SN(reord_list[i]), SN(frame))}
  IN  IF notLess = {} THEN Len(reord_list) + 1 ELSE Min(notLess)

IsDuplicate ==
  Place \in DOMAIN reord_list /\ SN(reord_list[Place]) = SN(frame)

\* A late frame is handed up at once, or dropped if it carries RTP.
process_late ==
  /\ rx = "process" /\ IsLate
  /\ up' \in {up, <<frame>>}
  /\ free' = free + 1
  /\ rx' = "idle" /\ frame' = None
  /\ UNCHANGED <<ctrlVars, timerVars, usb, top, missed>>

\* Slip: the frame is dropped, its recv_msdu forgotten.
process_duplicate_leaks ==
  /\ rx = "process" /\ ~IsLate /\ IsDuplicate
  /\ ind_sn' = Checked
  /\ rx' = "idle" /\ frame' = None
  /\ UNCHANGED <<enable, reord_list, free, timerVars, usb, up, top, missed>>

process_duplicate ==
  /\ rx = "process" /\ ~IsLate /\ IsDuplicate
  /\ ind_sn' = Checked
  /\ free' = free + 1
  /\ rx' = "idle" /\ frame' = None
  /\ UNCHANGED <<enable, reord_list, timerVars, usb, up, top, missed>>

\* The frame is listed, what is in order is handed up, and a gap is timed.
process_listed ==
  /\ rx = "process" /\ ~IsLate /\ ~IsDuplicate
  /\ LET l == InsertAt(reord_list, Place, frame)
     IN  /\ ind_sn' = reord_rxframes_process(Checked, l)
         /\ timer' = Beyond(ind_sn', l)
         /\ HandUp(l, Due(ind_sn', l))
  /\ top' = IF ind_sn = None THEN frame ELSE Max({top, frame})
  /\ rx' = "idle" /\ frame' = None
  /\ missed' = FALSE
  /\ UNCHANGED <<enable, handler, work, worker, usb>>

\* A frame outside a session ends it: the list is handed up whole ...
reord_flush_tid ==
  /\ rx = "idle"
  /\ enable
  /\ HandUp(reord_list, Len(reord_list))
  /\ enable' = FALSE
  /\ rx' = "del_timer"
  /\ UNCHANGED <<ind_sn, timerVars, frame, usb, top, missed>>

\* ... a pending timer is deleted, waiting for its handler ...
flush_timer ==
  /\ rx = "del_timer"
  /\ timer => handler = "idle"
  /\ timer' = FALSE
  /\ rx' = "cancel_work"
  /\ UNCHANGED <<ctrlVars, free, handler, work, worker, frame, usb, up, top, missed>>

\* ... and the work cancelled, waiting for its worker.
flush_work ==
  /\ rx = "cancel_work"
  /\ worker = "idle"
  /\ work' = FALSE
  /\ rx' = "idle"
  /\ UNCHANGED <<ctrlVars, free, timer, handler, worker, frame, usb, up, top, missed>>

-----------------------------------------------------------------------------
(* The timer and its work. *)

timer_fires ==
  /\ timer
  /\ handler = "idle"
  /\ timer' = FALSE
  /\ handler' = "run"
  /\ UNCHANGED <<ctrlVars, free, work, worker, rxVars, usb, up, top, missed>>

\* With the device down nothing is scheduled.
reord_timeout_handler ==
  /\ handler = "run"
  /\ handler' = "idle"
  /\ work' = (work \/ usb)
  /\ missed' = (~usb /\ ~timer)
  /\ UNCHANGED <<ctrlVars, free, timer, worker, rxVars, usb, up, top>>

work_start ==
  /\ work
  /\ worker = "idle"
  /\ work' = FALSE
  /\ worker' = "run"
  /\ UNCHANGED <<ctrlVars, free, timer, handler, rxVars, usb, up, top, missed>>

\* Slip: frames left behind are not timed again.
reord_timeout_worker_once ==
  /\ worker = "run"
  /\ worker' = "idle"
  /\ IF reord_list = <<>>
       THEN UNCHANGED <<ind_sn, reord_list, free, timer, up>>
       ELSE /\ ind_sn' = reord_rxframes_process(SN(Head(reord_list)), reord_list)
            /\ UNCHANGED timer
            /\ HandUp(reord_list, Due(ind_sn', reord_list))
  /\ missed' = FALSE
  /\ UNCHANGED <<enable, handler, work, rxVars, usb, top>>

\* Slip: the gap is not given up.
reord_timeout_worker_unforced ==
  /\ worker = "run"
  /\ worker' = "idle"
  /\ IF reord_list = <<>>
       THEN UNCHANGED <<ind_sn, reord_list, free, timer, up>>
       ELSE /\ ind_sn' = reord_rxframes_process(ind_sn, reord_list)
            /\ timer' = (timer \/ Beyond(ind_sn', reord_list))
            /\ HandUp(reord_list, Due(ind_sn', reord_list))
  /\ missed' = FALSE
  /\ UNCHANGED <<enable, handler, work, rxVars, usb, top>>

\* The first listed frame becomes the expected one; a further gap is timed.
reord_timeout_worker ==
  /\ worker = "run"
  /\ worker' = "idle"
  /\ IF reord_list = <<>>
       THEN UNCHANGED <<ind_sn, reord_list, free, timer, up>>
       ELSE /\ ind_sn' = reord_rxframes_process(SN(Head(reord_list)), reord_list)
            /\ timer' = (timer \/ Beyond(ind_sn', reord_list))
            /\ HandUp(reord_list, Due(ind_sn', reord_list))
  /\ missed' = FALSE
  /\ UNCHANGED <<enable, handler, work, rxVars, usb, top>>

\* aicwf_usb_suspend and aicwf_usb_resume, as far as the handler sees them.
power ==
  /\ usb' = ~usb
  /\ UNCHANGED <<ctrlVars, free, timerVars, rxVars, up, top, missed>>

-----------------------------------------------------------------------------

Process == reord_lookup \/ process_late \/ process_duplicate \/ process_listed

Flush == flush_timer \/ flush_work

Timeout == timer_fires \/ reord_timeout_handler \/ work_start \/ reord_timeout_worker

Next ==
  \/ rwnx_rxdataind \/ reord_bypass \/ Process
  \/ reord_flush_tid \/ Flush
  \/ Timeout
  \/ power

Spec == Init /\ [][Next]_vars

\* Timers fire, works and threads run.  No frame need arrive.
Fairness ==
  /\ WF_vars(Process \/ Flush)
  /\ WF_vars(timer_fires \/ reord_timeout_handler)
  /\ WF_vars(work_start \/ reord_timeout_worker)

FairSpec == Spec /\ Fairness

-----------------------------------------------------------------------------
(* Properties. *)

\* The types of the variables.
TypeOK ==
  /\ enable \in BOOLEAN
  /\ ind_sn \in 0 .. SnMod - 1 \cup {None}
  /\ reord_list \in Seq(0 .. MaxN)
  /\ free \in 0 .. PoolSize
  /\ timer \in BOOLEAN /\ work \in BOOLEAN
  /\ handler \in {"idle", "run"} /\ worker \in {"idle", "run"}
  /\ rx \in {"idle", "lookup", "process", "del_timer", "cancel_work"}
  /\ frame \in 0 .. MaxN \cup {None}
  /\ usb \in BOOLEAN /\ missed \in BOOLEAN
  /\ up \in Seq(0 .. MaxN)
  /\ top \in 0 .. MaxN

\* The number the sender's count gives ind_sn: the newest frame is at most
\* Window - 1 ahead of it, and at least one behind; -1 if there is none.
Floor ==
  IF ~enable \/ ind_sn = None THEN None
  ELSE LET F == {f \in top - Window + 1 .. top + 1 : SN(f) = ind_sn}
       IN  IF F = {} THEN -1 ELSE Min(F)

\* The list is sorted by the sender's count, though only numbers that wrap are
\* compared, and lies inside the window with a gap before its head (the search
\* of reord_rxframe_enqueue, the arithmetic of reord_need_check).
ListSound ==
  /\ \A i, j \in DOMAIN reord_list : i < j => reord_list[i] < reord_list[j]
  /\ Floor # -1
  /\ Floor = None => reord_list = <<>>
  /\ \A i \in DOMAIN reord_list :
       reord_list[i] > Floor /\ reord_list[i] < Floor + Window

\* Every recv_msdu is free, listed or with the receive thread, whichever way
\* its frame goes.
PoolConserved ==
  free + Len(reord_list) + (IF rx \in {"lookup", "process"} THEN 1 ELSE 0) = PoolSize

\* A listed frame never waits for a frame that is lost without a timer or a
\* work to give up the wait (mod_timer in reord_process_unit and in
\* reord_timeout_worker), unless its timer fired while the device was down.
GapIsTimed ==
  reord_list # <<>> /\ ~missed =>
    timer \/ handler = "run" \/ work \/ worker = "run"

Sequencing == INSTANCE Reordering WITH
  Numbers <- 0 .. MaxN, floor <- Floor, held <- ToSet(reord_list)

\* The reordering is Reordering, with the sender's unbounded count in place of
\* sequence numbers that wrap.
InOrder == Sequencing!Spec

Leave == \E n \in ToSet(reord_list) : n \notin ToSet(reord_list')

\* Frames leave the list, from its head, as long as there are any, unless a
\* timer fired while the device was down: no lost frame stops the delivery.
GapsEnd == []<>(reord_list = <<>> \/ missed) \/ []<><<Leave>>_vars
===============================================================================
