-------------------------------- MODULE CmdMgr --------------------------------
(***************************************************************************)
(* The firmware command manager of the aic8800 driver: rwnx_cmds.c and the *)
(* command slots and send path of rwnx_msg_tx.c.                           *)
(*                                                                         *)
(* Any thread asks for a command with rwnx_send_msg.  The command takes a  *)
(* slot of the static pool cmd_array, is appended to the list cmd_mgr.cmds *)
(* and is either pushed to the firmware at once by its caller, who then    *)
(* waits for the confirmation, or deferred to the work queue cmd_wq and    *)
(* reported as sent.  The message thread of the receive path routes every  *)
(* confirmation back to the first listed command waiting for its id.       *)
(*                                                                         *)
(* The spin lock cmd_mgr.lock is explicit: a critical section that calls   *)
(* cmd_complete, or that changes the list, is an acquisition followed by a *)
(* body that releases the lock.  The teardown (cmd_mgr_drain) is not part  *)
(* of this module.                                                         *)
(***************************************************************************)
EXTENDS Integers, FiniteSets, SequencesExt

CONSTANTS
  Callers,      \* the threads that ask for commands
  Worker,       \* the single thread of the work queue cmd_wq
  Rx,           \* the receive thread that delivers the firmware's messages
  None,         \* no thread, no slot
  Ids,          \* the ids of confirmation messages
  Requests,     \* what a caller may ask for: records [id, mode]
  RxRequests,   \* what the receive thread itself may ask for
  Killable,     \* the callers a fatal signal may reach
  Unplugs,      \* whether the device may be unplugged
  PoolSize,     \* RWNX_CMD_ARRAY_SIZE
  MaxQueued     \* RWNX_CMD_MAX_QUEUED

Slots   == 1 .. PoolSize
Senders == Callers \cup {Rx}
Threads == Senders \cup {Worker}

(***************************************************************************)
(* How a command travels.  "plain": confirmed, its caller needs no answer  *)
(* data.  "e2a": the confirmation is copied into the caller's buffer, so   *)
(* the caller waits for an empty list first.  "traffic": ME_TRAFFIC_IND_REQ*)
(* and MM_SET_ARPOFFLOAD_REQ, always deferred.  "force":                   *)
(* cmd_mgr_queue_force_defer.  "nocfm": no confirmation is asked for and   *)
(* the command bypasses the list.                                          *)
(***************************************************************************)
Modes == {"plain", "e2a", "traffic", "force", "nocfm"}

ASSUME ThreadsAssumption ==
  /\ Rx \notin Callers
  /\ Worker \notin Senders
  /\ None \notin Threads \cup Slots
  /\ Killable \subseteq Callers

ASSUME SizesAssumption == PoolSize \in Nat \ {0} /\ MaxQueued \in Nat \ {0}

ASSUME UnplugsAssumption == Unplugs \in BOOLEAN

ASSUME RequestsAssumption ==
  Requests \cup RxRequests \subseteq [id : Ids, mode : Modes]

VARIABLES
  state,      \* cmd_mgr.state
  lock,       \* the thread holding cmd_mgr.lock, or None
  cmds,       \* cmd_mgr.cmds, a list of slots
  queue_sz,   \* cmd_mgr.queue_sz
  awake,      \* the wake lock ws_tx is held
  used,       \* the slots of cmd_array with used = 1
  reqid,      \* cmd.reqid of each slot
  e2a_msg,    \* the slots with a buffer for the answer
  flags,      \* cmd.flags of each slot
  cmdWork,    \* cmdWork is pending on cmd_wq
  usb,        \* usbdev.state
  pc,         \* where each thread is
  cmd,        \* the slot a thread works on, or None
  mode,       \* how the command a thread asks for travels
  killed,     \* the callers a fatal signal has reached
  firmware,   \* the pushed commands the firmware has not answered
  msg         \* the confirmation the receive thread is delivering, or None

mgrVars  == <<state, cmds, queue_sz, awake>>
poolVars == <<used, reqid, e2a_msg>>
envVars  == <<usb, killed>>
fwVars   == <<firmware, msg>>
vars == <<mgrVars, lock, poolVars, flags, cmdWork, pc, cmd, mode, envVars, fwVars>>

Flags == {"WAIT_PUSH", "WAIT_CFM"}

Messages == [slot : Slots \cup {None}, id : Ids \cup {None}]

ASSUME NoneAssumption == None \notin Messages \cup Modes

Init ==
  /\ state = "INITED"
  /\ lock = None
  /\ cmds = <<>>
  /\ queue_sz = 0
  /\ awake = FALSE
  /\ used = {}
  /\ reqid = [s \in Slots |-> None]
  /\ e2a_msg = {}
  /\ flags = [s \in Slots |-> {}]
  /\ cmdWork = FALSE
  /\ usb = "UP"
  /\ pc = [t \in Threads |-> "idle"]
  /\ cmd = [t \in Threads |-> None]
  /\ mode = [t \in Senders |-> None]
  /\ killed = {}
  /\ firmware = <<>>
  /\ msg = None

-----------------------------------------------------------------------------
(* Steps shared by the threads. *)

Goto(t, l) == pc' = [pc EXCEPT ![t] = l]

\* spin_lock_bh(&cmd_mgr->lock), after which t is at l.
Acquire(t, l) ==
  /\ lock = None
  /\ lock' = t
  /\ Goto(t, l)

\* spin_unlock_bh: the lock word is cleared, whoever holds it.
Release == lock' = None

\* The list is as list_del leaves it, queue_sz and the wake lock follow.
list_del(s) ==
  /\ \E i \in DOMAIN cmds : cmds[i] = s /\ cmds' = RemoveAt(cmds, i)
  /\ queue_sz' = queue_sz - 1
  /\ awake' = (awake /\ queue_sz - 1 # 0)

\* aicwf_set_cmd_tx: nothing is sent when the device is down.
aicwf_set_cmd_tx(s) ==
  firmware' = IF usb = "UP"
              THEN Append(firmware, [slot |-> s, id |-> reqid[s]])
              ELSE firmware

\* What the firmware still owes for slot s is owed to nobody once s is freed.
Orphaned(s) ==
  [i \in DOMAIN firmware |->
     IF firmware[i].slot = s THEN [firmware[i] EXCEPT !.slot = None]
                             ELSE firmware[i]]

\* The id and the buffer of a slot neither in use nor listed are dead, the next
\* command overwrites them: they are forgotten here.  Its flags live on.
rwnx_cmd_free(s) ==
  /\ used' = used \ {s}
  /\ firmware' = Orphaned(s)
  /\ msg' = IF msg # None /\ msg.slot = s THEN [msg EXCEPT !.slot = None] ELSE msg
  /\ IF s \in ToSet(cmds)
       THEN UNCHANGED <<reqid, e2a_msg>>
       ELSE reqid' = [reqid EXCEPT ![s] = None] /\ e2a_msg' = e2a_msg \ {s}

\* The call of p returns.
Return(p) ==
  /\ Goto(p, "idle")
  /\ cmd' = [cmd EXCEPT ![p] = None]
  /\ mode' = [mode EXCEPT ![p] = None]

-----------------------------------------------------------------------------
(* The send path, in the thread that asks for the command. *)

RequestsOf(p) == IF p = Rx THEN RxRequests ELSE Requests

\* rwnx_send_msg and rwnx_send_msg1 up to the queueing: rwnx_cmd_malloc takes
\* the lowest free slot; its flags are those of its last use.
rwnx_send_msg(p) ==
  /\ pc[p] = "idle"
  /\ p \notin killed
  /\ usb = "UP"
  /\ \E r \in RequestsOf(p), s \in Slots \ used :
       /\ \A t \in Slots \ used : s <= t
       /\ used' = used \cup {s}
       /\ reqid' = [reqid EXCEPT ![s] = r.id]
       /\ e2a_msg' = IF r.mode = "e2a" THEN e2a_msg \cup {s} ELSE e2a_msg \ {s}
       /\ cmd' = [cmd EXCEPT ![p] = s]
       /\ mode' = [mode EXCEPT ![p] = r.mode]
       /\ Goto(p, "enter")
  /\ UNCHANGED <<mgrVars, lock, flags, cmdWork, envVars, fwVars>>

\* rwnx_send_msg without reqcfm: sent past the list, the slot freed at once.
send_without_cfm(p) ==
  /\ pc[p] = "enter" /\ mode[p] = "nocfm"
  /\ rwnx_cmd_free(cmd[p])
  /\ Return(p)
  /\ UNCHANGED <<mgrVars, lock, flags, cmdWork, envVars>>

\* cmd_mgr_queue, a caller with a buffer: the state is read without the lock,
\* and a crashed manager sends the caller on without taking it.
e2a_check_state(p) ==
  /\ pc[p] = "enter" /\ mode[p] = "e2a"
  /\ Goto(p, IF state = "CRASHED" THEN "queue" ELSE "poll")
  /\ UNCHANGED <<mgrVars, lock, poolVars, flags, cmdWork, cmd, mode, envVars, fwVars>>

\* Slip: the call with a buffer does not wait for an empty list.
e2a_poll_no_wait(p) ==
  /\ pc[p] = "poll"
  /\ Acquire(p, "queue")
  /\ UNCHANGED <<mgrVars, poolVars, flags, cmdWork, cmd, mode, envVars, fwVars>>

\* The lock is kept when the list is empty, else released for a sleep.
e2a_poll(p) ==
  /\ pc[p] = "poll"
  /\ lock = None
  /\ IF cmds = <<>>
       THEN lock' = p /\ Goto(p, "queue")
       ELSE UNCHANGED lock /\ Goto(p, "enter")
  /\ UNCHANGED <<mgrVars, poolVars, flags, cmdWork, cmd, mode, envVars, fwVars>>

queue_lock(p) ==
  /\ pc[p] = "enter" /\ mode[p] \in {"plain", "traffic", "force"}
  /\ Acquire(p, "queue")
  /\ UNCHANGED <<mgrVars, poolVars, flags, cmdWork, cmd, mode, envVars, fwVars>>

\* Slip: the limit is one too high.
QueueFull_late == cmds # <<>> /\ queue_sz = MaxQueued + 1

QueueFull == cmds # <<>> /\ queue_sz = MaxQueued

\* Slip: the error path keeps the lock.
queue_refuse_locked(p) ==
  /\ pc[p] = "queue"
  /\ state = "CRASHED" \/ QueueFull
  /\ rwnx_cmd_free(cmd[p])
  /\ Return(p)
  /\ UNCHANGED <<mgrVars, lock, flags, cmdWork, envVars>>

\* -EPIPE or -ENOMEM: the lock is released and rwnx_send_msg frees the slot.
queue_refuse(p) ==
  /\ pc[p] = "queue"
  /\ state = "CRASHED" \/ QueueFull
  /\ Release
  /\ rwnx_cmd_free(cmd[p])
  /\ Return(p)
  /\ UNCHANGED <<mgrVars, flags, cmdWork, envVars>>

\* Slip: a pushed command that awaits its confirmation defers nobody.
MustDefer_ignores_cfm(p) ==
  \/ mode[p] \in {"traffic", "force"}
  \/ cmds # <<>> /\ "WAIT_PUSH" \in flags[Last(cmds)]

\* A command is deferred by its mode, or behind one not yet confirmed.
MustDefer(p) ==
  \/ mode[p] \in {"traffic", "force"}
  \/ cmds # <<>> /\ flags[Last(cmds)] \cap {"WAIT_PUSH", "WAIT_CFM"} # {}

\* The caller of a deferred command keeps no hold of the slot.
queue_accept(p) ==
  /\ pc[p] = "queue"
  /\ state # "CRASHED" /\ ~QueueFull
  /\ LET s     == cmd[p]
         defer == MustDefer(p)
     IN  /\ flags' = [flags EXCEPT ![s] = @ \cup {"WAIT_CFM"}
                                            \cup (IF defer THEN {"WAIT_PUSH"} ELSE {})]
         /\ cmds' = Append(cmds, s)
         /\ cmd' = [cmd EXCEPT ![p] = IF defer THEN None ELSE s]
         /\ Goto(p, IF defer THEN "defer" ELSE "push")
  /\ awake' = (awake \/ queue_sz = 0)
  /\ queue_sz' = queue_sz + 1
  /\ Release
  /\ UNCHANGED <<state, poolVars, cmdWork, mode, envVars, fwVars>>

\* Deferred: cmd_mgr_queue wakes the worker if it sees one command, reading
\* queue_sz after the unlock; cmd_mgr_queue_force_defer always wakes it.
queue_defer(p) ==
  /\ pc[p] = "defer"
  /\ cmdWork' = (cmdWork \/ mode[p] = "force" \/ queue_sz <= 1)
  /\ Return(p)
  /\ UNCHANGED <<mgrVars, lock, poolVars, flags, envVars, fwVars>>

\* Not deferred: the caller pushes the command itself and waits.
queue_push(p) ==
  /\ p \in Senders
  /\ pc[p] = "push"
  /\ aicwf_set_cmd_tx(cmd[p])
  /\ Goto(p, "wait")
  /\ UNCHANGED <<mgrVars, lock, poolVars, flags, cmdWork, cmd, mode, envVars, msg>>

-----------------------------------------------------------------------------
(* Waiting for the confirmation, for a direct caller and for the worker. *)

\* cmd.complete is done: init_completion goes with setting WAIT_CFM, and
\* cmd_complete with clearing it.
Completed(s) == "WAIT_CFM" \notin flags[s]

wait_completed(t) ==
  /\ pc[t] = "wait"
  /\ Completed(cmd[t])
  /\ Goto(t, "remove")
  /\ UNCHANGED <<mgrVars, lock, poolVars, flags, cmdWork, cmd, mode, envVars, fwVars>>

wait_timed_out(t) ==
  /\ pc[t] = "wait"
  /\ ~Completed(cmd[t])
  /\ Goto(t, "timeout")
  /\ UNCHANGED <<mgrVars, lock, poolVars, flags, cmdWork, cmd, mode, envVars, fwVars>>

\* A fatal signal: the wait returns -ERESTARTSYS, which the caller takes for
\* a completion.
wait_killed(p) ==
  /\ p \in Killable \ killed
  /\ pc[p] = "wait"
  /\ ~Completed(cmd[p])
  /\ killed' = killed \cup {p}
  /\ Goto(p, "remove")
  /\ UNCHANGED <<mgrVars, lock, poolVars, flags, cmdWork, cmd, mode, usb, fwVars>>

remove_lock(t) ==
  /\ pc[t] = "remove"
  /\ Acquire(t, "removing")
  /\ UNCHANGED <<mgrVars, poolVars, flags, cmdWork, cmd, mode, envVars, fwVars>>

remove(t) ==
  /\ pc[t] = "removing"
  /\ list_del(cmd[t])
  /\ Release
  /\ Goto(t, "leave")
  /\ UNCHANGED <<state, poolVars, flags, cmdWork, cmd, mode, envVars, fwVars>>

\* Slip: the worker is not told of the commands left behind.
wake_nobody == UNCHANGED cmdWork

\* A caller that leaves commands behind wakes the worker, reading the list
\* without the lock.
wake_behind == cmdWork' = (cmdWork \/ (cmds # <<>> /\ usb = "UP"))

leave(p) ==
  /\ p \in Senders
  /\ pc[p] = "leave"
  /\ rwnx_cmd_free(cmd[p])
  /\ wake_behind
  /\ Return(p)
  /\ UNCHANGED <<mgrVars, lock, flags, envVars>>

timeout_lock(t) ==
  /\ pc[t] = "timeout"
  /\ Acquire(t, "timing_out")
  /\ UNCHANGED <<mgrVars, poolVars, flags, cmdWork, cmd, mode, envVars, fwVars>>

\* The manager is declared crashed and the command stays on the list,
\* waiting for its confirmation.
crash(t) ==
  /\ pc[t] = "timing_out"
  /\ state' = "CRASHED"
  /\ Release
  /\ UNCHANGED <<cmds, queue_sz, awake, flags, cmdWork, envVars>>

\* cmd_mgr_queue returns -ETIMEDOUT, for which rwnx_send_msg frees the slot.
timed_out(p) ==
  /\ p \in Senders
  /\ crash(p)
  /\ rwnx_cmd_free(cmd[p])
  /\ Return(p)

-----------------------------------------------------------------------------
(* cmd_mgr_task_process, on the work queue. *)

work_start ==
  /\ pc[Worker] = "idle"
  /\ cmdWork
  /\ cmdWork' = FALSE
  /\ Goto(Worker, "scan")
  /\ UNCHANGED <<mgrVars, lock, poolVars, flags, cmd, mode, envVars, fwVars>>

\* Slip: the first deferred command is taken, wherever it stands.
work_scan_all ==
  /\ pc[Worker] = "scan"
  /\ lock = None
  /\ \/ \E i \in DOMAIN cmds :
          /\ "WAIT_PUSH" \in flags[cmds[i]]
          /\ cmd' = [cmd EXCEPT ![Worker] = cmds[i]]
          /\ Goto(Worker, "push")
     \/ UNCHANGED cmd /\ Goto(Worker, "idle")
  /\ UNCHANGED <<mgrVars, lock, poolVars, flags, cmdWork, mode, envVars, fwVars>>

\* "just judge the first": only the head of the list is looked at.
work_scan ==
  /\ pc[Worker] = "scan"
  /\ lock = None
  /\ IF cmds # <<>> /\ "WAIT_PUSH" \in flags[Head(cmds)]
       THEN cmd' = [cmd EXCEPT ![Worker] = Head(cmds)] /\ Goto(Worker, "push")
       ELSE UNCHANGED cmd /\ Goto(Worker, "idle")
  /\ UNCHANGED <<mgrVars, lock, poolVars, flags, cmdWork, mode, envVars, fwVars>>

work_push ==
  /\ pc[Worker] = "push"
  /\ flags' = [flags EXCEPT ![cmd[Worker]] = @ \ {"WAIT_PUSH"}]
  /\ aicwf_set_cmd_tx(cmd[Worker])
  /\ Goto(Worker, "wait")
  /\ UNCHANGED <<mgrVars, lock, poolVars, cmdWork, cmd, mode, envVars, msg>>

\* Slip: the worker forgets the slot.
work_leave_leaks ==
  /\ pc[Worker] = "leave"
  /\ Goto(Worker, "scan")
  /\ cmd' = [cmd EXCEPT ![Worker] = None]
  /\ UNCHANGED <<mgrVars, lock, poolVars, flags, cmdWork, mode, envVars, fwVars>>

\* Slip: one command per work item.
work_leave_stops ==
  /\ pc[Worker] = "leave"
  /\ rwnx_cmd_free(cmd[Worker])
  /\ Goto(Worker, "idle")
  /\ cmd' = [cmd EXCEPT ![Worker] = None]
  /\ UNCHANGED <<mgrVars, lock, flags, cmdWork, mode, envVars>>

\* The command is off the list: its slot is freed and the list looked at again.
work_leave ==
  /\ pc[Worker] = "leave"
  /\ rwnx_cmd_free(cmd[Worker])
  /\ Goto(Worker, "scan")
  /\ cmd' = [cmd EXCEPT ![Worker] = None]
  /\ UNCHANGED <<mgrVars, lock, flags, cmdWork, mode, envVars>>

\* A command that timed out here keeps its slot.
work_timed_out ==
  /\ crash(Worker)
  /\ Goto(Worker, "scan")
  /\ cmd' = [cmd EXCEPT ![Worker] = None]
  /\ UNCHANGED <<poolVars, mode, fwVars>>

-----------------------------------------------------------------------------
(* cmd_mgr_msgind, in the receive thread. *)

\* External: the firmware answers the commands it was sent, the oldest first,
\* each late or never.
receive_cfm ==
  /\ pc[Rx] = "idle"
  /\ firmware # <<>>
  /\ msg' = Head(firmware)
  /\ firmware' = Tail(firmware)
  /\ Goto(Rx, "match")
  /\ UNCHANGED <<mgrVars, lock, poolVars, flags, cmdWork, cmd, mode, envVars>>

match_lock ==
  /\ pc[Rx] = "match"
  /\ Acquire(Rx, "matching")
  /\ UNCHANGED <<mgrVars, poolVars, flags, cmdWork, cmd, mode, envVars, fwVars>>

\* A listed command asking for this id; whether it was pushed is not asked.
Wants(s) == reqid[s] = msg.id /\ "WAIT_CFM" \in flags[s]

\* Slip: the list is searched from its end.
IsMatch_last(i) ==
  /\ i \in DOMAIN cmds
  /\ Wants(cmds[i])
  /\ \A j \in i + 1 .. Len(cmds) : ~Wants(cmds[j])

\* The place of the first such command.
IsMatch(i) ==
  /\ i \in DOMAIN cmds
  /\ Wants(cmds[i])
  /\ \A j \in 1 .. i - 1 : ~Wants(cmds[j])

\* Slip: completing also counts the command off, as in the lines commented out.
cmd_mgr_msgind_counts ==
  /\ pc[Rx] = "matching"
  /\ \E i \in DOMAIN cmds :
       IsMatch(i) /\ flags' = [flags EXCEPT ![cmds[i]] = @ \ {"WAIT_CFM"}]
  /\ queue_sz' = queue_sz - 1
  /\ msg' = None
  /\ Release
  /\ Goto(Rx, "idle")
  /\ UNCHANGED <<state, cmds, awake, poolVars, cmdWork, cmd, mode, envVars, firmware>>

cmd_mgr_msgind ==
  /\ pc[Rx] = "matching"
  /\ \/ \E i \in DOMAIN cmds :
          IsMatch(i) /\ flags' = [flags EXCEPT ![cmds[i]] = @ \ {"WAIT_CFM"}]
     \/ (\A i \in DOMAIN cmds : ~Wants(cmds[i])) /\ UNCHANGED flags
  /\ msg' = None
  /\ Release
  /\ Goto(Rx, "idle")
  /\ UNCHANGED <<mgrVars, poolVars, cmdWork, cmd, mode, envVars, firmware>>

-----------------------------------------------------------------------------

\* The device is unplugged: from now on nothing is sent.
disconnect ==
  /\ Unplugs
  /\ usb = "UP"
  /\ usb' = "DOWN"
  /\ UNCHANGED <<mgrVars, lock, poolVars, flags, cmdWork, pc, cmd, mode, killed, fwVars>>

Send(p) ==
  \/ send_without_cfm(p)
  \/ e2a_check_state(p) \/ e2a_poll(p) \/ queue_lock(p)
  \/ queue_refuse(p) \/ queue_accept(p) \/ queue_defer(p) \/ queue_push(p)
  \/ leave(p) \/ timed_out(p)

Await(t) ==
  wait_completed(t) \/ remove_lock(t) \/ remove(t) \/ wait_timed_out(t) \/ timeout_lock(t)

Work == work_start \/ work_scan \/ work_push \/ work_leave \/ work_timed_out

Deliver == match_lock \/ cmd_mgr_msgind

Next ==
  \/ \E p \in Senders : rwnx_send_msg(p) \/ Send(p) \/ wait_killed(p)
  \/ \E t \in Threads : Await(t)
  \/ Work
  \/ receive_cfm \/ Deliver
  \/ disconnect

Spec == Init /\ [][Next]_vars

(***************************************************************************)
(* Threads run and the spin lock is a queued lock, so a thread that waits  *)
(* for it gets it; a wait of four seconds ends.  No command need be asked  *)
(* for, no confirmation need come.                                         *)
(***************************************************************************)
Fairness ==
  /\ \A p \in Callers : SF_vars(Send(p) \/ Await(p))
  /\ SF_vars(Send(Rx) \/ Await(Rx) \/ Deliver)
  /\ SF_vars(Work \/ Await(Worker))

FairSpec == Spec /\ Fairness

-----------------------------------------------------------------------------
(* Properties. *)

Listed == ToSet(cmds)

PreQueue == {"enter", "poll", "queue"}
Waiting  == {"push", "wait", "remove", "removing", "timeout", "timing_out"}
Critical == {"queue", "removing", "timing_out", "matching"}

Labels == {"idle", "defer", "leave", "scan", "match"} \cup PreQueue \cup Waiting \cup Critical

\* The types of the manager's, the pool's and the threads' variables.
TypeOK ==
  /\ state \in {"INITED", "CRASHED"}
  /\ lock \in Threads \cup {None}
  /\ cmds \in Seq(Slots)
  /\ queue_sz \in Nat
  /\ awake \in BOOLEAN
  /\ used \subseteq Slots
  /\ reqid \in [Slots -> Ids \cup {None}]
  /\ e2a_msg \subseteq Slots
  /\ flags \in [Slots -> SUBSET Flags]
  /\ cmdWork \in BOOLEAN
  /\ usb \in {"UP", "DOWN"}
  /\ pc \in [Threads -> Labels]
  /\ cmd \in [Threads -> Slots \cup {None}]
  /\ mode \in [Senders -> Modes \cup {None}]
  /\ killed \subseteq Killable
  /\ firmware \in Seq(Messages)
  /\ msg \in Messages \cup {None}

\* The list holds each command once, queue_sz is its length and within the
\* limit, and the host is kept awake exactly while commands are listed
\* (list_add_tail, list_del and every update of queue_sz and ws_tx).
QueueSound ==
  /\ IsInjective(cmds)
  /\ queue_sz = Len(cmds)
  /\ queue_sz <= MaxQueued
  /\ awake <=> queue_sz > 0

\* Until the manager crashes, a thread inside a critical section holds the lock.
LockHeld ==
  state = "INITED" => \A t \in Threads : pc[t] \in Critical => lock = t

\* No two threads ever work on one slot, and a slot somebody works on is in
\* use.  Until the manager crashes, a slot is in use exactly while its command
\* is listed or a thread works on it: no command is lost with its slot taken,
\* and none is freed while it is listed (rwnx_cmd_malloc, rwnx_cmd_free).
SlotsAccounted ==
  /\ \A t, u \in Threads : t # u /\ cmd[t] = cmd[u] => cmd[t] = None
  /\ \A t \in Threads : cmd[t] # None => cmd[t] \in used
  /\ state = "INITED" => \A s \in Slots :
       s \in used <=> s \in Listed \/ \E t \in Threads : cmd[t] = s

\* Where a thread is says whether it works on a slot, and whether its command
\* is listed.
SlotByPlace ==
  \A t \in Threads :
    /\ pc[t] \in {"idle", "defer", "scan", "match", "matching"} <=> cmd[t] = None
    /\ pc[t] \in Waiting => cmd[t] \in Listed
    /\ pc[t] = "leave" => cmd[t] \notin Listed
    /\ pc[t] \in PreQueue /\ state = "INITED" => cmd[t] \notin Listed

\* A deferred command is listed, keeps its slot, and is in nobody's hands but
\* the worker's, about to push it.
DeferredKept ==
  \A s \in Slots : "WAIT_PUSH" \in flags[s] =>
    /\ s \in Listed \cap used
    /\ \A t \in Threads : cmd[t] = s => t = Worker /\ pc[t] = "push"

\* The worker never takes the send path, nor a sender the worker's.
Roles ==
  /\ pc[Worker] \notin PreQueue \cup {"defer", "match", "matching"}
  /\ \A p \in Senders : pc[p] # "scan"

\* What SlotsAccounted and QueueSound need to be inductive.
Holding == SlotByPlace /\ DeferredKept /\ Roles

\* The firmware works on one command at a time, as long as the manager has
\* not crashed and no waiting caller was killed (cmd_mgr_queue pushes only
\* behind a confirmed command, the worker only the head of the list).
OneAtATime ==
  state = "INITED" /\ killed = {} =>
    Len(firmware) + (IF msg = None THEN 0 ELSE 1) <= 1

\* Under the same provisos every confirmation reaches the command that asked
\* for it, also when another listed command waits for the same id
\* (cmd_mgr_msgind matches on reqid and WAIT_CFM alone).
AnswersRouted ==
  state = "INITED" /\ killed = {} /\ pc[Rx] \in {"match", "matching"} =>
    \E i \in DOMAIN cmds : IsMatch(i) /\ cmds[i] = msg.slot

\* Until the manager crashes, a listed command that still waits for an answer
\* to copy has its caller inside cmd_mgr_queue: the buffer is never written
\* after the call returned (the wait for an empty list in cmd_mgr_queue).
BufferHasOwner ==
  state = "INITED" =>
    \A s \in Listed \cap e2a_msg : "WAIT_CFM" \in flags[s] =>
      \E p \in Senders : cmd[p] = s /\ pc[p] \in Waiting

Pushed(s) ==
  /\ "WAIT_PUSH" \notin flags[s]
  /\ \A t \in Threads : cmd[t] = s => pc[t] # "push"

\* Commands reach the firmware in the order they were accepted, whether their
\* callers push them or the worker does, a crash of the manager included; a
\* waiting caller that was killed may leave an answer behind that completes a
\* command before it is pushed, and the next one then overtakes it.
PushedInOrder ==
  killed = {} =>
    \A j \in DOMAIN cmds : Pushed(cmds[j]) =>
      \A i \in 1 .. j - 1 : Pushed(cmds[i])

\* A deferred command at the head of the list of a working manager has
\* somebody who will push it: the worker, or a thread about to wake it; as long
\* as no command is deferred for traffic alone, whose callers may each leave the
\* wake-up to the other.
HeadHasPusher ==
  state = "INITED" /\ usb = "UP" /\ cmds # <<>> /\ "WAIT_PUSH" \in flags[Head(cmds)] =>
    \/ cmdWork
    \/ pc[Worker] # "idle"
    \/ \E p \in Senders : pc[p] \in {"defer", "leave"}

\* The commands of the list l from the first one the flags f leave unanswered.
Unanswered(l, f) ==
  SubSeq(l, Min({i \in DOMAIN l : "WAIT_CFM" \in f[l[i]]} \cup {Len(l) + 1}), Len(l))

\* The slots of the answer m being delivered and of those the firmware owes.
UnderWay(m, fw) ==
  (IF m = None THEN <<>> ELSE <<m.slot>>) \o [i \in DOMAIN fw |-> fw[i].slot]

Broken == state = "CRASHED" \/ killed # {} \/ usb = "DOWN"

Service == INSTANCE CmdService WITH
  Commands <- Slots, Capacity <- MaxQueued,
  pending <- IF Broken THEN <<>> ELSE Unanswered(cmds, flags),
  sent <- IF Broken THEN <<>> ELSE UnderWay(msg, firmware),
  failed <- Broken

\* Until a command times out, a waiting caller is killed or the device is
\* unplugged the manager is the service of CmdService: the commands not answered
\* are given to the firmware one at a time and in the order they were accepted,
\* whether caller or worker pushes them, and each answer completes the command it
\* is for, although answered ones are still listed and the search is by id alone
\* (cmd_mgr_queue, cmd_mgr_task_process, cmd_mgr_msgind).
InService == Service!Spec

\* Every deferred command is pushed in the end, unless the manager crashes or
\* the device is unplugged.
DeferredArePushed ==
  \A s \in Slots :
    (s \in Listed /\ "WAIT_PUSH" \in flags[s])
      ~> ("WAIT_PUSH" \notin flags[s] \/ state = "CRASHED" \/ usb = "DOWN")

\* Every call that does not wait for an empty list returns.
CallsReturn ==
  \A p \in Senders : (pc[p] = "enter" /\ mode[p] # "e2a") ~> (pc[p] = "idle")

\* cmd_complete runs under the lock: lockdep_assert_held(&cmd_mgr->lock).
LockdepAssertHeld ==
  /\ pc[Rx] = "matching" /\ (\E i \in DOMAIN cmds : IsMatch(i)) => lock = Rx
  /\ \A t \in Threads :
       pc[t] = "timing_out" /\ ~Completed(cmd[t]) => lock = t

\* The receive thread, which alone delivers confirmations, waits for none.
RxNeverWaits == pc[Rx] # "wait"
===============================================================================
