# A verification of the ugreen-ax900 driver project

The repository holds a Linux driver for the AIC8800D80 USB Wi-Fi adapter
(`src/src/aic8800-1.0.9`, modules `aic_load_fw` and `aic8800_fdrv`), its
firmware, and the scripts that build, package and install it. The modules in
this directory model the parts whose correctness depends on interleavings,
failures and orderings; TLC checks them on small instances, and TLAPS proves the
properties that matter most for every size.

Paths below are relative to `src/src/aic8800-1.0.9/aic8800_fdrv/` unless they
start with `scripts/`.

The driver is modelled as its Makefile builds it: USB, full MAC, receive
reordering, separate endpoints for messages, preallocated transmit queues. The
SDIO bus, aggregation on the USB bus, tasklets, one queue per station, flow
control per station, beamforming and debugfs are switched off and left out.

## 1. Inventory

| Component | State it keeps | Operations | Who it interacts with | What makes it correct |
|---|---|---|---|---|
| **Command manager** (`rwnx_cmds.c`, send path of `rwnx_msg_tx.c`) | list `cmds`, `queue_sz`, state, spin lock, 40 static slots, work item | send, defer, push, confirm, time out, crash | every thread that sends a message; the message receive thread; the bus | one command at a time, in order; no slot lost; each confirmation reaches its command; callers return |
| **USB bus, transmit** (`aicwf_usb.c`, `aicwf_txrxif.c`) | free and post lists, their counts, `tbusy`, the queues' stop state | send a frame, `usb_bustx_thread`, completion, suspend, resume | transmit queues (above), USB core (below) | no buffer lost; frames in order; stopped queues woken again |
| **Receive reordering** (`rwnx_rx.c`) | per station and TID: list, expected number, timer, work | a frame, the timer, the end of a session, the end of a station | receive thread, station table | frames in the sender's order; no gap waits for ever; no buffer lost |
| **Package installer** (`scripts/install_prebuilt.sh`, `scripts/verify_package.py`) | `install.json`, the installed files, the lock | verify, begin, copy, load, finish | a second run, `scripts/build_from_source.sh`, a loss of power | the record says what the files are; no downgrade; a retry gets through |
| **Transmit queues, power save** (`rwnx_txq.c`, `rwnx_tx.c`) | queue per station and TID, lists per hardware queue, flags, credits, sub-queue state | queue, stop, start, process, retry, confirm, sleep | network stack, bus, firmware events | a queue that can send is listed; a stopped one has a reason; a sub-queue is woken |
| Transmit confirmations (`usb_host.c`) | ring of frames that wait for a confirmation | push, confirm | transmit queues, message thread | no frame lost or confirmed twice |
| **USB bus, receive** (`aicwf_usb.c`, `aicwf_txrxif.c`) | pools of receive urbs and buffers, the receive queue and its count | completion, submit, the work, the receive thread | USB core, receive path | no urb lost; no queued frame unseen; somebody listens |
| USB bus, commands (`aicwf_usb.c`) | one command buffer, one urb, `msg_finished` | send a message | command manager | one message at a time |
| Bus life cycle (`aicwf_usb.c`) | threads, urbs, state of bus and device | probe, disconnect, unload, `cmd_mgr_drain` | everything above | nothing is used after it was freed; nobody waits for a dead device |
| **TCP acknowledgement filter** (`aicwf_tcp_ack.c`) | an entry per connection, held acknowledgements, timers | filter, timeout, ageing | transmit path | an acknowledgement held back, or a newer one, is sent; entries are not shared |
| TDLS, radar, scanning, connection, AP, vendor commands | flags, tables | mostly one command each | command manager | their exchange is the command manager's |
| Firmware loader, platform, configuration | none that lives on | a sequential download, tables, register writes | — | — |
| Package builder, diagnostics | files | sequential scripts | — | — |

### What is hard

* **Concurrency.** Callers, one worker, the receive threads, completion handlers
  in interrupt context, timers and works run against each other under a handful
  of locks, and several decisions are taken outside all of them: the wake-up of
  the worker (`rwnx_cmds.c:237`), the state of the device
  (`aicwf_txrxif.c:276`), the flow control of the bus (`aicwf_usb.c:1884`), the
  resume's look at the post list (`aicwf_usb.c:969`), the count of received
  buffers (`aicwf_usb.c:336`), a sender's look at its transmit queue
  (`rwnx_tx.c:1490`) and at its connection's entry (`aicwf_tcp_ack.c:575`).
* **Failure.** Commands time out, callers are killed while they wait,
  submissions fail, the device sleeps or disappears, an installation is stopped
  or power is lost; each exit has its own clean-up.
* **Ordering.** Commands are pushed by their callers and by the worker, frames
  are dropped in the middle of their list, received frames come in any order
  with numbers that wrap.
* **Liveness.** Deferred commands, stopped queues, listed queues, gaps in the
  reordering, held acknowledgements and the message thread itself all wait for
  somebody to come.

`PROJECT.json` lists each hazard at its line, with the properties aimed at it.
Where the code does run into the hazard, no property can deny it, and the hazard
has a note instead: nothing bounds the callers that need one of the 40 command
slots (`rwnx_msg_tx.c:440`), a failed submission wakes no stopped queue
(`aicwf_usb.c:1216`), and the note `rx_urb_sched` can be missed
(`aicwf_txrxif.c:717`).

## 2. The modules

| Module | What it is |
|---|---|
| `CmdMgr` | the command manager, with its spin lock and all threads |
| `CmdService` | what the manager promises: accepted commands are served one at a time and in order, or the service has failed |
| `MCCmdMgr` | its small instances |
| `CmdMgrProofs` | its theorems |
| `UsbTx` | the transmit side of the bus |
| `FrameQueue` | what the transmit side promises: a bounded queue that keeps its order and may lose frames that wait |
| `MCUsbTx`, `UsbTxProofs` | its instances and theorems |
| `RxReorder` | the reordering of one station and TID |
| `Reordering` | what the reordering promises, in the sender's unbounded count |
| `MCRxReorder`, `RxReorderProofs` | its instance and theorems |
| `UsbRx` | the receive side of the bus, data endpoint |
| `MCUsbRx`, `UsbRxProofs` | its instance and theorems |
| `TxQ` | the transmit queues of one station, on the bus of `UsbTx` seen as `tbusy` |
| `MCTxQ`, `TxQProofs` | its instance and theorems |
| `TcpAck` | the filter of TCP acknowledgements |
| `MCTcpAck`, `TcpAckProofs` | its instance and theorems |
| `Install` | the installer, with everything that writes the same files |
| `Upgrade` | what an installation promises: begun changes are completed, nothing goes backwards |
| `MCInstall`, `InstallProofs` | its instances and theorems |
| `SeqLemmas` | lemmas on `RemoveAt`, `Head` and `Tail` shared by the proofs |

A definition named `..._late`, `..._leaks`, `..._once` and the like, marked
"Slip", is a plausible mistake in the definition below it. It is used by no
specification; putting it in the place of the real definition breaks the
property `PROJECT.json` names, which shows that the property is about the code.

### CmdMgr

`rwnx_send_msg` takes a slot of `cmd_array` and calls `cmd_mgr_queue`. A caller
that wants the answer's data (`"e2a"`) first polls until it sees the list empty
*while it holds the lock*, and keeps the lock (`e2a_check_state`, `e2a_poll`); the
others take it (`queue_lock`). Under the lock the command is refused
(`queue_refuse`) or appended (`queue_accept`), its flags saying whether the
caller pushes it itself (`queue_push`) or leaves it to the work queue
(`queue_defer`). A caller that pushed waits (`wait_completed`, `wait_timed_out`,
`wait_killed`), unlists its command (`remove_lock`, `remove`) or declares the
manager crashed (`timeout_lock`, `timed_out`), and wakes the worker for those behind it
(`leave`). The worker is `work_start` to `work_timed_out`, the receive thread
`receive_cfm`, `match_lock`, `cmd_mgr_msgind`. `disconnect` is an unplugged
device: nothing is sent any more.

* A critical section that calls `cmd_complete` or changes the list is two steps,
  acquisition and body, with the lock as a variable: one thread releases a lock
  it does not hold (`rwnx_cmds.c:165` after the exit at 142), and only an
  explicit lock shows that.
* The deferral, `queue_sz` read after the unlock and `queue_work`, are steps of
  their own: the wake-up depends on what happened in between.
* A slot's flags survive `rwnx_cmd_free`, as in the code (the next command
  only ORs into them). Its id and buffer are forgotten when it is free and not
  listed, since the next command overwrites them.
* An answer the firmware still owes for a freed slot stays owed, to nobody, with
  its id: it may meet a later command with the same id.
* Left out: the `DONE` flag and `result` (nothing in this module reads them),
  `tkn`, the functions `cmd_mgr_llind` (not called on USB), `cmd_mgr_drain` and
  `deinit` (see the plan), and the contents of messages.

### UsbTx

The holder of `tx_lock` is the one sender (`rwnx_tx.c:583` asserts that lock around the push).
`aicwf_frame_tx` looks at the device's state; the frame then takes a buffer,
is posted, triggers the thread and judges the flow control, one step each
because each is under another lock or none. `Bustx` is `usb_bustx_thread` with
`aicwf_usb_tx_process`; `tx_complete` and `complete_flow` the completion;
`Power` the steps of `aicwf_usb_suspend` and `aicwf_usb_resume`.

* A list and its counter change under one lock and are one sequence; of the free
  list only the length matters. Completions of one endpoint come one at a time
  and in order, as the USB core gives them.
* `oops` is the resume using a buffer from a list that is empty by then: the
  bustx thread took the last one (`aicwf_usb.c:969`). It is reachable.
* Left out: removal of the device, the aligned copies of frames, the test of the
  interface being up, the sub-queues a connect event starts.

### RxReorder

A frame carries the number its sender counts, `n`; the driver sees `SN(n)`, its
last 12 bits (here modulo `SnMod`). What runs under `reord_list_lock` is one
step: `process_late`, `process_duplicate`, `process_listed` are the three ways
through `reord_process_unit`, `reord_timeout_worker` is the worker's body. The
timer, its handler (outside the lock) and the work are separate, so that a
handler may still run while the timer is started or deleted again.
`reord_flush_tid`, `flush_timer` and `flush_work` are the end of a session.

* The pool is the 250 `recv_msdu`; a frame without one is dropped by
  `rwnx_rxdataind` (no state changes).
* The loop of `reord_rxframes_process` is stated by its result on a list in
  order, which `ListSound` says it is: the first number that is missing.
* `missed` is history: the handler found the device down and scheduled nothing,
  and the timer has not been started since.
* `top` is history: the newest frame taken into the session. The environment sends frames at most
  `Ahead` in front of it and `Behind` behind it.
* Left out: `reord_deinit_sta`, the access point's resent and forwarded frames,
  the lists of other TIDs, whose only common state is the pool.

### UsbRx

`SubmitAll` is `aicwf_usb_rx_submit_all_urb`, run by the completion (`"irq"`),
the work (`"work"`) and probe or resume (`"pm"`): look at the free list, get a
buffer (`rx_buf_get`, or `flag` when there is none), `usb_submit_urb`. The
completion queues its buffer (`rxbuff_enqueue`), counts it (`count`), triggers
the thread if the count is one (`test`), each a step of its own because each is
under another lock or none. `Busrx` is the thread with
`aicwf_process_rxframes`, up to `schedule_work` and `discount`.

* Only lengths matter: urbs, buffers and frames are alike. The receive queue
  takes twice as many frames as there are buffers
  (`SizesAssumption` has more buffers than urbs, as 1000 and 20 are), so it is
  never full.
* `stranded` counts the returns without memory that leave `rx_cnt` above the
  queue's length (`aicwf_txrxif.c:695`): from then on no count is one, and no
  completion triggers the thread. A trigger that comes while the bus is down
  ends the thread for good. `FramesAreSeen` leaves out both.
* The device can go deaf: up, no urb submitted, and nobody about to submit one
  (`Deaf`). `WaysToGoDeaf` says in which steps, and excuses no step for what
  happened before it. They are those after which the code gives up an urb or a
  frame (`GivenUp`: a submission fails, an urb comes back with an error or before
  the platform is there, a frame is dropped without a look at `rx_urb_sched`, or
  there is no memory for a message), and a race with nothing gone wrong
  (`MissedNote`). A submission that finds no buffer puts its urb back and then
  writes `rx_urb_sched` (`aicwf_usb.c:755`-`760`). If the thread handles every
  queued frame between the two, it does not look again. If the thread has just
  scheduled the work for an older note, it clears the new one with the old
  (`aicwf_txrxif.c:717`-`719`). Both are reachable without any fault: with the
  last urb just completed, nothing is received until the next suspend
  (`DeafUntilSuspend`). The driver's 1000 buffers make the first unlikely. No
  text of the repository speaks of `rx_urb_sched`, so the race is documented
  here and in the hazards, not as a violated claim.
* Left out: the message endpoint (the same protocol with lists of its own), the
  removal of the device.

### TxQ

The queues of one station of an access point. A sender is `rwnx_start_xmit`:
it finds its queue in use, takes `tx_lock`, `queue_skb`, and goes through a pass
(`process_txq` for each listed queue) before it unlocks; the tasklet
(`task_start`, `task_next`) goes through every hardware queue that needs it. The
handlers of firmware indications hold the lock for one action: `ps_enable`,
`ps_disable`, `traffic_req`, `vif_stop`, `vif_start`. `del_station`,
`txq_deinit`, `txq_flush` and `txq_sta_init` are the station's departure, queue
by queue as in the code, and return. `bus_busy` and `bus_free` are the bus of
`UsbTx` stopping and waking all sub-queues.

* A pass is one action per queue: what happens in it is under `tx_lock` but for
  the bus, which may stop and wake sub-queues in between.
* The firmware asks for frames only on an interface that is not stopped, a
  station stays associated for longer than a critical section lasts, and the
  network stack's calls for one sub-queue come one at a time (it locks them).
* `adrift` is history: queues listed without a pass to come: those with more
  frames than credits when a pass ends, those `MM_CSA_TRAFFIC_IND` starts
  (`rwnx_msg_rx.c:545` schedules no tasklet). They wait for the next frame.
* `orphans` is history: sub-queues stopped when their station left.
  `rwnx_txq_init` (`rwnx_txq.c:109`) forgets the flag by which a pass would wake
  them, `rwnx_txq_flush` wakes nobody: the next station with that index finds its
  sub-queue stopped with nothing queued.
* Met on the way and left as it is: an interface stopped in the middle of a
  service period leaves `sp_cnt` above zero, and every later request is ignored
  until the station wakes up (`rwnx_tx.c:208`); a frame queued for a stopped
  queue of a station that has just left is lost when the queue is initialised
  again; when the bus wakes everything it also wakes a sub-queue that its own
  queue had stopped.
* Left out: retries and confirmations (with the signed byte of credits), U-APSD,
  the queues of the interface itself, TDLS.

### TcpAck

A sender is `rwnx_start_xmit` with `filter_send_tcp_ack`: the sweep that takes
old entries back (`tcp_ack_update`, the first thing it does), `tcp_ack_match`,
then `tcp_ack_handle_new` (send at once or hold back) or `tcp_ack_alloc_index`
and `fill_entry`, and for an acknowledgement to be sent `move_tcpack_msg`. A
timer is `timer_fires`, `tcp_ack_timeout` and `intf_tx`. Each critical
section is a step.

* Parsing is left out: an acknowledgement is a connection and a number, which may
  repeat or be older than the last (a forwarded one that was overtaken). The
  push notes of the receive path are a free choice (`quick`): they are set by
  a thread that may come at any time. In this code they are practically never
  set, since `filter_rx_tcp_ack` gets the frame behind its Ethernet header.
* Everything between the release of an entry and the queueing of the frame
  touches nothing of the filter and is part of the step. The station is there
  until the frame is queued.
* An entry with a pending timer, a running handler or a frame being sent does
  not age: that takes four seconds, the timer five milliseconds.
* `shared` and `strayed` are history, and the properties and the run's constraint
  `Sound` go no further. The entry becomes busy only when it is filled, after
  `ack_m.lock` is released (`aicwf_tcp_ack.c:600`, although the header calls it
  "lock for tcp ack alloc and free"): two connections may be given one entry.
  And a sweep may take an entry back between a sender's match and its handling:
  what is held in it then is refused by its own timer, which asks for `busy`.
  Both lose acknowledgements; TCP sends others.
* `drift` is history: a read of an entry that meets its writer is repeated and
  counts again in `max_num` (line 340). At 32 by such counts the filter takes no new
  connection, which costs the filtering but no acknowledgement.
* Two more things the code does that no property denies: acknowledgements with
  more information (type 2) are held like the others, since
  `tcp_ack_handle_new` does not look at the type; duplicates count as not older
  and are thinned out, although TCP counts them.
* Left out: `tcp_ack_deinit`.

### Install

A run of the installer is `start` (the checks before the lock), `flock`,
`begin_install`, the files one by one (`clear_file`, `copy_file`),
`load_modules`, `finish_install`; it may `stop` anywhere.
`begin_install` and `finish_install` are one step each: what they write is the
record alone, by an atomic rename that is synced, and only the holder of the
lock does. Beside them run `build_from_source.sh` (`build_start`, `build_file`:
same files, neither lock nor record), `replace_tree` (the unpacked package
changes under a run), `writeback` and `power_loss`.

* A file lost with the power holds something no package contains, whether it is
  empty or missing: `Partial`. The record survives, being synced.
* Power lost just behind `finish_install` may leave an installed record over
  incomplete files, since the record is synced and the files are not
  (`scripts/verify_package.py:221`). Every package is then refused until somebody
  reviews the machine, as `README.md:81` has it for a record that differs from
  the files. Power lost before that, once begun, leaves a pending record, by
  which the same package is admitted.
* `disturbed` is history: since a run began or finished last somebody else
  changed an installed file or a running installer's tree. Properties that only
  hold undisturbed say so.

## 3. The runs

| Run | Question | Bounds |
|---|---|---|
| `cmd_calls` | Do list, counters and routing hold, is anything lost, doubled, pushed out of order or left behind, when two callers share a confirmation id, one with a buffer, one always deferred, both killed at any point of their wait? Is the manager the service of `CmdService`? | 2 callers, 1 id, limit of 2 listed commands, 4 slots |
| `cmd_live` | Does every deferred command get pushed, every call return? | 1 caller, 5 slots, unplugging |
| `cmd_lockdep` | *violated*: is `cmd_complete` always called under the lock? | as `cmd_calls`, with unplugging |
| `cmd_rxwait` | *violated*: does the receive thread never wait for a confirmation? | the receive thread asks for one command |
| `cmd_lostwake` | *violated*: are always-deferred commands pushed with two callers? | 2 callers |
| `tx_faults` | No buffer lost, order kept, whatever fails? | 4 buffers, 2 kinds of frames, failing submissions, suspends |
| `tx_wake` | Does every stopped queue have a waker, every posted frame a trigger, across suspends, and is every queue the bus stopped woken? | 8 buffers, suspends |
| `rx_reorder` | Does the list stay sorted and inside the window, is the sender's order kept while numbers wrap, is every gap timed and does it end? | 14 numbers, window 4, frames 3 ahead and 1 behind, pool of 4, the device down at any point |
| `txq` | Do flags, lists, stop bits, service periods and sub-queues agree, and is every listed queue on somebody's way? | 2 queues on 1 hardware queue, 2 credits, 1 sender and the tasklet, both stop reasons, sleep, departure and return |
| `usb_rx` | Is every urb and buffer accounted for, is no queued frame unseen, which steps can make a device that is up deaf? | 2 urbs, 3 buffers, every fault |
| `tcp_ack` | Does what is held have a timer, is the allocation's account right, does the newest acknowledgement go out? | 2 connections, 2 entries, 2 acknowledgements each and their repetitions, every second one sent at once, numbers that wrap |
| `install` | Do record and files agree, does an upgrade only go forward, does every run end? | 2 runs, 3 packages, 2 files, one a module |

Why these bounds are enough to be interesting:

* **Two callers and a limit of two** reach a full list, a deferred command in
  front of and behind a direct one, and every race of a caller with the worker
  and the receive thread. At most five slots can be in use at once. `cmd_calls` has
  four, and a fifth call is not made while they are taken; with five the run
  passes too, on 4.1 million states, and the theorems hold for any number. The
  code, with 40 slots for 16 listed commands, runs out only with more than twenty
  calls at work, and then dereferences `NULL` (`rwnx_msg_tx.c:440`). The other
  runs never run out. The
  callers are symmetric in the safety runs.
* `Unplugs` is `FALSE` in the largest run, `cmd_calls`, where unplugging would
  only stop the firmware; it is `TRUE` in the others, and the theorems hold for
  both. The messages deferred while traffic is heavy and
  unconfirmed commands are in `cmd_live`.
* `NumBufs` is at least 4, so that the low water mark (a quarter) is not zero;
  8 gives marks of 2 and 6, with room between them and above. The code has 50 (`AICWF_USB_TX_URBS`), marks of 12 and 36.
* `MaxTriggers` bounds the triggers the thread has not consumed, which in the
  code is the count of a completion: a sender waits at the bound, where in the
  code it would count on. Any positive count has the same effect on the thread.
* Sequence numbers: 14 of them, started at 12 so that they wrap on the way. A
  window of 4 leaves room for a gap behind a gap; frames 3 ahead of the newest
  one are far enough to move it.
  `Ahead + Window <= SnMod \div 2` and `Behind < SnMod \div 2` are the condition
  under which a number that wraps can be compared at all; the standard's window of 64 in 4096
  leaves it far away. `MaxN` bounds the numbers sent.
* `TxQ`: two queues of one list are enough to be listed in front of and behind
  each other, with two credits and up to three frames one of them is left over
  after a pass, and is stopped and restarted by its length (2 and 1).
* `UsbRx`: two urbs, so that one may listen while the other is lost track of; one
  buffer more than urbs, so that all can be queued, a submission finds none, and
  the thread may empty the queue before that is noted.
  `MaxStranded` bounds the returns without memory.
* `TcpAck`: two connections and two entries meet in one entry, fill the table and
  wait for one to age. `MaxDrop` 2 makes holding and sending at once alternate,
  the numbers start just before they wrap, and `MaxDrift` 1 lets the repeated
  count fill the table by itself.
* Two runs of the installer give every race, three packages a later one in both
  numbers and one later in the build number alone.

Deadlock is checked except in the `CmdMgr` runs, which really stop: a manager
that crashed holding calls that poll, or a released foreign lock, leaves nothing to do.

### Violated runs

* `cmd_lostwake`, `rwnx_cmds.c:237`: a caller that deferred reads `queue_sz`
  after its unlock and wakes the worker only if it is at most 1. Two callers
  that both append before either reads see 2: nobody wakes the worker. The file
  says it handles the queueing of commands (line 6), and line 156 waits for the list
  to empty.
* `cmd_lockdep`, `rwnx_cmds.c:142` and `:165`: a caller with a buffer that finds the
  manager crashed leaves its polling loop without the lock and unlocks it all
  the same. Another thread's `cmd_complete` then runs unlocked, against
  `lockdep_assert_held` at line 48.
* `cmd_rxwait`, `rwnx_msg_tx.c:439`: the answer to an external authentication
  request is sent by the receive thread with `nonblock` 0, although
  `is_non_blocking_msg` (line 132) lists that message: the thread waits for a
  confirmation only it can deliver, until the timeout.

## 4. Fairness

* `CmdMgr`: strong fairness of each thread's steps: threads run, and the kernel's
  spin lock is queued, so a thread that waits for it gets it, however often it is
  taken in between.
  The firmware need not answer, since the wait has a timeout. The wait of a
  caller with a buffer for an *empty list* gets no help: other callers may keep
  it from ever seeing one, and `CallsReturn` leaves those calls out.
* `UsbTx`: weak fairness of the sender, the thread and the completions; the USB
  core completes every urb it accepted. `QueuesWake` assumes that from some time on nothing
  is sent while the queues are stopped: frames that do not come through the
  queues could keep the buffers below the mark for ever. It also assumes that suspends
  cease, and speaks of queues stopped by `tbusy`: those `aicwf_frame_tx` stops
  have no waker in the code.
* `RxReorder`: timers fire, works and the receive thread run. No frame need
  arrive.
* `TcpAck`: weak fairness of each sender once it is called, of the timers and
  their handlers. No acknowledgement need be handed down.
* `TxQ` and `UsbRx` state no fairness; their properties say who is about to act.
* `Install`: strong fairness of each run, since it waits for a lock another run
  may take again and again (`flock` queues its waiters).

## 5. What is proved

| Theorem | Says |
|---|---|
| `CmdMgrProofs!TypeCorrect`, `QueueSoundAlways`, `SlotsAccountedAlways`, `LockHeldAlways` | types; the list and its counters agree; no slot is lost or shared; the lock protects the critical sections until the manager crashes |
| `CmdMgrProofs!OneAtATimeAlways`, `AnswersRoutedAlways`, `PushedInOrderAlways` | one command at a time, each answer to its command, all in the order of acceptance, until a waiting caller is killed (the first two: or the manager crashes) |
| `CmdMgrProofs!ImplementsCmdService` | the command manager implements `CmdService` |
| `CmdMgrProofs!BufferHasOwnerAlways`, `HeadHasPusherAlways` | no buffer of a returned call is written until the manager crashes; a deferred head has somebody to push it where nothing is deferred for traffic alone |
| `UsbTxProofs!TypeCorrect`, `BuffersConservedAlways`, `LowIsBusyAlways`, `BusyHasWakerAlways`, `PostedHasTriggerAlways` | every safety property of the transmit side |
| `UsbTxProofs!ImplementsFrameQueue` | the transmit side implements `FrameQueue` |
| `RxReorderProofs!TypeCorrect`, `PoolConservedAlways`, `GapIsTimedAlways` | types; no frame of the pool is lost; no listed frame waits without a timer |
| `RxReorderProofs!ListSoundAlways`, `Implements` | the list is in the sender's order and inside the window; the reordering implements `Reordering` |
| `UsbRxProofs!TypeCorrect`, `FramesAreSeenAlways`, `DeafSteps`, `DeafUntilSuspend` | every property of the receive side: accounts of urbs and buffers, frames seen, the only steps that make the device deaf; and that it then stays deaf until a suspend |
| `TxQProofs!TypeCorrect`, `ReadyIsListedAlways`, `StoppedStaysOffAlways`, `SubqueueHasWakerAlways` | types; a queue that can send is listed, a stopped one only in a service period; a stopped sub-queue has a waker |
| `TxQProofs!ListSoundAlways`, `ListedHasServerAlways`, `SpAccountedAlways` | lists and flags agree; a listed queue is on somebody's way; a sleeping station's counters are the sums over its queues |
| `TcpAckProofs!TypeCorrect`, `AllocSoundAlways`, `HeldHasTimerAlways` | types; the account of the allocation; what is held has a timer |
| `InstallProofs!TypeCorrect`, `InstalledMatchesAlways`, `UndisturbedFinishesAlways` | types; record and files agree; an undisturbed run meets the conditions of `finish_install` |
| `InstallProofs!ImplementsUpgrade` | the installer implements `Upgrade` |

They hold for every number of callers, slots, buffers, frames, runs, packages
and files, under the named assumptions of the modules only: the threads are
distinct and `None` is no thread, slot, message or mode, sizes are positive, requests are of their type
(`CmdMgr`); sizes and faults (`UsbTx`, `UsbRx`, the
latter with more buffers than urbs); sizes and disorder that leave the numbers
compared less than half the space apart (`RxReorder`); sizes and marks that
are ordered (`TxQ`); finitely many connections (`TcpAck`); packages have numbers and are told apart
from the marks of a file (`Install`).

* **CmdMgr.** `QueueSound` is not inductive: `list_del` takes an element only if
  the thread's command is listed, and the wake lock is right only if nothing is
  listed twice. `SlotsAccounted` needs to know where a thread's command is.
  `Holding` says both: by the place a thread is at, whether it has a slot and
  whether that is listed; that a deferred command is listed and in nobody's
  hands but the worker's; and which places belong to which kind of thread. The
  invariant is `TypeOK /\ QueueSound /\ SlotsAccounted /\ Holding`. Types are
  proved first (`TypeStep`); then the list in one of three shapes — unchanged,
  appended to, one removed (`ListChanges`, `QueueStep`); then slots and places
  together (`HoldStep`). `LockHeld` is inductive over the types alone.

  Order and answers are proved over the relation `Before`, "x is listed in
  front of y", so that only three lemmas speak of places in a sequence
  (`ListOrder`, `BeforeDel`, `BeforeAdd`). `DeferredBehind` holds always: behind a
  command whose flags are not clear everything is deferred, and the worker
  pushes the head. While nobody is killed and nothing times out, `AnswerInv`
  adds that a command waits for its confirmation from its acceptance on, and
  that an answer under way belongs to a listed, pushed, unconfirmed command. Two
  such commands, or one and one about to be pushed, would contradict
  `DeferredBehind`: so one answer is under way at most (`PushFindsNone`), and the
  search by id finds the right command (`MatchIsRight`). `PushedAhead` says the
  same of what stands in front of a direct caller's command, and survives a
  crash. `BufferHasOwner` rests on the lock: a caller with a buffer enters
  with the list empty, and nobody changes it before it leaves
  (`BufferOnItsWay`). `HeadHasPusher` is not inductive, because a caller at `defer`
  may see a longer list and wake nobody; `HeadHasWaker` counts only callers that
  wake the worker in any case.

  The refinement of `CmdService` brings these together. Its pending commands are
  the listed ones that are not answered; answered ones stay listed until their
  callers have the lock. `DeferredBehind` makes the answered ones a prefix of the list
  (`UnansweredBegin`), so that accepting appends to the rest (`AcceptAccepts`), what
  is pushed (`PushGives`) and what is answered (`MatchAnswers`) is the first of the rest,
  and a command that leaves the list was not in it (`RemoveStutters`). A time-out,
  a killed caller and an unplugged device are the one step `Fail`.

  `PushedInOrder` was first stated for killed callers too, and two callers never
  violate it. The proof fails where a caller that is killed leaves an answer
  behind: with a third caller that answer completes a command its caller has
  accepted but not pushed, the next one is not deferred, and overtakes it.
  Hence the proviso `killed = {}`.
* **UsbTx.** `BuffersConserved`, `LowIsBusy` and `BusyHasWaker` are inductive
  over the types. `PostedHasTrigger` needs `Triggered`, which extends it to the
  moment before the resume wakes the queues, and `UsbUp`, by which a trigger is
  not consumed by a bus that is down. The refinement maps the thread's taken
  frame in front of the post list; each step is a step of `FrameQueue` or a stutter
  (`QueueStep`).
* **RxReorder.** `PoolConserved` gives the upper bound of `free` in `TypeOK`, and
  both need that a frame in the thread's hand is a frame (`FrameHeld`);
  `GapIsTimed` needs that an ended session left an empty list (`FlushedEmpty`),
  since its timer is deleted. All five are inductive together. The lemmas say
  what the handing up does whatever the list is: it takes a part of it, and the
  whole of it unless a frame is beyond the gap (`DueProperties`), which is when
  the code starts the timer.

  `ListSound` and the refinement rest on a second invariant, `WInv`. While a
  session listens, `ind_sn` is the number `f` of the sender's count that lies
  within a window of the newest frame, and everything listed is between `f` and
  that frame (`FloorIs`), in increasing order; the frame in hand is as near the
  newest as the disorder allows (`NearTop`). All numbers a handler compares are then less than half the space apart, and comparing them modulo
  `SnMod` is comparing them as they were sent (`Less`, `SameNumber`): that is
  the code's use of `SN_LESS` and `SN_EQUAL`, proved for every space and window.
  What is searched, inserted, moved on and handed up is then what `Reordering`
  does with numbers that never wrap: `ArriveUnseen`, `ListedArrives`,
  `LateOrDuplicate`, `WorkGivesUp` and `FlushCloses` each take one kind of step
  to the step of `Reordering` it implements, `TimersUnseen` the rest to
  stutters (`WindowStep`).

  The proof found the assumption on the sizes too weak. `Ahead + Window` may be
  half the space, and with a space of 2, a window of 1 and no frames ahead it is;
  then the frame next to the window is half the space away and `SN_LESS` cannot
  tell which side it is on. `Window < SnMod \div 2` is now assumed; the driver
  has 64 and 2048.
* **UsbRx.** `TypeOK` holds the two accounts and is inductive. `FramesAreSeen`
  needs to know what `rx_cnt` counts (`Counted`): what is queued, what the
  thread has in hand or has not counted down, less the one the completion has
  yet to count; only then is a count of one the right moment to trigger.
  `WaysToGoDeaf` is an action property and needs no more than the accounts: a
  submitter that finds the free list empty leaves urbs submitted or in another's
  hands, since there is at least one.
* **TxQ.** There are three layers. `IInv` does not depend on the order of the
  lists. A service
  period is open only on queues stopped for their station's sleep
  (`LimitIsStopped`) and never grants more than the credits (`Limits`), so a pass
  that leaves frames of a queue that is not stopped leaves it listed, and one that
  leaves frames of a stopped queue takes it off. `VifStops`, `SleepStops` and `FlushedIsGone`
  say what stop bits a valid station's queues may have.

  `LInv` is about the lists. `ListSound` fails for a queue that goes while a
  pass is about to visit it unless that queue is known to be still in front of
  the pass, which takes it off when it comes (`InactiveAhead`); and nothing is in
  front of a pass when the lock is free (`FreeIsIdle`). `ListedHasServer` is an
  argument about places: a queue a pass leaves behind on its list is adrift, and
  what is added while the pass runs goes to the end, which it has yet to reach.

  `SInv` is about the sums. `SpAccounted` holds only while a station sleeps, so
  that the proof needs to know what it falls asleep with: no limits
  (`AwakeNoLimit`). One frame more or less in one queue changes the sum by one
  (the lemmas on `Total`), and a service period deals out what it adds.
* **TcpAck.** `AllocSound` needs that senders about to fill have different
  entries that are not in use (`FillersApart`). `HeldHasTimer` needs
  that what a timer's handler finds it may send: a busy entry (`Emptied`) and
  nothing on its way. `OnItsWay` says who sends: the timer, whose handler is
  then running, or the sender of the entry's own connection, which holds nothing
  meanwhile because it is the only one that could (`Owned`).
* **Install.** `TypeOK` holds by itself. The invariant adds to the two properties that a run behind
  `flock` holds the lock (`Exclusive`), that a run starts with the first file
  (`AtStart`), and what a run has done by each place (`Progress`). The refinement
  shows, from the same invariant, that `begin_install` and `finish_install` are
  `Begin` and `Complete` and that no other step changes the stage, which
  speaks of the files as well as of the record.

Facts about lists and sums need an induction over their length. The theorem of the
library takes the statement as an operator, which no installed prover can instantiate;
`SeqLemmas` states induction over a set instead (`SetInduction`, from the
well-foundedness of `<`), and the statement becomes the set of the numbers it
holds for. `Kept` and `Total` of `TxQ`, recursive functions, are reasoned about
in this way.

### Only model-checked

* Liveness (`DeferredArePushed`, `CallsReturn`, `QueuesWake`, `GapsEnd`,
  `AcksArrive`, `RunsEnd`): fairness and `ENABLED` are out of the prover's reach.
* The models' bounds (`MaxN`, the budgets of frames and faults) are constants of
  the theorems too, so they hold for every bound.

Every safety property and every refinement of a passing run is a theorem.
The type invariants of `UsbTx`, `RxReorder`, `TxQ` and `TcpAck` are proved and in
no run.

## 6. What is not modelled, and why

The confirmations, the command side of the bus and its life cycle are planned
(below). Scanning, remaining on a channel, connection and the access point are
mostly one command each: the exchange is `CmdMgr`'s, the contents are data.
What they keep between two commands is a few flags, some of which go wrong
without any interleaving: a scan whose request fails leaves `scan_request` set
(`rwnx_main.c:2781`), the confirmation of a cancelled scan finishes the next
one (`rwnx_msg_rx.c:704`). TDLS and radar are alike. The firmware loader is a
sequential download over a simpler copy of the command manager. Parsing,
tables, register writes, private commands, the package builder and the
diagnostics have no behaviour beyond one call; they are most of the lines of
this repository.

## 7. Plan

In the order of importance:

1. `CmdTx`: the one command buffer and urb that unconfirmed commands share with
   the others (`aicwf_usb.c:1449`).
2. `BusLife`: probe, disconnect, `cmd_mgr_drain` and `deinit`, the end of a
   station (`reord_deinit_sta`) against timer, work and receive thread, and
   `tcp_ack_deinit`.
3. `TxCfm`: the ring of frames that wait for a confirmation, retries and their
   credits, composed with `TxQ`.
4. Theorems: the safety of 1 to 3.
