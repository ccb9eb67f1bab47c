---------------------------------- MODULE TxQ ----------------------------------
(***************************************************************************)
(* The transmit queues of one station of an access point: rwnx_txq.c and   *)
(* the power save part of rwnx_tx.c.                                       *)
(*                                                                         *)
(* A station has one transmit queue per traffic class.  A queue that has   *)
(* frames and is not stopped is on the list of its hardware queue; a pass  *)
(* over such a list, by a sender or by the tasklet, pushes its frames to   *)
(* the bus.  The firmware's indications stop and start queues: the station *)
(* sleeps, the channel is left, the channel is about to change.  A         *)
(* sleeping station asks for frames, which opens a service period.  The    *)
(* network sub-queue behind a transmit queue is stopped when too many      *)
(* frames wait, and all of them when the bus is busy (module UsbTx).       *)
(*                                                                         *)
(* tx_lock is held from the queueing of a frame to the end of the pass it  *)
(* starts; the handlers of indications hold it for one action.  Frames are *)
(* alike and only counted.  Those that want a confirmation, U-APSD and the *)
(* queues of the interface itself are not part of this module.             *)
(***************************************************************************)
EXTENDS Integers, SequencesExt

CONSTANTS
  NumTxqs,      \* the queues, 1 the one of highest priority (nx_tid_prio)
  NumHwqs,      \* the hardware queues
  HwqOf,        \* rwnx_tid2hwq
  Senders,      \* the processors that may be in rwnx_start_xmit
  Task,         \* the tasklet, as holder of tx_lock
  None,         \* nobody holds tx_lock
  Credits,      \* NX_TXQ_INITIAL_CREDITS
  FlowStop,     \* RWNX_NDEV_FLOW_CTRL_STOP
  FlowRestart,  \* RWNX_NDEV_FLOW_CTRL_RESTART
  HwqSize,      \* the size of a hardware queue
  VifReasons,   \* why the interface may be stopped: STOP_CHAN, STOP_CSA
  Churn,        \* whether the station leaves and comes back
  MaxLen        \* bound on the frames of each queue

Txqs == 1 .. NumTxqs
Hwqs == 1 .. NumHwqs
End  == 0

ASSUME SizesAssumption ==
  /\ NumTxqs \in Nat /\ NumHwqs \in Nat
  /\ HwqOf \in [Txqs -> Hwqs]
  /\ Credits \in Nat \ {0}
  /\ FlowStop \in Nat /\ FlowRestart \in Nat /\ FlowRestart <= FlowStop + 1
  /\ HwqSize \in Nat
  /\ MaxLen \in [Txqs -> Nat]

ASSUME HoldersAssumption ==
  /\ Task \notin Senders /\ None \notin Senders /\ Task # None
  /\ VifReasons \subseteq {"CHAN", "CSA"} /\ Churn \in BOOLEAN

\* The stop bits; STOP_VIF_PS is handled as STOP_CHAN is.
Reasons == VifReasons \cup {"STA_PS"}

VARIABLES
  active,     \* the queues whose idx is not TXQ_INACTIVE
  listed,     \* the queues with RWNX_TXQ_IN_HWQ_LIST
  stops,      \* the stop bits of each queue's status
  flow,       \* the queues with RWNX_TXQ_NDEV_FLOW_CTRL
  len,        \* the length of each sk_list
  limit,      \* push_limit
  sent,       \* pkt_sent
  list,       \* hwq->list
  need,       \* the hardware queues with need_processing
  station,    \* "up" while valid, "leaving" until its queues are gone
  flushing,   \* the queue rwnx_txq_deinit is about to flush, or End
  ps,         \* sta->ps.active
  pkt_ready,
  sp_cnt,
  vifstop,    \* the reasons the interface is stopped for
  lock,       \* the holder of tx_lock
  todo,       \* the hardware queues the tasklet has yet to visit
  cursor,     \* the queue the pass is at, or End
  tasklet,    \* rwnx_hw->task is scheduled
  at,         \* the queue each sender is at, or End
  tbusy,      \* usb_dev.tbusy
  subq,       \* the network sub-queues that are stopped
  adrift,     \* history: queues left on a list with nobody told
  orphans     \* history: sub-queues stopped when their queue went

queueVars   == <<active, listed, stops, flow, len, limit, sent>>
listVars    == <<list, need>>
stationVars == <<station, flushing>>
psVars      == <<ps, pkt_ready, sp_cnt>>
passVars    == <<lock, todo, cursor>>
netVars     == <<tbusy, subq>>
historyVars == <<adrift, orphans>>
vars == <<queueVars, listVars, stationVars, psVars, vifstop, passVars,
          tasklet, at, netVars, historyVars>>

Init ==
  /\ active = Txqs /\ listed = {} /\ flow = {}
  /\ stops = [q \in Txqs |-> {}]
  /\ len = [q \in Txqs |-> 0] /\ limit = [q \in Txqs |-> 0] /\ sent = [q \in Txqs |-> 0]
  /\ list = [h \in Hwqs |-> <<>>] /\ need = {}
  /\ station = "up" /\ flushing = End
  /\ ps = FALSE /\ pkt_ready = 0 /\ sp_cnt = 0
  /\ vifstop = {}
  /\ lock = None /\ todo = {} /\ cursor = End
  /\ tasklet = FALSE
  /\ at = [s \in Senders |-> End]
  /\ tbusy = FALSE /\ subq = {}
  /\ adrift = {} /\ orphans = {}

-----------------------------------------------------------------------------
(* Helpers. *)

Ascending  == [i \in 1 .. NumTxqs |-> i]
Descending == [i \in 1 .. NumTxqs |-> NumTxqs + 1 - i]

\* The elements of l that are in S, in their order.
Kept(l, S) ==
  LET kept[i \in 0 .. Len(l)] ==
        IF i = 0 THEN <<>>
        ELSE IF l[i] \in S THEN Append(kept[i - 1], l[i]) ELSE kept[i - 1]
  IN  kept[Len(l)]

\* The list of h with the queues of S that are not on it appended as they
\* come in order.
Listing(h, S, order) ==
  list[h] \o Kept(order, {q \in S \ listed : HwqOf[q] = h})

\* rwnx_txq_add_to_hw_list for every queue of S.
AddToHwList(S, order) ==
  /\ listed' = listed \cup S
  /\ list' = [h \in Hwqs |-> Listing(h, S, order)]
  /\ need' = need \cup {HwqOf[q] : q \in S \ listed}

\* rwnx_txq_del_from_hw_list for every queue of S.
DelFromHwList(S) ==
  /\ listed' = listed \ S
  /\ list' = [h \in Hwqs |-> Kept(list[h], Txqs \ S)]

\* Slip: a queue without frames is listed too.
Start_empty(S, reason) ==
  LET hit == {q \in S \cap active : reason \in stops[q]}
  IN  /\ stops' = [q \in Txqs |-> IF q \in hit THEN stops[q] \ {reason} ELSE stops[q]]
      /\ AddToHwList({q \in hit : stops[q] = {reason}}, Descending)

\* Slip: the other reasons are forgotten.
Start_any(S, reason) ==
  LET hit == {q \in S \cap active : reason \in stops[q]}
  IN  /\ stops' = [q \in Txqs |-> IF q \in hit THEN stops[q] \ {reason} ELSE stops[q]]
      /\ AddToHwList({q \in hit : len[q] > 0}, Descending)

\* Slip: the status is tested before the bit is cleared.
Start_early(S, reason) ==
  LET hit == {q \in S \cap active : reason \in stops[q]}
  IN  /\ stops' = [q \in Txqs |-> IF q \in hit THEN stops[q] \ {reason} ELSE stops[q]]
      /\ AddToHwList({q \in hit : stops[q] = {} /\ len[q] > 0}, Descending)

\* rwnx_txq_start: what is no longer stopped and has frames is listed.
Start(S, reason) ==
  LET hit == {q \in S \cap active : reason \in stops[q]}
  IN  /\ stops' = [q \in Txqs |-> IF q \in hit THEN stops[q] \ {reason} ELSE stops[q]]
      /\ AddToHwList({q \in hit : stops[q] = {reason} /\ len[q] > 0}, Descending)

\* rwnx_txq_stop.
Stop(S, reason) ==
  /\ stops' = [q \in Txqs |-> IF q \in S \cap active THEN stops[q] \cup {reason} ELSE stops[q]]
  /\ DelFromHwList(S \cap active)

\* The sum of f over the queues.
Total(f) ==
  LET sum[q \in 0 .. NumTxqs] == IF q = 0 THEN 0 ELSE sum[q - 1] + f[q]
  IN  sum[NumTxqs]

\* r comes after q on l, or q is the last.
Follows(l, q, r) ==
  \/ r = End /\ l # <<>> /\ Last(l) = q
  \/ \E i \in 1 .. Len(l) - 1 : l[i] = q /\ l[i + 1] = r

\* r is the first on l, or l is empty.
IsFirst(l, r) == IF l = <<>> THEN r = End ELSE r = Head(l)

-----------------------------------------------------------------------------
(* rwnx_start_xmit.  The network core serialises the calls for one sub-queue *)
(* and makes none while it is stopped.                                       *)

\* The queue is found to be in use, without the lock.
xmit_check(s) ==
  \E q \in active \ subq :
    /\ at[s] = End /\ len[q] < MaxLen[q]
    /\ \A t \in Senders : at[t] # q
    /\ at' = [at EXCEPT ![s] = q]
    /\ UNCHANGED <<queueVars, listVars, stationVars, psVars, vifstop, passVars,
                   tasklet, netVars, historyVars>>

\* Too many frames stop the sub-queue, unless the bus has stopped them all.
FlowControl(q) ==
  IF ~tbusy /\ len[q] + 1 > FlowStop
    THEN flow' = flow \cup {q} /\ subq' = subq \cup {q}
    ELSE UNCHANGED <<flow, subq>>

\* rwnx_txq_queue_skb; a queue that is not stopped is listed and its hardware
\* queue processed at once.
queue_skb(s) ==
  LET q == at[s] IN
    /\ q # End /\ lock = None
    /\ len' = [len EXCEPT ![q] = @ + 1]
    /\ pkt_ready' = IF ps THEN pkt_ready + 1 ELSE pkt_ready
    /\ FlowControl(q)
    /\ \/ /\ stops[q] = {}
          /\ listed' = listed \cup {q}
          /\ list' = [list EXCEPT ![HwqOf[q]] = Listing(HwqOf[q], {q}, <<q>>)]
          /\ need' = need \ {HwqOf[q]}
          /\ lock' = s
          /\ cursor' \in Txqs /\ IsFirst(list'[HwqOf[q]], cursor')
          /\ UNCHANGED at
       \/ /\ stops[q] # {}
          /\ at' = [at EXCEPT ![s] = End]
          /\ UNCHANGED <<listed, listVars, lock, cursor>>
    /\ UNCHANGED <<active, stops, limit, sent, stationVars, ps, sp_cnt, vifstop,
                   todo, tasklet, tbusy, historyVars>>

-----------------------------------------------------------------------------
(* rwnx_hwq_process, by the holder of tx_lock. *)

\* rwnx_txq_get_credits and rwnx_txq_get_skb_to_push: how many frames go.
Allowed(q) == IF limit[q] > 0 /\ Credits > limit[q] THEN limit[q] ELSE Credits

Taken(q) == IF Allowed(q) >= len[q] THEN len[q] ELSE Allowed(q)

\* No more frames, or those taken complete the service period.
Finished(q) == Allowed(q) >= len[q] \/ (limit[q] > 0 /\ Taken(q) = limit[q])

Least(a, b) == IF a < b THEN a ELSE b

\* rwnx_tx_push for each of the frames taken; what remains of a service
\* period that cannot be completed is given up.
Push(q) ==
  LET n    == Taken(q)
      left == limit[q] - Least(n, limit[q])
  IN  /\ len' = [len EXCEPT ![q] = @ - n]
      /\ limit' = [limit EXCEPT ![q] = 0]
      /\ pkt_ready' = IF ps THEN pkt_ready - n ELSE pkt_ready
      /\ sp_cnt' = sp_cnt - (IF ps THEN n ELSE 0) - left

\* Enough frames in a row and another queue has its turn.
Rotated(l) == IF l = <<>> THEN l ELSE Append(Tail(l), Head(l))

Schedule(q) ==
  LET h == HwqOf[q]
      many == sent[q] + Taken(q) > HwqSize
  IN  IF Finished(q)
        THEN DelFromHwList({q}) /\ sent' = [sent EXCEPT ![q] = 0]
        ELSE /\ sent' = [sent EXCEPT ![q] = IF many THEN 0 ELSE @ + Taken(q)]
             /\ list' = [list EXCEPT ![h] = IF many THEN Rotated(@) ELSE @]
             /\ UNCHANGED listed

\* Slip: woken exactly while the bus is busy.
FlowRelease_swapped(q) ==
  IF q \in flow /\ len[q] - Taken(q) < FlowRestart
    THEN /\ flow' = flow \ {q}
         /\ subq' = IF tbusy THEN subq \ {q} ELSE subq
         /\ orphans' = IF tbusy THEN orphans ELSE orphans \ {q}
    ELSE UNCHANGED <<flow, subq, orphans>>

\* With few enough frames left the sub-queue is woken, by the bus if it is busy.
FlowRelease(q) ==
  IF q \in flow /\ len[q] - Taken(q) < FlowRestart
    THEN /\ flow' = flow \ {q}
         /\ subq' = IF tbusy THEN subq ELSE subq \ {q}
         /\ orphans' = IF tbusy THEN orphans ELSE orphans \ {q}
    ELSE UNCHANGED <<flow, subq, orphans>>

process_txq ==
  LET q == cursor IN
    /\ q \in active
    /\ Push(q) /\ Schedule(q) /\ FlowRelease(q)
    /\ cursor' \in Txqs \cup {End} /\ Follows(list[HwqOf[q]], q, cursor')
    /\ adrift' = IF Finished(q) THEN adrift \ {q} ELSE adrift \cup {q}
    /\ UNCHANGED <<active, stops, need, stationVars, ps, vifstop, lock, todo,
                   tasklet, at, tbusy>>

\* A queue that went meanwhile is taken off and flushed.
process_inactive ==
  LET q == cursor IN
    /\ q \in Txqs \ active
    /\ DelFromHwList({q})
    /\ len' = [len EXCEPT ![q] = 0]
    /\ cursor' \in Txqs \cup {End} /\ Follows(list[HwqOf[q]], q, cursor')
    /\ adrift' = adrift \ {q}
    /\ UNCHANGED <<active, stops, flow, limit, sent, need, stationVars, psVars,
                   vifstop, lock, todo, tasklet, at, netVars, orphans>>

\* The sender's pass is over.
xmit_done(s) ==
  /\ lock = s /\ cursor = End
  /\ lock' = None
  /\ at' = [at EXCEPT ![s] = End]
  /\ UNCHANGED <<queueVars, listVars, stationVars, psVars, vifstop, todo, cursor,
                 tasklet, netVars, historyVars>>

\* rwnx_task.
task_start ==
  /\ tasklet /\ lock = None
  /\ tasklet' = FALSE
  /\ lock' = Task /\ todo' = Hwqs
  /\ UNCHANGED <<queueVars, listVars, stationVars, psVars, vifstop, cursor,
                 at, netVars, historyVars>>

\* rwnx_hwq_process_all: the next hardware queue, from the last to the first,
\* that needs processing.
task_next ==
  /\ lock = Task /\ cursor = End
  /\ IF todo \cap need = {}
       THEN /\ lock' = None /\ todo' = {}
            /\ UNCHANGED <<need, cursor>>
       ELSE \E h \in todo \cap need :
              /\ \A g \in todo \cap need : g <= h
              /\ todo' = {g \in todo : g < h}
              /\ need' = need \ {h}
              /\ cursor' \in Txqs \cup {End} /\ IsFirst(list[h], cursor')
              /\ UNCHANGED lock
  /\ UNCHANGED <<queueVars, list, stationVars, psVars, vifstop, tasklet, at,
                 netVars, historyVars>>

Pass == process_txq \/ process_inactive \/ task_next \/ \E s \in Senders : xmit_done(s)

-----------------------------------------------------------------------------
(* The firmware's indications, handled by the receive thread one at a time,  *)
(* under tx_lock; most then schedule the tasklet.                            *)

Handling == station = "up" /\ lock = None

\* rwnx_ps_bh_enable: the station falls asleep.
ps_enable ==
  /\ Handling /\ ~ps
  /\ ps' = TRUE /\ sp_cnt' = 0 /\ pkt_ready' = Total(len)
  /\ Stop(Txqs, "STA_PS")
  /\ adrift' = adrift \ active
  /\ UNCHANGED <<active, flow, len, limit, sent, need, stationVars, vifstop, passVars,
                 tasklet, at, netVars, orphans>>

\* Slip: what is left of a service period is not forgotten.
ps_disable_keeps ==
  /\ Handling /\ ps
  /\ ps' = FALSE
  /\ Start(Txqs, "STA_PS")
  /\ tasklet' = TRUE
  /\ UNCHANGED <<active, flow, len, limit, sent, stationVars, pkt_ready, sp_cnt, vifstop,
                 passVars, at, netVars, historyVars>>

\* rwnx_ps_bh_enable: it wakes up.
ps_disable ==
  /\ Handling /\ ps
  /\ ps' = FALSE
  /\ limit' = [q \in Txqs |-> 0]
  /\ Start(Txqs, "STA_PS")
  /\ tasklet' = TRUE
  /\ UNCHANGED <<active, flow, len, sent, stationVars, pkt_ready, sp_cnt, vifstop,
                 passVars, at, netVars, historyVars>>

\* The frames a queue can give to a service period.
Want(q) == Least(len[q], Credits)

\* A request for n frames dealt out by priority.
Dealt(grant, n) ==
  /\ \/ Total(grant) = n
     \/ Total(grant) < n /\ \A q \in Txqs : grant[q] = Want(q)
  /\ \A q, r \in Txqs : q < r /\ grant[r] > 0 => grant[q] = Want(q)

\* Slip: the tasklet is not scheduled.
traffic_req_silent(n) ==
  /\ Handling /\ ps /\ vifstop = {}
  /\ sp_cnt = 0 /\ pkt_ready > 0
  /\ \E grant \in [Txqs -> 0 .. Credits] :
       /\ \A q \in Txqs : grant[q] <= Want(q)
       /\ Dealt(grant, IF n = 0 \/ n > pkt_ready THEN pkt_ready ELSE n)
       /\ limit' = [q \in Txqs |-> IF grant[q] > 0 THEN grant[q] ELSE limit[q]]
       /\ sp_cnt' = Total(grant)
       /\ AddToHwList({q \in Txqs : grant[q] > 0}, Ascending)
  /\ UNCHANGED <<active, stops, flow, len, sent, stationVars, ps, pkt_ready, vifstop,
                 passVars, tasklet, at, netVars, historyVars>>

\* rwnx_ps_bh_traffic_req for n frames, 0 meaning all.  A period is opened only
\* after the one before.  The firmware asks on the channel of the interface.
traffic_req(n) ==
  /\ Handling /\ ps /\ vifstop = {}
  /\ sp_cnt = 0 /\ pkt_ready > 0
  /\ \E grant \in [Txqs -> 0 .. Credits] :
       /\ \A q \in Txqs : grant[q] <= Want(q)
       /\ Dealt(grant, IF n = 0 \/ n > pkt_ready THEN pkt_ready ELSE n)
       /\ limit' = [q \in Txqs |-> IF grant[q] > 0 THEN grant[q] ELSE limit[q]]
       /\ sp_cnt' = Total(grant)
       /\ AddToHwList({q \in Txqs : grant[q] > 0}, Ascending)
  /\ tasklet' = TRUE
  /\ UNCHANGED <<active, stops, flow, len, sent, stationVars, ps, pkt_ready, vifstop,
                 passVars, at, netVars, historyVars>>

\* The queues of an interface are those of its stations.
Attached == IF station = "up" THEN Txqs ELSE {}

\* rwnx_rx_chan_pre_switch_ind, rwnx_rx_csa_traffic_ind: rwnx_txq_vif_stop.
vif_stop(reason) ==
  /\ lock = None /\ reason \notin vifstop
  /\ vifstop' = vifstop \cup {reason}
  /\ Stop(Attached, reason)
  /\ adrift' = adrift \ (Attached \cap active)
  /\ UNCHANGED <<active, flow, len, limit, sent, need, stationVars, psVars, passVars,
                 tasklet, at, netVars, orphans>>

\* rwnx_rx_chan_switch_ind, rwnx_rx_csa_traffic_ind: rwnx_txq_vif_start.  Only
\* the first schedules the tasklet.
vif_start(reason) ==
  /\ lock = None /\ reason \in vifstop
  /\ vifstop' = vifstop \ {reason}
  /\ Start(Attached, reason)
  /\ tasklet' = (tasklet \/ reason = "CHAN")
  /\ adrift' = IF tasklet' THEN adrift ELSE adrift \cup (listed' \ listed)
  /\ UNCHANGED <<active, flow, len, limit, sent, stationVars, psVars, passVars,
                 at, netVars, orphans>>

-----------------------------------------------------------------------------
(* The station leaves and comes back: rwnx_cfg80211_del_station, _add_station. *)

del_station ==
  /\ Churn /\ station = "up"
  /\ station' = "leaving" /\ ps' = FALSE
  /\ UNCHANGED <<queueVars, listVars, flushing, pkt_ready, sp_cnt, vifstop, passVars,
                 tasklet, at, netVars, historyVars>>

\* rwnx_txq_deinit, queue after queue: out of use under the lock ...
txq_deinit ==
  /\ station = "leaving" /\ flushing = End /\ lock = None
  /\ \E q \in active :
       /\ DelFromHwList({q})
       /\ active' = active \ {q}
       /\ flushing' = q
       /\ adrift' = adrift \ {q}
  /\ UNCHANGED <<stops, flow, len, limit, sent, need, station, psVars, vifstop,
                 passVars, tasklet, at, netVars, orphans>>

\* ... and flushed without it.
txq_flush ==
  /\ flushing # End
  /\ len' = [len EXCEPT ![flushing] = 0]
  /\ flushing' = End
  /\ UNCHANGED <<active, listed, stops, flow, limit, sent, listVars, station, psVars,
                 vifstop, passVars, tasklet, at, netVars, historyVars>>

\* rwnx_txq_sta_init, without the lock: an association takes longer than any
\* critical section, so none that began before is still going on.
txq_sta_init ==
  /\ station = "leaving" /\ active = {} /\ flushing = End /\ lock = None
  /\ station' = "up"
  /\ active' = Txqs
  /\ listed' = {} /\ flow' = {}
  /\ stops' = [q \in Txqs |-> vifstop \cap {"CHAN"}]
  /\ len' = [q \in Txqs |-> 0] /\ limit' = len' /\ sent' = len'
  /\ orphans' = IF tbusy THEN {} ELSE subq
  /\ UNCHANGED <<listVars, flushing, psVars, vifstop, passVars, tasklet, at,
                 netVars, adrift>>

-----------------------------------------------------------------------------
(* The bus: aicwf_usb_tx_flowctrl, as module UsbTx calls it. *)

bus_busy ==
  /\ tbusy' = TRUE /\ subq' = Txqs
  /\ UNCHANGED <<queueVars, listVars, stationVars, psVars, vifstop, passVars, tasklet,
                 at, historyVars>>

bus_free ==
  /\ tbusy
  /\ tbusy' = FALSE /\ subq' = {} /\ orphans' = {}
  /\ UNCHANGED <<queueVars, listVars, stationVars, psVars, vifstop, passVars, tasklet,
                 at, adrift>>

-----------------------------------------------------------------------------

Send(s) == xmit_check(s) \/ queue_skb(s)

Sleep == ps_enable \/ ps_disable \/ \E n \in 0 .. Credits : traffic_req(n)

Vif == \E r \in VifReasons : vif_stop(r) \/ vif_start(r)

Station == del_station \/ txq_deinit \/ txq_flush \/ txq_sta_init

Next ==
  \/ \E s \in Senders : Send(s)
  \/ Pass \/ task_start
  \/ Sleep \/ Vif \/ Station
  \/ bus_busy \/ bus_free

Spec == Init /\ [][Next]_vars

-----------------------------------------------------------------------------
(* Properties. *)

\* The types of the variables.
TypeOK ==
  /\ active \subseteq Txqs /\ listed \subseteq Txqs /\ flow \subseteq Txqs
  /\ stops \in [Txqs -> SUBSET Reasons]
  /\ len \in [Txqs -> Nat] /\ limit \in [Txqs -> Nat] /\ sent \in [Txqs -> Nat]
  /\ need \subseteq Hwqs
  /\ station \in {"up", "leaving"} /\ flushing \in Txqs \cup {End}
  /\ ps \in BOOLEAN
  /\ vifstop \subseteq VifReasons
  /\ lock \in Senders \cup {Task, None} /\ todo \subseteq Hwqs
  /\ cursor \in Txqs \cup {End}
  /\ tasklet \in BOOLEAN
  /\ at \in [Senders -> Txqs \cup {End}]
  /\ tbusy \in BOOLEAN /\ subq \subseteq Txqs
  /\ adrift \subseteq Txqs /\ orphans \subseteq Txqs

\* The flag and the lists agree, and with them the assertions a pass makes of
\* every queue it meets (BUG_ON in rwnx_hwq_process): flagged and with frames.
ListSound ==
  /\ \A h \in Hwqs :
       /\ ToSet(list[h]) = {q \in listed : HwqOf[q] = h}
       /\ IsInjective(list[h])
  /\ cursor # End => cursor \in listed
  /\ \A q \in listed \cap active : len[q] > 0

\* A stopped queue is on a list only for the service period of a sleeping
\* station: seven paths set and clear stop bits, push limits and the flag.
StoppedStaysOff ==
  \A q \in listed \cap active :
    stops[q] # {} =>
      stops[q] = {"STA_PS"} /\ limit[q] > 0 /\ (ps \/ station = "leaving")

\* No queue is forgotten: one that is in use, not stopped and has frames is on
\* its list, whichever of its reasons went last.
ReadyIsListed ==
  \A q \in active : stops[q] = {} /\ len[q] > 0 => q \in listed

\* While a station sleeps the counters the firmware is told agree with the
\* queues: no frame it asked for is counted twice, none is owed without limit.
SpAccounted ==
  ps /\ station = "up" =>
    /\ pkt_ready = Total(len)
    /\ sp_cnt = Total(limit)
    /\ \A q \in Txqs : limit[q] <= len[q]

\* A stopped sub-queue has somebody to wake it, the bus or a pass over its long
\* queue; except one the queue's end left stopped (orphans).
SubqueueHasWaker ==
  \A q \in (subq \cap active) \ orphans :
    ~tbusy => q \in flow /\ len[q] >= FlowRestart

\* Every listed queue is on somebody's way: the tasklet is scheduled, or is
\* running and has yet to visit its hardware queue, or a pass over its list has
\* not come to it; all except those known to be adrift.
ListedHasServer ==
  \A q \in listed \ adrift :
    LET h == HwqOf[q]
    IN  \/ h \in need /\ (tasklet \/ (lock = Task /\ h \in todo))
        \/ \E i, j \in 1 .. Len(list[h]) : list[h][i] = cursor /\ list[h][j] = q /\ i <= j
===============================================================================
