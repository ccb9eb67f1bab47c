----------------------------- MODULE CmdMgrProofs -----------------------------
(***************************************************************************)
(* Theorems about the command manager, for every number of callers, slots  *)
(* and listed commands, among them that it implements CmdService.          *)
(***************************************************************************)
EXTENDS CmdMgr, SeqLemmas

-----------------------------------------------------------------------------
(* list_del on the list of slots. *)

\* Of a list that holds every element once, list_del leaves the other elements,
\* each once.
LEMMA ListDel ==
  ASSUME NEW S, NEW q \in Seq(S), IsInjective(q), NEW i \in 1 .. Len(q)
  PROVE  /\ IsInjective(RemoveAt(q, i))
         /\ ToSet(RemoveAt(q, i)) = ToSet(q) \ {q[i]}
<1> DEFINE r == RemoveAt(q, i)
<1>1. /\ r \in Seq(S)
      /\ Len(r) = Len(q) - 1
      /\ \A j \in 1 .. Len(q) - 1 : r[j] = IF j < i THEN q[j] ELSE q[j + 1]
  BY RemoveAtProperties
<1>2. Len(q) \in Nat /\ i \in Int
  OBVIOUS
<1>3. \A j, k \in 1 .. Len(q) : q[j] = q[k] => j = k
  BY DEF IsInjective
<1> HIDE DEF r
<1>4. DOMAIN r = 1 .. Len(q) - 1 /\ DOMAIN q = 1 .. Len(q)
  BY <1>1
<1>5. \A j, k \in DOMAIN r : r[j] = r[k] => j = k
  BY <1>1, <1>2, <1>3, <1>4
<1>6. ASSUME NEW x \in ToSet(q), x # q[i]
      PROVE  x \in ToSet(r)
  <2>1. PICK j \in 1 .. Len(q) : q[j] = x
    BY <1>4 DEF ToSet
  <2>2. CASE j < i
    <3>1. j \in DOMAIN r /\ r[j] = x
      BY <1>1, <1>2, <1>4, <2>1, <2>2
    <3> QED BY <3>1 DEF ToSet
  <2>3. CASE j > i
    <3>1. j - 1 \in DOMAIN r /\ r[j - 1] = x
      BY <1>1, <1>2, <1>4, <2>1, <2>3
    <3> QED BY <3>1 DEF ToSet
  <2> QED BY <1>2, <1>6, <2>1, <2>2, <2>3
<1>7. ASSUME NEW x \in ToSet(r)
      PROVE  x \in ToSet(q) \ {q[i]}
  <2>1. PICK j \in 1 .. Len(q) - 1 : r[j] = x
    BY <1>4 DEF ToSet
  <2>2. PICK k \in 1 .. Len(q) : q[k] = x /\ k # i
    BY <1>1, <1>2, <2>1
  <2> QED BY <1>3, <1>4, <2>2 DEF ToSet
<1> QED BY <1>5, <1>6, <1>7 DEF IsInjective, r

\* list_add_tail of an element that is not in the list.
LEMMA ListAdd ==
  ASSUME NEW S, NEW q \in Seq(S), NEW x \in S
  PROVE  /\ Append(q, x) \in Seq(S)
         /\ Len(Append(q, x)) = Len(q) + 1
         /\ ToSet(Append(q, x)) = ToSet(q) \cup {x}
         /\ IsInjective(q) /\ x \notin ToSet(q) => IsInjective(Append(q, x))
<1> DEFINE r == Append(q, x)
<1>1. /\ r \in Seq(S)
      /\ Len(r) = Len(q) + 1
      /\ \A j \in 1 .. Len(q) : r[j] = q[j]
      /\ r[Len(q) + 1] = x
  BY AppendProperties
<1>2. Len(q) \in Nat
  OBVIOUS
<1> HIDE DEF r
<1>3. DOMAIN r = 1 .. Len(q) + 1 /\ DOMAIN q = 1 .. Len(q)
  BY <1>1
<1>4. ToSet(r) = ToSet(q) \cup {x}
  <2>1. ASSUME NEW y \in ToSet(r) PROVE y \in ToSet(q) \cup {x}
    BY <1>1, <1>2, <1>3, <2>1 DEF ToSet
  <2>2. ASSUME NEW y \in ToSet(q) PROVE y \in ToSet(r)
    <3>1. PICK j \in 1 .. Len(q) : q[j] = y
      BY <1>3, <2>2 DEF ToSet
    <3>2. j \in DOMAIN r /\ r[j] = y
      BY <1>1, <1>2, <1>3, <3>1
    <3> QED BY <3>2 DEF ToSet
  <2>3. x \in ToSet(r)
    <3>1. Len(q) + 1 \in DOMAIN r
      BY <1>2, <1>3
    <3> QED BY <1>1, <3>1 DEF ToSet
  <2> QED BY <2>1, <2>2, <2>3
<1>5. ASSUME IsInjective(q), x \notin ToSet(q)
      PROVE  IsInjective(r)
  <2>1. \A j, k \in 1 .. Len(q) : q[j] = q[k] => j = k
    BY <1>5 DEF IsInjective
  <2>2. \A j \in 1 .. Len(q) : q[j] # x
    BY <1>3, <1>5 DEF ToSet
  <2>3. \A j, k \in DOMAIN r : r[j] = r[k] => j = k
    BY <1>1, <1>2, <1>3, <2>1, <2>2
  <2> QED BY <2>3 DEF IsInjective
<1> QED BY <1>1, <1>4, <1>5 DEF r

-----------------------------------------------------------------------------
(* The inductive invariant. *)

IInv == TypeOK /\ QueueSound /\ SlotsAccounted /\ Holding

\* What list_del does to the list as a whole.
LEMMA ListDelStep ==
  ASSUME cmds \in Seq(Slots), NEW s, list_del(s)
  PROVE  /\ cmds' \in Seq(Slots)
         /\ Len(cmds') = Len(cmds) - 1
         /\ IsInjective(cmds) => IsInjective(cmds)' /\ Listed' = Listed \ {s}
<1>1. PICK i \in DOMAIN cmds : cmds[i] = s /\ cmds' = RemoveAt(cmds, i)
  BY DEF list_del
<1>2. i \in 1 .. Len(cmds)
  OBVIOUS
<1> QED BY <1>1, <1>2, RemoveAtProperties, ListDel DEF Listed

\* rwnx_cmd_free keeps the types of what it changes.
LEMMA FreeType ==
  ASSUME TypeOK, NEW s \in Slots \cup {None}, rwnx_cmd_free(s)
  PROVE  /\ used' \subseteq Slots
         /\ reqid' \in [Slots -> Ids \cup {None}]
         /\ e2a_msg' \subseteq Slots
         /\ firmware' \in Seq(Messages)
         /\ msg' \in Messages \cup {None}
<1>1. firmware \in Seq(Messages) /\ msg \in Messages \cup {None}
  BY DEF TypeOK
<1>2. Orphaned(s) \in Seq(Messages)
  <2>1. \A i \in 1 .. Len(firmware) : firmware[i] \in Messages
    BY <1>1
  <2>2. \A m \in Messages : [m EXCEPT !.slot = None] \in Messages
    BY DEF Messages
  <2>3. Orphaned(s) \in [1 .. Len(firmware) -> Messages]
    BY <1>1, <2>1, <2>2 DEF Orphaned
  <2>4. Len(firmware) \in Nat
    BY <1>1
  <2> QED BY <2>3, <2>4, IsASeq
<1>3. msg' \in Messages \cup {None}
  BY <1>1 DEF rwnx_cmd_free, Messages
<1> QED BY <1>2, <1>3 DEF rwnx_cmd_free, TypeOK

\* aicwf_set_cmd_tx sends a message of the right type.
LEMMA SetCmdTxType ==
  ASSUME TypeOK, NEW s \in Slots, aicwf_set_cmd_tx(s)
  PROVE  firmware' \in Seq(Messages)
<1>1. [slot |-> s, id |-> reqid[s]] \in Messages
  BY DEF TypeOK, Messages
<1>2. firmware \in Seq(Messages)
  BY DEF TypeOK
<1> QED BY <1>1, <1>2, AppendProperties DEF aicwf_set_cmd_tx

LEMMA TypeStep == TypeOK /\ QueueSound /\ Holding /\ [Next]_vars => TypeOK'
<1> SUFFICES ASSUME TypeOK, QueueSound, Holding, [Next]_vars
             PROVE  TypeOK'
  OBVIOUS
<1>0. None \notin Threads /\ Senders \subseteq Threads /\ Worker \in Threads /\ Rx \in Senders
  BY ThreadsAssumption DEF Senders, Threads
<1>L. /\ \A t \in Threads, l \in Labels : [pc EXCEPT ![t] = l] \in [Threads -> Labels]
      /\ \A t \in Threads, s \in Slots \cup {None} : [cmd EXCEPT ![t] = s] \in [Threads -> Slots \cup {None}]
  BY DEF TypeOK
<1>H. \A t \in Threads : pc[t] \in Waiting \cup PreQueue \cup {"leave"} => cmd[t] \in Slots
  BY DEF TypeOK, Holding, SlotByPlace, Waiting, PreQueue
<1>F. \A s \in Slots, f \in Flags : [flags EXCEPT ![s] = @ \ {f}] \in [Slots -> SUBSET Flags]
  BY DEF TypeOK
<1>1. ASSUME NEW p \in Senders, rwnx_send_msg(p)
      PROVE  TypeOK'
  <2>1. PICK r \in RequestsOf(p), s \in Slots :
           /\ used' = used \cup {s}
           /\ reqid' = [reqid EXCEPT ![s] = r.id]
           /\ e2a_msg' = IF r.mode = "e2a" THEN e2a_msg \cup {s} ELSE e2a_msg \ {s}
           /\ cmd' = [cmd EXCEPT ![p] = s]
           /\ mode' = [mode EXCEPT ![p] = r.mode]
           /\ Goto(p, "enter")
    BY <1>1 DEF rwnx_send_msg
  <2>2. r.id \in Ids /\ r.mode \in Modes
    BY RequestsAssumption DEF RequestsOf
  <2> QED
    BY <1>0, <1>L, <1>1, <2>1, <2>2
       DEF TypeOK, rwnx_send_msg, Goto, Labels, Waiting, PreQueue, Critical, mgrVars, poolVars, envVars, fwVars
<1>2. ASSUME NEW p \in Senders, send_without_cfm(p)
      PROVE  TypeOK'
  BY <1>0, <1>H, <1>L, <1>2, FreeType
     DEF TypeOK, send_without_cfm, Return, Goto, Labels, Waiting, PreQueue, Critical, mgrVars, poolVars, envVars, fwVars
<1>3. ASSUME NEW p \in Senders, e2a_check_state(p)
      PROVE  TypeOK'
  BY <1>0, <1>H, <1>L, <1>3
     DEF TypeOK, e2a_check_state, Goto, Labels, Waiting, PreQueue, Critical, mgrVars, poolVars, envVars, fwVars
<1>4. ASSUME NEW p \in Senders, e2a_poll(p)
      PROVE  TypeOK'
  BY <1>0, <1>H, <1>L, <1>4
     DEF TypeOK, e2a_poll, Goto, Labels, Waiting, PreQueue, Critical, mgrVars, poolVars, envVars, fwVars
<1>5. ASSUME NEW p \in Senders, queue_lock(p)
      PROVE  TypeOK'
  BY <1>0, <1>H, <1>L, <1>5
     DEF TypeOK, queue_lock, Acquire, Goto, Labels, Waiting, PreQueue, Critical, mgrVars, poolVars, envVars, fwVars
<1>6. ASSUME NEW p \in Senders, queue_refuse(p)
      PROVE  TypeOK'
  BY <1>0, <1>H, <1>L, <1>6, FreeType
     DEF TypeOK, queue_refuse, Release, Return, Goto, Labels, Waiting, PreQueue, Critical, mgrVars, poolVars, envVars, fwVars
<1>7. ASSUME NEW p \in Senders, queue_accept(p)
      PROVE  TypeOK'
  <2>1. cmd[p] \in Slots
    BY <1>0, <1>7, <1>H DEF queue_accept, PreQueue
  <2>2. cmds' \in Seq(Slots)
    BY <1>7, <2>1, ListAdd DEF queue_accept, TypeOK
  <2>3. flags' \in [Slots -> SUBSET Flags]
    BY <1>7, <2>1 DEF queue_accept, TypeOK, Flags
  <2>4. cmd' \in [Threads -> Slots \cup {None}] /\ pc' \in [Threads -> Labels]
    BY <1>0, <1>L, <1>7, <2>1 DEF queue_accept, Goto, Labels, PreQueue, Waiting
  <2> QED
    BY <1>7, <2>2, <2>3, <2>4 DEF TypeOK, queue_accept, Release, poolVars, envVars, fwVars
<1>8. ASSUME NEW p \in Senders, queue_defer(p)
      PROVE  TypeOK'
  BY <1>0, <1>H, <1>L, <1>8
     DEF TypeOK, queue_defer, Return, Goto, Labels, Waiting, PreQueue, Critical, mgrVars, poolVars, envVars, fwVars
<1>9. ASSUME NEW p \in Senders, queue_push(p)
      PROVE  TypeOK'
  BY <1>0, <1>H, <1>L, <1>9, SetCmdTxType
     DEF TypeOK, queue_push, Goto, Labels, Waiting, PreQueue, Critical, mgrVars, poolVars, envVars, fwVars
<1>10. ASSUME NEW p \in Senders, leave(p)
      PROVE  TypeOK'
  BY <1>0, <1>H, <1>L, <1>10, FreeType
     DEF TypeOK, leave, Return, wake_behind, Goto, Labels, Waiting, PreQueue, Critical, mgrVars, poolVars, envVars, fwVars
<1>11. ASSUME NEW p \in Senders, timed_out(p)
      PROVE  TypeOK'
  BY <1>0, <1>H, <1>L, <1>11, FreeType
     DEF TypeOK, timed_out, crash, Release, Return, Goto, Labels, Waiting, PreQueue, Critical, mgrVars, poolVars, envVars, fwVars
<1>12. ASSUME NEW p \in Senders, wait_killed(p)
      PROVE  TypeOK'
  BY <1>0, <1>H, <1>L, <1>12
     DEF TypeOK, wait_killed, Goto, Labels, Waiting, PreQueue, Critical, mgrVars, poolVars, envVars, fwVars
<1>13. ASSUME NEW t \in Threads, wait_completed(t)
      PROVE  TypeOK'
  BY <1>0, <1>H, <1>L, <1>13
     DEF TypeOK, wait_completed, Goto, Labels, Waiting, PreQueue, Critical, mgrVars, poolVars, envVars, fwVars
<1>14. ASSUME NEW t \in Threads, remove_lock(t)
      PROVE  TypeOK'
  BY <1>0, <1>H, <1>L, <1>14
     DEF TypeOK, remove_lock, Acquire, Goto, Labels, Waiting, PreQueue, Critical, mgrVars, poolVars, envVars, fwVars
<1>15. ASSUME NEW t \in Threads, remove(t)
      PROVE  TypeOK'
  <2>1. list_del(cmd[t]) /\ cmds \in Seq(Slots)
    BY <1>15 DEF remove, TypeOK
  <2>2. cmds' \in Seq(Slots) /\ Len(cmds') = Len(cmds) - 1
    BY <2>1, ListDelStep
  <2>3. queue_sz' \in Nat
    <3>1. queue_sz' = Len(cmds')
      BY <2>1, <2>2 DEF QueueSound, list_del
    <3> QED BY <2>2, <3>1
  <2>4. awake' \in BOOLEAN
    BY <2>1 DEF list_del
  <2> QED
    BY <1>0, <1>L, <1>15, <2>2, <2>3, <2>4
       DEF TypeOK, remove, Release, Goto, Labels, poolVars, envVars, fwVars
<1>16. ASSUME NEW t \in Threads, wait_timed_out(t)
      PROVE  TypeOK'
  BY <1>0, <1>H, <1>L, <1>16
     DEF TypeOK, wait_timed_out, Goto, Labels, Waiting, PreQueue, Critical, mgrVars, poolVars, envVars, fwVars
<1>17. ASSUME NEW t \in Threads, timeout_lock(t)
      PROVE  TypeOK'
  BY <1>0, <1>H, <1>L, <1>17
     DEF TypeOK, timeout_lock, Acquire, Goto, Labels, Waiting, PreQueue, Critical, mgrVars, poolVars, envVars, fwVars
<1>18. ASSUME work_start
      PROVE  TypeOK'
  BY <1>0, <1>H, <1>L, <1>18
     DEF TypeOK, work_start, Goto, Labels, Waiting, PreQueue, Critical, mgrVars, poolVars, envVars, fwVars
<1>19. ASSUME work_scan
      PROVE  TypeOK'
  <2>1. cmds # <<>> => Head(cmds) \in Slots
    BY HeadTailProperties DEF TypeOK
  <2> QED
    BY <1>0, <1>H, <1>L, <1>19, <2>1
     DEF TypeOK, work_scan, Goto, Labels, Waiting, PreQueue, Critical, mgrVars, poolVars, envVars, fwVars
<1>20. ASSUME work_push
      PROVE  TypeOK'
  <2>1. cmd[Worker] \in Slots
    BY <1>0, <1>20, <1>H DEF work_push, Waiting
  <2>2. flags' \in [Slots -> SUBSET Flags]
    <3>1. "WAIT_PUSH" \in Flags
      BY DEF Flags
    <3>2. flags' = [flags EXCEPT ![cmd[Worker]] = @ \ {"WAIT_PUSH"}]
      BY <1>20 DEF work_push
    <3> QED BY <1>F, <2>1, <3>1, <3>2
  <2>3. firmware' \in Seq(Messages)
    BY <1>20, <2>1, SetCmdTxType DEF work_push
  <2> QED
    BY <1>0, <1>L, <1>20, <2>2, <2>3
       DEF TypeOK, work_push, Goto, Labels, Waiting, mgrVars, poolVars, envVars
<1>21. ASSUME work_leave
      PROVE  TypeOK'
  BY <1>0, <1>H, <1>L, <1>21, FreeType
     DEF TypeOK, work_leave, Goto, Labels, Waiting, PreQueue, Critical, mgrVars, poolVars, envVars, fwVars
<1>22. ASSUME work_timed_out
      PROVE  TypeOK'
  BY <1>0, <1>H, <1>L, <1>22
     DEF TypeOK, work_timed_out, crash, Release, Goto, Labels, Waiting, PreQueue, Critical, mgrVars, poolVars, envVars, fwVars
<1>23. ASSUME receive_cfm
      PROVE  TypeOK'
  BY <1>0, <1>H, <1>L, <1>23, HeadTailProperties
     DEF TypeOK, receive_cfm, Goto, Labels, Waiting, PreQueue, Critical, mgrVars, poolVars, envVars, fwVars
<1>24. ASSUME match_lock
      PROVE  TypeOK'
  BY <1>0, <1>H, <1>L, <1>24
     DEF TypeOK, match_lock, Acquire, Goto, Labels, Waiting, PreQueue, Critical, mgrVars, poolVars, envVars, fwVars
<1>25. ASSUME cmd_mgr_msgind
      PROVE  TypeOK'
  <2>1. flags' \in [Slots -> SUBSET Flags]
    <3>1. \A i \in DOMAIN cmds : cmds[i] \in Slots
      BY DEF TypeOK
    <3> QED BY <1>F, <1>25, <3>1 DEF cmd_mgr_msgind, Flags, TypeOK
  <2> QED
    BY <1>0, <1>L, <1>25, <2>1
       DEF TypeOK, cmd_mgr_msgind, Release, Goto, Labels, mgrVars, poolVars, envVars
<1>26. ASSUME disconnect
      PROVE  TypeOK'
  BY <1>0, <1>H, <1>L, <1>26
     DEF TypeOK, disconnect, Goto, Labels, Waiting, PreQueue, Critical, mgrVars, poolVars, envVars, fwVars
<1>27. CASE UNCHANGED vars
  BY <1>27 DEF TypeOK, vars, mgrVars, poolVars, envVars, fwVars
<1> QED
  BY <1>1, <1>2, <1>3, <1>4, <1>5, <1>6, <1>7, <1>8, <1>9, <1>10, <1>11, <1>12, <1>13, <1>14, <1>15, <1>16, <1>17, <1>18, <1>19, <1>20, <1>21, <1>22, <1>23, <1>24, <1>25, <1>26, <1>27 DEF Next, Send, Await, Work, Deliver



\* The list is changed by an accepted command and by a removal, nowhere else.
LEMMA ListChanges ==
  ASSUME [Next]_vars
  PROVE  \/ UNCHANGED <<cmds, queue_sz, awake>>
         \/ \E p \in Senders : queue_accept(p)
         \/ \E t \in Threads : remove(t)
BY DEF Next, Send, Await, Work, Deliver, vars, mgrVars, rwnx_send_msg, send_without_cfm,
       e2a_check_state, e2a_poll, queue_lock, queue_refuse, queue_defer, queue_push, leave,
       timed_out, crash, wait_killed, wait_completed, remove_lock, wait_timed_out,
       timeout_lock, work_start, work_scan, work_push, work_leave, work_timed_out,
       receive_cfm, match_lock, cmd_mgr_msgind, disconnect

LEMMA QueueStep == IInv /\ [Next]_vars => QueueSound'
<1> SUFFICES ASSUME IInv, [Next]_vars
             PROVE  QueueSound'
  OBVIOUS
<1>0. cmds \in Seq(Slots) /\ MaxQueued \in Nat \ {0} /\ Senders \subseteq Threads
  BY SizesAssumption DEF IInv, TypeOK, Threads
<1>1. ASSUME NEW p \in Senders, queue_accept(p)
      PROVE  QueueSound'
  <2>1. cmd[p] \in Slots /\ cmd[p] \notin Listed
    BY <1>0, <1>1 DEF IInv, TypeOK, Holding, SlotByPlace, queue_accept, PreQueue
  <2>2. /\ cmds' = Append(cmds, cmd[p])
        /\ queue_sz' = queue_sz + 1
        /\ awake' = (awake \/ queue_sz = 0)
        /\ ~QueueFull
    BY <1>1 DEF queue_accept
  <2>3. IsInjective(cmds)' /\ Len(cmds') = Len(cmds) + 1
    BY <1>0, <2>1, <2>2, ListAdd DEF IInv, QueueSound, Listed
  <2>4. queue_sz' <= MaxQueued
    <3>1. cmds = <<>> => Len(cmds) = 0
      BY <1>0
    <3> QED BY <1>0, <2>2, <3>1 DEF IInv, QueueSound, QueueFull
  <2>5. queue_sz \in Nat
    BY DEF IInv, TypeOK
  <2>6. queue_sz' = Len(cmds') /\ queue_sz' > 0
    BY <2>2, <2>3, <2>5 DEF IInv, QueueSound
  <2>7. awake' <=> queue_sz' > 0
    <3>1. awake <=> queue_sz > 0
      BY DEF IInv, QueueSound
    <3>2. awake \/ queue_sz = 0
      BY <2>5, <3>1
    <3>3. awake'
      BY <2>2, <3>2, Zenon
    <3> QED BY <2>6, <3>3
  <2> QED BY <2>3, <2>4, <2>6, <2>7 DEF QueueSound
<1>2. ASSUME NEW t \in Threads, remove(t)
      PROVE  QueueSound'
  <2>1. list_del(cmd[t])
    BY <1>2 DEF remove
  <2>2. IsInjective(cmds)' /\ Len(cmds') = Len(cmds) - 1 /\ cmds' \in Seq(Slots)
    BY <1>0, <2>1, ListDelStep DEF IInv, QueueSound
  <2>3. queue_sz' = queue_sz - 1 /\ awake' = (awake /\ queue_sz - 1 # 0)
    BY <2>1 DEF list_del
  <2>4. queue_sz \in Nat /\ Len(cmds') \in Nat
    BY <2>2 DEF IInv, TypeOK
  <2>5. queue_sz' = Len(cmds') /\ queue_sz' <= MaxQueued
    BY <1>0, <2>2, <2>3, <2>4 DEF IInv, QueueSound
  <2>6. awake' <=> queue_sz' > 0
    <3>1. awake <=> queue_sz > 0
      BY DEF IInv, QueueSound
    <3>2. queue_sz - 1 # 0 <=> queue_sz' > 0
      BY <2>3, <2>4, <2>5
    <3>3. queue_sz' > 0 => awake
      BY <2>3, <2>4, <3>1
    <3> QED BY <2>3, <3>2, <3>3, Zenon
  <2> QED BY <2>2, <2>5, <2>6 DEF QueueSound
<1>3. CASE UNCHANGED <<cmds, queue_sz, awake>>
  BY <1>3 DEF IInv, QueueSound
<1> QED BY <1>1, <1>2, <1>3, ListChanges

LEMMA HoldStep == IInv /\ TypeOK' /\ [Next]_vars => SlotsAccounted' /\ Holding'
<1> SUFFICES ASSUME IInv, TypeOK', [Next]_vars
             PROVE  SlotsAccounted' /\ Holding'
  OBVIOUS
<1>0. /\ None \notin Threads /\ Senders \subseteq Threads /\ Worker \in Threads
      /\ Rx \in Senders /\ Worker \notin Senders
  BY ThreadsAssumption DEF Senders, Threads
<1>T. /\ pc \in [Threads -> Labels] /\ cmd \in [Threads -> Slots \cup {None}]
      /\ flags \in [Slots -> SUBSET Flags] /\ used \subseteq Slots
      /\ cmds \in Seq(Slots) /\ IsInjective(cmds)
  BY DEF IInv, TypeOK, QueueSound
<1>L. cmds' = cmds => Listed' = Listed
  BY DEF Listed
<1>N. None \notin Slots
  BY ThreadsAssumption
<1>1. ASSUME NEW p \in Senders, rwnx_send_msg(p)
      PROVE  SlotsAccounted' /\ Holding'
  BY <1>0, <1>T, <1>L, <1>N, <1>1
     DEF IInv, SlotsAccounted, Holding, SlotByPlace, DeferredKept, Roles, rwnx_send_msg, Goto, Waiting, PreQueue, mgrVars, poolVars, envVars, fwVars
<1>2. ASSUME NEW p \in Senders, send_without_cfm(p)
      PROVE  SlotsAccounted' /\ Holding'
  BY <1>0, <1>T, <1>L, <1>N, <1>2
     DEF IInv, SlotsAccounted, Holding, SlotByPlace, DeferredKept, Roles, send_without_cfm, Return, rwnx_cmd_free, Goto, Waiting, PreQueue, mgrVars, poolVars, envVars, fwVars
<1>3. ASSUME NEW p \in Senders, e2a_check_state(p)
      PROVE  SlotsAccounted' /\ Holding'
  BY <1>0, <1>T, <1>L, <1>N, <1>3
     DEF IInv, SlotsAccounted, Holding, SlotByPlace, DeferredKept, Roles, e2a_check_state, Goto, Waiting, PreQueue, mgrVars, poolVars, envVars, fwVars
<1>4. ASSUME NEW p \in Senders, e2a_poll(p)
      PROVE  SlotsAccounted' /\ Holding'
  BY <1>0, <1>T, <1>L, <1>N, <1>4
     DEF IInv, SlotsAccounted, Holding, SlotByPlace, DeferredKept, Roles, e2a_poll, Goto, Waiting, PreQueue, mgrVars, poolVars, envVars, fwVars
<1>5. ASSUME NEW p \in Senders, queue_lock(p)
      PROVE  SlotsAccounted' /\ Holding'
  BY <1>0, <1>T, <1>L, <1>N, <1>5
     DEF IInv, SlotsAccounted, Holding, SlotByPlace, DeferredKept, Roles, queue_lock, Acquire, Goto, Waiting, PreQueue, mgrVars, poolVars, envVars, fwVars
<1>6. ASSUME NEW p \in Senders, queue_refuse(p)
      PROVE  SlotsAccounted' /\ Holding'
  BY <1>0, <1>T, <1>L, <1>N, <1>6
     DEF IInv, SlotsAccounted, Holding, SlotByPlace, DeferredKept, Roles, queue_refuse, Release, Return, rwnx_cmd_free, Goto, Waiting, PreQueue, mgrVars, poolVars, envVars, fwVars
<1>7. ASSUME NEW p \in Senders, queue_accept(p)
      PROVE  SlotsAccounted' /\ Holding'
  <2>1. cmd[p] \in Slots /\ cmd[p] \notin Listed
    BY <1>0, <1>T, <1>7 DEF IInv, TypeOK, Holding, SlotByPlace, DeferredKept, Roles, queue_accept, PreQueue
  <2>2. Listed' = Listed \cup {cmd[p]}
    BY <1>T, <1>7, <2>1, ListAdd DEF queue_accept, Listed
  <2>3. \A s \in Slots : "WAIT_PUSH" \in flags'[s] =>
          "WAIT_PUSH" \in flags[s] \/ (s = cmd[p] /\ MustDefer(p))
    <3>1. flags' = [flags EXCEPT ![cmd[p]] =
                      @ \cup {"WAIT_CFM"} \cup (IF MustDefer(p) THEN {"WAIT_PUSH"} ELSE {})]
      BY <1>7 DEF queue_accept
    <3>2. ASSUME NEW s \in Slots, s # cmd[p]
          PROVE  flags'[s] = flags[s]
      BY <1>T, <3>1, <3>2
    <3>3. flags'[cmd[p]] = flags[cmd[p]] \cup {"WAIT_CFM"}
                             \cup (IF MustDefer(p) THEN {"WAIT_PUSH"} ELSE {})
      BY <1>T, <2>1, <3>1
    <3>4. "WAIT_PUSH" \in flags'[cmd[p]] =>
            "WAIT_PUSH" \in flags[cmd[p]] \/ MustDefer(p)
      <4> HIDE DEF MustDefer
      <4> QED BY <3>3
    <3> QED BY <3>2, <3>4
  <2>4. /\ state' = state /\ state # "CRASHED" /\ pc[p] = "queue" /\ used' = used
        /\ cmd' = [cmd EXCEPT ![p] = IF MustDefer(p) THEN None ELSE cmd[p]]
        /\ pc' = [pc EXCEPT ![p] = IF MustDefer(p) THEN "defer" ELSE "push"]
    BY <1>7 DEF queue_accept, Goto, poolVars
  <2>5. "WAIT_PUSH" \notin flags[cmd[p]]
    BY <2>1 DEF IInv, Holding, SlotByPlace, DeferredKept, Roles
  <2>6. state = "INITED"
    BY <2>4 DEF IInv, TypeOK
  <2>7. SlotsAccounted'
    BY <1>0, <1>T, <1>N, <2>1, <2>2, <2>4, <2>6 DEF IInv, SlotsAccounted
  <2>8. cmd[p] \in used
    BY <1>0, <1>N, <2>1 DEF IInv, SlotsAccounted
  <2>9. \A t \in Threads : t # p /\ cmd[t] = cmd[p] => FALSE
    BY <1>0, <1>N, <2>1 DEF IInv, SlotsAccounted
  <2>10. SlotByPlace'
    BY <1>0, <1>T, <1>N, <2>1, <2>2, <2>4, <2>9 DEF IInv, Holding, SlotByPlace, DeferredKept, Roles, Waiting, PreQueue
  <2>11. DeferredKept'
    BY <1>0, <1>T, <1>N, <2>1, <2>2, <2>3, <2>4, <2>5, <2>8, <2>9 DEF IInv, Holding, SlotByPlace, DeferredKept, Roles
  <2>12. Roles'
    BY <1>0, <1>T, <2>4 DEF IInv, Holding, SlotByPlace, DeferredKept, Roles, PreQueue
  <2> QED BY <2>7, <2>10, <2>11, <2>12 DEF Holding
<1>8. ASSUME NEW p \in Senders, queue_defer(p)
      PROVE  SlotsAccounted' /\ Holding'
  BY <1>0, <1>T, <1>L, <1>N, <1>8
     DEF IInv, SlotsAccounted, Holding, SlotByPlace, DeferredKept, Roles, queue_defer, Return, Goto, Waiting, PreQueue, mgrVars, poolVars, envVars, fwVars
<1>9. ASSUME NEW p \in Senders, queue_push(p)
      PROVE  SlotsAccounted' /\ Holding'
  BY <1>0, <1>T, <1>L, <1>N, <1>9
     DEF IInv, SlotsAccounted, Holding, SlotByPlace, DeferredKept, Roles, queue_push, Goto, Waiting, PreQueue, mgrVars, poolVars, envVars, fwVars
<1>10. ASSUME NEW p \in Senders, leave(p)
      PROVE  SlotsAccounted' /\ Holding'
  BY <1>0, <1>T, <1>L, <1>N, <1>10
     DEF IInv, SlotsAccounted, Holding, SlotByPlace, DeferredKept, Roles, leave, Return, wake_behind, rwnx_cmd_free, Goto, Waiting, PreQueue, mgrVars, poolVars, envVars, fwVars
<1>11. ASSUME NEW p \in Senders, timed_out(p)
      PROVE  SlotsAccounted' /\ Holding'
  BY <1>0, <1>T, <1>L, <1>N, <1>11
     DEF IInv, SlotsAccounted, Holding, SlotByPlace, DeferredKept, Roles, timed_out, crash, Release, Return, rwnx_cmd_free, Goto, Waiting, PreQueue, mgrVars, poolVars, envVars, fwVars
<1>12. ASSUME NEW p \in Senders, wait_killed(p)
      PROVE  SlotsAccounted' /\ Holding'
  BY <1>0, <1>T, <1>L, <1>N, <1>12
     DEF IInv, SlotsAccounted, Holding, SlotByPlace, DeferredKept, Roles, wait_killed, Goto, Waiting, PreQueue, mgrVars, poolVars, envVars, fwVars
<1>13. ASSUME NEW t \in Threads, wait_completed(t)
      PROVE  SlotsAccounted' /\ Holding'
  BY <1>0, <1>T, <1>L, <1>N, <1>13
     DEF IInv, SlotsAccounted, Holding, SlotByPlace, DeferredKept, Roles, wait_completed, Goto, Waiting, PreQueue, mgrVars, poolVars, envVars, fwVars
<1>14. ASSUME NEW t \in Threads, remove_lock(t)
      PROVE  SlotsAccounted' /\ Holding'
  BY <1>0, <1>T, <1>L, <1>N, <1>14
     DEF IInv, SlotsAccounted, Holding, SlotByPlace, DeferredKept, Roles, remove_lock, Acquire, Goto, Waiting, PreQueue, mgrVars, poolVars, envVars, fwVars
<1>15. ASSUME NEW t \in Threads, remove(t)
      PROVE  SlotsAccounted' /\ Holding'
  <2>1. list_del(cmd[t])
    BY <1>15 DEF remove
  <2>2. Listed' = Listed \ {cmd[t]}
    BY <1>T, <2>1, ListDelStep
  <2> QED
  BY <1>0, <1>T, <1>N, <1>15, <2>2
     DEF IInv, SlotsAccounted, Holding, SlotByPlace, DeferredKept, Roles, remove, Release, Goto, Waiting, PreQueue, mgrVars, poolVars, envVars, fwVars
<1>16. ASSUME NEW t \in Threads, wait_timed_out(t)
      PROVE  SlotsAccounted' /\ Holding'
  BY <1>0, <1>T, <1>L, <1>N, <1>16
     DEF IInv, SlotsAccounted, Holding, SlotByPlace, DeferredKept, Roles, wait_timed_out, Goto, Waiting, PreQueue, mgrVars, poolVars, envVars, fwVars
<1>17. ASSUME NEW t \in Threads, timeout_lock(t)
      PROVE  SlotsAccounted' /\ Holding'
  BY <1>0, <1>T, <1>L, <1>N, <1>17
     DEF IInv, SlotsAccounted, Holding, SlotByPlace, DeferredKept, Roles, timeout_lock, Acquire, Goto, Waiting, PreQueue, mgrVars, poolVars, envVars, fwVars
<1>18. ASSUME work_start
      PROVE  SlotsAccounted' /\ Holding'
  BY <1>0, <1>T, <1>L, <1>N, <1>18
     DEF IInv, SlotsAccounted, Holding, SlotByPlace, DeferredKept, Roles, work_start, Goto, Waiting, PreQueue, mgrVars, poolVars, envVars, fwVars
<1>19. ASSUME work_scan
      PROVE  SlotsAccounted' /\ Holding'
  BY <1>0, <1>T, <1>L, <1>N, <1>19
     DEF IInv, SlotsAccounted, Holding, SlotByPlace, DeferredKept, Roles, work_scan, Goto, Waiting, PreQueue, mgrVars, poolVars, envVars, fwVars
<1>20. ASSUME work_push
      PROVE  SlotsAccounted' /\ Holding'
  BY <1>0, <1>T, <1>L, <1>N, <1>20
     DEF IInv, SlotsAccounted, Holding, SlotByPlace, DeferredKept, Roles, work_push, Goto, Waiting, PreQueue, mgrVars, poolVars, envVars, fwVars
<1>21. ASSUME work_leave
      PROVE  SlotsAccounted' /\ Holding'
  BY <1>0, <1>T, <1>L, <1>N, <1>21
     DEF IInv, SlotsAccounted, Holding, SlotByPlace, DeferredKept, Roles, work_leave, rwnx_cmd_free, Goto, Waiting, PreQueue, mgrVars, poolVars, envVars, fwVars
<1>22. ASSUME work_timed_out
      PROVE  SlotsAccounted' /\ Holding'
  BY <1>0, <1>T, <1>L, <1>N, <1>22
     DEF IInv, SlotsAccounted, Holding, SlotByPlace, DeferredKept, Roles, work_timed_out, crash, Release, Goto, Waiting, PreQueue, mgrVars, poolVars, envVars, fwVars
<1>23. ASSUME receive_cfm
      PROVE  SlotsAccounted' /\ Holding'
  BY <1>0, <1>T, <1>L, <1>N, <1>23
     DEF IInv, SlotsAccounted, Holding, SlotByPlace, DeferredKept, Roles, receive_cfm, Goto, Waiting, PreQueue, mgrVars, poolVars, envVars, fwVars
<1>24. ASSUME match_lock
      PROVE  SlotsAccounted' /\ Holding'
  BY <1>0, <1>T, <1>L, <1>N, <1>24
     DEF IInv, SlotsAccounted, Holding, SlotByPlace, DeferredKept, Roles, match_lock, Acquire, Goto, Waiting, PreQueue, mgrVars, poolVars, envVars, fwVars
<1>25. ASSUME cmd_mgr_msgind
      PROVE  SlotsAccounted' /\ Holding'
  BY <1>0, <1>T, <1>L, <1>N, <1>25
     DEF IInv, SlotsAccounted, Holding, SlotByPlace, DeferredKept, Roles, cmd_mgr_msgind, Release, Goto, Waiting, PreQueue, mgrVars, poolVars, envVars, fwVars
<1>26. ASSUME disconnect
      PROVE  SlotsAccounted' /\ Holding'
  BY <1>0, <1>T, <1>L, <1>N, <1>26
     DEF IInv, SlotsAccounted, Holding, SlotByPlace, DeferredKept, Roles, disconnect, Goto, Waiting, PreQueue, mgrVars, poolVars, envVars, fwVars
<1>27. CASE UNCHANGED vars
  BY <1>L, <1>27 DEF IInv, SlotsAccounted, Holding, SlotByPlace, DeferredKept, Roles, vars, mgrVars, poolVars, envVars, fwVars
<1> QED
  BY <1>1, <1>2, <1>3, <1>4, <1>5, <1>6, <1>7, <1>8, <1>9, <1>10, <1>11, <1>12, <1>13, <1>14, <1>15, <1>16, <1>17, <1>18, <1>19, <1>20, <1>21, <1>22, <1>23, <1>24, <1>25, <1>26, <1>27 DEF Next, Send, Await, Work, Deliver

\* A thread enters a critical section with the lock it found free and leaves it
\* by releasing that lock; only a crash lets a caller in without it.
LEMMA LockStep == TypeOK /\ LockHeld /\ [Next]_vars => LockHeld'
<1> SUFFICES ASSUME TypeOK, LockHeld, [Next]_vars, state' = "INITED"
             PROVE  \A t \in Threads : pc'[t] \in Critical => lock' = t
  BY DEF LockHeld
<1>0. /\ None \notin Threads /\ Senders \subseteq Threads /\ Worker \in Threads /\ Rx \in Threads
      /\ pc \in [Threads -> Labels]
  BY ThreadsAssumption DEF Senders, Threads, TypeOK
<1>1. state = "INITED"
  <2>1. state \in {"INITED", "CRASHED"}
    BY DEF TypeOK
  <2>2. state = "CRASHED" => state' = "CRASHED"
    BY DEF Next, Send, Await, Work, Deliver, vars, mgrVars, rwnx_send_msg, send_without_cfm,
           e2a_check_state, e2a_poll, queue_lock, queue_refuse, queue_accept, queue_defer,
           queue_push, leave, timed_out, crash, wait_killed, wait_completed, remove_lock, remove,
           wait_timed_out, timeout_lock, work_start, work_scan, work_push, work_leave,
           work_timed_out, receive_cfm, match_lock, cmd_mgr_msgind, disconnect
  <2> QED BY <2>1, <2>2
<1>2. \A t \in Threads : pc[t] \in Critical => lock = t
  BY <1>1 DEF LockHeld
<1>3. ASSUME NEW t \in Threads, lock = None, lock' = t,
             \A u \in Threads : u # t => pc'[u] = pc[u]
      PROVE  \A u \in Threads : pc'[u] \in Critical => lock' = u
  BY <1>0, <1>2, <1>3
<1>4. ASSUME NEW t \in Threads, pc[t] \in Critical, pc'[t] \notin Critical,
             \A u \in Threads : u # t => pc'[u] = pc[u]
      PROVE  \A u \in Threads : pc'[u] \in Critical => lock' = u
  BY <1>0, <1>2, <1>4
<1>5. ASSUME NEW t \in Threads, lock' = lock, pc'[t] \notin Critical,
             \A u \in Threads : u # t => pc'[u] = pc[u]
      PROVE  \A u \in Threads : pc'[u] \in Critical => lock' = u
  BY <1>0, <1>2, <1>5
<1>6. ASSUME NEW p \in Senders, queue_lock(p)
      PROVE  \A u \in Threads : pc'[u] \in Critical => lock' = u
  BY <1>0, <1>1, <1>3, <1>6 DEF queue_lock, Acquire, Goto, Critical
<1>7. ASSUME NEW p \in Senders, e2a_poll(p)
      PROVE  \A u \in Threads : pc'[u] \in Critical => lock' = u
  BY <1>0, <1>1, <1>3, <1>5, <1>7 DEF e2a_poll, Goto, Critical
<1>8. ASSUME NEW p \in Senders, queue_refuse(p) \/ queue_accept(p) \/ timed_out(p)
      PROVE  \A u \in Threads : pc'[u] \in Critical => lock' = u
  BY <1>0, <1>1, <1>4, <1>8 DEF queue_refuse, queue_accept, timed_out, crash, Return, Goto, Critical
<1>9. ASSUME NEW p \in Senders, rwnx_send_msg(p) \/ send_without_cfm(p) \/ queue_defer(p) \/ queue_push(p) \/ leave(p) \/ wait_killed(p)
      PROVE  \A u \in Threads : pc'[u] \in Critical => lock' = u
  BY <1>0, <1>1, <1>5, <1>9 DEF rwnx_send_msg, send_without_cfm, queue_defer, queue_push, leave, wait_killed, Return, Goto, Critical
<1>10. ASSUME NEW p \in Senders, e2a_check_state(p)
      PROVE  \A u \in Threads : pc'[u] \in Critical => lock' = u
  BY <1>0, <1>1, <1>5, <1>10 DEF e2a_check_state, Goto, Critical
<1>11. ASSUME NEW t \in Threads, remove_lock(t) \/ timeout_lock(t)
      PROVE  \A u \in Threads : pc'[u] \in Critical => lock' = u
  BY <1>0, <1>1, <1>3, <1>11 DEF remove_lock, timeout_lock, Acquire, Goto, Critical
<1>12. ASSUME NEW t \in Threads, remove(t)
      PROVE  \A u \in Threads : pc'[u] \in Critical => lock' = u
  BY <1>0, <1>1, <1>4, <1>12 DEF remove, Goto, Critical
<1>13. ASSUME NEW t \in Threads, wait_completed(t) \/ wait_timed_out(t)
      PROVE  \A u \in Threads : pc'[u] \in Critical => lock' = u
  BY <1>0, <1>1, <1>5, <1>13 DEF wait_completed, wait_timed_out, Goto, Critical
<1>14. ASSUME work_start \/ work_scan \/ work_push \/ work_leave \/ receive_cfm
      PROVE  \A u \in Threads : pc'[u] \in Critical => lock' = u
  BY <1>0, <1>1, <1>5, <1>14 DEF work_start, work_scan, work_push, work_leave, receive_cfm, Goto, Critical
<1>15. ASSUME work_timed_out \/ cmd_mgr_msgind
      PROVE  \A u \in Threads : pc'[u] \in Critical => lock' = u
  BY <1>0, <1>1, <1>4, <1>15 DEF work_timed_out, cmd_mgr_msgind, crash, Goto, Critical
<1>16. ASSUME match_lock
      PROVE  \A u \in Threads : pc'[u] \in Critical => lock' = u
  BY <1>0, <1>1, <1>3, <1>16 DEF match_lock, Acquire, Goto, Critical
<1>17. CASE UNCHANGED <<lock, pc>>
  BY <1>2, <1>17
<1> QED
  BY <1>6, <1>7, <1>8, <1>9, <1>10, <1>11, <1>12, <1>13, <1>14, <1>15, <1>16, <1>17
     DEF Next, Send, Await, Work, Deliver, disconnect, vars, mgrVars

-----------------------------------------------------------------------------
(* The order of the commands, and the way of the answers. *)

\* x is listed in front of y.
Before(x, y) == \E i, j \in DOMAIN cmds : i < j /\ cmds[i] = x /\ cmds[j] = y

\* The answers under way: owed by the firmware, or being delivered.
InFlight == ToSet(firmware) \cup ({msg} \ {None})

\* The manager works, and no answer has lost its command to a fatal signal.
Calm == state = "INITED" /\ killed = {}

\* Behind a command that waits for anything, every command is deferred; the
\* worker pushes the head of the list.
DeferredBehind ==
  /\ \A x, y \in Slots : Before(x, y) /\ flags[x] # {} => "WAIT_PUSH" \in flags[y]
  /\ pc[Worker] = "push" => \A x \in Slots : ~Before(x, cmd[Worker])

\* The receive thread delivers an answer it has.
HasMessage == pc[Rx] \in {"match", "matching"} => msg # None

\* A command waits for its confirmation from the moment it is accepted until
\* it is confirmed, and only a confirmed one is removed.
WaitsForCfm ==
  /\ \A s \in Slots : "WAIT_PUSH" \in flags[s] => "WAIT_CFM" \in flags[s]
  /\ \A t \in Threads : pc[t] = "push" => "WAIT_CFM" \in flags[cmd[t]]
  /\ \A t \in Threads :
       pc[t] \in {"remove", "removing"} => "WAIT_CFM" \notin flags[cmd[t]]

\* An answer under way belongs to a listed command that was pushed and has not
\* been confirmed.
AnswerHasCommand ==
  \A m \in InFlight :
    /\ m.slot \in Listed
    /\ m.id = reqid[m.slot]
    /\ flags[m.slot] = {"WAIT_CFM"}
    /\ \A t \in Threads : cmd[t] = m.slot => pc[t] # "push"

\* There is one answer under way at most.
OneUnderWay == Len(firmware) + (IF msg = None THEN 0 ELSE 1) <= 1

AnswerInv == HasMessage /\ WaitsForCfm /\ AnswerHasCommand /\ OneUnderWay

\* What is listed in front of a command its caller will push has been pushed.
PushedAhead ==
  killed = {} => \A p \in Senders, x \in Slots :
    pc[p] = "push" /\ Before(x, cmd[p]) => Pushed(x)

\* PushedInOrder, in terms of the order of the list.
OrderKept ==
  killed = {} => \A x, y \in Slots : Before(x, y) /\ Pushed(y) => Pushed(x)

OInv == DeferredBehind /\ (Calm => AnswerInv)

\* Of two listed commands one is in front of the other; nothing is in front of
\* the head, and everything else in front of the last.
LEMMA ListOrder ==
  ASSUME cmds \in Seq(Slots), IsInjective(cmds), NEW x \in Listed
  PROVE  /\ \A y \in Listed : x = y \/ Before(x, y) \/ Before(y, x)
         /\ cmds # <<>> /\ Head(cmds) \in Slots /\ Last(cmds) \in Slots
         /\ \A y : ~Before(y, Head(cmds))
         /\ x = Last(cmds) \/ Before(x, Last(cmds))
<1>1. DOMAIN cmds = 1 .. Len(cmds) /\ Len(cmds) \in Nat
  OBVIOUS
<1>2. PICK i \in DOMAIN cmds : cmds[i] = x
  BY DEF Listed, ToSet
<1>3. ASSUME NEW y \in Listed
      PROVE  x = y \/ Before(x, y) \/ Before(y, x)
  <2>1. PICK j \in DOMAIN cmds : cmds[j] = y
    BY DEF Listed, ToSet
  <2>2. i = j \/ i < j \/ j < i
    BY <1>1
  <2> QED BY <1>2, <2>1, <2>2 DEF Before
<1>4. cmds # <<>> /\ 1 \in DOMAIN cmds /\ Len(cmds) \in DOMAIN cmds
  BY <1>1
<1>5. Head(cmds) = cmds[1] /\ Last(cmds) = cmds[Len(cmds)]
  BY <1>4 DEF Last
<1>6. ASSUME NEW y, Before(y, Head(cmds))
      PROVE  FALSE
  <2>1. PICK j, k \in DOMAIN cmds : j < k /\ cmds[k] = cmds[1]
    BY <1>5, <1>6 DEF Before
  <2>2. k = 1
    BY <1>4, <2>1 DEF IsInjective
  <2> QED BY <1>1, <2>1, <2>2
<1>7. x = Last(cmds) \/ Before(x, Last(cmds))
  <2>1. i = Len(cmds) \/ i < Len(cmds)
    BY <1>1
  <2> QED BY <1>2, <1>4, <1>5, <2>1 DEF Before
<1> QED BY <1>1, <1>3, <1>4, <1>5, <1>6, <1>7

\* What is in front of something is listed, and so is what it is in front of.
LEMMA BeforeListed ==
  ASSUME NEW x, NEW y, Before(x, y)
  PROVE  x \in Listed /\ y \in Listed
BY DEF Before, Listed, ToSet

\* list_del keeps the order of the others.
LEMMA BeforeDel ==
  ASSUME cmds \in Seq(Slots), NEW s, list_del(s), NEW x, NEW y, Before(x, y)'
  PROVE  Before(x, y)
<1>1. PICK k \in 1 .. Len(cmds) : cmds' = RemoveAt(cmds, k)
  BY DEF list_del
<1>2. /\ cmds' \in Seq(Slots) /\ Len(cmds') = Len(cmds) - 1
      /\ \A j \in 1 .. Len(cmds) - 1 : cmds'[j] = IF j < k THEN cmds[j] ELSE cmds[j + 1]
  BY <1>1, RemoveAtProperties
<1>3. PICK i, j \in DOMAIN cmds' : i < j /\ cmds'[i] = x /\ cmds'[j] = y
  BY DEF Before
<1>4. DOMAIN cmds' = 1 .. Len(cmds) - 1 /\ DOMAIN cmds = 1 .. Len(cmds) /\ Len(cmds) \in Nat
  BY <1>2
<1> DEFINE up(n) == IF n < k THEN n ELSE n + 1
<1>5. up(i) \in DOMAIN cmds /\ up(j) \in DOMAIN cmds /\ up(i) < up(j)
  BY <1>3, <1>4
<1>6. cmds[up(i)] = x /\ cmds[up(j)] = y
  BY <1>2, <1>3, <1>4
<1> QED BY <1>5, <1>6 DEF Before

\* list_add_tail puts a command behind the others.
LEMMA BeforeAdd ==
  ASSUME cmds \in Seq(Slots), NEW s \in Slots, s \notin Listed, cmds' = Append(cmds, s),
         NEW x, NEW y, Before(x, y)'
  PROVE  (Before(x, y) /\ y # s /\ x # s) \/ (y = s /\ x \in Listed)
<1>1. /\ cmds' \in Seq(Slots) /\ Len(cmds') = Len(cmds) + 1
      /\ \A j \in 1 .. Len(cmds) : cmds'[j] = cmds[j]
      /\ cmds'[Len(cmds) + 1] = s
  BY AppendProperties
<1>2. PICK i, j \in DOMAIN cmds' : i < j /\ cmds'[i] = x /\ cmds'[j] = y
  BY DEF Before
<1>3. DOMAIN cmds' = 1 .. Len(cmds) + 1 /\ DOMAIN cmds = 1 .. Len(cmds) /\ Len(cmds) \in Nat
  BY <1>1
<1>4. i \in DOMAIN cmds /\ cmds[i] = x /\ x \in Listed
  BY <1>1, <1>2, <1>3 DEF Listed, ToSet
<1>5. CASE j = Len(cmds) + 1
  BY <1>1, <1>2, <1>4, <1>5
<1>6. CASE j # Len(cmds) + 1
  <2>1. j \in DOMAIN cmds /\ cmds[j] = y
    BY <1>1, <1>2, <1>3, <1>6
  <2>2. Before(x, y)
    BY <1>2, <1>4, <2>1 DEF Before
  <2> QED BY <1>4, <2>2, BeforeListed
<1> QED BY <1>5, <1>6

\* A command accepted was not listed, and is nobody else's.
LEMMA Accepted ==
  ASSUME IInv, NEW p \in Senders, queue_accept(p)
  PROVE  /\ state = "INITED" /\ cmd[p] \in Slots /\ cmd[p] \notin Listed
         /\ cmd[p] \in used /\ flags[cmd[p]] \subseteq {"WAIT_CFM"}
         /\ \A t \in Threads : cmd[t] = cmd[p] => t = p
         /\ Listed' = Listed \cup {cmd[p]}
         /\ cmds' = Append(cmds, cmd[p])
<1>1. /\ cmds \in Seq(Slots) /\ state = "INITED" /\ p \in Threads
      /\ cmd \in [Threads -> Slots \cup {None}] /\ flags \in [Slots -> SUBSET Flags]
      /\ None \notin Slots
  BY ThreadsAssumption DEF IInv, TypeOK, queue_accept, Threads, Senders
<1>2. cmd[p] \in Slots /\ cmd[p] \notin Listed
  BY <1>1 DEF IInv, Holding, SlotByPlace, queue_accept, PreQueue
<1>3. cmd[p] \in used /\ \A t \in Threads : cmd[t] = cmd[p] => t = p
  BY <1>1, <1>2 DEF IInv, SlotsAccounted
<1>4. flags[cmd[p]] \subseteq {"WAIT_CFM"}
  BY <1>1, <1>2 DEF IInv, Holding, DeferredKept, Flags
<1>5. cmds' = Append(cmds, cmd[p])
  BY DEF queue_accept
<1>6. Listed' = Listed \cup {cmd[p]}
  BY <1>1, <1>2, <1>5, ListAdd DEF Listed
<1> QED BY <1>1, <1>2, <1>3, <1>4, <1>5, <1>6


\* Only an accepted command is put behind others.
LEMMA OrderChanges ==
  ASSUME IInv, [Next]_vars, \A p \in Senders : ~queue_accept(p), NEW x, NEW y, Before(x, y)'
  PROVE  Before(x, y)
<1>1. cmds \in Seq(Slots)
  BY DEF IInv, TypeOK
<1>2. CASE cmds' = cmds
  BY <1>2 DEF Before
<1>3. ASSUME NEW t \in Threads, remove(t)
      PROVE  Before(x, y)
  BY <1>1, <1>3, BeforeDel DEF remove
<1> QED BY <1>2, <1>3, ListChanges

\* A command's flags change when it is accepted, pushed by the worker, and
\* confirmed.
LEMMA FlagChanges ==
  ASSUME [Next]_vars
  PROVE  \/ UNCHANGED flags
         \/ \E p \in Senders : queue_accept(p)
         \/ work_push
         \/ cmd_mgr_msgind
BY DEF Next, Send, Await, Work, Deliver, vars, mgrVars, rwnx_send_msg, send_without_cfm,
       e2a_check_state, e2a_poll, queue_lock, queue_refuse, queue_defer, queue_push, leave,
       timed_out, crash, wait_killed, wait_completed, remove_lock, remove, wait_timed_out,
       timeout_lock, work_start, work_scan, work_leave, work_timed_out, receive_cfm,
       match_lock, disconnect

\* A caller comes to push a command by having it accepted, the worker by finding
\* it at the head of the list.
LEMMA PushChanges ==
  ASSUME TypeOK, [Next]_vars, NEW t \in Threads, pc'[t] = "push"
  PROVE  \/ pc[t] = "push" /\ cmd'[t] = cmd[t]
         \/ t \in Senders /\ queue_accept(t)
         \/ t = Worker /\ work_scan
<1>0. /\ pc \in [Threads -> Labels] /\ cmd \in [Threads -> Slots \cup {None}]
      /\ Senders \subseteq Threads /\ Worker \in Threads /\ Rx \in Threads
  BY ThreadsAssumption DEF Senders, Threads, TypeOK
<1>1. ASSUME NEW p \in Senders,
             rwnx_send_msg(p) \/ send_without_cfm(p) \/ e2a_check_state(p) \/ e2a_poll(p)
               \/ queue_lock(p)
      PROVE  pc[t] = "push" /\ cmd'[t] = cmd[t]
  BY <1>0, <1>1 DEF rwnx_send_msg, send_without_cfm, e2a_check_state, e2a_poll, queue_lock,
                    Goto, Return, Acquire
<1>2. ASSUME NEW p \in Senders, queue_refuse(p) \/ queue_defer(p) \/ queue_push(p) \/ leave(p)
                                  \/ timed_out(p) \/ wait_killed(p)
      PROVE  pc[t] = "push" /\ cmd'[t] = cmd[t]
  BY <1>0, <1>2 DEF queue_refuse, queue_defer, queue_push, leave, timed_out, wait_killed,
                    Goto, Return
<1>3. ASSUME NEW p \in Senders, queue_accept(p)
      PROVE  p = t \/ (pc[t] = "push" /\ cmd'[t] = cmd[t])
  BY <1>0, <1>3 DEF queue_accept, Goto
<1>4. ASSUME NEW u \in Threads, Await(u)
      PROVE  pc[t] = "push" /\ cmd'[t] = cmd[t]
  BY <1>0, <1>4 DEF Await, wait_completed, remove_lock, remove, wait_timed_out, timeout_lock,
                    Goto, Acquire
<1>5. ASSUME work_start \/ work_push \/ work_leave \/ work_timed_out
      PROVE  pc[t] = "push" /\ cmd'[t] = cmd[t]
  BY <1>0, <1>5 DEF work_start, work_push, work_leave, work_timed_out, Goto
<1>6. ASSUME work_scan
      PROVE  t = Worker \/ (pc[t] = "push" /\ cmd'[t] = cmd[t])
  BY <1>0, <1>6 DEF work_scan, Goto
<1>7. ASSUME receive_cfm \/ match_lock \/ cmd_mgr_msgind
      PROVE  pc[t] = "push" /\ cmd'[t] = cmd[t]
  BY <1>0, <1>7 DEF receive_cfm, match_lock, cmd_mgr_msgind, Goto, Acquire
<1>8. CASE UNCHANGED <<pc, cmd>>
  BY <1>8
<1> QED
  BY <1>1, <1>2, <1>3, <1>4, <1>5, <1>6, <1>7, <1>8
     DEF Next, Send, Work, Deliver, disconnect, vars

LEMMA DeferredBehindStep == IInv /\ DeferredBehind /\ [Next]_vars => DeferredBehind'
<1> SUFFICES ASSUME IInv, DeferredBehind, [Next]_vars
             PROVE  DeferredBehind'
  OBVIOUS
<1>0. /\ cmds \in Seq(Slots) /\ IsInjective(cmds) /\ TypeOK
      /\ flags \in [Slots -> SUBSET Flags] /\ Worker \in Threads /\ Worker \notin Senders
      /\ None \notin Slots /\ cmd \in [Threads -> Slots \cup {None}]
  BY ThreadsAssumption DEF IInv, QueueSound, TypeOK, Threads
<1>1. ASSUME NEW x \in Slots, NEW y \in Slots, Before(x, y)', flags'[x] # {}
      PROVE  "WAIT_PUSH" \in flags'[y]
  <2>1. ASSUME NEW p \in Senders, queue_accept(p)
        PROVE  "WAIT_PUSH" \in flags'[y]
    <3> DEFINE s == cmd[p]
    <3>1. /\ s \in Slots /\ s \notin Listed /\ cmds' = Append(cmds, s)
      BY <2>1, Accepted
    <3>2. flags' = [flags EXCEPT ![s] = @ \cup {"WAIT_CFM"}
                                          \cup (IF MustDefer(p) THEN {"WAIT_PUSH"} ELSE {})]
      BY <2>1 DEF queue_accept
    <3>3. CASE Before(x, y) /\ x # s /\ y # s
      BY <1>0, <1>1, <3>1, <3>2, <3>3 DEF DeferredBehind
    <3>4. CASE y = s /\ x \in Listed
      <4>1. flags[x] # {} /\ flags[x] \subseteq {"WAIT_PUSH", "WAIT_CFM"}
        BY <1>0, <1>1, <3>1, <3>2, <3>4 DEF Flags
      <4>2. /\ cmds # <<>> /\ Last(cmds) \in Slots
            /\ x = Last(cmds) \/ Before(x, Last(cmds))
        BY <1>0, <3>4, ListOrder
      <4>3. CASE x = Last(cmds)
        BY <1>0, <3>1, <3>2, <3>4, <4>1, <4>2, <4>3 DEF MustDefer
      <4>4. CASE Before(x, Last(cmds))
        <5>1. "WAIT_PUSH" \in flags[Last(cmds)]
          BY <4>1, <4>2, <4>4 DEF DeferredBehind
        <5>2. MustDefer(p)
          BY <4>2, <5>1 DEF MustDefer
        <5> QED BY <1>0, <3>1, <3>2, <3>4, <5>2
      <4> QED BY <4>2, <4>3, <4>4
    <3> HIDE DEF s
    <3> QED BY <1>0, <1>1, <3>1, <3>3, <3>4, BeforeAdd
  <2>2. CASE \A p \in Senders : ~queue_accept(p)
    <3>1. Before(x, y)
      BY <1>1, <2>2, OrderChanges
    <3>2. CASE UNCHANGED flags
      BY <1>1, <3>1, <3>2 DEF DeferredBehind
    <3>3. CASE work_push
      <4>1. cmd[Worker] # y
        BY <1>1, <3>1, <3>3 DEF DeferredBehind, work_push
      <4>2. flags' = [flags EXCEPT ![cmd[Worker]] = @ \ {"WAIT_PUSH"}]
        BY <3>3 DEF work_push
      <4>3. flags[x] # {}
        BY <1>0, <1>1, <4>2
      <4> QED BY <1>0, <3>1, <4>1, <4>2, <4>3 DEF DeferredBehind
    <3>4. CASE cmd_mgr_msgind
      <4>1. \A s \in Slots : /\ flags'[s] \subseteq flags[s]
                             /\ "WAIT_PUSH" \in flags[s] => "WAIT_PUSH" \in flags'[s]
        BY <1>0, <3>4 DEF cmd_mgr_msgind
      <4> QED BY <1>1, <3>1, <4>1 DEF DeferredBehind
    <3> QED BY <2>2, <3>2, <3>3, <3>4, FlagChanges
  <2> QED BY <2>1, <2>2
<1>2. ASSUME pc'[Worker] = "push", NEW x \in Slots, Before(x, cmd[Worker])'
      PROVE  FALSE
  <2>1. CASE work_scan
    <3>1. cmds' = cmds /\ pc[Worker] = "scan"
      BY <2>1 DEF work_scan, mgrVars
    <3>2. cmds # <<>> /\ cmd'[Worker] = Head(cmds)
      BY <1>0, <1>2, <2>1 DEF work_scan, Goto, TypeOK
    <3>3. Before(x, Head(cmds))
      BY <1>2, <3>1, <3>2 DEF Before
    <3> QED BY <1>0, <3>3, BeforeListed, ListOrder
  <2>2. CASE pc[Worker] = "push" /\ cmd'[Worker] = cmd[Worker]
    <3>0. ~Before(x, cmd[Worker]) /\ cmd[Worker] \in Listed
      BY <1>0, <2>2 DEF DeferredBehind, IInv, Holding, SlotByPlace, Waiting
    <3>2. ASSUME NEW p \in Senders, queue_accept(p)
          PROVE  FALSE
      <4>1. cmd[p] \in Slots /\ cmd[p] \notin Listed /\ cmds' = Append(cmds, cmd[p])
        BY <3>2, Accepted
      <4>2. ASSUME NEW s, NEW y, s = cmd[p], y = cmd[Worker]
            PROVE  FALSE
        <5>1. Before(x, y)'
          BY <1>2, <2>2, <4>2 DEF Before
        <5>2. s \in Slots /\ s \notin Listed /\ cmds' = Append(cmds, s) /\ y # s /\ ~Before(x, y)
          BY <3>0, <4>1, <4>2
        <5> QED BY <1>0, <5>1, <5>2, BeforeAdd
      <4> QED BY <4>2
    <3>3. CASE \A p \in Senders : ~queue_accept(p)
      <4>1. ASSUME NEW y, y = cmd[Worker]
            PROVE  Before(x, y)' => Before(x, y)
        BY <3>3, OrderChanges
      <4> QED BY <1>2, <2>2, <3>0, <4>1 DEF Before
    <3> QED BY <3>2, <3>3
  <2> QED BY <1>0, <1>2, <2>1, <2>2, PushChanges
<1> QED BY <1>1, <1>2 DEF DeferredBehind

\* A manager that crashed stays so, a killed caller stays killed, and a device
\* unplugged is not plugged in again.
LEMMA CalmBefore ==
  ASSUME TypeOK, [Next]_vars
  PROVE  /\ Calm' => Calm
         /\ killed' = {} => killed = {}
         /\ state' = "INITED" => state = "INITED"
         /\ usb' = "UP" => usb = "UP"
<1>1. state \in {"INITED", "CRASHED"}
  BY DEF TypeOK
<1>2. state = "CRASHED" => state' = "CRASHED"
  BY DEF Next, Send, Await, Work, Deliver, vars, mgrVars, rwnx_send_msg, send_without_cfm,
         e2a_check_state, e2a_poll, queue_lock, queue_refuse, queue_accept, queue_defer,
         queue_push, leave, timed_out, crash, wait_killed, wait_completed, remove_lock, remove,
         wait_timed_out, timeout_lock, work_start, work_scan, work_push, work_leave,
         work_timed_out, receive_cfm, match_lock, cmd_mgr_msgind, disconnect
<1>3. killed' = {} => killed = {}
  BY DEF Next, Send, Await, Work, Deliver, vars, envVars, rwnx_send_msg, send_without_cfm,
         e2a_check_state, e2a_poll, queue_lock, queue_refuse, queue_accept, queue_defer,
         queue_push, leave, timed_out, crash, wait_killed, wait_completed, remove_lock, remove,
         wait_timed_out, timeout_lock, work_start, work_scan, work_push, work_leave,
         work_timed_out, receive_cfm, match_lock, cmd_mgr_msgind, disconnect
<1>4. usb' = "UP" => usb = "UP"
  BY DEF Next, Send, Await, Work, Deliver, vars, envVars, rwnx_send_msg, send_without_cfm,
         e2a_check_state, e2a_poll, queue_lock, queue_refuse, queue_accept, queue_defer,
         queue_push, leave, timed_out, crash, wait_killed, wait_completed, remove_lock, remove,
         wait_timed_out, timeout_lock, work_start, work_scan, work_push, work_leave,
         work_timed_out, receive_cfm, match_lock, cmd_mgr_msgind, disconnect
<1> QED BY <1>1, <1>2, <1>3, <1>4 DEF Calm

\* Freeing a slot no answer is under way for leaves the answers alone.
LEMMA FreeKeepsAnswers ==
  ASSUME TypeOK, NEW s, rwnx_cmd_free(s), \A m \in InFlight : m.slot # s
  PROVE  firmware' = firmware /\ msg' = msg
<1>1. firmware \in Seq(Messages)
  BY DEF TypeOK
<1>2. \A i \in DOMAIN firmware : firmware[i].slot # s
  BY DEF InFlight, ToSet
<1>3. Orphaned(s) = [i \in DOMAIN firmware |-> firmware[i]]
  BY <1>2 DEF Orphaned
<1>4. firmware = [i \in DOMAIN firmware |-> firmware[i]]
  BY <1>1
<1>5. msg # None => msg.slot # s
  BY DEF InFlight
<1> QED BY <1>3, <1>4, <1>5 DEF rwnx_cmd_free

\* Steps that leave list, flags and answers alone, push nothing, and remove
\* confirmed commands only.
LEMMA QuietStep ==
  ASSUME AnswerInv, flags' = flags, cmds' = cmds, firmware' = firmware, msg' = msg,
         \A m \in InFlight : reqid'[m.slot] = reqid[m.slot],
         \A t \in Threads : pc'[t] = "push" => pc[t] = "push" /\ cmd'[t] = cmd[t],
         \A t \in Threads : pc'[t] \in {"remove", "removing"} =>
            \/ pc[t] \in {"remove", "removing"} /\ cmd'[t] = cmd[t]
            \/ "WAIT_CFM" \notin flags[cmd'[t]],
         pc'[Rx] \in {"match", "matching"} => pc[Rx] \in {"match", "matching"}
  PROVE  AnswerInv'
<1>1. InFlight' = InFlight /\ Listed' = Listed
  BY DEF InFlight, Listed
<1>2. AnswerHasCommand'
  BY <1>1 DEF AnswerInv, AnswerHasCommand
<1>3. WaitsForCfm'
  BY DEF AnswerInv, WaitsForCfm
<1> QED BY <1>2, <1>3 DEF AnswerInv, HasMessage, OneUnderWay

\* A command about to be pushed is the only one without an answer: none is
\* under way.
LEMMA PushFindsNone ==
  ASSUME IInv, DeferredBehind, AnswerInv, NEW t \in Threads, pc[t] = "push"
  PROVE  InFlight = {} /\ firmware = <<>> /\ msg = None /\ cmd[t] \in Listed
<1>1. /\ cmds \in Seq(Slots) /\ IsInjective(cmds) /\ Listed \subseteq Slots
      /\ cmd[t] \in Listed /\ firmware \in Seq(Messages)
  BY DEF IInv, TypeOK, QueueSound, Holding, SlotByPlace, Waiting, Listed, ToSet
<1>2. ASSUME NEW m \in InFlight
      PROVE  FALSE
  <2>1. m.slot \in Listed /\ m.slot # cmd[t] /\ flags[m.slot] = {"WAIT_CFM"}
    BY <1>2 DEF AnswerInv, AnswerHasCommand
  <2>2. Before(m.slot, cmd[t]) \/ Before(cmd[t], m.slot)
    BY <1>1, <2>1, ListOrder
  <2>3. CASE Before(cmd[t], m.slot)
    <3>1. flags[cmd[t]] # {}
      BY DEF AnswerInv, WaitsForCfm
    <3> QED BY <1>1, <2>1, <2>3, <3>1 DEF DeferredBehind
  <2>4. CASE Before(m.slot, cmd[t])
    <3>1. t # Worker
      BY <1>1, <2>1, <2>4 DEF DeferredBehind
    <3>2. "WAIT_PUSH" \in flags[cmd[t]]
      BY <1>1, <2>1, <2>4 DEF DeferredBehind
    <3> QED BY <1>1, <3>1, <3>2 DEF IInv, Holding, DeferredKept
  <2> QED BY <2>2, <2>3, <2>4
<1>3. firmware = <<>>
  <2>1. \A i \in DOMAIN firmware : firmware[i] \in InFlight
    BY DEF InFlight, ToSet
  <2>2. firmware # <<>> => 1 \in DOMAIN firmware
    BY <1>1
  <2> QED BY <1>2, <2>1, <2>2
<1>4. msg = None
  BY <1>2 DEF InFlight
<1> QED BY <1>1, <1>2, <1>3, <1>4

\* While an answer is delivered, the command it finds is the one it is for.
LEMMA MatchIsRight ==
  ASSUME IInv, DeferredBehind, AnswerInv, pc[Rx] \in {"match", "matching"}
  PROVE  /\ msg # None /\ msg \in InFlight /\ msg.slot \in Slots
         /\ \E i \in DOMAIN cmds : IsMatch(i) /\ cmds[i] = msg.slot
         /\ \A i \in DOMAIN cmds : IsMatch(i) => cmds[i] = msg.slot
<1>1. /\ cmds \in Seq(Slots) /\ DOMAIN cmds = 1 .. Len(cmds) /\ Len(cmds) \in Nat
      /\ Listed \subseteq Slots
  BY DEF IInv, TypeOK, Listed, ToSet
<1>2. msg # None /\ msg \in InFlight
  BY DEF AnswerInv, HasMessage, InFlight
<1>3. msg.slot \in Listed /\ msg.id = reqid[msg.slot] /\ flags[msg.slot] = {"WAIT_CFM"}
  BY <1>2 DEF AnswerInv, AnswerHasCommand
<1>4. PICK k \in DOMAIN cmds : cmds[k] = msg.slot
  BY <1>3 DEF Listed, ToSet
<1>5. Wants(cmds[k])
  BY <1>3, <1>4 DEF Wants
<1>6. ASSUME NEW j \in DOMAIN cmds, j < k, Wants(cmds[j])
      PROVE  FALSE
  <2>1. Before(cmds[j], msg.slot) /\ flags[cmds[j]] # {} /\ cmds[j] \in Slots
    BY <1>1, <1>4, <1>6 DEF Before, Wants
  <2> QED BY <1>1, <1>3, <2>1 DEF DeferredBehind
<1>7. IsMatch(k)
  BY <1>1, <1>5, <1>6 DEF IsMatch
<1>8. ASSUME NEW i \in DOMAIN cmds, IsMatch(i)
      PROVE  cmds[i] = msg.slot
  <2>1. ~(k < i)
    BY <1>1, <1>5, <1>8 DEF IsMatch
  <2>2. ~(i < k)
    BY <1>6, <1>8 DEF IsMatch
  <2> QED BY <1>1, <1>4, <2>1, <2>2
<1> QED BY <1>1, <1>2, <1>3, <1>4, <1>7, <1>8

LEMMA AnswerStep ==
  IInv /\ TypeOK' /\ DeferredBehind /\ AnswerInv /\ Calm /\ [Next]_vars /\ Calm' => AnswerInv'
<1> SUFFICES ASSUME IInv, TypeOK', DeferredBehind, AnswerInv, Calm, [Next]_vars, Calm'
             PROVE  AnswerInv'
  OBVIOUS
<1>0. /\ TypeOK /\ Senders \subseteq Threads /\ Worker \in Threads /\ Rx \in Senders
      /\ Worker \notin Senders /\ None \notin Slots
      /\ pc \in [Threads -> Labels] /\ cmd \in [Threads -> Slots \cup {None}]
      /\ flags \in [Slots -> SUBSET Flags] /\ reqid \in [Slots -> Ids \cup {None}]
      /\ cmds \in Seq(Slots) /\ IsInjective(cmds) /\ Listed \subseteq Slots
      /\ firmware \in Seq(Messages) /\ state = "INITED" /\ killed = {}
  BY ThreadsAssumption DEF IInv, TypeOK, QueueSound, Senders, Threads, Calm, Listed, ToSet
<1>M. \A m \in InFlight :
        /\ m.slot \in Listed
        /\ m.id = reqid[m.slot]
        /\ flags[m.slot] = {"WAIT_CFM"}
        /\ \A t \in Threads : cmd[t] = m.slot => pc[t] # "push"
  BY DEF AnswerInv, AnswerHasCommand
<1>1. ASSUME NEW p \in Senders,
             e2a_check_state(p) \/ e2a_poll(p) \/ queue_lock(p) \/ queue_defer(p)
      PROVE  AnswerInv'
  BY <1>0, <1>1, QuietStep DEF e2a_check_state, e2a_poll, queue_lock, queue_defer, Goto, Return,
                               Acquire, mgrVars, poolVars, fwVars
<1>2. ASSUME NEW t \in Threads, Await(t), ~remove(t)
      PROVE  AnswerInv'
  BY <1>0, <1>2, QuietStep DEF Await, wait_completed, remove_lock, wait_timed_out, timeout_lock,
                               Completed, Goto, Acquire, mgrVars, poolVars, fwVars
<1>3. ASSUME work_start \/ match_lock \/ disconnect \/ UNCHANGED vars
      PROVE  AnswerInv'
  BY <1>0, <1>3, QuietStep DEF work_start, match_lock, disconnect, vars, Goto, Acquire, mgrVars,
                               poolVars, fwVars
<1>4. ASSUME NEW p \in Senders, rwnx_send_msg(p)
      PROVE  AnswerInv'
  <2>1. PICK s \in Slots \ used, r \in RequestsOf(p) : reqid' = [reqid EXCEPT ![s] = r.id]
    BY <1>4 DEF rwnx_send_msg
  <2>2. s \notin Listed
    BY <1>0 DEF IInv, SlotsAccounted
  <2>3. \A m \in InFlight : reqid'[m.slot] = reqid[m.slot]
    BY <1>0, <1>M, <2>1, <2>2
  <2>4. /\ flags' = flags /\ cmds' = cmds /\ firmware' = firmware /\ msg' = msg
        /\ \A t \in Threads : pc'[t] = "enter" \/ (pc'[t] = pc[t] /\ cmd'[t] = cmd[t])
    BY <1>0, <1>4 DEF rwnx_send_msg, Goto, mgrVars, fwVars
  <2> QED BY <1>0, <2>3, <2>4, QuietStep
<1>5. ASSUME NEW t \in Threads, NEW s \in Slots, s = cmd[t], s \notin Listed, rwnx_cmd_free(s),
             pc'[t] \in {"idle", "scan"}, flags' = flags, cmds' = cmds,
             \A u \in Threads : u # t => pc'[u] = pc[u] /\ cmd'[u] = cmd[u]
      PROVE  AnswerInv'
  <2>1. firmware' = firmware /\ msg' = msg
    BY <1>0, <1>5, <1>M, FreeKeepsAnswers
  <2>2. \A m \in InFlight : reqid'[m.slot] = reqid[m.slot]
    BY <1>0, <1>5, <1>M DEF rwnx_cmd_free
  <2>3. Rx \in Threads /\ pc'[t] \notin {"match", "matching", "push", "remove", "removing"}
    BY <1>0, <1>5
  <2> QED BY <1>5, <2>1, <2>2, <2>3, QuietStep
<1>6. ASSUME NEW p \in Senders, send_without_cfm(p) \/ queue_refuse(p) \/ leave(p)
      PROVE  AnswerInv'
  <2>1. cmd[p] \in Slots /\ cmd[p] \notin Listed
    BY <1>0, <1>6 DEF IInv, Holding, SlotByPlace, PreQueue, send_without_cfm, queue_refuse, leave
  <2>2. /\ rwnx_cmd_free(cmd[p]) /\ pc'[p] = "idle" /\ flags' = flags /\ cmds' = cmds
        /\ \A u \in Threads : u # p => pc'[u] = pc[u] /\ cmd'[u] = cmd[u]
    BY <1>0, <1>6 DEF send_without_cfm, queue_refuse, leave, Return, Goto, mgrVars
  <2> QED BY <1>0, <1>5, <2>1, <2>2
<1>7. ASSUME work_leave
      PROVE  AnswerInv'
  <2>1. cmd[Worker] \in Slots /\ cmd[Worker] \notin Listed
    BY <1>0, <1>7 DEF IInv, Holding, SlotByPlace, work_leave
  <2>2. /\ rwnx_cmd_free(cmd[Worker]) /\ pc'[Worker] = "scan" /\ flags' = flags /\ cmds' = cmds
        /\ \A u \in Threads : u # Worker => pc'[u] = pc[u] /\ cmd'[u] = cmd[u]
    BY <1>0, <1>7 DEF work_leave, Goto, mgrVars
  <2> QED BY <1>0, <1>5, <2>1, <2>2
<1>8. ASSUME work_scan
      PROVE  AnswerInv'
  <2>1. /\ flags' = flags /\ cmds' = cmds /\ firmware' = firmware /\ msg' = msg /\ reqid' = reqid
        /\ \A t \in Threads : t # Worker => pc'[t] = pc[t] /\ cmd'[t] = cmd[t]
        /\ \/ pc'[Worker] = "idle"
           \/ /\ pc'[Worker] = "push" /\ cmd'[Worker] = Head(cmds) /\ cmds # <<>>
              /\ "WAIT_PUSH" \in flags[Head(cmds)]
    BY <1>0, <1>8 DEF work_scan, Goto, mgrVars, poolVars, fwVars
  <2>2. CASE pc'[Worker] = "idle"
    BY <1>0, <2>1, <2>2, QuietStep
  <2>3. CASE pc'[Worker] = "push" /\ cmd'[Worker] = Head(cmds) /\ cmds # <<>>
             /\ "WAIT_PUSH" \in flags[Head(cmds)]
    <3>1. Head(cmds) \in Slots /\ "WAIT_CFM" \in flags[Head(cmds)]
      BY <1>0, <2>3 DEF AnswerInv, WaitsForCfm
    <3>2. InFlight' = InFlight /\ Listed' = Listed
      BY <2>1 DEF InFlight, Listed
    <3>3. AnswerHasCommand'
      BY <1>0, <1>M, <2>1, <2>3, <3>2 DEF AnswerHasCommand
    <3>4. WaitsForCfm'
      BY <1>0, <2>1, <2>3, <3>1 DEF AnswerInv, WaitsForCfm
    <3> QED BY <1>0, <2>1, <3>3, <3>4 DEF AnswerInv, HasMessage, OneUnderWay
  <2> QED BY <2>1, <2>2, <2>3
<1>9. ASSUME NEW p \in Senders, queue_accept(p)
      PROVE  AnswerInv'
  <2>1. /\ cmd[p] \in Slots /\ cmd[p] \notin Listed
        /\ \A t \in Threads : cmd[t] = cmd[p] => t = p
        /\ Listed' = Listed \cup {cmd[p]}
    BY <1>9, Accepted
  <2>2. /\ \A t \in Threads : t # p => pc'[t] = pc[t] /\ cmd'[t] = cmd[t]
        /\ pc'[p] = "defer" \/ (pc'[p] = "push" /\ cmd'[p] = cmd[p])
        /\ firmware' = firmware /\ msg' = msg /\ reqid' = reqid
        /\ \A s \in Slots : s # cmd[p] => flags'[s] = flags[s]
        /\ "WAIT_CFM" \in flags'[cmd[p]]
    BY <1>0, <1>9, <2>1 DEF queue_accept, Goto, fwVars, poolVars
  <2>3. InFlight' = InFlight
    BY <2>2 DEF InFlight
  <2>4. AnswerHasCommand'
    BY <1>0, <1>M, <2>1, <2>2, <2>3 DEF AnswerHasCommand
  <2>5. WaitsForCfm'
    <3>1. \A t \in Threads : pc[t] \in {"push", "remove", "removing"} => cmd[t] \in Slots
      BY <1>0 DEF IInv, Holding, SlotByPlace, Waiting
    <3> QED BY <1>0, <2>1, <2>2, <3>1 DEF AnswerInv, WaitsForCfm
  <2>6. HasMessage' /\ OneUnderWay'
    BY <1>0, <2>2 DEF AnswerInv, HasMessage, OneUnderWay
  <2> QED BY <2>4, <2>5, <2>6 DEF AnswerInv
<1>10. ASSUME NEW t \in Threads, pc[t] = "push", pc'[t] = "wait", aicwf_set_cmd_tx(cmd[t]),
              cmds' = cmds, msg' = msg, reqid' = reqid, cmd' = cmd,
              \A u \in Threads : u # t => pc'[u] = pc[u],
              \A s \in Slots : s # cmd[t] => flags'[s] = flags[s],
              flags'[cmd[t]] = {"WAIT_CFM"}
       PROVE  AnswerInv'
  <2>1. InFlight = {} /\ firmware = <<>> /\ msg = None /\ cmd[t] \in Listed
    BY <1>10, PushFindsNone
  <2>2. \A u \in Threads : u # t => cmd[u] # cmd[t]
    BY <1>0, <2>1 DEF IInv, SlotsAccounted
  <2> DEFINE m == [slot |-> cmd[t], id |-> reqid[cmd[t]]]
  <2>3. firmware' = <<>> \/ firmware' = <<m>>
    <3>1. Append(<<>>, m) = <<m>>
      OBVIOUS
    <3> HIDE DEF m
    <3>2. firmware' = <<>> \/ firmware' = Append(<<>>, m)
      BY <1>10, <2>1 DEF aicwf_set_cmd_tx, m
    <3> QED BY <3>1, <3>2
  <2>4. Len(firmware') <= 1 /\ ToSet(firmware') \subseteq {m}
    <3> HIDE DEF m
    <3>1. CASE firmware' = <<>>
      BY <3>1 DEF ToSet
    <3>2. CASE firmware' = <<m>>
      <4>1. Len(firmware') = 1 /\ DOMAIN firmware' = {1} /\ firmware'[1] = m
        BY <3>2
      <4> QED BY <4>1 DEF ToSet
    <3> QED BY <2>3, <3>1, <3>2
  <2>5. InFlight' \subseteq {m}
    BY <1>10, <2>1, <2>4 DEF InFlight
  <2>6. AnswerHasCommand'
    <3>1. Listed' = Listed
      BY <1>10 DEF Listed
    <3>2. m.slot = cmd[t] /\ m.id = reqid[cmd[t]]
      OBVIOUS
    <3> HIDE DEF m
    <3>3. \A u \in Threads : cmd'[u] = m.slot => pc'[u] # "push"
      BY <1>10, <2>2, <3>2
    <3> QED BY <1>0, <1>10, <2>1, <2>5, <3>1, <3>2, <3>3 DEF AnswerHasCommand
  <2>7. WaitsForCfm'
    <3>1. \A u \in Threads : pc[u] \in {"push", "remove", "removing"} => cmd[u] \in Slots
      BY <1>0 DEF IInv, Holding, SlotByPlace, Waiting
    <3> QED BY <1>0, <1>10, <2>1, <2>2, <3>1 DEF AnswerInv, WaitsForCfm
  <2>8. OneUnderWay'
    <3>1. Len(firmware') \in Nat
      BY <1>0 DEF TypeOK
    <3> QED BY <1>10, <2>1, <2>4, <3>1 DEF OneUnderWay
  <2>9. HasMessage'
    <3>1. Rx \in Threads /\ Rx # t => pc'[Rx] = pc[Rx]
      BY <1>0, <1>10
    <3> QED BY <1>0, <1>10, <3>1 DEF AnswerInv, HasMessage
  <2> QED BY <2>6, <2>7, <2>8, <2>9 DEF AnswerInv
<1>11. ASSUME NEW p \in Senders, queue_push(p)
       PROVE  AnswerInv'
  <2>1. pc[p] = "push" /\ cmd[p] \in Slots /\ "WAIT_CFM" \in flags[cmd[p]]
    BY <1>0, <1>11 DEF queue_push, AnswerInv, WaitsForCfm, IInv, Holding, SlotByPlace, Waiting
  <2>2. flags[cmd[p]] = {"WAIT_CFM"}
    BY <1>0, <2>1 DEF IInv, Holding, DeferredKept, Flags
  <2>3. /\ pc'[p] = "wait" /\ aicwf_set_cmd_tx(cmd[p]) /\ cmds' = cmds /\ msg' = msg
        /\ reqid' = reqid /\ cmd' = cmd /\ flags' = flags
        /\ \A u \in Threads : u # p => pc'[u] = pc[u]
    BY <1>0, <1>11 DEF queue_push, Goto, mgrVars, poolVars
  <2> QED BY <1>0, <1>10, <2>1, <2>2, <2>3
<1>12. ASSUME work_push
       PROVE  AnswerInv'
  <2>1. /\ pc[Worker] = "push" /\ cmd[Worker] \in Slots
        /\ "WAIT_CFM" \in flags[cmd[Worker]]
    BY <1>0, <1>12 DEF work_push, AnswerInv, WaitsForCfm, IInv, Holding, SlotByPlace, Waiting
  <2>2. flags' = [flags EXCEPT ![cmd[Worker]] = @ \ {"WAIT_PUSH"}]
    BY <1>12 DEF work_push
  <2>3. flags'[cmd[Worker]] = {"WAIT_CFM"} /\ \A s \in Slots : s # cmd[Worker] => flags'[s] = flags[s]
    BY <1>0, <2>1, <2>2 DEF Flags
  <2>4. /\ pc'[Worker] = "wait" /\ aicwf_set_cmd_tx(cmd[Worker]) /\ cmds' = cmds /\ msg' = msg
        /\ reqid' = reqid /\ cmd' = cmd
        /\ \A u \in Threads : u # Worker => pc'[u] = pc[u]
    BY <1>0, <1>12 DEF work_push, Goto, mgrVars, poolVars
  <2> QED BY <1>0, <1>10, <2>1, <2>3, <2>4
<1>13. ASSUME NEW t \in Threads, remove(t)
       PROVE  AnswerInv'
  <2>1. cmd[t] \in Slots /\ "WAIT_CFM" \notin flags[cmd[t]]
    BY <1>0, <1>13 DEF remove, AnswerInv, WaitsForCfm, IInv, Holding, SlotByPlace, Waiting
  <2>2. Listed' = Listed \ {cmd[t]}
    BY <1>0, <1>13, ListDelStep DEF remove
  <2>3. /\ flags' = flags /\ reqid' = reqid /\ cmd' = cmd /\ firmware' = firmware /\ msg' = msg
        /\ pc'[t] = "leave" /\ \A u \in Threads : u # t => pc'[u] = pc[u]
    BY <1>0, <1>13 DEF remove, Goto, poolVars, fwVars
  <2>4. InFlight' = InFlight /\ Rx \in Threads
    BY <1>0, <2>3 DEF InFlight
  <2>5. AnswerHasCommand'
    BY <1>M, <2>1, <2>2, <2>3, <2>4 DEF AnswerHasCommand
  <2>6. WaitsForCfm' /\ HasMessage' /\ OneUnderWay'
    BY <2>3, <2>4 DEF AnswerInv, WaitsForCfm, HasMessage, OneUnderWay
  <2> QED BY <2>5, <2>6 DEF AnswerInv
<1>14. ASSUME receive_cfm
       PROVE  AnswerInv'
  <2>1. /\ firmware # <<>> /\ msg' = Head(firmware) /\ firmware' = Tail(firmware)
        /\ flags' = flags /\ reqid' = reqid /\ cmd' = cmd /\ cmds' = cmds
        /\ pc'[Rx] = "match" /\ \A u \in Threads : u # Rx => pc'[u] = pc[u]
    BY <1>0, <1>14 DEF receive_cfm, Goto, mgrVars, poolVars
  <2>2. /\ Len(firmware) \in Nat \ {0} /\ Head(firmware) = firmware[1] /\ 1 \in DOMAIN firmware
        /\ Head(firmware) \in Messages /\ Tail(firmware) \in Seq(Messages)
        /\ Len(Tail(firmware)) = Len(firmware) - 1
    BY <1>0, <2>1
  <2>3. Len(firmware) = 1 /\ Len(firmware') = 0
    BY <2>1, <2>2 DEF AnswerInv, OneUnderWay
  <2>4. msg' \in InFlight /\ msg' # None
    BY <2>1, <2>2, NoneAssumption DEF InFlight, ToSet
  <2>5. InFlight' = {msg'}
    <3>1. firmware' = <<>>
      BY <2>1, <2>2, <2>3, EmptySeq
    <3> QED BY <2>4, <3>1 DEF InFlight, ToSet
  <2>6. Listed' = Listed
    BY <2>1 DEF Listed
  <2>7. AnswerHasCommand'
    <3>1. \A u \in Threads : pc'[u] = "push" => pc[u] = "push"
      BY <2>1
    <3> QED BY <1>M, <2>1, <2>4, <2>5, <2>6, <3>1 DEF AnswerHasCommand
  <2>8. WaitsForCfm' /\ HasMessage' /\ OneUnderWay'
    BY <1>0, <2>1, <2>3, <2>4 DEF AnswerInv, WaitsForCfm, HasMessage, OneUnderWay
  <2> QED BY <2>7, <2>8 DEF AnswerInv
<1>15. ASSUME cmd_mgr_msgind
       PROVE  AnswerInv'
  <2>1. /\ msg # None /\ msg \in InFlight /\ msg.slot \in Slots
        /\ \E i \in DOMAIN cmds : IsMatch(i) /\ cmds[i] = msg.slot
        /\ \A i \in DOMAIN cmds : IsMatch(i) => cmds[i] = msg.slot
    BY <1>15, MatchIsRight DEF cmd_mgr_msgind
  <2>2. flags' = [flags EXCEPT ![msg.slot] = @ \ {"WAIT_CFM"}]
    <3>1. ~\A i \in DOMAIN cmds : ~Wants(cmds[i])
      BY <2>1 DEF IsMatch
    <3>2. PICK i \in DOMAIN cmds : IsMatch(i) /\ flags' = [flags EXCEPT ![cmds[i]] = @ \ {"WAIT_CFM"}]
      BY <1>15, <3>1 DEF cmd_mgr_msgind
    <3> QED BY <2>1, <3>2
  <2>3. flags[msg.slot] = {"WAIT_CFM"} /\ \A t \in Threads : cmd[t] = msg.slot => pc[t] # "push"
    BY <1>M, <2>1
  <2>4. firmware = <<>> /\ firmware' = firmware /\ msg' = None
    <3>1. Len(firmware) <= 0 /\ Len(firmware) \in Nat
      BY <1>0, <2>1 DEF AnswerInv, OneUnderWay
    <3> QED BY <1>0, <1>15, <3>1, EmptySeq DEF cmd_mgr_msgind
  <2>5. InFlight' = {}
    BY <2>4 DEF InFlight, ToSet
  <2>6. cmd' = cmd /\ pc'[Rx] = "idle" /\ \A u \in Threads : u # Rx => pc'[u] = pc[u]
    BY <1>0, <1>15 DEF cmd_mgr_msgind, Goto
  <2>7. WaitsForCfm'
    <3>1. \A t \in Threads : pc[t] \in {"push", "remove", "removing"} => cmd[t] \in Slots
      BY <1>0 DEF IInv, Holding, SlotByPlace, Waiting
    <3> QED BY <1>0, <2>1, <2>2, <2>3, <2>6, <3>1 DEF AnswerInv, WaitsForCfm
  <2>8. HasMessage' /\ OneUnderWay' /\ AnswerHasCommand'
    BY <2>4, <2>5, <2>6 DEF HasMessage, OneUnderWay, AnswerHasCommand
  <2> QED BY <2>7, <2>8 DEF AnswerInv
<1>16. ASSUME NEW p \in Senders
       PROVE  ~wait_killed(p) /\ ~timed_out(p)
  BY DEF wait_killed, timed_out, crash, Calm
<1>17. ~work_timed_out
  BY DEF work_timed_out, crash, Calm
<1> QED
  BY <1>1, <1>2, <1>3, <1>4, <1>6, <1>7, <1>8, <1>9, <1>11, <1>12, <1>13, <1>14, <1>15, <1>16, <1>17
     DEF Next, Send, Work, Deliver

\* A command stays pushed as long as it is listed.
LEMMA PushedStays ==
  ASSUME IInv, [Next]_vars, NEW x \in Listed, Pushed(x)
  PROVE  Pushed(x)'
<1>0. /\ TypeOK /\ x \in Slots /\ flags \in [Slots -> SUBSET Flags] /\ None \notin Slots
      /\ Senders \subseteq Threads /\ Worker \in Threads
      /\ cmd \in [Threads -> Slots \cup {None}] /\ cmds \in Seq(Slots)
  BY ThreadsAssumption DEF IInv, TypeOK, Listed, ToSet, Senders, Threads
<1>1. "WAIT_PUSH" \notin flags'[x]
  <2>1. ASSUME NEW p \in Senders, queue_accept(p)
        PROVE  flags'[x] = flags[x]
    BY <1>0, <2>1, Accepted DEF queue_accept
  <2>2. ASSUME work_push \/ cmd_mgr_msgind
        PROVE  flags'[x] \subseteq flags[x]
    BY <1>0, <2>2 DEF work_push, cmd_mgr_msgind
  <2> QED BY <2>1, <2>2, FlagChanges DEF Pushed
<1>2. ASSUME NEW t \in Threads, cmd'[t] = x, pc'[t] = "push"
      PROVE  FALSE
  <2>1. CASE pc[t] = "push" /\ cmd'[t] = cmd[t]
    BY <1>2, <2>1 DEF Pushed
  <2>2. CASE t \in Senders /\ queue_accept(t)
    <3>1. cmd[t] \notin Listed
      BY <2>2, Accepted
    <3>2. cmd'[t] \in {None, cmd[t]}
      BY <1>0, <2>2 DEF queue_accept
    <3> QED BY <1>0, <1>2, <3>1, <3>2
  <2>3. CASE t = Worker /\ work_scan
    <3>1. cmd'[t] = Head(cmds) /\ "WAIT_PUSH" \in flags[Head(cmds)]
      BY <1>0, <1>2, <2>3 DEF work_scan, Goto, TypeOK
    <3> QED BY <1>2, <3>1 DEF Pushed
  <2> QED BY <1>0, <1>2, <2>1, <2>2, <2>3, PushChanges
<1> QED BY <1>1, <1>2 DEF Pushed

\* Who is about to push a command pushes it, or still is.
LEMMA PushEnds ==
  ASSUME TypeOK, [Next]_vars, NEW t \in Threads, pc[t] = "push"
  PROVE  \/ pc'[t] = "push" /\ cmd'[t] = cmd[t]
         \/ t \in Senders /\ queue_push(t)
         \/ t = Worker /\ work_push
<1>0. /\ pc \in [Threads -> Labels] /\ cmd \in [Threads -> Slots \cup {None}]
      /\ Senders \subseteq Threads /\ Worker \in Threads /\ Rx \in Threads
  BY ThreadsAssumption DEF Senders, Threads, TypeOK
<1>1. ASSUME NEW p \in Senders,
             rwnx_send_msg(p) \/ send_without_cfm(p) \/ e2a_check_state(p) \/ e2a_poll(p)
               \/ queue_lock(p)
      PROVE  pc'[t] = "push" /\ cmd'[t] = cmd[t]
  BY <1>0, <1>1 DEF rwnx_send_msg, send_without_cfm, e2a_check_state, e2a_poll, queue_lock,
                    Goto, Return, Acquire
<1>2. ASSUME NEW p \in Senders, queue_refuse(p) \/ queue_accept(p) \/ queue_defer(p) \/ leave(p)
                                  \/ timed_out(p) \/ wait_killed(p)
      PROVE  pc'[t] = "push" /\ cmd'[t] = cmd[t]
  BY <1>0, <1>2 DEF queue_refuse, queue_accept, queue_defer, leave, timed_out, crash,
                    wait_killed, Goto, Return
<1>3. ASSUME NEW p \in Senders, queue_push(p)
      PROVE  p = t \/ (pc'[t] = "push" /\ cmd'[t] = cmd[t])
  BY <1>0, <1>3 DEF queue_push, Goto
<1>4. ASSUME NEW u \in Threads, Await(u)
      PROVE  pc'[t] = "push" /\ cmd'[t] = cmd[t]
  BY <1>0, <1>4 DEF Await, wait_completed, remove_lock, remove, wait_timed_out, timeout_lock,
                    Goto, Acquire
<1>5. ASSUME work_start \/ work_scan \/ work_leave \/ work_timed_out
      PROVE  pc'[t] = "push" /\ cmd'[t] = cmd[t]
  BY <1>0, <1>5 DEF work_start, work_scan, work_leave, work_timed_out, crash, Goto
<1>6. ASSUME work_push
      PROVE  t = Worker \/ (pc'[t] = "push" /\ cmd'[t] = cmd[t])
  BY <1>0, <1>6 DEF work_push, Goto
<1>7. ASSUME receive_cfm \/ match_lock \/ cmd_mgr_msgind
      PROVE  pc'[t] = "push" /\ cmd'[t] = cmd[t]
  BY <1>0, <1>7 DEF receive_cfm, match_lock, cmd_mgr_msgind, Goto, Acquire
<1>8. CASE UNCHANGED <<pc, cmd>>
  BY <1>8
<1> QED
  BY <1>1, <1>2, <1>3, <1>4, <1>5, <1>6, <1>7, <1>8
     DEF Next, Send, Work, Deliver, disconnect, vars

\* A listed command is pushed by its caller or by the worker.
LEMMA BecomesPushed ==
  ASSUME IInv, [Next]_vars, NEW y \in Listed, ~Pushed(y), Pushed(y)'
  PROVE  \/ \E p \in Senders : queue_push(p) /\ pc[p] = "push" /\ cmd[p] = y
         \/ pc[Worker] = "push" /\ cmd[Worker] = y
<1>0. /\ TypeOK /\ y \in Slots /\ flags \in [Slots -> SUBSET Flags]
      /\ cmd \in [Threads -> Slots \cup {None}] /\ cmds \in Seq(Slots) /\ Worker \in Threads
  BY DEF IInv, TypeOK, Listed, ToSet, Threads
<1>1. CASE "WAIT_PUSH" \in flags[y]
  <2>0. "WAIT_PUSH" \notin flags'[y]
    BY DEF Pushed
  <2>1. ASSUME NEW p \in Senders, queue_accept(p)
        PROVE  FALSE
    BY <1>0, <1>1, <2>0, <2>1, Accepted DEF queue_accept
  <2>2. ~cmd_mgr_msgind
    BY <1>0, <1>1, <2>0 DEF cmd_mgr_msgind
  <2>3. work_push
    BY <1>1, <2>0, <2>1, <2>2, FlagChanges
  <2> QED BY <1>0, <1>1, <2>0, <2>3 DEF work_push
<1>2. CASE "WAIT_PUSH" \notin flags[y]
  <2>1. PICK t \in Threads : cmd[t] = y /\ pc[t] = "push"
    BY <1>2 DEF Pushed
  <2>2. ~(pc'[t] = "push" /\ cmd'[t] = cmd[t])
    BY <2>1 DEF Pushed
  <2> QED BY <1>0, <2>1, <2>2, PushEnds
<1> QED BY <1>1, <1>2

LEMMA PushedAheadStep ==
  IInv /\ OInv /\ PushedAhead /\ [Next]_vars => PushedAhead'
<1> SUFFICES ASSUME IInv, OInv, PushedAhead, [Next]_vars, killed' = {},
                    NEW p \in Senders, NEW x \in Slots, NEW y,
                    pc'[p] = "push", cmd'[p] = y, Before(x, y)'
             PROVE  Pushed(x)'
  BY DEF PushedAhead, Before
<1>0. /\ TypeOK /\ cmds \in Seq(Slots) /\ IsInjective(cmds) /\ killed = {} /\ p \in Threads
      /\ Worker \notin Senders /\ None \notin Slots /\ flags \in [Slots -> SUBSET Flags]
      /\ cmd \in [Threads -> Slots \cup {None}] /\ pc \in [Threads -> Labels]
  BY CalmBefore, ThreadsAssumption DEF IInv, TypeOK, QueueSound, Senders, Threads
<1>1. CASE pc[p] = "push" /\ cmd'[p] = cmd[p]
  <2>1. y \in Listed
    BY <1>0, <1>1 DEF IInv, Holding, SlotByPlace, Waiting
  <2>2. Before(x, y)
    <3>1. ASSUME NEW q \in Senders, queue_accept(q), NEW s, s = cmd[q]
          PROVE  Before(x, y)
      <4>1. s \in Slots /\ s \notin Listed /\ cmds' = Append(cmds, s)
        BY <3>1, Accepted
      <4> QED BY <1>0, <2>1, <4>1, BeforeAdd
    <3> QED BY <3>1, OrderChanges
  <2> QED BY <1>0, <1>1, <2>2, BeforeListed, PushedStays DEF PushedAhead
<1>2. CASE queue_accept(p)
  <2>1. /\ y \in Slots /\ y \notin Listed /\ cmds' = Append(cmds, y) /\ state = "INITED"
        /\ cmd[p] = y
    <3>1. /\ cmd[p] \in Slots /\ cmd[p] \notin Listed /\ state = "INITED"
          /\ cmds' = Append(cmds, cmd[p])
      BY <1>2, Accepted
    <3>2. cmd'[p] = cmd[p]
      BY <1>0, <1>2 DEF queue_accept, Goto
    <3> QED BY <3>1, <3>2
  <2>2. x \in Listed
    BY <1>0, <2>1, BeforeAdd, BeforeListed
  <2>3. ~MustDefer(p)
    BY <1>0, <1>2 DEF queue_accept, Goto
  <2>4. /\ cmds # <<>> /\ Last(cmds) \in Slots
        /\ x = Last(cmds) \/ Before(x, Last(cmds))
    BY <1>0, <2>2, ListOrder
  <2>5. flags[Last(cmds)] = {}
    BY <1>0, <2>3, <2>4 DEF MustDefer, Flags
  <2>6. flags[x] = {}
    BY <2>4, <2>5 DEF OInv, DeferredBehind
  <2>7. Pushed(x)
    BY <1>0, <2>1, <2>6 DEF Pushed, OInv, AnswerInv, WaitsForCfm, Calm
  <2> QED BY <2>2, <2>7, PushedStays
<1> QED BY <1>0, <1>1, <1>2, PushChanges

LEMMA OrderKeptStep ==
  IInv /\ OInv /\ PushedAhead /\ OrderKept /\ [Next]_vars => OrderKept'
<1> SUFFICES ASSUME IInv, OInv, PushedAhead, OrderKept, [Next]_vars, killed' = {},
                    NEW x \in Slots, NEW y \in Slots, Before(x, y)', Pushed(y)'
             PROVE  Pushed(x)'
  BY DEF OrderKept
<1>0. /\ TypeOK /\ cmds \in Seq(Slots) /\ killed = {} /\ Senders \subseteq Threads
      /\ flags \in [Slots -> SUBSET Flags] /\ cmd \in [Threads -> Slots \cup {None}]
      /\ pc \in [Threads -> Labels]
  BY CalmBefore DEF IInv, TypeOK, Senders, Threads
<1>1. Before(x, y)
  <2>1. ASSUME NEW p \in Senders, queue_accept(p), NEW s, s = cmd[p]
        PROVE  Before(x, y)
    <3>1. s \in Slots /\ s \notin Listed /\ cmds' = Append(cmds, s)
      BY <2>1, Accepted
    <3>2. y # s
      BY <1>0, <2>1, <3>1 DEF queue_accept, Goto, Pushed
    <3> QED BY <1>0, <3>1, <3>2, BeforeAdd
  <2> QED BY <2>1, OrderChanges
<1>2. x \in Listed /\ y \in Listed
  BY <1>1, BeforeListed
<1>3. Pushed(x)
  <2>1. CASE Pushed(y)
    BY <1>0, <1>1, <2>1 DEF OrderKept
  <2>2. ASSUME NEW p \in Senders, pc[p] = "push", cmd[p] = y
        PROVE  Pushed(x)
    BY <1>0, <1>1, <2>2 DEF PushedAhead
  <2>3. ~(pc[Worker] = "push" /\ cmd[Worker] = y)
    BY <1>1 DEF OInv, DeferredBehind
  <2> QED BY <1>2, <2>1, <2>2, <2>3, BecomesPushed
<1> QED BY <1>2, <1>3, PushedStays

-----------------------------------------------------------------------------
(* The buffers for the answers. *)

\* On its way to the list a command has a buffer if its caller gave one, and
\* such a caller enters the critical section with the list empty.
BufferOnItsWay ==
  state = "INITED" => \A p \in Senders :
    /\ pc[p] \in PreQueue => (cmd[p] \in e2a_msg <=> mode[p] = "e2a")
    /\ pc[p] = "queue" /\ mode[p] = "e2a" => cmds = <<>>

\* A buffer appears with its command, a caller's place among the waiting is
\* given up by the removal of its command and by a crash only.
LEMMA BufferStep ==
  IInv /\ LockHeld /\ BufferOnItsWay /\ BufferHasOwner /\ [Next]_vars
    => BufferOnItsWay' /\ BufferHasOwner'
<1> SUFFICES ASSUME IInv, LockHeld, BufferOnItsWay, BufferHasOwner, [Next]_vars, state' = "INITED"
             PROVE  BufferOnItsWay' /\ BufferHasOwner'
  BY DEF BufferOnItsWay, BufferHasOwner
<1>0. /\ TypeOK /\ Senders \subseteq Threads /\ Worker \in Threads /\ Rx \in Senders
      /\ Worker \notin Senders /\ None \notin Slots /\ state = "INITED"
      /\ pc \in [Threads -> Labels] /\ cmd \in [Threads -> Slots \cup {None}]
      /\ mode \in [Senders -> Modes \cup {None}] /\ e2a_msg \subseteq Slots
      /\ flags \in [Slots -> SUBSET Flags] /\ cmds \in Seq(Slots) /\ IsInjective(cmds)
  <2>1. state = "INITED"
    BY CalmBefore DEF IInv
  <2> QED BY <2>1, ThreadsAssumption DEF IInv, TypeOK, QueueSound, Senders, Threads
<1>A. \A p \in Senders :
        /\ pc[p] \in PreQueue => (cmd[p] \in e2a_msg <=> mode[p] = "e2a")
        /\ pc[p] = "queue" /\ mode[p] = "e2a" => cmds = <<>>
  BY <1>0 DEF BufferOnItsWay
<1>B. \A s \in Listed \cap e2a_msg : "WAIT_CFM" \in flags[s] =>
        \E p \in Senders : cmd[p] = s /\ pc[p] \in Waiting
  BY <1>0 DEF BufferHasOwner
<1>C. /\ \A t \in Threads : cmd[t] # None => cmd[t] \in used
      /\ \A t, u \in Threads : t # u /\ cmd[t] = cmd[u] => cmd[t] = None
      /\ \A p \in Senders : pc[p] \in PreQueue => cmd[p] \in Slots /\ cmd[p] \notin Listed
      /\ Listed \subseteq used
  BY <1>0 DEF IInv, SlotsAccounted, Holding, SlotByPlace, PreQueue, Listed, ToSet
<1>1. ASSUME cmds' = cmds, mode' = mode, e2a_msg' = e2a_msg, cmd' = cmd,
             NEW t \in Threads, \A u \in Threads : u # t => pc'[u] = pc[u],
             pc[t] \in Waiting => pc'[t] \in Waiting,
             t \in Senders /\ pc'[t] \in PreQueue => pc[t] \in PreQueue,
             t \in Senders /\ pc'[t] = "queue" => mode[t] # "e2a" \/ cmds = <<>>,
             \A s \in Slots : "WAIT_CFM" \in flags'[s] => "WAIT_CFM" \in flags[s]
      PROVE  BufferOnItsWay' /\ BufferHasOwner'
  <2>1. Listed' = Listed /\ Listed \subseteq Slots
    BY <1>0, <1>1 DEF Listed, ToSet
  <2>2. BufferOnItsWay'
    BY <1>0, <1>1, <1>A DEF BufferOnItsWay
  <2>3. BufferHasOwner'
    BY <1>0, <1>1, <1>B, <2>1 DEF BufferHasOwner
  <2> QED BY <2>2, <2>3
<1>2. ASSUME NEW p \in Senders,
             e2a_check_state(p) \/ e2a_poll(p) \/ queue_lock(p) \/ queue_push(p) \/ wait_killed(p)
      PROVE  BufferOnItsWay' /\ BufferHasOwner'
  BY <1>0, <1>1, <1>2 DEF e2a_check_state, e2a_poll, queue_lock, queue_push, wait_killed, Acquire,
                          Goto, PreQueue, Waiting, mgrVars, poolVars
<1>3. ASSUME NEW t \in Threads, Await(t), ~remove(t)
      PROVE  BufferOnItsWay' /\ BufferHasOwner'
  BY <1>0, <1>1, <1>3 DEF Await, wait_completed, remove_lock, wait_timed_out, timeout_lock, Acquire,
                          Goto, PreQueue, Waiting, mgrVars, poolVars
<1>4. ASSUME work_start \/ work_push
      PROVE  BufferOnItsWay' /\ BufferHasOwner'
  BY <1>0, <1>1, <1>4 DEF work_start, work_push, Goto, PreQueue, Waiting, mgrVars, poolVars
<1>5. ASSUME receive_cfm \/ match_lock \/ cmd_mgr_msgind
      PROVE  BufferOnItsWay' /\ BufferHasOwner'
  BY <1>0, <1>1, <1>5 DEF receive_cfm, match_lock, cmd_mgr_msgind, Acquire, Goto, PreQueue,
                          Waiting, mgrVars, poolVars
<1>6. ASSUME work_scan
      PROVE  BufferOnItsWay' /\ BufferHasOwner'
  <2>1. /\ cmds' = cmds /\ mode' = mode /\ e2a_msg' = e2a_msg /\ flags' = flags
        /\ \A p \in Senders : pc'[p] = pc[p] /\ cmd'[p] = cmd[p]
    BY <1>0, <1>6 DEF work_scan, Goto, mgrVars, poolVars
  <2>2. Listed' = Listed
    BY <2>1 DEF Listed
  <2> QED BY <1>A, <1>B, <2>1, <2>2 DEF BufferOnItsWay, BufferHasOwner
<1>7. ASSUME UNCHANGED vars \/ disconnect
      PROVE  BufferOnItsWay' /\ BufferHasOwner'
  BY <1>0, <1>1, <1>7 DEF vars, disconnect, mgrVars, poolVars
<1>8. ASSUME NEW p \in Senders, rwnx_send_msg(p)
      PROVE  BufferOnItsWay' /\ BufferHasOwner'
  <2>1. PICK s \in Slots \ used, r \in RequestsOf(p) :
          /\ e2a_msg' = IF r.mode = "e2a" THEN e2a_msg \cup {s} ELSE e2a_msg \ {s}
          /\ cmd' = [cmd EXCEPT ![p] = s]
          /\ mode' = [mode EXCEPT ![p] = r.mode]
          /\ pc' = [pc EXCEPT ![p] = "enter"]
    BY <1>8 DEF rwnx_send_msg, Goto
  <2>2. pc[p] = "idle" /\ cmds' = cmds /\ flags' = flags
    BY <1>8 DEF rwnx_send_msg, mgrVars
  <2>3. Listed' = Listed /\ s \notin Listed /\ \A q \in Senders : cmd[q] # s
    BY <1>0, <1>C, <2>1, <2>2 DEF Listed
  <2>4. BufferOnItsWay'
    BY <1>0, <1>A, <2>1, <2>2, <2>3 DEF BufferOnItsWay
  <2>5. BufferHasOwner'
    BY <1>0, <1>B, <2>1, <2>2, <2>3 DEF BufferHasOwner, Waiting
  <2> QED BY <2>4, <2>5
<1>9. ASSUME NEW t \in Threads, NEW s \in Slots, cmd[t] = s, s \notin Listed, rwnx_cmd_free(s),
             cmds' = cmds, flags' = flags, pc[t] \notin Waiting, pc'[t] \in {"idle", "scan"},
             \A u \in Threads : u # t => pc'[u] = pc[u] /\ cmd'[u] = cmd[u],
             \A p \in Senders : p # t => mode'[p] = mode[p]
      PROVE  BufferOnItsWay' /\ BufferHasOwner'
  <2>1. Listed' = Listed /\ e2a_msg' = e2a_msg \ {s}
    BY <1>9 DEF Listed, rwnx_cmd_free
  <2>2. \A u \in Threads : u # t => cmd[u] # s
    BY <1>0, <1>9, <1>C
  <2>3. BufferOnItsWay'
    BY <1>0, <1>9, <1>A, <2>1, <2>2 DEF BufferOnItsWay, PreQueue
  <2>4. BufferHasOwner'
    BY <1>0, <1>9, <1>B, <2>1, <2>2 DEF BufferHasOwner
  <2> QED BY <2>3, <2>4
<1>10. ASSUME NEW p \in Senders, send_without_cfm(p) \/ queue_refuse(p) \/ leave(p)
       PROVE  BufferOnItsWay' /\ BufferHasOwner'
  <2>1. cmd[p] \in Slots /\ cmd[p] \notin Listed /\ pc[p] \in PreQueue \cup {"leave"}
    BY <1>0, <1>10 DEF IInv, Holding, SlotByPlace, PreQueue, send_without_cfm, queue_refuse, leave
  <2>2. /\ rwnx_cmd_free(cmd[p]) /\ pc'[p] = "idle" /\ flags' = flags /\ cmds' = cmds
        /\ \A u \in Threads : u # p => pc'[u] = pc[u] /\ cmd'[u] = cmd[u]
        /\ \A q \in Senders : q # p => mode'[q] = mode[q]
    BY <1>0, <1>10 DEF send_without_cfm, queue_refuse, leave, Return, Goto, mgrVars
  <2>3. pc[p] \notin Waiting
    BY <2>1 DEF PreQueue, Waiting
  <2> QED BY <1>0, <1>9, <2>1, <2>2, <2>3
<1>11. ASSUME work_leave
       PROVE  BufferOnItsWay' /\ BufferHasOwner'
  <2>1. cmd[Worker] \in Slots /\ cmd[Worker] \notin Listed /\ pc[Worker] \notin Waiting
    BY <1>0, <1>11 DEF IInv, Holding, SlotByPlace, work_leave, Waiting
  <2>2. /\ rwnx_cmd_free(cmd[Worker]) /\ pc'[Worker] = "scan" /\ flags' = flags /\ cmds' = cmds
        /\ \A u \in Threads : u # Worker => pc'[u] = pc[u] /\ cmd'[u] = cmd[u]
        /\ mode' = mode
    BY <1>0, <1>11 DEF work_leave, Goto, mgrVars
  <2> QED BY <1>0, <1>9, <2>1, <2>2
<1>12. ASSUME NEW p \in Senders, queue_defer(p)
       PROVE  BufferOnItsWay' /\ BufferHasOwner'
  <2>1. /\ cmds' = cmds /\ flags' = flags /\ e2a_msg' = e2a_msg /\ pc'[p] = "idle"
        /\ pc[p] = "defer" /\ \A q \in Senders : q # p => mode'[q] = mode[q]
        /\ \A u \in Threads : u # p => pc'[u] = pc[u] /\ cmd'[u] = cmd[u]
    BY <1>0, <1>12 DEF queue_defer, Return, Goto, mgrVars, poolVars
  <2>2. Listed' = Listed
    BY <2>1 DEF Listed
  <2>3. BufferOnItsWay'
    BY <1>0, <1>A, <2>1 DEF BufferOnItsWay, PreQueue
  <2>4. BufferHasOwner'
    BY <1>0, <1>B, <2>1, <2>2 DEF BufferHasOwner, Waiting
  <2> QED BY <2>3, <2>4
<1>13. ASSUME NEW p \in Senders, queue_accept(p)
       PROVE  BufferOnItsWay' /\ BufferHasOwner'
  <2>1. /\ cmd[p] \in Slots /\ cmd[p] \notin Listed /\ Listed' = Listed \cup {cmd[p]}
        /\ \A t \in Threads : cmd[t] = cmd[p] => t = p
    BY <1>13, Accepted
  <2>2. /\ mode' = mode /\ e2a_msg' = e2a_msg /\ pc[p] = "queue"
        /\ pc'[p] \in {"defer", "push"}
        /\ ~MustDefer(p) => pc'[p] = "push" /\ cmd'[p] = cmd[p]
        /\ \A u \in Threads : u # p => pc'[u] = pc[u] /\ cmd'[u] = cmd[u]
        /\ \A s \in Slots : s # cmd[p] => flags'[s] = flags[s]
    BY <1>0, <1>13, <2>1 DEF queue_accept, Goto, poolVars
  <2>3. \A q \in Senders : q # p => pc[q] # "queue"
    BY <1>0, <2>2 DEF LockHeld, Critical
  <2>4. BufferOnItsWay'
    BY <1>0, <1>A, <2>2, <2>3 DEF BufferOnItsWay, PreQueue
  <2>5. ASSUME NEW s \in Listed', s \in e2a_msg', "WAIT_CFM" \in flags'[s]
        PROVE  \E q \in Senders : cmd'[q] = s /\ pc'[q] \in Waiting
    <3>1. CASE s = cmd[p]
      <4>1. mode[p] = "e2a" /\ cmds = <<>>
        BY <1>A, <2>2, <2>5, <3>1 DEF PreQueue
      <4>2. ~MustDefer(p)
        BY <4>1 DEF MustDefer
      <4> QED BY <2>2, <3>1, <4>2 DEF Waiting
    <3>2. CASE s # cmd[p]
      <4>1. s \in Listed \cap e2a_msg /\ "WAIT_CFM" \in flags[s]
        BY <1>0, <2>1, <2>2, <2>5, <3>2
      <4>2. PICK q \in Senders : cmd[q] = s /\ pc[q] \in Waiting
        BY <1>B, <4>1
      <4> QED BY <1>0, <2>2, <3>2, <4>2
    <3> QED BY <3>1, <3>2
  <2> QED BY <2>4, <2>5 DEF BufferHasOwner
<1>14. ASSUME NEW t \in Threads, remove(t)
       PROVE  BufferOnItsWay' /\ BufferHasOwner'
  <2>1. Listed' = Listed \ {cmd[t]} /\ Listed \subseteq Slots
    <3>1. list_del(cmd[t])
      BY <1>14 DEF remove
    <3>2. Listed' = Listed \ {cmd[t]}
      BY <1>0, <3>1, ListDelStep
    <3>3. Listed \subseteq Slots
      BY <1>0 DEF Listed, ToSet
    <3> QED BY <3>2, <3>3
  <2>2. /\ mode' = mode /\ e2a_msg' = e2a_msg /\ cmd' = cmd /\ flags' = flags
        /\ pc'[t] = "leave" /\ pc[t] = "removing" /\ \A u \in Threads : u # t => pc'[u] = pc[u]
    BY <1>0, <1>14 DEF remove, Goto, poolVars
  <2>3. \A q \in Senders : pc'[q] # "queue"
    BY <1>0, <2>2 DEF LockHeld, Critical
  <2>4. BufferOnItsWay'
    BY <1>0, <1>A, <2>2, <2>3 DEF BufferOnItsWay, PreQueue
  <2>5. BufferHasOwner'
    BY <1>0, <1>B, <2>1, <2>2 DEF BufferHasOwner
  <2> QED BY <2>4, <2>5
<1>15. ASSUME NEW p \in Senders
       PROVE  ~timed_out(p)
  BY DEF timed_out, crash
<1>16. ~work_timed_out
  BY DEF work_timed_out, crash
<1> QED
  BY <1>2, <1>3, <1>4, <1>5, <1>6, <1>7, <1>8, <1>10, <1>11, <1>12, <1>13, <1>14, <1>15, <1>16
     DEF Next, Send, Work, Deliver

-----------------------------------------------------------------------------
(* Who pushes the head of the list. *)

\* No command is deferred for traffic alone.
NoTraffic == \A r \in Requests \cup RxRequests : r.mode # "traffic"

ModesLeft == \A p \in Senders : mode[p] # "traffic"

\* The head of the list, when deferred, has a thread on its way that wakes the
\* worker whatever the length of the list.
HeadHasWaker ==
  state = "INITED" /\ usb = "UP" /\ cmds # <<>> /\ "WAIT_PUSH" \in flags[Head(cmds)] =>
    \/ cmdWork
    \/ pc[Worker] # "idle"
    \/ \E p \in Senders : pc[p] = "leave" \/ (pc[p] = "defer" /\ mode[p] = "force")

\* The mode of a thread is that of the request it makes.
LEMMA ModeStep ==
  ASSUME NoTraffic, TypeOK, ModesLeft, [Next]_vars
  PROVE  ModesLeft'
<1>0. mode \in [Senders -> Modes \cup {None}] /\ None \notin Slots
  BY ThreadsAssumption DEF TypeOK
<1>1. ASSUME NEW p \in Senders, rwnx_send_msg(p)
      PROVE  ModesLeft'
  <2>1. PICK r \in RequestsOf(p) : mode' = [mode EXCEPT ![p] = r.mode]
    BY <1>1 DEF rwnx_send_msg
  <2>2. r.mode # "traffic"
    BY DEF RequestsOf, NoTraffic
  <2> QED BY <1>0, <2>1, <2>2 DEF ModesLeft
<1>2. ASSUME NEW p \in Senders, mode' = [mode EXCEPT ![p] = None]
      PROVE  ModesLeft'
  BY <1>0, <1>2, NoneAssumption DEF ModesLeft, Modes
<1>3. CASE UNCHANGED mode
  BY <1>3 DEF ModesLeft
<1> QED
  BY <1>1, <1>2, <1>3
     DEF Next, Send, Await, Work, Deliver, vars, send_without_cfm,
         e2a_check_state, e2a_poll, queue_lock, queue_refuse, queue_accept, queue_defer,
         queue_push, leave, timed_out, wait_killed, wait_completed, remove_lock, remove,
         wait_timed_out, timeout_lock, work_start, work_scan, work_push, work_leave,
         work_timed_out, receive_cfm, match_lock, cmd_mgr_msgind, disconnect, Return

\* A deferred command comes to the head of the list by being the first, deferred
\* in the way that always wakes the worker, or by the removal of the one in
\* front, whose thread looks at the list before it is idle.
LEMMA HeadStep ==
  IInv /\ ModesLeft /\ HeadHasWaker /\ [Next]_vars => HeadHasWaker'
<1> SUFFICES ASSUME IInv, ModesLeft, HeadHasWaker, [Next]_vars, state' = "INITED", usb' = "UP",
                    cmds' # <<>>, "WAIT_PUSH" \in flags'[Head(cmds')], ~cmdWork',
                    pc'[Worker] = "idle"
             PROVE  \E p \in Senders : pc'[p] = "leave" \/ (pc'[p] = "defer" /\ mode'[p] = "force")
  BY DEF HeadHasWaker
<1>0. /\ TypeOK /\ Senders \subseteq Threads /\ Worker \in Threads /\ Rx \in Senders
      /\ Worker \notin Senders /\ None \notin Slots /\ state = "INITED" /\ usb = "UP"
      /\ pc \in [Threads -> Labels] /\ cmd \in [Threads -> Slots \cup {None}]
      /\ mode \in [Senders -> Modes \cup {None}] /\ cmdWork \in BOOLEAN
      /\ flags \in [Slots -> SUBSET Flags] /\ cmds \in Seq(Slots)
  BY CalmBefore, ThreadsAssumption DEF IInv, TypeOK, Senders, Threads
<1> DEFINE Waker(p) == pc[p] = "leave" \/ (pc[p] = "defer" /\ mode[p] = "force")
<1>H. cmds # <<>> => Head(cmds) \in Slots
  BY <1>0
<1>A. ASSUME cmds # <<>>, "WAIT_PUSH" \in flags[Head(cmds)]
      PROVE  cmdWork \/ pc[Worker] # "idle" \/ \E p \in Senders : Waker(p)
  BY <1>0, <1>A DEF HeadHasWaker
<1>1. ASSUME NEW t \in Threads, cmds' = cmds, cmdWork' = cmdWork, pc[Worker] = pc'[Worker],
             \A s \in Slots : "WAIT_PUSH" \in flags'[s] => "WAIT_PUSH" \in flags[s],
             \A u \in Threads : u # t => pc'[u] = pc[u],
             \A p \in Senders : p # t => mode'[p] = mode[p],
             pc[t] \notin {"leave", "defer"}
      PROVE  \E p \in Senders : Waker(p)'
  BY <1>0, <1>1, <1>A, <1>H
<1>2. ASSUME NEW p \in Senders,
             rwnx_send_msg(p) \/ send_without_cfm(p) \/ e2a_check_state(p) \/ e2a_poll(p)
               \/ queue_lock(p)
      PROVE  \E q \in Senders : Waker(q)'
  BY <1>0, <1>1, <1>2 DEF rwnx_send_msg, send_without_cfm, e2a_check_state, e2a_poll, queue_lock,
                          Acquire, Goto, Return, mgrVars
<1>3. ASSUME NEW p \in Senders, queue_refuse(p) \/ queue_push(p) \/ wait_killed(p)
      PROVE  \E q \in Senders : Waker(q)'
  BY <1>0, <1>1, <1>3 DEF queue_refuse, queue_push, wait_killed, Goto, Return, mgrVars
<1>4. ASSUME NEW p \in Senders, queue_accept(p)
      PROVE  \E q \in Senders : Waker(q)'
  <2>1. /\ cmd[p] \in Slots /\ cmd[p] \notin Listed /\ cmds' = Append(cmds, cmd[p])
        /\ flags[cmd[p]] \subseteq {"WAIT_CFM"}
    BY <1>4, Accepted
  <2>2. /\ flags' = [flags EXCEPT ![cmd[p]] = @ \cup {"WAIT_CFM"}
                                   \cup (IF MustDefer(p) THEN {"WAIT_PUSH"} ELSE {})]
        /\ MustDefer(p) => pc'[p] = "defer"
        /\ cmdWork' = cmdWork /\ mode' = mode /\ pc[p] = "queue"
        /\ \A u \in Threads : u # p => pc'[u] = pc[u]
    BY <1>0, <1>4 DEF queue_accept, Goto
  <2>3. CASE cmds = <<>>
    <3>1. Head(cmds') = cmd[p]
      BY <2>1, <2>3
    <3>2. MustDefer(p)
      BY <1>0, <2>1, <2>2, <3>1
    <3>3. mode[p] = "force"
      BY <2>3, <3>2 DEF MustDefer, ModesLeft
    <3> QED BY <2>2, <3>2, <3>3
  <2>4. CASE cmds # <<>>
    <3>1. Head(cmds') = Head(cmds)
      BY <1>0, <2>1, <2>4
    <3>2. Head(cmds) \in Listed
      BY <1>0, <2>4 DEF Listed, ToSet
    <3>3. "WAIT_PUSH" \in flags[Head(cmds)]
      BY <1>0, <1>H, <2>1, <2>2, <2>4, <3>1, <3>2
    <3>4. PICK q \in Senders : Waker(q)
      BY <1>0, <1>A, <2>2, <2>4, <3>3
    <3> QED BY <1>0, <2>2, <3>4
  <2> QED BY <2>3, <2>4
<1>5. ASSUME NEW p \in Senders, queue_defer(p)
      PROVE  \E q \in Senders : Waker(q)'
  <2>1. /\ cmds' = cmds /\ flags' = flags /\ ~cmdWork /\ mode[p] # "force" /\ pc[p] = "defer"
        /\ \A u \in Threads : u # p => pc'[u] = pc[u]
        /\ \A q \in Senders : q # p => mode'[q] = mode[q]
    BY <1>0, <1>5 DEF queue_defer, Return, Goto, mgrVars
  <2> QED BY <1>0, <1>A, <2>1
<1>6. ASSUME NEW p \in Senders, leave(p)
      PROVE  FALSE
  BY <1>0, <1>6 DEF leave, wake_behind, mgrVars, envVars
<1>7. ASSUME NEW t \in Threads, remove(t)
      PROVE  \E q \in Senders : Waker(q)'
  BY <1>0, <1>7 DEF remove, Goto, Senders, Threads
<1>8. ASSUME NEW t \in Threads, Await(t), ~remove(t)
      PROVE  \E q \in Senders : Waker(q)'
  <2>1. t # Worker
    BY <1>0, <1>8 DEF Await, wait_completed, remove_lock, wait_timed_out, timeout_lock, Acquire, Goto
  <2> QED BY <1>0, <1>1, <1>8, <2>1 DEF Await, wait_completed, remove_lock, wait_timed_out,
                                  timeout_lock, Acquire, Goto, mgrVars
<1>9. ASSUME work_start \/ work_push \/ work_leave
      PROVE  FALSE
  BY <1>0, <1>9 DEF work_start, work_push, work_leave, Goto
<1>10. ASSUME work_scan
       PROVE  FALSE
  BY <1>0, <1>10 DEF work_scan, Goto, mgrVars
<1>11. ASSUME receive_cfm \/ match_lock \/ cmd_mgr_msgind
       PROVE  \E q \in Senders : Waker(q)'
  <2>1. \A s \in Slots : "WAIT_PUSH" \in flags'[s] => "WAIT_PUSH" \in flags[s]
    BY <1>0, <1>11 DEF receive_cfm, match_lock, cmd_mgr_msgind
  <2> QED BY <1>0, <1>1, <1>11, <2>1 DEF receive_cfm, match_lock, cmd_mgr_msgind, Acquire, Goto, mgrVars
<1>12. ASSUME UNCHANGED vars \/ disconnect
       PROVE  \E q \in Senders : Waker(q)'
  BY <1>0, <1>A, <1>12 DEF vars, disconnect, mgrVars
<1>13. ASSUME NEW p \in Senders
       PROVE  ~timed_out(p) /\ ~work_timed_out
  BY DEF timed_out, work_timed_out, crash
<1> QED
  BY <1>0, <1>2, <1>3, <1>4, <1>5, <1>6, <1>7, <1>8, <1>9, <1>10, <1>11, <1>12, <1>13
     DEF Next, Send, Work, Deliver

-----------------------------------------------------------------------------
(* The theorems. *)

LEMMA InitIInv == Init => IInv
<1> SUFFICES ASSUME Init PROVE IInv
  OBVIOUS
<1>1. TypeOK
  <2>1. cmds \in Seq(Slots) /\ firmware \in Seq(Messages)
    BY DEF Init
  <2>2. flags \in [Slots -> SUBSET Flags]
    BY DEF Init
  <2>3. pc \in [Threads -> Labels]
    BY DEF Init, Labels
  <2> QED BY <2>1, <2>2, <2>3 DEF Init, TypeOK
<1>2. Listed = {}
  <2>1. cmds = <<>> /\ DOMAIN <<>> = {}
    BY DEF Init
  <2> QED BY <2>1 DEF Listed, ToSet
<1>3. QueueSound
  BY SizesAssumption DEF Init, QueueSound, IsInjective
<1>4. SlotsAccounted /\ Holding
  BY <1>2, ThreadsAssumption DEF Init, SlotsAccounted, Holding, SlotByPlace, DeferredKept, Roles, Waiting, PreQueue, Senders, Threads
<1> QED BY <1>1, <1>3, <1>4 DEF IInv

LEMMA InvariantHolds == Spec => []IInv
<1>1. IInv /\ [Next]_vars => IInv'
  BY TypeStep, QueueStep, HoldStep DEF IInv
<1> QED BY InitIInv, <1>1, PTL DEF Spec

\* The types of the command manager's state (rwnx_cmds.h).
THEOREM TypeCorrect == Spec => []TypeOK
BY InvariantHolds, PTL DEF IInv

\* The list holds each command once, queue_sz is its length and never above
\* RWNX_CMD_MAX_QUEUED, and the wake lock is held exactly while it is not empty.
THEOREM QueueSoundAlways == Spec => []QueueSound
BY InvariantHolds, PTL DEF IInv

\* No slot of cmd_array is shared, lost, or freed while its command is listed,
\* until a command times out.
THEOREM SlotsAccountedAlways == Spec => []SlotsAccounted
BY InvariantHolds, PTL DEF IInv

LEMMA OrderInvariant == Spec => [](OInv /\ PushedAhead /\ OrderKept)
<1> DEFINE Inv == OInv /\ PushedAhead /\ OrderKept
<1>1. Init => Inv
  <2> SUFFICES ASSUME Init PROVE Inv
    OBVIOUS
  <2>1. /\ \A x, y : ~Before(x, y)
        /\ InFlight = {} /\ Len(firmware) = 0 /\ msg = None
    BY DEF Init, Before, InFlight, ToSet
  <2>2. /\ \A t \in Threads : pc[t] = "idle"
        /\ \A s \in Slots : flags[s] = {}
        /\ Worker \in Threads /\ Rx \in Threads
    BY DEF Init, Threads, Senders
  <2> QED BY <2>1, <2>2 DEF OInv, DeferredBehind, AnswerInv, HasMessage, WaitsForCfm,
                            AnswerHasCommand, OneUnderWay, PushedAhead, OrderKept
<1>2. IInv /\ IInv' /\ Inv /\ [Next]_vars => Inv'
  <2> SUFFICES ASSUME IInv, IInv', Inv, [Next]_vars PROVE Inv'
    OBVIOUS
  <2>1. DeferredBehind'
    BY DeferredBehindStep DEF OInv
  <2>2. ASSUME Calm' PROVE AnswerInv'
    <3>1. Calm
      BY <2>2, CalmBefore DEF IInv
    <3> QED BY <2>2, <3>1, AnswerStep DEF OInv, IInv
  <2> QED BY <2>1, <2>2, PushedAheadStep, OrderKeptStep DEF OInv
<1> QED BY <1>1, <1>2, InvariantHolds, PTL DEF Spec

\* The firmware works on one command at a time, until a command times out or a
\* waiting caller is killed (cmd_mgr_queue, cmd_mgr_task_process).
THEOREM OneAtATimeAlways == Spec => []OneAtATime
<1>1. OInv => OneAtATime
  BY DEF OInv, Calm, AnswerInv, OneUnderWay, OneAtATime
<1> QED BY <1>1, OrderInvariant, PTL

\* Under the same provisos cmd_mgr_msgind, which searches by id alone, finds the
\* command the answer is for.
THEOREM AnswersRoutedAlways == Spec => []AnswersRouted
<1>1. IInv /\ OInv => AnswersRouted
  BY MatchIsRight DEF OInv, Calm, AnswersRouted
<1> QED BY <1>1, OrderInvariant, InvariantHolds, PTL

\* Commands reach the firmware in the order they were accepted, until a waiting
\* caller is killed: cmd_mgr_queue pushes only behind confirmed commands and
\* cmd_mgr_task_process only the head of the list.
THEOREM PushedInOrderAlways == Spec => []PushedInOrder
<1>1. TypeOK /\ OrderKept => PushedInOrder
  <2> SUFFICES ASSUME TypeOK, OrderKept, killed = {}, NEW j \in DOMAIN cmds, Pushed(cmds[j]),
                      NEW i \in 1 .. j - 1
               PROVE  Pushed(cmds[i])
    BY DEF PushedInOrder
  <2>1. cmds \in Seq(Slots) /\ DOMAIN cmds = 1 .. Len(cmds) /\ Len(cmds) \in Nat
    BY DEF TypeOK
  <2>2. i \in DOMAIN cmds /\ i < j /\ cmds[i] \in Slots /\ cmds[j] \in Slots
    BY <2>1
  <2>3. Before(cmds[i], cmds[j])
    BY <2>2 DEF Before
  <2> QED BY <2>2, <2>3 DEF OrderKept
<1> QED BY <1>1, OrderInvariant, InvariantHolds, PTL DEF IInv

\* Whoever is in a critical section of cmd_mgr.lock holds it, until a command
\* times out: the list and its counter change under the lock.
THEOREM LockHeldAlways == Spec => []LockHeld
<1>1. Init => LockHeld
  BY DEF Init, LockHeld, Critical
<1> QED BY <1>1, LockStep, InvariantHolds, PTL DEF Spec, IInv

\* Until a command times out, an answer is copied only for a caller that is still
\* inside cmd_mgr_queue: the buffer of a returned call is never written.
THEOREM BufferHasOwnerAlways == Spec => []BufferHasOwner
<1>1. Init => BufferOnItsWay /\ BufferHasOwner
  <2>1. ASSUME Init PROVE Listed = {} /\ \A p \in Senders : pc[p] = "idle"
    BY <2>1 DEF Init, Listed, ToSet, Threads
  <2> QED BY <2>1 DEF BufferOnItsWay, BufferHasOwner, PreQueue
<1> QED BY <1>1, BufferStep, LockHeldAlways, InvariantHolds, PTL DEF Spec

\* Where no command is deferred for traffic alone, a deferred head of the list of
\* a working manager always has somebody who will push it.
THEOREM HeadHasPusherAlways ==
  ASSUME NoTraffic
  PROVE  Spec => []HeadHasPusher
<1>1. Init => ModesLeft /\ HeadHasWaker
  BY NoneAssumption DEF Init, ModesLeft, HeadHasWaker, Modes
<1>2. TypeOK /\ ModesLeft /\ [Next]_vars => ModesLeft'
  BY ModeStep
<1>3. HeadHasWaker => HeadHasPusher
  BY DEF HeadHasWaker, HeadHasPusher
<1> QED BY <1>1, <1>2, <1>3, HeadStep, InvariantHolds, PTL DEF Spec, IInv

-----------------------------------------------------------------------------
(* The service the manager implements. *)

\* Of the list l the commands from the n-th on, and only they, are unanswered
\* by the flags f.
OpenFrom(l, f, n) == \A i \in DOMAIN l : i < n <=> "WAIT_CFM" \notin f[l[i]]

\* Where the unanswered commands begin.
LEMMA UnansweredIs ==
  ASSUME NEW l \in Seq(Slots), NEW f, NEW n \in 1 .. Len(l) + 1, OpenFrom(l, f, n)
  PROVE  Unanswered(l, f) = SubSeq(l, n, Len(l))
<1> DEFINE T == {i \in DOMAIN l : "WAIT_CFM" \in f[l[i]]} \cup {Len(l) + 1}
<1>1. Len(l) \in Nat /\ DOMAIN l = 1 .. Len(l)
  BY LenProperties
<1>2. T \in SUBSET Nat /\ T # {}
  BY <1>1
<1>3. n \in T /\ \A i \in T : n <= i
  BY <1>1 DEF OpenFrom
<1>4. Min(T) \in T /\ \A i \in T : Min(T) <= i
  <2> HIDE DEF T
  <2> QED
    BY <1>2, LeastOne
<1>5. Min(T) = n
  <2> HIDE DEF T
  <2>1. Min(T) <= n /\ n <= Min(T) /\ Min(T) \in Nat
    BY <1>2, <1>3, <1>4
  <2> QED
    BY <2>1
<1> QED
  BY <1>5 DEF Unanswered

LEMMA UnansweredBegin ==
  ASSUME IInv, DeferredBehind, WaitsForCfm
  PROVE  \E n \in 1 .. Len(cmds) + 1 : OpenFrom(cmds, flags, n)
<1> DEFINE T == {i \in DOMAIN cmds : "WAIT_CFM" \in flags[cmds[i]]} \cup {Len(cmds) + 1}
           n == Min(T)
<1>1. /\ cmds \in Seq(Slots) /\ Len(cmds) \in Nat /\ DOMAIN cmds = 1 .. Len(cmds)
      /\ \A i \in DOMAIN cmds : cmds[i] \in Slots
  BY DEF IInv, TypeOK
<1>2. T \in SUBSET Nat /\ T # {} /\ T \subseteq 1 .. Len(cmds) + 1
  BY <1>1
<1>3. n \in T /\ \A i \in T : n <= i
  <2> HIDE DEF T
  <2> QED
    BY <1>2, LeastOne
<1>4. n \in 1 .. Len(cmds) + 1
  BY <1>2, <1>3
<1>5. \A i \in DOMAIN cmds : i < n => "WAIT_CFM" \notin flags[cmds[i]]
  <2> SUFFICES ASSUME NEW i \in DOMAIN cmds, "WAIT_CFM" \in flags[cmds[i]], i < n PROVE FALSE
    OBVIOUS
  <2>1. i \in T
    OBVIOUS
  <2> HIDE DEF n, T
  <2> QED
    BY <1>1, <1>2, <1>3, <1>4, <2>1
<1>6. \A i \in DOMAIN cmds : ~(i < n) => "WAIT_CFM" \in flags[cmds[i]]
  <2> SUFFICES ASSUME NEW i \in DOMAIN cmds, ~(i < n) PROVE "WAIT_CFM" \in flags[cmds[i]]
    OBVIOUS
  <2>1. n \in DOMAIN cmds
    <3> HIDE DEF n
    <3> QED
      BY <1>1, <1>4
  <2>2. n # Len(cmds) + 1
    <3> HIDE DEF n
    <3> QED
      BY <1>1, <2>1
  <2>3. "WAIT_CFM" \in flags[cmds[n]]
    <3> HIDE DEF n
    <3> QED
      BY <1>3, <2>2
  <2> HIDE DEF n, T
  <2>4. CASE i = n
    BY <2>3, <2>4
  <2>5. CASE n < i
    <3>1. Before(cmds[n], cmds[i]) /\ flags[cmds[n]] # {}
      BY <2>1, <2>3, <2>5 DEF Before
    <3>2. "WAIT_PUSH" \in flags[cmds[i]]
      BY <1>1, <2>1, <3>1 DEF DeferredBehind
    <3> QED
      BY <1>1, <3>2 DEF WaitsForCfm
  <2> QED
    BY <1>1, <1>4, <2>4, <2>5
<1> HIDE DEF n, T
<1> QED
  BY <1>4, <1>5, <1>6 DEF OpenFrom

\* An unanswered command that is not deferred, or that the worker pushes, is the
\* first of them.
LEMMA FirstIsOpen ==
  ASSUME IInv, DeferredBehind, NEW n \in 1 .. Len(cmds) + 1, OpenFrom(cmds, flags, n),
         NEW s \in Listed, "WAIT_CFM" \in flags[s],
         "WAIT_PUSH" \notin flags[s] \/ (pc[Worker] = "push" /\ s = cmd[Worker])
  PROVE  n \in 1 .. Len(cmds) /\ cmds[n] = s
<1>1. /\ cmds \in Seq(Slots) /\ Len(cmds) \in Nat /\ DOMAIN cmds = 1 .. Len(cmds)
      /\ \A i \in DOMAIN cmds : cmds[i] \in Slots
  BY DEF IInv, TypeOK
<1>2. PICK k \in DOMAIN cmds : cmds[k] = s
  BY DEF Listed, ToSet
<1>3. ~(k < n)
  BY <1>2 DEF OpenFrom
<1>4. n \in DOMAIN cmds
  BY <1>1, <1>2, <1>3
<1>5. "WAIT_CFM" \in flags[cmds[n]]
  BY <1>1, <1>4 DEF OpenFrom
<1>6. ~(n < k)
  <2> SUFFICES ASSUME n < k PROVE FALSE
    OBVIOUS
  <2>1. Before(cmds[n], s) /\ flags[cmds[n]] # {}
    BY <1>2, <1>4, <1>5 DEF Before
  <2> QED
    BY <1>1, <1>2, <1>4, <2>1 DEF DeferredBehind
<1> QED
  BY <1>1, <1>2, <1>3, <1>4, <1>6

\* The slots of the answers under way when there is one at most.
LEMMA UnderIs ==
  ASSUME NEW m \in Messages \cup {None}, NEW f \in Seq(Messages)
  PROVE  /\ m = None /\ f = <<>> => UnderWay(m, f) = <<>>
         /\ m # None /\ f = <<>> => UnderWay(m, f) = <<m.slot>>
         /\ \A x \in Messages : m = None /\ f = <<x>> => UnderWay(m, f) = <<x.slot>>
<1> DEFINE S == Slots \cup {None}
           g == [i \in DOMAIN f |-> f[i].slot]
<1>1. f = <<>> => g = <<>>
  OBVIOUS
<1>2. \A x \in Messages : f = <<x>> => g = <<x.slot>>
  <2> SUFFICES ASSUME NEW x \in Messages, f = <<x>> PROVE g = <<x.slot>>
    OBVIOUS
  <2>1. DOMAIN f = 1 .. 1 /\ f[1] = x
    OBVIOUS
  <2>2. g = [i \in 1 .. 1 |-> x.slot]
    BY <2>1
  <2>3. <<x.slot>> = [i \in 1 .. 1 |-> x.slot]
    OBVIOUS
  <2> QED
    BY <2>2, <2>3
<1>3. \A x \in Messages : x.slot \in S /\ <<x.slot>> \in Seq(S)
  BY DEF Messages
<1>4. \A q \in Seq(S) : <<>> \o q = q /\ q \o <<>> = q
  BY ConcatEmptySeq
<1>5. <<>> \in Seq(S)
  OBVIOUS
<1> HIDE DEF g, S
<1>6. UnderWay(m, f) = (IF m = None THEN <<>> ELSE <<m.slot>>) \o g
  BY DEF UnderWay, g
<1> QED
  BY <1>1, <1>2, <1>3, <1>4, <1>5, <1>6

\* The steps of the service, in terms of what is unanswered and under way.
Stutters ==
  /\ Unanswered(cmds', flags') = Unanswered(cmds, flags)
  /\ UnderWay(msg', firmware') = UnderWay(msg, firmware)

Accepts ==
  \E s \in Slots :
    /\ \A i \in DOMAIN Unanswered(cmds, flags) : Unanswered(cmds, flags)[i] # s
    /\ Len(Unanswered(cmds, flags)) < MaxQueued
    /\ Unanswered(cmds', flags') = Append(Unanswered(cmds, flags), s)
    /\ UnderWay(msg', firmware') = UnderWay(msg, firmware)

Gives ==
  /\ Unanswered(cmds, flags) # <<>> /\ UnderWay(msg, firmware) = <<>>
  /\ UnderWay(msg', firmware') = <<Head(Unanswered(cmds, flags))>>
  /\ Unanswered(cmds', flags') = Unanswered(cmds, flags)

Answers ==
  /\ UnderWay(msg, firmware) # <<>>
  /\ UnderWay(msg', firmware') = Tail(UnderWay(msg, firmware))
  /\ Unanswered(cmds', flags') = Tail(Unanswered(cmds, flags))

\* An accepted command is the last unanswered one.
LEMMA AcceptAccepts ==
  ASSUME IInv, TypeOK', OInv, Calm, NEW p \in Senders, queue_accept(p)
  PROVE  Accepts
<1>0. /\ cmds \in Seq(Slots) /\ Len(cmds) \in Nat /\ DOMAIN cmds = 1 .. Len(cmds)
      /\ flags \in [Slots -> SUBSET Flags] /\ cmds' \in Seq(Slots) /\ MaxQueued \in Nat \ {0}
      /\ \A i \in DOMAIN cmds : cmds[i] \in Slots
  BY SizesAssumption DEF IInv, TypeOK
<1> DEFINE s == cmd[p]
           L == Len(cmds)
<1>1. s \in Slots /\ s \notin Listed /\ cmds' = Append(cmds, s)
  BY Accepted
<1>2. /\ flags'[s] = flags[s] \cup {"WAIT_CFM"} \/ "WAIT_CFM" \in flags'[s]
      /\ \A t \in Slots : t # s => flags'[t] = flags[t]
  BY <1>0, <1>1 DEF queue_accept
<1>3. "WAIT_CFM" \in flags'[s]
  BY <1>2
<1>4. msg' = msg /\ firmware' = firmware /\ ~QueueFull
  BY DEF queue_accept, fwVars
<1>5. PICK n \in 1 .. L + 1 : OpenFrom(cmds, flags, n)
  BY UnansweredBegin DEF OInv, AnswerInv
<1>6. \A i \in DOMAIN cmds : cmds[i] # s
  BY <1>1 DEF Listed, ToSet
<1> HIDE DEF s
<1>7. /\ Len(cmds') = L + 1 /\ DOMAIN cmds' = 1 .. L + 1
      /\ \A i \in 1 .. L : cmds'[i] = cmds[i]
      /\ cmds'[L + 1] = s
  BY <1>0, <1>1, AppendProperties
<1>8. OpenFrom(cmds', flags', n)
  <2> SUFFICES ASSUME NEW i \in 1 .. L + 1
               PROVE  i < n <=> "WAIT_CFM" \notin flags'[cmds'[i]]
    BY <1>7, Zenon DEF OpenFrom
  <2>1. CASE i = L + 1
    BY <1>0, <1>3, <1>5, <1>7, <2>1
  <2>2. CASE i \in 1 .. L
    <3>1. cmds'[i] = cmds[i] /\ cmds[i] # s /\ cmds[i] \in Slots /\ i \in DOMAIN cmds
      BY <1>0, <1>6, <1>7, <2>2
    <3>2. flags'[cmds'[i]] = flags[cmds[i]]
      BY <1>2, <3>1
    <3> QED
      BY <1>5, <3>1, <3>2 DEF OpenFrom
  <2> QED
    BY <1>0, <2>1, <2>2
<1>9. Unanswered(cmds, flags) = SubSeq(cmds, n, L)
  BY <1>0, <1>5, UnansweredIs
<1>10. Unanswered(cmds', flags') = SubSeq(cmds', n, L + 1)
  <2>1. n \in 1 .. Len(cmds') + 1
    BY <1>0, <1>5, <1>7
  <2> QED
    BY <1>0, <1>7, <1>8, <2>1, UnansweredIs
<1> DEFINE r == SubSeq(cmds, n, L)
           r1 == SubSeq(cmds', n, L + 1)
<1>11. /\ r \in Seq(Slots) /\ Len(r) = L - n + 1
       /\ \A i \in 1 .. L - n + 1 : r[i] = cmds[n + i - 1]
  <2>1. n \in Int /\ L \in Int /\ \A i \in n .. L : cmds[i] \in Slots
    BY <1>0, <1>5
  <2>2. r \in Seq(Slots) /\ Len(r) = (IF n <= L THEN L - n + 1 ELSE 0)
        /\ \A i \in 1 .. L - n + 1 : r[i] = cmds[n + i - 1]
    BY <2>1, SubSeqProperties
  <2> QED
    BY <1>0, <1>5, <2>2
<1>12. /\ r1 \in Seq(Slots) /\ Len(r1) = L - n + 2
       /\ \A i \in 1 .. L - n + 2 : r1[i] = cmds'[n + i - 1]
  <2>1. n \in Int /\ L + 1 \in Int /\ \A i \in n .. L + 1 : cmds'[i] \in Slots
    BY <1>0, <1>5, <1>7
  <2>2. r1 \in Seq(Slots) /\ Len(r1) = (IF n <= L + 1 THEN L + 1 - n + 1 ELSE 0)
        /\ \A i \in 1 .. L + 1 - n + 1 : r1[i] = cmds'[n + i - 1]
    BY <2>1, SubSeqProperties
  <2> QED
    BY <1>0, <1>5, <2>2
<1> HIDE DEF r, r1
<1>13. r1 = Append(r, s)
  <2> DEFINE a == Append(r, s)
  <2>1. /\ a \in Seq(Slots) /\ Len(a) = Len(r) + 1 /\ a[Len(r) + 1] = s
        /\ \A i \in 1 .. Len(r) : a[i] = r[i]
    BY <1>1, <1>11, AppendProperties
  <2> HIDE DEF a
  <2>2. \A i \in 1 .. L - n + 2 : r1[i] = a[i]
    <3> SUFFICES ASSUME NEW i \in 1 .. L - n + 2 PROVE r1[i] = a[i]
      OBVIOUS
    <3>1. CASE i = L - n + 2
      <4>1. n + i - 1 = L + 1 /\ i = Len(r) + 1
        BY <1>0, <1>5, <1>11, <3>1
      <4> QED
        BY <1>7, <1>12, <2>1, <4>1
    <3>2. CASE i \in 1 .. L - n + 1
      <4>1. n + i - 1 \in 1 .. L /\ i \in 1 .. Len(r)
        BY <1>0, <1>5, <1>11, <3>2
      <4> QED
        BY <1>7, <1>11, <1>12, <2>1, <3>2, <4>1
    <3> QED
      BY <1>0, <1>5, <3>1, <3>2
  <2>3. Len(r1) = Len(a)
    BY <1>0, <1>5, <1>11, <1>12, <2>1
  <2>4. r1 = a
    BY <1>12, <2>1, <2>2, <2>3, SeqEqual
  <2> QED
    BY <2>4 DEF a
<1>14. Len(r) < MaxQueued
  <2>1. L < MaxQueued
    <3>1. cmds = <<>> => L = 0
      OBVIOUS
    <3>2. queue_sz = L /\ queue_sz <= MaxQueued
      BY DEF IInv, QueueSound
    <3>3. cmds = <<>> \/ queue_sz # MaxQueued
      BY <1>4 DEF QueueFull
    <3> HIDE DEF L
    <3>4. L \in Nat /\ MaxQueued \in Nat /\ MaxQueued # 0
      BY <1>0 DEF L
    <3> QED
      BY <3>1, <3>2, <3>3, <3>4
  <2> QED
    BY <1>0, <1>5, <1>11, <2>1
<1>15. \A i \in DOMAIN r : r[i] # s
  <2>1. DOMAIN r = 1 .. L - n + 1
    BY <1>0, <1>5, <1>11
  <2>2. \A i \in 1 .. L - n + 1 : n + i - 1 \in DOMAIN cmds
    BY <1>0, <1>5
  <2> QED
    BY <1>6, <1>11, <2>1, <2>2
<1>16. Unanswered(cmds, flags) = r /\ Unanswered(cmds', flags') = r1
  BY <1>9, <1>10 DEF r, r1
<1> QED
  BY <1>1, <1>4, <1>13, <1>14, <1>15, <1>16, Zenon DEF Accepts, s

\* A command is pushed when it is the oldest unanswered one and nothing is under
\* way.
LEMMA PushGives ==
  ASSUME IInv, TypeOK', OInv, Calm, NEW t \in Threads, pc[t] = "push",
         aicwf_set_cmd_tx(cmd[t]), usb = "UP", cmds' = cmds, msg' = msg,
         t = Worker \/ "WAIT_PUSH" \notin flags[cmd[t]],
         \A s \in Slots : "WAIT_CFM" \in flags'[s] <=> "WAIT_CFM" \in flags[s]
  PROVE  Gives
<1>0. /\ cmds \in Seq(Slots) /\ Len(cmds) \in Nat /\ DOMAIN cmds = 1 .. Len(cmds)
      /\ \A i \in DOMAIN cmds : cmds[i] \in Slots
      /\ firmware' \in Seq(Messages) /\ None \in {None} /\ reqid \in [Slots -> Ids \cup {None}]
  BY DEF IInv, TypeOK
<1>1. DeferredBehind /\ AnswerInv /\ WaitsForCfm
  BY DEF OInv, AnswerInv
<1>2. firmware = <<>> /\ msg = None /\ cmd[t] \in Listed
  BY <1>1, PushFindsNone
<1>3. "WAIT_CFM" \in flags[cmd[t]]
  BY <1>1 DEF WaitsForCfm
<1>4. PICK n \in 1 .. Len(cmds) + 1 : OpenFrom(cmds, flags, n)
  BY <1>1, UnansweredBegin
<1>5. n \in 1 .. Len(cmds) /\ cmds[n] = cmd[t]
  BY <1>1, <1>2, <1>3, <1>4, FirstIsOpen
<1>6. Unanswered(cmds, flags) = SubSeq(cmds, n, Len(cmds))
  BY <1>0, <1>4, UnansweredIs
<1>7. Unanswered(cmds', flags') = SubSeq(cmds, n, Len(cmds))
  <2>1. OpenFrom(cmds, flags', n)
    BY <1>0, <1>4 DEF OpenFrom
  <2>2. Unanswered(cmds, flags') = SubSeq(cmds, n, Len(cmds))
    BY <1>0, <1>4, <2>1, UnansweredIs
  <2> QED
    BY <2>2
<1>8. Head(Unanswered(cmds, flags)) = cmd[t] /\ Unanswered(cmds, flags) # <<>>
  <2>1. Len(cmds) \in n .. Len(cmds)
    BY <1>0, <1>5
  <2>2. Head(SubSeq(cmds, n, Len(cmds))) = cmds[n]
    BY <1>0, <1>5, <2>1, HeadTailOfSubSeq
  <2>3. Len(SubSeq(cmds, n, Len(cmds))) = Len(cmds) - n + 1
    BY <1>0, <1>5, SubSeqProperties
  <2>4. SubSeq(cmds, n, Len(cmds)) # <<>>
    BY <1>0, <1>5, <2>3
  <2> QED
    BY <1>5, <1>6, <2>2, <2>4
<1>9. UnderWay(msg, firmware) = <<>>
  BY <1>2, EmptySeq, UnderIs
<1> DEFINE m == [slot |-> cmd[t], id |-> reqid[cmd[t]]]
<1>10. m \in Messages /\ m.slot = cmd[t]
  BY <1>0, <1>2 DEF Messages, Listed, ToSet
<1>11. firmware' = <<m>>
  <2>1. firmware' = Append(<<>>, m)
    BY <1>2 DEF aicwf_set_cmd_tx
  <2> HIDE DEF m
  <2>2. Append(<<>>, m) = <<m>>
    OBVIOUS
  <2> QED
    BY <2>1, <2>2
<1> HIDE DEF m
<1>12. UnderWay(msg', firmware') = <<cmd[t]>>
  <2>1. msg' = None /\ msg' \in Messages \cup {None}
    BY <1>2
  <2>2. \A x \in Messages : msg' = None /\ firmware' = <<x>> => UnderWay(msg', firmware') = <<x.slot>>
    BY <1>0, <2>1, UnderIs
  <2> QED
    BY <1>10, <1>11, <2>1, <2>2
<1> QED
  BY <1>6, <1>7, <1>8, <1>9, <1>12 DEF Gives

\* An answer completes the oldest unanswered command.
LEMMA MatchAnswers ==
  ASSUME IInv, TypeOK', OInv, Calm, cmd_mgr_msgind
  PROVE  Answers
<1>0. /\ cmds \in Seq(Slots) /\ Len(cmds) \in Nat /\ DOMAIN cmds = 1 .. Len(cmds)
      /\ \A i \in DOMAIN cmds : cmds[i] \in Slots
      /\ firmware \in Seq(Messages) /\ msg \in Messages \cup {None}
      /\ flags \in [Slots -> SUBSET Flags] /\ IsInjective(cmds)
  BY DEF IInv, TypeOK, QueueSound
<1>1. DeferredBehind /\ AnswerInv /\ WaitsForCfm /\ OneUnderWay
  BY DEF OInv, AnswerInv
<1>2. /\ msg # None /\ msg \in InFlight /\ msg.slot \in Slots
      /\ \E i \in DOMAIN cmds : IsMatch(i) /\ cmds[i] = msg.slot
      /\ \A i \in DOMAIN cmds : IsMatch(i) => cmds[i] = msg.slot
  BY <1>1, MatchIsRight DEF cmd_mgr_msgind
<1>3. flags' = [flags EXCEPT ![msg.slot] = @ \ {"WAIT_CFM"}]
  <2>1. ~\A i \in DOMAIN cmds : ~Wants(cmds[i])
    BY <1>2 DEF IsMatch
  <2>2. PICK i \in DOMAIN cmds : IsMatch(i) /\ flags' = [flags EXCEPT ![cmds[i]] = @ \ {"WAIT_CFM"}]
    BY <2>1 DEF cmd_mgr_msgind
  <2> QED
    BY <1>2, <2>2
<1>4. msg.slot \in Listed /\ flags[msg.slot] = {"WAIT_CFM"}
  BY <1>1, <1>2 DEF AnswerInv, AnswerHasCommand
<1>5. firmware = <<>> /\ firmware' = <<>> /\ msg' = None /\ cmds' = cmds
  <2>1. Len(firmware) <= 0 /\ Len(firmware) \in Nat
    BY <1>0, <1>1, <1>2 DEF OneUnderWay
  <2> QED
    BY <1>0, <2>1, EmptySeq DEF cmd_mgr_msgind, mgrVars
<1>6. UnderWay(msg, firmware) = <<msg.slot>> /\ UnderWay(msg', firmware') = <<>>
  <2>1. <<>> \in Seq(Messages) /\ None \in Messages \cup {None}
    OBVIOUS
  <2> QED
    BY <1>0, <1>2, <1>5, <2>1, UnderIs
<1>7. PICK n \in 1 .. Len(cmds) + 1 : OpenFrom(cmds, flags, n)
  BY <1>1, UnansweredBegin
<1>8. n \in 1 .. Len(cmds) /\ cmds[n] = msg.slot
  BY <1>1, <1>4, <1>7, FirstIsOpen
<1>9. Unanswered(cmds, flags) = SubSeq(cmds, n, Len(cmds))
  BY <1>0, <1>7, UnansweredIs
<1>10. OpenFrom(cmds, flags', n + 1)
  <2> SUFFICES ASSUME NEW i \in DOMAIN cmds
               PROVE  i < n + 1 <=> "WAIT_CFM" \notin flags'[cmds[i]]
    BY DEF OpenFrom
  <2>1. CASE i = n
    BY <1>0, <1>2, <1>3, <1>8, <2>1
  <2>2. CASE i # n
    <3>1. n \in DOMAIN cmds
      BY <1>0, <1>8
    <3>2. cmds[i] # cmds[n]
      BY <1>0, <2>2, <3>1 DEF IsInjective
    <3>3. flags'[cmds[i]] = flags[cmds[i]]
      BY <1>0, <1>3, <1>8, <3>2
    <3>4. i < n + 1 <=> i < n
      BY <1>0, <1>8, <2>2
    <3> QED
      BY <1>7, <3>3, <3>4 DEF OpenFrom
  <2> QED
    BY <2>1, <2>2
<1>11. Unanswered(cmds', flags') = SubSeq(cmds, n + 1, Len(cmds))
  <2>1. n + 1 \in 1 .. Len(cmds) + 1
    BY <1>0, <1>8
  <2>2. Unanswered(cmds, flags') = SubSeq(cmds, n + 1, Len(cmds))
    BY <1>0, <1>10, <2>1, UnansweredIs
  <2> QED
    BY <1>5, <2>2
<1>12. Tail(SubSeq(cmds, n, Len(cmds))) = SubSeq(cmds, n + 1, Len(cmds))
  <2>1. Len(cmds) \in n .. Len(cmds)
    BY <1>0, <1>8
  <2> QED
    BY <1>0, <1>8, <2>1, HeadTailOfSubSeq
<1>13. <<msg.slot>> # <<>> /\ Tail(<<msg.slot>>) = <<>>
  OBVIOUS
<1> QED
  BY <1>6, <1>9, <1>11, <1>12, <1>13 DEF Answers

\* An answered command that leaves the list was in front of the unanswered ones.
LEMMA RemoveStutters ==
  ASSUME IInv, TypeOK', OInv, Calm, NEW t \in Threads, remove(t)
  PROVE  Stutters
<1>0. /\ cmds \in Seq(Slots) /\ Len(cmds) \in Nat /\ DOMAIN cmds = 1 .. Len(cmds)
      /\ \A i \in DOMAIN cmds : cmds[i] \in Slots
  BY DEF IInv, TypeOK
<1>1. DeferredBehind /\ WaitsForCfm
  BY DEF OInv, AnswerInv
<1>2. "WAIT_CFM" \notin flags[cmd[t]]
  BY <1>1 DEF remove, WaitsForCfm
<1>3. PICK k \in DOMAIN cmds : cmds[k] = cmd[t] /\ cmds' = RemoveAt(cmds, k)
  BY DEF remove, list_del
<1>4. flags' = flags /\ msg' = msg /\ firmware' = firmware
  BY DEF remove, fwVars
<1> DEFINE L == Len(cmds)
           l == RemoveAt(cmds, k)
<1>5. /\ l \in Seq(Slots) /\ Len(l) = L - 1 /\ DOMAIN l = 1 .. L - 1
      /\ \A j \in 1 .. L - 1 : l[j] = IF j < k THEN cmds[j] ELSE cmds[j + 1]
  <2>1. k \in 1 .. Len(cmds)
    BY <1>0, <1>3
  <2>2. /\ l \in Seq(Slots) /\ Len(l) = L - 1
        /\ \A j \in 1 .. L - 1 : l[j] = IF j < k THEN cmds[j] ELSE cmds[j + 1]
    BY <1>0, <2>1, RemoveAtProperties
  <2> HIDE DEF l
  <2>3. DOMAIN l = 1 .. Len(l)
    BY <2>2
  <2> QED
    BY <2>2, <2>3
<1> HIDE DEF l
<1>6. PICK n \in 1 .. L + 1 : OpenFrom(cmds, flags, n)
  BY <1>1, UnansweredBegin
<1>7. k < n
  BY <1>2, <1>3, <1>6 DEF OpenFrom
<1>8. n - 1 \in 1 .. Len(l) + 1
  BY <1>0, <1>3, <1>5, <1>6, <1>7
<1>9. OpenFrom(l, flags, n - 1)
  <2> SUFFICES ASSUME NEW i \in 1 .. L - 1
               PROVE  i < n - 1 <=> "WAIT_CFM" \notin flags[l[i]]
    BY <1>5, Zenon DEF OpenFrom
  <2>1. CASE i < k
    <3>1. l[i] = cmds[i] /\ i \in DOMAIN cmds /\ i < n /\ i < n - 1
      BY <1>0, <1>3, <1>5, <1>6, <1>7, <2>1
    <3> QED
      BY <1>6, <3>1 DEF OpenFrom
  <2>2. CASE ~(i < k)
    <3>1. l[i] = cmds[i + 1] /\ i + 1 \in DOMAIN cmds /\ (i + 1 < n <=> i < n - 1)
      BY <1>0, <1>3, <1>5, <1>6, <2>2
    <3> QED
      BY <1>6, <3>1 DEF OpenFrom
  <2> QED
    BY <2>1, <2>2
<1> DEFINE r == SubSeq(cmds, n, L)
           r1 == SubSeq(l, n - 1, L - 1)
<1>10. Unanswered(cmds, flags) = r
  BY <1>0, <1>6, UnansweredIs
<1>11. Unanswered(l, flags) = r1
  BY <1>5, <1>8, <1>9, UnansweredIs
<1>12. /\ r \in Seq(Slots) /\ Len(r) = L - n + 1
       /\ \A i \in 1 .. L - n + 1 : r[i] = cmds[n + i - 1]
  <2>1. n \in Int /\ L \in Int /\ \A i \in n .. L : cmds[i] \in Slots
    BY <1>0, <1>6
  <2>2. r \in Seq(Slots) /\ Len(r) = (IF n <= L THEN L - n + 1 ELSE 0)
        /\ \A i \in 1 .. L - n + 1 : r[i] = cmds[n + i - 1]
    BY <2>1, SubSeqProperties
  <2> QED
    BY <1>0, <1>6, <2>2
<1>13. /\ r1 \in Seq(Slots) /\ Len(r1) = L - n + 1
       /\ \A i \in 1 .. L - n + 1 : r1[i] = l[n - 1 + i - 1]
  <2>1. n - 1 \in Int /\ L - 1 \in Int /\ \A i \in n - 1 .. L - 1 : l[i] \in Slots
    BY <1>0, <1>5, <1>6, <1>8
  <2>2. r1 \in Seq(Slots) /\ Len(r1) = (IF n - 1 <= L - 1 THEN L - 1 - (n - 1) + 1 ELSE 0)
        /\ \A i \in 1 .. L - 1 - (n - 1) + 1 : r1[i] = l[n - 1 + i - 1]
    BY <2>1, SubSeqProperties
  <2>3. L - 1 - (n - 1) + 1 = L - n + 1 /\ (n - 1 <= L - 1 <=> n <= L) /\ (n > L => L - n + 1 = 0)
    BY <1>0, <1>6
  <2> HIDE DEF r1
  <2> QED
    BY <2>2, <2>3, <1>0, <1>6
<1> HIDE DEF r, r1
<1>14. r1 = r
  <2>1. \A i \in 1 .. L - n + 1 : r1[i] = r[i]
    <3> SUFFICES ASSUME NEW i \in 1 .. L - n + 1 PROVE r1[i] = r[i]
      OBVIOUS
    <3>1. /\ n - 1 + i - 1 \in 1 .. L - 1 /\ ~(n - 1 + i - 1 < k)
          /\ n - 1 + i - 1 + 1 = n + i - 1
      BY <1>0, <1>3, <1>6, <1>7
    <3>2. l[n - 1 + i - 1] = cmds[n + i - 1]
      BY <1>5, <3>1
    <3> QED
      BY <1>12, <1>13, <3>2
  <2> QED
    BY <1>12, <1>13, <2>1, SeqEqual
<1>15. Unanswered(cmds', flags') = Unanswered(cmds, flags)
  BY <1>3, <1>4, <1>10, <1>11, <1>14 DEF l
<1> QED
  BY <1>4, <1>15 DEF Stutters

\* Freeing a slot that is not listed.
LEMMA FreeStutters ==
  ASSUME IInv, OInv, Calm, NEW s, s \notin Listed, rwnx_cmd_free(s), cmds' = cmds, flags' = flags
  PROVE  Stutters
<1>1. \A m \in InFlight : m.slot # s
  BY DEF OInv, AnswerInv, AnswerHasCommand
<1>2. firmware' = firmware /\ msg' = msg
  BY <1>1, FreeKeepsAnswers DEF IInv
<1> QED
  BY <1>2 DEF Stutters

\* The answer the receive thread takes was the only one.
LEMMA ReceiveStutters ==
  ASSUME IInv, TypeOK', OInv, Calm, receive_cfm
  PROVE  Stutters
<1>0. /\ firmware \in Seq(Messages) /\ Len(firmware) \in Nat /\ msg \in Messages \cup {None}
      /\ firmware' \in Seq(Messages) /\ msg' \in Messages \cup {None} /\ None \notin Messages
  BY NoneAssumption DEF IInv, TypeOK
<1>1. /\ firmware # <<>> /\ msg' = Head(firmware) /\ firmware' = Tail(firmware)
      /\ cmds' = cmds /\ flags' = flags
  BY DEF receive_cfm, mgrVars
<1>2. /\ Head(firmware) \in Messages /\ Len(Tail(firmware)) = Len(firmware) - 1
      /\ Len(firmware) > 0 /\ firmware[1] = Head(firmware)
  BY <1>0, <1>1
<1>3. Len(firmware) = 1 /\ msg = None
  <2> DEFINE k == Len(firmware)
  <2>1. k + (IF msg = None THEN 0 ELSE 1) <= 1
    BY DEF OInv, AnswerInv, OneUnderWay
  <2>2. k \in Nat /\ k > 0
    BY <1>0, <1>2
  <2> HIDE DEF k
  <2>3. k = 1 /\ msg = None
    BY <2>1, <2>2
  <2> QED
    BY <2>3 DEF k
<1>4. firmware = <<Head(firmware)>>
  <2> DEFINE x == Head(firmware)
  <2>1. x \in Messages /\ firmware[1] = x
    BY <1>2
  <2> HIDE DEF x
  <2>2. <<x>> \in Seq(Messages) /\ Len(<<x>>) = 1 /\ <<x>>[1] = x
    BY <2>1
  <2>3. firmware = <<x>>
    BY <1>0, <1>3, <2>1, <2>2, SeqEqual
  <2> QED
    BY <2>3 DEF x
<1>5. firmware' = <<>>
  BY <1>0, <1>1, <1>2, <1>3, EmptySeq
<1>6. UnderWay(msg, firmware) = <<Head(firmware).slot>>
  <2>1. \A x \in Messages : msg = None /\ firmware = <<x>> => UnderWay(msg, firmware) = <<x.slot>>
    BY <1>0, UnderIs
  <2> QED
    BY <1>2, <1>3, <1>4, <2>1
<1>7. UnderWay(msg', firmware') = <<msg'.slot>>
  <2>1. msg' # None /\ firmware' = <<>> => UnderWay(msg', firmware') = <<msg'.slot>>
    BY <1>0, UnderIs
  <2> QED
    BY <1>0, <1>1, <1>2, <1>5, <2>1
<1> QED
  BY <1>1, <1>6, <1>7 DEF Stutters

LEMMA ServiceStep ==
  ASSUME IInv, TypeOK', OInv, [Next]_vars, ~Broken, ~Broken'
  PROVE  Stutters \/ Accepts \/ Gives \/ Answers
<1>0. /\ Calm /\ state' = "INITED" /\ killed' = {} /\ usb = "UP" /\ usb' = "UP"
      /\ Senders \subseteq Threads /\ Worker \in Threads /\ Worker \notin Senders
      /\ flags \in [Slots -> SUBSET Flags] /\ None \notin Slots
  BY ThreadsAssumption DEF Broken, Calm, IInv, TypeOK, Threads
<1>1. CASE UNCHANGED <<cmds, flags, msg, firmware>>
  BY <1>1 DEF Stutters
<1>2. ASSUME NEW p \in Senders, rwnx_send_msg(p) \/ e2a_check_state(p) \/ e2a_poll(p)
                                  \/ queue_lock(p) \/ queue_defer(p)
      PROVE  UNCHANGED <<cmds, flags, msg, firmware>>
  BY <1>2 DEF rwnx_send_msg, e2a_check_state, e2a_poll, queue_lock, queue_defer, mgrVars, fwVars
<1>3. ASSUME NEW t \in Threads, Await(t), ~remove(t)
      PROVE  UNCHANGED <<cmds, flags, msg, firmware>>
  BY <1>3 DEF Await, wait_completed, remove_lock, wait_timed_out, timeout_lock, mgrVars, fwVars
<1>4. ASSUME work_start \/ work_scan \/ match_lock \/ disconnect \/ UNCHANGED vars
      PROVE  UNCHANGED <<cmds, flags, msg, firmware>>
  BY <1>4 DEF work_start, work_scan, match_lock, disconnect, vars, mgrVars, fwVars
<1>5. ASSUME NEW p \in Senders, send_without_cfm(p) \/ queue_refuse(p) \/ leave(p)
      PROVE  Stutters
  <2>1. cmd[p] \notin Listed
    BY <1>0, <1>5 DEF IInv, Holding, SlotByPlace, PreQueue, Calm, send_without_cfm, queue_refuse, leave
  <2>2. rwnx_cmd_free(cmd[p]) /\ cmds' = cmds /\ flags' = flags
    BY <1>5 DEF send_without_cfm, queue_refuse, leave, mgrVars
  <2> QED
    BY <1>0, <2>1, <2>2, FreeStutters
<1>6. ASSUME work_leave
      PROVE  Stutters
  <2>1. cmd[Worker] \notin Listed
    BY <1>0, <1>6 DEF IInv, Holding, SlotByPlace, work_leave
  <2>2. rwnx_cmd_free(cmd[Worker]) /\ cmds' = cmds /\ flags' = flags
    BY <1>6 DEF work_leave, mgrVars
  <2> QED
    BY <1>0, <2>1, <2>2, FreeStutters
<1>7. ASSUME NEW p \in Senders, queue_push(p)
      PROVE  Gives
  <2>1. /\ pc[p] = "push" /\ aicwf_set_cmd_tx(cmd[p]) /\ cmds' = cmds /\ msg' = msg
        /\ flags' = flags
    BY <1>7 DEF queue_push, mgrVars
  <2>2. cmd[p] \in Slots
    BY <1>0, <2>1 DEF IInv, TypeOK, Holding, SlotByPlace, Waiting, Listed, ToSet
  <2>3. "WAIT_PUSH" \notin flags[cmd[p]]
    BY <1>0, <2>1, <2>2 DEF IInv, Holding, DeferredKept
  <2>4. p \in Threads
    BY <1>0
  <2> QED
    BY <1>0, <2>1, <2>3, <2>4, PushGives
<1>8. ASSUME work_push
      PROVE  Gives
  <2>1. /\ pc[Worker] = "push" /\ aicwf_set_cmd_tx(cmd[Worker]) /\ cmds' = cmds /\ msg' = msg
        /\ flags' = [flags EXCEPT ![cmd[Worker]] = @ \ {"WAIT_PUSH"}]
    BY <1>8 DEF work_push, mgrVars
  <2>2. \A s \in Slots : "WAIT_CFM" \in flags'[s] <=> "WAIT_CFM" \in flags[s]
    BY <1>0, <2>1
  <2> QED
    BY <1>0, <2>1, <2>2, PushGives
<1>9. ASSUME NEW p \in Senders
      PROVE  ~wait_killed(p) /\ ~timed_out(p)
  BY <1>0 DEF wait_killed, timed_out, crash
<1>10. ~work_timed_out
  BY <1>0 DEF work_timed_out, crash
<1>11. ASSUME NEW p \in Senders, queue_accept(p)
       PROVE  Accepts
  BY <1>0, <1>11, AcceptAccepts
<1>12. ASSUME NEW t \in Threads, remove(t)
       PROVE  Stutters
  BY <1>0, <1>12, RemoveStutters
<1>13. ASSUME receive_cfm
       PROVE  Stutters
  BY <1>0, <1>13, ReceiveStutters
<1>14. ASSUME cmd_mgr_msgind
       PROVE  Answers
  BY <1>0, <1>14, MatchAnswers
<1> QED
  BY <1>1, <1>2, <1>3, <1>4, <1>5, <1>6, <1>7, <1>8, <1>9, <1>10, <1>11, <1>12, <1>13, <1>14, Zenon
     DEF Next, Send, Work, Deliver

\* The command manager implements the service, until a command times out, a
\* waiting caller is killed or the device is unplugged: cmd_mgr_queue,
\* cmd_mgr_task_process and cmd_mgr_msgind together give the accepted commands to
\* the firmware one at a time and in order, and complete the right one.
THEOREM ImplementsCmdService == Spec => InService
<1>1. Init => Service!Init
  <2> SUFFICES ASSUME Init PROVE Service!Init
    OBVIOUS
  <2>1. cmds = <<>> /\ msg = None /\ firmware = <<>> /\ ~Broken
    BY DEF Init, Broken
  <2>2. Unanswered(cmds, flags) = <<>>
    <3>1. cmds \in Seq(Slots) /\ 1 \in 1 .. Len(cmds) + 1 /\ OpenFrom(cmds, flags, 1) /\ Len(cmds) = 0
      BY <2>1 DEF OpenFrom
    <3>2. Unanswered(cmds, flags) = SubSeq(cmds, 1, Len(cmds))
      BY <3>1, UnansweredIs
    <3>3. SubSeq(cmds, 1, 0) = <<>>
      BY SubSeqEmpty
    <3> QED
      BY <3>1, <3>2, <3>3
  <2>3. UnderWay(msg, firmware) = <<>>
    <3>1. <<>> \in Seq(Messages) /\ None \in Messages \cup {None}
      OBVIOUS
    <3> QED
      BY <2>1, <3>1, UnderIs
  <2> QED
    BY <2>1, <2>2, <2>3 DEF Service!Init
<1>2. IInv /\ TypeOK' /\ OInv /\ [Next]_vars
      => [Service!Next]_<<IF Broken THEN <<>> ELSE Unanswered(cmds, flags),
                          IF Broken THEN <<>> ELSE UnderWay(msg, firmware), Broken>>
  <2> SUFFICES ASSUME IInv, TypeOK', OInv, [Next]_vars
               PROVE  [Service!Next]_<<IF Broken THEN <<>> ELSE Unanswered(cmds, flags),
                                       IF Broken THEN <<>> ELSE UnderWay(msg, firmware), Broken>>
    OBVIOUS
  <2>1. Broken => Broken'
    BY CalmBefore DEF Broken, IInv, Calm, TypeOK
  <2>2. Broken \in BOOLEAN /\ Broken' \in BOOLEAN
    BY DEF Broken
  <2>3. CASE Broken
    BY <2>1, <2>2, <2>3
  <2>4. CASE ~Broken /\ Broken'
    <3>1. Service!Fail
      BY <2>2, <2>4 DEF Service!Fail
    <3> QED
      BY <3>1 DEF Service!Next
  <2>5. CASE ~Broken /\ ~Broken'
    <3>1. Stutters \/ Accepts \/ Gives \/ Answers
      BY <2>5, ServiceStep
    <3>2. CASE Stutters
      BY <2>2, <2>5, <3>2 DEF Stutters
    <3>3. CASE Accepts
      <4>1. \E s \in Slots : Service!Accept(s)
        BY <2>2, <2>5, <3>3 DEF Accepts, Service!Accept
      <4> QED
        BY <4>1 DEF Service!Next
    <3>4. CASE Gives
      <4>1. Service!Give
        BY <2>2, <2>5, <3>4 DEF Gives, Service!Give
      <4> QED
        BY <4>1 DEF Service!Next
    <3>5. CASE Answers
      <4>1. Service!Answer
        BY <2>2, <2>5, <3>5 DEF Answers, Service!Answer
      <4> QED
        BY <4>1 DEF Service!Next
    <3> QED
      BY <3>1, <3>2, <3>3, <3>4, <3>5
  <2> QED
    BY <2>3, <2>4, <2>5
<1>3. IInv => TypeOK
  BY DEF IInv
<1>4. Spec => Service!Spec
  BY <1>1, <1>2, <1>3, InvariantHolds, OrderInvariant, PTL DEF Spec, Service!Spec
<1> QED
  BY <1>4 DEF InService
===============================================================================
