----------------------------- MODULE TcpAckProofs -----------------------------
(***************************************************************************)
(* Proofs about the filter of TCP acknowledgements, for any connections,   *)
(* any number of entries and any numbers.                                  *)
(***************************************************************************)
EXTENDS TcpAck, FiniteSetTheorems, TLAPS

USE SizesAssumption, NamesAssumption

\* A timer that is sending has something to send, a sender that fills or
\* handles has an entry.
Took ==
  /\ \A i \in Entries : handler[i] = "move" => taken[i] # None
  /\ \A f \in Flows : at[f] \in {"fill", "handle"} => index[f] \in Entries

TypeInv == TypeOK /\ Took

LEMMA NumberInRange ==
  ASSUME NEW n \in Int
  PROVE  SN(n) \in 0 .. SeqMod - 1
BY DEF SN

LEMMA NewestInRange ==
  ASSUME NEW m \in 0 .. MaxN, NEW n \in 0 .. MaxN
  PROVE  Newest(m, n) \in 0 .. MaxN
BY DEF Newest

LEMMA MessageTyped ==
  ASSUME TypeOK, NEW f \in Flows
  PROVE  Message(f) \in Messages /\ num[f] \in 0 .. MaxN /\ SN(num[f]) \in 0 .. SeqMod - 1
BY NumberInRange DEF TypeOK, Message, Messages

LEMMA TypeInit == Init => TypeInv
<1> SUFFICES ASSUME Init PROVE TypeInv
  OBVIOUS
<1>1. /\ busy \subseteq Entries /\ pending \subseteq Entries
      /\ owner \in [Entries -> Flows \cup {None}]
      /\ msgbuf \in [Entries -> Messages \cup {None}]
      /\ in_send_msg \in [Entries -> Flows \cup {Timer, None}]
      /\ taken \in [Entries -> Messages \cup {None}]
      /\ index \in [Flows -> Entries \cup {None}]
  BY DEF Init
<1>2. /\ seq \in [Entries -> 0 .. SeqMod - 1] /\ drop_cnt \in [Entries -> 0 .. MaxDrop]
      /\ num \in [Flows -> 0 .. MaxN] /\ top \in [Flows -> 0 .. MaxN]
      /\ acked \in [Flows -> 0 .. MaxN]
      /\ drift \in 0 .. MaxDrift /\ max_num \in Int
  BY DEF Init
<1>3. free_index \in Entries \cup {None}
  BY DEF Init, Entries
<1>4. /\ handler \in [Entries -> {"idle", "fired", "move"}]
      /\ at \in [Flows -> {"idle", "match", "handle", "alloc", "fill", "move"}]
      /\ shared \in BOOLEAN /\ strayed \in BOOLEAN
  BY DEF Init
<1>5. Took
  BY DEF Init, Took
<1> QED
  BY <1>1, <1>2, <1>3, <1>4, <1>5 DEF TypeInv, TypeOK

LEMMA TypeStep == TypeInv /\ [Next]_vars => TypeInv'
<1> SUFFICES ASSUME TypeInv, [Next]_vars PROVE TypeInv'
  OBVIOUS
<1> USE DEF TypeInv
<1>1. CASE UNCHANGED vars
  BY <1>1 DEF TypeOK, Took, vars, entryVars, heldVars, timerVars, countVars, senderVars
<1>2. ASSUME NEW f \in Flows, rwnx_start_xmit(f) PROVE TypeInv'
  <2>1. PICK S \in SUBSET {i \in Entries : CanAge(i)} :
          /\ busy' = busy \ S /\ max_num' = max_num - Cardinality(S)
          /\ \/ S = {} /\ UNCHANGED free_index
             \/ \E i \in S : IsLowest(i, S) /\ free_index' = i
          /\ strayed' = (strayed \/ \E g \in Flows : at[g] = "handle" /\ index[g] \in S)
    BY <1>2 DEF rwnx_start_xmit, tcp_ack_update
  <2>2. IsFiniteSet(Entries)
    BY FS_Interval DEF Entries
  <2>3. Cardinality(S) \in Nat
    BY <2>2, FS_Subset, FS_CardinalityType
  <2>4. max_num' \in Int
    BY <2>1, <2>3 DEF TypeOK
  <2>5. free_index' \in Entries \cup {None} /\ busy' \subseteq Entries
    BY <2>1 DEF TypeOK
  <2>6. strayed' \in BOOLEAN
    BY <2>1, Zenon
  <2>7. PICK n \in {top[f] - 1, top[f], top[f] + 1} \cap (1 .. MaxN) :
          num' = [num EXCEPT ![f] = n] /\ top' = [top EXCEPT ![f] = Newest(@, n)]
    BY <1>2, Zenon DEF rwnx_start_xmit
  <2>8. num' \in [Flows -> 0 .. MaxN] /\ top' \in [Flows -> 0 .. MaxN]
    BY <2>7, NewestInRange, n \in 0 .. MaxN DEF TypeOK
  <2> QED
    BY <1>2, <2>4, <2>5, <2>6, <2>8 DEF rwnx_start_xmit, TypeOK, Took, Move, heldVars, timerVars
<1>3. ASSUME NEW f \in Flows, tcp_ack_match(f) PROVE TypeInv'
  BY <1>3 DEF tcp_ack_match, TypeOK, Took, Move, entryVars, heldVars, timerVars, countVars
<1>4. ASSUME NEW f \in Flows, tcp_ack_handle_new(f) PROVE TypeInv'
  <2>1. Message(f) \in Messages /\ SN(num[f]) \in 0 .. SeqMod - 1
    BY MessageTyped
  <2> DEFINE i == index[f]
  <2>2. i \in Entries
    BY <1>4 DEF tcp_ack_handle_new, Took
  <2>3. UNCHANGED <<busy, owner, handler, taken, free_index, max_num, drift, shared, top, acked, strayed>>
    BY <1>4 DEF tcp_ack_handle_new, timerVars, countVars
  <2>4. CASE send_now(f, i) /\ seq' = [seq EXCEPT ![i] = SN(num[f])]
    BY <2>1, <2>2, <2>3, <2>4 DEF send_now, Move, TypeOK, Took
  <2>5. CASE hold_back(f, i) /\ seq' = [seq EXCEPT ![i] = SN(num[f])]
    BY <2>1, <2>2, <2>3, <2>5 DEF hold_back, Leave, Move, TypeOK, Took
  <2>6. CASE /\ Move(f, "handle", "idle") /\ Leave(f)
             /\ UNCHANGED <<seq, drop_cnt, heldVars>>
    BY <2>3, <2>6 DEF Leave, Move, heldVars, TypeOK, Took
  <2> QED
    BY <1>4, <2>4, <2>5, <2>6 DEF tcp_ack_handle_new
<1>5. ASSUME NEW f \in Flows, tcp_ack_alloc_index(f) PROVE TypeInv'
  <2>1. at' \in [Flows -> {"idle", "match", "handle", "alloc", "fill", "move"}]
    BY <1>5 DEF tcp_ack_alloc_index, Move, TypeOK
  <2>2. index' \in [Flows -> Entries \cup {None}]
    BY <1>5 DEF tcp_ack_alloc_index, TypeOK
  <2>3. shared' \in BOOLEAN
    <3>1. CASE \/ UNCHANGED shared
               \/ shared' = (shared \/ \E g \in Flows : at[g] = "fill" /\ index[g] = index'[f])
      BY <3>1, Zenon DEF TypeOK
    <3> QED
      BY <1>5, <3>1, Zenon DEF tcp_ack_alloc_index, countVars
  <2>4. free_index' \in Entries \cup {None}
    BY <1>5 DEF tcp_ack_alloc_index, countVars, TypeOK
  <2>5. max_num' \in Int /\ drift' \in 0 .. MaxDrift
    <3>1. \/ UNCHANGED <<max_num, drift>>
          \/ max_num' = max_num + 1 /\ UNCHANGED drift
          \/ \E k \in Recounts(f) : max_num' = max_num + 1 + k /\ drift' = drift + k
      BY <1>5, Zenon DEF tcp_ack_alloc_index, countVars
    <3>2. \A k \in Recounts(f) : k \in {0, 1} /\ drift + k \in 0 .. MaxDrift
      BY DEF Recounts, TypeOK
    <3> QED
      BY <3>1, <3>2 DEF TypeOK
  <2>6. UNCHANGED <<entryVars, heldVars, timerVars, num, top, acked, strayed>>
    BY <1>5 DEF tcp_ack_alloc_index
  <2>7. Took'
    <3>1. \A g \in Flows \ {f} : at'[g] = at[g] /\ index'[g] = index[g]
      BY <1>5 DEF tcp_ack_alloc_index, Move, TypeOK
    <3>2. at'[f] = "fill" => index'[f] \in Entries
      BY <1>5 DEF tcp_ack_alloc_index, Move, TypeOK
    <3>3. at'[f] # "handle"
      BY <1>5 DEF tcp_ack_alloc_index, Move, TypeOK
    <3> QED
      BY <2>6, <3>1, <3>2, <3>3 DEF Took, timerVars
  <2> QED
    BY <2>1, <2>2, <2>3, <2>4, <2>5, <2>6, <2>7 DEF TypeOK, entryVars, heldVars, timerVars
<1>6. ASSUME NEW f \in Flows, fill_entry(f) PROVE TypeInv'
  <2>1. SN(num[f]) \in 0 .. SeqMod - 1
    BY MessageTyped
  <2>2. index[f] \in Entries
    BY <1>6 DEF fill_entry, Move, Took
  <2> QED
    BY <1>6, <2>1, <2>2 DEF fill_entry, Move, TypeOK, Took, heldVars, timerVars, countVars
<1>7. ASSUME NEW f \in Flows, move_tcpack_msg(f) PROVE TypeInv'
  <2>1. acked' \in [Flows -> 0 .. MaxN]
    BY <1>7, NewestInRange DEF move_tcpack_msg, TypeOK
  <2>2. in_send_msg' \in [Entries -> Flows \cup {Timer, None}]
    BY <1>7 DEF move_tcpack_msg, Released, TypeOK
  <2> QED
    BY <1>7, <2>1, <2>2 DEF move_tcpack_msg, Leave, Move, TypeOK, Took, entryVars, timerVars, countVars
<1>8. ASSUME NEW i \in Entries, timer_fires(i) PROVE TypeInv'
  BY <1>8 DEF timer_fires, Step, TypeOK, Took, entryVars, countVars, senderVars
<1>9. ASSUME NEW i \in Entries, tcp_ack_timeout(i) PROVE TypeInv'
  BY <1>9 DEF tcp_ack_timeout, Step, TypeOK, Took, entryVars, countVars, senderVars
<1>10. ASSUME NEW i \in Entries, intf_tx(i) PROVE TypeInv'
  <2>1. taken[i] \in Messages
    BY <1>10 DEF intf_tx, Step, TypeOK, Took
  <2>2. taken[i].flow \in Flows /\ taken[i].n \in 0 .. MaxN
    BY <2>1 DEF Messages
  <2>3. acked' \in [Flows -> 0 .. MaxN]
    BY <1>10, <2>2, NewestInRange DEF intf_tx, TypeOK
  <2>4. in_send_msg' \in [Entries -> Flows \cup {Timer, None}]
    BY <1>10 DEF intf_tx, Released, TypeOK
  <2> QED
    BY <1>10, <2>3, <2>4 DEF intf_tx, Step, TypeOK, Took, entryVars, countVars, senderVars
<1> QED
  BY <1>1, <1>2, <1>3, <1>4, <1>5, <1>6, <1>7, <1>8, <1>9, <1>10 DEF Next, Sender, Timeout

-----------------------------------------------------------------------------

\* Two senders that fill have different entries, which nobody uses.
FillersApart ==
  ~shared =>
    /\ \A f \in Filling : index[f] \in Entries /\ index[f] \notin busy
    /\ \A f, g \in Filling : index[f] = index[g] => f = g

AllocInv == FillersApart /\ AllocSound

LEMMA AllocFrame ==
  ASSUME AllocInv, UNCHANGED <<busy, free_index, max_num, drift, shared>>,
         Filling' = Filling, \A f \in Filling : index'[f] = index[f]
  PROVE  AllocInv'
<1>1. FillersApart'
  BY DEF AllocInv, FillersApart
<1>2. AllocSound'
  BY DEF AllocInv, AllocSound
<1> QED
  BY <1>1, <1>2 DEF AllocInv

\* A sender that was not filling and does not begin to.
LEMMA MoveFrame ==
  ASSUME TypeOK, NEW f \in Flows, NEW p, NEW q, Move(f, p, q),
         p # "fill", q # "fill", \A g \in Flows \ {f} : index'[g] = index[g]
  PROVE  Filling' = Filling /\ \A g \in Filling : index'[g] = index[g]
BY DEF TypeOK, Move, Filling

LEMMA AllocStep == TypeInv /\ AllocInv /\ [Next]_vars => AllocInv'
<1> SUFFICES ASSUME TypeInv, AllocInv, [Next]_vars PROVE AllocInv'
  OBVIOUS
<1> USE DEF TypeInv
<1>0. IsFiniteSet(Entries) /\ IsFiniteSet(busy) /\ IsFiniteSet(Filling)
  <2>1. IsFiniteSet(Entries)
    BY FS_Interval DEF Entries
  <2>2. IsFiniteSet(busy)
    BY <2>1, FS_Subset DEF TypeOK
  <2>3. IsFiniteSet(Filling)
    BY FlowsAssumption, FS_Subset DEF Filling
  <2> QED
    BY <2>1, <2>2, <2>3
<1>1. CASE UNCHANGED vars
  <2>1. Filling' = Filling
    BY <1>1 DEF vars, senderVars, Filling
  <2> QED
    BY <1>1, <2>1, AllocFrame DEF vars, entryVars, countVars, senderVars
<1>2. ASSUME NEW f \in Flows, rwnx_start_xmit(f) PROVE AllocInv'
  <2>1. PICK S \in SUBSET {i \in Entries : CanAge(i)} :
          /\ busy' = busy \ S /\ max_num' = max_num - Cardinality(S)
          /\ \/ S = {} /\ UNCHANGED free_index
             \/ \E i \in S : IsLowest(i, S) /\ free_index' = i
    BY <1>2 DEF rwnx_start_xmit, tcp_ack_update
  <2>2. S \subseteq busy
    BY DEF CanAge
  <2>3. UNCHANGED <<drift, shared, index>>
    BY <1>2 DEF rwnx_start_xmit
  <2>4. Filling' = Filling
    BY <1>2, <2>3, MoveFrame, Zenon DEF rwnx_start_xmit
  <2>5. Cardinality(busy \ S) = Cardinality(busy) - Cardinality(S)
    <3>1. busy \cap S = S
      BY <2>2
    <3> QED
      BY <3>1, <1>0, FS_Difference
  <2>6. IsFiniteSet(S) /\ Cardinality(S) \in Nat /\ Cardinality(busy) \in Nat
        /\ Cardinality(Filling) \in Nat
    BY <1>0, <2>2, FS_Subset, FS_CardinalityType
  <2>7. FillersApart'
    BY <2>1, <2>3, <2>4 DEF AllocInv, FillersApart
  <2>8. ASSUME ~shared
        PROVE  max_num' = Cardinality(busy') + Cardinality(Filling') + drift'
    <3>1. max_num = Cardinality(busy) + Cardinality(Filling) + drift
      BY <2>8 DEF AllocInv, AllocSound
    <3> QED
      BY <3>1, <2>1, <2>3, <2>4, <2>5, <2>6 DEF TypeOK
  <2>9. ASSUME ~shared, free_index' # None
        PROVE  free_index' \notin busy' /\ \A g \in Filling : index[g] # free_index'
    <3>1. CASE S = {}
      BY <2>1, <2>9, <3>1 DEF AllocInv, AllocSound
    <3>2. CASE S # {}
      <4>1. free_index' \in S
        BY <2>1, <3>2
      <4> QED
        BY <4>1, <2>1, <2>2, <2>9 DEF AllocInv, FillersApart
    <3> QED
      BY <3>1, <3>2
  <2> QED
    BY <2>3, <2>4, <2>7, <2>8, <2>9 DEF AllocInv, AllocSound
<1>3. ASSUME NEW f \in Flows, tcp_ack_match(f) PROVE AllocInv'
  <2>1. \A g \in Flows \ {f} : index'[g] = index[g]
    BY <1>3 DEF tcp_ack_match, TypeOK
  <2>2. Filling' = Filling /\ \A g \in Filling : index'[g] = index[g]
    BY <1>3, <2>1, MoveFrame DEF tcp_ack_match
  <2> QED
    BY <1>3, <2>2, AllocFrame DEF tcp_ack_match, entryVars, countVars
<1>4. ASSUME NEW f \in Flows, tcp_ack_handle_new(f) PROVE AllocInv'
  <2>1. \A g \in Flows \ {f} : index'[g] = index[g]
    BY <1>4 DEF tcp_ack_handle_new, send_now, hold_back, Leave, TypeOK
  <2>2. Move(f, "handle", "move") \/ Move(f, "handle", "idle")
    BY <1>4, Zenon DEF tcp_ack_handle_new, send_now, hold_back
  <2>3. Filling' = Filling /\ \A g \in Filling : index'[g] = index[g]
    BY <2>1, <2>2, MoveFrame
  <2> QED
    BY <1>4, <2>3, AllocFrame DEF tcp_ack_handle_new, countVars
<1>5. ASSUME NEW f \in Flows, tcp_ack_alloc_index(f) PROVE AllocInv'
  <2>1. CASE Move(f, "alloc", "move") /\ UNCHANGED <<countVars, index>>
    <3>1. Filling' = Filling /\ \A g \in Filling : index'[g] = index[g]
      BY <2>1, MoveFrame
    <3> QED
      BY <1>5, <2>1, <3>1, AllocFrame DEF tcp_ack_alloc_index, entryVars, countVars
  <2>2. CASE Move(f, "alloc", "fill")
    <3>1. UNCHANGED busy
      BY <1>5 DEF tcp_ack_alloc_index, entryVars
    <3>2. f \notin Filling /\ Filling' = Filling \cup {f}
      BY <2>2 DEF Move, Filling, TypeOK
    <3>3. Cardinality(Filling') = Cardinality(Filling) + 1
          /\ Cardinality(Filling) \in Nat /\ Cardinality(busy) \in Nat
      BY <1>0, <3>2, FS_AddElement, FS_CardinalityType
    <3>4. \A g \in Filling : g \in Flows /\ index'[g] = index[g]
      BY <1>5, <2>2, <3>2 DEF tcp_ack_alloc_index, Filling, TypeOK, Move
    <3>5. \/ /\ free_index # None /\ index' = [index EXCEPT ![f] = free_index]
             /\ free_index' = None /\ max_num' = max_num + 1 /\ UNCHANGED <<drift, shared>>
          \/ /\ free_index = None /\ UNCHANGED free_index
             /\ \E i \in Entries : IsLowest(i, Entries \ busy) /\ index' = [index EXCEPT ![f] = i]
             /\ \E k \in Recounts(f) : max_num' = max_num + 1 + k /\ drift' = drift + k
             /\ shared' = (shared \/ \E g \in Flows : at[g] = "fill" /\ index[g] = index'[f])
      <4>1. ~Move(f, "alloc", "move")
        BY <2>2 DEF Move, TypeOK
      <4> QED
        BY <1>5, <4>1, Zenon DEF tcp_ack_alloc_index
    <3>6. ASSUME ~shared'
          PROVE  /\ ~shared /\ index'[f] \in Entries /\ index'[f] \notin busy
                 /\ \A g \in Filling : index[g] # index'[f]
      <4>1. CASE /\ free_index # None /\ index' = [index EXCEPT ![f] = free_index]
                 /\ UNCHANGED shared
        BY <3>6, <4>1 DEF AllocInv, AllocSound, TypeOK
      <4>2. CASE /\ \E i \in Entries : IsLowest(i, Entries \ busy) /\ index' = [index EXCEPT ![f] = i]
                 /\ shared' = (shared \/ \E g \in Flows : at[g] = "fill" /\ index[g] = index'[f])
        BY <3>6, <4>2 DEF IsLowest, Filling, TypeOK
      <4> QED
        BY <3>5, <4>1, <4>2, Zenon
    <3>7. max_num' - drift' = max_num - drift + 1
      <4>1. \A k \in Recounts(f) : k \in {0, 1}
        BY DEF Recounts
      <4> QED
        BY <3>5, <4>1 DEF TypeOK
    <3>8. max_num' \in Int /\ drift' \in Int /\ max_num \in Int /\ drift \in Int
      BY TypeStep DEF TypeOK
    <3>9. FillersApart'
      BY <3>1, <3>2, <3>4, <3>6 DEF AllocInv, FillersApart
    <3>10. ASSUME ~shared'
           PROVE  max_num' = Cardinality(busy') + Cardinality(Filling') + drift'
      <4>1. max_num = Cardinality(busy) + Cardinality(Filling) + drift
        BY <3>6, <3>10 DEF AllocInv, AllocSound
      <4> QED
        BY <4>1, <3>1, <3>3, <3>7, <3>8
    <3>11. free_index' = None
      BY <3>5
    <3> QED
      BY <3>9, <3>10, <3>11 DEF AllocInv, AllocSound
  <2> QED
    BY <1>5, <2>1, <2>2, Zenon DEF tcp_ack_alloc_index
<1>6. ASSUME NEW f \in Flows, fill_entry(f) PROVE AllocInv'
  <2>1. f \in Filling /\ Filling' = Filling \ {f}
    BY <1>6 DEF fill_entry, Move, Filling, TypeOK
  <2>2. busy' = busy \cup {index[f]} /\ UNCHANGED <<free_index, max_num, drift, shared, index>>
    BY <1>6 DEF fill_entry, countVars
  <2>3. Cardinality(Filling') = Cardinality(Filling) - 1
        /\ Cardinality(Filling) \in Nat /\ Cardinality(busy) \in Nat
    BY <1>0, <2>1, FS_RemoveElement, FS_CardinalityType
  <2>4. ASSUME ~shared
        PROVE  /\ index[f] \notin busy /\ index[f] # free_index
               /\ \A g \in Filling \ {f} : index[g] # index[f]
    BY <2>1, <2>4 DEF AllocInv, FillersApart, AllocSound, Took
  <2>5. FillersApart'
    BY <2>1, <2>2, <2>4 DEF AllocInv, FillersApart
  <2>6. ASSUME ~shared
        PROVE  max_num' = Cardinality(busy') + Cardinality(Filling') + drift'
    <3>1. Cardinality(busy') = Cardinality(busy) + 1
      BY <1>0, <2>2, <2>4, <2>6, FS_AddElement
    <3>2. max_num = Cardinality(busy) + Cardinality(Filling) + drift
      BY <2>6 DEF AllocInv, AllocSound
    <3> QED
      BY <3>1, <3>2, <2>2, <2>3 DEF TypeOK
  <2>7. ASSUME ~shared, free_index # None
        PROVE  free_index \notin busy' /\ \A g \in Filling' : index[g] # free_index
    BY <2>1, <2>2, <2>4, <2>7 DEF AllocInv, AllocSound
  <2> QED
    BY <2>2, <2>5, <2>6, <2>7 DEF AllocInv, AllocSound
<1>7. ASSUME NEW f \in Flows, move_tcpack_msg(f) PROVE AllocInv'
  <2>1. \A g \in Flows \ {f} : index'[g] = index[g]
    BY <1>7 DEF move_tcpack_msg, Leave, TypeOK
  <2>2. Filling' = Filling /\ \A g \in Filling : index'[g] = index[g]
    BY <1>7, <2>1, MoveFrame DEF move_tcpack_msg
  <2> QED
    BY <1>7, <2>2, AllocFrame DEF move_tcpack_msg, entryVars, countVars
<1>8. ASSUME NEW i \in Entries, Timeout(i) PROVE AllocInv'
  <2>1. UNCHANGED <<busy, free_index, max_num, drift, shared, at, index>>
    BY <1>8 DEF Timeout, timer_fires, tcp_ack_timeout, intf_tx, entryVars, countVars, senderVars
  <2>2. Filling' = Filling
    BY <2>1 DEF Filling
  <2> QED
    BY <2>1, <2>2, AllocFrame
<1> QED
  BY <1>1, <1>2, <1>3, <1>4, <1>5, <1>6, <1>7, <1>8 DEF Next, Sender

-----------------------------------------------------------------------------

\* A sender that handles has the entry of its connection.
Owned ==
  \A f \in Flows : at[f] = "handle" => index[f] \in busy /\ owner[index[f]] = f

Emptied == \A i \in Entries \ busy : msgbuf[i] = None /\ in_send_msg[i] = None

\* What is being sent is on its way: by the timer, or by the sender of the
\* connection, and then nothing is held.
OnItsWay ==
  \A i \in Entries :
    /\ in_send_msg[i] = Timer => handler[i] = "move"
    /\ in_send_msg[i] \in Flows =>
         msgbuf[i] = None /\ at[in_send_msg[i]] = "move" /\ owner[i] = in_send_msg[i]

HeldInv == Sound => Owned /\ Emptied /\ OnItsWay

LEMMA HeldStep ==
  TypeInv /\ AllocInv /\ HeldInv /\ HeldHasTimer /\ [Next]_vars => HeldInv' /\ HeldHasTimer'
<1> SUFFICES ASSUME TypeInv, AllocInv, HeldInv, HeldHasTimer, [Next]_vars, Sound'
             PROVE  Owned' /\ Emptied' /\ OnItsWay'
                    /\ \A i \in Entries : msgbuf'[i] # None => i \in pending' \/ handler'[i] = "fired"
  BY DEF HeldInv, HeldHasTimer, Sound
<1> USE DEF TypeInv
<1>0. TypeOK'
  BY TypeStep
<1> DEFINE Armed == \A i \in Entries : msgbuf[i] # None => i \in pending \/ handler[i] = "fired"
<1>1. CASE UNCHANGED vars
  BY <1>1 DEF HeldInv, HeldHasTimer, Sound, Owned, Emptied, OnItsWay,
              vars, entryVars, heldVars, timerVars, countVars, senderVars
<1>2. ASSUME NEW f \in Flows, rwnx_start_xmit(f)
      PROVE  Owned' /\ Emptied' /\ OnItsWay' /\ Armed'
  <2>1. PICK S \in SUBSET {i \in Entries : CanAge(i)} :
          /\ busy' = busy \ S
          /\ strayed' = (strayed \/ \E g \in Flows : at[g] = "handle" /\ index[g] \in S)
    BY <1>2 DEF rwnx_start_xmit, tcp_ack_update
  <2>2. UNCHANGED <<owner, msgbuf, in_send_msg, pending, handler, shared, index>>
        /\ Move(f, "idle", "match")
    BY <1>2 DEF rwnx_start_xmit, heldVars, timerVars
  <2>3. ~strayed /\ \A g \in Flows : at[g] = "handle" => index[g] \notin S
    BY <2>1, Zenon DEF Sound
  <2>4. Owned /\ Emptied /\ OnItsWay /\ Armed
    BY <2>2, <2>3 DEF HeldInv, HeldHasTimer, Sound
  <2>5. \A i \in S : msgbuf[i] = None /\ in_send_msg[i] = None
    BY <2>4 DEF CanAge
  <2>6. Owned'
    BY <2>1, <2>2, <2>3, <2>4 DEF Owned, Move, TypeOK
  <2>7. Emptied'
    BY <2>1, <2>2, <2>4, <2>5 DEF Emptied
  <2>8. OnItsWay'
    BY <2>2, <2>4 DEF OnItsWay, Move, TypeOK
  <2> QED
    BY <2>2, <2>4, <2>6, <2>7, <2>8
<1>3. ASSUME NEW f \in Flows, tcp_ack_match(f)
      PROVE  Owned' /\ Emptied' /\ OnItsWay' /\ Armed'
  <2>1. UNCHANGED <<busy, owner, msgbuf, in_send_msg, pending, handler, shared, strayed>>
    BY <1>3 DEF tcp_ack_match, entryVars, heldVars, timerVars, countVars
  <2>2. Owned /\ Emptied /\ OnItsWay /\ Armed
    BY <2>1 DEF HeldInv, HeldHasTimer, Sound
  <2>3. \A g \in Flows \ {f} : at'[g] = at[g] /\ index'[g] = index[g]
    BY <1>3 DEF tcp_ack_match, Move, TypeOK
  <2>4. at'[f] = "handle" => index'[f] \in busy /\ owner[index'[f]] = f
    BY <1>3 DEF tcp_ack_match, Move, Matching, IsLowest, TypeOK
  <2>5. Owned'
    BY <2>1, <2>2, <2>3, <2>4 DEF Owned
  <2>6. OnItsWay'
    BY <1>3, <2>1, <2>2, <2>3 DEF OnItsWay, tcp_ack_match, Move
  <2> QED
    BY <2>1, <2>2, <2>5, <2>6 DEF Emptied
<1>4. ASSUME NEW f \in Flows, tcp_ack_handle_new(f)
      PROVE  Owned' /\ Emptied' /\ OnItsWay' /\ Armed'
  <2> DEFINE i == index[f]
  <2>1. UNCHANGED <<busy, owner, handler, shared, strayed>> /\ at[f] = "handle"
    BY <1>4 DEF tcp_ack_handle_new, timerVars, countVars
  <2>2. Owned /\ Emptied /\ OnItsWay /\ Armed
    BY <2>1 DEF HeldInv, HeldHasTimer, Sound
  <2>3. i \in Entries /\ i \in busy /\ owner[i] = f
    BY <2>1, <2>2 DEF Owned, Took
  <2>0. \/ send_now(f, i) \/ hold_back(f, i)
        \/ Move(f, "handle", "idle") /\ Leave(f) /\ UNCHANGED heldVars
    BY <1>4 DEF tcp_ack_handle_new
  <2>4. /\ at'[f] # "handle"
        /\ \A g \in Flows \ {f} : at'[g] = at[g] /\ index'[g] = index[g]
    <3>1. CASE send_now(f, i)
      BY <3>1 DEF send_now, Move, TypeOK
    <3>2. CASE hold_back(f, i)
      BY <3>2 DEF hold_back, Leave, Move, TypeOK
    <3>3. CASE Move(f, "handle", "idle") /\ Leave(f)
      BY <3>3 DEF Leave, Move, TypeOK
    <3> QED
      BY <2>0, <3>1, <3>2, <3>3
  <2>5. Owned'
    BY <2>1, <2>2, <2>4 DEF Owned
  <2>6. \A k \in Entries \ {i} : /\ msgbuf'[k] = msgbuf[k] /\ in_send_msg'[k] = in_send_msg[k]
                                 /\ (k \in pending' <=> k \in pending)
    <3>1. CASE send_now(f, i)
      BY <2>3, <3>1 DEF send_now, TypeOK
    <3>2. CASE hold_back(f, i)
      BY <2>3, <3>2 DEF hold_back, TypeOK
    <3>3. CASE UNCHANGED heldVars
      BY <3>3 DEF heldVars
    <3> QED
      BY <2>0, <3>1, <3>2, <3>3
  <2>7. in_send_msg[i] \notin Flows
    BY <2>1, <2>2, <2>3 DEF OnItsWay
  <2>8. Emptied'
    BY <2>1, <2>2, <2>3, <2>6 DEF Emptied
  <2>9. ASSUME NEW k \in Entries \ {i}, in_send_msg[k] \in Flows
        PROVE  at'[in_send_msg[k]] = "move"
    BY <2>1, <2>2, <2>4, <2>9 DEF OnItsWay
  <2>10. CASE send_now(f, i)
    <3>1. msgbuf'[i] = None /\ in_send_msg'[i] = f /\ at'[f] = "move"
      BY <2>3, <2>10 DEF send_now, Move, TypeOK
    <3>2. OnItsWay'
      BY <3>1, <2>1, <2>2, <2>3, <2>6, <2>9 DEF OnItsWay
    <3>3. Armed'
      BY <3>1, <2>1, <2>2, <2>6
    <3> QED
      BY <2>5, <2>8, <3>2, <3>3
  <2>11. CASE ~send_now(f, i)
    <3>1. in_send_msg' = in_send_msg
      BY <1>4, <2>11 DEF tcp_ack_handle_new, hold_back, heldVars
    <3>2. OnItsWay'
      BY <3>1, <2>1, <2>2, <2>6, <2>7, <2>9 DEF OnItsWay
    <3>3. i \in pending' \/ (msgbuf' = msgbuf /\ pending' = pending)
      BY <1>4, <2>11 DEF tcp_ack_handle_new, hold_back, heldVars
    <3>4. Armed'
      BY <3>3, <2>1, <2>2, <2>6
    <3> QED
      BY <2>5, <2>8, <3>2, <3>4
  <2> QED
    BY <2>10, <2>11
<1>5. ASSUME NEW f \in Flows, tcp_ack_alloc_index(f)
      PROVE  Owned' /\ Emptied' /\ OnItsWay' /\ Armed'
  <2>1. UNCHANGED <<busy, owner, msgbuf, in_send_msg, pending, handler, strayed>>
    BY <1>5 DEF tcp_ack_alloc_index, entryVars, heldVars, timerVars
  <2>2. ~shared
    BY <1>5, Zenon DEF tcp_ack_alloc_index, countVars, Sound
  <2>3. Owned /\ Emptied /\ OnItsWay /\ Armed
    BY <2>1, <2>2 DEF HeldInv, HeldHasTimer, Sound
  <2>4. /\ at[f] = "alloc" /\ at'[f] # "handle"
        /\ \A g \in Flows \ {f} : at'[g] = at[g] /\ index'[g] = index[g]
    BY <1>5 DEF tcp_ack_alloc_index, Move, TypeOK
  <2>5. Owned'
    BY <2>1, <2>3, <2>4 DEF Owned
  <2>6. OnItsWay'
    BY <2>1, <2>3, <2>4 DEF OnItsWay
  <2> QED
    BY <2>1, <2>3, <2>5, <2>6 DEF Emptied
<1>6. ASSUME NEW f \in Flows, fill_entry(f)
      PROVE  Owned' /\ Emptied' /\ OnItsWay' /\ Armed'
  <2> DEFINE i == index[f]
  <2>1. UNCHANGED <<msgbuf, in_send_msg, pending, handler, shared, strayed, index>>
        /\ busy' = busy \cup {i} /\ owner' = [owner EXCEPT ![i] = f] /\ Move(f, "fill", "move")
    BY <1>6 DEF fill_entry, heldVars, timerVars, countVars
  <2>2. Owned /\ Emptied /\ OnItsWay /\ Armed
    BY <2>1 DEF HeldInv, HeldHasTimer, Sound
  <2>3. i \in Entries /\ i \notin busy
    BY <2>1 DEF Sound, AllocInv, FillersApart, Filling, Move
  <2>4. in_send_msg[i] = None
    BY <2>2, <2>3 DEF Emptied
  <2>5. Owned'
    BY <2>1, <2>2, <2>3 DEF Owned, Move, TypeOK
  <2>6. OnItsWay'
    BY <2>1, <2>2, <2>3, <2>4 DEF OnItsWay, Move, TypeOK
  <2> QED
    BY <2>1, <2>2, <2>5, <2>6 DEF Emptied
<1>7. ASSUME NEW f \in Flows, move_tcpack_msg(f)
      PROVE  Owned' /\ Emptied' /\ OnItsWay' /\ Armed'
  <2>1. UNCHANGED <<busy, owner, msgbuf, pending, handler, shared, strayed>>
    BY <1>7 DEF move_tcpack_msg, entryVars, timerVars, countVars
  <2>2. Owned /\ Emptied /\ OnItsWay /\ Armed
    BY <2>1 DEF HeldInv, HeldHasTimer, Sound
  <2>3. /\ at'[f] = "idle"
        /\ \A g \in Flows \ {f} : at'[g] = at[g] /\ index'[g] = index[g]
    BY <1>7 DEF move_tcpack_msg, Leave, Move, TypeOK
  <2>4. \A i \in Entries : in_send_msg'[i] =
          IF in_send_msg[i] = f /\ i \in busy THEN None ELSE in_send_msg[i]
    BY <1>7 DEF move_tcpack_msg, Released
  <2>5. \A i \in Entries : in_send_msg'[i] # f /\ in_send_msg'[i] \in {in_send_msg[i], None}
    BY <2>2, <2>4 DEF Emptied
  <2>6. Owned'
    BY <2>1, <2>2, <2>3 DEF Owned
  <2>7. OnItsWay'
    BY <2>1, <2>2, <2>3, <2>5 DEF OnItsWay
  <2>8. Emptied'
    BY <2>1, <2>2, <2>5 DEF Emptied
  <2> QED
    BY <2>1, <2>2, <2>6, <2>7, <2>8
<1>8. ASSUME NEW i \in Entries, Timeout(i)
      PROVE  Owned' /\ Emptied' /\ OnItsWay' /\ Armed'
  <2>1. UNCHANGED <<busy, owner, at, index, shared, strayed>>
    BY <1>8 DEF Timeout, timer_fires, tcp_ack_timeout, intf_tx, entryVars, countVars, senderVars
  <2>2. Owned /\ Emptied /\ OnItsWay /\ Armed
    BY <2>1 DEF HeldInv, HeldHasTimer, Sound
  <2>3. Owned'
    BY <2>1, <2>2 DEF Owned
  <2>4. CASE timer_fires(i)
    BY <2>1, <2>2, <2>3, <2>4 DEF timer_fires, Step, Emptied, OnItsWay, TypeOK
  <2>5. CASE tcp_ack_timeout(i)
    <3>1. /\ pending' = pending /\ handler[i] = "fired"
          /\ \A k \in Entries \ {i} : /\ msgbuf'[k] = msgbuf[k] /\ in_send_msg'[k] = in_send_msg[k]
                                      /\ handler'[k] = handler[k]
      BY <2>5 DEF tcp_ack_timeout, Step, TypeOK
    <3>2. CASE /\ i \in busy /\ in_send_msg'[i] = Timer /\ handler'[i] = "move" /\ msgbuf'[i] = None
      BY <2>1, <2>2, <2>3, <3>1, <3>2 DEF Emptied, OnItsWay, TypeOK
    <3>3. CASE /\ (i \notin busy \/ msgbuf[i] = None \/ in_send_msg[i] # None)
               /\ UNCHANGED <<msgbuf, in_send_msg>>
      <4>1. in_send_msg[i] # Timer
        BY <2>2, <3>1 DEF OnItsWay
      <4>2. msgbuf[i] = None
        BY <2>2, <3>3, <4>1 DEF OnItsWay, Emptied, TypeOK
      <4> QED
        BY <2>1, <2>2, <2>3, <3>1, <3>3, <4>1, <4>2 DEF Emptied, OnItsWay
    <3> QED
      BY <2>5, <3>2, <3>3 DEF tcp_ack_timeout, Step, TypeOK
  <2>6. CASE intf_tx(i)
    <3>1. /\ msgbuf' = msgbuf /\ pending' = pending
          /\ \A k \in Entries \ {i} : in_send_msg'[k] = in_send_msg[k] /\ handler'[k] = handler[k]
          /\ in_send_msg'[i] = IF in_send_msg[i] = Timer /\ i \in busy THEN None ELSE in_send_msg[i]
          /\ handler[i] = "move"
      BY <2>6 DEF intf_tx, Released, Step, TypeOK
    <3>2. in_send_msg'[i] # Timer /\ in_send_msg'[i] \in {in_send_msg[i], None}
      BY <2>2, <3>1 DEF Emptied
    <3> QED
      BY <2>1, <2>2, <2>3, <3>1, <3>2 DEF Emptied, OnItsWay
  <2> QED
    BY <1>8, <2>4, <2>5, <2>6 DEF Timeout
<1> QED
  BY <1>1, <1>2, <1>3, <1>4, <1>5, <1>6, <1>7, <1>8 DEF Next, Sender

-----------------------------------------------------------------------------
\* The variables keep their types.
THEOREM TypeCorrect == Spec => []TypeOK
<1>1. TypeInv => TypeOK
  BY DEF TypeInv
<1> QED
  BY TypeInit, TypeStep, <1>1, PTL DEF Spec

LEMMA AllocInit == Init => AllocInv
<1> SUFFICES ASSUME Init PROVE AllocInv
  OBVIOUS
<1>1. Filling = {} /\ busy = {} /\ max_num = 0 /\ drift = 0
  BY DEF Init, Filling
<1>2. Cardinality(busy) = 0 /\ Cardinality(Filling) = 0
  BY <1>1, FS_EmptySet
<1> QED
  BY <1>1, <1>2 DEF AllocInv, FillersApart, AllocSound

\* For any number of connections and entries: until an index is given out
\* twice, max_num counts the entries in use or about to be, and the free
\* index names one that nobody has (tcp_ack_alloc_index, tcp_ack_update and
\* the filling of the entry).
THEOREM AllocSoundAlways == Spec => []AllocSound
<1>1. AllocInv => AllocSound
  BY DEF AllocInv
<1> QED
  BY TypeInit, TypeStep, AllocInit, AllocStep, <1>1, PTL DEF Spec

\* For any number of connections and entries: what is held back has a timer
\* that will send it, as long as no entry was shared and none aged in its
\* sender's hands (tcp_ack_handle_new against tcp_ack_timeout).
THEOREM HeldHasTimerAlways == Spec => []HeldHasTimer
<1>1. Init => HeldInv /\ HeldHasTimer
  BY DEF Init, HeldInv, Owned, Emptied, OnItsWay, HeldHasTimer
<1> QED
  BY TypeInit, TypeStep, AllocInit, AllocStep, HeldStep, <1>1, PTL DEF Spec
==============================================================================
