--------------------------------- MODULE TcpAck ---------------------------------
(***************************************************************************)
(* The filter of TCP acknowledgements: aicwf_tcp_ack.c and its use in      *)
(* rwnx_start_xmit and intf_tx of rwnx_tx.c.                               *)
(*                                                                         *)
(* A connection has an entry of ack_info.  An acknowledgement is sent at   *)
(* once or held in its entry, where a newer one replaces it; a timer sends *)
(* what is held.  Entries are given out and taken back under ack_m.lock,   *)
(* each is read and written under a seqlock of its own, and neither covers *)
(* what a sender does in between.                                          *)
(*                                                                         *)
(* The stack hands down the acknowledgements of one connection one at a    *)
(* time (they share a transmit queue), those of different connections      *)
(* concurrently.  An entry ages after four seconds, a timer takes five     *)
(* milliseconds: what is pending or on its way out does not age.           *)
(***************************************************************************)
EXTENDS Integers, FiniteSets

CONSTANTS
  Flows,        \* the TCP connections, each with a sender
  NumEntries,   \* TCP_ACK_NUM
  MaxDrop,      \* TCP_ACK_DROP_CNT, the value of max_drop_cnt
  SeqMod,       \* the acknowledgement numbers wrap at this one
  MaxN,         \* bound on the numbers of a connection
  MaxDrift,     \* bound on the entries counted twice
  Timer,        \* the sender of what the timer took
  None          \* no entry, no message, no sender

Entries == 1 .. NumEntries
Messages == [flow : Flows, n : 0 .. MaxN]

ASSUME SizesAssumption ==
  /\ NumEntries \in Nat \ {0} /\ MaxDrop \in Nat \ {0}
  /\ SeqMod \in Nat \ {0, 1} /\ MaxN \in Nat /\ MaxDrift \in Nat

ASSUME FlowsAssumption == IsFiniteSet(Flows)

ASSUME NamesAssumption ==
  /\ Timer \notin Flows /\ None \notin Flows /\ Timer # None
  /\ None \notin Entries /\ None \notin Messages

VARIABLES
  busy,         \* the entries in use
  owner,        \* ack_msg, as the connection it names
  seq,          \* ack_msg.seq
  drop_cnt,     \* drop_cnt
  msgbuf,       \* the acknowledgement held back
  in_send_msg,  \* who has the one that is being sent
  pending,      \* the entries whose timer is pending
  handler,      \* where the handler of each timer is
  taken,        \* what it took
  free_index,   \* ack_m.free_index
  max_num,      \* ack_m.max_num
  at,           \* where each sender is
  index,        \* the entry it has found
  num,          \* the acknowledgement it has
  top,          \* the newest one handed down
  acked,        \* the newest one queued for transmission
  drift,        \* history: what a repeated read added to max_num
  shared,       \* history: an index was given out twice
  strayed       \* history: an entry aged between its sender's two looks at it

entryVars  == <<busy, owner, seq, drop_cnt>>
heldVars   == <<msgbuf, in_send_msg, pending>>
timerVars  == <<handler, taken>>
countVars  == <<free_index, max_num, drift, shared>>
senderVars == <<at, index, num, top>>
vars == <<entryVars, heldVars, timerVars, countVars, senderVars, acked, strayed>>

\* The numbers of a connection start just before they wrap.
SN(n) == (n - 2) % SeqMod

\* The sender returns.
Leave(f) == index' = [index EXCEPT ![f] = None] /\ num' = [num EXCEPT ![f] = 0]

Newest(m, n) == IF m < n THEN n ELSE m

IsLowest(i, S) == i \in S /\ \A j \in S : i <= j

\* Slip: the numbers are compared as they are.
Before_unwrapped(a, b) == a <= b

\* U32_BEFORE: not after, by the sign of the difference.
Before(a, b) == (b - a) % SeqMod <= SeqMod \div 2

Message(f) == [flow |-> f, n |-> num[f]]

Init ==
  /\ busy = {} /\ owner = [i \in Entries |-> None]
  /\ seq = [i \in Entries |-> 0] /\ drop_cnt = [i \in Entries |-> 0]
  /\ msgbuf = [i \in Entries |-> None] /\ in_send_msg = [i \in Entries |-> None]
  /\ pending = {} /\ handler = [i \in Entries |-> "idle"]
  /\ taken = [i \in Entries |-> None]
  /\ free_index = 1 /\ max_num = 0
  /\ at = [f \in Flows |-> "idle"] /\ index = [f \in Flows |-> None]
  /\ num = [f \in Flows |-> 0] /\ top = [f \in Flows |-> 0] /\ acked = [f \in Flows |-> 0]
  /\ drift = 0 /\ shared = FALSE /\ strayed = FALSE

Move(f, p, q) == at[f] = p /\ at' = [at EXCEPT ![f] = q]

-----------------------------------------------------------------------------
(* A sender: rwnx_start_xmit and filter_send_tcp_ack. *)

\* Nothing of an old entry is about to be sent.
CanAge(i) ==
  i \in busy /\ i \notin pending /\ handler[i] = "idle" /\ in_send_msg[i] = None

\* Slip: a sweep counts one, however many it takes back.
tcp_ack_update_once ==
  \E S \in SUBSET {i \in Entries : CanAge(i)} :
    /\ busy' = busy \ S /\ max_num' = IF S = {} THEN max_num ELSE max_num - 1
    /\ \/ S = {} /\ UNCHANGED free_index
       \/ \E i \in S : IsLowest(i, S) /\ free_index' = i
    /\ strayed' = (strayed \/ \E f \in Flows : at[f] = "handle" /\ index[f] \in S)

\* The entries not used for long are taken back; the lowest is the next to
\* be given out.
tcp_ack_update ==
  \E S \in SUBSET {i \in Entries : CanAge(i)} :
    /\ busy' = busy \ S /\ max_num' = max_num - Cardinality(S)
    /\ \/ S = {} /\ UNCHANGED free_index
       \/ \E i \in S : IsLowest(i, S) /\ free_index' = i
    /\ strayed' = (strayed \/ \E f \in Flows : at[f] = "handle" /\ index[f] \in S)

\* The next acknowledgement, the last one again, or one that was overtaken
\* on its way to this host.  First of all the old entries are taken back.
rwnx_start_xmit(f) ==
  /\ Move(f, "idle", "match")
  /\ \E n \in {top[f] - 1, top[f], top[f] + 1} \cap (1 .. MaxN) :
       num' = [num EXCEPT ![f] = n] /\ top' = [top EXCEPT ![f] = Newest(@, n)]
  /\ tcp_ack_update
  /\ UNCHANGED <<owner, seq, drop_cnt, heldVars, timerVars, drift, shared, index, acked>>

Matching(f) == {i \in busy : owner[i] = f}

tcp_ack_match(f) ==
  /\ \/ /\ Matching(f) = {} /\ Move(f, "match", "alloc") /\ UNCHANGED index
     \/ /\ Move(f, "match", "handle")
        /\ \E i \in Entries : IsLowest(i, Matching(f)) /\ index' = [index EXCEPT ![f] = i]
  /\ UNCHANGED <<entryVars, heldVars, timerVars, countVars, num, top, acked, strayed>>

\* Is the new one sent at once?  Yes after a push by the peer, else when
\* enough were dropped and none is on its way.
SendsNow(i, quick) ==
  quick \/ (in_send_msg[i] = None /\ drop_cnt[i] + 1 >= MaxDrop)

\* It is not older than the last one and replaces what is held.  Counting
\* goes no further than it matters.
send_now(f, i) ==
  /\ Move(f, "handle", "move")
  /\ \E quick \in BOOLEAN : SendsNow(i, quick)
  /\ drop_cnt' = [drop_cnt EXCEPT ![i] = 0]
  /\ msgbuf' = [msgbuf EXCEPT ![i] = None]
  /\ in_send_msg' = [in_send_msg EXCEPT ![i] = f]
  /\ pending' = pending \ {i}
  /\ UNCHANGED <<index, num>>

\* Slip: the timer is left alone while another one is on its way.
hold_back_unarmed(f, i) ==
  /\ Move(f, "handle", "idle")
  /\ ~SendsNow(i, FALSE)
  /\ drop_cnt' = [drop_cnt EXCEPT ![i] = IF @ < MaxDrop THEN @ + 1 ELSE @]
  /\ msgbuf' = [msgbuf EXCEPT ![i] = Message(f)]
  /\ pending' = IF in_send_msg[i] = None THEN pending \cup {i} ELSE pending
  /\ Leave(f)
  /\ UNCHANGED in_send_msg

hold_back(f, i) ==
  /\ Move(f, "handle", "idle")
  /\ ~SendsNow(i, FALSE)
  /\ drop_cnt' = [drop_cnt EXCEPT ![i] = IF @ < MaxDrop THEN @ + 1 ELSE @]
  /\ msgbuf' = [msgbuf EXCEPT ![i] = Message(f)]
  /\ pending' = pending \cup {i}
  /\ Leave(f)
  /\ UNCHANGED in_send_msg

tcp_ack_handle_new(f) ==
  /\ at[f] = "handle"
  /\ \E i \in {index[f]} :
       \/ /\ Before(seq[i], SN(num[f]))
          /\ (send_now(f, i) \/ hold_back(f, i))
          /\ seq' = [seq EXCEPT ![i] = SN(num[f])]
       \/ /\ ~Before(seq[i], SN(num[f]))
          /\ Move(f, "handle", "idle") /\ Leave(f)
          /\ UNCHANGED <<seq, drop_cnt, heldVars>>
  /\ UNCHANGED <<busy, owner, timerVars, countVars, top, acked, strayed>>

\* A read that meets a writer of the entry is repeated, and counts again.
Recounts(f) ==
  IF drift < MaxDrift /\ ((\E g \in Flows \ {f} : at[g] = "move") \/ \E i \in Entries : handler[i] = "move")
  THEN {0, 1} ELSE {0}

\* The entry is busy only when it is filled, after the lock is released.
tcp_ack_alloc_index(f) ==
  /\ \/ /\ (max_num = NumEntries \/ (free_index = None /\ busy = Entries))
        /\ Move(f, "alloc", "move") /\ UNCHANGED <<countVars, index>>
     \/ /\ max_num # NumEntries /\ free_index # None
        /\ Move(f, "alloc", "fill") /\ index' = [index EXCEPT ![f] = free_index]
        /\ free_index' = None /\ max_num' = max_num + 1 /\ UNCHANGED <<drift, shared>>
     \/ /\ max_num # NumEntries /\ free_index = None
        /\ Move(f, "alloc", "fill")
        /\ \E i \in Entries : IsLowest(i, Entries \ busy) /\ index' = [index EXCEPT ![f] = i]
        /\ \E k \in Recounts(f) : max_num' = max_num + 1 + k /\ drift' = drift + k
        /\ shared' = (shared \/ \E g \in Flows : at[g] = "fill" /\ index[g] = index'[f])
        /\ UNCHANGED free_index
  /\ UNCHANGED <<entryVars, heldVars, timerVars, num, top, acked, strayed>>

fill_entry(f) ==
  /\ Move(f, "fill", "move")
  /\ \E i \in {index[f]} :
       /\ busy' = busy \cup {i} /\ owner' = [owner EXCEPT ![i] = f]
       /\ seq' = [seq EXCEPT ![i] = SN(num[f])]
       /\ drop_cnt' = [drop_cnt EXCEPT ![i] = MaxDrop]
  /\ UNCHANGED <<heldVars, timerVars, countVars, index, num, top, acked, strayed>>

\* The message is freed afterwards.  One left in an entry that is not in use
\* is taken for the next one of the same sender.
Released(mine) ==
  in_send_msg' = [i \in Entries |-> IF i \in mine \cap busy THEN None ELSE in_send_msg[i]]

\* What follows up to the queueing of the frame touches nothing of the filter.
move_tcpack_msg(f) ==
  /\ Move(f, "move", "idle") /\ Leave(f)
  /\ Released({i \in Entries : in_send_msg[i] = f})
  /\ acked' = [acked EXCEPT ![f] = Newest(@, num[f])]
  /\ UNCHANGED <<entryVars, msgbuf, pending, timerVars, countVars, top, strayed>>

Sender(f) ==
  \/ tcp_ack_match(f) \/ tcp_ack_handle_new(f)
  \/ tcp_ack_alloc_index(f) \/ fill_entry(f) \/ move_tcpack_msg(f)

-----------------------------------------------------------------------------
(* The timer of an entry: tcp_ack_timeout and intf_tx. *)

Step(i, p, q) == handler[i] = p /\ handler' = [handler EXCEPT ![i] = q]

timer_fires(i) ==
  /\ i \in pending /\ pending' = pending \ {i}
  /\ Step(i, "idle", "fired")
  /\ UNCHANGED <<entryVars, msgbuf, in_send_msg, taken, countVars, senderVars, acked, strayed>>

tcp_ack_timeout(i) ==
  /\ \/ /\ i \in busy /\ msgbuf[i] # None /\ in_send_msg[i] = None
        /\ Step(i, "fired", "move")
        /\ taken' = [taken EXCEPT ![i] = msgbuf[i]]
        /\ msgbuf' = [msgbuf EXCEPT ![i] = None]
        /\ drop_cnt' = [drop_cnt EXCEPT ![i] = 0]
        /\ in_send_msg' = [in_send_msg EXCEPT ![i] = Timer]
     \/ /\ (i \notin busy \/ msgbuf[i] = None \/ in_send_msg[i] # None)
        /\ Step(i, "fired", "idle")
        /\ UNCHANGED <<taken, msgbuf, drop_cnt, in_send_msg>>
  /\ UNCHANGED <<busy, owner, seq, pending, countVars, senderVars, acked, strayed>>

intf_tx(i) ==
  /\ Step(i, "move", "idle")
  /\ Released({j \in {i} : in_send_msg[j] = Timer})
  /\ acked' = [acked EXCEPT ![taken[i].flow] = Newest(@, taken[i].n)]
  /\ taken' = [taken EXCEPT ![i] = None]
  /\ UNCHANGED <<entryVars, msgbuf, pending, countVars, senderVars, strayed>>

Timeout(i) == timer_fires(i) \/ tcp_ack_timeout(i) \/ intf_tx(i)

Next ==
  \/ \E f \in Flows : rwnx_start_xmit(f) \/ Sender(f)
  \/ \E i \in Entries : Timeout(i)

Spec == Init /\ [][Next]_vars

FairSpec ==
  /\ Spec
  /\ \A f \in Flows : WF_vars(Sender(f))
  /\ \A i \in Entries : WF_vars(Timeout(i))

-----------------------------------------------------------------------------
(* Properties. *)

TypeOK ==
  /\ busy \subseteq Entries /\ pending \subseteq Entries
  /\ owner \in [Entries -> Flows \cup {None}]
  /\ seq \in [Entries -> 0 .. SeqMod - 1] /\ drop_cnt \in [Entries -> 0 .. MaxDrop]
  /\ msgbuf \in [Entries -> Messages \cup {None}]
  /\ in_send_msg \in [Entries -> Flows \cup {Timer, None}]
  /\ handler \in [Entries -> {"idle", "fired", "move"}]
  /\ taken \in [Entries -> Messages \cup {None}]
  /\ free_index \in Entries \cup {None} /\ max_num \in Int
  /\ at \in [Flows -> {"idle", "match", "handle", "alloc", "fill", "move"}]
  /\ index \in [Flows -> Entries \cup {None}]
  /\ num \in [Flows -> 0 .. MaxN] /\ top \in [Flows -> 0 .. MaxN] /\ acked \in [Flows -> 0 .. MaxN]
  /\ drift \in 0 .. MaxDrift /\ shared \in BOOLEAN /\ strayed \in BOOLEAN

\* An acknowledgement that is held back has a timer that will send it, as long
\* as no two connections met in an entry and none aged in a sender's hands.
HeldHasTimer ==
  ~shared /\ ~strayed =>
    \A i \in Entries : msgbuf[i] # None => i \in pending \/ handler[i] = "fired"

Filling == {f \in Flows : at[f] = "fill"}

\* Until an index is given out twice, the free index names an entry nobody
\* has, and max_num counts the entries in use or about to be, off by exactly
\* what the repeated reads of the allocation added.
AllocSound ==
  ~shared =>
    /\ max_num = Cardinality(busy) + Cardinality(Filling) + drift
    /\ free_index # None =>
         free_index \notin busy /\ \A f \in Filling : index[f] # free_index

\* What the runs follow: beyond a shared or strayed entry the properties say
\* nothing.
Sound == ~shared /\ ~strayed

\* Whatever is held back and replaced, the newest acknowledgement each
\* connection handed down is transmitted in the end.
AcksArrive == []<>(acked = top \/ ~Sound)
==============================================================================
