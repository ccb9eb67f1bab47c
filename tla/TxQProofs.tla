-------------------------------- MODULE TxQProofs -------------------------------
(***************************************************************************)
(* Proofs about the transmit queues of a station, for any number of queues *)
(* and senders, any credits and any marks of the flow control.             *)
(*                                                                         *)
(* The argument is in three layers, each an invariant that the next uses.  *)
(* IInv speaks of the flag that a queue is listed: a service period is     *)
(* open only on queues stopped for the station's sleep (LimitIsStopped),   *)
(* and never grants more than the credits (Limits), so a pass that leaves  *)
(* frames of a queue that is not stopped leaves the queue listed, and one  *)
(* that leaves frames of a stopped queue takes it off.  LInv speaks of the *)
(* lists and their order: each holds the flagged queues of its hardware    *)
(* queue once, and a queue on it is at or after the cursor of a pass, or   *)
(* the tasklet is to visit it (or it is adrift).  SInv adds up the service *)
(* period: a pass takes from a queue exactly what was granted to it.       *)
(***************************************************************************)
EXTENDS TxQ, SeqLemmas

Limits == \A q \in Txqs : limit[q] <= Credits

LimitIsStopped == \A q \in active : limit[q] > 0 => "STA_PS" \in stops[q]

\* A station sleeps only while valid, and its queues are stopped for it.
SleepStops == ps => station = "up" /\ \A q \in active : "STA_PS" \in stops[q]

\* The queues of a valid station are stopped for no more than the interface is.
VifStops == station = "up" => \A q \in active : stops[q] \subseteq vifstop \cup {"STA_PS"}

\* rwnx_txq_deinit flushes a queue that is out of use.
FlushedIsGone == flushing \notin active

IInv ==
  /\ TypeOK
  /\ ReadyIsListed /\ StoppedStaysOff /\ SubqueueHasWaker
  /\ Limits /\ LimitIsStopped /\ SleepStops /\ VifStops /\ FlushedIsGone

-----------------------------------------------------------------------------
(* What the recursive functions compute. *)

\* k[i] is what is kept of the first i elements of l.
Keeps(k, l, S, A) ==
  /\ k \in [0 .. Len(l) -> Seq(A)]
  /\ k[0] = <<>>
  /\ \A i \in 1 .. Len(l) : k[i] = IF l[i] \in S THEN Append(k[i - 1], l[i]) ELSE k[i - 1]

\* The elements of s are those at the places e[1] < e[2] < ... <= m of l, the
\* places of the elements of S.
Places(e, s, l, m, S) ==
  /\ e \in [1 .. Len(s) -> 1 .. m]
  /\ \A a, b \in 1 .. Len(s) : a < b => e[a] < e[b]
  /\ \A a \in 1 .. Len(s) : s[a] = l[e[a]] /\ l[e[a]] \in S
  /\ \A i \in 1 .. m : l[i] \in S => \E a \in 1 .. Len(s) : e[a] = i

\* The function that defines Kept exists.
LEMMA KeptRecursion ==
  ASSUME NEW A, NEW l \in Seq(A), NEW S
  PROVE  \E k : Keeps(k, l, S, A) /\ Kept(l, S) = k[Len(l)]
<1> DEFINE n == Len(l)
           Next1(s, i) == IF l[i] \in S THEN Append(s, l[i]) ELSE s
           IsKept(g, m) == /\ g \in [0 .. m -> Seq(A)] /\ g[0] = <<>>
                           /\ \A i \in 1 .. m : g[i] = Next1(g[i - 1], i)
           Defined == {m \in Nat : m <= n => \E g : IsKept(g, m)}
<1>1. n \in Nat /\ \A i \in 1 .. n : l[i] \in A
  BY LenProperties, ElementOfSeq
<1> HIDE DEF IsKept
<1>2. 0 \in Defined
  <2>1. IsKept([i \in 0 .. 0 |-> <<>>], 0)
    BY EmptySeq DEF IsKept
  <2> QED
    BY <2>1
<1>3. ASSUME NEW m \in Nat, m \in Defined PROVE m + 1 \in Defined
  <2> SUFFICES ASSUME m + 1 <= n PROVE \E g : IsKept(g, m + 1)
    OBVIOUS
  <2>1. PICK g : IsKept(g, m)
    BY <1>1, <1>3
  <2> DEFINE h == [i \in 0 .. m + 1 |-> IF i = m + 1 THEN Next1(g[m], m + 1) ELSE g[i]]
  <2>2. g[m] \in Seq(A) /\ l[m + 1] \in A
    <3>1. m + 1 \in 1 .. n
      BY <1>1
    <3>2. g \in [0 .. m -> Seq(A)] /\ m \in 0 .. m
      BY <2>1 DEF IsKept
    <3> QED
      BY <1>1, <3>1, <3>2
  <2>3. Next1(g[m], m + 1) \in Seq(A)
    BY <2>2, AppendProperties
  <2> HIDE DEF Next1
  <2>4. h \in [0 .. m + 1 -> Seq(A)] /\ h[0] = <<>>
    BY <2>1, <2>3 DEF IsKept
  <2>5. ASSUME NEW i \in 1 .. m + 1 PROVE h[i] = Next1(h[i - 1], i)
    <3>1. i - 1 \in 0 .. m /\ h[i - 1] = g[i - 1]
      OBVIOUS
    <3>2. CASE i = m + 1
      BY <3>1, <3>2
    <3>3. CASE i # m + 1
      BY <3>1, <3>3, <2>1 DEF IsKept
    <3> QED
      BY <3>2, <3>3
  <2>6. IsKept(h, m + 1)
    BY <2>4, <2>5 DEF IsKept, Next1
  <2> QED
    BY <2>6
<1>4. n \in Defined
  <2> HIDE DEF Defined
  <2> QED BY <1>1, <1>2, <1>3, SetInduction
<1>5. PICK g : IsKept(g, n)
  BY <1>4, <1>1
<1> DEFINE f(k) == [i \in 0 .. n |-> IF i = 0 THEN <<>>
                                     ELSE IF l[i] \in S THEN Append(k[i - 1], l[i]) ELSE k[i - 1]]
           c == CHOOSE k : k = f(k)
<1>6. g = f(g)
  <2>1. g \in [0 .. n -> Seq(A)] /\ g[0] = <<>> /\ \A i \in 1 .. n : g[i] = Next1(g[i - 1], i)
    BY <1>5 DEF IsKept
  <2>2. \A i \in 0 .. n : g[i] = f(g)[i]
    <3> SUFFICES ASSUME NEW i \in 0 .. n PROVE g[i] = f(g)[i]
      OBVIOUS
    <3>1. CASE i = 0
      BY <2>1, <3>1
    <3>2. CASE i # 0
      <4>1. i \in 1 .. n
        BY <3>2, <1>1
      <4> QED
        BY <2>1, <3>2, <4>1
    <3> QED
      BY <3>1, <3>2
  <2> HIDE DEF Next1
  <2> QED
    BY <2>1, <2>2
<1>7. c = f(c)
  BY <1>6
<1>8. Kept(l, S) = c[n]
  BY DEF Kept
<1>9. \A i \in 0 .. n : c[i] = IF i = 0 THEN <<>>
                              ELSE IF l[i] \in S THEN Append(c[i - 1], l[i]) ELSE c[i - 1]
  BY <1>7
<1>10. c[n] = g[n]
  <2> DEFINE Same == {m \in Nat : m <= n => c[m] = g[m]}
  <2> HIDE DEF c
  <2>1. 0 \in Same
    BY <1>1, <1>5, <1>9 DEF IsKept
  <2>2. ASSUME NEW m \in Nat, m \in Same PROVE m + 1 \in Same
    <3> SUFFICES ASSUME m + 1 <= n PROVE c[m + 1] = g[m + 1]
      OBVIOUS
    <3>1. m + 1 \in 1 .. n /\ m + 1 \in 0 .. n /\ m + 1 # 0 /\ (m + 1) - 1 = m /\ c[m] = g[m]
      BY <1>1, <2>2
    <3>2. g[m + 1] = Next1(g[m], m + 1)
      BY <1>5, <3>1 DEF IsKept
    <3>3. c[m + 1] = IF l[m + 1] \in S THEN Append(c[m], l[m + 1]) ELSE c[m]
      BY <1>9, <3>1
    <3> QED
      BY <3>1, <3>2, <3>3
  <2> HIDE DEF Same
  <2>3. n \in Same
    BY <1>1, <2>1, <2>2, SetInduction
  <2> QED
    BY <2>3 DEF Same
<1>11. Kept(l, S) = g[n]
  BY <1>8, <1>10
<1>12. Keeps(g, l, S, A)
  BY <1>5 DEF IsKept, Keeps
<1> QED
  BY <1>11, <1>12

\* The kept elements are those of l that are in S, in their order.
LEMMA KeptPlaces ==
  ASSUME NEW A, NEW l \in Seq(A), NEW S
  PROVE  /\ Kept(l, S) \in Seq(A)
         /\ \E e : Places(e, Kept(l, S), l, Len(l), S)
<1>1. Len(l) \in Nat /\ \A i \in 1 .. Len(l) : l[i] \in A
  BY LenProperties, ElementOfSeq
<1>2. PICK k : Keeps(k, l, S, A) /\ Kept(l, S) = k[Len(l)]
  BY KeptRecursion
<1> DEFINE Placed == {m \in Nat : m <= Len(l) => \E e : Places(e, k[m], l, m, S)}
<1>3. 0 \in Placed
  <2>1. Len(k[0]) = 0
    BY <1>1, <1>2, EmptySeq DEF Keeps
  <2>2. Places([a \in 1 .. 0 |-> a], k[0], l, 0, S)
    BY <2>1 DEF Places
  <2> QED
    BY <2>2
<1>4. ASSUME NEW m \in Nat, m \in Placed PROVE m + 1 \in Placed
  <2> SUFFICES ASSUME m + 1 <= Len(l) PROVE \E e : Places(e, k[m + 1], l, m + 1, S)
    OBVIOUS
  <2>1. m + 1 \in 1 .. Len(l) /\ (m + 1) - 1 = m /\ m \in 0 .. Len(l)
    BY <1>1
  <2>2. PICK e : Places(e, k[m], l, m, S)
    BY <1>4, <2>1
  <2>3. /\ k[m] \in Seq(A) /\ Len(k[m]) \in Nat /\ l[m + 1] \in A
        /\ k[m + 1] = IF l[m + 1] \in S THEN Append(k[m], l[m + 1]) ELSE k[m]
    BY <1>1, <1>2, <2>1, LenProperties DEF Keeps
  <2>4. CASE l[m + 1] \notin S
    <3>1. k[m + 1] = k[m]
      BY <2>3, <2>4
    <3>2. e \in [1 .. Len(k[m]) -> 1 .. m + 1]
      BY <2>2 DEF Places
    <3>3. \A i \in 1 .. m + 1 : l[i] \in S => \E a \in 1 .. Len(k[m]) : e[a] = i
      BY <2>2, <2>4 DEF Places
    <3>4. Places(e, k[m + 1], l, m + 1, S)
      BY <2>2, <3>1, <3>2, <3>3 DEF Places
    <3> QED
      BY <3>4
  <2>5. CASE l[m + 1] \in S
    <3> DEFINE w == Len(k[m])
               d == [a \in 1 .. w + 1 |-> IF a = w + 1 THEN m + 1 ELSE e[a]]
    <3>1. /\ Len(k[m + 1]) = w + 1 /\ k[m + 1][w + 1] = l[m + 1]
          /\ \A a \in 1 .. w : k[m + 1][a] = k[m][a]
      BY <2>3, <2>5, AppendProperties
    <3>2. w \in Nat
      BY <2>3
    <3>3. /\ e \in [1 .. w -> 1 .. m]
          /\ \A a, b \in 1 .. w : a < b => e[a] < e[b]
          /\ \A a \in 1 .. w : k[m][a] = l[e[a]] /\ l[e[a]] \in S
          /\ \A i \in 1 .. m : l[i] \in S => \E a \in 1 .. w : e[a] = i
      BY <2>2 DEF Places
    <3> HIDE DEF w
    <3>4. d \in [1 .. w + 1 -> 1 .. m + 1]
      BY <3>2, <3>3
    <3>5. \A a, b \in 1 .. w + 1 : a < b => d[a] < d[b]
      BY <3>2, <3>3
    <3>6. \A a \in 1 .. w + 1 : k[m + 1][a] = l[d[a]] /\ l[d[a]] \in S
      BY <2>5, <3>1, <3>2, <3>3
    <3>7. ASSUME NEW i \in 1 .. m + 1, l[i] \in S
          PROVE  \E a \in 1 .. w + 1 : d[a] = i
      <4>1. CASE i = m + 1
        BY <4>1, <3>2
      <4>2. CASE i \in 1 .. m
        <5>1. PICK a \in 1 .. w : e[a] = i
          BY <3>3, <3>7, <4>2
        <5>2. a \in 1 .. w + 1 /\ d[a] = i
          BY <5>1, <3>2
        <5> QED
          BY <5>2
      <4> QED
        BY <4>1, <4>2
    <3>8. Places(d, k[m + 1], l, m + 1, S)
      BY <3>1, <3>4, <3>5, <3>6, <3>7 DEF Places
    <3> QED
      BY <3>8
  <2> QED
    BY <2>4, <2>5
<1>5. Len(l) \in Placed
  <2> HIDE DEF Placed
  <2> QED BY <1>1, <1>3, <1>4, SetInduction
<1>6. PICK e : Places(e, k[Len(l)], l, Len(l), S)
  BY <1>1, <1>5
<1>7. Kept(l, S) \in Seq(A)
  BY <1>1, <1>2 DEF Keeps
<1> QED
  BY <1>2, <1>6, <1>7

\* Keeping what is in S keeps the elements of S, once if they were there once.
LEMMA KeptElements ==
  ASSUME NEW A, NEW l \in Seq(A), NEW S
  PROVE  /\ Kept(l, S) \in Seq(A)
         /\ ToSet(Kept(l, S)) = ToSet(l) \cap S
         /\ IsInjective(l) => IsInjective(Kept(l, S))
<1> DEFINE k == Kept(l, S)
<1>1. k \in Seq(A)
  BY KeptPlaces
<1>2. PICK e : Places(e, k, l, Len(l), S)
  BY KeptPlaces
<1>3. DOMAIN k = 1 .. Len(k) /\ DOMAIN l = 1 .. Len(l) /\ Len(k) \in Nat /\ Len(l) \in Nat
  BY <1>1, LenProperties
<1> HIDE DEF k
<1>4. ToSet(k) = ToSet(l) \cap S
  <2>1. ToSet(k) \subseteq ToSet(l) \cap S
    BY <1>2, <1>3 DEF ToSet, Places
  <2>2. ToSet(l) \cap S \subseteq ToSet(k)
    BY <1>2, <1>3 DEF ToSet, Places
  <2> QED
    BY <2>1, <2>2
<1>5. IsInjective(l) => IsInjective(k)
  <2>1. \A a, b \in 1 .. Len(k) : e[a] = e[b] => a = b
    BY <1>2, <1>3 DEF Places
  <2> QED
    BY <1>2, <1>3, <2>1 DEF IsInjective, Places
<1> QED
  BY <1>1, <1>4, <1>5 DEF k

\* r is q or comes after it on l.
AtOrBefore(l, q, r) == \E i, j \in 1 .. Len(l) : l[i] = q /\ l[j] = r /\ i <= j

\* The same, and q is not the first.
AfterHead(l, q, r) == \E i, j \in 1 .. Len(l) - 1 : l[i + 1] = q /\ l[j + 1] = r /\ i <= j

LEMMA AfterHeadIsAfter ==
  ASSUME NEW A, NEW l \in Seq(A), NEW q, NEW r, AfterHead(l, q, r)
  PROVE  AtOrBefore(l, q, r) /\ q \in A
<1>1. Len(l) \in Nat
  BY LenProperties
<1>2. PICK i \in 1 .. Len(l) - 1, j \in 1 .. Len(l) - 1 : l[i + 1] = q /\ l[j + 1] = r /\ i <= j
  BY DEF AfterHead
<1>3. i + 1 \in 1 .. Len(l) /\ j + 1 \in 1 .. Len(l) /\ i + 1 <= j + 1
  BY <1>1, <1>2
<1> QED
  BY <1>2, <1>3, ElementOfSeq DEF AtOrBefore

\* What comes after another element on a list still does when both are kept.
LEMMA KeptOrder ==
  ASSUME NEW A, NEW l \in Seq(A), NEW S, NEW q \in S, NEW r \in S, AtOrBefore(l, q, r)
  PROVE  AtOrBefore(Kept(l, S), q, r)
<1> DEFINE k == Kept(l, S)
<1>0. PICK i \in 1 .. Len(l), j \in 1 .. Len(l) : l[i] = q /\ l[j] = r /\ i <= j
  BY DEF AtOrBefore
<1>1. PICK e : Places(e, k, l, Len(l), S)
  BY KeptPlaces
<1>2. PICK a \in 1 .. Len(k) : e[a] = i
  BY <1>0, <1>1 DEF Places
<1>3. PICK b \in 1 .. Len(k) : e[b] = j
  BY <1>0, <1>1 DEF Places
<1>4. Len(k) \in Nat /\ Len(l) \in Nat
  BY KeptPlaces, LenProperties
<1>5. a <= b
  BY <1>0, <1>1, <1>2, <1>3, <1>4 DEF Places
<1>6. k[a] = q /\ k[b] = r
  BY <1>0, <1>1, <1>2, <1>3 DEF Places
<1> HIDE DEF k
<1>7. AtOrBefore(k, q, r)
  BY <1>5, <1>6 DEF AtOrBefore
<1> QED
  BY <1>7 DEF k

\* t[q] is the sum of f over the first q queues.
Sums(t, f) ==
  /\ t \in [0 .. NumTxqs -> Nat]
  /\ t[0] = 0
  /\ \A q \in Txqs : t[q] = t[q - 1] + f[q]

\* The function that defines Total exists.
LEMMA TotalRecursion ==
  ASSUME NEW f \in [Txqs -> Nat]
  PROVE  \E t : Sums(t, f) /\ Total(f) = t[NumTxqs]
<1> DEFINE IsSum(t, m) == /\ t \in [0 .. m -> Nat] /\ t[0] = 0
                          /\ \A q \in 1 .. m : t[q] = t[q - 1] + f[q]
           Defined == {m \in Nat : m <= NumTxqs => \E t : IsSum(t, m)}
<1>1. NumTxqs \in Nat
  BY SizesAssumption
<1> HIDE DEF IsSum
<1>2. 0 \in Defined
  <2>1. IsSum([q \in 0 .. 0 |-> 0], 0)
    BY DEF IsSum
  <2> QED
    BY <2>1
<1>3. ASSUME NEW m \in Nat, m \in Defined PROVE m + 1 \in Defined
  <2> SUFFICES ASSUME m + 1 <= NumTxqs PROVE \E t : IsSum(t, m + 1)
    OBVIOUS
  <2>1. PICK t : IsSum(t, m)
    BY <1>1, <1>3
  <2>2. m + 1 \in Txqs /\ t[m] \in Nat /\ f[m + 1] \in Nat
    BY <1>1, <2>1 DEF Txqs, IsSum
  <2> DEFINE u == [q \in 0 .. m + 1 |-> IF q = m + 1 THEN t[m] + f[m + 1] ELSE t[q]]
  <2>3. u \in [0 .. m + 1 -> Nat] /\ u[0] = 0
    BY <2>1, <2>2 DEF IsSum
  <2>4. ASSUME NEW q \in 1 .. m + 1 PROVE u[q] = u[q - 1] + f[q]
    <3>1. q - 1 \in 0 .. m /\ u[q - 1] = t[q - 1]
      OBVIOUS
    <3>2. CASE q = m + 1
      BY <3>1, <3>2
    <3>3. CASE q # m + 1
      BY <3>1, <3>3, <2>1 DEF IsSum
    <3> QED
      BY <3>2, <3>3
  <2>5. IsSum(u, m + 1)
    BY <2>3, <2>4 DEF IsSum
  <2> QED
    BY <2>5
<1>4. NumTxqs \in Defined
  <2> HIDE DEF Defined
  <2> QED BY <1>1, <1>2, <1>3, SetInduction
<1>5. PICK t : IsSum(t, NumTxqs)
  BY <1>1, <1>4
<1> DEFINE F(s) == [q \in 0 .. NumTxqs |-> IF q = 0 THEN 0 ELSE s[q - 1] + f[q]]
           c == CHOOSE s : s = F(s)
<1>6. t = F(t)
  <2>1. t \in [0 .. NumTxqs -> Nat] /\ t[0] = 0 /\ \A q \in 1 .. NumTxqs : t[q] = t[q - 1] + f[q]
    BY <1>5 DEF IsSum
  <2>2. \A q \in 0 .. NumTxqs : q = 0 \/ q \in 1 .. NumTxqs
    BY <1>1
  <2> QED
    BY <2>1, <2>2
<1>7. c = F(c)
  BY <1>6
<1>8. Total(f) = c[NumTxqs]
  BY DEF Total
<1>9. \A q \in 0 .. NumTxqs : c[q] = IF q = 0 THEN 0 ELSE c[q - 1] + f[q]
  BY <1>7
<1>10. c[NumTxqs] = t[NumTxqs]
  <2> DEFINE Same == {m \in Nat : m <= NumTxqs => c[m] = t[m]}
  <2> HIDE DEF c
  <2>1. 0 \in Same
    BY <1>1, <1>5, <1>9 DEF IsSum
  <2>2. ASSUME NEW m \in Nat, m \in Same PROVE m + 1 \in Same
    <3> SUFFICES ASSUME m + 1 <= NumTxqs PROVE c[m + 1] = t[m + 1]
      OBVIOUS
    <3>1. /\ m + 1 \in 1 .. NumTxqs /\ m + 1 \in 0 .. NumTxqs /\ m + 1 # 0
          /\ (m + 1) - 1 = m /\ c[m] = t[m]
      BY <1>1, <2>2
    <3> QED
      BY <1>5, <1>9, <3>1 DEF IsSum
  <2> HIDE DEF Same
  <2>3. NumTxqs \in Same
    BY <1>1, <2>1, <2>2, SetInduction
  <2> QED
    BY <2>3 DEF Same
<1>11. Sums(t, f)
  BY <1>5 DEF IsSum, Sums, Txqs
<1> QED
  BY <1>8, <1>10, <1>11

\* A total is a number, and zero exactly if all it adds up is.
LEMMA TotalZero ==
  ASSUME NEW f \in [Txqs -> Nat]
  PROVE  /\ Total(f) \in Nat
         /\ Total(f) = 0 <=> \A q \in Txqs : f[q] = 0
<1>1. PICK t : Sums(t, f) /\ Total(f) = t[NumTxqs]
  BY TotalRecursion
<1>2. NumTxqs \in Nat /\ NumTxqs \in 0 .. NumTxqs
  BY SizesAssumption
<1> DEFINE Zero == {m \in Nat : m <= NumTxqs =>
                      (t[m] = 0 <=> \A q \in 1 .. m : f[q] = 0)}
<1>3. 0 \in Zero
  BY <1>1 DEF Sums
<1>4. ASSUME NEW m \in Nat, m \in Zero PROVE m + 1 \in Zero
  <2> SUFFICES ASSUME m + 1 <= NumTxqs
               PROVE  t[m + 1] = 0 <=> \A q \in 1 .. m + 1 : f[q] = 0
    OBVIOUS
  <2>0. m + 1 \in Txqs /\ m \in 0 .. NumTxqs /\ (m + 1) - 1 = m
    BY <1>2 DEF Txqs
  <2>1. /\ m + 1 \in Txqs /\ f[m + 1] \in Nat /\ (m + 1) - 1 = m
        /\ t[m] \in Nat /\ (t[m] = 0 <=> \A q \in 1 .. m : f[q] = 0)
    BY <1>1, <1>4, <2>0 DEF Sums
  <2>2. t[m + 1] = t[m] + f[m + 1]
    BY <1>1, <2>1 DEF Sums
  <2>3. t[m + 1] = 0 <=> t[m] = 0 /\ f[m + 1] = 0
    BY <2>1, <2>2
  <2>4. (\A q \in 1 .. m + 1 : f[q] = 0) <=> f[m + 1] = 0 /\ \A q \in 1 .. m : f[q] = 0
    OBVIOUS
  <2> QED
    BY <2>1, <2>3, <2>4
<1>5. NumTxqs \in Zero
  <2> HIDE DEF Zero
  <2> QED BY <1>2, <1>3, <1>4, SetInduction
<1> QED
  BY <1>1, <1>2, <1>5 DEF Sums, Txqs

\* Changing one of the values changes the total by as much.
LEMMA TotalExcept ==
  ASSUME NEW f \in [Txqs -> Nat], NEW r \in Txqs, NEW v \in Nat
  PROVE  Total([f EXCEPT ![r] = v]) = Total(f) - f[r] + v
<1> DEFINE g == [f EXCEPT ![r] = v]
<1>1. g \in [Txqs -> Nat] /\ g[r] = v /\ \A q \in Txqs : q # r => g[q] = f[q]
  OBVIOUS
<1> HIDE DEF g
<1>2. PICK t : Sums(t, f) /\ Total(f) = t[NumTxqs]
  BY TotalRecursion
<1>3. PICK u : Sums(u, g) /\ Total(g) = u[NumTxqs]
  BY <1>1, TotalRecursion
<1>4. NumTxqs \in Nat /\ r \in 1 .. NumTxqs /\ f[r] \in Nat
  BY SizesAssumption DEF Txqs
<1> DEFINE Moved == {m \in Nat : m <= NumTxqs =>
                       u[m] = IF m < r THEN t[m] ELSE t[m] - f[r] + v}
<1>5. 0 \in Moved
  BY <1>2, <1>3, <1>4 DEF Sums
<1>6. ASSUME NEW m \in Nat, m \in Moved PROVE m + 1 \in Moved
  <2> SUFFICES ASSUME m + 1 <= NumTxqs
               PROVE  u[m + 1] = IF m + 1 < r THEN t[m + 1] ELSE t[m + 1] - f[r] + v
    OBVIOUS
  <2>0. m + 1 \in Txqs /\ m \in 0 .. NumTxqs /\ (m + 1) - 1 = m
    BY <1>4 DEF Txqs
  <2>1. /\ m + 1 \in Txqs /\ f[m + 1] \in Nat /\ g[m + 1] \in Nat /\ (m + 1) - 1 = m
        /\ t[m] \in Nat /\ u[m] \in Nat /\ u[m] = IF m < r THEN t[m] ELSE t[m] - f[r] + v
    BY <1>1, <1>2, <1>3, <1>6, <2>0 DEF Sums
  <2>2. t[m + 1] = t[m] + f[m + 1] /\ u[m + 1] = u[m] + g[m + 1]
    BY <1>2, <1>3, <2>1 DEF Sums
  <2>3. CASE m + 1 = r
    BY <1>1, <1>4, <2>1, <2>2, <2>3
  <2>4. CASE m + 1 # r
    <3>1. g[m + 1] = f[m + 1]
      BY <1>1, <2>1, <2>4
    <3> QED
      BY <1>4, <2>1, <2>2, <2>4, <3>1
  <2> QED
    BY <2>3, <2>4
<1>7. NumTxqs \in Moved
  <2> HIDE DEF Moved
  <2> QED BY <1>4, <1>5, <1>6, SetInduction
<1>8. Total(g) = Total(f) - f[r] + v
  BY <1>2, <1>3, <1>4, <1>7
<1> QED
  BY <1>8 DEF g
-----------------------------------------------------------------------------
(* The helpers, as far as the flag and the stop bits go. *)

LEMMA AddLists ==
  ASSUME NEW S, NEW order, AddToHwList(S, order)
  PROVE  listed' = listed \cup S /\ need' = need \cup {HwqOf[q] : q \in S \ listed}
BY Zenon DEF AddToHwList

LEMMA DelUnlists ==
  ASSUME NEW S, DelFromHwList(S)
  PROVE  listed' = listed \ S
BY Zenon DEF DelFromHwList

\* Stopping takes the queues in use off their lists and sets the bit.
LEMMA StopStops ==
  ASSUME TypeOK, NEW S, S \subseteq Txqs, NEW reason \in Reasons, Stop(S, reason)
  PROVE  /\ listed' = listed \ (S \cap active)
         /\ stops' \in [Txqs -> SUBSET Reasons]
         /\ \A q \in Txqs : stops'[q] = IF q \in S \cap active THEN stops[q] \cup {reason}
                                                              ELSE stops[q]
<1>1. DelFromHwList(S \cap active)
  BY Zenon DEF Stop
<1>2. stops' = [q \in Txqs |-> IF q \in S \cap active THEN stops[q] \cup {reason}
                                                     ELSE stops[q]]
  BY Zenon DEF Stop
<1> QED
  BY <1>1, <1>2, DelUnlists DEF TypeOK

\* Starting clears the bit and lists what has frames and no other reason.
LEMMA StartStarts ==
  ASSUME TypeOK, NEW S, S \subseteq Txqs, NEW reason \in Reasons, Start(S, reason)
  PROVE  /\ listed' \subseteq Txqs /\ need' \subseteq Hwqs
         /\ stops' \in [Txqs -> SUBSET Reasons]
         /\ \A q \in Txqs : stops'[q] = IF q \in S \cap active THEN stops[q] \ {reason}
                                                              ELSE stops[q]
         /\ \A q \in Txqs : q \in listed' <=>
              q \in listed \/ (q \in S \cap active /\ stops[q] = {reason} /\ len[q] > 0)
<1> DEFINE hit    == {q \in S \cap active : reason \in stops[q]}
           listen == {q \in hit : stops[q] = {reason} /\ len[q] > 0}
<1>1. AddToHwList(listen, Descending)
  BY Zenon DEF Start
<1>2. stops' = [q \in Txqs |-> IF q \in hit THEN stops[q] \ {reason} ELSE stops[q]]
  BY Zenon DEF Start
<1>3. listed' = listed \cup listen /\ need' = need \cup {HwqOf[q] : q \in listen \ listed}
  BY <1>1, AddLists
<1>4. listen \subseteq Txqs
  BY DEF TypeOK
<1>5. need' \subseteq Hwqs
  BY <1>3, <1>4, SizesAssumption DEF TypeOK
<1>6. stops' \in [Txqs -> SUBSET Reasons]
  BY <1>2 DEF TypeOK
<1>7. \A q \in Txqs : stops'[q] = IF q \in S \cap active THEN stops[q] \ {reason} ELSE stops[q]
  BY <1>2 DEF TypeOK
<1>8. \A q \in Txqs : q \in listed' <=>
        q \in listed \/ (q \in S \cap active /\ stops[q] = {reason} /\ len[q] > 0)
  BY <1>3
<1> QED
  BY <1>3, <1>4, <1>5, <1>6, <1>7, <1>8 DEF TypeOK

\* A pass takes no more than there is, a number within the credits.
LEMMA TakenWithin ==
  ASSUME TypeOK, NEW q \in Txqs
  PROVE  /\ Taken(q) \in Nat /\ Taken(q) <= len[q]
         /\ ~Finished(q) /\ limit[q] <= Credits => limit[q] = 0
         /\ Finished(q) /\ limit[q] = 0 => Taken(q) = len[q]
BY SizesAssumption DEF TypeOK, Taken, Finished, Allowed

-----------------------------------------------------------------------------
(* The invariant, action by action. *)

LEMMA InvInit == Init => IInv
<1> SUFFICES ASSUME Init PROVE IInv
  OBVIOUS
<1>1. TypeOK
  BY DEF Init, TypeOK
<1>2. ReadyIsListed /\ StoppedStaysOff /\ SubqueueHasWaker
  BY DEF Init, ReadyIsListed, StoppedStaysOff, SubqueueHasWaker
<1>3. Limits /\ LimitIsStopped
  BY SizesAssumption DEF Init, Limits, LimitIsStopped
<1>4. SleepStops /\ VifStops /\ FlushedIsGone
  BY DEF Init, SleepStops, VifStops, FlushedIsGone, Txqs, End
<1> QED
  BY <1>1, <1>2, <1>3, <1>4 DEF IInv

LEMMA XmitCheckInv ==
  ASSUME IInv, NEW s \in Senders, xmit_check(s)
  PROVE  IInv'
BY DEF IInv, TypeOK, ReadyIsListed, StoppedStaysOff, SubqueueHasWaker, Limits,
   LimitIsStopped, SleepStops, VifStops, FlushedIsGone, xmit_check, queueVars,
   listVars, stationVars, psVars, passVars, netVars, historyVars

\* The frame is queued; its queue is listed if it is not stopped.
LEMMA QueueSkbInv ==
  ASSUME IInv, NEW s \in Senders, queue_skb(s)
  PROVE  IInv'
<1> DEFINE q == at[s]
<1>1. q \in Txqs
  BY DEF queue_skb, IInv, TypeOK
<1>2. /\ active' = active /\ stops' = stops /\ limit' = limit /\ sent' = sent
      /\ station' = station /\ flushing' = flushing /\ ps' = ps /\ vifstop' = vifstop
      /\ todo' = todo /\ tasklet' = tasklet /\ tbusy' = tbusy
      /\ orphans' = orphans /\ adrift' = adrift
      /\ len' = [len EXCEPT ![q] = @ + 1]
      /\ FlowControl(q)
  BY Zenon DEF queue_skb, stationVars, historyVars
<1>3. \/ /\ stops[q] = {} /\ listed' = listed \cup {q} /\ need' = need \ {HwqOf[q]}
         /\ lock' = s /\ cursor' \in Txqs /\ at' = at
      \/ /\ stops[q] # {} /\ listed' = listed /\ need' = need
         /\ lock' = lock /\ cursor' = cursor /\ at' = [at EXCEPT ![s] = End]
  BY Zenon DEF queue_skb, listVars
<1>4. len' \in [Txqs -> Nat] /\ \A r \in Txqs : len'[r] = IF r = q THEN len[q] + 1 ELSE len[r]
  BY <1>1, <1>2 DEF IInv, TypeOK
<1>5. TypeOK'
  <2>1. flow' \subseteq Txqs /\ subq' \subseteq Txqs
    BY <1>1, <1>2 DEF FlowControl, IInv, TypeOK
  <2> QED
    BY <1>1, <1>2, <1>3, <1>4, <2>1 DEF IInv, TypeOK
<1>6. ReadyIsListed'
  BY <1>2, <1>3, <1>4 DEF IInv, TypeOK, ReadyIsListed
<1>7. StoppedStaysOff'
  BY <1>2, <1>3 DEF IInv, StoppedStaysOff
<1>8. SubqueueHasWaker'
  <2> SUFFICES ASSUME NEW r \in (subq' \cap active) \ orphans, ~tbusy
               PROVE  r \in flow' /\ len'[r] >= FlowRestart
    BY <1>2 DEF SubqueueHasWaker
  <2>1. CASE r \in subq
    BY <2>1, <1>2, <1>4, SizesAssumption DEF IInv, TypeOK, SubqueueHasWaker, FlowControl
  <2>2. CASE r \notin subq
    BY <2>2, <1>1, <1>2, <1>4, SizesAssumption DEF IInv, TypeOK, FlowControl
  <2> QED
    BY <2>1, <2>2
<1>9. Limits' /\ LimitIsStopped' /\ SleepStops' /\ VifStops' /\ FlushedIsGone'
  BY <1>2 DEF IInv, Limits, LimitIsStopped, SleepStops, VifStops, FlushedIsGone
<1> QED
  BY <1>5, <1>6, <1>7, <1>8, <1>9 DEF IInv

\* A queue leaves its list with nothing left to send, or with a service period
\* completed, which only a stopped queue has.
LEMMA ProcessTxqInv ==
  ASSUME IInv, process_txq
  PROVE  IInv'
<1> DEFINE q == cursor
           n == Taken(q)
<1>1. q \in Txqs /\ q \in active
  BY DEF process_txq, IInv, TypeOK
<1>2. /\ active' = active /\ stops' = stops /\ need' = need
      /\ station' = station /\ flushing' = flushing /\ ps' = ps /\ vifstop' = vifstop
      /\ lock' = lock /\ todo' = todo /\ tasklet' = tasklet /\ at' = at /\ tbusy' = tbusy
      /\ cursor' \in Txqs \cup {End}
      /\ Push(q) /\ Schedule(q) /\ FlowRelease(q)
      /\ adrift' = IF Finished(q) THEN adrift \ {q} ELSE adrift \cup {q}
  BY Zenon DEF process_txq, stationVars
<1>3. /\ n \in Nat /\ n <= len[q]
      /\ ~Finished(q) /\ limit[q] <= Credits => limit[q] = 0
      /\ Finished(q) /\ limit[q] = 0 => n = len[q]
  BY <1>1, TakenWithin DEF IInv
<1>4. len' = [len EXCEPT ![q] = @ - n] /\ limit' = [limit EXCEPT ![q] = 0]
  BY <1>2, Zenon DEF Push
<1>5. /\ len' \in [Txqs -> Nat] /\ limit' \in [Txqs -> Nat]
      /\ \A r \in Txqs : /\ len'[r] = IF r = q THEN len[q] - n ELSE len[r]
                         /\ limit'[r] = IF r = q THEN 0 ELSE limit[r]
  BY <1>1, <1>3, <1>4 DEF IInv, TypeOK
<1>6. listed' = IF Finished(q) THEN listed \ {q} ELSE listed
  <2>1. CASE Finished(q)
    <3>1. DelFromHwList({q})
      BY <1>2, <2>1, Zenon DEF Schedule
    <3> QED
      BY <2>1, <3>1, DelUnlists
  <2>2. CASE ~Finished(q)
    BY <1>2, <2>2, Zenon DEF Schedule
  <2> QED
    BY <2>1, <2>2
<1>7. sent' \in [Txqs -> Nat]
  <2>1. \/ sent' = [sent EXCEPT ![q] = 0]
        \/ sent' = [sent EXCEPT ![q] = IF sent[q] + n > HwqSize THEN 0 ELSE @ + n]
    BY <1>2, Zenon DEF Schedule
  <2> QED
    BY <1>1, <1>3, <2>1 DEF IInv, TypeOK
<1>8. TypeOK'
  <2>1. flow' \subseteq Txqs /\ subq' \subseteq Txqs /\ orphans' \subseteq Txqs
    BY <1>2 DEF FlowRelease, IInv, TypeOK
  <2>2. listed' \subseteq Txqs /\ adrift' \subseteq Txqs
    BY <1>1, <1>2, <1>6 DEF IInv, TypeOK
  <2> QED
    BY <1>2, <1>5, <1>7, <2>1, <2>2 DEF IInv, TypeOK
<1>9. ReadyIsListed'
  <2> SUFFICES ASSUME NEW r \in active, stops[r] = {}, len'[r] > 0
               PROVE  r \in listed'
    BY <1>2 DEF ReadyIsListed
  <2>1. limit[r] = 0 /\ r \in Txqs
    BY DEF IInv, TypeOK, LimitIsStopped
  <2>2. r \in listed
    BY <1>1, <1>3, <1>5, <2>1 DEF IInv, TypeOK, ReadyIsListed
  <2>3. r = q => ~Finished(q)
    BY <1>1, <1>3, <1>5, <2>1 DEF IInv, TypeOK
  <2> QED
    BY <1>6, <2>2, <2>3
<1>10. StoppedStaysOff'
  <2> SUFFICES ASSUME NEW r \in listed' \cap active, stops[r] # {}
               PROVE  stops[r] = {"STA_PS"} /\ limit'[r] > 0 /\ (ps \/ station = "leaving")
    BY <1>2 DEF StoppedStaysOff
  <2>1. r \in listed /\ r \in Txqs
    BY <1>6 DEF IInv, TypeOK
  <2>2. stops[r] = {"STA_PS"} /\ limit[r] > 0 /\ (ps \/ station = "leaving")
    BY <2>1 DEF IInv, StoppedStaysOff
  <2>3. r # q
    BY <1>1, <1>3, <1>6, <2>2 DEF IInv, TypeOK, Limits
  <2> QED
    BY <1>5, <2>1, <2>2, <2>3
<1>11. SubqueueHasWaker'
  <2> SUFFICES ASSUME NEW r \in (subq' \cap active) \ orphans', ~tbusy
               PROVE  r \in flow' /\ len'[r] >= FlowRestart
    BY <1>2 DEF SubqueueHasWaker
  <2>1. r \in subq /\ r \in Txqs
    BY <1>2 DEF FlowRelease, IInv, TypeOK
  <2>2. CASE r = q
    BY <1>2, <1>5, <2>1, <2>2, SizesAssumption DEF FlowRelease, IInv, TypeOK, SubqueueHasWaker
  <2>3. CASE r # q
    BY <1>2, <1>5, <2>1, <2>3 DEF FlowRelease, IInv, SubqueueHasWaker
  <2> QED
    BY <2>2, <2>3
<1>12. Limits' /\ LimitIsStopped'
  BY <1>2, <1>5, SizesAssumption DEF IInv, TypeOK, Limits, LimitIsStopped
<1>13. SleepStops' /\ VifStops' /\ FlushedIsGone'
  BY <1>2 DEF IInv, SleepStops, VifStops, FlushedIsGone
<1> QED
  BY <1>8, <1>9, <1>10, <1>11, <1>12, <1>13 DEF IInv

\* A queue that is not in use is emptied: nothing is promised of it.
LEMMA ProcessInactiveInv ==
  ASSUME IInv, process_inactive
  PROVE  IInv'
<1>1. listed' = listed \ {cursor}
  BY DelUnlists DEF process_inactive
<1>2. len' \in [Txqs -> Nat] /\ \A r \in active : len'[r] = len[r]
  BY DEF process_inactive, IInv, TypeOK
<1>3. /\ active' = active /\ stops' = stops /\ flow' = flow /\ limit' = limit /\ sent' = sent
      /\ need' = need /\ station' = station /\ flushing' = flushing /\ ps' = ps
      /\ vifstop' = vifstop /\ lock' = lock /\ todo' = todo /\ tasklet' = tasklet
      /\ at' = at /\ tbusy' = tbusy /\ subq' = subq /\ orphans' = orphans
      /\ cursor' \in Txqs \cup {End} /\ adrift' = adrift \ {cursor} /\ cursor \notin active
  BY Zenon DEF process_inactive, stationVars, psVars, netVars
<1>4. TypeOK'
  BY <1>1, <1>2, <1>3 DEF IInv, TypeOK
<1>5. ReadyIsListed' /\ StoppedStaysOff' /\ SubqueueHasWaker'
  BY <1>1, <1>2, <1>3 DEF IInv, ReadyIsListed, StoppedStaysOff, SubqueueHasWaker
<1>6. Limits' /\ LimitIsStopped' /\ SleepStops' /\ VifStops' /\ FlushedIsGone'
  BY <1>3 DEF IInv, Limits, LimitIsStopped, SleepStops, VifStops, FlushedIsGone
<1> QED
  BY <1>4, <1>5, <1>6 DEF IInv

\* The steps that only move the lock and the cursor.
LEMMA LockInv ==
  ASSUME IInv, task_start \/ task_next \/ \E s \in Senders : xmit_done(s)
  PROVE  IInv'
<1>1. /\ UNCHANGED queueVars /\ UNCHANGED stationVars /\ UNCHANGED netVars /\ UNCHANGED historyVars
      /\ UNCHANGED <<ps, vifstop>>
  BY DEF task_start, task_next, xmit_done, queueVars, psVars
<1>2. TypeOK'
  <2>1. CASE task_start
    BY <2>1, <1>1 DEF task_start, IInv, TypeOK, queueVars, listVars, stationVars, netVars, historyVars
  <2>2. CASE task_next
    BY <2>2, <1>1 DEF task_next, IInv, TypeOK, queueVars, stationVars, netVars, historyVars
  <2>3. CASE \E s \in Senders : xmit_done(s)
    BY <2>3, <1>1 DEF xmit_done, IInv, TypeOK, queueVars, listVars, stationVars, netVars, historyVars
  <2> QED
    BY <2>1, <2>2, <2>3
<1>3. ReadyIsListed' /\ StoppedStaysOff' /\ SubqueueHasWaker'
  BY <1>1 DEF IInv, ReadyIsListed, StoppedStaysOff, SubqueueHasWaker, queueVars, stationVars,
     netVars, historyVars
<1>4. Limits' /\ LimitIsStopped' /\ SleepStops' /\ VifStops' /\ FlushedIsGone'
  BY <1>1 DEF IInv, Limits, LimitIsStopped, SleepStops, VifStops, FlushedIsGone, queueVars,
     stationVars
<1> QED
  BY <1>2, <1>3, <1>4 DEF IInv

LEMMA PsEnableInv ==
  ASSUME IInv, ps_enable
  PROVE  IInv'
<1>1. /\ listed' = listed \ active
      /\ stops' \in [Txqs -> SUBSET Reasons]
      /\ \A q \in Txqs : stops'[q] = IF q \in active THEN stops[q] \cup {"STA_PS"} ELSE stops[q]
  <2>1. Stop(Txqs, "STA_PS") /\ "STA_PS" \in Reasons
    BY DEF ps_enable, Reasons
  <2>2. active \subseteq Txqs /\ TypeOK
    BY DEF IInv, TypeOK
  <2> QED
    BY <2>1, <2>2, StopStops
<1>2. /\ UNCHANGED <<active, flow, len, limit, sent, need, lock, todo, cursor, tasklet, at>>
      /\ UNCHANGED <<station, flushing, vifstop, tbusy, subq, orphans>>
      /\ station = "up" /\ ps' = TRUE /\ adrift' = adrift \ active
  BY DEF ps_enable, Handling, stationVars, passVars, netVars
<1>3. TypeOK'
  BY <1>1, <1>2 DEF IInv, TypeOK
<1>4. ReadyIsListed' /\ StoppedStaysOff'
  BY <1>1, <1>2 DEF IInv, TypeOK, ReadyIsListed, StoppedStaysOff
<1>5. SubqueueHasWaker' /\ Limits' /\ FlushedIsGone'
  BY <1>2 DEF IInv, SubqueueHasWaker, Limits, FlushedIsGone
<1>6. LimitIsStopped' /\ SleepStops' /\ VifStops'
  BY <1>1, <1>2 DEF IInv, TypeOK, LimitIsStopped, SleepStops, VifStops
<1> QED
  BY <1>3, <1>4, <1>5, <1>6 DEF IInv

LEMMA PsDisableInv ==
  ASSUME IInv, ps_disable
  PROVE  IInv'
<1>1. /\ listed' \subseteq Txqs /\ need' \subseteq Hwqs
      /\ stops' \in [Txqs -> SUBSET Reasons]
      /\ \A q \in Txqs : stops'[q] = IF q \in active THEN stops[q] \ {"STA_PS"} ELSE stops[q]
      /\ \A q \in Txqs : q \in listed' <=>
           q \in listed \/ (q \in active /\ stops[q] = {"STA_PS"} /\ len[q] > 0)
  <2>1. Start(Txqs, "STA_PS") /\ "STA_PS" \in Reasons
    BY DEF ps_disable, Reasons
  <2>2. active \subseteq Txqs /\ TypeOK
    BY DEF IInv, TypeOK
  <2> QED
    BY <2>1, <2>2, StartStarts
<1>2. /\ UNCHANGED <<active, flow, len, sent, lock, todo, cursor, at, vifstop, station>>
      /\ UNCHANGED <<flushing, tbusy, subq, orphans, adrift>>
      /\ ps' = FALSE /\ tasklet' = TRUE
      /\ limit' = [q \in Txqs |-> 0]
  BY DEF ps_disable, stationVars, passVars, netVars, historyVars
<1>3. TypeOK'
  BY <1>1, <1>2 DEF IInv, TypeOK
<1>4. ReadyIsListed' /\ StoppedStaysOff'
  BY <1>1, <1>2 DEF IInv, TypeOK, ReadyIsListed, StoppedStaysOff
<1>5. SubqueueHasWaker' /\ FlushedIsGone' /\ SleepStops'
  BY <1>2 DEF IInv, SubqueueHasWaker, SleepStops, FlushedIsGone
<1>6. Limits' /\ LimitIsStopped' /\ VifStops'
  BY <1>1, <1>2, SizesAssumption DEF IInv, TypeOK, Limits, LimitIsStopped, VifStops
<1> QED
  BY <1>3, <1>4, <1>5, <1>6 DEF IInv

\* A queue that takes part in a service period is stopped for the sleep alone:
\* the interface is not stopped when the firmware asks.
LEMMA TrafficReqInv ==
  ASSUME IInv, NEW m \in 0 .. Credits, traffic_req(m)
  PROVE  IInv'
<1>1. /\ UNCHANGED <<active, stops, flow, len, sent, lock, todo, cursor, at, vifstop, station>>
      /\ UNCHANGED <<ps, flushing, tbusy, subq, orphans, adrift>>
      /\ station = "up" /\ ps /\ vifstop = {} /\ tasklet' = TRUE
  BY DEF traffic_req, Handling, stationVars, passVars, netVars, historyVars
<1>2. PICK grant \in [Txqs -> 0 .. Credits] :
        /\ limit' = [q \in Txqs |-> IF grant[q] > 0 THEN grant[q] ELSE limit[q]]
        /\ AddToHwList({q \in Txqs : grant[q] > 0}, Ascending)
  BY DEF traffic_req
<1>3. /\ listed' = listed \cup {q \in Txqs : grant[q] > 0}
      /\ need' \subseteq Hwqs
  BY <1>2, AddLists, SizesAssumption DEF IInv, TypeOK
<1>4. /\ limit' \in [Txqs -> Nat]
      /\ \A q \in Txqs : limit'[q] = IF grant[q] > 0 THEN grant[q] ELSE limit[q]
  BY <1>2, SizesAssumption DEF IInv, TypeOK
<1>5. TypeOK'
  BY <1>1, <1>3, <1>4 DEF IInv, TypeOK
<1>6. ReadyIsListed'
  BY <1>1, <1>3 DEF IInv, ReadyIsListed
<1>7. StoppedStaysOff'
  <2> SUFFICES ASSUME NEW q \in listed' \cap active, stops[q] # {}
               PROVE  stops[q] = {"STA_PS"} /\ limit'[q] > 0
    BY <1>1 DEF StoppedStaysOff
  <2>1. stops[q] = {"STA_PS"} /\ q \in Txqs
    BY <1>1 DEF IInv, TypeOK, SleepStops, VifStops
  <2> QED
    BY <1>3, <1>4, <2>1, SizesAssumption DEF IInv, StoppedStaysOff
<1>8. Limits' /\ LimitIsStopped'
  BY <1>1, <1>4 DEF IInv, TypeOK, Limits, LimitIsStopped, SleepStops
<1>9. SubqueueHasWaker' /\ SleepStops' /\ VifStops' /\ FlushedIsGone'
  BY <1>1 DEF IInv, SubqueueHasWaker, SleepStops, VifStops, FlushedIsGone
<1> QED
  BY <1>5, <1>6, <1>7, <1>8, <1>9 DEF IInv

LEMMA VifReason ==
  ASSUME NEW r \in VifReasons
  PROVE  r \in Reasons /\ r # "STA_PS"
BY HoldersAssumption DEF Reasons

LEMMA VifStopInv ==
  ASSUME IInv, NEW r \in VifReasons, vif_stop(r)
  PROVE  IInv'
<1>1. /\ listed' = listed \ (Attached \cap active)
      /\ stops' \in [Txqs -> SUBSET Reasons]
      /\ \A q \in Txqs : stops'[q] = IF q \in Attached \cap active THEN stops[q] \cup {r}
                                                                  ELSE stops[q]
  <2>1. Stop(Attached, r) /\ Attached \subseteq Txqs
    BY DEF vif_stop, Attached
  <2> QED
    BY <2>1, StopStops, VifReason DEF IInv
<1>2. /\ UNCHANGED <<active, flow, len, limit, sent, need, lock, todo, cursor, tasklet, at>>
      /\ UNCHANGED <<station, flushing, ps, tbusy, subq, orphans>>
      /\ vifstop' = vifstop \cup {r} /\ adrift' = adrift \ (Attached \cap active)
  BY DEF vif_stop, stationVars, psVars, passVars, netVars
<1>3. TypeOK'
  BY <1>1, <1>2 DEF IInv, TypeOK
<1>4. ReadyIsListed' /\ StoppedStaysOff'
  BY <1>1, <1>2 DEF IInv, TypeOK, ReadyIsListed, StoppedStaysOff
<1>5. SubqueueHasWaker' /\ Limits' /\ FlushedIsGone'
  BY <1>2 DEF IInv, SubqueueHasWaker, Limits, FlushedIsGone
<1>6. LimitIsStopped' /\ SleepStops' /\ VifStops'
  BY <1>1, <1>2 DEF IInv, TypeOK, LimitIsStopped, SleepStops, VifStops, Attached
<1> QED
  BY <1>3, <1>4, <1>5, <1>6 DEF IInv

LEMMA VifStartInv ==
  ASSUME IInv, NEW r \in VifReasons, vif_start(r)
  PROVE  IInv'
<1>1. /\ listed' \subseteq Txqs /\ need' \subseteq Hwqs
      /\ stops' \in [Txqs -> SUBSET Reasons]
      /\ \A q \in Txqs : stops'[q] = IF q \in Attached \cap active THEN stops[q] \ {r}
                                                                  ELSE stops[q]
      /\ \A q \in Txqs : q \in listed' <=>
           q \in listed \/ (q \in Attached \cap active /\ stops[q] = {r} /\ len[q] > 0)
  <2>1. Start(Attached, r) /\ Attached \subseteq Txqs
    BY DEF vif_start, Attached
  <2> QED
    BY <2>1, StartStarts, VifReason DEF IInv
<1>2. /\ UNCHANGED <<active, flow, len, limit, sent, lock, todo, cursor, at>>
      /\ UNCHANGED <<station, flushing, ps, tbusy, subq, orphans>>
      /\ vifstop' = vifstop \ {r} /\ tasklet' = (tasklet \/ r = "CHAN")
      /\ adrift' = IF tasklet' THEN adrift ELSE adrift \cup (listed' \ listed)
  BY DEF vif_start, stationVars, psVars, passVars, netVars
<1>3. TypeOK'
  BY <1>1, <1>2 DEF IInv, TypeOK
<1>4. ReadyIsListed' /\ StoppedStaysOff'
  BY <1>1, <1>2, VifReason DEF IInv, TypeOK, ReadyIsListed, StoppedStaysOff
<1>5. SubqueueHasWaker' /\ Limits' /\ FlushedIsGone'
  BY <1>2 DEF IInv, SubqueueHasWaker, Limits, FlushedIsGone
<1>6. LimitIsStopped' /\ SleepStops' /\ VifStops'
  BY <1>1, <1>2, VifReason DEF IInv, TypeOK, LimitIsStopped, SleepStops, VifStops, Attached
<1> QED
  BY <1>3, <1>4, <1>5, <1>6 DEF IInv

LEMMA DelStationInv ==
  ASSUME IInv, del_station
  PROVE  IInv'
<1>1. /\ UNCHANGED queueVars /\ UNCHANGED listVars /\ UNCHANGED passVars /\ UNCHANGED netVars
      /\ UNCHANGED historyVars /\ UNCHANGED <<flushing, vifstop, tasklet, at>>
      /\ station' = "leaving" /\ ps' = FALSE
  BY DEF del_station
<1>2. TypeOK'
  BY <1>1 DEF IInv, TypeOK, queueVars, listVars, passVars, netVars, historyVars
<1>3. ReadyIsListed' /\ StoppedStaysOff' /\ SubqueueHasWaker'
  BY <1>1 DEF IInv, ReadyIsListed, StoppedStaysOff, SubqueueHasWaker, queueVars, netVars,
     historyVars
<1>4. Limits' /\ LimitIsStopped' /\ SleepStops' /\ VifStops' /\ FlushedIsGone'
  BY <1>1 DEF IInv, Limits, LimitIsStopped, SleepStops, VifStops, FlushedIsGone, queueVars
<1> QED
  BY <1>2, <1>3, <1>4 DEF IInv

LEMMA TxqDeinitInv ==
  ASSUME IInv, txq_deinit
  PROVE  IInv'
<1>1. PICK q \in active : /\ DelFromHwList({q}) /\ active' = active \ {q} /\ flushing' = q
                          /\ adrift' = adrift \ {q}
  BY DEF txq_deinit
<1>2. /\ UNCHANGED <<stops, flow, len, limit, sent, need, station, ps, vifstop, lock, todo>>
      /\ UNCHANGED <<cursor, tasklet, at, tbusy, subq, orphans>>
      /\ station = "leaving"
  BY DEF txq_deinit, psVars, passVars, netVars
<1>3. listed' = listed \ {q}
  BY <1>1, DelUnlists
<1>4. TypeOK'
  BY <1>1, <1>2, <1>3 DEF IInv, TypeOK
<1>5. ReadyIsListed' /\ StoppedStaysOff' /\ SubqueueHasWaker'
  BY <1>1, <1>2, <1>3 DEF IInv, ReadyIsListed, StoppedStaysOff, SubqueueHasWaker
<1>6. Limits' /\ LimitIsStopped' /\ SleepStops' /\ VifStops' /\ FlushedIsGone'
  BY <1>1, <1>2 DEF IInv, Limits, LimitIsStopped, SleepStops, VifStops, FlushedIsGone
<1> QED
  BY <1>4, <1>5, <1>6 DEF IInv

LEMMA TxqFlushInv ==
  ASSUME IInv, txq_flush
  PROVE  IInv'
<1>1. /\ UNCHANGED <<active, listed, stops, flow, limit, sent, need, station, ps, vifstop, lock>>
      /\ UNCHANGED <<todo, cursor, tasklet, at, tbusy, subq, orphans, adrift>>
      /\ flushing' = End /\ flushing # End
      /\ len' = [len EXCEPT ![flushing] = 0]
  BY DEF txq_flush, listVars, psVars, passVars, netVars, historyVars
<1>2. len' \in [Txqs -> Nat] /\ \A r \in active : len'[r] = len[r]
  BY <1>1 DEF IInv, TypeOK, FlushedIsGone
<1>3. End \notin active
  BY DEF IInv, TypeOK, Txqs, End
<1>4. TypeOK'
  BY <1>1, <1>2 DEF IInv, TypeOK
<1>5. ReadyIsListed' /\ StoppedStaysOff' /\ SubqueueHasWaker'
  BY <1>1, <1>2 DEF IInv, ReadyIsListed, StoppedStaysOff, SubqueueHasWaker
<1>6. Limits' /\ LimitIsStopped' /\ SleepStops' /\ VifStops' /\ FlushedIsGone'
  BY <1>1, <1>3 DEF IInv, Limits, LimitIsStopped, SleepStops, VifStops, FlushedIsGone
<1> QED
  BY <1>4, <1>5, <1>6 DEF IInv

\* A station that comes back finds empty queues; a sub-queue its last visit
\* left stopped is counted among the orphans.
LEMMA TxqStaInitInv ==
  ASSUME IInv, txq_sta_init
  PROVE  IInv'
<1>1. /\ station' = "up" /\ active' = Txqs /\ listed' = {} /\ flow' = {}
      /\ stops' = [q \in Txqs |-> vifstop \cap {"CHAN"}]
      /\ len' = [q \in Txqs |-> 0] /\ limit' = [q \in Txqs |-> 0] /\ sent' = [q \in Txqs |-> 0]
      /\ orphans' = IF tbusy THEN {} ELSE subq
      /\ UNCHANGED <<need, flushing, ps, vifstop, lock, todo, cursor, tasklet, at, tbusy>>
      /\ UNCHANGED <<subq, adrift>>
      /\ station = "leaving" /\ flushing = End
  BY DEF txq_sta_init, listVars, psVars, passVars, netVars
<1>2. TypeOK'
  BY <1>1 DEF IInv, TypeOK, Reasons
<1>3. ReadyIsListed' /\ StoppedStaysOff' /\ SubqueueHasWaker'
  BY <1>1 DEF ReadyIsListed, StoppedStaysOff, SubqueueHasWaker
<1>4. Limits' /\ LimitIsStopped'
  BY <1>1, SizesAssumption DEF Limits, LimitIsStopped
<1>5. SleepStops' /\ VifStops' /\ FlushedIsGone'
  BY <1>1 DEF IInv, SleepStops, VifStops, FlushedIsGone, Txqs, End
<1> QED
  BY <1>2, <1>3, <1>4, <1>5 DEF IInv

LEMMA BusInv ==
  ASSUME IInv, bus_busy \/ bus_free
  PROVE  IInv'
<1>1. /\ UNCHANGED queueVars /\ UNCHANGED listVars /\ UNCHANGED stationVars
      /\ UNCHANGED passVars /\ UNCHANGED <<ps, vifstop, tasklet, at, adrift>>
      /\ \/ tbusy' = TRUE /\ subq' = Txqs /\ orphans' = orphans
         \/ tbusy' = FALSE /\ subq' = {} /\ orphans' = {}
  BY DEF bus_busy, bus_free, psVars, historyVars
<1>2. TypeOK'
  BY <1>1 DEF IInv, TypeOK, queueVars, listVars, stationVars, passVars
<1>3. ReadyIsListed' /\ StoppedStaysOff' /\ SubqueueHasWaker'
  BY <1>1 DEF IInv, ReadyIsListed, StoppedStaysOff, SubqueueHasWaker, queueVars, stationVars
<1>4. Limits' /\ LimitIsStopped' /\ SleepStops' /\ VifStops' /\ FlushedIsGone'
  BY <1>1 DEF IInv, Limits, LimitIsStopped, SleepStops, VifStops, FlushedIsGone, queueVars,
     stationVars
<1> QED
  BY <1>2, <1>3, <1>4 DEF IInv

LEMMA IdleInv ==
  ASSUME IInv, UNCHANGED vars
  PROVE  IInv'
BY DEF IInv, TypeOK, ReadyIsListed, StoppedStaysOff, SubqueueHasWaker, Limits, LimitIsStopped,
   SleepStops, VifStops, FlushedIsGone, vars, queueVars, listVars, stationVars, psVars, passVars,
   netVars, historyVars

-----------------------------------------------------------------------------
(* The lists, and what a pass over one has before it. *)

ListTypes == list \in [Hwqs -> Seq(Txqs)]

\* The flags of the queues of h and its list agree, the list being l, the
\* flagged queues F.
Agrees(l, h, F) ==
  /\ l \in Seq(Txqs)
  /\ ToSet(l) = {q \in F : HwqOf[q] = h}
  /\ IsInjective(l)

\* tx_lock is free between passes only.
FreeIsIdle == lock = None => cursor = End

\* A queue that went while it was listed is on the way of the pass that listed
\* it, which takes it off.
InactiveAhead == \A q \in listed \ active : AtOrBefore(list[HwqOf[q]], cursor, q)

LInv == ListTypes /\ ListSound /\ FreeIsIdle /\ InactiveAhead /\ ListedHasServer

LEMMA ListsAgree ==
  ASSUME TypeOK, ListTypes
  PROVE  /\ ListSound <=> /\ \A h \in Hwqs : Agrees(list[h], h, listed)
                          /\ cursor # End => cursor \in listed
                          /\ \A q \in listed \cap active : len[q] > 0
         /\ ListedHasServer <=>
              \A q \in listed \ adrift :
                \/ /\ HwqOf[q] \in need
                   /\ tasklet \/ (lock = Task /\ HwqOf[q] \in todo)
                \/ AtOrBefore(list[HwqOf[q]], cursor, q)
<1>1. \A h \in Hwqs : list[h] \in Seq(Txqs)
  BY DEF ListTypes
<1> QED
  BY <1>1 DEF ListSound, Agrees, ListedHasServer, AtOrBefore

\* Both orders name every queue once.
LEMMA Orders ==
  /\ Ascending \in Seq(Txqs) /\ ToSet(Ascending) = Txqs /\ IsInjective(Ascending)
  /\ Descending \in Seq(Txqs) /\ ToSet(Descending) = Txqs /\ IsInjective(Descending)
<1>1. NumTxqs \in Nat
  BY SizesAssumption
<1>2. Ascending \in Seq(Txqs) /\ Descending \in Seq(Txqs)
  <2>1. \A i \in 1 .. NumTxqs : i \in Txqs /\ NumTxqs + 1 - i \in Txqs
    BY <1>1 DEF Txqs
  <2> QED
    BY <1>1, <2>1, IsASeq DEF Ascending, Descending
<1>3. ToSet(Ascending) = Txqs /\ IsInjective(Ascending)
  BY <1>1 DEF Ascending, Txqs, ToSet, IsInjective
<1>4. IsInjective(Descending)
  BY <1>1 DEF Descending, Txqs, IsInjective
<1>5. ToSet(Descending) = Txqs
  <2>1. ASSUME NEW q \in Txqs PROVE q \in ToSet(Descending)
    <3>1. NumTxqs + 1 - q \in 1 .. NumTxqs /\ Descending[NumTxqs + 1 - q] = q
      BY <1>1 DEF Descending, Txqs
    <3> QED
      BY <3>1 DEF ToSet, Descending
  <2>2. ToSet(Descending) \subseteq Txqs
    BY <1>1 DEF Descending, Txqs, ToSet
  <2> QED
    BY <2>1, <2>2
<1> QED
  BY <1>2, <1>3, <1>4, <1>5

\* The elements of two lists one after the other.
LEMMA ConcatElements ==
  ASSUME NEW A, NEW s \in Seq(A), NEW t \in Seq(A)
  PROVE  /\ s \o t \in Seq(A) /\ ToSet(s \o t) = ToSet(s) \cup ToSet(t)
         /\ IsInjective(s) /\ IsInjective(t) /\ ToSet(s) \cap ToSet(t) = {}
              => IsInjective(s \o t)
<1> DEFINE u == s \o t
<1>1. /\ Len(s) \in Nat /\ Len(t) \in Nat /\ u \in Seq(A) /\ Len(u) = Len(s) + Len(t)
      /\ DOMAIN s = 1 .. Len(s) /\ DOMAIN t = 1 .. Len(t) /\ DOMAIN u = 1 .. Len(u)
      /\ \A i \in 1 .. Len(s) + Len(t) : u[i] = IF i <= Len(s) THEN s[i] ELSE t[i - Len(s)]
  BY ConcatProperties, LenProperties
<1> HIDE DEF u
<1>2. ToSet(u) \subseteq ToSet(s) \cup ToSet(t)
  <2> SUFFICES ASSUME NEW i \in 1 .. Len(u) PROVE u[i] \in ToSet(s) \cup ToSet(t)
    BY <1>1 DEF ToSet
  <2>1. CASE i <= Len(s)
    BY <1>1, <2>1 DEF ToSet
  <2>2. CASE ~(i <= Len(s))
    <3>1. i - Len(s) \in 1 .. Len(t)
      BY <1>1, <2>2
    <3> QED
      BY <1>1, <2>2, <3>1 DEF ToSet
  <2> QED
    BY <2>1, <2>2
<1>3. ToSet(s) \subseteq ToSet(u)
  BY <1>1 DEF ToSet
<1>4. ToSet(t) \subseteq ToSet(u)
  <2> SUFFICES ASSUME NEW i \in 1 .. Len(t) PROVE t[i] \in ToSet(u)
    BY <1>1 DEF ToSet
  <2>1. i + Len(s) \in 1 .. Len(u) /\ ~(i + Len(s) <= Len(s)) /\ (i + Len(s)) - Len(s) = i
    BY <1>1
  <2> QED
    BY <1>1, <2>1 DEF ToSet
<1>5. ASSUME IsInjective(s), IsInjective(t), ToSet(s) \cap ToSet(t) = {}
      PROVE  IsInjective(u)
  <2> SUFFICES ASSUME NEW i \in 1 .. Len(u), NEW j \in 1 .. Len(u), u[i] = u[j], i < j
               PROVE  FALSE
    BY <1>1 DEF IsInjective
  <2>1. CASE j <= Len(s)
    BY <1>1, <1>5, <2>1 DEF IsInjective
  <2>2. CASE i <= Len(s) /\ ~(j <= Len(s))
    <3>1. j - Len(s) \in 1 .. Len(t)
      BY <1>1, <2>2
    <3>2. u[i] = s[i] /\ i \in 1 .. Len(s) /\ u[j] = t[j - Len(s)]
      BY <1>1, <2>2
    <3>3. u[i] \in ToSet(s) /\ u[j] \in ToSet(t)
      BY <1>1, <3>1, <3>2 DEF ToSet
    <3> QED
      BY <1>5, <3>3
  <2>3. CASE ~(i <= Len(s))
    <3>1. i - Len(s) \in 1 .. Len(t) /\ j - Len(s) \in 1 .. Len(t) /\ i - Len(s) # j - Len(s)
      BY <1>1, <2>3
    <3>2. u[i] = t[i - Len(s)] /\ u[j] = t[j - Len(s)]
      BY <1>1, <2>3
    <3> QED
      BY <1>1, <1>5, <3>1, <3>2 DEF IsInjective
  <2> QED
    BY <1>1, <2>1, <2>2, <2>3
<1> QED
  BY <1>1, <1>2, <1>3, <1>4, <1>5 DEF u

\* A list with the queues of S that were not flagged appended agrees again.
LEMMA ListingAgrees ==
  ASSUME NEW h \in Hwqs, Agrees(list[h], h, listed), NEW S,
         NEW order \in Seq(Txqs), IsInjective(order), S \subseteq ToSet(order)
  PROVE  Agrees(Listing(h, S, order), h, listed \cup S)
<1> DEFINE N == {q \in S \ listed : HwqOf[q] = h}
           k == Kept(order, N)
<1>1. k \in Seq(Txqs) /\ ToSet(k) = ToSet(order) \cap N /\ IsInjective(k)
  BY KeptElements
<1>2. ToSet(k) = N
  BY <1>1
<1>3. Listing(h, S, order) = list[h] \o k
  BY DEF Listing
<1> HIDE DEF k
<1>4. ToSet(list[h]) \cap ToSet(k) = {}
  BY <1>2 DEF Agrees
<1>5. /\ list[h] \o k \in Seq(Txqs) /\ ToSet(list[h] \o k) = ToSet(list[h]) \cup ToSet(k)
      /\ IsInjective(list[h] \o k)
  BY <1>1, <1>4, ConcatElements DEF Agrees
<1> QED
  BY <1>2, <1>3, <1>5 DEF Agrees

\* A list without the queues of S agrees with the flags that are left.
LEMMA KeptAgrees ==
  ASSUME NEW h, NEW F, F \subseteq Txqs, NEW l, Agrees(l, h, F), NEW S
  PROVE  Agrees(Kept(l, Txqs \ S), h, F \ S)
<1>1. /\ Kept(l, Txqs \ S) \in Seq(Txqs) /\ ToSet(Kept(l, Txqs \ S)) = ToSet(l) \cap (Txqs \ S)
      /\ IsInjective(Kept(l, Txqs \ S))
  BY KeptElements DEF Agrees
<1>2. ToSet(l) \cap (Txqs \ S) = {q \in F \ S : HwqOf[q] = h}
  BY DEF Agrees
<1> QED
  BY <1>1, <1>2 DEF Agrees

\* Moving the head of a list to its end keeps its elements, and the order of
\* the others.
LEMMA RotatedAgrees ==
  ASSUME NEW h, NEW F, NEW l, Agrees(l, h, F)
  PROVE  /\ Agrees(Rotated(l), h, F)
         /\ \A q, r : AfterHead(l, q, r) => AtOrBefore(Rotated(l), q, r)
<1>0. Len(l) \in Nat
  BY LenProperties DEF Agrees
<1>1. l \in Seq(Txqs) /\ Len(l) \in Nat /\ DOMAIN l = 1 .. Len(l)
  BY LenProperties DEF Agrees
<1>2. CASE l = <<>>
  BY <1>2, EmptySeq DEF Rotated, AfterHead
<1>3. CASE l # <<>>
  <2> DEFINE m == Rotated(l)
  <2>1. /\ Len(l) > 0 /\ Head(l) = l[1] /\ l[1] \in Txqs /\ Tail(l) \in Seq(Txqs)
        /\ Len(Tail(l)) = Len(l) - 1 /\ \A i \in 1 .. Len(l) - 1 : Tail(l)[i] = l[i + 1]
    BY <1>1, <1>3, HeadTailProperties, EmptySeq, ElementOfSeq
  <2>2. m = Append(Tail(l), Head(l))
    BY <1>3 DEF Rotated
  <2>3. /\ m \in Seq(Txqs) /\ Len(m) = Len(l) /\ m[Len(l)] = l[1] /\ DOMAIN m = 1 .. Len(l)
        /\ \A i \in 1 .. Len(l) - 1 : m[i] = l[i + 1]
    BY <1>1, <2>1, <2>2, AppendProperties, LenProperties
  <2> HIDE DEF m
  <2>4. ASSUME NEW i \in 1 .. Len(l) PROVE m[i] \in ToSet(l) /\ l[i] \in ToSet(m)
    <3>1. m[i] \in ToSet(l)
      <4>1. i = Len(l) \/ (i \in 1 .. Len(l) - 1 /\ i + 1 \in 1 .. Len(l))
        BY <1>0
      <4>2. 1 \in 1 .. Len(l)
        BY <1>0, <2>1
      <4> QED
        BY <1>1, <2>3, <4>1, <4>2 DEF ToSet
    <3>2. l[i] \in ToSet(m)
      <4>1. i = 1 \/ (i - 1 \in 1 .. Len(l) - 1 /\ i - 1 \in 1 .. Len(l) /\ (i - 1) + 1 = i)
        BY <1>0
      <4>2. Len(l) \in 1 .. Len(l)
        BY <1>0, <2>1
      <4> QED
        BY <2>3, <4>1, <4>2 DEF ToSet
    <3> QED
      BY <3>1, <3>2
  <2>5. ToSet(m) = ToSet(l)
    BY <1>1, <2>3, <2>4 DEF ToSet
  <2>6. IsInjective(m)
    <3> SUFFICES ASSUME NEW i \in 1 .. Len(l), NEW j \in 1 .. Len(l), m[i] = m[j], i < j
                 PROVE  FALSE
      BY <1>1, <2>3 DEF IsInjective
    <3>0. \A a, b \in 1 .. Len(l) : l[a] = l[b] => a = b
      BY <1>1 DEF Agrees, IsInjective
    <3>1. i \in 1 .. Len(l) - 1 /\ i + 1 \in 1 .. Len(l) /\ 1 \in 1 .. Len(l)
      BY <1>0, <2>1
    <3>2. CASE j = Len(l)
      <4>1. l[i + 1] = l[1]
        BY <2>3, <3>1, <3>2
      <4>2. i + 1 = 1
        BY <3>0, <3>1, <4>1
      <4> QED
        BY <4>2
    <3>3. CASE j # Len(l)
      <4>1. j \in 1 .. Len(l) - 1 /\ j + 1 \in 1 .. Len(l)
        BY <1>0, <3>3
      <4>2. l[i + 1] = l[j + 1]
        BY <2>3, <3>1, <4>1
      <4>3. i + 1 = j + 1
        BY <3>0, <3>1, <4>1, <4>2
      <4> QED
        BY <4>3
    <3> QED
      BY <3>2, <3>3
  <2>7. ASSUME NEW q, NEW r, AfterHead(l, q, r) PROVE AtOrBefore(m, q, r)
    <3>1. PICK i \in 1 .. Len(l) - 1, j \in 1 .. Len(l) - 1 :
            l[i + 1] = q /\ l[j + 1] = r /\ i <= j
      BY <2>7 DEF AfterHead
    <3>2. i \in 1 .. Len(m) /\ j \in 1 .. Len(m)
      BY <1>0, <2>3
    <3>3. m[i] = q /\ m[j] = r
      BY <2>3, <3>1
    <3> QED
      BY <3>1, <3>2, <3>3 DEF AtOrBefore
  <2> QED
    BY <2>3, <2>5, <2>6, <2>7 DEF Agrees, m
<1> QED
  BY <1>2, <1>3

\* A pass that begins at the first queue of a list has all of it before it.
LEMMA FirstServes ==
  ASSUME NEW l \in Seq(Txqs), NEW n, IsFirst(l, n)
  PROVE  /\ n = End \/ n \in ToSet(l)
         /\ \A r \in ToSet(l) : AtOrBefore(l, n, r)
<1>1. Len(l) \in Nat /\ DOMAIN l = 1 .. Len(l)
  BY LenProperties
<1>2. CASE l = <<>>
  BY <1>2, EmptySeq DEF IsFirst, ToSet
<1>3. CASE l # <<>>
  <2>1. 1 \in 1 .. Len(l) /\ n = l[1]
    BY <1>1, <1>3, HeadTailProperties, EmptySeq DEF IsFirst
  <2> QED
    BY <1>1, <2>1 DEF ToSet, AtOrBefore
<1> QED
  BY <1>2, <1>3

\* A pass that goes on from c to n has everything but c before it.
LEMMA NextServes ==
  ASSUME NEW l \in Seq(Txqs), IsInjective(l), NEW c \in ToSet(l), NEW n, Follows(l, c, n)
  PROVE  /\ n = End \/ (n \in ToSet(l) /\ n # c)
         /\ \A r \in ToSet(l) : AtOrBefore(l, c, r) /\ r # c => AfterHead(l, n, r)
<1>1. Len(l) \in Nat
  BY LenProperties
<1>2. DOMAIN l = 1 .. Len(l)
  BY LenProperties
<1>3. \A a, b \in 1 .. Len(l) : l[a] = l[b] => a = b
  BY <1>2 DEF IsInjective
<1>4. PICK k \in 1 .. Len(l) : l[k] = c
  BY <1>2 DEF ToSet
<1>5. \/ n = End /\ k = Len(l)
      \/ k + 1 \in 1 .. Len(l) /\ l[k + 1] = n
  <2>1. ASSUME n = End, Last(l) = c PROVE k = Len(l)
    <3>1. Len(l) \in 1 .. Len(l) /\ l[Len(l)] = c
      BY <1>1, <1>4, <2>1 DEF Last
    <3> QED
      BY <1>3, <1>4, <3>1
  <2>2. ASSUME NEW i \in 1 .. Len(l) - 1, l[i] = c, l[i + 1] = n
        PROVE  k + 1 \in 1 .. Len(l) /\ l[k + 1] = n
    <3>1. i \in 1 .. Len(l) /\ i + 1 \in 1 .. Len(l)
      BY <1>1
    <3>2. i = k
      BY <1>3, <1>4, <2>2, <3>1
    <3> QED
      BY <2>2, <3>1, <3>2
  <2> QED
    BY <2>1, <2>2 DEF Follows
<1>6. n = End \/ (n \in ToSet(l) /\ n # c)
  <2> SUFFICES ASSUME k + 1 \in 1 .. Len(l), l[k + 1] = n PROVE n \in ToSet(l) /\ n # c
    BY <1>5
  <2>1. n \in ToSet(l)
    BY <1>2 DEF ToSet
  <2>2. k + 1 # k
    BY <1>1
  <2> QED
    BY <1>3, <1>4, <2>1, <2>2
<1>7. ASSUME NEW r \in ToSet(l), AtOrBefore(l, c, r), r # c
      PROVE  AfterHead(l, n, r)
  <2>1. PICK x \in 1 .. Len(l), j \in 1 .. Len(l) : l[x] = c /\ l[j] = r /\ x <= j
    BY <1>7 DEF AtOrBefore
  <2>2. x = k /\ j # k
    BY <1>3, <1>4, <1>7, <2>1
  <2>3. k \in 1 .. Len(l) - 1 /\ j - 1 \in 1 .. Len(l) - 1 /\ k <= j - 1 /\ (j - 1) + 1 = j
    BY <1>1, <2>1, <2>2
  <2>4. l[k + 1] = n
    BY <1>1, <1>5, <2>3
  <2> QED
    BY <2>1, <2>3, <2>4 DEF AfterHead
<1> QED
  BY <1>6, <1>7
LEMMA AddAgrees ==
  ASSUME TypeOK, LInv, NEW S, S \subseteq Txqs, NEW order \in {Ascending, Descending},
         AddToHwList(S, order)
  PROVE  ListTypes' /\ \A h \in Hwqs : Agrees(list'[h], h, listed')
<1>1. list' = [h \in Hwqs |-> Listing(h, S, order)] /\ listed' = listed \cup S
  BY Zenon DEF AddToHwList
<1>2. \A h \in Hwqs : Agrees(list[h], h, listed)
  BY ListsAgree DEF LInv
<1>3. \A h \in Hwqs : Agrees(Listing(h, S, order), h, listed \cup S)
  BY <1>2, Orders, ListingAgrees
<1> QED
  BY <1>1, <1>3 DEF ListTypes, Agrees

LEMMA DelAgrees ==
  ASSUME TypeOK, LInv, NEW S, DelFromHwList(S)
  PROVE  ListTypes' /\ \A h \in Hwqs : Agrees(list'[h], h, listed')
<1>1. list' = [h \in Hwqs |-> Kept(list[h], Txqs \ S)] /\ listed' = listed \ S
  BY Zenon DEF DelFromHwList
<1>2. \A h \in Hwqs : Agrees(list[h], h, listed)
  BY ListsAgree DEF LInv
<1>3. \A h \in Hwqs : Agrees(Kept(list[h], Txqs \ S), h, listed \ S)
  BY <1>2, KeptAgrees DEF TypeOK
<1> QED
  BY <1>1, <1>3 DEF ListTypes, Agrees

\* Nobody comes before or after the queue that is none.
LEMMA NoneBefore ==
  ASSUME NEW l \in Seq(Txqs), NEW q
  PROVE  ~AtOrBefore(l, End, q)
<1>1. \A i \in 1 .. Len(l) : l[i] \in Txqs
  BY ElementOfSeq
<1>2. End \notin Txqs
  BY DEF End, Txqs
<1> QED
  BY <1>1, <1>2 DEF AtOrBefore

\* While no pass is going on no queue that went is listed, and what is listed
\* waits for the tasklet.
LEMMA BetweenPasses ==
  ASSUME TypeOK, LInv, cursor = End
  PROVE  /\ listed \subseteq active
         /\ \A q \in listed \ adrift :
              HwqOf[q] \in need /\ (tasklet \/ (lock = Task /\ HwqOf[q] \in todo))
<1>1. \A q \in Txqs : list[HwqOf[q]] \in Seq(Txqs)
  BY SizesAssumption DEF LInv, ListTypes
<1>2. \A q \in listed : q \in Txqs /\ ~AtOrBefore(list[HwqOf[q]], cursor, q)
  BY <1>1, NoneBefore DEF TypeOK
<1> QED
  BY <1>2, ListsAgree DEF LInv, InactiveAhead

\* What to show of the lists after a step.
LEMMA ListsAfter ==
  ASSUME TypeOK', \A h \in Hwqs : Agrees(list'[h], h, listed'), ListTypes',
         lock' = None => cursor' = End,
         cursor' # End => cursor' \in listed',
         \A q \in listed' \cap active' : len'[q] > 0,
         \A q \in listed' \ active' : AtOrBefore(list'[HwqOf[q]], cursor', q),
         \A q \in listed' \ adrift' :
           \/ /\ HwqOf[q] \in need'
              /\ tasklet' \/ (lock' = Task /\ HwqOf[q] \in todo')
           \/ AtOrBefore(list'[HwqOf[q]], cursor', q)
  PROVE  LInv'
<1>1. ListSound'
  BY DEF ListSound, Agrees
<1>2. FreeIsIdle' /\ InactiveAhead'
  BY DEF FreeIsIdle, InactiveAhead
<1>3. ListedHasServer'
  BY DEF ListedHasServer, AtOrBefore
<1> QED
  BY <1>1, <1>2, <1>3 DEF LInv

\* The handler of an indication finds and leaves the lists between passes.
LEMMA HandlerLists ==
  ASSUME TypeOK', ListTypes', \A h \in Hwqs : Agrees(list'[h], h, listed'),
         cursor' = End,
         listed' \subseteq active', \A q \in listed' : len'[q] > 0,
         \A q \in listed' \ adrift' : HwqOf[q] \in need' /\ tasklet'
  PROVE  LInv'
BY ListsAfter

\* A step that leaves the lists and the pass alone.
LEMMA QuietLists ==
  ASSUME TypeOK', LInv,
         UNCHANGED <<listed, list, need, lock, todo, cursor, active, adrift, tasklet>>,
         \A q \in listed \cap active : len'[q] = len[q]
  PROVE  LInv'
<1>1. ListSound' /\ ListTypes'
  BY DEF LInv, ListSound, ListTypes
<1>2. FreeIsIdle' /\ InactiveAhead' /\ ListedHasServer'
  BY DEF LInv, FreeIsIdle, InactiveAhead, ListedHasServer, AtOrBefore
<1> QED
  BY <1>1, <1>2 DEF LInv

LEMMA LInvInit == Init => LInv
<1> SUFFICES ASSUME Init PROVE LInv
  OBVIOUS
<1>1. \A h \in Hwqs : list[h] = <<>>
  BY DEF Init
<1>2. ListTypes
  BY EmptySeq DEF Init, ListTypes
<1>3. ListSound
  BY <1>1, EmptySeq DEF Init, ListSound, ToSet, IsInjective
<1> QED
  BY <1>2, <1>3 DEF Init, LInv, FreeIsIdle, InactiveAhead, ListedHasServer

LEMMA XmitCheckLists ==
  ASSUME IInv', LInv, NEW s \in Senders, xmit_check(s)
  PROVE  LInv'
BY QuietLists DEF IInv, xmit_check, queueVars, listVars, passVars, historyVars

\* The frame's queue is listed and a pass over its list begins.
LEMMA QueueSkbLists ==
  ASSUME IInv, IInv', LInv, NEW s \in Senders, queue_skb(s)
  PROVE  LInv'
<1> DEFINE q == at[s]
           h == HwqOf[q]
<1>1. /\ q \in Txqs /\ h \in Hwqs /\ lock = None /\ active' = active /\ tasklet' = tasklet
      /\ adrift' = adrift /\ todo' = todo /\ len' = [len EXCEPT ![q] = @ + 1]
  BY SizesAssumption DEF queue_skb, IInv, TypeOK, historyVars
<1>2. cursor = End /\ TypeOK
  BY <1>1 DEF LInv, FreeIsIdle, IInv
<1>3. /\ listed \subseteq active
      /\ \A r \in listed \ adrift : HwqOf[r] \in need /\ tasklet
  BY <1>1, <1>2, BetweenPasses, HoldersAssumption
<1>4. \A r \in Txqs : len'[r] = IF r = q THEN len[q] + 1 ELSE len[r]
  BY <1>1, <1>2 DEF TypeOK
<1>5. \A g \in Hwqs : Agrees(list[g], g, listed)
  BY <1>2, ListsAgree DEF LInv
<1>6. \A r \in listed : r \in active /\ len[r] > 0 /\ r \in Txqs
  BY <1>2, <1>3 DEF LInv, ListSound, TypeOK
<1>7. CASE stops[q] # {} /\ UNCHANGED <<listed, listVars, lock, cursor>>
  <2>1. \A r \in listed : len'[r] > 0
    BY <1>2, <1>4, <1>6 DEF TypeOK
  <2> QED
    BY <1>1, <1>2, <1>3, <1>5, <1>7, <2>1, HandlerLists DEF IInv, LInv, ListTypes, listVars
<1>8. CASE /\ listed' = listed \cup {q}
           /\ list' = [list EXCEPT ![h] = Listing(h, {q}, <<q>>)]
           /\ need' = need \ {h} /\ lock' = s
           /\ cursor' \in Txqs /\ IsFirst(list'[h], cursor')
  <2>1. <<q>> \in Seq(Txqs) /\ ToSet(<<q>>) = {q} /\ IsInjective(<<q>>)
    BY <1>1 DEF ToSet, IsInjective
  <2>2. Agrees(Listing(h, {q}, <<q>>), h, listed')
    BY <1>1, <1>5, <1>8, <2>1, ListingAgrees
  <2>3. /\ list' \in [Hwqs -> Seq(Txqs)] /\ list'[h] = Listing(h, {q}, <<q>>)
        /\ \A g \in Hwqs : g # h => list'[g] = list[g]
    BY <1>1, <1>8, <2>2 DEF LInv, ListTypes, Agrees
  <2>4. \A g \in Hwqs : Agrees(list'[g], g, listed')
    BY <1>5, <1>8, <2>2, <2>3 DEF Agrees
  <2>5. /\ cursor' \in ToSet(list'[h])
        /\ \A r \in ToSet(list'[h]) : AtOrBefore(list'[h], cursor', r)
    <3>1. cursor' # End
      BY <1>8 DEF Txqs, End
    <3> QED
      BY <1>1, <1>8, <2>3, <3>1, FirstServes
  <2>6. \A r \in listed' : HwqOf[r] = h => AtOrBefore(list'[HwqOf[r]], cursor', r)
    BY <1>1, <2>4, <2>5 DEF Agrees
  <2>7. cursor' \in listed'
    BY <1>1, <2>4, <2>5 DEF Agrees
  <2>8. \A r \in listed' \cap active' : len'[r] > 0
    BY <1>1, <1>2, <1>4, <1>6, <1>8 DEF TypeOK
  <2>9. \A r \in listed' \ active' : r = q
    BY <1>1, <1>3, <1>8
  <2>10. \A r \in listed' \ adrift' :
           \/ HwqOf[r] \in need' /\ tasklet'
           \/ AtOrBefore(list'[HwqOf[r]], cursor', r)
    BY <1>1, <1>3, <1>8, <2>6
  <2>11. lock' # None /\ \A r \in listed' \ active' : AtOrBefore(list'[HwqOf[r]], cursor', r)
    BY <1>8, <2>6, <2>9, HoldersAssumption
  <2>12. TypeOK' /\ ListTypes'
    BY <2>3 DEF IInv, ListTypes
  <2> QED
    BY <2>4, <2>7, <2>8, <2>10, <2>11, <2>12, ListsAfter
<1> QED
  BY <1>7, <1>8, Zenon DEF queue_skb

\* What stands between the queue a pass leaves and another stays so.
LEMMA PassesOn ==
  ASSUME TypeOK, LInv, cursor \in Txqs, NEW l, l = list[HwqOf[cursor]],
         NEW n, Follows(l, cursor, n)
  PROVE  /\ n = End \/ (n \in listed /\ n # cursor)
         /\ \A r \in listed : HwqOf[r] = HwqOf[cursor] /\ r # cursor /\ AtOrBefore(l, cursor, r) =>
              AfterHead(l, n, r)
         /\ \A r \in listed : HwqOf[r] # HwqOf[cursor] => ~AtOrBefore(list[HwqOf[r]], cursor, r)
<1>1. \A g \in Hwqs : Agrees(list[g], g, listed)
  BY ListsAgree DEF LInv
<1>2. \A r \in Txqs : HwqOf[r] \in Hwqs
  BY SizesAssumption
<1>3. cursor \in listed /\ listed \subseteq Txqs
  BY DEF LInv, ListSound, TypeOK, Txqs, End
<1>4. l \in Seq(Txqs) /\ IsInjective(l) /\ ToSet(l) = {q \in listed : HwqOf[q] = HwqOf[cursor]}
  BY <1>1, <1>2 DEF Agrees
<1>5. cursor \in ToSet(l)
  BY <1>3, <1>4
<1>6. /\ n = End \/ (n \in ToSet(l) /\ n # cursor)
      /\ \A r \in ToSet(l) : AtOrBefore(l, cursor, r) /\ r # cursor => AfterHead(l, n, r)
  BY <1>4, <1>5, NextServes
<1>7. ASSUME NEW r \in listed, HwqOf[r] # HwqOf[cursor], AtOrBefore(list[HwqOf[r]], cursor, r)
      PROVE  FALSE
  <2>1. Agrees(list[HwqOf[r]], HwqOf[r], listed)
    BY <1>1, <1>2, <1>3
  <2>2. cursor \in ToSet(list[HwqOf[r]])
    BY <1>7, <2>1, LenProperties DEF AtOrBefore, ToSet, Agrees
  <2> QED
    BY <1>7, <2>1, <2>2 DEF Agrees
<1> QED
  BY <1>4, <1>6, <1>7

\* With the queue of the pass taken off, those after it are still after it.
LEMMA PassTakesOff ==
  ASSUME TypeOK, LInv, cursor \in Txqs, DelFromHwList({cursor}),
         Follows(list[HwqOf[cursor]], cursor, cursor')
  PROVE  /\ \A r \in listed' : r \in listed /\ r # cursor
         /\ cursor' = End \/ cursor' \in listed'
         /\ \A r \in listed' : AtOrBefore(list[HwqOf[r]], cursor, r) =>
                                AtOrBefore(list'[HwqOf[r]], cursor', r)
<1> DEFINE h == HwqOf[cursor]
           l == list[h]
           T == Txqs \ {cursor}
<1>1. list' = [g \in Hwqs |-> Kept(list[g], Txqs \ {cursor})] /\ listed' = listed \ {cursor}
  BY Zenon DEF DelFromHwList
<1>2. h \in Hwqs /\ l \in Seq(Txqs) /\ listed \subseteq Txqs
  BY SizesAssumption DEF LInv, ListTypes, TypeOK
<1>3. list'[h] = Kept(l, T)
  BY <1>1, <1>2
<1> HIDE DEF T
<1>4. /\ cursor' = End \/ (cursor' \in listed /\ cursor' # cursor)
      /\ \A r \in listed : HwqOf[r] = h /\ r # cursor /\ AtOrBefore(l, cursor, r) =>
           AfterHead(l, cursor', r)
      /\ \A r \in listed : HwqOf[r] # h => ~AtOrBefore(list[HwqOf[r]], cursor, r)
  BY PassesOn
<1>5. ASSUME NEW r \in listed', AtOrBefore(list[HwqOf[r]], cursor, r)
      PROVE  AtOrBefore(list'[HwqOf[r]], cursor', r)
  <2>1. HwqOf[r] = h /\ r \in listed /\ r # cursor
    BY <1>1, <1>4, <1>5
  <2>2. AfterHead(l, cursor', r)
    BY <1>4, <1>5, <2>1
  <2> HIDE DEF l
  <2>3. AtOrBefore(l, cursor', r) /\ cursor' \in Txqs
    BY <1>2, <2>2, AfterHeadIsAfter
  <2>4. cursor' \in T /\ r \in T
    <3>1. cursor' # cursor
      BY <1>4, <2>3 DEF Txqs, End
    <3> QED
      BY <1>2, <2>1, <2>3, <3>1 DEF T
  <2>5. AtOrBefore(Kept(l, T), cursor', r)
    BY <1>2, <2>3, <2>4, KeptOrder
  <2> QED
    BY <1>3, <2>1, <2>5
<1> QED
  BY <1>1, <1>4, <1>5

LEMMA ProcessTxqLists ==
  ASSUME IInv, IInv', LInv, process_txq
  PROVE  LInv'
<1> DEFINE c == cursor
           h == HwqOf[c]
<1>1. /\ c \in active /\ Push(c) /\ Schedule(c) /\ Follows(list[h], c, cursor')
      /\ active' = active /\ need' = need /\ lock' = lock /\ todo' = todo /\ tasklet' = tasklet
      /\ adrift' = IF Finished(c) THEN adrift \ {c} ELSE adrift \cup {c}
  BY Zenon DEF process_txq
<1>2. TypeOK /\ TypeOK' /\ c \in Txqs /\ h \in Hwqs /\ c # End
  <2>1. TypeOK /\ TypeOK' /\ c \in Txqs
    BY <1>1 DEF IInv, TypeOK
  <2> QED
    BY <2>1, SizesAssumption DEF Txqs, End
<1>3. lock # None
  BY <1>2 DEF LInv, FreeIsIdle
<1>4. /\ \A g \in Hwqs : Agrees(list[g], g, listed)
      /\ \A r \in listed \cap active : len[r] > 0
      /\ c \in listed
      /\ \A r \in listed \ adrift :
           \/ HwqOf[r] \in need /\ (tasklet \/ (lock = Task /\ HwqOf[r] \in todo))
           \/ AtOrBefore(list[HwqOf[r]], c, r)
  BY <1>2, ListsAgree DEF LInv
<1>5. \A r \in listed \ active : AtOrBefore(list[HwqOf[r]], c, r) /\ r # c
  BY <1>1 DEF LInv, InactiveAhead
<1>6. len' = [len EXCEPT ![c] = @ - Taken(c)]
  BY <1>1, Zenon DEF Push
<1>7. \A r \in listed \cap active : r # c => len'[r] > 0
  BY <1>2, <1>4, <1>6 DEF TypeOK
<1>8. CASE Finished(c)
  <2>1. DelFromHwList({c})
    BY <1>1, <1>8, Zenon DEF Schedule
  <2>2. ListTypes' /\ \A g \in Hwqs : Agrees(list'[g], g, listed')
    BY <1>2, <2>1, DelAgrees
  <2>3. /\ \A r \in listed' : r \in listed /\ r # cursor
        /\ cursor' = End \/ cursor' \in listed'
        /\ \A r \in listed' : AtOrBefore(list[HwqOf[r]], cursor, r) =>
                               AtOrBefore(list'[HwqOf[r]], cursor', r)
    BY <1>1, <1>2, <2>1, PassTakesOff
  <2>4. \A r \in listed' \cap active' : len'[r] > 0
    BY <1>1, <1>7, <2>3
  <2>5. \A r \in listed' \ active' : AtOrBefore(list'[HwqOf[r]], cursor', r)
    BY <1>1, <1>5, <2>3
  <2>6. \A r \in listed' \ adrift' :
          \/ HwqOf[r] \in need' /\ (tasklet' \/ (lock' = Task /\ HwqOf[r] \in todo'))
          \/ AtOrBefore(list'[HwqOf[r]], cursor', r)
    BY <1>1, <1>4, <1>8, <2>3
  <2> QED
    BY <1>1, <1>2, <1>3, <2>2, <2>3, <2>4, <2>5, <2>6, ListsAfter
<1>9. CASE ~Finished(c)
  <2> DEFINE l == list[h]
  <2>1. /\ listed' = listed
        /\ \/ list' = [list EXCEPT ![h] = Rotated(@)]
           \/ list' = list
    <3>1. list' = [list EXCEPT ![h] = IF sent[c] + Taken(c) > HwqSize THEN Rotated(@) ELSE @]
          /\ listed' = listed
      BY <1>1, <1>9, Zenon DEF Schedule
    <3> QED
      BY <1>2, <3>1 DEF LInv, ListTypes
  <2>2. /\ l \in Seq(Txqs) /\ Agrees(Rotated(l), h, listed)
        /\ \A q, r : AfterHead(l, q, r) => AtOrBefore(l, q, r) /\ AtOrBefore(Rotated(l), q, r)
    <3>1. Agrees(l, h, listed)
      BY <1>2, <1>4
    <3> HIDE DEF l
    <3>2. l \in Seq(Txqs)
      BY <3>1 DEF Agrees
    <3> QED
      BY <3>1, <3>2, RotatedAgrees, AfterHeadIsAfter
  <2>3. /\ list' \in [Hwqs -> Seq(Txqs)]
        /\ \A g \in Hwqs : g # h => list'[g] = list[g]
        /\ list'[h] = l \/ list'[h] = Rotated(l)
    BY <1>2, <2>1, <2>2 DEF LInv, ListTypes, Agrees
  <2>4. ListTypes' /\ \A g \in Hwqs : Agrees(list'[g], g, listed')
    BY <1>4, <2>1, <2>2, <2>3 DEF ListTypes
  <2>5. /\ cursor' = End \/ (cursor' \in listed /\ cursor' # cursor)
        /\ \A r \in listed : HwqOf[r] = h /\ r # cursor /\ AtOrBefore(l, cursor, r) =>
             AfterHead(l, cursor', r)
        /\ \A r \in listed : HwqOf[r] # h => ~AtOrBefore(list[HwqOf[r]], cursor, r)
    BY <1>1, <1>2, PassesOn
  <2>6. ASSUME NEW r \in listed, r # c, AtOrBefore(list[HwqOf[r]], c, r)
        PROVE  AtOrBefore(list'[HwqOf[r]], cursor', r)
    <3>1. HwqOf[r] = h
      BY <2>5, <2>6
    <3>2. AfterHead(l, cursor', r)
      BY <2>5, <2>6, <3>1
    <3>3. AtOrBefore(l, cursor', r) /\ AtOrBefore(Rotated(l), cursor', r)
      BY <2>2, <3>2
    <3> QED
      BY <2>3, <3>1, <3>3
  <2>7. \A r \in listed' \cap active' : len'[r] > 0
    <3>1. len'[c] > 0
      BY <1>2, <1>6, <1>9, SizesAssumption DEF TypeOK, Finished, Taken, Allowed
    <3> QED
      BY <1>1, <1>7, <2>1, <3>1
  <2>8. \A r \in listed' \ active' : AtOrBefore(list'[HwqOf[r]], cursor', r)
    BY <1>1, <1>5, <2>1, <2>6
  <2>9. \A r \in listed' \ adrift' :
          \/ HwqOf[r] \in need' /\ (tasklet' \/ (lock' = Task /\ HwqOf[r] \in todo'))
          \/ AtOrBefore(list'[HwqOf[r]], cursor', r)
    BY <1>1, <1>4, <1>9, <2>1, <2>6
  <2> QED
    BY <1>1, <1>2, <1>3, <2>1, <2>4, <2>5, <2>7, <2>8, <2>9, ListsAfter
<1> QED
  BY <1>8, <1>9

LEMMA ProcessInactiveLists ==
  ASSUME IInv, IInv', LInv, process_inactive
  PROVE  LInv'
<1> DEFINE c == cursor
<1>1. /\ c \in Txqs \ active /\ DelFromHwList({c}) /\ Follows(list[HwqOf[c]], c, cursor')
      /\ active' = active /\ need' = need /\ lock' = lock /\ todo' = todo /\ tasklet' = tasklet
      /\ len' = [len EXCEPT ![c] = 0] /\ adrift' = adrift \ {c}
  BY Zenon DEF process_inactive
<1>2. TypeOK /\ TypeOK' /\ c \in Txqs /\ c # End
  BY <1>1 DEF IInv, Txqs, End
<1>3. lock # None
  BY <1>2 DEF LInv, FreeIsIdle
<1>4. /\ \A r \in listed \cap active : len[r] > 0
      /\ \A r \in listed \ adrift :
           \/ HwqOf[r] \in need /\ (tasklet \/ (lock = Task /\ HwqOf[r] \in todo))
           \/ AtOrBefore(list[HwqOf[r]], c, r)
      /\ \A r \in listed \ active : AtOrBefore(list[HwqOf[r]], c, r)
  BY <1>2, ListsAgree DEF LInv, InactiveAhead
<1>5. ListTypes' /\ \A g \in Hwqs : Agrees(list'[g], g, listed')
  BY <1>1, <1>2, DelAgrees
<1>6. /\ \A r \in listed' : r \in listed /\ r # cursor
      /\ cursor' = End \/ cursor' \in listed'
      /\ \A r \in listed' : AtOrBefore(list[HwqOf[r]], cursor, r) =>
                             AtOrBefore(list'[HwqOf[r]], cursor', r)
  BY <1>1, <1>2, PassTakesOff
<1>7. \A r \in listed' \cap active' : len'[r] > 0
  BY <1>1, <1>2, <1>4, <1>6 DEF TypeOK
<1>8. \A r \in listed' \ active' : AtOrBefore(list'[HwqOf[r]], cursor', r)
  BY <1>1, <1>4, <1>6
<1>9. \A r \in listed' \ adrift' :
        \/ HwqOf[r] \in need' /\ (tasklet' \/ (lock' = Task /\ HwqOf[r] \in todo'))
        \/ AtOrBefore(list'[HwqOf[r]], cursor', r)
  BY <1>1, <1>4, <1>6
<1> QED
  BY <1>1, <1>2, <1>3, <1>5, <1>6, <1>7, <1>8, <1>9, ListsAfter

\* The tasklet takes the lists that need it, one after the other.
LEMMA LockLists ==
  ASSUME IInv, IInv', LInv, task_start \/ task_next \/ \E s \in Senders : xmit_done(s)
  PROVE  LInv'
<1>1. /\ TypeOK /\ TypeOK' /\ UNCHANGED <<active, listed, len, list, adrift>>
  BY DEF IInv, task_start, task_next, xmit_done, queueVars, listVars, historyVars
<1>2. ListTypes' /\ \A g \in Hwqs : Agrees(list'[g], g, listed')
  BY <1>1, ListsAgree DEF LInv, ListTypes
<1>3. \A q \in listed' \cap active' : len'[q] > 0
  BY <1>1 DEF LInv, ListSound
<1>4. cursor = End
  <2>1. CASE task_start
    BY <2>1 DEF LInv, FreeIsIdle, task_start
  <2>2. CASE task_next \/ \E s \in Senders : xmit_done(s)
    BY <2>2 DEF task_next, xmit_done
  <2> QED
    BY <2>1, <2>2
<1>5. /\ listed \subseteq active
      /\ \A q \in listed \ adrift :
           HwqOf[q] \in need /\ (tasklet \/ (lock = Task /\ HwqOf[q] \in todo))
  BY <1>1, <1>4, BetweenPasses
<1>6. listed' \subseteq active' /\ listed \subseteq Txqs
  BY <1>1, <1>5 DEF TypeOK
<1>7. CASE task_start
  <2>1. lock' = Task /\ todo' = Hwqs /\ need' = need /\ cursor' = End /\ need \subseteq Hwqs
    BY <1>1, <1>4, <1>7 DEF task_start, listVars, TypeOK
  <2> QED
    BY <1>1, <1>2, <1>3, <1>5, <1>6, <2>1, HoldersAssumption, ListsAfter
<1>8. CASE \E s \in Senders : xmit_done(s)
  <2>1. lock \in Senders /\ need' = need /\ tasklet' = tasklet /\ cursor' = End
    BY <1>4, <1>8 DEF xmit_done, listVars
  <2>2. \A q \in listed' \ adrift' : HwqOf[q] \in need' /\ tasklet'
    BY <1>1, <1>5, <2>1, HoldersAssumption
  <2>3. \A q \in listed' : len'[q] > 0
    BY <1>3, <1>6
  <2> QED
    BY <1>1, <1>2, <1>6, <2>1, <2>2, <2>3, HandlerLists
<1>9. CASE task_next
  <2>1. tasklet' = tasklet /\ lock = Task
    BY <1>9 DEF task_next
  <2>2. CASE todo \cap need = {} /\ need' = need /\ cursor' = cursor
    <3>1. \A q \in listed' \ adrift' : HwqOf[q] \in need' /\ tasklet'
      BY <1>1, <1>5, <2>1, <2>2
    <3>2. \A q \in listed' : len'[q] > 0
      BY <1>3, <1>6
    <3> QED
      BY <1>1, <1>2, <1>4, <1>6, <2>2, <3>1, <3>2, HandlerLists
  <2>3. CASE \E h \in todo \cap need :
               /\ \A g \in todo \cap need : g <= h
               /\ todo' = {g \in todo : g < h}
               /\ need' = need \ {h}
               /\ cursor' \in Txqs \cup {End} /\ IsFirst(list[h], cursor')
               /\ UNCHANGED lock
    <3>1. PICK h \in todo \cap need :
               /\ \A g \in todo \cap need : g <= h
               /\ todo' = {g \in todo : g < h}
               /\ need' = need \ {h}
               /\ cursor' \in Txqs \cup {End} /\ IsFirst(list[h], cursor')
               /\ UNCHANGED lock
      BY <2>3
    <3>2. h \in Hwqs /\ h \in Int /\ list[h] \in Seq(Txqs) /\ todo \subseteq Hwqs
          /\ \A g \in Hwqs : g \in Int
      BY <1>1, SizesAssumption DEF TypeOK, Hwqs, LInv, ListTypes
    <3>3. /\ cursor' = End \/ cursor' \in ToSet(list[h])
          /\ \A r \in ToSet(list[h]) : AtOrBefore(list[h], cursor', r)
      BY <3>1, <3>2, FirstServes
    <3>4. ToSet(list[h]) = {q \in listed : HwqOf[q] = h}
      BY <1>1, <1>2, <3>2 DEF Agrees
    <3>5. lock' = Task /\ Task # None
      BY <2>1, <3>1, HoldersAssumption
    <3>6. \A r \in listed' \ adrift' :
            \/ /\ HwqOf[r] \in need'
               /\ tasklet' \/ (lock' = Task /\ HwqOf[r] \in todo')
            \/ AtOrBefore(list'[HwqOf[r]], cursor', r)
      <4> SUFFICES ASSUME NEW r \in listed \ adrift, HwqOf[r] # h
                   PROVE  /\ HwqOf[r] \in need'
                          /\ tasklet' \/ (lock' = Task /\ HwqOf[r] \in todo')
        BY <1>1, <3>3, <3>4
      <4>1. HwqOf[r] \in need /\ (tasklet \/ HwqOf[r] \in todo)
        BY <1>5
      <4>2. HwqOf[r] \in todo => HwqOf[r] < h
        <5> SUFFICES ASSUME HwqOf[r] \in todo PROVE HwqOf[r] < h
          OBVIOUS
        <5>1. HwqOf[r] \in todo \cap need
          BY <4>1
        <5>2. HwqOf[r] <= h
          BY <3>1, <5>1
        <5>3. HwqOf[r] \in Int /\ HwqOf[r] # h
          BY <3>2, <4>1
        <5> QED
          BY <3>2, <5>2, <5>3
      <4> QED
        BY <2>1, <3>1, <3>5, <4>1, <4>2
    <3>7. cursor' # End => cursor' \in listed'
      BY <1>1, <3>3, <3>4
    <3> QED
      BY <1>1, <1>2, <1>3, <1>6, <3>5, <3>6, <3>7, ListsAfter
  <2> QED
    BY <1>9, <2>2, <2>3, Zenon DEF task_next
<1> QED
  BY <1>7, <1>8, <1>9

\* Stopping takes queues off; nothing is left without its server.
LEMMA StopLists ==
  ASSUME IInv, IInv', LInv, NEW S, NEW reason, Stop(S, reason), lock = None,
         UNCHANGED <<active, len, need, lock, cursor, tasklet>>,
         adrift' = adrift \ (S \cap active)
  PROVE  LInv'
<1>1. DelFromHwList(S \cap active) /\ TypeOK /\ TypeOK'
  BY Zenon DEF Stop, IInv
<1>2. listed' = listed \ (S \cap active)
  BY <1>1, DelUnlists
<1>3. ListTypes' /\ \A h \in Hwqs : Agrees(list'[h], h, listed')
  BY <1>1, DelAgrees
<1>4. cursor = End
  BY DEF LInv, FreeIsIdle
<1>5. /\ listed \subseteq active
      /\ \A q \in listed \ adrift : HwqOf[q] \in need /\ tasklet
  BY <1>1, <1>4, BetweenPasses, HoldersAssumption
<1>6. \A q \in listed' : len'[q] > 0
  BY <1>2, <1>5 DEF LInv, ListSound
<1> QED
  BY <1>1, <1>2, <1>3, <1>4, <1>5, <1>6, HandlerLists

\* Listing queues that have frames; the tasklet is told, or they are adrift.
LEMMA AddToLists ==
  ASSUME IInv, IInv', LInv, NEW S, S \subseteq active, \A q \in S : len[q] > 0,
         NEW order \in {Ascending, Descending}, AddToHwList(S, order), lock = None,
         UNCHANGED <<active, len, lock, cursor>>,
         tasklet => tasklet',
         adrift' = IF tasklet' THEN adrift ELSE adrift \cup (listed' \ listed)
  PROVE  LInv'
<1>1. TypeOK /\ TypeOK' /\ S \subseteq Txqs
  BY DEF IInv, TypeOK
<1>2. listed' = listed \cup S /\ need' = need \cup {HwqOf[q] : q \in S \ listed}
  BY AddLists
<1>3. ListTypes' /\ \A h \in Hwqs : Agrees(list'[h], h, listed')
  BY <1>1, AddAgrees
<1>4. cursor = End
  BY DEF LInv, FreeIsIdle
<1>5. /\ listed \subseteq active
      /\ \A q \in listed \ adrift : HwqOf[q] \in need /\ tasklet
  BY <1>1, <1>4, BetweenPasses, HoldersAssumption
<1>6. \A q \in listed' : len'[q] > 0
  BY <1>2, <1>5 DEF LInv, ListSound
<1>7. \A q \in listed' \ adrift' : HwqOf[q] \in need' /\ tasklet'
  BY <1>2, <1>5
<1> QED
  BY <1>1, <1>2, <1>3, <1>4, <1>5, <1>6, <1>7, HandlerLists

\* A valid station has all its queues in use.
UpIsActive == station = "up" => active = Txqs

LEMMA UpIsActiveStep == UpIsActive /\ [Next]_vars => UpIsActive'
<1> SUFFICES ASSUME UpIsActive, [Next]_vars PROVE UpIsActive'
  OBVIOUS
<1>1. CASE \E s \in Senders : Send(s)
  BY <1>1 DEF Send, xmit_check, queue_skb, UpIsActive, queueVars, stationVars
<1>2. CASE Pass \/ task_start
  BY <1>2 DEF Pass, task_start, process_txq, process_inactive, task_next, xmit_done, UpIsActive,
     queueVars, stationVars
<1>3. CASE Sleep
  BY <1>3 DEF Sleep, ps_enable, ps_disable, traffic_req, UpIsActive, stationVars
<1>4. CASE Vif
  BY <1>4 DEF Vif, vif_stop, vif_start, UpIsActive, stationVars
<1>5. CASE Station
  BY <1>5 DEF Station, del_station, txq_deinit, txq_flush, txq_sta_init, UpIsActive
<1>6. CASE bus_busy \/ bus_free
  BY <1>6 DEF bus_busy, bus_free, UpIsActive, queueVars, stationVars
<1>7. CASE UNCHANGED vars
  BY <1>7 DEF vars, UpIsActive, queueVars, stationVars
<1> QED
  BY <1>1, <1>2, <1>3, <1>4, <1>5, <1>6, <1>7 DEF Next

LEMMA SleepLists ==
  ASSUME IInv, IInv', UpIsActive, LInv, Sleep
  PROVE  LInv'
<1>0. active \subseteq Txqs
  BY DEF IInv, TypeOK
<1>1. CASE ps_enable
  <2>1. /\ Stop(Txqs, "STA_PS") /\ lock = None /\ adrift' = adrift \ (Txqs \cap active)
        /\ UNCHANGED <<active, len, need, lock, cursor, tasklet>>
    BY <1>0, <1>1 DEF ps_enable, Handling, passVars
  <2> QED
    BY <2>1, StopLists
<1>2. CASE ps_disable
  <2> DEFINE S == {q \in {r \in Txqs \cap active : "STA_PS" \in stops[r]} :
                      stops[q] = {"STA_PS"} /\ len[q] > 0}
  <2>1. Start(Txqs, "STA_PS")
    BY <1>2 DEF ps_disable
  <2>2. AddToHwList(S, Descending)
    BY <2>1, Zenon DEF Start
  <2>3. /\ lock = None /\ tasklet' /\ adrift' = adrift
        /\ UNCHANGED <<active, len, lock, cursor>>
    BY <1>2 DEF ps_disable, Handling, passVars, historyVars
  <2>4. S \subseteq active /\ \A q \in S : len[q] > 0
    OBVIOUS
  <2> HIDE DEF S
  <2> QED
    BY <2>2, <2>3, <2>4, AddToLists
<1>3. ASSUME NEW n \in 0 .. Credits, traffic_req(n) PROVE LInv'
  <2>1. PICK grant \in [Txqs -> 0 .. Credits] :
          /\ \A q \in Txqs : grant[q] <= Want(q)
          /\ AddToHwList({q \in Txqs : grant[q] > 0}, Ascending)
    BY <1>3 DEF traffic_req
  <2> DEFINE S == {q \in Txqs : grant[q] > 0}
  <2>2. /\ lock = None /\ tasklet' /\ adrift' = adrift /\ station = "up"
        /\ UNCHANGED <<active, len, lock, cursor>>
    BY <1>3 DEF traffic_req, Handling, passVars, historyVars
  <2>3. \A q \in S : len[q] > 0
    BY <2>1, SizesAssumption DEF IInv, TypeOK, Want, Least
  <2>4. S \subseteq active
    BY <2>2 DEF UpIsActive
  <2>5. AddToHwList(S, Ascending)
    BY <2>1
  <2> HIDE DEF S
  <2> QED
    BY <2>2, <2>3, <2>4, <2>5, AddToLists
<1> QED
  BY <1>1, <1>2, <1>3 DEF Sleep

LEMMA VifLists ==
  ASSUME IInv, IInv', LInv, Vif
  PROVE  LInv'
<1>1. ASSUME NEW r \in VifReasons, vif_stop(r) PROVE LInv'
  <2>1. /\ Stop(Attached, r) /\ lock = None /\ adrift' = adrift \ (Attached \cap active)
        /\ UNCHANGED <<active, len, need, lock, cursor, tasklet>>
    BY <1>1 DEF vif_stop, passVars
  <2> QED
    BY <2>1, StopLists
<1>2. ASSUME NEW r \in VifReasons, vif_start(r) PROVE LInv'
  <2> DEFINE S == {q \in {p \in Attached \cap active : r \in stops[p]} :
                      stops[q] = {r} /\ len[q] > 0}
  <2>1. Start(Attached, r)
    BY <1>2 DEF vif_start
  <2>2. AddToHwList(S, Descending)
    BY <2>1, Zenon DEF Start
  <2>3. /\ lock = None /\ tasklet' = (tasklet \/ r = "CHAN")
        /\ adrift' = IF tasklet' THEN adrift ELSE adrift \cup (listed' \ listed)
        /\ UNCHANGED <<active, len, lock, cursor>>
    BY <1>2 DEF vif_start, passVars
  <2>4. S \subseteq active /\ \A q \in S : len[q] > 0
    OBVIOUS
  <2> HIDE DEF S
  <2>5. tasklet => tasklet'
    BY <2>3
  <2> QED
    BY <2>2, <2>3, <2>4, <2>5, AddToLists
<1> QED
  BY <1>1, <1>2 DEF Vif

\* Every queue is off the lists before the station comes back.
LEMMA StationLists ==
  ASSUME IInv, IInv', LInv, Station
  PROVE  LInv'
<1>1. CASE del_station
  BY <1>1, QuietLists DEF IInv, del_station, queueVars, listVars, passVars, historyVars
<1>2. CASE txq_deinit
  <2>1. PICK q \in active : /\ DelFromHwList({q}) /\ active' = active \ {q}
                            /\ adrift' = adrift \ {q}
    BY <1>2 DEF txq_deinit
  <2>2. lock = None /\ cursor' = cursor /\ UNCHANGED <<len, need, tasklet>>
    BY <1>2 DEF txq_deinit, passVars
  <2>3. cursor = End /\ TypeOK /\ TypeOK'
    BY <2>2 DEF LInv, FreeIsIdle, IInv
  <2>4. listed' = listed \ {q}
    BY <2>1, DelUnlists
  <2>5. ListTypes' /\ \A h \in Hwqs : Agrees(list'[h], h, listed')
    BY <2>1, <2>3, DelAgrees
  <2>6. /\ listed \subseteq active
        /\ \A r \in listed \ adrift : HwqOf[r] \in need /\ tasklet
    BY <2>2, <2>3, BetweenPasses, HoldersAssumption
  <2>7. \A r \in listed' : len'[r] > 0
    BY <2>2, <2>4, <2>6 DEF LInv, ListSound
  <2> QED
    BY <2>1, <2>2, <2>3, <2>4, <2>5, <2>6, <2>7, HandlerLists
<1>3. CASE txq_flush
  <2>1. \A q \in listed \cap active : len'[q] = len[q]
    BY <1>3 DEF txq_flush, IInv, TypeOK, FlushedIsGone
  <2> QED
    BY <1>3, <2>1, QuietLists DEF IInv, txq_flush, listVars, passVars, historyVars
<1>4. CASE txq_sta_init
  <2>1. /\ lock = None /\ active = {} /\ listed' = {} /\ UNCHANGED <<list, cursor>>
    BY <1>4 DEF txq_sta_init, listVars, passVars
  <2>2. cursor = End /\ TypeOK /\ TypeOK'
    BY <2>1 DEF LInv, FreeIsIdle, IInv
  <2>3. listed = {}
    BY <2>1, <2>2, BetweenPasses
  <2>4. ListTypes' /\ \A h \in Hwqs : Agrees(list'[h], h, listed')
    BY <2>1, <2>2, <2>3, ListsAgree DEF LInv, ListTypes
  <2> QED
    BY <2>1, <2>2, <2>4, HandlerLists
<1> QED
  BY <1>1, <1>2, <1>3, <1>4 DEF Station

LEMMA ListsStep == IInv /\ IInv' /\ UpIsActive /\ LInv /\ [Next]_vars => LInv'
<1> SUFFICES ASSUME IInv, IInv', UpIsActive, LInv, [Next]_vars PROVE LInv'
  OBVIOUS
<1>1. CASE \E s \in Senders : Send(s)
  BY <1>1, XmitCheckLists, QueueSkbLists DEF Send
<1>2. CASE Pass \/ task_start
  BY <1>2, ProcessTxqLists, ProcessInactiveLists, LockLists DEF Pass
<1>3. CASE Sleep
  BY <1>3, SleepLists
<1>4. CASE Vif
  BY <1>4, VifLists
<1>5. CASE Station
  BY <1>5, StationLists
<1>6. CASE bus_busy \/ bus_free
  <2>1. UNCHANGED <<listed, list, need, lock, todo, cursor, active, adrift, tasklet, len>>
    BY <1>6 DEF bus_busy, bus_free, queueVars, listVars, passVars, historyVars
  <2> QED
    BY <2>1, QuietLists DEF IInv
<1>7. CASE UNCHANGED vars
  BY <1>7, QuietLists DEF IInv, vars, queueVars, listVars, passVars, historyVars
<1> QED
  BY <1>1, <1>2, <1>3, <1>4, <1>5, <1>6, <1>7 DEF Next

-----------------------------------------------------------------------------
(* The counters of a service period. *)

\* A valid station that is awake has no service period open.
AwakeNoLimit == station = "up" /\ ~ps => \A q \in Txqs : limit[q] = 0

SInv == AwakeNoLimit /\ SpAccounted

\* A step that leaves the frames and the counters alone.
LEMMA QuietCounters ==
  ASSUME SInv, station' = "up" => station = "up",
         UNCHANGED <<len, limit, ps, pkt_ready, sp_cnt>>
  PROVE  SInv'
<1>1. AwakeNoLimit'
  BY DEF SInv, AwakeNoLimit
<1>2. SpAccounted'
  BY DEF SInv, SpAccounted
<1> QED
  BY <1>1, <1>2 DEF SInv

\* A frame more is one more the station is told of.
LEMMA QueueSkbCounts ==
  ASSUME IInv, SInv, NEW s \in Senders, queue_skb(s)
  PROVE  SInv'
<1> DEFINE q == at[s]
<1>1. /\ q \in Txqs /\ UNCHANGED <<limit, station, ps, sp_cnt>>
      /\ len' = [len EXCEPT ![q] = len[q] + 1]
      /\ pkt_ready' = IF ps THEN pkt_ready + 1 ELSE pkt_ready
  BY DEF queue_skb, IInv, TypeOK, stationVars
<1>2. len \in [Txqs -> Nat] /\ limit \in [Txqs -> Nat] /\ len[q] \in Nat
  BY <1>1 DEF IInv, TypeOK
<1>3. Total(len') = Total(len) + 1 /\ Total(len) \in Nat
  <2>0. len[q] + 1 \in Nat
    BY <1>2
  <2>1. Total(len') = Total(len) - len[q] + (len[q] + 1)
    BY <1>1, <1>2, <2>0, TotalExcept
  <2>2. Total(len) \in Nat
    BY <1>2, TotalZero
  <2> QED
    BY <1>2, <2>1, <2>2
<1>4. AwakeNoLimit'
  BY <1>1 DEF SInv, AwakeNoLimit
<1>5. SpAccounted'
  <2> SUFFICES ASSUME ps, station = "up"
               PROVE  /\ pkt_ready' = Total(len') /\ sp_cnt' = Total(limit')
                      /\ \A r \in Txqs : limit'[r] <= len'[r]
    BY <1>1 DEF SpAccounted
  <2>1. pkt_ready = Total(len) /\ sp_cnt = Total(limit) /\ \A r \in Txqs : limit[r] <= len[r]
    BY DEF SInv, SpAccounted
  <2>2. \A r \in Txqs : limit'[r] <= len'[r]
    BY <1>1, <1>2, <2>1
  <2> QED
    BY <1>1, <1>3, <2>1, <2>2
<1> QED
  BY <1>4, <1>5 DEF SInv

\* A pass over a sleeping station's queue takes what the queue was granted,
\* and takes it from both counters.
LEMMA ProcessTxqCounts ==
  ASSUME IInv, LInv, SInv, process_txq
  PROVE  SInv'
<1> DEFINE q == cursor
           n == Taken(q)
           left == limit[q] - Least(n, limit[q])
<1>1. /\ q \in Txqs /\ q \in active /\ q \in listed /\ q # End
      /\ UNCHANGED <<station, ps>> /\ Push(q)
  <2>1. q \in active /\ UNCHANGED <<station, ps>> /\ Push(q)
    BY Zenon DEF process_txq, stationVars
  <2>2. q \in Txqs /\ q # End
    BY <2>1 DEF IInv, TypeOK, Txqs, End
  <2> QED
    BY <2>1, <2>2 DEF LInv, ListSound
<1>2. /\ len' = [len EXCEPT ![q] = len[q] - n] /\ limit' = [limit EXCEPT ![q] = 0]
      /\ pkt_ready' = IF ps THEN pkt_ready - n ELSE pkt_ready
      /\ sp_cnt' = sp_cnt - (IF ps THEN n ELSE 0) - left
  BY <1>1, Zenon DEF Push
<1>3. /\ len \in [Txqs -> Nat] /\ limit \in [Txqs -> Nat]
      /\ len[q] \in Nat /\ limit[q] \in Nat
      /\ Total(len) \in Nat /\ Total(limit) \in Nat
  BY <1>1, TotalZero DEF IInv, TypeOK
<1>4. AwakeNoLimit'
  BY <1>1, <1>2, <1>3 DEF SInv, AwakeNoLimit
<1>5. SpAccounted'
  <2> SUFFICES ASSUME ps, station = "up"
               PROVE  /\ pkt_ready' = Total(len') /\ sp_cnt' = Total(limit')
                      /\ \A r \in Txqs : limit'[r] <= len'[r]
    BY <1>1 DEF SpAccounted
  <2>1. pkt_ready = Total(len) /\ sp_cnt = Total(limit) /\ \A r \in Txqs : limit[r] <= len[r]
    BY DEF SInv, SpAccounted
  <2>2. limit[q] > 0 /\ limit[q] <= Credits
    BY <1>1 DEF IInv, SleepStops, StoppedStaysOff, Limits
  <2>3. n = limit[q] /\ left = 0
    BY <1>1, <1>3, <2>1, <2>2, SizesAssumption DEF Taken, Allowed, Least
  <2>4. len[q] - n \in Nat
    BY <1>1, <1>3, <2>1, <2>3
  <2>5. /\ Total(len') = Total(len) - len[q] + (len[q] - n)
        /\ Total(limit') = Total(limit) - limit[q] + 0
    BY <1>1, <1>2, <1>3, <2>4, TotalExcept
  <2>6. pkt_ready' = pkt_ready - limit[q] /\ sp_cnt' = sp_cnt - limit[q]
    <3>1. pkt_ready' = pkt_ready - n /\ sp_cnt' = sp_cnt - n - left
      BY <1>2
    <3> HIDE DEF n, left
    <3> QED
      BY <1>3, <2>1, <2>3, <3>1
  <2>7. \A r \in Txqs : limit'[r] <= len'[r]
    BY <1>1, <1>2, <1>3, <2>1, <2>3, <2>4
  <2>8. Total(len') = Total(len) - limit[q] /\ Total(limit') = Total(limit) - limit[q]
    BY <1>3, <2>3, <2>5
  <2> QED
    BY <2>1, <2>6, <2>7, <2>8
<1> QED
  BY <1>4, <1>5 DEF SInv

\* The station's requests.
LEMMA SleepCounts ==
  ASSUME IInv, SInv, Sleep
  PROVE  SInv'
<1>0. len \in [Txqs -> Nat] /\ limit \in [Txqs -> Nat]
  BY DEF IInv, TypeOK
<1>1. CASE ps_enable
  <2>1. /\ station = "up" /\ ~ps /\ ps' = TRUE
        /\ sp_cnt' = 0 /\ pkt_ready' = Total(len) /\ UNCHANGED <<len, limit>>
    BY <1>1, Zenon DEF ps_enable, Handling
  <2>2. \A q \in Txqs : limit[q] = 0
    BY <2>1 DEF SInv, AwakeNoLimit
  <2>3. Total(limit) = 0
    BY <1>0, <2>2, TotalZero
  <2>4. \A q \in Txqs : limit'[q] <= len'[q]
    BY <1>0, <2>1, <2>2
  <2>5. pkt_ready' = Total(len') /\ sp_cnt' = Total(limit')
    BY <2>1, <2>3
  <2> QED
    BY <2>1, <2>4, <2>5 DEF SInv, AwakeNoLimit, SpAccounted
<1>2. CASE ps_disable
  <2>1. ps' = FALSE /\ limit' = [q \in Txqs |-> 0]
    BY <1>2, Zenon DEF ps_disable
  <2> QED
    BY <2>1 DEF SInv, AwakeNoLimit, SpAccounted
<1>3. CASE \E n \in 0 .. Credits : traffic_req(n)
  <2>1. PICK grant \in [Txqs -> 0 .. Credits] :
          /\ \A q \in Txqs : grant[q] <= Want(q)
          /\ limit' = [q \in Txqs |-> IF grant[q] > 0 THEN grant[q] ELSE limit[q]]
          /\ sp_cnt' = Total(grant)
    BY <1>3, Zenon DEF traffic_req
  <2>2. ps /\ station = "up" /\ sp_cnt = 0 /\ UNCHANGED <<ps, station, pkt_ready, len>>
    BY <1>3 DEF traffic_req, Handling, stationVars
  <2>3. pkt_ready = Total(len) /\ sp_cnt = Total(limit)
    BY <2>2 DEF SInv, SpAccounted
  <2>4. \A q \in Txqs : limit[q] = 0
    BY <1>0, <2>2, <2>3, TotalZero
  <2>5. Credits \in Nat /\ grant \in [Txqs -> Nat]
    BY SizesAssumption
  <2>6. \A q \in Txqs : limit'[q] = grant[q]
    BY <2>1, <2>4, <2>5
  <2>7. limit' = grant
    BY <2>1, <2>6
  <2>8. \A q \in Txqs : grant[q] <= len[q]
    BY <1>0, <2>1, <2>5 DEF Want, Least
  <2> QED
    BY <2>1, <2>2, <2>3, <2>7, <2>8 DEF SInv, AwakeNoLimit, SpAccounted
<1> QED
  BY <1>1, <1>2, <1>3 DEF Sleep

LEMMA StationCounts ==
  ASSUME IInv, UpIsActive, SInv, Station
  PROVE  SInv'
<1>1. CASE del_station
  BY <1>1 DEF del_station, SInv, AwakeNoLimit, SpAccounted
<1>2. CASE txq_deinit
  BY <1>2, QuietCounters DEF txq_deinit, psVars
<1>3. CASE txq_flush
  <2>1. station # "up"
    BY <1>3 DEF txq_flush, IInv, TypeOK, FlushedIsGone, UpIsActive
  <2> QED
    BY <1>3, <2>1 DEF txq_flush, SInv, AwakeNoLimit, SpAccounted
<1>4. CASE txq_sta_init
  BY <1>4 DEF txq_sta_init, psVars, IInv, SleepStops, SInv, AwakeNoLimit, SpAccounted
<1> QED
  BY <1>1, <1>2, <1>3, <1>4 DEF Station

LEMMA CountsStep ==
  IInv /\ UpIsActive /\ LInv /\ SInv /\ [Next]_vars => SInv'
<1> SUFFICES ASSUME IInv, UpIsActive, LInv, SInv, [Next]_vars PROVE SInv'
  OBVIOUS
<1>1. CASE \E s \in Senders : Send(s)
  <2> PICK s \in Senders : Send(s)
    BY <1>1
  <2>1. CASE xmit_check(s)
    BY <2>1, QuietCounters DEF xmit_check, queueVars, stationVars, psVars
  <2> QED
    BY <2>1, QueueSkbCounts DEF Send
<1>2. CASE Pass \/ task_start
  <2>1. CASE process_inactive
    <3>1. station # "up"
      BY <2>1 DEF process_inactive, UpIsActive
    <3> QED
      BY <2>1, <3>1 DEF process_inactive, stationVars, SInv, AwakeNoLimit, SpAccounted
  <2>2. CASE task_next
    BY <2>2, QuietCounters DEF task_next, queueVars, stationVars, psVars
  <2>3. CASE \E s \in Senders : xmit_done(s)
    BY <2>3, QuietCounters DEF xmit_done, queueVars, stationVars, psVars
  <2>4. CASE task_start
    BY <2>4, QuietCounters DEF task_start, queueVars, stationVars, psVars
  <2> QED
    BY <1>2, <2>1, <2>2, <2>3, <2>4, ProcessTxqCounts DEF Pass
<1>3. CASE Sleep
  BY <1>3, SleepCounts
<1>4. CASE Vif
  BY <1>4, QuietCounters DEF Vif, vif_stop, vif_start, stationVars, psVars
<1>5. CASE Station
  BY <1>5, StationCounts
<1>6. CASE bus_busy \/ bus_free
  BY <1>6, QuietCounters DEF bus_busy, bus_free, queueVars, stationVars, psVars
<1>7. CASE UNCHANGED vars
  BY <1>7, QuietCounters DEF vars, queueVars, stationVars, psVars
<1> QED
  BY <1>1, <1>2, <1>3, <1>4, <1>5, <1>6, <1>7 DEF Next

-----------------------------------------------------------------------------
(* The theorems. *)

LEMMA InvStep == IInv /\ [Next]_vars => IInv'
<1> SUFFICES ASSUME IInv, [Next]_vars PROVE IInv'
  OBVIOUS
<1>1. CASE \E s \in Senders : Send(s)
  BY <1>1, XmitCheckInv, QueueSkbInv DEF Send
<1>2. CASE Pass \/ task_start
  BY <1>2, ProcessTxqInv, ProcessInactiveInv, LockInv DEF Pass
<1>3. CASE Sleep
  BY <1>3, PsEnableInv, PsDisableInv, TrafficReqInv DEF Sleep
<1>4. CASE Vif
  BY <1>4, VifStopInv, VifStartInv DEF Vif
<1>5. CASE Station
  BY <1>5, DelStationInv, TxqDeinitInv, TxqFlushInv, TxqStaInitInv DEF Station
<1>6. CASE bus_busy \/ bus_free
  BY <1>6, BusInv
<1>7. CASE UNCHANGED vars
  BY <1>7, IdleInv
<1> QED
  BY <1>1, <1>2, <1>3, <1>4, <1>5, <1>6, <1>7 DEF Next

LEMMA Invariant == Spec => []IInv
<1>1. IInv /\ [Next]_vars => IInv'
  BY InvStep
<1> QED
  BY InvInit, <1>1, PTL DEF Spec

LEMMA ListInvariant == Spec => [](UpIsActive /\ LInv /\ SInv)
<1>1. Init => UpIsActive /\ LInv /\ SInv
  <2>1. Init => UpIsActive
    BY DEF Init, UpIsActive
  <2>2. Init => SInv
    BY DEF Init, SInv, AwakeNoLimit, SpAccounted
  <2> QED
    BY <2>1, <2>2, LInvInit
<1>2. /\ UpIsActive /\ LInv /\ SInv /\ IInv /\ IInv' /\ [Next]_vars
      => (UpIsActive /\ LInv /\ SInv)'
  BY UpIsActiveStep, ListsStep, CountsStep
<1> QED
  BY <1>1, <1>2, Invariant, PTL DEF Spec

\* In every reachable state the variables have their types: no queue gets a
\* negative length, whatever a pass takes of it.
THEOREM TypeCorrect == Spec => []TypeOK
<1>1. IInv => TypeOK
  BY DEF IInv
<1> QED
  BY <1>1, Invariant, PTL

\* A queue in use that has frames and is not stopped is on its list, whichever
\* of rwnx_txq_start's reasons went last.
THEOREM ReadyIsListedAlways == Spec => []ReadyIsListed
<1>1. IInv => ReadyIsListed
  BY DEF IInv
<1> QED
  BY <1>1, Invariant, PTL

\* A stopped queue is on a list only for an open service period
\* (rwnx_ps_bh_traffic_req, rwnx_hwq_process, rwnx_txq_stop).
THEOREM StoppedStaysOffAlways == Spec => []StoppedStaysOff
<1>1. IInv => StoppedStaysOff
  BY DEF IInv
<1> QED
  BY <1>1, Invariant, PTL

\* A stopped sub-queue that is no orphan has the bus or a pass over its long
\* queue to wake it (rwnx_txq_queue_skb, rwnx_hwq_process).
THEOREM SubqueueHasWakerAlways == Spec => []SubqueueHasWaker
<1>1. IInv => SubqueueHasWaker
  BY DEF IInv
<1> QED
  BY <1>1, Invariant, PTL

\* The flag RWNX_TXQ_IN_HWQ_LIST and the lists agree, no queue is listed twice,
\* and a pass meets only queues that are flagged and have frames: the BUG_ONs of
\* rwnx_hwq_process never fire.
THEOREM ListSoundAlways == Spec => []ListSound
<1>1. LInv => ListSound
  BY DEF LInv
<1> QED
  BY <1>1, ListInvariant, PTL

\* A listed queue is on the way of the tasklet or of a pass, except where
\* nobody was told (rwnx_txq_vif_start, rwnx_hwq_process): the model's adrift.
THEOREM ListedHasServerAlways == Spec => []ListedHasServer
<1>1. LInv => ListedHasServer
  BY DEF LInv
<1> QED
  BY <1>1, ListInvariant, PTL

\* While a station sleeps pkt_ready counts its frames and sp_cnt what its open
\* service period still grants (rwnx_ps_bh_enable, rwnx_ps_bh_traffic_req,
\* rwnx_txq_queue_skb, rwnx_hwq_process).
THEOREM SpAccountedAlways == Spec => []SpAccounted
<1>1. SInv => SpAccounted
  BY DEF SInv
<1> QED
  BY <1>1, ListInvariant, PTL
===============================================================================
