------------------------------ MODULE SeqLemmas ------------------------------
(***************************************************************************)
(* What the lists of the driver need to know about sequences: an element   *)
(* taken out with RemoveAt, and one put before the others; and induction   *)
(* over the natural numbers for a set in place of a predicate, which is    *)
(* what a proof about a recursive function starts from.                    *)
(***************************************************************************)
EXTENDS SequencesExt, SequenceTheorems, WellFoundedInduction, TLAPS

\* A set that holds 0 and, with a number, the next holds every number.
LEMMA SetInduction ==
  ASSUME NEW S, 0 \in S, \A n \in Nat : n \in S => n + 1 \in S
  PROVE  Nat \subseteq S
<1> SUFFICES ASSUME ~(Nat \subseteq S) PROVE FALSE
  OBVIOUS
<1> DEFINE T == Nat \ S
           R == OpToRel(<, Nat)
<1>1. T \subseteq Nat /\ T # {}
  OBVIOUS
<1>2. IsWellFoundedOn(R, Nat)
  BY NatLessThanWellFounded
<1> HIDE DEF T, R
<1>3. PICK x \in T : \A y \in T : ~(<<y, x>> \in R)
  BY <1>1, <1>2, WFMin
<1>4. x \in Nat /\ x # 0 /\ x \notin S
  BY <1>1, <1>3 DEF T
<1>5. x - 1 \in Nat /\ x - 1 \notin S
  BY <1>4
<1>6. <<x - 1, x>> \in R
  BY <1>4, <1>5 DEF R, OpToRel
<1>7. x - 1 \in T
  BY <1>5 DEF T
<1> QED
  BY <1>3, <1>6, <1>7

\* A set of numbers has a least one.
LEMMA LeastOne ==
  ASSUME NEW T \in SUBSET Nat, T # {}
  PROVE  Min(T) \in T /\ \A y \in T : Min(T) <= y
<1>1. PICK x \in T : \A y \in T : ~(<<y, x>> \in OpToRel(<, Nat))
  BY NatLessThanWellFounded, WFMin
<1>2. \A y \in T : ~(y < x)
  BY <1>1, Zenon DEF OpToRel
<1>3. \A y \in T : x <= y
  BY <1>2
<1> QED
  BY <1>3, Zenon DEF Min

\* Taking the i-th element out of a sequence keeps the others in their order.
LEMMA RemoveAtProperties ==
  ASSUME NEW S, NEW q \in Seq(S), NEW i \in 1 .. Len(q)
  PROVE  /\ RemoveAt(q, i) \in Seq(S)
         /\ Len(RemoveAt(q, i)) = Len(q) - 1
         /\ \A j \in 1 .. Len(q) - 1 :
              RemoveAt(q, i)[j] = IF j < i THEN q[j] ELSE q[j + 1]
<1> DEFINE f == SubSeq(q, 1, i - 1)
           g == SubSeq(q, i + 1, Len(q))
<1>1. /\ f \in Seq(S)
      /\ Len(f) = i - 1
      /\ \A j \in 1 .. i - 1 : f[j] = q[j]
  BY SubSeqProperties
<1>2. /\ g \in Seq(S)
      /\ Len(g) = Len(q) - i
      /\ \A j \in 1 .. Len(q) - i : g[j] = q[i + j]
  BY SubSeqProperties
<1>3. /\ f \o g \in Seq(S)
      /\ Len(f \o g) = Len(f) + Len(g)
      /\ \A j \in 1 .. Len(f) + Len(g) :
           (f \o g)[j] = IF j <= Len(f) THEN f[j] ELSE g[j - Len(f)]
  <2> HIDE DEF f, g
  <2> QED BY <1>1, <1>2, ConcatProperties
<1>4. RemoveAt(q, i) = f \o g
  BY DEF RemoveAt
<1> HIDE DEF f, g
<1>5. Len(f) + Len(g) = Len(q) - 1
  BY <1>1, <1>2
<1>6. ASSUME NEW j \in 1 .. Len(q) - 1
      PROVE  (f \o g)[j] = IF j < i THEN q[j] ELSE q[j + 1]
  <2>0. i \in Int /\ j \in Int /\ Len(q) \in Nat
    OBVIOUS
  <2>1. CASE j < i
    BY <1>1, <1>3, <1>5, <2>1
  <2>2. CASE ~(j < i)
    <3>1. /\ j - (i - 1) \in 1 .. Len(q) - i
          /\ i + (j - (i - 1)) = j + 1
      BY <2>2
    <3>2. (f \o g)[j] = g[j - (i - 1)]
      BY <1>1, <1>3, <1>5, <2>2
    <3> QED BY <1>2, <2>2, <3>1, <3>2
  <2> QED BY <2>0, <2>1, <2>2
<1> QED BY <1>3, <1>4, <1>5, <1>6

\* The head of a sequence goes back before its tail.
LEMMA HeadBack ==
  ASSUME NEW S, NEW s \in Seq(S), s # <<>>
  PROVE  <<Head(s)>> \o Tail(s) = s
<1>1. Len(s) \in Nat /\ Len(s) > 0 /\ Head(s) = s[1] /\ Head(s) \in S /\ Tail(s) \in Seq(S)
      /\ Len(Tail(s)) = Len(s) - 1 /\ \A i \in 1 .. Len(Tail(s)) : Tail(s)[i] = s[i + 1]
  BY HeadTailProperties, LenProperties, EmptySeq
<1>2. <<Head(s)>> \in Seq(S) /\ Len(<<Head(s)>>) = 1
  BY <1>1
<1>3. <<Head(s)>> \o Tail(s) \in Seq(S) /\ Len(<<Head(s)>> \o Tail(s)) = Len(s)
      /\ \A i \in 1 .. Len(s) : (<<Head(s)>> \o Tail(s))[i] =
            IF i <= 1 THEN <<Head(s)>>[i] ELSE Tail(s)[i - 1]
  BY <1>1, <1>2, ConcatProperties
<1>4. \A i \in 1 .. Len(s) : (<<Head(s)>> \o Tail(s))[i] = s[i]
  BY <1>1, <1>3
<1> QED
  BY <1>3, <1>4, SeqEqual

\* What is put before a sequence is its head.
LEMMA FrontBack ==
  ASSUME NEW S, NEW s \in Seq(S), NEW x \in S
  PROVE  <<x>> \o s # <<>> /\ Head(<<x>> \o s) = x /\ Tail(<<x>> \o s) = s
<1>1. <<x>> \in Seq(S) /\ Len(<<x>>) = 1 /\ Len(s) \in Nat
  BY LenProperties
<1> DEFINE t == <<x>> \o s
<1>2. t \in Seq(S) /\ Len(t) = Len(s) + 1 /\ t[1] = x /\ \A i \in 1 .. Len(s) : t[i + 1] = s[i]
  BY <1>1, ConcatProperties
<1>3. t # <<>>
  BY <1>1, <1>2, EmptySeq
<1>4. Head(t) = x /\ Tail(t) \in Seq(S) /\ Len(Tail(t)) = Len(s)
      /\ \A i \in 1 .. Len(s) : Tail(t)[i] = s[i]
  BY <1>1, <1>2, <1>3, HeadTailProperties
<1>5. Tail(t) = s
  BY <1>4, SeqEqual
<1> QED
  BY <1>3, <1>4, <1>5

\* Removing the first element leaves the tail.
LEMMA RemoveAtOne ==
  ASSUME NEW S, NEW s \in Seq(S), s # <<>>
  PROVE  1 \in DOMAIN s /\ RemoveAt(s, 1) = Tail(s)
<1>1. Len(s) \in Nat /\ Len(s) > 0 /\ DOMAIN s = 1 .. Len(s) /\ Tail(s) \in Seq(S)
  BY LenProperties, EmptySeq, HeadTailProperties
<1>2. SubSeq(s, 1, 1 - 1) = <<>>
  BY SubSeqEmpty
<1>3. SubSeq(s, 1 + 1, Len(s)) = Tail(s)
  BY TailIsSubSeq
<1>4. <<>> \o Tail(s) = Tail(s)
  BY <1>1, ConcatEmptySeq
<1>5. RemoveAt(s, 1) = SubSeq(s, 1, 1 - 1) \o SubSeq(s, 1 + 1, Len(s))
  BY DEF RemoveAt
<1> QED
  BY <1>1, <1>2, <1>3, <1>4, <1>5

\* Removing the second element leaves the head and the rest.
LEMMA RemoveAtTwo ==
  ASSUME NEW S, NEW s \in Seq(S), s # <<>>, NEW x \in S
  PROVE  2 \in DOMAIN (<<x>> \o s) /\ RemoveAt(<<x>> \o s, 2) = <<x>> \o Tail(s)
<1> DEFINE t == <<x>> \o s
           u == <<x>> \o Tail(s)
<1>1. Len(s) \in Nat /\ Len(s) > 0 /\ <<x>> \in Seq(S) /\ Len(<<x>>) = 1
  BY LenProperties, EmptySeq
<1>2. t \in Seq(S) /\ Len(t) = Len(s) + 1 /\ t[1] = x /\ \A i \in 1 .. Len(s) : t[i + 1] = s[i]
  BY <1>1, ConcatProperties
<1>3. DOMAIN t = 1 .. Len(t) /\ 2 \in 1 .. Len(t)
  BY <1>1, <1>2, LenProperties
<1>4. /\ Tail(s) \in Seq(S) /\ Len(Tail(s)) = Len(s) - 1
      /\ \A i \in 1 .. Len(s) - 1 : Tail(s)[i] = s[i + 1]
  BY <1>1, HeadTailProperties
<1>5. /\ u \in Seq(S) /\ Len(u) = Len(s) /\ u[1] = x
      /\ \A i \in 1 .. Len(s) - 1 : u[i + 1] = Tail(s)[i]
  BY <1>1, <1>4, ConcatProperties
<1> HIDE DEF t, u
<1>6. /\ RemoveAt(t, 2) \in Seq(S) /\ Len(RemoveAt(t, 2)) = Len(s)
      /\ \A j \in 1 .. Len(s) : RemoveAt(t, 2)[j] = IF j < 2 THEN t[j] ELSE t[j + 1]
  <2>1. Len(t) - 1 = Len(s)
    BY <1>1, <1>2
  <2> QED
    BY <1>2, <1>3, <2>1, RemoveAtProperties
<1>7. ASSUME NEW j \in 1 .. Len(s)
      PROVE  RemoveAt(t, 2)[j] = u[j]
  <2>1. CASE j = 1
    BY <1>2, <1>5, <1>6, <2>1
  <2>2. CASE j # 1
    <3>1. j - 1 \in 1 .. Len(s) - 1 /\ (j - 1) + 1 = j /\ ~(j < 2)
      BY <1>1, <2>2
    <3>2. u[j] = s[j]
      BY <1>4, <1>5, <3>1
    <3>3. RemoveAt(t, 2)[j] = s[j]
      BY <1>2, <1>6, <3>1
    <3> QED
      BY <3>2, <3>3
  <2> QED
    BY <2>1, <2>2
<1>8. RemoveAt(t, 2) = u
  BY <1>5, <1>6, <1>7, SeqEqual
<1> QED
  BY <1>3, <1>8 DEF t, u
===============================================================================
