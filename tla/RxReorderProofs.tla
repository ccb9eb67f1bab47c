---------------------------- MODULE RxReorderProofs ----------------------------
(***************************************************************************)
(* Proofs about the reordering, for any count of sequence numbers, window, *)
(* pool and disorder of the frames.                                        *)
(*                                                                         *)
(* Inv: what the receive thread has in hand at each place (FrameHeld,      *)
(* FlushedEmpty), the pool and the timer.  WInv: ind_sn is a number f of   *)
(* the sender's count (FloorIs), the newest frame is within the window     *)
(* behind which f is, and the list runs up from f to that frame.  Numbers  *)
(* that the driver compares are then less than half the space apart, so    *)
(* that comparing them modulo SnMod is comparing them as they were sent    *)
(* (Less, SameNumber): every step is one of Reordering, which never wraps. *)
(***************************************************************************)
EXTENDS RxReorder, SeqLemmas, FiniteSetTheorems, WellFoundedInduction

FrameHeld == rx \in {"lookup", "process"} => frame \in 0 .. MaxN

\* A session that has ended left nothing in the list.
FlushedEmpty == rx \in {"del_timer", "cancel_work"} => reord_list = <<>>

-----------------------------------------------------------------------------
(* Numbers and lists. *)

LEMMA Remainder == \A x \in Int : x % SnMod \in 0 .. SnMod - 1
  BY SizesAssumption

LEMMA GreaterOfTwo ==
  ASSUME NEW a \in Int, NEW b \in Int
  PROVE  Max({a, b}) \in {a, b} /\ a <= Max({a, b}) /\ b <= Max({a, b})
<1>1. \E x \in {a, b} : \A y \in {a, b} : x >= y
  <2>1. CASE a >= b
    BY <2>1
  <2>2. CASE ~(a >= b)
    BY <2>2
  <2> QED
    BY <2>1, <2>2
<1>2. Max({a, b}) \in {a, b} /\ \A y \in {a, b} : Max({a, b}) >= y
  BY <1>1 DEF Max
<1> QED
  BY <1>2

\* The frames of a list are finitely many.
LEMMA FramesFinite ==
  ASSUME NEW l \in Seq(0 .. MaxN)
  PROVE  IsFiniteSet(ToSet(l))
<1>1. ToSet(l) \in SUBSET (0 .. MaxN)
  <2>1. \A i \in DOMAIN l : l[i] \in 0 .. MaxN
    BY LenProperties
  <2> QED
    BY <2>1, Zenon DEF ToSet
<1>2. IsFiniteSet(0 .. MaxN)
  <2>1. 0 \in Int /\ MaxN \in Int
    BY SizesAssumption
  <2> QED
    BY <2>1, FS_Interval
<1> QED
  BY <1>1, <1>2, FS_Subset

\* reord_rxframes_process leaves a sequence number.
LEMMA ProcessGivesNumber ==
  ASSUME NEW l \in Seq(0 .. MaxN), NEW ind \in 0 .. SnMod - 1
  PROVE  reord_rxframes_process(ind, l) \in 0 .. SnMod - 1
<1>1. Following(ind, l) \in SUBSET ToSet(l)
  BY DEF Following
<1>2. Cardinality(Following(ind, l)) \in Nat
  BY <1>1, FramesFinite, FS_Subset, FS_CardinalityType
<1>3. ind + Cardinality(Following(ind, l)) \in Int
  BY <1>2, SizesAssumption
<1> QED
  BY <1>3, Remainder DEF reord_rxframes_process

\* reord_rxframes_ind takes a part of the list, the whole of it unless a frame
\* is beyond the gap.
LEMMA DueProperties ==
  ASSUME NEW l \in Seq(0 .. MaxN), NEW ind
  PROVE  /\ Due(ind, l) \in 0 .. Len(l)
         /\ ~Beyond(ind, l) => Due(ind, l) = Len(l)
<1> DEFINE T == {i \in DOMAIN l : ~SN_LESS(ind, SN(l[i]))}
<1>1. Len(l) \in Nat /\ DOMAIN l = 1 .. Len(l)
  BY LenProperties
<1>2. IsFiniteSet(DOMAIN l) /\ Cardinality(DOMAIN l) = Len(l)
  BY <1>1, FS_Interval
<1>3. T \in SUBSET DOMAIN l
  OBVIOUS
<1>4. IsFiniteSet(T) /\ Cardinality(T) <= Cardinality(DOMAIN l)
  <2> HIDE DEF T
  <2> QED
    BY <1>2, <1>3, FS_Subset
<1>5. Cardinality(T) \in Nat
  BY <1>4, FS_CardinalityType
<1>6. ~Beyond(ind, l) => T = DOMAIN l
  BY DEF Beyond, ToSet
<1>7. Due(ind, l) = Cardinality(T)
  BY DEF Due
<1> HIDE DEF T
<1> QED
  BY <1>1, <1>2, <1>4, <1>5, <1>6, <1>7

\* The two parts of a list.
LEMMA Parts ==
  ASSUME NEW A, NEW l \in Seq(A), NEW k \in 0 .. Len(l)
  PROVE  /\ SubSeq(l, 1, k) \in Seq(A) /\ Len(SubSeq(l, 1, k)) = k
         /\ \A i \in 1 .. k : SubSeq(l, 1, k)[i] = l[i]
         /\ SubSeq(l, k + 1, Len(l)) \in Seq(A)
         /\ Len(SubSeq(l, k + 1, Len(l))) = Len(l) - k
         /\ \A i \in 1 .. Len(l) - k : SubSeq(l, k + 1, Len(l))[i] = l[k + i]
<1>1. Len(l) \in Nat /\ \A i \in 1 .. Len(l) : l[i] \in A
  BY LenProperties
<1>2. /\ SubSeq(l, 1, k) \in Seq(A) /\ Len(SubSeq(l, 1, k)) = k
      /\ \A i \in 1 .. k : SubSeq(l, 1, k)[i] = l[i]
  <2>1. \A i \in 1 .. k : l[i] \in A
    BY <1>1
  <2> QED
    BY <2>1, SubSeqProperties
<1>3. CASE k + 1 <= Len(l)
  <2> DEFINE s == SubSeq(l, k + 1, Len(l))
  <2>1. \A i \in k + 1 .. Len(l) : l[i] \in A
    BY <1>1
  <2>2. /\ s \in Seq(A) /\ Len(s) = Len(l) - (k + 1) + 1
        /\ \A i \in 1 .. Len(l) - (k + 1) + 1 : s[i] = l[(k + 1) + i - 1]
    BY <1>1, <1>3, <2>1, SubSeqProperties
  <2> HIDE DEF s
  <2>3. Len(l) - (k + 1) + 1 = Len(l) - k /\ \A i \in Int : (k + 1) + i - 1 = k + i
    BY <1>1
  <2>4. ASSUME NEW i \in 1 .. Len(l) - k PROVE s[i] = l[k + i]
    <3>1. i \in 1 .. Len(l) - (k + 1) + 1 /\ (k + 1) + i - 1 = k + i
      BY <1>1, <2>3
    <3> QED
      BY <2>2, <3>1
  <2> QED
    BY <1>2, <2>2, <2>3, <2>4 DEF s
<1>4. CASE ~(k + 1 <= Len(l))
  <2>1. k = Len(l)
    BY <1>1, <1>4
  <2>2. SubSeq(l, k + 1, Len(l)) = <<>>
    BY <1>1, <2>1, SubSeqEmpty
  <2> QED
    BY <1>1, <1>2, <2>1, <2>2
<1> QED
  BY <1>3, <1>4

\* InsertAt puts x at i and moves what was there.
LEMMA InsertAtProperties ==
  ASSUME NEW S, NEW q \in Seq(S), NEW i \in 1 .. Len(q) + 1, NEW x \in S
  PROVE  /\ InsertAt(q, i, x) \in Seq(S) /\ Len(InsertAt(q, i, x)) = Len(q) + 1
         /\ \A j \in 1 .. Len(q) + 1 :
              InsertAt(q, i, x)[j] = IF j < i THEN q[j] ELSE IF j = i THEN x ELSE q[j - 1]
<1> DEFINE f == SubSeq(q, 1, i - 1)
           g == SubSeq(q, i, Len(q))
           h == f \o <<x>>
<1>1. Len(q) \in Nat /\ \A j \in 1 .. Len(q) : q[j] \in S
  BY LenProperties
<1>2. f \in Seq(S) /\ Len(f) = i - 1 /\ \A j \in 1 .. i - 1 : f[j] = q[j]
  <2>1. \A j \in 1 .. i - 1 : q[j] \in S
    BY <1>1
  <2> QED
    BY <1>1, <2>1, SubSeqProperties
<1>3. g \in Seq(S) /\ Len(g) = Len(q) - i + 1 /\ \A j \in 1 .. Len(q) - i + 1 : g[j] = q[i + j - 1]
  <2>1. \A j \in i .. Len(q) : q[j] \in S
    BY <1>1
  <2> QED
    BY <1>1, <2>1, SubSeqProperties
<1>4. <<x>> \in Seq(S) /\ Len(<<x>>) = 1 /\ <<x>>[1] = x
  OBVIOUS
<1>5. InsertAt(q, i, x) = h \o g
  BY DEF InsertAt
<1> HIDE DEF f, g
<1>6. h \in Seq(S) /\ Len(h) = i /\ \A j \in 1 .. i : h[j] = IF j < i THEN q[j] ELSE x
  <2>1. /\ h \in Seq(S) /\ Len(h) = Len(f) + 1
        /\ \A j \in 1 .. Len(f) + 1 : h[j] = IF j <= Len(f) THEN f[j] ELSE <<x>>[j - Len(f)]
    BY <1>2, <1>4, ConcatProperties
  <2> HIDE DEF h
  <2>2. Len(h) = i
    BY <1>2, <2>1
  <2>3. ASSUME NEW j \in 1 .. i PROVE h[j] = IF j < i THEN q[j] ELSE x
    BY <1>2, <1>4, <2>1
  <2> QED
    BY <2>1, <2>2, <2>3
<1> HIDE DEF h
<1>7. /\ h \o g \in Seq(S) /\ Len(h \o g) = Len(h) + Len(g)
      /\ \A j \in 1 .. Len(h) + Len(g) : (h \o g)[j] = IF j <= Len(h) THEN h[j] ELSE g[j - Len(h)]
  BY <1>3, <1>6, ConcatProperties
<1>8. Len(h) + Len(g) = Len(q) + 1
  BY <1>1, <1>3, <1>6
<1>9. ASSUME NEW j \in 1 .. Len(q) + 1
      PROVE  (h \o g)[j] = IF j < i THEN q[j] ELSE IF j = i THEN x ELSE q[j - 1]
  <2>1. CASE j <= i
    <3>1. j \in 1 .. i /\ j <= Len(h) /\ j \in 1 .. Len(h) + Len(g)
      BY <1>6, <1>8, <2>1
    <3>2. (h \o g)[j] = h[j]
      BY <1>7, <3>1
    <3> QED
      BY <1>6, <2>1, <3>1, <3>2
  <2>2. CASE j > i
    <3>1. j - i \in 1 .. Len(q) - i + 1 /\ i + (j - i) - 1 = j - 1
      BY <1>1, <2>2
    <3>2. (h \o g)[j] = g[j - i]
      <4>1. j \in 1 .. Len(h) + Len(g) /\ Len(h) = i /\ ~(j <= Len(h))
        BY <1>6, <1>8, <2>2
      <4> QED
        BY <1>7, <4>1
    <3>3. g[j - i] = q[i + (j - i) - 1]
      BY <1>3, <3>1
    <3> QED
      BY <2>2, <3>1, <3>2, <3>3
  <2>3. j <= i \/ j > i
    BY <1>1
  <2> QED
    BY <2>1, <2>2, <2>3
<1> QED
  BY <1>5, <1>7, <1>8, <1>9

-----------------------------------------------------------------------------
(* The steps that list a frame or hand some up. *)

\* Handing up a part of a list that holds all but one of the frames, or all of
\* them, keeps the types of what it changes.
LEMMA HandUpTypes ==
  ASSUME TypeOK, NEW l \in Seq(0 .. MaxN), NEW k \in 0 .. Len(l), HandUp(l, k)
  PROVE  /\ reord_list' \in Seq(0 .. MaxN) /\ up' \in Seq(0 .. MaxN)
         /\ free' = free + k /\ Len(reord_list') = Len(l) - k
         /\ k = Len(l) => reord_list' = <<>>
<1>1. Len(l) \in Nat
  BY LenProperties
<1>2. k = Len(l) => SubSeq(l, k + 1, Len(l)) = <<>>
  BY <1>1, SubSeqEmpty
<1> QED
  BY <1>2, Parts DEF HandUp, TypeOK

\* The frame in hand has a place in the list.
LEMMA PlaceInList == TypeOK => Place \in 1 .. Len(reord_list) + 1
<1> SUFFICES ASSUME TypeOK PROVE Place \in 1 .. Len(reord_list) + 1
  OBVIOUS
<1> DEFINE notLess == {i \in DOMAIN reord_list : ~SN_LESS(SN(reord_list[i]), SN(frame))}
<1>1. Len(reord_list) \in Nat /\ DOMAIN reord_list = 1 .. Len(reord_list)
  BY LenProperties DEF TypeOK
<1>2. notLess \in SUBSET (1 .. Len(reord_list))
  BY <1>1
<1>3. Place = IF notLess = {} THEN Len(reord_list) + 1 ELSE Min(notLess)
  BY DEF Place
<1> HIDE DEF notLess
<1>4. notLess # {} => Min(notLess) \in notLess
  BY <1>2, LeastOne
<1> QED
  BY <1>1, <1>2, <1>3, <1>4

\* The expected number after a frame was looked at is a sequence number.
LEMMA CheckedIsNumber ==
  TypeOK /\ FrameHeld /\ rx = "process" => Checked \in 0 .. SnMod - 1
<1> SUFFICES ASSUME TypeOK, FrameHeld, rx = "process" PROVE Checked \in 0 .. SnMod - 1
  OBVIOUS
<1>1. frame \in Int
  BY DEF FrameHeld
<1>2. SN(frame) \in 0 .. SnMod - 1
  BY <1>1, Remainder DEF SN
<1>3. Expected \in 0 .. SnMod - 1
  BY <1>2 DEF Expected, TypeOK
<1>4. SN(frame) + 1 \in Int /\ SN(frame) - (Window - 1) \in Int
  BY <1>2, SizesAssumption
<1>5. (SN(frame) + 1) % SnMod \in 0 .. SnMod - 1
      /\ (SN(frame) - (Window - 1)) % SnMod \in 0 .. SnMod - 1
  BY <1>4, Remainder
<1> QED
  BY <1>3, <1>5, Zenon DEF Checked

\* What process_listed does to the list, the pool and the timer.
LEMMA Listed ==
  ASSUME TypeOK, FrameHeld, process_listed
  PROVE  /\ ind_sn' \in 0 .. SnMod - 1
         /\ reord_list' \in Seq(0 .. MaxN) /\ up' \in Seq(0 .. MaxN)
         /\ free' \in Nat
         /\ free' + Len(reord_list') = free + Len(reord_list) + 1
         /\ timer' \in BOOLEAN
         /\ ~timer' => reord_list' = <<>>
<1> DEFINE l == InsertAt(reord_list, Place, frame)
<1>1. l \in Seq(0 .. MaxN) /\ Len(l) = Len(reord_list) + 1
  <2>1. reord_list \in Seq(0 .. MaxN)
    BY DEF TypeOK
  <2>2. Place \in 1 .. Len(reord_list) + 1
    BY PlaceInList
  <2>3. frame \in 0 .. MaxN
    BY DEF FrameHeld, process_listed
  <2> DEFINE A == 0 .. MaxN
  <2> HIDE DEF A
  <2>4. reord_list \in Seq(A) /\ frame \in A
    BY <2>1, <2>3 DEF A
  <2>5. l \in Seq(A) /\ Len(l) = Len(reord_list) + 1
    BY <2>2, <2>4, InsertAtProperties
  <2> QED
    BY <2>5 DEF A
<1>2. /\ ind_sn' = reord_rxframes_process(Checked, l)
      /\ timer' = Beyond(ind_sn', l)
      /\ HandUp(l, Due(ind_sn', l))
  BY Zenon DEF process_listed
<1>3. Checked \in 0 .. SnMod - 1
  BY CheckedIsNumber DEF process_listed
<1> HIDE DEF l
<1>4. ind_sn' \in 0 .. SnMod - 1
  BY <1>1, <1>2, <1>3, ProcessGivesNumber
<1> DEFINE k == Due(ind_sn', l)
<1>5. k \in 0 .. Len(l) /\ (~Beyond(ind_sn', l) => k = Len(l))
  BY <1>1, DueProperties
<1>6. HandUp(l, k)
  BY <1>2
<1> HIDE DEF k
<1>7. /\ reord_list' \in Seq(0 .. MaxN) /\ up' \in Seq(0 .. MaxN)
      /\ free' = free + k /\ Len(reord_list') = Len(l) - k
      /\ k = Len(l) => reord_list' = <<>>
  BY <1>1, <1>5, <1>6, HandUpTypes
<1>8. free' \in Nat /\ free' + Len(reord_list') = free + Len(reord_list) + 1
  <2>1. free \in Nat /\ Len(reord_list) \in Int
    BY LenProperties DEF TypeOK
  <2> QED
    BY <1>1, <1>5, <1>7, <2>1
<1>9. timer' \in BOOLEAN
  BY <1>2, Zenon DEF Beyond
<1>10. ~timer' => k = Len(l)
  BY <1>2, <1>5, Zenon
<1> QED
  BY <1>4, <1>7, <1>8, <1>9, <1>10

\* What reord_timeout_worker does to a list that is not empty.
LEMMA GivenUp ==
  ASSUME TypeOK, reord_timeout_worker, reord_list # <<>>
  PROVE  /\ ind_sn' \in 0 .. SnMod - 1
         /\ reord_list' \in Seq(0 .. MaxN) /\ up' \in Seq(0 .. MaxN)
         /\ free' \in Nat
         /\ free' + Len(reord_list') = free + Len(reord_list)
         /\ timer' \in BOOLEAN
         /\ ~timer' => reord_list' = <<>>
<1> DEFINE l == reord_list
           ind == SN(Head(l))
           k == Due(ind_sn', l)
<1>1. l \in Seq(0 .. MaxN) /\ Head(l) \in 0 .. MaxN
  BY HeadTailProperties DEF TypeOK
<1>2. /\ ind_sn' = reord_rxframes_process(ind, l)
      /\ timer' = (timer \/ Beyond(ind_sn', l))
      /\ HandUp(l, k)
  BY Zenon DEF reord_timeout_worker
<1>3. ind \in 0 .. SnMod - 1
  <2>1. Head(l) \in Int
    BY <1>1
  <2> QED
    BY <2>1, Remainder DEF SN
<1>4. k \in 0 .. Len(l) /\ (~Beyond(ind_sn', l) => k = Len(l))
  BY <1>1, DueProperties
<1>5. ind_sn' \in 0 .. SnMod - 1
  <2> HIDE DEF ind, l
  <2> QED
    BY <1>1, <1>2, <1>3, ProcessGivesNumber
<1>6. /\ reord_list' \in Seq(0 .. MaxN) /\ up' \in Seq(0 .. MaxN)
      /\ free' = free + k /\ Len(reord_list') = Len(l) - k
      /\ k = Len(l) => reord_list' = <<>>
  <2> HIDE DEF k
  <2> QED
    BY <1>1, <1>2, <1>4, HandUpTypes
<1>7. free' \in Nat /\ free' + Len(reord_list') = free + Len(reord_list)
  <2>1. free \in Nat /\ Len(reord_list) \in Int
    BY LenProperties DEF TypeOK
  <2> HIDE DEF k
  <2> QED
    BY <1>4, <1>6, <2>1
<1>8. timer' \in BOOLEAN
  BY <1>2, Zenon DEF Beyond, TypeOK
<1>9. ~timer' => k = Len(l)
  BY <1>2, <1>4, Zenon
<1> QED
  BY <1>5, <1>6, <1>7, <1>8, <1>9

-----------------------------------------------------------------------------
(* The inductive invariant. *)

Inv == TypeOK /\ PoolConserved /\ FrameHeld /\ FlushedEmpty /\ GapIsTimed

LEMMA InvInit == Init => Inv
<1> SUFFICES ASSUME Init PROVE Inv
  OBVIOUS
<1>1. TypeOK
  <2>1. free \in 0 .. PoolSize /\ top \in 0 .. MaxN
    BY SizesAssumption DEF Init
  <2>2. reord_list \in Seq(0 .. MaxN) /\ up \in Seq(0 .. MaxN)
    BY DEF Init
  <2> QED
    BY <2>1, <2>2 DEF Init, TypeOK
<1>2. PoolConserved
  <2>1. reord_list = <<>> /\ free = PoolSize /\ rx = "idle"
    BY DEF Init
  <2>2. Len(reord_list) = 0
    BY <2>1
  <2> QED
    BY <2>1, <2>2, SizesAssumption DEF PoolConserved
<1> QED
  BY <1>1, <1>2 DEF Init, Inv, FrameHeld, FlushedEmpty, GapIsTimed

\* The steps of the receive thread up to the list.
LEMMA ArriveStep ==
  ASSUME Inv, rwnx_rxdataind \/ reord_bypass \/ reord_lookup
  PROVE  Inv'
<1> USE DEF Inv
<1>1. reord_list' = reord_list /\ Len(reord_list) \in Nat
  BY LenProperties DEF TypeOK, rwnx_rxdataind, reord_bypass, reord_lookup, ctrlVars
<1>2. CASE rwnx_rxdataind
  <2>1. /\ rx = "idle" /\ free > 0 /\ free' = free - 1 /\ frame' \in 0 .. MaxN
        /\ rx' = "lookup"
        /\ UNCHANGED <<ctrlVars, timerVars, usb, up, top, missed>>
    BY <1>2 DEF rwnx_rxdataind
  <2> QED
    BY <1>1, <2>1 DEF TypeOK, PoolConserved, FrameHeld, FlushedEmpty, GapIsTimed,
       ctrlVars, timerVars
<1>3. CASE reord_bypass
  BY <1>1, <1>3 DEF reord_bypass, TypeOK, PoolConserved, FrameHeld, FlushedEmpty,
     GapIsTimed, ctrlVars, timerVars
<1>4. CASE reord_lookup
  BY <1>1, <1>4 DEF reord_lookup, TypeOK, PoolConserved, FrameHeld, FlushedEmpty,
     GapIsTimed, timerVars
<1> QED
  BY <1>2, <1>3, <1>4

\* reord_process_unit.
LEMMA ProcessStep ==
  ASSUME Inv, process_late \/ process_duplicate \/ process_listed
  PROVE  Inv'
<1> USE DEF Inv
<1>1. frame \in 0 .. MaxN /\ rx = "process" /\ Len(reord_list) \in Nat
  BY LenProperties DEF TypeOK, FrameHeld, process_late, process_duplicate, process_listed
<1>2. CASE process_late
  <2>1. <<frame>> \in Seq(0 .. MaxN)
    BY <1>1
  <2>2. up' \in Seq(0 .. MaxN)
    BY <1>2, <2>1 DEF process_late, TypeOK
  <2> QED
    BY <1>1, <1>2, <2>2 DEF process_late, TypeOK, PoolConserved, FrameHeld, FlushedEmpty,
       GapIsTimed, ctrlVars, timerVars
<1>3. CASE process_duplicate
  <2>1. ind_sn' \in 0 .. SnMod - 1
    BY <1>1, <1>3, CheckedIsNumber DEF process_duplicate
  <2> QED
    BY <1>1, <1>3, <2>1 DEF process_duplicate, TypeOK, PoolConserved, FrameHeld,
       FlushedEmpty, GapIsTimed, timerVars
<1>4. CASE process_listed
  <2>1. /\ ind_sn' \in 0 .. SnMod - 1
        /\ reord_list' \in Seq(0 .. MaxN) /\ up' \in Seq(0 .. MaxN)
        /\ free' \in Nat
        /\ free' + Len(reord_list') = free + Len(reord_list) + 1
        /\ timer' \in BOOLEAN
        /\ ~timer' => reord_list' = <<>>
    BY <1>4, Listed
  <2>2. top' \in 0 .. MaxN
    <3>1. top \in 0 .. MaxN
      BY DEF TypeOK
    <3>2. Max({top, frame}) \in 0 .. MaxN
      <4>1. top \in Int /\ frame \in Int
        BY <1>1, <3>1
      <4> QED
        BY <1>1, <3>1, <4>1, GreaterOfTwo
    <3> QED
      BY <1>1, <1>4, <3>2 DEF process_listed
  <2>3. /\ rx' = "idle" /\ frame' = None /\ missed' = FALSE
        /\ UNCHANGED <<enable, handler, work, worker, usb>>
    BY <1>4 DEF process_listed
  <2>4. Len(reord_list') \in Nat
    BY <2>1, LenProperties
  <2>5. PoolConserved' /\ free' <= PoolSize
    BY <1>1, <2>1, <2>3, <2>4, SizesAssumption DEF PoolConserved
  <2>6. TypeOK'
    <3>1. free' \in 0 .. PoolSize
      BY <2>1, <2>5, SizesAssumption
    <3>2. timer' \in BOOLEAN /\ missed' \in BOOLEAN /\ enable' \in BOOLEAN /\ usb' \in BOOLEAN
          /\ work' \in BOOLEAN
      BY <2>1, <2>3, Zenon DEF TypeOK
    <3> QED
      BY <2>1, <2>2, <2>3, <3>1, <3>2 DEF TypeOK
  <2>7. GapIsTimed'
    BY <2>1 DEF GapIsTimed
  <2> QED
    BY <2>3, <2>5, <2>6, <2>7 DEF FrameHeld, FlushedEmpty
<1> QED
  BY <1>2, <1>3, <1>4

\* The end of a session.
LEMMA FlushStep ==
  ASSUME Inv, reord_flush_tid \/ Flush
  PROVE  Inv'
<1> USE DEF Inv
<1>1. Len(reord_list) \in Nat
  BY LenProperties DEF TypeOK
<1>2. CASE reord_flush_tid
  <2>1. /\ reord_list' = <<>> /\ up' \in Seq(0 .. MaxN)
        /\ free' = free + Len(reord_list) /\ Len(reord_list') = 0
    BY <1>1, <1>2, HandUpTypes DEF reord_flush_tid, TypeOK
  <2>2. PoolConserved' /\ free' \in 0 .. PoolSize
    BY <1>1, <1>2, <2>1, SizesAssumption DEF reord_flush_tid, PoolConserved, TypeOK
  <2>3. reord_list' \in Seq(0 .. MaxN)
    BY <2>1
  <2>4. enable' = FALSE /\ rx' = "del_timer"
        /\ UNCHANGED <<ind_sn, timer, handler, work, worker, frame, usb, top, missed>>
    BY <1>2 DEF reord_flush_tid, timerVars
  <2>5. TypeOK'
    BY <2>1, <2>2, <2>3, <2>4 DEF TypeOK
  <2> QED
    BY <2>1, <2>2, <2>4, <2>5 DEF FrameHeld, FlushedEmpty, GapIsTimed
<1>3. CASE flush_timer
  BY <1>3 DEF flush_timer, TypeOK, PoolConserved, FrameHeld, FlushedEmpty, GapIsTimed,
     ctrlVars
<1>4. CASE flush_work
  BY <1>4 DEF flush_work, TypeOK, PoolConserved, FrameHeld, FlushedEmpty, GapIsTimed,
     ctrlVars
<1> QED
  BY <1>2, <1>3, <1>4 DEF Flush

\* The timer, its work, and the device that goes and comes.
LEMMA TimeoutStep ==
  ASSUME Inv, Timeout \/ power
  PROVE  Inv'
<1> USE DEF Inv
<1>1. CASE timer_fires
  BY <1>1 DEF timer_fires, TypeOK, PoolConserved, FrameHeld, FlushedEmpty, GapIsTimed,
     ctrlVars, rxVars
<1>2. CASE reord_timeout_handler
  BY <1>2 DEF reord_timeout_handler, TypeOK, PoolConserved, FrameHeld, FlushedEmpty,
     GapIsTimed, ctrlVars, rxVars
<1>3. CASE work_start
  BY <1>3 DEF work_start, TypeOK, PoolConserved, FrameHeld, FlushedEmpty, GapIsTimed,
     ctrlVars, rxVars
<1>4. CASE power
  BY <1>4 DEF power, TypeOK, PoolConserved, FrameHeld, FlushedEmpty, GapIsTimed,
     ctrlVars, timerVars, rxVars
<1>5. CASE reord_timeout_worker /\ reord_list = <<>>
  BY <1>5 DEF reord_timeout_worker, TypeOK, PoolConserved, FrameHeld, FlushedEmpty,
     GapIsTimed, rxVars
<1>6. CASE reord_timeout_worker /\ reord_list # <<>>
  <2>1. /\ ind_sn' \in 0 .. SnMod - 1
        /\ reord_list' \in Seq(0 .. MaxN) /\ up' \in Seq(0 .. MaxN)
        /\ free' \in Nat
        /\ free' + Len(reord_list') = free + Len(reord_list)
        /\ timer' \in BOOLEAN
        /\ ~timer' => reord_list' = <<>>
    BY <1>6, GivenUp
  <2>2. /\ worker' = "idle" /\ missed' = FALSE
        /\ UNCHANGED <<enable, handler, work, rx, frame, usb, top>>
    BY <1>6 DEF reord_timeout_worker, rxVars
  <2>3. Len(reord_list) \in Nat /\ Len(reord_list') \in Nat
    BY <2>1, LenProperties DEF TypeOK
  <2>4. PoolConserved' /\ free' <= PoolSize
    <3>1. free \in Nat /\ PoolSize \in Nat /\ rx' = rx
      BY <2>2, SizesAssumption DEF TypeOK
    <3>2. PoolConserved'
      BY <2>1, <3>1 DEF PoolConserved
    <3>3. CASE rx \in {"lookup", "process"}
      BY <2>1, <2>3, <3>1, <3>2, <3>3 DEF PoolConserved
    <3>4. CASE rx \notin {"lookup", "process"}
      BY <2>1, <2>3, <3>1, <3>2, <3>4 DEF PoolConserved
    <3> QED
      BY <3>2, <3>3, <3>4
  <2>5. TypeOK'
    <3>1. free' \in 0 .. PoolSize
      BY <2>1, <2>4, SizesAssumption
    <3>2. timer' \in BOOLEAN /\ missed' \in BOOLEAN /\ enable' \in BOOLEAN /\ usb' \in BOOLEAN
          /\ work' \in BOOLEAN
      BY <2>1, <2>2, Zenon DEF TypeOK
    <3> QED
      BY <2>1, <2>2, <3>1, <3>2 DEF TypeOK
  <2>6. GapIsTimed' /\ FrameHeld' /\ FlushedEmpty'
    BY <1>6, <2>1, <2>2 DEF GapIsTimed, FrameHeld, FlushedEmpty
  <2> QED
    BY <2>4, <2>5, <2>6
<1> QED
  BY <1>1, <1>2, <1>3, <1>4, <1>5, <1>6 DEF Timeout

LEMMA InvStep == Inv /\ [Next]_vars => Inv'
<1> SUFFICES ASSUME Inv, [Next]_vars PROVE Inv'
  OBVIOUS
<1>1. CASE rwnx_rxdataind \/ reord_bypass \/ reord_lookup
  BY <1>1, ArriveStep
<1>2. CASE process_late \/ process_duplicate \/ process_listed
  BY <1>2, ProcessStep
<1>3. CASE reord_flush_tid \/ Flush
  BY <1>3, FlushStep
<1>4. CASE Timeout \/ power
  BY <1>4, TimeoutStep
<1>5. CASE UNCHANGED vars
  BY <1>5 DEF Inv, TypeOK, PoolConserved, FrameHeld, FlushedEmpty, GapIsTimed, vars,
     ctrlVars, timerVars, rxVars
<1> QED
  BY <1>1, <1>2, <1>3, <1>4, <1>5 DEF Next, Process

LEMMA Invariant == Spec => []Inv
<1>1. Init => Inv
  BY InvInit
<1>2. Inv /\ [Next]_vars => Inv'
  BY InvStep
<1> QED
  BY <1>1, <1>2, PTL DEF Spec

-----------------------------------------------------------------------------
(* Numbers that wrap. *)

LEMMA Division ==
  ASSUME NEW x \in Int
  PROVE  x \div SnMod \in Int /\ x = (SnMod * (x \div SnMod)) + (x % SnMod)
BY SizesAssumption

LEMMA Half == \E h \in Nat : h = SnMod \div 2 /\ SnMod = 2 * h /\ h > Window
BY SizesAssumption

\* Less than SnMod apart, only equal numbers have equal remainders.
LEMMA Apart ==
  ASSUME NEW k \in Int, -SnMod < SnMod * k, SnMod * k < SnMod
  PROVE  k = 0
<1>1. SnMod \in Nat /\ SnMod > 0
  BY SizesAssumption
<1>2. k >= 1 => SnMod * k >= SnMod
  BY <1>1
<1>3. k <= -1 => SnMod * k <= -SnMod
  BY <1>1
<1> QED
  BY <1>1, <1>2, <1>3

LEMMA DivisionUnique ==
  ASSUME NEW k \in Int, NEW r \in 0 .. SnMod - 1
  PROVE  ((SnMod * k) + r) % SnMod = r
<1> DEFINE x == (SnMod * k) + r
           j == x \div SnMod
<1>1. SnMod \in Nat /\ x \in Int /\ k \in Int /\ r \in Int
  BY SizesAssumption
<1>2. j \in Int /\ x = (SnMod * j) + (x % SnMod) /\ x % SnMod \in 0 .. SnMod - 1
  BY <1>1, Division, Remainder
<1>3. SnMod * (k - j) = (SnMod * k) - (SnMod * j)
  BY <1>1, <1>2
<1>4. SnMod * k \in Int /\ SnMod * j \in Int
  BY <1>1, <1>2
<1>5. x = (SnMod * k) + r
  OBVIOUS
<1> HIDE DEF x, j
<1>6. SnMod * (k - j) = (x % SnMod) - r
  BY <1>1, <1>2, <1>3, <1>4, <1>5
<1>7. k - j = 0
  <2>1. k - j \in Int /\ -SnMod < SnMod * (k - j) /\ SnMod * (k - j) < SnMod
    BY <1>1, <1>2, <1>6
  <2> HIDE DEF x, j
  <2> QED
    BY <2>1, Apart
<1>8. k = j
  BY <1>1, <1>2, <1>7
<1>9. x % SnMod = r
  BY <1>1, <1>2, <1>4, <1>5, <1>8
<1> QED
  BY <1>9 DEF x

LEMMA SameNumber ==
  ASSUME NEW x \in Int, NEW y \in Int, SN(x) = SN(y), -SnMod < x - y, x - y < SnMod
  PROVE  x = y
<1> DEFINE i == x \div SnMod
           j == y \div SnMod
<1>1. /\ SnMod \in Nat /\ i \in Int /\ j \in Int
      /\ x = (SnMod * i) + SN(x) /\ y = (SnMod * j) + SN(y) /\ SN(x) \in Int
  BY Division, Remainder, SizesAssumption DEF SN
<1> HIDE DEF i, j
<1>2. SnMod * (i - j) = (SnMod * i) - (SnMod * j) /\ SnMod * i \in Int /\ SnMod * j \in Int
  BY <1>1
<1>3. SnMod * (i - j) = x - y
  BY <1>1, <1>2
<1>4. i - j = 0
  <2>1. i - j \in Int /\ -SnMod < SnMod * (i - j) /\ SnMod * (i - j) < SnMod
    BY <1>1, <1>3
  <2> QED
    BY <2>1, Apart
<1>5. i = j
  BY <1>1, <1>4
<1> QED
  BY <1>1, <1>5

\* The remainder of a small number.
LEMMA Small ==
  ASSUME NEW x \in Int, -SnMod <= x, x < SnMod
  PROVE  x % SnMod = IF x < 0 THEN x + SnMod ELSE x
BY SizesAssumption

\* Adding to a number before or after it wraps.
LEMMA AddNumber ==
  ASSUME NEW x \in Int, NEW y \in Int
  PROVE  /\ (SN(x) + y) % SnMod = SN(x + y)
         /\ (SN(x) - y) % SnMod = SN(x - y)
         /\ (SN(x) - SN(y)) % SnMod = SN(x - y)
<1> DEFINE i == x \div SnMod
           j == y \div SnMod
<1>1. /\ SnMod \in Nat /\ i \in Int /\ j \in Int
      /\ x = (SnMod * i) + SN(x) /\ y = (SnMod * j) + SN(y) /\ SN(x) \in Int /\ SN(y) \in Int
  BY Division, Remainder, SizesAssumption DEF SN
<1> HIDE DEF i, j
<1> DEFINE Shift == \A z \in Int, k \in Int : (z + (SnMod * k)) % SnMod = z % SnMod
<1>2. Shift
  <2> SUFFICES ASSUME NEW z \in Int, NEW k \in Int
               PROVE  (z + (SnMod * k)) % SnMod = z % SnMod
    OBVIOUS
  <2> DEFINE m == z \div SnMod
  <2>1. m \in Int /\ z = (SnMod * m) + (z % SnMod) /\ z % SnMod \in 0 .. SnMod - 1
    BY Division, Remainder
  <2> HIDE DEF m
  <2>2. SnMod * (m + k) = (SnMod * m) + (SnMod * k) /\ SnMod * m \in Int /\ SnMod * k \in Int
    BY <1>1, <2>1
  <2>3. z + (SnMod * k) = (SnMod * (m + k)) + (z % SnMod)
    BY <1>1, <2>1, <2>2
  <2>4. ((SnMod * (m + k)) + (z % SnMod)) % SnMod = z % SnMod
    <3>1. m + k \in Int
      BY <2>1
    <3> QED
      BY <2>1, <3>1, DivisionUnique
  <2> QED
    BY <2>3, <2>4
<1>3. /\ SnMod * i \in Int /\ SnMod * j \in Int
      /\ SnMod * (i - j) = (SnMod * i) - (SnMod * j) /\ SnMod * (i - j) \in Int /\ i - j \in Int
  BY <1>1
<1>4. /\ x + y = (SN(x) + y) + (SnMod * i)
      /\ x - y = (SN(x) - y) + (SnMod * i)
      /\ x - y = (SN(x) - SN(y)) + (SnMod * (i - j))
  <2> DEFINE a == SnMod * i
             b == SnMod * j
  <2>1. /\ a \in Int /\ b \in Int /\ SnMod * (i - j) = a - b
        /\ x = a + SN(x) /\ y = b + SN(y) /\ SN(x) \in Int /\ SN(y) \in Int
    BY <1>1, <1>3
  <2> HIDE DEF a, b
  <2>2. /\ x + y = (SN(x) + y) + a
        /\ x - y = (SN(x) - y) + a
        /\ x - y = (SN(x) - SN(y)) + (a - b)
    BY <2>1
  <2> QED
    BY <2>1, <2>2 DEF a
<1>5. SN(x) + y \in Int /\ SN(x) - y \in Int /\ SN(x) - SN(y) \in Int
  BY <1>1
<1>6. /\ ((SN(x) + y) + (SnMod * i)) % SnMod = (SN(x) + y) % SnMod
      /\ ((SN(x) - y) + (SnMod * i)) % SnMod = (SN(x) - y) % SnMod
      /\ ((SN(x) - SN(y)) + (SnMod * (i - j))) % SnMod = (SN(x) - SN(y)) % SnMod
  BY <1>1, <1>2, <1>3, <1>5
<1>7. SN(x + y) = (x + y) % SnMod /\ SN(x - y) = (x - y) % SnMod
  BY DEF SN
<1> QED
  BY <1>4, <1>6, <1>7

\* Numbers less than half the space apart compare as they do unwrapped.
LEMMA Less ==
  ASSUME NEW x \in Int, NEW y \in Int,
         x - y < SnMod \div 2, y - x <= SnMod \div 2
  PROVE  SN_LESS(SN(x), SN(y)) <=> x < y
<1>1. PICK h \in Nat : h = SnMod \div 2 /\ SnMod = 2 * h /\ h > Window
  BY Half
<1>2. h > 0
  BY <1>1, SizesAssumption
<1>3. (SN(x) - SN(y)) % SnMod = IF x - y < 0 THEN (x - y) + SnMod ELSE x - y
  <2>1. -SnMod <= x - y /\ x - y < SnMod /\ x - y \in Int
    BY <1>1, <1>2
  <2> QED
    BY <2>1, Small, AddNumber DEF SN
<1> QED
  BY <1>1, <1>2, <1>3 DEF SN_LESS

-----------------------------------------------------------------------------
(* Lists in the order of the sender's count. *)

Increasing(l) == \A i, j \in DOMAIN l : i < j => l[i] < l[j]

LEMMA Elements ==
  ASSUME NEW A, NEW l \in Seq(A)
  PROVE  /\ Len(l) \in Nat /\ DOMAIN l = 1 .. Len(l)
         /\ \A i \in 1 .. Len(l) : l[i] \in ToSet(l) /\ l[i] \in A
         /\ \A x \in ToSet(l) : \E i \in 1 .. Len(l) : l[i] = x
         /\ ToSet(l) \subseteq A
<1>1. Len(l) \in Nat /\ DOMAIN l = 1 .. Len(l) /\ \A i \in 1 .. Len(l) : l[i] \in A
  BY LenProperties
<1> QED
  BY <1>1, Zenon DEF ToSet

LEMMA Numbers ==
  ASSUME NEW l \in Seq(0 .. MaxN)
  PROVE  /\ Len(l) \in Nat /\ DOMAIN l = 1 .. Len(l)
         /\ \A i \in 1 .. Len(l) : l[i] \in Nat /\ l[i] \in Int /\ l[i] <= MaxN
<1>1. /\ Len(l) \in Nat /\ DOMAIN l = 1 .. Len(l) /\ \A i \in 1 .. Len(l) : l[i] \in 0 .. MaxN
  BY LenProperties
<1>2. \A x \in 0 .. MaxN : x \in Nat /\ x \in Int /\ x <= MaxN
  OBVIOUS
<1> QED
  BY <1>1, <1>2

\* Inserting a number where it belongs.
LEMMA InsertKeepsOrder ==
  ASSUME NEW l \in Seq(0 .. MaxN), Increasing(l),
         NEW n \in 0 .. MaxN, NEW p \in 1 .. Len(l) + 1,
         \A i \in 1 .. Len(l) : IF i < p THEN l[i] < n ELSE n < l[i]
  PROVE  /\ InsertAt(l, p, n) \in Seq(0 .. MaxN)
         /\ Increasing(InsertAt(l, p, n))
         /\ ToSet(InsertAt(l, p, n)) = ToSet(l) \cup {n}
<1> DEFINE m == InsertAt(l, p, n)
<1>1. /\ m \in Seq(0 .. MaxN) /\ Len(m) = Len(l) + 1
      /\ \A j \in 1 .. Len(l) + 1 : m[j] = IF j < p THEN l[j] ELSE IF j = p THEN n ELSE l[j - 1]
  <2> DEFINE A == 0 .. MaxN
  <2> HIDE DEF A
  <2>1. l \in Seq(A) /\ n \in A
    BY DEF A
  <2>2. /\ m \in Seq(A) /\ Len(m) = Len(l) + 1
        /\ \A j \in 1 .. Len(l) + 1 : m[j] = IF j < p THEN l[j] ELSE IF j = p THEN n ELSE l[j - 1]
    BY <2>1, InsertAtProperties
  <2> QED
    BY <2>2 DEF A
<1> HIDE DEF m
<1>2. /\ Len(l) \in Nat /\ DOMAIN l = 1 .. Len(l) /\ DOMAIN m = 1 .. Len(l) + 1
      /\ \A i \in 1 .. Len(l) : l[i] \in Int
  <2>1. DOMAIN m = 1 .. Len(m)
    BY <1>1, LenProperties
  <2> QED
    BY <1>1, <2>1, Numbers
<1>3. Increasing(m)
  <2> SUFFICES ASSUME NEW i \in 1 .. Len(l) + 1, NEW j \in 1 .. Len(l) + 1, i < j
               PROVE  m[i] < m[j]
    BY <1>2 DEF Increasing
  <2>1. \A a, b \in 1 .. Len(l) : a < b => l[a] < l[b]
    BY <1>2 DEF Increasing
  <2>2. CASE j < p
    <3>1. i \in 1 .. Len(l) /\ j \in 1 .. Len(l) /\ m[i] = l[i] /\ m[j] = l[j]
      BY <1>1, <1>2, <2>2
    <3> QED
      BY <2>1, <3>1
  <2>3. CASE j = p
    <3>1. i \in 1 .. Len(l) /\ m[i] = l[i] /\ m[j] = n
      BY <1>1, <1>2, <2>3
    <3> QED
      BY <2>3, <3>1
  <2>4. CASE j > p
    <3>1. j - 1 \in 1 .. Len(l) /\ m[j] = l[j - 1] /\ ~(j - 1 < p)
      BY <1>1, <1>2, <2>4
    <3>2. n < l[j - 1]
      BY <3>1
    <3>3. CASE i < p
      <4>1. i \in 1 .. Len(l) /\ m[i] = l[i] /\ i < j - 1
        BY <1>1, <1>2, <2>4, <3>3
      <4> QED
        BY <2>1, <3>1, <4>1
    <3>4. CASE i = p
      BY <1>1, <1>2, <3>1, <3>2, <3>4
    <3>5. CASE i > p
      <4>1. i - 1 \in 1 .. Len(l) /\ m[i] = l[i - 1] /\ i - 1 < j - 1
        BY <1>1, <1>2, <2>4, <3>5
      <4> QED
        BY <2>1, <3>1, <4>1
    <3> QED
      BY <3>3, <3>4, <3>5
  <2> QED
    BY <2>2, <2>3, <2>4
<1>4. ToSet(m) = ToSet(l) \cup {n}
  <2>1. ASSUME NEW i \in 1 .. Len(l) PROVE l[i] \in ToSet(m)
    <3>1. CASE i < p
      <4>1. i \in DOMAIN m /\ m[i] = l[i]
        BY <1>1, <1>2, <3>1
      <4> QED
        BY <4>1, Zenon DEF ToSet
    <3>2. CASE ~(i < p)
      <4>1. i + 1 \in DOMAIN m /\ m[i + 1] = l[i]
        BY <1>1, <1>2, <3>2
      <4> QED
        BY <4>1, Zenon DEF ToSet
    <3> QED
      BY <3>1, <3>2
  <2>2. n \in ToSet(m)
    <3>1. p \in DOMAIN m /\ m[p] = n
      BY <1>1, <1>2
    <3> QED
      BY <3>1, Zenon DEF ToSet
  <2>3. ASSUME NEW j \in DOMAIN m PROVE m[j] \in ToSet(l) \cup {n}
    <3>1. \/ j \in DOMAIN l /\ m[j] = l[j]
          \/ m[j] = n
          \/ j - 1 \in DOMAIN l /\ m[j] = l[j - 1]
      BY <1>1, <1>2
    <3> QED
      BY <3>1, Zenon DEF ToSet
  <2>4. \A x \in ToSet(l) : x \in ToSet(m)
    BY <1>2, <2>1, Zenon DEF ToSet
  <2>5. \A x \in ToSet(m) : x \in ToSet(l) \cup {n}
    BY <2>3, Zenon DEF ToSet
  <2> QED
    BY <2>2, <2>4, <2>5
<1> QED
  BY <1>1, <1>3, <1>4 DEF m

\* The numbers of a list below d are a prefix of it.
LEMMA BelowIsPrefix ==
  ASSUME NEW l \in Seq(0 .. MaxN), Increasing(l), NEW d \in Nat
  PROVE  \E k \in 0 .. Len(l) :
           /\ Cardinality({i \in DOMAIN l : l[i] < d}) = k
           /\ \A i \in 1 .. Len(l) : i <= k <=> l[i] < d
<1> DEFINE T == {i \in 1 .. Len(l) + 1 : i <= Len(l) => d <= l[i]}
           k == Min(T) - 1
<1>1. Len(l) \in Nat /\ DOMAIN l = 1 .. Len(l) /\ \A i \in 1 .. Len(l) : l[i] \in Int
  BY Numbers
<1>2. T \in SUBSET Nat /\ Len(l) + 1 \in T
  BY <1>1
<1>3. Min(T) \in T /\ \A i \in T : Min(T) <= i
  <2> HIDE DEF T
  <2> QED
    BY <1>2, LeastOne
<1> DEFINE m == Min(T)
<1>4. m \in T /\ \A i \in T : m <= i
  BY <1>3
<1>5. m \in 1 .. Len(l) + 1 /\ (m <= Len(l) => d <= l[m])
  BY <1>4
<1>6. \A i \in 1 .. Len(l) : i < m => l[i] < d
  <2> SUFFICES ASSUME NEW i \in 1 .. Len(l), i < m PROVE l[i] < d
    OBVIOUS
  <2> HIDE DEF m
  <2>1. i \notin T
    BY <1>1, <1>4, <1>5
  <2> QED
    BY <1>1, <2>1
<1> HIDE DEF m
<1>7. \A i \in 1 .. Len(l) : i >= m => d <= l[i]
  <2> SUFFICES ASSUME NEW i \in 1 .. Len(l), i >= m PROVE d <= l[i]
    OBVIOUS
  <2>1. m <= Len(l) /\ m \in 1 .. Len(l)
    BY <1>1, <1>5
  <2>2. m < i => l[m] < l[i]
    BY <1>1, <2>1 DEF Increasing
  <2>3. l[i] \in Int /\ l[m] \in Int
    BY <1>1, <2>1
  <2> QED
    BY <1>5, <2>1, <2>2, <2>3
<1>8. m - 1 \in 0 .. Len(l) /\ \A i \in 1 .. Len(l) : i <= m - 1 <=> l[i] < d
  BY <1>1, <1>5, <1>6, <1>7
<1>9. {i \in DOMAIN l : l[i] < d} = 1 .. m - 1
  BY <1>1, <1>8
<1>10. Cardinality(1 .. m - 1) = m - 1
  <2>1. m - 1 \in Nat /\ 1 \in Int
    BY <1>8
  <2> QED
    BY <2>1, FS_Interval
<1> QED
  BY <1>8, <1>9, <1>10

LEMMA SetOfNumbers ==
  ASSUME NEW l \in Seq(0 .. MaxN)
  PROVE  \A x \in ToSet(l) : x \in Nat /\ x \in 0 .. MaxN
<1> DEFINE A == 0 .. MaxN
<1>1. ToSet(l) \subseteq A
  <2> HIDE DEF A
  <2>1. l \in Seq(A)
    BY DEF A
  <2> QED
    BY <2>1, Elements
<1> QED
  BY <1>1

\* d is the first number from c on that is not in l.
IsNext(d, c, l) == d >= c /\ d \notin ToSet(l) /\ \A x \in Nat : c <= x /\ x < d => x \in ToSet(l)

LEMMA NextExists ==
  ASSUME NEW l \in Seq(0 .. MaxN), NEW hi \in Nat, NEW c \in Nat, c <= hi + 1,
         \A x \in ToSet(l) : x <= hi
  PROVE  \E d \in Nat : IsNext(d, c, l) /\ d <= hi + 1
<1> DEFINE T == {x \in Nat : x >= c /\ x \notin ToSet(l)}
           d == Min(T)
<1>1. hi + 1 \in T /\ T \in SUBSET Nat
  BY Elements
<1>2. d \in T /\ \A x \in T : d <= x
  <2> HIDE DEF T
  <2> QED
    BY <1>1, LeastOne
<1> HIDE DEF d
<1>3. d \in Nat /\ d >= c /\ d \notin ToSet(l) /\ d <= hi + 1
  BY <1>1, <1>2
<1>4. \A x \in Nat : c <= x /\ x < d => x \in ToSet(l)
  BY <1>2, <1>3
<1> QED
  BY <1>3, <1>4 DEF IsNext

\* The frames that follow c without a gap are those from c to the first missing.
LEMMA FollowingIs ==
  ASSUME NEW l \in Seq(0 .. MaxN), NEW lo \in Nat, NEW hi \in Nat, NEW c \in Nat, NEW d \in Nat,
         \A x \in ToSet(l) : lo <= x /\ x <= hi,
         lo <= c, d <= hi + 1, hi + 1 - lo < SnMod, IsNext(d, c, l)
  PROVE  Following(SN(c), l) = c .. d - 1
<1>1. \A x \in ToSet(l) : x \in Nat
  BY SetOfNumbers
<1>2. SnMod \in Nat /\ SnMod > 0 /\ d >= c
  BY SizesAssumption DEF IsNext
<1>3. ASSUME NEW n \in ToSet(l), n >= c
      PROVE  (SN(n) - SN(c)) % SnMod = n - c
  <2>1. n - c \in Int /\ -SnMod <= n - c /\ n - c < SnMod /\ ~(n - c < 0) /\ n \in Int
    BY <1>1, <1>2, <1>3
  <2> QED
    BY <2>1, Small, AddNumber DEF SN
<1>4. ASSUME NEW n \in ToSet(l), n < c
      PROVE  (SN(n) - SN(c)) % SnMod = (n - c) + SnMod
  <2>1. n - c \in Int /\ -SnMod <= n - c /\ n - c < SnMod /\ n - c < 0 /\ n \in Int
    BY <1>1, <1>2, <1>4
  <2> QED
    BY <2>1, Small, AddNumber DEF SN
<1>5. ASSUME NEW x \in Nat, NEW k \in ToSet(l), SN(k) = SN(x), lo <= x, x <= hi + 1
      PROVE  k = x
  <2>1. k \in Int /\ x \in Int /\ -SnMod < k - x /\ k - x < SnMod
    BY <1>1, <1>2, <1>5
  <2> QED
    BY <1>5, <2>1, SameNumber
<1>6. ASSUME NEW j \in Nat
      PROVE  (SN(c) + j) % SnMod = SN(c + j)
  BY AddNumber
<1>7. ASSUME NEW n \in Following(SN(c), l)
      PROVE  n \in c .. d - 1
  <2>1. /\ n \in ToSet(l) /\ n \in Nat
        /\ \A j \in 0 .. (SN(n) - SN(c)) % SnMod :
             \E k \in ToSet(l) : SN(k) = (SN(c) + j) % SnMod
    BY <1>1 DEF Following
  <2> DEFINE j == d - c
  <2>2. j \in Nat /\ c + j = d
    BY <1>2
  <2> HIDE DEF j
  <2>3. j \notin 0 .. (SN(n) - SN(c)) % SnMod
    <3> SUFFICES ASSUME j \in 0 .. (SN(n) - SN(c)) % SnMod PROVE FALSE
      OBVIOUS
    <3>1. PICK k \in ToSet(l) : SN(k) = (SN(c) + j) % SnMod
      BY <2>1
    <3>2. SN(k) = SN(d)
      BY <1>6, <2>2, <3>1
    <3>3. k = d
      BY <1>2, <1>5, <3>2
    <3> QED
      BY <3>3 DEF IsNext
  <2>4. n >= c
    <3> SUFFICES ASSUME n < c PROVE FALSE
      BY <2>1
    <3>1. (SN(n) - SN(c)) % SnMod = (n - c) + SnMod
      BY <1>4, <2>1
    <3>2. j <= (n - c) + SnMod
      BY <1>2, <2>1, <2>2
    <3> QED
      BY <1>2, <2>1, <2>2, <2>3, <3>1, <3>2
  <2>5. (SN(n) - SN(c)) % SnMod = n - c
    BY <1>3, <2>1, <2>4
  <2> QED
    BY <1>2, <2>1, <2>2, <2>3, <2>4, <2>5
<1>8. ASSUME NEW n \in c .. d - 1
      PROVE  n \in Following(SN(c), l)
  <2>1. \A x \in Nat : c <= x /\ x < d => x \in ToSet(l)
    BY DEF IsNext
  <2>2. n \in ToSet(l) /\ n \in Nat /\ n >= c
    BY <2>1
  <2>3. (SN(n) - SN(c)) % SnMod = n - c
    BY <1>3, <2>2
  <2>4. ASSUME NEW j \in 0 .. n - c
        PROVE  \E k \in ToSet(l) : SN(k) = (SN(c) + j) % SnMod
    <3>1. j \in Nat /\ c + j \in ToSet(l)
      BY <2>1
    <3> QED
      BY <1>6, <3>1
  <2> QED
    BY <2>2, <2>3, <2>4 DEF Following
<1> QED
  BY <1>7, <1>8

\* reord_rxframes_process moves the expected number to the first missing one.
LEMMA ProcessMoves ==
  ASSUME NEW l \in Seq(0 .. MaxN), NEW lo \in Nat, NEW hi \in Nat, NEW c \in Nat,
         \A x \in ToSet(l) : lo <= x /\ x <= hi,
         lo <= c, c <= hi + 1, hi + 1 - lo < SnMod \div 2
  PROVE  \E d \in Nat :
           /\ IsNext(d, c, l) /\ d <= hi + 1
           /\ reord_rxframes_process(SN(c), l) = SN(d)
           /\ \A x \in ToSet(l) : SN_LESS(SN(d), SN(x)) <=> d < x
<1>1. PICK d \in Nat : IsNext(d, c, l) /\ d <= hi + 1
  BY NextExists
<1>2. PICK h \in Nat : h = SnMod \div 2 /\ SnMod = 2 * h
  BY Half
<1>3. Following(SN(c), l) = c .. d - 1
  <2>1. hi + 1 - lo < SnMod
    BY <1>2
  <2>2. l \in Seq(0 .. MaxN) /\ lo \in Nat /\ hi \in Nat /\ c \in Nat /\ d \in Nat
    OBVIOUS
  <2>3. IsNext(d, c, l) /\ d <= hi + 1
    BY <1>1
  <2>4. lo <= c /\ \A x \in ToSet(l) : lo <= x /\ x <= hi
    OBVIOUS
  <2> QED
    BY <2>1, <2>2, <2>3, <2>4, FollowingIs, SMTT(60)
<1>4. Cardinality(c .. d - 1) = d - c /\ d >= c
  <2>1. d >= c
    BY <1>1 DEF IsNext
  <2>2. c \in Int /\ d - 1 \in Int
    OBVIOUS
  <2>3. Cardinality(c .. d - 1) = IF c > d - 1 THEN 0 ELSE (d - 1) - c + 1
    BY <2>2, FS_Interval
  <2> QED
    BY <2>1, <2>3
<1>5. reord_rxframes_process(SN(c), l) = SN(d)
  <2>1. reord_rxframes_process(SN(c), l) = (SN(c) + (d - c)) % SnMod
    BY <1>3, <1>4 DEF reord_rxframes_process
  <2>2. d - c \in Int /\ c + (d - c) = d /\ c \in Int
    OBVIOUS
  <2>3. (SN(c) + (d - c)) % SnMod = SN(c + (d - c))
    BY <2>2, AddNumber
  <2> QED
    BY <2>1, <2>2, <2>3
<1>6. ASSUME NEW x \in ToSet(l)
      PROVE  SN_LESS(SN(d), SN(x)) <=> d < x
  <2>1. x \in Nat /\ lo <= x /\ x <= hi
    BY SetOfNumbers
  <2>2. d - x < SnMod \div 2 /\ x - d <= SnMod \div 2
    BY <1>1, <1>2, <1>4, <2>1
  <2> QED
    BY <2>1, <2>2, Less
<1> QED
  BY <1>1, <1>5, <1>6

\* What reord_rxframes_ind leaves and hands up.
HandsUp(S) ==
  IF S = {} THEN up' = up
            ELSE up' \in Seq(S) /\ ToSet(up') = S /\ Increasing(up')

LEMMA HandUpOrder ==
  ASSUME NEW l \in Seq(0 .. MaxN), Increasing(l), NEW k \in 0 .. Len(l), NEW d \in Nat,
         \A i \in 1 .. Len(l) : i <= k <=> l[i] < d, HandUp(l, k)
  PROVE  /\ reord_list' \in Seq(0 .. MaxN) /\ Increasing(reord_list')
         /\ ToSet(reord_list') = {x \in ToSet(l) : x >= d}
         /\ HandsUp({x \in ToSet(l) : x < d})
<1> DEFINE r == SubSeq(l, k + 1, Len(l))
           u == SubSeq(l, 1, k)
           S == {x \in ToSet(l) : x < d}
<1>1. /\ Len(l) \in Nat /\ DOMAIN l = 1 .. Len(l)
      /\ \A i \in 1 .. Len(l) : l[i] \in Nat /\ l[i] \in ToSet(l)
  BY Numbers, Elements
<1>2. /\ u \in Seq(0 .. MaxN) /\ Len(u) = k /\ \A i \in 1 .. k : u[i] = l[i]
      /\ r \in Seq(0 .. MaxN) /\ Len(r) = Len(l) - k
      /\ \A i \in 1 .. Len(l) - k : r[i] = l[k + i]
  <2> DEFINE A == 0 .. MaxN
  <2> HIDE DEF A
  <2>1. l \in Seq(A)
    BY DEF A
  <2>2. /\ u \in Seq(A) /\ Len(u) = k /\ \A i \in 1 .. k : u[i] = l[i]
        /\ r \in Seq(A) /\ Len(r) = Len(l) - k
        /\ \A i \in 1 .. Len(l) - k : r[i] = l[k + i]
    BY <2>1, Parts
  <2> QED
    BY <2>2 DEF A
<1>3. reord_list' = r /\ up' = IF k = 0 THEN up ELSE u
  BY DEF HandUp
<1> HIDE DEF r, u
<1>4. DOMAIN r = 1 .. Len(l) - k /\ DOMAIN u = 1 .. k
  BY <1>2, LenProperties
<1>5. Increasing(r)
  <2> SUFFICES ASSUME NEW i \in 1 .. Len(l) - k, NEW j \in 1 .. Len(l) - k, i < j
               PROVE  r[i] < r[j]
    BY <1>4 DEF Increasing
  <2>1. k + i \in 1 .. Len(l) /\ k + j \in 1 .. Len(l) /\ k + i < k + j
    BY <1>1
  <2>2. l[k + i] < l[k + j]
    BY <1>1, <2>1 DEF Increasing
  <2> QED
    BY <1>2, <2>2
<1>6. ToSet(r) = {x \in ToSet(l) : x >= d}
  <2>1. ASSUME NEW i \in DOMAIN r PROVE r[i] \in ToSet(l) /\ r[i] >= d
    <3>1. k + i \in 1 .. Len(l) /\ ~(k + i <= k) /\ r[i] = l[k + i]
      BY <1>1, <1>2, <1>4
    <3>2. ~(l[k + i] < d) /\ l[k + i] \in Nat
      BY <1>1, <3>1
    <3> QED
      BY <1>1, <3>1, <3>2
  <2>2. ASSUME NEW j \in DOMAIN l, l[j] >= d PROVE l[j] \in ToSet(r)
    <3>1. j \in 1 .. Len(l) /\ l[j] \in Nat
      BY <1>1
    <3>2. ~(j <= k)
      BY <2>2, <3>1
    <3>3. j - k \in 1 .. Len(l) - k /\ k + (j - k) = j
      BY <1>1, <3>1, <3>2
    <3>4. r[j - k] = l[j]
      BY <1>2, <3>3
    <3> QED
      BY <1>4, <3>3, <3>4, Zenon DEF ToSet
  <2>3. \A x \in ToSet(r) : x \in ToSet(l) /\ x >= d
    BY <2>1, Zenon DEF ToSet
  <2>4. \A x \in ToSet(l) : x >= d => x \in ToSet(r)
    BY <2>2, Zenon DEF ToSet
  <2> QED
    BY <2>3, <2>4
<1>7. \A i \in 1 .. k : u[i] \in S
  <2> SUFFICES ASSUME NEW i \in 1 .. k PROVE u[i] \in S
    OBVIOUS
  <2>1. i \in 1 .. Len(l) /\ i <= k
    BY <1>1
  <2>2. l[i] < d /\ l[i] \in ToSet(l)
    BY <1>1, <2>1
  <2> QED
    BY <1>2, <2>2
<1>8. \A x \in S : \E i \in 1 .. k : u[i] = x
  <2> SUFFICES ASSUME NEW x \in S PROVE \E i \in 1 .. k : u[i] = x
    OBVIOUS
  <2>1. PICK j \in 1 .. Len(l) : l[j] = x
    BY Elements
  <2>2. j <= k
    BY <2>1
  <2>3. j \in 1 .. k
    BY <2>2
  <2> QED
    BY <1>2, <2>1, <2>3
<1>9. HandsUp(S)
  <2>1. CASE k = 0
    <3>1. S = {}
      BY <1>8, <2>1
    <3> HIDE DEF S
    <3> QED
      BY <1>3, <2>1, <3>1 DEF HandsUp
  <2>2. CASE k # 0
    <3>1. u[1] \in S
      BY <1>7, <2>2
    <3>2. u \in Seq(S)
      <4> HIDE DEF S
      <4>1. u = [i \in 1 .. k |-> u[i]]
        BY <1>2, <1>4, LenProperties
      <4>2. u \in [1 .. k -> S] /\ k \in Nat
        BY <1>7, <4>1
      <4> QED
        BY <4>2, SeqDef
    <3>3. ToSet(u) = S
      <4> HIDE DEF S
      <4> QED
        BY <1>4, <1>7, <1>8, Zenon DEF ToSet
    <3>4. Increasing(u)
      <4> SUFFICES ASSUME NEW i \in 1 .. k, NEW j \in 1 .. k, i < j PROVE u[i] < u[j]
        BY <1>4 DEF Increasing
      <4>1. i \in DOMAIN l /\ j \in DOMAIN l
        BY <1>1
      <4>2. l[i] < l[j]
        BY <4>1 DEF Increasing
      <4> QED
        BY <1>2, <4>2
    <3> HIDE DEF S
    <3> QED
      BY <1>3, <2>2, <3>1, <3>2, <3>3, <3>4 DEF HandsUp
  <2> QED
    BY <2>1, <2>2
<1> QED
  BY <1>2, <1>3, <1>5, <1>6, <1>9

\* A list whose expected number is compared right is cut at that number.
LEMMA CutAtExpected ==
  ASSUME NEW l \in Seq(0 .. MaxN), Increasing(l), NEW d \in Nat, d \notin ToSet(l),
         \A x \in ToSet(l) : SN_LESS(SN(d), SN(x)) <=> d < x,
         HandUp(l, Due(SN(d), l))
  PROVE  /\ reord_list' \in Seq(0 .. MaxN) /\ Increasing(reord_list')
         /\ ToSet(reord_list') = {x \in ToSet(l) : x >= d}
         /\ HandsUp({x \in ToSet(l) : x < d})
<1>1. PICK k \in 0 .. Len(l) :
        /\ Cardinality({i \in DOMAIN l : l[i] < d}) = k
        /\ \A i \in 1 .. Len(l) : i <= k <=> l[i] < d
  BY BelowIsPrefix
<1>2. {i \in DOMAIN l : ~SN_LESS(SN(d), SN(l[i]))} = {i \in DOMAIN l : l[i] < d}
  <2>1. ASSUME NEW i \in DOMAIN l PROVE ~SN_LESS(SN(d), SN(l[i])) <=> l[i] < d
    <3>1. l[i] \in ToSet(l) /\ l[i] \in Nat
      BY Numbers, Elements
    <3>2. l[i] # d /\ (SN_LESS(SN(d), SN(l[i])) <=> d < l[i])
      BY <3>1
    <3> QED
      BY <3>1, <3>2
  <2> QED
    BY <2>1, Zenon
<1>3. Due(SN(d), l) = k
  BY <1>1, <1>2 DEF Due
<1>4. HandUp(l, k)
  BY <1>3
<1> QED
  BY <1>1, <1>4, HandUpOrder

-----------------------------------------------------------------------------
(* The window. *)

\* A frame has been expected since the session began.
Listening == enable /\ ind_sn # None

\* f is ind_sn in the sender's count: the window is around the newest frame,
\* and the list lies behind f up to the newest.
FloorIs(f) ==
  /\ SN(f) = ind_sn
  /\ top - Window < f /\ f <= top + 1
  /\ \A x \in ToSet(reord_list) : f < x /\ x <= top

\* The newest frame does not change while one is in hand.
NearTop == rx \in {"lookup", "process"} => top - Behind <= frame /\ frame <= top + Ahead

SessionOpen == rx = "process" => enable

WInv ==
  /\ Increasing(reord_list)
  /\ NearTop /\ SessionOpen
  /\ Listening => \E f \in Nat : FloorIs(f)
  /\ ~Listening => reord_list = <<>>

\* The number of the window that has the remainder of f is f.
LEMMA OneInWindow ==
  ASSUME NEW t \in Nat, NEW f \in Nat, t - Window < f, f <= t + 1
  PROVE  {g \in t - Window + 1 .. t + 1 : SN(g) = SN(f)} = {f}
<1>1. Window \in Nat /\ Window < SnMod /\ SnMod \in Nat
  BY SizesAssumption
<1>2. ASSUME NEW g \in t - Window + 1 .. t + 1, SN(g) = SN(f) PROVE g = f
  <2>1. g \in Int /\ f \in Int /\ -SnMod < g - f /\ g - f < SnMod
    BY <1>1
  <2> QED
    BY <1>2, <2>1, SameNumber
<1>3. f \in t - Window + 1 .. t + 1
  BY <1>1
<1> QED
  BY <1>2, <1>3

LEMMA FloorValue ==
  ASSUME TypeOK, Listening, NEW f \in Nat, FloorIs(f)
  PROVE  Floor = f
<1>1. /\ top \in Nat /\ top - Window < f /\ f <= top + 1 /\ SN(f) = ind_sn
      /\ enable /\ ind_sn # None
  BY DEF TypeOK, FloorIs, Listening
<1>2. {g \in top - Window + 1 .. top + 1 : SN(g) = ind_sn} = {f}
  BY <1>1, OneInWindow
<1>3. Min({f}) = f
  BY LeastOne
<1> QED
  BY <1>1, <1>2, <1>3 DEF Floor

\* The same after a step.
LEMMA FloorAfter ==
  ASSUME TypeOK', Listening', NEW f \in Nat, FloorIs(f)'
  PROVE  Floor' = f
<1>1. /\ top' \in Nat /\ top' - Window < f /\ f <= top' + 1 /\ SN(f) = ind_sn'
      /\ enable' /\ ind_sn' # None
  <2>1. top' \in Nat
    <3>1. top' \in 0 .. MaxN
      BY DEF TypeOK
    <3> QED
      BY <3>1
  <2>2. top' - Window < f /\ f <= top' + 1 /\ SN(f) = ind_sn'
    BY DEF FloorIs, SN
  <2> QED
    BY <2>1, <2>2 DEF Listening
<1>2. {g \in top' - Window + 1 .. top' + 1 : SN(g) = ind_sn'} = {f}
  BY <1>1, OneInWindow
<1>3. Min({f}) = f
  BY LeastOne
<1>4. Floor' = LET F == {g \in top' - Window + 1 .. top' + 1 : SN(g) = ind_sn'}
               IN  IF F = {} THEN -1 ELSE Min(F)
  BY <1>1, Zenon DEF Floor
<1> QED
  BY <1>2, <1>3, <1>4

LEMMA NoFloor == ~Listening => Floor = None
BY DEF Listening, Floor

LEMMA WindowIsSound == TypeOK /\ WInv => ListSound
<1> SUFFICES ASSUME TypeOK, WInv PROVE ListSound
  OBVIOUS
<1>1. \A i \in DOMAIN reord_list : reord_list[i] \in ToSet(reord_list)
  BY Zenon DEF ToSet
<1>2. CASE Listening
  <2>1. PICK f \in Nat : FloorIs(f)
    BY <1>2 DEF WInv
  <2>2. Floor = f
    BY <1>2, <2>1, FloorValue
  <2>3. Floor # None /\ Floor # -1
    BY <2>2, NoneAssumption
  <2>4. ASSUME NEW i \in DOMAIN reord_list
        PROVE  reord_list[i] > Floor /\ reord_list[i] < Floor + Window
    <3>1. f < reord_list[i] /\ reord_list[i] <= top /\ top - Window < f
      BY <1>1, <2>1 DEF FloorIs
    <3>2. reord_list[i] \in Nat /\ top \in Nat /\ Window \in Nat
      BY SizesAssumption, Numbers DEF TypeOK
    <3> QED
      BY <2>2, <3>1, <3>2
  <2> QED
    BY <2>3, <2>4 DEF ListSound, WInv, Increasing
<1>3. CASE ~Listening
  <2>1. reord_list = <<>> /\ Floor = None
    BY <1>3, NoFloor DEF WInv
  <2>2. DOMAIN reord_list = {}
    BY <2>1
  <2> QED
    BY <2>1, <2>2, NoneAssumption DEF ListSound
<1> QED
  BY <1>2, <1>3

-----------------------------------------------------------------------------
(* The frame in hand, in a session. *)

\* What is known of a frame n looked at while f is expected.
LEMMA InHand ==
  ASSUME TypeOK, FrameHeld, WInv, rx = "process", NEW f \in Nat, FloorIs(f)
  PROVE  /\ frame \in Nat /\ frame \in 0 .. MaxN /\ top \in Nat
         /\ top - Behind <= frame /\ frame <= top + Ahead
         /\ top - Window < f /\ f <= top + 1
         /\ Window \in Nat /\ Window > 0 /\ Ahead \in Nat /\ Behind \in Nat
         /\ SnMod \div 2 \in Nat
         /\ Ahead + Window <= SnMod \div 2 /\ Behind < SnMod \div 2 /\ Window < SnMod \div 2
BY Half, SizesAssumption, DisorderAssumption DEF TypeOK, FrameHeld, WInv, NearTop, FloorIs

LEMMA LateIs ==
  ASSUME TypeOK, FrameHeld, WInv, rx = "process"
  PROVE  /\ ind_sn = None => ~IsLate
         /\ \A f \in Nat : ind_sn # None /\ FloorIs(f) => (IsLate <=> frame < f)
<1>1. frame \in Int
  BY DEF FrameHeld
<1>2. CASE ind_sn = None
  <2>1. ~SN_LESS(SN(frame), SN(frame))
    <3>1. frame - frame < SnMod \div 2 /\ frame - frame <= SnMod \div 2
      BY <1>1, Half, SizesAssumption
    <3> QED
      BY <1>1, <3>1, Less
  <2> QED
    BY <1>2, <2>1 DEF IsLate, Expected
<1>3. ASSUME NEW f \in Nat, ind_sn # None, FloorIs(f)
      PROVE  IsLate <=> frame < f
  <2>1. frame - f < SnMod \div 2 /\ f - frame <= SnMod \div 2
    BY <1>3, InHand
  <2>2. SN_LESS(SN(frame), SN(f)) <=> frame < f
    BY <1>1, <2>1, Less
  <2> QED
    BY <1>3, <2>2 DEF IsLate, Expected, FloorIs
<1> QED
  BY <1>2, <1>3

\* The expected number once the frame was looked at.
Raised(f) ==
  IF frame = f THEN f + 1
  ELSE IF frame > f + Window - 1 THEN frame - (Window - 1) ELSE f

LEMMA CheckedIs ==
  ASSUME TypeOK, FrameHeld, WInv, rx = "process", ind_sn # None,
         NEW f \in Nat, FloorIs(f), frame >= f
  PROVE  Checked = SN(Raised(f)) /\ Raised(f) \in Nat
<1>1. /\ frame \in Nat /\ top \in Nat
      /\ frame <= top + Ahead /\ top - Window < f
      /\ Window \in Nat /\ Window > 0 /\ Ahead \in Nat
      /\ SnMod \div 2 \in Nat /\ Ahead + Window <= SnMod \div 2
  BY InHand
<1>2. PICK h \in Nat : h = SnMod \div 2 /\ SnMod = 2 * h
  BY Half
<1>3. Expected = SN(f) /\ SN(f) \in Int /\ SN(frame) \in Int
  BY <1>1, Remainder DEF Expected, FloorIs, SN
<1>4. SN(frame) = SN(f) <=> frame = f
  <2>1. -SnMod < frame - f /\ frame - f < SnMod
    BY <1>1, <1>2
  <2> QED
    BY <1>1, <2>1, SameNumber
<1>5. (Expected + Window - 1) % SnMod = SN(f + (Window - 1))
  <2>1. (SN(f) + Window) - 1 = SN(f) + (Window - 1) /\ Window - 1 \in Int
    BY <1>1, <1>3
  <2>2. (SN(f) + (Window - 1)) % SnMod = SN(f + (Window - 1))
    BY <2>1, AddNumber
  <2> QED
    BY <1>3, <2>1, <2>2
<1>6. SN_LESS(SN(f + (Window - 1)), SN(frame)) <=> frame > f + Window - 1
  <2> DEFINE w == f + (Window - 1)
  <2>1. w \in Int /\ w - frame < SnMod \div 2 /\ frame - w <= SnMod \div 2
    BY <1>1
  <2>2. w < frame <=> frame > f + Window - 1
    BY <1>1
  <2> HIDE DEF w
  <2>3. SN_LESS(SN(w), SN(frame)) <=> w < frame
    BY <1>1, <2>1, Less
  <2> QED
    BY <2>2, <2>3 DEF w
<1>7. (SN(frame) + 1) % SnMod = SN(frame + 1)
  BY <1>1, AddNumber
<1>8. (SN(frame) - (Window - 1)) % SnMod = SN(frame - (Window - 1))
  <2>1. Window - 1 \in Int /\ frame \in Int
    BY <1>1
  <2> QED
    BY <2>1, AddNumber
<1>9. Checked = IF frame = f THEN SN(frame + 1)
                ELSE IF frame > f + Window - 1 THEN SN(frame - (Window - 1)) ELSE SN(f)
  BY <1>3, <1>4, <1>5, <1>6, <1>7, <1>8, Zenon DEF Checked
<1> QED
  BY <1>1, <1>9 DEF Raised

\* Where the frame goes, and whether it is there already.
LEMMA PlaceIs ==
  ASSUME TypeOK, FrameHeld, WInv, rx = "process",
         NEW f \in Nat, FloorIs(f), frame >= f
  PROVE  /\ Place \in 1 .. Len(reord_list) + 1
         /\ \A i \in 1 .. Len(reord_list) :
              IF i < Place THEN reord_list[i] < frame ELSE frame <= reord_list[i]
         /\ IsDuplicate <=> frame \in ToSet(reord_list)
<1> DEFINE l == reord_list
           T == {i \in DOMAIN l : ~SN_LESS(SN(l[i]), SN(frame))}
<1>1. /\ Len(l) \in Nat /\ DOMAIN l = 1 .. Len(l)
      /\ \A i \in 1 .. Len(l) : l[i] \in Nat /\ l[i] \in ToSet(l)
  BY Numbers, Elements DEF TypeOK
<1>2. frame \in Nat /\ Place \in 1 .. Len(l) + 1
  BY InHand, PlaceInList
<1>3. ASSUME NEW i \in 1 .. Len(l)
      PROVE  /\ SN_LESS(SN(l[i]), SN(frame)) <=> l[i] < frame
             /\ SN(l[i]) = SN(frame) => l[i] = frame
  <2>1. l[i] \in Nat /\ f < l[i] /\ l[i] <= top
    BY <1>1 DEF FloorIs
  <2>2. l[i] - frame < SnMod \div 2 /\ frame - l[i] <= SnMod \div 2
    <3>1. /\ frame \in Nat /\ top \in Nat /\ frame <= top + Ahead
          /\ top - Window < f /\ f <= top + 1
          /\ Window \in Nat /\ Ahead \in Nat /\ SnMod \div 2 \in Nat
          /\ Ahead + Window <= SnMod \div 2 /\ Window < SnMod \div 2
      BY InHand
    <3> HIDE DEF l
    <3> QED
      BY <2>1, <3>1
  <2>3. SnMod \div 2 < SnMod /\ SnMod \div 2 \in Int /\ SnMod \in Int
    BY SizesAssumption
  <2>4. -SnMod < l[i] - frame /\ l[i] - frame < SnMod
    BY <1>2, <2>1, <2>2, <2>3
  <2>5. l[i] \in Int /\ frame \in Int
    BY <1>2, <2>1
  <2>6. SN_LESS(SN(l[i]), SN(frame)) <=> l[i] < frame
    BY <2>2, <2>5, Less
  <2>7. SN(l[i]) = SN(frame) => l[i] = frame
    BY <2>4, <2>5, SameNumber
  <2> QED
    BY <2>6, <2>7
<1>4. /\ Place \in T \/ (T = {} /\ Place = Len(l) + 1)
      /\ \A i \in T : Place <= i
  <2>1. T \in SUBSET Nat
    BY <1>1
  <2>2. Place = IF T = {} THEN Len(l) + 1 ELSE Min(T)
    BY DEF Place
  <2> HIDE DEF T
  <2> QED
    BY <2>1, <2>2, LeastOne
<1>5. ASSUME NEW i \in 1 .. Len(l), i < Place
      PROVE  l[i] < frame
  <2>1. i \notin T
    BY <1>2, <1>4, <1>5
  <2>2. SN_LESS(SN(l[i]), SN(frame))
    BY <1>1, <2>1
  <2> QED
    BY <1>3, <2>2
<1>6. ASSUME NEW i \in 1 .. Len(l), ~(i < Place)
      PROVE  /\ Place \in 1 .. Len(l) /\ frame <= l[Place]
             /\ l[Place] = l[i] \/ l[Place] < l[i]
  <2>1. Place \in T /\ Place \in 1 .. Len(l)
    BY <1>1, <1>2, <1>4, <1>6
  <2>2. ~(l[Place] < frame)
    BY <1>3, <2>1
  <2>3. Place = i \/ Place < i
    BY <1>2, <1>6
  <2>4. Place < i => l[Place] < l[i]
    BY <1>1, <2>1 DEF WInv, Increasing
  <2> QED
    BY <1>1, <1>2, <2>1, <2>2, <2>3, <2>4
<1>7. ASSUME NEW i \in 1 .. Len(l), ~(i < Place)
      PROVE  frame <= l[i]
  <2>1. l[Place] \in Nat /\ l[i] \in Nat
    BY <1>1, <1>6, <1>7
  <2> QED
    BY <1>2, <1>6, <1>7, <2>1
<1>8. IsDuplicate => frame \in ToSet(l)
  <2> SUFFICES ASSUME IsDuplicate PROVE frame \in ToSet(l)
    OBVIOUS
  <2>1. Place \in 1 .. Len(l) /\ SN(l[Place]) = SN(frame)
    BY <1>1 DEF IsDuplicate
  <2> QED
    BY <1>1, <1>3, <2>1
<1>9. frame \in ToSet(l) => IsDuplicate
  <2> SUFFICES ASSUME frame \in ToSet(l) PROVE IsDuplicate
    OBVIOUS
  <2>1. PICK i \in 1 .. Len(l) : l[i] = frame
    BY Elements DEF TypeOK
  <2>2. ~(i < Place)
    BY <1>2, <1>5, <2>1
  <2>3. Place \in 1 .. Len(l) /\ frame <= l[Place] /\ (l[Place] = frame \/ l[Place] < frame)
    BY <1>6, <2>1, <2>2
  <2>4. l[Place] = frame
    BY <1>1, <1>2, <2>3
  <2> QED
    BY <1>1, <2>3, <2>4 DEF IsDuplicate
<1> QED
  BY <1>2, <1>5, <1>7, <1>8, <1>9

\* A list of one number, as it is handed up.
LEMMA OneHandedUp ==
  ASSUME NEW n, HandsUp({n}), n \in Nat
  PROVE  up' = <<n>>
<1>1. up' \in Seq({n}) /\ ToSet(up') = {n} /\ Increasing(up')
  BY DEF HandsUp
<1> DEFINE u == up'
<1>2. /\ Len(u) \in Nat /\ DOMAIN u = 1 .. Len(u)
      /\ \A i \in 1 .. Len(u) : u[i] = n
  BY <1>1, LenProperties
<1>3. \E i \in 1 .. Len(u) : u[i] = n
  BY <1>1, <1>2, Zenon DEF ToSet
<1>4. ~(Len(u) > 1)
  <2> SUFFICES ASSUME Len(u) > 1 PROVE FALSE
    OBVIOUS
  <2>1. 1 \in DOMAIN u /\ 2 \in DOMAIN u /\ u[1] = n /\ u[2] = n
    BY <1>2
  <2>2. u[1] < u[2]
    BY <1>1, <2>1 DEF Increasing
  <2> QED
    BY <2>1, <2>2
<1>5. Len(u) = 1
  BY <1>2, <1>3, <1>4
<1>6. u = [i \in 1 .. 1 |-> n]
  BY <1>1, <1>2, <1>5, LenProperties
<1> QED
  BY <1>6

\* A new list around a new expected number.
LEMMA NewFloor ==
  ASSUME TypeOK', NEW l \in Seq(0 .. MaxN), NEW d \in Nat,
         top' - Window < d, d <= top' + 1, SN(d) = ind_sn', d \notin ToSet(l),
         \A x \in ToSet(l) : x <= top',
         Increasing(reord_list'), ToSet(reord_list') = {x \in ToSet(l) : x >= d},
         enable', rx' = "idle" \/ UNCHANGED <<rx, frame, top>>, WInv
  PROVE  WInv' /\ Listening' /\ FloorIs(d)'
<1>1. ind_sn' # None /\ Listening'
  BY Remainder, NoneAssumption DEF SN, Listening
<1>2. \A x \in ToSet(reord_list') : d < x /\ x <= top'
  <2> SUFFICES ASSUME NEW x \in ToSet(l), x >= d PROVE d < x /\ x <= top'
    OBVIOUS
  <2>1. x \in Nat /\ x # d
    BY SetOfNumbers
  <2> QED
    BY <2>1
<1>3. FloorIs(d)'
  BY <1>2 DEF FloorIs
<1>4. NearTop' /\ SessionOpen'
  BY DEF WInv, NearTop, SessionOpen
<1> QED
  BY <1>1, <1>3, <1>4 DEF WInv

\* The first frame of a session is handed up at once.
LEMMA FirstListed ==
  ASSUME Inv, WInv, TypeOK', process_listed, ind_sn = None
  PROVE  /\ WInv' /\ Listening' /\ \E d \in Nat : d = frame + 1 /\ FloorIs(d)'
         /\ frame \in 0 .. MaxN
         /\ ~Listening /\ reord_list = <<>> /\ ToSet(reord_list') = {} /\ up' = <<frame>>
<1>1. /\ frame \in Nat /\ frame \in 0 .. MaxN /\ ~Listening /\ reord_list = <<>>
      /\ rx = "process" /\ enable
  BY DEF Inv, FrameHeld, WInv, Listening, SessionOpen, process_listed
<1> DEFINE l == InsertAt(reord_list, Place, frame)
<1>2. /\ ind_sn' = reord_rxframes_process(Checked, l)
      /\ HandUp(l, Due(ind_sn', l))
      /\ top' = frame /\ rx' = "idle" /\ enable' = enable
  BY Zenon DEF process_listed
<1>3. l \in Seq(0 .. MaxN) /\ Increasing(l) /\ ToSet(l) = {frame}
  <2>1. Place \in 1 .. Len(reord_list) + 1
    BY PlaceInList DEF Inv
  <2>2. Len(reord_list) = 0 /\ ToSet(reord_list) = {} /\ Increasing(reord_list)
    BY <1>1 DEF ToSet, Increasing
  <2>3. \A i \in 1 .. Len(reord_list) :
          IF i < Place THEN reord_list[i] < frame ELSE frame < reord_list[i]
    BY <2>2
  <2>4. reord_list \in Seq(0 .. MaxN)
    BY DEF Inv, TypeOK
  <2> HIDE DEF l
  <2>5. InsertAt(reord_list, Place, frame) \in Seq(0 .. MaxN)
        /\ Increasing(InsertAt(reord_list, Place, frame))
        /\ ToSet(InsertAt(reord_list, Place, frame)) = ToSet(reord_list) \cup {frame}
    BY <1>1, <2>1, <2>2, <2>3, <2>4, InsertKeepsOrder
  <2> QED
    BY <2>2, <2>5 DEF l
<1>4. Checked = SN(frame + 1)
  <2>1. (SN(frame) + 1) % SnMod = SN(frame + 1)
    BY <1>1, AddNumber
  <2> QED
    BY <2>1 DEF Checked, Expected
<1> HIDE DEF l
<1>5. PICK d \in Nat :
        /\ IsNext(d, frame + 1, l) /\ d <= frame + 1
        /\ reord_rxframes_process(SN(frame + 1), l) = SN(d)
        /\ \A x \in ToSet(l) : SN_LESS(SN(d), SN(x)) <=> d < x
  <2>1. /\ frame + 1 \in Nat /\ frame + 1 <= frame + 1 /\ frame <= frame + 1
        /\ frame + 1 - frame < SnMod \div 2
        /\ \A x \in ToSet(l) : frame <= x /\ x <= frame
    BY <1>1, <1>3, Half, SizesAssumption
  <2> QED
    BY <1>1, <1>3, <2>1, ProcessMoves
<1>6. d = frame + 1
  BY <1>1, <1>5 DEF IsNext
<1>7. /\ Increasing(reord_list')
      /\ ToSet(reord_list') = {x \in ToSet(l) : x >= d}
      /\ HandsUp({x \in ToSet(l) : x < d})
  <2>1. HandUp(l, Due(SN(d), l)) /\ d \notin ToSet(l)
    BY <1>2, <1>4, <1>5 DEF IsNext
  <2> QED
    BY <1>3, <1>5, <2>1, CutAtExpected
<1>8. {x \in ToSet(l) : x >= d} = {} /\ {x \in ToSet(l) : x < d} = {frame}
  BY <1>1, <1>3, <1>6
<1>9. up' = <<frame>>
  BY <1>1, <1>7, <1>8, OneHandedUp
<1>10. WInv' /\ Listening' /\ FloorIs(d)'
  <2>1. top' - Window < d /\ d <= top' + 1 /\ \A x \in ToSet(l) : x <= top'
    BY <1>1, <1>2, <1>3, <1>6, SizesAssumption
  <2>2. SN(d) = ind_sn' /\ d \notin ToSet(l)
    BY <1>2, <1>4, <1>5 DEF IsNext
  <2> QED
    BY <1>1, <1>2, <1>3, <1>7, <2>1, <2>2, NewFloor
<1> QED
  BY <1>1, <1>6, <1>7, <1>8, <1>9, <1>10

\* A frame at or after the expected number f is listed, and the list cut at the
\* first missing number from where f was raised to.
LEMMA NextListed ==
  ASSUME Inv, WInv, TypeOK', process_listed, ind_sn # None, NEW f \in Nat, FloorIs(f)
  PROVE  /\ frame \in 0 .. MaxN /\ frame >= f /\ frame \notin ToSet(reord_list)
         /\ \E d \in Nat :
              LET S == ToSet(reord_list) \cup {frame}
              IN  /\ WInv' /\ Listening' /\ FloorIs(d)'
                  /\ d >= Raised(f) /\ d \notin S
                  /\ \A x \in Nat : Raised(f) <= x /\ x < d => x \in S
                  /\ ToSet(reord_list') = {x \in S : x >= d}
                  /\ HandsUp({x \in S : x < d})
<1>1. /\ TypeOK /\ FrameHeld /\ rx = "process" /\ ~IsLate /\ ~IsDuplicate
      /\ reord_list \in Seq(0 .. MaxN)
  BY DEF Inv, TypeOK, process_listed
<1> DEFINE l == InsertAt(reord_list, Place, frame)
           S == ToSet(reord_list) \cup {frame}
<1>2. /\ ind_sn' = reord_rxframes_process(Checked, l)
      /\ HandUp(l, Due(ind_sn', l))
      /\ top' = Max({top, frame}) /\ rx' = "idle" /\ enable' = enable
  BY Zenon DEF process_listed
<1>3. /\ frame \in Nat /\ frame \in 0 .. MaxN /\ top \in Nat /\ frame <= top + Ahead
      /\ top - Window < f /\ f <= top + 1
      /\ Window \in Nat /\ Window > 0 /\ Ahead \in Nat /\ SnMod \div 2 \in Nat
      /\ Ahead + Window <= SnMod \div 2 /\ Window < SnMod \div 2
  BY <1>1, InHand
<1>4. frame >= f
  <2>1. ~(frame < f)
    BY <1>1, LateIs
  <2> QED
    BY <1>3, <2>1
<1>5. /\ frame \notin ToSet(reord_list) /\ Place \in 1 .. Len(reord_list) + 1
      /\ \A i \in 1 .. Len(reord_list) :
           IF i < Place THEN reord_list[i] < frame ELSE frame <= reord_list[i]
  BY <1>1, <1>4, PlaceIs
<1>6. l \in Seq(0 .. MaxN) /\ Increasing(l) /\ ToSet(l) = S
  <2>1. ASSUME NEW i \in 1 .. Len(reord_list)
        PROVE  IF i < Place THEN reord_list[i] < frame ELSE frame < reord_list[i]
    <3>1. reord_list[i] \in ToSet(reord_list) /\ reord_list[i] \in Nat
      BY <1>1, Numbers, Elements
    <3>2. reord_list[i] # frame
      BY <1>5, <3>1
    <3> QED
      BY <1>3, <1>5, <3>1, <3>2
  <2>2. Increasing(reord_list)
    BY DEF WInv
  <2> QED
    BY <1>1, <1>3, <1>5, <2>1, <2>2, InsertKeepsOrder
<1> HIDE DEF l
<1>7. Checked = SN(Raised(f)) /\ Raised(f) \in Nat
  BY <1>1, <1>4, CheckedIs
<1>8. top' \in Nat /\ top <= top' /\ frame <= top' /\ (top' = top \/ top' = frame)
  BY <1>2, <1>3, GreaterOfTwo
<1> DEFINE lo == IF frame > f + Window - 1 THEN f + 1 ELSE f
           c  == Raised(f)
<1>9. \A x \in S : x \in Nat /\ lo <= x /\ x <= top'
  <2>1. \A x \in ToSet(reord_list) : x \in Nat /\ f < x /\ x <= top
    BY <1>1, SetOfNumbers DEF FloorIs
  <2>2. lo <= frame
    BY <1>3, <1>4
  <2>3. \A x \in Nat : f < x => lo <= x
    OBVIOUS
  <2> HIDE DEF lo
  <2> QED
    BY <1>3, <1>8, <2>1, <2>2, <2>3
<1>10. /\ lo \in Nat /\ lo <= c /\ c <= top' + 1 /\ top' + 1 - lo < SnMod \div 2
       /\ top' - Window < c
  <2>1. CASE frame > f + Window - 1
    <3>1. lo = f + 1 /\ c = frame - (Window - 1)
      BY <1>3, <2>1 DEF Raised
    <3> HIDE DEF lo, c
    <3>2. lo \in Nat /\ lo <= c /\ c \in Int
      BY <1>3, <2>1, <3>1
    <3>7. frame - (Window - 1) <= top' + 1 /\ top' - Window < frame - (Window - 1)
      <4>1. f < frame - (Window - 1) /\ frame - (Window - 1) <= frame
        BY <1>3, <2>1
      <4>2. CASE top' = top
        BY <1>3, <1>8, <4>1, <4>2
      <4>3. CASE top' = frame
        BY <1>3, <1>8, <4>1, <4>3
      <4> QED
        BY <1>8, <4>2, <4>3
    <3>3. c <= top' + 1
      BY <3>1, <3>7
    <3>6. top' - Window < c
      BY <3>1, <3>7
    <3>4. top' - f < SnMod \div 2
      BY <1>3, <1>8
    <3>5. top' + 1 - lo < SnMod \div 2
      BY <1>3, <1>8, <3>1, <3>4
    <3> QED
      BY <3>2, <3>3, <3>5, <3>6
  <2>2. CASE ~(frame > f + Window - 1)
    <3>1. lo = f /\ (c = f \/ (frame = f /\ c = f + 1))
      BY <2>2 DEF Raised
    <3> HIDE DEF lo, c
    <3> QED
      BY <1>3, <1>8, <2>2, <3>1
  <2> QED
    BY <2>1, <2>2
<1> HIDE DEF lo
<1>11. PICK d \in Nat :
         /\ IsNext(d, c, l) /\ d <= top' + 1
         /\ reord_rxframes_process(SN(c), l) = SN(d)
         /\ \A x \in ToSet(l) : SN_LESS(SN(d), SN(x)) <=> d < x
  <2> HIDE DEF c
  <2>1. c \in Nat
    BY <1>7 DEF c
  <2> QED
    BY <1>6, <1>8, <1>9, <1>10, <2>1, ProcessMoves
<1>12. d >= c /\ d \notin S /\ \A x \in Nat : c <= x /\ x < d => x \in S
  BY <1>6, <1>11, Zenon DEF IsNext
<1>13. SN(d) = ind_sn'
  BY <1>2, <1>7, <1>11
<1>14. /\ Increasing(reord_list')
       /\ ToSet(reord_list') = {x \in ToSet(l) : x >= d}
       /\ HandsUp({x \in ToSet(l) : x < d})
  <2>1. HandUp(l, Due(SN(d), l)) /\ d \notin ToSet(l)
    BY <1>2, <1>6, <1>12, <1>13
  <2> QED
    BY <1>6, <1>11, <2>1, CutAtExpected
<1>15. WInv' /\ Listening' /\ FloorIs(d)'
  <2>1. top' - Window < d
    <3> HIDE DEF c
    <3>1. c \in Nat
      BY <1>7 DEF c
    <3>2. c <= d /\ top' - Window < c /\ top' \in Nat /\ Window \in Nat
      BY <1>3, <1>8, <1>10, <1>12
    <3>3. d \in Int /\ c \in Int /\ top' - Window \in Int
      BY <1>11, <3>1, <3>2
    <3>4. \A x, y, z \in Int : x < y /\ y <= z => x < z
      OBVIOUS
    <3> HIDE DEF S
    <3> QED
      BY <3>2, <3>3, <3>4
  <2>2. enable'
    BY <1>1, <1>2 DEF WInv, SessionOpen
  <2>3. d \notin ToSet(l) /\ \A x \in ToSet(l) : x <= top'
    BY <1>6, <1>9, <1>12
  <2> HIDE DEF c, S
  <2> QED
    BY <1>2, <1>6, <1>11, <1>13, <1>14, <2>1, <2>2, <2>3, NewFloor
<1> QED
  <2> HIDE DEF S
  <2>1. /\ ToSet(reord_list') = {x \in S : x >= d}
        /\ HandsUp({x \in S : x < d})
    BY <1>6, <1>14
  <2> QED
    BY <1>3, <1>4, <1>5, <1>12, <1>15, <2>1 DEF S

\* The wait is given up: the first listed frame is expected.
LEMMA GivenUpMoves ==
  ASSUME Inv, WInv, TypeOK', reord_timeout_worker, reord_list # <<>>
  PROVE  LET h == Head(reord_list)
             S == ToSet(reord_list)
         IN  /\ Listening
             /\ h \in S /\ h \in Nat /\ \A x \in S : h <= x
             /\ \E d \in Nat :
                  /\ WInv' /\ Listening' /\ FloorIs(d)'
                  /\ d >= h /\ d \notin S
                  /\ \A x \in Nat : h <= x /\ x < d => x \in S
                  /\ ToSet(reord_list') = {x \in S : x >= d}
                  /\ HandsUp({x \in S : x < d})
<1> DEFINE h == Head(reord_list)
           l == reord_list
           S == ToSet(reord_list)
<1>1. /\ Listening /\ enable' = enable /\ UNCHANGED <<rx, frame, top>>
      /\ l \in Seq(0 .. MaxN) /\ Increasing(l) /\ top \in Nat
  BY DEF reord_timeout_worker, rxVars, WInv, Inv, TypeOK
<1>2. PICK f \in Nat : FloorIs(f)
  BY <1>1 DEF WInv
<1>3. /\ ind_sn' = reord_rxframes_process(SN(h), l)
      /\ HandUp(l, Due(ind_sn', l))
  BY Zenon DEF reord_timeout_worker
<1>4. /\ Len(l) \in Nat /\ DOMAIN l = 1 .. Len(l)
      /\ \A i \in 1 .. Len(l) : l[i] \in Nat /\ l[i] \in S
  BY <1>1, Numbers, Elements
<1>5. h = l[1] /\ 1 \in 1 .. Len(l)
  BY <1>1, <1>4, EmptySeq, HeadTailProperties
<1>6. h \in S /\ h \in Nat
  BY <1>4, <1>5
<1>7. ASSUME NEW x \in S PROVE h <= x /\ x <= top /\ x \in Nat
  <2>1. PICK i \in 1 .. Len(l) : l[i] = x
    BY <1>1, Elements
  <2>2. x \in Nat /\ (i = 1 \/ 1 < i)
    BY <1>4, <2>1
  <2>3. 1 < i => l[1] < l[i]
    BY <1>1, <1>4, <1>5, <2>1 DEF Increasing
  <2>4. h <= x
    <3> HIDE DEF h, l
    <3> QED
      BY <1>5, <1>6, <2>1, <2>2, <2>3
  <2> QED
    BY <1>2, <2>2, <2>4 DEF FloorIs
<1>8. f < h /\ h <= top /\ top - Window < f
  BY <1>2, <1>6 DEF FloorIs
<1> HIDE DEF h
<1>9. h <= top + 1 /\ top + 1 - h < SnMod \div 2 /\ top - Window < h /\ h <= h
  BY <1>1, <1>6, <1>8, Half, SizesAssumption
<1>10. PICK d \in Nat :
         /\ IsNext(d, h, l) /\ d <= top + 1
         /\ reord_rxframes_process(SN(h), l) = SN(d)
         /\ \A x \in ToSet(l) : SN_LESS(SN(d), SN(x)) <=> d < x
  <2> HIDE DEF l
  <2>1. \A x \in ToSet(l) : h <= x /\ x <= top
    BY <1>7 DEF l
  <2> QED
    BY <1>1, <1>6, <1>9, <2>1, ProcessMoves
<1>11. d >= h /\ d \notin S /\ \A x \in Nat : h <= x /\ x < d => x \in S
  BY <1>10, Zenon DEF IsNext
<1>12. SN(d) = ind_sn'
  BY <1>3, <1>10
<1>13. /\ Increasing(reord_list')
       /\ ToSet(reord_list') = {x \in S : x >= d}
       /\ HandsUp({x \in S : x < d})
  <2>1. HandUp(l, Due(SN(d), l))
    BY <1>3, <1>12
  <2> QED
    BY <1>1, <1>10, <1>11, <2>1, CutAtExpected
<1>14. WInv' /\ Listening' /\ FloorIs(d)'
  <2>1. top' - Window < d /\ d <= top' + 1
    BY <1>1, <1>6, <1>9, <1>10, <1>11, SizesAssumption
  <2>2. enable' /\ \A x \in S : x <= top'
    BY <1>1, <1>7 DEF Listening
  <2> QED
    BY <1>1, <1>11, <1>12, <1>13, <2>1, <2>2, NewFloor
<1> QED
  BY <1>1, <1>6, <1>7, <1>11, <1>13, <1>14 DEF h

-----------------------------------------------------------------------------
(* The steps, as steps of Reordering. *)

\* The operators of the libraries are the same in both modules.
LEMMA Shared ==
  ASSUME NEW S
  PROVE  /\ Sequencing!ToSet(S) = ToSet(S)
         /\ Sequencing!Min(S) = Min(S) /\ Sequencing!Max(S) = Max(S)
BY DEF Sequencing!ToSet, ToSet, Sequencing!Min, Min, Sequencing!Max, Max

\* CHOOSE finds the one number that is meant.
LEMMA NextMissingIs ==
  ASSUME NEW S \in SUBSET Nat, NEW b \in Nat, NEW d \in Nat, b <= d,
         d \notin S, \A x \in Nat : b <= x /\ x < d => x \in S
  PROVE  Sequencing!NextMissing(S, b) = d
<1> DEFINE T == {b} \cup {n + 1 : n \in S}
           P(f) == f >= b /\ f \notin S /\ b .. f - 1 \subseteq S
<1>1. d \in T
  <2>1. CASE d = b
    BY <2>1
  <2>2. CASE d # b
    <3>1. d - 1 \in S /\ (d - 1) + 1 = d
      BY <2>2
    <3> QED
      BY <3>1
  <2> QED
    BY <2>1, <2>2
<1>2. P(d)
  OBVIOUS
<1>3. ASSUME NEW e \in T, P(e) PROVE e = d
  <2>1. e \in Nat /\ b <= e /\ e \notin S
    BY <1>3
  <2>2. ~(e < d)
    BY <2>1
  <2>3. ~(d < e)
    <3> SUFFICES ASSUME d < e PROVE FALSE
      OBVIOUS
    <3>1. d \in b .. e - 1
      BY <2>1
    <3> QED
      BY <1>3, <3>1
  <2> QED
    BY <2>1, <2>2, <2>3
<1>4. Sequencing!NextMissing(S, b) = CHOOSE f \in T : P(f)
  BY DEF Sequencing!NextMissing
<1> HIDE DEF T, P
<1>5. (CHOOSE f \in T : P(f)) = d
  BY <1>1, <1>2, <1>3
<1> QED
  BY <1>4, <1>5

\* What the variables of Reordering see.
seen == <<Floor, ToSet(reord_list), up>>

\* A step that leaves the session and the list alone.
LEMMA Unseen ==
  ASSUME WInv, UNCHANGED <<enable, ind_sn, reord_list, top>>, NearTop', SessionOpen'
  PROVE  WInv' /\ UNCHANGED <<Floor, ToSet(reord_list)>>
<1>1. WInv'
  BY Zenon DEF WInv, Listening, FloorIs, Increasing
<1>2. UNCHANGED <<Floor, ToSet(reord_list)>>
  BY Zenon DEF Floor
<1> QED
  BY <1>1, <1>2

\* What HandsUp says is what Reordering says.
LEMMA HandsUpIs == ASSUME NEW S, HandsUp(S) PROVE Sequencing!HandUp(S)
BY Shared DEF Sequencing!HandUp, HandsUp, Increasing

LEMMA FirstIsOpen ==
  ASSUME Inv, TypeOK', WInv, process_listed, ind_sn = None
  PROVE  WInv' /\ Sequencing!Next
<1>1. PICK d \in Nat : d = frame + 1 /\ FloorIs(d)'
  BY FirstListed
<1>2. /\ WInv' /\ Listening' /\ ~Listening /\ frame \in 0 .. MaxN
      /\ reord_list = <<>> /\ ToSet(reord_list') = {} /\ up' = <<frame>>
  BY FirstListed
<1>3. Floor = None /\ Floor' = frame + 1
  BY <1>1, <1>2, NoFloor, FloorAfter
<1>4. ToSet(reord_list) = {}
  BY <1>2 DEF ToSet
<1>5. Sequencing!Open(frame)
  BY <1>2, <1>3, <1>4 DEF Sequencing!Open
<1> QED
  BY <1>2, <1>5 DEF Sequencing!Next

LEMMA ListedArrives ==
  ASSUME Inv, TypeOK', WInv, process_listed, ind_sn # None
  PROVE  WInv' /\ Sequencing!Next
<1>0. Listening /\ TypeOK
  BY DEF Inv, WInv, SessionOpen, process_listed, Listening
<1>1. PICK f \in Nat : FloorIs(f)
  BY <1>0 DEF WInv
<1> DEFINE S == ToSet(reord_list) \cup {frame}
           b == Max({f, frame - Window + 1})
<1>2. frame \in 0 .. MaxN /\ frame >= f /\ frame \notin ToSet(reord_list)
  BY <1>1, NextListed
<1>3. PICK d \in Nat :
        /\ WInv' /\ Listening' /\ FloorIs(d)'
        /\ d >= Raised(f) /\ d \notin S
        /\ \A x \in Nat : Raised(f) <= x /\ x < d => x \in S
        /\ ToSet(reord_list') = {x \in S : x >= d}
        /\ HandsUp({x \in S : x < d})
  BY <1>1, NextListed
<1>4. Floor = f /\ Floor' = d /\ f # None
  BY <1>0, <1>1, <1>3, FloorValue, FloorAfter, NoneAssumption
<1>5. S \in SUBSET Nat
  BY <1>0, <1>2, SetOfNumbers DEF TypeOK
<1>6. b \in Nat /\ b <= d /\ \A x \in Nat : b <= x /\ x < d => x \in S
  <2>1. Window \in Nat /\ Window > 0 /\ frame \in Nat /\ frame \in S
    BY <1>2, SizesAssumption
  <2>2. b \in {f, frame - Window + 1} /\ f <= b /\ frame - Window + 1 <= b
    <3>1. f \in Int /\ frame - Window + 1 \in Int
      BY <2>1
    <3> QED
      BY <3>1, GreaterOfTwo
  <2> HIDE DEF b, S
  <2>3. CASE frame = f
    <3>1. b = f /\ Raised(f) = f + 1
      BY <2>1, <2>2, <2>3 DEF Raised
    <3>2. \A x \in Nat : b <= x /\ x < d => x = frame \/ (Raised(f) <= x /\ x < d)
      BY <2>3, <3>1
    <3> QED
      BY <1>3, <2>1, <3>1, <3>2
  <2>4. CASE frame # f
    <3>1. b = Raised(f) /\ b \in Nat
      BY <2>1, <2>2, <2>4 DEF Raised
    <3> QED
      BY <1>3, <3>1
  <2> QED
    BY <2>3, <2>4
<1>7. Sequencing!NextMissing(S, b) = d
  <2> HIDE DEF b, S
  <2> QED
    BY <1>3, <1>5, <1>6, NextMissingIs
<1>8. Sequencing!Raise(S, d)
  <2> HIDE DEF S
  <2> QED
    BY <1>3, <1>4, HandsUpIs DEF Sequencing!Raise
<1>9. Sequencing!Arrive(frame)
  <2>1. Sequencing!Max({Floor, frame - Window + 1}) = b
    BY <1>4, Shared
  <2> HIDE DEF b
  <2> QED
    BY <1>2, <1>4, <1>7, <1>8, <2>1 DEF Sequencing!Arrive
<1> QED
  BY <1>2, <1>3, <1>9 DEF Sequencing!Next

LEMMA WorkGivesUp ==
  ASSUME Inv, TypeOK', WInv, reord_timeout_worker, reord_list # <<>>
  PROVE  WInv' /\ Sequencing!Next
<1> DEFINE h == Head(reord_list)
           S == ToSet(reord_list)
<1>1. Listening /\ h \in S /\ h \in Nat /\ \A x \in S : h <= x
  BY GivenUpMoves
<1>2. PICK d \in Nat :
        /\ WInv' /\ Listening' /\ FloorIs(d)'
        /\ d >= h /\ d \notin S
        /\ \A x \in Nat : h <= x /\ x < d => x \in S
        /\ ToSet(reord_list') = {x \in S : x >= d}
        /\ HandsUp({x \in S : x < d})
  BY GivenUpMoves
<1>3. S \in SUBSET Nat
  BY SetOfNumbers DEF Inv, TypeOK
<1> HIDE DEF h, S
<1>4. Min(S) = h
  <2>1. Min(S) \in S /\ \A y \in S : Min(S) <= y
    BY <1>1, <1>3, LeastOne
  <2>2. Min(S) \in Nat /\ Min(S) <= h /\ h <= Min(S)
    BY <1>1, <1>3, <2>1
  <2> QED
    BY <1>1, <2>2
<1>5. Sequencing!NextMissing(S, h) = d
  BY <1>1, <1>2, <1>3, NextMissingIs
<1>6. Floor' = d
  BY <1>2, FloorAfter
<1>7. Sequencing!Raise(S, d)
  BY <1>2, <1>6, HandsUpIs DEF Sequencing!Raise
<1>8. Sequencing!GiveUp
  BY <1>1, <1>4, <1>5, <1>7, Shared DEF Sequencing!GiveUp, S
<1> QED
  BY <1>2, <1>8 DEF Sequencing!Next

LEMMA FlushCloses ==
  ASSUME Inv, TypeOK', WInv, reord_flush_tid
  PROVE  WInv' /\ Sequencing!Next
<1> DEFINE l == reord_list
<1>1. /\ l \in Seq(0 .. MaxN) /\ Increasing(l) /\ HandUp(l, Len(l))
      /\ enable' = FALSE /\ rx' = "del_timer"
  BY DEF Inv, TypeOK, WInv, reord_flush_tid
<1>2. Len(l) \in 0 .. Len(l) /\ MaxN + 1 \in Nat /\ \A i \in 1 .. Len(l) : l[i] < MaxN + 1
  <2>1. Len(l) \in Nat /\ \A i \in 1 .. Len(l) : l[i] \in Nat /\ l[i] <= MaxN
    BY <1>1, Numbers
  <2> QED
    BY <2>1, SizesAssumption
<1>3. /\ reord_list' \in Seq(0 .. MaxN) /\ Increasing(reord_list')
      /\ ToSet(reord_list') = {x \in ToSet(l) : x >= MaxN + 1}
      /\ HandsUp({x \in ToSet(l) : x < MaxN + 1})
  <2>1. \A i \in 1 .. Len(l) : i <= Len(l) <=> l[i] < MaxN + 1
    BY <1>2
  <2> QED
    BY <1>1, <1>2, <2>1, HandUpOrder
<1>4. \A x \in ToSet(l) : x < MaxN + 1 /\ ~(x >= MaxN + 1)
  <2>1. \A x \in 0 .. MaxN : x < MaxN + 1 /\ ~(x >= MaxN + 1)
    BY SizesAssumption
  <2> QED
    BY <1>1, <2>1, SetOfNumbers
<1>5. ToSet(reord_list') = {} /\ HandsUp(ToSet(l))
  <2>1. {x \in ToSet(l) : x >= MaxN + 1} = {} /\ {x \in ToSet(l) : x < MaxN + 1} = ToSet(l)
    BY <1>4
  <2> QED
    BY <1>3, <2>1
<1>6. reord_list' = <<>>
  <2>1. Len(reord_list') \in Nat /\ \A i \in 1 .. Len(reord_list') : reord_list'[i] \in ToSet(reord_list')
    BY <1>3, Elements
  <2>2. Len(reord_list') = 0
    BY <1>5, <2>1
  <2> QED
    BY <1>3, <2>2, EmptySeq
<1>7. ~Listening' /\ Floor' = None
  BY <1>1 DEF Listening, Floor
<1>8. WInv'
  BY <1>1, <1>3, <1>6, <1>7 DEF WInv, NearTop, SessionOpen
<1>9. Sequencing!Close
  BY <1>5, <1>7, HandsUpIs DEF Sequencing!Close
<1> QED
  BY <1>8, <1>9 DEF Sequencing!Next

LEMMA LateOrDuplicate ==
  ASSUME Inv, TypeOK', WInv, process_late \/ process_duplicate
  PROVE  WInv' /\ [Sequencing!Next]_seen
<1>0. TypeOK /\ FrameHeld /\ rx = "process" /\ enable /\ frame \in 0 .. MaxN
  BY DEF Inv, WInv, SessionOpen, FrameHeld, process_late, process_duplicate
<1>1. CASE process_late
  <2>1. UNCHANGED <<enable, ind_sn, reord_list, top>> /\ rx' = "idle"
    BY <1>1 DEF process_late, ctrlVars
  <2>2. WInv' /\ UNCHANGED <<Floor, ToSet(reord_list)>>
    BY <2>1, Unseen DEF NearTop, SessionOpen
  <2>3. CASE up' = up
    BY <2>2, <2>3 DEF seen
  <2>4. CASE up' = <<frame>>
    <3>1. ind_sn # None
      BY <1>0, <1>1, LateIs DEF process_late
    <3>2. PICK f \in Nat : FloorIs(f)
      BY <1>0, <3>1 DEF WInv, Listening
    <3>3. frame < f /\ Floor = f /\ f # None
      BY <1>0, <1>1, <3>1, <3>2, LateIs, FloorValue, NoneAssumption DEF process_late, Listening
    <3>4. Sequencing!Late(frame)
      BY <2>2, <2>4, <3>3 DEF Sequencing!Late
    <3> QED
      BY <1>0, <2>2, <3>4 DEF Sequencing!Next
  <2> QED
    BY <1>1, <2>3, <2>4 DEF process_late
<1>2. CASE process_duplicate
  <2>1. /\ ind_sn' = Checked /\ UNCHANGED <<enable, reord_list, top, up>> /\ rx' = "idle"
        /\ ~IsLate /\ IsDuplicate
    BY <1>2 DEF process_duplicate
  <2>2. ind_sn # None
    <3> SUFFICES ASSUME ind_sn = None PROVE FALSE
      OBVIOUS
    <3>1. reord_list = <<>>
      BY DEF WInv, Listening
    <3>2. DOMAIN reord_list = {}
      BY <3>1
    <3> QED
      BY <2>1, <3>2 DEF IsDuplicate
  <2>3. PICK f \in Nat : FloorIs(f)
    BY <1>0, <2>2 DEF WInv, Listening
  <2>4. frame >= f
    <3>1. ~(frame < f)
      BY <1>0, <2>1, <2>2, <2>3, LateIs
    <3> QED
      BY <1>0, <3>1
  <2>5. frame \in ToSet(reord_list)
    BY <1>0, <2>1, <2>3, <2>4, PlaceIs
  <2>6. f < frame /\ frame <= top /\ top - Window < f /\ SN(f) = ind_sn
    BY <2>3, <2>5 DEF FloorIs
  <2>7. Raised(f) = f
    BY <1>0, <2>6, SizesAssumption DEF Raised, TypeOK
  <2>8. ind_sn' = ind_sn
    BY <1>0, <2>1, <2>2, <2>3, <2>4, <2>6, <2>7, CheckedIs
  <2>9. WInv' /\ UNCHANGED <<Floor, ToSet(reord_list)>>
    BY <2>1, <2>8, Unseen DEF NearTop, SessionOpen
  <2> QED
    BY <2>1, <2>9 DEF seen
<1> QED
  BY <1>1, <1>2

LEMMA ArriveUnseen ==
  ASSUME Inv, TypeOK', WInv, rwnx_rxdataind \/ reord_bypass \/ reord_lookup
  PROVE  WInv' /\ UNCHANGED seen
<1>1. CASE rwnx_rxdataind
  <2>1. /\ UNCHANGED <<enable, ind_sn, reord_list, top, up>>
        /\ frame' \in top - Behind .. top + Ahead /\ rx' = "lookup"
    BY <1>1 DEF rwnx_rxdataind, ctrlVars
  <2>2. NearTop' /\ SessionOpen'
    BY <2>1 DEF NearTop, SessionOpen
  <2> QED
    BY <2>1, <2>2, Unseen DEF seen
<1>2. CASE reord_bypass
  <2>1. UNCHANGED <<enable, ind_sn, reord_list, top, up>> /\ rx' = "idle"
    BY <1>2 DEF reord_bypass, ctrlVars
  <2> QED
    BY <2>1, Unseen DEF seen, NearTop, SessionOpen
<1>3. CASE reord_lookup
  <2>1. /\ UNCHANGED <<reord_list, top, up, frame>> /\ enable' = TRUE
        /\ ind_sn' = (IF enable THEN ind_sn ELSE None) /\ rx = "lookup" /\ rx' = "process"
    BY <1>3 DEF reord_lookup
  <2>2. NearTop' /\ SessionOpen'
    BY <2>1 DEF WInv, NearTop, SessionOpen
  <2>3. CASE enable
    <3>1. enable' = enable /\ ind_sn' = ind_sn
      BY <2>1, <2>3 DEF Inv, TypeOK
    <3> QED
      BY <2>1, <2>2, <3>1, Unseen DEF seen
  <2>4. CASE ~enable
    <3>1. ~Listening /\ ~Listening' /\ reord_list = <<>>
      BY <2>1, <2>4 DEF Listening, WInv
    <3>2. WInv'
      BY <2>1, <2>2, <3>1 DEF WInv, Increasing
    <3>3. Floor = None /\ Floor' = None
      BY <2>1, <2>4 DEF Floor
    <3> QED
      BY <2>1, <3>2, <3>3 DEF seen
  <2> QED
    BY <2>3, <2>4
<1> QED
  BY <1>1, <1>2, <1>3

LEMMA TimersUnseen ==
  ASSUME WInv, Flush \/ timer_fires \/ reord_timeout_handler \/ work_start \/ power
  PROVE  WInv' /\ UNCHANGED seen
<1>1. UNCHANGED <<enable, ind_sn, reord_list, top, up, frame>>
      /\ (rx' = rx \/ rx' = "cancel_work" \/ rx' = "idle")
  BY DEF Flush, flush_timer, flush_work, timer_fires, reord_timeout_handler, work_start, power,
     ctrlVars, rxVars, timerVars
<1>2. NearTop' /\ SessionOpen'
  BY <1>1 DEF WInv, NearTop, SessionOpen
<1> QED
  BY <1>1, <1>2, Unseen DEF seen

LEMMA WindowStep ==
  Inv /\ TypeOK' /\ WInv /\ [Next]_vars => WInv' /\ [Sequencing!Next]_seen
<1> SUFFICES ASSUME Inv, TypeOK', WInv, [Next]_vars
             PROVE  WInv' /\ [Sequencing!Next]_seen
  OBVIOUS
<1>1. CASE rwnx_rxdataind \/ reord_bypass \/ reord_lookup
  BY <1>1, ArriveUnseen
<1>2. CASE process_late \/ process_duplicate
  BY <1>2, LateOrDuplicate
<1>3. CASE process_listed
  BY <1>3, FirstIsOpen, ListedArrives
<1>4. CASE reord_flush_tid
  BY <1>4, FlushCloses
<1>5. CASE Flush \/ timer_fires \/ reord_timeout_handler \/ work_start \/ power
  BY <1>5, TimersUnseen
<1>6. CASE reord_timeout_worker
  <2>1. CASE reord_list = <<>>
    <3>1. UNCHANGED <<enable, ind_sn, reord_list, top, up, frame, rx>>
      BY <1>6, <2>1 DEF reord_timeout_worker, rxVars
    <3>2. NearTop' /\ SessionOpen'
      BY <3>1 DEF WInv, NearTop, SessionOpen
    <3> QED
      BY <3>1, <3>2, Unseen DEF seen
  <2>2. CASE reord_list # <<>>
    BY <1>6, <2>2, WorkGivesUp
  <2> QED
    BY <2>1, <2>2
<1>7. CASE UNCHANGED vars
  <2>1. UNCHANGED <<enable, ind_sn, reord_list, top, up, frame, rx>>
    BY <1>7 DEF vars, ctrlVars, rxVars
  <2>2. NearTop' /\ SessionOpen'
    BY <2>1 DEF WInv, NearTop, SessionOpen
  <2> QED
    BY <2>1, <2>2, Unseen DEF seen
<1> QED
  BY <1>1, <1>2, <1>3, <1>4, <1>5, <1>6, <1>7 DEF Next, Process, Timeout

LEMMA WindowInit == Init => WInv /\ Sequencing!Init
<1> SUFFICES ASSUME Init PROVE WInv /\ Sequencing!Init
  OBVIOUS
<1>1. enable = FALSE /\ reord_list = <<>> /\ rx = "idle" /\ up = <<>>
  BY DEF Init
<1>2. ToSet(reord_list) = {} /\ Floor = None
  BY <1>1 DEF ToSet, Floor
<1>3. WInv
  BY <1>1 DEF WInv, Listening, NearTop, SessionOpen, Increasing
<1> QED
  BY <1>1, <1>2, <1>3 DEF Sequencing!Init

LEMMA WindowInvariant == Spec => []WInv
<1>1. Inv => TypeOK
  BY DEF Inv
<1> QED
  BY <1>1, WindowInit, WindowStep, Invariant, PTL DEF Spec

-----------------------------------------------------------------------------
(* The theorems. *)

\* In every reachable state the variables have their types; ind_sn is a number
\* of 12 bits or 0xffff.
THEOREM TypeCorrect == Spec => []TypeOK
<1>1. Inv => TypeOK
  BY DEF Inv
<1> QED
  BY <1>1, Invariant, PTL

\* No recv_msdu is lost or freed twice, whichever way its frame goes
\* (reord_process_unit, reord_timeout_worker, reord_flush_tid).
THEOREM PoolConservedAlways == Spec => []PoolConserved
<1>1. Inv => PoolConserved
  BY DEF Inv
<1> QED
  BY <1>1, Invariant, PTL

\* A listed frame always has a timer or a work that ends its wait, unless the
\* timer fired while the device was down (reord_timeout_handler).
THEOREM GapIsTimedAlways == Spec => []GapIsTimed
<1>1. Inv => GapIsTimed
  BY DEF Inv
<1> QED
  BY <1>1, Invariant, PTL

\* The list of a session is sorted by the sender's count, without duplicates,
\* and nothing in it is behind ind_sn, although reord_need_check and
\* reord_rxframe_enqueue only compare numbers that wrap.
THEOREM ListSoundAlways == Spec => []ListSound
<1>1. Inv => TypeOK
  BY DEF Inv
<1> QED
  BY <1>1, WindowIsSound, WindowInvariant, Invariant, PTL

\* Whatever arrives late, twice or out of order, and whenever the timer gives a
\* gap up: reord_process_unit and reord_timeout_worker hand up the frames of a
\* session in the sender's order, each at most once, as Reordering does with
\* numbers that never wrap.
THEOREM Implements == Spec => InOrder
<1>1. Inv => TypeOK
  BY DEF Inv
<1>2. Init => Sequencing!Init
  BY WindowInit
<1>3. Inv /\ TypeOK' /\ WInv /\ [Next]_vars
      => [Sequencing!Next]_<<Floor, ToSet(reord_list), up>>
  BY WindowStep DEF seen
<1>4. Spec => Sequencing!Spec
  BY <1>1, <1>2, <1>3, WindowInvariant, Invariant, PTL DEF Spec, Sequencing!Spec
<1> QED
  BY <1>4 DEF InOrder
===============================================================================
