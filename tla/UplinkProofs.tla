---------------------------- MODULE UplinkProofs ----------------------------
(***************************************************************************)
(* Proofs about the uplink for every pool size, set of producers and set   *)
(* of frames: types, the ownership rule, the queues that never fill up,    *)
(* and that the uplink implements the abstract channel.                    *)
(***************************************************************************)
EXTENDS Uplink, FiniteSetTheorems, SequenceTheorems, TLAPS

-----------------------------------------------------------------------------
(* Sequences of indices and of items.                                      *)

\* The elements of a sequence, by index.
LEMMA ToSetOfSeq ==
    ASSUME NEW S, NEW q \in Seq(S)
    PROVE  ToSet(q) = {q[i] : i \in 1..Len(q)}
BY DEF ToSet

\* Taking the head of an injective sequence.
LEMMA TailOfInjective ==
    ASSUME NEW S, NEW q \in Seq(S), q # <<>>, Injective(q)
    PROVE  /\ Tail(q) \in Seq(S) /\ Head(q) \in S
           /\ Injective(Tail(q))
           /\ ToSet(Tail(q)) = ToSet(q) \ {Head(q)}
           /\ Head(q) \in ToSet(q)
<1>1. /\ Len(q) \in Nat \ {0} /\ Len(Tail(q)) = Len(q) - 1
      /\ \A i \in 1..Len(q) : q[i] \in S
      /\ \A i \in 1..Len(Tail(q)) : Tail(q)[i] = q[i + 1]
      /\ Head(q) = q[1] /\ Tail(q) \in Seq(S)
  OBVIOUS
<1>0. /\ ToSet(q) = {q[i] : i \in 1..Len(q)}
      /\ ToSet(Tail(q)) = {Tail(q)[i] : i \in 1..Len(Tail(q))}
  BY <1>1, ToSetOfSeq
<1>2. Injective(Tail(q))
  <2> SUFFICES ASSUME NEW i \in 1..Len(Tail(q)), NEW j \in 1..Len(Tail(q)), Tail(q)[i] = Tail(q)[j]
               PROVE  i = j
    BY DEF Injective
  <2>1. i + 1 \in 1..Len(q) /\ j + 1 \in 1..Len(q) /\ i \in Int /\ j \in Int
    BY <1>1
  <2>2. q[i + 1] = q[j + 1]
    BY <1>1
  <2>3. i + 1 = j + 1
    BY <2>1, <2>2 DEF Injective
  <2> QED BY <2>1, <2>3
<1>3. ASSUME NEW x \in ToSet(q) \ {Head(q)}
      PROVE  x \in ToSet(Tail(q))
  <2>1. PICK i \in 1..Len(q) : x = q[i] /\ i # 1
    BY <1>1, <1>0
  <2>2. i - 1 \in 1..Len(Tail(q)) /\ Tail(q)[i - 1] = q[i]
    BY <2>1, <1>1
  <2> QED BY <2>1, <2>2, <1>0
<1>4. ASSUME NEW j \in 1..Len(Tail(q))
      PROVE  Tail(q)[j] \in ToSet(q) \ {Head(q)}
  <2>1. j + 1 \in 1..Len(q) /\ Tail(q)[j] = q[j + 1] /\ 1 \in 1..Len(q) /\ j + 1 # 1
    BY <1>1
  <2>2. q[j + 1] # q[1]
    BY <2>1 DEF Injective
  <2> QED BY <2>1, <2>2, <1>1, <1>0
<1>5. ASSUME NEW x \in ToSet(Tail(q))
      PROVE  x \in ToSet(q) \ {Head(q)}
  BY <1>0, <1>4
<1>6. Head(q) \in ToSet(q)
  BY <1>0, <1>1
<1> QED BY <1>1, <1>2, <1>3, <1>5, <1>6

\* Appending a new element to an injective sequence.
LEMMA AppendToInjective ==
    ASSUME NEW S, NEW q \in Seq(S), Injective(q), NEW x \in S, x \notin ToSet(q)
    PROVE  /\ Append(q, x) \in Seq(S)
           /\ Injective(Append(q, x))
           /\ ToSet(Append(q, x)) = ToSet(q) \union {x}
<1>1. /\ Append(q, x) \in Seq(S) /\ Len(Append(q, x)) = Len(q) + 1 /\ Len(q) \in Nat
      /\ \A i \in 1..Len(q) : Append(q, x)[i] = q[i]
      /\ Append(q, x)[Len(q) + 1] = x
  OBVIOUS
<1>0. /\ ToSet(q) = {q[i] : i \in 1..Len(q)}
      /\ ToSet(Append(q, x)) = {Append(q, x)[i] : i \in 1..(Len(q) + 1)}
  BY <1>1, ToSetOfSeq
<1>2. \A i \in 1..(Len(q) + 1) : i \in 1..Len(q) \/ i = Len(q) + 1
  BY <1>1
<1>3. Injective(Append(q, x))
  BY <1>0, <1>1, <1>2 DEF Injective
<1>4. Len(q) + 1 \in 1..(Len(q) + 1) /\ \A i \in 1..Len(q) : i \in 1..(Len(q) + 1)
  BY <1>1
<1>5. ToSet(Append(q, x)) = ToSet(q) \union {x}
  BY <1>0, <1>1, <1>2, <1>4
<1> QED BY <1>1, <1>3, <1>5

\* An injective sequence that misses an element of a finite set is not full.
LEMMA InjectiveMisses ==
    ASSUME NEW S, IsFiniteSet(S), NEW q \in Seq(S), Injective(q), NEW x \in S, x \notin ToSet(q)
    PROVE  Len(q) < Cardinality(S)
<1> DEFINE f == [i \in 1..(Len(q) + 1) |-> IF i = Len(q) + 1 THEN x ELSE q[i]]
<1>1. Len(q) \in Nat /\ \A i \in 1..Len(q) : q[i] \in S
  OBVIOUS
<1>2. f \in Injection(1..(Len(q) + 1), S)
  <2>1. f \in [1..(Len(q) + 1) -> S]
    BY <1>1
  <2>2. \A i, j \in 1..(Len(q) + 1) : f[i] = f[j] => i = j
    BY <1>1, ToSetOfSeq DEF Injective
  <2> QED BY <2>1, <2>2 DEF Injection, IsInjective
<1>3. Cardinality(1..(Len(q) + 1)) <= Cardinality(S)
  BY <1>2, FS_Injection
<1>4. Cardinality(1..(Len(q) + 1)) = Len(q) + 1
  BY <1>1, FS_Interval
<1>5. Cardinality(S) \in Nat
  BY FS_CardinalityType
<1> QED BY <1>1, <1>3, <1>4, <1>5

\* A queue of distinct buffer indices that misses one has room for it.
LEMMA InjectiveIsShort ==
    ASSUME NEW q \in Seq(UpSlots), Injective(q), NEW x \in UpSlots, x \notin ToSet(q)
    PROVE  Len(q) < UplinkSlots
<1>1. IsFiniteSet(UpSlots) /\ Cardinality(UpSlots) = UplinkSlots
  <2>1. UpSlots = 0..(UplinkSlots - 1) /\ UplinkSlots \in Nat \ {0}
    BY UplinkAssumption DEF UpSlots
  <2> QED BY <2>1, FS_Interval
<1> QED BY <1>1, InjectiveMisses

\* The same for the slots of a sequence of frames on their way.
LEMMA TailOfDistinct ==
    ASSUME NEW q \in Seq(TxItem), q # <<>>, Distinct(q)
    PROVE  /\ Tail(q) \in Seq(TxItem) /\ Head(q) \in TxItem
           /\ Distinct(Tail(q))
           /\ SlotsOf(Tail(q)) = SlotsOf(q) \ {Head(q).slot}
           /\ Head(q).slot \in SlotsOf(q)
<1>1. /\ Len(q) \in Nat \ {0} /\ Len(Tail(q)) = Len(q) - 1
      /\ \A i \in 1..Len(Tail(q)) : Tail(q)[i] = q[i + 1]
      /\ Head(q) = q[1] /\ Tail(q) \in Seq(TxItem) /\ q[1] \in TxItem
  OBVIOUS
<1>2. Distinct(Tail(q))
  BY <1>1 DEF Distinct
<1>3. ASSUME NEW x \in SlotsOf(q) \ {Head(q).slot}
      PROVE  x \in SlotsOf(Tail(q))
  <2>1. PICK i \in 1..Len(q) : x = q[i].slot /\ i # 1
    BY <1>1 DEF SlotsOf
  <2>2. i - 1 \in 1..Len(Tail(q)) /\ Tail(q)[i - 1] = q[i]
    BY <2>1, <1>1
  <2> QED BY <2>1, <2>2 DEF SlotsOf
<1>4. ASSUME NEW x \in SlotsOf(Tail(q))
      PROVE  x \in SlotsOf(q) \ {Head(q).slot}
  <2>1. PICK j \in 1..Len(Tail(q)) : x = Tail(q)[j].slot
    BY DEF SlotsOf
  <2>2. j + 1 \in 1..Len(q) /\ Tail(q)[j] = q[j + 1] /\ 1 \in 1..Len(q) /\ j + 1 # 1
    BY <1>1
  <2>3. q[j + 1].slot # q[1].slot
    BY <2>2 DEF Distinct
  <2> QED BY <2>1, <2>2, <2>3, <1>1 DEF SlotsOf
<1>5. Head(q).slot \in SlotsOf(q)
  BY <1>1 DEF SlotsOf
<1> QED BY <1>1, <1>2, <1>3, <1>4, <1>5

\* An item whose buffer is new keeps a list of items distinct.
LEMMA AppendToDistinct ==
    ASSUME NEW q \in Seq(TxItem), Distinct(q), NEW x \in TxItem, x.slot \notin SlotsOf(q)
    PROVE  /\ Append(q, x) \in Seq(TxItem)
           /\ Distinct(Append(q, x))
           /\ SlotsOf(Append(q, x)) = SlotsOf(q) \union {x.slot}
<1>1. /\ Append(q, x) \in Seq(TxItem) /\ Len(Append(q, x)) = Len(q) + 1 /\ Len(q) \in Nat
      /\ \A i \in 1..Len(q) : Append(q, x)[i] = q[i]
      /\ Append(q, x)[Len(q) + 1] = x
  OBVIOUS
<1>2. \A i \in 1..(Len(q) + 1) : i \in 1..Len(q) \/ i = Len(q) + 1
  BY <1>1
<1>3. Distinct(Append(q, x))
  BY <1>1, <1>2 DEF Distinct, SlotsOf
<1>4. Len(q) + 1 \in 1..(Len(q) + 1) /\ \A i \in 1..Len(q) : i \in 1..(Len(q) + 1)
  BY <1>1
<1>5. SlotsOf(Append(q, x)) = SlotsOf(q) \union {x.slot}
  BY <1>1, <1>2, <1>4 DEF SlotsOf
<1> QED BY <1>1, <1>3, <1>5

\* What is left when the i-th item is taken out of a sequence.
LEMMA RemoveAtElements ==
    ASSUME NEW S, NEW q \in Seq(S), NEW i \in 1..Len(q)
    PROVE  /\ RemoveAt(q, i) \in Seq(S) /\ Len(RemoveAt(q, i)) = Len(q) - 1
           /\ \A j \in 1..(Len(q) - 1) : RemoveAt(q, i)[j] = IF j < i THEN q[j] ELSE q[j + 1]
<1> DEFINE l == SubSeq(q, 1, i - 1)
           r == SubSeq(q, i + 1, Len(q))
<1>1. /\ l \in Seq(S) /\ Len(l) = i - 1
      /\ \A j \in 1..(i - 1) : l[j] = q[j]
  OBVIOUS
<1>2. /\ r \in Seq(S) /\ Len(r) = Len(q) - i
      /\ \A j \in 1..(Len(q) - i) : r[j] = q[i + j]
  OBVIOUS
<1>3. RemoveAt(q, i) = l \o r
  BY DEF RemoveAt
<1>4. Len(q) \in Nat
  OBVIOUS
<1> HIDE DEF l, r
<1>5. /\ l \o r \in Seq(S) /\ Len(l \o r) = Len(q) - 1
      /\ \A j \in 1..(Len(q) - 1) : (l \o r)[j] = IF j <= Len(l) THEN l[j] ELSE r[j - Len(l)]
  <2>1. /\ l \o r \in Seq(S) /\ Len(l \o r) = Len(l) + Len(r)
        /\ \A j \in 1..(Len(l) + Len(r)) : (l \o r)[j] = IF j <= Len(l) THEN l[j] ELSE r[j - Len(l)]
    BY <1>1, <1>2, ConcatProperties
  <2>2. Len(l) + Len(r) = Len(q) - 1
    BY <1>1, <1>2, <1>4
  <2> QED BY <2>1, <2>2
<1>6. ASSUME NEW j \in 1..(Len(q) - 1)
      PROVE  (l \o r)[j] = IF j < i THEN q[j] ELSE q[j + 1]
  <2>1. CASE j < i
    BY <2>1, <1>1, <1>4, <1>5
  <2>2. CASE j >= i
    <3>1. (l \o r)[j] = r[j - (i - 1)]
      BY <2>2, <1>1, <1>4, <1>5
    <3>2. j - (i - 1) \in 1..(Len(q) - i) /\ i + (j - (i - 1)) = j + 1
      BY <2>2, <1>4
    <3> QED BY <2>2, <3>1, <3>2, <1>2
  <2>3. j < i \/ j >= i
    BY <1>4
  <2> QED BY <2>1, <2>2, <2>3
<1> QED BY <1>3, <1>5, <1>6

\* Taking one item out of a list of distinct ones takes its buffer out.
LEMMA RemoveFromDistinct ==
    ASSUME NEW q \in Seq(TxItem), Distinct(q), NEW i \in 1..Len(q)
    PROVE  /\ RemoveAt(q, i) \in Seq(TxItem)
           /\ Distinct(RemoveAt(q, i))
           /\ SlotsOf(RemoveAt(q, i)) = SlotsOf(q) \ {q[i].slot}
           /\ q[i] \in TxItem /\ q[i].slot \in SlotsOf(q)
<1> DEFINE r == RemoveAt(q, i)
<1>1. /\ r \in Seq(TxItem) /\ Len(r) = Len(q) - 1 /\ Len(q) \in Nat
      /\ \A j \in 1..(Len(q) - 1) : r[j] = IF j < i THEN q[j] ELSE q[j + 1]
  BY RemoveAtElements
<1> HIDE DEF r
<1>2. Distinct(r)
  <2> SUFFICES ASSUME NEW j \in 1..Len(r), NEW k \in 1..Len(r), r[j].slot = r[k].slot
               PROVE  j = k
    BY DEF Distinct
  <2> DEFINE at(n) == IF n < i THEN n ELSE n + 1
  <2>1. ASSUME NEW n \in 1..Len(r)
        PROVE  at(n) \in 1..Len(q) /\ r[n] = q[at(n)]
    <3>1. n \in 1..(Len(q) - 1)
      BY <1>1
    <3>2. CASE n < i
      <4>1. at(n) = n /\ n \in 1..Len(q)
        BY <1>1, <3>1, <3>2
      <4>2. r[n] = q[n]
        BY <1>1, <3>1, <3>2
      <4> QED BY <4>1, <4>2
    <3>3. CASE ~ (n < i)
      <4>1. at(n) = n + 1 /\ n + 1 \in 1..Len(q)
        BY <1>1, <3>1, <3>3
      <4>2. r[n] = q[n + 1]
        BY <1>1, <3>1, <3>3
      <4> QED BY <4>1, <4>2
    <3> QED BY <3>2, <3>3
  <2>2. at(j) = at(k)
    <3> HIDE DEF at
    <3> QED BY <2>1 DEF Distinct
  <2>3. j \in Int /\ k \in Int /\ i \in Int
    BY <1>1
  <2> QED BY <2>2, <2>3
<1>3. ASSUME NEW x \in SlotsOf(q) \ {q[i].slot}
      PROVE  x \in SlotsOf(r)
  <2>1. PICK k \in 1..Len(q) : x = q[k].slot /\ k # i
    BY DEF SlotsOf
  <2>2. CASE k < i
    <3>1. k \in 1..Len(r) /\ r[k] = q[k]
      BY <2>2, <1>1
    <3> QED BY <2>1, <3>1 DEF SlotsOf
  <2>3. CASE k > i
    <3>1. k - 1 \in 1..Len(r) /\ r[k - 1] = q[k]
      BY <2>3, <1>1
    <3> QED BY <2>1, <3>1 DEF SlotsOf
  <2> QED BY <2>1, <2>2, <2>3
<1>4. ASSUME NEW x \in SlotsOf(r)
      PROVE  x \in SlotsOf(q) \ {q[i].slot}
  <2>1. PICK j \in 1..Len(r) : x = r[j].slot
    BY DEF SlotsOf
  <2>2. PICK k \in 1..Len(q) : k # i /\ r[j] = q[k]
    <3>1. j < i \/ j >= i
      BY <1>1
    <3>2. CASE j < i
      <4>1. j \in 1..Len(q) /\ j # i /\ r[j] = q[j]
        BY <3>2, <1>1
      <4> QED BY <4>1
    <3>3. CASE j >= i
      <4>1. j + 1 \in 1..Len(q) /\ j + 1 # i /\ r[j] = q[j + 1]
        BY <3>3, <1>1
      <4> QED BY <4>1
    <3> QED BY <3>1, <3>2, <3>3
  <2>3. q[k].slot # q[i].slot
    BY <2>2 DEF Distinct
  <2> QED BY <2>1, <2>2, <2>3 DEF SlotsOf
<1>5. q[i] \in TxItem /\ q[i].slot \in SlotsOf(q)
  BY DEF SlotsOf
<1> QED BY <1>1, <1>2, <1>3, <1>4, <1>5 DEF r

\* The buffers in the hands of producers when one of them changes its mind.
LEMMA HeldAfterUpdate ==
    ASSUME NEW h \in [Producers -> UpSlots \union {NoSlot}], NEW p \in Producers, NEW x,
           \A a, b \in Producers : h[a] = h[b] /\ h[a] # NoSlot => a = b
    PROVE  LET after == [h EXCEPT ![p] = x] IN
           {after[a] : a \in Producers} \ {NoSlot}
             = ((({h[a] : a \in Producers} \ {NoSlot}) \ {h[p]}) \union {x}) \ {NoSlot}
<1> DEFINE after == [h EXCEPT ![p] = x]
<1>1. after[p] = x /\ \A a \in Producers \ {p} : after[a] = h[a]
  OBVIOUS
<1> HIDE DEF after
<1>2. {after[a] : a \in Producers} = {after[a] : a \in Producers \ {p}} \union {x}
  BY <1>1
<1>3. {after[a] : a \in Producers \ {p}} \ {NoSlot} = ({h[a] : a \in Producers} \ {NoSlot}) \ {h[p]}
  BY <1>1
<1> QED BY <1>2, <1>3 DEF after

-----------------------------------------------------------------------------
(* Types and ownership are preserved together: one lemma per action.       *)

UplinkInv == UplinkTypeOK /\ OneOwner

\* The buffers of the empty list and of a list of one item.
LEMMA SlotsOfFewItems ==
    /\ SlotsOf(<<>>) = {}
    /\ \A x : SlotsOf(<<x>>) = {x.slot} /\ Len(<<x>>) = 1 /\ <<x>> # <<>>
<1>1. SlotsOf(<<>>) = {}
  BY DEF SlotsOf
<1>2. ASSUME NEW x PROVE SlotsOf(<<x>>) = {x.slot} /\ Len(<<x>>) = 1 /\ <<x>> # <<>>
  <2>1. Len(<<x>>) = 1 /\ <<x>>[1] = x /\ 1..1 = {1} /\ <<x>> # <<>>
    OBVIOUS
  <2> QED BY <2>1 DEF SlotsOf
<1> QED BY <1>1, <1>2

\* A free buffer goes to a producer.
LEMMA AcquireKeepsInv ==
    ASSUME UplinkInv, NEW p \in Producers, Acquire(p)
    PROVE  UplinkInv'
<1> DEFINE s == Head(freeQ)
<1>1. /\ freeQ \in Seq(UpSlots) /\ freeQ # <<>> /\ Injective(freeQ)
      /\ held \in [Producers -> UpSlots \union {NoSlot}] /\ held[p] = NoSlot
      /\ freeQ' = Tail(freeQ) /\ held' = [held EXCEPT ![p] = s]
      /\ UNCHANGED <<txQ, parked, drawn, netPc, now>>
  BY DEF UplinkInv, UplinkTypeOK, OneOwner, NoSharing, Acquire
<1>2. /\ freeQ' \in Seq(UpSlots) /\ Injective(freeQ') /\ s \in UpSlots
      /\ FreeSlots' = FreeSlots \ {s} /\ s \in FreeSlots
  BY <1>1, TailOfInjective DEF FreeSlots
<1>3. s # NoSlot /\ s \notin HeldSlots
  BY <1>2, UplinkAssumption DEF UpSlots, NoSlot, UplinkInv, OneOwner, NoSharing
<1>4. HeldSlots' = HeldSlots \union {s}
  <2>1. HeldSlots' = ((HeldSlots \ {held[p]}) \union {s}) \ {NoSlot}
    BY <1>1, HeldAfterUpdate DEF HeldSlots, UplinkInv, OneOwner, NoSharing
  <2> QED BY <2>1, <1>1, <1>3 DEF HeldSlots
<1>5. UplinkTypeOK'
  BY <1>1, <1>2 DEF UplinkInv, UplinkTypeOK
<1>6. \A a, b \in Producers : held'[a] = held'[b] /\ held'[a] # NoSlot => a = b
  BY <1>1, <1>3 DEF UplinkInv, OneOwner, NoSharing, HeldSlots
<1>7. SlotsOf(txQ)' = SlotsOf(txQ) /\ SlotsOf(parked)' = SlotsOf(parked) /\ SlotsOf(drawn)' = SlotsOf(drawn)
  BY <1>1
<1>8. NoSharing'
  BY <1>1, <1>2, <1>3, <1>4, <1>6, <1>7 DEF UplinkInv, OneOwner, NoSharing
<1>9. NoLeak'
  BY <1>2, <1>4, <1>7 DEF UplinkInv, OneOwner, NoLeak
<1> QED BY <1>5, <1>8, <1>9 DEF UplinkInv, OneOwner

\* A producer that holds a buffer knows it is not in free_, so the send of
\* release() finds room; the same for the buffer that net_task returns.
LEMMA RoomInFree ==
    ASSUME UplinkInv, NEW s \in UpSlots, s \notin FreeSlots
    PROVE  /\ Len(freeQ) < UplinkSlots
           /\ Append(freeQ, s) \in Seq(UpSlots)
           /\ Injective(Append(freeQ, s))
           /\ ToSet(Append(freeQ, s)) = FreeSlots \union {s}
<1>1. freeQ \in Seq(UpSlots) /\ Injective(freeQ) /\ s \notin ToSet(freeQ)
  BY DEF UplinkInv, UplinkTypeOK, OneOwner, NoSharing, FreeSlots
<1> QED BY <1>1, InjectiveIsShort, AppendToInjective DEF FreeSlots

\* release() by a producer (Uplink.cpp:40-44).
LEMMA ReleaseKeepsInv ==
    ASSUME UplinkInv, NEW p \in Producers, Release(p)
    PROVE  UplinkInv'
<1> DEFINE s == held[p]
<1>1. /\ held \in [Producers -> UpSlots \union {NoSlot}] /\ s # NoSlot /\ s \in UpSlots
      /\ s \in HeldSlots
      /\ freeQ' = Send(freeQ, s, UplinkSlots) /\ held' = [held EXCEPT ![p] = NoSlot]
      /\ UNCHANGED <<txQ, parked, drawn, netPc, now>>
  BY DEF UplinkInv, UplinkTypeOK, Release, HeldSlots
<1>2. s \notin FreeSlots
  BY <1>1 DEF UplinkInv, OneOwner, NoSharing
<1>3. /\ freeQ' \in Seq(UpSlots) /\ Injective(freeQ') /\ FreeSlots' = FreeSlots \union {s}
  <2>1. freeQ' = Append(freeQ, s)
    BY <1>1, <1>2, RoomInFree DEF Send
  <2> QED BY <2>1, <1>1, <1>2, RoomInFree DEF FreeSlots
<1>4. HeldSlots' = HeldSlots \ {s}
  <2>1. HeldSlots' = ((HeldSlots \ {s}) \union {NoSlot}) \ {NoSlot}
    BY <1>1, HeldAfterUpdate DEF HeldSlots, UplinkInv, OneOwner, NoSharing
  <2> QED BY <2>1 DEF HeldSlots
<1>5. UplinkTypeOK'
  BY <1>1, <1>3 DEF UplinkInv, UplinkTypeOK
<1>6. \A a, b \in Producers : held'[a] = held'[b] /\ held'[a] # NoSlot => a = b
  BY <1>1 DEF UplinkInv, OneOwner, NoSharing
<1>7. SlotsOf(txQ)' = SlotsOf(txQ) /\ SlotsOf(parked)' = SlotsOf(parked) /\ SlotsOf(drawn)' = SlotsOf(drawn)
  BY <1>1
<1>8. NoSharing'
  BY <1>1, <1>3, <1>4, <1>6, <1>7 DEF UplinkInv, OneOwner, NoSharing
<1>9. NoLeak'
  BY <1>3, <1>4, <1>7 DEF UplinkInv, OneOwner, NoLeak
<1> QED BY <1>5, <1>8, <1>9 DEF UplinkInv, OneOwner

\* submit(), with both of its ends (Uplink.cpp:46-70).
LEMMA SubmitKeepsInv ==
    ASSUME UplinkInv, NEW p \in Producers, NEW frame \in Frames, NEW nb \in Nat, Submit(p, frame, nb)
    PROVE  UplinkInv'
<1>1. CASE frame \in SaneFrames /\ Len(txQ) < UplinkSlots
  <2> DEFINE s == held[p]
             item == [slot |-> s, nb |-> nb, frame |-> frame]
  <2>1. /\ held \in [Producers -> UpSlots \union {NoSlot}] /\ s # NoSlot /\ s \in UpSlots
        /\ s \in HeldSlots /\ item \in TxItem /\ item.slot = s
        /\ txQ' = Append(txQ, item) /\ held' = [held EXCEPT ![p] = NoSlot]
        /\ UNCHANGED <<freeQ, parked, drawn, netPc, now>>
    BY <1>1 DEF UplinkInv, UplinkTypeOK, Submit, HeldSlots, TxItem
  <2> HIDE DEF item
  <2>2. s \notin SlotsOf(txQ) /\ s \notin SlotsOf(parked) /\ s \notin SlotsOf(drawn) /\ s \notin FreeSlots
    BY <2>1 DEF UplinkInv, OneOwner, NoSharing
  <2>3. txQ' \in Seq(TxItem) /\ Distinct(txQ') /\ SlotsOf(txQ') = SlotsOf(txQ) \union {s}
    BY <2>1, <2>2, AppendToDistinct DEF UplinkInv, UplinkTypeOK, OneOwner, NoSharing
  <2>4. HeldSlots' = HeldSlots \ {s}
    <3>1. HeldSlots' = ((HeldSlots \ {s}) \union {NoSlot}) \ {NoSlot}
      BY <2>1, HeldAfterUpdate DEF HeldSlots, UplinkInv, OneOwner, NoSharing
    <3> QED BY <3>1 DEF HeldSlots
  <2>5. UplinkTypeOK'
    BY <2>1, <2>3 DEF UplinkInv, UplinkTypeOK
  <2>6. \A a, b \in Producers : held'[a] = held'[b] /\ held'[a] # NoSlot => a = b
    BY <2>1 DEF UplinkInv, OneOwner, NoSharing
  <2>7. FreeSlots' = FreeSlots /\ SlotsOf(parked)' = SlotsOf(parked) /\ SlotsOf(drawn)' = SlotsOf(drawn)
        /\ SlotsOf(txQ)' = SlotsOf(txQ')
    BY <2>1 DEF FreeSlots
  <2>8. NoSharing'
    BY <2>1, <2>2, <2>3, <2>4, <2>6, <2>7 DEF UplinkInv, OneOwner, NoSharing
  <2>9. NoLeak'
    BY <2>3, <2>4, <2>7 DEF UplinkInv, OneOwner, NoLeak
  <2> QED BY <2>5, <2>8, <2>9 DEF UplinkInv, OneOwner
<1>2. CASE ~ (frame \in SaneFrames /\ Len(txQ) < UplinkSlots)
  BY <1>2, ReleaseKeepsInv DEF Submit
<1> QED BY <1>1, <1>2

\* net_task moves frames between tx_, its parking lot and its hands.
LEMMA MovingFramesKeepsInv ==
    ASSUME UplinkInv,
           UNCHANGED <<freeQ, held, now>>,
           txQ' \in Seq(TxItem), Distinct(txQ'),
           parked' \in Seq(TxItem), Distinct(parked'),
           drawn' \in Seq(TxItem), Len(drawn') <= 1,
           netPc' \in {"entry", "wait", "publish"}, (netPc' = "publish") <=> (drawn' # <<>>),
           SlotsOf(txQ') \union SlotsOf(parked') \union SlotsOf(drawn')
             = SlotsOf(txQ) \union SlotsOf(parked) \union SlotsOf(drawn),
           SlotsOf(txQ') \intersect (SlotsOf(parked') \union SlotsOf(drawn')) = {},
           SlotsOf(parked') \intersect SlotsOf(drawn') = {}
    PROVE  UplinkInv'
<1>1. FreeSlots' = FreeSlots /\ HeldSlots' = HeldSlots
  BY DEF FreeSlots, HeldSlots
<1>2. UplinkTypeOK'
  BY DEF UplinkInv, UplinkTypeOK
<1>3. \A a, b \in Producers : held'[a] = held'[b] /\ held'[a] # NoSlot => a = b
  BY DEF UplinkInv, OneOwner, NoSharing
<1>4. Injective(freeQ')
  BY DEF UplinkInv, OneOwner, NoSharing
<1>5. /\ (FreeSlots \intersect (HeldSlots \union SlotsOf(txQ) \union SlotsOf(parked) \union SlotsOf(drawn))) = {}
      /\ (HeldSlots \intersect (SlotsOf(txQ) \union SlotsOf(parked) \union SlotsOf(drawn))) = {}
      /\ UpSlots \subseteq FreeSlots \union HeldSlots \union SlotsOf(txQ) \union SlotsOf(parked) \union SlotsOf(drawn)
  BY DEF UplinkInv, OneOwner, NoSharing, NoLeak
<1>6. NoSharing'
  BY <1>1, <1>3, <1>4, <1>5 DEF NoSharing
<1>7. NoLeak'
  BY <1>1, <1>5 DEF NoLeak
<1> QED BY <1>2, <1>6, <1>7 DEF UplinkInv, OneOwner

\* What a scan of the parking lot does, whether it finds a frame or not.
LEMMA ScanOfTheLot ==
    ASSUME NEW lot \in Seq(TxItem), Distinct(lot), drawn = <<>>, NEW pc \in {"entry", "wait"},
           TakeDueParked(lot) \/ NothingDue(lot, pc)
    PROVE  /\ parked' \in Seq(TxItem) /\ Distinct(parked')
           /\ drawn' \in Seq(TxItem) /\ Len(drawn') <= 1
           /\ netPc' \in {"entry", "wait", "publish"} /\ ((netPc' = "publish") <=> (drawn' # <<>>))
           /\ SlotsOf(parked') \union SlotsOf(drawn') = SlotsOf(lot)
           /\ SlotsOf(parked') \intersect SlotsOf(drawn') = {}
<1>1. CASE TakeDueParked(lot)
  <2>1. PICK i \in 1..Len(lot) : drawn' = <<lot[i]>> /\ parked' = RemoveAt(lot, i) /\ netPc' = "publish"
    BY <1>1 DEF TakeDueParked
  <2>2. /\ parked' \in Seq(TxItem) /\ Distinct(parked')
        /\ SlotsOf(parked') = SlotsOf(lot) \ {lot[i].slot}
        /\ lot[i] \in TxItem /\ lot[i].slot \in SlotsOf(lot)
    BY <2>1, RemoveFromDistinct
  <2>3. /\ SlotsOf(drawn') = {lot[i].slot} /\ Len(drawn') = 1 /\ drawn' # <<>> /\ drawn' \in Seq(TxItem)
    BY <2>1, <2>2, SlotsOfFewItems
  <2> QED BY <2>1, <2>2, <2>3
<1>2. CASE NothingDue(lot, pc)
  <2>1. parked' = lot /\ drawn' = <<>> /\ netPc' = pc
    BY <1>2 DEF NothingDue
  <2>2. SlotsOf(drawn') = {} /\ drawn' \in Seq(TxItem) /\ Len(drawn') = 0
    BY <2>1, SlotsOfFewItems
  <2> QED BY <2>1, <2>2
<1> QED BY <1>1, <1>2

\* nextDue() and the release after it (Uplink.cpp:72-114).
LEMMA NetTaskKeepsInv ==
    ASSUME UplinkInv, NetTask
    PROVE  UplinkInv'
<1>0. /\ txQ \in Seq(TxItem) /\ parked \in Seq(TxItem) /\ drawn \in Seq(TxItem) /\ Len(drawn) <= 1
      /\ (netPc = "publish") <=> (drawn # <<>>)
      /\ Distinct(txQ) /\ Distinct(parked)
      /\ SlotsOf(txQ) \intersect (SlotsOf(parked) \union SlotsOf(drawn)) = {}
      /\ SlotsOf(parked) \intersect SlotsOf(drawn) = {}
  BY DEF UplinkInv, UplinkTypeOK, OneOwner, NoSharing
<1>1. CASE NextDueEntry
  <2>1. /\ drawn = <<>> /\ UNCHANGED <<freeQ, txQ, held, now>>
        /\ TakeDueParked(parked) \/ NothingDue(parked, "wait")
    BY <1>0, <1>1 DEF NextDueEntry
  <2>2. SlotsOf(drawn) = {}
    BY <2>1, SlotsOfFewItems
  <2> QED BY <1>0, <2>1, <2>2, ScanOfTheLot, MovingFramesKeepsInv
<1>2. CASE NextDueTimeout
  <2>1. /\ drawn = <<>> /\ UNCHANGED <<freeQ, txQ, held, now>>
        /\ TakeDueParked(parked) \/ NothingDue(parked, "entry")
    BY <1>0, <1>2 DEF NextDueTimeout
  <2>2. SlotsOf(drawn) = {}
    BY <2>1, SlotsOfFewItems
  <2> QED BY <1>0, <2>1, <2>2, ScanOfTheLot, MovingFramesKeepsInv
<1>3. CASE NextDueReceive
  <2> DEFINE item == Head(txQ)
  <2>1. drawn = <<>> /\ txQ # <<>> /\ txQ' = Tail(txQ) /\ UNCHANGED <<freeQ, held, now>>
    BY <1>0, <1>3 DEF NextDueReceive
  <2>2. SlotsOf(drawn) = {}
    BY <2>1, SlotsOfFewItems
  <2>3. /\ txQ' \in Seq(TxItem) /\ Distinct(txQ') /\ item \in TxItem
        /\ SlotsOf(txQ') = SlotsOf(txQ) \ {item.slot} /\ item.slot \in SlotsOf(txQ)
    BY <1>0, <2>1, TailOfDistinct
  <2>4. CASE drawn' = <<item>> /\ parked' = parked /\ netPc' = "publish"
    <3>1. SlotsOf(drawn') = {item.slot} /\ Len(drawn') = 1 /\ drawn' # <<>> /\ drawn' \in Seq(TxItem)
      BY <2>3, <2>4, SlotsOfFewItems
    <3> QED BY <1>0, <2>1, <2>2, <2>3, <2>4, <3>1, MovingFramesKeepsInv
  <2>5. CASE TakeDueParked(Append(parked, item)) \/ NothingDue(Append(parked, item), "entry")
    <3>1. /\ Append(parked, item) \in Seq(TxItem) /\ Distinct(Append(parked, item))
          /\ SlotsOf(Append(parked, item)) = SlotsOf(parked) \union {item.slot}
      BY <1>0, <2>3, AppendToDistinct
    <3> HIDE DEF item
    <3>2. /\ parked' \in Seq(TxItem) /\ Distinct(parked')
          /\ drawn' \in Seq(TxItem) /\ Len(drawn') <= 1
          /\ netPc' \in {"entry", "wait", "publish"} /\ ((netPc' = "publish") <=> (drawn' # <<>>))
          /\ SlotsOf(parked') \union SlotsOf(drawn') = SlotsOf(Append(parked, item))
          /\ SlotsOf(parked') \intersect SlotsOf(drawn') = {}
      BY <2>1, <2>5, <3>1, ScanOfTheLot
    <3> QED BY <1>0, <2>1, <2>2, <2>3, <3>1, <3>2, MovingFramesKeepsInv
  <2> QED BY <1>3, <2>4, <2>5 DEF NextDueReceive
<1>4. CASE ReleaseDrawn
  <2> DEFINE s == drawn[1].slot
  <2>1. /\ Len(drawn) = 1 /\ s \in UpSlots /\ SlotsOf(drawn) = {s}
        /\ freeQ' = Send(freeQ, s, UplinkSlots) /\ drawn' = <<>> /\ netPc' = "entry"
        /\ UNCHANGED <<txQ, parked, held, now>>
    <3>1. drawn # <<>> /\ freeQ' = Send(freeQ, s, UplinkSlots) /\ drawn' = <<>> /\ netPc' = "entry"
          /\ UNCHANGED <<txQ, parked, held, now>>
      BY <1>0, <1>4 DEF ReleaseDrawn
    <3>2. Len(drawn) = 1 /\ drawn[1] \in TxItem
      <4>1. drawn \in Seq(TxItem) /\ Len(drawn) <= 1
        BY <1>0
      <4>2. Len(drawn) \in Nat \ {0}
        BY <3>1, <4>1, EmptySeq
      <4>3. Len(drawn) = 1
        <5>1. \A n \in Nat \ {0} : n <= 1 => n = 1
          OBVIOUS
        <5> QED BY <4>1, <4>2, <5>1
      <4>4. 1 \in 1..Len(drawn)
        BY <4>3
      <4> QED BY <4>1, <4>3, <4>4, ElementOfSeq
    <3>3. s \in UpSlots
      BY <3>2 DEF TxItem
    <3>4. SlotsOf(drawn) = {s}
      <4>1. 1..Len(drawn) = {1}
        BY <3>2
      <4> QED BY <4>1 DEF SlotsOf
    <3> QED BY <3>1, <3>2, <3>3, <3>4
  <2> HIDE DEF s
  <2>2. s \notin FreeSlots
    BY <2>1 DEF UplinkInv, OneOwner, NoSharing
  <2>3. /\ freeQ' \in Seq(UpSlots) /\ Injective(freeQ') /\ FreeSlots' = FreeSlots \union {s}
    <3>1. freeQ' = Append(freeQ, s)
      BY <2>1, <2>2, RoomInFree DEF Send
    <3> QED BY <3>1, <2>1, <2>2, RoomInFree DEF FreeSlots
  <2>4. SlotsOf(drawn') = {} /\ drawn' \in Seq(TxItem) /\ Len(drawn') = 0
    BY <2>1, SlotsOfFewItems
  <2>5. HeldSlots' = HeldSlots /\ SlotsOf(txQ)' = SlotsOf(txQ) /\ SlotsOf(parked)' = SlotsOf(parked)
        /\ SlotsOf(drawn)' = SlotsOf(drawn')
    BY <2>1 DEF HeldSlots
  <2>6. UplinkTypeOK'
    BY <2>1, <2>3, <2>4 DEF UplinkInv, UplinkTypeOK
  <2>7. NoSharing'
    BY <2>1, <2>3, <2>4, <2>5 DEF UplinkInv, OneOwner, NoSharing
  <2>8. NoLeak'
    BY <2>1, <2>3, <2>4, <2>5 DEF UplinkInv, OneOwner, NoLeak
  <2> QED BY <2>6, <2>7, <2>8 DEF UplinkInv, OneOwner
<1> QED BY <1>1, <1>2, <1>3, <1>4 DEF NetTask

\* The clock touches no buffer.
LEMMA TickKeepsInv ==
    ASSUME UplinkInv, now' \in Nat, UNCHANGED <<freeQ, txQ, parked, drawn, held, netPc>>
    PROVE  UplinkInv'
<1>1. FreeSlots' = FreeSlots /\ HeldSlots' = HeldSlots
  BY DEF FreeSlots, HeldSlots
<1>2. UplinkTypeOK'
  BY DEF UplinkInv, UplinkTypeOK
<1>3. NoSharing' /\ NoLeak'
  BY <1>1 DEF UplinkInv, OneOwner, NoSharing, NoLeak
<1> QED BY <1>2, <1>3 DEF UplinkInv, OneOwner

\* begin() puts every buffer into free_ (Uplink.cpp:10-25).
LEMMA InitHasInv == UplinkInit => UplinkInv
<1> SUFFICES ASSUME UplinkInit PROVE UplinkInv
  OBVIOUS
<1>1. /\ freeQ = [i \in 1..UplinkSlots |-> i - 1] /\ txQ = <<>> /\ parked = <<>> /\ drawn = <<>>
      /\ held = [p \in Producers |-> NoSlot] /\ netPc = "entry" /\ now = 0
      /\ UplinkSlots \in Nat
  BY UplinkAssumption DEF UplinkInit
<1>2. freeQ \in Seq(UpSlots) /\ Len(freeQ) = UplinkSlots
  <2>1. freeQ \in [1..UplinkSlots -> UpSlots]
    BY <1>1 DEF UpSlots
  <2> QED BY <1>1, <2>1
<1>3. Injective(freeQ) /\ ToSet(freeQ) = UpSlots
  <2>1. \A i \in 1..UplinkSlots : freeQ[i] = i - 1
    BY <1>1
  <2>2. Injective(freeQ)
    BY <1>1, <1>2, <2>1 DEF Injective
  <2>3. \A s \in UpSlots : s + 1 \in 1..UplinkSlots /\ freeQ[s + 1] = s
    BY <1>1, <2>1 DEF UpSlots
  <2>4. ToSet(freeQ) = {freeQ[i] : i \in 1..UplinkSlots}
    BY <1>2, ToSetOfSeq
  <2>5. \A i \in 1..UplinkSlots : freeQ[i] \in UpSlots
    BY <1>2, ElementOfSeq
  <2> QED BY <2>2, <2>3, <2>4, <2>5
<1>4. HeldSlots = {}
  BY <1>1 DEF HeldSlots
<1>5. UplinkTypeOK
  BY <1>1, <1>2 DEF UplinkTypeOK
<1>6. Distinct(<<>>)
  BY DEF Distinct
<1>7. NoSharing /\ NoLeak
  BY <1>1, <1>3, <1>4, <1>6, SlotsOfFewItems DEF NoSharing, NoLeak, FreeSlots
<1> QED BY <1>5, <1>7 DEF UplinkInv, OneOwner

\* Every step of the uplink, alone or in a composition, keeps both.
LEMMA StepKeepsInv ==
    ASSUME UplinkInv, [UplinkNext]_uplinkVars
    PROVE  UplinkInv'
<1>1. CASE \E p \in Producers : Produce(p)
  <2> PICK p \in Producers : Produce(p)
    BY <1>1
  <2> QED BY AcquireKeepsInv, ReleaseKeepsInv, SubmitKeepsInv, UplinkAssumption DEF Produce
<1>2. CASE NetTask
  BY <1>2, NetTaskKeepsInv
<1>3. CASE Tick
  BY <1>3, TickKeepsInv DEF Tick, UplinkInv, UplinkTypeOK
<1>4. CASE UNCHANGED uplinkVars
  BY <1>4, TickKeepsInv DEF uplinkVars, UplinkInv, UplinkTypeOK
<1> QED BY <1>1, <1>2, <1>3, <1>4 DEF UplinkNext

-----------------------------------------------------------------------------
(* The results.                                                            *)

\* Every variable of the uplink keeps its type, and net_task holds a frame
\* exactly while it publishes (Uplink.cpp:86-114).
THEOREM UplinkTypeCorrect == UplinkSpec => []UplinkTypeOK
<1>1. UplinkInv /\ [UplinkNext]_uplinkVars => UplinkInv'
  BY StepKeepsInv
<1>2. UplinkInv => UplinkTypeOK
  BY DEF UplinkInv
<1> QED BY InitHasInv, <1>1, <1>2, PTL DEF UplinkSpec

\* The ownership rule of Uplink.h: at any time every buffer of the pool is
\* in exactly one place, whatever the producers do.
THEOREM BuffersHaveOneOwner == UplinkSpec => []OneOwner
<1>1. UplinkInv /\ [UplinkNext]_uplinkVars => UplinkInv'
  BY StepKeepsInv
<1>2. UplinkInv => OneOwner
  BY DEF UplinkInv
<1> QED BY InitHasInv, <1>1, <1>2, PTL DEF UplinkSpec

\* Frames in different buffers leave room for the buffer that is missing.
LEMMA DistinctIsShort ==
    ASSUME NEW q \in Seq(TxItem), Distinct(q), NEW s \in UpSlots, s \notin SlotsOf(q)
    PROVE  Len(q) < UplinkSlots
<1> DEFINE slots == [i \in 1..Len(q) |-> q[i].slot]
<1>1. Len(q) \in Nat /\ \A i \in 1..Len(q) : q[i].slot \in UpSlots
  <2>1. Len(q) \in Nat /\ \A i \in 1..Len(q) : q[i] \in TxItem
    OBVIOUS
  <2> QED BY <2>1 DEF TxItem
<1>2. slots \in Seq(UpSlots) /\ Len(slots) = Len(q) /\ \A i \in 1..Len(q) : slots[i] = q[i].slot
  BY <1>1
<1> HIDE DEF slots
<1>3. Injective(slots) /\ s \notin ToSet(slots)
  BY <1>2, ToSetOfSeq DEF Injective, Distinct, SlotsOf
<1> QED BY <1>2, <1>3, InjectiveIsShort

\* The sends that the code calls infallible are: OneOwner leaves room in
\* free_, in tx_ and in the parking lot (Uplink.cpp:22, 43, 64 and 107).
LEMMA InvGivesRoom == UplinkInv => NeverFull
<1> SUFFICES ASSUME UplinkInv PROVE NeverFull
  OBVIOUS
<1>0. /\ txQ \in Seq(TxItem) /\ parked \in Seq(TxItem) /\ drawn \in Seq(TxItem) /\ Len(drawn) <= 1
      /\ held \in [Producers -> UpSlots \union {NoSlot}]
      /\ Distinct(txQ) /\ Distinct(parked)
      /\ FreeSlots \intersect (HeldSlots \union SlotsOf(txQ) \union SlotsOf(parked) \union SlotsOf(drawn)) = {}
      /\ HeldSlots \intersect (SlotsOf(txQ) \union SlotsOf(parked) \union SlotsOf(drawn)) = {}
      /\ SlotsOf(txQ) \intersect (SlotsOf(parked) \union SlotsOf(drawn)) = {}
  BY DEF UplinkInv, UplinkTypeOK, OneOwner, NoSharing
<1>1. ASSUME NEW p \in Producers, held[p] # NoSlot
      PROVE  Len(freeQ) < UplinkSlots /\ Len(txQ) < UplinkSlots
  <2>1. held[p] \in HeldSlots /\ held[p] \in UpSlots
    BY <1>0, <1>1 DEF HeldSlots
  <2>2. held[p] \notin FreeSlots /\ held[p] \notin SlotsOf(txQ)
    BY <1>0, <2>1
  <2> QED BY <1>0, <2>1, <2>2, RoomInFree, DistinctIsShort
<1>2. ASSUME drawn # <<>> PROVE Len(freeQ) < UplinkSlots
  <2>1. 1 \in 1..Len(drawn) /\ drawn[1] \in TxItem
    BY <1>0, <1>2
  <2>2. drawn[1].slot \in SlotsOf(drawn) /\ drawn[1].slot \in UpSlots
    BY <2>1 DEF SlotsOf, TxItem
  <2> QED BY <1>0, <2>2, RoomInFree
<1>3. ASSUME txQ # <<>> PROVE Len(parked) < MaxSlots
  <2>1. Head(txQ).slot \in SlotsOf(txQ) /\ Head(txQ) \in TxItem
    BY <1>0, <1>3, TailOfDistinct
  <2>2. Head(txQ).slot \in UpSlots /\ Head(txQ).slot \notin SlotsOf(parked)
    BY <1>0, <2>1 DEF TxItem
  <2>3. Len(parked) < UplinkSlots /\ Len(parked) \in Nat
    BY <1>0, <2>2, DistinctIsShort
  <2> QED BY <2>3, UplinkAssumption
<1> QED BY <1>1, <1>2, <1>3 DEF NeverFull

\* The sends whose result the code ignores always find room (Uplink.cpp:22,
\* 43, 64, 107), for every number of buffers and producers.
THEOREM QueuesNeverFull == UplinkSpec => []NeverFull
<1>1. UplinkInv /\ [UplinkNext]_uplinkVars => UplinkInv'
  BY StepKeepsInv
<1> QED BY InitHasInv, <1>1, InvGivesRoom, PTL DEF UplinkSpec

-----------------------------------------------------------------------------
(* The uplink implements the channel: parked \o txQ is what is pending.    *)

\* What Append leaves at the front and at the end.
LEMMA LastOfAppend ==
    ASSUME NEW S, NEW q \in Seq(S), NEW x \in S
    PROVE  Append(q, x) # <<>> /\ Front(Append(q, x)) = q /\ Last(Append(q, x)) = x
<1> DEFINE a == Append(q, x)
<1>1. /\ a \in Seq(S) /\ a # <<>> /\ Len(a) = Len(q) + 1 /\ Len(q) \in Nat
      /\ (\A i \in 1..Len(q) : a[i] = q[i]) /\ a[Len(q) + 1] = x
  BY AppendProperties
<1> HIDE DEF a
<1>2. Last(a) = x
  BY <1>1 DEF Last
<1>3. Front(a) = q
  <2>1. Front(a) = SubSeq(a, 1, Len(q))
    BY <1>1 DEF Front
  <2>2. \A i \in 1..Len(q) : a[i] \in S
    BY <1>1
  <2>3. /\ SubSeq(a, 1, Len(q)) \in Seq(S) /\ Len(SubSeq(a, 1, Len(q))) = Len(q)
        /\ \A i \in 1..Len(q) : SubSeq(a, 1, Len(q))[i] = a[i]
    BY <1>1, <2>2, SubSeqProperties
  <2>4. \A i \in 1..Len(q) : SubSeq(a, 1, Len(q))[i] = q[i]
    BY <1>1, <2>3
  <2> QED BY <2>1, <2>3, <2>4, SeqEqual
<1> QED BY <1>1, <1>2, <1>3 DEF a

\* Taking an item out of the parking lot takes it out of the whole channel.
LEMMA RemoveFromPrefix ==
    ASSUME NEW S, NEW lot \in Seq(S), NEW rest \in Seq(S), NEW i \in 1..Len(lot)
    PROVE  /\ i \in 1..Len(lot \o rest) /\ (lot \o rest)[i] = lot[i]
           /\ \A j \in 1..(i - 1) : (lot \o rest)[j] = lot[j]
           /\ RemoveAt(lot \o rest, i) = RemoveAt(lot, i) \o rest
<1> DEFINE w == lot \o rest
           r == RemoveAt(lot, i)
           v == r \o rest
           u == RemoveAt(w, i)
<1>1. Len(lot) \in Nat /\ Len(rest) \in Nat
  OBVIOUS
<1>2. /\ w \in Seq(S) /\ Len(w) = Len(lot) + Len(rest)
      /\ \A j \in 1..(Len(lot) + Len(rest)) : w[j] = IF j <= Len(lot) THEN lot[j] ELSE rest[j - Len(lot)]
  BY ConcatProperties
<1>3. i \in 1..Len(w) /\ w[i] = lot[i] /\ \A j \in 1..(i - 1) : w[j] = lot[j]
  BY <1>1, <1>2
<1>4. /\ r \in Seq(S) /\ Len(r) = Len(lot) - 1
      /\ \A j \in 1..(Len(lot) - 1) : r[j] = IF j < i THEN lot[j] ELSE lot[j + 1]
  BY RemoveAtElements
<1> HIDE DEF w, r
<1>5. /\ v \in Seq(S) /\ Len(v) = Len(r) + Len(rest)
      /\ \A j \in 1..(Len(r) + Len(rest)) : v[j] = IF j <= Len(r) THEN r[j] ELSE rest[j - Len(r)]
  BY <1>4, ConcatProperties
<1>6. /\ u \in Seq(S) /\ Len(u) = Len(w) - 1
      /\ \A j \in 1..(Len(w) - 1) : u[j] = IF j < i THEN w[j] ELSE w[j + 1]
  BY <1>2, <1>3, RemoveAtElements
<1> HIDE DEF u, v
<1>7. Len(u) = Len(v)
  BY <1>1, <1>2, <1>4, <1>5, <1>6
<1>8. ASSUME NEW j \in 1..Len(u) PROVE u[j] = v[j]
  <2>1. CASE j < i
    <3>1. j \in 1..(Len(w) - 1) /\ j \in 1..(i - 1) /\ j \in 1..(Len(lot) - 1) /\ j \in 1..(Len(r) + Len(rest)) /\ j <= Len(r)
      BY <2>1, <1>1, <1>2, <1>4, <1>6
    <3>2. u[j] = w[j] /\ w[j] = lot[j]
      BY <2>1, <3>1, <1>3, <1>6
    <3>3. v[j] = r[j] /\ r[j] = lot[j]
      BY <2>1, <3>1, <1>4, <1>5
    <3> QED BY <3>2, <3>3
  <2>2. CASE j >= i /\ j <= Len(lot) - 1
    <3>1. u[j] = lot[j + 1]
      <4>1. j \in 1..(Len(w) - 1) /\ ~ (j < i) /\ j + 1 \in 1..(Len(lot) + Len(rest)) /\ j + 1 <= Len(lot)
        BY <2>2, <1>1, <1>2, <1>6
      <4>2. u[j] = w[j + 1]
        BY <4>1, <1>6
      <4> QED BY <4>1, <4>2, <1>2
    <3>2. v[j] = lot[j + 1]
      <4>1. j \in 1..(Len(lot) - 1) /\ ~ (j < i) /\ j \in 1..(Len(r) + Len(rest)) /\ j <= Len(r)
        BY <2>2, <1>1, <1>4
      <4>2. v[j] = r[j]
        BY <4>1, <1>5
      <4> QED BY <4>1, <4>2, <1>4
    <3> QED BY <3>1, <3>2
  <2>3. CASE j >= Len(lot)
    <3>1. u[j] = w[j + 1] /\ w[j + 1] = rest[j + 1 - Len(lot)]
      <4>1. j \in 1..(Len(w) - 1) /\ ~ (j < i) /\ j + 1 \in 1..(Len(lot) + Len(rest)) /\ ~ (j + 1 <= Len(lot))
        BY <2>3, <1>1, <1>2, <1>6
      <4>2. u[j] = w[j + 1]
        BY <4>1, <1>6
      <4> QED BY <4>1, <4>2, <1>2
    <3>2. v[j] = rest[j - (Len(lot) - 1)] /\ j - (Len(lot) - 1) = j + 1 - Len(lot)
      <4>1. j \in 1..(Len(r) + Len(rest)) /\ ~ (j <= Len(r)) /\ Len(r) = Len(lot) - 1
        BY <2>3, <1>1, <1>2, <1>4, <1>6
      <4> QED BY <4>1, <1>1, <1>5
    <3> QED BY <3>1, <3>2
  <2> QED BY <2>1, <2>2, <2>3, <1>1, <1>2, <1>6
<1>9. u = v
  BY <1>5, <1>6, <1>7, <1>8, SeqEqual
<1> QED BY <1>3, <1>9 DEF u, v, w, r

\* A scan that finds a frame hands it over in the channel.
LEMMA ScanHandsOver ==
    ASSUME NEW lot \in Seq(TxItem), NEW rest \in Seq(TxItem), lot \o rest = parked \o txQ, txQ' = rest,
           now \in Nat, now' = now, drawn = <<>>, TakeDueParked(lot)
    PROVE  \E i \in 1..Len(parked \o txQ) : Channel!HandOver(i)
<1>1. PICK i \in 1..Len(lot) : /\ Due(lot[i]) /\ \A j \in 1..(i - 1) : ~ Due(lot[j])
                              /\ drawn' = <<lot[i]>> /\ parked' = RemoveAt(lot, i)
  BY DEF TakeDueParked
<1>2. /\ i \in 1..Len(parked \o txQ) /\ (parked \o txQ)[i] = lot[i]
      /\ \A j \in 1..(i - 1) : (parked \o txQ)[j] = lot[j]
      /\ RemoveAt(parked \o txQ, i) = parked' \o txQ'
  <2>1. /\ i \in 1..Len(lot \o rest) /\ (lot \o rest)[i] = lot[i]
        /\ \A j \in 1..(i - 1) : (lot \o rest)[j] = lot[j]
        /\ RemoveAt(lot \o rest, i) = RemoveAt(lot, i) \o rest
    BY RemoveFromPrefix
  <2>2. parked' \o txQ' = RemoveAt(lot, i) \o rest
    BY <1>1
  <2> QED BY <2>1, <2>2
<1>3. lot[i].nb <= now /\ \A j \in 1..(i - 1) : lot[j].nb # lot[i].nb
  BY <1>1 DEF Due
<1>4. Channel!HandOver(i)
  <2> DEFINE w == parked \o txQ
             v == parked' \o txQ'
  <2>1. Channel!RemoveAt(w, i) = RemoveAt(w, i)
    BY DEF Channel!RemoveAt, RemoveAt
  <2>2. w[i] = lot[i] /\ v = RemoveAt(w, i) /\ \A j \in 1..(i - 1) : w[j].nb # w[i].nb
    <3> HIDE DEF w, v
    <3>1. w[i] = lot[i] /\ v = RemoveAt(w, i) /\ \A j \in 1..(i - 1) : w[j] = lot[j]
      BY <1>2 DEF w, v
    <3> QED BY <1>3, <3>1
  <2>3. w[i].nb <= now /\ drawn' = <<w[i]>>
    <3> HIDE DEF w, v
    <3> QED BY <1>1, <1>3, <2>2
  <2> QED BY <1>1, <2>1, <2>2, <2>3 DEF Channel!HandOver
<1> QED BY <1>2, <1>4

\* A frame that submit() accepts is queued at the end of the channel.
LEMMA SubmitQueues ==
    ASSUME UplinkInv, NEW p \in Producers, NEW frame \in Frames, NEW nb \in Nat, Submit(p, frame, nb),
           frame \in SaneFrames, Len(txQ) < UplinkSlots
    PROVE  LET item == [slot |-> held[p], nb |-> nb, frame |-> frame] IN
           /\ item \in TxItem /\ parked' \o txQ' = Append(parked \o txQ, item) /\ drawn' = drawn
           /\ Channel!Queue
<1> DEFINE item == [slot |-> held[p], nb |-> nb, frame |-> frame]
<1>0. /\ txQ \in Seq(TxItem) /\ parked \in Seq(TxItem)
      /\ held \in [Producers -> UpSlots \union {NoSlot}]
  BY DEF UplinkInv, UplinkTypeOK
<1>1. item \in TxItem /\ txQ' = Append(txQ, item) /\ UNCHANGED <<parked, drawn, now>>
  BY <1>0 DEF Submit, TxItem
<1> HIDE DEF item
<1>2. parked' \o txQ' = Append(parked \o txQ, item) /\ parked \o txQ \in Seq(TxItem)
  <2>1. parked \o txQ \in Seq(TxItem)
    BY <1>0, ConcatProperties
  <2>2. <<item>> \in Seq(TxItem)
    BY <1>1
  <2>3. (parked \o txQ) \o <<item>> = parked \o (txQ \o <<item>>)
    BY <1>0, <2>2, ConcatAssociative
  <2>4. Append(parked \o txQ, item) = (parked \o txQ) \o <<item>> /\ Append(txQ, item) = txQ \o <<item>>
    BY <1>0, <1>1, <2>1, AppendIsConcat
  <2> QED BY <1>1, <2>1, <2>3, <2>4
<1>3. /\ parked' \o txQ' # <<>> /\ Front(parked' \o txQ') = parked \o txQ
      /\ Last(parked' \o txQ') = item
  <2> DEFINE w == parked \o txQ
  <2>1. w \in Seq(TxItem)
    BY <1>2
  <2> HIDE DEF w
  <2>2. Append(w, item) # <<>> /\ Front(Append(w, item)) = w /\ Last(Append(w, item)) = item
    BY <1>1, <2>1, LastOfAppend
  <2>3. parked' \o txQ' = Append(w, item)
    BY <1>2 DEF w
  <2> QED BY <2>2, <2>3 DEF w
<1>4. \A q : Channel!Front(q) = Front(q) /\ Channel!Last(q) = Last(q)
  BY DEF Channel!Front, Front, Channel!Last, Last
<1>5. Channel!Queue
  BY <1>1, <1>3, <1>4 DEF Channel!Queue
<1> QED BY <1>1, <1>2, <1>5 DEF item

\* nextDue() hands a frame over or leaves the channel alone.
LEMMA NextDueMovesFrames ==
    ASSUME UplinkInv, NextDueEntry \/ NextDueReceive \/ NextDueTimeout
    PROVE  /\ drawn = <<>>
           /\ \/ UNCHANGED <<parked \o txQ, drawn, now>>
              \/ \E i \in 1..Len(parked \o txQ) : Channel!HandOver(i)
<1>0. /\ txQ \in Seq(TxItem) /\ parked \in Seq(TxItem) /\ drawn \in Seq(TxItem) /\ now \in Nat
      /\ drawn = <<>>
  BY DEF UplinkInv, UplinkTypeOK, NextDueEntry, NextDueReceive, NextDueTimeout
<1>1. CASE UNCHANGED <<txQ, parked, drawn, now>>
  BY <1>0, <1>1
<1>3. CASE NextDueEntry \/ NextDueTimeout
  <2>1. /\ drawn = <<>> /\ UNCHANGED <<freeQ, txQ, held, now>>
        /\ TakeDueParked(parked) \/ NothingDue(parked, "wait") \/ NothingDue(parked, "entry")
    BY <1>0, <1>3 DEF NextDueEntry, NextDueTimeout
  <2>2. CASE TakeDueParked(parked)
    BY <1>0, <2>1, <2>2, ScanHandsOver
  <2>3. CASE NothingDue(parked, "wait") \/ NothingDue(parked, "entry")
    BY <1>1, <2>1, <2>3 DEF NothingDue
  <2> QED BY <2>1, <2>2, <2>3
<1>4. CASE NextDueReceive
  <2> DEFINE item == Head(txQ)
  <2>1. /\ drawn = <<>> /\ txQ # <<>> /\ txQ' = Tail(txQ) /\ UNCHANGED <<freeQ, held, now>>
        /\ item \in TxItem /\ Tail(txQ) \in Seq(TxItem)
    BY <1>0, <1>4 DEF NextDueReceive
  <2>2. ~ (Len(parked) >= MaxSlots)
    <3>1. Len(parked) < MaxSlots /\ Len(parked) \in Nat
      BY <1>0, <2>1, InvGivesRoom DEF NeverFull
    <3> QED BY <3>1, UplinkAssumption
  <2>3. Append(parked, item) \in Seq(TxItem) /\ Append(parked, item) \o Tail(txQ) = parked \o txQ
    <3>1. <<item>> \in Seq(TxItem)
      BY <2>1
    <3>2. txQ = <<item>> \o Tail(txQ)
      <4>1. Len(txQ) \in Nat \ {0}
        BY <1>0, <2>1, EmptySeq
      <4>2. 1 \in 1..Len(txQ) /\ Len(txQ) \in 1..Len(txQ)
        BY <4>1
      <4>3. SubSeq(txQ, 1, Len(txQ)) = <<txQ[1]>> \o SubSeq(txQ, 1 + 1, Len(txQ))
        BY <1>0, <4>2, SubSeqRecursiveFirst
      <4>4. SubSeq(txQ, 1, Len(txQ)) = txQ /\ SubSeq(txQ, 2, Len(txQ)) = Tail(txQ)
        BY <1>0, <2>1, SubSeqFull, TailIsSubSeq
      <4>5. item = txQ[1] /\ 1 + 1 = 2
        BY <1>0, <2>1
      <4> QED BY <4>3, <4>4, <4>5
    <3> HIDE DEF item
    <3>3. Append(parked, item) = parked \o <<item>> /\ Append(parked, item) \in Seq(TxItem)
      BY <1>0, <2>1, AppendIsConcat, AppendProperties
    <3>4. (parked \o <<item>>) \o Tail(txQ) = parked \o (<<item>> \o Tail(txQ))
      BY <1>0, <2>1, <3>1, ConcatAssociative
    <3> QED BY <3>2, <3>3, <3>4
  <2> HIDE DEF item
  <2>4. CASE parked = <<>> /\ Due(item) /\ drawn' = <<item>> /\ parked' = parked
    <3>1. (parked \o txQ) = txQ /\ (parked' \o txQ') = Tail(txQ)
      BY <1>0, <2>1, <2>4, ConcatEmptySeq
    <3>2. Len(txQ) \in Nat \ {0}
      BY <1>0, <2>1, EmptySeq
    <3>3. 1 \in 1..Len(txQ) /\ txQ[1] = item
      BY <1>0, <2>1, <3>2 DEF item
    <3>4. RemoveAt(txQ, 1) = Tail(txQ)
      <4>1. SubSeq(txQ, 1, 0) = <<>> /\ SubSeq(txQ, 2, Len(txQ)) = Tail(txQ)
        BY <1>0, <2>1, SubSeqEmpty, TailIsSubSeq
      <4>2. RemoveAt(txQ, 1) = SubSeq(txQ, 1, 1 - 1) \o SubSeq(txQ, 1 + 1, Len(txQ))
        BY DEF RemoveAt
      <4>3. 1 - 1 = 0 /\ 1 + 1 = 2
        OBVIOUS
      <4> QED BY <2>1, <4>1, <4>2, <4>3, ConcatEmptySeq
    <3>5. Channel!HandOver(1)
      <4>1. item.nb <= now /\ 1..(1 - 1) = {}
        BY <2>4 DEF Due
      <4>2. Channel!RemoveAt(txQ, 1) = RemoveAt(txQ, 1)
        BY DEF Channel!RemoveAt, RemoveAt
      <4> QED BY <2>1, <2>4, <3>1, <3>3, <3>4, <4>1, <4>2 DEF Channel!HandOver
    <3> QED BY <1>0, <3>1, <3>2, <3>5
  <2>5. CASE TakeDueParked(Append(parked, item))
    BY <1>0, <2>1, <2>3, <2>5, ScanHandsOver
  <2>6. CASE NothingDue(Append(parked, item), "entry")
    <3>1. parked' = Append(parked, item) /\ drawn' = drawn
      BY <2>6 DEF NothingDue
    <3> QED BY <2>1, <2>3, <3>1
  <2> QED BY <1>4, <2>2, <2>4, <2>5, <2>6 DEF NextDueReceive, item
<1> QED BY <1>0, <1>3, <1>4 DEF NextDueEntry, NextDueReceive, NextDueTimeout

\* Every step of the uplink is a step of the channel or leaves it alone.
LEMMA StepRefinesChannel ==
    ASSUME UplinkInv, [UplinkNext]_uplinkVars
    PROVE  [Channel!Next]_Channel!channelVars
<1>0. /\ txQ \in Seq(TxItem) /\ parked \in Seq(TxItem) /\ drawn \in Seq(TxItem) /\ now \in Nat
      /\ (netPc = "publish") <=> (drawn # <<>>)
      /\ held \in [Producers -> UpSlots \union {NoSlot}]
  BY DEF UplinkInv, UplinkTypeOK
<1>1. CASE UNCHANGED <<txQ, parked, drawn, now>>
  BY <1>1 DEF Channel!channelVars
<1>2. ASSUME NEW p \in Producers, NEW frame \in Frames, NEW nb \in Nat, Submit(p, frame, nb),
             frame \in SaneFrames, Len(txQ) < UplinkSlots
      PROVE  Channel!Queue
  BY <1>2, SubmitQueues
<1>3. CASE NextDueEntry \/ NextDueReceive \/ NextDueTimeout
  BY <1>3, NextDueMovesFrames DEF Channel!Next, Channel!channelVars
<1>5. CASE ReleaseDrawn
  <2>1. drawn # <<>> /\ drawn' = <<>> /\ UNCHANGED <<txQ, parked, now>>
    BY <1>0, <1>5 DEF ReleaseDrawn
  <2> QED BY <2>1 DEF Channel!Finish, Channel!Next
<1>6. CASE Tick
  <2>1. now' > now /\ UNCHANGED <<txQ, parked, drawn>>
    BY <1>0, <1>6 DEF Tick
  <2> QED BY <2>1 DEF Channel!TimePasses, Channel!Next
<1>7. CASE \E p \in Producers : Produce(p)
  <2> PICK p \in Producers : Produce(p)
    BY <1>7
  <2>1. CASE Acquire(p) \/ Release(p)
    BY <1>1, <2>1 DEF Acquire, Release
  <2>2. CASE \E frame \in Frames, nb \in 0..MaxNow : Submit(p, frame, nb)
    <3> PICK frame \in Frames, nb \in 0..MaxNow : Submit(p, frame, nb)
      BY <2>2
    <3>1. nb \in Nat
      BY UplinkAssumption
    <3>2. CASE frame \in SaneFrames /\ Len(txQ) < UplinkSlots
      BY <1>2, <3>1, <3>2 DEF Channel!Next
    <3>3. CASE ~ (frame \in SaneFrames /\ Len(txQ) < UplinkSlots)
      BY <1>1, <3>3 DEF Submit, Release
    <3> QED BY <3>2, <3>3
  <2> QED BY <2>1, <2>2 DEF Produce
<1>8. CASE UNCHANGED uplinkVars
  BY <1>1, <1>8 DEF uplinkVars
<1> QED BY <1>3, <1>5, <1>6, <1>7, <1>8 DEF UplinkNext, NetTask

\* Whatever the producers submit, the two queues behave like one channel
\* that hands every frame over once, not before its time, and in order
\* among the frames of equal time (nextDue(), Uplink.cpp:72-114).
THEOREM UplinkImplementsChannel == UplinkSpec => ImplementsChannel
<1>1. UplinkInit => Channel!Init
  <2>1. <<>> \in Seq(TxItem) /\ <<>> \o <<>> = <<>>
    BY ConcatEmptySeq
  <2> QED BY <2>1 DEF UplinkInit, Channel!Init
<1>2. UplinkInv /\ [UplinkNext]_uplinkVars => UplinkInv'
  BY StepKeepsInv
<1>3. UplinkInv /\ [UplinkNext]_uplinkVars => [Channel!Next]_Channel!channelVars
  BY StepRefinesChannel
<1> QED BY InitHasInv, <1>1, <1>2, <1>3, PTL DEF UplinkSpec, ImplementsChannel, Channel!Spec

=============================================================================
