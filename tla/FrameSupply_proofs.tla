-------------------------- MODULE FrameSupply_proofs --------------------------
(***************************************************************************)
(* What the capture supplies, for any number of frames, any bounds and any *)
(* faults of the channel.                                                  *)
(*                                                                         *)
(* The shared-memory transport (ChannelInv): until the recorder has        *)
(* exited, a segment has one owner at a time, its publisher, a line, a     *)
(* descriptor, a batch, the queue or an encoder, and only its owner takes  *)
(* it away; a live segment that nobody owns was named by a line that       *)
(* followed a torn one.                                                    *)
(*                                                                         *)
(* The filesystem transport (SpoolInv): what the watcher has seen or       *)
(* remembers is in the result it builds, in the batch, or was supplied,    *)
(* or a scan has still to look at it; and a handle that is not yet         *)
(* consumed is of a known name.                                            *)
(***************************************************************************)
EXTENDS FrameSupply, SequenceTheorems, FiniteSetTheorems, TLAPS

Elems(q) == {q[i] : i \in 1..Len(q)}
Distinct(q) == \A i, j \in 1..Len(q) : q[i] = q[j] => i = j

(* The same of the segments that lines or descriptors name. *)
Named(q) == {q[i].segment : i \in 1..Len(q)}
Once(q) == \A i, j \in 1..Len(q) : q[i].segment = q[j].segment => i = j
CleanNamed(q) == {q[i].segment : i \in {j \in 1..Len(q) : q[j].clean}}

(* The owners of a segment, in the order in which it passes them. *)
Publishing == {publishing} \ {NoSegment}
Dangling == Elems(dangling)
OnWire == Named(wire)
Readable == CleanNamed(wire)
InInbox == Named(inbox)
InBatch == Elems(capture.batch)
InQueue == {h \in Files : queued[h] > 0}
AtWork == {h \in Files : working[h] > 0}
Made == {s \in Segments : segment[s] # "unmade"}

Stations == {"begin", "drain", "loop", "wait", "got", "put", "putWait", "ended"}

OwnerTypes ==
  /\ segment \in [Segments -> {"unmade", "live", "gone"}]
  /\ publishing \in Segments \union {NoSegment}
  /\ dangling \in Seq(Segments) /\ wire \in Seq(Lines) /\ inbox \in Seq(Descriptors)
  /\ capture \in [at : Stations, batch : Seq(Files), rounds : Nat]
  /\ queued \in [Files -> Nat] /\ working \in [Files -> Nat] /\ copied \subseteq Files
  /\ idx \in Nat
  /\ call.at = "off"

OneOwner ==
  /\ Publishing \intersect (Dangling \union OnWire \union InInbox \union InBatch
                            \union InQueue \union AtWork \union copied) = {}
  /\ Dangling \intersect (OnWire \union InInbox \union InBatch \union InQueue
                          \union AtWork \union copied) = {}
  /\ OnWire \intersect (InInbox \union InBatch \union InQueue \union AtWork
                        \union copied) = {}
  /\ InInbox \intersect (InBatch \union InQueue \union AtWork \union copied) = {}
  /\ InBatch \intersect (InQueue \union AtWork \union copied) = {}
  /\ InQueue \intersect (AtWork \union copied) = {}
  /\ Once(wire) /\ Once(inbox) /\ Distinct(capture.batch)
  /\ \A h \in Files : queued[h] <= 1 /\ working[h] <= 1

(* Whoever owns a segment, it was made; until the recorder has exited, it   *)
(* is still there for those who have not copied it; and no copy leaves it.  *)
Downstream == OnWire \union InInbox \union InBatch \union InQueue \union AtWork
OwnedIsMade == Dangling \union copied \union Publishing \union Downstream \subseteq Made
OwnedIsLive ==
  recorder # "down" =>
    Publishing \union OnWire \union InInbox \union InBatch \union InQueue
      \union (AtWork \ copied) \subseteq Live
CopiedIsGone == copied \intersect Live = {}

OwnerInv == OwnerTypes /\ OneOwner /\ OwnedIsMade /\ OwnedIsLive /\ CopiedIsGone

(* Who asks for descriptors has put all the others. *)
EmptyHanded == capture.at \in {"begin", "loop", "wait"} => capture.batch = <<>>

(* The live segments that nobody will free. *)
InCare == Publishing \union Dangling \union Readable \union InInbox \union InBatch
            \union InQueue \union AtWork
Orphans == Live \ InCare

(* What most steps do: a segment only moves on, and finds somebody.         *)
MovesOn == Downstream' \subseteq Downstream /\ Orphans' \subseteq Orphans

-----------------------------------------------------------------------------
LEMMA AppendElems ==
  ASSUME NEW T, NEW q \in Seq(T), NEW x \in T
  PROVE  /\ Append(q, x) \in Seq(T)
         /\ Elems(Append(q, x)) = Elems(q) \union {x}
         /\ Named(Append(q, x)) = Named(q) \union {x.segment}
         /\ Once(q) /\ x.segment \notin Named(q) => Once(Append(q, x))
<1>1. /\ Append(q, x) \in Seq(T) /\ Len(Append(q, x)) = Len(q) + 1 /\ Len(q) \in Nat
      /\ \A i \in 1..Len(q) : Append(q, x)[i] = q[i]
      /\ Append(q, x)[Len(q) + 1] = x
  BY AppendProperties, LenProperties
<1>2. 1..(Len(q) + 1) = (1..Len(q)) \union {Len(q) + 1}
  BY <1>1
<1>3. Elems(Append(q, x)) = Elems(q) \union {x}
  BY <1>1, <1>2 DEF Elems
<1>4. Named(Append(q, x)) = Named(q) \union {x.segment}
  BY <1>1, <1>2 DEF Named
<1>5. ASSUME Once(q), x.segment \notin Named(q) PROVE Once(Append(q, x))
  <2>1. \A i \in 1..Len(q) : q[i].segment # x.segment
    BY <1>5 DEF Named
  <2> QED BY <1>1, <1>2, <1>5, <2>1 DEF Once
<1> QED BY <1>1, <1>3, <1>4, <1>5

LEMMA TailElems ==
  ASSUME NEW T, NEW q \in Seq(T), q # <<>>
  PROVE  /\ Tail(q) \in Seq(T) /\ Head(q) \in T
         /\ Elems(q) = Elems(Tail(q)) \union {Head(q)}
         /\ Named(q) = Named(Tail(q)) \union {Head(q).segment}
         /\ Distinct(q) => Distinct(Tail(q)) /\ Head(q) \notin Elems(Tail(q))
         /\ Once(q) => Once(Tail(q)) /\ Head(q).segment \notin Named(Tail(q))
<1>1. /\ Tail(q) \in Seq(T) /\ Head(q) \in T
      /\ Len(q) \in Nat \ {0} /\ Len(Tail(q)) = Len(q) - 1 /\ Head(q) = q[1]
      /\ \A i \in 1..Len(Tail(q)) : Tail(q)[i] = q[i + 1]
  BY HeadTailProperties, LenProperties, EmptySeq
<1>2. \A i \in 1..Len(q) : i = 1 \/ (i - 1 \in 1..Len(Tail(q)) /\ q[i] = Tail(q)[i - 1])
  BY <1>1
<1>3. (\A i \in 1..Len(Tail(q)) : i + 1 \in 1..Len(q)) /\ 1 \in 1..Len(q)
  BY <1>1
<1>4. Elems(q) = Elems(Tail(q)) \union {Head(q)}
  <2>1. Elems(q) \subseteq Elems(Tail(q)) \union {Head(q)}
    BY <1>1, <1>2 DEF Elems
  <2>2. Elems(Tail(q)) \union {Head(q)} \subseteq Elems(q)
    BY <1>1, <1>3 DEF Elems
  <2> QED BY <2>1, <2>2
<1>5. Named(q) = Named(Tail(q)) \union {Head(q).segment}
  <2>1. Named(q) \subseteq Named(Tail(q)) \union {Head(q).segment}
    BY <1>1, <1>2 DEF Named
  <2>2. Named(Tail(q)) \union {Head(q).segment} \subseteq Named(q)
    BY <1>1, <1>3 DEF Named
  <2> QED BY <2>1, <2>2
<1>6. ASSUME Distinct(q) PROVE Distinct(Tail(q)) /\ Head(q) \notin Elems(Tail(q))
  <2>1. \A i, j \in 1..Len(Tail(q)) : Tail(q)[i] = Tail(q)[j] => i + 1 = j + 1
    BY <1>1, <1>3, <1>6 DEF Distinct
  <2>2. \A i \in 1..Len(Tail(q)) : Tail(q)[i] = Head(q) => i + 1 = 1
    BY <1>1, <1>3, <1>6 DEF Distinct
  <2> QED BY <2>1, <2>2 DEF Distinct, Elems
<1>7. ASSUME Once(q) PROVE Once(Tail(q)) /\ Head(q).segment \notin Named(Tail(q))
  <2>1. \A i, j \in 1..Len(Tail(q)) :
          Tail(q)[i].segment = Tail(q)[j].segment => i + 1 = j + 1
    BY <1>1, <1>3, <1>7 DEF Once
  <2>2. \A i \in 1..Len(Tail(q)) : Tail(q)[i].segment = Head(q).segment => i + 1 = 1
    BY <1>1, <1>3, <1>7 DEF Once
  <2> QED BY <2>1, <2>2 DEF Once, Named
<1> QED BY <1>1, <1>4, <1>5, <1>6, <1>7

LEMMA FilesAreSegments == Files = Segments /\ NoSegment \notin Files
BY FramesAssumption, SegmentsAssumption

(* sorted(): the ranks of the names are a permutation of their positions.   *)
Precede(q, i, j) == q[i] < q[j] \/ (q[i] = q[j] /\ i <= j)

LEMMA RanksDiffer ==
  ASSUME NEW q \in Seq(Nat)
  PROVE  /\ \A i \in 1..Len(q) : Rank(q, i) \in 1..Len(q)
         /\ \A i, j \in 1..Len(q) : Precede(q, i, j) /\ i # j => Rank(q, i) < Rank(q, j)
<1> DEFINE N == Len(q)
           R(i) == {j \in 1..N : Precede(q, j, i)}
<1>1. N \in Nat /\ DOMAIN q = 1..N /\ \A i \in 1..N : q[i] \in Nat
  BY LenProperties, ElementOfSeq
<1>2. \A i : Rank(q, i) = Cardinality(R(i))
  BY <1>1 DEF Rank, Precede
<1>3. IsFiniteSet(1..N) /\ Cardinality(1..N) = N
  BY <1>1, FS_Interval
<1>4. ASSUME NEW i \in 1..N
      PROVE  i \in R(i) /\ IsFiniteSet(R(i)) /\ Cardinality(R(i)) \in 1..N
  <2>1. i \in R(i)
    BY <1>1 DEF Precede
  <2>2. IsFiniteSet(R(i)) /\ Cardinality(R(i)) <= N /\ Cardinality(R(i)) \in Nat
    <3>1. R(i) \in SUBSET (1..N)
      OBVIOUS
    <3> QED BY <1>3, <3>1, FS_Subset, FS_CardinalityType
  <2>3. Cardinality(R(i)) # 0
    BY <2>1, <2>2, FS_EmptySet
  <2> HIDE DEF R, N
  <2> QED BY <1>1, <2>1, <2>2, <2>3
<1>5. ASSUME NEW i \in 1..N, NEW j \in 1..N, Precede(q, i, j), i # j
      PROVE  Cardinality(R(i)) < Cardinality(R(j))
  <2>1. R(i) \subseteq R(j) /\ j \notin R(i)
    BY <1>1, <1>5 DEF Precede
  <2>2. R(i) \in SUBSET R(j) /\ R(i) # R(j)
    BY <1>4, <2>1
  <2>3. Cardinality(R(i)) <= Cardinality(R(j)) /\ Cardinality(R(i)) # Cardinality(R(j))
    BY <1>4, <2>2, FS_Subset
  <2> HIDE DEF R, N
  <2>4. Cardinality(R(i)) \in Nat /\ Cardinality(R(j)) \in Nat
    BY <1>1, <1>4
  <2> QED BY <2>3, <2>4
<1> QED BY <1>2, <1>4, <1>5

LEMMA EachRankOnce ==
  ASSUME NEW q \in Seq(Nat)
  PROVE  /\ \A i, j \in 1..Len(q) : Rank(q, i) = Rank(q, j) => i = j
         /\ \A n \in 1..Len(q) : \E i \in 1..Len(q) : Rank(q, i) = n
<1> DEFINE N == Len(q)
           f == [i \in 1..N |-> Rank(q, i)]
<1>1. N \in Nat /\ \A i \in 1..N : q[i] \in Nat /\ Rank(q, i) \in 1..N
  BY LenProperties, ElementOfSeq, RanksDiffer
<1>2. ASSUME NEW i \in 1..N, NEW j \in 1..N, Rank(q, i) = Rank(q, j) PROVE i = j
  <2>1. Precede(q, i, j) \/ Precede(q, j, i)
    <3>1. q[i] \in Nat /\ q[j] \in Nat /\ i \in Nat /\ j \in Nat
      BY <1>1
    <3> QED BY ONLY <3>1 DEF Precede
  <2>2. i # j => Rank(q, i) < Rank(q, j) \/ Rank(q, j) < Rank(q, i)
    BY <2>1, RanksDiffer
  <2> QED BY <1>1, <1>2, <2>2
<1>3. f \in Injection(1..N, 1..N)
  BY <1>1, <1>2 DEF Injection, IsInjective
<1>4. IsFiniteSet(1..N)
  BY <1>1, FS_Interval
<1>5. f \in Surjection(1..N, 1..N)
  BY <1>3, <1>4, FS_Injection
<1> QED BY <1>2, <1>5 DEF Surjection

(* Ordered sorts: the elements are the same ones, as often as before, and   *)
(* they ascend.                                                             *)
LEMMA OrderedSorts ==
  ASSUME NEW S \in SUBSET Nat, NEW q \in Seq(S)
  PROVE  /\ Ordered(q) \in Seq(S) /\ Len(Ordered(q)) = Len(q)
         /\ Elems(Ordered(q)) = Elems(q)
         /\ Distinct(q) => Distinct(Ordered(q))
         /\ \A m, n \in 1..Len(q) : m <= n => Ordered(q)[m] <= Ordered(q)[n]
<1> DEFINE N == Len(q)
           P(n) == CHOOSE i \in 1..N : Rank(q, i) = n
<1> HIDE DEF P
<1>1. q \in Seq(Nat) /\ N \in Nat /\ DOMAIN q = 1..N /\ \A i \in 1..N : q[i] \in S
  <2>1. N \in Nat /\ DOMAIN q = 1..N /\ \A i \in 1..N : q[i] \in S
    BY LenProperties, ElementOfSeq
  <2> QED BY <2>1, SeqMonotonic
<1>2. \A n \in 1..N : P(n) \in 1..N /\ Rank(q, P(n)) = n
  BY <1>1, EachRankOnce DEF P
<1>3. \A i \in 1..N : Rank(q, i) \in 1..N /\ P(Rank(q, i)) = i
  <2>1. \A i \in 1..N : Rank(q, i) \in 1..N
    BY <1>1, RanksDiffer
  <2>2. \A i, j \in 1..N : Rank(q, i) = Rank(q, j) => i = j
    BY <1>1, EachRankOnce
  <2> QED BY <1>2, <2>1, <2>2
<1>4. DOMAIN Ordered(q) = 1..N /\ \A n \in 1..N : Ordered(q)[n] = q[P(n)]
  BY <1>1 DEF Ordered, P
<1>5. Ordered(q) = [n \in 1..N |-> q[P(n)]]
  BY <1>1 DEF Ordered, P
<1>6. Ordered(q) \in Seq(S) /\ Len(Ordered(q)) = N
  <2>1. [n \in 1..N |-> q[P(n)]] \in Seq(S)
    BY <1>1, <1>2, IsASeq
  <2> QED BY <1>1, <1>5, <2>1, LenProperties
<1>7. Elems(Ordered(q)) = Elems(q)
  <2>1. Elems(Ordered(q)) = {q[P(n)] : n \in 1..N}
    BY <1>4, <1>6 DEF Elems
  <2> QED BY <1>2, <1>3, <2>1 DEF Elems
<1>8. ASSUME Distinct(q) PROVE Distinct(Ordered(q))
  <2> SUFFICES ASSUME NEW m \in 1..N, NEW n \in 1..N, Ordered(q)[m] = Ordered(q)[n] PROVE m = n
    BY <1>6 DEF Distinct
  <2>1. q[P(m)] = q[P(n)]
    BY <1>4
  <2>2. P(m) = P(n)
    BY <1>2, <1>8, <2>1 DEF Distinct
  <2> QED BY <1>2, <2>2
<1>9. ASSUME NEW m \in 1..N, NEW n \in 1..N, m <= n PROVE Ordered(q)[m] <= Ordered(q)[n]
  <2>1. q[P(m)] \in Nat /\ q[P(n)] \in Nat /\ P(m) \in 1..N /\ P(n) \in 1..N
    BY <1>1, <1>2
  <2>2. CASE q[P(n)] < q[P(m)]
    <3>1. Precede(q, P(n), P(m)) /\ P(n) # P(m)
      BY <2>1, <2>2 DEF Precede
    <3>2. Rank(q, P(n)) < Rank(q, P(m))
      BY <1>1, <2>1, <3>1, RanksDiffer
    <3>3. n < m
      BY <1>2, <3>2
    <3> QED BY <1>1, <1>9, <3>3
  <2>3. CASE q[P(m)] <= q[P(n)]
    BY <1>4, <2>3
  <2> QED BY <2>1, <2>2, <2>3
<1> QED BY <1>6, <1>7, <1>8, <1>9

LEMMA SetListed ==
  ASSUME NEW S, IsFiniteSet(S)
  PROVE  LET q == SetToSeq(S) IN q \in Seq(S) /\ Elems(q) = S /\ Distinct(q)
<1> DEFINE N == Cardinality(S)
<1>1. N \in Nat /\ \E f : f \in Bijection(1..N, S)
  BY FS_CardinalityType DEF ExistsBijection
<1>2. PICK f : f \in Bijection(1..N, S)
  BY <1>1
<1>3. f \in [1..N -> S] /\ \A a, b \in 1..N : f[a] = f[b] => a = b
  BY <1>2 DEF Bijection, Injection, IsInjective
<1> DEFINE q == SetToSeq(S)
<1>4. q \in [1..N -> S] /\ \A a, b \in 1..N : q[a] = q[b] => a = b
  <2>1. \E g \in [1..N -> S] : IsInjective(g)
    BY <1>3 DEF IsInjective
  <2>2. q = CHOOSE g \in [1..N -> S] : IsInjective(g)
    BY DEF SetToSeq
  <2>3. q \in [1..N -> S] /\ IsInjective(q)
    BY <2>1, <2>2
  <2> QED BY <2>3 DEF IsInjective
<1> HIDE DEF q
<1>5. q \in Seq(S) /\ Len(q) = N
  BY <1>1, <1>4, LenProperties
<1>6. q \in Injection(1..N, S)
  BY <1>4 DEF Injection, IsInjective
<1>7. q \in Surjection(1..N, S)
  <2>1. IsFiniteSet(1..N) /\ Cardinality(1..N) = N
    BY <1>1, FS_Interval
  <2> HIDE DEF N
  <2> QED BY <1>6, <2>1, FS_Injection DEF N
<1>8. Elems(q) = S
  <2>1. \A t \in S : \E s \in 1..N : q[s] = t
    BY <1>7 DEF Surjection
  <2>2. Elems(q) = {q[i] : i \in 1..N}
    BY <1>5 DEF Elems
  <2>3. \A i \in 1..N : q[i] \in S
    BY <1>4
  <2>4. Elems(q) \subseteq S
    BY ONLY <2>2, <2>3
  <2>5. S \subseteq Elems(q)
    BY ONLY <2>1, <2>2
  <2> QED BY ONLY <2>4, <2>5
<1>9. Distinct(q)
  BY <1>4, <1>5 DEF Distinct
<1> QED BY <1>5, <1>8, <1>9 DEF q

LEMMA SortedLists ==
  ASSUME NEW S \in SUBSET Nat, IsFiniteSet(S)
  PROVE  Sorted(S) \in Seq(S) /\ Elems(Sorted(S)) = S /\ Distinct(Sorted(S))
BY SetListed, OrderedSorts DEF Sorted

LEMMA AppendDistinct ==
  ASSUME NEW T, NEW q \in Seq(T), NEW x \in T, Distinct(q), x \notin Elems(q)
  PROVE  Distinct(Append(q, x))
<1>1. /\ Len(Append(q, x)) = Len(q) + 1 /\ Len(q) \in Nat
      /\ \A i \in 1..Len(q) : Append(q, x)[i] = q[i] /\ q[i] # x
      /\ Append(q, x)[Len(q) + 1] = x
  BY AppendProperties, LenProperties DEF Elems
<1>2. \A i \in 1..(Len(q) + 1) : i \in 1..Len(q) \/ i = Len(q) + 1
  BY <1>1
<1> QED BY <1>1, <1>2 DEF Distinct

LEMMA AppendReadable ==
  ASSUME NEW T, NEW q \in Seq(T), NEW x \in T
  PROVE  /\ CleanNamed(q) \subseteq CleanNamed(Append(q, x))
         /\ x.clean => x.segment \in CleanNamed(Append(q, x))
<1>1. /\ Len(Append(q, x)) = Len(q) + 1 /\ Len(q) \in Nat
      /\ \A i \in 1..Len(q) : i \in 1..(Len(q) + 1) /\ Append(q, x)[i] = q[i]
      /\ Append(q, x)[Len(q) + 1] = x /\ Len(q) + 1 \in 1..(Len(q) + 1)
  BY AppendProperties, LenProperties
<1> QED BY <1>1 DEF CleanNamed

LEMMA TailReadable ==
  ASSUME NEW T, NEW q \in Seq(T), q # <<>>
  PROVE  /\ CleanNamed(q) \subseteq CleanNamed(Tail(q)) \union {Head(q).segment}
         /\ ~Head(q).clean => CleanNamed(q) \subseteq CleanNamed(Tail(q))
<1>1. /\ Len(q) \in Nat \ {0} /\ Len(Tail(q)) = Len(q) - 1 /\ Head(q) = q[1]
      /\ \A i \in 1..Len(Tail(q)) : Tail(q)[i] = q[i + 1]
  BY HeadTailProperties, LenProperties, EmptySeq
<1>2. \A i \in 1..Len(q) : i = 1 \/ (i - 1 \in 1..Len(Tail(q)) /\ q[i] = Tail(q)[i - 1])
  BY <1>1
<1> QED BY <1>1, <1>2 DEF CleanNamed

LEMMA TailOfOne ==
  ASSUME NEW T, NEW q \in Seq(T), q # <<>>, Len(q) = 1
  PROVE  Tail(q) = <<>>
<1> DEFINE t == Tail(q)
<1>1. t \in Seq(T) /\ Len(t) = Len(q) - 1
  BY HeadTailProperties
<1> HIDE DEF t
<1>2. t # <<>> => Len(t) # 0
  BY <1>1, EmptySeq
<1> QED BY <1>1, <1>2 DEF t

LEMMA InitOwners == Init => OwnerInv /\ EmptyHanded
<1> SUFFICES ASSUME Init PROVE OwnerInv /\ EmptyHanded
  OBVIOUS
<1>2. OwnerTypes
  BY EmptySeq, FilesAreSegments DEF Init, ChannelInit, SpoolInit, Idle, OwnerTypes, Stations
<1>3. /\ Publishing = {} /\ Dangling = {} /\ OnWire = {} /\ InInbox = {} /\ InBatch = {}
      /\ InQueue = {} /\ AtWork = {} /\ copied = {}
  BY EmptySeq DEF Init, ChannelInit, Publishing, Dangling, OnWire, InInbox, InBatch,
     InQueue, AtWork, Elems, Named
<1>4. Once(wire) /\ Once(inbox) /\ Distinct(capture.batch)
  BY EmptySeq DEF Init, ChannelInit, Once, Distinct
<1>5. OneOwner
  BY <1>3, <1>4 DEF OneOwner, Init
<1>6. EmptyHanded
  BY DEF Init, EmptyHanded
<1>7. OwnedIsMade /\ OwnedIsLive /\ CopiedIsGone
  BY <1>3 DEF OwnedIsMade, OwnedIsLive, CopiedIsGone, Downstream
<1> QED BY <1>2, <1>5, <1>6, <1>7 DEF OwnerInv

-----------------------------------------------------------------------------
(* Steps that leave every segment with its owner. *)
owners == <<segment, publishing, dangling, wire, inbox, queued, working, copied, idx>>

LEMMA OwnersStay ==
  ASSUME OwnerInv, UNCHANGED owners, call'.at = "off",
         recorder = "down" => recorder' = "down",
         capture' \in [at : Stations, batch : {capture.batch}, rounds : Nat]
  PROVE  OwnerInv' /\ MovesOn
<1>1. UNCHANGED <<Publishing, Dangling, OnWire, Readable, InInbox, InQueue, AtWork, Made, Live>>
  BY DEF owners, Publishing, Dangling, OnWire, Readable, InInbox, InQueue, AtWork, Made, Live
<1>2. capture'.batch = capture.batch /\ InBatch' = InBatch
  BY DEF InBatch
<1>3. OwnerTypes'
  BY <1>2 DEF OwnerInv, OwnerTypes, owners
<1>4. OneOwner'
  BY <1>1, <1>2 DEF OwnerInv, OneOwner, owners
<1>5. OwnedIsMade' /\ OwnedIsLive' /\ CopiedIsGone'
  BY <1>1, <1>2 DEF OwnerInv, OwnedIsMade, OwnedIsLive, CopiedIsGone, Downstream, owners
<1>6. MovesOn
  BY <1>1, <1>2 DEF MovesOn, Downstream, Orphans, InCare
<1> QED BY <1>3, <1>4, <1>5, <1>6 DEF OwnerInv

LEMMA NothingMoves ==
  ASSUME OwnerInv, UNCHANGED <<owners, call, capture>>, recorder = "down" => recorder' = "down"
  PROVE  OwnerInv' /\ MovesOn
<1>1. call'.at = "off" /\ capture' \in [at : Stations, batch : {capture.batch}, rounds : Nat]
  BY DEF OwnerInv, OwnerTypes
<1> QED BY <1>1, OwnersStay

LEMMA MakeKeeps == OwnerInv /\ BeginPublish => OwnerInv' /\ MovesOn
<1> SUFFICES ASSUME OwnerInv, BeginPublish PROVE OwnerInv' /\ MovesOn
  OBVIOUS
<1>1. /\ frame \in Segments /\ publishing = NoSegment /\ segment[frame] = "unmade"
      /\ segment' = [segment EXCEPT ![frame] = "live"] /\ publishing' = frame
      /\ UNCHANGED <<dangling, wire, inbox, queued, working, copied, idx, call, capture, recorder>>
  BY DEF BeginPublish, MakeSegment, supplyVars, clientVars, recorderVars, spoolVars
<1>2. Publishing' = {frame} /\ Made' = Made \union {frame} /\ Live' = Live \union {frame}
  BY <1>1, SegmentsAssumption DEF Publishing, Made, Live, OwnerInv, OwnerTypes
<1>3. UNCHANGED <<Dangling, OnWire, Readable, InInbox, InBatch, InQueue, AtWork>>
  BY <1>1 DEF Dangling, OnWire, Readable, InInbox, InBatch, InQueue, AtWork
<1>4. frame \notin Made /\ Live \subseteq Made /\ Publishing = {}
  BY <1>1 DEF Made, Live, Publishing
<1>5. OwnerTypes'
  BY <1>1 DEF OwnerInv, OwnerTypes
<1>6. OneOwner'
  BY <1>1, <1>2, <1>3, <1>4 DEF OwnerInv, OneOwner, OwnedIsMade, Downstream
<1>7. OwnedIsMade' /\ OwnedIsLive' /\ CopiedIsGone'
  BY <1>1, <1>2, <1>3, <1>4
     DEF OwnerInv, OwnedIsMade, OwnedIsLive, CopiedIsGone, Downstream
<1>8. MovesOn
  BY <1>2, <1>3, <1>4 DEF MovesOn, Downstream, Orphans, InCare
<1> QED BY <1>5, <1>6, <1>7, <1>8 DEF OwnerInv

(* A published line hands its segment on, unless the rest of a torn one     *)
(* before it spoils it.                                                     *)
LEMMA PublishKeeps ==
  OwnerInv /\ Published =>
    /\ OwnerInv' /\ publishing \in Segments
    /\ Downstream' \subseteq Downstream \union {publishing}
    /\ ~torn => Orphans' \subseteq Orphans
    /\ Orphans' \subseteq Orphans \union {publishing}
<1> SUFFICES ASSUME OwnerInv, Published
             PROVE  /\ OwnerInv' /\ publishing \in Segments
                    /\ Downstream' \subseteq Downstream \union {publishing}
                    /\ ~torn => Orphans' \subseteq Orphans
                    /\ Orphans' \subseteq Orphans \union {publishing}
  OBVIOUS
<1> DEFINE line == [segment |-> publishing, stem |-> idx, clean |-> ~torn]
<1>1. /\ publishing # NoSegment /\ publishing' = NoSegment /\ idx' = idx + 1
      /\ wire' = Append(wire, line)
      /\ UNCHANGED <<segment, dangling, inbox, queued, working, copied, call, capture, recorder>>
  BY DEF Published, SendLine, Kept, clientVars, spoolVars
<1>2. line \in Lines /\ line.segment = publishing /\ publishing \in Segments
      /\ (~torn => line.clean)
  BY <1>1 DEF OwnerInv, OwnerTypes, Lines
<1> HIDE DEF line
<1>3. Publishing = {publishing} /\ Publishing' = {} /\ publishing \notin OnWire
  BY <1>1 DEF Publishing, OwnerInv, OneOwner
<1>4. /\ wire' \in Seq(Lines) /\ OnWire' = OnWire \union {publishing} /\ Once(wire')
      /\ Readable \subseteq Readable' /\ (~torn => publishing \in Readable')
  <2>1. wire \in Seq(Lines)
    BY DEF OwnerInv, OwnerTypes
  <2>2. /\ wire' \in Seq(Lines) /\ Named(wire') = Named(wire) \union {publishing}
        /\ (Once(wire) /\ publishing \notin Named(wire) => Once(wire'))
    BY <1>1, <1>2, <2>1, AppendElems
  <2>3. CleanNamed(wire) \subseteq CleanNamed(wire') /\ (~torn => publishing \in CleanNamed(wire'))
    BY <1>1, <1>2, <2>1, AppendReadable
  <2>4. OnWire = Named(wire) /\ OnWire' = Named(wire') /\ Readable = CleanNamed(wire)
        /\ Readable' = CleanNamed(wire') /\ Once(wire)
    BY DEF OnWire, Readable, Named, CleanNamed, OwnerInv, OneOwner
  <2> QED BY <1>3, <2>2, <2>3, <2>4
<1>5. UNCHANGED <<Dangling, InInbox, InBatch, InQueue, AtWork, Made, Live>>
  BY <1>1 DEF Dangling, InInbox, InBatch, InQueue, AtWork, Made, Live
<1>6. OwnerTypes'
  BY <1>1, <1>4 DEF OwnerInv, OwnerTypes
<1>7. OneOwner'
  BY <1>1, <1>3, <1>4, <1>5 DEF OwnerInv, OneOwner
<1>8. OwnedIsMade' /\ OwnedIsLive' /\ CopiedIsGone'
  BY <1>1, <1>3, <1>4, <1>5
     DEF OwnerInv, OwnedIsMade, OwnedIsLive, CopiedIsGone, Downstream
<1>9. /\ Downstream' \subseteq Downstream \union {publishing}
      /\ ~torn => Orphans' \subseteq Orphans
      /\ Orphans' \subseteq Orphans \union {publishing}
  BY <1>3, <1>4, <1>5 DEF Downstream, Orphans, InCare
<1> QED BY <1>2, <1>6, <1>7, <1>8, <1>9 DEF OwnerInv

(* A publication that fails: its segment goes at once or to the janitor.    *)
LEMMA FailureKeeps == OwnerInv /\ PublishFailed => OwnerInv' /\ MovesOn
<1> SUFFICES ASSUME OwnerInv, PublishFailed PROVE OwnerInv' /\ MovesOn
  OBVIOUS
<1>1. /\ publishing # NoSegment /\ publishing' = NoSegment
      /\ \/ segment' = [segment EXCEPT ![publishing] = "gone"] /\ UNCHANGED dangling
         \/ dangling' = Append(dangling, publishing) /\ UNCHANGED segment
      /\ UNCHANGED <<wire, inbox, queued, working, copied, idx, call, capture, recorder>>
  BY DEF PublishFailed, RefuseLine, TearLine, ScheduleUnlink, TryUnlink, clientVars, spoolVars
<1>2. publishing \in Segments /\ Publishing = {publishing} /\ Publishing' = {}
  BY <1>1 DEF OwnerInv, OwnerTypes, Publishing
<1>3. /\ dangling' \in Seq(Segments) /\ Dangling \subseteq Dangling'
      /\ Dangling' \subseteq Dangling \union {publishing}
      /\ segment' = segment => publishing \in Dangling' \/ publishing \notin Live'
  <2>1. dangling \in Seq(Segments) /\ Dangling = Elems(dangling) /\ Dangling' = Elems(dangling')
    BY DEF OwnerInv, OwnerTypes, Dangling, Elems
  <2>2. /\ Append(dangling, publishing) \in Seq(Segments)
        /\ Elems(Append(dangling, publishing)) = Elems(dangling) \union {publishing}
    BY <1>2, <2>1, AppendElems
  <2>3. CASE dangling' = Append(dangling, publishing)
    BY <2>1, <2>2, <2>3
  <2>4. CASE segment' = [segment EXCEPT ![publishing] = "gone"] /\ dangling' = dangling
    <3>1. publishing \notin Live'
      BY <1>2, <2>4 DEF Live, OwnerInv, OwnerTypes
    <3> QED BY <2>1, <2>4, <3>1
  <2> QED BY <1>1, <2>3, <2>4
<1>4. /\ segment' \in [Segments -> {"unmade", "live", "gone"}]
      /\ Made \subseteq Made' /\ Live \ {publishing} \subseteq Live' /\ Live' \subseteq Live
      /\ segment' # segment => publishing \notin Live'
  BY <1>1, <1>2 DEF OwnerInv, OwnerTypes, Made, Live
<1>5. UNCHANGED <<OnWire, Readable, InInbox, InBatch, InQueue, AtWork>>
  BY <1>1 DEF OnWire, Readable, InInbox, InBatch, InQueue, AtWork
<1>6. OwnerTypes'
  BY <1>1, <1>3, <1>4 DEF OwnerInv, OwnerTypes
<1>7. publishing \in Made
  BY <1>2 DEF OwnerInv, OwnedIsMade
<1>8. OneOwner'
  BY <1>1, <1>2, <1>3, <1>5 DEF OwnerInv, OneOwner
<1>9. OwnedIsMade' /\ OwnedIsLive' /\ CopiedIsGone'
  <2>1. OwnedIsMade' /\ CopiedIsGone'
    BY <1>1, <1>2, <1>3, <1>4, <1>5, <1>7 DEF OwnerInv, OwnedIsMade, CopiedIsGone, Downstream
  <2>2. OwnedIsLive'
    BY <1>1, <1>2, <1>4, <1>5 DEF OwnerInv, OwnedIsLive, OneOwner
  <2> QED BY <2>1, <2>2
<1>10. MovesOn
  BY <1>2, <1>3, <1>4, <1>5 DEF MovesOn, Downstream, Orphans, InCare
<1> QED BY <1>6, <1>8, <1>9, <1>10 DEF OwnerInv

LEMMA JanitorKeeps ==
  ASSUME OwnerInv, JanitorTurn, UNCHANGED <<spoolVars, supplyVars>>
  PROVE  OwnerInv' /\ MovesOn
<1> DEFINE s == Head(dangling)
           t == Tail(dangling)
<1>1. /\ dangling # <<>>
      /\ \/ dangling' = t /\ segment' = [segment EXCEPT ![s] = "gone"]
         \/ dangling' = Append(t, s) /\ segment' = segment
      /\ UNCHANGED <<publishing, wire, inbox, queued, working, copied, idx, call, capture, recorder>>
  BY DEF JanitorTurn, Requeued, supplyVars, clientVars, recorderVars, spoolVars
<1>2. t \in Seq(Segments) /\ s \in Segments /\ Dangling = Elems(t) \union {s}
  BY <1>1, TailElems DEF OwnerInv, OwnerTypes, Dangling
<1> HIDE DEF s, t
<1>3. /\ dangling' \in Seq(Segments) /\ Dangling' \subseteq Dangling
      /\ Dangling \ {s} \subseteq Dangling'
      /\ segment' = segment => s \in Dangling' \/ s \notin Live'
  <2>1. Append(t, s) \in Seq(Segments) /\ Elems(Append(t, s)) = Elems(t) \union {s}
    BY <1>2, AppendElems
  <2>2. Dangling' = Elems(dangling')
    BY DEF Dangling, Elems
  <2>3. segment' = [segment EXCEPT ![s] = "gone"] => s \notin Live'
    BY <1>2 DEF Live, OwnerInv, OwnerTypes
  <2> QED BY <1>1, <1>2, <2>1, <2>2, <2>3
<1>4. /\ segment' \in [Segments -> {"unmade", "live", "gone"}]
      /\ Made \subseteq Made' /\ Live \ {s} \subseteq Live' /\ Live' \subseteq Live
      /\ segment' # segment => s \notin Live'
  BY <1>1, <1>2 DEF OwnerInv, OwnerTypes, Made, Live
<1>5. UNCHANGED <<Publishing, OnWire, Readable, InInbox, InBatch, InQueue, AtWork>>
  BY <1>1 DEF Publishing, OnWire, Readable, InInbox, InBatch, InQueue, AtWork
<1>6. OwnerTypes'
  BY <1>1, <1>3, <1>4 DEF OwnerInv, OwnerTypes
<1>7. OneOwner'
  BY <1>1, <1>3, <1>5 DEF OwnerInv, OneOwner
<1>8. OwnedIsMade' /\ OwnedIsLive' /\ CopiedIsGone'
  <2>1. OwnedIsMade' /\ CopiedIsGone'
    BY <1>1, <1>3, <1>4, <1>5 DEF OwnerInv, OwnedIsMade, CopiedIsGone, Downstream
  <2>2. OwnedIsLive'
    BY <1>1, <1>2, <1>4, <1>5 DEF OwnerInv, OwnedIsLive, OneOwner
  <2> QED BY <2>1, <2>2
<1>9. MovesOn
  BY <1>3, <1>4, <1>5 DEF MovesOn, Downstream, Orphans, InCare
<1> QED BY <1>6, <1>7, <1>8, <1>9 DEF OwnerInv

LEMMA ReadKeeps ==
  ASSUME OwnerInv, ReadLine, UNCHANGED <<spoolVars, supplyVars>>
  PROVE  OwnerInv' /\ MovesOn
<1> DEFINE s == Head(wire).segment
           d == [segment |-> s, stem |-> Head(wire).stem]
<1>1. /\ wire # <<>> /\ wire' = Tail(wire)
      /\ \/ inbox' = Append(inbox, d)
         \/ inbox' = inbox /\ ~Head(wire).clean
      /\ UNCHANGED <<segment, publishing, dangling, queued, working, copied, idx, call,
                     capture, recorder>>
  BY DEF ReadLine, supplyVars, clientVars, recorderVars, spoolVars
<1>2. /\ wire' \in Seq(Lines) /\ Head(wire) \in Lines
      /\ OnWire = OnWire' \union {s} /\ s \notin OnWire' /\ Once(wire')
      /\ Readable \subseteq Readable' \union {s}
      /\ ~Head(wire).clean => Readable \subseteq Readable'
  <2>1. wire \in Seq(Lines) /\ Once(wire)
    BY DEF OwnerInv, OwnerTypes, OneOwner
  <2>2. /\ Readable = CleanNamed(wire) /\ Readable' = CleanNamed(wire')
        /\ OnWire = Named(wire) /\ OnWire' = Named(wire')
    BY DEF Readable, CleanNamed, OnWire, Named
  <2>3. /\ wire' \in Seq(Lines) /\ Head(wire) \in Lines
        /\ Named(wire) = Named(wire') \union {s} /\ s \notin Named(wire') /\ Once(wire')
    BY <1>1, <2>1, TailElems
  <2>4. /\ CleanNamed(wire) \subseteq CleanNamed(wire') \union {s}
        /\ ~Head(wire).clean => CleanNamed(wire) \subseteq CleanNamed(wire')
    BY <1>1, <2>1, TailReadable
  <2> HIDE DEF s
  <2> QED BY <2>2, <2>3, <2>4
<1>3. d \in Descriptors /\ d.segment = s /\ s \notin InInbox
  BY <1>2 DEF Lines, Descriptors, OwnerInv, OneOwner
<1> HIDE DEF d, s
<1>4. /\ inbox' \in Seq(Descriptors) /\ InInbox' \subseteq InInbox \union {s} /\ Once(inbox')
      /\ InInbox \subseteq InInbox' /\ (s \in InInbox' \/ ~Head(wire).clean)
  <2>1. /\ inbox \in Seq(Descriptors) /\ Once(inbox)
        /\ InInbox = Named(inbox) /\ InInbox' = Named(inbox')
    BY DEF OwnerInv, OwnerTypes, OneOwner, InInbox, Named
  <2>2. /\ Append(inbox, d) \in Seq(Descriptors)
        /\ Named(Append(inbox, d)) = Named(inbox) \union {d.segment}
        /\ Once(Append(inbox, d))
    BY <1>3, <2>1, AppendElems
  <2> QED BY <1>1, <1>3, <2>1, <2>2
<1>5. UNCHANGED <<Publishing, Dangling, InBatch, InQueue, AtWork, Made, Live>>
  BY <1>1 DEF Publishing, Dangling, InBatch, InQueue, AtWork, Made, Live
<1>6. OwnerTypes'
  BY <1>1, <1>2, <1>4 DEF OwnerInv, OwnerTypes
<1>7. OneOwner'
  BY <1>1, <1>2, <1>4, <1>5 DEF OwnerInv, OneOwner
<1>8. OwnedIsMade' /\ OwnedIsLive' /\ CopiedIsGone'
  BY <1>1, <1>2, <1>4, <1>5
     DEF OwnerInv, OwnedIsMade, OwnedIsLive, CopiedIsGone, Downstream
<1>9. MovesOn
  BY <1>2, <1>4, <1>5 DEF MovesOn, Downstream, Orphans, InCare
<1> QED BY <1>6, <1>7, <1>8, <1>9 DEF OwnerInv

(* The caller of get_batch gets the segments of all descriptors there are.  *)
LEMMA GetKeeps == OwnerInv /\ GetBatch /\ capture.batch = <<>> => OwnerInv' /\ MovesOn
<1> SUFFICES ASSUME OwnerInv, GetBatch, capture.batch = <<>> PROVE OwnerInv' /\ MovesOn
  OBVIOUS
<1> DEFINE b == [i \in 1..Len(inbox) |-> inbox[i].segment]
<1>1. inbox \in Seq(Descriptors) /\ Len(inbox) \in Nat /\ DOMAIN inbox = 1..Len(inbox)
  BY LenProperties DEF OwnerInv, OwnerTypes
<1>2. [i \in DOMAIN inbox |-> inbox[i].segment] = b
  BY <1>1
<1>3. \A i \in 1..Len(inbox) : inbox[i].segment \in Files
  <2>1. \A i \in 1..Len(inbox) : inbox[i] \in Descriptors
    BY <1>1
  <2>2. \A d \in Descriptors : d.segment \in Files
    BY FilesAreSegments DEF Descriptors
  <2> QED BY <2>1, <2>2
<1>4. b \in Seq(Files) /\ Len(b) = Len(inbox) /\ \A i \in 1..Len(inbox) : b[i] = inbox[i].segment
  BY <1>1, <1>3, IsASeq, LenProperties
<1> HIDE DEF b
<1>5. /\ inbox' = <<>> /\ capture' = [capture EXCEPT !.at = "got", !.batch = b]
      /\ UNCHANGED <<segment, publishing, dangling, wire, queued, working, copied, idx, call,
                     recorder>>
  BY <1>2 DEF GetBatch, TakeInbox, spoolVars, recorderVars
<1>6. Elems(b) = InInbox /\ Distinct(b)
  BY <1>4 DEF Elems, InInbox, Named, Distinct, Once, OwnerInv, OneOwner
<1>7. capture' \in [at : Stations, batch : Seq(Files), rounds : Nat] /\ capture'.batch = b
  BY <1>5, <1>4 DEF OwnerInv, OwnerTypes, Stations
<1>8. InBatch' = InInbox /\ Distinct(capture.batch)' /\ InBatch = {}
  BY <1>6, <1>7, EmptySeq DEF InBatch, Elems, Distinct
<1>9. InInbox' = {} /\ Once(inbox)' /\ inbox' \in Seq(Descriptors)
  BY <1>5, EmptySeq DEF InInbox, Named, Once
<1>10. UNCHANGED <<Publishing, Dangling, OnWire, Readable, InQueue, AtWork, Made, Live>>
  BY <1>5 DEF Publishing, Dangling, OnWire, Readable, InQueue, AtWork, Made, Live
<1>11. OwnerTypes'
  BY <1>5, <1>7, <1>9 DEF OwnerInv, OwnerTypes
<1>12. OneOwner'
  BY <1>5, <1>8, <1>9, <1>10 DEF OwnerInv, OneOwner
<1>13. OwnedIsMade' /\ OwnedIsLive' /\ CopiedIsGone'
  BY <1>5, <1>8, <1>9, <1>10
     DEF OwnerInv, OwnedIsMade, OwnedIsLive, CopiedIsGone, Downstream
<1>14. MovesOn
  BY <1>8, <1>9, <1>10 DEF MovesOn, Downstream, Orphans, InCare
<1> QED BY <1>11, <1>12, <1>13, <1>14 DEF OwnerInv

(* What is left of the batch is dropped when the client stops. *)
LEMMA DropKeeps ==
  ASSUME OwnerInv, UNCHANGED <<owners, recorder>>, call'.at = "off",
         capture' \in [at : Stations, batch : {<<>>}, rounds : Nat]
  PROVE  OwnerInv' /\ Downstream' \subseteq Downstream
<1>1. UNCHANGED <<Publishing, Dangling, OnWire, InInbox, InQueue, AtWork, Made, Live>>
  BY DEF owners, Publishing, Dangling, OnWire, InInbox, InQueue, AtWork, Made, Live
<1>2. capture'.batch = <<>> /\ InBatch' = {} /\ Distinct(capture.batch)'
  BY EmptySeq DEF InBatch, Elems, Distinct
<1>3. OwnerTypes'
  BY <1>2, EmptySeq DEF OwnerInv, OwnerTypes, owners
<1>4. OneOwner'
  BY <1>1, <1>2 DEF OwnerInv, OneOwner, owners
<1>5. OwnedIsMade' /\ OwnedIsLive' /\ CopiedIsGone'
  BY <1>1, <1>2 DEF OwnerInv, OwnedIsMade, OwnedIsLive, CopiedIsGone, Downstream, owners
<1> QED BY <1>1, <1>2, <1>3, <1>4, <1>5 DEF OwnerInv, Downstream

LEMMA PutKeeps == OwnerInv /\ PutHandle => OwnerInv' /\ MovesOn
<1> SUFFICES ASSUME OwnerInv, PutHandle PROVE OwnerInv' /\ MovesOn
  OBVIOUS
<1> DEFINE h == Head(capture.batch)
           t == Tail(capture.batch)
<1>1. /\ capture.batch # <<>> /\ queued' = [queued EXCEPT ![h] = @ + 1]
      /\ capture'.batch = t /\ capture' \in [at : Stations, batch : {t}, rounds : Nat]
      /\ UNCHANGED <<segment, publishing, dangling, wire, inbox, working, copied, idx, call,
                     recorder>>
  BY DEF PutHandle, spoolVars, channelVars, recorderVars, OwnerInv, OwnerTypes, Stations
<1>2. /\ t \in Seq(Files) /\ h \in Files /\ InBatch = Elems(t) \union {h}
      /\ Distinct(t) /\ h \notin Elems(t)
  BY <1>1, TailElems DEF OwnerInv, OwnerTypes, OneOwner, InBatch
<1> HIDE DEF h, t
<1>3. h \notin InQueue /\ h \notin AtWork /\ h \notin copied /\ h \in Made
  BY <1>2 DEF OwnerInv, OneOwner, OwnedIsMade, Downstream
<1>4. queued[h] = 0
  BY <1>2, <1>3 DEF InQueue, OwnerInv, OwnerTypes
<1>5. /\ queued' \in [Files -> Nat] /\ \A g \in Files : queued'[g] <= 1
      /\ InQueue' = InQueue \union {h}
  BY <1>1, <1>2, <1>4 DEF InQueue, OwnerInv, OwnerTypes, OneOwner
<1>6. InBatch' = Elems(t) /\ Distinct(capture.batch)'
  BY <1>1, <1>2 DEF InBatch, Elems, Distinct
<1>7. UNCHANGED <<Publishing, Dangling, OnWire, Readable, InInbox, AtWork, Made, Live>>
  BY <1>1 DEF Publishing, Dangling, OnWire, Readable, InInbox, AtWork, Made, Live
<1>8. OwnerTypes'
  BY <1>1, <1>2, <1>5 DEF OwnerInv, OwnerTypes
<1>9. OneOwner'
  BY <1>1, <1>2, <1>3, <1>5, <1>6, <1>7 DEF OwnerInv, OneOwner
<1>10. OwnedIsMade' /\ OwnedIsLive' /\ CopiedIsGone'
  BY <1>1, <1>2, <1>5, <1>6, <1>7
     DEF OwnerInv, OwnedIsMade, OwnedIsLive, CopiedIsGone, Downstream
<1>11. MovesOn
  BY <1>2, <1>5, <1>6, <1>7 DEF MovesOn, Downstream, Orphans, InCare
<1> QED BY <1>8, <1>9, <1>10, <1>11 DEF OwnerInv

LEMMA TakeKeeps ==
  ASSUME NEW h \in Files, OwnerInv, Take(h)
  PROVE  OwnerInv' /\ MovesOn
<1>1. /\ queued[h] > 0 /\ queued' = [queued EXCEPT ![h] = @ - 1]
      /\ working' = [working EXCEPT ![h] = @ + 1]
      /\ UNCHANGED <<segment, publishing, dangling, wire, inbox, copied, idx, call, capture,
                     recorder>>
  BY DEF Take, spoolVars, channelVars, recorderVars
<1>2. h \in InQueue /\ h \notin AtWork /\ h \notin copied
  BY <1>1 DEF InQueue, OwnerInv, OneOwner
<1>3. queued[h] = 1 /\ working[h] = 0
  BY <1>1, <1>2 DEF AtWork, OwnerInv, OwnerTypes, OneOwner
<1>4. /\ queued' \in [Files -> Nat] /\ working' \in [Files -> Nat]
      /\ \A g \in Files : queued'[g] <= 1 /\ working'[g] <= 1
      /\ InQueue' = InQueue \ {h} /\ AtWork' = AtWork \union {h}
  BY <1>1, <1>3 DEF InQueue, AtWork, OwnerInv, OwnerTypes, OneOwner
<1>5. UNCHANGED <<Publishing, Dangling, OnWire, Readable, InInbox, InBatch, Made, Live>>
  BY <1>1 DEF Publishing, Dangling, OnWire, Readable, InInbox, InBatch, Made, Live
<1>6. OwnerTypes'
  BY <1>1, <1>4 DEF OwnerInv, OwnerTypes
<1>7. OneOwner'
  BY <1>1, <1>2, <1>4, <1>5 DEF OwnerInv, OneOwner
<1>8. OwnedIsMade' /\ OwnedIsLive' /\ CopiedIsGone'
  BY <1>1, <1>2, <1>4, <1>5
     DEF OwnerInv, OwnedIsMade, OwnedIsLive, CopiedIsGone, Downstream
<1>9. MovesOn
  BY <1>2, <1>4, <1>5 DEF MovesOn, Downstream, Orphans, InCare
<1> QED BY <1>6, <1>7, <1>8, <1>9 DEF OwnerInv

(* The frame of a handle that is not copied is in its live segment, so the  *)
(* branch for a segment that is gone is not taken before the recorder exits.*)
LEMMA MaterializeKeeps ==
  ASSUME NEW h \in Files, OwnerInv, Materialize(h)
  PROVE  /\ OwnerInv' /\ Downstream' \subseteq Downstream
         /\ stop' \/ Orphans' \subseteq Orphans
         /\ recorder # "down" => UNCHANGED missing
<1>1. /\ h \in AtWork \ copied /\ working[h] > 0
      /\ UNCHANGED <<publishing, dangling, wire, inbox, queued, idx, call, capture, recorder>>
  BY DEF Materialize, Unlink, spoolVars, channelVars, recorderVars, AtWork
<1>2. UNCHANGED <<Publishing, Dangling, OnWire, Readable, InInbox, InBatch, InQueue>>
  BY <1>1 DEF Publishing, Dangling, OnWire, Readable, InInbox, InBatch, InQueue
<1>3. CASE h \in Live
  <2>1. /\ segment' = [segment EXCEPT ![h] = "gone"] /\ copied' = copied \union {h}
        /\ UNCHANGED <<working, missing>>
    BY <1>3 DEF Materialize, Unlink
  <2>2. /\ segment' \in [Segments -> {"unmade", "live", "gone"}]
        /\ h \in Made' /\ Made \subseteq Made' /\ Live \ {h} \subseteq Live'
        /\ h \notin Live' /\ Live' \subseteq Live
    BY <2>1, FilesAreSegments DEF OwnerInv, OwnerTypes, Made, Live
  <2>3. AtWork' = AtWork
    BY <2>1 DEF AtWork
  <2>4. OwnerTypes'
    BY <1>1, <2>1, <2>2 DEF OwnerInv, OwnerTypes
  <2>5. OneOwner'
    BY <1>1, <1>2, <2>1, <2>3 DEF OwnerInv, OneOwner
  <2>6. OwnedIsMade' /\ CopiedIsGone'
    BY <1>1, <1>2, <2>1, <2>2, <2>3
       DEF OwnerInv, OwnedIsMade, CopiedIsGone, Downstream
  <2>7. OwnedIsLive'
    BY <1>1, <1>2, <2>1, <2>2, <2>3 DEF OwnerInv, OneOwner, OwnedIsLive
  <2>8. MovesOn
    BY <1>2, <2>2, <2>3 DEF MovesOn, Downstream, Orphans, InCare
  <2> QED BY <2>1, <2>4, <2>5, <2>6, <2>7, <2>8 DEF OwnerInv, MovesOn
<1>4. CASE h \notin Live
  <2>1. /\ stop' = TRUE /\ working' = [working EXCEPT ![h] = @ - 1]
        /\ UNCHANGED <<segment, copied>>
    BY <1>4 DEF Materialize, channelVars
  <2>2. /\ working' \in [Files -> Nat] /\ \A g \in Files : working'[g] <= 1
        /\ AtWork' \subseteq AtWork
    BY <1>1, <2>1 DEF AtWork, OwnerInv, OwnerTypes, OneOwner
  <2>3. UNCHANGED <<Made, Live>>
    BY <2>1 DEF Made, Live
  <2>4. recorder = "down"
    BY <1>1, <1>4 DEF OwnerInv, OwnedIsLive
  <2>5. OwnerTypes'
    BY <1>1, <2>1, <2>2 DEF OwnerInv, OwnerTypes
  <2>6. OneOwner'
    BY <1>1, <1>2, <2>1, <2>2 DEF OwnerInv, OneOwner
  <2>7. OwnedIsMade' /\ OwnedIsLive' /\ CopiedIsGone'
    BY <1>1, <1>2, <2>1, <2>2, <2>3, <2>4
       DEF OwnerInv, OwnedIsMade, OwnedIsLive, CopiedIsGone, Downstream
  <2> QED BY <1>2, <2>1, <2>2, <2>4, <2>5, <2>6, <2>7 DEF OwnerInv, Downstream
<1> QED BY <1>3, <1>4

LEMMA ConsumeKeeps ==
  ASSUME NEW h \in Files, OwnerInv, SharedMemory, Consume(h)
  PROVE  OwnerInv' /\ MovesOn
<1>1. /\ h \in copied /\ working[h] > 0 /\ working' = [working EXCEPT ![h] = @ - 1]
      /\ UNCHANGED <<segment, publishing, dangling, wire, inbox, queued, copied, idx, call,
                     capture, recorder>>
  BY DEF Consume, SharedMemory, Filesystem, spoolVars, channelVars, recorderVars
<1>2. /\ working' \in [Files -> Nat] /\ \A g \in Files : working'[g] <= 1
      /\ AtWork' \subseteq AtWork /\ AtWork \subseteq AtWork' \union {h}
  BY <1>1 DEF AtWork, OwnerInv, OwnerTypes, OneOwner
<1>3. UNCHANGED <<Publishing, Dangling, OnWire, Readable, InInbox, InBatch, InQueue, Made, Live>>
  BY <1>1 DEF Publishing, Dangling, OnWire, Readable, InInbox, InBatch, InQueue, Made, Live
<1>4. OwnerTypes'
  BY <1>1, <1>2 DEF OwnerInv, OwnerTypes
<1>5. OneOwner'
  BY <1>1, <1>2, <1>3 DEF OwnerInv, OneOwner
<1>6. OwnedIsMade' /\ OwnedIsLive' /\ CopiedIsGone'
  BY <1>1, <1>2, <1>3
     DEF OwnerInv, OwnedIsMade, OwnedIsLive, CopiedIsGone, Downstream
<1>7. MovesOn
  BY <1>1, <1>2, <1>3 DEF MovesOn, Downstream, Orphans, InCare, OwnerInv, CopiedIsGone
<1> QED BY <1>4, <1>5, <1>6, <1>7 DEF OwnerInv

(* The resource tracker takes every segment, from owners and orphans alike. *)
LEMMA TrackKeeps == OwnerInv /\ TrackRecorder => OwnerInv' /\ MovesOn
<1> SUFFICES ASSUME OwnerInv, TrackRecorder PROVE OwnerInv' /\ MovesOn
  OBVIOUS
<1>1. /\ recorder' = "down"
      /\ segment' = [s \in Segments |-> IF s \in Live THEN "gone" ELSE segment[s]]
      /\ UNCHANGED <<publishing, dangling, wire, inbox, queued, working, copied, idx, call,
                     capture>>
  BY DEF TrackRecorder, TrackerUnlinks, supplyVars, clientVars, recorderVars, spoolVars
<1>2. segment' \in [Segments -> {"unmade", "live", "gone"}] /\ Made' = Made /\ Live' = {}
  BY <1>1 DEF Live, Made, OwnerInv, OwnerTypes
<1>3. UNCHANGED <<Publishing, Dangling, OnWire, InInbox, InBatch, InQueue, AtWork>>
  BY <1>1 DEF Publishing, Dangling, OnWire, InInbox, InBatch, InQueue, AtWork
<1>4. OwnerTypes'
  BY <1>1, <1>2 DEF OwnerInv, OwnerTypes
<1>5. OneOwner'
  BY <1>1, <1>3 DEF OwnerInv, OneOwner
<1>6. OwnedIsMade' /\ OwnedIsLive' /\ CopiedIsGone'
  BY <1>1, <1>2, <1>3
     DEF OwnerInv, OwnedIsMade, OwnedIsLive, CopiedIsGone, Downstream
<1> QED BY <1>2, <1>3, <1>4, <1>5, <1>6 DEF OwnerInv, MovesOn, Downstream, Orphans

-----------------------------------------------------------------------------
LEMMA CaptureKeeps ==
  ASSUME SharedMemory, OwnerInv, EmptyHanded, CaptureStep
  PROVE  /\ OwnerInv' /\ EmptyHanded' /\ Downstream' \subseteq Downstream
         /\ stop \/ Orphans' \subseteq Orphans
<1> USE DEF EmptyHanded
<1>0. UNCHANGED recorder
  BY DEF CaptureStep, BeginCapture, LoopCapture, GetBatch, TakeFiles, TakeDescriptors, PutHandle,
     PutWaits, PutStopped, recorderVars
<1>1. CASE BeginCapture \/ LoopCapture \/ PutWaits
  <2>1. /\ UNCHANGED <<owners, call>>
        /\ capture' \in [at : Stations, batch : {capture.batch}, rounds : Nat]
        /\ capture'.at \in {"loop", "wait", "ended", "putWait"}
        /\ capture'.at \in {"loop", "wait"} => capture.at \in {"begin", "loop"}
    BY <1>1 DEF BeginCapture, LoopCapture, PutWaits, SharedMemory, Filesystem, Stations, owners,
       spoolVars, channelVars, recorderVars, OwnerInv, OwnerTypes
  <2>2. call'.at = "off"
    BY <2>1 DEF OwnerInv, OwnerTypes
  <2> QED BY <1>0, <2>1, <2>2, OwnersStay DEF MovesOn
<1>2. CASE GetBatch
  <2>1. capture.batch = <<>>
    BY <1>2 DEF GetBatch
  <2>2. capture'.at = "got"
    BY <1>2 DEF GetBatch, OwnerInv, OwnerTypes
  <2> QED BY <1>2, <2>1, <2>2, GetKeeps DEF MovesOn
<1>3. CASE TakeFiles
  BY <1>3 DEF TakeFiles, OwnerInv, OwnerTypes
<1>4. CASE TakeDescriptors
  <2>1. UNCHANGED <<owners, call>> /\ Received(capture.batch, TRUE)
    BY <1>4 DEF TakeDescriptors, owners, spoolVars, channelVars, recorderVars
  <2>2. call'.at = "off"
    BY <2>1 DEF OwnerInv, OwnerTypes
  <2>3. CASE capture.batch # <<>>
    <3>1. capture' = [at |-> "put", batch |-> capture.batch, rounds |-> 0]
      BY <2>1, <2>3 DEF Received
    <3>2. capture' \in [at : Stations, batch : {capture.batch}, rounds : Nat]
      BY <3>1 DEF Stations
    <3> QED BY <1>0, <2>1, <2>2, <3>1, <3>2, OwnersStay DEF MovesOn
  <2>4. CASE capture.batch = <<>>
    <3>1. /\ capture' \in [at : Stations, batch : {capture.batch}, rounds : Nat]
          /\ capture'.batch = <<>>
      BY <2>1, <2>4, SupplyAssumption DEF Received, Stations, OwnerInv, OwnerTypes
    <3> QED BY <1>0, <2>1, <2>2, <3>1, OwnersStay DEF MovesOn
  <2> QED BY <2>3, <2>4
<1>5. CASE PutHandle
  <2>1. /\ capture.batch # <<>> /\ capture'.batch = Tail(capture.batch)
        /\ capture'.at = IF Len(capture.batch) = 1 THEN "loop" ELSE "put"
    BY <1>5 DEF PutHandle, OwnerInv, OwnerTypes
  <2>2. Len(capture.batch) = 1 => Tail(capture.batch) = <<>>
    <3>1. capture.batch \in Seq(Files)
      BY DEF OwnerInv, OwnerTypes
    <3> QED BY <2>1, <3>1, TailOfOne
  <2> QED BY <1>5, <2>1, <2>2, PutKeeps DEF MovesOn
<1>6. CASE PutStopped
  <2>1. /\ UNCHANGED <<owners, call>> /\ stop /\ capture'.at = "ended"
        /\ capture' \in [at : Stations, batch : {<<>>}, rounds : Nat]
    BY <1>6 DEF PutStopped, Stations, owners, spoolVars, channelVars, recorderVars, OwnerInv,
       OwnerTypes
  <2>2. call'.at = "off"
    BY <2>1 DEF OwnerInv, OwnerTypes
  <2> QED BY <1>0, <2>1, <2>2, DropKeeps
<1> QED BY <1>1, <1>2, <1>3, <1>4, <1>5, <1>6 DEF CaptureStep

(* Publishing apart, no step brings a segment back or leaves it alone while *)
(* both ends run.                                                           *)
LEMMA OwnersKeep ==
  ASSUME SharedMemory, OwnerInv, EmptyHanded, Next, ~Published
  PROVE  /\ OwnerInv' /\ EmptyHanded' /\ (recorder # "down" => UNCHANGED missing)
         /\ Downstream' \subseteq Downstream
         /\ stop' \/ Orphans' \subseteq Orphans
<1> USE DEF EmptyHanded, MovesOn
<1>1. CASE BeginPublish
  BY <1>1, MakeKeeps DEF BeginPublish, supplyVars, clientVars, history
<1>3. CASE PublishFailed
  BY <1>3, FailureKeeps DEF PublishFailed, clientVars, history
<1>4. CASE CloseRecorder \/ ExitRecorder \/ EndReceiver \/ EndMark
  <2>1. /\ UNCHANGED <<owners, call, capture, missing>>
        /\ recorder = "down" => recorder' = "down"
    BY <1>4 DEF CloseRecorder, ClosePublisher, ExitRecorder, EndReceiver, StopReceiver, EndMark,
       Retire, owners, spoolVars, channelVars, supplyVars, clientVars, recorderVars, history
  <2> QED BY <2>1, NothingMoves
<1>5. CASE MonitorSaver \/ MonitorBag \/ Stop
  <2>1. UNCHANGED <<owners, call, capture, missing, recorder>>
    BY <1>5 DEF MonitorSaver, MonitorBag, Stop, owners, spoolVars, channelVars, recorderVars,
       history
  <2> QED BY <2>1, NothingMoves
<1>6. CASE Channel
  <2>1. UNCHANGED <<spoolVars, supplyVars>> /\ UNCHANGED <<capture, missing>>
    BY <1>6 DEF Channel, supplyVars, clientVars, history
  <2>2. CASE ReadLine
    BY <2>1, <2>2, ReadKeeps
  <2>3. CASE JanitorTurn
    BY <2>1, <2>3, JanitorKeeps
  <2>4. CASE Accept \/ EndOfStream
    <3>1. UNCHANGED <<owners, call, capture, recorder>>
      BY <2>1, <2>4 DEF Accept, EndOfStream, owners, spoolVars, supplyVars, clientVars,
         recorderVars
    <3> QED BY <2>1, <3>1, NothingMoves
  <2> QED BY <1>6, <2>2, <2>3, <2>4 DEF Channel
<1>7. CASE CaptureStep
  <2>1. UNCHANGED <<missing, stop>>
    BY <1>7 DEF CaptureStep, BeginCapture, LoopCapture, GetBatch, TakeFiles, TakeDescriptors,
       PutHandle, PutWaits, PutStopped, history
  <2> QED BY <1>7, <2>1, CaptureKeeps
<1>8. CASE HandleStep
  <2>1. PICK h \in Files : Take(h) \/ Materialize(h) \/ Consume(h)
    BY <1>8 DEF HandleStep
  <2>2. UNCHANGED capture
    BY <2>1 DEF Take, Materialize, Consume
  <2>3. CASE Take(h)
    BY <2>2, <2>3, TakeKeeps DEF Take, history
  <2>4. CASE Materialize(h)
    BY <2>2, <2>4, MaterializeKeeps
  <2>5. CASE Consume(h)
    BY <2>2, <2>5, ConsumeKeeps DEF Consume, history
  <2> QED BY <2>1, <2>3, <2>4, <2>5
<1>9. CASE BeginFile \/ FinishFile
  BY <1>9 DEF BeginFile, FinishFile, Filesystem, SharedMemory
<1>10. CASE TrackRecorder
  BY <1>10, TrackKeeps DEF TrackRecorder, supplyVars, clientVars, history
<1>11. CASE Watcher
  BY <1>11 DEF Watcher, Turn, ReadNothing, ReadEvents, Scan, Examine, Remember, Return, OwnerInv,
     OwnerTypes
<1> QED BY <1>1, <1>3, <1>4, <1>5, <1>6, <1>7, <1>8, <1>9, <1>10, <1>11 DEF Next

-----------------------------------------------------------------------------
(* The name a published line carries is the frame's alone: the recorder's   *)
(* index only grows.                                                        *)
NameInv ==
  /\ name \in [Segments -> Nat] /\ idx \in Nat \ {0}
  /\ publishing \in {NoSegment, frame}
  /\ \A h \in Segments : name[h] < idx
  /\ \A g, h \in Segments : name[g] = name[h] /\ name[g] # 0 => g = h
  /\ \A h \in Downstream : name[h] # 0

LEMMA PublishNames ==
  ASSUME NameInv, Published, publishing \in Segments,
         Downstream \subseteq Segments, Downstream' \subseteq Downstream \union {publishing}
  PROVE  NameInv'
<1>1. /\ publishing = frame /\ publishing' = NoSegment
      /\ idx' = idx + 1 /\ name' = [name EXCEPT ![frame] = idx]
  BY SegmentsAssumption DEF NameInv, Published, SendLine
<1>2. /\ idx \in Nat \ {0} /\ name \in [Segments -> Nat] /\ frame \in Segments
      /\ \A h \in Segments : name[h] < idx
      /\ \A g, h \in Segments : name[g] = name[h] /\ name[g] # 0 => g = h
      /\ \A h \in Downstream : name[h] # 0
  BY <1>1 DEF NameInv
<1>3. /\ name' \in [Segments -> Nat] /\ name'[frame] = idx
      /\ \A h \in Segments : h # frame => name'[h] = name[h]
  BY <1>1, <1>2
<1>4. \A g, h \in Segments : name'[g] = name'[h] /\ name'[g] # 0 => g = h
  BY <1>2, <1>3
<1>5. \A h \in Segments : name'[h] < idx'
  BY <1>1, <1>2, <1>3
<1>6. \A h \in Downstream' : name'[h] # 0
  BY <1>1, <1>2, <1>3
<1> QED BY <1>1, <1>2, <1>3, <1>4, <1>5, <1>6 DEF NameInv

LEMMA OthersKeepNames ==
  ASSUME SharedMemory, Next, ~Published
  PROVE  /\ UNCHANGED <<name, idx>>
         /\ \/ UNCHANGED <<publishing, frame>>
            \/ publishing' = frame /\ UNCHANGED frame
            \/ publishing' = NoSegment
<1>1. CASE BeginPublish
  BY <1>1 DEF BeginPublish, MakeSegment, supplyVars, recorderVars, history
<1>2. CASE PublishFailed
  BY <1>2 DEF PublishFailed, RefuseLine, TearLine, history
<1>3. CASE CloseRecorder \/ ExitRecorder \/ TrackRecorder \/ EndReceiver
  BY <1>3 DEF CloseRecorder, ClosePublisher, ExitRecorder, TrackRecorder, TrackerUnlinks,
     EndReceiver, StopReceiver, channelVars, supplyVars, recorderVars, history
<1>4. CASE Channel
  BY <1>4 DEF Channel, Accept, ReadLine, EndOfStream, JanitorTurn, supplyVars, recorderVars,
     history
<1>5. CASE CaptureStep
  BY <1>5 DEF CaptureStep, BeginCapture, LoopCapture, GetBatch, TakeInbox, TakeFiles,
     TakeDescriptors, PutHandle, PutWaits, PutStopped, channelVars, recorderVars, history
<1>6. CASE HandleStep
  BY <1>6 DEF HandleStep, Take, Materialize, Unlink, Consume, channelVars, recorderVars, history
<1>7. CASE Watcher \/ EndMark \/ MonitorSaver \/ MonitorBag \/ Stop
  BY <1>7 DEF Watcher, EndMark, MonitorSaver, MonitorBag, Stop, channelVars, supplyVars,
     recorderVars, history
<1> QED BY <1>1, <1>2, <1>3, <1>4, <1>5, <1>6, <1>7
        DEF Next, BeginFile, FinishFile, Filesystem, SharedMemory

LEMMA NamesKeep ==
  ASSUME SharedMemory, OwnerInv, EmptyHanded, NameInv, Next
  PROVE  NameInv'
<1>1. CASE Published
  <2>1. publishing \in Segments /\ Downstream' \subseteq Downstream \union {publishing}
    BY <1>1, PublishKeeps
  <2>2. Downstream \subseteq Segments
    <3>1. Downstream \subseteq Made
      BY DEF OwnerInv, OwnedIsMade
    <3> QED BY <3>1 DEF Made
  <2> QED BY <1>1, <2>1, <2>2, PublishNames
<1>2. CASE ~Published
  <2>1. Downstream' \subseteq Downstream
    BY <1>2, OwnersKeep
  <2>2. name' = name /\ idx' = idx /\ publishing' \in {NoSegment, frame'}
    BY <1>2, OthersKeepNames DEF NameInv
  <2> QED BY <2>1, <2>2 DEF NameInv
<1> QED BY <1>1, <1>2

-----------------------------------------------------------------------------
(* While both ends run, each orphan has its torn line, and the line that is *)
(* torn now has spoilt none yet.                                            *)
BothRun == recorder = "up" /\ receiver # "ended" /\ ~stop
OrphanInv ==
  /\ torn \in BOOLEAN /\ faults \in [torn : Nat, unlink : Nat]
  /\ BothRun => Cardinality(Orphans) + (IF torn THEN 1 ELSE 0) <= faults.torn

LEMMA OrphansAreFinite ==
  /\ IsFiniteSet(Orphans) /\ Cardinality(Orphans) \in Nat
  /\ IsFiniteSet(Orphans') /\ Cardinality(Orphans') \in Nat
<1>1. IsFiniteSet(Segments)
  BY SegmentsAssumption
<1>2. Orphans \in SUBSET Segments /\ Orphans' \in SUBSET Segments
  BY DEF Orphans, Live
<1> QED BY <1>1, <1>2, FS_Subset, FS_CardinalityType

(* What a step does to the count of torn lines, and to the ends.            *)
LEMMA TornLines ==
  ASSUME SharedMemory, Next, ~Published, OrphanInv
  PROVE  /\ BothRun' => BothRun
         /\ torn' \in BOOLEAN /\ faults' \in [torn : Nat, unlink : Nat]
         /\ BothRun' => \/ torn' = torn /\ faults'.torn = faults.torn
                        \/ torn' = TRUE /\ faults'.torn = faults.torn + 1
<1>0. /\ torn \in BOOLEAN /\ faults \in [torn : Nat, unlink : Nat]
      /\ faults.torn \in Nat /\ faults.unlink \in Nat
  BY DEF OrphanInv
<1>1. CASE BeginPublish \/ CloseRecorder \/ ExitRecorder \/ TrackRecorder \/ EndReceiver
  <2>1. torn' = torn /\ faults' = faults
    BY <1>1 DEF BeginPublish, MakeSegment, CloseRecorder, ClosePublisher, ExitRecorder,
       TrackRecorder, TrackerUnlinks, EndReceiver, StopReceiver, channelVars
  <2>2. BothRun' => BothRun
    BY <1>1 DEF BeginPublish, MakeSegment, CloseRecorder, ClosePublisher, ExitRecorder,
       TrackRecorder, TrackerUnlinks, EndReceiver, StopReceiver, channelVars, supplyVars,
       recorderVars, clientVars, BothRun
  <2> QED BY <1>0, <2>1, <2>2
<1>2. CASE PublishFailed
  <2>1. UNCHANGED <<recorder, receiver, stop>>
    BY <1>2 DEF PublishFailed, RefuseLine, TearLine, clientVars
  <2>2. CASE RefuseLine
    <3>1. receiver = "ended" /\ torn' = torn /\ ScheduleUnlink(publishing, 0)
      BY <2>2 DEF RefuseLine
    <3>2. faults' \in [torn : Nat, unlink : Nat]
      BY <1>0, <3>1 DEF ScheduleUnlink, TryUnlink
    <3> QED BY <1>0, <2>1, <3>1, <3>2 DEF BothRun
  <2>3. CASE TearLine
    <3>1. torn' = TRUE /\ ScheduleUnlink(publishing, 1)
      BY <2>3 DEF TearLine
    <3>2. faults' \in [torn : Nat, unlink : Nat] /\ faults'.torn = faults.torn + 1
      BY <1>0, <3>1 DEF ScheduleUnlink, TryUnlink
    <3> QED BY <1>0, <2>1, <3>1, <3>2 DEF BothRun
  <2> QED BY <1>2, <2>2, <2>3 DEF PublishFailed
<1>3. CASE Channel
  <2>1. UNCHANGED <<recorder, stop, torn>> /\ (receiver' # "ended" => receiver # "ended")
    BY <1>3 DEF Channel, Accept, ReadLine, EndOfStream, JanitorTurn, supplyVars, recorderVars,
       clientVars
  <2>2. faults' \in {faults, [faults EXCEPT !.unlink = @ + 1]}
    BY <1>3 DEF Channel, Accept, ReadLine, EndOfStream, JanitorTurn
  <2>3. faults' \in [torn : Nat, unlink : Nat] /\ faults'.torn = faults.torn
    BY <1>0, <2>2
  <2> QED BY <1>0, <2>1, <2>3 DEF BothRun
<1>4. CASE CaptureStep
  <2>1. UNCHANGED <<recorder, receiver, stop, torn, faults>>
    BY <1>4 DEF CaptureStep, BeginCapture, LoopCapture, GetBatch, TakeInbox, TakeFiles,
       TakeDescriptors, PutHandle, PutWaits, PutStopped, channelVars, recorderVars
  <2> QED BY <1>0, <2>1 DEF BothRun
<1>5. CASE HandleStep \/ Watcher \/ EndMark \/ MonitorSaver \/ MonitorBag \/ Stop
  <2>1. UNCHANGED <<recorder, receiver, torn, faults>>
    BY <1>5 DEF HandleStep, Take, Materialize, Unlink, Consume, Watcher, EndMark, MonitorSaver,
       MonitorBag, Stop, channelVars, supplyVars, recorderVars
  <2>2. stop' = stop \/ stop' = TRUE
    BY <1>5 DEF HandleStep, Take, Materialize, Consume, Watcher, EndMark, MonitorSaver,
       MonitorBag, Stop, supplyVars, clientVars
  <2> QED BY <1>0, <2>1, <2>2 DEF BothRun
<1> QED BY <1>1, <1>2, <1>3, <1>4, <1>5
        DEF Next, BeginFile, FinishFile, Filesystem, SharedMemory

LEMMA OrphansKeep ==
  ASSUME SharedMemory, OwnerInv, EmptyHanded, OrphanInv, Next
  PROVE  OrphanInv'
<1>7. /\ BothRun' => BothRun
      /\ torn' \in BOOLEAN /\ faults' \in [torn : Nat, unlink : Nat]
  <2>1. CASE Published
    <3>1. UNCHANGED <<recorder, receiver, stop, faults>> /\ torn' = FALSE
      BY <2>1 DEF Published, SendLine, clientVars
    <3> QED BY <3>1 DEF BothRun, OrphanInv
  <2> QED BY <2>1, TornLines
<1> SUFFICES ASSUME BothRun'
             PROVE  Cardinality(Orphans') + (IF torn' THEN 1 ELSE 0) <= faults'.torn
  BY <1>7 DEF OrphanInv
<1> DEFINE n == Cardinality(Orphans)
           m == Cardinality(Orphans')
<1>1. n \in Nat /\ m \in Nat /\ IsFiniteSet(Orphans)
  BY OrphansAreFinite
<1>2. torn \in BOOLEAN /\ faults.torn \in Nat /\ n + (IF torn THEN 1 ELSE 0) <= faults.torn
  BY <1>7 DEF OrphanInv
<1>3. Orphans' \subseteq Orphans => m <= n
  BY <1>1, FS_Subset
<1>4. \A x : Orphans' \subseteq Orphans \union {x} => m <= n + 1
  <2> SUFFICES ASSUME NEW x, Orphans' \subseteq Orphans \union {x} PROVE m <= n + 1
    OBVIOUS
  <2>1. /\ IsFiniteSet(Orphans \union {x}) /\ Cardinality(Orphans \union {x}) \in Nat
        /\ Cardinality(Orphans \union {x}) <= n + 1
    BY <1>1, FS_AddElement
  <2>2. m <= Cardinality(Orphans \union {x})
    BY <2>1, FS_Subset
  <2> QED BY <1>1, <2>1, <2>2
<1> HIDE DEF n, m
<1>5. CASE Published
  <2>1. torn' = FALSE /\ faults'.torn = faults.torn
    BY <1>5 DEF Published, SendLine
  <2>2. (~torn => m <= n) /\ m <= n + 1
    BY <1>3, <1>4, <1>5, PublishKeeps
  <2>3. m <= faults.torn
    BY <1>1, <1>2, <2>2
  <2> QED BY <1>1, <2>1, <2>3 DEF m
<1>6. CASE ~Published
  <2>1. m <= n
    BY <1>3, <1>6, OwnersKeep DEF BothRun
  <2>2. \/ torn' = torn /\ faults'.torn = faults.torn
        \/ torn' = TRUE /\ faults'.torn = faults.torn + 1
    BY <1>6, TornLines
  <2>3. m + (IF torn' THEN 1 ELSE 0) <= faults'.torn
    BY <1>1, <1>2, <2>1, <2>2
  <2> QED BY <2>3 DEF m
<1> QED BY <1>5, <1>6

-----------------------------------------------------------------------------
(* The transport that is not used stays as it was: with files no segment is *)
(* made, with segments the watcher is never called.                         *)
ChannelInv ==
  /\ transport \in {"filesystem", "shared-memory"}
  /\ missing # {} => SharedMemory /\ recorder = "down"
  /\ Filesystem => ChannelInit
  /\ SharedMemory => call = Idle /\ OwnerInv /\ EmptyHanded /\ NameInv /\ OrphanInv

LEMMA ChannelInvInit == Init => ChannelInv
<1> SUFFICES ASSUME Init PROVE ChannelInv
  OBVIOUS
<1>1. transport \in {"filesystem", "shared-memory"} /\ missing = {} /\ ChannelInit /\ call = Idle
  BY SupplyAssumption DEF Init, SpoolInit
<1>2. OwnerInv /\ EmptyHanded
  BY InitOwners
<1>3. Downstream = {} /\ Live = {} /\ Orphans = {}
  <2>1. OnWire = {} /\ InInbox = {} /\ InBatch = {} /\ InQueue = {} /\ AtWork = {}
    BY EmptySeq DEF Init, ChannelInit, OnWire, InInbox, InBatch, InQueue, AtWork, Elems, Named
  <2>2. Live = {}
    BY DEF Init, ChannelInit, Live
  <2> QED BY <2>1, <2>2 DEF Downstream, Orphans
<1>4. NameInv
  BY <1>3 DEF Init, ChannelInit, NameInv
<1>5. OrphanInv
  <2>1. Cardinality(Orphans) = 0
    BY <1>3, FS_EmptySet
  <2>2. torn = FALSE /\ faults = [torn |-> 0, unlink |-> 0]
    BY DEF Init, ChannelInit
  <2>3. faults \in [torn : Nat, unlink : Nat] /\ faults.torn = 0
    BY ONLY <2>2
  <2>4. Cardinality(Orphans) + (IF torn THEN 1 ELSE 0) <= faults.torn
    BY <2>1, <2>2, <2>3
  <2> QED BY <2>2, <2>3, <2>4 DEF OrphanInv
<1> QED BY <1>1, <1>2, <1>4, <1>5 DEF ChannelInv

LEMMA FilesLeaveTheChannel ==
  ASSUME Filesystem, ChannelInit, Next
  PROVE  ChannelInit' /\ UNCHANGED missing
<1> SUFFICES UNCHANGED channelVars /\ UNCHANGED missing
  BY DEF channelVars, ChannelInit
<1>1. CASE BeginFile \/ FinishFile \/ ExitRecorder \/ Watcher \/ EndMark
  BY <1>1 DEF BeginFile, FinishFile, ExitRecorder, Watcher, EndMark, supplyVars, history
<1>2. CASE MonitorSaver \/ MonitorBag \/ Stop
  BY <1>2 DEF MonitorSaver, MonitorBag, Stop, history
<1>3. CASE CaptureStep
  BY <1>3 DEF CaptureStep, BeginCapture, LoopCapture, GetBatch, TakeFiles, TakeDescriptors,
     PutHandle, PutWaits, PutStopped, history, Filesystem, SharedMemory
<1>4. CASE HandleStep
  BY <1>4 DEF HandleStep, Take, Materialize, Consume, history, Filesystem, SharedMemory
<1>5. ~(Published \/ PublishFailed)
  BY DEF Published, PublishFailed, SendLine, RefuseLine, TearLine, ChannelInit
<1>6. ~Channel
  BY DEF Channel, Accept, ReadLine, EndOfStream, JanitorTurn, ChannelInit
<1>7. ~(BeginPublish \/ CloseRecorder \/ TrackRecorder \/ EndReceiver)
  BY DEF BeginPublish, CloseRecorder, TrackRecorder, EndReceiver, Filesystem, SharedMemory
<1> QED BY <1>1, <1>2, <1>3, <1>4, <1>5, <1>6, <1>7 DEF Next

LEMMA SegmentsLeaveTheWatcher ==
  ASSUME SharedMemory, call = Idle, Next
  PROVE  UNCHANGED call
<1>1. call.at = "off"
  BY DEF Idle
<1>2. CASE BeginPublish \/ Published \/ PublishFailed \/ CloseRecorder \/ ExitRecorder
  BY <1>2 DEF BeginPublish, Published, PublishFailed, CloseRecorder, ExitRecorder, spoolVars
<1>3. CASE TrackRecorder \/ Channel \/ EndMark \/ MonitorSaver \/ MonitorBag
  BY <1>3 DEF TrackRecorder, Channel, EndMark, Retire, MonitorSaver, MonitorBag, spoolVars
<1>4. CASE Stop \/ EndReceiver
  BY <1>4 DEF Stop, EndReceiver, spoolVars
<1>5. CASE CaptureStep
  BY <1>1, <1>5 DEF CaptureStep, BeginCapture, LoopCapture, GetBatch, TakeFiles, TakeDescriptors,
     PutHandle, PutWaits, PutStopped, Filesystem, SharedMemory, spoolVars
<1>6. CASE HandleStep
  BY <1>6 DEF HandleStep, Take, Materialize, Consume, Filesystem, SharedMemory, spoolVars
<1>7. ~(BeginFile \/ FinishFile)
  BY DEF BeginFile, FinishFile, Filesystem, SharedMemory
<1>8. ~Watcher
  BY <1>1 DEF Watcher, Turn, ReadNothing, ReadEvents, Scan, Examine, Remember, Return
<1> QED BY <1>2, <1>3, <1>4, <1>5, <1>6, <1>7, <1>8 DEF Next

LEMMA TransportIsFixed ==
  ASSUME Next
  PROVE  UNCHANGED transport /\ (recorder = "down" => recorder' = "down")
<1>1. CASE BeginFile \/ FinishFile \/ BeginPublish \/ Published \/ PublishFailed
  BY <1>1 DEF BeginFile, FinishFile, BeginPublish, Published, PublishFailed, supplyVars,
     recorderVars
<1>2. CASE CloseRecorder \/ ExitRecorder \/ TrackRecorder \/ Channel \/ Watcher
  BY <1>2 DEF CloseRecorder, ExitRecorder, TrackRecorder, Channel, Watcher, supplyVars,
     recorderVars
<1>3. CASE CaptureStep
  BY <1>3 DEF CaptureStep, BeginCapture, LoopCapture, GetBatch, TakeFiles, TakeDescriptors,
     PutHandle, PutWaits, PutStopped, recorderVars
<1>4. CASE HandleStep
  BY <1>4 DEF HandleStep, Take, Materialize, Consume, recorderVars
<1>5. CASE EndMark \/ MonitorSaver \/ MonitorBag \/ Stop \/ EndReceiver
  BY <1>5 DEF EndMark, MonitorSaver, MonitorBag, Stop, EndReceiver, supplyVars, recorderVars
<1> QED BY <1>1, <1>2, <1>3, <1>4, <1>5 DEF Next

LEMMA ChannelInvStep == ChannelInv /\ [Next]_vars => ChannelInv'
<1> SUFFICES ASSUME ChannelInv, [Next]_vars PROVE ChannelInv'
  OBVIOUS
<1>1. CASE Next
  <2>1. /\ transport' = transport /\ transport \in {"filesystem", "shared-memory"}
        /\ recorder = "down" => recorder' = "down"
    BY <1>1, TransportIsFixed DEF ChannelInv
  <2>2. CASE SharedMemory
    <3>1. call = Idle /\ OwnerInv /\ EmptyHanded /\ NameInv /\ OrphanInv
      BY <2>2 DEF ChannelInv
    <3>2. call' = Idle
      BY <1>1, <2>2, <3>1, SegmentsLeaveTheWatcher
    <3>3. OwnerInv' /\ EmptyHanded' /\ (recorder # "down" => missing' = missing)
      <4>1. CASE Published
        <5>1. OwnerInv' /\ UNCHANGED <<capture, missing>>
          BY <3>1, <4>1, PublishKeeps DEF Published, clientVars
        <5> QED BY <3>1, <5>1 DEF EmptyHanded
      <4>2. CASE ~Published
        BY <1>1, <2>2, <3>1, <4>2, OwnersKeep
      <4> QED BY <4>1, <4>2
    <3>4. NameInv' /\ OrphanInv'
      BY <1>1, <2>2, <3>1, NamesKeep, OrphansKeep
    <3>5. SharedMemory' /\ ~Filesystem'
      BY <2>1, <2>2 DEF SharedMemory, Filesystem
    <3>6. missing' # {} => recorder' = "down"
      BY <2>1, <3>3 DEF ChannelInv
    <3> QED BY <2>1, <3>2, <3>3, <3>4, <3>5, <3>6 DEF ChannelInv
  <2>3. CASE Filesystem
    <3>1. ChannelInit' /\ missing' = missing
      BY <1>1, <2>3, FilesLeaveTheChannel DEF ChannelInv
    <3>2. ~SharedMemory /\ ~SharedMemory'
      BY <2>1, <2>3 DEF SharedMemory, Filesystem
    <3>3. missing' = {}
      BY <3>1, <3>2 DEF ChannelInv
    <3> QED BY <2>1, <3>1, <3>2, <3>3 DEF ChannelInv
  <2> QED BY <2>1, <2>2, <2>3 DEF Filesystem, SharedMemory
<1>2. CASE UNCHANGED vars
  <2>1. /\ UNCHANGED <<transport, missing, recorder, call, capture, name, frame, stop>>
        /\ UNCHANGED owners /\ UNCHANGED channelVars
    BY <1>2 DEF vars, supplyVars, clientVars, recorderVars, history, spoolVars, channelVars,
       owners
  <2>2. ChannelInit => ChannelInit'
    BY <2>1 DEF ChannelInit, channelVars
  <2>3. OwnerInv => OwnerInv' /\ EmptyHanded = EmptyHanded'
    BY <2>1, NothingMoves DEF EmptyHanded
  <2>4. UNCHANGED <<Downstream, Orphans>>
    BY <2>1 DEF owners, Downstream, Orphans, InCare, Live, Publishing, Dangling, OnWire, Readable,
       InInbox, InBatch, InQueue, AtWork
  <2>5. NameInv => NameInv'
    BY <2>1, <2>4 DEF NameInv, owners
  <2>6. OrphanInv => OrphanInv'
    BY <2>1, <2>4 DEF OrphanInv, BothRun, channelVars
  <2> QED BY <2>1, <2>2, <2>3, <2>5, <2>6 DEF ChannelInv, SharedMemory, Filesystem
<1> QED BY <1>1, <1>2

LEMMA ChannelInvHolds == Spec => []ChannelInv
BY ChannelInvInit, ChannelInvStep, PTL DEF Spec

(* LostOnlyAfterExit holds for every number of frames and every bound: while *)
(* the recorder runs, the frame of every handle that waits for its encoder   *)
(* is in a live segment.                                                     *)
THEOREM FramesAreFound == Spec => []LostOnlyAfterExit
<1>1. ChannelInv => LostOnlyAfterExit
  BY DEF ChannelInv, LostOnlyAfterExit
<1> QED BY ChannelInvHolds, <1>1, PTL

(* OrphansBounded holds for every number of frames, torn lines and failed    *)
(* unlinks: only the line that follows a torn one leaves its segment to      *)
(* nobody, and it uses that torn line up.                                    *)
THEOREM OrphansAreBounded == Spec => []OrphansBounded
<1>1. ChannelInv => OrphansBounded
  <2> SUFFICES ASSUME ChannelInv, recorder = "up", receiver # "ended", ~stop
               PROVE  Cardinality(Live \ Owned) <= faults.torn
    BY DEF OrphansBounded
  <2>1. CASE Filesystem
    <3>1. Live = {} /\ faults.torn = 0
      BY <2>1 DEF ChannelInv, ChannelInit, Live
    <3>2. Live \ Owned = {}
      BY <3>1
    <3> QED BY <3>1, <3>2, FS_EmptySet
  <2>2. CASE SharedMemory
    <3>1. OrphanInv /\ OwnerTypes
      BY <2>2 DEF ChannelInv, OwnerInv
    <3>2. InCare \subseteq Owned
      <4>1. /\ DOMAIN dangling = 1..Len(dangling) /\ DOMAIN wire = 1..Len(wire)
            /\ DOMAIN inbox = 1..Len(inbox) /\ DOMAIN capture.batch = 1..Len(capture.batch)
        BY <3>1, LenProperties DEF OwnerTypes
      <4>2. Dangling = ToSet(dangling) /\ InBatch = ToSet(capture.batch)
        BY <4>1 DEF Dangling, InBatch, Elems, ToSet
      <4>3. Readable = {wire[i].segment : i \in {j \in DOMAIN wire : wire[j].clean}}
        BY <4>1 DEF Readable, CleanNamed
      <4>4. InInbox = {inbox[i].segment : i \in DOMAIN inbox}
        BY <4>1 DEF InInbox, Named
      <4>5. InQueue \union AtWork \subseteq {h \in Files : queued[h] + working[h] > 0}
        <5>1. \A h \in Files : queued[h] \in Nat /\ working[h] \in Nat
          BY <3>1 DEF OwnerTypes
        <5> QED BY <5>1 DEF InQueue, AtWork
      <4>6. Publishing \subseteq {publishing}
        BY DEF Publishing
      <4> QED BY <4>2, <4>3, <4>4, <4>5, <4>6 DEF Owned, InCare
    <3>3. Live \ Owned \in SUBSET Orphans
      BY <3>2 DEF Orphans
    <3>4. Cardinality(Live \ Owned) <= Cardinality(Orphans) /\ Cardinality(Live \ Owned) \in Nat
      BY <3>3, OrphansAreFinite, FS_Subset, FS_CardinalityType
    <3>5. /\ Cardinality(Orphans) + (IF torn THEN 1 ELSE 0) <= faults.torn
          /\ torn \in BOOLEAN /\ faults.torn \in Nat
      BY <3>1 DEF OrphanInv, BothRun
    <3>6. Cardinality(Orphans) \in Nat
      BY OrphansAreFinite
    <3> QED BY <3>4, <3>5, <3>6
  <2> QED BY <2>1, <2>2 DEF ChannelInv, Filesystem, SharedMemory
<1> QED BY ChannelInvHolds, <1>1, PTL

-----------------------------------------------------------------------------
(* The filesystem transport.  What wait_for_new has found so far, and what  *)
(* a scan of the directory has still to look at.                            *)
NewOnes == Elems(call.fresh)
Unseen == IF call.source = "scan" THEN Elems(call.names) ELSE {}
Gone == Elems(retired)
Leaving == {marking} \ {None}

FileTypes ==
  /\ watch \in Watches
  /\ call \in [at : {"off", "read", "scan", "examine", "remember", "returned"},
               source : {"events", "scan"}, names : Seq(Files), fresh : Seq(Files)]
  /\ capture \in [at : Stations \ {"got"}, batch : Seq(Files), rounds : Nat]
  /\ events \in Seq(Files) /\ retired \in Seq(Files) /\ known \subseteq Files
  /\ marking \in Files \union {None}
  /\ queued \in [Files -> Nat] /\ working \in [Files -> Nat]

(* Where the call and its caller are, and what they hold there. *)
CallFlow ==
  /\ call.at \in {"off", "read", "scan", "returned"} => call.names = <<>>
  /\ call.at = "remember" => call.names # <<>>
  /\ call.at = "off" => call = Idle
  /\ call.at # "off" => capture.at \in {"drain", "wait"}
  /\ capture.at \notin {"put", "putWait"} => capture.batch = <<>>

(* What the watcher remembers it has returned, and what it has returned is  *)
(* in the queue or on its way to it.                                        *)
Accounted == supplied \union NewOnes \union InBatch
Remembered ==
  /\ InQueue \union AtWork \subseteq supplied
  /\ ~stop => known \union Gone \union Leaving \subseteq Accounted
  /\ ~stop => seen \subseteq Accounted \union Unseen

(* No window: a file that is not consumed is known, so it is not returned   *)
(* again.                                                                   *)
OneHandle ==
  watch.gcWindow = 0 =>
    /\ NewOnes \intersect (InBatch \union InQueue \union AtWork) = {}
    /\ InBatch \intersect (InQueue \union AtWork) = {}
    /\ InQueue \intersect AtWork = {}
    /\ Distinct(call.fresh) /\ Distinct(capture.batch)
    /\ \A h \in Files : queued[h] <= 1 /\ working[h] <= 1
    /\ NewOnes \union InBatch \union InQueue \union AtWork \subseteq known

FileInv == FileTypes /\ CallFlow /\ Remembered /\ OneHandle

LEMMA EmptyElems == Elems(<<>>) = {} /\ Distinct(<<>>) /\ \A T : <<>> \in Seq(T)
BY EmptySeq DEF Elems, Distinct

LEMMA FileInvInit == Init => FileInv
<1> SUFFICES ASSUME Init PROVE FileInv
  OBVIOUS
<1>1. /\ watch \in Watches /\ call = Idle /\ events = <<>> /\ known = {} /\ retired = <<>> /\ marking = None
      /\ capture = [at |-> "begin", batch |-> <<>>, rounds |-> 0]
      /\ queued = [h \in Files |-> 0] /\ working = [h \in Files |-> 0]
      /\ seen = {}
  BY DEF Init, SpoolInit
<1>2. NewOnes = {} /\ Gone = {} /\ InBatch = {} /\ Leaving = {} /\ InQueue = {} /\ AtWork = {}
  BY <1>1, EmptyElems DEF NewOnes, Gone, InBatch, Leaving, InQueue, AtWork, Idle
<1>3. FileTypes
  BY <1>1, EmptyElems DEF FileTypes, Idle, Stations
<1>4. CallFlow
  BY <1>1 DEF CallFlow, Idle
<1>5. Remembered
  BY <1>1, <1>2 DEF Remembered
<1>6. OneHandle
  BY <1>1, <1>2, EmptyElems DEF OneHandle, Idle
<1> QED BY <1>3, <1>4, <1>5, <1>6 DEF FileInv

-----------------------------------------------------------------------------
handles == <<capture, queued, working, supplied>>
watcherMemory == <<watch, known, retired, marking>>

(* Steps of others: of the recorder, of the monitors, of who stops. *)
LEMMA BystanderKeeps ==
  ASSUME FileInv, UNCHANGED <<handles, watcherMemory, call, seen>>,
         events' \in Seq(Files), stop => stop'
  PROVE  FileInv'
<1>1. /\ UNCHANGED <<NewOnes, Unseen, Gone, Leaving, InBatch, InQueue, AtWork>>
      /\ UNCHANGED <<call, capture, known, retired, marking, queued, working, watch, seen, supplied>>
  BY DEF handles, watcherMemory, NewOnes, Unseen, Gone, Leaving, InBatch, InQueue, AtWork
<1>2. FileTypes'
  BY <1>1 DEF FileInv, FileTypes
<1>3. CallFlow'
  BY <1>1 DEF FileInv, CallFlow
<1>4. Remembered'
  BY <1>1 DEF FileInv, Remembered, Accounted
<1>5. OneHandle'
  BY <1>1 DEF FileInv, OneHandle
<1> QED BY <1>2, <1>3, <1>4, <1>5 DEF FileInv

(* The recorder creates or closes a file. *)
LEMMA FileKeeps == FileInv /\ (BeginFile \/ FinishFile) => FileInv'
<1> SUFFICES ASSUME FileInv, BeginFile \/ FinishFile PROVE FileInv'
  OBVIOUS
<1>1. frame \in Files /\ Notify(frame)
  BY DEF BeginFile, FinishFile, CreateFile, CloseFile
<1>2. events' \in Seq(Files)
  BY <1>1, AppendProperties DEF Notify, FileInv, FileTypes
<1>3. UNCHANGED <<handles, watcherMemory, call, seen, stop>>
  BY DEF BeginFile, FinishFile, CreateFile, CloseFile, supplyVars, clientVars, history, handles,
     watcherMemory, memory
<1> QED BY <1>2, <1>3, BystanderKeeps

-----------------------------------------------------------------------------
(* A step of the watcher's thread that leaves its memory alone, finds       *)
(* nothing new and does not pass over a name of a scan.                     *)
LEMMA TurnKeeps ==
  ASSUME FileInv, UNCHANGED <<handles, watcherMemory, stop>>, events' \in Seq(Files),
         call' \in [at : {"read", "scan", "examine", "remember", "returned"},
                    source : {"events", "scan"}, names : Seq(Files), fresh : Seq(Files)],
         NewOnes' = NewOnes, Distinct(call.fresh) => Distinct(call'.fresh),
         ~stop => seen' \subseteq Accounted \union Unseen',
         call.at # "off",
         call'.at \in {"read", "scan", "returned"} => call'.names = <<>>,
         call'.at = "remember" => call'.names # <<>>
  PROVE  FileInv'
<1>1. /\ UNCHANGED <<Gone, Leaving, InBatch, InQueue, AtWork, NewOnes>>
      /\ UNCHANGED <<capture, known, retired, marking, queued, working, watch, supplied, stop>>
  BY DEF handles, watcherMemory, Gone, Leaving, InBatch, InQueue, AtWork
<1>2. FileTypes'
  BY <1>1 DEF FileInv, FileTypes
<1>3. CallFlow'
  BY <1>1 DEF FileInv, CallFlow
<1>4. Remembered'
  BY <1>1 DEF FileInv, Remembered, Accounted
<1>5. OneHandle'
  BY <1>1 DEF FileInv, OneHandle
<1> QED BY <1>2, <1>3, <1>4, <1>5 DEF FileInv

LEMMA PresentFiles == Present \in SUBSET Nat /\ Present \subseteq Files /\ IsFiniteSet(Present)
<1>1. Present \in SUBSET Files
  BY DEF Present
<1> QED BY <1>1, FilesAssumption, FS_Subset

LEMMA LookKeeps ==
  ASSUME FileInv, Watcher, ReadNothing \/ ReadEvents \/ Scan
  PROVE  FileInv'
<1>1. /\ UNCHANGED <<handles, watcherMemory, stop>>
      /\ seen' = IF call.at = "scan" THEN Present ELSE seen
  BY DEF Watcher, ReadNothing, ReadEvents, Scan, clientVars, handles, watcherMemory, memory
<1>2. CASE ReadNothing
  <2>1. call.at = "read" /\ call' = [call EXCEPT !.at = "scan"] /\ events' = events
    BY <1>2 DEF ReadNothing
  <2>2. /\ call' \in [at : {"scan"}, source : {call.source}, names : {call.names},
                      fresh : {call.fresh}]
        /\ call.source \in {"events", "scan"}
        /\ call.names \in Seq(Files) /\ call.fresh \in Seq(Files) /\ call.names = <<>>
    BY <2>1 DEF FileInv, FileTypes, CallFlow
  <2>3. NewOnes' = NewOnes /\ Unseen' = Unseen /\ call'.fresh = call.fresh
    BY <2>2 DEF NewOnes, Unseen
  <2>4. seen' = seen /\ events' \in Seq(Files)
    BY <1>1, <2>1 DEF FileInv, FileTypes
  <2>5. ~stop => seen' \subseteq Accounted \union Unseen'
    BY <2>3, <2>4 DEF FileInv, Remembered
  <2> QED BY <1>1, <2>1, <2>2, <2>3, <2>4, <2>5, TurnKeeps
<1>3. CASE ReadEvents
  <2>1. /\ call.at = "read" /\ events' = <<>>
        /\ call' = [call EXCEPT !.at = "examine", !.source = "events", !.names = events]
    BY <1>3 DEF ReadEvents
  <2>2. /\ call' \in [at : {"examine"}, source : {"events"}, names : Seq(Files),
                      fresh : {call.fresh}]
        /\ call.fresh \in Seq(Files) /\ call.names = <<>>
    BY <2>1 DEF FileInv, FileTypes, CallFlow
  <2>3. NewOnes' = NewOnes /\ Unseen = {} /\ call'.fresh = call.fresh
    BY <2>2, EmptyElems DEF NewOnes, Unseen
  <2>4. seen' = seen /\ events' \in Seq(Files)
    BY <1>1, <2>1, EmptyElems
  <2>5. ~stop => seen' \subseteq Accounted \union Unseen'
    BY <2>3, <2>4 DEF FileInv, Remembered
  <2> QED BY <1>1, <2>1, <2>2, <2>3, <2>4, <2>5, TurnKeeps
<1>4. CASE Scan
  <2>1. /\ call.at = "scan" /\ events' = events
        /\ call' = [call EXCEPT !.at = "examine", !.source = "scan", !.names = Sorted(Present)]
    BY <1>4 DEF Scan
  <2>2. Sorted(Present) \in Seq(Files) /\ Elems(Sorted(Present)) = Present
    BY PresentFiles, SortedLists, SeqMonotonic
  <2>3. /\ call' \in [at : {"examine"}, source : {"scan"}, names : {Sorted(Present)},
                      fresh : {call.fresh}]
        /\ call.fresh \in Seq(Files)
    BY <2>1, <2>2 DEF FileInv, FileTypes
  <2>4. NewOnes' = NewOnes /\ Unseen' = Present /\ call'.fresh = call.fresh
    BY <2>2, <2>3 DEF NewOnes, Unseen
  <2>5. seen' = Present /\ events' \in Seq(Files)
    BY <1>1, <2>1 DEF FileInv, FileTypes
  <2>6. ~stop => seen' \subseteq Accounted \union Unseen'
    BY <2>4, <2>5
  <2> QED BY <1>1, <2>1, <2>2, <2>3, <2>4, <2>5, <2>6, TurnKeeps
<1> QED BY <1>2, <1>3, <1>4

LEMMA ReturnKeeps ==
  ASSUME FileInv, Watcher, Return
  PROVE  FileInv'
<1>1. /\ UNCHANGED <<handles, watcherMemory, stop>> /\ events' = events
      /\ call.at = "examine" /\ call.names = <<>> /\ seen' = seen
      /\ \/ call' = [call EXCEPT !.at = "scan"]
         \/ call' = [call EXCEPT !.at = "returned", !.fresh = Ordered(@)]
  BY DEF Watcher, Return, clientVars, handles, watcherMemory, memory
<1>2. /\ call.source \in {"events", "scan"}
      /\ call.names \in Seq(Files) /\ call.fresh \in Seq(Files) /\ events' \in Seq(Files)
  BY <1>1 DEF FileInv, FileTypes
<1>3. /\ Ordered(call.fresh) \in Seq(Files) /\ Elems(Ordered(call.fresh)) = Elems(call.fresh)
      /\ Distinct(call.fresh) => Distinct(Ordered(call.fresh))
  BY <1>2, FilesAssumption, OrderedSorts
<1>4. /\ call' \in [at : {"scan", "returned"}, source : {call.source}, names : {call.names},
                    fresh : {call.fresh, Ordered(call.fresh)}]
  BY <1>1 DEF FileInv, FileTypes
<1>5. /\ NewOnes' = NewOnes /\ Unseen' = Unseen /\ call'.names = <<>>
      /\ Distinct(call.fresh) => Distinct(call'.fresh)
  BY <1>1, <1>3, <1>4 DEF NewOnes, Unseen
<1>6. ~stop => seen' \subseteq Accounted \union Unseen'
  BY <1>1, <1>5 DEF FileInv, Remembered
<1> QED BY <1>1, <1>2, <1>3, <1>4, <1>5, <1>6, TurnKeeps

(* A name that was retired is passed over: it was returned before. *)
LEMMA ExamineKeeps ==
  ASSUME FileInv, Watcher, Examine
  PROVE  FileInv'
<1>1. /\ UNCHANGED <<handles, watcherMemory, stop>> /\ events' = events
      /\ call.at = "examine" /\ call.names # <<>> /\ seen' = seen
      /\ \/ Head(call.names) \in ToSet(retired) /\ call' = [call EXCEPT !.names = Tail(@)]
         \/ call' = [call EXCEPT !.at = "remember"]
  BY DEF Watcher, Examine, IsRetired, clientVars, handles, watcherMemory, memory
<1>2. /\ call.source \in {"events", "scan"}
      /\ call.names \in Seq(Files) /\ call.fresh \in Seq(Files) /\ events' \in Seq(Files)
  BY <1>1 DEF FileInv, FileTypes
<1>3. /\ Tail(call.names) \in Seq(Files)
      /\ Elems(call.names) = Elems(Tail(call.names)) \union {Head(call.names)}
  BY <1>1, <1>2, TailElems
<1>4. ToSet(retired) = Gone
  BY LenProperties DEF FileInv, FileTypes, ToSet, Gone, Elems
<1>5. CASE Head(call.names) \in Gone /\ call' = [call EXCEPT !.names = Tail(@)]
  <2>1. call' \in [at : {"examine"}, source : {call.source}, names : {Tail(call.names)},
                   fresh : {call.fresh}]
    BY <1>1, <1>5 DEF FileInv, FileTypes
  <2>2. /\ NewOnes' = NewOnes /\ Unseen \subseteq Unseen' \union Gone
        /\ call'.fresh = call.fresh
    BY <1>3, <1>5, <2>1 DEF NewOnes, Unseen
  <2>3. ~stop => seen' \subseteq Accounted \union Unseen'
    BY <1>1, <2>2 DEF FileInv, Remembered
  <2> QED BY <1>1, <1>2, <1>3, <2>1, <2>2, <2>3, TurnKeeps
<1>6. CASE call' = [call EXCEPT !.at = "remember"]
  <2>1. call' \in [at : {"remember"}, source : {call.source}, names : {call.names},
                   fresh : {call.fresh}]
    BY <1>6 DEF FileInv, FileTypes
  <2>2. NewOnes' = NewOnes /\ Unseen' = Unseen /\ call'.fresh = call.fresh
    BY <2>1 DEF NewOnes, Unseen
  <2>3. ~stop => seen' \subseteq Accounted \union Unseen'
    BY <1>1, <2>2 DEF FileInv, Remembered
  <2> QED BY <1>1, <1>2, <2>1, <2>2, <2>3, TurnKeeps
<1> QED BY <1>1, <1>4, <1>5, <1>6

(* A known name is passed over, a new one is known and returned. *)
LEMMA PruneFacts ==
  /\ \A k, o, n : Pruned(k, o, n) \subseteq k
  /\ \A k, o : watch.gcWindow = 0 => Pruned(k, o, Pops(k, o)) = k
<1>1. \A k, o, n : Pruned(k, o, n) \subseteq k
  BY DEF Pruned
<1>2. ASSUME NEW k, NEW o, watch.gcWindow = 0 PROVE Pruned(k, o, Pops(k, o)) = k
  <2>1. Pops(k, o) = 0
    BY <1>2 DEF Pops
  <2>2. SubSeq(o, 1, 0) = <<>>
    BY SubSeqEmpty
  <2>3. ToSet(SubSeq(o, 1, 0)) = {}
    BY <2>2, EmptySeq DEF ToSet
  <2> QED BY <2>1, <2>3 DEF Pruned
<1> QED BY <1>1, <1>2

LEMMA RememberKeeps ==
  ASSUME FileInv, Watcher, Remember
  PROVE  FileInv'
<1> DEFINE f == Head(call.names)
           t == Tail(call.names)
<1>1. /\ UNCHANGED <<handles, watch, retired, marking, stop, events>>
      /\ call.at = "remember" /\ call.names # <<>> /\ seen' = seen
  BY DEF Watcher, Remember, clientVars, handles, FileInv, CallFlow
<1>2. /\ call.source \in {"events", "scan"}
      /\ call.names \in Seq(Files) /\ call.fresh \in Seq(Files) /\ events' \in Seq(Files)
  BY <1>1 DEF FileInv, FileTypes
<1>3. t \in Seq(Files) /\ f \in Files /\ Elems(call.names) = Elems(t) \union {f}
  BY <1>1, <1>2, TailElems
<1> HIDE DEF f, t
<1>4. CASE f \in known
  <2>1. call' = [call EXCEPT !.at = "examine", !.names = t] /\ UNCHANGED known
    BY <1>4 DEF Remember, IsKnown, f, t
  <2>2. call' \in [at : {"examine"}, source : {call.source}, names : {t}, fresh : {call.fresh}]
    BY <2>1 DEF FileInv, FileTypes
  <2>3. /\ NewOnes' = NewOnes /\ Unseen \subseteq Unseen' \union known
        /\ call'.fresh = call.fresh
    BY <1>3, <1>4, <2>2 DEF NewOnes, Unseen
  <2>4. ~stop => seen' \subseteq Accounted \union Unseen'
    BY <1>1, <2>3 DEF FileInv, Remembered
  <2>5. UNCHANGED watcherMemory
    BY <1>1, <2>1 DEF watcherMemory
  <2> QED BY <1>1, <1>2, <1>3, <2>2, <2>3, <2>4, <2>5, TurnKeeps
<1>5. CASE f \notin known
  <2>1. /\ call' = [call EXCEPT !.at = "examine", !.names = t, !.fresh = Append(call.fresh, f)]
        /\ known' = Pruned(known \union {f}, Append(order, f),
                           Pops(known \union {f}, Append(order, f)))
    BY <1>5 DEF Remember, IsKnown, Fresh, f, t
  <2>2. /\ known' \subseteq known \union {f}
        /\ watch.gcWindow = 0 => known' = known \union {f}
    BY <2>1, PruneFacts
  <2>3. /\ Append(call.fresh, f) \in Seq(Files)
        /\ Elems(Append(call.fresh, f)) = NewOnes \union {f}
        /\ Distinct(call.fresh) /\ f \notin NewOnes => Distinct(Append(call.fresh, f))
    BY <1>2, <1>3, AppendElems, AppendDistinct DEF NewOnes
  <2>4. call' \in [at : {"examine"}, source : {call.source}, names : {t},
                   fresh : {Append(call.fresh, f)}]
    BY <2>1 DEF FileInv, FileTypes
  <2>5. /\ NewOnes' = NewOnes \union {f} /\ Unseen \subseteq Unseen' \union {f}
        /\ call'.fresh = Append(call.fresh, f)
    BY <1>3, <2>3, <2>4 DEF NewOnes, Unseen
  <2>6. UNCHANGED <<Gone, Leaving, InBatch, InQueue, AtWork, capture, queued, working, supplied>>
    BY <1>1 DEF handles, Gone, Leaving, InBatch, InQueue, AtWork
  <2>7. FileTypes'
    BY <1>1, <1>2, <1>3, <2>2, <2>3, <2>4, <2>6 DEF FileInv, FileTypes
  <2>8. CallFlow'
    BY <1>1, <2>4, <2>6 DEF FileInv, CallFlow
  <2>9. Remembered'
    BY <1>1, <2>2, <2>5, <2>6 DEF FileInv, Remembered, Accounted
  <2>10. OneHandle'
    <3> SUFFICES ASSUME watch.gcWindow = 0 PROVE OneHandle'
      BY <1>1 DEF OneHandle
    <3>1. f \notin NewOnes /\ f \notin InBatch /\ f \notin InQueue /\ f \notin AtWork
      BY <1>5 DEF FileInv, OneHandle
    <3> QED BY <1>1, <2>2, <2>3, <2>5, <2>6, <3>1 DEF FileInv, OneHandle
  <2> QED BY <2>7, <2>8, <2>9, <2>10 DEF FileInv
<1> QED BY <1>4, <1>5

-----------------------------------------------------------------------------
(* Steps of the client that leave the watcher's memory alone and move       *)
(* handles on.                                                              *)
LEMMA CaptureMoves ==
  ASSUME FileInv, UNCHANGED <<watcherMemory, events, seen, queued, working, supplied, stop>>,
         call' \in [at : {"off", "read", "scan"}, source : {"scan"}, names : {<<>>}, fresh : {<<>>}],
         call'.at = "off" => call' = Idle,
         call'.at # "off" => capture'.at \in {"drain", "wait"},
         call.names = <<>>,
         capture' \in [at : Stations \ {"got"}, batch : Seq(Files), rounds : Nat],
         capture'.at \notin {"put", "putWait"} => capture'.batch = <<>>,
         \/ NewOnes = {} /\ capture'.batch = capture.batch
         \/ capture.batch = <<>> /\ capture'.batch = call.fresh
  PROVE  FileInv'
<1>1. /\ UNCHANGED <<Gone, Leaving, InQueue, AtWork>>
      /\ UNCHANGED <<known, retired, marking, queued, working, watch, supplied, stop, seen>>
  BY DEF watcherMemory, Gone, Leaving, InQueue, AtWork
<1>2. call'.fresh = <<>> /\ call'.names = <<>> /\ NewOnes' = {} /\ Unseen' = {} /\ Unseen = {}
  BY EmptyElems DEF NewOnes, Unseen
<1>3. NewOnes \union InBatch = InBatch'
  BY EmptyElems DEF NewOnes, InBatch
<1>4. FileTypes'
  BY <1>1, EmptyElems DEF FileInv, FileTypes
<1>5. CallFlow'
  BY <1>1, <1>2 DEF CallFlow
<1>6. Remembered'
  BY <1>1, <1>2, <1>3 DEF FileInv, Remembered, Accounted
<1>7. OneHandle'
  <2>1. watch.gcWindow = 0 => Distinct(capture'.batch) /\ Distinct(call'.fresh)
    BY <1>2, EmptyElems DEF FileInv, OneHandle
  <2> QED BY <1>1, <1>2, <1>3, <2>1 DEF FileInv, OneHandle
<1> QED BY <1>4, <1>5, <1>6, <1>7 DEF FileInv

LEMMA IdleCall == Idle \in [at : {"off"}, source : {"scan"}, names : {<<>>}, fresh : {<<>>}]
BY DEF Idle

LEMMA CallSteps ==
  ASSUME Filesystem, FileInv, BeginCapture \/ LoopCapture \/ TakeFiles
  PROVE  FileInv'
<1>1. UNCHANGED <<watcherMemory, events, seen, queued, working, supplied, stop>>
  BY DEF BeginCapture, LoopCapture, TakeFiles, StartCall, EndCall, history, spoolVars,
     watcherMemory, memory
<1>2. /\ capture \in [at : Stations \ {"got"}, batch : Seq(Files), rounds : Nat]
      /\ call.fresh \in Seq(Files)
  BY DEF FileInv, FileTypes
<1>3. CASE BeginCapture \/ LoopCapture
  <2>1. /\ call = Idle /\ capture.batch = <<>>
        /\ capture.at \in {"begin", "loop"}
    BY <1>3 DEF BeginCapture, LoopCapture, StartCall, FileInv, CallFlow, Filesystem
  <2>2. \/ /\ call' = [Idle EXCEPT !.at = "scan"] /\ capture' = [capture EXCEPT !.at = "drain"]
        \/ /\ call' = [Idle EXCEPT !.at = "read"] /\ capture' = [capture EXCEPT !.at = "wait"]
        \/ /\ call' = call /\ capture' = [capture EXCEPT !.at = "ended"]
    BY <1>3 DEF BeginCapture, LoopCapture, StartCall, Filesystem, spoolVars
  <2>3. /\ call' \in [at : {"off", "read", "scan"}, source : {"scan"}, names : {<<>>},
                      fresh : {<<>>}]
        /\ call'.at = "off" => call' = Idle
    BY <2>1, <2>2 DEF Idle
  <2>4. /\ capture' \in [at : Stations \ {"got"}, batch : Seq(Files), rounds : Nat]
        /\ capture'.batch = capture.batch /\ capture'.at \in {"drain", "wait", "ended"}
        /\ call'.at # "off" => capture'.at \in {"drain", "wait"}
    BY <1>2, <2>1, <2>2 DEF Stations, Idle
  <2>5. NewOnes = {} /\ call.names = <<>>
    BY <2>1, EmptyElems DEF NewOnes, Idle
  <2> QED BY <1>1, <2>1, <2>3, <2>4, <2>5, CaptureMoves
<1>4. CASE TakeFiles
  <2>1. /\ capture.at \in {"drain", "wait"} /\ call.at = "returned" /\ call' = Idle
        /\ Received(call.fresh, capture.at = "wait")
    BY <1>4 DEF TakeFiles, EndCall
  <2>2. capture.batch = <<>> /\ call.names = <<>>
    BY <2>1 DEF FileInv, CallFlow
  <2>3. /\ capture' \in [at : Stations \ {"got"}, batch : {call.fresh}, rounds : Nat]
        /\ capture'.at # "put" => call.fresh = <<>>
    <3>1. IdleRounds \in Nat
      BY SupplyAssumption
    <3>2. CASE call.fresh # <<>>
      <4>1. capture' = [at |-> "put", batch |-> call.fresh, rounds |-> 0]
        BY <2>1, <3>2 DEF Received
      <4> QED BY <4>1 DEF Stations
    <3>3. CASE call.fresh = <<>>
      <4>1. PICK rounds \in Nat, at \in {"loop", "ended"} :
              \/ capture' = [capture EXCEPT !.at = "loop", !.batch = call.fresh]
              \/ capture' = [at |-> at, batch |-> call.fresh, rounds |-> rounds]
        <5> DEFINE r == IF capture.rounds < IdleRounds THEN capture.rounds + 1 ELSE IdleRounds
                   e == IF SupplyOver(r) THEN "ended" ELSE "loop"
        <5>1. r \in Nat /\ e \in {"loop", "ended"}
          BY <1>2, <3>1
        <5>2. \/ capture' = [capture EXCEPT !.at = "loop", !.batch = call.fresh]
              \/ capture' = [at |-> e, batch |-> call.fresh, rounds |-> r]
          BY <2>1, <3>3 DEF Received
        <5> HIDE DEF r, e
        <5> QED BY <5>1, <5>2
      <4>2. CASE capture' = [at |-> at, batch |-> call.fresh, rounds |-> rounds]
        BY <3>3, <4>2 DEF Stations
      <4>3. CASE capture' = [capture EXCEPT !.at = "loop", !.batch = call.fresh]
        <5>1. capture' = [at |-> "loop", batch |-> call.fresh, rounds |-> capture.rounds]
              /\ capture.rounds \in Nat
          BY <1>2, <4>3
        <5> QED BY <3>3, <5>1 DEF Stations
      <4> QED BY <4>1, <4>2, <4>3
    <3> QED BY <3>2, <3>3
  <2>4. /\ capture' \in [at : Stations \ {"got"}, batch : Seq(Files), rounds : Nat]
        /\ capture'.batch = call.fresh
        /\ capture'.at \notin {"put", "putWait"} => capture'.batch = <<>>
    BY <1>2, <2>3
  <2> QED BY <1>1, <2>1, <2>2, <2>4, CaptureMoves, IdleCall
<1> QED BY <1>3, <1>4

LEMMA WaitKeeps ==
  ASSUME FileInv, PutWaits \/ PutStopped
  PROVE  FileInv'
<1>1. /\ UNCHANGED <<watcherMemory, events, call, seen, queued, working, supplied, stop>>
      /\ capture.at \in {"put", "putWait"}
      /\ \/ capture' = [capture EXCEPT !.at = "putWait"]
         \/ stop /\ capture' = [capture EXCEPT !.at = "ended", !.batch = <<>>]
  BY DEF PutWaits, PutStopped, spoolVars, watcherMemory, memory, history
<1>2. /\ capture \in [at : Stations \ {"got"}, batch : Seq(Files), rounds : Nat]
  BY DEF FileInv, FileTypes
<1>3. /\ UNCHANGED <<Gone, Leaving, InQueue, AtWork, NewOnes, Unseen>>
      /\ UNCHANGED <<known, retired, marking, watch>>
  BY <1>1 DEF watcherMemory, Gone, Leaving, InQueue, AtWork, NewOnes, Unseen
<1>4. /\ capture' \in [at : {"putWait", "ended"}, batch : Seq(Files), rounds : Nat]
      /\ capture'.batch = capture.batch \/ (capture'.batch = <<>> /\ stop)
      /\ capture'.at = "ended" => capture'.batch = <<>>
  BY <1>1, <1>2, EmptyElems
<1>5. InBatch' = InBatch \/ (InBatch' = {} /\ stop)
  BY <1>4, EmptyElems DEF InBatch
<1>6. FileTypes'
  BY <1>1, <1>3, <1>4 DEF FileInv, FileTypes, Stations
<1>7. CallFlow'
  <2>1. call.at = "off" /\ call = Idle
    BY <1>1 DEF FileInv, CallFlow
  <2> QED BY <1>1, <1>4, <2>1 DEF FileInv, CallFlow, Idle
<1>8. Remembered'
  BY <1>1, <1>3, <1>5 DEF FileInv, Remembered, Accounted
<1>9. OneHandle'
  <2>1. Distinct(capture.batch) => Distinct(capture'.batch)
    BY <1>4, EmptyElems
  <2> QED BY <1>1, <1>3, <1>5, <2>1 DEF FileInv, OneHandle
<1> QED BY <1>6, <1>7, <1>8, <1>9 DEF FileInv

LEMMA SupplyKeeps ==
  ASSUME FileInv, PutHandle
  PROVE  FileInv'
<1> DEFINE h == Head(capture.batch)
           t == Tail(capture.batch)
<1>1. /\ UNCHANGED <<watcherMemory, events, call, seen, working, stop>>
      /\ capture.batch # <<>> /\ queued' = [queued EXCEPT ![h] = @ + 1]
      /\ supplied' = supplied \union {h}
      /\ capture.at \in {"put", "putWait"}
      /\ capture' = [capture EXCEPT !.batch = t,
                       !.at = IF Len(capture.batch) = 1 THEN "loop" ELSE "put"]
  BY DEF PutHandle, spoolVars, watcherMemory, memory
<1>2. capture \in [at : Stations \ {"got"}, batch : Seq(Files), rounds : Nat]
      /\ queued \in [Files -> Nat]
  BY DEF FileInv, FileTypes
<1>3. /\ t \in Seq(Files) /\ h \in Files /\ InBatch = Elems(t) \union {h}
      /\ Distinct(capture.batch) => Distinct(t) /\ h \notin Elems(t)
      /\ Len(capture.batch) = 1 => t = <<>>
  BY <1>1, <1>2, TailElems, TailOfOne DEF InBatch
<1> HIDE DEF h, t
<1>4. /\ capture' \in [at : {"loop", "put"}, batch : {t}, rounds : Nat]
      /\ capture'.at = "loop" => t = <<>>
  BY <1>1, <1>2, <1>3
<1>5. /\ UNCHANGED <<Gone, Leaving, AtWork, NewOnes, Unseen>>
      /\ UNCHANGED <<known, retired, marking, watch>>
  BY <1>1 DEF watcherMemory, Gone, Leaving, AtWork, NewOnes, Unseen
<1>6. /\ InBatch' = Elems(t) /\ InQueue' = InQueue \union {h}
      /\ queued' \in [Files -> Nat] /\ queued'[h] = queued[h] + 1
      /\ \A g \in Files : g # h => queued'[g] = queued[g]
  BY <1>1, <1>2, <1>3, <1>4 DEF InBatch, InQueue
<1>7. FileTypes'
  BY <1>1, <1>3, <1>4, <1>5, <1>6 DEF FileInv, FileTypes, Stations
<1>8. CallFlow'
  <2>1. call.at = "off" /\ call = Idle
    BY <1>1 DEF FileInv, CallFlow
  <2> QED BY <1>1, <1>4, <2>1 DEF FileInv, CallFlow, Idle
<1>9. Remembered'
  BY <1>1, <1>3, <1>5, <1>6 DEF FileInv, Remembered, Accounted
<1>10. OneHandle'
  <2> SUFFICES ASSUME watch.gcWindow = 0 PROVE OneHandle'
    BY <1>5 DEF OneHandle
  <2>1. h \notin InQueue /\ h \notin AtWork /\ h \in known
    BY <1>3 DEF FileInv, OneHandle
  <2>2. queued[h] = 0
    BY <1>2, <1>3, <2>1 DEF InQueue
  <2>3. \A g \in Files : queued'[g] <= 1
    BY <1>6, <2>2 DEF FileInv, OneHandle
  <2>4. Distinct(capture'.batch)
    BY <1>3, <1>4 DEF FileInv, OneHandle
  <2> QED BY <1>1, <1>3, <1>5, <1>6, <2>1, <2>3, <2>4 DEF FileInv, OneHandle
<1> QED BY <1>7, <1>8, <1>9, <1>10 DEF FileInv

LEMMA FileTakeKeeps ==
  ASSUME NEW h \in Files, FileInv, Take(h)
  PROVE  FileInv'
<1>1. /\ UNCHANGED <<watcherMemory, events, call, seen, stop, supplied, capture>>
      /\ queued[h] > 0 /\ queued' = [queued EXCEPT ![h] = @ - 1]
      /\ working' = [working EXCEPT ![h] = @ + 1]
  BY DEF Take, spoolVars, watcherMemory, memory, history
<1>2. queued \in [Files -> Nat] /\ working \in [Files -> Nat] /\ h \in InQueue
  BY <1>1 DEF FileInv, FileTypes, InQueue
<1>3. /\ UNCHANGED <<Gone, Leaving, NewOnes, Unseen, InBatch>>
      /\ UNCHANGED <<known, retired, marking, watch>>
  BY <1>1 DEF watcherMemory, Gone, Leaving, NewOnes, Unseen, InBatch
<1>4. /\ queued' \in [Files -> Nat] /\ working' \in [Files -> Nat]
      /\ InQueue' \subseteq InQueue /\ AtWork' = AtWork \union {h}
      /\ queued'[h] = queued[h] - 1 /\ working'[h] = working[h] + 1
      /\ \A g \in Files : g # h => queued'[g] = queued[g] /\ working'[g] = working[g]
  BY <1>1, <1>2 DEF InQueue, AtWork
<1>5. FileTypes'
  BY <1>1, <1>3, <1>4 DEF FileInv, FileTypes
<1>6. CallFlow'
  BY <1>1 DEF FileInv, CallFlow
<1>7. Remembered'
  BY <1>1, <1>2, <1>3, <1>4 DEF FileInv, Remembered, Accounted
<1>8. OneHandle'
  <2> SUFFICES ASSUME watch.gcWindow = 0 PROVE OneHandle'
    BY <1>3 DEF OneHandle
  <2>1. h \notin AtWork /\ h \notin NewOnes /\ h \notin InBatch /\ queued[h] <= 1
    BY <1>2 DEF FileInv, OneHandle
  <2>2. working[h] = 0 /\ queued[h] = 1
    BY <1>1, <1>2, <2>1 DEF AtWork
  <2>3. h \notin InQueue' /\ \A g \in Files : queued'[g] <= 1 /\ working'[g] <= 1
    BY <1>4, <2>2 DEF InQueue, FileInv, OneHandle
  <2> QED BY <1>1, <1>2, <1>3, <1>4, <2>1, <2>3 DEF FileInv, OneHandle
<1> QED BY <1>5, <1>6, <1>7, <1>8 DEF FileInv

(* on_consumed: the name leaves what is known, and the handle the client.   *)
LEMMA FileConsumeKeeps ==
  ASSUME NEW h \in Files, Filesystem, FileInv, Consume(h)
  PROVE  FileInv'
<1>1. /\ UNCHANGED <<watch, retired, events, call, seen, supplied, capture, queued>>
      /\ working[h] > 0 /\ working' = [working EXCEPT ![h] = @ - 1]
      /\ marking = None /\ marking' = h /\ known' = known \ {h}
      /\ stop' \in {stop, TRUE}
  BY DEF Consume, Forget, history
<1>2. working \in [Files -> Nat] /\ h \in AtWork
  BY <1>1 DEF FileInv, FileTypes, AtWork
<1>3. UNCHANGED <<Gone, NewOnes, Unseen, InBatch, InQueue>> /\ Leaving = {} /\ Leaving' = {h}
  BY <1>1, FilesAssumption DEF Gone, NewOnes, Unseen, InBatch, InQueue, Leaving
<1>4. /\ working' \in [Files -> Nat] /\ AtWork' \subseteq AtWork
      /\ working'[h] = working[h] - 1
      /\ \A g \in Files : g # h => working'[g] = working[g]
  BY <1>1, <1>2 DEF AtWork
<1>5. FileTypes'
  BY <1>1, <1>4 DEF FileInv, FileTypes
<1>6. CallFlow'
  BY <1>1 DEF FileInv, CallFlow
<1>7. Remembered'
  <2>1. h \in supplied
    BY <1>2 DEF FileInv, Remembered
  <2>2. ~stop' => ~stop
    BY <1>1
  <2> QED BY <1>1, <1>3, <1>4, <2>1, <2>2 DEF FileInv, Remembered, Accounted
<1>8. OneHandle'
  <2> SUFFICES ASSUME watch.gcWindow = 0 PROVE OneHandle'
    BY <1>1 DEF OneHandle
  <2>1. h \notin NewOnes /\ h \notin InBatch /\ h \notin InQueue /\ working[h] <= 1
    BY <1>2 DEF FileInv, OneHandle
  <2>2. h \notin AtWork' /\ \A g \in Files : working'[g] <= 1
    BY <1>1, <1>2, <1>4, <2>1 DEF AtWork, FileInv, OneHandle
  <2> QED BY <1>1, <1>3, <1>4, <2>1, <2>2 DEF FileInv, OneHandle
<1> QED BY <1>5, <1>6, <1>7, <1>8 DEF FileInv

(* The second half of mark_consumed. *)
LEMMA RetireKeeps ==
  ASSUME FileInv, EndMark
  PROVE  FileInv'
<1>1. /\ UNCHANGED <<watch, known, events, call, seen, supplied, capture, queued, working, stop>>
      /\ marking # None /\ marking' = None /\ retired' = Retired(marking)
  BY DEF EndMark, Retire, supplyVars, clientVars, history
<1>2. retired \in Seq(Files) /\ marking \in Files /\ Leaving = {marking} /\ Leaving' = {}
  BY <1>1 DEF FileInv, FileTypes, Leaving
<1>3. /\ Append(retired, marking) \in Seq(Files)
      /\ Elems(Append(retired, marking)) = Gone \union {marking}
  BY <1>2, AppendElems DEF Gone
<1>4. ASSUME retired # <<>>
      PROVE  /\ Append(Tail(retired), marking) \in Seq(Files)
             /\ Elems(Append(Tail(retired), marking)) \subseteq Gone \union {marking}
  <2> DEFINE t == Tail(retired)
  <2>1. t \in Seq(Files) /\ Elems(t) \subseteq Gone
    BY <1>2, <1>4, TailElems DEF Gone
  <2> HIDE DEF t
  <2>2. Append(t, marking) \in Seq(Files) /\ Elems(Append(t, marking)) = Elems(t) \union {marking}
    BY <1>2, <2>1, AppendElems
  <2>3. Elems(Append(t, marking)) \subseteq Gone \union {marking}
    BY <2>1, <2>2
  <2> QED BY <2>2, <2>3 DEF t
<1>5. retired' \in Seq(Files) /\ Gone' \subseteq Gone \union {marking}
  <2>1. Len(retired) = watch.historyLimit => retired # <<>>
    <3>1. watch.historyLimit \in Nat \ {0}
      BY WatchesAssumption DEF FileInv, FileTypes
    <3> QED BY <3>1, EmptySeq
  <2>2. Gone' = Elems(retired')
    BY DEF Gone, Elems
  <2> QED BY <1>1, <1>2, <1>3, <1>4, <2>1, <2>2 DEF Retired, Gone
<1>6. UNCHANGED <<NewOnes, Unseen, InBatch, InQueue, AtWork>>
  BY <1>1 DEF NewOnes, Unseen, InBatch, InQueue, AtWork
<1>7. FileTypes'
  BY <1>1, <1>5 DEF FileInv, FileTypes
<1>8. CallFlow'
  BY <1>1 DEF FileInv, CallFlow
<1>9. Remembered'
  BY <1>1, <1>2, <1>5, <1>6 DEF FileInv, Remembered, Accounted
<1>10. OneHandle'
  BY <1>1, <1>6 DEF FileInv, OneHandle
<1> QED BY <1>7, <1>8, <1>9, <1>10 DEF FileInv

-----------------------------------------------------------------------------
LEMMA FilesStep ==
  ASSUME Filesystem, FileInv, Next
  PROVE  FileInv'
<1>0. events \in Seq(Files)
  BY DEF FileInv, FileTypes
<1>1. CASE BeginFile \/ FinishFile
  BY <1>1, FileKeeps
<1>2. CASE Published \/ PublishFailed \/ ExitRecorder \/ Channel
  <2>1. UNCHANGED <<handles, watcherMemory, call, seen, events, stop>>
    BY <1>2 DEF Published, PublishFailed, ExitRecorder, Channel, handles, watcherMemory, memory,
       spoolVars, supplyVars, clientVars, history
  <2> QED BY <1>0, <2>1, BystanderKeeps
<1>3. CASE MonitorSaver \/ MonitorBag \/ Stop
  <2>1. UNCHANGED <<handles, watcherMemory, call, seen, events>> /\ (stop => stop')
    BY <1>3 DEF MonitorSaver, MonitorBag, Stop, handles, watcherMemory, memory, spoolVars, history
  <2> QED BY <1>0, <2>1, BystanderKeeps
<1>4. CASE Watcher
  BY <1>4, LookKeeps, ReturnKeeps, ExamineKeeps, RememberKeeps DEF Watcher, Turn
<1>5. CASE CaptureStep
  <2>1. ~GetBatch /\ ~TakeDescriptors
    BY DEF GetBatch, TakeDescriptors, Filesystem, SharedMemory, FileInv, FileTypes
  <2> QED BY <1>5, <2>1, CallSteps, WaitKeeps, SupplyKeeps DEF CaptureStep
<1>6. CASE HandleStep
  <2>1. PICK h \in Files : Take(h) \/ Materialize(h) \/ Consume(h)
    BY <1>6 DEF HandleStep
  <2>2. ~Materialize(h)
    BY DEF Materialize, Filesystem, SharedMemory
  <2> QED BY <2>1, <2>2, FileTakeKeeps, FileConsumeKeeps
<1>7. CASE EndMark
  BY <1>7, RetireKeeps
<1>8. ~(BeginPublish \/ CloseRecorder \/ TrackRecorder \/ EndReceiver)
  BY DEF BeginPublish, CloseRecorder, TrackRecorder, EndReceiver, Filesystem, SharedMemory
<1> QED BY <1>1, <1>2, <1>3, <1>4, <1>5, <1>6, <1>7, <1>8 DEF Next

SpoolInv == Filesystem => FileInv

LEMMA SpoolInvStep == SpoolInv /\ [Next]_vars => SpoolInv'
<1> SUFFICES ASSUME SpoolInv, [Next]_vars, Filesystem' PROVE FileInv'
  BY DEF SpoolInv
<1>1. CASE Next
  BY <1>1, FilesStep, TransportIsFixed DEF SpoolInv, Filesystem
<1>2. CASE UNCHANGED vars
  <2>1. UNCHANGED <<handles, watcherMemory, call, seen, events, stop, transport>>
    BY <1>2 DEF vars, supplyVars, clientVars, history, spoolVars, handles, watcherMemory, memory
  <2>2. FileInv /\ events \in Seq(Files)
    BY <2>1 DEF SpoolInv, Filesystem, FileInv, FileTypes
  <2> QED BY <2>1, <2>2, BystanderKeeps
<1> QED BY <1>1, <1>2

LEMMA SpoolInvHolds == Spec => []SpoolInv
<1>1. Init => SpoolInv
  BY FileInvInit DEF SpoolInv
<1> QED BY <1>1, SpoolInvStep, PTL DEF Spec

(* EndMeansSupplied holds for any number of files, any window and any       *)
(* history of retired names: what the watcher remembers it has returned,    *)
(* and what it returned is in the queue when the capture ends by itself.    *)
THEOREM EndSupplies == Spec => []EndMeansSupplied
<1>1. SpoolInv => EndMeansSupplied
  <2> SUFFICES ASSUME FileInv, capture.at = "ended", ~stop PROVE seen \subseteq supplied
    BY DEF SpoolInv, EndMeansSupplied
  <2>1. capture.batch = <<>> /\ call = Idle
    BY DEF FileInv, CallFlow
  <2>2. NewOnes = {} /\ InBatch = {} /\ Unseen = {}
    BY <2>1, EmptyElems DEF NewOnes, InBatch, Unseen, Idle
  <2> QED BY <2>2 DEF FileInv, Remembered, Accounted
<1> QED BY SpoolInvHolds, <1>1, PTL

-----------------------------------------------------------------------------
LEMMA OccursOnce ==
  ASSUME NEW T, NEW q \in Seq(T), Distinct(q), NEW h
  PROVE  Occurrences(q, h) = IF h \in Elems(q) THEN 1 ELSE 0
<1> DEFINE I == {i \in DOMAIN q : q[i] = h}
<1>1. DOMAIN q = 1..Len(q)
  BY LenProperties
<1>2. CASE h \in Elems(q)
  <2>1. PICK i \in 1..Len(q) : q[i] = h
    BY <1>2 DEF Elems
  <2>2. I = {i}
    BY <1>1, <2>1 DEF Distinct
  <2> QED BY <1>2, <2>2, FS_Singleton DEF Occurrences
<1>3. CASE h \notin Elems(q)
  <2>1. I = {}
    BY <1>1, <1>3 DEF Elems
  <2> QED BY <1>3, <2>1, FS_EmptySet DEF Occurrences
<1> QED BY <1>2, <1>3

(* A frame in one place at a time, and once there, has one handle.          *)
LEMMA OnePlace ==
  ASSUME NEW h \in Files, queued \in [Files -> Nat], working \in [Files -> Nat],
         call.fresh \in Seq(Files), capture.batch \in Seq(Files),
         Distinct(call.fresh), Distinct(capture.batch), queued[h] <= 1, working[h] <= 1,
         NewOnes \intersect (InBatch \union InQueue \union AtWork) = {},
         InBatch \intersect (InQueue \union AtWork) = {},
         InQueue \intersect AtWork = {}
  PROVE  /\ Handles(h) <= 1
         /\ Handles(h) > 0 => h \in NewOnes \union InBatch \union InQueue \union AtWork
<1> DEFINE a == Occurrences(call.fresh, h)
           b == Occurrences(capture.batch, h)
           c == queued[h]
           d == working[h]
<1>1. a = IF h \in NewOnes THEN 1 ELSE 0
  BY OccursOnce DEF NewOnes
<1>2. b = IF h \in InBatch THEN 1 ELSE 0
  BY OccursOnce DEF InBatch
<1>3. c = IF h \in InQueue THEN 1 ELSE 0
  BY DEF InQueue
<1>4. d = IF h \in AtWork THEN 1 ELSE 0
  BY DEF AtWork
<1>5. Handles(h) = a + b + c + d
  BY DEF Handles
<1> HIDE DEF a, b, c, d
<1> QED BY <1>1, <1>2, <1>3, <1>4, <1>5

(* InPipelineOnce holds for any number of frames, any faults of the channel *)
(* and any race of the watcher with mark_consumed: a file that is known is  *)
(* not returned again, and a published name is one frame's.                 *)
THEOREM OneHandleEach == Spec => []InPipelineOnce
<1>1. SpoolInv /\ ChannelInv => InPipelineOnce
  <2> SUFFICES ASSUME SpoolInv, ChannelInv, watch.gcWindow = 0
               PROVE  /\ \A h \in Files : Handles(h) <= 1
                      /\ \A g, h \in Files :
                           (g # h /\ Handles(g) > 0 /\ Handles(h) > 0) => NameOf(g) # NameOf(h)
    BY DEF InPipelineOnce
  <2>1. CASE Filesystem
    <3>1. FileTypes /\ OneHandle
      BY <2>1 DEF SpoolInv, FileInv
    <3>2. \A h \in Files : Handles(h) <= 1
      BY <3>1, OnePlace DEF FileTypes, OneHandle
    <3> QED BY <2>1, <3>2 DEF NameOf
  <2>2. CASE SharedMemory
    <3>1. call = Idle /\ OwnerTypes /\ OneOwner /\ OwnedIsMade /\ NameInv
      BY <2>2 DEF ChannelInv, OwnerInv
    <3>2. NewOnes = {} /\ call.fresh \in Seq(Files) /\ Distinct(call.fresh)
      BY <3>1, EmptyElems DEF NewOnes, Idle
    <3>3. ASSUME NEW h \in Files
          PROVE  Handles(h) <= 1 /\ (Handles(h) > 0 => h \in Downstream)
      <4>1. Handles(h) <= 1 /\ (Handles(h) > 0 => h \in InBatch \union InQueue \union AtWork)
        BY <3>1, <3>2, OnePlace DEF OwnerTypes, OneOwner
      <4> QED BY <4>1 DEF Downstream
    <3>4. ASSUME NEW g \in Files, NEW h \in Files, g # h, Handles(g) > 0, Handles(h) > 0
          PROVE  name[g] # name[h]
      <4>1. name[g] # 0
        BY <3>1, <3>3, <3>4 DEF NameInv
      <4> QED BY <3>1, <3>4, <4>1, FilesAreSegments DEF NameInv
    <3>5. ~Filesystem
      BY <2>2 DEF SharedMemory, Filesystem
    <3> QED BY <3>3, <3>4, <3>5 DEF NameOf
  <2> QED BY <2>1, <2>2 DEF ChannelInv, Filesystem, SharedMemory
<1> QED BY SpoolInvHolds, ChannelInvHolds, <1>1, PTL

-----------------------------------------------------------------------------
(* Types.  The names left in an order: a least number of them is taken from *)
(* its old end, and mark_consumed takes the first of one name.              *)
LEMMA LeastOf ==
  ASSUME NEW T \in SUBSET Nat, IsFiniteSet(T), T # {}
  PROVE  \E m \in T : \A n \in T : m <= n
<1> DEFINE q == SetToSeq(T)
<1>1. q \in Seq(T) /\ Elems(q) = T
  BY SetListed
<1> HIDE DEF q
<1>2. /\ Ordered(q) \in Seq(T) /\ Len(Ordered(q)) = Len(q) /\ Elems(Ordered(q)) = T
      /\ \A m, n \in 1..Len(q) : m <= n => Ordered(q)[m] <= Ordered(q)[n]
  BY <1>1, OrderedSorts
<1>3. Len(q) \in Nat /\ 1..Len(q) # {}
  BY <1>1, LenProperties DEF Elems
<1>4. 1 \in 1..Len(q) /\ \A n \in 1..Len(q) : 1 <= n
  BY <1>3
<1>5. Ordered(q)[1] \in T /\ \A n \in T : Ordered(q)[1] <= n
  BY <1>2, <1>4 DEF Elems
<1> QED BY <1>5

LEMMA PopsCount ==
  ASSUME NEW k, NEW o \in Seq(Files)
  PROVE  Pops(k, o) \in 0..Len(o)
<1> DEFINE holds(n) == Cardinality(Pruned(k, o, n)) <= watch.gcWindow
           T == {n \in 0..Len(o) : holds(n) \/ n = Len(o)}
<1>1. Len(o) \in Nat
  BY LenProperties
<1>2. T \in SUBSET Nat /\ IsFiniteSet(T) /\ T # {}
  <2>1. T \in SUBSET (0..Len(o)) /\ IsFiniteSet(0..Len(o)) /\ Len(o) \in T
    BY <1>1, FS_Interval
  <2>2. IsFiniteSet(T)
    BY <2>1, FS_Subset
  <2> QED BY <1>1, <2>1, <2>2
<1>3. PICK m \in T : \A n \in T : m <= n
  BY <1>2, LeastOf
<1>4. \E n \in 0..Len(o) : /\ holds(n) \/ n = Len(o)
                          /\ \A i \in 0..(n - 1) : ~holds(i)
  <2>1. m \in 0..Len(o) /\ (holds(m) \/ m = Len(o))
    OBVIOUS
  <2>2. ASSUME NEW i \in 0..(m - 1), holds(i) PROVE FALSE
    <3>1. i \in 0..Len(o) /\ i < m
      BY <1>1, <2>1
    <3>2. i \in T
      BY <2>2, <3>1
    <3> HIDE DEF T, holds
    <3> QED BY <1>1, <1>3, <2>1, <3>1, <3>2
  <2> QED BY <2>1, <2>2
<1>5. CASE watch.gcWindow = 0
  BY <1>1, <1>5 DEF Pops
<1>6. CASE watch.gcWindow # 0
  <2>1. Pops(k, o) = CHOOSE n \in 0..Len(o) : /\ holds(n) \/ n = Len(o)
                                             /\ \A i \in 0..(n - 1) : ~holds(i)
    BY <1>6 DEF Pops
  <2> HIDE DEF holds
  <2> QED BY <1>4, <2>1
<1> QED BY <1>5, <1>6

LEMMA FirstRemoved ==
  ASSUME NEW o \in Seq(Files), NEW f
  PROVE  RemoveFirst(o, f) \in Seq(Files)
<1> DEFINE I == {i \in 1..Len(o) : o[i] = f}
<1>1. Len(o) \in Nat /\ \A i \in 1..Len(o) : o[i] \in Files
  BY LenProperties, ElementOfSeq
<1>2. CASE I = {}
  BY <1>2 DEF RemoveFirst
<1>3. CASE I # {}
  <2>1. I \in SUBSET (1..Len(o)) /\ I \in SUBSET Nat /\ IsFiniteSet(1..Len(o))
    <3>1. IsFiniteSet(1..Len(o))
      BY <1>1, FS_Interval
    <3> QED BY <3>1
  <2>2. \E m \in I : \A n \in I : m <= n
    <3>1. IsFiniteSet(I)
      BY <2>1, FS_Subset
    <3> HIDE DEF I
    <3> QED BY <1>3, <2>1, <3>1, LeastOf
  <2>3. Min(I) \in I
    BY <2>2 DEF Min
  <2>4. RemoveFirst(o, f) = RemoveAt(o, Min(I))
    BY <1>3 DEF RemoveFirst, SelectInSeq
  <2> DEFINE i == Min(I)
  <2>5. i \in 1..Len(o)
    BY <2>3
  <2> HIDE DEF i, I
  <2>6. SubSeq(o, 1, i - 1) \in Seq(Files)
    BY <1>1, <2>5, SubSeqProperties
  <2>7. SubSeq(o, i + 1, Len(o)) \in Seq(Files)
    BY <1>1, <2>5, SubSeqProperties
  <2> QED BY <2>4, <2>6, <2>7, ConcatProperties DEF RemoveAt, i
<1> QED BY <1>2, <1>3

(* The watcher. *)
SpoolTypes == SpoolTypeOK /\ (call.at = "remember" => call.names # <<>>)

LEMMA TurnKeepsTypes ==
  ASSUME SpoolTypes, Turn
  PROVE  SpoolTypes'
<1>1. /\ call.source \in {"events", "scan"}
      /\ call.names \in Seq(Files) /\ call.fresh \in Seq(Files)
      /\ events \in Seq(Files) /\ known \subseteq Files /\ order \in Seq(Files)
  BY DEF SpoolTypes, SpoolTypeOK, Calls
<1>2. UNCHANGED <<watch, file, retired, marking>>
  BY DEF Turn, ReadNothing, ReadEvents, Scan, Examine, Remember, Return, memory
<1>3. ASSUME NEW at \in {"scan", "examine", "remember", "returned"}, NEW q \in Seq(Files),
             NEW new \in Seq(Files),
             call' \in [at : {at}, source : {"events", "scan"}, names : {q}, fresh : {new}],
             at = "remember" => q # <<>>,
             events' \in Seq(Files), known' \subseteq Files, order' \in Seq(Files)
      PROVE  SpoolTypes'
  <2>1. call' \in Calls /\ (call'.at = "remember" => call'.names # <<>>)
    BY <1>3 DEF Calls
  <2> QED BY <1>2, <1>3, <2>1 DEF SpoolTypes, SpoolTypeOK
<1>4. CASE ReadNothing
  <2>1. call' \in [at : {"scan"}, source : {"events", "scan"}, names : {call.names},
                   fresh : {call.fresh}]
    BY <1>1, <1>4 DEF ReadNothing, SpoolTypes, SpoolTypeOK, Calls
  <2>2. UNCHANGED <<events, known, order>>
    BY <1>4 DEF ReadNothing, memory
  <2> QED BY <1>1, <1>3, <2>1, <2>2
<1>5. CASE ReadEvents
  <2>1. call' \in [at : {"examine"}, source : {"events", "scan"}, names : {events},
                   fresh : {call.fresh}]
    BY <1>1, <1>5 DEF ReadEvents, SpoolTypes, SpoolTypeOK, Calls
  <2>2. UNCHANGED <<known, order>> /\ events' \in Seq(Files)
    BY <1>5, EmptySeq DEF ReadEvents, memory
  <2> QED BY <1>1, <1>3, <2>1, <2>2
<1>6. CASE Scan
  <2>1. Sorted(Present) \in Seq(Files)
    BY PresentFiles, SortedLists, SeqMonotonic
  <2>2. call' \in [at : {"examine"}, source : {"events", "scan"}, names : {Sorted(Present)},
                   fresh : {call.fresh}]
    BY <1>1, <1>6 DEF Scan, SpoolTypes, SpoolTypeOK, Calls
  <2>3. UNCHANGED <<events, known, order>>
    BY <1>6 DEF Scan, memory
  <2> QED BY <1>1, <1>3, <2>1, <2>2, <2>3
<1>7. CASE Examine
  <2>1. call.names # <<>> /\ UNCHANGED <<events, known, order>>
    BY <1>7 DEF Examine, memory
  <2>2. Tail(call.names) \in Seq(Files)
    BY <1>1, <2>1, HeadTailProperties
  <2>3. CASE call' = [call EXCEPT !.names = Tail(@)]
    <3>1. call' \in [at : {"examine"}, source : {"events", "scan"}, names : {Tail(call.names)},
                     fresh : {call.fresh}]
      BY <1>1, <1>7, <2>3 DEF Examine, SpoolTypes, SpoolTypeOK, Calls
    <3> QED BY <1>1, <1>3, <2>1, <2>2, <3>1
  <2>4. CASE call' = [call EXCEPT !.at = "remember"]
    <3>1. call' \in [at : {"remember"}, source : {"events", "scan"}, names : {call.names},
                     fresh : {call.fresh}]
      BY <1>1, <2>4 DEF SpoolTypes, SpoolTypeOK, Calls
    <3> QED BY <1>1, <1>3, <2>1, <3>1
  <2> QED BY <1>7, <2>3, <2>4 DEF Examine
<1>8. CASE Remember
  <2> DEFINE f == Head(call.names)
             k == known \union {f}
             o == Append(order, f)
  <2>1. call.names # <<>> /\ UNCHANGED events
    BY <1>8 DEF Remember, SpoolTypes
  <2>2. /\ Tail(call.names) \in Seq(Files) /\ f \in Files
        /\ o \in Seq(Files) /\ k \subseteq Files /\ Append(call.fresh, f) \in Seq(Files)
    BY <1>1, <2>1, HeadTailProperties, AppendProperties
  <2>3. CASE IsKnown(f)
    <3>1. /\ call' = [call EXCEPT !.at = "examine", !.names = Tail(@)]
          /\ UNCHANGED <<known, order>>
      BY <1>8, <2>3 DEF Remember
    <3>2. call' \in [at : {"examine"}, source : {"events", "scan"}, names : {Tail(call.names)},
                     fresh : {call.fresh}]
      BY <1>1, <3>1 DEF SpoolTypes, SpoolTypeOK, Calls
    <3> QED BY <1>1, <1>3, <2>1, <2>2, <3>1, <3>2
  <2>4. CASE ~IsKnown(f)
    <3>1. /\ call' = [call EXCEPT !.at = "examine", !.names = Tail(@), !.fresh = Fresh(f)]
          /\ known' = Pruned(k, o, Pops(k, o))
          /\ order' = SubSeq(o, Pops(k, o) + 1, Len(o))
      BY <1>8, <2>4 DEF Remember
    <3>2. call' \in [at : {"examine"}, source : {"events", "scan"}, names : {Tail(call.names)},
                     fresh : {Append(call.fresh, f)}]
      BY <1>1, <3>1 DEF Fresh, SpoolTypes, SpoolTypeOK, Calls
    <3>3. known' \subseteq Files
      BY <2>2, <3>1, PruneFacts
    <3>4. order' \in Seq(Files)
      <4> HIDE DEF k, o
      <4>1. Pops(k, o) \in 0..Len(o) /\ Len(o) \in Nat /\ \A i \in 1..Len(o) : o[i] \in Files
        BY <2>2, PopsCount, LenProperties, ElementOfSeq
      <4> QED BY <3>1, <4>1, SubSeqProperties
    <3> QED BY <1>1, <1>3, <2>1, <2>2, <3>2, <3>3, <3>4
  <2> QED BY <2>3, <2>4
<1>9. CASE Return
  <2>1. UNCHANGED <<events, known, order>> /\ Ordered(call.fresh) \in Seq(Files)
    BY <1>1, <1>9, FilesAssumption, OrderedSorts DEF Return, memory
  <2>2. \/ call' \in [at : {"scan"}, source : {"events", "scan"}, names : {call.names},
                      fresh : {call.fresh}]
        \/ call' \in [at : {"returned"}, source : {"events", "scan"}, names : {call.names},
                      fresh : {Ordered(call.fresh)}]
    BY <1>1, <1>9 DEF Return, SpoolTypes, SpoolTypeOK, Calls
  <2> QED BY <1>1, <1>3, <2>1, <2>2
<1> QED BY <1>4, <1>5, <1>6, <1>7, <1>8, <1>9 DEF Turn

(* mark_consumed; the history of retired names keeps to its limit. *)
LEMMA MarkKeepsTypes ==
  ASSUME SpoolTypes, (\E h \in Files : Forget(h)) \/ Retire
  PROVE  SpoolTypes'
<1>1. CASE \E h \in Files : Forget(h)
  <2>1. PICK h \in Files : Forget(h)
    BY <1>1
  <2>2. order' \in Seq(Files) /\ known' \subseteq Files /\ marking' \in Files
    BY <2>1, FirstRemoved DEF Forget, SpoolTypes, SpoolTypeOK
  <2>3. UNCHANGED <<watch, file, events, retired, call>>
    BY <2>1 DEF Forget
  <2> QED BY <2>2, <2>3 DEF SpoolTypes, SpoolTypeOK
<1>2. CASE Retire
  <2>1. /\ retired \in Seq(Files) /\ marking \in Files /\ Len(retired) \in Nat
        /\ Len(retired) <= watch.historyLimit /\ watch.historyLimit \in Nat \ {0}
    BY <1>2, WatchesAssumption, LenProperties DEF Retire, SpoolTypes, SpoolTypeOK
  <2>2. retired' = Retired(marking) /\ marking' = None
        /\ UNCHANGED <<watch, file, events, known, order, call>>
    BY <1>2 DEF Retire
  <2>3. retired' \in Seq(Files) /\ Len(retired') <= watch.historyLimit
    <3>1. CASE marking \in ToSet(retired)
      BY <2>1, <2>2, <3>1 DEF Retired
    <3>2. CASE marking \notin ToSet(retired) /\ Len(retired) = watch.historyLimit
      <4>1. retired # <<>>
        BY <2>1, <3>2, EmptySeq
      <4>2. Tail(retired) \in Seq(Files) /\ Len(Tail(retired)) = Len(retired) - 1
        BY <2>1, <4>1, HeadTailProperties
      <4>3. retired' = Append(Tail(retired), marking)
        BY <2>2, <3>2 DEF Retired
      <4>4. retired' \in Seq(Files) /\ Len(retired') = Len(Tail(retired)) + 1
        BY <2>1, <4>2, <4>3, AppendProperties
      <4> QED BY <2>1, <4>2, <4>4
    <3>3. CASE marking \notin ToSet(retired) /\ Len(retired) # watch.historyLimit
      <4>1. retired' = Append(retired, marking)
        BY <2>2, <3>3 DEF Retired
      <4>2. retired' \in Seq(Files) /\ Len(retired') = Len(retired) + 1
        BY <2>1, <4>1, AppendProperties
      <4> QED BY <2>1, <3>3, <4>2
    <3> QED BY <3>1, <3>2, <3>3
  <2> QED BY <2>2, <2>3 DEF SpoolTypes, SpoolTypeOK
<1> QED BY <1>1, <1>2

LEMMA SpoolTypesKept == SpoolTypes /\ [Next]_vars => SpoolTypes'
<1> SUFFICES ASSUME SpoolTypes, [Next]_vars PROVE SpoolTypes'
  OBVIOUS
<1>1. ASSUME UNCHANGED spoolVars PROVE SpoolTypes'
  BY <1>1 DEF spoolVars, SpoolTypes, SpoolTypeOK
<1>2. CASE BeginFile \/ FinishFile
  <2>1. frame \in Files /\ Notify(frame)
    BY <1>2 DEF BeginFile, FinishFile, CreateFile, CloseFile
  <2>2. events' \in Seq(Files)
    BY <2>1, AppendProperties DEF Notify, SpoolTypes, SpoolTypeOK
  <2>3. /\ file' \in [Files -> {"absent", "open", "whole"}]
        /\ UNCHANGED <<watch, known, order, retired, call, marking>>
    BY <1>2 DEF BeginFile, FinishFile, CreateFile, CloseFile, memory, SpoolTypes, SpoolTypeOK
  <2> QED BY <2>2, <2>3 DEF SpoolTypes, SpoolTypeOK
<1>3. CASE Watcher
  BY <1>3, TurnKeepsTypes DEF Watcher
<1>4. CASE BeginCapture \/ LoopCapture \/ TakeFiles
  <2>1. \/ UNCHANGED spoolVars
        \/ /\ \E at \in {"off", "scan", "read"} : call' = [Idle EXCEPT !.at = at]
           /\ UNCHANGED <<watch, file, events, memory, marking>>
    <3>1. Idle = [Idle EXCEPT !.at = "off"]
      BY DEF Idle
    <3> QED BY <1>4, <3>1 DEF BeginCapture, LoopCapture, TakeFiles, StartCall, EndCall
  <2>2. CASE \E at \in {"off", "scan", "read"} : call' = [Idle EXCEPT !.at = at]
    <3>1. call' \in [at : {"off", "scan", "read"}, source : {"scan"}, names : {<<>>},
                     fresh : {<<>>}]
      BY <2>2 DEF Idle
    <3>2. call' \in Calls /\ call'.at # "remember"
      BY <3>1, EmptySeq DEF Calls
    <3> QED BY <1>1, <2>1, <3>2 DEF memory, SpoolTypes, SpoolTypeOK
  <2> QED BY <1>1, <2>1, <2>2
<1>5. CASE HandleStep
  <2>1. PICK h \in Files : Take(h) \/ Materialize(h) \/ Consume(h)
    BY <1>5 DEF HandleStep
  <2>2. UNCHANGED spoolVars \/ Forget(h)
    BY <2>1 DEF Take, Materialize, Consume
  <2> QED BY <1>1, <2>2, MarkKeepsTypes
<1>6. CASE EndMark
  BY <1>6, MarkKeepsTypes DEF EndMark
<1>7. CASE GetBatch \/ TakeDescriptors \/ PutHandle \/ PutWaits \/ PutStopped
  BY <1>1, <1>7 DEF GetBatch, TakeDescriptors, PutHandle, PutWaits, PutStopped
<1>8. CASE BeginPublish \/ Published \/ PublishFailed \/ CloseRecorder \/ ExitRecorder
             \/ TrackRecorder \/ Channel \/ MonitorSaver \/ MonitorBag \/ Stop \/ EndReceiver
  BY <1>1, <1>8 DEF BeginPublish, Published, PublishFailed, CloseRecorder, ExitRecorder,
     TrackRecorder, Channel, MonitorSaver, MonitorBag, Stop, EndReceiver
<1>9. CASE UNCHANGED vars
  BY <1>1, <1>9 DEF vars
<1> QED BY <1>2, <1>3, <1>4, <1>5, <1>6, <1>7, <1>8, <1>9 DEF Next, CaptureStep

(* The finally block of publish(), with or without a torn line to count. *)
LEMMA ScheduleKeepsTypes ==
  ASSUME ChannelTypeOK, NEW s \in Segments, NEW cut \in Nat,
         faults.torn + cut \in 0..MaxTorn, ScheduleUnlink(s, cut)
  PROVE  /\ segment' \in [Segments -> {"unmade", "live", "gone"}]
         /\ dangling' \in Seq(Segments)
         /\ faults' \in [torn : 0..MaxTorn, unlink : 0..MaxUnlinkFaults]
<1>1. /\ segment \in [Segments -> {"unmade", "live", "gone"}] /\ dangling \in Seq(Segments)
      /\ faults = [torn |-> faults.torn, unlink |-> faults.unlink]
      /\ faults.unlink \in 0..MaxUnlinkFaults
  BY DEF ChannelTypeOK
<1>2. Append(dangling, s) \in Seq(Segments)
  BY <1>1, AppendProperties
<1>3. CASE /\ segment' = [segment EXCEPT ![s] = "gone"]
           /\ faults' = [faults EXCEPT !.torn = faults.torn + cut]
           /\ UNCHANGED dangling
  <2>1. faults' = [torn |-> faults.torn + cut, unlink |-> faults.unlink]
    BY <1>1, <1>3
  <2>2. segment' \in [Segments -> {"unmade", "live", "gone"}]
    BY <1>1, <1>3
  <2> QED BY <1>1, <1>3, <2>1, <2>2
<1>4. CASE /\ faults.unlink < MaxUnlinkFaults
           /\ faults' = [torn |-> faults.torn + cut, unlink |-> faults.unlink + 1]
           /\ dangling' = Append(dangling, s)
           /\ UNCHANGED segment
  <2>1. faults.unlink + 1 \in 0..MaxUnlinkFaults
    BY <1>1, <1>4, FaultsAssumption
  <2> QED BY <1>1, <1>2, <1>4, <2>1
<1> QED BY <1>3, <1>4 DEF ScheduleUnlink, TryUnlink

(* The channel.  Its names are those of the recorder's clouds. *)
LEMMA ChannelTypesKept == ChannelTypeOK /\ idx \in Nat /\ [Next]_vars => ChannelTypeOK'
<1> SUFFICES ASSUME ChannelTypeOK, idx \in Nat, [Next]_vars PROVE ChannelTypeOK'
  OBVIOUS
<1>0. /\ wire \in Seq(Lines) /\ inbox \in Seq(Descriptors) /\ dangling \in Seq(Segments)
      /\ faults \in [torn : 0..MaxTorn, unlink : 0..MaxUnlinkFaults]
      /\ faults.torn \in 0..MaxTorn /\ faults.unlink \in 0..MaxUnlinkFaults
      /\ MaxTorn \in Nat /\ MaxUnlinkFaults \in Nat
  BY FaultsAssumption DEF ChannelTypeOK
<1>1. ASSUME UNCHANGED channelVars PROVE ChannelTypeOK'
  BY <1>1 DEF channelVars, ChannelTypeOK
<1>2. CASE BeginPublish \/ TrackRecorder
  BY <1>2 DEF BeginPublish, TrackRecorder, MakeSegment, TrackerUnlinks, ChannelTypeOK
<1>3. CASE Published
  <2> DEFINE line == [segment |-> publishing, stem |-> idx, clean |-> ~torn]
  <2>1. /\ publishing # NoSegment /\ wire' = Append(wire, line)
        /\ connected' = TRUE /\ torn' = FALSE /\ publishing' = NoSegment
        /\ UNCHANGED <<segment, closing, receiver, inbox, dangling, faults>>
    BY <1>3 DEF Published, SendLine, Kept
  <2>2. line \in Lines
    <3>1. publishing \in Segments /\ (~torn) \in BOOLEAN
      BY <2>1 DEF ChannelTypeOK
    <3> QED BY <3>1 DEF Lines
  <2>3. wire' \in Seq(Lines)
    BY <1>0, <2>1, <2>2, AppendProperties
  <2> QED BY <2>1, <2>3 DEF ChannelTypeOK
<1>4. CASE PublishFailed
  <2>1. /\ publishing # NoSegment /\ publishing' = NoSegment
        /\ connected' \in BOOLEAN /\ torn' \in BOOLEAN
        /\ UNCHANGED <<closing, wire, receiver, inbox>>
    BY <1>4 DEF PublishFailed, RefuseLine, TearLine, ChannelTypeOK
  <2>2. publishing \in Segments
    BY <2>1 DEF ChannelTypeOK
  <2>3. /\ segment' \in [Segments -> {"unmade", "live", "gone"}]
        /\ dangling' \in Seq(Segments)
        /\ faults' \in [torn : 0..MaxTorn, unlink : 0..MaxUnlinkFaults]
    <3>1. CASE RefuseLine
      <4>1. faults.torn + 0 \in 0..MaxTorn /\ 0 \in Nat
        BY <1>0
      <4>2. ScheduleUnlink(publishing, 0)
        BY <3>1 DEF RefuseLine
      <4> QED BY <2>2, <4>1, <4>2, ScheduleKeepsTypes
    <3>2. CASE TearLine
      <4>1. faults.torn + 1 \in 0..MaxTorn /\ 1 \in Nat
        BY <1>0, <3>2 DEF TearLine
      <4>2. ScheduleUnlink(publishing, 1)
        BY <3>2 DEF TearLine
      <4> QED BY <2>2, <4>1, <4>2, ScheduleKeepsTypes
    <3> QED BY <1>4, <3>1, <3>2 DEF PublishFailed
  <2> QED BY <2>1, <2>3 DEF ChannelTypeOK
<1>5. CASE CloseRecorder \/ EndReceiver
  BY <1>5 DEF CloseRecorder, EndReceiver, ClosePublisher, StopReceiver, ChannelTypeOK
<1>6. CASE Channel
  <2>1. CASE Accept \/ EndOfStream
    BY <2>1 DEF Accept, EndOfStream, ChannelTypeOK
  <2>2. CASE ReadLine
    <3>1. /\ wire # <<>> /\ wire' = Tail(wire)
          /\ UNCHANGED <<segment, publishing, connected, closing, torn, receiver, dangling, faults>>
          /\ inbox' = IF Head(wire).clean
                      THEN Append(inbox, [segment |-> Head(wire).segment, stem |-> Head(wire).stem])
                      ELSE inbox
      BY <2>2 DEF ReadLine
    <3>2. Head(wire) \in Lines /\ wire' \in Seq(Lines)
      BY <1>0, <3>1, HeadTailProperties
    <3>3. [segment |-> Head(wire).segment, stem |-> Head(wire).stem] \in Descriptors
      BY <3>2 DEF Lines, Descriptors
    <3>4. inbox' \in Seq(Descriptors)
      BY <1>0, <3>1, <3>3, AppendProperties
    <3> QED BY <3>1, <3>2, <3>4 DEF ChannelTypeOK
  <2>3. CASE JanitorTurn
    <3>1. /\ dangling # <<>>
          /\ UNCHANGED <<publishing, connected, closing, torn, wire, receiver, inbox>>
      BY <2>3 DEF JanitorTurn
    <3>2. /\ Head(dangling) \in Segments /\ Tail(dangling) \in Seq(Segments)
          /\ Requeued(dangling) \in Seq(Segments)
      BY <1>0, <3>1, HeadTailProperties, AppendProperties DEF Requeued
    <3>3. /\ segment' \in [Segments -> {"unmade", "live", "gone"}]
          /\ dangling' \in Seq(Segments)
      BY <2>3, <3>2 DEF JanitorTurn, ChannelTypeOK
    <3>4. faults' \in [torn : 0..MaxTorn, unlink : 0..MaxUnlinkFaults]
      BY <1>0, <2>3 DEF JanitorTurn
    <3> QED BY <3>1, <3>3, <3>4 DEF ChannelTypeOK
  <2> QED BY <1>6, <2>1, <2>2, <2>3 DEF Channel
<1>7. CASE GetBatch
  BY <1>7, EmptySeq DEF GetBatch, TakeInbox, ChannelTypeOK
<1>8. CASE HandleStep
  <2>1. PICK h \in Files : Take(h) \/ Materialize(h) \/ Consume(h)
    BY <1>8 DEF HandleStep
  <2>2. UNCHANGED channelVars \/ Unlink(h)
    BY <2>1 DEF Take, Materialize, Consume
  <2>3. CASE Unlink(h)
    BY <2>3, FilesAreSegments DEF Unlink, ChannelTypeOK
  <2> QED BY <1>1, <2>2, <2>3
<1>9. CASE BeginCapture \/ LoopCapture \/ TakeFiles \/ TakeDescriptors \/ PutHandle
             \/ PutWaits \/ PutStopped
  BY <1>1, <1>9 DEF BeginCapture, LoopCapture, TakeFiles, TakeDescriptors, PutHandle,
     PutWaits, PutStopped
<1>10. CASE BeginFile \/ FinishFile \/ ExitRecorder \/ Watcher \/ EndMark
              \/ MonitorSaver \/ MonitorBag \/ Stop
  BY <1>1, <1>10 DEF BeginFile, FinishFile, ExitRecorder, Watcher, EndMark, MonitorSaver,
     MonitorBag, Stop
<1>11. CASE UNCHANGED vars
  BY <1>1, <1>11 DEF vars
<1> QED BY <1>2, <1>3, <1>4, <1>5, <1>6, <1>7, <1>8, <1>9, <1>10, <1>11 DEF Next, CaptureStep

(* The recorder, the capture and the handles. *)
SupplyTypes ==
  /\ transport \in Transports /\ recorder \in {"up", "closed", "down"}
  /\ frame \in Nat /\ idx \in Nat
  /\ capture \in [at : Stations, batch : Seq(Files), rounds : 0..IdleRounds]
  /\ queued \in [Files -> Nat] /\ working \in [Files -> Nat] /\ copied \subseteq Files
  /\ bagDone \in BOOLEAN /\ saverDone \in BOOLEAN /\ stop \in BOOLEAN
  /\ name \in [Segments -> Nat]
  /\ seen \subseteq Files /\ supplied \subseteq Files /\ missing \subseteq Files

(* Whatever a call returned, the capture goes on with it. *)
LEMMA ReceivedTyped ==
  ASSUME capture \in [at : Stations, batch : Seq(Files), rounds : 0..IdleRounds],
         NEW b \in Seq(Files), NEW waited \in BOOLEAN, Received(b, waited)
  PROVE  capture' \in [at : Stations, batch : Seq(Files), rounds : 0..IdleRounds]
<1> DEFINE r == IF capture.rounds < IdleRounds THEN capture.rounds + 1 ELSE IdleRounds
           e == IF SupplyOver(r) THEN "ended" ELSE "loop"
<1>1. IdleRounds \in Nat /\ capture.rounds \in 0..IdleRounds
  BY SupplyAssumption
<1>2. 0 \in 0..IdleRounds /\ r \in 0..IdleRounds
  BY <1>1
<1>3. {"put", "loop", "ended"} \subseteq Stations /\ e \in Stations
  BY DEF Stations
<1>4. capture' = IF b # <<>> THEN [at |-> "put", batch |-> b, rounds |-> 0]
                 ELSE IF ~waited THEN [capture EXCEPT !.at = "loop", !.batch = b]
                 ELSE [at |-> e, batch |-> b, rounds |-> r]
  BY DEF Received
<1> HIDE DEF r, e
<1> QED BY <1>2, <1>3, <1>4

LEMMA CaptureKeepsTypes ==
  ASSUME SpoolTypeOK, ChannelTypeOK, SupplyTypes, CaptureStep
  PROVE  SupplyTypes'
<1>0. /\ capture.at \in Stations /\ capture.batch \in Seq(Files)
      /\ capture.rounds \in 0..IdleRounds
  BY DEF SupplyTypes
<1>1. UNCHANGED <<transport, recorder, frame, idx, working, copied, bagDone, saverDone, stop,
                  name, seen, missing>>
  BY DEF CaptureStep, BeginCapture, LoopCapture, GetBatch, TakeFiles, TakeDescriptors,
     PutHandle, PutWaits, PutStopped, recorderVars, history
<1>2. ASSUME capture' \in [at : Stations, batch : Seq(Files), rounds : 0..IdleRounds],
             queued' \in [Files -> Nat], supplied' \subseteq Files
      PROVE  SupplyTypes'
  BY <1>1, <1>2 DEF SupplyTypes
<1>3. ASSUME NEW at \in Stations, NEW b \in Seq(Files),
             capture' = [capture EXCEPT !.at = at, !.batch = b],
             queued' \in [Files -> Nat], supplied' \subseteq Files
      PROVE  SupplyTypes'
  <2>1. capture' = [at |-> at, batch |-> b, rounds |-> capture.rounds]
    BY <1>3 DEF SupplyTypes
  <2> QED BY <1>0, <1>2, <1>3, <2>1
<1>4. CASE BeginCapture \/ LoopCapture \/ PutWaits \/ PutStopped
  <2>1. UNCHANGED <<queued, supplied>>
    BY <1>4 DEF BeginCapture, LoopCapture, PutWaits, PutStopped, history
  <2>2. capture = [at |-> capture.at, batch |-> capture.batch, rounds |-> capture.rounds]
    BY DEF SupplyTypes
  <2>3. \E at \in {"drain", "loop", "ended", "wait", "putWait"} :
          \/ capture' = [capture EXCEPT !.at = at]
          \/ capture' = [capture EXCEPT !.at = at, !.batch = <<>>]
    BY <1>4 DEF BeginCapture, LoopCapture, PutWaits, PutStopped
  <2>4. PICK at \in {"drain", "loop", "ended", "wait", "putWait"} :
          \/ capture' = [capture EXCEPT !.at = at]
          \/ capture' = [capture EXCEPT !.at = at, !.batch = <<>>]
    BY <2>3
  <2>5. at \in Stations
    BY DEF Stations
  <2>6. queued' \in [Files -> Nat] /\ supplied' \subseteq Files
    BY <2>1 DEF SupplyTypes
  <2>7. CASE capture' = [capture EXCEPT !.at = at]
    <3>1. capture' = [at |-> at, batch |-> capture.batch, rounds |-> capture.rounds]
      BY <2>2, <2>7
    <3> QED BY <1>0, <1>2, <2>5, <2>6, <3>1
  <2>8. CASE capture' = [capture EXCEPT !.at = at, !.batch = <<>>]
    <3>1. capture' = [at |-> at, batch |-> <<>>, rounds |-> capture.rounds]
      BY <2>2, <2>8
    <3>2. <<>> \in Seq(Files)
      BY EmptySeq
    <3> QED BY <1>0, <1>2, <2>5, <2>6, <3>1, <3>2
  <2> QED BY <2>4, <2>7, <2>8
<1>5. CASE GetBatch
  <2>1. capture' = [capture EXCEPT !.at = "got",
                                   !.batch = [i \in DOMAIN inbox |-> inbox[i].segment]]
        /\ UNCHANGED <<queued, supplied>>
    BY <1>5 DEF GetBatch, history
  <2>2. [i \in DOMAIN inbox |-> inbox[i].segment] \in Seq(Files)
    <3>1. inbox \in Seq(Descriptors)
      BY DEF ChannelTypeOK
    <3>2. DOMAIN inbox = 1..Len(inbox) /\ Len(inbox) \in Nat
      BY <3>1, LenProperties
    <3>3. \A i \in 1..Len(inbox) : inbox[i].segment \in Files
      <4>1. \A i \in 1..Len(inbox) : inbox[i] \in Descriptors
        BY <3>1, ElementOfSeq
      <4> QED BY <4>1, FilesAreSegments DEF Descriptors
    <3> QED BY <3>2, <3>3, IsASeq
  <2>3. "got" \in Stations
    BY DEF Stations
  <2> QED BY <1>3, <2>1, <2>2, <2>3 DEF SupplyTypes
<1>6. CASE TakeFiles
  <2>1. call.fresh \in Seq(Files) /\ UNCHANGED <<queued, supplied>>
    BY <1>6 DEF TakeFiles, history, SpoolTypeOK, Calls
  <2> QED BY <1>2, <1>6, <2>1, ReceivedTyped DEF TakeFiles, SupplyTypes
<1>7. CASE TakeDescriptors
  <2>1. UNCHANGED <<queued, supplied>>
    BY <1>7 DEF TakeDescriptors, history
  <2> QED BY <1>0, <1>2, <1>7, <2>1, ReceivedTyped DEF TakeDescriptors, SupplyTypes
<1>8. CASE PutHandle
  <2> DEFINE h == Head(capture.batch)
  <2>1. /\ capture.batch # <<>> /\ queued' = [queued EXCEPT ![h] = @ + 1]
        /\ supplied' = supplied \union {h}
        /\ \E at \in {"loop", "put"} :
             capture' = [capture EXCEPT !.batch = Tail(capture.batch), !.at = at]
    BY <1>8 DEF PutHandle
  <2>2. h \in Files /\ Tail(capture.batch) \in Seq(Files)
    BY <1>0, <2>1, HeadTailProperties
  <2> HIDE DEF h
  <2>3. queued' \in [Files -> Nat] /\ supplied' \subseteq Files
    BY <2>1, <2>2 DEF SupplyTypes
  <2>4. {"loop", "put"} \subseteq Stations
    BY DEF Stations
  <2>5. PICK at \in {"loop", "put"} :
          capture' = [capture EXCEPT !.batch = Tail(capture.batch), !.at = at]
    BY <2>1
  <2>6. capture' = [capture EXCEPT !.at = at, !.batch = Tail(capture.batch)]
    BY <2>5 DEF SupplyTypes
  <2> QED BY <1>3, <2>2, <2>3, <2>4, <2>6
<1> QED BY <1>4, <1>5, <1>6, <1>7, <1>8 DEF CaptureStep

LEMMA SupplyTypesKept ==
  SpoolTypeOK /\ ChannelTypeOK /\ SupplyTypes /\ [Next]_vars => SupplyTypes'
<1> SUFFICES ASSUME SpoolTypeOK, ChannelTypeOK, SupplyTypes, [Next]_vars PROVE SupplyTypes'
  OBVIOUS
<1>1. ASSUME UNCHANGED <<clientVars, seen, supplied, missing, transport>>,
             recorder' \in {"up", "closed", "down"}, frame' \in Nat, idx' \in Nat,
             name' \in [Segments -> Nat]
      PROVE  SupplyTypes'
  BY <1>1 DEF clientVars, SupplyTypes
<1>2. CASE BeginFile \/ FinishFile \/ BeginPublish \/ Published \/ PublishFailed
             \/ CloseRecorder \/ ExitRecorder \/ TrackRecorder \/ Channel \/ EndMark
             \/ EndReceiver
  <2>1. UNCHANGED <<clientVars, seen, supplied, missing, transport>>
    BY <1>2 DEF BeginFile, FinishFile, BeginPublish, Published, PublishFailed, CloseRecorder,
       ExitRecorder, TrackRecorder, Channel, EndMark, EndReceiver, supplyVars, history
  <2>2. /\ recorder' \in {"up", "closed", "down"}
        /\ frame' = frame \/ frame' = frame + 1
        /\ idx' = idx \/ idx' = idx + 1
        /\ name' = name \/ name' = [name EXCEPT ![frame] = idx]
    BY <1>2 DEF BeginFile, FinishFile, BeginPublish, Published, PublishFailed, CloseRecorder,
       ExitRecorder, TrackRecorder, Channel, EndMark, EndReceiver, supplyVars, recorderVars,
       history, SupplyTypes
  <2>3. frame' \in Nat /\ idx' \in Nat /\ name' \in [Segments -> Nat]
    <3>1. frame \in Nat /\ idx \in Nat /\ name \in [Segments -> Nat]
      BY DEF SupplyTypes
    <3>2. frame + 1 \in Nat /\ idx + 1 \in Nat
      BY <3>1
    <3>3. [name EXCEPT ![frame] = idx] \in [Segments -> Nat]
      BY <3>1
    <3> QED BY <2>2, <3>1, <3>2, <3>3
  <2> QED BY <1>1, <2>1, <2>2, <2>3
<1>3. CASE Watcher
  <2>1. seen' \subseteq Files
    BY <1>3 DEF Watcher, Present, SupplyTypes
  <2>2. UNCHANGED <<transport, recorderVars, clientVars, name, supplied, missing>>
    BY <1>3 DEF Watcher
  <2> QED BY <2>1, <2>2 DEF recorderVars, clientVars, SupplyTypes
<1>4. CASE CaptureStep
  BY <1>4, CaptureKeepsTypes
<1>5. CASE HandleStep
  <2>1. PICK h \in Files : Take(h) \/ Materialize(h) \/ Consume(h)
    BY <1>5 DEF HandleStep
  <2>2. /\ UNCHANGED <<transport, recorder, frame, idx, capture, bagDone, saverDone, name,
                       seen, supplied>>
        /\ copied' \subseteq Files /\ missing' \subseteq Files
    BY <2>1 DEF Take, Materialize, Consume, recorderVars, history, SupplyTypes
  <2>3. stop' \in BOOLEAN
    BY <2>1 DEF Take, Materialize, Consume, SupplyTypes
  <2>4. queued' \in [Files -> Nat] /\ working' \in [Files -> Nat]
    <3>1. queued \in [Files -> Nat] /\ working \in [Files -> Nat]
      BY DEF SupplyTypes
    <3>2. queued' = queued \/ (queued[h] > 0 /\ queued' = [queued EXCEPT ![h] = queued[h] - 1])
      BY <2>1 DEF Take, Materialize, Consume
    <3>3. \/ working' = working \/ working' = [working EXCEPT ![h] = working[h] + 1]
          \/ working[h] > 0 /\ working' = [working EXCEPT ![h] = working[h] - 1]
      BY <2>1 DEF Take, Materialize, Consume
    <3> QED BY ONLY <3>1, <3>2, <3>3
  <2> QED BY <2>2, <2>3, <2>4 DEF SupplyTypes
<1>6. CASE MonitorSaver \/ MonitorBag \/ Stop
  BY <1>6 DEF MonitorSaver, MonitorBag, Stop, recorderVars, history, SupplyTypes
<1>7. CASE UNCHANGED vars
  BY <1>1, <1>7 DEF vars, supplyVars, recorderVars, history, SupplyTypes
<1> QED BY <1>2, <1>3, <1>4, <1>5, <1>6, <1>7 DEF Next

(* Every variable keeps its type, whichever transport a run uses. *)
THEOREM TypeCorrect == Spec => []TypeOK
<1> DEFINE TypeInv == SpoolTypes /\ ChannelTypeOK /\ SupplyTypes
<1>1. Init => TypeInv
  <2> SUFFICES ASSUME Init PROVE TypeInv
    OBVIOUS
  <2>1. Idle \in Calls /\ Idle.at # "remember"
    BY EmptySeq DEF Idle, Calls
  <2>2. Len(<<>>) <= watch.historyLimit
    BY WatchesAssumption, EmptySeq DEF Init, SpoolInit
  <2>3. SpoolTypes
    BY <2>1, <2>2, EmptySeq DEF Init, SpoolInit, SpoolTypes, SpoolTypeOK
  <2>4. ChannelTypeOK
    <3>1. faults \in [torn : 0..MaxTorn, unlink : 0..MaxUnlinkFaults]
      BY FaultsAssumption DEF Init, ChannelInit
    <3> QED BY <3>1, EmptySeq DEF Init, ChannelInit, ChannelTypeOK
  <2>5. SupplyTypes
    <3>1. 0 \in 0..IdleRounds /\ 0 \in Nat /\ 1 \in Nat
      BY SupplyAssumption
    <3>2. <<>> \in Seq(Files) /\ "begin" \in Stations
      BY EmptySeq DEF Stations
    <3>3. capture \in [at : Stations, batch : Seq(Files), rounds : 0..IdleRounds]
      BY <3>1, <3>2 DEF Init
    <3>4. /\ queued \in [Files -> Nat] /\ working \in [Files -> Nat]
          /\ name \in [Segments -> Nat]
      BY <3>1 DEF Init
    <3>5. /\ transport \in Transports /\ recorder = "up" /\ frame = 1 /\ idx = 1
          /\ bagDone = FALSE /\ saverDone = FALSE /\ stop = FALSE
          /\ copied = {} /\ seen = {} /\ supplied = {} /\ missing = {}
      BY DEF Init
    <3> QED BY <3>1, <3>3, <3>4, <3>5 DEF SupplyTypes
  <2> QED BY <2>3, <2>4, <2>5
<1>2. TypeInv /\ [Next]_vars => TypeInv'
  BY SpoolTypesKept, ChannelTypesKept, SupplyTypesKept DEF SpoolTypes, SupplyTypes
<1>3. TypeInv => TypeOK
  BY DEF SpoolTypes, SupplyTypes, Stations, TypeOK
<1> QED BY <1>1, <1>2, <1>3, PTL DEF Spec

===============================================================================
