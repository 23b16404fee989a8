----------------------- MODULE FragmentBuffer_proofs -----------------------
(***************************************************************************)
(* No frame is lost silently and none that is whole is kept, for any       *)
(* number of frames and fragments, any bound and any order of arrival.     *)
(* Which frames an add evicts does not matter for this: every frame that   *)
(* Evicted names is reported.                                              *)
(*                                                                         *)
(* What is held fits in max_bytes.  For this it matters that the frames    *)
(* are ordered (Orders): those an eviction spares are younger than all it  *)
(* takes, and the oldest of them was spared because enough had left.       *)
(***************************************************************************)
EXTENDS FragmentBuffer, FiniteSetTheorems, WellFoundedInduction, TLAPS

(* What is held has come, and an assembly that is complete is not held.    *)
HeldInv ==
  /\ got \in [Frames -> SUBSET Nat] /\ arrived \in [Frames -> SUBSET Nat]
  /\ \A s \in Frames : got[s] \subseteq arrived[s] /\ got[s] # Index(s)

IInv == HeldInv /\ NoSilentLoss

LEMMA IndexIsNotEmpty ==
  ASSUME NEW s \in Frames
  PROVE  Index(s) \subseteq Nat /\ 0 \in Index(s)
BY FramesAssumption DEF Index

LEMMA InitHolds == Init => IInv
BY IndexIsNotEmpty DEF Init, IInv, HeldInv, NoSilentLoss

(* What an add leaves of each frame: nothing if it was dropped or returned, *)
(* and never a whole assembly.                                              *)
LEMMA AddFacts ==
  ASSUME IInv, NEW s \in Frames, NEW i \in Index(s), Add(s, i)
  PROVE  \E E, C :
           /\ C \subseteq {s}
           /\ got' = [t \in Frames |-> IF t \in E \union C THEN {}
                                       ELSE IF t = s THEN got[s] \union {i} ELSE got[t]]
           /\ delivered' = delivered \union C /\ dropped' = dropped \union E
           /\ s \in E \union C \/ got[s] \union {i} # Index(s)
<1> DEFINE new == i \notin got[s]
           g == [got EXCEPT ![s] = @ \union {i}]
           o == IF new THEN Renewed(s) ELSE older
           E == Evicted(g, o, buffered + Size[s], s)
           complete == new /\ Whole(g, s) /\ s \notin E
           C == IF complete THEN {s} ELSE {}
<1> HIDE DEF E, o
<1>1. /\ got' = Without(g, IF complete THEN E \union {s} ELSE E)
      /\ delivered' = IF complete THEN delivered \union {s} ELSE delivered
      /\ dropped' = dropped \union E
  BY DEF Add, Drop, E, o
<1>2. g = [t \in Frames |-> IF t = s THEN got[s] \union {i} ELSE got[t]]
  BY DEF IInv, HeldInv
<1>3. got' = [t \in Frames |-> IF t \in E \union C THEN {}
                               ELSE IF t = s THEN got[s] \union {i} ELSE got[t]]
  BY <1>1, <1>2, Zenon DEF Without
<1>4. delivered' = delivered \union C
  BY <1>1
<1>5. s \in E \union C \/ got[s] \union {i} # Index(s)
  <2>1. CASE new
    BY <1>2, <2>1 DEF Whole
  <2>2. CASE ~new
    <3>1. got[s] \union {i} = got[s]
      BY <2>2
    <3> QED BY <3>1 DEF IInv, HeldInv
  <2> QED BY <2>1, <2>2
<1> QED BY <1>1, <1>3, <1>4, <1>5

(* An add after which arrived is right keeps the invariant. *)
LEMMA AddKeeps ==
  ASSUME IInv, NEW s \in Frames, NEW i \in Index(s), Add(s, i),
         arrived' = [arrived EXCEPT ![s] = @ \union {i}]
  PROVE  IInv'
<1>1. PICK E, C :
        /\ C \subseteq {s}
        /\ got' = [t \in Frames |-> IF t \in E \union C THEN {}
                                    ELSE IF t = s THEN got[s] \union {i} ELSE got[t]]
        /\ delivered' = delivered \union C /\ dropped' = dropped \union E
        /\ s \in E \union C \/ got[s] \union {i} # Index(s)
  BY AddFacts
<1>2. arrived' \in [Frames -> SUBSET Nat] /\ got' \in [Frames -> SUBSET Nat]
  BY <1>1, IndexIsNotEmpty DEF IInv, HeldInv
<1>3. ASSUME NEW t \in Frames
      PROVE  /\ got'[t] \subseteq arrived'[t] /\ got'[t] # Index(t)
             /\ arrived'[t] \subseteq got'[t] \/ t \in delivered' \union dropped'
  <2>1. CASE t \in E \union C
    BY <1>1, <2>1, IndexIsNotEmpty
  <2>2. CASE t \notin E \union C /\ t = s
    BY <1>1, <2>2 DEF IInv, HeldInv, NoSilentLoss
  <2>3. CASE t \notin E \union C /\ t # s
    BY <1>1, <2>3 DEF IInv, HeldInv, NoSilentLoss
  <2> QED BY <2>1, <2>2, <2>3
<1> QED BY <1>2, <1>3 DEF IInv, HeldInv, NoSilentLoss, Index

LEMMA NextKeeps == IInv /\ [Next]_vars => IInv'
<1> SUFFICES ASSUME IInv, [Next]_vars PROVE IInv'
  OBVIOUS
<1>1. ASSUME NEW s \in Frames, NEW i \in Index(s), RecvFragment(s, i) PROVE IInv'
  BY <1>1, AddKeeps DEF RecvFragment
<1>2. ASSUME NEW s \in Frames, NEW i \in Index(s), RecvDuplicate(s, i) PROVE IInv'
  <2>1. arrived' = [arrived EXCEPT ![s] = @ \union {i}]
    BY <1>2 DEF RecvDuplicate, IInv, HeldInv
  <2> QED BY <1>2, <2>1, AddKeeps DEF RecvDuplicate
<1>3. CASE Gc
  <2>1. /\ got' = [s \in Frames |-> IF s \in Expired THEN {} ELSE got[s]]
        /\ dropped' = dropped \union Expired
        /\ UNCHANGED <<arrived, delivered>>
    BY <1>3 DEF Gc, Drop, Without
  <2> QED BY <2>1, IndexIsNotEmpty DEF IInv, HeldInv, NoSilentLoss, Index
<1>4. CASE Tick
  BY <1>4 DEF Tick, history, IInv, HeldInv, NoSilentLoss, Index
<1>5. CASE Clear
  <2>1. \A s \in Frames : s \notin States => got[s] = {}
    BY DEF States
  <2> QED BY <1>5, <2>1, IndexIsNotEmpty DEF Clear, IInv, HeldInv, NoSilentLoss, Index
<1>6. CASE UNCHANGED vars
  BY <1>6 DEF vars, buffer, history, IInv, HeldInv, NoSilentLoss, Index
<1> QED BY <1>1, <1>2, <1>3, <1>4, <1>5, <1>6 DEF Next

LEMMA Invariance == Spec => []IInv
BY InitHolds, NextKeeps, PTL DEF Spec

-----------------------------------------------------------------------------
(* A fragment that came is held, or its frame was returned or reported,    *)
(* whatever add evicts and gc collects.                                    *)
THEOREM NothingLostSilently == Spec => []NoSilentLoss
BY Invariance, PTL DEF IInv

(* A frame that came whole has been returned or reported: the fragment     *)
(* that completes it is never kept.                                        *)
THEOREM WholeFramesDoLeave == Spec => []WholeFramesLeave
<1>1. IInv => WholeFramesLeave
  BY DEF IInv, HeldInv, NoSilentLoss, WholeFramesLeave
<1> QED BY <1>1, Invariance, PTL

-----------------------------------------------------------------------------
(* The bytes that are held, for any fragments of each frame.                *)
Fragments(g) == g \in [Frames -> SUBSET Nat] /\ \A s \in Frames : g[s] \subseteq Index(s)

LEMMA HeldIsFinite ==
  ASSUME NEW g, Fragments(g), NEW S, S \subseteq Frames
  PROVE  IsFiniteSet(Held(g, S)) /\ Bytes(g, S) \in Nat
<1> DEFINE bytes(s) == {s} \X (g[s] \X (1..Size[s]))
           f == [s \in S |-> bytes(s)]
           T == {bytes(s) : s \in S}
<1>1. IsFiniteSet(S)
  BY FramesAssumption, FS_Subset
<1>2. f \in Surjection(S, T)
  BY DEF Surjection
<1>3. IsFiniteSet(T)
  BY <1>1, <1>2, FS_Surjection
<1>4. ASSUME NEW s \in S PROVE IsFiniteSet(bytes(s))
  <2>1. 0 \in Int /\ 1 \in Int /\ Total[s] - 1 \in Int /\ Size[s] \in Int
    BY FramesAssumption
  <2>2. IsFiniteSet(Index(s)) /\ IsFiniteSet(1..Size[s])
    BY ONLY <2>1, FS_Interval, Zenon DEF Index
  <2>3. IsFiniteSet(g[s])
    BY <2>2, FS_Subset DEF Fragments
  <2>4. IsFiniteSet(g[s] \X (1..Size[s]))
    BY <2>2, <2>3, FS_Product
  <2> QED BY <2>4, FS_Singleton, FS_Product
<1>5. \A b \in T : IsFiniteSet(b)
  BY <1>4
<1> HIDE DEF T
<1>6. IsFiniteSet(UNION T)
  BY <1>3, <1>5, FS_UNION
<1> QED BY <1>6, FS_CardinalityType DEF Held, Bytes, T

LEMMA DisjointUnion ==
  ASSUME NEW A, IsFiniteSet(A), NEW B, IsFiniteSet(B), A \intersect B = {}
  PROVE  Cardinality(A \union B) = Cardinality(A) + Cardinality(B)
<1>1. Cardinality(A) \in Nat /\ Cardinality(B) \in Nat
  BY FS_CardinalityType
<1>2. Cardinality(A \union B) = Cardinality(A) + Cardinality(B) - Cardinality(A \intersect B)
  BY FS_Union
<1>3. Cardinality(A \intersect B) = 0
  BY FS_EmptySet
<1> QED BY <1>1, <1>2, <1>3

(* A singleton times a set is as large as the set. *)
LEMMA Labelled ==
  ASSUME NEW x, NEW A, IsFiniteSet(A)
  PROVE  IsFiniteSet({x} \X A) /\ Cardinality({x} \X A) = Cardinality(A)
<1>1. IsFiniteSet({x}) /\ Cardinality({x}) = 1
  BY FS_Singleton
<1>2. IsFiniteSet({x} \X A) /\ Cardinality({x} \X A) = Cardinality({x}) * Cardinality(A)
  BY <1>1, FS_Product
<1>3. Cardinality(A) \in Nat
  BY FS_CardinalityType
<1> QED BY <1>1, <1>2, <1>3

LEMMA BytesAdd ==
  ASSUME NEW g, Fragments(g), NEW S, NEW T, S \subseteq Frames, T \subseteq Frames,
         S \intersect T = {}
  PROVE  Bytes(g, S \union T) = Bytes(g, S) + Bytes(g, T)
<1>1. Held(g, S \union T) = Held(g, S) \union Held(g, T)
  BY DEF Held
<1>2. Held(g, S) \intersect Held(g, T) = {}
  BY DEF Held
<1>3. /\ IsFiniteSet(Held(g, S)) /\ IsFiniteSet(Held(g, T))
      /\ Bytes(g, S) \in Nat /\ Bytes(g, T) \in Nat
  BY HeldIsFinite
<1>4. Cardinality(Held(g, S) \union Held(g, T)) = Bytes(g, S) + Bytes(g, T)
  BY <1>2, <1>3, DisjointUnion DEF Bytes
<1> QED BY <1>1, <1>4 DEF Bytes

(* Only what is held of the frames themselves counts. *)
LEMMA BytesAgree ==
  ASSUME NEW g, NEW h, NEW S, \A s \in S : g[s] = h[s]
  PROVE  Bytes(g, S) = Bytes(h, S)
BY DEF Held, Bytes

LEMMA BytesOfNothing ==
  ASSUME NEW g, NEW S, \A s \in S : g[s] = {}
  PROVE  Bytes(g, S) = 0
<1>1. Held(g, S) = {}
  BY DEF Held
<1> QED BY <1>1, FS_EmptySet DEF Bytes

LEMMA BytesOfStates ==
  ASSUME NEW g, Fragments(g), NEW S, S \subseteq Frames
  PROVE  Bytes(g, S) = Bytes(g, {t \in S : g[t] # {}})
<1> DEFINE full == {t \in S : g[t] # {}}
           empty == {t \in S : g[t] = {}}
<1>1. /\ S = full \union empty /\ full \intersect empty = {}
      /\ full \subseteq Frames /\ empty \subseteq Frames
      /\ \A t \in empty : g[t] = {}
  OBVIOUS
<1> HIDE DEF full, empty
<1>2. Bytes(g, empty) = 0
  BY <1>1, BytesOfNothing
<1>3. Bytes(g, full) \in Nat
  BY <1>1, HeldIsFinite
<1>4. Bytes(g, full \union empty) = Bytes(g, full) + Bytes(g, empty)
  BY <1>1, BytesAdd
<1>5. Bytes(g, S) = Bytes(g, full)
  BY <1>1, <1>2, <1>3, <1>4
<1> QED BY <1>5 DEF full

LEMMA BytesOfFragment ==
  ASSUME NEW s \in Frames, NEW i \in Index(s), Fragments(got), i \notin got[s]
  PROVE  Bytes([got EXCEPT ![s] = @ \union {i}], {s}) = Bytes(got, {s}) + Size[s]
<1> DEFINE g == [got EXCEPT ![s] = @ \union {i}]
           new == {s} \X ({i} \X (1..Size[s]))
<1>1. g[s] = got[s] \union {i}
  BY DEF Fragments
<1>2. Held(g, {s}) = Held(got, {s}) \union new /\ Held(got, {s}) \intersect new = {}
  BY <1>1 DEF Held
<1>3. Size[s] \in Nat /\ IsFiniteSet(1..Size[s]) /\ Cardinality(1..Size[s]) = Size[s]
  <2>1. 1 \in Int /\ Size[s] \in Int /\ Size[s] \in Nat \ {0}
    BY FramesAssumption
  <2>2. /\ IsFiniteSet(1..Size[s])
        /\ Cardinality(1..Size[s]) = IF 1 > Size[s] THEN 0 ELSE Size[s] - 1 + 1
    BY ONLY <2>1, FS_Interval, Zenon
  <2> QED BY <2>1, <2>2
<1>4. IsFiniteSet(new) /\ Cardinality(new) = Size[s]
  <2>1. IsFiniteSet({i} \X (1..Size[s])) /\ Cardinality({i} \X (1..Size[s])) = Size[s]
    BY <1>3, Labelled
  <2> QED BY <2>1, Labelled
<1>5. IsFiniteSet(Held(got, {s}))
  BY HeldIsFinite
<1> HIDE DEF new, g
<1>6. Cardinality(Held(got, {s}) \union new) = Bytes(got, {s}) + Size[s]
  BY <1>2, <1>4, <1>5, DisjointUnion DEF Bytes
<1> QED BY <1>2, <1>6 DEF Bytes, g

(* A frame that an eviction leaves was to leave after enough had left: the  *)
(* oldest of those that stay saw all the others still counted.              *)
StrictOrder(o) ==
  \A s, t, u \in Frames :
    <<s, s>> \notin o /\ (<<s, t>> \in o /\ <<t, u>> \in o => <<s, u>> \in o)

LEMMA EvictionIsEnough ==
  ASSUME NEW g, Fragments(g), NEW o, StrictOrder(o), NEW bytes \in Nat, NEW s,
         Bytes(g, Frames) <= bytes
  PROVE  Bytes(g, Frames \ Evicted(g, o, bytes, s)) <= MaxBytes
<1> DEFINE E == Evicted(g, o, bytes, s)
           kept == {t \in Frames \ E : g[t] # {}}
<1>1. E \subseteq Frames
  BY DEF Evicted
<1>2. Bytes(g, Frames \ E) = Bytes(g, kept)
  BY <1>1, BytesOfStates
<1>3. CASE kept = {}
  <2>1. Bytes(g, {}) = 0
    BY BytesOfNothing
  <2> QED BY <1>2, <1>3, <2>1, BoundsAssumption
<1>4. CASE kept # {}
  <2> DEFINE T == {Before(o, t) : t \in kept}
  <2>1. T \subseteq FiniteSubsetsOf(Frames)
    BY FramesAssumption, FS_Subset DEF Before, FiniteSubsetsOf
  <2>2. PICK B \in T : \A A \in T : <<A, B>> \notin StrictSubsetOrdering(Frames)
    <3>1. T # {}
      BY <1>4
    <3> HIDE DEF T
    <3> QED BY <2>1, <3>1, FS_StrictSubsetOrderingWellFounded, WFMin
  <2>3. PICK t \in kept : B = Before(o, t)
    BY <2>2
  <2>4. \A u \in kept : <<u, t>> \notin o
    <3> SUFFICES ASSUME NEW u \in kept, <<u, t>> \in o PROVE FALSE
      OBVIOUS
    <3>1. Before(o, u) \subseteq Before(o, t)
      BY DEF StrictOrder, Before
    <3>2. u \in Before(o, t) /\ u \notin Before(o, u)
      BY DEF StrictOrder, Before
    <3>3. Before(o, u) \in T /\ Before(o, u) \in SUBSET Frames /\ B \in SUBSET Frames
      BY <2>3 DEF Before
    <3> QED BY <2>2, <2>3, <3>1, <3>2, <3>3 DEF StrictSubsetOrdering
  <2>5. /\ B \subseteq Frames /\ kept \subseteq Frames /\ B \intersect kept = {}
        /\ Less(bytes, Bytes(g, B)) <= MaxBytes
    <3>1. t \in Frames /\ g[t] # {} /\ t \notin E
      OBVIOUS
    <3>2. ~(Less(bytes, Bytes(g, B)) > MaxBytes)
      BY <2>3, <3>1 DEF Evicted
    <3>3. B \subseteq Frames /\ Bytes(g, B) \in Nat
      BY <2>3, HeldIsFinite DEF Before
    <3>4. Less(bytes, Bytes(g, B)) \in Nat
      BY <3>3 DEF Less
    <3>5. Less(bytes, Bytes(g, B)) <= MaxBytes
      BY <3>2, <3>4, BoundsAssumption
    <3> QED BY <2>3, <2>4, <3>3, <3>5 DEF Before
  <2> DEFINE rest == Frames \ (B \union kept)
  <2>6. /\ Bytes(g, B \union kept) = Bytes(g, B) + Bytes(g, kept)
        /\ Bytes(g, Frames) = Bytes(g, B \union kept) + Bytes(g, rest)
    <3>1. Frames = (B \union kept) \union rest /\ (B \union kept) \intersect rest = {}
      BY <2>5
    <3> HIDE DEF kept, rest, T
    <3>2. Bytes(g, B \union kept) = Bytes(g, B) + Bytes(g, kept)
      BY <2>5, BytesAdd
    <3>3. B \union kept \subseteq Frames /\ rest \subseteq Frames
      BY <2>5, <3>1
    <3>4. Bytes(g, (B \union kept) \union rest) = Bytes(g, B \union kept) + Bytes(g, rest)
      BY <3>1, <3>3, BytesAdd
    <3> QED BY <3>1, <3>2, <3>4
  <2>7. /\ Bytes(g, B) \in Nat /\ Bytes(g, kept) \in Nat /\ Bytes(g, rest) \in Nat
    BY <2>5, HeldIsFinite
  <2> HIDE DEF kept, rest, T, E
  <2>8. Bytes(g, kept) <= MaxBytes
    BY <2>5, <2>6, <2>7, BoundsAssumption DEF Less
  <2> QED BY <1>2, <2>7, <2>8 DEF E
<1> QED BY <1>3, <1>4

-----------------------------------------------------------------------------
(* o is a total order of S. *)
Orders(o, S) ==
  /\ o \subseteq S \X S
  /\ \A s, t \in S : s = t <=> (<<s, t>> \notin o /\ <<t, s>> \notin o)
  /\ \A s, t, u \in S : <<s, t>> \in o /\ <<t, u>> \in o => <<s, u>> \in o

LEMMA OrdersAreStrict ==
  ASSUME NEW o, NEW S, Orders(o, S) PROVE StrictOrder(o)
BY DEF Orders, StrictOrder

LEMMA OrdersFewer ==
  ASSUME NEW o, NEW S, Orders(o, S), S \subseteq Frames, NEW D
  PROVE  Orders(Among(o, Frames \ D), S \ D)
BY DEF Orders, Among

LEMMA OrdersRenewed ==
  ASSUME Orders(older, States), NEW s \in Frames
  PROVE  Orders(Renewed(s), States \union {s})
<1> DEFINE S == States \ {s}
<1>1. Orders(Among(older, S), S)
  BY DEF Orders, Among
<1>2. States \union {s} = S \union {s} /\ s \notin S
  OBVIOUS
<1> HIDE DEF S
<1>3. Renewed(s) = Among(older, S) \union (S \X {s})
  BY DEF Renewed, S
<1> QED BY <1>1, <1>2, <1>3 DEF Orders

(* What Drop leaves fits, and buffered still counts it. *)
LEMMA DropFits ==
  ASSUME NEW g, Fragments(g), NEW o, Orders(o, {t \in Frames : g[t] # {}}),
         NEW bytes \in Nat, Bytes(g, Frames) <= bytes,
         NEW D, D \subseteq Frames, Drop(g, o, bytes, D),
         Bytes(g, Frames \ D) <= MaxBytes
  PROVE  Fragments(got') /\ Orders(older', States') /\ buffered' \in Nat /\ MemoryBounded'
<1>1. got' = [t \in Frames |-> IF t \in D THEN {} ELSE g[t]]
      /\ older' = Among(o, Frames \ D) /\ buffered' = Less(bytes, Bytes(g, D))
  BY DEF Drop, Without
<1>2. Fragments(got')
  BY <1>1 DEF Fragments
<1>3. States' = {t \in Frames : got'[t] # {}}
  BY DEF States
<1>4. States' = {t \in Frames : g[t] # {}} \ D
  BY <1>1, <1>3
<1>5. Orders(older', States')
  BY <1>1, <1>4, OrdersFewer
<1> DEFINE rest == Frames \ D
<1>6. Bytes(got', States') = Bytes(g, rest)
  <2>1. Bytes(got', Frames) = Bytes(got', States')
    BY <1>2, <1>3, BytesOfStates
  <2>2. Frames = rest \union D /\ rest \intersect D = {} /\ rest \subseteq Frames
    OBVIOUS
  <2>3. (\A t \in rest : got'[t] = g[t]) /\ (\A t \in D : got'[t] = {})
    BY <1>1
  <2> HIDE DEF rest
  <2>4. Bytes(got', rest) = Bytes(g, rest) /\ Bytes(got', D) = 0
    BY <2>3, BytesAgree, BytesOfNothing
  <2>5. Bytes(got', rest \union D) = Bytes(got', rest) + Bytes(got', D)
    BY <1>2, <2>2, BytesAdd
  <2>6. Bytes(g, rest) \in Nat
    BY <2>2, HeldIsFinite
  <2> QED BY <2>1, <2>2, <2>4, <2>5, <2>6
<1>7. /\ Bytes(g, Frames) = Bytes(g, rest) + Bytes(g, D)
      /\ Bytes(g, rest) \in Nat /\ Bytes(g, D) \in Nat
  <2>1. Frames = rest \union D /\ rest \intersect D = {} /\ rest \subseteq Frames
    OBVIOUS
  <2> HIDE DEF rest
  <2>2. Bytes(g, rest \union D) = Bytes(g, rest) + Bytes(g, D)
    BY <2>1, BytesAdd
  <2> QED BY <2>1, <2>2, HeldIsFinite
<1>8. buffered' \in Nat /\ Bytes(g, rest) <= buffered'
  <2> HIDE DEF rest
  <2> QED BY <1>1, <1>7 DEF Less
<1>9. MemoryBounded'
  BY <1>6, <1>8 DEF MemoryBounded
<1> QED BY <1>2, <1>5, <1>8, <1>9

-----------------------------------------------------------------------------
MemoryInv ==
  /\ Fragments(got) /\ Fragments(arrived) /\ Orders(older, States)
  /\ idle \in [Frames -> 0..Ttl]
  /\ buffered \in Nat /\ duplicates \in 0..MaxDuplicates /\ open \in BOOLEAN
  /\ delivered \subseteq Frames /\ dropped \subseteq Frames
  /\ MemoryBounded

LEMMA MemoryInit == Init => MemoryInv
<1> SUFFICES ASSUME Init PROVE MemoryInv
  OBVIOUS
<1>1. (\A s \in Frames : got[s] = {}) /\ States = {}
  BY DEF Init, States
<1>2. Bytes(got, States) = 0
  BY <1>1, BytesOfNothing
<1> QED BY <1>1, <1>2, BoundsAssumption DEF Init, MemoryInv, MemoryBounded, Fragments, Orders

(* An add evicts as much as is needed, and more if the frame is complete.   *)
LEMMA AddFits ==
  ASSUME MemoryInv, NEW s \in Frames, NEW i \in Index(s), Add(s, i)
  PROVE  /\ Fragments(got') /\ Orders(older', States') /\ buffered' \in Nat /\ MemoryBounded'
         /\ idle' \in [Frames -> 0..Ttl] /\ delivered' \subseteq Frames /\ dropped' \subseteq Frames
<1> DEFINE new == i \notin got[s]
           g == [got EXCEPT ![s] = @ \union {i}]
           o == IF new THEN Renewed(s) ELSE older
           bytes == buffered + Size[s]
           E == Evicted(g, o, bytes, s)
           complete == new /\ Whole(g, s) /\ s \notin E
           D == IF complete THEN E \union {s} ELSE E
<1>1. /\ Drop(g, o, bytes, D) /\ dropped' = dropped \union E
      /\ idle' \in {idle, [idle EXCEPT ![s] = 0]}
      /\ delivered' \in {delivered, delivered \union {s}}
  BY DEF Add
<1>2. Fragments(g) /\ {t \in Frames : g[t] # {}} = States \union {s}
  <2>1. Fragments(got) /\ Index(s) \subseteq Nat
    BY IndexIsNotEmpty DEF MemoryInv
  <2>2. g = [t \in Frames |-> IF t = s THEN got[s] \union {i} ELSE got[t]]
    BY <2>1 DEF Fragments
  <2> HIDE DEF g
  <2>3. Fragments(g)
    BY <2>1, <2>2 DEF Fragments
  <2>4. {t \in Frames : g[t] # {}} = States \union {s}
    BY <2>2 DEF States
  <2> QED BY <2>3, <2>4
<1>3. Orders(o, {t \in Frames : g[t] # {}})
  <2>1. CASE new
    BY <1>2, <2>1, OrdersRenewed DEF MemoryInv
  <2>2. CASE ~new
    <3>1. States \union {s} = States
      BY <2>2 DEF States
    <3> QED BY <1>2, <2>2, <3>1 DEF MemoryInv
  <2> QED BY <2>1, <2>2
<1>4. Size[s] \in Nat /\ Bytes(got, Frames) \in Nat /\ Bytes(got, Frames) <= buffered
  <2>1. States = {t \in Frames : got[t] # {}}
    BY DEF States
  <2>2. Fragments(got) /\ Bytes(got, States) <= buffered
    BY DEF MemoryInv, MemoryBounded
  <2>3. Bytes(got, Frames) = Bytes(got, States)
    BY <2>1, <2>2, BytesOfStates
  <2> QED BY <2>2, <2>3, HeldIsFinite, FramesAssumption
<1>5. Bytes(g, Frames) <= bytes /\ bytes \in Nat
  <2> DEFINE rest == Frames \ {s}
  <2>1. Fragments(got) /\ buffered \in Nat
    BY DEF MemoryInv
  <2>2. Bytes(g, {s}) <= Bytes(got, {s}) + Size[s]
    <3>1. CASE new
      <4>1. Bytes(g, {s}) = Bytes(got, {s}) + Size[s] /\ Bytes(g, {s}) \in Nat
        BY <1>2, <2>1, <3>1, BytesOfFragment, HeldIsFinite
      <4> QED BY <4>1
    <3>2. CASE ~new
      <4>1. Bytes(g, {s}) = Bytes(got, {s}) /\ Bytes(got, {s}) \in Nat
        BY <2>1, <3>2, BytesAgree, HeldIsFinite DEF Fragments
      <4> HIDE DEF g
      <4> QED BY <1>4, <4>1
    <3> QED BY <3>1, <3>2
  <2>3. /\ Frames = rest \union {s} /\ rest \intersect {s} = {} /\ rest \subseteq Frames
        /\ \A t \in rest : g[t] = got[t]
    BY <2>1 DEF Fragments
  <2> HIDE DEF rest, g
  <2>4. /\ Bytes(g, rest \union {s}) = Bytes(g, rest) + Bytes(g, {s})
        /\ Bytes(got, rest \union {s}) = Bytes(got, rest) + Bytes(got, {s})
        /\ Bytes(g, rest) = Bytes(got, rest)
    BY <1>2, <2>1, <2>3, BytesAdd, BytesAgree
  <2>5. Bytes(got, rest) \in Nat /\ Bytes(got, {s}) \in Nat /\ Bytes(g, {s}) \in Nat
    BY <1>2, <2>1, <2>3, HeldIsFinite
  <2> QED BY <1>4, <2>1, <2>2, <2>3, <2>4, <2>5
<1>6. E \subseteq Frames /\ D \subseteq Frames /\ E \subseteq D
  BY DEF Evicted
<1>7. Bytes(g, Frames \ D) <= MaxBytes
  <2>1. Bytes(g, Frames \ E) <= MaxBytes
    BY <1>2, <1>3, <1>5, OrdersAreStrict, EvictionIsEnough
  <2> DEFINE more == D \ E
             left == Frames \ D
  <2>2. Frames \ E = left \union more /\ left \intersect more = {}
        /\ left \subseteq Frames /\ more \subseteq Frames
    BY <1>6
  <2> HIDE DEF more, left, D, E, g
  <2>3. Bytes(g, left \union more) = Bytes(g, left) + Bytes(g, more)
    BY <1>2, <2>2, BytesAdd
  <2>4. Bytes(g, left) \in Nat /\ Bytes(g, more) \in Nat
    BY <1>2, <2>2, HeldIsFinite
  <2>5. Bytes(g, left) <= MaxBytes
    BY <2>1, <2>2, <2>3, <2>4, BoundsAssumption
  <2> QED BY <2>5 DEF left
<1> HIDE DEF g, o, bytes, E, D
<1>8. Fragments(got') /\ Orders(older', States') /\ buffered' \in Nat /\ MemoryBounded'
  BY <1>1, <1>2, <1>3, <1>5, <1>6, <1>7, DropFits
<1>9. idle' \in [Frames -> 0..Ttl] /\ delivered' \subseteq Frames /\ dropped' \subseteq Frames
  BY <1>1, <1>6, BoundsAssumption DEF MemoryInv
<1> QED BY <1>8, <1>9

LEMMA MemoryStep == MemoryInv /\ [Next]_vars => MemoryInv'
<1> SUFFICES ASSUME MemoryInv, [Next]_vars PROVE MemoryInv'
  OBVIOUS
<1>1. ASSUME NEW s \in Frames, NEW i \in Index(s), RecvFragment(s, i) \/ RecvDuplicate(s, i)
      PROVE  MemoryInv'
  <2>1. Add(s, i) /\ open' = open
    BY <1>1 DEF RecvFragment, RecvDuplicate
  <2>2. arrived' \in {arrived, [arrived EXCEPT ![s] = @ \union {i}]}
        /\ duplicates' \in 0..MaxDuplicates
    BY <1>1, BoundsAssumption DEF RecvFragment, RecvDuplicate, MemoryInv
  <2>3. Fragments(arrived')
    BY <2>2, IndexIsNotEmpty DEF MemoryInv, Fragments
  <2> QED BY <2>1, <2>2, <2>3, AddFits DEF MemoryInv
<1>2. CASE Gc
  <2>1. Drop(got, older, buffered, Expired) /\ UNCHANGED <<idle, open, arrived, duplicates, delivered>>
        /\ dropped' = dropped \union Expired /\ Expired \subseteq Frames
    BY <1>2 DEF Gc, Expired, States
  <2>2. /\ Fragments(got) /\ Orders(older, {t \in Frames : got[t] # {}}) /\ buffered \in Nat
        /\ Bytes(got, Frames) = Bytes(got, States)
    BY BytesOfStates DEF MemoryInv, States
  <2>3. Bytes(got, Frames) <= buffered /\ Bytes(got, Frames) <= MaxBytes
    BY <2>2 DEF MemoryInv, MemoryBounded
  <2>4. Bytes(got, Frames \ Expired) <= MaxBytes
    <3> DEFINE left == Frames \ Expired
    <3>1. Frames = left \union Expired /\ left \intersect Expired = {} /\ left \subseteq Frames
      BY <2>1
    <3> HIDE DEF left
    <3>2. Bytes(got, left \union Expired) = Bytes(got, left) + Bytes(got, Expired)
      BY <2>1, <2>2, <3>1, BytesAdd
    <3>3. Bytes(got, left) \in Nat /\ Bytes(got, Expired) \in Nat
      BY <2>1, <2>2, <3>1, HeldIsFinite
    <3>4. Bytes(got, left) <= MaxBytes
      BY <2>3, <3>1, <3>2, <3>3, BoundsAssumption
    <3> QED BY <3>4 DEF left
  <2>5. Fragments(got') /\ Orders(older', States') /\ buffered' \in Nat /\ MemoryBounded'
    BY <2>1, <2>2, <2>3, <2>4, DropFits
  <2> QED BY <2>1, <2>5 DEF MemoryInv
<1>3. CASE Tick
  <2>1. UNCHANGED <<got, older, buffered, open, arrived, duplicates, delivered, dropped>>
    BY <1>3 DEF Tick, history
  <2>2. idle' \in [Frames -> 0..Ttl]
    BY <1>3, BoundsAssumption DEF Tick, MemoryInv
  <2> QED BY <2>1, <2>2 DEF MemoryInv, MemoryBounded, Bytes, Held, States
<1>4. CASE Clear
  <2>1. /\ got' = [s \in Frames |-> {}] /\ older' = {} /\ buffered' = 0 /\ open' \in BOOLEAN
        /\ UNCHANGED <<idle, arrived, duplicates, delivered>> /\ dropped' = dropped \union States
    BY <1>4 DEF Clear
  <2>2. States' = {} /\ States \subseteq Frames
    BY <2>1 DEF States
  <2>3. Bytes(got', States') = 0
    BY <2>2, BytesOfNothing
  <2>4. MemoryBounded'
    BY <2>1, <2>3, BoundsAssumption DEF MemoryBounded
  <2> QED BY <2>1, <2>2, <2>4 DEF MemoryInv, Fragments, Orders
<1>5. CASE UNCHANGED vars
  BY <1>5 DEF vars, buffer, history, MemoryInv, MemoryBounded, Bytes, Held, States
<1> QED BY <1>1, <1>2, <1>3, <1>4, <1>5 DEF Next

LEMMA MemoryInvHolds == Spec => []MemoryInv
BY MemoryInit, MemoryStep, PTL DEF Spec

(* Type correctness; last_update orders the frames held, without ties.      *)
THEOREM TypeCorrect == Spec => []TypeOK
<1>1. MemoryInv => TypeOK
  BY DEF MemoryInv, TypeOK, Fragments, Orders
<1> QED BY <1>1, MemoryInvHolds, PTL

(* What is held fits in max_bytes after every add, gc and clear, whatever   *)
(* was counted twice, and the count of the buffer is never below it.        *)
THEOREM MemoryIsBounded == Spec => []MemoryBounded
BY MemoryInvHolds, PTL DEF MemoryInv
=============================================================================
