----------------------- MODULE LivePoolRotation_proofs -----------------------
(***************************************************************************)
(* Proofs about RotationPool and LivePoolRotation, for every set of        *)
(* symbols, every list, every view and every parameter: the cached pool is *)
(* always one published list with symbols left out, inside the list it is  *)
(* stamped with, and the evaluations and the platform keep their books.    *)
(***************************************************************************)
EXTENDS LivePoolRotation, FiniteSetTheorems, WellFoundedInduction, TLAPS

USE PoolAssumption

-----------------------------------------------------------------------------
(* Lists *)

(* A non-empty set of positions has a first one. *)
LEMMA FirstPosition ==
    ASSUME NEW T, T \subseteq Nat, T # {}
    PROVE  \E x \in T : \A y \in T : ~(y < x)
<1>1. IsWellFoundedOn(OpToRel(<, Nat), Nat)
  BY NatLessThanWellFounded, Zenon
<1>2. PICK x \in T : \A y \in T : <<y, x>> \notin OpToRel(<, Nat)
  BY <1>1, WFMin, Zenon
<1>3. ASSUME NEW y \in T PROVE ~(y < x)
  <2>1. <<y, x>> \in Nat \X Nat
    OBVIOUS
  <2>2. y < x => <<y, x>> \in OpToRel(<, Nat)
    BY <2>1, Zenon DEF OpToRel
  <2> QED BY <1>2, <2>2
<1> QED BY <1>3

(* Dropping the repeats of a list leaves each of its symbols a place of    *)
(* its own.                                                                *)
LEMMA NormalizedIsRanking ==
    ASSUME NEW raw \in Seq(Symbols)
    PROVE  IsRanking(Normalized(raw))
<1> DEFINE First(s, i) ==
      /\ i \in DOMAIN raw
      /\ raw[i] = s
      /\ \A j \in 1..(i-1) : raw[j] # s
<1> DEFINE D == {raw[i] : i \in DOMAIN raw}
<1>1. ASSUME NEW s \in D PROVE \E i \in DOMAIN raw : First(s, i)
  <2> DEFINE T == {i \in DOMAIN raw : raw[i] = s}
  <2>1. T \subseteq Nat /\ T # {}
    OBVIOUS
  <2>2. PICK i \in T : \A j \in T : ~(j < i)
    BY <2>1, FirstPosition
  <2>3. \A j \in 1..(i-1) : j \in DOMAIN raw /\ j < i
    OBVIOUS
  <2> QED BY <2>2, <2>3
<1>2. \A s \in D : First(s, Normalized(raw)[s])
  <2> SUFFICES ASSUME NEW s \in D PROVE First(s, Normalized(raw)[s])
    OBVIOUS
  <2>1. Normalized(raw)[s] = CHOOSE i \in DOMAIN raw :
                               raw[i] = s /\ \A j \in 1..(i-1) : raw[j] # s
    BY DEF Normalized
  <2> QED BY <1>1, <2>1
<1>3. DOMAIN Normalized(raw) = D
  BY DEF Normalized
<1>4. Normalized(raw) \in [D -> Nat]
  <2>1. Normalized(raw) = [s \in D |-> Normalized(raw)[s]]
    BY <1>3 DEF Normalized
  <2>2. \A s \in D : Normalized(raw)[s] \in Nat
    BY <1>2
  <2> QED BY <2>1, <2>2
<1>5. D \subseteq Symbols
  OBVIOUS
<1>6. \A s, t \in D : Normalized(raw)[s] = Normalized(raw)[t] => s = t
  BY <1>2
<1> QED BY <1>3, <1>4, <1>5, <1>6 DEF IsRanking

(* The positions of p are those q gives the same symbols. *)
PartOf(p, q) ==
    /\ DOMAIN p \subseteq DOMAIN q
    /\ \A s \in DOMAIN p : p[s] = q[s]

LEMMA PartKeepsOrder ==
    ASSUME NEW p, NEW q, PartOf(p, q)
    PROVE  KeepsOrderOf(p, q)
BY DEF PartOf, KeepsOrderOf

LEMMA WithinIsPart ==
    ASSUME NEW p, NEW S
    PROVE  /\ PartOf(Within(p, S), p)
           /\ DOMAIN Within(p, S) = DOMAIN p \cap S
           /\ IsRanking(p) => IsRanking(Within(p, S))
<1>1. /\ DOMAIN Within(p, S) = DOMAIN p \cap S
      /\ \A s \in DOMAIN p \cap S : Within(p, S)[s] = p[s]
  BY DEF Within
<1>2. ASSUME IsRanking(p) PROVE Within(p, S) \in [DOMAIN p \cap S -> Nat]
  BY <1>2 DEF IsRanking, Within
<1> QED BY <1>1, <1>2 DEF PartOf, IsRanking

LEMMA FirstOfIsPart ==
    ASSUME NEW p, NEW n, IsRanking(p)
    PROVE  IsRanking(FirstOf(p, n)) /\ PartOf(FirstOf(p, n), p)
BY WithinIsPart DEF FirstOf

(* Some symbol of a ranking has nothing before it. *)
LEMMA FirstOfHasSymbols ==
    ASSUME NEW p, NEW n \in Nat, IsRanking(p), DOMAIN p # {}, n > 0
    PROVE  DOMAIN FirstOf(p, n) # {}
<1> DEFINE T == {p[s] : s \in DOMAIN p}
<1> DEFINE Before(s) == {t \in DOMAIN p : p[t] < p[s]}
<1>1. T \subseteq Nat /\ T # {}
  BY DEF IsRanking
<1>2. PICK x \in T : \A y \in T : ~(y < x)
  BY <1>1, FirstPosition
<1>3. PICK s \in DOMAIN p : p[s] = x
  BY <1>2
<1>4. Before(s) = {}
  BY <1>2, <1>3
<1>5. Cardinality(Before(s)) < n
  BY <1>4, FS_EmptySet
<1>6. DOMAIN FirstOf(p, n) = DOMAIN p \cap {t \in DOMAIN p : Cardinality(Before(t)) < n}
  BY WithinIsPart DEF FirstOf
<1> QED BY <1>3, <1>5, <1>6

LEMMA EmptyIsRanking == IsRanking(EmptyList) /\ DOMAIN EmptyList = {}
BY DEF IsRanking, EmptyList

LEMMA ListIsRanking ==
    ASSUME published \in Seq(RawLists), NEW v \in 0..Len(published)
    PROVE  IsRanking(ListOf(v))
<1>1. CASE v = 0
  BY <1>1, EmptyIsRanking DEF ListOf
<1>2. CASE v # 0
  <2>1. published[v] \in Seq(Symbols)
    BY <1>2
  <2> QED BY <1>2, <2>1, NormalizedIsRanking DEF ListOf
<1> QED BY <1>1, <1>2

(* What a resolution returns: the pool it found or the delivered list, or  *)
(* a part of one of them, and inside the delivered list if that has any    *)
(* symbol.                                                                 *)
LEMMA ResolvedShape ==
    ASSUME PoolTypeOK, NEW a \in BOOLEAN
    PROVE  /\ IsRanking(Resolved(a))
           /\ PartOf(Resolved(a), Upstream) \/ PartOf(Resolved(a), pool)
           /\ DOMAIN Upstream # {} => DOMAIN Resolved(a) \subseteq DOMAIN Upstream
<1>1. IsRanking(Upstream) /\ PartOf(Upstream, Upstream)
  BY ListIsRanking DEF PoolTypeOK, Upstream, PartOf
<1>2. /\ IsRanking(Cached) /\ PartOf(Cached, pool)
      /\ DOMAIN Upstream # {} => DOMAIN Cached \subseteq DOMAIN Upstream
  <2>1. CASE DOMAIN Upstream = {}
    BY <2>1 DEF Cached, PoolTypeOK, PartOf
  <2>2. CASE DOMAIN Upstream # {}
    <3>1. Cached = Within(pool, DOMAIN Upstream)
      BY <2>2 DEF Cached
    <3>2. /\ PartOf(Within(pool, DOMAIN Upstream), pool)
          /\ DOMAIN Within(pool, DOMAIN Upstream) = DOMAIN pool \cap DOMAIN Upstream
          /\ IsRanking(pool) => IsRanking(Within(pool, DOMAIN Upstream))
      BY WithinIsPart
    <3> QED BY <3>1, <3>2 DEF PoolTypeOK
  <2> QED BY <2>1, <2>2
<1>3. /\ IsRanking(FirstOf(Upstream, PoolSize))
      /\ PartOf(FirstOf(Upstream, PoolSize), Upstream)
  BY <1>1, FirstOfIsPart
<1>4. \/ Resolved(a) = Upstream
      \/ Resolved(a) = Cached
      \/ Resolved(a) = FirstOf(Upstream, PoolSize)
  BY DEF Resolved
<1>5. DOMAIN Upstream # {} => DOMAIN Resolved(a) \subseteq DOMAIN Upstream
  BY <1>1, <1>2, <1>3, <1>4 DEF PartOf
<1> QED BY <1>1, <1>2, <1>3, <1>4, <1>5

(* A list never changes once it is published. *)
LEMMA ListsAreFixed ==
    ASSUME published \in Seq(RawLists), Publish, NEW v \in 0..Len(published)
    PROVE  ListOf(v)' = ListOf(v)
<1>1. PICK raw \in RawLists : published' = Append(published, raw)
  BY DEF Publish
<1>2. v # 0 => published'[v] = published[v]
  BY <1>1
<1> QED BY <1>2 DEF ListOf

-----------------------------------------------------------------------------
(* The pool *)

(* The pool is a part, place by place, of one published list. *)
PartOfOneList ==
    DOMAIN pool = {} \/ \E v \in 1..Len(published) : PartOf(pool, ListOf(v))

(* OneListOrder is not inductive: two rankings that order their symbols    *)
(* alike may give them other places, and the model compares places.        *)
PoolInv == PoolTypeOK /\ PartOfOneList /\ InsideStampedList

LEMMA PoolInvInit == PoolInit => PoolInv
<1> SUFFICES ASSUME PoolInit PROVE PoolInv
  OBVIOUS
<1>1. published \in Seq(RawLists) /\ Len(published) = 0
  BY DEF PoolInit
<1>2. IsRanking(pool) /\ DOMAIN pool = {}
  BY EmptyIsRanking DEF PoolInit
<1> QED BY <1>1, <1>2 DEF PoolInit, PoolInv, PoolTypeOK, PartOfOneList, InsideStampedList

LEMMA PublishKeeps ==
    ASSUME PoolInv, Publish
    PROVE  PoolInv'
<1>1. published' \in Seq(RawLists) /\ Len(published') = Len(published) + 1
  BY DEF PoolInv, PoolTypeOK, Publish
<1>2. PoolTypeOK'
  BY <1>1 DEF PoolInv, PoolTypeOK, Publish
<1>3. PartOfOneList'
  <2>1. CASE DOMAIN pool = {}
    BY <2>1 DEF Publish, PartOfOneList
  <2>2. ASSUME NEW v \in 1..Len(published), PartOf(pool, ListOf(v))
        PROVE  PartOfOneList'
    <3>1. ListOf(v)' = ListOf(v)
      BY ListsAreFixed DEF PoolInv, PoolTypeOK
    <3>2. PartOf(pool, ListOf(v))'
      BY <2>2, <3>1 DEF Publish, PartOf
    <3> QED BY <1>1, <3>2 DEF PartOfOneList, PoolInv, PoolTypeOK
  <2> QED BY <2>1, <2>2 DEF PoolInv, PartOfOneList
<1>4. InsideStampedList'
  <2>1. ListOf(lock)' = ListOf(lock)
    <3>1. \A v \in 0..Len(published) : ListOf(v)' = ListOf(v)
      BY ListsAreFixed DEF PoolInv, PoolTypeOK
    <3> QED BY <3>1 DEF Publish, PoolInv, PoolTypeOK, ListOf
  <2> QED BY <2>1 DEF InsideStampedList, PoolInv, Publish
<1> QED BY <1>2, <1>3, <1>4 DEF PoolInv

LEMMA DeliverKeeps ==
    ASSUME PoolInv, Deliver
    PROVE  PoolInv'
BY DEF PoolInv, PoolTypeOK, PartOfOneList, InsideStampedList, Deliver, ListOf

LEMMA ResolveKeeps ==
    ASSUME PoolInv, NEW a \in BOOLEAN, Resolve(a)
    PROVE  PoolInv'
<1>1. /\ IsRanking(pool') /\ lock' = delivered
      /\ PartOf(pool', Upstream) \/ PartOf(pool', pool)
      /\ DOMAIN Upstream # {} => DOMAIN pool' \subseteq DOMAIN Upstream
  BY ResolvedShape DEF PoolInv, Resolve
<1>2. \A v : ListOf(v)' = ListOf(v)
  BY DEF Resolve, ListOf
<1>3. PoolTypeOK'
  BY <1>1 DEF PoolInv, PoolTypeOK, Resolve
<1>4. PartOfOneList'
  <2>1. CASE PartOf(pool', Upstream)
    <3>1. CASE delivered = 0
      <4>1. DOMAIN Upstream = {}
        BY <3>1, EmptyIsRanking DEF Upstream, ListOf
      <4> QED BY <2>1, <4>1 DEF PartOf, PartOfOneList
    <3>2. CASE delivered # 0
      BY <2>1, <3>2, <1>2 DEF PartOfOneList, Upstream, PoolInv, PoolTypeOK, Resolve
    <3> QED BY <3>1, <3>2
  <2>2. CASE PartOf(pool', pool)
    <3>1. CASE DOMAIN pool = {}
      BY <2>2, <3>1 DEF PartOf, PartOfOneList
    <3>2. ASSUME NEW v \in 1..Len(published), PartOf(pool, ListOf(v))
          PROVE  PartOfOneList'
      <4>1. PartOf(pool', ListOf(v))
        BY <2>2, <3>2 DEF PartOf
      <4> QED BY <4>1, <1>2 DEF PartOfOneList, Resolve
    <3> QED BY <3>1, <3>2 DEF PoolInv, PartOfOneList
  <2> QED BY <1>1, <2>1, <2>2
<1>5. InsideStampedList'
  BY <1>1, <1>2 DEF InsideStampedList, Upstream, ListOf, Resolve
<1> QED BY <1>3, <1>4, <1>5 DEF PoolInv

LEMMA PoolInvNext == PoolInv /\ [PoolNext]_poolVars => PoolInv'
<1> SUFFICES ASSUME PoolInv, [PoolNext]_poolVars PROVE PoolInv'
  OBVIOUS
<1>1. CASE Publish
  BY <1>1, PublishKeeps
<1>2. CASE Deliver
  BY <1>2, DeliverKeeps
<1>3. ASSUME NEW a \in RefreshModes, Resolve(a) PROVE PoolInv'
  BY <1>3, ResolveKeeps
<1>4. CASE UNCHANGED poolVars
  BY <1>4 DEF poolVars, PoolInv, PoolTypeOK, PartOfOneList, InsideStampedList, ListOf
<1> QED BY <1>1, <1>2, <1>3, <1>4 DEF PoolNext

THEOREM PoolInvariant == PoolSpec => []PoolInv
<1> QED BY PoolInvInit, PoolInvNext, PTL DEF PoolSpec

(* Type correctness: the cached pool is a list of distinct known symbols   *)
(* and its stamp names a published version.                                *)
THEOREM PoolTypeCorrect == PoolSpec => []PoolTypeOK
<1>1. PoolInv => PoolTypeOK
  BY DEF PoolInv
<1> QED BY <1>1, PoolInvariant, PTL

(* The cached pool orders its symbols as one published list does, whatever *)
(* lists are published and however refreshes are switched.                 *)
THEOREM OneOrder == PoolSpec => []OneListOrder
<1>1. PoolInv => OneListOrder
  BY PartKeepsOrder DEF PoolInv, PartOfOneList, OneListOrder
<1> QED BY <1>1, PoolInvariant, PTL

(* The cached pool keeps no symbol that the list it is stamped with drops. *)
THEOREM InsideStamped == PoolSpec => []InsideStampedList
<1>1. PoolInv => InsideStampedList
  BY DEF PoolInv
<1> QED BY <1>1, PoolInvariant, PTL

(* A resolution never empties a pool: what the delivered list filters away *)
(* is replaced by the head of that list.                                   *)
LEMMA ResolvedHasSymbols ==
    ASSUME PoolTypeOK, NEW a \in BOOLEAN, PoolSize > 0, DOMAIN pool # {}
    PROVE  DOMAIN Resolved(a) # {}
<1>1. IsRanking(Upstream)
  BY ListIsRanking DEF PoolTypeOK, Upstream
<1>2. CASE DOMAIN Upstream = {}
  BY <1>2 DEF Resolved, Cached
<1>3. CASE DOMAIN Upstream # {}
  BY <1>1, <1>3, FirstOfHasSymbols DEF Resolved
<1> QED BY <1>2, <1>3

(* A pool that has symbols never runs out of them, whatever lists are      *)
(* delivered and however refreshes are switched.                           *)
THEOREM PoolKeepsSymbols == PoolSpec => PoolNeverEmpties
<1> DEFINE Kept == PoolSize > 0 /\ DOMAIN pool # {} => DOMAIN pool' # {}
<1>1. PoolInv /\ [PoolNext]_poolVars => [Kept]_poolVars
  <2> SUFFICES ASSUME PoolInv, PoolNext, PoolSize > 0, DOMAIN pool # {}
               PROVE  DOMAIN pool' # {}
    OBVIOUS
  <2>1. ASSUME NEW a \in RefreshModes, Resolve(a) PROVE DOMAIN pool' # {}
    BY <2>1, ResolvedHasSymbols DEF PoolInv, Resolve
  <2> QED BY <2>1 DEF PoolNext, Publish, Deliver
<1> QED BY <1>1, PoolInvariant, PTL DEF PoolSpec, PoolNeverEmpties

(* The cached pool is the list it is stamped with, place by place. *)
StampedInv ==
    PoolInv /\ (DOMAIN ListOf(lock) # {} => pool = ListOf(lock))

(* If refreshes are never switched off, a pool stamped with a non-empty    *)
(* list is that list, all its symbols in its order.                        *)
THEOREM StampedIsList ==
    ASSUME RefreshModes = {TRUE}
    PROVE  PoolSpec => []StampedPoolIsList
<1>1. PoolInit => StampedInv
  BY PoolInvInit, EmptyIsRanking DEF PoolInit, StampedInv, ListOf
<1>2. StampedInv /\ [PoolNext]_poolVars => StampedInv'
  <2> SUFFICES ASSUME StampedInv, [PoolNext]_poolVars PROVE StampedInv'
    OBVIOUS
  <2>1. PoolInv'
    BY PoolInvNext DEF StampedInv
  <2>2. CASE Publish
    <3>1. \A v \in 0..Len(published) : ListOf(v)' = ListOf(v)
      BY <2>2, ListsAreFixed DEF StampedInv, PoolInv, PoolTypeOK
    <3>2. ListOf(lock)' = ListOf(lock)
      BY <2>2, <3>1 DEF Publish, StampedInv, PoolInv, PoolTypeOK, ListOf
    <3> QED BY <2>1, <2>2, <3>2 DEF Publish, StampedInv
  <2>3. CASE Deliver
    BY <2>1, <2>3 DEF Deliver, StampedInv, ListOf
  <2>4. CASE Resolve(TRUE)
    <3>1. ListOf(lock)' = Upstream
      BY <2>4 DEF Resolve, Upstream, ListOf
    <3> QED BY <2>1, <2>4, <3>1 DEF Resolve, Resolved, StampedInv
  <2>5. CASE UNCHANGED poolVars
    BY <2>1, <2>5 DEF poolVars, StampedInv, ListOf
  <2> QED BY <2>2, <2>3, <2>4, <2>5 DEF PoolNext
<1>3. StampedInv => StampedPoolIsList
  BY DEF StampedInv, StampedPoolIsList, KeepsOrderOf
<1> QED BY <1>1, <1>2, <1>3, PTL DEF PoolSpec

-----------------------------------------------------------------------------
(* Operators of LivePoolRotation *)

USE RotationAssumption

LEMMA InputType ==
    ASSUME NEW in \in Inputs, NEW s \in Symbols
    PROVE  /\ in.view[s] \in ViewType
           /\ in.allowRefresh \in BOOLEAN
           /\ in.atrMult \in Nat
           /\ Gap(in, s) \in Nat
           /\ Level(in, s) \in Nat
<1>1. in.view[s] \in ViewType /\ in.allowRefresh \in BOOLEAN /\ in.atrMult \in Nat
  <2>1. /\ in.view \in [Symbols -> Views]
        /\ in.allowRefresh \in RefreshModes
        /\ in.atrMult \in AtrMultipliers
    BY DEF Inputs
  <2>2. in.view[s] \in Views
    BY <2>1
  <2> QED BY <2>1, <2>2
<1>2. in.view[s].price \in Nat /\ in.view[s].atr \in Nat
  BY <1>1 DEF ViewType
<1>3. \A m, n \in Nat : m * n \in Nat /\ m + n \in Nat
  OBVIOUS
<1> QED BY <1>1, <1>2, <1>3 DEF Gap, Level

(* The high water mark never comes down, whether or not it is stored. *)
LEMMA HighNeverFalls ==
    ASSUME TypeOK, NEW in \in Inputs, NEW s \in Symbols
    PROVE  /\ TradeAfter(in)[s] \in TradeType
           /\ HighOf(in, s) \in Nat
           /\ HighOf(in, s) >= trade[s].high
           /\ TradeAfter(in)[s].high >= trade[s].high
           /\ TradeAfter(in)[s].holding = trade[s].holding
<1>1. trade[s] \in TradeType /\ trade[s].high \in Nat
  BY DEF TypeOK, TradeType
<1>2. in.view[s].price \in Nat
  BY InputType DEF ViewType
<1>3. HighOf(in, s) \in Nat /\ HighOf(in, s) >= trade[s].high
  BY <1>1, <1>2 DEF HighOf
<1>4. \/ TradeAfter(in)[s] = trade[s]
      \/ TradeAfter(in)[s] = [trade[s] EXCEPT !.high = HighOf(in, s)]
  BY DEF TradeAfter
<1> QED BY <1>1, <1>3, <1>4 DEF TradeType

(* What an evaluation decides, in terms of the books it was called with:   *)
(* unless it is blocked, every position has a complete trade state, and no *)
(* buy it plans has a position.                                            *)
LEMMA DecisionFacts ==
    ASSUME TypeOK, NEW in \in Inputs
    PROVE  /\ StopInputBlocked(in) => Sells(in) # {} /\ PlannedBuys(in) = {}
           /\ ~StopInputBlocked(in) =>
                \A s \in Symbols : lots[s] > 0 => Reconciled(s)
           /\ \A s \in PlannedBuys(in) : s \in Symbols => lots[s] = 0
<1>1. ASSUME StopInputBlocked(in) PROVE Sells(in) # {} /\ PlannedBuys(in) = {}
  <2>1. PICK s \in Held : ~StopInputsKnown(in, s)
    BY <1>1 DEF StopInputBlocked
  <2>2. SellReason(in, s) = "missing_stop_input"
    BY <2>1 DEF SellReason
  <2>3. s \in Sells(in)
    BY <2>1, <2>2 DEF Sells
  <2> QED BY <1>1, <2>3 DEF PlannedBuys
<1>2. ASSUME ~StopInputBlocked(in), NEW s \in Symbols, lots[s] > 0
      PROVE  Reconciled(s)
  <2>1. StopInputsKnown(in, s)
    BY <1>2 DEF StopInputBlocked, Held
  <2> QED BY <2>1 DEF StopInputsKnown, Reconciled
<1>3. ASSUME NEW s \in PlannedBuys(in), s \in Symbols PROVE lots[s] = 0
  <2>1. ~StopInputBlocked(in) /\ ~trade[s].holding
    BY DEF PlannedBuys
  <2>2. ~(lots[s] > 0)
    BY <1>2, <1>3, <2>1 DEF Reconciled
  <2>3. lots[s] \in Nat
    BY <1>3 DEF TypeOK
  <2> QED BY <2>2, <2>3
<1> QED BY <1>1, <1>2, <1>3

-----------------------------------------------------------------------------
(* Types *)

LEMMA NoDecisionType == NoDecision.pool = EmptyList /\ IsRanking(NoDecision.pool)
BY EmptyIsRanking DEF NoDecision

LEMMA TypeInit == Init => TypeOK
<1> SUFFICES ASSUME Init PROVE TypeOK
  OBVIOUS
<1>1. PoolTypeOK
  BY PoolInvInit DEF Init, PoolInv
<1>2. DecisionTypeOK
  BY EmptyIsRanking DEF Init, DecisionTypeOK, NoDecision, PoolInit
<1>3. trade \in [Symbols -> TradeType]
  BY DEF Init, NoTrade, TradeType
<1> QED BY <1>1, <1>2, <1>3 DEF Init, TypeOK

(* What a decision on these inputs is made of. *)
LEMMA DecisionType ==
    ASSUME TypeOK, NEW in \in Inputs, decision' = DecisionOn(in), UNCHANGED poolVars
    PROVE  DecisionTypeOK'
<1>1. PoolTypeOK
  BY DEF TypeOK
<1>2. IsRanking(Resolved(in.allowRefresh))
  <2>1. in.allowRefresh \in BOOLEAN
    BY DEF Inputs
  <2> QED BY <1>1, <2>1, ResolvedShape
<1>3. IsRanking(Upstream)
  BY <1>1, ListIsRanking DEF Upstream, PoolTypeOK
<1>4. Selected(in) \subseteq Symbols
  BY <1>2 DEF Selected, Candidates, IsRanking
<1>5. Sells(in) \subseteq Symbols
  BY DEF Sells, Held
<1>6. PlannedBuys(in) \subseteq Symbols
  BY <1>3 DEF PlannedBuys, IsRanking
<1>7. StopInputBlocked(in) \in BOOLEAN /\ Open(in) \in BOOLEAN
  BY DEF StopInputBlocked, Open, Inputs
<1>8. /\ decision'.pool = Resolved(in.allowRefresh)
      /\ decision'.version = delivered
      /\ decision'.sells = Sells(in)
      /\ decision'.blocked = StopInputBlocked(in)
      /\ decision'.positions \subseteq {BTC} \cup Selected(in)
      /\ decision'.funded = Open(in)
      /\ decision'.buys = PlannedBuys(in)
  BY DEF DecisionOn
<1> QED BY <1>1, <1>2, <1>4, <1>5, <1>6, <1>7, <1>8
        DEF DecisionTypeOK, PoolTypeOK, poolVars

LEMMA PublishTyped ==
    ASSUME PoolTypeOK, Publish
    PROVE  PoolTypeOK' /\ Len(published') = Len(published) + 1
<1>1. published' \in Seq(RawLists) /\ Len(published') = Len(published) + 1
  BY DEF PoolTypeOK, Publish
<1> QED BY <1>1 DEF PoolTypeOK, Publish

LEMMA TypeNext == TypeOK /\ [Next]_vars => TypeOK'
<1> SUFFICES ASSUME TypeOK, [Next]_vars PROVE TypeOK'
  OBVIOUS
<1>1. CASE PublishList
  <2>1. PoolTypeOK' /\ Len(published') = Len(published) + 1
    BY <1>1, PublishTyped DEF PublishList, TypeOK
  <2>2. decision.version \in 0..Len(published')
    BY <2>1 DEF TypeOK, DecisionTypeOK, PoolTypeOK
  <2> QED BY <1>1, <2>1, <2>2 DEF PublishList, cycleVars, TypeOK, DecisionTypeOK
<1>2. CASE DeliverList
  <2>1. PoolTypeOK'
    BY <1>2 DEF DeliverList, Deliver, TypeOK, PoolTypeOK
  <2>2. UNCHANGED <<published, cycleVars>>
    BY <1>2 DEF DeliverList, Deliver
  <2> QED BY <2>1, <2>2 DEF cycleVars, TypeOK, DecisionTypeOK
<1>3. CASE Evaluate
  <2>1. PICK in \in Inputs :
          /\ decision' = DecisionOn(in)
          /\ trade' = TradeAfter(in)
          /\ tripLevel' = [s \in Symbols |->
               IF s \in Held /\ SellReason(in, s) = "atr_stop" /\ Level(in, s) > tripLevel[s]
                 THEN Level(in, s) ELSE tripLevel[s]]
          /\ untripped' =
               \/ untripped
               \/ \E s \in Held : Level(in, s) <= tripLevel[s] /\ SellReason(in, s) = "none"
    BY <1>3 DEF Evaluate
  <2>2. /\ phase' = "decided" /\ ordered' = {}
        /\ UNCHANGED poolVars /\ UNCHANGED lots
    BY <1>3 DEF Evaluate
  <2>3. DecisionTypeOK'
    BY <2>1, <2>2, DecisionType
  <2>4. trade' \in [Symbols -> TradeType]
    <3>1. \A s \in Symbols : TradeAfter(in)[s] \in TradeType
      BY HighNeverFalls
    <3>2. TradeAfter(in) = [s \in Symbols |-> TradeAfter(in)[s]]
      BY DEF TradeAfter
    <3> QED BY <2>1, <3>1, <3>2
  <2>5. tripLevel' \in [Symbols -> Nat]
    BY <2>1, InputType DEF TypeOK
  <2>6. untripped' \in BOOLEAN
    BY <2>1 DEF TypeOK
  <2>7. PoolTypeOK'
    BY <2>2 DEF TypeOK, PoolTypeOK, poolVars
  <2> QED BY <2>2, <2>3, <2>4, <2>5, <2>6, <2>7 DEF TypeOK
<1>4. CASE EvaluateRaises
  <2>1. PICK in \in Inputs : trade' = TradeAfter(in)
    BY <1>4 DEF EvaluateRaises
  <2>2. trade' \in [Symbols -> TradeType]
    <3>1. \A s \in Symbols : TradeAfter(in)[s] \in TradeType
      BY HighNeverFalls
    <3>2. TradeAfter(in) = [s \in Symbols |-> TradeAfter(in)[s]]
      BY DEF TradeAfter
    <3> QED BY <2>1, <3>1, <3>2
  <2> QED BY <1>4, <2>2 DEF EvaluateRaises, poolVars, TypeOK, PoolTypeOK, DecisionTypeOK
<1>5. CASE RecordPool
  <2>1. PoolTypeOK'
    BY <1>5 DEF RecordPool, TypeOK, PoolTypeOK, DecisionTypeOK
  <2>2. UNCHANGED <<published, cycleVars>>
    BY <1>5 DEF RecordPool, cycleVars
  <2> QED BY <2>1, <2>2 DEF cycleVars, TypeOK, DecisionTypeOK
<1>6. ASSUME NEW s \in Symbols, Fill(s) PROVE TypeOK'
  <2>1. lots' \in [Symbols -> Nat]
    BY <1>6 DEF Fill, TypeOK
  <2> QED BY <1>6, <2>1 DEF Fill, poolVars, TypeOK, PoolTypeOK, DecisionTypeOK
<1>7. ASSUME NEW s \in Symbols, SaveFill(s) PROVE TypeOK'
  <2>1. trade' \in [Symbols -> TradeType]
    BY <1>7 DEF SaveFill, TypeOK, TradeType
  <2>2. tripLevel' \in [Symbols -> Nat]
    BY <1>7 DEF SaveFill, TypeOK
  <2> QED BY <1>7, <2>1, <2>2 DEF SaveFill, poolVars, TypeOK, PoolTypeOK, DecisionTypeOK
<1>8. ASSUME NEW s \in Symbols, Exit(s) PROVE TypeOK'
  BY <1>8 DEF Exit, poolVars, TypeOK, PoolTypeOK, DecisionTypeOK
<1>9. ASSUME NEW s \in Symbols, SaveExit(s) PROVE TypeOK'
  BY <1>9 DEF SaveExit, NoTrade, TradeType, poolVars, TypeOK, PoolTypeOK, DecisionTypeOK
<1>10. CASE EndCycle
  <2>1. DecisionTypeOK'
    BY <1>10, EmptyIsRanking
       DEF EndCycle, NoDecision, DecisionTypeOK, TypeOK, PoolTypeOK, poolVars
  <2> QED BY <1>10, <2>1 DEF EndCycle, poolVars, TypeOK, PoolTypeOK
<1>11. CASE UNCHANGED vars
  BY <1>11 DEF vars, poolVars, cycleVars, TypeOK, PoolTypeOK, DecisionTypeOK
<1> QED BY <1>1, <1>2, <1>3, <1>4, <1>5, <1>6, <1>7, <1>8, <1>9, <1>10, <1>11 DEF Next

(* Type correctness of the profile and of the platform around it. *)
THEOREM TypeCorrect == Spec => []TypeOK
<1> QED BY TypeInit, TypeNext, PTL DEF Spec

-----------------------------------------------------------------------------
(* Positions *)

(* A buy the platform has not made yet is of a symbol the exchange does    *)
(* not hold.  NoPyramiding alone is not inductive: Fill needs this.        *)
BuysAreNew ==
    phase = "decided" => \A s \in decision.buys : s \in ordered \/ lots[s] = 0

LotsInv == TypeOK /\ BuysAreNew /\ NoPyramiding

LEMMA LotsNext == LotsInv /\ [Next]_vars => BuysAreNew' /\ NoPyramiding'
<1> SUFFICES ASSUME LotsInv, [Next]_vars PROVE BuysAreNew' /\ NoPyramiding'
  OBVIOUS
<1> USE DEF LotsInv
<1>1. CASE Evaluate
  <2>1. PICK in \in Inputs : decision' = DecisionOn(in)
    BY <1>1 DEF Evaluate
  <2>2. decision'.buys = PlannedBuys(in) /\ PlannedBuys(in) \subseteq Symbols
    <3>1. DecisionTypeOK'
      BY <2>1, <1>1, DecisionType DEF Evaluate
    <3> QED BY <2>1, <3>1 DEF DecisionOn, DecisionTypeOK
  <2>3. \A s \in PlannedBuys(in) : lots[s] = 0
    BY <2>2, DecisionFacts
  <2> QED BY <1>1, <2>2, <2>3 DEF Evaluate, BuysAreNew, NoPyramiding
<1>2. ASSUME NEW s \in Symbols, Fill(s) PROVE BuysAreNew' /\ NoPyramiding'
  <2>1. lots[s] = 0
    BY <1>2 DEF Fill, BuysAreNew
  <2>2. lots' = [lots EXCEPT ![s] = 1] /\ ordered' = ordered \cup {s}
    BY <1>2, <2>1 DEF Fill
  <2> QED BY <1>2, <2>2 DEF Fill, BuysAreNew, NoPyramiding, TypeOK
<1>3. ASSUME NEW s \in Symbols, Exit(s) PROVE BuysAreNew' /\ NoPyramiding'
  BY <1>3 DEF Exit, BuysAreNew, NoPyramiding, TypeOK
<1>4. CASE EndCycle
  BY <1>4 DEF EndCycle, BuysAreNew, NoPyramiding
<1>5. ASSUME UNCHANGED <<lots, phase, decision, ordered>>
      PROVE  BuysAreNew' /\ NoPyramiding'
  BY <1>5 DEF BuysAreNew, NoPyramiding
<1>6. ASSUME NEW s \in Symbols, SaveFill(s) \/ SaveExit(s)
      PROVE  UNCHANGED <<lots, phase, decision, ordered>>
  BY <1>6 DEF SaveFill, SaveExit
<1>7. CASE PublishList \/ DeliverList \/ EvaluateRaises \/ RecordPool \/ UNCHANGED vars
  BY <1>5, <1>7 DEF PublishList, DeliverList, EvaluateRaises, RecordPool, vars, cycleVars
<1> QED BY <1>1, <1>2, <1>3, <1>4, <1>5, <1>6, <1>7 DEF Next

(* Whatever the platform does between the steps of a buy, and whatever the *)
(* pool and the stops do meanwhile, no buy is planned on top of a position.*)
THEOREM NeverPyramids == Spec => []NoPyramiding
<1>1. Init => LotsInv
  BY TypeInit DEF Init, LotsInv, BuysAreNew, NoPyramiding
<1>2. LotsInv /\ [Next]_vars => LotsInv'
  BY TypeNext, LotsNext DEF LotsInv
<1>3. LotsInv => NoPyramiding
  BY DEF LotsInv
<1> QED BY <1>1, <1>2, <1>3, PTL DEF Spec

(* No evaluation leaves authority in a decision while a position lacks a   *)
(* complete trade state.                                                   *)
THEOREM BooksBeforeAuthority == Spec => AuthorityNeedsReconciledBooks
<1>1. TypeOK /\ [Next]_vars => [AuthorityStep]_vars
  <2> SUFFICES ASSUME TypeOK, Next, phase = "idle", phase' = "decided",
                      decision'.positions # {} \/ decision'.funded \/ decision'.buys # {}
               PROVE  \A s \in Symbols : lots[s] > 0 => Reconciled(s)
    BY DEF AuthorityStep
  <2>1. CASE Evaluate
    <3>1. PICK in \in Inputs : decision' = DecisionOn(in)
      BY <2>1 DEF Evaluate
    <3>2. ~StopInputBlocked(in)
      <4>1. ASSUME StopInputBlocked(in) PROVE FALSE
        <5>1. PlannedBuys(in) = {} /\ ~Open(in)
          BY <4>1, DecisionFacts DEF Open
        <5> QED BY <3>1, <5>1 DEF DecisionOn
      <4> QED BY <4>1
    <3> QED BY <3>2, DecisionFacts
  <2>2. ~Evaluate => phase' = phase \/ phase' = "idle"
    BY DEF Next, PublishList, DeliverList, EvaluateRaises, RecordPool, Fill,
           SaveFill, Exit, SaveExit, EndCycle, cycleVars
  <2> QED BY <2>1, <2>2
<1> QED BY <1>1, TypeCorrect, PTL DEF Spec, AuthorityNeedsReconciledBooks

(* A decision that reports or could not evaluate an exit opens nothing. *)
THEOREM ExitsClose == Spec => []ExitsCloseTheDecision
<1>1. Init => ExitsCloseTheDecision
  BY DEF Init, NoDecision, ExitsCloseTheDecision
<1>2. TypeOK /\ ExitsCloseTheDecision /\ [Next]_vars => ExitsCloseTheDecision'
  <2> SUFFICES ASSUME TypeOK, ExitsCloseTheDecision, [Next]_vars
               PROVE  ExitsCloseTheDecision'
    OBVIOUS
  <2>1. CASE Evaluate
    <3>1. PICK in \in Inputs : decision' = DecisionOn(in)
      BY <2>1 DEF Evaluate
    <3>2. StopInputBlocked(in) => Sells(in) # {} /\ PlannedBuys(in) = {}
      BY DecisionFacts
    <3>3. Sells(in) # {} => ~Open(in)
      BY DEF Open
    <3> QED BY <3>1, <3>2, <3>3 DEF DecisionOn, ExitsCloseTheDecision
  <2>2. CASE EndCycle
    BY <2>2 DEF EndCycle, NoDecision, ExitsCloseTheDecision
  <2>3. ~Evaluate /\ ~EndCycle => decision' = decision
    BY DEF Next, PublishList, DeliverList, EvaluateRaises, RecordPool, Fill,
           SaveFill, Exit, SaveExit, cycleVars, vars
  <2> QED BY <2>1, <2>2, <2>3 DEF ExitsCloseTheDecision
<1> QED BY <1>1, <1>2, TypeCorrect, PTL DEF Spec

-----------------------------------------------------------------------------
(* Stops *)

(* The mark that made a stop fire is in the platform's state, not only in  *)
(* the working copy: a price that sets a new high fires no stop.           *)
MarksCoverTrips ==
    \A s \in Symbols : tripLevel[s] > 0 => trade[s].high > tripLevel[s]

StopInv == MarksCoverTrips /\ StopStaysTripped

LEMMA FiredStop ==
    ASSUME TypeOK, NEW in \in Inputs, NEW s \in Held, SellReason(in, s) = "atr_stop"
    PROVE  trade[s].high > Level(in, s)
<1>1. s \in Symbols
  BY DEF Held
<1>2. /\ in.view[s].price \in Nat /\ Gap(in, s) \in Nat
      /\ trade[s].high \in Nat
  BY <1>1, InputType DEF ViewType, TypeOK, TradeType
<1>3. in.view[s].price + Gap(in, s) < HighOf(in, s)
  BY DEF SellReason
<1> QED BY <1>2, <1>3 DEF HighOf, Level

LEMMA QuietStop ==
    ASSUME TypeOK, MarksCoverTrips, NEW in \in Inputs, NEW s \in Held,
           SellReason(in, s) = "none"
    PROVE  Level(in, s) > tripLevel[s]
<1>1. s \in Symbols
  BY DEF Held
<1>2. StopInputsKnown(in, s) /\ ~(Level(in, s) < HighOf(in, s))
  BY DEF SellReason, Level
<1>3. /\ in.view[s].price \in Nat /\ Gap(in, s) \in Nat /\ Level(in, s) \in Nat
      /\ HighOf(in, s) \in Nat /\ HighOf(in, s) >= trade[s].high
      /\ trade[s].high \in Nat /\ tripLevel[s] \in Nat
  BY <1>1, InputType, HighNeverFalls DEF ViewType, TypeOK, TradeType
<1>4. Level(in, s) > 0
  BY <1>2, <1>3 DEF StopInputsKnown, Level
<1> QED BY <1>1, <1>2, <1>3, <1>4 DEF MarksCoverTrips

LEMMA StopNext == TypeOK /\ StopInv /\ [Next]_vars => StopInv'
<1> SUFFICES ASSUME TypeOK, StopInv, [Next]_vars PROVE StopInv'
  OBVIOUS
<1> USE DEF StopInv
<1>1. CASE Evaluate
  <2>1. PICK in \in Inputs :
          /\ trade' = TradeAfter(in)
          /\ tripLevel' = [s \in Symbols |->
               IF s \in Held /\ SellReason(in, s) = "atr_stop" /\ Level(in, s) > tripLevel[s]
                 THEN Level(in, s) ELSE tripLevel[s]]
          /\ untripped' =
               \/ untripped
               \/ \E s \in Held : Level(in, s) <= tripLevel[s] /\ SellReason(in, s) = "none"
    BY <1>1 DEF Evaluate
  <2>2. ASSUME NEW s \in Symbols, tripLevel'[s] > 0
        PROVE  trade'[s].high > tripLevel'[s]
    <3>1. /\ trade'[s].high \in Nat /\ trade'[s].high >= trade[s].high
          /\ trade[s].high \in Nat /\ tripLevel[s] \in Nat /\ Level(in, s) \in Nat
      BY <2>1, HighNeverFalls, InputType DEF TypeOK, TradeType
    <3>2. CASE tripLevel'[s] = tripLevel[s]
      BY <2>2, <3>1, <3>2 DEF MarksCoverTrips
    <3>3. CASE tripLevel'[s] = Level(in, s) /\ s \in Held /\ SellReason(in, s) = "atr_stop"
      BY <3>1, <3>3, FiredStop
    <3> QED BY <2>1, <3>2, <3>3
  <2>3. \A s \in Held : SellReason(in, s) = "none" => ~(Level(in, s) <= tripLevel[s])
    <3> SUFFICES ASSUME NEW s \in Held, SellReason(in, s) = "none"
                 PROVE  ~(Level(in, s) <= tripLevel[s])
      OBVIOUS
    <3>1. Level(in, s) \in Nat /\ tripLevel[s] \in Nat
      BY InputType DEF Held, TypeOK
    <3> QED BY <3>1, QuietStop
  <2> QED BY <2>1, <2>2, <2>3 DEF MarksCoverTrips, StopStaysTripped
<1>2. CASE EvaluateRaises
  <2>1. PICK in \in Inputs : trade' = TradeAfter(in)
    BY <1>2 DEF EvaluateRaises
  <2>2. \A s \in Symbols : /\ trade'[s].high \in Nat /\ trade[s].high \in Nat
                           /\ trade'[s].high >= trade[s].high
                           /\ tripLevel[s] \in Nat
    BY <2>1, HighNeverFalls DEF TypeOK, TradeType
  <2> QED BY <1>2, <2>2 DEF EvaluateRaises, MarksCoverTrips, StopStaysTripped
<1>3. ASSUME NEW s \in Symbols, SaveFill(s) PROVE StopInv'
  BY <1>3 DEF SaveFill, MarksCoverTrips, StopStaysTripped, TypeOK
<1>4. ASSUME NEW s \in Symbols, SaveExit(s) PROVE StopInv'
  BY <1>4 DEF SaveExit, MarksCoverTrips, StopStaysTripped, TypeOK
<1>5. ASSUME UNCHANGED <<trade, tripLevel, untripped>> PROVE StopInv'
  BY <1>5 DEF MarksCoverTrips, StopStaysTripped
<1>6. ASSUME NEW s \in Symbols, Fill(s) \/ Exit(s)
      PROVE  UNCHANGED <<trade, tripLevel, untripped>>
  BY <1>6 DEF Fill, Exit
<1>7. CASE PublishList \/ DeliverList \/ RecordPool \/ EndCycle \/ UNCHANGED vars
  BY <1>5, <1>7 DEF PublishList, DeliverList, RecordPool, EndCycle, vars, cycleVars
<1> QED BY <1>1, <1>2, <1>3, <1>4, <1>5, <1>6, <1>7 DEF Next

(* A stop that fired never clears at a level as low while its trade state  *)
(* stands, whether or not the platform stores the high water marks.        *)
THEOREM StopsStayTripped == Spec => []StopStaysTripped
<1>1. Init => StopInv
  BY DEF Init, StopInv, MarksCoverTrips, StopStaysTripped
<1>2. StopInv => StopStaysTripped
  BY DEF StopInv
<1> QED BY <1>1, <1>2, StopNext, TypeCorrect, PTL DEF Spec

-----------------------------------------------------------------------------
(* The pool of the profile *)

(* Until the platform records it, the decision's pool is the one the       *)
(* resolver would compute again: nothing it depends on can change while    *)
(* the decision is acted on.                                               *)
PoolIsResolved ==
    phase = "decided" =>
        /\ decision.version = delivered
        /\ \/ \E a \in RefreshModes : decision.pool = Resolved(a)
           \/ pool = decision.pool /\ lock = decision.version

LEMMA ResolvedStands ==
    ASSUME PoolTypeOK, Publish, NEW a
    PROVE  Resolved(a)' = Resolved(a)
<1>1. ListOf(delivered)' = ListOf(delivered)
  <2>1. \A v \in 0..Len(published) : ListOf(v)' = ListOf(v)
    BY ListsAreFixed DEF PoolTypeOK
  <2> QED BY <2>1 DEF PoolTypeOK, Publish, ListOf
<1>2. Upstream' = Upstream /\ pool' = pool
  BY <1>1 DEF Upstream, Publish
<1>3. Cached' = Cached
  BY <1>2 DEF Cached
<1> QED BY <1>2, <1>3 DEF Resolved

LEMMA PoolStep ==
    TypeOK /\ PoolIsResolved /\ [Next]_vars => [PoolNext]_poolVars /\ PoolIsResolved'
<1> SUFFICES ASSUME TypeOK, PoolIsResolved, [Next]_vars
             PROVE  [PoolNext]_poolVars /\ PoolIsResolved'
  OBVIOUS
<1>1. CASE PublishList
  <2>1. Publish /\ UNCHANGED cycleVars
    BY <1>1 DEF PublishList
  <2>2. \A a \in RefreshModes : Resolved(a)' = Resolved(a)
    BY <2>1, ResolvedStands DEF TypeOK
  <2>3. UNCHANGED <<phase, decision, delivered, pool, lock>>
    BY <2>1 DEF Publish, cycleVars
  <2>4. PoolIsResolved'
    BY <2>2, <2>3 DEF PoolIsResolved
  <2> QED BY <2>1, <2>4 DEF PoolNext
<1>2. CASE DeliverList
  BY <1>2 DEF DeliverList, cycleVars, PoolNext, PoolIsResolved
<1>3. CASE Evaluate
  <2>1. PICK in \in Inputs : decision' = DecisionOn(in)
    BY <1>3 DEF Evaluate
  <2>2. in.allowRefresh \in RefreshModes
    BY DEF Inputs
  <2>3. UNCHANGED poolVars
    BY <1>3 DEF Evaluate
  <2>4. Resolved(in.allowRefresh)' = Resolved(in.allowRefresh)
    BY <2>3 DEF poolVars, Resolved, Cached, Upstream, ListOf
  <2>5. decision'.pool = Resolved(in.allowRefresh) /\ decision'.version = delivered
    BY <2>1 DEF DecisionOn
  <2> QED BY <2>2, <2>3, <2>4, <2>5 DEF PoolIsResolved, poolVars
<1>4. CASE RecordPool
  <2>1. /\ phase = "decided" /\ pool' = decision.pool /\ lock' = decision.version
        /\ UNCHANGED <<published, delivered, cycleVars>>
    BY <1>4 DEF RecordPool
  <2>2. PoolIsResolved'
    BY <2>1 DEF PoolIsResolved, cycleVars
  <2>3. CASE \E a \in RefreshModes : decision.pool = Resolved(a)
    BY <2>1, <2>2, <2>3 DEF PoolIsResolved, PoolNext, Resolve
  <2>4. CASE pool = decision.pool /\ lock = decision.version
    BY <2>1, <2>2, <2>4 DEF poolVars
  <2> QED BY <2>1, <2>3, <2>4 DEF PoolIsResolved
<1>5. ASSUME UNCHANGED <<poolVars, phase, decision>>
      PROVE  [PoolNext]_poolVars /\ PoolIsResolved'
  <2>1. \A a : Resolved(a)' = Resolved(a)
    BY <1>5 DEF poolVars, Resolved, Cached, Upstream, ListOf
  <2> QED BY <1>5, <2>1 DEF PoolIsResolved, poolVars
<1>6. CASE EvaluateRaises
  BY <1>5, <1>6 DEF EvaluateRaises
<1>7. ASSUME NEW s \in Symbols, Fill(s) \/ SaveFill(s) \/ Exit(s) \/ SaveExit(s)
      PROVE  UNCHANGED <<poolVars, phase, decision>>
  BY <1>7 DEF Fill, SaveFill, Exit, SaveExit
<1>8. CASE EndCycle
  BY <1>8 DEF EndCycle, PoolIsResolved, poolVars
<1>9. CASE UNCHANGED vars
  BY <1>5, <1>9 DEF vars, cycleVars
<1> QED BY <1>1, <1>2, <1>3, <1>4, <1>5, <1>6, <1>7, <1>8, <1>9 DEF Next

(* The pool inside the profile, carried from a decision to the next        *)
(* cycle's state by a platform that may drop, delay or repeat the write,   *)
(* takes only the steps of the pool on its own.                            *)
THEOREM PoolRefinement == Spec => PoolSpec
<1>1. Init => PoolInit /\ PoolIsResolved
  BY DEF Init, PoolIsResolved
<1> QED BY <1>1, PoolStep, TypeCorrect, PTL DEF Spec, PoolSpec

(* What is proved of the pool holds inside the profile. *)
THEOREM PoolInsideProfile == Spec => [](OneListOrder /\ InsideStampedList)
<1> QED BY PoolRefinement, OneOrder, InsideStamped, PTL

==============================================================================
