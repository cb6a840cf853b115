---------------------------- MODULE RotationPool ----------------------------
(***************************************************************************)
(* The authoritative live pool as the strategy caches it.                  *)
(*                                                                         *)
(* CryptoLivePoolPipelines publishes ordered lists of symbols, one per     *)
(* version.  The platform validates one of them and hands it to the        *)
(* strategy as `universe_snapshot', with its version in                    *)
(* state["trend_pool_version"].  resolve_authoritative_rotation_pool turns *)
(* that list and the pool cached in state["rotation_pool_symbols"] into    *)
(* the pool of this cycle, caches it and stamps it with the version of the *)
(* list just delivered, whichever of the two it used.                      *)
(*                                                                         *)
(* A list of distinct symbols is represented by the place of each of its   *)
(* symbols (a "ranking"): filtering a list is restricting that function,   *)
(* and two rankings are the same list when they order the same symbols the *)
(* same way.                                                               *)
(***************************************************************************)
EXTENDS Naturals, Sequences, FiniteSets

CONSTANTS
    Symbols,       \* the trend symbols (BTCUSDT is not one of them)
    RawLists,      \* the lists the pipeline may publish, repeats included
    MaxVersions,   \* bound: versions published in one behaviour
    PoolSize,      \* config["trend_pool_size"], already max(0, int(...))
    RefreshModes   \* the values allow_rotation_refresh takes between cycles

ASSUME PoolAssumption ==
    /\ RawLists \subseteq Seq(Symbols)
    /\ MaxVersions \in Nat
    /\ PoolSize \in Nat
    /\ RefreshModes \subseteq BOOLEAN

VARIABLES
    published,   \* published[v] is the list of version v
    delivered,   \* version of this cycle's universe_snapshot; 0: no artifact
    pool,        \* state["rotation_pool_symbols"], as a ranking
    lock         \* state["rotation_pool_source_version"]; 0: ""

poolVars == <<published, delivered, pool, lock>>

-----------------------------------------------------------------------------
(* Rankings *)

EmptyList == [s \in {} |-> 0]

(* Each symbol at its first occurrence: repeats are dropped. *)
Normalized(raw) ==
    [s \in {raw[i] : i \in DOMAIN raw} |->
        CHOOSE i \in DOMAIN raw : raw[i] = s /\ \A j \in 1..(i-1) : raw[j] # s]

Within(p, S) == [s \in DOMAIN p \cap S |-> p[s]]

FirstOf(p, n) ==
    Within(p, {s \in DOMAIN p : Cardinality({t \in DOMAIN p : p[t] < p[s]}) < n})

(* p is the list q with some symbols left out. *)
KeepsOrderOf(p, q) ==
    /\ DOMAIN p \subseteq DOMAIN q
    /\ \A s, t \in DOMAIN p : p[s] < p[t] <=> q[s] < q[t]

-----------------------------------------------------------------------------
(* resolve_authoritative_rotation_pool *)

ListOf(v) == IF v = 0 THEN EmptyList ELSE Normalized(published[v])

Upstream == ListOf(delivered)

(* mutant of Cached: the cached pool is not filtered by the delivered list *)
CachedUnfiltered == pool

(* mutant of Cached: an empty upstream list filters like any other *)
CachedFiltered == Within(pool, DOMAIN Upstream)

(* An empty upstream list filters nothing. *)
Cached ==
    IF DOMAIN Upstream = {} THEN pool ELSE Within(pool, DOMAIN Upstream)

(* mutant of Resolved: a frozen pool takes in the delivered symbols too *)
ResolvedMerged(allowRefresh) ==
    IF allowRefresh
      THEN IF DOMAIN Upstream # {} THEN Upstream ELSE Cached
      ELSE [s \in DOMAIN Cached \cup DOMAIN Upstream |->
              IF s \in DOMAIN Cached THEN Cached[s] ELSE Upstream[s]]

(* mutant of Resolved: the cached pool wins even when a refresh is allowed *)
ResolvedSticky(allowRefresh) ==
    IF DOMAIN Cached # {} THEN Cached ELSE Upstream

Resolved(allowRefresh) ==
    IF allowRefresh
      THEN IF DOMAIN Upstream # {} THEN Upstream ELSE Cached
      ELSE IF DOMAIN Cached # {} THEN Cached ELSE FirstOf(Upstream, PoolSize)

Resolve(allowRefresh) ==
    /\ pool' = Resolved(allowRefresh)
    /\ lock' = delivered
    /\ UNCHANGED <<published, delivered>>

-----------------------------------------------------------------------------
(* The pipeline and the platform (external) *)

Publish ==
    /\ Len(published) < MaxVersions
    /\ \E raw \in RawLists : published' = Append(published, raw)
    /\ UNCHANGED <<delivered, pool, lock>>

(* Any version published so far, an older one too, or no artifact at all. *)
Deliver ==
    /\ \E v \in 0..Len(published) : delivered' = v
    /\ UNCHANGED <<published, pool, lock>>

-----------------------------------------------------------------------------
PoolInit ==
    /\ published = <<>>
    /\ delivered = 0
    /\ pool = EmptyList
    /\ lock = 0

PoolNext ==
    \/ Publish
    \/ Deliver
    \/ \E allowRefresh \in RefreshModes : Resolve(allowRefresh)

PoolSpec == PoolInit /\ [][PoolNext]_poolVars

-----------------------------------------------------------------------------
(* Properties *)

IsRanking(p) ==
    /\ DOMAIN p \subseteq Symbols
    /\ p \in [DOMAIN p -> Nat]
    /\ \A s, t \in DOMAIN p : p[s] = p[t] => s = t

(* Type invariant: the cached pool gives each of its symbols a place of    *)
(* its own, and the stamp names a published version.                       *)
PoolTypeOK ==
    /\ published \in Seq(RawLists)
    /\ delivered \in 0..Len(published)
    /\ IsRanking(pool)
    /\ lock \in 0..Len(published)

(* However refreshes are switched on and off and whatever versions are     *)
(* delivered in whatever order, the cached pool is one published list with *)
(* some symbols left out: symbols and orders of two lists are never mixed  *)
(* and no local order replaces the published one.                          *)
OneListOrder ==
    \/ DOMAIN pool = {}
    \/ \E v \in 1..Len(published) : KeepsOrderOf(pool, ListOf(v))

(* A pool stamped with a version holds no symbol the list of that version  *)
(* dropped, even when the pool itself was cached from an older list.       *)
InsideStampedList ==
    DOMAIN ListOf(lock) # {} => DOMAIN pool \subseteq DOMAIN ListOf(lock)

(* While refreshes are always allowed, a pool stamped with the version of  *)
(* a non-empty list is that list: all of its symbols, in its order.        *)
StampedPoolIsList ==
    DOMAIN ListOf(lock) # {} =>
        /\ DOMAIN pool = DOMAIN ListOf(lock)
        /\ KeepsOrderOf(pool, ListOf(lock))

(* Whatever is delivered, an empty list, one disjoint from the cache or the *)
(* same one twice, and however refreshes are switched on and off: a pool   *)
(* that has symbols never runs out of them.  An empty list does not empty  *)
(* it, and when a list drops all of its symbols that list replaces it.     *)
PoolNeverEmpties ==
    [][PoolSize > 0 /\ DOMAIN pool # {} => DOMAIN pool' # {}]_poolVars

=============================================================================
