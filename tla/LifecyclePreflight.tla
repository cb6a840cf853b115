------------------------- MODULE LifecyclePreflight -------------------------
(* build_lifecycle_preflight_bundle, invoked again and again on one bundle *)
(* root: each profile's walk-forward persists a baseline, which must be    *)
(* the only one of its profile and is then moved to the name of its        *)
(* version.  A process may stop between any two steps.                     *)
EXTENDS Naturals, FiniteSets

CONSTANTS
    NProfiles,    \* SUPPORTED_PROFILES, sorted, as 1..NProfiles
    Names,        \* file names the store may give a baseline
    Versions,     \* a subset of Names: backtest_v{param_version}.json
    RunIds,       \* what a baseline's run_id may be, an older one's too
    MaxInvocations  \* bound

ASSUME PreflightAssumption ==
    NProfiles \in Nat \ {0} /\ Versions \subseteq Names /\ MaxInvocations \in Nat

VARIABLES
    baselines,    \* of each profile: its baselines, by file name
    invocation,   \* how often the bundle was built so far
    profile,      \* the profile in turn
    expected,     \* the run_id its walk-forward returned
    stage         \* "idle", "walk", "check", "move" or "done"

bundleVars == <<baselines, invocation, profile, expected, stage>>

StartBundle ==
    /\ stage \in {"idle", "done"} /\ invocation < MaxInvocations
    /\ invocation' = invocation + 1
    /\ profile' = 1
    /\ stage' = "walk"
    /\ UNCHANGED <<baselines, expected>>

(* run_walk_forward: a baseline is persisted, possibly over one of the     *)
(* same name, and the call may raise before that or after it.              *)
PersistBaseline(name, baseline) ==
    baselines' = [baselines EXCEPT ![profile] =
        [n \in DOMAIN @ \cup {name} |-> IF n = name THEN baseline ELSE @[n]]]

WalkForward ==
    /\ stage = "walk"
    /\ \/ \E name \in Names, version \in Versions, id \in RunIds :
            /\ PersistBaseline(name, [of |-> invocation, id |-> id, version |-> version])
            /\ expected' = id
            /\ stage' \in {"check", "idle"}
       \/ stage' = "idle" /\ UNCHANGED <<baselines, expected>>
    /\ UNCHANGED <<invocation, profile>>

(* mutant of Accepted: an older baseline may lie beside the new one *)
AcceptedLatest(latest) == baselines[profile][latest].id = expected

Accepted(latest) ==
    Cardinality(DOMAIN baselines[profile]) = 1 /\ baselines[profile][latest].id = expected

(* load_latest_backtest may return any baseline of the profile. *)
Check ==
    /\ stage = "check"
    /\ \E latest \in DOMAIN baselines[profile] :
        stage' = IF Accepted(latest) THEN "move" ELSE "idle"
    /\ UNCHANGED <<baselines, invocation, profile, expected>>

(* Of one baseline, the first found is the latest. *)
Move ==
    /\ stage = "move"
    /\ \E found \in DOMAIN baselines[profile] :
        LET baseline == baselines[profile][found]
        IN  baselines' = [baselines EXCEPT ![profile] =
                [n \in (DOMAIN @ \ {found}) \cup {baseline.version} |->
                    IF n = baseline.version THEN baseline ELSE @[n]]]
    /\ IF profile < NProfiles THEN profile' = profile + 1 /\ stage' = "walk"
                              ELSE stage' = "done" /\ UNCHANGED profile
    /\ UNCHANGED <<invocation, expected>>

Crash ==
    /\ stage \notin {"idle", "done"}
    /\ stage' = "idle"
    /\ UNCHANGED <<baselines, invocation, profile, expected>>

BundleInit ==
    /\ baselines = [p \in 1..NProfiles |-> [n \in {} |-> n]]
    /\ invocation = 0
    /\ profile = 1
    /\ expected \in RunIds
    /\ stage = "idle"

BundleNext == StartBundle \/ WalkForward \/ Check \/ Move \/ Crash

BundleSpec == BundleInit /\ [][BundleNext]_bundleVars

(* A build that ends without an error leaves one baseline per profile,     *)
(* under the name of its version, and that baseline is its own: no older   *)
(* build, failed half-way or complete, has left one beside or instead of   *)
(* it, whatever the store calls them and whichever it takes for the latest.*)
BundleIsOwn ==
    stage = "done" =>
        \A p \in 1..NProfiles : \E n \in Versions :
            /\ DOMAIN baselines[p] = {n}
            /\ baselines[p][n].of = invocation /\ baselines[p][n].version = n

=============================================================================
