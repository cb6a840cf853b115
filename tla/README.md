# Verification project for CryptoStrategies

TLA+ models of the parts of CryptoStrategies in which order, failure and
repetition matter, TLC runs that check them on small instances, and TLAPS proofs
of the properties that matter most, for every value of the constants.

CryptoStrategies is a library of strategy profiles and a set of research
scripts. A profile is a function from a context (market data, portfolio, state,
runtime configuration) to a `StrategyDecision`; it places no order and saves no
state. A *platform* outside this repository calls it again and again, trades on
its decisions and keeps its state, and a *pipeline* outside this repository
publishes the live pool. What a unit test hardly reaches is what happens over
many calls, with a platform that stops half way, delays, repeats or forgets, and
in the research scripts, what a process that dies leaves behind.

`PROJECT.json` maps every definition that models code to its lines, and lists
the components, the hazards, the runs, a mutant for each property, the findings
and the theorems.

## 1. Inventory

Paths are below `src/crypto_strategies/` unless they start with `scripts/`.

| Component | State it keeps | Operations | What is hard about it | Correct when | Module |
|---|---|---|---|---|---|
| Authoritative live pool (`strategies/crypto_live_pool_rotation/rotation.py`) | `rotation_pool_symbols` and its stamp, in the caller's state | resolve, cache, filter | refreshes off, versions late, repeated or empty; a stamp that describes another list | the pool is one published list, filtered; inside the list it is stamped with; it never runs out | `RotationPool` |
| Live pool profile (`core.py`, `rotation.py`, `entrypoints/__init__.py:174`) | none; a working copy of the platform's state | select, stop checks, plan buys, decide | partial fills and restarts between fill and book; high water marks lost with the working copy; one symbol blocks all | never buys what is held, an exit closes the decision, stops do not un-fire | `LivePoolRotation` |
| Execution platform and live pool pipeline (external) | trade state, exchange lots, published lists | publish, deliver, record, fill, save, exit, restart | every step is separate and may be the last one | environment of the above | `RotationPool`, `LivePoolRotation` |
| BTC DCA profile (`strategies/crypto_btc_dca.py`, `entrypoints/__init__.py:365`) | none | window, regime, sizing, z-score exit, ceiling, gate | windows at the edges of the calendar; caps, minimum and reserve together; exits out of the window; repeated exits | reserve kept, buys only in the window, exits never buy, own gate refuses no plan | `BtcDca`, `DcaWindow` |
| Walk-forward attempts (`scripts/run_walk_forward_backtest.py`, ADR 0001) | the attempt record, the baseline, the output files | start, checkpoint, persist, write, digest, finish, fail | death between an effect and its record; a checkpoint that itself fails; two attempts on one file | the record never says less or more than what happened | `WalkForwardAttempt`, `AttemptRecord` |
| Equity combo (`strategies/crypto_equity_combo.py`, `entrypoints/__init__.py:772`) | none; pool and stamp in the caller's state | regime tiers, BTC leg, trend leg, merge, budgets, exits, plan of buys | two sources of the regime; an error of a leg is swallowed; two budgets on one cash balance; a restart between fill and book | budgets within cash and targets, no trend money in a failed or cut leg, risk within its cap | `ComboStrategy`, `EquityCombo` |
| Trend rotation (`strategies/crypto_trend_rotation.py`, `core.py`) | none | BTC snapshot, circuit breaker, selection, weights, volatility scaling | two caps on the same weights, either may bind alone | exposure within both caps | `ComboStrategy` (as the combo's leg) |
| Member risk gate (`entrypoints/_common.py`) | none | concentration, count, exposure | the outer gate may change the decision first; diagnostics survive a rejection | a rejection opens nothing, or what is bought all the same stays in bounds | in `BtcDca` and `EquityCombo`, without the count |
| Combo replay (`backtest/combo_replay.py`) | cash, holdings and rotation state over a replay | validate, signal, fill, mark, record | which day's price is used where; costs and scaling of purchases; symbols leaving the universe; arguments that are refused late | no look-ahead, ledger reconciles, only arguments are refused | `ComboReplay`, `Rebalance`, `Ledger` |
| Live pool simulator (`backtest/live_pool_simulator.py`) | cash, holdings, wealth | rank, rebalance, mark | the lag between signal and trade; opens missing on some days | trades depend on the past only, returns chain, gaps elsewhere are harmless | `LivePoolBacktest`, `Rebalance`, `Ledger` |
| Combo simulator and runners (`backtest/combo_simulator.py`, `backtest/orchestrator_runner.py`) | units and cash held; the report of the last run | slice, contribute, value, report a window | cash flows in returns, the day before a window | a contribution is worth its amount, a window is a part of the simulation | `ComboBacktest`, `LivePoolBacktest` |
| Lifecycle preflight (`scripts/build_lifecycle_preflight.py`) | files of a bundle | walk-forward per profile, check, rename baseline | rerun after a crash finds the files of the first run | what ends well is its own | `LifecyclePreflight` |
| Legacy pool refresh (`refresh_rotation_pool`) | monthly lock in the caller's state | refresh | month change between refreshes | one refresh a month | not modelled: nothing calls it |
| Evidence gate (`scripts/gate_evidence_package.py`), workflows, style checks, wheel check, one-off research scripts, tables and coercions | none of the system's | - | - | - | not modelled: see section 6 |

Interactions: the resolver's pool feeds the selection of the live pool profile,
whose decision carries pool, stamp and buys to the platform, which brings them
back as the state of the next call. The DCA profile reads the account the
platform's fills produced. The combo calls the signal functions of the DCA and
trend profiles and the resolver. The replay calls the combo's target weights day
by day and shares its ledger step with the live pool simulator. The walk-forward
script runs the back-tests and the preflight script runs walk-forwards.

## 2. Plan

Done, in this order: `RotationPool`; `LivePoolRotation` around it;
`AttemptRecord` (abstract) and `WalkForwardAttempt` (detailed, shown to implement
it); `DcaWindow` and `BtcDca` on it; `ComboStrategy` and the account around it,
`EquityCombo`; `Rebalance`, the abstract `Ledger` and the two simulations that
implement it, `ComboReplay` and `LivePoolBacktest`; `ComboBacktest`;
`LifecyclePreflight`.

Every invariant, action property and refinement of the passing runs has a proof
(section 5). What is left, most useful first:

1. The amounts of the live pool profile (`compute_allocation_budgets`), as those
   of the combo.
2. The entrypoint of `crypto_trend_rotation`, whose parts are in `ComboStrategy`.
3. A ledger for `ComboBacktest`, as the other two simulations have one: with
   contributions, its trades are not those of `Ledger`.

## 3. The models

### RotationPool

`published` is what the pipeline has published, `delivered` the version in the
platform's snapshot (0 without an artifact), `pool` and `lock` the cached pool
and its stamp. `Resolve` is `resolve_authoritative_rotation_pool`. A list of
distinct symbols is a function from symbol to place, so filtering is restriction
and "same order" is comparison of places.

Checked: the cached pool is one published list with symbols left out
(`OneListOrder`), it lies inside the list it is stamped with
(`InsideStampedList`), without frozen refreshes it *is* that list
(`StampedPoolIsList`, in `LivePoolRotation_stored`), and whatever is delivered, a
pool with symbols keeps some (`PoolNeverEmpties`). The last is what the two
fallbacks of the resolver are for: an empty list filters nothing, and a list that
shares no symbol with a frozen cache replaces it. It needs a pool size above
zero: with size zero such a list leaves nothing, as the code has it.

In the run `RotationPool` the lists are empty, repeat a symbol, swap an order or
share no symbol, and three versions of them are delivered in any order. With
refreshes switched off the pool keeps the order it was cached in while the stamp
moves to a newer list. That is intended (`tests/test_rotation_authority.py:148-164`),
and the order is still one the pipeline published, which is what `OneListOrder`
says.

### LivePoolRotation

Extends `RotationPool`. `Evaluate` is the whole of
`evaluate_crypto_live_pool_rotation`: the resolver, selection, stop checks of
every held symbol (with the high water marks they write), the plan of buys and
the gate. It is one action because nothing else touches its inputs while it
runs. `EvaluateRaises` is the `KeyError` of `plan_trend_buys` on a universe
symbol that is not quoted. Around it the platform records the pool, fills,
saves, exits, and restarts (`EndCycle`) in separate steps. The platform is the
weakest one the code allows for: it buys `planned_trend_buys` even when the
decision is closed and forgets the rest of a cycle at any point. `StoreThrough`
says whether the platform passed its own setter of trade states or the working
copy is lost. Prices and averages are small naturals, 0 for a missing value;
weights and amounts are left out.

Checked in `LivePoolRotation_lossy` (inputs missing, updates lost, refreshes on
and off): `NoPyramiding`, `ExitsCloseTheDecision`,
`AuthorityNeedsReconciledBooks`, and that the pool inside the profile takes only
the steps of the pool alone (`PoolSpec`). Checked in `LivePoolRotation_stored`
(prices falling through the stop): `StopStaysTripped`, with high water marks that
are stored; that lost ones do not clear a stop either is proved only. The properties do not
depend on how many cycles there are; TLC explores all of them, since positions
and versions are bounded by the behaviour and by `MaxVersions`.

### AttemptRecord and WalkForwardAttempt

`WalkForwardAttempt` runs each attempt one call at a time. `mem` is the record
in memory, `disk` the published one. A checkpoint replaces `disk` whole or
raises, before or after the replacement. Output calls are two steps, because
another attempt or a kill may come between entering and returning from them.
Files hold pieces of what was written, so that a digest taken after another
attempt truncated the file is visible. Killing stands for anything `except
Exception` does not see.

`AttemptRecord` is what a reader of records may rely on: records are published
before anything is touched, claims only advance, an output is touched only while
its record admits it may have been. `ContractSpec` is that promise with the
detailed variables substituted.

One run checks two attempts, in five ways of being called (CLI or API, with and
without record, returns and JSON), whose returns go to the same file. Two
attempts are enough: attempts meet only in a file, and one intruder is all a
file needs. Deadlock is not checked because processes end.

Fairness: weak fairness of each attempt's step. The code waits for nothing but
its own calls, which end; an attempt that is killed is not obliged to go on.
Under it a started record completes or fails unless the process is killed or
could not write the record (`StartedRecordSettles`).

### DcaWindow and BtcDca

`DcaWindow` is the calendar and `_is_in_execution_window`. `Opening` names the
first day of the window without its arithmetic, so that "in the window" can be
compared with "the window opened less than its width ago".

`BtcDca` is a sequence of evaluations on one account. `Evaluate` is the whole of
`evaluate_crypto_btc_dca` with an arbitrary reading, exit signal and outer gate:
regime, requested and affordable amount, skip reasons, exit overlay with
`strict_buy_window`, the ceiling `max(btc_value, equity * min(ratio, 0.50))`, the
cap on risk routes, and the concentration check of the member gate.
`EvaluateRaises` are the inputs it refuses. The platform fills any part of a
budget, or sells down towards a target, possibly days later; prices move and
deposits arrive at any time, also between a decision and its trade.

Abstractions: money is in whole units and shares of it are rounded down; ratios
are percentages; `get_dynamic_btc_target_ratio` is a constant function that the
proofs only assume to be a percentage; all quote cash is buying power (the code
refuses a snapshot with more buying power than cash); the account also holds
`OtherAssets`; a later evaluation replaces a decision that was not traded on.
The runs use a year of a four-day and a two-day month and a three-day week, so
that windows inside a month, cut off by its end, absent from it, and running
into the next week all occur within a few days; the proofs are for any calendar.

`DearerBuysLess` asks whether a dearer reading of the market can lead to a larger
buy, through caps, minimum and ceiling. It depends on the multipliers falling
with the regime (`CheaperBuysMore`), which holds of the defaults and which the
code does not ask of another configuration; the thresholds between the regimes
may be in any order.

Checked in `BtcDca`: `ReserveKept`, `DirectionJustified`,
`GateRefusesOnlyHoldings`, `DearerBuysLess`, `BuysStayInWindow`, over four
configurations: the defaults, drawdown sizing without out-of-window exits,
ordinary DCA, and an exit exposure above the concentration cap. The equity goes
up to nine units, where the ratio passes 30, 45 and 60 percent, so the cap of the
gate binds. `MaxEquity` bounds prices and deposits, not the profile.

Checked in `BtcDca_saving`: with a standing price, a cheap reading and a passive
exit signal, accumulation ends only at the ceiling or for want of cash
(`AccumulationSettles`). Fairness: days pass (weak), and an approved evaluation
inside the window and the trade of a pending budget are not missed for ever
(strong, because a window closes again and a decision may be replaced). These
are assumptions about the platform, not guarantees of this repository; without
any of them nothing would be bought.

Finding (`BtcDca_exit`): the exit exposure multiplies what is held at each
evaluation, and nothing remembers that an exit was carried out. A standing
`risk_reduced` halves the position each time, where the module's docstring says
exposure is reduced to 50 %.

Not a finding of a run, but seen on the way: the same docstring speaks of a
Thursday window, while `weekly_day = 4` is a Friday in Python's numbering.

### ComboStrategy and EquityCombo

`ComboStrategy` has no state: it is `build_target_weights` as operators, from the
regime tier of the day (`Tier`, `EffectiveBtc`, `EffectiveTrend`) over the BTC
leg (`BtcTarget`, which takes what `crypto_btc_dca` reports as an input) and the
trend leg (`Selected`, `RawWeights`, `TrendWeights`) to the merge
(`TargetWeights`). Leg weights are in percent and target weights in basis points,
rounded down; a missing reading is `None`. Scores, averages and volatilities are
inputs: what the code does with them, it does by comparing and weighting.

`EquityCombo` is the profile on an account. `Evaluate` is the whole of
`evaluate_crypto_equity_combo` with the checks of the risk gate and the outside
gate as a choice; `EvaluateRaises` are the two ways it ends in an exception. The
platform sells, buys and saves in separate steps, in any order, and may stop
between any two of them; it fills the planned buys also of a decision whose
positions and budgets the gate took back. Part of the cash may be locked
(`cash_available_for_trading` is less than the equity holds). Its configurations
are `Sound`: weights are not negative and the settings of the volatility scaling
are such as it accepts. Where others end is asked of `ComboReplay`.

Checked, for four configurations and nine markets over three cycles:

* `BudgetsFitCash` - what is left to buy of a decision is always covered by cash.
* `LegsStayInsideTargets` - unlike the live pool profile, the combo asks the
  trade state and not the account whether a symbol is held, and so buys again
  what a restart made it forget. The budget bounds that: a leg that bought for a
  decision is worth no more than the decision's target for it.
* `EitherRegimeCutsTrend` - the benchmark and the BTC row may disagree on the
  regime; one of them is enough to reduce the trend leg.
* `TrendRiskInsideTarget` - both caps hold after the merge too. Selection lets
  only positive volatilities through, so the branch of the scaling that blocks
  all exposure on a missing one is not reached by the combo.
* `FailedTrendLegStaysCash` - the money of a leg whose error was swallowed is not
  spent.

Bounds: amounts of about 100 units, prices of 5, 10 and 20, two trend symbols,
three cycles: enough for a buy, a lost book entry and the buy after it.

### Rebalance, Ledger, ComboReplay and LivePoolBacktest

`Rebalance` is `_rebalance_holdings`, which both simulations call: sales first,
then purchases scaled so that they and their costs fit what there is. The code's
shares are fractions; here a share is a small lot, orders are rounded down to
whole lots, and the prices trades are filled at are multiples of 100, which both
simulations assume by name (`ReplayAssumption`, `BacktestAssumption`): a cost in
percent of a lot is then whole, and costs one by one add up as they do in the
code, where they are not rounded. `Ledger` is what both promise: only a trade changes cash and
shares, at the quotes of the moment, and it takes from the wealth its costs and
nothing else. Both simulations are checked to implement it (`LedgerSpec`), with
the quotes being the opens of the day the trade is filled.

`ComboReplay` follows `run_crypto_equity_combo_replay`: `Start` validates the
arguments, `Signal` computes the targets at the close of a day with
`ComboStrategy`, `Execute` fills them at the next open, marks and records.
`SignalFailure` and `ExecuteFailure` are the checks, in the order they are made.
The replay's own check of the indicators and of the settings asks less than the
strategy does: a BTC average of zero, a target volatility of zero, a negative
leverage or weight pass it, and end the replay later, as an error the combo
reports of its trend leg or as a negative target. `RefusesArgumentsOnly` says that
these, missing data and a leg that reports nothing are all that can end it: the
trend leg fails and a target is negative for no other reason, and none of the
checks on the replay's own work (unknown symbols, gross exposure, equity,
reconciliation, overdraft, costs) fires for any arguments. The settings of the run
include five unsound ones. Options that are strings or lists are left out. The targets are written as functions of the
price table, so that `NoLookAhead` can ask what another table with the same past
would have given. `DaysChain` needs the days to be consecutive; `HoldsOnlyTargets`
covers symbols that left the universe. One check is left out: that the metadata
repeat the signal equity, two names for one expression in a model.

`LivePoolBacktest` follows `run_live_pool_rotation_backtest` on a window that
`CryptoLivePoolBacktestRunner` cuts from a panel; `Day` is one row of its loop.
Which of two equal scores comes first is not defined by the sort, so `Rankings`
are all possible choices. `TradesOnPastOnly` compares panels as above;
`GapsOfOthersHarmless` says which missing opens may end it; `EquityIsLedger` ties
the wealth that returns are measured on to the ledger.

### ComboBacktest

The other combo back-test: contributions every day, no costs, and the runner that
reports a window of it. A day of the model is one on which every symbol has a
close, at a date later than the one before; averages, and the alt prices the code
derives from ETH, are inputs. Coins and money are counted in parts, `Grain` parts
each, because the code divides freely and the model must not lose what a division
leaves. `GrainAssumption` says that the parts are fine enough for every purchase
of the histories to be whole; such a `Grain` exists for any finite set of them,
and TLC evaluates the assumption for the one of the run.
`ContributionsKeepValue`: however a regime splits a contribution between BTC,
trend and cash, the equity grows by its amount. `WindowIsSlice`: the returns and
the profit of a window are those of the same days of the simulation, which needs
the equity of the day before the window. The windows of the run start before, at,
inside and after the history.

### LifecyclePreflight

The bundle is built again and again on one root. The walk-forward is one call: it
persists a baseline under whatever name the store gives it, possibly over one of
the same name, or raises before or after that. `BundleIsOwn`: a build that ends
has, per profile, one baseline, its own, under the name of its version. This
holds because the count is checked and not only the run id; the price is that a
root with a stray older baseline keeps failing until it is cleaned. Two profiles
and three builds: an older baseline, one half-way, and the one that ends.

## 4. Runs

| Run | Question | Expected |
|---|---|---|
| `RotationPool` | is the pool one published list, inside its stamp, and never empty again? | pass |
| `LivePoolRotation_lossy` | buys, exits, authority and the pool with a platform that forgets and lists in any order | pass |
| `LivePoolRotation_stored` | do stops stay tripped, and is an unfrozen pool the stamped list? | pass |
| `WalkForwardAttempt` | honesty, completeness and progress of records | pass |
| `BtcDca` | reserve, window, direction, gate, monotonicity | pass |
| `BtcDca_exit` | is an exit asked for once, as documented? | violation |
| `BtcDca_saving` | does accumulation come to its end? | pass |
| `EquityCombo` | do budgets, legs and risk stay where the weights put them? | pass |
| `ComboReplay` | does the replay use the past only, and keep its ledger? | pass |
| `LivePoolBacktest` | the same of the simulator, with missing prices | pass |
| `ComboBacktest` | are contributions and windows accounted for? | pass |
| `LifecyclePreflight` | does a build that ends leave its own baselines? | pass |

To run one: `tlc -config BtcDca.cfg MCBtcDca` (the configuration's name begins
with the module it instantiates; `LifecyclePreflight` is its own). The
specifications are called `Spec`, `FairSpec` with fairness, `RunSpec` in
`ComboBacktest` and `BundleSpec` in `LifecyclePreflight`, whose modules share their
proofs' module with another one. Deadlock is
checked except where the system stops by itself: attempts, replays, back-tests
and builds end. Each property has a mutant in its component's module, a plausible
mistake in the code it is about; with it TLC finds the property violated under
the same configuration.

## 5. Proofs

Each `*_proofs` module extends the components it is about and proves, for all
constants that satisfy the named assumptions in them (which the runs evaluate):

* `Rebalance_proofs` - sums over finite sets, and what a rebalance leaves, for any
  finite set of symbols (`RebalanceLeaves`): natural cash and shares, only targeted
  symbols, none above its weight of the equity, and wealth that is reduced by
  exactly the costs. Sums over sets are folds, and induction over data is done
  here by taking a smallest counterexample: `SubsetInduction` finds a smallest
  subset for which a given set of subsets fails. From it follow that sums and
  products over finite sets unfold (`FoldUnfolds`) and the lemmas on sums
  (`SumPlus`, `SumDifference`, `SumScaled`, `SharesFit`, `SumRemove`, ...).
  Affordability is then the one argument of substance: a purchase scaled by
  `available / max(available, asked)` costs, with its fees, at most what is
  available, rounding down included. `CostsOfTrades`: what is charged on sales and
  purchases is the sum of the costs of the single trades, because a symbol is sold
  or bought but not both, and a cost is whole.

* `LivePoolRotation_proofs`, the pool - type correctness, `OneListOrder`,
  `InsideStampedList`, `StampedPoolIsList` when refreshes are never off, and
  `PoolNeverEmpties` (a non-empty list has a first symbol, so its first
  `PoolSize > 0` are some). The invariant talks of places rather than orders: the cached pool *is* a restriction
  of one published ranking, which filtering and resolving preserve where "same
  order" alone would not compose.
* `LivePoolRotation_proofs`, the profile - type correctness, `NoPyramiding`,
  `AuthorityNeedsReconciledBooks`, `ExitsCloseTheDecision`, `StopStaysTripped`,
  and the refinement of `PoolSpec`. No pyramiding needs that a pending buy is of
  a symbol without lots (a decision's buys are new until ordered); the stop needs
  that a recorded trip level lies below the stored high water mark; the
  refinement needs that a decision's pool is what the resolver would give, or has
  been recorded already.

* `WalkForwardAttempt_proofs`, the records - type correctness, `RecordIsHonest`,
  `SuccessIsRecorded`, `CompletedIsWhole`, `FailureStageAgrees`,
  `DigestMatchesFile`, `TerminalRecordStays`, and that attempts implement the
  promise to readers of records (`ContractSpec`). The published record cannot be
  argued about alone: the first invariant says that the record in memory is as
  honest as the one on disk and is ready for the step its attempt is at. The
  second, `CourseInv`, is the argument for the rest: until it fails, an attempt is
  determined by its plan and the step it is at (`OnCourse`), so that its records
  are the ones that step has reached; once it unwinds, its record is that of one
  of the steps before; and a file is what its own effects say it is, unless
  another attempt writes to the same path. `CompletedIsWhole` and
  `FailureStageAgrees` are read off it; `DigestMatchesFile` needs the part about
  files; the refinement maps each publication to one step of `AttemptRecord`.
* `WalkForwardAttempt_proofs`, the preflight bundle - `BundleIsOwn`, from an
  invariant that follows the baseline of the profile in turn through the stages:
  it is the running build's from the walk-forward on, and the only one from the
  check on.

* `BtcDca_proofs` - type correctness (proved only, no run checks it), `ReserveKept`, `DirectionJustified`,
  `GateRefusesOnlyHoldings`, `BuysStayInWindow` and `DearerBuysLess`.
  `TargetFacts` bounds the target of one evaluation from both sides; the reserve
  then needs only that a pending decision asks for no more than the cash above the
  reserve, because nothing but its own trade takes cash away. `BuysStayInWindow`
  needs the position of the calendar relative to the last opening
  (`SinceOpening`). `DearerBuysLess` compares two evaluations of one account: the
  regime, the request, the affordable plan and the target are each monotone in the
  reading (`DearerRegime`, `DearerRequest`, `DearerPlan`, `DearerTarget`), the
  minimum included, which can only drop the smaller of two plans. Its hypothesis
  is `CheaperBuysMore`, which the run's module assumes, so that TLC evaluates it.

* `ComboStrategy_proofs` - the target weights of the combo: they lie in the pool
  and BTC, and are natural and add up to at most the whole, unless the weight of
  the BTC leg is negative (`TargetWeightsType`, for any configuration); those of
  the trend leg respect the regime and both caps (`TargetWeightsFacts`, for sound
  ones). It is what the next two share. Both assume that `get_dynamic_btc_target_ratio` returns natural
  percentages (`RatioNatural`, a hypothesis of their theorems because TLC cannot
  evaluate it).
* `EquityCombo_proofs` - all five invariants of the profile on an account:
  `BudgetsFitCash`, `LegsStayInsideTargets`, `EitherRegimeCutsTrend`,
  `TrendRiskInsideTarget`, `FailedTrendLegStaysCash`, for any finite set of
  symbols. The invariant (`FundsInv`) says of each leg that what it holds and what
  is left to buy of it are together no more than its target, as soon as anything
  of it is to be bought, and that what is left to buy of both is covered by the
  cash. A fill moves an amount from what is left to what is held and takes it from
  the cash, a sale frees cash, and a restart only forgets what was left. The last
  three properties are about the weights a decision was made with, and stand as
  long as it does.
* `ComboReplay_proofs` - `NoLookAhead`, `DaysChain`, and under `RatioNatural`
  `RefusesArgumentsOnly`, `HoldsOnlyTargets` and `LedgerSpec`. The first needs only that
  a signal reads one row of the table (`SignalRow`). The second needs that a
  record's last mark is at the close the next signal is sized on, which is where
  consecutive days come in. For the others the strategy's part is
  `TargetWeightsType`, and that its trend leg fails only on a BTC average of zero or
  an unsound setting (`TrendLegChecks`); the ledger's part is that whoever starts with cash always
  has some cash or some shares (`LedgerInv`), so that an equity can only be zero
  when a price is missing, which is reported before.

* `Backtests_proofs`, the live pool simulator - `TradesOnPastOnly`,
  `EquityIsLedger`, `GapsOfOthersHarmless` and the refinement of `Ledger`
  (`LedgerSpec`). The third needs the sums: wealth stays positive at the marks
  unless a held symbol has no price, so no other reason to fail is left. The
  refinement is the lemma `RebalanceTrades` at the opens of the row.
* `Backtests_proofs`, the combo simulator - `ContributionsKeepValue` and
  `WindowIsSlice`. For the first, the parts of a contribution add up to it
  (`PartsAddUp`), and what they buy is worth them (`PurchasesOfDay`), so that a
  day adds its contribution to what is held (`DayGains`). The second has three
  arguments. What is held is never worth nothing, so no return of the simulation
  or of a part of it raises (`NeverRaises`); the invariant `RunInv` therefore says
  that a day's wealth exceeds its contribution from the second day on. The days of
  a window are an interval of the simulated ones, because dates increase
  (`WindowFacts`), so that the equity before the window is that of the day before
  its first. And the gains of consecutive days telescope (`Telescope`,
  `ProfitOfWindow`).

Only model-checked: the two liveness properties (`StartedRecordSettles`,
`AccumulationSettles`), which are out of the prover's reach. The property of
the run that expects a violation is not a property of the code.

## 6. Not modelled

* Scores, averages, returns statistics and metrics over price frames; parsing and
  coercion of inputs; translated texts, logging and diagnostics that nothing acts
  on. Models take their results as inputs, chosen freely.
* The amounts of the live pool profile, and the entrypoint of
  `crypto_trend_rotation`, which differs from the combo's by having one leg.
* `refresh_rotation_pool`: nothing calls it, so there is no caller whose state a
  model could start from.
* The evidence gate: one sequential reading of a diff and of a checkout, whose
  hazards are in file formats and patterns.
* Workflows, packaging and style checks, and the research scripts, which repeat
  the strategies on price frames and keep no state of the system.
* The outer gate and the performance store of `quant_platform_kit`, which are
  external and enter as free choices.
