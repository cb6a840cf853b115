------------------------------ MODULE MCBtcDca ------------------------------
(* Model values for BtcDca: a calendar of two short months and a week of   *)
(* three days, the default thresholds and multipliers of the profile, and  *)
(* readings on both sides of each threshold that matters.                  *)
EXTENDS BtcDca

MCDaysIn == <<4, 2>>

Schedule(cadence, start, width, months) ==
    [cadence |-> cadence, start |-> start, width |-> width, months |-> months]

(* A window inside its month, one that its month cuts off and that the     *)
(* other month does not have, and one that runs on into the next week.     *)
Monthly == Schedule("monthly", 2, 2, {1, 2})
Quarterly == Schedule("quarterly", 3, 3, {1, 2})
Weekly == Schedule("weekly", 2, 2, {1, 2})

MCSchedules == {Monthly, Quarterly, Weekly}

MCMultiplier ==
    [g \in Regimes |->
        CASE g \in {"ahr999_bottom", "severe_pullback"} -> 300
          [] g \in {"ahr999_accumulation", "deep_pullback"} -> 225
          [] g \in {"ahr999_dca", "mild_pullback"} -> 150
          [] g = "ahr999_expensive" -> 0
          [] OTHER -> 100]

ASSUME DefaultsOrdered == CheaperBuysMore

(* The dynamic ratio in steps, over equities scaled down. *)
MCRatio(e) == IF e < 6 THEN 30 ELSE IF e < 8 THEN 45 ELSE 60

DefaultConfig ==
    [base |-> 2, maximum |-> None, reserve |-> 1, minimum |-> 1,
     smart |-> TRUE, cycle |-> TRUE, exit |-> TRUE, outside |-> TRUE,
     reduced |-> 50, off |-> 25,
     bottom |-> 45, accumulation |-> 80, dca |-> 120,
     mild |-> 12, deep |-> 25, severe |-> 40, shallow |-> 5,
     mildGap |-> 8, deepGap |-> 18, expensive |-> 30, veryExpensive |-> 60, overbought |-> 75]

DrawdownConfig ==
    [DefaultConfig EXCEPT !.cycle = FALSE, !.maximum = 4, !.reserve = 0, !.minimum = 2,
                          !.outside = FALSE]

OrdinaryConfig == [DefaultConfig EXCEPT !.smart = FALSE, !.exit = FALSE, !.maximum = 1]

LooseExitConfig == [DefaultConfig EXCEPT !.reduced = 80, !.off = 0]

MCDeployments ==
    {<<Monthly, DefaultConfig>>, <<Quarterly, DrawdownConfig>>, <<Weekly, OrdinaryConfig>>,
     <<Weekly, LooseExitConfig>>}

Reading(ahr, drawdown, gap, rsi) == [ahr |-> ahr, drawdown |-> drawdown, gap |-> gap, rsi |-> rsi]

MCReadings ==
    {Reading(45, 40, -20, 30), Reading(80, 25, 0, 40), Reading(120, 12, 0, 50),
     Reading(121, 5, 30, 75), Reading(121, 0, 60, 75)}

Signal(route, alloc, hint) == [route |-> route, alloc |-> alloc, hint |-> hint]

MCSignals ==
    {Signal(None, None, None), Signal("normal", None, None), Signal("risk_on", None, 60),
     Signal("normal", 80, 90), Signal("risk_reduced", None, None), Signal("risk_off", None, 60),
     Signal("risk_off", 10, None), Signal("risk_off", 60, None)}

(* The profile with its defaults. *)
DefaultDeployments == {<<Monthly, DefaultConfig>>}

(* One cheap reading, a passive exit signal. *)
CheapReading == {Reading(90, 12, 0, 50)}
PassiveSignal == {Signal("normal", None, None)}
SavingDeployments == MCSchedules \X {DefaultConfig, [DefaultConfig EXCEPT !.minimum = 2]}

=============================================================================
