------------------------------ MODULE MCUsage ------------------------------
(***************************************************************************)
(* Inputs for the model-checking runs of Usage.                            *)
(***************************************************************************)
EXTENDS Usage

Used(task, credits, rate, baseline, time) ==
    [task |-> task, credits |-> credits, rate |-> rate,
     baseline |-> baseline, time |-> time]

LeaseOf(kind, credits, rate, learns) ==
    [credits |-> credits, rate |-> rate, kind |-> kind, learns |-> learns,
     window |-> 2, budget |-> 4]

(* Tasks that spend and return, under three policies and in two windows,   *)
(* 0..1 and 2..3; tasks that only report measured times, with an estimator  *)
(* that learns and one that does not.                                       *)
StandardLeases ==
    {LeaseOf("credit", 3, 0, FALSE), LeaseOf("rate", 0, 3, FALSE),
     LeaseOf("plugin", 2, 0, FALSE)}
TelemetryLeases ==
    {LeaseOf("unlimited", 0, 0, learns) : learns \in BOOLEAN}
AllLeases == StandardLeases \cup TelemetryLeases

StandardUsages(l) ==
    IF l \in TelemetryLeases THEN {}
    ELSE {Used(t, 0, 0, units, time) : t \in Tasks \cup {0}, units \in {1, 3},
                                       time \in {1, 2}}
         \cup {Used(1, 0, 0, 1, 0)}

StandardActuals(l) ==
    IF l \in StandardLeases THEN {}
    ELSE {<<t, ns>> : t \in Tasks \cup {0}, ns \in {1, 3}}

(* A credit reservation whose tasks also name rate units, and many of them. *)
MixedLeases == {LeaseOf("credit", 3, 0, FALSE)}
MixedUsages(l) == {Used(t, 1, 8, 0, 1) : t \in Tasks}

(* A rate reservation whose budget is two windows long, and its baseline    *)
(* units of work.                                                           *)
RateLeases == {LeaseOf("rate", 0, 3, FALSE)}
RateUsages(l) == {Used(t, 0, 0, 3, 1) : t \in Tasks}

NoActuals(l) == {}

(* What the account last looked like is all that later calls depend on.    *)
StateView == <<lease, active, account, events, actuals, unrecorded>>

MCClock == {1, 2}
=============================================================================
