------------------------------ MODULE Policies ------------------------------
(***************************************************************************)
(* The policy plugins, as the core sees them: functions from a policy      *)
(* instance, a device profile, a request, its estimate and a capacity view *)
(* to a decision and a grant.  The standard plugins (policies/credit.c,    *)
(* rate.c and unlimited.c) keep no state that a decision depends on, so    *)
(* each is an operator.  A third-party plugin may give any answer of       *)
(* PluginAnswers, the ones the core must refuse included.                  *)
(*                                                                         *)
(* A policy instance is [kind, over, ppm, slice, ttl]: the plugin and the  *)
(* options its state was initialised with.  over = ppm = 0 also stands for *)
(* allow_overcommit = false, which has the same limit.                     *)
(***************************************************************************)
EXTENDS CapacityMath

CONSTANT PluginAnswers  \* what a third-party reserve callback may answer

StandardKinds == {"credit", "rate", "unlimited"}

DecisionKinds == {"ACCEPTED", "DELAYED", "REJECTED"}

\* An answer carries no grant unless it is an acceptance.
Answers ==
    [decision : DecisionKinds \cup {"ERROR"}, credits : U64, rate : U64,
     ttl : Nat, matches : BOOLEAN]

ASSUME PluginAnswersAssumption == PluginAnswers \subseteq Answers

Refusal(decision) ==
    [credits |-> 0, rate |-> 0, ttl |-> 0, matches |-> TRUE,
     decision |-> decision]

Grant(credits, rate, ttl) ==
    [credits |-> credits, rate |-> rate, ttl |-> ttl, matches |-> TRUE,
     decision |-> "ACCEPTED"]

-----------------------------------------------------------------------------
(* Device state                                                            *)

Blocked(view) == view.device_state # "AVAILABLE"

BlockedDecision(view) ==
    IF view.device_state = "DRAINING" THEN "DELAYED" ELSE "REJECTED"

-----------------------------------------------------------------------------
(* The credit policy                                                       *)

ConfiguredOvercommit(policy, total) ==
    MinNonzero(policy.over, PpmValue(total, policy.ppm))

\* credit_overcommit_limit fails when the limit does not fit.
LimitOverflows(policy, total) ==
    MaxU64 - total < ConfiguredOvercommit(policy, total)

EffectiveLimit(policy, total) == total + ConfiguredOvercommit(policy, total)

\* credit_init: some credit capacity must be derivable, the limit must fit.
CreditInitFails(policy, profile) ==
    \/ profile.credits = 0 /\ profile.span = 0
    \/ profile.credits # 0 /\ LimitOverflows(policy, profile.credits)

CreditCapacityFails(policy, view) ==
    view.total_credits # 0 /\ LimitOverflows(policy, view.total_credits)

\* Mutant: the whole limit stays available.
CreditViewOfLimit(policy, view) ==
    LET available == IF view.total_credits = 0 THEN 0
                     ELSE EffectiveLimit(policy, view.total_credits)
    IN  [view EXCEPT !.available_credits = available,
                     !.effective_credits = available]

\* credit_capacity: availability is counted from the overcommit limit.
CreditView(policy, view) ==
    LET available == IF view.total_credits = 0 THEN 0
                     ELSE SatSub(EffectiveLimit(policy, view.total_credits),
                                 view.credits_reserved)
    IN  [view EXCEPT
            !.available_credits = available,
            !.effective_credits = CappedAvailable(available,
                view.external_credits, view.scoped_credits)]

CreditDecision(policy, units, view) ==
    IF Blocked(view) THEN BlockedDecision(view)
    ELSE IF \/ view.total_credits = 0
            \/ LimitOverflows(policy, view.total_credits)
            \/ units > EffectiveLimit(policy, view.total_credits)
         THEN "REJECTED"
    ELSE IF units > view.effective_credits THEN "DELAYED"
    ELSE "ACCEPTED"

CreditAnswer(policy, units, view) ==
    IF CreditDecision(policy, units, view) = "ACCEPTED"
    THEN Grant(units, 0, policy.ttl)
    ELSE Refusal(CreditDecision(policy, units, view))

-----------------------------------------------------------------------------
(* The rate policy                                                         *)

RateInitFails(policy, profile) ==
    \/ profile.span = 0
    \/ /\ policy.slice # 0
       /\ profile.rate # 0
       /\ policy.slice > profile.rate

\* Mutant: the quotient is rounded down.
RequiredRateDown(units, span, budget) == (units * span) \div budget

\* rate_required: the units spread over the budget, per accounting window.
RequiredRate(units, span, budget) == CeilDiv(units * span, budget)

GrantedRate(policy, profile, units, budget, view) ==
    RoundUp(RequiredRate(units, profile.span, budget),
            DefaultSlice(policy.slice, view.total_rate, profile.jobs))

RateRejects(policy, profile, units, budget, view) ==
    LET required == RequiredRate(units, profile.span, budget)
        slice == DefaultSlice(policy.slice, view.total_rate, profile.jobs)
    IN  \/ required = 0
        \/ required > MaxU64
        \/ view.total_rate = 0
        \/ required > view.total_rate
        \/ RoundUpOverflows(required, slice)
        \/ GrantedRate(policy, profile, units, budget, view) > view.total_rate

RateDelays(policy, profile, units, budget, view) ==
    \/ view.effective_rate <
         DefaultSlice(policy.slice, view.total_rate, profile.jobs)
    \/ GrantedRate(policy, profile, units, budget, view) > view.effective_rate

RateDecision(policy, profile, units, budget, view) ==
    IF Blocked(view) THEN BlockedDecision(view)
    ELSE IF RateRejects(policy, profile, units, budget, view) THEN "REJECTED"
    ELSE IF RateDelays(policy, profile, units, budget, view) THEN "DELAYED"
    ELSE "ACCEPTED"

RateAnswer(policy, profile, units, budget, view) ==
    IF RateDecision(policy, profile, units, budget, view) = "ACCEPTED"
    THEN Grant(0, GrantedRate(policy, profile, units, budget, view),
               policy.ttl)
    ELSE Refusal(RateDecision(policy, profile, units, budget, view))

-----------------------------------------------------------------------------
(* The unlimited policy, and dispatch                                      *)

UnlimitedAnswer(view) ==
    IF Blocked(view) THEN Refusal(BlockedDecision(view)) ELSE Grant(0, 0, 0)

PolicyAnswers(policy, profile, units, budget, view) ==
    CASE policy.kind = "credit" -> {CreditAnswer(policy, units, view)}
      [] policy.kind = "rate" ->
            {RateAnswer(policy, profile, units, budget, view)}
      [] policy.kind = "unlimited" -> {UnlimitedAnswer(view)}
      [] OTHER -> PluginAnswers

\* The init callback that set_policy runs on the new instance.
InitFails(policy, profile) ==
    \/ policy.kind = "credit" /\ CreditInitFails(policy, profile)
    \/ policy.kind = "rate" /\ RateInitFails(policy, profile)

\* The capacity callback; only the credit policy changes a number in it.
CapacityFails(policy, view) ==
    policy.kind = "credit" /\ CreditCapacityFails(policy, view)

DecoratedView(policy, view) ==
    IF policy.kind = "credit" THEN CreditView(policy, view) ELSE view

\* Only a third-party release callback can refuse a transition.
ReleaseMayFail(policy) == policy.kind \notin StandardKinds
=============================================================================
