------------------------------- MODULE Usage -------------------------------
(***************************************************************************)
(* The usage accounting of one reservation (qhw_usage.c): what qtasks      *)
(* consume of the envelope it reserved, what they return, and what the     *)
(* device measured.  Every call runs under the context mutex, so it is one *)
(* action; callers retry calls, repeat them with other arguments and       *)
(* report them late, in any order.                                         *)
(*                                                                         *)
(* A usage record is [task, credits, rate, baseline, time].  task = 0 is   *)
(* an anonymous event.  The class, the measured times and the metadata of  *)
(* a record only take part in the comparison of a retry with the original: *)
(* a retry that differs in them is one that differs in `time' here.        *)
(***************************************************************************)
EXTENDS CapacityMath, Sequences, SequencesExt

CONSTANTS
    Tasks,      \* non-zero task ids
    Leases,     \* reservations the runs start from
    Usages(_),  \* usage records that callers pass under a lease
    Actuals(_), \* <<task, observed_ns>> that callers report under a lease
    Clock,      \* what qhw_adm_now_ns may read
    MaxEvents   \* bound on the length of the event list

Usage == [task : Tasks \cup {0}, credits : U64, rate : U64, baseline : U64,
          time : Nat]

\* kind is the policy; window is the device's span; budget is the quantum
\* budget of the request; learns says whether the estimator takes feedback.
Lease == [kind : STRING, credits : U64, rate : U64, window : Nat,
          budget : U64, learns : BOOLEAN]

ASSUME UsageInputs ==
    /\ IsFiniteSet(Tasks) /\ 0 \notin Tasks
    /\ Leases \subseteq Lease
    /\ \A l \in Leases : /\ Usages(l) \subseteq Usage
                          /\ Actuals(l) \subseteq (Tasks \cup {0}) \X U64
    /\ Clock \subseteq Nat \ {0}
    /\ MaxEvents \in Nat

\* The rate policy reserves nothing on a device without a span, or for a
\* request without a budget.
ASSUME RateWindows ==
    \A l \in Leases : l.kind = "rate" => l.window # 0 /\ l.budget # 0

VARIABLES
    lease,       \* what was reserved, and under which policy
    active,      \* the reservation is ACTIVE
    account,     \* the accounting fields of qhw_adm_reservation_t
    events,      \* usage_event_list; usage_events is its named part
    actuals,     \* actual_events
    unrecorded,  \* history: what anonymous calls moved without a record of it
    out          \* the last call, its usage record, return code and decision

vars == <<lease, active, account, events, actuals, unrecorded, out>>

-----------------------------------------------------------------------------
(* Records                                                                 *)

NoUsage == [task |-> 0, credits |-> 0, rate |-> 0, baseline |-> 0, time |-> 0]

EmptyAccount ==
    [credits_consumed |-> 0, rate_consumed |-> 0, unused_capacity |-> 0,
     underuse_score |-> 0, overuse_count |-> 0, actual_total |-> 0]

Unreported == [ns |-> 0, reported |-> FALSE, pending |-> FALSE, learned |-> 0]

ConsumeEvent(u, decision) ==
    [task |-> u.task, consumed |-> u, consumed_set |-> decision = "ACCEPTED",
     returned |-> NoUsage, returned_set |-> FALSE, decision |-> decision]

ReturnEvent(u) ==
    [task |-> 0, consumed |-> NoUsage, consumed_set |-> FALSE,
     returned |-> u, returned_set |-> TRUE, decision |-> "NONE"]

\* usage_credit_units and usage_rate_units.
CreditUnits(u) ==
    IF u.credits # 0 THEN u.credits
    ELSE IF lease.credits # 0 THEN u.baseline ELSE 0

RateUnits(u) ==
    IF u.rate # 0 THEN u.rate
    ELSE IF lease.rate # 0 THEN u.baseline ELSE 0

\* What a return adds to the unused capacity.
ReturnedUnits(u) == IF CreditUnits(u) # 0 THEN CreditUnits(u) ELSE RateUnits(u)

\* usage_capacity_units and usage_consumed_units.
CapacityUnits == IF lease.credits # 0 THEN lease.credits ELSE lease.rate

ConsumedUnits ==
    IF lease.credits # 0 THEN account.credits_consumed
    ELSE IF lease.rate # 0 THEN account.rate_consumed ELSE 0

\* usage_equal
SameUsage(a, b) ==
    /\ a.time = b.time
    /\ IF lease.credits = 0 /\ lease.rate = 0
       THEN <<a.baseline, a.credits, a.rate>> = <<b.baseline, b.credits, b.rate>>
       ELSE /\ CreditUnits(a) = CreditUnits(b)
            /\ RateUnits(a) = RateUnits(b)

\* normalize_usage: a record without a time happens at `time'.
At(u, time) == IF u.time = 0 THEN [u EXCEPT !.time = time] ELSE u

\* Mutant: no call is ever recognised as a repetition.
NeverRecorded(task) == {}

\* The event a named task left, if any.
Recorded(task) == {k \in DOMAIN events : task # 0 /\ events[k].task = task}

-----------------------------------------------------------------------------
(* Rate windows                                                            *)

\* Mutant: a return counts in the window of its own time.
ReturnWindowOfReturn(e) == e.returned.time \div lease.window

\* A return of a consumed task counts in the window it was consumed in.
ReturnWindow(e) ==
    (IF e.consumed_set THEN e.consumed.time ELSE e.returned.time)
        \div lease.window

ConsumeWindow(e) == e.consumed.time \div lease.window

\* One event of the list; a sum past 64 bits is reported as UINT64_MAX.
AddEvent(w, sum, e) ==
    LET charge == IF e.consumed_set /\ ConsumeWindow(e) = w
                  THEN RateUnits(e.consumed) ELSE 0
        refund == IF e.returned_set /\ ReturnWindow(e) = w
                  THEN RateUnits(e.returned) ELSE 0
    IN  IF sum > MaxU64 \/ AddOverflows(sum, charge) THEN MaxU64 + 1
        ELSE SatSub(sum + charge, refund)

\* rate_window_consumed
RateWindowConsumed(time) ==
    IF lease.window = 0 THEN account.rate_consumed
    ELSE LET sum == FoldLeft(LAMBDA acc, e :
                       AddEvent(time \div lease.window, acc, e), 0, events)
         IN  IF sum > MaxU64 THEN MaxU64 ELSE sum

-----------------------------------------------------------------------------
(* The policy's consume callback                                           *)

Requested(explicit, u) == IF explicit # 0 THEN explicit ELSE u.baseline

Fits(consumed, requested, reserved) == SatAdd(consumed, requested) <= reserved

\* rate_consume sees what was consumed in the window of the event.
RateFits(u) ==
    Fits(RateWindowConsumed(u.time), Requested(u.rate, u), lease.rate)

\* Mutant: the consumed credits are left out of the test.
CreditFitsAlone(u) == Fits(0, Requested(u.credits, u), lease.credits)

CreditFits(u) ==
    Fits(account.credits_consumed, Requested(u.credits, u), lease.credits)

UsageDecisions(u) ==
    CASE lease.kind = "credit" ->
            {IF CreditFits(u) THEN "ACCEPTED" ELSE "REJECTED"}
      [] lease.kind = "rate" ->
            {IF RateFits(u) THEN "ACCEPTED" ELSE "REJECTED"}
      [] lease.kind = "unlimited" -> {"ACCEPTED"}
      [] OTHER -> {"ACCEPTED", "REJECTED", "ERROR"}

\* Only a third-party callback refuses a return or a release.
CallbackMayFail == lease.kind \notin {"credit", "rate", "unlimited"}

-----------------------------------------------------------------------------
(* Outcomes of a call                                                      *)

Replies(call, u, rc, decision) ==
    out' = [call |-> call, usage |-> u, rc |-> rc, decision |-> decision]

Refuse(call, u, rc) ==
    /\ Replies(call, u, rc, "NONE")
    /\ UNCHANGED <<lease, active, account, events, actuals, unrecorded>>

\* After the commit, copying the decision to the caller's view may fail.
RepliesOrRunsOut(u, decision) ==
    \/ Replies("consume", u, "OK", decision)
    \/ Replies("consume", u, "NOMEM", "NONE")

-----------------------------------------------------------------------------
(* qhw_adm_consume                                                         *)

ConsumeAgain(u, e) ==
    \/ /\ ~SameUsage(e.consumed, At(u, e.consumed.time))
       /\ Refuse("consume", u, "STATE")
    \/ /\ SameUsage(e.consumed, At(u, e.consumed.time))
       /\ RepliesOrRunsOut(u, e.decision)
       /\ UNCHANGED <<lease, active, account, events, actuals, unrecorded>>

Record(event) ==
    /\ Len(events) < MaxEvents
    /\ events' = Append(events, event)

ConsumeDenied(u) ==
    /\ Record(ConsumeEvent(u, "REJECTED"))
    /\ account' = [account EXCEPT !.overuse_count = @ + 1]
    /\ RepliesOrRunsOut(u, "REJECTED")

WithUnits(acc, u) ==
    [acc EXCEPT !.credits_consumed = @ + CreditUnits(u),
                !.rate_consumed = @ + RateUnits(u)]

\* Mutant: the units of an event that was not inserted stay charged.
UnitsStay(acc, u) == acc

\* rollback_usage_units
WithoutUnits(acc, u) ==
    IF \/ CreditUnits(u) > acc.credits_consumed
       \/ RateUnits(u) > acc.rate_consumed
    THEN acc
    ELSE [acc EXCEPT !.credits_consumed = @ - CreditUnits(u),
                     !.rate_consumed = @ - RateUnits(u)]

\* add_usage_units stores the credits before it checks the rate.  The units
\* are added before the event is inserted among those of named tasks.
ConsumeAccepted(u) ==
    \/ /\ AddOverflows(account.credits_consumed, CreditUnits(u))
       /\ Replies("consume", u, "INVAL", "NONE")
       /\ UNCHANGED <<account, events>>
    \/ /\ ~AddOverflows(account.credits_consumed, CreditUnits(u))
       /\ AddOverflows(account.rate_consumed, RateUnits(u))
       /\ account' = [account EXCEPT !.credits_consumed = @ + CreditUnits(u)]
       /\ Replies("consume", u, "INVAL", "NONE")
       /\ UNCHANGED events
    \/ /\ ~AddOverflows(account.credits_consumed, CreditUnits(u))
       /\ ~AddOverflows(account.rate_consumed, RateUnits(u))
       /\ \/ /\ Record(ConsumeEvent(u, "ACCEPTED"))
             /\ account' = WithUnits(account, u)
             /\ RepliesOrRunsOut(u, "ACCEPTED")
          \/ /\ u.task # 0
             /\ account' = WithoutUnits(WithUnits(account, u), u)
             /\ Replies("consume", u, "NOMEM", "NONE")
             /\ UNCHANGED events

\* The event cannot be created, or the event of a denial not be inserted.
ConsumeNew(u) ==
    \/ "ERROR" \in UsageDecisions(u) /\ Refuse("consume", u, "CALLBACK")
    \/ Refuse("consume", u, "NOMEM")
    \/ /\ \/ "REJECTED" \in UsageDecisions(u) /\ ConsumeDenied(u)
          \/ "ACCEPTED" \in UsageDecisions(u) /\ ConsumeAccepted(u)
       /\ UNCHANGED <<lease, active, actuals, unrecorded>>

Consume(u) ==
    \/ ~active /\ Refuse("consume", u, "STATE")
    \/ active /\ \E k \in Recorded(u.task) : ConsumeAgain(u, events[k])
    \/ /\ active
       /\ Recorded(u.task) = {}
       /\ \E now \in Clock : ConsumeNew(At(u, now))

-----------------------------------------------------------------------------
(* qhw_adm_return_usage                                                    *)

\* validate_return_units
ExceedsAccount(u) ==
    \/ CreditUnits(u) > account.credits_consumed
    \/ RateUnits(u) > account.rate_consumed
    \/ AddOverflows(account.unused_capacity, ReturnedUnits(u))

\* subtract_usage_units
GiveBack(u) ==
    account' = [account EXCEPT
        !.credits_consumed = @ - CreditUnits(u),
        !.rate_consumed = @ - RateUnits(u),
        !.unused_capacity = @ + ReturnedUnits(u)]

\* Mutant: the account is the only limit to what a task returns.
ExceedsNothing(u, e) == FALSE

ExceedsEvent(u, e) ==
    \/ CreditUnits(u) > CreditUnits(e.consumed)
    \/ RateUnits(u) > RateUnits(e.consumed)

StoredReturn(e, u) == [e EXCEPT !.returned = u, !.returned_set = TRUE]

\* clear_return_usage
ClearedReturn(e) == [e EXCEPT !.returned = NoUsage, !.returned_set = FALSE]

\* The event is marked as returned before the policy is asked.  (A record
\* whose copy ran out of memory is no part of the event: nothing reads it
\* while returned_set is false.)
ReturnNamed(u, k) ==
    LET e == events[k]
        n == At(u, e.consumed.time)
    IN  \/ /\ e.returned_set
           /\ Refuse("return", u,
                     IF SameUsage(e.returned, n) THEN "OK" ELSE "STATE")
        \/ ~e.consumed_set /\ Refuse("return", u, "STATE")
        \/ /\ e.consumed_set /\ ~e.returned_set
           /\ ExceedsEvent(n, e) \/ ExceedsAccount(n)
           /\ Refuse("return", u, "INVAL")
        \/ /\ e.consumed_set /\ ~e.returned_set
           /\ ~ExceedsEvent(n, e) /\ ~ExceedsAccount(n)
           /\ \/ Refuse("return", u, "NOMEM")
              \/ /\ CallbackMayFail
                 /\ events' = [events EXCEPT
                                ![k] = ClearedReturn(StoredReturn(e, n))]
                 /\ Replies("return", u, "CALLBACK", "NONE")
                 /\ UNCHANGED <<lease, active, account, actuals, unrecorded>>
              \/ /\ events' = [events EXCEPT ![k] = StoredReturn(e, n)]
                 /\ GiveBack(n)
                 /\ Replies("return", u, "OK", "NONE")
                 /\ UNCHANGED <<lease, active, actuals, unrecorded>>

ExceedsWindow(u) ==
    RateUnits(u) # 0 /\ RateUnits(u) > RateWindowConsumed(u.time)

\* A return without a task leaves an event only if it moves rate units.  The
\* event is freed unless the policy agrees, and inserted at the end.
ReturnAnonymous(u) ==
    \/ /\ ExceedsWindow(u) \/ ExceedsAccount(u)
       /\ Refuse("return", u, "INVAL")
    \/ /\ ~ExceedsWindow(u) /\ ~ExceedsAccount(u)
       /\ \/ RateUnits(u) # 0 /\ Refuse("return", u, "NOMEM")
          \/ CallbackMayFail /\ Refuse("return", u, "CALLBACK")
          \/ /\ \/ /\ RateUnits(u) # 0
                   /\ Record(ReturnEvent(u))
                   /\ UNCHANGED unrecorded
                \/ /\ RateUnits(u) = 0
                   /\ UNCHANGED events
                   /\ unrecorded' = [unrecorded EXCEPT !.credits = @ + CreditUnits(u)]
             /\ GiveBack(u)
             /\ Replies("return", u, "OK", "NONE")
             /\ UNCHANGED <<lease, active, actuals>>

ReturnUsage(u) ==
    \/ ~active /\ Refuse("return", u, "STATE")
    \/ active /\ \E k \in Recorded(u.task) : ReturnNamed(u, k)
    \/ /\ active /\ u.task # 0
       /\ Recorded(u.task) = {}
       /\ Refuse("return", u, "STATE")
    \/ /\ active /\ u.task = 0
       /\ \E now \in Clock : ReturnAnonymous(At(u, now))

-----------------------------------------------------------------------------
(* qhw_adm_record_actual, and the end of the reservation                   *)

Of(task) == [NoUsage EXCEPT !.task = task]

SetActual(task, record) ==
    actuals' = IF task = 0 THEN actuals ELSE [actuals EXCEPT ![task] = record]

\* call_feedback: an estimator that does not learn is not called.
Feedback(task, record) ==
    \/ /\ Replies("record_actual", Of(task), "OK", "NONE")
       /\ SetActual(task, [record EXCEPT
            !.pending = FALSE, !.learned = @ + (IF lease.learns THEN 1 ELSE 0)])
    \/ /\ lease.learns
       /\ Replies("record_actual", Of(task), "ESTIMATOR", "NONE")
       /\ SetActual(task, [record EXCEPT !.pending = TRUE])

\* Mutant: every record is a new one.
NeverReported(task) == FALSE

\* The task already has an actual record.
Reported(task) == task # 0 /\ actuals[task].reported

RecordAgain(task, ns) ==
    \/ actuals[task].ns # ns /\ Refuse("record_actual", Of(task), "STATE")
    \/ /\ actuals[task].ns = ns
       /\ ~actuals[task].pending
       /\ Refuse("record_actual", Of(task), "OK")
    \/ /\ actuals[task].ns = ns
       /\ actuals[task].pending
       /\ Feedback(task, actuals[task])
       /\ UNCHANGED <<lease, active, account, events, unrecorded>>

\* The measured time is kept whether or not the feedback succeeds.
RecordNew(task, ns) ==
    \/ /\ AddOverflows(account.actual_total, ns)
       /\ Refuse("record_actual", Of(task), "INVAL")
    \/ task # 0 /\ Refuse("record_actual", Of(task), "NOMEM")
    \/ /\ ~AddOverflows(account.actual_total, ns)
       /\ account' = [account EXCEPT !.actual_total = @ + ns]
       /\ Feedback(task, [Unreported EXCEPT !.reported = TRUE, !.ns = ns])
       /\ unrecorded' = [unrecorded EXCEPT !.ns = @ + IF task = 0 THEN ns ELSE 0]
       /\ UNCHANGED <<lease, active, events>>

RecordActual(task, ns) ==
    \/ ~active /\ Refuse("record_actual", Of(task), "STATE")
    \/ active /\ Reported(task) /\ RecordAgain(task, ns)
    \/ active /\ ~Reported(task) /\ RecordNew(task, ns)

\* Mutant: only what was returned counts as unused.
FinalUnusedReturned == account.unused_capacity

\* qhw_adm_finalize_unused_capacity
FinalUnused ==
    LET left == SatSub(CapacityUnits, ConsumedUnits)
    IN  IF left > account.unused_capacity THEN left ELSE account.unused_capacity

Finalised(acc) ==
    [acc EXCEPT !.unused_capacity = FinalUnused, !.underuse_score = FinalUnused]

\* Mutant: what the refused release had been told stays.
StaysFinalised(acc, old) == acc

Unfinalised(acc, old) ==
    [acc EXCEPT !.unused_capacity = old.unused_capacity,
                !.underuse_score = old.underuse_score]

\* transition_reservation: the account is finalised before the policy is
\* asked, and restored if it refuses.
EndLease ==
    \/ /\ active /\ CallbackMayFail
       /\ account' = Unfinalised(Finalised(account), account)
       /\ Replies("end", NoUsage, "CALLBACK", "NONE")
       /\ UNCHANGED <<lease, active, events, actuals, unrecorded>>
    \/ /\ active
       /\ active' = FALSE
       /\ account' = Finalised(account)
       /\ Replies("end", NoUsage, "OK", "NONE")
       /\ UNCHANGED <<lease, events, actuals, unrecorded>>

-----------------------------------------------------------------------------
(* Calls that only read                                                    *)

\* latest_rate_event_time: without an event, the clock decides.
LatestTimes ==
    LET times == {e.consumed.time : e \in {x \in Range(events) : x.consumed_set}}
            \cup {e.returned.time : e \in {x \in Range(events) : x.returned_set}}
    IN  IF times = {} THEN Clock ELSE {t \in times : \A s \in times : s <= t}

\* Mutant: the account of the whole reservation is shown.
RateShownOfLease(time) == account.rate_consumed

RateShown(time) ==
    IF lease.rate # 0 THEN RateWindowConsumed(time) ELSE account.rate_consumed

\* qhw_adm_get_usage
GetUsage(time) ==
    [remaining_credits |-> SatSub(lease.credits, account.credits_consumed),
     remaining_rate |-> SatSub(lease.rate, RateShown(time))]

\* qhw_adm_authorize_usage: the decision of a consume, without its effects.
AuthorizeUsage(u) == IF active THEN UsageDecisions(u) ELSE {"STATE"}

\* qhw_adm_get_compliance
ComplianceAction == IF account.overuse_count # 0 THEN "REJECT" ELSE "ALLOW"

-----------------------------------------------------------------------------
(* The specification                                                       *)

Init ==
    /\ lease \in Leases
    /\ active = TRUE
    /\ account = EmptyAccount
    /\ events = <<>>
    /\ actuals = [t \in Tasks |-> Unreported]
    /\ unrecorded = [credits |-> 0, ns |-> 0]
    /\ out = [call |-> "reserve", usage |-> NoUsage, rc |-> "OK", decision |-> "NONE"]

Next ==
    \/ \E u \in Usages(lease) : Consume(u) \/ ReturnUsage(u)
    \/ \E a \in Actuals(lease) : RecordActual(a[1], a[2])
    \/ EndLease

Spec == Init /\ [][Next]_vars

-----------------------------------------------------------------------------
(* Invariants                                                              *)

Charges == {k \in DOMAIN events : events[k].consumed_set}
Refunds == {k \in DOMAIN events : events[k].returned_set}
Denials == {k \in DOMAIN events : events[k].decision = "REJECTED"}

DeniedTasks == {events[k].task : k \in Denials} \ {0}
AnonymousDenials == {k \in Denials : events[k].task = 0}

CreditsCharged == [k \in DOMAIN events |-> CreditUnits(events[k].consumed)]
CreditsRefunded == [k \in DOMAIN events |-> CreditUnits(events[k].returned)]
RateCharged == [k \in DOMAIN events |-> RateUnits(events[k].consumed)]
RateRefunded == [k \in DOMAIN events |-> RateUnits(events[k].returned)]

(* The account and the event list are kept apart and agree: what the        *)
(* account says was consumed is what the charged events add up to, less     *)
(* what was returned.  A call that failed, or was repeated, moved neither.  *)
LedgerBalances ==
    /\ account.credits_consumed + unrecorded.credits
           + UnitSum(CreditsRefunded, Refunds)
         = UnitSum(CreditsCharged, Charges)
    /\ account.rate_consumed + UnitSum(RateRefunded, Refunds)
         = UnitSum(RateCharged, Charges)

\* The units that detailed-design.md charges to a rate reservation.
DocumentedRate(u) ==
    IF u.rate # 0 THEN u.rate
    ELSE CeilDiv(u.baseline * lease.window, lease.budget)

(* detailed-design.md: the baseline units of a record are spread over the   *)
(* reservation's quantum budget before they are added to what it consumed.  *)
RateIsConverted ==
    lease.kind = "rate" =>
        account.rate_consumed
              + UnitSum([k \in Refunds |-> DocumentedRate(events[k].returned)],
                        Refunds)
            = UnitSum([k \in Charges |-> DocumentedRate(events[k].consumed)],
                      Charges)

Windows == {e.consumed.time \div lease.window : e \in Range(events)}

ChargesIn(w) ==
    {k \in Charges : events[k].consumed.time \div lease.window = w}

\* A task gives back what it took; an anonymous return acts in its own window.
RefundsIn(w) ==
    {k \in Refunds :
        IF k \in Charges THEN k \in ChargesIn(w)
        ELSE events[k].returned.time \div lease.window = w}

(* Whatever is consumed, returned, retried and reported late, a credit      *)
(* reservation never spends more credits than it reserved.                  *)
CreditEnvelope ==
    lease.kind = "credit" => account.credits_consumed <= lease.credits

(* The events of one rate window never spend more than the reserved rate,   *)
(* in the units that the code charges, returns counted where the work they  *)
(* undo was counted.  MaxU64 is no limit: a sum that saturates never        *)
(* exceeds it.                                                              *)
RateEnvelope ==
    lease.kind = "rate" /\ lease.rate < MaxU64 =>
        \A w \in Windows :
            UnitSum(RateCharged, ChargesIn(w))
                <= lease.rate + UnitSum(RateRefunded, RefundsIn(w))

(* detailed-design.md: usage is tracked by task, capacity is returned once  *)
(* for a consumed task and never more than it consumed.                     *)
OnceByTask ==
    /\ \A t \in Tasks : Cardinality(Recorded(t)) <= 1
    /\ \A k \in Refunds : events[k].task # 0 =>
         /\ k \in Charges
         /\ CreditsRefunded[k] <= CreditsCharged[k]
         /\ RateRefunded[k] <= RateCharged[k]

(* Every denial is an overuse, once: a denied task that is retried, or that *)
(* is returned, is not counted again; compliance rejects a reservation that *)
(* has one, and no other.                                                   *)
DenialsCounted ==
    /\ account.overuse_count
         = Cardinality(DeniedTasks) + Cardinality(AnonymousDenials)
    /\ ComplianceAction = "REJECT" <=> Denials # {}

\* A limit of MaxU64 is never exceeded by a sum that saturates.
Accepts(u, remaining) ==
    AuthorizeUsage(u) = {IF u.credits + u.rate <= remaining
                         THEN "ACCEPTED" ELSE "REJECTED"}

(* What get_usage reports as remaining is what authorize_usage, and so a    *)
(* consume, still accepts at that time: all of it, and not a unit more,     *)
(* however events, returns and windows came about.                          *)
RemainingIsUsable ==
    active => \A time \in LatestTimes :
        LET left == GetUsage(time)
        IN  /\ lease.kind = "credit" /\ lease.credits < MaxU64 =>
                 \A n \in {left.remaining_credits, left.remaining_credits + 1} :
                    n # 0 => Accepts([NoUsage EXCEPT !.credits = n, !.time = time],
                                     left.remaining_credits)
            /\ lease.kind = "rate" /\ lease.rate < MaxU64 =>
                 \A n \in {left.remaining_rate, left.remaining_rate + 1} :
                    n # 0 => Accepts([NoUsage EXCEPT !.rate = n, !.time = time],
                                     left.remaining_rate)

SumOfActuals == UnitSum([t \in Tasks |-> actuals[t].ns], Tasks)

(* A measured time enters the total once and, with an estimator that        *)
(* learns, its feedback succeeds once or is still pending, through every    *)
(* failure of the callback and every retry.                                 *)
FeedbackOnce ==
    /\ account.actual_total = SumOfActuals + unrecorded.ns
    /\ \A t \in Tasks :
         actuals[t].learned =
            IF lease.learns /\ actuals[t].reported /\ ~actuals[t].pending
            THEN 1 ELSE 0

(* The underuse that compliance reports of an ended reservation hides       *)
(* nothing: it covers all that was left of the envelope.                    *)
UnderuseReported ==
    ~active => /\ account.underuse_score = account.unused_capacity
               /\ CapacityUnits <= ConsumedUnits + account.underuse_score

-----------------------------------------------------------------------------
(* Action properties                                                       *)

SameRecord(u, e) ==
    /\ u.time \in {0, e.time}
    /\ <<u.credits, u.rate, u.baseline>> = <<e.credits, e.rate, e.baseline>>

(* Repeating a call of a task whose event is on record moves no account and *)
(* no event, and the same record is never a conflict, even if it leaves its *)
(* time to a clock that has moved.  A consume that succeeds again gets the  *)
(* recorded decision, even if capacity has come back since.                 *)
RetriesAreFree ==
    [][\A k \in DOMAIN events :
        LET u == out'.usage
            e == events[k]
        IN  u.task # 0 /\ e.task = u.task =>
              /\ out'.call = "consume" =>
                   /\ UNCHANGED <<account, events>>
                   /\ out'.rc = "OK" => out'.decision = e.decision
                   /\ active /\ SameRecord(u, e.consumed) => out'.rc # "STATE"
              /\ out'.call = "return" /\ e.returned_set =>
                   UNCHANGED <<account, events>>]_vars

(* A call that reports an error has undone what it did: account, events,    *)
(* measured times and the reservation are what they were, although units    *)
(* were added before the event could be inserted, a return was stored and a *)
(* lease finalised before the policy refused.  Out of memory with the       *)
(* decision in hand is the one exception: then the event is on record, for  *)
(* the retry to find, and nothing is charged without one.                   *)
FailedCallsMoveNothing ==
    [][/\ out'.rc \in {"STATE", "INVAL", "CALLBACK"} =>
            UNCHANGED <<active, account, events, actuals, unrecorded>>
       /\ out'.rc = "NOMEM" =>
            /\ UNCHANGED <<active, actuals, unrecorded>>
            /\ \/ UNCHANGED <<account, events>>
               \/ /\ out'.call = "consume"
                  /\ Len(events') = Len(events) + 1
                  /\ Last(events').consumed = out'.usage]_vars
=============================================================================
