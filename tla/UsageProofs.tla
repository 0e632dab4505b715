---------------------------- MODULE UsageProofs ----------------------------
(***************************************************************************)
(* The account of a reservation, for any tasks, leases and reports.  As in *)
(* AdmissionProofs the argument goes by the shape of a step: what a call   *)
(* may do to the account, the events and the measured times is one of ten  *)
(* things.  The walk over the events of a rate window is a fold: a lemma   *)
(* goes along the list and bounds what it answers by the charges and the   *)
(* refunds of the window.                                                  *)
(***************************************************************************)
EXTENDS Usage, CapacityTheorems, WellFoundedInduction

EventRecord ==
    [task : Tasks \cup {0}, consumed : Usage, consumed_set : BOOLEAN,
     returned : Usage, returned_set : BOOLEAN,
     decision : {"ACCEPTED", "REJECTED", "NONE"}]

\* An event that was not returned has no return to undo.
Event == {e \in EventRecord : ~e.returned_set => e.returned = NoUsage}

Account ==
    [credits_consumed : U64, rate_consumed : U64, unused_capacity : U64,
     underuse_score : U64, overuse_count : Nat, actual_total : U64]

Actual == [ns : U64, reported : BOOLEAN, pending : BOOLEAN, learned : Nat]

UsageTypeOK ==
    /\ lease \in Leases
    /\ active \in BOOLEAN
    /\ account \in Account
    /\ events \in Seq(Event)
    /\ actuals \in [Tasks -> Actual]
    /\ unrecorded \in [credits : Nat, ns : Nat]

-----------------------------------------------------------------------------
(* The shapes of a step                                                    *)

Unmoved == UNCHANGED <<lease, active, account, events, actuals, unrecorded>>

Denied(u) ==
    /\ Recorded(u.task) = {}
    /\ events' = Append(events, ConsumeEvent(u, "REJECTED"))
    /\ account' = [account EXCEPT !.overuse_count = @ + 1]
    /\ UNCHANGED <<lease, active, actuals, unrecorded>>

Chargeable(u) ==
    /\ "ACCEPTED" \in UsageDecisions(u)
    /\ ~AddOverflows(account.credits_consumed, CreditUnits(u))

Charged(u) ==
    /\ Recorded(u.task) = {}
    /\ Chargeable(u)
    /\ ~AddOverflows(account.rate_consumed, RateUnits(u))
    /\ events' = Append(events, ConsumeEvent(u, "ACCEPTED"))
    /\ account' = [account EXCEPT
            !.credits_consumed = @ + CreditUnits(u),
            !.rate_consumed = @ + RateUnits(u)]
    /\ UNCHANGED <<lease, active, actuals, unrecorded>>

\* The units of u are those of a record that a caller passed.
Offered(u) ==
    \E v \in Usages(lease) : <<u.credits, u.rate>> = <<v.credits, v.rate>>

HalfCharged(u) ==
    /\ Offered(u)
    /\ Chargeable(u)
    /\ AddOverflows(account.rate_consumed, RateUnits(u))
    /\ account' = [account EXCEPT !.credits_consumed = @ + CreditUnits(u)]
    /\ UNCHANGED <<lease, active, events, actuals, unrecorded>>

TaskReturned(k, n) ==
    /\ k \in DOMAIN events
    /\ events[k].consumed_set /\ ~events[k].returned_set
    /\ ~ExceedsEvent(n, events[k]) /\ ~ExceedsAccount(n)
    /\ events' = [events EXCEPT ![k] = StoredReturn(events[k], n)]
    /\ GiveBack(n)
    /\ UNCHANGED <<lease, active, actuals, unrecorded>>

ReturnRecorded(u) ==
    /\ ~ExceedsAccount(u)
    /\ events' = Append(events, ReturnEvent(u))
    /\ GiveBack(u)
    /\ UNCHANGED <<lease, active, actuals, unrecorded>>

ReturnUnrecorded(u) ==
    /\ ~ExceedsAccount(u)
    /\ RateUnits(u) = 0
    /\ unrecorded' = [unrecorded EXCEPT !.credits = @ + CreditUnits(u)]
    /\ GiveBack(u)
    /\ UNCHANGED <<lease, active, events, actuals>>

\* What call_feedback leaves of a record.
Fed(record) ==
    {[record EXCEPT !.pending = FALSE,
                    !.learned = @ + (IF lease.learns THEN 1 ELSE 0)]}
      \cup (IF lease.learns THEN {[record EXCEPT !.pending = TRUE]} ELSE {})

Measured(task, ns) ==
    /\ ~Reported(task)
    /\ ~AddOverflows(account.actual_total, ns)
    /\ account' = [account EXCEPT !.actual_total = @ + ns]
    /\ \E r \in Fed([Unreported EXCEPT !.reported = TRUE, !.ns = ns]) :
          SetActual(task, r)
    /\ unrecorded' = [unrecorded EXCEPT
            !.ns = @ + IF task = 0 THEN ns ELSE 0]
    /\ UNCHANGED <<lease, active, events>>

FedAgain(task) ==
    /\ Reported(task) /\ actuals[task].pending
    /\ \E r \in Fed(actuals[task]) : SetActual(task, r)
    /\ UNCHANGED <<lease, active, account, events, unrecorded>>

Ended ==
    /\ active' = FALSE
    /\ account' = [account EXCEPT !.unused_capacity = FinalUnused,
                                  !.underuse_score = FinalUnused]
    /\ UNCHANGED <<lease, events, actuals, unrecorded>>

Moves ==
    \/ \E u \in Usage : Denied(u) \/ Charged(u) \/ HalfCharged(u)
    \/ \E k \in DOMAIN events, n \in Usage : TaskReturned(k, n)
    \/ \E u \in Usage :
          u.task = 0 /\ (ReturnRecorded(u) \/ ReturnUnrecorded(u))
    \/ \E task \in Tasks \cup {0}, ns \in U64 :
          Measured(task, ns) \/ FedAgain(task)
    \/ Ended

UsageShape == Unmoved \/ (active /\ Moves)

(* A refused call moves nothing.                                           *)
LEMMA RefusalMovesNothing ==
    ASSUME NEW call, NEW u, NEW rc, Refuse(call, u, rc) PROVE Unmoved
BY DEF Refuse, Unmoved

(* A record that is given a time is a record.                              *)
LEMMA TimedUsage ==
    ASSUME NEW u \in Usage, NEW time \in Nat
    PROVE  /\ At(u, time) \in Usage
           /\ At(u, time).task = u.task
           /\ At(u, time).credits = u.credits
           /\ At(u, time).rate = u.rate
BY DEF At, Usage

LEMMA UnitsTyped ==
    ASSUME lease \in Leases, NEW u \in Usage
    PROVE  /\ CreditUnits(u) \in U64 /\ RateUnits(u) \in U64
           /\ ReturnedUnits(u) \in U64
<1>1. lease \in Lease
    BY UsageInputs
<1>2. 0 \in U64
    BY WidthAssumption DEF U64
<1> QED
    BY <1>1, <1>2 DEF Usage, CreditUnits, RateUnits, ReturnedUnits

(* A sum that does not overflow and a difference are values again.         *)
LEMMA SumTyped ==
    ASSUME NEW a \in U64, NEW b \in U64
    PROVE  /\ ~AddOverflows(a, b) => a + b \in U64
           /\ b <= a => a - b \in U64
           /\ SatSub(a, b) \in U64
           /\ a \in Nat
BY WidthAssumption DEF U64, AddOverflows, SatSub

LEMMA EmptyTyped == 0 \in U64 /\ NoUsage \in Usage
BY WidthAssumption DEF U64, NoUsage, Usage

(* What a failed call has done to the account or to an event, undone.      *)
LEMMA UnitsUndone ==
    ASSUME UsageTypeOK, NEW u \in Usage
    PROVE  WithoutUnits(WithUnits(account, u), u) = account
<1> DEFINE c == account.credits_consumed
           r == account.rate_consumed
<1>1. /\ CreditUnits(u) \in Nat /\ RateUnits(u) \in Nat
      /\ c \in Nat /\ r \in Nat
    BY UnitsTyped DEF UsageTypeOK, Account, U64
<1> DEFINE charged == WithUnits(account, u)
<1>2. /\ charged.credits_consumed = c + CreditUnits(u)
      /\ charged.rate_consumed = r + RateUnits(u)
    BY DEF WithUnits, UsageTypeOK, Account
<1> HIDE DEF charged
<1>3. /\ charged.credits_consumed - CreditUnits(u) = c
      /\ charged.rate_consumed - RateUnits(u) = r
      /\ ~(CreditUnits(u) > charged.credits_consumed)
      /\ ~(RateUnits(u) > charged.rate_consumed)
    BY <1>1, <1>2
<1> HIDE DEF c, r
<1>4. WithoutUnits(charged, u)
        = [charged EXCEPT !.credits_consumed = c, !.rate_consumed = r]
    BY <1>3, Zenon DEF WithoutUnits
<1> QED
    BY <1>4 DEF charged, c, r, WithUnits, UsageTypeOK, Account

LEMMA ReturnUndone ==
    ASSUME NEW e \in Event, ~e.returned_set, NEW u
    PROVE  ClearedReturn(StoredReturn(e, u)) = e
BY DEF ClearedReturn, StoredReturn, Event, EventRecord

LEMMA FinalUndone ==
    ASSUME UsageTypeOK
    PROVE  Unfinalised(Finalised(account), account) = account
BY DEF Unfinalised, Finalised, UsageTypeOK, Account

LEMMA ConsumeShape ==
    ASSUME UsageTypeOK, NEW u \in Usage, u \in Usages(lease), Consume(u)
    PROVE  UsageShape
<1>1. CASE Refuse("consume", u, "STATE")
    BY <1>1, RefusalMovesNothing DEF UsageShape
<1>2. ASSUME NEW k \in Recorded(u.task), ConsumeAgain(u, events[k])
      PROVE  UsageShape
    BY <1>2, RefusalMovesNothing DEF ConsumeAgain, UsageShape, Unmoved
<1>3. ASSUME active, Recorded(u.task) = {}, NEW now \in Clock,
             ConsumeNew(At(u, now))
      PROVE  UsageShape
  <2> DEFINE n == At(u, now)
  <2>1. n \in Usage /\ n.task = u.task /\ Offered(n)
      BY TimedUsage, UsageInputs DEF Offered
  <2> HIDE DEF n
  <2>2. CASE Refuse("consume", n, "CALLBACK") \/ Refuse("consume", n, "NOMEM")
      BY <2>2, RefusalMovesNothing DEF UsageShape
  <2>3. CASE ConsumeDenied(n) /\ UNCHANGED <<lease, active, actuals, unrecorded>>
    <3>1. Denied(n)
        BY <1>3, <2>1, <2>3 DEF ConsumeDenied, Record, Denied
    <3> QED
        BY <1>3, <2>1, <3>1 DEF UsageShape, Moves
  <2>4. CASE /\ "ACCEPTED" \in UsageDecisions(n)
             /\ ConsumeAccepted(n)
             /\ UNCHANGED <<lease, active, actuals, unrecorded>>
    <3>1. CASE UNCHANGED <<account, events>>
        BY <2>4, <3>1 DEF UsageShape, Unmoved
    <3>2. CASE HalfCharged(n)
        BY <1>3, <2>1, <3>2 DEF UsageShape, Moves
    <3>3. CASE Charged(n)
        BY <1>3, <2>1, <3>3 DEF UsageShape, Moves
    <3>4. WithUnits(account, n)
            = [account EXCEPT !.credits_consumed = @ + CreditUnits(n),
                              !.rate_consumed = @ + RateUnits(n)]
        BY DEF WithUnits
    <3>5. \/ UNCHANGED <<account, events>>
          \/ HalfCharged(n)
          \/ Charged(n)
        BY <1>3, <2>1, <2>4, <3>4, UnitsUndone
           DEF ConsumeAccepted, HalfCharged, Charged, Chargeable, Record
    <3> QED
        BY <3>1, <3>2, <3>3, <3>5
  <2> QED
      BY <1>3, <2>2, <2>3, <2>4 DEF ConsumeNew, n
<1> QED
    BY <1>1, <1>2, <1>3 DEF Consume

LEMMA ReturnShape ==
    ASSUME UsageTypeOK, NEW u \in Usage, ReturnUsage(u) PROVE UsageShape
<1>1. CASE Refuse("return", u, "STATE")
    BY <1>1, RefusalMovesNothing DEF UsageShape
<1>2. ASSUME active, NEW k \in Recorded(u.task), ReturnNamed(u, k)
      PROVE  UsageShape
  <2> DEFINE n == At(u, events[k].consumed.time)
  <2>1. k \in DOMAIN events /\ events[k] \in Event
      BY DEF Recorded, UsageTypeOK
  <2>2. n \in Usage
    <3>1. events[k].consumed.time \in Nat
        BY <2>1 DEF Event, EventRecord, Usage
    <3> QED
        BY <3>1, TimedUsage
  <2> HIDE DEF n
  <2>3. CASE \E rc \in {"OK", "STATE", "INVAL", "NOMEM", "CALLBACK"} :
                Refuse("return", u, rc)
      BY <2>3, RefusalMovesNothing DEF UsageShape
  <2>4. CASE TaskReturned(k, n)
      BY <1>2, <2>1, <2>2, <2>4 DEF UsageShape, Moves
  <2>5. CASE /\ ~events[k].returned_set
             /\ events' = [events EXCEPT
                            ![k] = ClearedReturn(StoredReturn(events[k], n))]
             /\ UNCHANGED <<lease, active, account, actuals, unrecorded>>
    <3>1. events' = events
        BY <2>1, <2>5, ReturnUndone DEF UsageTypeOK
    <3> QED
        BY <2>5, <3>1 DEF UsageShape, Unmoved
  <2>6. ReturnNamed(u, k)
      BY <1>2
  <2> QED
      BY <2>1, <2>3, <2>4, <2>5, <2>6 DEF ReturnNamed, TaskReturned, n
<1>3. ASSUME active, u.task = 0, NEW now \in Clock, ReturnAnonymous(At(u, now))
      PROVE  UsageShape
  <2> DEFINE n == At(u, now)
  <2>1. n \in Usage /\ n.task = 0
      BY <1>3, TimedUsage, UsageInputs
  <2> HIDE DEF n
  <2>2. CASE \E rc \in {"INVAL", "NOMEM", "CALLBACK"} : Refuse("return", n, rc)
      BY <2>2, RefusalMovesNothing DEF UsageShape
  <2>3. CASE ReturnRecorded(n) \/ ReturnUnrecorded(n)
      BY <1>3, <2>1, <2>3 DEF UsageShape, Moves
  <2>4. ReturnAnonymous(n)
      BY <1>3 DEF n
  <2> QED
      BY <2>2, <2>3, <2>4
         DEF ReturnAnonymous, ReturnRecorded, ReturnUnrecorded, Record
<1> QED
    BY <1>1, <1>2, <1>3 DEF ReturnUsage

LEMMA RecordShape ==
    ASSUME UsageTypeOK, NEW task \in Tasks \cup {0}, NEW ns \in U64,
           RecordActual(task, ns)
    PROVE  UsageShape
<1>1. CASE \E rc \in {"OK", "STATE", "INVAL", "NOMEM"} :
              Refuse("record_actual", Of(task), rc)
    BY <1>1, RefusalMovesNothing DEF UsageShape
<1>2. ASSUME NEW record, Feedback(task, record)
      PROVE  \E r \in Fed(record) : SetActual(task, r)
    BY <1>2 DEF Feedback, Fed
<1>3. CASE /\ active /\ Reported(task) /\ actuals[task].pending
           /\ Feedback(task, actuals[task])
           /\ UNCHANGED <<lease, active, account, events, unrecorded>>
  <2>1. FedAgain(task)
      BY <1>2, <1>3 DEF FedAgain
  <2> QED
      BY <1>3, <2>1 DEF UsageShape, Moves
<1>4. CASE /\ active /\ ~Reported(task)
           /\ ~AddOverflows(account.actual_total, ns)
           /\ account' = [account EXCEPT !.actual_total = @ + ns]
           /\ Feedback(task, [Unreported EXCEPT !.reported = TRUE, !.ns = ns])
           /\ unrecorded' = [unrecorded EXCEPT
                    !.ns = @ + IF task = 0 THEN ns ELSE 0]
           /\ UNCHANGED <<lease, active, events>>
  <2>1. Measured(task, ns)
      BY <1>2, <1>4 DEF Measured
  <2> QED
      BY <1>4, <2>1 DEF UsageShape, Moves
<1> QED
    BY <1>1, <1>3, <1>4 DEF RecordActual, RecordAgain, RecordNew

LEMMA EndShape == ASSUME UsageTypeOK, EndLease PROVE UsageShape
<1>1. CASE /\ account' = Unfinalised(Finalised(account), account)
           /\ UNCHANGED <<lease, active, events, actuals, unrecorded>>
    BY <1>1, FinalUndone DEF UsageShape, Unmoved
<1>2. CASE active /\ Ended
    BY <1>2 DEF UsageShape, Moves
<1> QED
    BY <1>1, <1>2 DEF EndLease, Ended, Finalised

(* Every step of the accounting has one of the ten shapes.                 *)
LEMMA UsageStepShape ==
    ASSUME UsageTypeOK, [Next]_vars PROVE UsageShape
<1>1. CASE UNCHANGED vars
    BY <1>1 DEF vars, UsageShape, Unmoved
<1>2. ASSUME NEW u \in Usages(lease), Consume(u) \/ ReturnUsage(u)
      PROVE  UsageShape
  <2>1. u \in Usage
      BY <1>2, UsageInputs DEF UsageTypeOK
  <2> QED
      BY <1>2, <2>1, ConsumeShape, ReturnShape
<1>3. ASSUME NEW a \in Actuals(lease), RecordActual(a[1], a[2])
      PROVE  UsageShape
  <2>1. a[1] \in Tasks \cup {0} /\ a[2] \in U64
      BY <1>3, UsageInputs DEF UsageTypeOK
  <2> QED
      BY <1>3, <2>1, RecordShape
<1> QED
    BY <1>1, <1>2, <1>3, EndShape DEF Next

-----------------------------------------------------------------------------
(* Types                                                                   *)

(* A refund is a record of it.                                             *)
LEMMA GiveBackTyped ==
    ASSUME UsageTypeOK, NEW u \in Usage, ~ExceedsAccount(u), GiveBack(u)
    PROVE  account' \in Account
<1>1. /\ CreditUnits(u) \in U64 /\ RateUnits(u) \in U64
      /\ ReturnedUnits(u) \in U64
    BY UnitsTyped DEF UsageTypeOK
<1> DEFINE c == account.credits_consumed - CreditUnits(u)
           r == account.rate_consumed - RateUnits(u)
           s == account.unused_capacity + ReturnedUnits(u)
<1>2. c \in U64 /\ r \in U64 /\ s \in U64
  <2>1. /\ account.credits_consumed \in U64 /\ account.rate_consumed \in U64
        /\ account.unused_capacity \in U64
      BY DEF UsageTypeOK, Account
  <2>2. /\ CreditUnits(u) <= account.credits_consumed
        /\ RateUnits(u) <= account.rate_consumed
        /\ ~AddOverflows(account.unused_capacity, ReturnedUnits(u))
      BY <1>1, <2>1, WidthAssumption DEF ExceedsAccount, U64
  <2> QED
      BY <1>1, <2>1, <2>2, SumTyped
<1>3. account' = [account EXCEPT !.credits_consumed = c, !.rate_consumed = r,
                                 !.unused_capacity = s]
    BY DEF GiveBack
<1> HIDE DEF c, r, s
<1> QED
    BY <1>2, <1>3 DEF UsageTypeOK, Account

LEMMA FedTyped ==
    ASSUME NEW record \in Actual, NEW r \in Fed(record) PROVE r \in Actual
<1> DEFINE m == record.learned + (IF lease.learns THEN 1 ELSE 0)
<1>1. m \in Nat
    BY DEF Actual
<1>2. \/ r = [record EXCEPT !.pending = FALSE, !.learned = m]
      \/ r = [record EXCEPT !.pending = TRUE]
    BY DEF Fed
<1> HIDE DEF m
<1> QED
    BY <1>1, <1>2 DEF Actual

LEMMA SetActualTyped ==
    ASSUME UsageTypeOK, NEW task \in Tasks \cup {0}, NEW r \in Actual,
           SetActual(task, r)
    PROVE  actuals' \in [Tasks -> Actual]
BY DEF SetActual, UsageTypeOK

LEMMA UsageTypeInit == Init => UsageTypeOK
BY EmptyTyped
   DEF Init, UsageTypeOK, EmptyAccount, Account, Unreported, Actual

LEMMA UsageTypeStep ==
    ASSUME UsageTypeOK, [Next]_vars PROVE UsageTypeOK'
<1> USE DEF UsageTypeOK
<1>0. account \in Account /\ lease \in Leases
    OBVIOUS
<1>1. CASE Unmoved
    BY <1>1 DEF Unmoved
<1>2. ASSUME NEW u \in Usage, Denied(u) PROVE UsageTypeOK'
  <2>1. ConsumeEvent(u, "REJECTED") \in Event
      BY EmptyTyped DEF ConsumeEvent, Event, EventRecord, Usage
  <2> DEFINE m == account.overuse_count + 1
  <2>2. m \in Nat /\ account' = [account EXCEPT !.overuse_count = m]
      BY <1>2 DEF Denied, Account
  <2> HIDE DEF m
  <2>3. account' \in Account
      BY <1>0, <2>2 DEF Account
  <2> QED
      BY <1>2, <2>1, <2>3 DEF Denied
<1>3. ASSUME NEW u \in Usage, Charged(u) PROVE UsageTypeOK'
  <2>1. ConsumeEvent(u, "ACCEPTED") \in Event
      BY EmptyTyped DEF ConsumeEvent, Event, EventRecord, Usage
  <2>2. /\ account.credits_consumed + CreditUnits(u) \in U64
        /\ account.rate_consumed + RateUnits(u) \in U64
      BY <1>3, UnitsTyped, SumTyped DEF Charged, Chargeable, Account
  <2>3. account' \in Account
      BY <1>3, <2>2 DEF Charged, Account
  <2> QED
      BY <1>3, <2>1, <2>3 DEF Charged
<1>4. ASSUME NEW u \in Usage, HalfCharged(u) PROVE UsageTypeOK'
  <2>1. account.credits_consumed + CreditUnits(u) \in U64
      BY <1>4, UnitsTyped, SumTyped DEF HalfCharged, Chargeable, Account
  <2>2. account' \in Account
      BY <1>4, <2>1 DEF HalfCharged, Account
  <2> QED
      BY <1>4, <2>2 DEF HalfCharged
<1>5. ASSUME NEW k \in DOMAIN events, NEW n \in Usage, TaskReturned(k, n)
      PROVE  UsageTypeOK'
  <2>1. account' \in Account
      BY <1>5, GiveBackTyped DEF TaskReturned
  <2> DEFINE e == StoredReturn(events[k], n)
  <2>2. e \in Event
    <3>1. events[k] \in Event
        OBVIOUS
    <3> QED
        BY <3>1 DEF Event, EventRecord, StoredReturn
  <2>3. events' = [events EXCEPT ![k] = e]
      BY <1>5 DEF TaskReturned
  <2> HIDE DEF e
  <2>4. events' \in Seq(Event)
      BY <2>2, <2>3
  <2> QED
      BY <1>5, <2>1, <2>4 DEF TaskReturned
<1>6. ASSUME NEW u \in Usage, ReturnRecorded(u) PROVE UsageTypeOK'
  <2>1. account' \in Account
      BY <1>6, GiveBackTyped DEF ReturnRecorded
  <2>2. ReturnEvent(u) \in Event
      BY EmptyTyped DEF ReturnEvent, Event, EventRecord, Usage
  <2> QED
      BY <1>6, <2>1, <2>2 DEF ReturnRecorded
<1>7. ASSUME NEW u \in Usage, ReturnUnrecorded(u) PROVE UsageTypeOK'
  <2>1. account' \in Account
      BY <1>7, GiveBackTyped DEF ReturnUnrecorded
  <2>2. CreditUnits(u) \in Nat
      BY UnitsTyped DEF U64
  <2>3. unrecorded' \in [credits : Nat, ns : Nat]
      BY <1>7, <2>2 DEF ReturnUnrecorded
  <2> QED
      BY <1>7, <2>1, <2>3 DEF ReturnUnrecorded
<1>8. ASSUME NEW task \in Tasks \cup {0}, NEW ns \in U64, Measured(task, ns)
      PROVE  UsageTypeOK'
  <2> DEFINE record == [Unreported EXCEPT !.reported = TRUE, !.ns = ns]
  <2>1. record \in Actual
      BY EmptyTyped DEF Unreported, Actual
  <2>2. actuals' \in [Tasks -> Actual]
      BY <1>8, <2>1, FedTyped, SetActualTyped DEF Measured
  <2>3. account.actual_total + ns \in U64
      BY <1>8, SumTyped DEF Measured, Account
  <2>4. account' \in Account
      BY <1>8, <2>3 DEF Measured, Account
  <2>5. unrecorded' \in [credits : Nat, ns : Nat]
      BY <1>8 DEF Measured, U64
  <2> QED
      BY <1>8, <2>2, <2>4, <2>5 DEF Measured
<1>9. ASSUME NEW task \in Tasks \cup {0}, FedAgain(task) PROVE UsageTypeOK'
  <2>1. actuals[task] \in Actual
      BY <1>9, UsageInputs DEF FedAgain, Reported
  <2>2. actuals' \in [Tasks -> Actual]
      BY <1>9, <2>1, FedTyped, SetActualTyped DEF FedAgain
  <2> QED
      BY <1>9, <2>2 DEF FedAgain
<1>10. CASE Ended
  <2>1. CapacityUnits \in U64 /\ ConsumedUnits \in U64
      BY UsageInputs, EmptyTyped
         DEF CapacityUnits, ConsumedUnits, Lease, Account
  <2>2. FinalUnused \in U64
      BY <2>1, SumTyped DEF FinalUnused, Account
  <2>3. account' \in Account
      BY <1>10, <2>2 DEF Ended, Account
  <2> QED
      BY <1>10, <2>3 DEF Ended
<1> QED
    BY <1>1, <1>2, <1>3, <1>4, <1>5, <1>6, <1>7, <1>8, <1>9, <1>10,
       UsageStepShape DEF UsageShape, Moves

-----------------------------------------------------------------------------
(* The event list                                                          *)

Added(e) == events' = Append(events, e)

LEMMA AppendDomain ==
    ASSUME UsageTypeOK, NEW e, Added(e)
    PROVE  /\ DOMAIN events' = DOMAIN events \cup {Len(events) + 1}
           /\ Len(events) + 1 \notin DOMAIN events
           /\ events'[Len(events) + 1] = e
           /\ \A k \in DOMAIN events : events'[k] = events[k]
           /\ IsFiniteSet(DOMAIN events)
<1>1. events \in Seq(Event) /\ Len(events) \in Nat
    BY DEF UsageTypeOK
<1>2. DOMAIN events = 1..Len(events)
    BY <1>1
<1>3. IsFiniteSet(1..Len(events))
    BY <1>1, FS_Interval
<1> DEFINE s == Append(events, e)
<1>4. /\ DOMAIN s = 1..(Len(events) + 1)
      /\ s[Len(events) + 1] = e
      /\ \A k \in 1..Len(events) : s[k] = events[k]
    BY <1>1
<1>5. events' = s
    BY DEF Added
<1> HIDE DEF s
<1> QED
    BY <1>1, <1>2, <1>3, <1>4, <1>5

LEMMA ReturnDomain ==
    ASSUME UsageTypeOK, NEW k \in DOMAIN events, NEW n \in Usage,
           TaskReturned(k, n)
    PROVE  /\ DOMAIN events' = DOMAIN events
           /\ \A j \in DOMAIN events \ {k} : events'[j] = events[j]
           /\ events'[k] = [events[k] EXCEPT !.returned = n,
                                             !.returned_set = TRUE]
           /\ events[k] \in Event
BY DEF TaskReturned, StoredReturn, UsageTypeOK

(* A refund is filled in; the rest of an event stays what it was.          *)
LEMMA ReturnKeeps ==
    ASSUME UsageTypeOK, NEW k \in DOMAIN events, NEW n \in Usage,
           TaskReturned(k, n)
    PROVE  \A j \in DOMAIN events :
              /\ events'[j].task = events[j].task
              /\ events'[j].consumed = events[j].consumed
              /\ events'[j].consumed_set = events[j].consumed_set
              /\ events'[j].decision = events[j].decision
<1> DEFINE e == [events[k] EXCEPT !.returned = n, !.returned_set = TRUE]
<1>1. events'[k] = e /\ events[k] \in Event
    BY ReturnDomain
<1>2. /\ e.task = events[k].task /\ e.consumed = events[k].consumed
      /\ e.consumed_set = events[k].consumed_set
      /\ e.decision = events[k].decision
    BY <1>1 DEF Event, EventRecord
<1> HIDE DEF e
<1> QED
    BY <1>1, <1>2, ReturnDomain

\* A named task has one event.
OneEventEach ==
    \A i, j \in DOMAIN events :
        events[i].task # 0 /\ events[i].task = events[j].task => i = j

\* A task returns what it consumed, or less.
CoveredRefund(e) ==
    e.returned_set /\ e.task # 0 =>
        /\ e.consumed_set
        /\ CreditUnits(e.returned) <= CreditUnits(e.consumed)
        /\ RateUnits(e.returned) <= RateUnits(e.consumed)

RefundsCovered == \A k \in DOMAIN events : CoveredRefund(events[k])

LEMMA OneEventEachStep ==
    ASSUME UsageTypeOK, OneEventEach, UsageShape PROVE OneEventEach'
<1>1. CASE UNCHANGED events
    BY <1>1 DEF OneEventEach
<1>2. ASSUME NEW e, Added(e), Recorded(e.task) = {} PROVE OneEventEach'
    BY <1>2, AppendDomain DEF OneEventEach, Recorded
<1>3. ASSUME NEW u \in Usage, Denied(u) \/ Charged(u) PROVE OneEventEach'
  <2>1. CASE Denied(u)
      BY <1>2, <2>1 DEF Denied, Added, ConsumeEvent
  <2>2. CASE Charged(u)
      BY <1>2, <2>2 DEF Charged, Added, ConsumeEvent
  <2> QED
      BY <1>3, <2>1, <2>2
<1>4. ASSUME NEW u \in Usage, ReturnRecorded(u) PROVE OneEventEach'
  <2>1. Added(ReturnEvent(u)) /\ Recorded(ReturnEvent(u).task) = {}
      BY <1>4 DEF ReturnRecorded, Added, ReturnEvent, Recorded
  <2> QED
      BY <1>2, <2>1
<1>5. ASSUME NEW k \in DOMAIN events, NEW n \in Usage, TaskReturned(k, n)
      PROVE  OneEventEach'
  <2>1. \A j \in DOMAIN events : events'[j].task = events[j].task
      BY <1>5, ReturnKeeps
  <2> QED
      BY <1>5, <2>1, ReturnDomain DEF OneEventEach
<1> QED
    BY <1>1, <1>3, <1>4, <1>5
       DEF UsageShape, Moves, Unmoved, HalfCharged, ReturnUnrecorded, Measured,
           FedAgain, Ended

LEMMA LeaseKept == ASSUME UsageShape PROVE lease' = lease
BY DEF UsageShape, Moves, Unmoved, Denied, Charged, HalfCharged, TaskReturned,
       ReturnRecorded, ReturnUnrecorded, Measured, FedAgain, Ended

(* Units are read from the lease, which stays.                             *)
LEMMA UnitsKept ==
    ASSUME lease' = lease, NEW u
    PROVE  /\ CreditUnits(u)' = CreditUnits(u)
           /\ RateUnits(u)' = RateUnits(u)
BY DEF CreditUnits, RateUnits

LEMMA RefundsCoveredStep ==
    ASSUME UsageTypeOK, RefundsCovered, UsageShape PROVE RefundsCovered'
<1>1. lease' = lease
    BY LeaseKept
<1>2. CASE UNCHANGED events
    BY <1>1, <1>2
       DEF RefundsCovered, CoveredRefund, CreditUnits, RateUnits
<1>3. ASSUME NEW e, Added(e), CoveredRefund(e) PROVE RefundsCovered'
  <2>1. \A k \in DOMAIN events' : CoveredRefund(events'[k])
      BY <1>3, AppendDomain DEF RefundsCovered
  <2> QED
      BY <1>1, <2>1
         DEF RefundsCovered, CoveredRefund, CreditUnits, RateUnits
<1>4. ASSUME NEW u \in Usage, Denied(u) \/ Charged(u) PROVE RefundsCovered'
  <2>1. \A decision : CoveredRefund(ConsumeEvent(u, decision))
      BY DEF CoveredRefund, ConsumeEvent
  <2> QED
      BY <1>3, <1>4, <2>1 DEF Denied, Charged, Added
<1>5. ASSUME NEW u \in Usage, ReturnRecorded(u) PROVE RefundsCovered'
  <2>1. CoveredRefund(ReturnEvent(u))
      BY DEF CoveredRefund, ReturnEvent
  <2> QED
      BY <1>3, <1>5, <2>1 DEF ReturnRecorded, Added
<1>6. ASSUME NEW k \in DOMAIN events, NEW n \in Usage, TaskReturned(k, n)
      PROVE  RefundsCovered'
  <2> DEFINE e == [events[k] EXCEPT !.returned = n, !.returned_set = TRUE]
  <2>1. events[k] \in Event /\ events'[k] = e
      BY <1>6, ReturnDomain
  <2>2. /\ e.returned = n /\ e.consumed = events[k].consumed
        /\ e.consumed_set = events[k].consumed_set
      BY <2>1 DEF Event, EventRecord
  <2>3. events[k].consumed \in Usage
      BY <2>1 DEF Event, EventRecord
  <2> HIDE DEF e
  <2>4. /\ CreditUnits(n) <= CreditUnits(events[k].consumed)
        /\ RateUnits(n) <= RateUnits(events[k].consumed)
    <3>1. /\ CreditUnits(n) \in Nat /\ RateUnits(n) \in Nat
          /\ CreditUnits(events[k].consumed) \in Nat
          /\ RateUnits(events[k].consumed) \in Nat
        BY <2>3, UnitsTyped DEF UsageTypeOK, U64
    <3> QED
        BY <1>6, <3>1 DEF TaskReturned, ExceedsEvent
  <2>5. CoveredRefund(e)
      BY <1>6, <2>2, <2>4 DEF CoveredRefund, TaskReturned
  <2>6. \A j \in DOMAIN events' : CoveredRefund(events'[j])
      BY <1>6, <2>1, <2>5, ReturnDomain DEF RefundsCovered
  <2> QED
      BY <1>1, <2>6
         DEF RefundsCovered, CoveredRefund, CreditUnits, RateUnits
<1> QED
    BY <1>2, <1>4, <1>5, <1>6
       DEF UsageShape, Moves, Unmoved, HalfCharged, ReturnUnrecorded, Measured,
           FedAgain, Ended

UsageInv == UsageTypeOK /\ OneEventEach /\ RefundsCovered

(* The strengthening that the theorems below share.                        *)
LEMMA UsageInvariant == Spec => []UsageInv
<1>1. Init => UsageInv
  <2>1. Init => OneEventEach /\ RefundsCovered
      BY DEF Init, OneEventEach, RefundsCovered
  <2> QED
      BY <2>1, UsageTypeInit DEF UsageInv
<1>2. UsageInv /\ [Next]_vars => UsageInv'
    BY UsageTypeStep, UsageStepShape, OneEventEachStep, RefundsCoveredStep
       DEF UsageInv
<1> QED
    BY <1>1, <1>2, PTL DEF Spec

(* Usage is tracked by task: whatever is retried and in whatever order, a  *)
(* named task leaves one event, and returns once, of what it consumed, no  *)
(* more than that.                                                         *)
THEOREM TasksCountOnce == Spec => []OnceByTask
<1>1. UsageInv => OnceByTask
  <2> SUFFICES ASSUME UsageInv PROVE OnceByTask
      OBVIOUS
  <2>1. ASSUME NEW t \in Tasks PROVE Cardinality(Recorded(t)) <= 1
    <3>1. CASE Recorded(t) = {}
        BY <3>1, FS_EmptySet
    <3>2. ASSUME NEW k \in Recorded(t) PROVE Recorded(t) = {k}
        BY UsageInputs DEF UsageInv, OneEventEach, Recorded
    <3>3. ASSUME NEW k \in Recorded(t) PROVE Cardinality(Recorded(t)) = 1
        BY <3>2, FS_Singleton
    <3> QED
        BY <3>1, <3>3
  <2>2. ASSUME NEW k \in Refunds, events[k].task # 0
        PROVE  /\ k \in Charges
               /\ CreditsRefunded[k] <= CreditsCharged[k]
               /\ RateRefunded[k] <= RateCharged[k]
      BY <2>2
         DEF UsageInv, RefundsCovered, CoveredRefund, Refunds, Charges,
             CreditsRefunded, CreditsCharged, RateRefunded, RateCharged
  <2> QED
      BY <2>1, <2>2 DEF OnceByTask
<1> QED
    BY <1>1, UsageInvariant, PTL

-----------------------------------------------------------------------------
(* What compliance reports                                                 *)

(* Underuse hides nothing: once a reservation has ended, what compliance   *)
(* reports as unused covers all that was left of its envelope.             *)
THEOREM UnderuseIsReported == Spec => []UnderuseReported
<1>1. Init => UnderuseReported
    BY DEF Init, UnderuseReported
<1>2. ASSUME UsageInv, UnderuseReported, [Next]_vars PROVE UnderuseReported'
  <2>1. UsageTypeOK /\ UsageShape
      BY <1>2, UsageStepShape DEF UsageInv
  <2>2. CASE Unmoved
      BY <1>2, <2>2
         DEF Unmoved, UnderuseReported, CapacityUnits, ConsumedUnits
  <2>3. CASE Ended
    <3>1. CapacityUnits \in Nat /\ ConsumedUnits \in Nat
        BY <2>1, UsageInputs, EmptyTyped
           DEF UsageTypeOK, CapacityUnits, ConsumedUnits, Lease, Account, U64
    <3>2. FinalUnused \in Nat /\ CapacityUnits <= ConsumedUnits + FinalUnused
        BY <2>1, <3>1 DEF UsageTypeOK, Account, U64, FinalUnused, SatSub
    <3>3. /\ account'.unused_capacity = FinalUnused
          /\ account'.underuse_score = FinalUnused
          /\ account'.credits_consumed = account.credits_consumed
          /\ account'.rate_consumed = account.rate_consumed
        BY <2>1, <2>3 DEF Ended, UsageTypeOK, Account
    <3>4. CapacityUnits' = CapacityUnits /\ ConsumedUnits' = ConsumedUnits
        BY <2>3, <3>3 DEF Ended, CapacityUnits, ConsumedUnits
    <3> QED
        BY <3>2, <3>3, <3>4 DEF UnderuseReported
  <2>4. CASE active' = TRUE
      BY <2>4 DEF UnderuseReported
  <2>5. active \in BOOLEAN
      BY <2>1 DEF UsageTypeOK
  <2> QED
      BY <2>1, <2>2, <2>3, <2>4, <2>5
         DEF UsageShape, Moves, Denied, Charged, HalfCharged, TaskReturned,
             ReturnRecorded, ReturnUnrecorded, Measured, FedAgain
<1> QED
    BY <1>1, <1>2, UsageInvariant, PTL DEF Spec

OveruseIsDenials ==
    account.overuse_count
        = Cardinality(DeniedTasks) + Cardinality(AnonymousDenials)

LEMMA DenialsFinite ==
    ASSUME UsageTypeOK
    PROVE  /\ IsFiniteSet(Denials) /\ IsFiniteSet(DeniedTasks)
           /\ IsFiniteSet(AnonymousDenials)
<1>1. events \in Seq(Event) /\ Len(events) \in Nat
    BY DEF UsageTypeOK
<1>2. IsFiniteSet(1..Len(events))
    BY <1>1, FS_Interval
<1>3. Denials \in SUBSET (1..Len(events)) /\ AnonymousDenials \in SUBSET Denials
    BY <1>1 DEF Denials, AnonymousDenials
<1>4. DeniedTasks \in SUBSET Tasks
  <2>1. \A k \in DOMAIN events : events[k] \in Event
      BY <1>1
  <2>2. \A e \in Event : e.task \in Tasks \cup {0}
      BY DEF Event, EventRecord
  <2> QED
      BY <2>1, <2>2 DEF DeniedTasks, Denials
<1> QED
    BY <1>2, <1>3, <1>4, UsageInputs, FS_Subset

LEMMA OveruseStep ==
    ASSUME UsageTypeOK, OveruseIsDenials, UsageShape PROVE OveruseIsDenials'
<1>1. account \in Account
    BY DEF UsageTypeOK
<1>2. ASSUME account'.overuse_count = account.overuse_count,
             DeniedTasks' = DeniedTasks, AnonymousDenials' = AnonymousDenials
      PROVE  OveruseIsDenials'
    BY <1>2 DEF OveruseIsDenials
<1>3. CASE events' = events /\ account'.overuse_count = account.overuse_count
    BY <1>2, <1>3 DEF DeniedTasks, AnonymousDenials, Denials
<1>4. ASSUME NEW e, Added(e), e.decision # "REJECTED",
             account'.overuse_count = account.overuse_count
      PROVE  OveruseIsDenials'
  <2>1. Denials' = Denials
      BY <1>4, AppendDomain DEF Denials
  <2>2. \A k \in Denials : events'[k].task = events[k].task
      BY <1>4, AppendDomain DEF Denials
  <2>3. DeniedTasks' = DeniedTasks /\ AnonymousDenials' = AnonymousDenials
      BY <2>1, <2>2 DEF DeniedTasks, AnonymousDenials
  <2> QED
      BY <1>2, <1>4, <2>3
<1>5. ASSUME NEW u \in Usage, Denied(u) PROVE OveruseIsDenials'
  <2> DEFINE e == ConsumeEvent(u, "REJECTED")
             k == Len(events) + 1
  <2>1. e.task = u.task /\ e.decision = "REJECTED" /\ Added(e)
      BY <1>5 DEF ConsumeEvent, Denied, Added
  <2> HIDE DEF e
  <2>2. /\ Denials' = Denials \cup {k} /\ k \notin Denials
        /\ events'[k].task = u.task
        /\ \A j \in Denials : events'[j].task = events[j].task
      BY <2>1, AppendDomain DEF Denials
  <2>3. /\ DeniedTasks' = DeniedTasks \cup ({u.task} \ {0})
        /\ AnonymousDenials'
             = AnonymousDenials \cup (IF u.task = 0 THEN {k} ELSE {})
    <3> HIDE DEF k
    <3> QED
        BY <2>2 DEF DeniedTasks, AnonymousDenials
  <2>4. account'.overuse_count = account.overuse_count + 1
      BY <1>1, <1>5 DEF Denied, Account
  <2>5. /\ IsFiniteSet(DeniedTasks) /\ Cardinality(DeniedTasks) \in Nat
        /\ IsFiniteSet(AnonymousDenials) /\ Cardinality(AnonymousDenials) \in Nat
      BY DenialsFinite, FS_CardinalityType
  <2>6. CASE u.task = 0
    <3>1. k \notin AnonymousDenials
        BY <2>2 DEF AnonymousDenials
    <3>2. Cardinality(AnonymousDenials \cup {k})
            = Cardinality(AnonymousDenials) + 1
        BY <2>5, <3>1, FS_AddElement
    <3>3. /\ DeniedTasks' = DeniedTasks
          /\ AnonymousDenials' = AnonymousDenials \cup {k}
        BY <2>3, <2>6
    <3> HIDE DEF k
    <3> QED
        BY <2>4, <2>5, <3>2, <3>3 DEF OveruseIsDenials
  <2>7. CASE u.task # 0
    <3>1. u.task \notin DeniedTasks
        BY <1>5, <2>7 DEF Denied, Recorded, DeniedTasks, Denials
    <3>2. Cardinality(DeniedTasks \cup {u.task}) = Cardinality(DeniedTasks) + 1
        BY <2>5, <3>1, FS_AddElement
    <3>3. /\ DeniedTasks' = DeniedTasks \cup {u.task}
          /\ AnonymousDenials' = AnonymousDenials
        BY <2>3, <2>7
    <3> QED
        BY <2>4, <2>5, <3>2, <3>3 DEF OveruseIsDenials
  <2> QED
      BY <2>6, <2>7
<1>6. ASSUME NEW k \in DOMAIN events, NEW n \in Usage, TaskReturned(k, n)
      PROVE  OveruseIsDenials'
  <2>1. /\ DOMAIN events' = DOMAIN events
        /\ \A j \in DOMAIN events : /\ events'[j].task = events[j].task
                                     /\ events'[j].decision = events[j].decision
      BY <1>6, ReturnDomain, ReturnKeeps
  <2>2. Denials' = Denials
      BY <2>1 DEF Denials
  <2>3. DeniedTasks' = DeniedTasks /\ AnonymousDenials' = AnonymousDenials
      BY <2>1, <2>2 DEF DeniedTasks, AnonymousDenials, Denials
  <2>4. account'.overuse_count = account.overuse_count
      BY <1>1, <1>6 DEF TaskReturned, GiveBack, Account
  <2> QED
      BY <1>2, <2>3, <2>4
<1>7. ASSUME NEW u \in Usage, Charged(u) PROVE OveruseIsDenials'
    BY <1>1, <1>4, <1>7 DEF Charged, Added, ConsumeEvent, Account
<1>8. ASSUME NEW u \in Usage, ReturnRecorded(u) PROVE OveruseIsDenials'
    BY <1>1, <1>4, <1>8 DEF ReturnRecorded, Added, ReturnEvent, GiveBack, Account
<1>9. ASSUME \/ \E u \in Usage : HalfCharged(u) \/ ReturnUnrecorded(u)
             \/ \E task \in Tasks \cup {0}, ns \in U64 :
                    Measured(task, ns) \/ FedAgain(task)
             \/ Ended \/ Unmoved
      PROVE  OveruseIsDenials'
    BY <1>1, <1>3, <1>9
       DEF Unmoved, HalfCharged, ReturnUnrecorded, Measured, FedAgain, Ended,
           GiveBack, Account
<1> QED
    BY <1>5, <1>6, <1>7, <1>8, <1>9 DEF UsageShape, Moves

(* Every denial is an overuse and is counted once: a denied task that is   *)
(* retried or returned adds nothing, and compliance rejects exactly the    *)
(* reservations that were denied something.                                *)
THEOREM EveryDenialCounts == Spec => []DenialsCounted
<1>1. Init => OveruseIsDenials
  <2>1. ASSUME Init PROVE DeniedTasks = {} /\ AnonymousDenials = {}
      BY <2>1 DEF Init, DeniedTasks, AnonymousDenials, Denials
  <2>2. ASSUME Init PROVE account.overuse_count = 0
      BY <2>2 DEF Init, EmptyAccount
  <2>3. Cardinality({}) = 0
      BY FS_EmptySet
  <2> QED
      BY <2>1, <2>2, <2>3 DEF OveruseIsDenials
<1>2. UsageInv /\ OveruseIsDenials /\ [Next]_vars => OveruseIsDenials'
    BY UsageStepShape, OveruseStep DEF UsageInv
<1>3. UsageInv /\ OveruseIsDenials => DenialsCounted
  <2> SUFFICES ASSUME UsageInv, OveruseIsDenials PROVE DenialsCounted
      OBVIOUS
  <2>1. /\ IsFiniteSet(DeniedTasks) /\ Cardinality(DeniedTasks) \in Nat
        /\ IsFiniteSet(AnonymousDenials) /\ Cardinality(AnonymousDenials) \in Nat
      BY DenialsFinite, FS_CardinalityType DEF UsageInv
  <2>2. Cardinality(DeniedTasks) = 0 <=> DeniedTasks = {}
      BY <2>1, FS_EmptySet
  <2>3. Cardinality(AnonymousDenials) = 0 <=> AnonymousDenials = {}
      BY <2>1, FS_EmptySet
  <2>4. Denials = {} <=> DeniedTasks = {} /\ AnonymousDenials = {}
      BY DEF DeniedTasks, AnonymousDenials
  <2>5. account.overuse_count = 0 <=> Denials = {}
      BY <2>1, <2>2, <2>3, <2>4 DEF OveruseIsDenials
  <2> QED
      BY <2>5 DEF DenialsCounted, OveruseIsDenials, ComplianceAction
<1> QED
    BY <1>1, <1>2, <1>3, UsageInvariant, PTL DEF Spec

-----------------------------------------------------------------------------
(* Repeated calls                                                          *)

\* What RetriesAreFree asks of the event e when a call names its task.
FreeOf(e, u) ==
    /\ out'.call = "consume" =>
         /\ UNCHANGED <<account, events>>
         /\ out'.rc = "OK" => out'.decision = e.decision
         /\ active /\ SameRecord(u, e.consumed) => out'.rc # "STATE"
    /\ out'.call = "return" /\ e.returned_set => UNCHANGED <<account, events>>

LEMMA SameRecordIsSame ==
    ASSUME lease \in Leases, NEW u \in Usage, NEW c \in Usage, SameRecord(u, c)
    PROVE  SameUsage(c, At(u, c.time))
<1>1. At(u, c.time) = [u EXCEPT !.time = c.time]
    BY DEF SameRecord, At, Usage
<1> DEFINE v == [u EXCEPT !.time = c.time]
<1>2. /\ v.time = c.time /\ v.credits = c.credits /\ v.rate = c.rate
      /\ v.baseline = c.baseline
    BY DEF SameRecord, Usage
<1> HIDE DEF v
<1> QED
    BY <1>1, <1>2 DEF SameUsage, CreditUnits, RateUnits, v

LEMMA ConsumeRepeats ==
    ASSUME UsageInv, NEW u \in Usage, Consume(u),
           NEW k \in DOMAIN events, events[k].task # 0,
           out'.usage.task = events[k].task
    PROVE  FreeOf(events[k], out'.usage)
<1>1. CASE ~active /\ Refuse("consume", u, "STATE")
    BY <1>1 DEF Refuse, Replies, FreeOf
<1>2. ASSUME active, NEW j \in Recorded(u.task), ConsumeAgain(u, events[j])
      PROVE  FreeOf(events[k], out'.usage)
  <2>0. \/ /\ ~SameUsage(events[j].consumed, At(u, events[j].consumed.time))
           /\ Replies("consume", u, "STATE", "NONE")
        \/ Replies("consume", u, "OK", events[j].decision)
        \/ Replies("consume", u, "NOMEM", "NONE")
      BY <1>2 DEF ConsumeAgain, Refuse, RepliesOrRunsOut
  <2>1. out'.usage = u /\ out'.call = "consume"
      BY <2>0 DEF Replies
  <2>2. j = k
      BY <2>1 DEF Recorded, UsageInv, OneEventEach
  <2>3. UNCHANGED <<account, events>>
      BY <1>2 DEF ConsumeAgain, Refuse
  <2>4. out'.rc = "OK" => out'.decision = events[k].decision
      BY <2>0, <2>2 DEF Replies
  <2>5. SameRecord(u, events[k].consumed) => out'.rc # "STATE"
    <3>1. events[k].consumed \in Usage /\ lease \in Leases
      <4>1. events[k] \in Event
          BY DEF UsageInv, UsageTypeOK
      <4> QED
          BY <4>1 DEF Event, EventRecord, UsageInv, UsageTypeOK
    <3>2. SameRecord(u, events[k].consumed) =>
             SameUsage(events[k].consumed, At(u, events[k].consumed.time))
        BY <3>1, SameRecordIsSame
    <3> QED
        BY <2>0, <2>2, <3>2 DEF Replies
  <2> QED
      BY <2>1, <2>3, <2>4, <2>5 DEF FreeOf
<1>3. ASSUME Recorded(u.task) = {}, NEW now \in Clock, ConsumeNew(At(u, now))
      PROVE  FALSE
  <2> DEFINE n == At(u, now)
  <2>1. n.task = u.task
      BY TimedUsage, UsageInputs
  <2> HIDE DEF n
  <2>2. out'.usage = n
      BY <1>3
         DEF ConsumeNew, Refuse, ConsumeDenied, ConsumeAccepted,
             RepliesOrRunsOut, Replies, n
  <2> QED
      BY <1>3, <2>1, <2>2 DEF Recorded
<1> QED
    BY <1>1, <1>2, <1>3 DEF Consume

LEMMA ReturnRepeats ==
    ASSUME UsageInv, NEW u \in Usage, ReturnUsage(u),
           NEW k \in DOMAIN events, events[k].task # 0,
           out'.usage.task = events[k].task
    PROVE  FreeOf(events[k], out'.usage)
<1>1. ASSUME NEW v, NEW rc, Refuse("return", v, rc)
      PROVE  FreeOf(events[k], out'.usage)
    BY <1>1 DEF Refuse, Replies, FreeOf
<1>2. ASSUME NEW j \in Recorded(u.task), ReturnNamed(u, j)
      PROVE  FreeOf(events[k], out'.usage)
  <2>1. out'.usage = u /\ out'.call = "return"
      BY <1>2 DEF ReturnNamed, Refuse, Replies
  <2>2. j = k
      BY <2>1 DEF Recorded, UsageInv, OneEventEach
  <2>3. CASE \E rc \in {"OK", "STATE"} : Refuse("return", u, rc)
      BY <1>1, <2>3
  <2>4. CASE ~events[k].returned_set
      BY <2>1, <2>4 DEF FreeOf
  <2> QED
      BY <1>2, <2>2, <2>3, <2>4 DEF ReturnNamed
<1>3. ASSUME u.task = 0, NEW now \in Clock, ReturnAnonymous(At(u, now))
      PROVE  FALSE
  <2> DEFINE n == At(u, now)
  <2>1. n.task = 0
      BY <1>3, TimedUsage, UsageInputs
  <2> HIDE DEF n
  <2>2. out'.usage = n
      BY <1>3 DEF ReturnAnonymous, Refuse, Replies, n
  <2> QED
      BY <2>1, <2>2
<1> QED
    BY <1>1, <1>2, <1>3 DEF ReturnUsage

\* Repeating, for one step.
Repeats ==
    \A k \in DOMAIN events :
        out'.usage.task # 0 /\ events[k].task = out'.usage.task =>
            FreeOf(events[k], out'.usage)

LEMMA RepeatsStep == ASSUME UsageInv, Next PROVE Repeats
<1>1. ASSUME NEW u \in Usages(lease), Consume(u) \/ ReturnUsage(u)
      PROVE  Repeats
  <2>1. u \in Usage
      BY <1>1, UsageInputs DEF UsageInv, UsageTypeOK
  <2> QED
      BY <1>1, <2>1, ConsumeRepeats, ReturnRepeats DEF Repeats
<1>2. ASSUME out'.call \in {"record_actual", "end"} PROVE Repeats
    BY <1>2 DEF Repeats, FreeOf
<1>3. ASSUME NEW a \in Actuals(lease), RecordActual(a[1], a[2])
      PROVE  out'.call = "record_actual"
    BY <1>3
       DEF RecordActual, RecordAgain, RecordNew, Feedback, Refuse, Replies
<1>4. ASSUME EndLease PROVE out'.call = "end"
    BY <1>4 DEF EndLease, Refuse, Replies
<1> QED
    BY <1>1, <1>2, <1>3, <1>4 DEF Next

(* A caller that does not know whether its call arrived can repeat it: the *)
(* account and the events stay as they are, the recorded decision is given *)
(* again, and the same record is never a conflict.                         *)
THEOREM RetriesMoveNothing == Spec => RetriesAreFree
<1> DEFINE Free == \A k \in DOMAIN events :
        LET u == out'.usage
            e == events[k]
        IN  u.task # 0 /\ e.task = u.task =>
              /\ out'.call = "consume" =>
                   /\ UNCHANGED <<account, events>>
                   /\ out'.rc = "OK" => out'.decision = e.decision
                   /\ active /\ SameRecord(u, e.consumed) => out'.rc # "STATE"
              /\ out'.call = "return" /\ e.returned_set =>
                   UNCHANGED <<account, events>>
<1>1. UsageInv /\ [Next]_vars => [Free]_vars
  <2> SUFFICES ASSUME UsageInv, Next PROVE Free
      OBVIOUS
  <2> QED
      BY RepeatsStep DEF Repeats, FreeOf
<1> QED
    BY <1>1, UsageInvariant, PTL DEF Spec, RetriesAreFree

-----------------------------------------------------------------------------
(* Measured times                                                          *)

\* A task that reported nothing has nothing to feed back.
SilentUntilReported ==
    \A t \in Tasks : ~actuals[t].reported => actuals[t] = Unreported

LearnedOnce ==
    \A t \in Tasks :
        actuals[t].learned =
            IF lease.learns /\ actuals[t].reported /\ ~actuals[t].pending
            THEN 1 ELSE 0

TotalIsMeasured == account.actual_total = SumOfActuals + unrecorded.ns

LEMMA LearnedStep ==
    ASSUME UsageTypeOK, SilentUntilReported, LearnedOnce, UsageShape
    PROVE  SilentUntilReported' /\ LearnedOnce'
<1>1. lease' = lease
    BY LeaseKept
<1>2. CASE actuals' = actuals
    BY <1>1, <1>2 DEF SilentUntilReported, LearnedOnce
<1>3. ASSUME NEW t \in Tasks, NEW r, SetActual(t, r), r.reported,
             r.learned = IF lease.learns /\ ~r.pending THEN 1 ELSE 0
      PROVE  SilentUntilReported' /\ LearnedOnce'
  <2>1. /\ actuals'[t] = r
        /\ \A s \in Tasks \ {t} : actuals'[s] = actuals[s]
      BY <1>3, UsageInputs DEF SetActual, UsageTypeOK
  <2> QED
      BY <1>1, <1>3, <2>1 DEF SilentUntilReported, LearnedOnce
<1>4. ASSUME NEW record \in Actual, record.reported, record.learned = 0,
             NEW r \in Fed(record)
      PROVE  /\ r.reported /\ r.ns = record.ns
             /\ r.learned = IF lease.learns /\ ~r.pending THEN 1 ELSE 0
  <2> DEFINE m == record.learned + (IF lease.learns THEN 1 ELSE 0)
  <2>1. m = IF lease.learns THEN 1 ELSE 0
      BY <1>4
  <2>2. \/ r = [record EXCEPT !.pending = FALSE, !.learned = m]
        \/ lease.learns /\ r = [record EXCEPT !.pending = TRUE]
      BY <1>4 DEF Fed
  <2> HIDE DEF m
  <2> QED
      BY <1>4, <2>1, <2>2 DEF Actual
<1>5. ASSUME NEW task \in Tasks \cup {0}, NEW ns \in U64, Measured(task, ns)
      PROVE  SilentUntilReported' /\ LearnedOnce'
  <2> DEFINE record == [Unreported EXCEPT !.reported = TRUE, !.ns = ns]
  <2>1. record \in Actual /\ record.reported /\ record.learned = 0
      BY EmptyTyped DEF Unreported, Actual
  <2>2. PICK r \in Fed(record) : SetActual(task, r)
      BY <1>5 DEF Measured
  <2> HIDE DEF record
  <2>3. CASE task = 0
      BY <1>2, <2>2, <2>3 DEF SetActual
  <2>4. CASE task # 0
      BY <1>3, <1>4, <2>1, <2>2, <2>4
  <2> QED
      BY <2>3, <2>4
<1>6. ASSUME NEW task \in Tasks \cup {0}, FedAgain(task)
      PROVE  SilentUntilReported' /\ LearnedOnce'
  <2>1. task \in Tasks /\ actuals[task].reported /\ actuals[task].pending
      BY <1>6 DEF FedAgain, Reported
  <2>2. actuals[task] \in Actual /\ actuals[task].learned = 0
      BY <2>1 DEF UsageTypeOK, LearnedOnce
  <2>3. PICK r \in Fed(actuals[task]) : SetActual(task, r)
      BY <1>6 DEF FedAgain
  <2> QED
      BY <1>3, <1>4, <2>1, <2>2, <2>3
<1> QED
    BY <1>2, <1>5, <1>6
       DEF UsageShape, Moves, Unmoved, Denied, Charged, HalfCharged,
           TaskReturned, ReturnRecorded, ReturnUnrecorded, Ended

(* A sum follows the one member that changes.                              *)
LEMMA UnitSumChange ==
    ASSUME NEW f, NEW g, NEW S, IsFiniteSet(S), NEW i \in S,
           f[i] \in U64, g[i] \in U64, \A j \in S \ {i} : f[j] = g[j]
    PROVE  /\ UnitSum(g, S) + f[i] = UnitSum(f, S) + g[i]
           /\ UnitSum(f, S) \in Nat /\ UnitSum(g, S) \in Nat
<1> DEFINE R == S \ {i}
<1>1. IsFiniteSet(R) /\ i \notin R /\ S = R \cup {i}
    BY FS_Subset
<1>2. UnitSum(f, R) = UnitSum(g, R) /\ UnitSum(f, R) \in Nat
    BY <1>1, UnitSumLocal, UnitsFinite
<1>3. UnitSum(f, R \cup {i}) = UnitSum(f, R) + f[i]
    BY <1>1, UnitSumAdd
<1>4. UnitSum(g, R \cup {i}) = UnitSum(g, R) + g[i]
    BY <1>1, UnitSumAdd
<1>5. f[i] \in Nat /\ g[i] \in Nat
    BY DEF U64
<1> HIDE DEF R
<1> QED
    BY <1>1, <1>2, <1>3, <1>4, <1>5

LEMMA TotalStep ==
    ASSUME UsageTypeOK, SilentUntilReported, TotalIsMeasured, UsageShape
    PROVE  TotalIsMeasured'
<1>1. account \in Account /\ unrecorded \in [credits : Nat, ns : Nat]
    BY DEF UsageTypeOK
<1> DEFINE f == [t \in Tasks |-> actuals[t].ns]
           g == [t \in Tasks |-> actuals'[t].ns]
<1>2. ASSUME account'.actual_total = account.actual_total,
             unrecorded'.ns = unrecorded.ns, g = f
      PROVE  TotalIsMeasured'
    BY <1>2 DEF TotalIsMeasured, SumOfActuals
<1>3. CASE /\ account'.actual_total = account.actual_total
           /\ unrecorded'.ns = unrecorded.ns /\ actuals' = actuals
    BY <1>2, <1>3
<1>4. ASSUME NEW task \in Tasks \cup {0}, NEW ns \in U64, Measured(task, ns)
      PROVE  TotalIsMeasured'
  <2> DEFINE record == [Unreported EXCEPT !.reported = TRUE, !.ns = ns]
  <2>1. record.ns = ns
      BY DEF Unreported
  <2>2. \A r \in Fed(record) : r.ns = ns
      BY <2>1 DEF Fed, Unreported
  <2>3. PICK r \in Fed(record) : SetActual(task, r)
      BY <1>4 DEF Measured
  <2> HIDE DEF record
  <2>4. /\ account'.actual_total = account.actual_total + ns
        /\ unrecorded'.ns = unrecorded.ns + (IF task = 0 THEN ns ELSE 0)
      BY <1>1, <1>4 DEF Measured, Account
  <2>5. /\ account.actual_total \in Nat /\ unrecorded.ns \in Nat /\ ns \in Nat
        /\ account.actual_total = UnitSum(f, Tasks) + unrecorded.ns
      BY <1>1 DEF Account, U64, TotalIsMeasured, SumOfActuals
  <2>6. UnitSum(f, Tasks) \in Nat
      BY UnitsFinite, UsageInputs
  <2>7. CASE task = 0
    <3>1. g = f
        BY <2>3, <2>7 DEF SetActual
    <3>2. UnitSum(g, Tasks) = UnitSum(f, Tasks)
        BY <3>1
    <3>3. account'.actual_total = UnitSum(g, Tasks) + unrecorded'.ns
      <4> HIDE DEF f, g
      <4> QED
          BY <2>4, <2>5, <2>6, <2>7, <3>2
    <3> QED
        BY <3>3 DEF TotalIsMeasured, SumOfActuals
  <2>8. CASE task # 0
    <3>1. actuals[task] = Unreported
        BY <1>4, <2>8 DEF Measured, Reported, SilentUntilReported
    <3>2. /\ actuals'[task] = r
          /\ \A t \in Tasks \ {task} : actuals'[t] = actuals[t]
        BY <2>3, <2>8 DEF SetActual, UsageTypeOK
    <3>3. /\ f[task] = 0 /\ g[task] = ns
          /\ \A t \in Tasks \ {task} : f[t] = g[t]
      <4>1. f[task] = Unreported.ns
          BY <2>8, <3>1
      <4>2. Unreported.ns = 0
          BY DEF Unreported
      <4> QED
          BY <2>2, <2>8, <3>2, <4>1, <4>2
    <3>4. UnitSum(g, Tasks) + 0 = UnitSum(f, Tasks) + ns
      <4> HIDE DEF f, g
      <4>1. f[task] \in U64 /\ g[task] \in U64 /\ task \in Tasks
          BY <2>8, <3>3, EmptyTyped
      <4>2. UnitSum(g, Tasks) + f[task] = UnitSum(f, Tasks) + g[task]
          BY <3>3, <4>1, UnitSumChange, UsageInputs
      <4> QED
          BY <3>3, <4>2
    <3>5. UnitSum(g, Tasks) \in Nat
        BY UnitsFinite, UsageInputs
    <3>6. account'.actual_total = UnitSum(g, Tasks) + unrecorded'.ns
      <4> HIDE DEF f, g
      <4> QED
          BY <2>4, <2>5, <2>6, <2>8, <3>4, <3>5
    <3> QED
        BY <3>6 DEF TotalIsMeasured, SumOfActuals
  <2> QED
      BY <2>7, <2>8
<1>5. ASSUME NEW task \in Tasks \cup {0}, FedAgain(task) PROVE TotalIsMeasured'
  <2>1. task \in Tasks /\ actuals[task] \in Actual
      BY <1>5, UsageInputs DEF FedAgain, Reported, UsageTypeOK
  <2>2. PICK r \in Fed(actuals[task]) : SetActual(task, r)
      BY <1>5 DEF FedAgain
  <2>3. r.ns = actuals[task].ns
      BY <2>1 DEF Fed, Actual
  <2>4. \A t \in Tasks : actuals'[t].ns = actuals[t].ns
      BY <2>1, <2>2, <2>3 DEF SetActual, UsageTypeOK
  <2>5. account' = account /\ unrecorded' = unrecorded
      BY <1>5 DEF FedAgain
  <2> QED
      BY <1>2, <2>4, <2>5
<1>6. ASSUME \/ Unmoved \/ Ended
             \/ \E u \in Usage : \/ Denied(u) \/ Charged(u) \/ HalfCharged(u)
                                 \/ ReturnRecorded(u) \/ ReturnUnrecorded(u)
             \/ \E k \in DOMAIN events, n \in Usage : TaskReturned(k, n)
      PROVE  /\ account'.actual_total = account.actual_total
             /\ unrecorded'.ns = unrecorded.ns /\ actuals' = actuals
    BY <1>1, <1>6
       DEF Account, Unmoved, Denied, Charged, HalfCharged, TaskReturned,
           ReturnRecorded, ReturnUnrecorded, GiveBack, Ended
<1> QED
    BY <1>3, <1>4, <1>5, <1>6 DEF UsageShape, Moves

(* Through every failure of the callback and every retry a measured time   *)
(* enters the total once, and an estimator that learns is fed it once.     *)
THEOREM MeasuredTimesCountOnce == Spec => []FeedbackOnce
<1> DEFINE I == SilentUntilReported /\ LearnedOnce /\ TotalIsMeasured
<1>1. Init => I
  <2> SUFFICES ASSUME Init PROVE I
      OBVIOUS
  <2>1. SilentUntilReported /\ LearnedOnce
      BY DEF Init, SilentUntilReported, LearnedOnce, Unreported
  <2>2. UnitsHeld([t \in Tasks |-> actuals[t].ns], Tasks) = {}
    <3>1. \A t \in Tasks : actuals[t].ns = 0
        BY DEF Init, Unreported
    <3> QED
        BY <3>1 DEF UnitsHeld
  <2>3. SumOfActuals = 0
      BY <2>2, FS_EmptySet DEF SumOfActuals, UnitSum
  <2>4. TotalIsMeasured
      BY <2>3 DEF Init, EmptyAccount, TotalIsMeasured
  <2> QED
      BY <2>1, <2>4
<1>2. UsageInv /\ I /\ [Next]_vars => I'
    BY UsageStepShape, LearnedStep, TotalStep DEF UsageInv
<1>3. I => FeedbackOnce
    BY DEF FeedbackOnce, LearnedOnce, TotalIsMeasured
<1> QED
    BY <1>1, <1>2, <1>3, UsageInvariant, PTL DEF Spec

-----------------------------------------------------------------------------
(* The account and the event list                                          *)

\* A reservation of credits is consumed in credits, one of rate units in
\* rate units: the calls of run overflow_leak are left out.
OneUnit(l, u) ==
    (l.rate = 0 /\ u.rate = 0) \/ (l.credits = 0 /\ u.credits = 0)

TasksNameOneUnit == \A l \in Leases : \A u \in Usages(l) : OneUnit(l, u)

CreditLedger ==
    account.credits_consumed + unrecorded.credits
        + UnitSum(CreditsRefunded, Refunds)
      = UnitSum(CreditsCharged, Charges)

RateLedger ==
    account.rate_consumed + UnitSum(RateRefunded, Refunds)
      = UnitSum(RateCharged, Charges)

Ledgers == CreditLedger /\ RateLedger

(* A sum over a set that one new member may join.                          *)
LEMMA UnitSumJoin ==
    ASSUME NEW f, NEW g, NEW S, IsFiniteSet(S), NEW i, i \notin S,
           g[i] \in U64, \A j \in S : g[j] = f[j],
           NEW T, NEW joins \in BOOLEAN, T = S \cup (IF joins THEN {i} ELSE {})
    PROVE  /\ UnitSum(g, T) = UnitSum(f, S) + (IF joins THEN g[i] ELSE 0)
           /\ UnitSum(f, S) \in Nat
<1>1. UnitSum(g, S) = UnitSum(f, S) /\ UnitSum(f, S) \in Nat
    BY UnitSumLocal, UnitsFinite
<1>2. CASE joins
  <2>1. UnitSum(g, S \cup {i}) = UnitSum(g, S) + g[i]
      BY UnitSumAdd
  <2> QED
      BY <1>1, <1>2, <2>1
<1>3. CASE ~joins
    BY <1>1, <1>3
<1> QED
    BY <1>2, <1>3

LEMMA BooksFinite ==
    ASSUME UsageTypeOK
    PROVE  IsFiniteSet(Charges) /\ IsFiniteSet(Refunds)
<1>1. events \in Seq(Event) /\ Len(events) \in Nat
    BY DEF UsageTypeOK
<1>2. IsFiniteSet(1..Len(events))
    BY <1>1, FS_Interval
<1>3. Charges \in SUBSET (1..Len(events)) /\ Refunds \in SUBSET (1..Len(events))
    BY <1>1 DEF Charges, Refunds
<1> QED
    BY <1>2, <1>3, FS_Subset

\* What an event says was charged and refunded.
ChargeOf(e) == [credits |-> IF e.consumed_set THEN CreditUnits(e.consumed) ELSE 0,
                rate |-> IF e.consumed_set THEN RateUnits(e.consumed) ELSE 0]
RefundOf(e) == [credits |-> IF e.returned_set THEN CreditUnits(e.returned) ELSE 0,
                rate |-> IF e.returned_set THEN RateUnits(e.returned) ELSE 0]

\* The four sums move by what the charge c and the refund r say.
BooksMove(c, r) ==
    /\ UnitSum(CreditsCharged, Charges)'
         = UnitSum(CreditsCharged, Charges) + c.credits
    /\ UnitSum(RateCharged, Charges)' = UnitSum(RateCharged, Charges) + c.rate
    /\ UnitSum(CreditsRefunded, Refunds)'
         = UnitSum(CreditsRefunded, Refunds) + r.credits
    /\ UnitSum(RateRefunded, Refunds)' = UnitSum(RateRefunded, Refunds) + r.rate

Nothing == [credits |-> 0, rate |-> 0]

LEMMA BooksStay ==
    ASSUME UsageTypeOK, events' = events, lease' = lease
    PROVE  BooksMove(Nothing, Nothing)
<1>1. /\ UnitSum(CreditsCharged, Charges) \in Nat
      /\ UnitSum(RateCharged, Charges) \in Nat
      /\ UnitSum(CreditsRefunded, Refunds) \in Nat
      /\ UnitSum(RateRefunded, Refunds) \in Nat
    BY BooksFinite, UnitsFinite
<1>2. Charges' = Charges /\ Refunds' = Refunds
    BY DEF Charges, Refunds
<1>3. /\ CreditsCharged' = CreditsCharged /\ RateCharged' = RateCharged
      /\ CreditsRefunded' = CreditsRefunded /\ RateRefunded' = RateRefunded
    BY DEF CreditsCharged, RateCharged, CreditsRefunded, RateRefunded,
           CreditUnits, RateUnits
<1>4. Nothing.credits = 0 /\ Nothing.rate = 0
    BY DEF Nothing
<1> QED
    BY <1>1, <1>2, <1>3, <1>4 DEF BooksMove

LEMMA BooksGrow ==
    ASSUME UsageTypeOK, lease' = lease, NEW e \in Event, Added(e)
    PROVE  BooksMove(ChargeOf(e), RefundOf(e))
<1> DEFINE k == Len(events) + 1
           c == e.consumed_set
           r == e.returned_set
<1>1. /\ DOMAIN events' = DOMAIN events \cup {k} /\ k \notin DOMAIN events
      /\ events'[k] = e
      /\ \A j \in DOMAIN events : events'[j] = events[j]
    BY AppendDomain
<1>2. c \in BOOLEAN /\ r \in BOOLEAN
      /\ e.consumed \in Usage /\ e.returned \in Usage
    BY DEF Event, EventRecord
<1>3. /\ CreditUnits(e.consumed) \in U64 /\ RateUnits(e.consumed) \in U64
      /\ CreditUnits(e.returned) \in U64 /\ RateUnits(e.returned) \in U64
    BY <1>2, UnitsTyped DEF UsageTypeOK
<1> HIDE DEF k
<1>4. /\ Charges' = Charges \cup (IF c THEN {k} ELSE {})
      /\ Refunds' = Refunds \cup (IF r THEN {k} ELSE {})
      /\ k \notin Charges /\ k \notin Refunds
    BY <1>1 DEF Charges, Refunds
<1>5. /\ \A j \in Charges : /\ CreditsCharged'[j] = CreditsCharged[j]
                             /\ RateCharged'[j] = RateCharged[j]
      /\ \A j \in Refunds : /\ CreditsRefunded'[j] = CreditsRefunded[j]
                             /\ RateRefunded'[j] = RateRefunded[j]
    BY <1>1, UnitsKept
       DEF Charges, Refunds, CreditsCharged, RateCharged, CreditsRefunded,
           RateRefunded, CreditUnits, RateUnits
<1>6. /\ CreditsCharged'[k] = CreditUnits(e.consumed)
      /\ RateCharged'[k] = RateUnits(e.consumed)
      /\ CreditsRefunded'[k] = CreditUnits(e.returned)
      /\ RateRefunded'[k] = RateUnits(e.returned)
    BY <1>1, UnitsKept
       DEF CreditsCharged, RateCharged, CreditsRefunded, RateRefunded,
           CreditUnits, RateUnits
<1>7. UnitSum(CreditsCharged', Charges')
        = UnitSum(CreditsCharged, Charges)
            + (IF c THEN CreditUnits(e.consumed) ELSE 0)
    BY <1>2, <1>3, <1>4, <1>5, <1>6, BooksFinite, UnitSumJoin
<1>8. UnitSum(RateCharged', Charges')
        = UnitSum(RateCharged, Charges)
            + (IF c THEN RateUnits(e.consumed) ELSE 0)
    BY <1>2, <1>3, <1>4, <1>5, <1>6, BooksFinite, UnitSumJoin
<1>9. UnitSum(CreditsRefunded', Refunds')
        = UnitSum(CreditsRefunded, Refunds)
            + (IF r THEN CreditUnits(e.returned) ELSE 0)
    BY <1>2, <1>3, <1>4, <1>5, <1>6, BooksFinite, UnitSumJoin
<1>10. UnitSum(RateRefunded', Refunds')
        = UnitSum(RateRefunded, Refunds)
            + (IF r THEN RateUnits(e.returned) ELSE 0)
    BY <1>2, <1>3, <1>4, <1>5, <1>6, BooksFinite, UnitSumJoin
<1> QED
    BY <1>7, <1>8, <1>9, <1>10 DEF BooksMove, ChargeOf, RefundOf

LEMMA BooksReturn ==
    ASSUME UsageTypeOK, NEW k \in DOMAIN events, NEW n \in Usage,
           TaskReturned(k, n)
    PROVE  BooksMove(Nothing,
                     [credits |-> CreditUnits(n), rate |-> RateUnits(n)])
<1> DEFINE e == [events[k] EXCEPT !.returned = n, !.returned_set = TRUE]
<1>1. /\ DOMAIN events' = DOMAIN events /\ events'[k] = e /\ events[k] \in Event
      /\ \A j \in DOMAIN events \ {k} : events'[j] = events[j]
      /\ \A j \in DOMAIN events :
            /\ events'[j].consumed = events[j].consumed
            /\ events'[j].consumed_set = events[j].consumed_set
    BY ReturnDomain, ReturnKeeps
<1>2. e.returned = n /\ e.returned_set /\ lease' = lease
    BY <1>1 DEF Event, EventRecord, TaskReturned
<1> HIDE DEF e
<1>3. ~events[k].returned_set
    BY DEF TaskReturned
<1>4. Charges' = Charges
    BY <1>1 DEF Charges
<1>5. Refunds' = Refunds \cup {k} /\ k \notin Refunds
    BY <1>1, <1>2, <1>3 DEF Refunds
<1>6. \A j \in Charges : /\ CreditsCharged'[j] = CreditsCharged[j]
                          /\ RateCharged'[j] = RateCharged[j]
    BY <1>1, <1>2
       DEF Charges, CreditsCharged, RateCharged, CreditUnits, RateUnits
<1>7. \A j \in Refunds : /\ CreditsRefunded'[j] = CreditsRefunded[j]
                          /\ RateRefunded'[j] = RateRefunded[j]
  <2>1. \A j \in Refunds : j \in DOMAIN events /\ events'[j] = events[j]
      BY <1>1, <1>5 DEF Refunds
  <2> QED
      BY <1>1, <1>2, <2>1
         DEF CreditsRefunded, RateRefunded, CreditUnits, RateUnits
<1>8. /\ CreditsRefunded'[k] = CreditUnits(n)
      /\ RateRefunded'[k] = RateUnits(n)
    BY <1>1, <1>2 DEF CreditsRefunded, RateRefunded, CreditUnits, RateUnits
<1>9. CreditUnits(n) \in U64 /\ RateUnits(n) \in U64
    BY UnitsTyped DEF UsageTypeOK
<1>10. /\ UnitSum(CreditsCharged', Charges') = UnitSum(CreditsCharged, Charges)
       /\ UnitSum(RateCharged', Charges') = UnitSum(RateCharged, Charges)
       /\ UnitSum(CreditsCharged, Charges) \in Nat
       /\ UnitSum(RateCharged, Charges) \in Nat
    BY <1>4, <1>6, BooksFinite, UnitSumLocal, UnitsFinite
<1>11. UnitSum(CreditsRefunded', Refunds')
         = UnitSum(CreditsRefunded, Refunds) + CreditUnits(n)
  <2>1. UnitSum(CreditsRefunded', Refunds) = UnitSum(CreditsRefunded, Refunds)
      BY <1>7, UnitSumLocal
  <2>2. UnitSum(CreditsRefunded', Refunds \cup {k})
          = UnitSum(CreditsRefunded', Refunds) + CreditsRefunded'[k]
      BY <1>5, <1>8, <1>9, BooksFinite, UnitSumAdd
  <2> QED
      BY <1>5, <1>8, <2>1, <2>2
<1>12. UnitSum(RateRefunded', Refunds')
         = UnitSum(RateRefunded, Refunds) + RateUnits(n)
  <2>1. UnitSum(RateRefunded', Refunds) = UnitSum(RateRefunded, Refunds)
      BY <1>7, UnitSumLocal
  <2>2. UnitSum(RateRefunded', Refunds \cup {k})
          = UnitSum(RateRefunded', Refunds) + RateRefunded'[k]
      BY <1>5, <1>8, <1>9, BooksFinite, UnitSumAdd
  <2> QED
      BY <1>5, <1>8, <2>1, <2>2
<1> QED
    BY <1>10, <1>11, <1>12 DEF BooksMove, Nothing

\* The account moves by what the charge c and the refund r say.
AccountMoves(c, r) ==
    /\ account'.credits_consumed + unrecorded'.credits + r.credits
         = account.credits_consumed + unrecorded.credits + c.credits
    /\ account'.rate_consumed + r.rate = account.rate_consumed + c.rate

\* What a charge and a refund are.
Units == [credits : Nat, rate : Nat]

LEMMA LedgersMove ==
    ASSUME UsageTypeOK, UsageTypeOK', Ledgers, NEW c \in Units, NEW r \in Units,
           BooksMove(c, r), AccountMoves(c, r)
    PROVE  Ledgers'
<1>1. /\ UnitSum(CreditsCharged, Charges) \in Nat
      /\ UnitSum(RateCharged, Charges) \in Nat
      /\ UnitSum(CreditsRefunded, Refunds) \in Nat
      /\ UnitSum(RateRefunded, Refunds) \in Nat
    BY BooksFinite, UnitsFinite
<1>2. /\ account.credits_consumed \in Nat /\ account'.credits_consumed \in Nat
      /\ account.rate_consumed \in Nat /\ account'.rate_consumed \in Nat
      /\ unrecorded.credits \in Nat /\ unrecorded'.credits \in Nat
    BY DEF UsageTypeOK, Account, U64
<1>3. /\ c.credits \in Nat /\ c.rate \in Nat /\ r.credits \in Nat /\ r.rate \in Nat
    BY DEF Units
<1>4. CreditLedger'
    BY <1>1, <1>2, <1>3
       DEF BooksMove, AccountMoves, Ledgers, CreditLedger
<1>5. RateLedger'
    BY <1>1, <1>2, <1>3 DEF BooksMove, AccountMoves, Ledgers, RateLedger
<1> QED
    BY <1>4, <1>5 DEF Ledgers

LEMMA UnitsAreNat ==
    ASSUME UsageTypeOK, NEW u \in Usage
    PROVE  /\ CreditUnits(u) \in Nat /\ RateUnits(u) \in Nat
           /\ [credits |-> CreditUnits(u), rate |-> RateUnits(u)] \in Units
           /\ Nothing \in Units
BY UnitsTyped DEF UsageTypeOK, U64, Units, Nothing

LEMMA AccountIsNat ==
    ASSUME UsageTypeOK, UsageTypeOK'
    PROVE  /\ account.credits_consumed \in Nat /\ account'.credits_consumed \in Nat
           /\ account.rate_consumed \in Nat /\ account'.rate_consumed \in Nat
           /\ unrecorded.credits \in Nat /\ unrecorded'.credits \in Nat
BY DEF UsageTypeOK, Account, U64

(* A refund leaves the account smaller by what it gives back.              *)
LEMMA GiveBackMoves ==
    ASSUME UsageTypeOK, NEW u \in Usage, GiveBack(u)
    PROVE  /\ account'.credits_consumed + CreditUnits(u)
                = account.credits_consumed
           /\ account'.rate_consumed + RateUnits(u) = account.rate_consumed
<1>1. CreditUnits(u) \in Nat /\ RateUnits(u) \in Nat
    BY UnitsAreNat
<1>2. /\ account'.credits_consumed = account.credits_consumed - CreditUnits(u)
      /\ account'.rate_consumed = account.rate_consumed - RateUnits(u)
    BY DEF GiveBack, UsageTypeOK, Account
<1>3. account.credits_consumed \in Nat /\ account.rate_consumed \in Nat
    BY DEF UsageTypeOK, Account, U64
<1> QED
    BY <1>1, <1>2, <1>3

LEMMA HalfChargeIsNone ==
    ASSUME UsageTypeOK, TasksNameOneUnit, NEW u \in Usage, HalfCharged(u)
    PROVE  account' = account
<1>1. lease \in Lease
    BY UsageInputs DEF UsageTypeOK
<1>2. (lease.rate = 0 /\ u.rate = 0) \/ (lease.credits = 0 /\ u.credits = 0)
    BY DEF HalfCharged, Offered, TasksNameOneUnit, OneUnit, UsageTypeOK
<1>3. CASE lease.rate = 0 /\ u.rate = 0
  <2>1. RateUnits(u) = 0
      BY <1>3 DEF RateUnits
  <2>2. account.rate_consumed \in U64
      BY DEF UsageTypeOK, Account
  <2>3. ~AddOverflows(account.rate_consumed, 0)
      BY <2>2, WidthAssumption DEF AddOverflows, U64
  <2> QED
      BY <2>1, <2>3 DEF HalfCharged
<1>4. CASE lease.credits = 0 /\ u.credits = 0
  <2>1. CreditUnits(u) = 0
      BY <1>4 DEF CreditUnits
  <2> DEFINE n == account.credits_consumed + 0
  <2>2. n = account.credits_consumed
      BY DEF UsageTypeOK, Account, U64
  <2>3. account' = [account EXCEPT !.credits_consumed = n]
      BY <2>1 DEF HalfCharged
  <2> HIDE DEF n
  <2> QED
      BY <2>2, <2>3 DEF UsageTypeOK, Account
<1> QED
    BY <1>2, <1>3, <1>4

LEMMA LedgerStep ==
    ASSUME UsageTypeOK, UsageTypeOK', Ledgers, TasksNameOneUnit, UsageShape
    PROVE  Ledgers'
<1>1. lease' = lease
    BY LeaseKept
<1>2. ASSUME events' = events, unrecorded'.credits = unrecorded.credits,
             account'.credits_consumed = account.credits_consumed,
             account'.rate_consumed = account.rate_consumed
      PROVE  Ledgers'
  <2>1. BooksMove(Nothing, Nothing)
      BY <1>1, <1>2, BooksStay
  <2>2. AccountMoves(Nothing, Nothing)
      BY <1>2 DEF AccountMoves, Nothing
  <2>3. Nothing \in Units
      BY DEF Nothing, Units
  <2> QED
      BY <2>1, <2>2, <2>3, LedgersMove
<1>3. ASSUME NEW u \in Usage, Denied(u) PROVE Ledgers'
  <2> DEFINE e == ConsumeEvent(u, "REJECTED")
  <2>1. /\ e \in Event /\ Added(e)
        /\ ChargeOf(e) = Nothing /\ RefundOf(e) = Nothing
      BY <1>3, EmptyTyped
         DEF Denied, Added, ConsumeEvent, Event, EventRecord,
             Usage, ChargeOf, RefundOf,
             Nothing
  <2>2. BooksMove(Nothing, Nothing)
      BY <1>1, <2>1, BooksGrow
  <2>3. AccountMoves(Nothing, Nothing)
      BY <1>3 DEF Denied, AccountMoves, Nothing, UsageTypeOK, Account
  <2> QED
      BY <2>2, <2>3, LedgersMove, UnitsAreNat
<1>4. ASSUME NEW u \in Usage, Charged(u) PROVE Ledgers'
  <2> DEFINE e == ConsumeEvent(u, "ACCEPTED")
             c == [credits |-> CreditUnits(u), rate |-> RateUnits(u)]
  <2>1. /\ e \in Event /\ Added(e)
        /\ ChargeOf(e) = c /\ RefundOf(e) = Nothing
      BY <1>4, EmptyTyped
         DEF Charged, Added, ConsumeEvent, Event, EventRecord,
             Usage, ChargeOf, RefundOf,
             Nothing
  <2>2. BooksMove(c, Nothing)
      BY <1>1, <2>1, BooksGrow
  <2>3. AccountMoves(c, Nothing)
    <3>1. /\ account'.credits_consumed
               = account.credits_consumed + CreditUnits(u)
          /\ account'.rate_consumed = account.rate_consumed + RateUnits(u)
          /\ unrecorded' = unrecorded
        BY <1>4 DEF Charged, UsageTypeOK, Account
    <3>2. CreditUnits(u) \in Nat /\ RateUnits(u) \in Nat
        BY UnitsAreNat
    <3>3. Nothing.credits = 0 /\ Nothing.rate = 0
        BY DEF Nothing
    <3> QED
        BY <3>1, <3>2, <3>3, AccountIsNat DEF AccountMoves
  <2> QED
      BY <2>2, <2>3, LedgersMove, UnitsAreNat
<1>5. ASSUME NEW u \in Usage, HalfCharged(u) PROVE Ledgers'
    BY <1>2, <1>5, HalfChargeIsNone DEF HalfCharged
<1>6. ASSUME NEW k \in DOMAIN events, NEW n \in Usage, TaskReturned(k, n)
      PROVE  Ledgers'
  <2> DEFINE r == [credits |-> CreditUnits(n), rate |-> RateUnits(n)]
  <2>1. BooksMove(Nothing, r)
      BY <1>6, BooksReturn
  <2>2. AccountMoves(Nothing, r)
    <3>1. unrecorded' = unrecorded /\ GiveBack(n)
        BY <1>6 DEF TaskReturned
    <3>2. CreditUnits(n) \in Nat /\ RateUnits(n) \in Nat
        BY UnitsAreNat
    <3>3. Nothing.credits = 0 /\ Nothing.rate = 0
        BY DEF Nothing
    <3>4. /\ account'.credits_consumed + CreditUnits(n)
               = account.credits_consumed
          /\ account'.rate_consumed + RateUnits(n) = account.rate_consumed
        BY <3>1, GiveBackMoves
    <3> QED
        BY <3>1, <3>2, <3>3, <3>4, AccountIsNat DEF AccountMoves
  <2> QED
      BY <2>1, <2>2, LedgersMove, UnitsAreNat
<1>7. ASSUME NEW u \in Usage, ReturnRecorded(u) PROVE Ledgers'
  <2> DEFINE e == ReturnEvent(u)
             r == [credits |-> CreditUnits(u), rate |-> RateUnits(u)]
  <2>1. /\ e \in Event /\ Added(e)
        /\ ChargeOf(e) = Nothing /\ RefundOf(e) = r
      BY <1>7, EmptyTyped
         DEF ReturnRecorded, Added, ReturnEvent, Event,
             EventRecord, Usage, ChargeOf,
             RefundOf, Nothing
  <2>2. BooksMove(Nothing, r)
      BY <1>1, <2>1, BooksGrow
  <2>3. AccountMoves(Nothing, r)
    <3>1. unrecorded' = unrecorded /\ GiveBack(u)
        BY <1>7 DEF ReturnRecorded
    <3>2. CreditUnits(u) \in Nat /\ RateUnits(u) \in Nat
        BY UnitsAreNat
    <3>3. Nothing.credits = 0 /\ Nothing.rate = 0
        BY DEF Nothing
    <3>4. /\ account'.credits_consumed + CreditUnits(u)
               = account.credits_consumed
          /\ account'.rate_consumed + RateUnits(u) = account.rate_consumed
        BY <3>1, GiveBackMoves
    <3> QED
        BY <3>1, <3>2, <3>3, <3>4, AccountIsNat DEF AccountMoves
  <2> QED
      BY <2>2, <2>3, LedgersMove, UnitsAreNat
<1>8. ASSUME NEW u \in Usage, ReturnUnrecorded(u) PROVE Ledgers'
  <2>1. BooksMove(Nothing, Nothing)
      BY <1>1, <1>8, BooksStay DEF ReturnUnrecorded
  <2>2. /\ unrecorded'.credits = unrecorded.credits + CreditUnits(u)
        /\ RateUnits(u) = 0 /\ GiveBack(u)
      BY <1>8 DEF ReturnUnrecorded, UsageTypeOK
  <2>3. CreditUnits(u) \in Nat /\ RateUnits(u) \in Nat
      BY UnitsAreNat
  <2>4. AccountMoves(Nothing, Nothing)
    <3>1. Nothing.credits = 0 /\ Nothing.rate = 0
        BY DEF Nothing
    <3>2. /\ account'.credits_consumed + CreditUnits(u)
               = account.credits_consumed
          /\ account'.rate_consumed + RateUnits(u) = account.rate_consumed
        BY <2>2, GiveBackMoves
    <3> QED
        BY <2>2, <2>3, <3>1, <3>2, AccountIsNat DEF AccountMoves
  <2> QED
      BY <2>1, <2>4, LedgersMove, UnitsAreNat
<1>9. ASSUME \/ Unmoved \/ Ended
             \/ \E task \in Tasks \cup {0}, ns \in U64 :
                    Measured(task, ns) \/ FedAgain(task)
      PROVE  Ledgers'
  <2>1. /\ events' = events /\ unrecorded'.credits = unrecorded.credits
        /\ account'.credits_consumed = account.credits_consumed
        /\ account'.rate_consumed = account.rate_consumed
      BY <1>9
         DEF Unmoved, Ended, Measured, FedAgain, UsageTypeOK, Account
  <2> QED
      BY <1>2, <2>1
<1> QED
    BY <1>3, <1>4, <1>5, <1>6, <1>7, <1>8, <1>9 DEF UsageShape, Moves

(* The account says of every reservation what its events add up to: what   *)
(* was charged, less what was returned.  A call that was refused, or came  *)
(* again, moved neither.  It needs calls that name one unit: a rate that   *)
(* overflows leaves the credits of the call behind.                        *)
THEOREM AccountFollowsEvents ==
    ASSUME TasksNameOneUnit PROVE Spec => []LedgerBalances
<1>1. Init => Ledgers
  <2> SUFFICES ASSUME Init PROVE Ledgers
      OBVIOUS
  <2>1. Charges = {} /\ Refunds = {}
      BY DEF Init, Charges, Refunds
  <2>2. /\ UnitSum(CreditsCharged, {}) = 0 /\ UnitSum(RateCharged, {}) = 0
        /\ UnitSum(CreditsRefunded, {}) = 0 /\ UnitSum(RateRefunded, {}) = 0
      BY UnitSumEmpty
  <2>3. /\ account.credits_consumed = 0 /\ account.rate_consumed = 0
        /\ unrecorded.credits = 0
      BY DEF Init, EmptyAccount
  <2> QED
      BY <2>1, <2>2, <2>3 DEF Ledgers, CreditLedger, RateLedger
<1>2. UsageInv /\ Ledgers /\ [Next]_vars => Ledgers'
    BY UsageStepShape, UsageTypeStep, LedgerStep DEF UsageInv
<1>3. Ledgers => LedgerBalances
    BY DEF Ledgers, CreditLedger, RateLedger, LedgerBalances
<1> QED
    BY <1>1, <1>2, <1>3, UsageInvariant, PTL DEF Spec

-----------------------------------------------------------------------------
(* Failed calls                                                            *)

\* FailedCallsMoveNothing, for one step.
Undone ==
    /\ out'.rc \in {"STATE", "INVAL", "CALLBACK"} =>
            UNCHANGED <<active, account, events, actuals, unrecorded>>
    /\ out'.rc = "NOMEM" =>
            /\ UNCHANGED <<active, actuals, unrecorded>>
            /\ \/ UNCHANGED <<account, events>>
               \/ /\ out'.call = "consume"
                  /\ Len(events') = Len(events) + 1
                  /\ Last(events').consumed = out'.usage

LEMMA UnmovedIsUndone == ASSUME Unmoved PROVE Undone
BY DEF Unmoved, Undone

(* An event that was inserted is found by the retry.                       *)
LEMMA InsertedIsUndone ==
    ASSUME UsageTypeOK, NEW u, NEW decision,
           events' = Append(events, ConsumeEvent(u, decision)),
           RepliesOrRunsOut(u, decision),
           UNCHANGED <<active, actuals, unrecorded>>
    PROVE  Undone
<1> DEFINE e == ConsumeEvent(u, decision)
<1>1. e.consumed = u
    BY DEF ConsumeEvent
<1>2. events \in Seq(Event) /\ events' = Append(events, e)
    BY DEF UsageTypeOK
<1> HIDE DEF e
<1>3. Len(events') = Len(events) + 1 /\ events'[Len(events')] = e
    BY <1>2
<1>4. /\ out'.call = "consume" /\ out'.usage = u
      /\ out'.rc \in {"OK", "NOMEM"}
    BY DEF RepliesOrRunsOut, Replies
<1> QED
    BY <1>1, <1>3, <1>4 DEF Undone, Last

LEMMA ConsumeUndone ==
    ASSUME UsageTypeOK, TasksNameOneUnit,
           NEW u \in Usage, u \in Usages(lease), Consume(u)
    PROVE  Undone
<1>1. CASE Refuse("consume", u, "STATE")
    BY <1>1, RefusalMovesNothing, UnmovedIsUndone
<1>2. ASSUME NEW k \in Recorded(u.task), ConsumeAgain(u, events[k])
      PROVE  Undone
    BY <1>2, RefusalMovesNothing, UnmovedIsUndone DEF ConsumeAgain, Unmoved
<1>3. ASSUME NEW now \in Clock, ConsumeNew(At(u, now)) PROVE Undone
  <2> DEFINE n == At(u, now)
  <2>1. n \in Usage /\ Offered(n)
      BY TimedUsage, UsageInputs DEF Offered
  <2> HIDE DEF n
  <2>2. CASE Refuse("consume", n, "CALLBACK") \/ Refuse("consume", n, "NOMEM")
      BY <2>2, RefusalMovesNothing, UnmovedIsUndone
  <2>3. CASE /\ ConsumeDenied(n)
             /\ UNCHANGED <<lease, active, actuals, unrecorded>>
      BY <2>3, InsertedIsUndone DEF ConsumeDenied, Record
  <2>4. CASE /\ "ACCEPTED" \in UsageDecisions(n)
             /\ ConsumeAccepted(n)
             /\ UNCHANGED <<lease, active, actuals, unrecorded>>
    <3>1. CASE UNCHANGED <<account, events>>
        BY <2>4, <3>1, UnmovedIsUndone DEF Unmoved
    <3>2. CASE HalfCharged(n)
        BY <2>1, <3>2, HalfChargeIsNone, UnmovedIsUndone
           DEF HalfCharged, Unmoved
    <3>3. CASE /\ Record(ConsumeEvent(n, "ACCEPTED"))
               /\ RepliesOrRunsOut(n, "ACCEPTED")
        BY <2>4, <3>3, InsertedIsUndone DEF Record
    <3> QED
        BY <2>1, <2>4, <3>1, <3>2, <3>3, UnitsUndone
           DEF ConsumeAccepted, HalfCharged, Chargeable
  <2> QED
      BY <1>3, <2>2, <2>3, <2>4 DEF ConsumeNew, n
<1> QED
    BY <1>1, <1>2, <1>3 DEF Consume

LEMMA ReturnFailureUndone ==
    ASSUME UsageTypeOK, NEW u \in Usage, ReturnUsage(u) PROVE Undone
<1>1. ASSUME NEW v, NEW rc, Refuse("return", v, rc) PROVE Undone
    BY <1>1, RefusalMovesNothing, UnmovedIsUndone
<1>2. ASSUME NEW k \in Recorded(u.task), ReturnNamed(u, k) PROVE Undone
  <2> DEFINE n == At(u, events[k].consumed.time)
  <2>1. k \in DOMAIN events /\ events[k] \in Event
      BY DEF Recorded, UsageTypeOK
  <2> HIDE DEF n
  <2>2. CASE \E rc : Refuse("return", u, rc)
      BY <1>1, <2>2
  <2>3. CASE out'.rc = "OK"
      BY <2>3 DEF Undone
  <2>4. CASE /\ ~events[k].returned_set
             /\ events' = [events EXCEPT
                            ![k] = ClearedReturn(StoredReturn(events[k], n))]
             /\ UNCHANGED <<lease, active, account, actuals, unrecorded>>
    <3>1. events' = events
        BY <2>1, <2>4, ReturnUndone DEF UsageTypeOK
    <3> QED
        BY <2>4, <3>1, UnmovedIsUndone DEF Unmoved
  <2>5. ReturnNamed(u, k)
      BY <1>2
  <2> QED
      BY <2>1, <2>2, <2>3, <2>4, <2>5 DEF ReturnNamed, Replies, n
<1>3. ASSUME NEW now \in Clock, ReturnAnonymous(At(u, now)) PROVE Undone
  <2> DEFINE n == At(u, now)
  <2>1. CASE \E rc : Refuse("return", n, rc)
      BY <1>1, <2>1
  <2>2. CASE out'.rc = "OK"
      BY <2>2 DEF Undone
  <2>3. ReturnAnonymous(n)
      BY <1>3
  <2> HIDE DEF n
  <2> QED
      BY <2>1, <2>2, <2>3 DEF ReturnAnonymous, Replies
<1> QED
    BY <1>1, <1>2, <1>3 DEF ReturnUsage

LEMMA UndoneStep ==
    ASSUME UsageTypeOK, TasksNameOneUnit, Next PROVE Undone
<1>1. ASSUME NEW u \in Usages(lease), Consume(u) \/ ReturnUsage(u)
      PROVE  Undone
  <2>1. u \in Usage
      BY <1>1, UsageInputs DEF UsageTypeOK
  <2> QED
      BY <1>1, <2>1, ConsumeUndone, ReturnFailureUndone
<1>2. ASSUME NEW v, NEW call, NEW rc, Refuse(call, v, rc) PROVE Undone
    BY <1>2, RefusalMovesNothing, UnmovedIsUndone
<1>3. CASE out'.rc \in {"OK", "ESTIMATOR"}
    BY <1>3 DEF Undone
<1>4. ASSUME NEW a \in Actuals(lease), RecordActual(a[1], a[2]) PROVE Undone
  <2>1. \/ \E rc : Refuse("record_actual", Of(a[1]), rc)
        \/ out'.rc \in {"OK", "ESTIMATOR"}
      BY <1>4 DEF RecordActual, RecordAgain, RecordNew, Feedback, Replies
  <2> QED
      BY <1>2, <1>3, <2>1
<1>5. ASSUME EndLease PROVE Undone
  <2>1. CASE /\ account' = Unfinalised(Finalised(account), account)
             /\ UNCHANGED <<lease, active, events, actuals, unrecorded>>
      BY <2>1, FinalUndone, UnmovedIsUndone DEF Unmoved
  <2> QED
      BY <1>3, <1>5, <2>1 DEF EndLease, Replies
<1> QED
    BY <1>1, <1>4, <1>5 DEF Next

(* Where tasks name one unit, a call that reports an error has undone what *)
(* it did: the units it added before the event could not be inserted, the  *)
(* return it stored and the final account it computed before the policy    *)
(* refused.  Only a caller who cannot be told the decision has moved the   *)
(* account, and his event is on record.                                    *)
THEOREM FailuresAreUndone ==
    ASSUME TasksNameOneUnit PROVE Spec => FailedCallsMoveNothing
<1> DEFINE Clean ==
       /\ out'.rc \in {"STATE", "INVAL", "CALLBACK"} =>
            UNCHANGED <<active, account, events, actuals, unrecorded>>
       /\ out'.rc = "NOMEM" =>
            /\ UNCHANGED <<active, actuals, unrecorded>>
            /\ \/ UNCHANGED <<account, events>>
               \/ /\ out'.call = "consume"
                  /\ Len(events') = Len(events) + 1
                  /\ Last(events').consumed = out'.usage
<1>1. UsageInv /\ [Next]_vars => [Clean]_vars
    BY UndoneStep DEF Undone, UsageInv
<1> QED
    BY <1>1, UsageInvariant, PTL DEF Spec, FailedCallsMoveNothing

-----------------------------------------------------------------------------
(* The envelope of credits                                                 *)

(* A charge is at most what the policy was asked for.                      *)
LEMMA ChargeWasRequested ==
    ASSUME UsageTypeOK, NEW u \in Usage
    PROVE  /\ Requested(u.credits, u) \in U64
           /\ CreditUnits(u) <= Requested(u.credits, u)
BY WidthAssumption DEF Usage, U64, Requested, CreditUnits

LEMMA CreditEnvelopeStep ==
    ASSUME UsageTypeOK, CreditEnvelope, UsageShape PROVE CreditEnvelope'
<1>1. lease' = lease /\ lease \in Lease
    BY LeaseKept, UsageInputs DEF UsageTypeOK
<1>2. /\ account \in Account /\ account.credits_consumed \in U64
      /\ lease.credits \in U64
    BY <1>1 DEF UsageTypeOK, Account, Lease
<1>3. ASSUME NEW n \in Int, n <= account.credits_consumed,
             account'.credits_consumed = n
      PROVE  CreditEnvelope'
    BY <1>1, <1>2, <1>3 DEF CreditEnvelope, U64
<1>4. ASSUME NEW u \in Usage, Chargeable(u),
             account'.credits_consumed
                = account.credits_consumed + CreditUnits(u)
      PROVE  CreditEnvelope'
  <2> DEFINE c == account.credits_consumed
             q == Requested(u.credits, u)
  <2>1. q \in U64 /\ CreditUnits(u) \in U64 /\ CreditUnits(u) <= q
      BY ChargeWasRequested, UnitsTyped DEF UsageTypeOK
  <2>2. CASE lease.kind = "credit"
    <3>1. SatAdd(c, q) <= lease.credits
        BY <1>4, <2>2 DEF Chargeable, UsageDecisions, CreditFits, Fits
    <3>2. c + CreditUnits(u) \in U64
        BY <1>2, <1>4, <2>1, SumTyped DEF Chargeable
    <3> HIDE DEF q
    <3>3. c + CreditUnits(u) <= lease.credits
        BY <1>2, <2>1, <3>1, <3>2, WidthAssumption
           DEF SatAdd, AddOverflows, U64
    <3> QED
        BY <1>1, <1>4, <3>3 DEF CreditEnvelope
  <2>3. CASE lease.kind # "credit"
      BY <1>1, <2>3 DEF CreditEnvelope
  <2> QED
      BY <2>2, <2>3
<1>5. ASSUME NEW u \in Usage, Charged(u) \/ HalfCharged(u)
      PROVE  CreditEnvelope'
    BY <1>2, <1>4, <1>5 DEF Charged, HalfCharged, Account
<1>6. ASSUME NEW u \in Usage, GiveBack(u) PROVE CreditEnvelope'
  <2>1. account'.credits_consumed = account.credits_consumed - CreditUnits(u)
      BY <1>2, <1>6 DEF GiveBack, Account
  <2>2. CreditUnits(u) \in Nat
      BY UnitsAreNat
  <2> QED
      BY <1>2, <1>3, <2>1, <2>2 DEF U64
<1>7. ASSUME account'.credits_consumed = account.credits_consumed
      PROVE  CreditEnvelope'
    BY <1>2, <1>3, <1>7 DEF U64
<1>8. ASSUME \/ Unmoved \/ Ended
             \/ \E u \in Usage : Denied(u)
             \/ \E task \in Tasks \cup {0}, ns \in U64 :
                    Measured(task, ns) \/ FedAgain(task)
      PROVE  account'.credits_consumed = account.credits_consumed
    BY <1>2, <1>8 DEF Unmoved, Ended, Denied, Measured, FedAgain, Account
<1> QED
    BY <1>5, <1>6, <1>7, <1>8
       DEF UsageShape, Moves, TaskReturned, ReturnRecorded, ReturnUnrecorded

(* A credit reservation never spends more than it reserved, whatever its   *)
(* callers consume, return, repeat and report late, and in whatever order. *)
THEOREM CreditsStayInEnvelope == Spec => []CreditEnvelope
<1>1. Init => CreditEnvelope
  <2>1. \A l \in Leases : 0 <= l.credits
      BY UsageInputs, WidthAssumption DEF Lease, U64
  <2> QED
      BY <2>1 DEF Init, EmptyAccount, CreditEnvelope
<1>2. UsageInv /\ CreditEnvelope /\ [Next]_vars => CreditEnvelope'
    BY UsageStepShape, CreditEnvelopeStep DEF UsageInv
<1> QED
    BY <1>1, <1>2, UsageInvariant, PTL DEF Spec

-----------------------------------------------------------------------------
(* The walk over the events of a rate window                               *)

(* Induction over the natural numbers, for a set instead of a predicate:   *)
(* a set that misses a number misses a least one.                          *)
LEMMA Upwards ==
    ASSUME NEW S, 0 \in S, \A k \in Nat : k \in S => k + 1 \in S, NEW n \in Nat
    PROVE  n \in S
<1> SUFFICES ASSUME n \notin S PROVE FALSE
    OBVIOUS
<1> DEFINE missed == {k \in Nat : k \notin S}
<1>1. PICK x \in missed : \A y \in missed : ~(<<y, x>> \in OpToRel(<, Nat))
    BY NatLessThanWellFounded, WFMin
<1>2. \A y \in missed : ~(y < x)
    BY <1>1 DEF OpToRel
<1>3. x \in Nat /\ x # 0
    BY <1>1
<1>4. x - 1 \in Nat /\ x - 1 < x /\ (x - 1) + 1 = x
    BY <1>3
<1>5. x - 1 \in S
    BY <1>2, <1>4
<1> QED
    BY <1>1, <1>4, <1>5

(* A non-empty part of 1..n has a greatest member.                         *)
LEMMA MaxIsMember ==
    ASSUME NEW n \in Nat, NEW s \in SUBSET (1..n), s # {}
    PROVE  Max(s) \in s /\ \A y \in s : y <= Max(s)
<1> DEFINE above == {k \in Nat : \A y \in s : y <= k}
<1>1. n \in above
    OBVIOUS
<1>2. PICK x \in above : \A y \in above : ~(<<y, x>> \in OpToRel(<, Nat))
    BY <1>1, NatLessThanWellFounded, WFMin
<1>3. x \in above /\ \A y \in above : ~(y < x)
    BY <1>2 DEF OpToRel
<1>4. x \in s
  <2> SUFFICES ASSUME x \notin s PROVE FALSE
      OBVIOUS
  <2>1. x \in Nat /\ \A y \in s : y <= x /\ y \in Int /\ 1 <= y /\ y # x
      BY <1>3
  <2>2. PICK y \in s : TRUE
      OBVIOUS
  <2>3. x - 1 \in Nat /\ x - 1 < x
      BY <2>1, <2>2
  <2>4. \A z \in s : z <= x - 1
      BY <2>1
  <2> QED
      BY <1>3, <2>3, <2>4
<1>5. \A y \in s : x >= y
    BY <1>3
<1> QED
    BY <1>4, <1>5 DEF Max

\* What rate_window_consumed is after the events whose indices are in s.
After(w, f, s) ==
    IF s = {} THEN 0 ELSE AddEvent(w, f[s \ {Max(s)}], events[Max(s)])

Walks(w, S, f) == f = [s \in SUBSET S |-> After(w, f, s)]

Walk(w) == CHOOSE f : Walks(w, DOMAIN events, f)

LEMMA FoldIsWalk ==
    ASSUME NEW w
    PROVE  FoldLeft(LAMBDA acc, e : AddEvent(w, acc, e), 0, events)
             = Walk(w)[DOMAIN events]
BY DEF FoldLeft, MapThenFoldSet, Walk, Walks, After

(* A walk over k events goes on to the next one.                           *)
LEMMA WalkGoesOn ==
    ASSUME NEW w, NEW k \in Nat, NEW f, Walks(w, 1..k, f)
    PROVE  \E g : Walks(w, 1..(k + 1), g)
<1> DEFINE g == [s \in SUBSET (1..(k + 1)) |->
                    IF k + 1 \in s
                    THEN AddEvent(w, f[s \ {k + 1}], events[k + 1])
                    ELSE f[s]]
<1>1. \A s \in SUBSET (1..k) : s \in SUBSET (1..(k + 1)) /\ g[s] = f[s]
    OBVIOUS
<1>2. \A s \in SUBSET (1..k) : f[s] = After(w, f, s)
    BY DEF Walks
<1>3. ASSUME NEW s \in SUBSET (1..(k + 1)) PROVE g[s] = After(w, g, s)
  <2>1. CASE s = {}
    <3>1. s \in SUBSET (1..k)
        BY <2>1
    <3> QED
        BY <1>1, <1>2, <2>1, <3>1 DEF After
  <2>2. CASE k + 1 \in s
    <3>1. k + 1 \in Nat /\ s # {}
        BY <2>2
    <3>2. Max(s) \in s /\ \A y \in s : y <= Max(s)
        BY <3>1, MaxIsMember
    <3>3. Max(s) = k + 1
      <4>1. Max(s) \in 1..(k + 1) /\ k + 1 <= Max(s)
          BY <2>2, <3>2
      <4> QED
          BY <4>1
    <3>4. s \ {k + 1} \in SUBSET (1..k)
        OBVIOUS
    <3>5. g[s] = AddEvent(w, f[s \ {k + 1}], events[k + 1])
        BY <2>2
    <3> HIDE DEF g
    <3> QED
        BY <1>1, <2>2, <3>3, <3>4, <3>5 DEF After
  <2>3. CASE s # {} /\ k + 1 \notin s
    <3>1. s \in SUBSET (1..k)
        BY <2>3
    <3>2. s \ {Max(s)} \in SUBSET (1..k)
        BY <3>1
    <3> HIDE DEF g
    <3> QED
        BY <1>1, <1>2, <2>3, <3>1, <3>2 DEF After
  <2> QED
      BY <2>1, <2>2, <2>3
<1>4. g = [s \in SUBSET (1..(k + 1)) |-> After(w, g, s)]
  <2> DEFINE h == [s \in SUBSET (1..(k + 1)) |-> After(w, g, s)]
  <2>1. \A s \in SUBSET (1..(k + 1)) : g[s] = h[s]
      BY <1>3
  <2> QED
      BY <2>1
<1> QED
    BY <1>4 DEF Walks

(* So there is a walk over all the events, and it takes them in order.     *)
LEMMA WalkExists ==
    ASSUME NEW w, NEW n \in Nat
    PROVE  \E f : Walks(w, 1..n, f)
<1> DEFINE S == {k \in Nat : \E f : Walks(w, 1..k, f)}
<1>1. 0 \in S
  <2> DEFINE f == [s \in SUBSET (1..0) |-> 0]
  <2>1. f = [s \in SUBSET (1..0) |-> After(w, f, s)]
      BY DEF After
  <2> QED
      BY <2>1 DEF Walks
<1>2. \A k \in Nat : k \in S => k + 1 \in S
    BY WalkGoesOn
<1> HIDE DEF S
<1>3. n \in S
    BY <1>1, <1>2, Upwards
<1> QED
    BY <1>3 DEF S

LEMMA WalkByEvent ==
    ASSUME UsageTypeOK, NEW w
    PROVE  /\ Walk(w)[1..0] = 0
           /\ \A k \in Nat : k < Len(events) =>
                Walk(w)[1..(k + 1)]
                  = AddEvent(w, Walk(w)[1..k], events[k + 1])
<1>1. Len(events) \in Nat /\ DOMAIN events = 1..Len(events)
    BY DEF UsageTypeOK
<1>2. Walks(w, 1..Len(events), Walk(w))
    BY <1>1, WalkExists DEF Walk
<1>3. \A s \in SUBSET (1..Len(events)) : Walk(w)[s] = After(w, Walk(w), s)
    BY <1>2 DEF Walks
<1>4. Walk(w)[1..0] = 0
    BY <1>3 DEF After
<1>5. ASSUME NEW k \in Nat, k < Len(events)
      PROVE  Walk(w)[1..(k + 1)] = AddEvent(w, Walk(w)[1..k], events[k + 1])
  <2> DEFINE s == 1..(k + 1)
  <2>1. s \in SUBSET (1..Len(events)) /\ s # {} /\ k + 1 \in s
      BY <1>1, <1>5
  <2>2. Max(s) \in 1..(k + 1) /\ k + 1 <= Max(s)
    <3>1. k + 1 \in Nat /\ s \in SUBSET (1..(k + 1))
        OBVIOUS
    <3> HIDE DEF s
    <3> QED
        BY <2>1, <3>1, MaxIsMember
  <2>3. Max(s) = k + 1
    <3> DEFINE m == Max(s)
    <3>1. m \in 1..(k + 1) /\ k + 1 <= m
        BY <2>2
    <3> HIDE DEF m
    <3>2. m = k + 1
        BY <3>1
    <3> QED
        BY <3>2 DEF m
  <2>4. s \ {k + 1} = 1..k
      OBVIOUS
  <2> HIDE DEF s
  <2> QED
      BY <1>3, <2>1, <2>3, <2>4 DEF After, s
<1> QED
    BY <1>4, <1>5

\* The members of S among the first k events.
UpTo(S, k) == {j \in S : j <= k}

\* What the first k events charge to and give back in window w.
ChargedUpTo(w, k) == UnitSum(RateCharged, UpTo(ChargesIn(w), k))
RefundedUpTo(w, k) == UnitSum(RateRefunded, UpTo(RefundsIn(w), k))

\* One event in window w: what the walk adds and what it subtracts.
ChargeAt(w, j) ==
    IF j \in ChargesIn(w) THEN RateUnits(events[j].consumed) ELSE 0
RefundAt(w, j) ==
    IF j \in RefundsIn(w) THEN RateUnits(events[j].returned) ELSE 0

LEMMA SumsByEvent ==
    ASSUME UsageTypeOK, NEW w, NEW k \in Nat, k + 1 \in DOMAIN events
    PROVE  /\ ChargedUpTo(w, k + 1) = ChargedUpTo(w, k) + ChargeAt(w, k + 1)
           /\ RefundedUpTo(w, k + 1) = RefundedUpTo(w, k) + RefundAt(w, k + 1)
           /\ ChargedUpTo(w, k) \in Nat /\ RefundedUpTo(w, k) \in Nat
           /\ ChargeAt(w, k + 1) \in U64 /\ RefundAt(w, k + 1) \in U64
<1> DEFINE j == k + 1
           charged == ChargesIn(w)
           refunded == RefundsIn(w)
<1>1. charged \in SUBSET Charges /\ refunded \in SUBSET Refunds
    BY DEF ChargesIn, RefundsIn
<1>2. /\ IsFiniteSet(charged) /\ IsFiniteSet(refunded)
      /\ charged \in SUBSET Int /\ refunded \in SUBSET Int
  <2>1. Charges \in SUBSET Int /\ Refunds \in SUBSET Int
      BY DEF UsageTypeOK, Charges, Refunds
  <2> QED
      BY <1>1, <2>1, BooksFinite, FS_Subset
<1>3. RateCharged[j] \in U64 /\ RateRefunded[j] \in U64
      /\ RateCharged[j] = RateUnits(events[j].consumed)
      /\ RateRefunded[j] = RateUnits(events[j].returned)
  <2>1. events[j] \in Event
      BY DEF UsageTypeOK
  <2>2. events[j].consumed \in Usage /\ events[j].returned \in Usage
      BY <2>1 DEF Event, EventRecord
  <2> QED
      BY <2>2, UnitsTyped DEF UsageTypeOK, RateCharged, RateRefunded
<1> HIDE DEF charged, refunded
<1>4. ASSUME NEW S \in SUBSET Int, IsFiniteSet(S)
      PROVE  /\ UpTo(S, j) = UpTo(S, k) \cup (IF j \in S THEN {j} ELSE {})
             /\ j \notin UpTo(S, k)
             /\ IsFiniteSet(UpTo(S, k))
             /\ (j \in S) \in BOOLEAN
  <2>1. UpTo(S, k) \in SUBSET S
      BY DEF UpTo
  <2>2. IsFiniteSet(UpTo(S, k))
      BY <1>4, <2>1, FS_Subset
  <2>3. \A i \in Int : i <= j <=> i <= k \/ i = j
      OBVIOUS
  <2>4. UpTo(S, j) = UpTo(S, k) \cup (IF j \in S THEN {j} ELSE {})
      BY <2>3 DEF UpTo
  <2>5. j \notin UpTo(S, k)
      BY DEF UpTo
  <2> QED
      BY <2>2, <2>4, <2>5
<1>5. /\ ChargedUpTo(w, j) = ChargedUpTo(w, k)
            + (IF j \in charged THEN RateCharged[j] ELSE 0)
      /\ ChargedUpTo(w, k) \in Nat
  <2> DEFINE new == UpTo(charged, j)
             old == UpTo(charged, k)
             joins == j \in charged
  <2>1. /\ new = old \cup (IF joins THEN {j} ELSE {})
        /\ j \notin old /\ IsFiniteSet(old) /\ joins \in BOOLEAN
      BY <1>2, <1>4
  <2> HIDE DEF new, old, joins, j
  <2>2. /\ UnitSum(RateCharged, new)
             = UnitSum(RateCharged, old) + (IF joins THEN RateCharged[j] ELSE 0)
        /\ UnitSum(RateCharged, old) \in Nat
      BY <1>3, <2>1, UnitSumJoin
  <2> QED
      BY <2>2 DEF ChargedUpTo, new, old, joins, charged
<1>6. /\ RefundedUpTo(w, j) = RefundedUpTo(w, k)
            + (IF j \in refunded THEN RateRefunded[j] ELSE 0)
      /\ RefundedUpTo(w, k) \in Nat
  <2> DEFINE new == UpTo(refunded, j)
             old == UpTo(refunded, k)
             joins == j \in refunded
  <2>1. /\ new = old \cup (IF joins THEN {j} ELSE {})
        /\ j \notin old /\ IsFiniteSet(old) /\ joins \in BOOLEAN
      BY <1>2, <1>4
  <2> HIDE DEF new, old, joins, j
  <2>2. /\ UnitSum(RateRefunded, new)
             = UnitSum(RateRefunded, old) + (IF joins THEN RateRefunded[j] ELSE 0)
        /\ UnitSum(RateRefunded, old) \in Nat
      BY <1>3, <2>1, UnitSumJoin
  <2> QED
      BY <2>2 DEF RefundedUpTo, new, old, joins, refunded
<1> QED
    BY <1>3, <1>5, <1>6, EmptyTyped DEF ChargeAt, RefundAt, charged, refunded

LEMMA AddEventAt ==
    ASSUME UsageTypeOK, NEW w, NEW j \in DOMAIN events, NEW sum
    PROVE  AddEvent(w, sum, events[j]) =
             IF sum > MaxU64 \/ AddOverflows(sum, ChargeAt(w, j)) THEN MaxU64 + 1
             ELSE SatSub(sum + ChargeAt(w, j), RefundAt(w, j))
<1> DEFINE e == events[j]
<1>1. j \in ChargesIn(w) <=> e.consumed_set /\ ConsumeWindow(e) = w
    BY DEF ChargesIn, Charges, ConsumeWindow
<1>2. j \in RefundsIn(w) <=> e.returned_set /\ ReturnWindow(e) = w
  <2>1. CASE e.consumed_set
      BY <1>1, <2>1
         DEF RefundsIn, Refunds, Charges, ReturnWindow, ConsumeWindow
  <2>2. CASE ~e.consumed_set
      BY <2>2 DEF RefundsIn, Refunds, Charges, ReturnWindow
  <2> QED
      BY <2>1, <2>2
<1> QED
    BY <1>1, <1>2 DEF AddEvent, ChargeAt, RefundAt

\* The walk is at least what was charged less what was given back.
WalkCovers(w, k) ==
    /\ Walk(w)[1..k] \in 0..(MaxU64 + 1)
    /\ Walk(w)[1..k] <= MaxU64 =>
          ChargedUpTo(w, k) <= Walk(w)[1..k] + RefundedUpTo(w, k)

LEMMA WalkCoversAll ==
    ASSUME UsageTypeOK, NEW w PROVE WalkCovers(w, Len(events))
<1> DEFINE n == Len(events)
           S == {k \in Nat : k <= n => WalkCovers(w, k)}
<1>1. n \in Nat /\ DOMAIN events = 1..n
    BY DEF UsageTypeOK
<1>2. 0 \in S
  <2>1. Walk(w)[1..0] = 0
      BY WalkByEvent
  <2>2. UpTo(ChargesIn(w), 0) = {} /\ UpTo(RefundsIn(w), 0) = {}
      BY <1>1 DEF UpTo, ChargesIn, RefundsIn, Charges, Refunds
  <2>3. ChargedUpTo(w, 0) = 0 /\ RefundedUpTo(w, 0) = 0
      BY <2>2, UnitSumEmpty DEF ChargedUpTo, RefundedUpTo
  <2>4. WalkCovers(w, 0)
      BY <2>1, <2>3, WidthAssumption DEF WalkCovers
  <2> QED
      BY <2>4
<1>3. ASSUME NEW k \in Nat, k \in S PROVE k + 1 \in S
  <2> SUFFICES ASSUME k + 1 <= n PROVE WalkCovers(w, k + 1)
      OBVIOUS
  <2> DEFINE g == Walk(w)[1..k]
             h == Walk(w)[1..(k + 1)]
             c == ChargeAt(w, k + 1)
             r == RefundAt(w, k + 1)
  <2>1. WalkCovers(w, k) /\ k < n /\ k + 1 \in DOMAIN events
      BY <1>1, <1>3
  <2>2. h = IF g > MaxU64 \/ AddOverflows(g, c) THEN MaxU64 + 1
            ELSE SatSub(g + c, r)
      BY <2>1, WalkByEvent, AddEventAt
  <2>3. /\ ChargedUpTo(w, k + 1) = ChargedUpTo(w, k) + c
        /\ RefundedUpTo(w, k + 1) = RefundedUpTo(w, k) + r
        /\ ChargedUpTo(w, k) \in Nat /\ RefundedUpTo(w, k) \in Nat
        /\ c \in U64 /\ r \in U64
      BY <2>1, SumsByEvent
  <2>4. /\ g \in 0..(MaxU64 + 1)
        /\ g <= MaxU64 => ChargedUpTo(w, k) <= g + RefundedUpTo(w, k)
      BY <2>1 DEF WalkCovers
  <2> HIDE DEF g, c, r, h
  <2>5. h \in 0..(MaxU64 + 1)
      BY <2>2, <2>3, <2>4, WidthAssumption DEF AddOverflows, SatSub, U64
  <2>6. h <= MaxU64 => g <= MaxU64 /\ h = SatSub(g + c, r)
    <3>1. CASE g > MaxU64 \/ AddOverflows(g, c)
        BY <2>2, <3>1, WidthAssumption
    <3>2. CASE ~(g > MaxU64) /\ ~AddOverflows(g, c)
      <4>1. h = SatSub(g + c, r) /\ g <= MaxU64
          BY <2>2, <2>4, <3>2, WidthAssumption
      <4> QED
          BY <4>1
    <3> QED
        BY <3>1, <3>2
  <2>7. h <= MaxU64 =>
          ChargedUpTo(w, k + 1) <= h + RefundedUpTo(w, k + 1)
      BY <2>3, <2>4, <2>6, WidthAssumption DEF SatSub, U64
  <2> QED
      BY <2>5, <2>7 DEF WalkCovers, h
<1> HIDE DEF S
<1>4. n \in S
    BY <1>1, <1>2, <1>3, Upwards
<1> QED
    BY <1>1, <1>4 DEF S

(* rate_window_consumed never understates a window: what it answers covers *)
(* the charges that the refunds of the window leave, or it has saturated.  *)
LEMMA WindowIsCovered ==
    ASSUME UsageTypeOK, NEW time \in Nat, lease.window # 0
    PROVE  LET w == time \div lease.window
           IN  RateWindowConsumed(time) < MaxU64 =>
                 UnitSum(RateCharged, ChargesIn(w))
                   <= RateWindowConsumed(time)
                        + UnitSum(RateRefunded, RefundsIn(w))
<1> DEFINE w == time \div lease.window
           n == Len(events)
           sum == Walk(w)[1..n]
<1>1. n \in Nat /\ DOMAIN events = 1..n
    BY DEF UsageTypeOK
<1>2. RateWindowConsumed(time) = IF sum > MaxU64 THEN MaxU64 ELSE sum
    BY <1>1, FoldIsWalk DEF RateWindowConsumed
<1>3. UpTo(ChargesIn(w), n) = ChargesIn(w) /\ UpTo(RefundsIn(w), n) = RefundsIn(w)
    BY <1>1 DEF UpTo, ChargesIn, RefundsIn, Charges, Refunds
<1>4. WalkCovers(w, n)
    BY WalkCoversAll
<1> QED
    BY <1>2, <1>3, <1>4, WidthAssumption
       DEF WalkCovers, ChargedUpTo, RefundedUpTo

LEMMA WindowIsTyped ==
    ASSUME UsageTypeOK, NEW time PROVE RateWindowConsumed(time) \in U64
<1> DEFINE w == time \div lease.window
           n == Len(events)
           sum == Walk(w)[1..n]
<1>1. n \in Nat /\ DOMAIN events = 1..n /\ account.rate_consumed \in U64
    BY DEF UsageTypeOK, Account
<1>2. CASE lease.window = 0
    BY <1>1, <1>2 DEF RateWindowConsumed
<1>3. CASE lease.window # 0
  <2>1. RateWindowConsumed(time) = IF sum > MaxU64 THEN MaxU64 ELSE sum
      BY <1>1, <1>3, FoldIsWalk DEF RateWindowConsumed
  <2>2. sum \in 0..(MaxU64 + 1)
      BY WalkCoversAll DEF WalkCovers
  <2> HIDE DEF sum
  <2> QED
      BY <2>1, <2>2, WidthAssumption DEF U64
<1> QED
    BY <1>2, <1>3

-----------------------------------------------------------------------------
(* The envelope of a rate window                                           *)

ChargedIn(w) == UnitSum(RateCharged, ChargesIn(w))
RefundedIn(w) == UnitSum(RateRefunded, RefundsIn(w))

(* The rate envelope, for the windows without an event too.                *)
WindowsFit ==
    lease.kind = "rate" /\ lease.rate < MaxU64 =>
        \A w \in Nat : ChargedIn(w) <= lease.rate + RefundedIn(w)

\* No event is lost, nor its charge, nor a refund that it has.
EventsKept ==
    /\ DOMAIN events \subseteq DOMAIN events'
    /\ \A j \in DOMAIN events :
          /\ events'[j].consumed_set = events[j].consumed_set
          /\ events'[j].consumed = events[j].consumed
          /\ events[j].returned_set =>
                /\ events'[j].returned_set
                /\ events'[j].returned = events[j].returned

LEMMA WindowSums ==
    ASSUME UsageTypeOK, NEW w
    PROVE  /\ IsFiniteSet(ChargesIn(w)) /\ IsFiniteSet(RefundsIn(w))
           /\ ChargedIn(w) \in Nat /\ RefundedIn(w) \in Nat
<1>1. ChargesIn(w) \in SUBSET Charges /\ RefundsIn(w) \in SUBSET Refunds
    BY DEF ChargesIn, RefundsIn
<1>2. IsFiniteSet(ChargesIn(w)) /\ IsFiniteSet(RefundsIn(w))
    BY <1>1, BooksFinite, FS_Subset
<1> QED
    BY <1>2, UnitsFinite DEF ChargedIn, RefundedIn

(* What was given back stays given back.                                   *)
LEMMA RefundsStay ==
    ASSUME UsageTypeOK, UsageTypeOK', lease' = lease, EventsKept, NEW w
    PROVE  RefundedIn(w) <= RefundedIn(w)' /\ RefundedIn(w)' \in Nat
<1> DEFINE S == RefundsIn(w)
           T == RefundsIn(w)'
<1>1. S \in SUBSET T
    BY DEF EventsKept, RefundsIn, Refunds, ChargesIn, Charges
<1>2. \A j \in S : RateRefunded[j] = RateRefunded'[j]
    BY DEF EventsKept, RefundsIn, Refunds, RateRefunded, RateUnits
<1>3. IsFiniteSet(T)
  <2>1. T \in SUBSET (1..Len(events'))
      BY DEF UsageTypeOK, RefundsIn, Refunds
  <2>2. IsFiniteSet(1..Len(events'))
      BY FS_Interval DEF UsageTypeOK
  <2> QED
      BY <2>1, <2>2, FS_Subset
<1> HIDE DEF S, T
<1>4. UnitSum(RateRefunded, S) = UnitSum(RateRefunded', S)
    BY <1>2, UnitSumLocal
<1>5. /\ UnitSum(RateRefunded', S) <= UnitSum(RateRefunded', T)
      /\ UnitSum(RateRefunded', T) \in Nat
    BY <1>1, <1>3, UnitSumMonotone, UnitsFinite
<1> QED
    BY <1>4, <1>5 DEF RefundedIn, S, T

(* A step that charges no event keeps every window within its rate.        *)
LEMMA WindowsStay ==
    ASSUME UsageTypeOK, UsageTypeOK', WindowsFit, lease' = lease, EventsKept,
           \A j \in DOMAIN events' : events'[j].consumed_set => j \in DOMAIN events
    PROVE  WindowsFit'
<1> SUFFICES ASSUME lease.kind = "rate", lease.rate < MaxU64, NEW w \in Nat
             PROVE  ChargedIn(w)' <= lease.rate + RefundedIn(w)'
    BY DEF WindowsFit
<1>1. ChargesIn(w)' = ChargesIn(w)
    BY DEF EventsKept, ChargesIn, Charges
<1>2. \A j \in ChargesIn(w) : RateCharged'[j] = RateCharged[j]
    BY DEF EventsKept, ChargesIn, Charges, RateCharged, RateUnits
<1>3. ChargedIn(w)' = ChargedIn(w)
    BY <1>1, <1>2, UnitSumLocal DEF ChargedIn
<1>4. RefundedIn(w) <= RefundedIn(w)' /\ RefundedIn(w)' \in Nat
    BY RefundsStay
<1>5. ChargedIn(w) <= lease.rate + RefundedIn(w)
    BY DEF WindowsFit
<1>6. lease.rate \in Nat
    BY UsageInputs DEF UsageTypeOK, Lease, U64
<1> QED
    BY <1>3, <1>4, <1>5, <1>6, WindowSums

(* A charge that the rate policy accepted fits its window.                 *)
LEMMA AcceptedChargeFits ==
    ASSUME UsageTypeOK, NEW u \in Usage, lease.kind = "rate",
           lease.rate < MaxU64, RateFits(u)
    PROVE  LET w == u.time \div lease.window
           IN  ChargedIn(w) + RateUnits(u) <= lease.rate + RefundedIn(w)
<1> DEFINE w == u.time \div lease.window
           c == RateWindowConsumed(u.time)
           q == Requested(u.rate, u)
<1>1. lease \in Lease /\ lease.window # 0 /\ lease.rate \in U64
    BY UsageInputs, RateWindows DEF UsageTypeOK, Lease
<1>2. q \in U64 /\ RateUnits(u) <= q /\ RateUnits(u) \in U64
    BY WidthAssumption, UnitsTyped
       DEF Usage, U64, Requested, RateUnits, UsageTypeOK
<1>3. u.time \in Nat /\ c \in U64
    BY WindowIsTyped DEF Usage
<1>4. c < MaxU64 => ChargedIn(w) <= c + RefundedIn(w)
    BY <1>1, <1>3, WindowIsCovered DEF ChargedIn, RefundedIn
<1>5. SatAdd(c, q) <= lease.rate
    BY DEF RateFits, Fits
<1> HIDE DEF c, q
<1>6. c < MaxU64 /\ c + q <= lease.rate
    BY <1>1, <1>2, <1>3, <1>5, WidthAssumption DEF SatAdd, AddOverflows, U64
<1>7. ChargedIn(w) \in Nat /\ RefundedIn(w) \in Nat
    BY WindowSums
<1> HIDE DEF w
<1>8. ChargedIn(w) + RateUnits(u) <= lease.rate + RefundedIn(w)
    BY <1>1, <1>2, <1>3, <1>4, <1>6, <1>7, WidthAssumption DEF U64
<1> QED
    BY <1>8 DEF w

LEMMA ChargeKeepsWindows ==
    ASSUME UsageTypeOK, UsageTypeOK', WindowsFit, NEW u \in Usage, Charged(u)
    PROVE  WindowsFit'
<1> SUFFICES ASSUME lease'.kind = "rate", lease'.rate < MaxU64, NEW w \in Nat
             PROVE  ChargedIn(w)' <= lease'.rate + RefundedIn(w)'
    BY DEF WindowsFit
<1> DEFINE e == ConsumeEvent(u, "ACCEPTED")
           k == Len(events) + 1
           S == ChargesIn(w)
           T == ChargesIn(w)'
           here == u.time \div lease.window = w
<1>1. lease' = lease /\ lease.kind = "rate" /\ lease.rate < MaxU64
    BY DEF Charged
<1>2. e \in Event /\ Added(e) /\ e.consumed_set /\ e.consumed = u
    BY EmptyTyped
       DEF Charged, Added, ConsumeEvent, Event, EventRecord, Usage
<1>3. /\ DOMAIN events' = DOMAIN events \cup {k} /\ k \notin DOMAIN events
      /\ events'[k] = e
      /\ \A j \in DOMAIN events : events'[j] = events[j]
    BY <1>2, AppendDomain
<1> HIDE DEF k, e
<1>4. EventsKept
    BY <1>3 DEF EventsKept
<1>5. T = S \cup (IF here THEN {k} ELSE {}) /\ k \notin S /\ here \in BOOLEAN
    BY <1>1, <1>2, <1>3 DEF ChargesIn, Charges
<1>6. /\ \A j \in S : RateCharged'[j] = RateCharged[j]
      /\ RateCharged'[k] = RateUnits(u)
    BY <1>1, <1>2, <1>3 DEF ChargesIn, Charges, RateCharged, RateUnits
<1>7. RateUnits(u) \in U64
    BY UnitsTyped DEF UsageTypeOK
<1>8. ChargedIn(w)' = ChargedIn(w) + (IF here THEN RateUnits(u) ELSE 0)
  <2>1. IsFiniteSet(S)
      BY WindowSums
  <2> HIDE DEF S, T, here
  <2>2. UnitSum(RateCharged', T)
          = UnitSum(RateCharged, S) + (IF here THEN RateCharged'[k] ELSE 0)
      BY <1>5, <1>6, <1>7, <2>1, UnitSumJoin
  <2> QED
      BY <1>6, <2>2 DEF ChargedIn, S, T
<1>9. ChargedIn(w) + (IF here THEN RateUnits(u) ELSE 0)
        <= lease.rate + RefundedIn(w)
  <2>1. CASE here
    <3>1. RateFits(u)
        BY <1>1 DEF Charged, Chargeable, UsageDecisions
    <3> QED
        BY <1>1, <2>1, <3>1, AcceptedChargeFits
  <2>2. CASE ~here
      BY <1>1, <2>2, WindowSums DEF WindowsFit
  <2> QED
      BY <2>1, <2>2
<1>10. RefundedIn(w) <= RefundedIn(w)' /\ RefundedIn(w)' \in Nat
    BY <1>1, <1>4, RefundsStay
<1>11. RefundedIn(w) \in Nat /\ lease.rate \in Nat
    BY UsageInputs, WindowSums DEF UsageTypeOK, Lease, U64
<1> HIDE DEF here
<1>12. (IF here THEN RateUnits(u) ELSE 0) \in Nat /\ ChargedIn(w) \in Nat
    BY <1>7, WindowSums DEF U64
<1> QED
    BY <1>1, <1>8, <1>9, <1>10, <1>11, <1>12

LEMMA WindowsFitStep ==
    ASSUME UsageTypeOK, UsageTypeOK', WindowsFit, UsageShape PROVE WindowsFit'
<1>1. lease' = lease
    BY LeaseKept
<1>2. CASE events' = events
  <2>1. EventsKept
      BY <1>2 DEF EventsKept
  <2> QED
      BY <1>1, <1>2, <2>1, WindowsStay
<1>3. ASSUME NEW e \in Event, Added(e), ~e.consumed_set PROVE WindowsFit'
  <2> DEFINE k == Len(events) + 1
  <2>1. /\ DOMAIN events' = DOMAIN events \cup {k}
        /\ events'[k] = e
        /\ \A j \in DOMAIN events : events'[j] = events[j]
      BY <1>3, AppendDomain
  <2> HIDE DEF k
  <2>2. EventsKept
      BY <2>1 DEF EventsKept
  <2> QED
      BY <1>1, <1>3, <2>1, <2>2, WindowsStay
<1>4. ASSUME NEW u \in Usage, Denied(u) PROVE WindowsFit'
  <2>1. /\ ConsumeEvent(u, "REJECTED") \in Event
        /\ Added(ConsumeEvent(u, "REJECTED"))
        /\ ~ConsumeEvent(u, "REJECTED").consumed_set
      BY <1>4, EmptyTyped
         DEF Denied, Added, ConsumeEvent, Event, EventRecord, Usage
  <2> QED
      BY <1>3, <2>1
<1>5. ASSUME NEW u \in Usage, ReturnRecorded(u) PROVE WindowsFit'
  <2>1. /\ ReturnEvent(u) \in Event /\ Added(ReturnEvent(u))
        /\ ~ReturnEvent(u).consumed_set
      BY <1>5, EmptyTyped
         DEF ReturnRecorded, Added, ReturnEvent, Event, EventRecord, Usage
  <2> QED
      BY <1>3, <2>1
<1>6. ASSUME NEW k \in DOMAIN events, NEW n \in Usage, TaskReturned(k, n)
      PROVE  WindowsFit'
  <2>1. /\ DOMAIN events' = DOMAIN events
        /\ \A j \in DOMAIN events :
             events'[j] = IF j = k
                          THEN [events[j] EXCEPT !.returned = n,
                                                 !.returned_set = TRUE]
                          ELSE events[j]
      BY <1>6 DEF TaskReturned, StoredReturn, UsageTypeOK
  <2>2. \A j \in DOMAIN events : events[j] \in Event
      BY DEF UsageTypeOK
  <2>3. ~events[k].returned_set
      BY <1>6 DEF TaskReturned
  <2>4. EventsKept
      BY <2>1, <2>2, <2>3 DEF EventsKept, Event, EventRecord
  <2> QED
      BY <1>1, <2>1, <2>4, WindowsStay
<1>7. ASSUME \/ Unmoved \/ Ended
             \/ \E u \in Usage : HalfCharged(u) \/ ReturnUnrecorded(u)
             \/ \E task \in Tasks \cup {0}, ns \in U64 :
                    Measured(task, ns) \/ FedAgain(task)
      PROVE  events' = events
    BY <1>7
       DEF Unmoved, Ended, HalfCharged, ReturnUnrecorded, Measured, FedAgain
<1> QED
    BY <1>2, <1>4, <1>5, <1>6, <1>7, ChargeKeepsWindows DEF UsageShape, Moves

(* No window of a rate reservation is charged more than its rate and what  *)
(* was given back in it, in whatever order tasks and anonymous callers     *)
(* consume, return and report late.                                        *)
THEOREM RateStaysInEnvelope == Spec => []RateEnvelope
<1>1. Init => WindowsFit
  <2> SUFFICES ASSUME Init, NEW w \in Nat
               PROVE  ChargedIn(w) <= lease.rate + RefundedIn(w)
      BY DEF WindowsFit
  <2>1. ChargesIn(w) = {} /\ RefundsIn(w) = {}
      BY DEF Init, ChargesIn, RefundsIn, Charges, Refunds
  <2>2. ChargedIn(w) = 0 /\ RefundedIn(w) = 0
      BY <2>1, UnitSumEmpty DEF ChargedIn, RefundedIn
  <2>3. 0 <= lease.rate /\ lease.rate \in Nat
      BY UsageInputs, WidthAssumption DEF Init, Lease, U64
  <2> QED
      BY <2>2, <2>3
<1>2. UsageInv /\ WindowsFit /\ [Next]_vars => WindowsFit'
    BY UsageStepShape, UsageTypeStep, WindowsFitStep DEF UsageInv
<1>3. UsageInv /\ WindowsFit => RateEnvelope
  <2> SUFFICES ASSUME UsageTypeOK, WindowsFit, lease.kind = "rate",
                      lease.rate < MaxU64, NEW w \in Windows
               PROVE  ChargedIn(w) <= lease.rate + RefundedIn(w)
      BY DEF RateEnvelope, UsageInv, ChargedIn, RefundedIn
  <2>1. w \in Nat
    <3>1. PICK k \in DOMAIN events :
            w = events[k].consumed.time \div lease.window
        BY DEF Windows, Range
    <3>2. events[k] \in Event
        BY DEF UsageTypeOK
    <3>3. events[k].consumed.time \in Nat
        BY <3>2 DEF Event, EventRecord, Usage
    <3>4. lease.window \in Nat \ {0}
        BY UsageInputs, RateWindows DEF UsageTypeOK, Lease
    <3> QED
        BY <3>1, <3>3, <3>4
  <2> QED
      BY <2>1 DEF WindowsFit
<1> QED
    BY <1>1, <1>2, <1>3, UsageInvariant, PTL DEF Spec

-----------------------------------------------------------------------------
(* What is reported as remaining                                           *)

(* What is left of a limit fits, and not a unit more.                      *)
LEMMA FitsWhatIsLeft ==
    ASSUME NEW c \in U64, NEW limit \in U64, limit < MaxU64, NEW n, n # 0,
           n \in {SatSub(limit, c), SatSub(limit, c) + 1}
    PROVE  Fits(c, n, limit) <=> n <= SatSub(limit, c)
<1>1. c \in Int /\ limit \in Int /\ 0 <= c /\ c <= MaxU64 /\ 0 <= limit
      /\ MaxU64 \in Int
    BY WidthAssumption DEF U64
<1>2. CASE limit < c
  <2>1. SatSub(limit, c) = 0 /\ n = 1
      BY <1>2 DEF SatSub
  <2>2. SatAdd(c, 1) > limit
      BY <1>1, <1>2 DEF SatAdd, AddOverflows
  <2> QED
      BY <1>1, <2>1, <2>2 DEF Fits, SatAdd, AddOverflows
<1>3. CASE c <= limit
  <2>1. SatSub(limit, c) = limit - c
      BY <1>1, <1>3 DEF SatSub
  <2>2. n \in Int /\ c + n <= MaxU64 /\ (n = limit - c \/ n = limit - c + 1)
      BY <1>1, <1>3, <2>1
  <2>3. SatAdd(c, n) = c + n
      BY <1>1, <2>2 DEF SatAdd, AddOverflows
  <2> QED
      BY <1>1, <2>1, <2>2, <2>3 DEF Fits
<1> QED
    BY <1>1, <1>2, <1>3

LEMMA RemainingStands == ASSUME UsageTypeOK PROVE RemainingIsUsable
<1> SUFFICES ASSUME active, NEW time \in LatestTimes
             PROVE  LET left == GetUsage(time)
                    IN  /\ lease.kind = "credit" /\ lease.credits < MaxU64 =>
                             \A n \in {left.remaining_credits,
                                      left.remaining_credits + 1} :
                                n # 0 => Accepts([NoUsage EXCEPT !.credits = n,
                                                                 !.time = time],
                                                 left.remaining_credits)
                        /\ lease.kind = "rate" /\ lease.rate < MaxU64 =>
                             \A n \in {left.remaining_rate,
                                      left.remaining_rate + 1} :
                                n # 0 => Accepts([NoUsage EXCEPT !.rate = n,
                                                                 !.time = time],
                                                 left.remaining_rate)
    BY DEF RemainingIsUsable
<1> DEFINE credits == SatSub(lease.credits, account.credits_consumed)
           shown == RateShown(time)
           rate == SatSub(lease.rate, shown)
<1>1. /\ GetUsage(time).remaining_credits = credits
      /\ GetUsage(time).remaining_rate = rate
    BY DEF GetUsage
<1>2. /\ lease.credits \in U64 /\ lease.rate \in U64
      /\ account.credits_consumed \in U64 /\ account.rate_consumed \in U64
      /\ RateWindowConsumed(time) \in U64
    BY UsageInputs, WindowIsTyped DEF UsageTypeOK, Lease, Account
<1>3. credits \in Nat /\ rate \in Nat
    BY <1>2, WidthAssumption DEF SatSub, U64, RateShown
<1>4. ASSUME lease.kind = "credit", lease.credits < MaxU64,
             NEW n \in {credits, credits + 1}, n # 0
      PROVE  Accepts([NoUsage EXCEPT !.credits = n, !.time = time], credits)
  <2> DEFINE u == [NoUsage EXCEPT !.credits = n, !.time = time]
  <2>1. u.credits = n /\ u.rate = 0 /\ u.credits + u.rate = n
      BY <1>3 DEF NoUsage
  <2>2. Fits(account.credits_consumed, n, lease.credits) <=> n <= credits
      BY <1>2, <1>4, FitsWhatIsLeft
  <2> HIDE DEF u, credits
  <2>3. CreditFits(u) <=> n <= credits
      BY <1>4, <2>1, <2>2 DEF CreditFits, Requested
  <2>4. AuthorizeUsage(u) = {IF CreditFits(u) THEN "ACCEPTED" ELSE "REJECTED"}
      BY <1>4 DEF AuthorizeUsage, UsageDecisions
  <2>5. Accepts(u, credits)
      BY <2>1, <2>3, <2>4 DEF Accepts
  <2> QED
      BY <2>5 DEF u
<1>5. ASSUME lease.kind = "rate", lease.rate < MaxU64,
             NEW n \in {rate, rate + 1}, n # 0
      PROVE  Accepts([NoUsage EXCEPT !.rate = n, !.time = time], rate)
  <2> DEFINE u == [NoUsage EXCEPT !.rate = n, !.time = time]
             c == RateWindowConsumed(time)
  <2>1. u.rate = n /\ u.credits = 0 /\ u.time = time /\ u.credits + u.rate = n
      BY <1>3 DEF NoUsage
  <2>2. rate = SatSub(lease.rate, c)
    <3>1. CASE lease.rate # 0
        BY <3>1 DEF RateShown
    <3>2. CASE lease.rate = 0
      <4>1. \A k \in U64 : SatSub(0, k) = 0
          BY WidthAssumption DEF SatSub, U64
      <4> QED
          BY <1>2, <3>2, <4>1 DEF RateShown
    <3> QED
        BY <3>1, <3>2
  <2> HIDE DEF c
  <2>3. Fits(c, n, lease.rate) <=> n <= rate
    <3>1. n \in {SatSub(lease.rate, c), SatSub(lease.rate, c) + 1}
        BY <1>5, <2>2
    <3>2. c \in U64
        BY <1>2 DEF c
    <3>3. Fits(c, n, lease.rate) <=> n <= SatSub(lease.rate, c)
        BY <1>2, <1>5, <3>1, <3>2, FitsWhatIsLeft
    <3> QED
        BY <2>2, <3>3
  <2> HIDE DEF u, rate
  <2>4. RateFits(u) <=> n <= rate
      BY <1>5, <2>1, <2>3 DEF RateFits, Requested, c
  <2>5. AuthorizeUsage(u) = {IF RateFits(u) THEN "ACCEPTED" ELSE "REJECTED"}
      BY <1>5 DEF AuthorizeUsage, UsageDecisions
  <2>6. Accepts(u, rate)
      BY <2>1, <2>4, <2>5 DEF Accepts
  <2> QED
      BY <2>6 DEF u
<1> QED
    BY <1>1, <1>4, <1>5

(* What get_usage reports as remaining is accepted to the last unit and    *)
(* not beyond it, in every state that consumes, returns and late reports   *)
(* lead to, over any window.                                               *)
THEOREM RemainingCanBeUsed == Spec => []RemainingIsUsable
<1>1. UsageInv => RemainingIsUsable
    BY RemainingStands DEF UsageInv
<1> QED
    BY <1>1, UsageInvariant, PTL
=============================================================================
