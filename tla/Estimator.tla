----------------------------- MODULE Estimator -----------------------------
(***************************************************************************)
(* From the task classes of a request to a grant: the gate-count           *)
(* arithmetic of the baseline estimator, the sum that the core forms over  *)
(* the classes of a request (estimate_request), the capacity it derives    *)
(* from the accounting span, and the decision of the credit or the rate    *)
(* policy.  One device takes one request after the other and keeps what it *)
(* granted; the end of grants is the business of Admission.                *)
(***************************************************************************)
EXTENDS Policies

CONSTANTS
    DeviceProfiles, \* devices: timing, baseline circuit, limits, span
    Classes,        \* task classes that requests are made of
    Budgets,        \* quantum budgets of requests, walltime less overhead
    Instances,      \* credit and rate policy instances
    MaxClasses,     \* bound on the classes of one request
    MaxGrants       \* bound on the requests granted

ASSUME BoundsAssumption == MaxClasses \in Nat /\ MaxGrants \in Nat

TimingFields ==
    {"one_q_gate_ns", "two_q_gate_ns", "measurement_ns",
     "one_q_gate_transfer_ns", "two_q_gate_transfer_ns",
     "measurement_transfer_ns", "compile_ns", "control_overhead_ns",
     "provider_overhead_ns"}

NotANumber == -1    \* a metadata value of another type than u64

(* What an estimate needs of a circuit: a baseline circuit or a task class. *)
Shape ==
    [count : Nat, qubits : Nat, shots : U64, one_q : U64, two_q : U64,
     measurements : U64]

DeviceProfile ==
    [timing : [TimingFields -> U64], baseline : Shape, max_qubits : Nat,
     max_shots : U64, credits : U64, rate : U64, span : U64, jobs : Nat]

\* A class may override timing fields in its metadata.
IsTaskClass(class) ==
    /\ class.shape \in Shape
    /\ DOMAIN class.metadata \subseteq TimingFields
    /\ \A f \in DOMAIN class.metadata :
           class.metadata[f] \in U64 \cup {NotANumber}

\* Registered profiles pass qhw_adm_validate_device_profile.
ValidProfile(profile) ==
    /\ profile.max_qubits # 0
    /\ profile.baseline.qubits \in 1..profile.max_qubits
    /\ profile.baseline.shots # 0 /\ profile.baseline.measurements # 0
    /\ profile.max_shots # 0 => profile.baseline.shots <= profile.max_shots
    /\ profile.timing.one_q_gate_ns # 0
    /\ profile.timing.two_q_gate_ns # 0
    /\ profile.timing.measurement_ns # 0

\* validate_request asks a class for repetitions, qubits and shots.
ValidClass(class) ==
    class.shape.count # 0 /\ class.shape.qubits # 0 /\ class.shape.shots # 0

PolicyInstance ==
    [kind : {"credit", "rate"}, over : U64, ppm : 0..PpmScale, slice : U64, ttl : U64]

ASSUME EstimatorInputsAssumption ==
    /\ DeviceProfiles \subseteq {d \in DeviceProfile : ValidProfile(d)}
    /\ \A c \in Classes : IsTaskClass(c) /\ ValidClass(c)
    /\ Instances \subseteq PolicyInstance
    /\ Budgets \subseteq U64 \ {0}

VARIABLES
    device,     \* the device and its profile
    policy,     \* the policy instance that decides on it
    estimated,  \* classes of the current request that were estimated
    estimate,   \* out_estimate of estimate_request, or why it failed
    exact,      \* history: the time of those classes, without a width
    unfit,      \* history: one of them does not fit the device or is untyped
    committed,  \* units of the grants so far
    grants,     \* history: number of grants
    work,       \* history: the estimated time that was granted
    grant       \* the last decision and what it was made from

vars == <<device, policy, estimated, estimate, exact, unfit, committed,
          grants, work, grant>>

-----------------------------------------------------------------------------
(* Checked arithmetic: a sum or product that does not fit ends the estimate *)

Overflow == -1

\* Mutant: the product wraps.
WrappingMul(a, b) == (a * b) % (MaxU64 + 1)

CheckedMul(a, b) ==
    IF a = Overflow \/ b = Overflow THEN Overflow
    ELSE IF MulOverflows(a, b) THEN Overflow ELSE a * b

CheckedAdd(a, b) ==
    IF a = Overflow \/ b = Overflow THEN Overflow
    ELSE IF AddOverflows(a, b) THEN Overflow ELSE a + b

AccumulateTerm(count, unit, total) == CheckedAdd(total, CheckedMul(count, unit))

-----------------------------------------------------------------------------
(* The baseline estimator                                                  *)

Failed(rc) == [transfer |-> 0, total |-> 0, rc |-> rc, execution |-> 0,
               measurement |-> 0, compile |-> 0, control |-> 0, units |-> 0]

NoTime == Failed("OK")

GateNs(shape, t) ==
    AccumulateTerm(shape.two_q, t.two_q_gate_ns,
        AccumulateTerm(shape.one_q, t.one_q_gate_ns, 0))

MeasurementNs(shape, t) == CheckedMul(shape.measurements, t.measurement_ns)

ExecutionNs(shape, t) ==
    CheckedMul(CheckedAdd(GateNs(shape, t), MeasurementNs(shape, t)),
               shape.shots)

\* A circuit is transferred once, whatever its shots.
TransferNs(shape, t) ==
    AccumulateTerm(shape.measurements, t.measurement_transfer_ns,
        AccumulateTerm(shape.two_q, t.two_q_gate_transfer_ns,
            AccumulateTerm(shape.one_q, t.one_q_gate_transfer_ns, 0)))

TotalNs(shape, t) ==
    CheckedAdd(
        CheckedAdd(
            CheckedAdd(
                CheckedAdd(ExecutionNs(shape, t), TransferNs(shape, t)),
                t.compile_ns),
            t.control_overhead_ns),
        t.provider_overhead_ns)

\* The repetitions of a class multiply every part.
Repeated(shape, t) ==
    [rc |-> "OK",
     execution |-> CheckedMul(ExecutionNs(shape, t), shape.count),
     measurement |-> CheckedMul(CheckedMul(MeasurementNs(shape, t),
                                           shape.shots), shape.count),
     compile |-> CheckedMul(t.compile_ns, shape.count),
     transfer |-> CheckedMul(TransferNs(shape, t), shape.count),
     control |-> CheckedMul(t.control_overhead_ns, shape.count),
     total |-> CheckedMul(TotalNs(shape, t), shape.count),
     units |-> 0]

Parts == {"execution", "measurement", "compile", "transfer", "control",
          "total", "units"}

OrOverflow(e) == IF \E part \in Parts : e[part] = Overflow
                 THEN Failed("INVAL") ELSE e

\* What validation left open: the limits of the device.
ShapeInvalid(profile, shape) ==
    \/ shape.qubits > profile.max_qubits
    \/ profile.max_shots # 0 /\ shape.shots > profile.max_shots

EstimateShape(profile, shape, timing) ==
    IF ShapeInvalid(profile, shape) THEN Failed("INVAL")
    ELSE OrOverflow(Repeated(shape, timing))

\* The baseline circuit runs once, with the timing of the device.
EstimateBaseline(profile) ==
    EstimateShape(profile, [profile.baseline EXCEPT !.count = 1],
                  profile.timing)

BaselineNs(profile) == EstimateBaseline(profile).total

BaselineFails(profile) ==
    EstimateBaseline(profile).rc # "OK" \/ BaselineNs(profile) = 0

TaskTiming(profile, class) ==
    [f \in TimingFields |-> IF f \in DOMAIN class.metadata
                            THEN class.metadata[f] ELSE profile.timing[f]]

Untyped(class) ==
    \E f \in DOMAIN class.metadata : class.metadata[f] = NotANumber

\* Mutant: the units are rounded down.
UnitsRoundedDown(total, baseline) ==
    IF total \div baseline = 0 THEN 1 ELSE total \div baseline

\* Even a class that takes no time is charged a unit.
UnitsFor(total, baseline) ==
    IF CeilDiv(total, baseline) = 0 THEN 1 ELSE CeilDiv(total, baseline)

EstimateTask(profile, class) ==
    LET task == EstimateShape(profile, class.shape, TaskTiming(profile, class))
    IN  IF Untyped(class) THEN Failed("INVAL")
        ELSE IF task.rc # "OK" THEN task
        ELSE IF BaselineFails(profile) THEN Failed("ESTIMATOR")
        ELSE [task EXCEPT !.units = UnitsFor(task.total, BaselineNs(profile))]

-----------------------------------------------------------------------------
(* Requests                                                                *)

AddEstimate(total, part) ==
    OrOverflow([rc |-> "OK",
                execution |-> CheckedAdd(total.execution, part.execution),
                measurement |-> CheckedAdd(total.measurement, part.measurement),
                compile |-> CheckedAdd(total.compile, part.compile),
                transfer |-> CheckedAdd(total.transfer, part.transfer),
                control |-> CheckedAdd(total.control, part.control),
                total |-> CheckedAdd(total.total, part.total),
                units |-> CheckedAdd(total.units, part.units)])

\* What the classes take, in arithmetic that does not overflow.
ExactParts(shape, t) ==
    LET measured == shape.measurements * t.measurement_ns
        execution == shape.shots * (shape.one_q * t.one_q_gate_ns
                        + shape.two_q * t.two_q_gate_ns + measured)
        transfer == shape.one_q * t.one_q_gate_transfer_ns
                        + shape.two_q * t.two_q_gate_transfer_ns
                        + shape.measurements * t.measurement_transfer_ns
    IN  [execution |-> shape.count * execution,
         measurement |-> shape.count * shape.shots * measured,
         compile |-> shape.count * t.compile_ns,
         transfer |-> shape.count * transfer,
         control |-> shape.count * t.control_overhead_ns,
         total |-> shape.count * (execution + transfer + t.compile_ns
                        + t.control_overhead_ns + t.provider_overhead_ns)]

Times == Parts \ {"units"}

NothingExact == [part \in Times |-> 0]

\* One round of the loop of estimate_request.
EstimateClass(class) ==
    /\ estimate.rc = "OK"
    /\ estimated < MaxClasses
    /\ LET part == EstimateTask(device, class)
           precise == ExactParts(class.shape, TaskTiming(device, class))
       IN  /\ estimate' = IF part.rc = "OK" THEN AddEstimate(estimate, part)
                          ELSE part
           /\ exact' = IF Untyped(class) THEN exact
                       ELSE [p \in Times |-> exact[p] + precise[p]]
           /\ unfit' = (Untyped(class) \/ ShapeInvalid(device, class.shape))
    /\ estimated' = estimated + 1
    /\ UNCHANGED <<device, policy, committed, grants, work, grant>>

NoEstimate ==
    /\ estimated' = 0
    /\ estimate' = NoTime
    /\ exact' = NothingExact
    /\ unfit' = FALSE

\* The request fails with its estimate.
GiveUp ==
    /\ estimate.rc # "OK"
    /\ NoEstimate
    /\ UNCHANGED <<device, policy, committed, grants, work, grant>>

-----------------------------------------------------------------------------
(* Capacity and the decision                                               *)

\* Mutant: the derived credits are rounded up.
DerivedCreditsUp(profile) ==
    IF profile.credits # 0 THEN profile.credits
    ELSE CeilDiv(profile.span, BaselineNs(profile))

\* qhw_adm_derive_total_credits and qhw_adm_derive_total_rate.
DerivedCredits(profile) ==
    IF profile.credits # 0 THEN profile.credits
    ELSE profile.span \div BaselineNs(profile)

DerivedRate(profile) ==
    IF profile.rate # 0 THEN profile.rate
    ELSE CeilDiv(profile.span, BaselineNs(profile))

View ==
    LET credits == IF policy.kind = "credit" THEN committed ELSE 0
        rate == IF policy.kind = "rate" THEN committed ELSE 0
    IN  [device_state |-> "AVAILABLE",
         total_credits |-> DerivedCredits(device), available_credits |-> 0,
         credits_reserved |-> credits, scoped_credits |-> credits,
         external_credits |-> 0,
         effective_credits |-> SatSub(DerivedCredits(device), credits),
         total_rate |-> DerivedRate(device),
         effective_rate |-> SatSub(DerivedRate(device), rate)]

AnswerWithin(budget) ==
    IF policy.kind = "credit"
    THEN CreditAnswer(policy, estimate.units, CreditView(policy, View))
    ELSE RateAnswer(policy, device, estimate.units, budget, View)

\* The request is decided and the next one may come.
Decide(budget) ==
    /\ estimate.rc = "OK"
    /\ estimated # 0
    /\ grants < MaxGrants
    /\ LET answer == AnswerWithin(budget)
           accepted == answer.decision = "ACCEPTED"
       IN  /\ grant' = [accepted |-> accepted, credits |-> answer.credits,
                        rate |-> answer.rate, budget |-> budget,
                        total |-> estimate.total]
           /\ committed' = committed + answer.credits + answer.rate
           /\ grants' = IF accepted THEN grants + 1 ELSE grants
           /\ work' = IF accepted THEN work + estimate.total ELSE work
    /\ NoEstimate
    /\ UNCHANGED <<device, policy>>

NoGrant ==
    [credits |-> 0, rate |-> 0, total |-> 0, budget |-> 1, accepted |-> FALSE]

Init ==
    /\ device \in DeviceProfiles
    /\ policy \in Instances
    /\ ~InitFails(policy, device)
    /\ estimated = 0
    /\ estimate = NoTime
    /\ exact = NothingExact
    /\ unfit = FALSE
    /\ committed = 0
    /\ grants = 0
    /\ work = 0
    /\ grant = NoGrant

Next ==
    \/ \E class \in Classes : EstimateClass(class)
    \/ GiveUp
    \/ \E budget \in Budgets : Decide(budget)

Spec == Init /\ [][Next]_vars

-----------------------------------------------------------------------------
(* Properties                                                              *)

(* No intermediate sum or product of the estimator shrinks an estimate, and *)
(* none fails one that fits: an estimate is exact in every part, and one    *)
(* whose classes fit the device is refused only if the time of the request, *)
(* with a unit a class for the rounding, takes more than 64 bits.           *)
EstimatesAreExact ==
    /\ estimate.rc = "OK" => \A part \in Times : estimate[part] = exact[part]
    /\ estimate.rc = "INVAL" /\ ~unfit => exact.total + estimated > MaxU64

(* Work expressed in baseline units never loses time: running the units     *)
(* would take at least as long as the request, and rounding adds at most    *)
(* one unit a class.                                                        *)
UnitsCoverTheTime ==
    estimate.rc = "OK" =>
        LET unit == BaselineNs(device)
        IN  /\ exact.total <= estimate.units * unit
            /\ estimate.units * unit <= exact.total + estimated * unit

(* A device whose credits are derived from its accounting span is never     *)
(* promised more time than the span plus what its policy overcommits,       *)
(* however the classes of its requests are rounded.                         *)
PromisesFitTheSpan ==
    policy.kind = "credit" /\ device.credits = 0 /\ grants # 0 =>
        work <= device.span
                + ConfiguredOvercommit(policy, DerivedCredits(device))
                    * BaselineNs(device)

(* What is granted suffices: credits pay for all of the request's time, and *)
(* a rate, kept up over the quantum budget, delivers all of its units.      *)
GrantsSuffice ==
    grant.accepted =>
        IF policy.kind = "credit"
        THEN grant.total <= grant.credits * BaselineNs(device)
        ELSE grant.total * device.span
               <= grant.rate * grant.budget * BaselineNs(device)
=============================================================================
