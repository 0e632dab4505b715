-------------------------- MODULE EstimatorProofs --------------------------
(***************************************************************************)
(* The estimates of requests and what is promised on them, for every word  *)
(* width, timing, task class and policy: checked arithmetic is exact or    *)
(* fails, rounding to baseline units loses no time, and the units that are *)
(* granted neither exceed the span nor fall short of the work.             *)
(***************************************************************************)
EXTENDS Estimator, CapacityTheorems

-----------------------------------------------------------------------------
(* Products                                                                *)

LEMMA TimesMonotone ==
    ASSUME NEW a \in Nat, NEW b \in Nat, NEW c \in Nat, b <= c
    PROVE  a * b <= a * c /\ b * a <= c * a
<1>1. PICK d \in Nat : c = b + d
  <2>1. c - b \in Nat /\ c = b + (c - b)
      OBVIOUS
  <2> QED
      BY <2>1
<1>2. a * c = a * b + a * d /\ a * d \in Nat /\ a * b \in Nat
    BY <1>1, NatProduct
<1>3. b * a = a * b /\ c * a = a * c
    OBVIOUS
<1> QED
    BY <1>2, <1>3

LEMMA TimesAtLeast ==
    ASSUME NEW a \in Nat, NEW b \in Nat \ {0} PROVE a <= a * b /\ a <= b * a
<1>1. a * 1 <= a * b /\ 1 * a <= b * a
    BY TimesMonotone
<1> QED
    BY <1>1

\* What checked arithmetic makes of a number.
Fit(n) == IF n > MaxU64 THEN Overflow ELSE n

(* A checked product overflows exactly when it does not fit.               *)
LEMMA MulOverflowsExactly ==
    ASSUME NEW a \in Nat, NEW b \in Nat
    PROVE  MulOverflows(a, b) <=> a * b > MaxU64
<1> DEFINE q == MaxU64 \div a
           r == MaxU64 % a
<1>1. CASE a = 0
    BY <1>1, WidthAssumption DEF MulOverflows
<1>2. CASE a # 0
  <2>1. q \in Nat /\ r \in Nat /\ r < a /\ MaxU64 = a * q + r
      BY <1>2, WidthAssumption
  <2> HIDE DEF q, r
  <2>2. CASE b <= q
    <3>1. a * b <= a * q /\ a * b \in Nat /\ a * q \in Nat
        BY <2>1, <2>2, TimesMonotone, NatProduct
    <3>2. a * b <= MaxU64
        BY <2>1, <3>1
    <3> QED
        BY <2>1, <2>2, <3>1, <3>2, WidthAssumption DEF MulOverflows, q
  <2>3. CASE b > q
    <3>1. a * (q + 1) <= a * b /\ a * b \in Nat /\ a * q \in Nat
        BY <2>1, <2>3, TimesMonotone, NatProduct
    <3>2. a * (q + 1) = a * q + a
        BY <2>1
    <3>3. a * b > MaxU64
        BY <2>1, <3>1, <3>2
    <3> QED
        BY <1>2, <2>3, <3>3 DEF MulOverflows, q
  <2> QED
      BY <2>1, <2>2, <2>3
<1> QED
    BY <1>1, <1>2

LEMMA FitKeeps ==
    ASSUME NEW n \in Nat
    PROVE  /\ Fit(n) = Overflow <=> n > MaxU64
           /\ Fit(n) # Overflow => Fit(n) = n /\ Fit(n) \in U64
BY WidthAssumption DEF Fit, Overflow, U64

LEMMA FitWord == ASSUME NEW n \in U64 PROVE n \in Nat /\ Fit(n) = n
BY WidthAssumption DEF Fit, U64

(* A product that comes after an overflow fails, as the full one would.    *)
LEMMA FitTimes ==
    ASSUME NEW a \in Nat, NEW b \in Nat, b # 0 \/ a <= MaxU64, b # Overflow
    PROVE  CheckedMul(Fit(a), b) = Fit(a * b)
<1>1. CASE a > MaxU64
  <2>1. b # 0 /\ a <= a * b /\ a * b \in Nat
      BY <1>1, TimesAtLeast, NatProduct, WidthAssumption
  <2>2. a * b > MaxU64
      BY <1>1, <2>1, WidthAssumption
  <2> QED
      BY <1>1, <2>2 DEF CheckedMul, Fit
<1>2. CASE a <= MaxU64
  <2>1. Fit(a) = a /\ a # Overflow
      BY <1>2, WidthAssumption DEF Fit, Overflow
  <2>2. a * b > MaxU64 <=> MulOverflows(a, b)
      BY MulOverflowsExactly
  <2> QED
      BY <2>1, <2>2 DEF CheckedMul, Fit
<1> QED
    BY <1>1, <1>2, WidthAssumption

LEMMA FitPlus ==
    ASSUME NEW a \in Nat, NEW b \in Nat
    PROVE  CheckedAdd(Fit(a), Fit(b)) = Fit(a + b)
<1>1. CASE a > MaxU64 \/ b > MaxU64
  <2>1. a + b > MaxU64
      BY <1>1, WidthAssumption
  <2> QED
      BY <1>1, <2>1 DEF CheckedAdd, Fit
<1>2. CASE a <= MaxU64 /\ b <= MaxU64
    BY <1>2, WidthAssumption DEF CheckedAdd, Fit, Overflow, AddOverflows
<1> QED
    BY <1>1, <1>2, WidthAssumption

LEMMA FitPlusWord ==
    ASSUME NEW a \in Nat, NEW b \in U64
    PROVE  CheckedAdd(Fit(a), b) = Fit(a + b) /\ a + b \in Nat
<1>1. b \in Nat /\ Fit(b) = b
    BY FitWord
<1> QED
    BY <1>1, FitPlus

LEMMA FitWordTimes ==
    ASSUME NEW a \in U64, NEW b \in U64
    PROVE  CheckedMul(a, b) = Fit(a * b) /\ a * b \in Nat
<1>1. a \in Nat /\ b \in Nat /\ a <= MaxU64 /\ Fit(a) = a /\ b # Overflow
    BY WidthAssumption, FitWord DEF U64, Overflow
<1> QED
    BY <1>1, FitTimes, NatProduct

LEMMA FitTerm ==
    ASSUME NEW a \in U64, NEW b \in U64, NEW n \in Nat
    PROVE  AccumulateTerm(a, b, Fit(n)) = Fit(n + a * b) /\ n + a * b \in Nat
<1>1. CheckedMul(a, b) = Fit(a * b) /\ a * b \in Nat
    BY FitWordTimes
<1> QED
    BY <1>1, FitPlus DEF AccumulateTerm

-----------------------------------------------------------------------------
(* The time of a circuit                                                   *)

Timings == [TimingFields -> U64]

\* A circuit that runs: the baseline circuit or a class that was validated.
Runs(shape) == shape \in Shape /\ shape.count # 0 /\ shape.shots # 0

Gates(shape, t) ==
    shape.one_q * t.one_q_gate_ns + shape.two_q * t.two_q_gate_ns

Measured(shape, t) == shape.measurements * t.measurement_ns

Executed(shape, t) == shape.shots * (Gates(shape, t) + Measured(shape, t))

Transferred(shape, t) ==
    shape.one_q * t.one_q_gate_transfer_ns
      + shape.two_q * t.two_q_gate_transfer_ns
      + shape.measurements * t.measurement_transfer_ns

Whole(shape, t) ==
    Executed(shape, t) + Transferred(shape, t) + t.compile_ns
      + t.control_overhead_ns + t.provider_overhead_ns

LEMMA ShapeWords ==
    ASSUME NEW shape, Runs(shape), NEW t \in Timings
    PROVE  /\ shape.one_q \in U64 /\ shape.two_q \in U64
           /\ shape.measurements \in U64 /\ shape.shots \in U64
           /\ shape.shots \in Nat \ {0} /\ shape.count \in Nat \ {0}
           /\ \A f \in TimingFields : t[f] \in U64 /\ t[f] \in Nat
BY WidthAssumption DEF Runs, Shape, Timings, U64

LEMMA GatesFit ==
    ASSUME NEW shape, Runs(shape), NEW t \in Timings
    PROVE  /\ GateNs(shape, t) = Fit(Gates(shape, t))
           /\ MeasurementNs(shape, t) = Fit(Measured(shape, t))
           /\ TransferNs(shape, t) = Fit(Transferred(shape, t))
           /\ Gates(shape, t) \in Nat /\ Measured(shape, t) \in Nat
           /\ Transferred(shape, t) \in Nat
<1> DEFINE a == shape.one_q * t.one_q_gate_ns
           x == shape.one_q * t.one_q_gate_transfer_ns
           y == x + shape.two_q * t.two_q_gate_transfer_ns
<1>1. /\ shape.one_q \in U64 /\ shape.two_q \in U64
      /\ shape.measurements \in U64
      /\ t.one_q_gate_ns \in U64 /\ t.two_q_gate_ns \in U64
      /\ t.measurement_ns \in U64 /\ t.one_q_gate_transfer_ns \in U64
      /\ t.two_q_gate_transfer_ns \in U64 /\ t.measurement_transfer_ns \in U64
    BY ShapeWords DEF TimingFields
<1>2. Fit(0) = 0
    BY WidthAssumption DEF Fit
<1>3. AccumulateTerm(shape.one_q, t.one_q_gate_ns, 0) = Fit(a) /\ a \in Nat
  <2>1. /\ AccumulateTerm(shape.one_q, t.one_q_gate_ns, Fit(0)) = Fit(0 + a)
        /\ 0 + a \in Nat /\ a \in Nat
      BY <1>1, FitTerm, FitWordTimes
  <2>2. 0 + a = a
      BY <2>1
  <2> QED
      BY <1>2, <2>1, <2>2
<1>4. /\ AccumulateTerm(shape.two_q, t.two_q_gate_ns, Fit(a))
           = Fit(a + shape.two_q * t.two_q_gate_ns)
      /\ a + shape.two_q * t.two_q_gate_ns \in Nat
  <2>1. a \in Nat
      BY <1>3
  <2> HIDE DEF a
  <2> QED
      BY <1>1, <2>1, FitTerm
<1>5. GateNs(shape, t) = Fit(Gates(shape, t)) /\ Gates(shape, t) \in Nat
    BY <1>3, <1>4 DEF GateNs, Gates
<1>6. /\ AccumulateTerm(shape.one_q, t.one_q_gate_transfer_ns, 0) = Fit(x)
      /\ x \in Nat
  <2>1. /\ AccumulateTerm(shape.one_q, t.one_q_gate_transfer_ns, Fit(0))
             = Fit(0 + x)
        /\ 0 + x \in Nat /\ x \in Nat
      BY <1>1, FitTerm, FitWordTimes
  <2>2. 0 + x = x
      BY <2>1
  <2> QED
      BY <1>2, <2>1, <2>2
<1>7. /\ AccumulateTerm(shape.two_q, t.two_q_gate_transfer_ns, Fit(x)) = Fit(y)
      /\ y \in Nat
  <2> HIDE DEF x
  <2> QED
      BY <1>1, <1>6, FitTerm
<1>8. /\ AccumulateTerm(shape.measurements, t.measurement_transfer_ns, Fit(y))
           = Fit(y + shape.measurements * t.measurement_transfer_ns)
      /\ y + shape.measurements * t.measurement_transfer_ns \in Nat
  <2> HIDE DEF y
  <2> QED
      BY <1>1, <1>7, FitTerm
<1>9. /\ TransferNs(shape, t) = Fit(Transferred(shape, t))
      /\ Transferred(shape, t) \in Nat
    BY <1>6, <1>7, <1>8 DEF TransferNs, Transferred
<1>10. MeasurementNs(shape, t) = Fit(Measured(shape, t)) /\ Measured(shape, t) \in Nat
    BY <1>1, FitWordTimes DEF MeasurementNs, Measured
<1> QED
    BY <1>5, <1>9, <1>10

LEMMA ExecutionFits ==
    ASSUME NEW shape, Runs(shape), NEW t \in Timings
    PROVE  /\ ExecutionNs(shape, t) = Fit(Executed(shape, t))
           /\ Executed(shape, t) \in Nat
<1> DEFINE n == Gates(shape, t) + Measured(shape, t)
<1>1. /\ GateNs(shape, t) = Fit(Gates(shape, t))
      /\ MeasurementNs(shape, t) = Fit(Measured(shape, t))
      /\ Gates(shape, t) \in Nat /\ Measured(shape, t) \in Nat
    BY GatesFit
<1>2. CheckedAdd(GateNs(shape, t), MeasurementNs(shape, t)) = Fit(n) /\ n \in Nat
    BY <1>1, FitPlus
<1>3. shape.shots \in Nat \ {0} /\ shape.shots # Overflow
    BY ShapeWords DEF Overflow
<1> HIDE DEF n
<1>4. CheckedMul(Fit(n), shape.shots) = Fit(n * shape.shots)
    BY <1>2, <1>3, FitTimes
<1>5. n * shape.shots = shape.shots * n /\ shape.shots * n \in Nat
    BY <1>2, <1>3, NatProduct
<1> QED
    BY <1>2, <1>4, <1>5 DEF ExecutionNs, Executed, n

LEMMA TotalFits ==
    ASSUME NEW shape, Runs(shape), NEW t \in Timings
    PROVE  /\ TotalNs(shape, t) = Fit(Whole(shape, t))
           /\ Whole(shape, t) \in Nat
<1> DEFINE n1 == Executed(shape, t) + Transferred(shape, t)
           n2 == n1 + t.compile_ns
           n3 == n2 + t.control_overhead_ns
           n4 == n3 + t.provider_overhead_ns
<1>1. /\ ExecutionNs(shape, t) = Fit(Executed(shape, t))
      /\ TransferNs(shape, t) = Fit(Transferred(shape, t))
      /\ Executed(shape, t) \in Nat /\ Transferred(shape, t) \in Nat
    BY GatesFit, ExecutionFits
<1>2. /\ t.compile_ns \in U64 /\ t.control_overhead_ns \in U64
      /\ t.provider_overhead_ns \in U64
    BY ShapeWords DEF TimingFields
<1>4. CheckedAdd(Fit(Executed(shape, t)), Fit(Transferred(shape, t))) = Fit(n1)
      /\ n1 \in Nat
    BY <1>1, FitPlus
<1>5. CheckedAdd(Fit(n1), t.compile_ns) = Fit(n2) /\ n2 \in Nat
  <2> HIDE DEF n1
  <2> QED
      BY <1>2, <1>4, FitPlusWord
<1>6. CheckedAdd(Fit(n2), t.control_overhead_ns) = Fit(n3) /\ n3 \in Nat
  <2> HIDE DEF n2
  <2> QED
      BY <1>2, <1>5, FitPlusWord
<1>7. CheckedAdd(Fit(n3), t.provider_overhead_ns) = Fit(n4) /\ n4 \in Nat
  <2> HIDE DEF n3
  <2> QED
      BY <1>2, <1>6, FitPlusWord
<1>8. n4 = Whole(shape, t)
    BY DEF Whole
<1> QED
    BY <1>1, <1>4, <1>5, <1>6, <1>7, <1>8 DEF TotalNs

-----------------------------------------------------------------------------
(* The estimate of a class                                                 *)

LEMMA ExactIs ==
    ASSUME NEW shape, NEW t
    PROVE  ExactParts(shape, t) =
             [execution |-> shape.count * Executed(shape, t),
              measurement |-> shape.count * shape.shots * Measured(shape, t),
              compile |-> shape.count * t.compile_ns,
              transfer |-> shape.count * Transferred(shape, t),
              control |-> shape.count * t.control_overhead_ns,
              total |-> shape.count * Whole(shape, t)]
BY DEF ExactParts, Executed, Transferred, Whole, Gates, Measured

\* A part of what runs `count' times is no longer than the whole.
LEMMA CountedFits ==
    ASSUME NEW n \in Nat, NEW whole \in Nat, n <= whole, NEW count \in Nat \ {0}
    PROVE  /\ CheckedMul(Fit(n), count) = Fit(count * n)
           /\ count * n \in Nat /\ count * n <= count * whole
<1>1. CheckedMul(Fit(n), count) = Fit(n * count)
    BY FitTimes DEF Overflow
<1>2. n * count = count * n /\ count * n \in Nat
    BY NatProduct
<1>3. count * n <= count * whole
    BY TimesMonotone
<1> QED
    BY <1>1, <1>2, <1>3

LEMMA RepeatedFits ==
    ASSUME NEW shape, Runs(shape), NEW t \in Timings
    PROVE  /\ Repeated(shape, t).rc = "OK" /\ Repeated(shape, t).units = 0
           /\ \A p \in Times :
                 /\ ExactParts(shape, t)[p] \in Nat
                 /\ Repeated(shape, t)[p] = Fit(ExactParts(shape, t)[p])
                 /\ ExactParts(shape, t)[p] <= ExactParts(shape, t).total
<1> DEFINE c == shape.count
           w == Whole(shape, t)
           m == shape.shots * Measured(shape, t)
<1>1. /\ c \in Nat \ {0} /\ shape.shots \in Nat \ {0}
      /\ t.compile_ns \in U64 /\ t.control_overhead_ns \in U64
      /\ t.provider_overhead_ns \in U64
    BY ShapeWords DEF TimingFields
<1>2. /\ Gates(shape, t) \in Nat /\ Measured(shape, t) \in Nat
      /\ Transferred(shape, t) \in Nat /\ Executed(shape, t) \in Nat /\ w \in Nat
      /\ TransferNs(shape, t) = Fit(Transferred(shape, t))
      /\ MeasurementNs(shape, t) = Fit(Measured(shape, t))
      /\ ExecutionNs(shape, t) = Fit(Executed(shape, t))
      /\ TotalNs(shape, t) = Fit(w)
    BY GatesFit, ExecutionFits, TotalFits
<1>3. /\ t.compile_ns \in Nat /\ Fit(t.compile_ns) = t.compile_ns
      /\ t.control_overhead_ns \in Nat
      /\ Fit(t.control_overhead_ns) = t.control_overhead_ns
      /\ t.provider_overhead_ns \in Nat
    BY <1>1, FitWord
<1>4. /\ Executed(shape, t) <= w /\ Transferred(shape, t) <= w
      /\ t.compile_ns <= w /\ t.control_overhead_ns <= w
    BY <1>2, <1>3 DEF Whole
<1>5. m \in Nat /\ m <= w /\ CheckedMul(MeasurementNs(shape, t), shape.shots) = Fit(m)
  <2>1. m \in Nat /\ m <= Executed(shape, t)
    <3>1. Gates(shape, t) + Measured(shape, t) \in Nat
          /\ Measured(shape, t) <= Gates(shape, t) + Measured(shape, t)
        BY <1>2
    <3>2. m \in Nat
        BY <1>1, <1>2, NatProduct
    <3>3. m <= shape.shots * (Gates(shape, t) + Measured(shape, t))
        BY <1>1, <1>2, <3>1, TimesMonotone
    <3> QED
        BY <3>2, <3>3 DEF Executed
  <2>2. CheckedMul(Fit(Measured(shape, t)), shape.shots)
          = Fit(Measured(shape, t) * shape.shots)
      BY <1>1, <1>2, FitTimes DEF Overflow
  <2>3. Measured(shape, t) * shape.shots = m
      BY <1>1, <1>2
  <2>4. m <= w
      BY <1>2, <1>4, <2>1
  <2> QED
      BY <1>2, <2>1, <2>2, <2>3, <2>4
<1>6. shape.count * shape.shots * Measured(shape, t) = c * m
    BY <1>1, <1>2
<1> HIDE DEF c, w, m
<1>7. /\ CheckedMul(Fit(Executed(shape, t)), c) = Fit(c * Executed(shape, t))
      /\ c * Executed(shape, t) \in Nat /\ c * Executed(shape, t) <= c * w
    BY <1>1, <1>2, <1>4, CountedFits
<1>8. /\ CheckedMul(Fit(m), c) = Fit(c * m)
      /\ c * m \in Nat /\ c * m <= c * w
    BY <1>1, <1>2, <1>5, CountedFits
<1>9. /\ CheckedMul(t.compile_ns, c) = Fit(c * t.compile_ns)
      /\ c * t.compile_ns \in Nat /\ c * t.compile_ns <= c * w
  <2>1. /\ CheckedMul(Fit(t.compile_ns), c) = Fit(c * t.compile_ns)
        /\ c * t.compile_ns \in Nat /\ c * t.compile_ns <= c * w
      BY <1>1, <1>2, <1>3, <1>4, CountedFits
  <2> QED
      BY <1>3, <2>1
<1>10. /\ CheckedMul(Fit(Transferred(shape, t)), c) = Fit(c * Transferred(shape, t))
       /\ c * Transferred(shape, t) \in Nat /\ c * Transferred(shape, t) <= c * w
    BY <1>1, <1>2, <1>4, CountedFits
<1>11. /\ CheckedMul(t.control_overhead_ns, c) = Fit(c * t.control_overhead_ns)
       /\ c * t.control_overhead_ns \in Nat /\ c * t.control_overhead_ns <= c * w
  <2>1. /\ CheckedMul(Fit(t.control_overhead_ns), c) = Fit(c * t.control_overhead_ns)
        /\ c * t.control_overhead_ns \in Nat /\ c * t.control_overhead_ns <= c * w
      BY <1>1, <1>2, <1>3, <1>4, CountedFits
  <2> QED
      BY <1>3, <2>1
<1>12. CheckedMul(Fit(w), c) = Fit(c * w) /\ c * w \in Nat /\ c * w <= c * w
  <2>1. w <= w
      BY <1>2
  <2> QED
      BY <1>1, <1>2, <2>1, CountedFits
<1>13. ExactParts(shape, t) =
          [execution |-> c * Executed(shape, t), measurement |-> c * m,
           compile |-> c * t.compile_ns, transfer |-> c * Transferred(shape, t),
           control |-> c * t.control_overhead_ns, total |-> c * w]
    BY <1>6, ExactIs DEF c, w
<1>14. Repeated(shape, t) =
          [rc |-> "OK", execution |-> Fit(c * Executed(shape, t)),
           measurement |-> Fit(c * m), compile |-> Fit(c * t.compile_ns),
           transfer |-> Fit(c * Transferred(shape, t)),
           control |-> Fit(c * t.control_overhead_ns), total |-> Fit(c * w),
           units |-> 0]
    BY <1>2, <1>5, <1>7, <1>8, <1>9, <1>10, <1>11, <1>12 DEF Repeated, c
<1> QED
    BY <1>7, <1>8, <1>9, <1>10, <1>11, <1>12, <1>13, <1>14 DEF Times, Parts

LEMMA ShapeEstimated ==
    ASSUME NEW profile, NEW shape, Runs(shape), NEW t \in Timings
    PROVE  /\ EstimateShape(profile, shape, t).rc \in {"OK", "INVAL"}
           /\ EstimateShape(profile, shape, t).rc = "INVAL"
                 => \/ ShapeInvalid(profile, shape)
                    \/ ExactParts(shape, t).total > MaxU64
           /\ EstimateShape(profile, shape, t).rc = "OK"
                 => /\ EstimateShape(profile, shape, t) = Repeated(shape, t)
                    /\ \A p \in Times :
                          EstimateShape(profile, shape, t)[p]
                            = ExactParts(shape, t)[p]
           /\ \A p \in Times : EstimateShape(profile, shape, t)[p] \in U64
<1> DEFINE e == EstimateShape(profile, shape, t)
           r == Repeated(shape, t)
           x == ExactParts(shape, t)
<1>1. \A p : Failed(p).rc = p /\ \A q \in Times : Failed(p)[q] \in U64
    BY WidthAssumption DEF Failed, Times, Parts, U64
<1>2. /\ r.rc = "OK" /\ r.units = 0
      /\ \A p \in Times : x[p] \in Nat /\ r[p] = Fit(x[p]) /\ x[p] <= x.total
    BY RepeatedFits
<1>3. "total" \in Times
    BY DEF Times, Parts
<1> HIDE DEF r, x
<1>4. CASE ShapeInvalid(profile, shape)
    BY <1>1, <1>4 DEF EstimateShape
<1>5. CASE ~ShapeInvalid(profile, shape) /\ \E p \in Parts : r[p] = Overflow
  <2>1. e = Failed("INVAL")
      BY <1>5 DEF EstimateShape, OrOverflow, r
  <2>2. PICK p \in Parts : r[p] = Overflow
      BY <1>5
  <2>3. p \in Times
      BY <1>2, <2>2 DEF Times, Overflow
  <2>4. x[p] > MaxU64
      BY <1>2, <2>2, <2>3, FitKeeps
  <2>5. x.total > MaxU64
      BY <1>2, <1>3, <2>3, <2>4, WidthAssumption
  <2> QED
      BY <1>1, <2>1, <2>5 DEF x
<1>6. CASE ~ShapeInvalid(profile, shape) /\ ~\E p \in Parts : r[p] = Overflow
  <2>1. e = r
      BY <1>6 DEF EstimateShape, OrOverflow, r
  <2>2. \A p \in Times : r[p] = x[p] /\ r[p] \in U64
      BY <1>2, <1>6, FitKeeps DEF Times
  <2> QED
      BY <1>2, <2>1, <2>2 DEF r, x
<1> QED
    BY <1>4, <1>5, <1>6

-----------------------------------------------------------------------------
(* Baseline units                                                          *)

(* A ceiling division covers its dividend, and is less than one too much.  *)
LEMMA CeilDivCovers ==
    ASSUME NEW a \in Nat, NEW b \in Nat \ {0}
    PROVE  /\ CeilDiv(a, b) \in Nat
           /\ a <= CeilDiv(a, b) * b /\ CeilDiv(a, b) * b <= a + b
           /\ CeilDiv(a, b) = 0 => a = 0
<1> DEFINE q == a \div b
           r == a % b
<1>1. q \in Nat /\ r \in Nat /\ r < b /\ a = b * q + r
    OBVIOUS
<1> HIDE DEF q, r
<1>2. q * b = b * q /\ b * q \in Nat /\ (q + 1) * b = b * q + b
    BY <1>1, NatProduct
<1>3. CASE r = 0
  <2>1. CeilDiv(a, b) = q
      BY <1>1, <1>3 DEF CeilDiv, q, r
  <2>2. q = 0 => b * q = 0
      BY <1>1
  <2> QED
      BY <1>1, <1>2, <1>3, <2>1, <2>2
<1>4. CASE r # 0
  <2>1. CeilDiv(a, b) = q + 1
      BY <1>1, <1>4 DEF CeilDiv, q, r
  <2> QED
      BY <1>1, <1>2, <1>4, <2>1
<1> QED
    BY <1>3, <1>4

LEMMA UnitsForCovers ==
    ASSUME NEW a \in U64, NEW b \in Nat \ {0}
    PROVE  /\ UnitsFor(a, b) \in U64 /\ UnitsFor(a, b) >= 1
           /\ a <= UnitsFor(a, b) * b /\ UnitsFor(a, b) * b <= a + b
           /\ UnitsFor(a, b) <= a + 1
<1>1. a \in Nat /\ a <= MaxU64 /\ 1 \in U64
    BY WidthAssumption DEF U64
<1>2. /\ CeilDiv(a, b) \in Nat /\ CeilDiv(a, b) <= a
      /\ a <= CeilDiv(a, b) * b /\ CeilDiv(a, b) * b <= a + b
      /\ CeilDiv(a, b) = 0 => a = 0
    BY <1>1, CeilDivBound, CeilDivCovers
<1>3. CASE CeilDiv(a, b) = 0
    BY <1>1, <1>2, <1>3 DEF UnitsFor
<1>4. CASE CeilDiv(a, b) # 0
  <2>1. UnitsFor(a, b) = CeilDiv(a, b)
      BY <1>4 DEF UnitsFor
  <2> HIDE DEF UnitsFor, CeilDiv
  <2> QED
      BY <1>1, <1>2, <1>4, <2>1, WidthAssumption DEF U64
<1> QED
    BY <1>3, <1>4

-----------------------------------------------------------------------------
(* The estimate of a task                                                  *)

LEMMA BaselineRuns ==
    ASSUME NEW profile \in DeviceProfiles
    PROVE  /\ profile.timing \in Timings
           /\ BaselineNs(profile) \in U64 /\ BaselineNs(profile) \in Nat
           /\ ~BaselineFails(profile) => BaselineNs(profile) \in Nat \ {0}
<1> DEFINE shape == [profile.baseline EXCEPT !.count = 1]
<1>1. /\ profile.timing \in Timings /\ profile.baseline \in Shape
      /\ profile.baseline.shots # 0
    BY EstimatorInputsAssumption DEF DeviceProfile, ValidProfile, Timings
<1>2. Runs(shape)
    BY <1>1 DEF Runs, Shape
<1> HIDE DEF shape
<1>3. "total" \in Times
    BY DEF Times, Parts
<1>4. BaselineNs(profile) \in U64
    BY <1>1, <1>2, <1>3, ShapeEstimated
       DEF BaselineNs, EstimateBaseline, shape
<1> QED
    BY <1>1, <1>4, WidthAssumption DEF BaselineFails, U64

LEMMA TaskRuns ==
    ASSUME NEW profile \in DeviceProfiles, NEW class \in Classes
    PROVE  /\ Runs(class.shape)
           /\ ~Untyped(class) => TaskTiming(profile, class) \in Timings
<1>1. /\ class.shape \in Shape /\ class.shape.count # 0 /\ class.shape.shots # 0
      /\ \A f \in DOMAIN class.metadata :
            class.metadata[f] \in U64 \cup {NotANumber}
    BY EstimatorInputsAssumption DEF IsTaskClass, ValidClass
<1>2. \A f \in TimingFields : profile.timing[f] \in U64
    BY BaselineRuns DEF Timings
<1>3. ASSUME ~Untyped(class) PROVE TaskTiming(profile, class) \in Timings
    BY <1>1, <1>2, <1>3 DEF Untyped, TaskTiming, Timings
<1> QED
    BY <1>1, <1>3 DEF Runs

LEMMA TaskEstimated ==
    ASSUME NEW profile \in DeviceProfiles, NEW class \in Classes,
           NEW e, e = EstimateTask(profile, class),
           NEW x, x = ExactParts(class.shape, TaskTiming(profile, class)),
           NEW unit, unit = BaselineNs(profile)
    PROVE  /\ e.rc \in {"OK", "INVAL", "ESTIMATOR"}
           /\ ~Untyped(class) => \A p \in Times : x[p] \in Nat /\ x[p] <= x.total
           /\ e.rc = "INVAL" => \/ Untyped(class)
                                \/ ShapeInvalid(profile, class.shape)
                                \/ x.total > MaxU64
           /\ e.rc = "OK" =>
                 /\ ~Untyped(class) /\ ~BaselineFails(profile)
                 /\ \A p \in Times : e[p] = x[p] /\ e[p] \in U64
                 /\ e.units \in U64 /\ e.units >= 1 /\ e.units <= x.total + 1
                 /\ x.total <= e.units * unit
                 /\ e.units * unit <= x.total + unit
<1> DEFINE t == TaskTiming(profile, class)
           task == EstimateShape(profile, class.shape, t)
<1>1. Runs(class.shape) /\ (~Untyped(class) => t \in Timings)
    BY TaskRuns
<1>2. \A rc : Failed(rc).rc = rc
    BY DEF Failed
<1>3. "total" \in Times
    BY DEF Times, Parts
<1>4. CASE Untyped(class)
    BY <1>2, <1>4 DEF EstimateTask
<1>5. CASE ~Untyped(class)
  <2> HIDE DEF t
  <2>1. t \in Timings
      BY <1>1, <1>5
  <2>2. \A p \in Times : x[p] \in Nat /\ x[p] <= x.total
      BY <1>1, <2>1, RepeatedFits DEF t
  <2>3. /\ task.rc \in {"OK", "INVAL"}
        /\ task.rc = "INVAL"
             => ShapeInvalid(profile, class.shape) \/ x.total > MaxU64
        /\ task.rc = "OK" => /\ \A p \in Times : task[p] = x[p]
                             /\ task = Repeated(class.shape, t)
        /\ \A p \in Times : task[p] \in U64
      BY <1>1, <2>1, ShapeEstimated DEF t
  <2> HIDE DEF task
  <2>4. e = IF task.rc # "OK" THEN task
            ELSE IF BaselineFails(profile) THEN Failed("ESTIMATOR")
            ELSE [task EXCEPT !.units = UnitsFor(task.total, unit)]
      BY <1>5 DEF EstimateTask, task, t
  <2>5. CASE task.rc # "OK" \/ BaselineFails(profile)
      BY <1>2, <1>5, <2>2, <2>3, <2>4, <2>5
  <2>6. CASE task.rc = "OK" /\ ~BaselineFails(profile)
    <3>1. unit \in Nat \ {0} /\ task.total \in U64 /\ task.total = x.total
        BY <1>3, <2>3, <2>6, BaselineRuns
    <3> DEFINE n == UnitsFor(task.total, unit)
    <3>2. /\ n \in U64 /\ n >= 1
          /\ x.total <= n * unit /\ n * unit <= x.total + unit
          /\ n <= x.total + 1
        BY <3>1, UnitsForCovers
    <3> HIDE DEF n
    <3>3. e = [task EXCEPT !.units = n]
        BY <2>4, <2>6 DEF n
    <3>4. e.units = n /\ e.rc = "OK" /\ \A p \in Times : e[p] = task[p]
      <4>1. task = Repeated(class.shape, t)
          BY <2>3, <2>6
      <4> QED
          BY <2>6, <3>3, <4>1 DEF Repeated, Times, Parts
    <3> QED
        BY <1>5, <2>2, <2>3, <2>6, <3>2, <3>4
  <2> QED
      BY <2>5, <2>6
<1> QED
    BY <1>4, <1>5

-----------------------------------------------------------------------------
(* The sum over the classes of a request                                   *)

\* What `n' classes that take the times x add up to in the estimate e.
Summed(e, x, n, unit) ==
    /\ \A p \in Times : e[p] = x[p] /\ e[p] \in U64
    /\ e.units \in U64 /\ e.units <= x.total + n
    /\ x.total <= e.units * unit
    /\ e.units * unit <= x.total + n * unit

AllParts(x) == \A p \in Times : x[p] \in Nat /\ x[p] <= x.total

LEMMA PartAdded ==
    ASSUME NEW a \in U64, NEW b \in U64
    PROVE  /\ CheckedAdd(a, b) = Fit(a + b)
           /\ CheckedAdd(a, b) = Overflow <=> a + b > MaxU64
           /\ CheckedAdd(a, b) # Overflow
                => CheckedAdd(a, b) = a + b /\ CheckedAdd(a, b) \in U64
<1>1. a \in Nat /\ b \in Nat /\ Fit(a) = a /\ Fit(b) = b
    BY FitWord
<1>2. CheckedAdd(a, b) = Fit(a + b) /\ a + b \in Nat
    BY <1>1, FitPlus
<1> QED
    BY <1>2, FitKeeps

LEMMA EstimatesAdd ==
    ASSUME NEW e, NEW x, NEW n \in Nat, NEW unit \in Nat,
           Summed(e, x, n, unit), AllParts(x),
           NEW d, NEW y, Summed(d, y, 1, unit), AllParts(y),
           NEW z, \A p \in Times : z[p] = x[p] + y[p],
           NEW s, s = AddEstimate(e, d)
    PROVE  /\ s.rc \in {"OK", "INVAL"}
           /\ s.rc = "OK" => Summed(s, z, n + 1, unit) /\ s.units = e.units + d.units
           /\ s.rc = "INVAL" => z.total + (n + 1) > MaxU64
<1> DEFINE r == [rc |-> "OK",
                execution |-> CheckedAdd(e.execution, d.execution),
                measurement |-> CheckedAdd(e.measurement, d.measurement),
                compile |-> CheckedAdd(e.compile, d.compile),
                transfer |-> CheckedAdd(e.transfer, d.transfer),
                control |-> CheckedAdd(e.control, d.control),
                total |-> CheckedAdd(e.total, d.total),
                units |-> CheckedAdd(e.units, d.units)]
<1>1. \A p \in Times : e[p] = x[p] /\ e[p] \in U64 /\ d[p] = y[p] /\ d[p] \in U64
    BY DEF Summed
<1>2. /\ e.units \in U64 /\ d.units \in U64
      /\ e.units \in Nat /\ d.units \in Nat
      /\ e.units <= x.total + n /\ d.units <= y.total + 1
    BY FitWord DEF Summed
<1>3. r.rc = "OK" /\ \A p \in Parts : r[p] = CheckedAdd(e[p], d[p])
    BY DEF Parts
<1>4. s = IF \E p \in Parts : r[p] = Overflow THEN Failed("INVAL") ELSE r
    BY DEF AddEstimate, OrOverflow
<1>5. /\ \A p \in Times : p \in Parts
      /\ "units" \in Parts /\ "total" \in Times
      /\ \A p \in Parts : p \in Times \/ p = "units"
    BY DEF Times, Parts
<1> HIDE DEF r
<1>6. /\ \A p \in Times : z[p] = x[p] + y[p] /\ x[p] \in Nat /\ y[p] \in Nat
      /\ \A p \in Times : x[p] <= x.total /\ y[p] <= y.total
      /\ x.total \in Nat /\ y.total \in Nat /\ z.total = x.total + y.total
    BY <1>5 DEF AllParts
<1>7. CASE \E p \in Parts : r[p] = Overflow
  <2>1. s.rc = "INVAL"
      BY <1>4, <1>7 DEF Failed
  <2>2. PICK p \in Parts : r[p] = Overflow
      BY <1>7
  <2>3. CASE p \in Times
    <3>1. e[p] + d[p] > MaxU64
        BY <1>1, <1>3, <2>2, <2>3, PartAdded
    <3>2. e[p] + d[p] = x[p] + y[p]
        BY <1>1, <2>3
    <3>3. /\ x[p] \in Nat /\ y[p] \in Nat /\ x[p] <= x.total /\ y[p] <= y.total
          /\ x[p] + y[p] > MaxU64
        BY <1>6, <2>3, <3>1, <3>2
    <3> QED
        BY <1>6, <2>1, <3>3, WidthAssumption
  <2>4. CASE p = "units"
    <3>1. e.units + d.units > MaxU64
        BY <1>2, <1>3, <2>2, <2>4, PartAdded
    <3> QED
        BY <1>2, <1>6, <2>1, <3>1, WidthAssumption
  <2> QED
      BY <1>5, <2>3, <2>4
<1>8. CASE ~\E p \in Parts : r[p] = Overflow
  <2>1. s = r
      BY <1>4, <1>8
  <2>2. ASSUME NEW p \in Times PROVE s[p] = z[p] /\ s[p] \in U64
    <3>1. p \in Parts /\ r[p] # Overflow /\ r[p] = CheckedAdd(e[p], d[p])
        BY <1>3, <1>5, <1>8
    <3>2. r[p] = e[p] + d[p] /\ r[p] \in U64
        BY <1>1, <3>1, PartAdded
    <3> QED
        BY <1>1, <1>6, <2>1, <3>2
  <2>3. s.units = e.units + d.units /\ s.units \in U64
    <3>1. r["units"] # Overflow /\ r["units"] = CheckedAdd(e.units, d.units)
        BY <1>3, <1>5, <1>8
    <3> QED
        BY <1>2, <2>1, <3>1, PartAdded
  <2>4. /\ s.units * unit = e.units * unit + d.units * unit
        /\ e.units * unit \in Nat /\ d.units * unit \in Nat
        /\ (n + 1) * unit = n * unit + unit /\ n * unit \in Nat
        /\ 1 * unit = unit
      BY <1>2, <2>3, NatProduct
  <2>5. /\ x.total <= e.units * unit /\ e.units * unit <= x.total + n * unit
        /\ y.total <= d.units * unit /\ d.units * unit <= y.total + unit
      BY <2>4 DEF Summed
  <2>6. s.units <= z.total + (n + 1)
      BY <1>2, <1>6, <2>3
  <2>7. z.total <= s.units * unit /\ s.units * unit <= z.total + (n + 1) * unit
      BY <1>6, <2>4, <2>5
  <2>8. s.rc = "OK"
      BY <1>3, <2>1
  <2> QED
      BY <2>2, <2>3, <2>6, <2>7, <2>8 DEF Summed
<1> QED
    BY <1>7, <1>8

-----------------------------------------------------------------------------
(* Decisions                                                               *)

LEMMA ProfileWords ==
    ASSUME NEW profile \in DeviceProfiles
    PROVE  /\ profile.credits \in Nat /\ profile.rate \in Nat
           /\ profile.span \in Nat /\ profile.jobs \in Nat
BY EstimatorInputsAssumption, WidthAssumption DEF DeviceProfile, U64

LEMMA InstanceWords ==
    ASSUME NEW p \in Instances
    PROVE  /\ p.kind \in {"credit", "rate"}
           /\ p.over \in Nat /\ p.ppm \in Nat /\ p.slice \in Nat
BY EstimatorInputsAssumption, WidthAssumption, PpmScaleAssumption
   DEF PolicyInstance, U64

(* What is derived from the span fits it.                                  *)
LEMMA DerivedFits ==
    ASSUME NEW profile \in DeviceProfiles, ~BaselineFails(profile)
    PROVE  /\ DerivedCredits(profile) \in Nat /\ DerivedRate(profile) \in Nat
           /\ profile.credits = 0
                => DerivedCredits(profile) * BaselineNs(profile) <= profile.span
<1> DEFINE b == BaselineNs(profile)
           a == profile.span
           q == a \div b
           r == a % b
<1>1. /\ b \in Nat \ {0} /\ a \in Nat
      /\ profile.credits \in Nat /\ profile.rate \in Nat
    BY BaselineRuns, ProfileWords
<1> HIDE DEF a, b
<1>2. q \in Nat /\ r \in Nat /\ a = b * q + r
    BY <1>1
<1>3. CeilDiv(a, b) \in Nat
    BY <1>1, CeilDivBound
<1> HIDE DEF q, r
<1>4. q * b = b * q /\ b * q \in Nat
    BY <1>1, <1>2, NatProduct
<1>5. q * b <= a
    BY <1>1, <1>2, <1>4
<1>6. DerivedCredits(profile) = IF profile.credits # 0 THEN profile.credits ELSE q
    BY DEF DerivedCredits, q, a, b
<1>7. DerivedRate(profile)
        = IF profile.rate # 0 THEN profile.rate ELSE CeilDiv(a, b)
    BY DEF DerivedRate, a, b
<1> QED
    BY <1>1, <1>2, <1>3, <1>5, <1>6, <1>7 DEF a, b

LEMMA OvercommitNat ==
    ASSUME NEW p \in Instances, NEW total \in Nat
    PROVE  /\ ConfiguredOvercommit(p, total) \in Nat
           /\ EffectiveLimit(p, total) \in Nat
<1>1. PpmValue(total, p.ppm) \in Nat /\ p.over \in Nat
    BY InstanceWords, PpmValueNat
<1>2. ConfiguredOvercommit(p, total) \in Nat
    BY <1>1 DEF ConfiguredOvercommit, MinNonzero
<1> QED
    BY <1>2 DEF EffectiveLimit

(* A credit policy grants what was asked for and stays inside its limit.   *)
LEMMA CreditGranted ==
    ASSUME NEW budget \in Budgets, policy \in Instances, policy.kind = "credit",
           device \in DeviceProfiles, ~BaselineFails(device), committed \in Nat,
           estimate.units \in Nat, estimate.units >= 1,
           NEW answer, answer = AnswerWithin(budget)
    PROVE  \/ /\ answer.decision # "ACCEPTED"
              /\ answer.credits = 0 /\ answer.rate = 0
           \/ /\ answer.decision = "ACCEPTED"
              /\ answer.credits = estimate.units /\ answer.rate = 0
              /\ committed + estimate.units
                   <= EffectiveLimit(policy, DerivedCredits(device))
<1> DEFINE view == CreditView(policy, View)
           total == DerivedCredits(device)
           limit == EffectiveLimit(policy, total)
           d == CreditDecision(policy, estimate.units, view)
<1>1. total \in Nat /\ limit \in Nat
    BY DerivedFits, OvercommitNat
<1>2. answer = IF d = "ACCEPTED" THEN Grant(estimate.units, 0, policy.ttl)
               ELSE Refusal(d)
    BY DEF AnswerWithin, CreditAnswer
<1>3. CASE d # "ACCEPTED"
    BY <1>2, <1>3 DEF Refusal
<1>4. CASE d = "ACCEPTED"
  <2> HIDE DEF limit
  <2>1. /\ View.total_credits = total /\ View.credits_reserved = committed
        /\ View.external_credits = 0 /\ View.device_state = "AVAILABLE"
        /\ View.scoped_credits = committed
      BY DEF View
  <2> DEFINE v == View
  <2>2. v = [device_state |-> v.device_state, total_credits |-> v.total_credits,
             available_credits |-> v.available_credits,
             credits_reserved |-> v.credits_reserved,
             scoped_credits |-> v.scoped_credits,
             external_credits |-> v.external_credits,
             effective_credits |-> v.effective_credits,
             total_rate |-> v.total_rate, effective_rate |-> v.effective_rate]
      BY DEF View
  <2> HIDE DEF total, v
  <2>3. /\ view.total_credits = total /\ view.device_state = "AVAILABLE"
        /\ view.effective_credits
             = CappedAvailable(IF total = 0 THEN 0
                               ELSE SatSub(EffectiveLimit(policy, total), committed),
                               0, committed)
      BY <2>1, <2>2 DEF CreditView, v
  <2> HIDE DEF view
  <2>4. total # 0 /\ estimate.units <= view.effective_credits
    <3>1. ~(view.total_credits = 0) /\ ~(estimate.units > view.effective_credits)
        BY <1>4, <2>3 DEF CreditDecision, Blocked
    <3>2. view.effective_credits \in Nat
        BY <1>1, <2>3, SatSubBound DEF CappedAvailable, limit
    <3> QED
        BY <2>3, <3>1, <3>2
  <2>5. view.effective_credits = SatSub(limit, committed)
      BY <2>3, <2>4 DEF CappedAvailable, limit
  <2>6. committed + estimate.units <= limit
    <3>1. /\ SatSub(limit, committed) \in Nat
          /\ SatSub(limit, committed) = 0 \/ SatSub(limit, committed) + committed = limit
        BY <1>1, SatSubBound
    <3>2. estimate.units <= SatSub(limit, committed)
        BY <2>4, <2>5
    <3> QED
        BY <1>1, <3>1, <3>2
  <2>7. answer.decision = "ACCEPTED" /\ answer.credits = estimate.units
        /\ answer.rate = 0
      BY <1>2, <1>4 DEF Grant
  <2> QED
      BY <2>6, <2>7 DEF limit, total
<1> QED
    BY <1>3, <1>4

(* A rate that is granted delivers the units within the budget.            *)
LEMMA RateGranted ==
    ASSUME NEW budget \in Budgets, policy \in Instances, policy.kind # "credit",
           device \in DeviceProfiles, ~BaselineFails(device),
           estimate.units \in Nat,
           NEW answer, answer = AnswerWithin(budget)
    PROVE  \/ /\ answer.decision # "ACCEPTED"
              /\ answer.credits = 0 /\ answer.rate = 0
           \/ /\ answer.decision = "ACCEPTED"
              /\ answer.credits = 0 /\ answer.rate \in Nat
              /\ estimate.units * device.span <= answer.rate * budget
<1> DEFINE n == estimate.units * device.span
           required == CeilDiv(n, budget)
           slice == DefaultSlice(policy.slice, DerivedRate(device), device.jobs)
           rate == RoundUp(required, slice)
           d == RateDecision(policy, device, estimate.units, budget, View)
<1>1. n \in Nat /\ budget \in Nat \ {0}
    BY ProfileWords, NatProduct, EstimatorInputsAssumption DEF U64
<1>2. slice \in Nat \ {0}
    BY DerivedFits, ProfileWords, InstanceWords DEF DefaultSlice
<1> HIDE DEF slice
<1>3. required \in Nat /\ n <= required * budget
    BY <1>1, CeilDivCovers
<1>4. rate \in Nat /\ required <= rate
  <2> HIDE DEF required
  <2>1. CeilDiv(required, slice) \in Nat
        /\ required <= CeilDiv(required, slice) * slice
      BY <1>2, <1>3, CeilDivCovers
  <2> QED
      BY <1>2, <2>1, NatProduct DEF RoundUp
<1>5. n <= rate * budget
  <2> HIDE DEF n, required, rate
  <2>1. required * budget <= rate * budget
        /\ required * budget \in Nat /\ rate * budget \in Nat
      BY <1>1, <1>3, <1>4, TimesMonotone, NatProduct
  <2> QED
      BY <1>1, <1>3, <2>1
<1>6. View.total_rate = DerivedRate(device)
    BY DEF View
<1>7. answer = IF d = "ACCEPTED" THEN Grant(0, rate, policy.ttl)
               ELSE Refusal(d)
    BY <1>6 DEF AnswerWithin, RateAnswer, GrantedRate, RequiredRate, slice
<1> QED
    BY <1>4, <1>5, <1>7 DEF Grant, Refusal

-----------------------------------------------------------------------------
(* The inductive invariant                                                 *)

EstimateTypes ==
    /\ device \in DeviceProfiles /\ policy \in Instances
    /\ estimated \in Nat /\ committed \in Nat /\ grants \in Nat /\ work \in Nat
    /\ exact = [p \in Times |-> exact[p]] /\ AllParts(exact)

\* The request so far: its units and times, or why it is refused.
EstimateKept ==
    /\ estimate.rc \in {"OK", "INVAL", "ESTIMATOR"}
    /\ estimate.rc = "OK" =>
          /\ Summed(estimate, exact, estimated, BaselineNs(device))
          /\ estimated # 0 => ~BaselineFails(device) /\ estimate.units >= 1
    /\ estimate.rc = "INVAL" /\ ~unfit => exact.total + estimated > MaxU64

\* Credits that were granted pay for the work and stay inside the limit.
CreditsKept ==
    policy.kind = "credit" =>
        /\ work <= committed * BaselineNs(device)
        /\ grants # 0 =>
              /\ ~BaselineFails(device)
              /\ committed <= EffectiveLimit(policy, DerivedCredits(device))

EstimatorInvariant ==
    EstimateTypes /\ EstimateKept /\ CreditsKept /\ GrantsSuffice

LEMMA NothingSummed ==
    ASSUME device \in DeviceProfiles
    PROVE  /\ NoTime.rc = "OK" /\ AllParts(NothingExact)
           /\ NothingExact = [p \in Times |-> NothingExact[p]]
           /\ Summed(NoTime, NothingExact, 0, BaselineNs(device))
<1>1. BaselineNs(device) \in Nat /\ 0 \in U64
    BY BaselineRuns, WidthAssumption DEF U64
<1>2. 0 * BaselineNs(device) = 0
    BY <1>1
<1>3. NothingExact.total = 0 /\ \A p \in Times : NothingExact[p] = 0
    BY DEF NothingExact, Times, Parts
<1>4. NoTime.rc = "OK" /\ NoTime.units = 0 /\ \A p \in Times : NoTime[p] = 0
    BY DEF NoTime, Failed, Times, Parts
<1> QED
    BY <1>1, <1>2, <1>3, <1>4 DEF Summed, AllParts, NothingExact

LEMMA NextRequest ==
    ASSUME EstimateTypes, NoEstimate, device' = device, policy' = policy,
           committed' \in Nat, grants' \in Nat, work' \in Nat
    PROVE  EstimateTypes' /\ EstimateKept'
<1>1. /\ estimate' = NoTime /\ exact' = NothingExact /\ estimated' = 0
      /\ device' = device
    BY DEF NoEstimate
<1>2. device \in DeviceProfiles
    BY DEF EstimateTypes
<1>3. /\ NoTime.rc = "OK" /\ AllParts(NothingExact)
      /\ NothingExact = [p \in Times |-> NothingExact[p]]
      /\ Summed(NoTime, NothingExact, 0, BaselineNs(device))
    BY <1>2, NothingSummed
<1>4. EstimateTypes'
    BY <1>1, <1>3 DEF EstimateTypes
<1>5. EstimateKept'
    BY <1>1, <1>3 DEF EstimateKept
<1> QED
    BY <1>4, <1>5

LEMMA EstimatorStarts == Init => EstimatorInvariant
<1> SUFFICES ASSUME Init PROVE EstimatorInvariant
    OBVIOUS
<1>1. /\ device \in DeviceProfiles /\ policy \in Instances /\ estimated = 0
      /\ estimate = NoTime /\ exact = NothingExact
      /\ committed = 0 /\ grants = 0 /\ work = 0 /\ grant = NoGrant
    BY DEF Init
<1>2. /\ NoTime.rc = "OK" /\ AllParts(NothingExact)
      /\ NothingExact = [p \in Times |-> NothingExact[p]]
      /\ Summed(NoTime, NothingExact, 0, BaselineNs(device))
    BY <1>1, NothingSummed
<1>3. 0 <= 0 * BaselineNs(device)
    BY <1>1, BaselineRuns
<1>4. EstimateTypes /\ EstimateKept
    BY <1>1, <1>2 DEF EstimateTypes, EstimateKept
<1>5. CreditsKept /\ GrantsSuffice
    BY <1>1, <1>3 DEF CreditsKept, GrantsSuffice, NoGrant
<1> QED
    BY <1>4, <1>5 DEF EstimatorInvariant

LEMMA ClassKept ==
    ASSUME EstimatorInvariant, NEW class \in Classes, EstimateClass(class)
    PROVE  EstimatorInvariant'
<1> DEFINE d == EstimateTask(device, class)
           y == ExactParts(class.shape, TaskTiming(device, class))
           unit == BaselineNs(device)
<1>1. /\ device \in DeviceProfiles /\ unit \in Nat
      /\ estimated \in Nat /\ AllParts(exact) /\ "total" \in Times
    BY BaselineRuns DEF EstimatorInvariant, EstimateTypes, Times, Parts
<1>2. /\ Summed(estimate, exact, estimated, unit)
      /\ estimated # 0 => estimate.units >= 1
    BY DEF EstimatorInvariant, EstimateKept, EstimateClass
<1>3. /\ estimate' = IF d.rc = "OK" THEN AddEstimate(estimate, d) ELSE d
      /\ exact' = IF Untyped(class) THEN exact
                  ELSE [p \in Times |-> exact[p] + y[p]]
      /\ unfit' = (Untyped(class) \/ ShapeInvalid(device, class.shape))
      /\ estimated' = estimated + 1
      /\ UNCHANGED <<device, policy, committed, grants, work, grant>>
    BY DEF EstimateClass
<1>4. /\ d.rc \in {"OK", "INVAL", "ESTIMATOR"}
      /\ ~Untyped(class) => AllParts(y)
      /\ d.rc = "INVAL" => \/ Untyped(class)
                           \/ ShapeInvalid(device, class.shape)
                           \/ y.total > MaxU64
      /\ d.rc = "OK" => /\ ~Untyped(class) /\ ~BaselineFails(device)
                        /\ Summed(d, y, 1, unit) /\ d.units >= 1
                        /\ d.units \in Nat
  <2>1. /\ d.rc \in {"OK", "INVAL", "ESTIMATOR"}
        /\ ~Untyped(class) => \A p \in Times : y[p] \in Nat /\ y[p] <= y.total
        /\ d.rc = "INVAL" => \/ Untyped(class)
                             \/ ShapeInvalid(device, class.shape)
                             \/ y.total > MaxU64
        /\ d.rc = "OK" =>
              /\ ~Untyped(class) /\ ~BaselineFails(device)
              /\ \A p \in Times : d[p] = y[p] /\ d[p] \in U64
              /\ d.units \in U64 /\ d.units >= 1 /\ d.units <= y.total + 1
              /\ y.total <= d.units * unit /\ d.units * unit <= y.total + unit
      BY <1>1, TaskEstimated
  <2>2. 1 * unit = unit
      BY <1>1
  <2> QED
      BY <2>1, <2>2, FitWord DEF Summed, AllParts
<1> HIDE DEF d, y
<1>5. /\ exact' = [p \in Times |-> exact'[p]] /\ AllParts(exact')
      /\ exact'.total \in Nat
      /\ ~Untyped(class) => /\ y.total \in Nat /\ exact.total \in Nat
                            /\ exact'.total = exact.total + y.total
  <2>1. CASE Untyped(class)
      BY <1>1, <1>3, <2>1 DEF EstimatorInvariant, EstimateTypes, AllParts
  <2>2. CASE ~Untyped(class)
    <3>1. exact' = [p \in Times |-> exact[p] + y[p]] /\ AllParts(y)
        BY <1>3, <1>4, <2>2
    <3>2. \A p \in Times :
             /\ exact[p] \in Nat /\ y[p] \in Nat
             /\ exact[p] <= exact.total /\ y[p] <= y.total
             /\ exact'[p] = exact[p] + y[p]
        BY <1>1, <3>1 DEF AllParts
    <3>3. exact.total \in Nat /\ y.total \in Nat
          /\ exact'.total = exact.total + y.total
        BY <1>1, <3>2
    <3>4. \A p \in Times : exact'[p] \in Nat /\ exact'[p] <= exact'.total
        BY <3>2, <3>3
    <3> QED
        BY <3>1, <3>3, <3>4 DEF AllParts
  <2> QED
      BY <2>1, <2>2
<1>6. EstimateTypes'
    BY <1>3, <1>5 DEF EstimatorInvariant, EstimateTypes
<1>7. EstimateKept'
  <2>1. CASE d.rc # "OK"
    <3>1. estimate'.rc = d.rc
        BY <1>3, <2>1
    <3>2. d.rc = "INVAL" /\ ~unfit' => exact'.total + estimated' > MaxU64
      <4>1. HAVE d.rc = "INVAL" /\ ~unfit'
      <4>2. ~Untyped(class) /\ y.total > MaxU64
          BY <1>3, <1>4, <4>1
      <4> QED
          BY <1>1, <1>3, <1>5, <4>2, WidthAssumption
    <3> QED
        BY <1>4, <2>1, <3>1, <3>2 DEF EstimateKept
  <2>2. CASE d.rc = "OK"
    <3>1. /\ ~Untyped(class) /\ ~BaselineFails(device) /\ d.units >= 1
          /\ Summed(d, y, 1, unit) /\ AllParts(y) /\ d.units \in Nat
          /\ exact' = [p \in Times |-> exact[p] + y[p]]
          /\ estimate' = AddEstimate(estimate, d)
        BY <1>3, <1>4, <2>2
    <3>2. /\ estimate'.rc \in {"OK", "INVAL"}
          /\ estimate'.rc = "OK"
               => /\ Summed(estimate', exact', estimated + 1, unit)
                  /\ estimate'.units = estimate.units + d.units
          /\ estimate'.rc = "INVAL" => exact'.total + (estimated + 1) > MaxU64
      <4>1. \A p \in Times : exact'[p] = exact[p] + y[p]
          BY <3>1
      <4> DEFINE z == exact'
                 s == estimate'
                 n == estimated
      <4>2. /\ n \in Nat /\ unit \in Nat /\ Summed(estimate, exact, n, unit)
            /\ AllParts(exact) /\ \A p \in Times : z[p] = exact[p] + y[p]
            /\ s = AddEstimate(estimate, d)
          BY <1>1, <1>2, <3>1, <4>1
      <4> HIDE DEF unit, z, s, n
      <4>3. /\ s.rc \in {"OK", "INVAL"}
            /\ s.rc = "OK" => /\ Summed(s, z, n + 1, unit)
                              /\ s.units = estimate.units + d.units
            /\ s.rc = "INVAL" => z.total + (n + 1) > MaxU64
          BY <3>1, <4>2, EstimatesAdd
      <4> QED
          BY <4>3 DEF s, z, n
    <3>3. estimate.units \in Nat
        BY <1>2, FitWord DEF Summed
    <3> QED
        BY <1>3, <3>1, <3>2, <3>3 DEF EstimateKept
  <2> QED
      BY <2>1, <2>2
<1>8. CreditsKept' /\ GrantsSuffice'
    BY <1>3 DEF EstimatorInvariant, CreditsKept, GrantsSuffice
<1> QED
    BY <1>6, <1>7, <1>8 DEF EstimatorInvariant

LEMMA DecisionKept ==
    ASSUME EstimatorInvariant, NEW budget \in Budgets, Decide(budget)
    PROVE  EstimatorInvariant'
<1> DEFINE answer == AnswerWithin(budget)
           unit == BaselineNs(device)
           u == estimate.units
           time == estimate.total
<1>1. /\ device \in DeviceProfiles /\ policy \in Instances /\ unit \in Nat
      /\ committed \in Nat /\ grants \in Nat /\ work \in Nat /\ budget \in Nat
    BY BaselineRuns, EstimatorInputsAssumption, FitWord
       DEF EstimatorInvariant, EstimateTypes
<1>2. /\ ~BaselineFails(device) /\ u \in Nat /\ u >= 1
      /\ time \in Nat /\ time <= u * unit
  <2>1. /\ Summed(estimate, exact, estimated, unit)
        /\ ~BaselineFails(device) /\ estimate.units >= 1
      BY DEF Decide, EstimatorInvariant, EstimateKept
  <2>2. "total" \in Times
      BY DEF Times, Parts
  <2> QED
      BY <2>1, <2>2, FitWord DEF Summed
<1>3. /\ grant' = [accepted |-> answer.decision = "ACCEPTED",
                   credits |-> answer.credits, rate |-> answer.rate,
                   budget |-> budget, total |-> time]
      /\ committed' = committed + answer.credits + answer.rate
      /\ grants' = IF answer.decision = "ACCEPTED" THEN grants + 1 ELSE grants
      /\ work' = IF answer.decision = "ACCEPTED" THEN work + time ELSE work
      /\ NoEstimate /\ device' = device /\ policy' = policy
    BY DEF Decide
<1>4. CASE policy.kind = "credit"
  <2>1. \/ /\ answer.decision # "ACCEPTED"
           /\ answer.credits = 0 /\ answer.rate = 0
        \/ /\ answer.decision = "ACCEPTED"
           /\ answer.credits = u /\ answer.rate = 0
           /\ committed + u <= EffectiveLimit(policy, DerivedCredits(device))
      BY <1>1, <1>2, <1>4, CreditGranted
  <2>2. /\ work <= committed * unit
        /\ grants # 0 => committed <= EffectiveLimit(policy, DerivedCredits(device))
      BY <1>4 DEF EstimatorInvariant, CreditsKept
  <2> HIDE DEF answer, time, u
  <2>3. CASE answer.decision # "ACCEPTED"
    <3>1. committed' = committed /\ grants' = grants /\ work' = work
      <4>1. committed' = committed + 0 + 0
          BY <1>3, <2>1, <2>3
      <4> QED
          BY <1>1, <1>3, <2>3, <4>1
    <3>3. ~grant'.accepted
        BY <1>3, <2>3
    <3>2. EstimateTypes' /\ EstimateKept'
        BY <1>1, <1>3, <3>1, NextRequest DEF EstimatorInvariant
    <3> QED
        BY <1>2, <1>3, <2>2, <3>1, <3>2, <3>3
           DEF EstimatorInvariant, CreditsKept, GrantsSuffice
  <2>4. CASE answer.decision = "ACCEPTED"
    <3>1. /\ committed' = committed + u /\ grants' = grants + 1
          /\ work' = work + time
          /\ grant'.credits = u /\ grant'.total = time
      <4>1. committed' = committed + u + 0
          BY <1>3, <2>1, <2>4
      <4>2. grants' = grants + 1 /\ work' = work + time
          BY <1>3, <2>4
      <4>3. grant'.credits = u /\ grant'.total = time
          BY <1>3, <2>1, <2>4
      <4> QED
          BY <1>1, <1>2, <4>1, <4>2, <4>3
    <3>2. EstimateTypes' /\ EstimateKept'
        BY <1>1, <1>2, <1>3, <3>1, NextRequest DEF EstimatorInvariant
    <3>3. work' <= committed' * unit
      <4> HIDE DEF unit
      <4>1. /\ (committed + u) * unit = committed * unit + u * unit
            /\ committed * unit \in Nat /\ u * unit \in Nat
          BY <1>1, <1>2, NatProduct
      <4> QED
          BY <1>1, <1>2, <2>2, <3>1, <4>1
    <3>4. CreditsKept'
        BY <1>2, <1>3, <2>1, <2>4, <3>1, <3>3 DEF CreditsKept
    <3>5. GrantsSuffice'
        BY <1>2, <1>3, <1>4, <3>1 DEF GrantsSuffice
    <3> QED
        BY <3>2, <3>4, <3>5 DEF EstimatorInvariant
  <2> QED
      BY <2>3, <2>4
<1>5. CASE policy.kind # "credit"
  <2>1. \/ /\ answer.decision # "ACCEPTED"
           /\ answer.credits = 0 /\ answer.rate = 0
        \/ /\ answer.decision = "ACCEPTED"
           /\ answer.credits = 0 /\ answer.rate \in Nat
           /\ u * device.span <= answer.rate * budget
      BY <1>1, <1>2, <1>5, RateGranted
  <2> HIDE DEF answer, time, u
  <2>2. committed' \in Nat /\ grants' \in Nat /\ work' \in Nat
      BY <1>1, <1>2, <1>3, <2>1
  <2>3. EstimateTypes' /\ EstimateKept'
      BY <1>1, <1>3, <2>2, NextRequest DEF EstimatorInvariant
  <2>4. CreditsKept'
      BY <1>3, <1>5 DEF CreditsKept
  <2>5. GrantsSuffice'
    <3>1. CASE answer.decision # "ACCEPTED"
        BY <1>3, <3>1 DEF GrantsSuffice
    <3>2. CASE answer.decision = "ACCEPTED"
      <4> DEFINE span == device.span
                 pace == answer.rate * budget
      <4>1. /\ span \in Nat /\ pace \in Nat /\ u * span <= pace
            /\ u * span \in Nat
          BY <1>1, <1>2, <2>1, <3>2, ProfileWords, NatProduct
      <4> HIDE DEF span, pace, unit
      <4>2. time * span <= (u * unit) * span
          BY <1>1, <1>2, <4>1, TimesMonotone, NatProduct
      <4>3. (u * unit) * span = (u * span) * unit
          BY <1>1, <1>2, <4>1
      <4>4. (u * span) * unit <= pace * unit
          BY <1>1, <4>1, TimesMonotone
      <4>5. /\ time * span \in Nat /\ (u * span) * unit \in Nat
            /\ pace * unit \in Nat
          BY <1>1, <1>2, <4>1, NatProduct
      <4>6. time * span <= pace * unit
          BY <4>2, <4>3, <4>4, <4>5
      <4> QED
          BY <1>3, <1>5, <4>6 DEF GrantsSuffice, span, pace, unit
    <3> QED
        BY <3>1, <3>2
  <2> QED
      BY <2>3, <2>4, <2>5 DEF EstimatorInvariant
<1> QED
    BY <1>4, <1>5

LEMMA EstimatorStep ==
    EstimatorInvariant /\ [Next]_vars => EstimatorInvariant'
<1> SUFFICES ASSUME EstimatorInvariant, [Next]_vars PROVE EstimatorInvariant'
    OBVIOUS
<1>1. CASE \E class \in Classes : EstimateClass(class)
    BY <1>1, ClassKept
<1>2. CASE GiveUp
  <2>1. /\ NoEstimate /\ UNCHANGED <<device, policy, committed, grants, work, grant>>
        /\ committed' \in Nat /\ grants' \in Nat /\ work' \in Nat
      BY <1>2 DEF GiveUp, EstimatorInvariant, EstimateTypes
  <2>2. EstimateTypes' /\ EstimateKept'
      BY <2>1, NextRequest DEF EstimatorInvariant
  <2> QED
      BY <2>1, <2>2 DEF EstimatorInvariant, CreditsKept, GrantsSuffice
<1>3. CASE \E budget \in Budgets : Decide(budget)
    BY <1>3, DecisionKept
<1>4. CASE UNCHANGED vars
    BY <1>4 DEF vars, EstimatorInvariant, EstimateTypes, EstimateKept,
                CreditsKept, GrantsSuffice
<1> QED
    BY <1>1, <1>2, <1>3, <1>4 DEF Next

LEMMA EstimatorKept == Spec => []EstimatorInvariant
BY EstimatorStarts, EstimatorStep, PTL DEF Spec

-----------------------------------------------------------------------------
(* Theorems                                                                *)

(* Every sum over the classes of a request is the exact one, and a request  *)
(* of fitting classes fails only when its time leaves no room in a word:    *)
(* checked arithmetic gives the full result or an overflow, and no part of  *)
(* an estimate is longer than its total.                                    *)
THEOREM EveryEstimateIsExact == Spec => []EstimatesAreExact
<1>1. EstimatorInvariant => EstimatesAreExact
    BY DEF EstimatorInvariant, EstimateKept, EstimatesAreExact, Summed
<1> QED
    BY <1>1, EstimatorKept, PTL

(* The units of a request always cover its time, and exceed it by less than *)
(* a unit for each of its classes.                                          *)
THEOREM EveryUnitCounts == Spec => []UnitsCoverTheTime
<1>1. EstimatorInvariant => UnitsCoverTheTime
    BY DEF EstimatorInvariant, EstimateKept, UnitsCoverTheTime, Summed
<1> QED
    BY <1>1, EstimatorKept, PTL

(* Derived credits and the units that requests round up to never promise    *)
(* more device time than the accounting span, beyond configured overcommit. *)
THEOREM SpanIsNeverOversold == Spec => []PromisesFitTheSpan
<1>1. EstimatorInvariant => PromisesFitTheSpan
  <2> SUFFICES ASSUME EstimatorInvariant, policy.kind = "credit",
                      device.credits = 0, grants # 0
               PROVE  work <= device.span
                        + ConfiguredOvercommit(policy, DerivedCredits(device))
                            * BaselineNs(device)
      BY DEF PromisesFitTheSpan
  <2> DEFINE total == DerivedCredits(device)
             over == ConfiguredOvercommit(policy, total)
             unit == BaselineNs(device)
             span == device.span
  <2>1. /\ device \in DeviceProfiles /\ policy \in Instances
        /\ work \in Nat /\ committed \in Nat
        /\ work <= committed * unit /\ ~BaselineFails(device)
        /\ committed <= EffectiveLimit(policy, total)
      BY DEF EstimatorInvariant, EstimateTypes, CreditsKept
  <2>2. total \in Nat /\ total * unit <= span /\ unit \in Nat /\ span \in Nat
      BY <2>1, DerivedFits, BaselineRuns, ProfileWords
  <2>3. over \in Nat /\ committed <= total + over
      BY <2>1, <2>2, OvercommitNat DEF EffectiveLimit
  <2> HIDE DEF total, over, unit, span
  <2>4. committed * unit <= (total + over) * unit
      BY <2>1, <2>2, <2>3, TimesMonotone
  <2>5. /\ (total + over) * unit = total * unit + over * unit
        /\ total * unit \in Nat /\ over * unit \in Nat
        /\ committed * unit \in Nat
      BY <2>1, <2>2, <2>3, NatProduct
  <2>6. work <= span + over * unit
      BY <2>1, <2>2, <2>4, <2>5
  <2> QED
      BY <2>6 DEF total, over, unit, span
<1> QED
    BY <1>1, EstimatorKept, PTL

(* What a policy grants pays for the request: by credits its whole time, by *)
(* a rate its units within the quantum budget.                              *)
THEOREM EveryGrantSuffices == Spec => []GrantsSuffice
<1>1. EstimatorInvariant => GrantsSuffice
    BY DEF EstimatorInvariant
<1> QED
    BY <1>1, EstimatorKept, PTL
=============================================================================
