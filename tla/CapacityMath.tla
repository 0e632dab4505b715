---------------------------- MODULE CapacityMath ----------------------------
(***************************************************************************)
(* The unsigned 64-bit arithmetic that admission decisions are made of:    *)
(* the helpers of qhw_math.c and the static helpers of qhw_reservation.c   *)
(* and of the credit and rate policies.  MaxU64 stands for UINT64_MAX, so  *)
(* a model checked with a small MaxU64 meets every overflow and saturation *)
(* branch the code has.                                                    *)
(***************************************************************************)
EXTENDS Integers, FiniteSets

CONSTANTS
    MaxU64,     \* UINT64_MAX
    PpmScale    \* CREDIT_PPM_SCALE, 1000000 in the code

ASSUME WidthAssumption == MaxU64 \in Nat \ {0}
ASSUME PpmScaleAssumption == PpmScale \in Nat \ {0}

U64 == 0..MaxU64

-----------------------------------------------------------------------------
(* Checked and saturating arithmetic                                       *)

\* qhw_adm_add_u64 refuses a sum that does not fit.
AddOverflows(a, b) == MaxU64 - a < b

\* qhw_adm_mul_u64 refuses a product that does not fit.
MulOverflows(a, b) == a # 0 /\ b > MaxU64 \div a

\* Mutant: the subtraction wraps.
WrappingSub(a, b) == (a - b) % (MaxU64 + 1)

SatSub(a, b) == IF a < b THEN 0 ELSE a - b

SatAdd(a, b) == IF AddOverflows(a, b) THEN MaxU64 ELSE a + b

CeilDiv(a, b) == (a \div b) + (IF a % b # 0 THEN 1 ELSE 0)

-----------------------------------------------------------------------------
(* Availability                                                            *)

\* Mutant: the cap is compared without what the scope already holds.
CappedIgnoringReserved(available, limit, reserved) ==
    IF limit = 0 \/ available < limit THEN available ELSE limit

\* A limit of zero means that the provider sets no cap on the scope.
CappedAvailable(available, limit, reserved) ==
    IF limit = 0 THEN available
    ELSE IF reserved >= limit THEN 0
    ELSE IF available < limit - reserved THEN available
    ELSE limit - reserved

MinNonzero(a, b) ==
    IF a = 0 THEN b
    ELSE IF b = 0 THEN a
    ELSE IF a < b THEN a ELSE b

\* The code splits the product to stay inside 64 bits.
PpmValue(total, ppm) ==
    (total \div PpmScale) * ppm + ((total % PpmScale) * ppm) \div PpmScale

-----------------------------------------------------------------------------
(* Rate slices                                                             *)

\* rate_round_up: the smallest multiple of slice that is at least value.
RoundUp(value, slice) == CeilDiv(value, slice) * slice

RoundUpOverflows(value, slice) ==
    CeilDiv(value, slice) > MaxU64 \div slice

\* rate_default_slice: an explicit slice wins; a derived one is at least 1.
DefaultSlice(slice, total, jobs) ==
    IF slice # 0 THEN slice
    ELSE IF jobs = 0 \/ total \div jobs = 0 THEN 1
    ELSE total \div jobs

-----------------------------------------------------------------------------
(* Sums                                                                    *)

(***************************************************************************)
(* The units that the members of S hold, where member i holds f[i] of      *)
(* them.  A unit is a pair <<i, k>> with k in 1..f[i], so the sum is the   *)
(* size of a set: no order of summation and no recursion are involved.     *)
(***************************************************************************)
UnitsHeld(f, S) == {unit \in S \X (1..MaxU64) : unit[2] <= f[unit[1]]}

UnitSum(f, S) == Cardinality(UnitsHeld(f, S))

\* Adding with saturation, in any order, ends at the smaller of the two.
SatSum(f, S) == IF UnitSum(f, S) > MaxU64 THEN MaxU64 ELSE UnitSum(f, S)
=============================================================================
