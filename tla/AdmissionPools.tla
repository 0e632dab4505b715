--------------------------- MODULE AdmissionPools ---------------------------
(***************************************************************************)
(* The admission context as two lease pools over the same slots: the       *)
(* credits and the rate units of every device.  A device that leaves a     *)
(* total to be derived from estimates is a pool without a limit here: its  *)
(* total moves with calibration, under active reservations too.            *)
(***************************************************************************)
EXTENDS Admission

PhaseOf(state) ==
    CASE state = "ABSENT" -> "free"
      [] state = "ACTIVE" -> "held"
      [] OTHER -> "gone"

SlotsOf(f) ==
    [i \in Ids |-> [phase |-> PhaseOf(reservations[i].state),
                    pool |-> reservations[i].device,
                    units |-> f[i]]]

CreditLimits ==
    [d \in Devices |->
        IF devices[d].registered /\ devices[d].profile.credits # 0
        THEN CreditLimit(d) ELSE -1]

RateLimits ==
    [d \in Devices |->
        IF devices[d].registered /\ devices[d].profile.rate # 0
        THEN RateLimit(d) ELSE -1]

CreditPool == INSTANCE LeasePool WITH
    Pools <- Devices, Slots <- Ids, limit <- CreditLimits,
    slot <- SlotsOf(CreditsOf)

RatePool == INSTANCE LeasePool WITH
    Pools <- Devices, Slots <- Ids, limit <- RateLimits,
    slot <- SlotsOf(RateOf)

(* Every step of the context is a grant within the limit, a final return,  *)
(* a resize of an idle pool, or invisible; for credits and for rate.       *)
ImplementsCreditPool == CreditPool!PoolSpec

ImplementsRatePool == RatePool!PoolSpec
=============================================================================
