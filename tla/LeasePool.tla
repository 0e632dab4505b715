----------------------------- MODULE LeasePool -----------------------------
(***************************************************************************)
(* What a reservation ledger promises, without saying how: slots are       *)
(* granted units of a pool, hold them, and give them back once and for     *)
(* all; a pool never hands out more than its limit; and a limit moves only *)
(* while nobody holds a unit of the pool.                                  *)
(***************************************************************************)
EXTENDS CapacityMath

CONSTANTS Pools, Slots

VARIABLES
    limit,  \* the units a pool may hand out, or NoLimit
    slot    \* who holds what

poolVars == <<limit, slot>>

NoLimit == -1

Phases == {"free", "held", "gone"}

Held(p) == {s \in Slots : slot[s].phase = "held" /\ slot[s].pool = p}

Units == [s \in Slots |-> slot[s].units]

Used(p) == UnitSum(Units, Held(p))

PoolTypeOK ==
    /\ limit \in [Pools -> Nat \cup {NoLimit}]
    /\ slot \in [Slots -> [phase : Phases, pool : Pools, units : U64]]

PoolInit ==
    /\ PoolTypeOK
    /\ \A s \in Slots : slot[s].phase = "free"

Grant(s, p, units) ==
    /\ slot[s].phase = "free"
    /\ limit[p] = NoLimit \/ Used(p) + units <= limit[p]
    /\ slot' = [slot EXCEPT ![s] =
                  [phase |-> "held", pool |-> p, units |-> units]]
    /\ UNCHANGED limit

GiveBack(S) ==
    /\ \A s \in S : slot[s].phase = "held"
    /\ slot' = [s \in Slots |-> IF s \in S
                               THEN [slot[s] EXCEPT !.phase = "gone"]
                               ELSE slot[s]]
    /\ UNCHANGED limit

Resize(p, n) ==
    /\ Held(p) = {}
    /\ limit' = [limit EXCEPT ![p] = n]
    /\ UNCHANGED slot

PoolNext ==
    \/ \E S \in SUBSET Slots : GiveBack(S)
    \/ \E s \in Slots, p \in Pools, units \in U64 : Grant(s, p, units)
    \/ \E p \in Pools : Resize(p, limit'[p])

PoolSpec == PoolInit /\ [][PoolNext]_poolVars
=============================================================================
