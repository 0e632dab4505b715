---------------------------- MODULE MCAdmission ----------------------------
(***************************************************************************)
(* Inputs for the model-checking runs of Admission.  Each run gives the    *)
(* callers a small repertoire of arguments; time stamps, units and ids are *)
(* so small that exhaustion, overflow and wrap-around are within reach.    *)
(***************************************************************************)
EXTENDS AdmissionPools, ReservationList

CONSTANTS d1, s1, s2

ProfileOf(credits, rate, span, est) ==
    [credits |-> credits, rate |-> rate, span |-> span, est |-> est,
     jobs |-> 2, ttl |-> 0]

PolicyOf(kind, over, ppm, slice) ==
    [ttl |-> 0, kind |-> kind, over |-> over, ppm |-> ppm, slice |-> slice]

RequestOf(device, scope, id, units) ==
    [ttl |-> 1, device |-> device, scope |-> scope, id |-> id,
     units |-> units, walltime |-> 2, reserved |-> 1]

SnapshotOf(state, now, credits, rate) ==
    [state |-> state, now |-> now, ok |-> TRUE,
     external_credits |-> credits, external_rate |-> rate]

FailedSnapshot == [SnapshotOf("AVAILABLE", 0, 0, 0) EXCEPT !.ok = FALSE]

VersionsOf(entry) ==
    <<entry.profile_version, entry.policy_version, entry.estimator_version>>

Unversioned(entry) ==
    [entry EXCEPT !.profile_version = 0, !.policy_version = 0,
                  !.estimator_version = 0]

(* What tells the futures of two states apart.  No guard and no sum reads   *)
(* the last call, what a terminal entry holds, or a version counter, as     *)
(* long as none reaches MaxVersion; a property asks only whether the        *)
(* versions of an active entry are those of its device.                     *)
Ledger ==
    [i \in Ids |->
        IF reservations[i].state \in Terminal THEN <<reservations[i].state>>
        ELSE <<Unversioned(reservations[i]),
               VersionsOf(reservations[i])
                   = VersionsOf(devices[reservations[i].device])>>]

StateView ==
    <<[d \in Devices |-> Unversioned(devices[d])], Ledger,
      next_reservation_id, provider, clock, counted>>

None == {}
OnlyNow == {1}
OnceLapsed == {2}

(* The standard policies: configured and derived totals, absolute and ppm   *)
(* overcommit (one that overflows), explicit and default rate slices (one   *)
(* above the total), on a device that is reconfigured around its            *)
(* reservations and whose estimator moves the total under them.             *)
StandardProfiles ==
    {ProfileOf(4, 0, 0, 1), ProfileOf(0, 4, 2, 1), ProfileOf(0, 0, 6, 2)}
StandardPolicies ==
    {PolicyOf("credit", 1, 0, 0), PolicyOf("credit", 0, 2, 0),
     PolicyOf("credit", 7, 0, 0), PolicyOf("rate", 0, 0, 0),
     PolicyOf("rate", 0, 0, 2), PolicyOf("rate", 0, 0, 5)}
StandardRequests ==
    {RequestOf(d1, s1, 0, units) : units \in {0, 1, 3, 7}}
    \cup {RequestOf(d1, s1, 2, 2), RequestOf(d1, s2, 0, 1)}
StandardSnapshots ==
    {SnapshotOf("AVAILABLE", 0, 3, 2), SnapshotOf("AVAILABLE", 0, 4, 0),
     SnapshotOf("DRAINING", 0, 0, 0), SnapshotOf("OFFLINE", 0, 0, 0)}

StandardEstimators ==
    {[est |-> 4, feedback |-> TRUE], [est |-> 0, feedback |-> FALSE]}
StandardBaselines == {[est |-> 2, fits |-> fits] : fits \in BOOLEAN}

(* Leases: clocks that step back or fail, provider time, renewals and       *)
(* grants that overflow, under a third-party policy that gives any answer.  *)
AnyAnswer ==
    {Refusal("ERROR"), Refusal("DELAYED"), Refusal("REJECTED"),
     Grant(1, 1, 0), Grant(3, 0, 1), Grant(0, 3, 1),
     Grant(1, 0, 4), [Grant(1, 0, 1) EXCEPT !.matches = FALSE]}
LeaseProfiles == {ProfileOf(2, 2, 1, 1)}
LeasePolicies == {PolicyOf("plugin", 0, 0, 0)}
LeaseRequests ==
    {RequestOf(d1, s1, 0, 1),
     [RequestOf(d1, s2, 0, 2) EXCEPT !.ttl = 0],
     [RequestOf(d1, s1, 0, 1) EXCEPT !.walltime = 0],
     [RequestOf(d1, s1, 0, 1) EXCEPT !.reserved = 2]}
LeaseSnapshots == {SnapshotOf("AVAILABLE", 3, 2, 1), FailedSnapshot}
LeaseSweeps == {0, 2}
LeaseRenewals == {<<0, 1>>, <<3, 2>>}
LeaseClocks == {0, 1, 3}

(* Lists of everything, of a scope, and of what was created early or late.  *)
AllOf ==
    [device |-> Any, scope |-> Any, state |-> Any,
     created_after |-> 0, created_before |-> Any,
     expires_after |-> 0, expires_before |-> Any]
LeaseFilters ==
    {[AllOf EXCEPT !.scope = s1], [AllOf EXCEPT !.created_after = 2],
     [AllOf EXCEPT !.created_after = 3, !.created_before = 2]}

(* A third-party policy next to the unlimited one, on one scope of a device *)
(* whose rate is not enforced in one of its profiles.                       *)
PluginProfiles == {ProfileOf(2, 2, 1, 1), ProfileOf(2, 0, 0, 1)}
PluginPolicies == {PolicyOf("plugin", 0, 0, 0), PolicyOf("unlimited", 0, 0, 0)}
PluginRequests == {RequestOf(d1, s1, 0, 1), RequestOf(d1, s2, 0, 1)}
PluginSweeps == {0}
PluginClocks == {1, 2}
=============================================================================
