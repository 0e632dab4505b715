----------------------------- MODULE Admission -----------------------------
(***************************************************************************)
(* The admission context: the device registry and the reservation table of *)
(* one struct qhw_adm, and every public call that changes them.  A call    *)
(* runs under the context mutex from its first read to its last write, so  *)
(* each call is one action; the interleavings are the orders in which      *)
(* callers get the mutex.  `out' is what the last call returned.           *)
(*                                                                         *)
(* A reservation is never removed from the table: its slot goes from       *)
(* "ABSENT" to "ACTIVE" to one terminal state.                             *)
(***************************************************************************)
EXTENDS Policies

CONSTANTS
    Devices, Scopes,
    MaxId,          \* largest value of a reservation id, UINT64_MAX
    MaxTime,        \* largest time stamp, UINT64_MAX; bounds the clock too
    MaxVersion,     \* bound on the version counters of a device
    Profiles,       \* device profiles that callers register
    PolicyInstances,\* policy selections that callers make
    Estimators,     \* estimator selections that callers make
    Baselines,      \* baseline circuits that callers set
    Requests,       \* admission requests that callers make
    Snapshots,      \* what the capacity provider may answer
    SweepArgs,      \* now_ns arguments of qhw_adm_expire, 0 = own clock
    RenewArgs,      \* <<now_ns, ttl_ns>> arguments of qhw_adm_renew
    ClockSteps      \* readings TIME_UTC may jump to; 0 is a clock that fails

Ids == 1..MaxId
Times == 0..MaxTime
Versions == 0..MaxVersion

ASSUME BoundsAssumption ==
    MaxId \in Nat \ {0} /\ MaxTime \in Nat \ {0} /\ MaxVersion \in Nat \ {0}

(* Inputs.  est is the estimator's time for the baseline circuit: zero     *)
(* stands for an estimate that fails.                                      *)
Profile == [credits : U64, rate : U64, span : U64, jobs : Nat, ttl : Nat,
            est : Nat]
PolicyInstance == [kind : STRING, over : U64, ppm : 0..PpmScale, slice : U64,
                   ttl : Nat]
Estimator == [est : Nat, feedback : BOOLEAN]
Baseline == [est : Nat, fits : BOOLEAN]
Request == [device : Devices, scope : Scopes, id : 0..MaxId, units : U64,
            walltime : Times, reserved : Nat, ttl : Times]
Snapshot == [ok : BOOLEAN, state : STRING, now : Times,
             external_credits : U64, external_rate : U64]

ASSUME InputsAssumption ==
    /\ Profiles \subseteq Profile
    /\ PolicyInstances \subseteq PolicyInstance
    /\ \A p \in PolicyInstances : p.kind # "none"
    /\ Estimators \subseteq Estimator
    /\ Baselines \subseteq Baseline
    /\ Requests \subseteq Request
    /\ Snapshots \subseteq Snapshot
    /\ SweepArgs \subseteq Times
    /\ RenewArgs \subseteq Times \X (Times \ {0})
    /\ ClockSteps \subseteq Times

VARIABLES
    devices,            \* the device table
    reservations,       \* the reservation table
    next_reservation_id,
    provider,           \* a capacity provider is installed
    clock,              \* what qhw_adm_now_ns reads
    counted,            \* history: ids in a count qhw_adm_expire returned
    out                 \* the last call, its return code and decision, and
                        \* (history) the snapshots it was decided on

vars == <<devices, reservations, next_reservation_id, provider, clock,
          counted, out>>

-----------------------------------------------------------------------------
(* Entries                                                                 *)

NoPolicy == [ttl |-> 0, kind |-> "none", over |-> 0, ppm |-> 0, slice |-> 0]

NoProfile == [credits |-> 0, rate |-> 0, span |-> 0, est |-> 0, jobs |-> 0,
              ttl |-> 0]

NoDevice ==
    [est |-> 0, feedback |-> FALSE, registered |-> FALSE,
     profile |-> NoProfile, policy |-> NoPolicy, profile_version |-> 0,
     policy_version |-> 0, estimator_version |-> 0]

\* A created entry runs the baseline estimator and has no policy.
FreshDevice(profile, version) ==
    [registered |-> TRUE, profile |-> profile, est |-> profile.est,
     feedback |-> FALSE, policy |-> NoPolicy, profile_version |-> version,
     policy_version |-> 0, estimator_version |-> 1]

NoReservation ==
    [credits |-> 0, rate |-> 0, device |-> CHOOSE d \in Devices : TRUE,
     scope |-> CHOOSE s \in Scopes : TRUE, state |-> "ABSENT",
     policy |-> NoPolicy, profile_version |-> 0, policy_version |-> 0,
     estimator_version |-> 0, created |-> 0, expires |-> 0, window |-> 0]

Terminal == {"RELEASED", "CANCELLED", "EXPIRED"}

DeviceEntry ==
    [registered : BOOLEAN, profile : Profiles \cup {NoProfile}, est : Nat,
     feedback : BOOLEAN, policy : PolicyInstances \cup {NoPolicy},
     profile_version : Versions, policy_version : Versions,
     estimator_version : Versions]

ReservationEntry ==
    [state : {"ABSENT", "ACTIVE"} \cup Terminal, device : Devices,
     scope : Scopes, credits : U64, rate : U64, created : Times,
     expires : Times, policy : PolicyInstances \cup {NoPolicy}, window : Nat,
     profile_version : Versions, policy_version : Versions,
     estimator_version : Versions]

Calls == {"init", "register", "unregister", "set_baseline", "set_estimator",
          "set_policy", "set_provider", "feedback", "reserve", "release",
          "cancel", "renew", "expire", "tick"}

ReturnCodes == {"OK", "INVAL", "NOT_FOUND", "STATE", "EXISTS", "POLICY",
                "ESTIMATOR", "NOMEM", "CALLBACK"}

Returns(call, rc) ==
    out' = [call |-> call, rc |-> rc, decision |-> "NONE", seen |-> {}]

Decides(rc, decision, snap) ==
    out' = [call |-> "reserve", rc |-> rc, decision |-> decision,
            seen |-> {snap}]

\* An early return: the call reports rc and has changed nothing.
Refuse(call, rc) ==
    /\ Returns(call, rc)
    /\ UNCHANGED <<devices, reservations, next_reservation_id, provider,
                   clock, counted>>

\* A call that changes only the entry of device d.
SetDevice(call, d, entry) ==
    /\ Returns(call, "OK")
    /\ devices' = [devices EXCEPT ![d] = entry]
    /\ UNCHANGED <<reservations, next_reservation_id, provider, clock,
                   counted>>

\* A call that changes only the entry of reservation i.
SetReservation(call, i, entry) ==
    /\ Returns(call, "OK")
    /\ reservations' = [reservations EXCEPT ![i] = entry]
    /\ UNCHANGED <<devices, next_reservation_id, provider, clock, counted>>

-----------------------------------------------------------------------------
(* The committed ledger: it is recomputed from the table on every call     *)

Active(i) == reservations[i].state = "ACTIVE"

ActiveOn(d) == {i \in Ids : Active(i) /\ reservations[i].device = d}

ActiveIn(d, s) == {i \in ActiveOn(d) : reservations[i].scope = s}

\* Mutant: a reservation that holds no credits is overlooked.
HasActiveCredits(d) == \E i \in ActiveOn(d) : reservations[i].credits # 0

HasActive(d) == ActiveOn(d) # {}

CreditsOf == [i \in Ids |-> reservations[i].credits]
RateOf == [i \in Ids |-> reservations[i].rate]

\* Mutant: the walk stops at the first active reservation it meets.
CommittedFirstOnly(f, d) ==
    IF ActiveOn(d) = {} THEN 0 ELSE f[CHOOSE i \in ActiveOn(d) : TRUE]

\* accumulate_active_capacity
Committed(f, d) == SatSum(f, ActiveOn(d))

-----------------------------------------------------------------------------
(* Capacity                                                                *)

\* An estimate is needed, and fails.
Underivable(d, configured) ==
    configured = 0 /\ devices[d].profile.span # 0 /\ devices[d].est = 0

DerivedTotal(configured, span, derived) ==
    IF configured # 0 THEN configured ELSE IF span = 0 THEN 0 ELSE derived

TotalCredits(d) ==
    LET p == devices[d].profile
    IN  DerivedTotal(p.credits, p.span, p.span \div devices[d].est)

TotalRate(d) ==
    LET p == devices[d].profile
    IN  DerivedTotal(p.rate, p.span, CeilDiv(p.span, devices[d].est))

CapacityView(d, s, snap) ==
    LET credits == Committed(CreditsOf, d)
        rate == Committed(RateOf, d)
        scoped_credits == SatSum(CreditsOf, ActiveIn(d, s))
        scoped_rate == SatSum(RateOf, ActiveIn(d, s))
        available_credits == SatSub(TotalCredits(d), credits)
        available_rate == SatSub(TotalRate(d), rate)
    IN  [device_state |-> snap.state,
         now |-> IF snap.now = 0 THEN clock ELSE snap.now,
         total_credits |-> TotalCredits(d),
         credits_reserved |-> credits,
         scoped_credits |-> scoped_credits,
         external_credits |-> snap.external_credits,
         available_credits |-> available_credits,
         effective_credits |-> CappedAvailable(available_credits,
                                 snap.external_credits, scoped_credits),
         total_rate |-> TotalRate(d),
         rate_reserved |-> rate,
         scoped_rate |-> scoped_rate,
         external_rate |-> snap.external_rate,
         available_rate |-> available_rate,
         effective_rate |-> CappedAvailable(available_rate,
                              snap.external_rate, scoped_rate)]

\* Without a provider the core answers for itself.
OwnSnapshot(now) ==
    [ok |-> TRUE, state |-> "AVAILABLE", now |-> now,
     external_credits |-> 0, external_rate |-> 0]

SnapshotsNow == IF provider THEN Snapshots ELSE {OwnSnapshot(clock)}

-----------------------------------------------------------------------------
(* qhw_adm_reserve                                                         *)

\* walltime_ns = 0 is refused here too: it is not above any reserved time.
Infeasible(req) == req.walltime <= req.reserved

Budget(req) == req.walltime - req.reserved

PolicyView(req, snap) ==
    DecoratedView(devices[req.device].policy,
                  CapacityView(req.device, req.scope, snap))

\* The early returns of prepare_policy_call, in its order.
PrepareCode(req, snap) ==
    LET dev == devices[req.device]
    IN  IF req.walltime = 0 THEN "INVAL"
        ELSE IF ~dev.registered \/ dev.policy = NoPolicy THEN "NOT_FOUND"
        ELSE IF Infeasible(req) THEN "INVAL"
        ELSE IF dev.est = 0 THEN "ESTIMATOR"
        ELSE IF ~snap.ok THEN "CALLBACK"
        ELSE IF CapacityFails(dev.policy,
                    CapacityView(req.device, req.scope, snap)) THEN "POLICY"
        ELSE "OK"

\* Mutant: the id of a terminal reservation is free again.
FreeIdsAfterTerminal(req) ==
    {i \in Ids : (req.id # 0 => i = req.id) /\ ~Active(i)}

\* A caller's id may not name any entry, terminal ones included; otherwise
\* the scan starts at the counter and gives up when the counter wraps to 0.
FreeIds(req) ==
    IF req.id # 0 THEN {i \in {req.id} : reservations[i].state = "ABSENT"}
    ELSE {i \in Ids : /\ next_reservation_id # 0
                      /\ next_reservation_id <= i
                      /\ reservations[i].state = "ABSENT"}

Allocates(req, i) == i \in FreeIds(req) /\ \A j \in FreeIds(req) : i <= j

NextIdAfter(req, i) ==
    IF req.id # 0 THEN next_reservation_id ELSE (i + 1) % (MaxId + 1)

\* Mutant: the walltime is not a fallback.
LeaseTtlWithoutWalltime(req, profile, answer) ==
    IF answer.ttl # 0 THEN answer.ttl
    ELSE IF req.ttl # 0 THEN req.ttl ELSE profile.ttl

\* select_ttl
LeaseTtl(req, profile, answer) ==
    IF answer.ttl # 0 THEN answer.ttl
    ELSE IF req.ttl # 0 THEN req.ttl
    ELSE IF req.walltime # 0 THEN req.walltime
    ELSE profile.ttl

\* Mutant: the sum is not checked.
LeaseNeverOverflows(created, ttl) == FALSE

LeaseOverflows(created, ttl) == ttl # 0 /\ MaxTime - created < ttl

LeaseEnd(created, ttl) == IF ttl = 0 THEN 0 ELSE created + ttl

\* Mutant: a grant is compared with the total, not with what is left of it.
ValidGrantOfTotal(answer, view) ==
    /\ answer.matches
    /\ view.total_credits # 0 => answer.credits <= view.total_credits
    /\ view.total_rate # 0 => answer.rate <= view.total_rate

\* A capacity the device does not have is not enforced by the core.
ValidGrant(answer, view) ==
    /\ answer.matches
    /\ \/ view.total_credits = 0 /\ view.external_credits = 0
       \/ answer.credits <= view.effective_credits
    /\ \/ view.total_rate = 0 /\ view.external_rate = 0
       \/ answer.rate <= view.effective_rate

NewReservation(req, answer, view) ==
    LET dev == devices[req.device]
    IN  [state |-> "ACTIVE", device |-> req.device, scope |-> req.scope,
         credits |-> answer.credits, rate |-> answer.rate,
         created |-> view.now,
         expires |-> LeaseEnd(view.now, LeaseTtl(req, dev.profile, answer)),
         policy |-> dev.policy, window |-> dev.profile.span,
         profile_version |-> dev.profile_version,
         policy_version |-> dev.policy_version,
         estimator_version |-> dev.estimator_version]

Inserted(i, entry) == [reservations EXCEPT ![i] = entry]

Removed(table, i) == [table EXCEPT ![i] = NoReservation]

\* An accepted grant: the entry is created and inserted, and removed again
\* if its decision cannot be copied out.
ConcludeGrant(req, i, answer, view, snap) ==
    LET ttl == LeaseTtl(req, devices[req.device].profile, answer)
        entry == NewReservation(req, answer, view)
    IN  \/ /\ LeaseOverflows(view.now, ttl)
           /\ Decides("INVAL", "ACCEPTED", snap)
           /\ UNCHANGED reservations
        \/ /\ Decides("NOMEM", "ACCEPTED", snap)
           /\ UNCHANGED reservations
        \/ /\ ~LeaseOverflows(view.now, ttl)
           /\ \/ /\ Decides("OK", "ACCEPTED", snap)
                 /\ reservations' = Inserted(i, entry)
              \/ /\ Decides("NOMEM", "ACCEPTED", snap)
                 /\ reservations' = Removed(Inserted(i, entry), i)

\* The allocated id is spent whatever the policy answers.
Conclude(req, i, answer, view, snap) ==
    \/ /\ answer.decision = "ERROR"
       /\ Decides("CALLBACK", "NONE", snap)
       /\ UNCHANGED reservations
    \/ /\ answer.decision \in {"DELAYED", "REJECTED"}
       /\ \E rc \in {"OK", "NOMEM"} : Decides(rc, answer.decision, snap)
       /\ UNCHANGED reservations
    \/ /\ answer.decision = "ACCEPTED"
       /\ ~ValidGrant(answer, view)
       /\ Decides("POLICY", "REJECTED", snap)
       /\ UNCHANGED reservations
    \/ /\ answer.decision = "ACCEPTED"
       /\ ValidGrant(answer, view)
       /\ ConcludeGrant(req, i, answer, view, snap)

\* The snapshot's metadata are copied before the policy sees the view.
ReserveRefused(req, snap) ==
    LET code == PrepareCode(req, snap)
    IN  /\ \/ code # "OK" /\ Decides(code, "REJECTED", snap)
           \/ code \in {"OK", "POLICY"} /\ Decides("NOMEM", "REJECTED", snap)
           \/ /\ code = "OK"
              /\ FreeIds(req) = {}
              /\ Decides(IF req.id # 0 THEN "EXISTS" ELSE "STATE",
                         "REJECTED", snap)
        /\ UNCHANGED <<devices, reservations, next_reservation_id, provider,
                       clock, counted>>

AnswersTo(req, snap) ==
    PolicyAnswers(devices[req.device].policy, devices[req.device].profile,
                  req.units, Budget(req), PolicyView(req, snap))

ReserveDecided(req, snap) ==
    /\ PrepareCode(req, snap) = "OK"
    /\ \E i \in Ids :
          /\ Allocates(req, i)
          /\ next_reservation_id' = NextIdAfter(req, i)
          /\ \E answer \in AnswersTo(req, snap) :
                Conclude(req, i, answer, PolicyView(req, snap), snap)
    /\ UNCHANGED <<devices, provider, clock, counted>>

Reserve(req) ==
    \E snap \in SnapshotsNow :
        ReserveRefused(req, snap) \/ ReserveDecided(req, snap)

-----------------------------------------------------------------------------
(* The end of a reservation                                                *)

Stored(entry, state) == [entry EXCEPT !.state = state]

\* Mutant: the new state is not rolled back.
NotRolledBack(entry, old) == entry

RolledBack(entry, old) == [entry EXCEPT !.state = old.state]

\* The new state is stored, then release is called, then a refusal is undone.
Transitioned(entry, state, rc) ==
    IF rc = "OK" THEN Stored(entry, state)
    ELSE RolledBack(Stored(entry, state), entry)

ReleaseAnswers(policy) ==
    IF ReleaseMayFail(policy) THEN {"OK", "CALLBACK"} ELSE {"OK"}

\* transition_reservation; to ask for the state the entry is in succeeds.
Transition(call, i, state) ==
    \/ reservations[i].state = "ABSENT" /\ Refuse(call, "NOT_FOUND")
    \/ reservations[i].state = state /\ Refuse(call, "OK")
    \/ reservations[i].state \in Terminal \ {state} /\ Refuse(call, "STATE")
    \/ /\ Active(i)
       /\ \E rc \in ReleaseAnswers(reservations[i].policy) :
             /\ Returns(call, rc)
             /\ reservations' = [reservations EXCEPT
                  ![i] = Transitioned(reservations[i], state, rc)]
       /\ UNCHANGED <<devices, next_reservation_id, provider, clock, counted>>

Release(i) == Transition("release", i, "RELEASED")

Cancel(i) == Transition("cancel", i, "CANCELLED")

\* now_ns = 0 asks for the context's own clock.
AsOf(now) == IF now = 0 THEN clock ELSE now

\* A lease that has lapsed but was not swept yet can still be renewed.
Renew(i, now, ttl) ==
    \/ reservations[i].state = "ABSENT" /\ Refuse("renew", "NOT_FOUND")
    \/ reservations[i].state \in Terminal /\ Refuse("renew", "STATE")
    \/ /\ Active(i)
       /\ LeaseOverflows(AsOf(now), ttl)
       /\ Refuse("renew", "INVAL")
    \/ /\ Active(i)
       /\ ~LeaseOverflows(AsOf(now), ttl)
       /\ SetReservation("renew", i,
            [reservations[i] EXCEPT !.expires = LeaseEnd(AsOf(now), ttl)])

\* Mutant: a lease that ends right now is kept.
LapsedBefore(now) ==
    {i \in Ids : Active(i) /\ reservations[i].expires < now}

Lapsed(now) ==
    {i \in Ids : /\ Active(i)
                 /\ reservations[i].expires # 0
                 /\ reservations[i].expires <= now}

Swept(S) ==
    [i \in Ids |-> IF i \in S
                   THEN Transitioned(reservations[i], "EXPIRED", "OK")
                   ELSE reservations[i]]

ExpireAll(now) ==
    /\ reservations' = Swept(Lapsed(AsOf(now)))
    /\ counted' = counted \cup Lapsed(AsOf(now))
    /\ Returns("expire", "OK")
    /\ UNCHANGED <<devices, next_reservation_id, provider, clock>>

\* The sweep undoes the first entry whose release callback fails, and stops.
\* Which it met before is the order of the hash buckets; no count is returned.
ExpireFails(now) ==
    /\ \E i \in Lapsed(AsOf(now)) :
          /\ ReleaseMayFail(reservations[i].policy)
          /\ \E done \in SUBSET (Lapsed(AsOf(now)) \ {i}) :
                reservations' = [Swept(done) EXCEPT ![i] =
                    Transitioned(reservations[i], "EXPIRED", "CALLBACK")]
    /\ Returns("expire", "CALLBACK")
    /\ UNCHANGED <<devices, next_reservation_id, provider, clock, counted>>

Expire(now) == ExpireAll(now) \/ ExpireFails(now)

-----------------------------------------------------------------------------
(* The device registry                                                     *)

\* Replacing an entry drops its policy and its estimator.
RegisterDevice(d, profile) ==
    \/ Refuse("register", "NOMEM")
    \/ /\ ~devices[d].registered
       /\ SetDevice("register", d, FreshDevice(profile, 1))
    \/ /\ devices[d].registered
       /\ HasActive(d)
       /\ Refuse("register", "STATE")
    \/ /\ devices[d].registered
       /\ ~HasActive(d)
       /\ devices[d].profile_version < MaxVersion
       /\ SetDevice("register", d,
            FreshDevice(profile, devices[d].profile_version + 1))

\* The two early returns every configuration call starts with.
Unconfigurable(call, d) ==
    \/ ~devices[d].registered /\ Refuse(call, "NOT_FOUND")
    \/ devices[d].registered /\ HasActive(d) /\ Refuse(call, "STATE")

Configurable(d) == devices[d].registered /\ ~HasActive(d)

UnregisterDevice(d) ==
    \/ Unconfigurable("unregister", d)
    \/ Configurable(d) /\ SetDevice("unregister", d, NoDevice)

SetBaseline(d, baseline) ==
    \/ Unconfigurable("set_baseline", d)
    \/ /\ Configurable(d)
       /\ ~baseline.fits
       /\ Refuse("set_baseline", "INVAL")
    \/ /\ Configurable(d)
       /\ baseline.fits
       /\ devices[d].profile_version < MaxVersion
       /\ SetDevice("set_baseline", d,
            [devices[d] EXCEPT !.est = baseline.est,
                               !.profile_version = @ + 1])

\* The plugin is not found, or its init callback fails; the baseline estimator
\* takes no options.
SetEstimator(d, estimator) ==
    \/ Unconfigurable("set_estimator", d)
    \/ /\ Configurable(d)
       /\ \E rc \in {"NOT_FOUND", "INVAL", "NOMEM", "CALLBACK"} :
             Refuse("set_estimator", rc)
    \/ /\ Configurable(d)
       /\ devices[d].estimator_version < MaxVersion
       /\ SetDevice("set_estimator", d,
            [devices[d] EXCEPT !.est = estimator.est,
                               !.feedback = estimator.feedback,
                               !.estimator_version = @ + 1])

\* Only an explicit slice is compared with the total rate.
PolicyRefusal(d, policy) ==
    LET profile == devices[d].profile
        sliced == policy.kind = "rate" /\ policy.slice # 0
    IN  IF sliced /\ Underivable(d, profile.rate) THEN "ESTIMATOR"
        ELSE IF sliced /\ policy.slice > TotalRate(d) THEN "INVAL"
        ELSE IF InitFails(policy, profile) THEN "INVAL"
        ELSE "OK"

\* What may fail when nothing is wrong with the options: the search for the
\* plugin, and its init callback.
SelectionFailures(policy) ==
    {"NOT_FOUND", "NOMEM"}
        \cup (IF policy.kind \in StandardKinds THEN {} ELSE {"CALLBACK"})

SetPolicy(d, policy) ==
    \/ Unconfigurable("set_policy", d)
    \/ /\ Configurable(d)
       /\ \E rc \in SelectionFailures(policy) : Refuse("set_policy", rc)
    \/ /\ Configurable(d)
       /\ PolicyRefusal(d, policy) # "OK"
       /\ Refuse("set_policy", PolicyRefusal(d, policy))
    \/ /\ Configurable(d)
       /\ PolicyRefusal(d, policy) = "OK"
       /\ devices[d].policy_version < MaxVersion
       /\ SetDevice("set_policy", d,
            [devices[d] EXCEPT !.policy = policy,
                               !.policy_version = @ + 1])

SetCapacityProvider(installed) ==
    /\ provider' = installed
    /\ Returns("set_provider", "OK")
    /\ UNCHANGED <<devices, reservations, next_reservation_id, clock,
                   counted>>

\* qhw_adm_record_actual hands actual usage to an estimator that learns from
\* it: the estimate moves under an active reservation and no version does.
Feedback(i) ==
    /\ Active(i)
    /\ devices[reservations[i].device].feedback
    /\ \E estimator \in Estimators :
          SetDevice("feedback", reservations[i].device,
            [devices[reservations[i].device] EXCEPT !.est = estimator.est])

\* TIME_UTC may step backwards.
Tick ==
    /\ clock' \in ClockSteps
    /\ Returns("tick", "OK")
    /\ UNCHANGED <<devices, reservations, next_reservation_id, provider,
                   counted>>

-----------------------------------------------------------------------------
(* The specification                                                       *)

Init ==
    /\ devices = [d \in Devices |-> NoDevice]
    /\ reservations = [i \in Ids |-> NoReservation]
    /\ next_reservation_id = 1
    /\ provider = FALSE
    /\ clock \in ClockSteps
    /\ counted = {}
    /\ out = [call |-> "init", rc |-> "OK", decision |-> "NONE", seen |-> {}]

Configure ==
    \E d \in Devices :
        \/ \E profile \in Profiles : RegisterDevice(d, profile)
        \/ UnregisterDevice(d)
        \/ \E baseline \in Baselines : SetBaseline(d, baseline)
        \/ \E estimator \in Estimators : SetEstimator(d, estimator)
        \/ \E policy \in PolicyInstances : SetPolicy(d, policy)

EndLease ==
    \/ \E i \in Ids : Release(i) \/ Cancel(i)
    \/ \E i \in Ids, arg \in RenewArgs : Renew(i, arg[1], arg[2])
    \/ \E now \in SweepArgs : Expire(now)

Next ==
    \/ Configure
    \/ \E installed \in BOOLEAN : SetCapacityProvider(installed)
    \/ \E req \in Requests : Reserve(req)
    \/ EndLease
    \/ \E i \in Ids : Feedback(i)
    \/ Tick

Spec == Init /\ [][Next]_vars

-----------------------------------------------------------------------------
(* Invariants                                                              *)

DecisionNames == DecisionKinds \cup {"NONE"}

SnapshotsSeen == Snapshots \cup {OwnSnapshot(t) : t \in Times}

(* Every variable keeps the type its C counterpart has, the expiry of a    *)
(* lease and the id counter staying inside their 64 bits; what is not in   *)
(* the table holds nothing.                                                *)
TypeOK ==
    /\ devices \in [Devices -> DeviceEntry]
    /\ reservations \in [Ids -> ReservationEntry]
    /\ \A i \in Ids : reservations[i].state = "ABSENT"
                          => reservations[i] = NoReservation
    /\ next_reservation_id \in 0..MaxId
    /\ provider \in BOOLEAN
    /\ clock \in Times
    /\ counted \subseteq Ids
    /\ out \in [call : Calls, rc : ReturnCodes, decision : DecisionNames,
                 seen : SUBSET SnapshotsSeen]

\* What a device may have promised, in credits and in rate.
CreditLimit(d) ==
    IF devices[d].policy.kind = "credit"
    THEN EffectiveLimit(devices[d].policy, TotalCredits(d))
    ELSE TotalCredits(d)

RateLimit(d) == TotalRate(d)

CreditsCommitted(d) == UnitSum(CreditsOf, ActiveOn(d))
RateCommitted(d) == UnitSum(RateOf, ActiveOn(d))

(* However reserve, release, renew, sweeps and reconfiguration interleave,  *)
(* and whatever a third-party policy grants, the credits that the active    *)
(* reservations of a device hold never exceed its configured total plus the *)
(* overcommit of its credit policy.                                         *)
NoCreditOversell ==
    \A d \in Devices :
        devices[d].registered /\ devices[d].profile.credits # 0
            => CreditsCommitted(d) <= CreditLimit(d)

(* The same for the rate units of a device with a configured rate.          *)
NoRateOversell ==
    \A d \in Devices :
        devices[d].registered /\ devices[d].profile.rate # 0
            => RateCommitted(d) <= RateLimit(d)

(* An active reservation keeps pointers into its device: policy, policy     *)
(* state, accounting window.  The device it names is registered and still   *)
(* has exactly the policy instance, window and versions the reservation was *)
(* granted under, so the pointers never dangle and release never calls a    *)
(* destroyed policy state.                                                  *)
PinnedConfiguration ==
    \A i \in Ids : Active(i) =>
        LET dev == devices[reservations[i].device]
            entry == reservations[i]
        IN  /\ dev.registered
            /\ dev.policy # NoPolicy
            /\ dev.policy = entry.policy
            /\ dev.profile.span = entry.window
            /\ dev.profile_version = entry.profile_version
            /\ dev.policy_version = entry.policy_version
            /\ dev.estimator_version = entry.estimator_version

(* expires_at_ns = 0 would exempt a reservation from every sweep; the       *)
(* validation of the request, select_ttl and renew together exclude it.     *)
EveryLeaseEnds == \A i \in Ids : Active(i) => reservations[i].expires # 0

(* detailed-design.md says that a reservation is counted as expired once:   *)
(* every expired reservation was in a count that qhw_adm_expire returned.   *)
ExpiredAreCounted ==
    \A i \in Ids : reservations[i].state = "EXPIRED" => i \in counted

-----------------------------------------------------------------------------
(* Action properties                                                       *)

FinalOnce(i) ==
    reservations[i].state \in Terminal => reservations'[i] = reservations[i]

OnlyTheLeaseMoves(i) ==
    Active(i) => /\ reservations'[i].state \in {"ACTIVE"} \cup Terminal
                 /\ reservations'[i] =
                      [reservations[i] EXCEPT
                          !.state = reservations'[i].state,
                          !.expires = reservations'[i].expires]

(* A terminal reservation never changes again, its id is never reissued,    *)
(* and what an active one was granted (device, scope, units, versions) is   *)
(* never edited: only its state and its lease move.                         *)
ReservationLifecycle ==
    [][\A i \in Ids : FinalOnce(i) /\ OnlyTheLeaseMoves(i)]_vars

SweepTimes == {clock} \cup (SweepArgs \ {0})

(* A sweep that reports success ends exactly the leases that lapsed at one  *)
(* instant, and no other step expires anything.                             *)
SweepIsExact ==
    [][IF out'.call = "expire" /\ out'.rc = "OK"
       THEN \E now \in SweepTimes : \A i \in Ids : Active(i) =>
              (reservations'[i].state = "EXPIRED"
                   <=> reservations[i].expires <= now)
       ELSE \A i \in Ids :
              reservations'[i].state = "EXPIRED" /\ out'.call # "expire"
                  => reservations[i].state = "EXPIRED"]_vars

(* The step that adds units to a device leaves it within the limit that     *)
(* holds at that instant, derived totals included: calibration may lower a  *)
(* derived total under active reservations, a grant may not exceed it.      *)
GrantsFit ==
    [][\A d \in Devices :
        /\ CreditsCommitted(d)' > CreditsCommitted(d)
              => TotalCredits(d) = 0 \/ CreditsCommitted(d)' <= CreditLimit(d)
        /\ RateCommitted(d)' > RateCommitted(d)
              => TotalRate(d) = 0 \/ RateCommitted(d)' <= RateLimit(d)]_vars

WithinCap(amount, cap) == cap = 0 \/ amount <= cap

ScopeCredits(d, s) == UnitSum(CreditsOf, ActiveIn(d, s))
ScopeRate(d, s) == UnitSum(RateOf, ActiveIn(d, s))

GrewInScope(d, s) ==
    \/ ScopeCredits(d, s)' > ScopeCredits(d, s)
    \/ ScopeRate(d, s)' > ScopeRate(d, s)

FitsCapsOf(snap, d, s) ==
    /\ snap.ok /\ snap.state = "AVAILABLE"
    /\ ScopeCredits(d, s)' > ScopeCredits(d, s)
         => WithinCap(ScopeCredits(d, s)', snap.external_credits)
    /\ ScopeRate(d, s)' > ScopeRate(d, s)
         => WithinCap(ScopeRate(d, s)', snap.external_rate)

(* A grant leaves the units of its scope within the cap of the snapshot it  *)
(* was decided on, and that snapshot shows an available device; for credits *)
(* and for rate.  The cap counts what the scope holds already.              *)
ScopeCapRespected ==
    [][\A d \in Devices, s \in Scopes :
        GrewInScope(d, s)
            => \E snap \in out'.seen : FitsCapsOf(snap, d, s)]_vars

\* A sweep that failed ended some of what had lapsed, and not all of it.
StopsMidway(now) ==
    /\ \E i \in Ids :
          /\ Active(i) /\ reservations[i].expires <= now
          /\ reservations'[i] = reservations[i]
    /\ \A i \in Ids :
          \/ reservations'[i] = reservations[i]
          \/ /\ Active(i) /\ reservations[i].expires <= now
             /\ reservations'[i] = [reservations[i] EXCEPT !.state = "EXPIRED"]

(* A call that reports an error has changed no device, no reservation and   *)
(* no provider, however far it came before it had to undo its work: an entry*)
(* whose release callback refused is what it was, and so is the table if a  *)
(* decision could not be copied.  A sweep keeps the entries it ended before *)
(* the callback that failed; that one's entry is left for the next sweep.   *)
FailedCallsChangeNothing ==
    [][out'.rc # "OK" =>
        /\ UNCHANGED <<devices, provider>>
        /\ IF out'.call = "expire"
           THEN \E now \in SweepTimes : StopsMidway(now)
           ELSE UNCHANGED reservations]_vars
=============================================================================
