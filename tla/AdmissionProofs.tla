-------------------------- MODULE AdmissionProofs --------------------------
(***************************************************************************)
(* Type correctness, the pinned configuration and the two capacity         *)
(* invariants of Admission, for every device set, width and repertoire of  *)
(* inputs.  The argument goes by the shape of a step: what any call may do *)
(* to the two tables is one of six things, and each invariant is checked   *)
(* against those six.                                                      *)
(***************************************************************************)
EXTENDS Admission, CapacityTheorems

LedgerTypeOK ==
    /\ devices \in [Devices -> DeviceEntry]
    /\ reservations \in [Ids -> ReservationEntry]
    /\ \A i \in Ids : reservations[i].state = "ABSENT"
                          => reservations[i] = NoReservation

-----------------------------------------------------------------------------
(* The shapes of a step                                                    *)

Quiet == UNCHANGED <<devices, reservations>>

Reconfigured(d) ==
    /\ ~HasActive(d)
    /\ UNCHANGED reservations
    /\ \E entry \in DeviceEntry : devices' = [devices EXCEPT ![d] = entry]

Recalibrated(d) ==
    /\ UNCHANGED reservations
    /\ \E n \in Nat :
          devices' = [devices EXCEPT ![d] = [devices[d] EXCEPT !.est = n]]

Granted(i, req, snap, answer) ==
    /\ Decides("OK", "ACCEPTED", snap)
    /\ PrepareCode(req, snap) = "OK"
    /\ reservations[i].state = "ABSENT"
    /\ answer.decision = "ACCEPTED"
    /\ ValidGrant(answer, PolicyView(req, snap))
    /\ ~LeaseOverflows(PolicyView(req, snap).now,
                       LeaseTtl(req, devices[req.device].profile, answer))
    /\ reservations' = [reservations EXCEPT
         ![i] = NewReservation(req, answer, PolicyView(req, snap))]
    /\ UNCHANGED devices

Ended(S, state) ==
    /\ \A i \in S : Active(i)
    /\ reservations' = [i \in Ids |-> IF i \in S
                            THEN [reservations[i] EXCEPT !.state = state]
                            ELSE reservations[i]]
    /\ UNCHANGED devices

Renewed(i) ==
    /\ Active(i)
    /\ \E t \in Times \ {0} :
          reservations' = [reservations EXCEPT
             ![i] = [reservations[i] EXCEPT !.expires = t]]
    /\ UNCHANGED devices

SomeShape ==
    \/ Quiet
    \/ \E d \in Devices : Reconfigured(d) \/ Recalibrated(d)
    \/ \E req \in Requests, i \in Ids : \E snap \in SnapshotsNow :
          \E answer \in AnswersTo(req, snap) : Granted(i, req, snap, answer)
    \/ \E S \in SUBSET Ids, state \in Terminal : Ended(S, state)
    \/ \E i \in Ids : Renewed(i)

(* A refused call touches neither table.                                   *)
LEMMA RefusalIsQuiet ==
    ASSUME NEW call, NEW rc, Refuse(call, rc) PROVE Quiet
BY DEF Refuse, Quiet

(* What is undone is what it was: an entry whose transition was refused,   *)
(* and the table an entry was inserted into and removed from.              *)
LEMMA TransitionUndone ==
    ASSUME NEW entry \in ReservationEntry, NEW state
    PROVE  /\ Transitioned(entry, state, "CALLBACK") = entry
           /\ Transitioned(entry, state, "OK")
                = [entry EXCEPT !.state = state]
BY DEF Transitioned, RolledBack, Stored, ReservationEntry

LEMMA InsertionUndone ==
    ASSUME LedgerTypeOK, NEW i \in Ids, reservations[i].state = "ABSENT",
           NEW entry
    PROVE  Removed(Inserted(i, entry), i) = reservations
<1>1. reservations[i] = NoReservation
    BY DEF LedgerTypeOK
<1> QED
    BY <1>1 DEF LedgerTypeOK, Removed, Inserted

(* The entry at which a sweep stops is not in what it swept.               *)
LEMMA SweepStopUndone ==
    ASSUME LedgerTypeOK, NEW i \in Ids, NEW done, i \notin done
    PROVE  [Swept(done) EXCEPT
              ![i] = Transitioned(reservations[i], "EXPIRED", "CALLBACK")]
             = Swept(done)
<1>1. Transitioned(reservations[i], "EXPIRED", "CALLBACK") = reservations[i]
    BY TransitionUndone DEF LedgerTypeOK
<1>2. Swept(done)[i] = reservations[i]
    BY DEF Swept
<1> QED
    BY <1>1, <1>2 DEF Swept

(* A request that was put to the policy grants a lease or leaves the tables*)
(* as they were, however far it came.                                      *)
LEMMA ReserveOutcome ==
    ASSUME LedgerTypeOK, NEW req, NEW snap, ReserveDecided(req, snap)
    PROVE  /\ out'.call = "reserve"
           /\ UNCHANGED <<devices, provider>>
           /\ \/ UNCHANGED reservations
              \/ \E i \in Ids : \E answer \in AnswersTo(req, snap) :
                    Granted(i, req, snap, answer)
<1> DEFINE view == PolicyView(req, snap)
<1>1. PICK i \in Ids :
        /\ Allocates(req, i)
        /\ \E answer \in AnswersTo(req, snap) :
              Conclude(req, i, answer, view, snap)
    BY DEF ReserveDecided
<1>2. PICK answer \in AnswersTo(req, snap) :
        Conclude(req, i, answer, view, snap)
    BY <1>1
<1>3. reservations[i].state = "ABSENT"
    BY <1>1 DEF Allocates, FreeIds
<1>4. PrepareCode(req, snap) = "OK" /\ UNCHANGED <<devices, provider>>
    BY DEF ReserveDecided
<1>5. out'.call = "reserve"
    BY <1>2 DEF Conclude, ConcludeGrant, Decides
<1>6. ASSUME answer.decision = "ACCEPTED", ValidGrant(answer, view),
             ConcludeGrant(req, i, answer, view, snap)
      PROVE  UNCHANGED reservations \/ Granted(i, req, snap, answer)
  <2> DEFINE entry == NewReservation(req, answer, view)
  <2>1. Removed(Inserted(i, entry), i) = reservations
      BY <1>3, InsertionUndone
  <2>2. ASSUME ~LeaseOverflows(view.now,
                  LeaseTtl(req, devices[req.device].profile, answer)),
               Decides("OK", "ACCEPTED", snap),
               reservations' = Inserted(i, entry)
        PROVE  Granted(i, req, snap, answer)
      BY <1>3, <1>4, <1>6, <2>2 DEF Granted, Inserted
  <2> QED
      BY <1>6, <2>1, <2>2 DEF ConcludeGrant
<1>7. UNCHANGED reservations \/ Granted(i, req, snap, answer)
    BY <1>2, <1>6 DEF Conclude
<1> QED
    BY <1>4, <1>5, <1>7

(* An admission call is quiet or a grant.                                  *)
LEMMA ReserveShape ==
    ASSUME LedgerTypeOK, NEW req \in Requests, Reserve(req)
    PROVE  SomeShape
<1>1. PICK snap \in SnapshotsNow :
        ReserveRefused(req, snap) \/ ReserveDecided(req, snap)
    BY DEF Reserve
<1>2. CASE ReserveRefused(req, snap)
    BY <1>2 DEF ReserveRefused, SomeShape, Quiet
<1>3. CASE ReserveDecided(req, snap)
    BY <1>3, ReserveOutcome DEF SomeShape, Quiet
<1> QED
    BY <1>1, <1>2, <1>3

(* A lease that is released, cancelled, swept or renewed.                  *)
LEMMA EndLeaseShape ==
    ASSUME LedgerTypeOK, clock \in Times, EndLease PROVE SomeShape
<1>1. ASSUME NEW call, NEW i \in Ids, NEW state \in Terminal,
             Transition(call, i, state)
      PROVE  SomeShape
  <2>1. CASE \/ Refuse(call, "NOT_FOUND") \/ Refuse(call, "OK")
             \/ Refuse(call, "STATE")
      BY <2>1, RefusalIsQuiet DEF SomeShape
  <2>2. ASSUME Active(i), NEW rc \in {"OK", "CALLBACK"},
               UNCHANGED devices,
               reservations' = [reservations EXCEPT
                 ![i] = Transitioned(reservations[i], state, rc)]
        PROVE  SomeShape
    <3>a. reservations[i] \in ReservationEntry
        BY DEF LedgerTypeOK
    <3>1. CASE rc = "CALLBACK"
      <4>1. UNCHANGED reservations
          BY <2>2, <3>1, <3>a, TransitionUndone DEF LedgerTypeOK
      <4> QED
          BY <2>2, <4>1 DEF Quiet, SomeShape
    <3>2. CASE rc = "OK"
      <4> DEFINE entry == Transitioned(reservations[i], state, rc)
      <4>a. entry = [reservations[i] EXCEPT !.state = state]
          BY <3>2, <3>a, TransitionUndone
      <4>b. reservations' = [reservations EXCEPT ![i] = entry]
          BY <2>2
      <4>c. reservations' = [j \in Ids |-> IF j \in {i} THEN entry
                                           ELSE reservations[j]]
        <5> HIDE DEF entry
        <5> QED
            BY <4>b DEF LedgerTypeOK
      <4>1. reservations' = [j \in Ids |-> IF j \in {i}
                            THEN [reservations[j] EXCEPT !.state = state]
                            ELSE reservations[j]]
          BY <4>a, <4>c
      <4>2. Ended({i}, state)
          BY <2>2, <4>1 DEF Ended
      <4> QED
          BY <4>2 DEF SomeShape
    <3> QED
        BY <3>1, <3>2
  <2> QED
      BY <1>1, <2>1, <2>2 DEF Transition, ReleaseAnswers
<1>2. ASSUME NEW i \in Ids, NEW arg \in RenewArgs, Renew(i, arg[1], arg[2])
      PROVE  SomeShape
  <2>1. CASE \/ Refuse("renew", "NOT_FOUND") \/ Refuse("renew", "STATE")
             \/ Refuse("renew", "INVAL")
      BY <2>1, RefusalIsQuiet DEF SomeShape
  <2>2. CASE /\ Active(i)
             /\ ~LeaseOverflows(AsOf(arg[1]), arg[2])
             /\ SetReservation("renew", i, [reservations[i] EXCEPT
                    !.expires = LeaseEnd(AsOf(arg[1]), arg[2])])
    <3>1. arg[1] \in Times /\ arg[2] \in Times \ {0}
        BY InputsAssumption
    <3>2. AsOf(arg[1]) \in Times
        BY <3>1 DEF AsOf
    <3>3. LeaseEnd(AsOf(arg[1]), arg[2]) \in Times \ {0}
        BY <2>2, <3>1, <3>2, BoundsAssumption
           DEF LeaseEnd, LeaseOverflows, Times
    <3>4. Renewed(i)
        BY <2>2, <3>3 DEF SetReservation, Renewed
    <3> QED
        BY <3>4 DEF SomeShape
  <2> QED
      BY <1>2, <2>1, <2>2 DEF Renew
<1>3. ASSUME NEW now \in SweepArgs, Expire(now) PROVE SomeShape
  <2>1. Lapsed(AsOf(now)) \in SUBSET Ids
      BY DEF Lapsed
  <2>2. \A i \in Lapsed(AsOf(now)) : Active(i)
      BY DEF Lapsed
  <2>3. ASSUME NEW S \in SUBSET Lapsed(AsOf(now)), reservations' = Swept(S),
               UNCHANGED devices
        PROVE  SomeShape
    <3>1. S \in SUBSET Ids /\ \A i \in S : Active(i)
        BY <2>1, <2>2
    <3>2. \A i \in Ids : Transitioned(reservations[i], "EXPIRED", "OK")
                           = [reservations[i] EXCEPT !.state = "EXPIRED"]
        BY TransitionUndone DEF LedgerTypeOK
    <3>3. Ended(S, "EXPIRED")
        BY <2>3, <3>1, <3>2 DEF Ended, Swept
    <3> QED
        BY <3>1, <3>3 DEF SomeShape, Terminal
  <2>4. CASE ExpireAll(now)
      BY <2>3, <2>4 DEF ExpireAll
  <2>5. CASE ExpireFails(now)
    <3>1. PICK i \in Lapsed(AsOf(now)) :
            \E done \in SUBSET (Lapsed(AsOf(now)) \ {i}) :
               reservations' = [Swept(done) EXCEPT ![i] =
                   Transitioned(reservations[i], "EXPIRED", "CALLBACK")]
        BY <2>5 DEF ExpireFails
    <3>2. PICK done \in SUBSET (Lapsed(AsOf(now)) \ {i}) :
            reservations' = [Swept(done) EXCEPT ![i] =
                Transitioned(reservations[i], "EXPIRED", "CALLBACK")]
        BY <3>1
    <3>3. reservations' = Swept(done)
        BY <2>1, <3>1, <3>2, SweepStopUndone
    <3> QED
        BY <2>3, <2>5, <3>3 DEF ExpireFails
  <2> QED
      BY <1>3, <2>4, <2>5 DEF Expire
<1> QED
    BY <1>1, <1>2, <1>3 DEF EndLease, Release, Cancel, Terminal

(* A fresh entry is an entry, and so is one with a field changed.          *)
LEMMA DeviceEntries ==
    ASSUME LedgerTypeOK, NEW d \in Devices
    PROVE  /\ NoDevice \in DeviceEntry
           /\ \A p \in Profiles, v \in Versions :
                 FreshDevice(p, v) \in DeviceEntry
           /\ \A n \in Nat, v \in Versions :
                 [devices[d] EXCEPT !.est = n, !.profile_version = v]
                    \in DeviceEntry
           /\ \A n \in Nat, b \in BOOLEAN, v \in Versions :
                 [devices[d] EXCEPT !.est = n, !.feedback = b,
                                    !.estimator_version = v]
                    \in DeviceEntry
           /\ \A policy \in PolicyInstances, v \in Versions :
                 [devices[d] EXCEPT !.policy = policy, !.policy_version = v]
                    \in DeviceEntry
<1>1. devices[d] \in DeviceEntry
    BY DEF LedgerTypeOK
<1>2. 0 \in Versions /\ 1 \in Versions
    BY BoundsAssumption DEF Versions
<1>3. NoDevice \in DeviceEntry
    BY <1>2 DEF NoDevice, NoProfile, NoPolicy, DeviceEntry
<1>4. ASSUME NEW p \in Profiles, NEW v \in Versions
      PROVE  FreshDevice(p, v) \in DeviceEntry
    BY <1>2, InputsAssumption
       DEF FreshDevice, Profile, NoPolicy, DeviceEntry
<1> QED
    BY <1>1, <1>3, <1>4 DEF DeviceEntry

(* A configuration call is quiet or changes one idle device.  The first    *)
(* registration of a device does not look for active reservations: that    *)
(* there are none is the invariant's doing.                                *)
LEMMA ConfigureShape ==
    ASSUME LedgerTypeOK, PinnedConfiguration, Configure PROVE SomeShape
<1>1. PICK d \in Devices :
        \/ \E profile \in Profiles : RegisterDevice(d, profile)
        \/ UnregisterDevice(d)
        \/ \E baseline \in Baselines : SetBaseline(d, baseline)
        \/ \E estimator \in Estimators : SetEstimator(d, estimator)
        \/ \E policy \in PolicyInstances : SetPolicy(d, policy)
    BY DEF Configure
<1>2. devices[d] \in DeviceEntry
    BY DEF LedgerTypeOK
<1>3. \A v \in Versions : v < MaxVersion => v + 1 \in Versions
    BY BoundsAssumption DEF Versions
<1>4. ASSUME NEW call, NEW entry \in DeviceEntry, ~HasActive(d),
             SetDevice(call, d, entry)
      PROVE  SomeShape
    BY <1>4 DEF SetDevice, Reconfigured, SomeShape
<1>5. ASSUME NEW call, Unconfigurable(call, d) PROVE SomeShape
    BY <1>5, RefusalIsQuiet DEF Unconfigurable, SomeShape
<1>6. ASSUME NEW profile \in Profiles, RegisterDevice(d, profile)
      PROVE  SomeShape
  <2>1. CASE Refuse("register", "STATE") \/ Refuse("register", "NOMEM")
      BY <2>1, RefusalIsQuiet DEF SomeShape
  <2>2. CASE /\ ~devices[d].registered
             /\ ~HasActive(d)
             /\ SetDevice("register", d, FreshDevice(profile, 1))
    <3>1. 1 \in Versions
        BY BoundsAssumption DEF Versions
    <3>2. FreshDevice(profile, 1) \in DeviceEntry
        BY <3>1, DeviceEntries
    <3> QED
        BY <2>2, <3>2, <1>4
  <2>3. CASE /\ ~HasActive(d)
             /\ devices[d].profile_version < MaxVersion
             /\ SetDevice("register", d,
                    FreshDevice(profile, devices[d].profile_version + 1))
    <3>1. FreshDevice(profile, devices[d].profile_version + 1) \in DeviceEntry
        BY <2>3, <1>2, <1>3, DeviceEntries DEF DeviceEntry
    <3> QED
        BY <2>3, <3>1, <1>4
  <2>4. ~devices[d].registered => ~HasActive(d)
      BY DEF PinnedConfiguration, HasActive, ActiveOn
  <2> QED
      BY <1>6, <2>1, <2>2, <2>3, <2>4 DEF RegisterDevice
<1>7. ASSUME UnregisterDevice(d) PROVE SomeShape
    BY <1>4, <1>5, <1>7, DeviceEntries DEF UnregisterDevice, Configurable
<1>8. ASSUME NEW baseline \in Baselines, SetBaseline(d, baseline)
      PROVE  SomeShape
  <2>1. CASE Unconfigurable("set_baseline", d)
      BY <2>1, <1>5
  <2>2. CASE Refuse("set_baseline", "INVAL")
      BY <2>2, RefusalIsQuiet DEF SomeShape
  <2> DEFINE entry == [devices[d] EXCEPT !.est = baseline.est,
                        !.profile_version = devices[d].profile_version + 1]
  <2>3. CASE /\ ~HasActive(d)
             /\ devices[d].profile_version < MaxVersion
             /\ SetDevice("set_baseline", d, entry)
    <3>1. baseline.est \in Nat
        BY InputsAssumption DEF Baseline
    <3>2. entry \in DeviceEntry
        BY <2>3, <3>1, <1>2, <1>3, DeviceEntries DEF DeviceEntry
    <3> QED
        BY <2>3, <3>2, <1>4
  <2> QED
      BY <1>8, <2>1, <2>2, <2>3 DEF SetBaseline, Configurable
<1>9. ASSUME NEW estimator \in Estimators, SetEstimator(d, estimator)
      PROVE  SomeShape
  <2>1. CASE Unconfigurable("set_estimator", d)
      BY <2>1, <1>5
  <2> DEFINE entry == [devices[d] EXCEPT !.est = estimator.est,
                        !.feedback = estimator.feedback,
                        !.estimator_version = devices[d].estimator_version + 1]
  <2>2. CASE /\ ~HasActive(d)
             /\ devices[d].estimator_version < MaxVersion
             /\ SetDevice("set_estimator", d, entry)
    <3>1. estimator.est \in Nat /\ estimator.feedback \in BOOLEAN
        BY InputsAssumption DEF Estimator
    <3>2. entry \in DeviceEntry
        BY <2>2, <3>1, <1>2, <1>3, DeviceEntries DEF DeviceEntry
    <3> QED
        BY <2>2, <3>2, <1>4
  <2>3. ASSUME NEW rc, Refuse("set_estimator", rc) PROVE SomeShape
      BY <2>3, RefusalIsQuiet DEF SomeShape
  <2> QED
      BY <1>9, <2>1, <2>2, <2>3 DEF SetEstimator, Configurable
<1>10. ASSUME NEW policy \in PolicyInstances, SetPolicy(d, policy)
       PROVE  SomeShape
  <2>1. CASE Unconfigurable("set_policy", d)
      BY <2>1, <1>5
  <2>2. ASSUME NEW rc, Refuse("set_policy", rc) PROVE SomeShape
      BY <2>2, RefusalIsQuiet DEF SomeShape
  <2> DEFINE entry == [devices[d] EXCEPT !.policy = policy,
                        !.policy_version = devices[d].policy_version + 1]
  <2>3. CASE /\ ~HasActive(d)
             /\ devices[d].policy_version < MaxVersion
             /\ SetDevice("set_policy", d, entry)
    <3>1. entry \in DeviceEntry
        BY <2>3, <1>2, <1>3, DeviceEntries DEF DeviceEntry
    <3> QED
        BY <2>3, <3>1, <1>4
  <2> QED
      BY <1>10, <2>1, <2>2, <2>3 DEF SetPolicy, Configurable
<1> QED
    BY <1>1, <1>6, <1>7, <1>8, <1>9, <1>10

(* Every step has one of the six shapes.                                   *)
LEMMA StepShape ==
    ASSUME LedgerTypeOK, clock \in Times, PinnedConfiguration, [Next]_vars
    PROVE  SomeShape
<1>1. CASE Configure
    BY <1>1, ConfigureShape
<1>2. CASE \E installed \in BOOLEAN : SetCapacityProvider(installed)
    BY <1>2 DEF SetCapacityProvider, SomeShape, Quiet
<1>3. CASE \E req \in Requests : Reserve(req)
    BY <1>3, ReserveShape
<1>4. CASE EndLease
    BY <1>4, EndLeaseShape
<1>5. ASSUME NEW i \in Ids, Feedback(i) PROVE SomeShape
  <2>1. reservations[i].device \in Devices
      BY DEF LedgerTypeOK, ReservationEntry
  <2>2. PICK estimator \in Estimators :
          SetDevice("feedback", reservations[i].device,
            [devices[reservations[i].device] EXCEPT !.est = estimator.est])
      BY <1>5 DEF Feedback
  <2>3. estimator.est \in Nat
      BY InputsAssumption DEF Estimator
  <2>4. Recalibrated(reservations[i].device)
      BY <2>2, <2>3 DEF Recalibrated, SetDevice
  <2> QED
      BY <2>1, <2>4 DEF SomeShape
<1>6. CASE Tick
    BY <1>6 DEF Tick, SomeShape, Quiet
<1>7. CASE UNCHANGED vars
    BY <1>7 DEF vars, SomeShape, Quiet
<1> QED
    BY <1>1, <1>2, <1>3, <1>4, <1>5, <1>6, <1>7 DEF Next

-----------------------------------------------------------------------------
(* The capacity view                                                       *)

\* A request that reached the policy, and the snapshot it was judged on.
Prepared(req, snap) ==
    /\ req \in Requests
    /\ snap \in SnapshotsNow
    /\ PrepareCode(req, snap) = "OK"

(* prepare_policy_call leaves a registered device with a policy, a working *)
(* estimate, a positive budget and a limit that fits.                      *)
LEMMA PreparedFacts ==
    ASSUME NEW req, NEW snap, Prepared(req, snap)
    PROVE  /\ devices[req.device].registered
           /\ devices[req.device].policy # NoPolicy
           /\ devices[req.device].est # 0
           /\ ~Infeasible(req)
           /\ ~CapacityFails(devices[req.device].policy,
                   CapacityView(req.device, req.scope, snap))
BY Zenon DEF Prepared, PrepareCode

(* Inputs are what their record sets say.                                  *)
LEMMA RequestTypes ==
    ASSUME NEW req \in Requests
    PROVE  /\ req.device \in Devices /\ req.scope \in Scopes
           /\ req.units \in Nat /\ req.units \in U64
           /\ req.walltime \in Nat /\ req.reserved \in Nat
           /\ req.ttl \in Nat
<1>1. req \in Request
    BY InputsAssumption
<1> QED
    BY <1>1, BoundsAssumption, WidthAssumption DEF Request, Times, U64

LEMMA SnapshotTypes ==
    ASSUME clock \in Times, NEW snap \in SnapshotsNow
    PROVE  /\ snap.now \in Times
           /\ snap.external_credits \in Nat
           /\ snap.external_rate \in Nat
<1>1. CASE snap \in Snapshots
  <2>1. snap \in Snapshot
      BY <1>1, InputsAssumption
  <2> QED
      BY <2>1, WidthAssumption DEF Snapshot, U64
<1>2. CASE snap = OwnSnapshot(clock)
    BY <1>2 DEF OwnSnapshot
<1> QED
    BY <1>1, <1>2 DEF SnapshotsNow

(* The parts of a device entry that capacity is computed from.             *)
LEMMA EntryTypes ==
    ASSUME NEW dev \in DeviceEntry
    PROVE  /\ dev.est \in Nat
           /\ dev.profile.credits \in U64
           /\ dev.profile.rate \in U64
           /\ dev.profile.span \in U64
           /\ dev.profile.jobs \in Nat
           /\ dev.profile.ttl \in Nat
           /\ dev.policy.over \in Nat
           /\ dev.policy.ppm \in Nat
           /\ dev.policy.slice \in U64
           /\ dev.policy.ttl \in Nat
           /\ dev.profile \in Profiles \cup {NoProfile}
           /\ dev.policy \in PolicyInstances \cup {NoPolicy}
<1>1. dev.profile \in Profile
  <2>1. NoProfile \in Profile
      BY WidthAssumption DEF NoProfile, Profile, U64
  <2> QED
      BY <2>1, InputsAssumption DEF DeviceEntry
<1>2. /\ dev.policy.over \in U64
      /\ dev.policy.ppm \in 0..PpmScale
      /\ dev.policy.slice \in U64
      /\ dev.policy.ttl \in Nat
  <2>1. CASE dev.policy \in PolicyInstances
    <3>1. dev.policy \in PolicyInstance
        BY <2>1, InputsAssumption
    <3> QED
        BY <3>1 DEF PolicyInstance
  <2>2. CASE dev.policy = NoPolicy
      BY <2>2, WidthAssumption, PpmScaleAssumption DEF NoPolicy, U64
  <2> QED
      BY <2>1, <2>2 DEF DeviceEntry
<1> QED
    BY <1>1, <1>2, WidthAssumption, PpmScaleAssumption
       DEF DeviceEntry, Profile, U64

LEMMA DeviceTypes ==
    ASSUME LedgerTypeOK, NEW d \in Devices
    PROVE  /\ devices[d] \in DeviceEntry
           /\ devices[d].est \in Nat
           /\ devices[d].profile.credits \in U64
           /\ devices[d].profile.rate \in U64
           /\ devices[d].profile.span \in U64
           /\ devices[d].profile.jobs \in Nat
           /\ devices[d].profile.ttl \in Nat
           /\ devices[d].policy.slice \in U64
           /\ devices[d].policy.ttl \in Nat
<1>1. devices[d] \in DeviceEntry
    BY DEF LedgerTypeOK
<1> QED
    BY <1>1, EntryTypes

(* Totals fit in their 64 bits, whether configured or derived.             *)
LEMMA TotalsFit ==
    ASSUME LedgerTypeOK, NEW d \in Devices, devices[d].est # 0
    PROVE  TotalCredits(d) \in U64 /\ TotalRate(d) \in U64
<1> DEFINE p == devices[d].profile
           est == devices[d].est
<1>1. /\ est \in Nat \ {0}
      /\ p.credits \in U64 /\ p.rate \in U64 /\ p.span \in U64
    BY DeviceTypes
<1>2. p.span \in Nat /\ p.span <= MaxU64 /\ 0 \in U64
    BY <1>1, WidthAssumption DEF U64
<1>3. CeilDiv(p.span, est) \in Nat /\ CeilDiv(p.span, est) <= p.span
    BY <1>1, <1>2, CeilDivBound
<1>4. p.span \div est \in Nat /\ p.span \div est <= CeilDiv(p.span, est)
  <2> HIDE DEF p, est
  <2>1. p.span \div est \in Nat
      BY <1>1, <1>2
  <2> QED
      BY <2>1 DEF CeilDiv
<1>5. CeilDiv(p.span, est) \in U64 /\ p.span \div est \in U64
  <2> HIDE DEF p, est
  <2> QED
      BY <1>2, <1>3, <1>4, WidthAssumption DEF U64
<1> QED
    BY <1>1, <1>2, <1>5 DEF TotalCredits, TotalRate, DerivedTotal

(* A committed sum is a natural number, and saturates at the width.        *)
LEMMA CommittedTypes ==
    ASSUME NEW f, NEW d
    PROVE  /\ UnitSum(f, ActiveOn(d)) \in Nat
           /\ Committed(f, d) \in Nat
           /\ \/ Committed(f, d) = UnitSum(f, ActiveOn(d))
              \/ Committed(f, d) = MaxU64
<1>1. IsFiniteSet(Ids)
    BY FS_Interval, BoundsAssumption DEF Ids
<1>2. IsFiniteSet(ActiveOn(d))
    BY <1>1, FS_Subset DEF ActiveOn
<1>3. UnitSum(f, ActiveOn(d)) \in Nat
    BY <1>2, UnitsFinite
<1> QED
    BY <1>3, WidthAssumption DEF Committed, SatSum

LEMMA ScopedTypes ==
    ASSUME NEW f, NEW d, NEW s
    PROVE  SatSum(f, ActiveIn(d, s)) \in Nat
<1>1. IsFiniteSet(Ids)
    BY FS_Interval, BoundsAssumption DEF Ids
<1>2. IsFiniteSet(ActiveIn(d, s))
    BY <1>1, FS_Subset DEF ActiveOn, ActiveIn
<1>3. UnitSum(f, ActiveIn(d, s)) \in Nat
    BY <1>2, UnitsFinite
<1> QED
    BY <1>3, WidthAssumption DEF SatSum

(* A limit that fits is a natural number of 64 bits.                       *)
LEMMA EffectiveLimitFits ==
    ASSUME NEW dev \in DeviceEntry, NEW total \in U64
    PROVE  /\ EffectiveLimit(dev.policy, total) \in Nat
           /\ ~LimitOverflows(dev.policy, total)
                 => EffectiveLimit(dev.policy, total) <= MaxU64
<1> DEFINE policy == dev.policy
<1>1. policy.over \in Nat /\ policy.ppm \in Nat /\ total \in Nat
    BY EntryTypes, WidthAssumption DEF U64
<1>2. PpmValue(total, policy.ppm) \in Nat
    BY <1>1, PpmValueNat
<1>3. ConfiguredOvercommit(policy, total) \in Nat
    BY <1>1, <1>2 DEF ConfiguredOvercommit, MinNonzero
<1> QED
    BY <1>1, <1>3, WidthAssumption DEF EffectiveLimit, LimitOverflows

(* build_capacity_view: what is left is never more than total minus what   *)
(* is committed.                                                           *)
LEMMA CoreViewBounds ==
    ASSUME LedgerTypeOK, clock \in Times, NEW req, NEW snap,
           Prepared(req, snap)
    PROVE  LET d == req.device
               view == CapacityView(d, req.scope, snap)
           IN  /\ view.now \in Times
               /\ view.total_credits = TotalCredits(d)
               /\ view.total_rate = TotalRate(d)
               /\ view.credits_reserved = Committed(CreditsOf, d)
               /\ view.external_credits \in Nat
               /\ view.scoped_credits \in Nat
               /\ view.effective_credits \in Nat
               /\ view.effective_rate \in Nat
               /\ view.effective_credits
                     <= SatSub(TotalCredits(d), Committed(CreditsOf, d))
               /\ view.effective_rate
                     <= SatSub(TotalRate(d), Committed(RateOf, d))
<1> DEFINE d == req.device
           view == CapacityView(d, req.scope, snap)
           credits == SatSub(TotalCredits(d), Committed(CreditsOf, d))
           rate == SatSub(TotalRate(d), Committed(RateOf, d))
           scoped_credits == SatSum(CreditsOf, ActiveIn(d, req.scope))
           scoped_rate == SatSum(RateOf, ActiveIn(d, req.scope))
<1>1. d \in Devices /\ devices[d].est # 0
    BY RequestTypes, PreparedFacts DEF Prepared
<1>2. TotalCredits(d) \in Nat /\ TotalRate(d) \in Nat
    BY <1>1, TotalsFit, WidthAssumption DEF U64
<1>3. credits \in Nat /\ rate \in Nat
    BY <1>2, CommittedTypes, SatSubBound
<1>4. scoped_credits \in Nat /\ scoped_rate \in Nat
    BY ScopedTypes
<1>5. /\ snap.now \in Times
      /\ snap.external_credits \in Nat /\ snap.external_rate \in Nat
    BY SnapshotTypes DEF Prepared
<1>6. /\ view.now = IF snap.now = 0 THEN clock ELSE snap.now
      /\ view.total_credits = TotalCredits(d)
      /\ view.total_rate = TotalRate(d)
      /\ view.credits_reserved = Committed(CreditsOf, d)
      /\ view.external_credits = snap.external_credits
      /\ view.scoped_credits = scoped_credits
      /\ view.effective_credits =
            CappedAvailable(credits, snap.external_credits, scoped_credits)
      /\ view.effective_rate =
            CappedAvailable(rate, snap.external_rate, scoped_rate)
    BY DEF CapacityView
<1> HIDE DEF view, credits, rate, scoped_credits, scoped_rate
<1>7. /\ view.effective_credits \in Nat /\ view.effective_credits <= credits
      /\ view.effective_rate \in Nat /\ view.effective_rate <= rate
  <2> DEFINE c == CappedAvailable(credits, snap.external_credits,
                                  scoped_credits)
             r == CappedAvailable(rate, snap.external_rate, scoped_rate)
  <2>1. c \in Nat /\ c <= credits
      BY <1>3, <1>4, <1>5, CappedBound
  <2>2. r \in Nat /\ r <= rate
      BY <1>3, <1>4, <1>5, CappedBound
  <2>3. view.effective_credits = c /\ view.effective_rate = r
      BY <1>6
  <2> HIDE DEF c, r
  <2> QED
      BY <2>1, <2>2, <2>3
<1>8. view.now \in Times
    BY <1>5, <1>6
<1> QED
    BY <1>4, <1>5, <1>6, <1>7, <1>8 DEF view, credits, rate

(* apply_policy_capacity: with the credit policy the same holds of the     *)
(* overcommit limit.                                                       *)
LEMMA PolicyViewBounds ==
    ASSUME LedgerTypeOK, clock \in Times, NEW req, NEW snap,
           Prepared(req, snap)
    PROVE  LET d == req.device
               view == PolicyView(req, snap)
           IN  /\ view.now \in Times
               /\ view.total_credits = TotalCredits(d)
               /\ view.total_rate = TotalRate(d)
               /\ view.effective_credits \in Nat
               /\ view.effective_rate \in Nat
               /\ TotalCredits(d) # 0 =>
                     view.effective_credits
                       <= SatSub(CreditLimit(d), Committed(CreditsOf, d))
               /\ view.effective_rate
                     <= SatSub(TotalRate(d), Committed(RateOf, d))
<1> DEFINE d == req.device
           core == CapacityView(d, req.scope, snap)
           view == PolicyView(req, snap)
           policy == devices[d].policy
<1>1. d \in Devices /\ devices[d].est # 0
    BY RequestTypes, PreparedFacts DEF Prepared
<1>2. CASE policy.kind # "credit"
  <2>1. view = core
      BY <1>2 DEF PolicyView, DecoratedView
  <2>2. CreditLimit(d) = TotalCredits(d)
      BY <1>2 DEF CreditLimit
  <2> QED
      BY <2>1, <2>2, CoreViewBounds
<1>3. CASE policy.kind = "credit"
  <2> DEFINE available == IF core.total_credits = 0 THEN 0
                  ELSE SatSub(EffectiveLimit(policy, core.total_credits),
                              core.credits_reserved)
             effective == CappedAvailable(available,
                              core.external_credits, core.scoped_credits)
  <2>1. /\ view.now = core.now
        /\ view.total_credits = core.total_credits
        /\ view.total_rate = core.total_rate
        /\ view.effective_rate = core.effective_rate
        /\ view.effective_credits = effective
      BY <1>3 DEF PolicyView, DecoratedView, CreditView, CapacityView
  <2>2. /\ core.total_credits = TotalCredits(d)
        /\ core.credits_reserved = Committed(CreditsOf, d)
        /\ core.external_credits \in Nat
        /\ core.scoped_credits \in Nat
      BY CoreViewBounds
  <2>3. EffectiveLimit(policy, TotalCredits(d)) \in Nat
      BY <1>1, TotalsFit, EffectiveLimitFits, DeviceTypes
  <2>4. available \in Nat
      BY <2>2, <2>3, CommittedTypes, SatSubBound
  <2>5. effective \in Nat /\ effective <= available
    <3> HIDE DEF available
    <3> QED
        BY <2>2, <2>4, CappedBound
  <2>6. CreditLimit(d) = EffectiveLimit(policy, TotalCredits(d))
      BY <1>3 DEF CreditLimit
  <2>7. TotalCredits(d) # 0 =>
          available = SatSub(CreditLimit(d), Committed(CreditsOf, d))
      BY <2>2, <2>6
  <2> HIDE DEF available, effective, view, core
  <2> QED
      BY <2>1, <2>2, <2>5, <2>7, CoreViewBounds DEF view, core
<1> QED
    BY <1>2, <1>3

-----------------------------------------------------------------------------
(* Answers                                                                 *)

(* A rate grant is a 64-bit number: the policy refuses one that is above   *)
(* the total.                                                              *)
LEMMA RateGrantFits ==
    ASSUME LedgerTypeOK, clock \in Times, NEW req, NEW snap,
           Prepared(req, snap),
           ~RateRejects(devices[req.device].policy,
                devices[req.device].profile, req.units, Budget(req),
                PolicyView(req, snap))
    PROVE  GrantedRate(devices[req.device].policy,
               devices[req.device].profile, req.units, Budget(req),
               PolicyView(req, snap)) \in U64
<1> DEFINE policy == devices[req.device].policy
           profile == devices[req.device].profile
           total == PolicyView(req, snap).total_rate
           required == RequiredRate(req.units, profile.span, Budget(req))
           slice == DefaultSlice(policy.slice, total, profile.jobs)
           granted == RoundUp(required, slice)
<1>1. req.device \in Devices /\ devices[req.device].est # 0
    BY RequestTypes, PreparedFacts DEF Prepared
<1>2. total \in Nat /\ total <= MaxU64
    BY <1>1, TotalsFit, PolicyViewBounds, WidthAssumption DEF U64
<1>3. Budget(req) \in Nat \ {0}
    BY RequestTypes, PreparedFacts DEF Prepared, Budget, Infeasible
<1>4. required \in Nat
  <2>1. req.units \in Nat /\ profile.span \in Nat
      BY <1>1, RequestTypes, DeviceTypes, WidthAssumption DEF Prepared, U64
  <2>2. req.units * profile.span \in Nat
      BY <2>1, NatProduct
  <2> QED
      BY <2>2, <1>3, CeilDivBound DEF RequiredRate
<1>5. slice \in Nat \ {0}
  <2>1. policy.slice \in Nat /\ profile.jobs \in Nat
      BY <1>1, DeviceTypes, WidthAssumption DEF U64
  <2>2. profile.jobs # 0 => total \div profile.jobs \in Nat
    <3> HIDE DEF total, profile
    <3> QED
        BY <1>2, <2>1
  <2> HIDE DEF total, profile, policy
  <2> QED
      BY <2>1, <2>2 DEF DefaultSlice
<1>6. granted \in Nat
  <2>1. CeilDiv(required, slice) \in Nat
    <3> HIDE DEF required, slice
    <3> QED
        BY <1>4, <1>5, CeilDivBound
  <2> HIDE DEF required, slice
  <2> QED
      BY <2>1, <1>5, NatProduct DEF RoundUp
<1>7. granted <= total
    BY <1>2, <1>6 DEF RateRejects, GrantedRate
<1> QED
    BY <1>2, <1>6, <1>7, WidthAssumption DEF GrantedRate, U64

(* Whatever policy answers, an acceptance grants 64-bit units.             *)
LEMMA AnswerTypes ==
    ASSUME LedgerTypeOK, clock \in Times, NEW req, NEW snap,
           Prepared(req, snap), NEW answer \in AnswersTo(req, snap),
           answer.decision = "ACCEPTED"
    PROVE  answer.credits \in U64 /\ answer.rate \in U64 /\ answer.ttl \in Nat
<1> DEFINE policy == devices[req.device].policy
           profile == devices[req.device].profile
           view == PolicyView(req, snap)
           credit == CreditDecision(policy, req.units, view)
           rate == RateDecision(policy, profile, req.units, Budget(req), view)
<1>1. req.device \in Devices /\ req.units \in U64
    BY RequestTypes DEF Prepared
<1>2. policy.ttl \in Nat /\ 0 \in U64 /\ 0 \in Nat
    BY <1>1, DeviceTypes, WidthAssumption DEF U64
<1>3. CASE policy.kind = "credit"
  <2>1. answer = CreditAnswer(policy, req.units, view)
      BY <1>3 DEF AnswersTo, PolicyAnswers
  <2>2. credit = "ACCEPTED"
      BY <2>1 DEF CreditAnswer, Refusal
  <2>3. answer = Grant(req.units, 0, policy.ttl)
      BY <2>1, <2>2 DEF CreditAnswer
  <2> QED
      BY <2>3, <1>1, <1>2 DEF Grant
<1>4. CASE policy.kind = "rate"
  <2>1. answer = RateAnswer(policy, profile, req.units, Budget(req), view)
      BY <1>4 DEF AnswersTo, PolicyAnswers
  <2>2. rate = "ACCEPTED"
      BY <2>1 DEF RateAnswer, Refusal
  <2>3. ~RateRejects(policy, profile, req.units, Budget(req), view)
    <3>1. BlockedDecision(view) # "ACCEPTED"
        BY DEF BlockedDecision
    <3> QED
        BY <2>2, <3>1 DEF RateDecision
  <2>4. answer = Grant(0, GrantedRate(policy, profile, req.units,
                              Budget(req), view), policy.ttl)
      BY <2>1, <2>2 DEF RateAnswer
  <2> QED
      BY <2>3, <2>4, <1>2, RateGrantFits DEF Grant
<1>5. CASE policy.kind = "unlimited"
  <2>1. answer = UnlimitedAnswer(view)
      BY <1>5 DEF AnswersTo, PolicyAnswers
  <2>2. answer = Grant(0, 0, 0)
      BY <2>1 DEF UnlimitedAnswer, Refusal, BlockedDecision
  <2> QED
      BY <2>2, <1>2 DEF Grant
<1>6. CASE policy.kind \notin StandardKinds
  <2>1. answer \in PluginAnswers
      BY <1>6 DEF AnswersTo, PolicyAnswers, StandardKinds
  <2> QED
      BY <2>1, PluginAnswersAssumption DEF Answers
<1> QED
    BY <1>3, <1>4, <1>5, <1>6 DEF StandardKinds

(* The core admits no grant above what is left.                            *)
LEMMA GrantBounds ==
    ASSUME LedgerTypeOK, clock \in Times, NEW req, NEW snap,
           Prepared(req, snap), NEW answer \in AnswersTo(req, snap),
           answer.decision = "ACCEPTED",
           ValidGrant(answer, PolicyView(req, snap))
    PROVE  LET d == req.device
           IN  /\ TotalCredits(d) # 0 => answer.credits
                    <= SatSub(CreditLimit(d), Committed(CreditsOf, d))
               /\ TotalRate(d) # 0 => answer.rate
                    <= SatSub(TotalRate(d), Committed(RateOf, d))
<1> DEFINE d == req.device
           view == PolicyView(req, snap)
           credits == SatSub(CreditLimit(d), Committed(CreditsOf, d))
           rate == SatSub(TotalRate(d), Committed(RateOf, d))
<1>1. d \in Devices /\ devices[d].est # 0
    BY RequestTypes, PreparedFacts DEF Prepared
<1>2. TotalCredits(d) \in U64 /\ TotalRate(d) \in U64
    BY <1>1, TotalsFit
<1>3. CreditLimit(d) \in Nat /\ TotalRate(d) \in Nat
    BY <1>1, <1>2, EffectiveLimitFits, DeviceTypes, WidthAssumption
       DEF CreditLimit, U64
<1>4. credits \in Nat /\ rate \in Nat
    BY <1>3, CommittedTypes, SatSubBound
<1>5. answer.credits \in Nat /\ answer.rate \in Nat
    BY AnswerTypes, WidthAssumption DEF U64
<1>6. /\ TotalCredits(d) # 0 => answer.credits <= view.effective_credits
      /\ TotalRate(d) # 0 => answer.rate <= view.effective_rate
    BY PolicyViewBounds DEF ValidGrant
<1>7. /\ view.effective_credits \in Nat /\ view.effective_rate \in Nat
      /\ TotalCredits(d) # 0 => view.effective_credits <= credits
      /\ view.effective_rate <= rate
    BY PolicyViewBounds
<1> HIDE DEF view, credits, rate
<1> QED
    BY <1>4, <1>5, <1>6, <1>7 DEF credits, rate

-----------------------------------------------------------------------------
(* Type correctness                                                        *)

(* A granted entry is an entry: its lease ends inside 64 bits.             *)
LEMMA NewReservationTypes ==
    ASSUME LedgerTypeOK, clock \in Times, NEW i \in Ids, NEW req, NEW snap,
           Prepared(req, snap), NEW answer \in AnswersTo(req, snap),
           Granted(i, req, snap, answer)
    PROVE  NewReservation(req, answer, PolicyView(req, snap))
              \in ReservationEntry
<1> DEFINE d == req.device
           dev == devices[d]
           now == PolicyView(req, snap).now
           ttl == LeaseTtl(req, dev.profile, answer)
<1>1. d \in Devices /\ req.scope \in Scopes
    BY RequestTypes DEF Prepared
<1>2. answer.credits \in U64 /\ answer.rate \in U64 /\ answer.ttl \in Nat
    BY AnswerTypes DEF Granted
<1>3. now \in Times
    BY PolicyViewBounds
<1>4. ttl \in Nat
    BY <1>1, <1>2, RequestTypes, DeviceTypes DEF LeaseTtl, Prepared
<1>5. LeaseEnd(now, ttl) \in Times
  <2>1. ~LeaseOverflows(now, ttl)
      BY DEF Granted
  <2> HIDE DEF now, ttl
  <2> QED
      BY <1>3, <1>4, <2>1, BoundsAssumption
         DEF LeaseEnd, LeaseOverflows, Times
<1>6. dev \in DeviceEntry /\ dev.profile.span \in Nat
    BY <1>1, DeviceTypes, WidthAssumption DEF LedgerTypeOK, U64
<1>7. /\ dev.policy \in PolicyInstances \cup {NoPolicy}
      /\ dev.profile_version \in Versions
      /\ dev.policy_version \in Versions
      /\ dev.estimator_version \in Versions
    BY <1>6 DEF DeviceEntry
<1> HIDE DEF now, ttl
<1> QED
    BY <1>1, <1>2, <1>3, <1>5, <1>6, <1>7
       DEF NewReservation, ReservationEntry, now, ttl

(* Each shape keeps the tables well-typed.                                 *)
LEMMA LedgerTypeStep ==
    ASSUME LedgerTypeOK, clock \in Times, SomeShape
    PROVE  LedgerTypeOK'
<1>1. CASE Quiet
    BY <1>1 DEF Quiet, LedgerTypeOK
<1>2. ASSUME NEW d \in Devices, Reconfigured(d) PROVE LedgerTypeOK'
    BY <1>2 DEF Reconfigured, LedgerTypeOK
<1>3. ASSUME NEW d \in Devices, Recalibrated(d) PROVE LedgerTypeOK'
  <2>1. PICK n \in Nat :
          devices' = [devices EXCEPT ![d] = [devices[d] EXCEPT !.est = n]]
      BY <1>3 DEF Recalibrated
  <2>2. [devices[d] EXCEPT !.est = n] \in DeviceEntry
      BY DEF LedgerTypeOK, DeviceEntry
  <2> QED
      BY <1>3, <2>1, <2>2 DEF Recalibrated, LedgerTypeOK
<1>4. ASSUME NEW req \in Requests, NEW i \in Ids, NEW snap \in SnapshotsNow,
             NEW answer \in AnswersTo(req, snap),
             Granted(i, req, snap, answer)
      PROVE  LedgerTypeOK'
  <2>1. Prepared(req, snap)
      BY <1>4 DEF Granted, Prepared
  <2>2. NewReservation(req, answer, PolicyView(req, snap))
          \in ReservationEntry
      BY <1>4, <2>1, NewReservationTypes
  <2>3. NewReservation(req, answer, PolicyView(req, snap)).state # "ABSENT"
      BY DEF NewReservation
  <2> QED
      BY <1>4, <2>2, <2>3 DEF Granted, LedgerTypeOK
<1>5. ASSUME NEW S \in SUBSET Ids, NEW state \in Terminal, Ended(S, state)
      PROVE  LedgerTypeOK'
  <2>1. \A i \in Ids :
          [reservations[i] EXCEPT !.state = state] \in ReservationEntry
      BY DEF LedgerTypeOK, ReservationEntry
  <2>2. \A i \in Ids : [reservations[i] EXCEPT !.state = state].state = state
      BY DEF LedgerTypeOK, ReservationEntry
  <2>3. state # "ABSENT"
      BY DEF Terminal
  <2> QED
      BY <1>5, <2>1, <2>2, <2>3 DEF Ended, LedgerTypeOK
<1>6. ASSUME NEW i \in Ids, Renewed(i) PROVE LedgerTypeOK'
  <2>1. \A t \in Times :
          [reservations[i] EXCEPT !.expires = t] \in ReservationEntry
      BY DEF LedgerTypeOK, ReservationEntry
  <2>2. \A t \in Times :
          [reservations[i] EXCEPT !.expires = t].state = "ACTIVE"
      BY <1>6 DEF Renewed, Active, LedgerTypeOK, ReservationEntry
  <2> QED
      BY <1>6, <2>1, <2>2 DEF Renewed, LedgerTypeOK
<1> QED
    BY <1>1, <1>2, <1>3, <1>4, <1>5, <1>6 DEF SomeShape

-----------------------------------------------------------------------------
(* Pinned configuration                                                    *)

(* No shape touches the configuration under an active reservation, and a   *)
(* grant copies the configuration of the moment.                           *)
LEMMA PinnedStep ==
    ASSUME LedgerTypeOK, clock \in Times, PinnedConfiguration, SomeShape
    PROVE  PinnedConfiguration'
<1> DEFINE Matches(dev, entry) ==
              /\ dev.registered
              /\ dev.policy # NoPolicy
              /\ dev.policy = entry.policy
              /\ dev.profile.span = entry.window
              /\ dev.profile_version = entry.profile_version
              /\ dev.policy_version = entry.policy_version
              /\ dev.estimator_version = entry.estimator_version
<1>a. \A i \in Ids : /\ reservations[i] \in ReservationEntry
                     /\ reservations[i].device \in Devices
    BY DEF LedgerTypeOK, ReservationEntry
<1>b. \A i \in Ids : Active(i)
          => Matches(devices[reservations[i].device], reservations[i])
    BY DEF PinnedConfiguration
<1>c. SUFFICES ASSUME NEW j \in Ids, Active(j)'
               PROVE  Matches(devices'[reservations'[j].device],
                              reservations'[j])
    BY DEF PinnedConfiguration, Active
<1>1. CASE Quiet
    BY <1>1, <1>b, <1>c DEF Quiet, Active
<1>2. ASSUME NEW d \in Devices, Reconfigured(d)
      PROVE  Matches(devices'[reservations'[j].device], reservations'[j])
  <2>1. reservations' = reservations /\ Active(j)
      BY <1>2, <1>c DEF Reconfigured, Active
  <2>2. reservations[j].device # d
      BY <1>2, <2>1 DEF Reconfigured, HasActive, ActiveOn
  <2>3. devices'[reservations[j].device] = devices[reservations[j].device]
      BY <1>2, <1>a, <2>2 DEF Reconfigured, LedgerTypeOK
  <2> QED
      BY <1>b, <2>1, <2>3
<1>3. ASSUME NEW d \in Devices, Recalibrated(d)
      PROVE  Matches(devices'[reservations'[j].device], reservations'[j])
  <2>1. reservations' = reservations /\ Active(j)
      BY <1>3, <1>c DEF Recalibrated, Active
  <2>2. devices[d] \in DeviceEntry
      BY DEF LedgerTypeOK
  <2>3. PICK n \in Nat :
          devices' = [devices EXCEPT ![d] = [devices[d] EXCEPT !.est = n]]
      BY <1>3 DEF Recalibrated
  <2> DEFINE old == devices[reservations[j].device]
             new == devices'[reservations[j].device]
  <2>4. \/ new = old
        \/ new = [old EXCEPT !.est = n]
      BY <1>a, <2>3 DEF LedgerTypeOK
  <2>5. old \in DeviceEntry
      BY <1>a DEF LedgerTypeOK
  <2>6. /\ new.registered = old.registered
        /\ new.policy = old.policy
        /\ new.profile = old.profile
        /\ new.profile_version = old.profile_version
        /\ new.policy_version = old.policy_version
        /\ new.estimator_version = old.estimator_version
    <3> HIDE DEF new, old
    <3> QED
        BY <2>4, <2>5 DEF DeviceEntry
  <2>7. Matches(old, reservations[j])
      BY <1>b, <2>1
  <2> QED
      BY <2>1, <2>6, <2>7
<1>4. ASSUME NEW req \in Requests, NEW i \in Ids, NEW snap \in SnapshotsNow,
             NEW answer \in AnswersTo(req, snap),
             Granted(i, req, snap, answer)
      PROVE  Matches(devices'[reservations'[j].device], reservations'[j])
  <2>1. CASE j = i
    <3>1. reservations'[j] =
            NewReservation(req, answer, PolicyView(req, snap))
        BY <1>4, <2>1 DEF Granted, LedgerTypeOK
    <3>2. /\ devices[req.device].registered
          /\ devices[req.device].policy # NoPolicy
        BY <1>4, PreparedFacts DEF Granted, Prepared
    <3> QED
        BY <1>4, <3>1, <3>2 DEF Granted, NewReservation
  <2>2. CASE j # i
    <3>1. reservations'[j] = reservations[j] /\ devices' = devices
        BY <1>4, <2>2 DEF Granted, LedgerTypeOK
    <3> QED
        BY <1>b, <1>c, <3>1 DEF Active
  <2> QED
      BY <2>1, <2>2
<1>5. ASSUME NEW S \in SUBSET Ids, NEW state \in Terminal, Ended(S, state)
      PROVE  Matches(devices'[reservations'[j].device], reservations'[j])
  <2>1. j \notin S
      BY <1>5, <1>a, <1>c DEF Ended, Active, Terminal, ReservationEntry
  <2>2. reservations'[j] = reservations[j] /\ devices' = devices
      BY <1>5, <2>1 DEF Ended
  <2> QED
      BY <1>b, <1>c, <2>2 DEF Active
<1>6. ASSUME NEW i \in Ids, Renewed(i)
      PROVE  Matches(devices'[reservations'[j].device], reservations'[j])
  <2>1. PICK t \in Times :
          reservations' = [reservations EXCEPT
             ![i] = [reservations[i] EXCEPT !.expires = t]]
      BY <1>6 DEF Renewed
  <2>2. \/ reservations'[j] = reservations[j]
        \/ reservations'[j] = [reservations[j] EXCEPT !.expires = t]
      BY <2>1 DEF LedgerTypeOK
  <2>3. devices' = devices /\ Active(j)
      BY <1>6, <1>a, <1>c, <2>2 DEF Renewed, Active, ReservationEntry
  <2> QED
      BY <1>a, <1>b, <2>2, <2>3 DEF ReservationEntry
<1> QED
    BY <1>1, <1>2, <1>3, <1>4, <1>5, <1>6 DEF SomeShape

-----------------------------------------------------------------------------
(* No oversell                                                             *)

\* The credit limit of a device entry with a configured total.
CreditLimitOf(dev) ==
    IF dev.policy.kind = "credit"
    THEN EffectiveLimit(dev.policy, dev.profile.credits)
    ELSE dev.profile.credits

(* Limits are natural numbers wherever a total is configured.              *)
LEMMA ConfiguredLimits ==
    ASSUME NEW dev \in DeviceEntry
    PROVE  CreditLimitOf(dev) \in Nat /\ dev.profile.rate \in Nat
<1>1. dev.profile.credits \in U64 /\ dev.profile.rate \in U64
    BY EntryTypes
<1> QED
    BY <1>1, EffectiveLimitFits, WidthAssumption DEF CreditLimitOf, U64

(* A sum over active reservations is finite.                               *)
LEMMA ActiveFinite == ASSUME NEW d PROVE IsFiniteSet(ActiveOn(d))
<1>1. IsFiniteSet(Ids)
    BY FS_Interval, BoundsAssumption DEF Ids
<1> QED
    BY <1>1, FS_Subset DEF ActiveOn

(* If no reservation becomes active and none changes its units, no         *)
(* device's sums grow.                                                     *)
LEMMA SumsDoNotGrow ==
    ASSUME NEW d,
           \A i \in Ids : Active(i)' =>
               /\ Active(i)
               /\ reservations'[i].device = reservations[i].device
               /\ reservations'[i].credits = reservations[i].credits
               /\ reservations'[i].rate = reservations[i].rate
    PROVE  /\ CreditsCommitted(d)' \in Nat /\ CreditsCommitted(d) \in Nat
           /\ RateCommitted(d)' \in Nat /\ RateCommitted(d) \in Nat
           /\ CreditsCommitted(d)' <= CreditsCommitted(d)
           /\ RateCommitted(d)' <= RateCommitted(d)
<1> DEFINE A == ActiveOn(d)
           B == ActiveOn(d)'
<1>1. B \in SUBSET A
    BY DEF ActiveOn
<1>2. IsFiniteSet(A) /\ IsFiniteSet(B)
    BY <1>1, ActiveFinite, FS_Subset
<1>3. /\ \A i \in B : CreditsOf'[i] = CreditsOf[i]
      /\ \A i \in B : RateOf'[i] = RateOf[i]
    BY DEF ActiveOn, CreditsOf, RateOf
<1> HIDE DEF A, B
<1>4. /\ UnitSum(CreditsOf', B) = UnitSum(CreditsOf, B)
      /\ UnitSum(RateOf', B) = UnitSum(RateOf, B)
    BY <1>3, UnitSumLocal
<1>5. /\ UnitSum(CreditsOf, B) <= UnitSum(CreditsOf, A)
      /\ UnitSum(RateOf, B) <= UnitSum(RateOf, A)
    BY <1>1, <1>2, UnitSumMonotone
<1>6. /\ UnitSum(CreditsOf, B) \in Nat /\ UnitSum(CreditsOf, A) \in Nat
      /\ UnitSum(RateOf, B) \in Nat /\ UnitSum(RateOf, A) \in Nat
    BY <1>2, UnitsFinite
<1>7. /\ CreditsCommitted(d)' = UnitSum(CreditsOf', B)
      /\ RateCommitted(d)' = UnitSum(RateOf', B)
      /\ CreditsCommitted(d) = UnitSum(CreditsOf, A)
      /\ RateCommitted(d) = UnitSum(RateOf, A)
    BY DEF A, B, CreditsCommitted, RateCommitted
<1> QED
    BY <1>4, <1>5, <1>6, <1>7

(* A grant adds its units to the sums of its device and to no other.       *)
LEMMA SumsAfterGrant ==
    ASSUME LedgerTypeOK, clock \in Times, NEW d \in Devices, NEW i \in Ids,
           NEW req, NEW snap, Prepared(req, snap),
           NEW answer \in AnswersTo(req, snap), Granted(i, req, snap, answer)
    PROVE  /\ d # req.device =>
                 /\ CreditsCommitted(d)' = CreditsCommitted(d)
                 /\ RateCommitted(d)' = RateCommitted(d)
           /\ d = req.device =>
                 /\ CreditsCommitted(d)' = CreditsCommitted(d) + answer.credits
                 /\ RateCommitted(d)' = RateCommitted(d) + answer.rate
<1> DEFINE A == ActiveOn(d)
           B == ActiveOn(d)'
           entry == NewReservation(req, answer, PolicyView(req, snap))
<1>1. /\ reservations'[i] = entry
      /\ \A j \in Ids \ {i} : reservations'[j] = reservations[j]
      /\ reservations[i].state = "ABSENT"
    BY DEF Granted, LedgerTypeOK
<1>2. /\ entry.state = "ACTIVE" /\ entry.device = req.device
      /\ entry.credits = answer.credits /\ entry.rate = answer.rate
    BY DEF NewReservation
<1>3. answer.credits \in U64 /\ answer.rate \in U64
    BY AnswerTypes DEF Granted
<1> HIDE DEF entry
<1>4. i \notin A /\ A \in SUBSET Ids /\ IsFiniteSet(A)
    BY <1>1, ActiveFinite DEF ActiveOn, Active
<1>5. /\ \A j \in A : CreditsOf'[j] = CreditsOf[j]
      /\ \A j \in A : RateOf'[j] = RateOf[j]
    BY <1>1, <1>4 DEF CreditsOf, RateOf
<1>6. CreditsOf'[i] = answer.credits /\ RateOf'[i] = answer.rate
    BY <1>1, <1>2 DEF CreditsOf, RateOf
<1>7. B = IF d = req.device THEN A \cup {i} ELSE A
    BY <1>1, <1>2 DEF ActiveOn, Active
<1>8. /\ CreditsCommitted(d)' = UnitSum(CreditsOf', B)
      /\ RateCommitted(d)' = UnitSum(RateOf', B)
      /\ CreditsCommitted(d) = UnitSum(CreditsOf, A)
      /\ RateCommitted(d) = UnitSum(RateOf, A)
    BY DEF CreditsCommitted, RateCommitted
<1> HIDE DEF A, B
<1>9. /\ UnitSum(CreditsOf', A) = UnitSum(CreditsOf, A)
      /\ UnitSum(RateOf', A) = UnitSum(RateOf, A)
    BY <1>5, UnitSumLocal
<1>10. /\ UnitSum(CreditsOf', A \cup {i})
             = UnitSum(CreditsOf', A) + answer.credits
       /\ UnitSum(RateOf', A \cup {i}) = UnitSum(RateOf', A) + answer.rate
    BY <1>3, <1>4, <1>6, UnitSumAdd
<1> QED
    BY <1>7, <1>8, <1>9, <1>10

\* The two invariants for one device, in terms of its entry.
WithinLimits(d) ==
    devices[d].registered =>
        /\ devices[d].profile.credits # 0
              => CreditsCommitted(d) <= CreditLimitOf(devices[d])
        /\ devices[d].profile.rate # 0
              => RateCommitted(d) <= devices[d].profile.rate

(* No oversell is WithinLimits of every device.                            *)
LEMMA NoOversellSplit ==
    NoCreditOversell /\ NoRateOversell <=> \A d \in Devices : WithinLimits(d)
BY DEF NoCreditOversell, NoRateOversell, WithinLimits, CreditLimit, RateLimit,
       CreditLimitOf, TotalCredits, TotalRate, DerivedTotal

(* A grant to d takes at most what is left of d.                           *)
LEMMA GrantStaysWithin ==
    ASSUME LedgerTypeOK, clock \in Times, NEW i \in Ids,
           NEW req \in Requests, NEW snap, Prepared(req, snap),
           NEW answer \in AnswersTo(req, snap), Granted(i, req, snap, answer),
           NEW d \in Devices, WithinLimits(d)
    PROVE  WithinLimits(d)'
<1> DEFINE credits == CreditsCommitted(d)
           rate == RateCommitted(d)
           dev == devices[d]
<1>1. devices' = devices
    BY DEF Granted
<1>2. /\ answer.credits \in Nat /\ answer.credits <= MaxU64
      /\ answer.rate \in Nat /\ answer.rate <= MaxU64
    BY AnswerTypes, WidthAssumption DEF Granted, U64
<1>3. /\ credits \in Nat /\ rate \in Nat
      /\ credits <= MaxU64 => Committed(CreditsOf, d) = credits
      /\ rate <= MaxU64 => Committed(RateOf, d) = rate
  <2>1. credits \in Nat /\ rate \in Nat
      BY CommittedTypes DEF CreditsCommitted, RateCommitted
  <2>2. /\ Committed(CreditsOf, d)
              = IF credits > MaxU64 THEN MaxU64 ELSE credits
        /\ Committed(RateOf, d) = IF rate > MaxU64 THEN MaxU64 ELSE rate
      BY DEF CreditsCommitted, RateCommitted, Committed, SatSum
  <2> HIDE DEF credits, rate
  <2> QED
      BY <2>1, <2>2, WidthAssumption
<1>4. dev \in DeviceEntry
    BY DEF LedgerTypeOK
<1>5. CreditLimitOf(dev) \in Nat /\ dev.profile.rate \in Nat
    BY <1>4, ConfiguredLimits
<1>6. CASE d # req.device
    BY <1>1, <1>6, SumsAfterGrant DEF WithinLimits
<1>7. CASE d = req.device
  <2>1. /\ credits' = credits + answer.credits
        /\ rate' = rate + answer.rate
      BY <1>7, SumsAfterGrant
  <2>2. /\ dev.profile.credits # 0 =>
              /\ TotalCredits(d) # 0
              /\ CreditLimit(d) = CreditLimitOf(dev)
        /\ dev.profile.rate # 0 => TotalRate(d) = dev.profile.rate
      BY DEF TotalCredits, TotalRate, DerivedTotal, CreditLimit, CreditLimitOf
  <2>3. dev.profile.credits # 0 => answer.credits
           <= SatSub(CreditLimitOf(dev), Committed(CreditsOf, d))
      BY <1>7, <2>2, GrantBounds DEF Granted
  <2>4. dev.profile.rate # 0 => answer.rate
           <= SatSub(dev.profile.rate, Committed(RateOf, d))
      BY <1>7, <2>2, GrantBounds DEF Granted
  <2>5. /\ dev.profile.credits # 0 => CreditLimitOf(dev) <= MaxU64
        /\ dev.profile.rate <= MaxU64
    <3>1. dev.profile.credits \in U64 /\ dev.profile.rate \in U64
        BY <1>4, EntryTypes
    <3>2. ASSUME dev.profile.credits # 0, dev.policy.kind = "credit"
          PROVE  ~LimitOverflows(dev.policy, dev.profile.credits)
      <4>1. CapacityView(d, req.scope, snap).total_credits
              = dev.profile.credits
          BY <3>2 DEF CapacityView, TotalCredits, DerivedTotal
      <4> QED
          BY <1>7, <3>2, <4>1, PreparedFacts
             DEF CapacityFails, CreditCapacityFails
    <3> QED
        BY <1>4, <3>1, <3>2, EffectiveLimitFits, WidthAssumption
           DEF CreditLimitOf, U64
  <2>6. \A a, x \in Nat : SatSub(a, x) \in Nat
                          /\ (SatSub(a, x) = 0 \/ SatSub(a, x) + x = a)
      BY SatSubBound
  <2> HIDE DEF dev, credits, rate
  <2>7. ASSUME dev.registered, dev.profile.credits # 0
        PROVE  credits + answer.credits <= CreditLimitOf(dev)
    <3>1. credits <= CreditLimitOf(dev)
        BY <2>7 DEF WithinLimits, dev, credits
    <3> DEFINE left == SatSub(CreditLimitOf(dev), Committed(CreditsOf, d))
    <3>2. Committed(CreditsOf, d) \in Nat
        BY CommittedTypes
    <3>3. left \in Nat
          /\ (left = 0 \/ left + Committed(CreditsOf, d) = CreditLimitOf(dev))
        BY <1>5, <2>6, <3>2
    <3>4. answer.credits <= left
        BY <2>3, <2>7
    <3> HIDE DEF left
    <3> QED
        BY <1>2, <1>3, <1>5, <2>5, <2>7, <3>1, <3>3, <3>4, WidthAssumption
  <2>8. ASSUME dev.registered, dev.profile.rate # 0
        PROVE  rate + answer.rate <= dev.profile.rate
    <3>1. rate <= dev.profile.rate
        BY <2>8 DEF WithinLimits, dev, rate
    <3> DEFINE left == SatSub(dev.profile.rate, Committed(RateOf, d))
    <3>2. Committed(RateOf, d) \in Nat
        BY CommittedTypes
    <3>3. left \in Nat
          /\ (left = 0 \/ left + Committed(RateOf, d) = dev.profile.rate)
        BY <1>5, <2>6, <3>2
    <3>4. answer.rate <= left
        BY <2>4, <2>8
    <3> HIDE DEF left
    <3> QED
        BY <1>2, <1>3, <1>5, <2>5, <3>1, <3>3, <3>4, WidthAssumption
  <2> QED
      BY <1>1, <2>1, <2>7, <2>8 DEF WithinLimits, dev, credits, rate
<1> QED
    BY <1>6, <1>7

(* Every shape of step keeps every device within its limits.               *)
LEMMA OversellStep ==
    ASSUME LedgerTypeOK, clock \in Times, SomeShape, NEW d \in Devices,
           WithinLimits(d)
    PROVE  WithinLimits(d)'
<1> DEFINE Calm(i) ==
        Active(i)' => /\ Active(i)
                      /\ reservations'[i].device = reservations[i].device
                      /\ reservations'[i].credits = reservations[i].credits
                      /\ reservations'[i].rate = reservations[i].rate
<1>a. devices[d] \in DeviceEntry
    BY DEF LedgerTypeOK
<1>b. CreditLimitOf(devices[d]) \in Nat /\ devices[d].profile.rate \in Nat
    BY <1>a, ConfiguredLimits
<1>c. \A i \in Ids : reservations[i] \in ReservationEntry
    BY DEF LedgerTypeOK
<1>d. ASSUME \A i \in Ids : Calm(i), devices' = devices
      PROVE  WithinLimits(d)'
  <2>1. /\ CreditsCommitted(d)' \in Nat /\ CreditsCommitted(d) \in Nat
        /\ RateCommitted(d)' \in Nat /\ RateCommitted(d) \in Nat
        /\ CreditsCommitted(d)' <= CreditsCommitted(d)
        /\ RateCommitted(d)' <= RateCommitted(d)
      BY <1>d, SumsDoNotGrow
  <2> QED
      BY <1>b, <1>d, <2>1 DEF WithinLimits
<1>e. ASSUME reservations' = reservations
      PROVE  /\ CreditsCommitted(d)' = CreditsCommitted(d)
             /\ RateCommitted(d)' = RateCommitted(d)
    BY <1>e DEF CreditsCommitted, RateCommitted, CreditsOf, RateOf, ActiveOn,
                Active
<1>1. CASE Quiet
    BY <1>1, <1>d DEF Quiet, Active
<1>2. ASSUME NEW x \in Devices, Reconfigured(x) PROVE WithinLimits(d)'
  <2>1. reservations' = reservations
      BY <1>2 DEF Reconfigured
  <2>2. CASE x # d
    <3>1. devices'[d] = devices[d]
        BY <1>2, <2>2 DEF Reconfigured, LedgerTypeOK
    <3> QED
        BY <1>e, <2>1, <3>1 DEF WithinLimits
  <2>3. CASE x = d
    <3>1. ActiveOn(d) = {}
        BY <1>2, <2>3 DEF Reconfigured, HasActive
    <3>2. CreditsCommitted(d)' = 0 /\ RateCommitted(d)' = 0
        BY <1>e, <2>1, <3>1, UnitSumEmpty DEF CreditsCommitted, RateCommitted
    <3>3. devices'[d] \in DeviceEntry
        BY <1>2, <2>3 DEF Reconfigured, LedgerTypeOK
    <3>4. /\ CreditLimitOf(devices'[d]) \in Nat
          /\ devices'[d].profile.rate \in Nat
        BY <3>3, ConfiguredLimits
    <3> QED
        BY <3>2, <3>4 DEF WithinLimits
  <2> QED
      BY <2>2, <2>3
<1>3. ASSUME NEW x \in Devices, Recalibrated(x) PROVE WithinLimits(d)'
  <2>1. PICK n \in Nat :
          devices' = [devices EXCEPT ![x] = [devices[x] EXCEPT !.est = n]]
      BY <1>3 DEF Recalibrated
  <2> DEFINE old == devices[d]
             new == devices'[d]
  <2>2. new = old \/ new = [old EXCEPT !.est = n]
      BY <2>1 DEF LedgerTypeOK
  <2>3. /\ new.registered = old.registered
        /\ new.profile = old.profile
        /\ new.policy = old.policy
    <3> HIDE DEF new
    <3> QED
        BY <1>a, <2>2 DEF DeviceEntry
  <2>4. CreditLimitOf(new) = CreditLimitOf(old)
      BY <2>3 DEF CreditLimitOf
  <2>5. reservations' = reservations
      BY <1>3 DEF Recalibrated
  <2> QED
      BY <1>e, <2>3, <2>4, <2>5 DEF WithinLimits
<1>4. ASSUME NEW req \in Requests, NEW i \in Ids, NEW snap \in SnapshotsNow,
             NEW answer \in AnswersTo(req, snap),
             Granted(i, req, snap, answer)
      PROVE  WithinLimits(d)'
  <2>1. Prepared(req, snap)
      BY <1>4 DEF Granted, Prepared
  <2> QED
      BY <1>4, <2>1, GrantStaysWithin
<1>5. ASSUME NEW S \in SUBSET Ids, NEW state \in Terminal, Ended(S, state)
      PROVE  WithinLimits(d)'
  <2>1. \A i \in Ids : Calm(i)
      BY <1>5, <1>c DEF Ended, Active, Terminal, ReservationEntry
  <2> QED
      BY <1>5, <1>d, <2>1 DEF Ended
<1>6. ASSUME NEW i \in Ids, Renewed(i) PROVE WithinLimits(d)'
  <2>1. PICK t \in Times :
          reservations' = [reservations EXCEPT
             ![i] = [reservations[i] EXCEPT !.expires = t]]
      BY <1>6 DEF Renewed
  <2>2. \A j \in Ids :
          \/ reservations'[j] = reservations[j]
          \/ reservations'[j] = [reservations[j] EXCEPT !.expires = t]
      BY <2>1 DEF LedgerTypeOK
  <2>3. \A j \in Ids : Calm(j)
      BY <1>c, <2>2 DEF Active, ReservationEntry
  <2> QED
      BY <1>6, <1>d, <2>3 DEF Renewed
<1> QED
    BY <1>1, <1>2, <1>3, <1>4, <1>5, <1>6 DEF SomeShape

-----------------------------------------------------------------------------
(* The theorems                                                            *)

(* The variables outside the two tables keep their types.                  *)
LEMMA ScalarTypeStep ==
    ASSUME TypeOK, [Next]_vars
    PROVE  /\ next_reservation_id' \in 0..MaxId
           /\ provider' \in BOOLEAN
           /\ clock' \in Times
           /\ counted' \subseteq Ids
<1>1. ASSUME NEW call, NEW rc, Refuse(call, rc)
      PROVE  UNCHANGED <<next_reservation_id, provider, clock, counted>>
    BY <1>1 DEF Refuse
<1>2. ASSUME NEW call, NEW x, NEW y,
             SetDevice(call, x, y) \/ SetReservation(call, x, y)
      PROVE  UNCHANGED <<next_reservation_id, provider, clock, counted>>
    BY <1>2 DEF SetDevice, SetReservation
<1>3. CASE Configure
    BY <1>1, <1>2, <1>3
       DEF Configure, RegisterDevice, UnregisterDevice, SetBaseline,
           SetEstimator, SetPolicy, Unconfigurable, TypeOK
<1>4. CASE \E installed \in BOOLEAN : SetCapacityProvider(installed)
    BY <1>4 DEF SetCapacityProvider, TypeOK
<1>5. ASSUME NEW req \in Requests, Reserve(req)
      PROVE  /\ next_reservation_id' \in 0..MaxId
             /\ UNCHANGED <<provider, clock, counted>>
  <2>1. PICK snap \in SnapshotsNow :
          ReserveRefused(req, snap) \/ ReserveDecided(req, snap)
      BY <1>5 DEF Reserve
  <2>2. CASE ReserveRefused(req, snap)
      BY <2>2 DEF ReserveRefused, TypeOK
  <2>3. CASE ReserveDecided(req, snap)
    <3>1. PICK i \in Ids : next_reservation_id' = NextIdAfter(req, i)
        BY <2>3 DEF ReserveDecided
    <3>2. NextIdAfter(req, i) \in 0..MaxId
        BY BoundsAssumption DEF NextIdAfter, Ids, TypeOK
    <3> QED
        BY <2>3, <3>1, <3>2 DEF ReserveDecided
  <2> QED
      BY <2>1, <2>2, <2>3
<1>6. CASE EndLease
  <2>1. ASSUME NEW now \in SweepArgs, Expire(now)
        PROVE  /\ counted' \subseteq Ids
               /\ UNCHANGED <<next_reservation_id, provider, clock>>
      BY <2>1 DEF Expire, ExpireAll, ExpireFails, Lapsed, TypeOK
  <2>2. ASSUME NEW i \in Ids, Release(i) \/ Cancel(i)
        PROVE  UNCHANGED <<next_reservation_id, provider, clock, counted>>
      BY <1>1, <1>2, <2>2 DEF Release, Cancel, Transition
  <2>3. ASSUME NEW i \in Ids, NEW arg \in RenewArgs,
               Renew(i, arg[1], arg[2])
        PROVE  UNCHANGED <<next_reservation_id, provider, clock, counted>>
      BY <1>1, <1>2, <2>3 DEF Renew
  <2> QED
      BY <1>6, <2>1, <2>2, <2>3 DEF EndLease, TypeOK
<1>7. ASSUME NEW i \in Ids, Feedback(i)
      PROVE  UNCHANGED <<next_reservation_id, provider, clock, counted>>
    BY <1>2, <1>7 DEF Feedback
<1>8. CASE Tick
    BY <1>8, InputsAssumption DEF Tick, TypeOK
<1>9. CASE UNCHANGED vars
    BY <1>9 DEF vars, TypeOK
<1> QED
    BY <1>3, <1>4, <1>5, <1>6, <1>7, <1>8, <1>9 DEF Next, TypeOK

OutType == [call : Calls, rc : ReturnCodes, decision : DecisionNames,
            seen : SUBSET SnapshotsSeen]

(* Every step reports a call, a return code, a decision and its snapshots. *)
LEMMA OutTypeStep == ASSUME TypeOK, [Next]_vars PROVE out' \in OutType
<1>1. ASSUME NEW call \in Calls, NEW rc \in ReturnCodes,
             Returns(call, rc) \/ Refuse(call, rc)
      PROVE  out' \in OutType
    BY <1>1 DEF Refuse, Returns, OutType, DecisionNames
<1>2. ASSUME NEW call \in Calls, NEW x, NEW y,
             SetDevice(call, x, y) \/ SetReservation(call, x, y)
      PROVE  out' \in OutType
    BY <1>1, <1>2 DEF SetDevice, SetReservation, ReturnCodes
<1>3. ASSUME NEW call \in Calls, NEW d, Unconfigurable(call, d)
      PROVE  out' \in OutType
    BY <1>1, <1>3 DEF Unconfigurable, ReturnCodes
<1>4. CASE Configure
  <2>1. ASSUME NEW d, NEW profile, RegisterDevice(d, profile)
        PROVE  out' \in OutType
      BY <1>1, <1>2, <2>1 DEF RegisterDevice, Calls, ReturnCodes
  <2>2. ASSUME NEW d, UnregisterDevice(d) PROVE out' \in OutType
      BY <1>2, <1>3, <2>2 DEF UnregisterDevice, Calls
  <2>3. ASSUME NEW d, NEW baseline, SetBaseline(d, baseline)
        PROVE  out' \in OutType
      BY <1>1, <1>2, <1>3, <2>3 DEF SetBaseline, Calls, ReturnCodes
  <2>4. ASSUME NEW d, NEW estimator, SetEstimator(d, estimator)
        PROVE  out' \in OutType
      BY <1>1, <1>2, <1>3, <2>4 DEF SetEstimator, Calls, ReturnCodes
  <2>5. ASSUME NEW d, NEW policy, SetPolicy(d, policy)
        PROVE  out' \in OutType
    <3>1. PolicyRefusal(d, policy) \in ReturnCodes
        BY DEF PolicyRefusal, ReturnCodes
    <3>2. SelectionFailures(policy) \subseteq ReturnCodes
        BY DEF SelectionFailures, ReturnCodes
    <3> QED
        BY <1>1, <1>2, <1>3, <2>5, <3>1, <3>2 DEF SetPolicy, Calls
  <2> QED
      BY <1>4, <2>1, <2>2, <2>3, <2>4, <2>5 DEF Configure
<1>5. CASE \E installed \in BOOLEAN : SetCapacityProvider(installed)
    BY <1>1, <1>5 DEF SetCapacityProvider, Calls, ReturnCodes
<1>6. ASSUME NEW req \in Requests, Reserve(req) PROVE out' \in OutType
  <2>1. PICK snap \in SnapshotsNow :
          ReserveRefused(req, snap) \/ ReserveDecided(req, snap)
      BY <1>6 DEF Reserve
  <2>a. snap \in SnapshotsSeen
      BY DEF SnapshotsNow, SnapshotsSeen, TypeOK
  <2>2. ASSUME NEW rc \in ReturnCodes, NEW decision \in DecisionNames,
               Decides(rc, decision, snap)
        PROVE  out' \in OutType
    <3>1. {snap} \in SUBSET SnapshotsSeen
        BY <2>a
    <3> QED
        BY <2>2, <3>1 DEF Decides, OutType, Calls
  <2>3. CASE ReserveRefused(req, snap)
    <3>1. PrepareCode(req, snap) \in ReturnCodes
        BY DEF PrepareCode, ReturnCodes
    <3> QED
        BY <2>2, <2>3, <3>1
           DEF ReserveRefused, ReturnCodes, DecisionNames, DecisionKinds
  <2>4. CASE ReserveDecided(req, snap)
    <3>1. PICK i, answer :
            Conclude(req, i, answer, PolicyView(req, snap), snap)
        BY <2>4 DEF ReserveDecided
    <3> QED
        BY <2>2, <3>1 DEF Conclude, ConcludeGrant, ReturnCodes, DecisionNames,
                          DecisionKinds
  <2> QED
      BY <2>1, <2>3, <2>4
<1>7. CASE EndLease
  <2>1. ASSUME NEW call \in Calls, NEW i, NEW state,
               Transition(call, i, state)
        PROVE  out' \in OutType
      BY <1>1, <2>1 DEF Transition, ReleaseAnswers, ReturnCodes
  <2>2. ASSUME NEW i, NEW now, NEW ttl, Renew(i, now, ttl)
        PROVE  out' \in OutType
      BY <1>1, <1>2, <2>2 DEF Renew, Calls, ReturnCodes
  <2>3. ASSUME NEW now, Expire(now) PROVE out' \in OutType
      BY <1>1, <2>3 DEF Expire, ExpireAll, ExpireFails, Calls, ReturnCodes
  <2> QED
      BY <1>7, <2>1, <2>2, <2>3 DEF EndLease, Release, Cancel, Calls
<1>8. ASSUME NEW i, Feedback(i) PROVE out' \in OutType
    BY <1>2, <1>8 DEF Feedback, Calls
<1>9. CASE Tick
    BY <1>1, <1>9 DEF Tick, Calls, ReturnCodes
<1>10. CASE UNCHANGED vars
    BY <1>10 DEF vars, TypeOK, OutType
<1> QED
    BY <1>4, <1>5, <1>6, <1>7, <1>8, <1>9, <1>10 DEF Next

(* The inductive invariant: no part is inductive alone.  That a grant may  *)
(* copy a device's configuration needs types, that a first registration    *)
(* disturbs nobody needs the pinned configuration, and that a limit may    *)
(* change needs a registration that disturbs nobody.                       *)
Inv ==
    /\ TypeOK
    /\ PinnedConfiguration
    /\ NoCreditOversell
    /\ NoRateOversell

(* Devices and Scopes are inhabited: a context without them does nothing.  *)
LEMMA InvInit ==
    ASSUME Devices # {}, Scopes # {}, Init PROVE Inv
<1>1. \A i \in Ids : ~Active(i)
    BY DEF Init, Active, NoReservation
<1>2. NoReservation \in ReservationEntry
  <2>1. (CHOOSE d \in Devices : TRUE) \in Devices
        /\ (CHOOSE s \in Scopes : TRUE) \in Scopes
      OBVIOUS
  <2> QED
      BY <2>1, WidthAssumption, BoundsAssumption
         DEF NoReservation, ReservationEntry, NoPolicy, U64, Times, Versions
<1>3. NoDevice \in DeviceEntry
    BY BoundsAssumption
       DEF NoDevice, NoProfile, NoPolicy, DeviceEntry, Versions
<1>4. TypeOK
  <2>1. devices \in [Devices -> DeviceEntry]
      BY <1>3 DEF Init
  <2>2. reservations \in [Ids -> ReservationEntry]
      BY <1>2 DEF Init
  <2>3. next_reservation_id \in 0..MaxId
      BY BoundsAssumption DEF Init
  <2>4. provider \in BOOLEAN /\ counted \subseteq Ids
      BY DEF Init
  <2>5. clock \in Times
      BY InputsAssumption DEF Init
  <2>6. out \in [call : Calls, rc : ReturnCodes, decision : DecisionNames,
                  seen : SUBSET SnapshotsSeen]
      BY DEF Init, Calls, ReturnCodes, DecisionNames
  <2>7. \A i \in Ids : reservations[i] = NoReservation
      BY DEF Init
  <2> QED
      BY <2>1, <2>2, <2>3, <2>4, <2>5, <2>6, <2>7 DEF TypeOK
<1>5. PinnedConfiguration
    BY <1>1 DEF PinnedConfiguration
<1>6. \A d \in Devices : ~devices[d].registered
    BY DEF Init, NoDevice
<1> QED
    BY <1>4, <1>5, <1>6 DEF Inv, NoCreditOversell, NoRateOversell

LEMMA InvStep == ASSUME Inv, [Next]_vars PROVE Inv'
<1>1. LedgerTypeOK /\ clock \in Times
    BY DEF Inv, TypeOK, LedgerTypeOK
<1>2. SomeShape
    BY <1>1, StepShape DEF Inv
<1>3. LedgerTypeOK'
    BY <1>1, <1>2, LedgerTypeStep
<1>4. TypeOK'
  <2>1. out' \in OutType
      BY OutTypeStep DEF Inv
  <2>2. /\ next_reservation_id' \in 0..MaxId
        /\ provider' \in BOOLEAN
        /\ clock' \in Times
        /\ counted' \subseteq Ids
      BY ScalarTypeStep DEF Inv
  <2> QED
      BY <1>3, <2>1, <2>2 DEF TypeOK, LedgerTypeOK, OutType
<1>5. PinnedConfiguration'
    BY <1>1, <1>2, PinnedStep DEF Inv
<1>6. \A d \in Devices : WithinLimits(d)
    BY NoOversellSplit DEF Inv
<1>7. ASSUME NEW d \in Devices PROVE WithinLimits(d)'
    BY <1>1, <1>2, <1>6, OversellStep
<1>8. NoCreditOversell' /\ NoRateOversell'
    BY <1>7 DEF NoCreditOversell, NoRateOversell, WithinLimits, CreditLimit,
                RateLimit, CreditLimitOf, TotalCredits, TotalRate, DerivedTotal
<1> QED
    BY <1>4, <1>5, <1>8 DEF Inv

(* Every execution keeps the types of the two tables and the counters.     *)
THEOREM TypeCorrectness ==
    ASSUME Devices # {}, Scopes # {} PROVE Spec => []TypeOK
<1>1. Init => Inv
    BY InvInit
<1>2. Inv /\ [Next]_vars => Inv'
    BY InvStep
<1>3. Inv => TypeOK
    BY DEF Inv
<1> QED
    BY <1>1, <1>2, <1>3, PTL DEF Spec

(* No active reservation outlives the configuration it points into.        *)
THEOREM ConfigurationStaysPinned ==
    ASSUME Devices # {}, Scopes # {} PROVE Spec => []PinnedConfiguration
<1>1. Init => Inv
    BY InvInit
<1>2. Inv /\ [Next]_vars => Inv'
    BY InvStep
<1>3. Inv => PinnedConfiguration
    BY DEF Inv
<1> QED
    BY <1>1, <1>2, <1>3, PTL DEF Spec

(* Configured credits are never oversold, whatever a third-party policy    *)
(* grants and in whatever order calls arrive.                              *)
THEOREM CreditsAreNeverOversold ==
    ASSUME Devices # {}, Scopes # {} PROVE Spec => []NoCreditOversell
<1>1. Init => Inv
    BY InvInit
<1>2. Inv /\ [Next]_vars => Inv'
    BY InvStep
<1>3. Inv => NoCreditOversell
    BY DEF Inv
<1> QED
    BY <1>1, <1>2, <1>3, PTL DEF Spec

(* Nor is a configured rate.                                               *)
THEOREM RateIsNeverOversold ==
    ASSUME Devices # {}, Scopes # {} PROVE Spec => []NoRateOversell
<1>1. Init => Inv
    BY InvInit
<1>2. Inv /\ [Next]_vars => Inv'
    BY InvStep
<1>3. Inv => NoRateOversell
    BY DEF Inv
<1> QED
    BY <1>1, <1>2, <1>3, PTL DEF Spec

-----------------------------------------------------------------------------
(* The life of a reservation                                               *)

(* A grant takes an absent slot, an end moves a state and a renewal moves  *)
(* a lease; the other shapes leave the reservations alone.                 *)
LEMMA LifecycleStep ==
    ASSUME LedgerTypeOK, SomeShape
    PROVE  \A i \in Ids : FinalOnce(i) /\ OnlyTheLeaseMoves(i)
<1> SUFFICES ASSUME NEW j \in Ids PROVE FinalOnce(j) /\ OnlyTheLeaseMoves(j)
    OBVIOUS
<1> DEFINE old == reservations[j]
           new == reservations'[j]
<1>a. old \in ReservationEntry
    BY DEF LedgerTypeOK
<1>b. SUFFICES
        \/ new = old
        \/ old.state = "ABSENT"
        \/ /\ old.state = "ACTIVE"
           /\ \E state \in Terminal : new = [old EXCEPT !.state = state]
        \/ /\ old.state = "ACTIVE"
           /\ \E t \in Times : new = [old EXCEPT !.expires = t]
  <2>1. CASE new = old
      BY <1>a, <2>1
         DEF FinalOnce, OnlyTheLeaseMoves, Active, ReservationEntry
  <2>2. CASE old.state = "ABSENT"
      BY <2>2 DEF FinalOnce, OnlyTheLeaseMoves, Active, Terminal
  <2>3. ASSUME old.state = "ACTIVE", NEW state \in Terminal,
               new = [old EXCEPT !.state = state]
        PROVE  FinalOnce(j) /\ OnlyTheLeaseMoves(j)
    <3>1. new.state = state /\ new.expires = old.expires
        BY <1>a, <2>3 DEF ReservationEntry
    <3>2. new = [old EXCEPT !.state = new.state, !.expires = new.expires]
        BY <1>a, <2>3, <3>1 DEF ReservationEntry
    <3> QED
        BY <2>3, <3>1, <3>2
           DEF FinalOnce, OnlyTheLeaseMoves, Active, Terminal
  <2>4. ASSUME old.state = "ACTIVE", NEW t \in Times,
               new = [old EXCEPT !.expires = t]
        PROVE  FinalOnce(j) /\ OnlyTheLeaseMoves(j)
    <3>1. new.state = "ACTIVE" /\ new.expires = t
        BY <1>a, <2>4 DEF ReservationEntry
    <3>2. new = [old EXCEPT !.state = new.state, !.expires = new.expires]
        BY <1>a, <2>4, <3>1 DEF ReservationEntry
    <3> QED
        BY <2>4, <3>1, <3>2
           DEF FinalOnce, OnlyTheLeaseMoves, Active, Terminal
  <2> QED
      BY <2>1, <2>2, <2>3, <2>4
<1>1. CASE Quiet
    BY <1>1 DEF Quiet
<1>2. ASSUME NEW d \in Devices, Reconfigured(d) \/ Recalibrated(d)
      PROVE  new = old
    BY <1>2 DEF Reconfigured, Recalibrated
<1>3. ASSUME NEW req \in Requests, NEW i \in Ids, NEW snap \in SnapshotsNow,
             NEW answer \in AnswersTo(req, snap),
             Granted(i, req, snap, answer)
      PROVE  new = old \/ old.state = "ABSENT"
    BY <1>3 DEF Granted, LedgerTypeOK
<1>4. ASSUME NEW S \in SUBSET Ids, NEW state \in Terminal, Ended(S, state)
      PROVE  \/ new = old
             \/ old.state = "ACTIVE" /\ new = [old EXCEPT !.state = state]
    BY <1>4 DEF Ended, Active
<1>5. ASSUME NEW i \in Ids, Renewed(i)
      PROVE  \/ new = old
             \/ /\ old.state = "ACTIVE"
                /\ \E t \in Times : new = [old EXCEPT !.expires = t]
    BY <1>5 DEF Renewed, Active, LedgerTypeOK
<1> HIDE DEF old, new
<1> QED
    BY <1>1, <1>2, <1>3, <1>4, <1>5 DEF SomeShape

(* What ended stays ended and keeps its id; what was granted is not edited *)
(* while it is held.                                                       *)
THEOREM LifecycleIsKept ==
    ASSUME Devices # {}, Scopes # {} PROVE Spec => ReservationLifecycle
<1>1. Init => Inv
    BY InvInit
<1>2. Inv /\ [Next]_vars => Inv'
    BY InvStep
<1>3. ASSUME Inv, [Next]_vars
      PROVE  [\A i \in Ids : FinalOnce(i) /\ OnlyTheLeaseMoves(i)]_vars
  <2>1. LedgerTypeOK /\ clock \in Times
      BY <1>3 DEF Inv, TypeOK, LedgerTypeOK
  <2>2. SomeShape
      BY <1>3, <2>1, StepShape DEF Inv
  <2> QED
      BY <2>1, <2>2, LifecycleStep
<1> QED
    BY <1>1, <1>2, <1>3, PTL DEF Spec, ReservationLifecycle
=============================================================================
