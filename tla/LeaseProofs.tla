---------------------------- MODULE LeaseProofs ----------------------------
(***************************************************************************)
(* What a lease and a sweep owe their users, for every instance: a lease   *)
(* ends, a sweep ends what lapsed and nothing else, a grant fits the       *)
(* limits of its instant and the caps of its snapshot, a failed call undoes*)
(* what it did, pages of the list skip nothing, and the tables, seen       *)
(* through AdmissionPools, are two lease pools: they start as a pool may   *)
(* start and move only as a pool may move.                                 *)
(***************************************************************************)
EXTENDS AdmissionProofs, ReservationList, AdmissionPools

LeaseInv == Inv /\ EveryLeaseEnds

-----------------------------------------------------------------------------
(* Every lease ends                                                        *)

(* A granted lease ends after its creation: the walltime is not zero, so   *)
(* select_ttl finds a time to live.                                        *)
LEMMA GrantedLeaseEnds ==
    ASSUME LedgerTypeOK, clock \in Times, NEW i \in Ids, NEW req, NEW snap,
           Prepared(req, snap), NEW answer \in AnswersTo(req, snap),
           Granted(i, req, snap, answer)
    PROVE  NewReservation(req, answer, PolicyView(req, snap)).expires # 0
<1> DEFINE profile == devices[req.device].profile
           ttl == LeaseTtl(req, profile, answer)
           created == PolicyView(req, snap).now
<1>1. created \in Nat
    BY PolicyViewBounds, BoundsAssumption DEF Times
<1>2. ttl \in Nat /\ ttl # 0
  <2>1. req.walltime # 0
      BY DEF Prepared, PrepareCode
  <2>2. answer.ttl \in Nat
      BY AnswerTypes DEF Granted
  <2>3. req.ttl \in Nat /\ req.walltime \in Nat
      BY RequestTypes DEF Prepared
  <2> QED
      BY <2>1, <2>2, <2>3 DEF LeaseTtl
<1>3. NewReservation(req, answer, PolicyView(req, snap)).expires
        = LeaseEnd(created, ttl)
    BY DEF NewReservation
<1> HIDE DEF created, ttl
<1> QED
    BY <1>1, <1>2, <1>3 DEF LeaseEnd

LEMMA LeaseEndStep ==
    ASSUME LedgerTypeOK, clock \in Times, SomeShape, EveryLeaseEnds
    PROVE  EveryLeaseEnds'
<1>a. \A i \in Ids : reservations[i] \in ReservationEntry
    BY DEF LedgerTypeOK
<1>b. SUFFICES ASSUME NEW j \in Ids, Active(j)'
               PROVE  reservations'[j].expires # 0
    BY DEF EveryLeaseEnds
<1>c. Active(j) => reservations[j].expires # 0
    BY DEF EveryLeaseEnds
<1>1. CASE Quiet
    BY <1>1, <1>b, <1>c DEF Quiet, Active
<1>2. ASSUME NEW d \in Devices, Reconfigured(d) \/ Recalibrated(d)
      PROVE  reservations'[j].expires # 0
    BY <1>2, <1>b, <1>c DEF Reconfigured, Recalibrated, Active
<1>3. ASSUME NEW req \in Requests, NEW i \in Ids, NEW snap \in SnapshotsNow,
             NEW answer \in AnswersTo(req, snap),
             Granted(i, req, snap, answer)
      PROVE  reservations'[j].expires # 0
  <2>1. CASE j = i
    <3>1. reservations'[j] =
            NewReservation(req, answer, PolicyView(req, snap))
        BY <1>3, <2>1 DEF Granted, LedgerTypeOK
    <3>2. Prepared(req, snap)
        BY <1>3 DEF Granted, Prepared
    <3> QED
        BY <1>3, <3>1, <3>2, GrantedLeaseEnds
  <2>2. CASE j # i
      BY <1>3, <1>b, <1>c, <2>2 DEF Granted, LedgerTypeOK, Active
  <2> QED
      BY <2>1, <2>2
<1>4. ASSUME NEW S \in SUBSET Ids, NEW state \in Terminal, Ended(S, state)
      PROVE  reservations'[j].expires # 0
  <2>1. j \notin S
      BY <1>4, <1>a, <1>b DEF Ended, Active, Terminal, ReservationEntry
  <2> QED
      BY <1>4, <1>b, <1>c, <2>1 DEF Ended, Active
<1>5. ASSUME NEW i \in Ids, Renewed(i) PROVE reservations'[j].expires # 0
  <2>1. PICK t \in Times \ {0} :
          reservations' = [reservations EXCEPT
             ![i] = [reservations[i] EXCEPT !.expires = t]]
      BY <1>5 DEF Renewed
  <2>2. CASE j = i
    <3>1. reservations'[j] = [reservations[j] EXCEPT !.expires = t]
        BY <2>1, <2>2 DEF LedgerTypeOK
    <3> QED
        BY <1>a, <2>1, <3>1 DEF ReservationEntry
  <2>3. CASE j # i
      BY <1>b, <1>c, <2>1, <2>3 DEF LedgerTypeOK, Active
  <2> QED
      BY <2>2, <2>3
<1> QED
    BY <1>1, <1>2, <1>3, <1>4, <1>5 DEF SomeShape

LEMMA LeaseInvInit ==
    ASSUME Devices # {}, Scopes # {}, Init PROVE LeaseInv
<1>1. \A i \in Ids : ~Active(i)
    BY DEF Init, Active, NoReservation
<1> QED
    BY <1>1, InvInit DEF LeaseInv, EveryLeaseEnds

(* What a step starts from, in the terms of the lemmas.                    *)
LEMMA StepFacts ==
    ASSUME Inv, [Next]_vars
    PROVE  LedgerTypeOK /\ clock \in Times /\ SomeShape
<1>1. LedgerTypeOK /\ clock \in Times
    BY DEF Inv, TypeOK, LedgerTypeOK
<1> QED
    BY <1>1, StepShape DEF Inv

LEMMA LeaseInvStep == ASSUME LeaseInv, [Next]_vars PROVE LeaseInv'
<1>1. Inv'
    BY InvStep DEF LeaseInv
<1>2. EveryLeaseEnds'
    BY StepFacts, LeaseEndStep DEF LeaseInv
<1> QED
    BY <1>1, <1>2 DEF LeaseInv

(* No active reservation is exempt from the sweep, whatever the policy     *)
(* answered and however often the lease was renewed.                       *)
THEOREM LeasesEnd ==
    ASSUME Devices # {}, Scopes # {} PROVE Spec => []EveryLeaseEnds
<1>1. Init => LeaseInv
    BY LeaseInvInit
<1>2. LeaseInv /\ [Next]_vars => LeaseInv'
    BY LeaseInvStep
<1>3. LeaseInv => EveryLeaseEnds
    BY DEF LeaseInv
<1> QED
    BY <1>1, <1>2, <1>3, PTL DEF Spec

-----------------------------------------------------------------------------
(* What a sweep ends                                                       *)

\* A step of another call expires nothing.
ExpiresNothing ==
    /\ out'.call # "expire"
    /\ \A i \in Ids : reservations'[i].state = "EXPIRED"
                         => reservations[i].state = "EXPIRED"

(* Every other call goes by another name and leaves no new expiry.         *)
LEMMA OthersExpireNothing ==
    ASSUME LedgerTypeOK, Next,
           ~\E now \in SweepArgs : Expire(now)
    PROVE  ExpiresNothing
<1>a. \A i \in Ids : reservations[i] \in ReservationEntry
    BY DEF LedgerTypeOK
<1>b. ASSUME NEW call, call # "expire", out'.call = call,
             UNCHANGED reservations
      PROVE  ExpiresNothing
    BY <1>b DEF ExpiresNothing
<1>c. ASSUME NEW call, NEW rc, call # "expire", Refuse(call, rc)
      PROVE  ExpiresNothing
    BY <1>b, <1>c DEF Refuse, Returns
<1>d. ASSUME NEW call, NEW d, NEW entry, call # "expire",
             SetDevice(call, d, entry)
      PROVE  ExpiresNothing
    BY <1>b, <1>d DEF SetDevice, Returns
<1>e. ASSUME NEW call, NEW i \in Ids, NEW entry, call # "expire",
             SetReservation(call, i, entry), entry.state # "EXPIRED"
      PROVE  ExpiresNothing
    BY <1>e DEF SetReservation, Returns, ExpiresNothing, LedgerTypeOK
<1>1. CASE Configure
    BY <1>1, <1>c, <1>d
       DEF Configure, RegisterDevice, UnregisterDevice, SetBaseline,
           SetEstimator, SetPolicy, Unconfigurable
<1>2. CASE \E installed \in BOOLEAN : SetCapacityProvider(installed)
    BY <1>2, <1>b DEF SetCapacityProvider, Returns
<1>3. ASSUME NEW req \in Requests, Reserve(req) PROVE ExpiresNothing
  <2>1. PICK snap \in SnapshotsNow :
          ReserveRefused(req, snap) \/ ReserveDecided(req, snap)
      BY <1>3 DEF Reserve
  <2>2. CASE ReserveRefused(req, snap)
      BY <2>2, <1>b DEF ReserveRefused, Decides
  <2>3. CASE ReserveDecided(req, snap)
    <3>1. out'.call = "reserve"
        BY <2>3, ReserveOutcome
    <3>2. CASE UNCHANGED reservations
        BY <1>b, <3>1, <3>2
    <3>3. ASSUME NEW i \in Ids, NEW answer, Granted(i, req, snap, answer)
          PROVE  ExpiresNothing
      <4>1. NewReservation(req, answer, PolicyView(req, snap)).state
              = "ACTIVE"
          BY DEF NewReservation
      <4> QED
          BY <3>1, <3>3, <4>1 DEF Granted, ExpiresNothing, LedgerTypeOK
    <3> QED
        BY <2>3, <3>2, <3>3, ReserveOutcome
  <2> QED
      BY <2>1, <2>2, <2>3
<1>4. ASSUME NEW call, NEW i \in Ids, NEW state, call # "expire",
             state # "EXPIRED", Transition(call, i, state)
      PROVE  ExpiresNothing
  <2>1. ASSUME Active(i), NEW rc \in {"OK", "CALLBACK"}
        PROVE  Transitioned(reservations[i], state, rc).state # "EXPIRED"
    <3>1. /\ Transitioned(reservations[i], state, "CALLBACK").state = "ACTIVE"
          /\ Transitioned(reservations[i], state, "OK").state = state
        BY <1>a, <2>1, TransitionUndone DEF Active, ReservationEntry
    <3> QED
        BY <1>4, <2>1, <3>1
  <2>2. ASSUME Active(i), NEW rc \in {"OK", "CALLBACK"}, Returns(call, rc),
               reservations' = [reservations EXCEPT
                 ![i] = Transitioned(reservations[i], state, rc)]
        PROVE  ExpiresNothing
    <3> DEFINE entry == Transitioned(reservations[i], state, rc)
    <3>1. entry.state # "EXPIRED" /\ out'.call = call
        BY <2>1, <2>2 DEF Returns
    <3>2. reservations' = [reservations EXCEPT ![i] = entry]
        BY <2>2
    <3> HIDE DEF entry
    <3> QED
        BY <1>4, <3>1, <3>2 DEF ExpiresNothing, LedgerTypeOK
  <2> QED
      BY <1>4, <1>c, <2>2 DEF Transition, ReleaseAnswers
<1>5. ASSUME NEW i \in Ids, NEW now, NEW ttl, Renew(i, now, ttl)
      PROVE  ExpiresNothing
  <2>1. Active(i) => \A t : [reservations[i] EXCEPT !.expires = t].state
                               = "ACTIVE"
      BY <1>a DEF ReservationEntry, Active
  <2> QED
      BY <1>5, <1>c, <1>e, <2>1 DEF Renew
<1>6. CASE EndLease
    BY <1>4, <1>5, <1>6 DEF EndLease, Release, Cancel
<1>7. ASSUME NEW i \in Ids, Feedback(i) PROVE ExpiresNothing
    BY <1>7, <1>d DEF Feedback
<1>8. CASE Tick
    BY <1>8, <1>b DEF Tick, Returns
<1> QED
    BY <1>1, <1>2, <1>3, <1>6, <1>7, <1>8 DEF Next

\* The formula of SweepIsExact, for one step.
SweptExactly ==
    IF out'.call = "expire" /\ out'.rc = "OK"
    THEN \E now \in SweepTimes : \A i \in Ids : Active(i) =>
           (reservations'[i].state = "EXPIRED"
                <=> reservations[i].expires <= now)
    ELSE \A i \in Ids :
           reservations'[i].state = "EXPIRED" /\ out'.call # "expire"
               => reservations[i].state = "EXPIRED"

LEMMA SweepStep ==
    ASSUME LedgerTypeOK, EveryLeaseEnds, Next PROVE SweptExactly
<1>a. \A i \in Ids : reservations[i] \in ReservationEntry
    BY DEF LedgerTypeOK
<1>1. ASSUME NEW now \in SweepArgs, ExpireAll(now) PROVE SweptExactly
  <2>1. AsOf(now) \in SweepTimes
      BY DEF AsOf, SweepTimes
  <2>2. ASSUME NEW i \in Ids, Active(i)
        PROVE  reservations'[i].state = "EXPIRED"
                 <=> reservations[i].expires <= AsOf(now)
    <3>1. i \in Lapsed(AsOf(now)) <=> reservations[i].expires <= AsOf(now)
        BY <2>2 DEF Lapsed, EveryLeaseEnds
    <3>2. reservations'[i] = IF i \in Lapsed(AsOf(now))
                             THEN [reservations[i] EXCEPT !.state = "EXPIRED"]
                             ELSE reservations[i]
        BY <1>1, <1>a, TransitionUndone DEF ExpireAll, Swept
    <3>3. reservations[i].state = "ACTIVE"
        BY <2>2 DEF Active
    <3>4. [reservations[i] EXCEPT !.state = "EXPIRED"].state = "EXPIRED"
        BY <1>a DEF ReservationEntry
    <3> QED
        BY <3>1, <3>2, <3>3, <3>4
  <2>3. out'.call = "expire" /\ out'.rc = "OK"
      BY <1>1 DEF ExpireAll, Returns
  <2> QED
      BY <2>1, <2>2, <2>3 DEF SweptExactly
<1>2. ASSUME NEW now \in SweepArgs, ExpireFails(now) PROVE SweptExactly
  <2>1. out'.call = "expire" /\ out'.rc = "CALLBACK"
      BY <1>2 DEF ExpireFails, Returns
  <2> QED
      BY <2>1 DEF SweptExactly
<1>3. CASE ~\E now \in SweepArgs : Expire(now)
    BY <1>3, OthersExpireNothing DEF ExpiresNothing, SweptExactly
<1> QED
    BY <1>1, <1>2, <1>3 DEF Expire

(* A sweep that reports success ended what had lapsed at one instant and   *)
(* nothing else; no other call expires a reservation.                      *)
THEOREM SweepsAreExact ==
    ASSUME Devices # {}, Scopes # {} PROVE Spec => SweepIsExact
<1>1. Init => LeaseInv
    BY LeaseInvInit
<1>2. LeaseInv /\ [Next]_vars => LeaseInv'
    BY LeaseInvStep
<1>3. LeaseInv /\ [Next]_vars => [SweptExactly]_vars
    BY StepFacts, SweepStep DEF LeaseInv
<1>4. SweepIsExact <=> [][SweptExactly]_vars
    BY PTL DEF SweepIsExact, SweptExactly
<1> QED
    BY <1>1, <1>2, <1>3, <1>4, PTL DEF Spec

-----------------------------------------------------------------------------
(* Failed calls                                                            *)

Untouched == UNCHANGED <<devices, reservations, provider>>

\* The formula of FailedCallsChangeNothing, for one step.
FailsCleanly ==
    out'.rc # "OK" =>
        /\ UNCHANGED <<devices, provider>>
        /\ IF out'.call = "expire"
           THEN \E now \in SweepTimes : StopsMidway(now)
           ELSE UNCHANGED reservations

(* The step that stores a terminal state is undone if the policy refuses.  *)
LEMMA TransitionFails ==
    ASSUME LedgerTypeOK, NEW call, call # "expire", NEW i \in Ids, NEW state,
           Transition(call, i, state)
    PROVE  FailsCleanly
<1>a. reservations[i] \in ReservationEntry
    BY DEF LedgerTypeOK
<1>1. ASSUME NEW rc, Refuse(call, rc) PROVE FailsCleanly
    BY <1>1 DEF Refuse, Returns, FailsCleanly
<1>2. ASSUME NEW rc \in {"OK", "CALLBACK"}, Returns(call, rc),
             reservations' = [reservations EXCEPT
               ![i] = Transitioned(reservations[i], state, rc)],
             UNCHANGED <<devices, provider>>
      PROVE  FailsCleanly
  <2>1. CASE rc = "OK"
      BY <1>2, <2>1 DEF Returns, FailsCleanly
  <2>2. CASE rc = "CALLBACK"
    <3>1. Transitioned(reservations[i], state, rc) = reservations[i]
        BY <1>a, <2>2, TransitionUndone
    <3>2. UNCHANGED reservations
        BY <1>2, <3>1 DEF LedgerTypeOK
    <3> QED
        BY <1>2, <3>2 DEF Returns, FailsCleanly
  <2> QED
      BY <2>1, <2>2
<1> QED
    BY <1>1, <1>2 DEF Transition, ReleaseAnswers

(* A sweep that stops has ended a part of what had lapsed, and the entry it*)
(* stopped at is as it was.                                                *)
LEMMA SweepStops ==
    ASSUME LedgerTypeOK, NEW now \in SweepArgs, ExpireFails(now)
    PROVE  FailsCleanly
<1>a. \A i \in Ids : reservations[i] \in ReservationEntry
    BY DEF LedgerTypeOK
<1>1. PICK i \in Lapsed(AsOf(now)) :
        \E done \in SUBSET (Lapsed(AsOf(now)) \ {i}) :
           reservations' = [Swept(done) EXCEPT ![i] =
               Transitioned(reservations[i], "EXPIRED", "CALLBACK")]
    BY DEF ExpireFails
<1>2. PICK done \in SUBSET (Lapsed(AsOf(now)) \ {i}) :
        reservations' = [Swept(done) EXCEPT ![i] =
            Transitioned(reservations[i], "EXPIRED", "CALLBACK")]
    BY <1>1
<1>3. /\ i \in Ids /\ Active(i) /\ reservations[i].expires <= AsOf(now)
      /\ i \notin done
      /\ \A j \in done : /\ j \in Ids /\ Active(j)
                         /\ reservations[j].expires <= AsOf(now)
    BY <1>1, <1>2 DEF Lapsed
<1>4. reservations' = Swept(done)
    BY <1>2, <1>3, SweepStopUndone
<1>5. \A j \in Ids : reservations'[j] =
        IF j \in done THEN [reservations[j] EXCEPT !.state = "EXPIRED"]
        ELSE reservations[j]
    BY <1>4, <1>a, TransitionUndone DEF Swept
<1>6. AsOf(now) \in SweepTimes
    BY DEF AsOf, SweepTimes
<1>7. StopsMidway(AsOf(now))
    BY <1>3, <1>5 DEF StopsMidway
<1> QED
    BY <1>6, <1>7 DEF ExpireFails, FailsCleanly, Returns

LEMMA FailureStep == ASSUME LedgerTypeOK, Next PROVE FailsCleanly
<1>a. ASSUME Untouched, out'.call # "expire" PROVE FailsCleanly
    BY <1>a DEF FailsCleanly, Untouched
<1>b. ASSUME out'.rc = "OK" PROVE FailsCleanly
    BY <1>b DEF FailsCleanly
<1>c. ASSUME NEW call, NEW rc, call # "expire", Refuse(call, rc)
      PROVE  FailsCleanly
    BY <1>a, <1>c DEF Refuse, Returns, Untouched
<1>d. ASSUME NEW call, NEW x, NEW entry,
             SetDevice(call, x, entry) \/ SetReservation(call, x, entry)
      PROVE  FailsCleanly
    BY <1>b, <1>d DEF SetDevice, SetReservation, Returns
<1>1. CASE Configure
    BY <1>1, <1>c, <1>d
       DEF Configure, RegisterDevice, UnregisterDevice, SetBaseline,
           SetEstimator, SetPolicy, Unconfigurable
<1>2. CASE \E installed \in BOOLEAN : SetCapacityProvider(installed)
    BY <1>2, <1>b DEF SetCapacityProvider, Returns
<1>3. ASSUME NEW req \in Requests, Reserve(req) PROVE FailsCleanly
  <2>1. PICK snap \in SnapshotsNow :
          ReserveRefused(req, snap) \/ ReserveDecided(req, snap)
      BY <1>3 DEF Reserve
  <2>2. CASE ReserveRefused(req, snap)
      BY <2>2, <1>a DEF ReserveRefused, Decides, Untouched
  <2>3. CASE ReserveDecided(req, snap)
    <3>1. CASE UNCHANGED reservations
        BY <1>a, <2>3, <3>1, ReserveOutcome DEF Untouched
    <3>2. ASSUME NEW i \in Ids, NEW answer, Granted(i, req, snap, answer)
          PROVE  FailsCleanly
        BY <1>b, <3>2 DEF Granted, Decides
    <3> QED
        BY <2>3, <3>1, <3>2, ReserveOutcome
  <2> QED
      BY <2>1, <2>2, <2>3
<1>4. ASSUME NEW i \in Ids, Release(i) \/ Cancel(i) PROVE FailsCleanly
    BY <1>4, TransitionFails DEF Release, Cancel
<1>5. ASSUME NEW i \in Ids, NEW now, NEW ttl, Renew(i, now, ttl)
      PROVE  FailsCleanly
    BY <1>5, <1>c, <1>d DEF Renew
<1>6. ASSUME NEW now \in SweepArgs, Expire(now) PROVE FailsCleanly
  <2>1. CASE ExpireAll(now)
      BY <2>1, <1>b DEF ExpireAll, Returns
  <2>2. CASE ExpireFails(now)
      BY <2>2, SweepStops
  <2> QED
      BY <1>6, <2>1, <2>2 DEF Expire
<1>7. CASE EndLease
    BY <1>4, <1>5, <1>6, <1>7 DEF EndLease
<1>8. ASSUME NEW i \in Ids, Feedback(i) PROVE FailsCleanly
    BY <1>8, <1>d DEF Feedback
<1>9. CASE Tick
    BY <1>9, <1>b DEF Tick, Returns
<1> QED
    BY <1>1, <1>2, <1>3, <1>7, <1>8, <1>9 DEF Next

(* A call that reports an error leaves the tables and the provider as it   *)
(* found them: an entry stored as ended and an entry inserted for a grant  *)
(* are put back by the rollbacks, which need that an entry is an entry and *)
(* that an unused slot holds nothing.  A sweep ends a part of what lapsed. *)
THEOREM FailedCallsAreClean ==
    ASSUME Devices # {}, Scopes # {} PROVE Spec => FailedCallsChangeNothing
<1>1. Init => Inv
    BY InvInit
<1>2. Inv /\ [Next]_vars => Inv'
    BY InvStep
<1>3. Inv /\ [Next]_vars => [FailsCleanly]_vars
    BY StepFacts, FailureStep
<1>4. FailedCallsChangeNothing <=> [][FailsCleanly]_vars
    BY PTL DEF FailedCallsChangeNothing, FailsCleanly
<1> QED
    BY <1>1, <1>2, <1>3, <1>4, PTL DEF Spec

-----------------------------------------------------------------------------
(* Grants fit                                                              *)

\* Reservation j is no fresh grant, and holds what it held.
KeepsUnits(j) ==
    Active(j)' => /\ Active(j)
                  /\ reservations'[j].device = reservations[j].device
                  /\ reservations'[j].scope = reservations[j].scope
                  /\ reservations'[j].credits = reservations[j].credits
                  /\ reservations'[j].rate = reservations[j].rate

(* Only a grant makes a reservation active or changes its units.           *)
LEMMA OnlyGrantsAddUnits ==
    ASSUME LedgerTypeOK, SomeShape
    PROVE  \/ \A j \in Ids : KeepsUnits(j)
           \/ \E req \in Requests, i \in Ids : \E snap \in SnapshotsNow :
                \E answer \in AnswersTo(req, snap) :
                    Granted(i, req, snap, answer)
<1>a. \A j \in Ids : reservations[j] \in ReservationEntry
    BY DEF LedgerTypeOK
<1>1. CASE Quiet
    BY <1>1 DEF Quiet, Active, KeepsUnits
<1>2. ASSUME NEW d \in Devices, Reconfigured(d) \/ Recalibrated(d)
      PROVE  \A j \in Ids : KeepsUnits(j)
    BY <1>2 DEF Reconfigured, Recalibrated, Active, KeepsUnits
<1>3. ASSUME NEW S \in SUBSET Ids, NEW state \in Terminal, Ended(S, state)
      PROVE  \A j \in Ids : KeepsUnits(j)
    BY <1>3, <1>a DEF Ended, Active, Terminal, ReservationEntry, KeepsUnits
<1>4. ASSUME NEW i \in Ids, Renewed(i) PROVE \A j \in Ids : KeepsUnits(j)
  <2>1. PICK t \in Times :
          reservations' = [reservations EXCEPT
             ![i] = [reservations[i] EXCEPT !.expires = t]]
      BY <1>4 DEF Renewed
  <2>2. \A j \in Ids :
          \/ reservations'[j] = reservations[j]
          \/ reservations'[j] = [reservations[j] EXCEPT !.expires = t]
      BY <2>1 DEF LedgerTypeOK
  <2> QED
      BY <1>a, <2>2 DEF Active, ReservationEntry, KeepsUnits
<1> QED
    BY <1>1, <1>2, <1>3, <1>4 DEF SomeShape

(* What is left of a limit, added to what is committed, stays in the       *)
(* limit, the saturated case included.                                     *)
LEMMA LeftFits ==
    ASSUME NEW limit \in Nat, limit <= MaxU64, NEW sum \in Nat,
           NEW units \in Nat, units # 0,
           units <= SatSub(limit, IF sum > MaxU64 THEN MaxU64 ELSE sum)
    PROVE  sum + units <= limit
BY WidthAssumption DEF SatSub

\* The formula of GrantsFit, for one step and one device.
FitsIn(d) ==
    /\ CreditsCommitted(d)' > CreditsCommitted(d)
          => TotalCredits(d) = 0 \/ CreditsCommitted(d)' <= CreditLimit(d)
    /\ RateCommitted(d)' > RateCommitted(d)
          => TotalRate(d) = 0 \/ RateCommitted(d)' <= RateLimit(d)

(* With a positive estimate every limit is a 64-bit number.                *)
LEMMA PreparedLimits ==
    ASSUME LedgerTypeOK, NEW req, NEW snap, Prepared(req, snap)
    PROVE  /\ CreditLimit(req.device) \in Nat
           /\ TotalCredits(req.device) # 0 => CreditLimit(req.device) <= MaxU64
           /\ RateLimit(req.device) \in Nat /\ RateLimit(req.device) <= MaxU64
<1> DEFINE d == req.device
           policy == devices[d].policy
<1>1. d \in Devices /\ devices[d].est # 0
    BY RequestTypes, PreparedFacts DEF Prepared
<1>2. TotalCredits(d) \in U64 /\ TotalRate(d) \in U64
    BY <1>1, TotalsFit
<1>3. ASSUME TotalCredits(d) # 0, policy.kind = "credit"
      PROVE  ~LimitOverflows(policy, TotalCredits(d))
  <2>1. CapacityView(d, req.scope, snap).total_credits = TotalCredits(d)
      BY DEF CapacityView
  <2> QED
      BY <1>3, <2>1, PreparedFacts DEF CapacityFails, CreditCapacityFails
<1>4. /\ EffectiveLimit(policy, TotalCredits(d)) \in Nat
      /\ ~LimitOverflows(policy, TotalCredits(d))
            => EffectiveLimit(policy, TotalCredits(d)) <= MaxU64
    BY <1>1, <1>2, EffectiveLimitFits, DeviceTypes
<1> QED
    BY <1>2, <1>3, <1>4, WidthAssumption DEF CreditLimit, RateLimit, U64

LEMMA GrantFits ==
    ASSUME LedgerTypeOK, clock \in Times, NEW d \in Devices, NEW i \in Ids,
           NEW req, NEW snap, Prepared(req, snap),
           NEW answer \in AnswersTo(req, snap), Granted(i, req, snap, answer)
    PROVE  FitsIn(d)
<1> DEFINE credits == CreditsCommitted(d)
           rate == RateCommitted(d)
<1>1. credits \in Nat /\ rate \in Nat
    BY CommittedTypes DEF CreditsCommitted, RateCommitted
<1>2. answer.credits \in Nat /\ answer.rate \in Nat
    BY AnswerTypes, WidthAssumption DEF Granted, U64
<1>3. CASE d # req.device
  <2>1. credits' = credits /\ rate' = rate
      BY <1>3, SumsAfterGrant
  <2> HIDE DEF credits, rate
  <2>2. ~(credits' > credits) /\ ~(rate' > rate)
      BY <1>1, <2>1
  <2> QED
      BY <2>2 DEF FitsIn, credits, rate
<1>4. CASE d = req.device
  <2>1. credits' = credits + answer.credits /\ rate' = rate + answer.rate
      BY <1>4, SumsAfterGrant
  <2>2. /\ Committed(CreditsOf, d)
              = IF credits > MaxU64 THEN MaxU64 ELSE credits
        /\ Committed(RateOf, d) = IF rate > MaxU64 THEN MaxU64 ELSE rate
      BY DEF CreditsCommitted, RateCommitted, Committed, SatSum
  <2>3. /\ TotalCredits(d) # 0 => answer.credits
              <= SatSub(CreditLimit(d), Committed(CreditsOf, d))
        /\ TotalRate(d) # 0 => answer.rate
              <= SatSub(RateLimit(d), Committed(RateOf, d))
      BY <1>4, GrantBounds DEF Granted, RateLimit
  <2>4. /\ CreditLimit(d) \in Nat /\ RateLimit(d) \in Nat
        /\ TotalCredits(d) # 0 => CreditLimit(d) <= MaxU64
        /\ RateLimit(d) <= MaxU64
      BY <1>4, PreparedLimits
  <2> HIDE DEF credits, rate
  <2>5. ASSUME TotalCredits(d) # 0, answer.credits # 0
        PROVE  credits + answer.credits <= CreditLimit(d)
      BY <1>1, <1>2, <2>2, <2>3, <2>4, <2>5, LeftFits
  <2>6. ASSUME TotalRate(d) # 0, answer.rate # 0
        PROVE  rate + answer.rate <= RateLimit(d)
      BY <1>1, <1>2, <2>2, <2>3, <2>4, <2>6, LeftFits
  <2>7. /\ credits' > credits => answer.credits # 0
        /\ rate' > rate => answer.rate # 0
      BY <1>1, <1>2, <2>1
  <2> QED
      BY <2>1, <2>5, <2>6, <2>7 DEF FitsIn, credits, rate
<1> QED
    BY <1>3, <1>4

LEMMA FitStep ==
    ASSUME LedgerTypeOK, clock \in Times, SomeShape, NEW d \in Devices
    PROVE  FitsIn(d)
<1>1. CASE \A j \in Ids : KeepsUnits(j)
  <2>1. /\ CreditsCommitted(d)' \in Nat /\ CreditsCommitted(d) \in Nat
        /\ RateCommitted(d)' \in Nat /\ RateCommitted(d) \in Nat
        /\ CreditsCommitted(d)' <= CreditsCommitted(d)
        /\ RateCommitted(d)' <= RateCommitted(d)
      BY <1>1, SumsDoNotGrow DEF KeepsUnits
  <2>2. /\ ~(CreditsCommitted(d)' > CreditsCommitted(d))
        /\ ~(RateCommitted(d)' > RateCommitted(d))
      BY <2>1
  <2> QED
      BY <2>2 DEF FitsIn
<1>2. ASSUME NEW req \in Requests, NEW i \in Ids, NEW snap \in SnapshotsNow,
             NEW answer \in AnswersTo(req, snap),
             Granted(i, req, snap, answer)
      PROVE  FitsIn(d)
  <2>1. Prepared(req, snap)
      BY <1>2 DEF Granted, Prepared
  <2> QED
      BY <1>2, <2>1, GrantFits
<1> QED
    BY <1>1, <1>2, OnlyGrantsAddUnits

(* The step that adds units leaves the device within the limit of that     *)
(* instant, a total derived from a moving estimate included, and also when *)
(* the sum of what is held has saturated.                                  *)
THEOREM EveryGrantFits ==
    ASSUME Devices # {}, Scopes # {} PROVE Spec => GrantsFit
<1>1. Init => Inv
    BY InvInit
<1>2. Inv /\ [Next]_vars => Inv'
    BY InvStep
<1>3. Inv /\ [Next]_vars => [\A d \in Devices : FitsIn(d)]_vars
    BY StepFacts, FitStep
<1>4. GrantsFit <=> [][\A d \in Devices : FitsIn(d)]_vars
    BY PTL DEF GrantsFit, FitsIn
<1> QED
    BY <1>1, <1>2, <1>3, <1>4, PTL DEF Spec

-----------------------------------------------------------------------------
(* The caps of a scope                                                     *)

LEMMA ScopeFinite ==
    ASSUME NEW d, NEW s
    PROVE  /\ IsFiniteSet(ActiveIn(d, s)) /\ ActiveIn(d, s) \in SUBSET Ids
           /\ ScopeCredits(d, s) \in Nat /\ ScopeRate(d, s) \in Nat
<1>1. IsFiniteSet(ActiveIn(d, s)) /\ ActiveIn(d, s) \in SUBSET Ids
    BY ActiveFinite, FS_Subset DEF ActiveIn, ActiveOn
<1> QED
    BY <1>1, UnitsFinite DEF ScopeCredits, ScopeRate

(* Without a grant no scope holds more than before.                        *)
LEMMA ScopesDoNotGrow ==
    ASSUME \A j \in Ids : KeepsUnits(j), NEW d, NEW s
    PROVE  /\ ScopeCredits(d, s)' <= ScopeCredits(d, s)
           /\ ScopeRate(d, s)' <= ScopeRate(d, s)
<1> DEFINE A == ActiveIn(d, s)
           B == ActiveIn(d, s)'
<1>1. B \in SUBSET A
    BY DEF ActiveIn, ActiveOn, KeepsUnits, Active
<1>2. /\ \A j \in B : CreditsOf'[j] = CreditsOf[j]
      /\ \A j \in B : RateOf'[j] = RateOf[j]
    BY DEF ActiveIn, ActiveOn, KeepsUnits, CreditsOf, RateOf, Active
<1>3. IsFiniteSet(A)
    BY ScopeFinite
<1>4. /\ ScopeCredits(d, s)' = UnitSum(CreditsOf', B)
      /\ ScopeRate(d, s)' = UnitSum(RateOf', B)
      /\ ScopeCredits(d, s) = UnitSum(CreditsOf, A)
      /\ ScopeRate(d, s) = UnitSum(RateOf, A)
    BY DEF ScopeCredits, ScopeRate
<1> HIDE DEF A, B
<1>5. /\ UnitSum(CreditsOf', B) = UnitSum(CreditsOf, B)
      /\ UnitSum(RateOf', B) = UnitSum(RateOf, B)
    BY <1>2, UnitSumLocal
<1>6. /\ UnitSum(CreditsOf, B) <= UnitSum(CreditsOf, A)
      /\ UnitSum(RateOf, B) <= UnitSum(RateOf, A)
    BY <1>1, <1>3, UnitSumMonotone
<1> QED
    BY <1>4, <1>5, <1>6

(* A grant adds its units to its own scope and to no other.                *)
LEMMA ScopeAfterGrant ==
    ASSUME LedgerTypeOK, clock \in Times, NEW d, NEW s, NEW i \in Ids,
           NEW req, NEW snap, Prepared(req, snap),
           NEW answer \in AnswersTo(req, snap), Granted(i, req, snap, answer)
    PROVE  IF d = req.device /\ s = req.scope
           THEN /\ ScopeCredits(d, s)' = ScopeCredits(d, s) + answer.credits
                /\ ScopeRate(d, s)' = ScopeRate(d, s) + answer.rate
           ELSE /\ ScopeCredits(d, s)' = ScopeCredits(d, s)
                /\ ScopeRate(d, s)' = ScopeRate(d, s)
<1> DEFINE A == ActiveIn(d, s)
           B == ActiveIn(d, s)'
           entry == NewReservation(req, answer, PolicyView(req, snap))
           own == d = req.device /\ s = req.scope
<1>1. /\ reservations'[i] = entry
      /\ \A j \in Ids \ {i} : reservations'[j] = reservations[j]
      /\ reservations[i].state = "ABSENT"
    BY DEF Granted, LedgerTypeOK
<1>2. /\ entry.state = "ACTIVE" /\ entry.device = req.device
      /\ entry.scope = req.scope
      /\ entry.credits = answer.credits /\ entry.rate = answer.rate
    BY DEF NewReservation
<1>3. answer.credits \in U64 /\ answer.rate \in U64
    BY AnswerTypes DEF Granted
<1> HIDE DEF entry
<1>4. i \notin A /\ A \in SUBSET Ids /\ IsFiniteSet(A)
  <2>1. A \in SUBSET Ids /\ IsFiniteSet(A)
      BY ScopeFinite
  <2>2. i \notin A
      BY <1>1 DEF ActiveIn, ActiveOn, Active
  <2> QED
      BY <2>1, <2>2
<1>5. /\ \A j \in A : CreditsOf'[j] = CreditsOf[j]
      /\ \A j \in A : RateOf'[j] = RateOf[j]
    BY <1>1, <1>4 DEF CreditsOf, RateOf
<1>6. CreditsOf'[i] = answer.credits /\ RateOf'[i] = answer.rate
    BY <1>1, <1>2 DEF CreditsOf, RateOf
<1>7. B = IF own THEN A \cup {i} ELSE A
    BY <1>1, <1>2 DEF ActiveIn, ActiveOn, Active
<1>8. /\ ScopeCredits(d, s)' = UnitSum(CreditsOf', B)
      /\ ScopeRate(d, s)' = UnitSum(RateOf', B)
      /\ ScopeCredits(d, s) = UnitSum(CreditsOf, A)
      /\ ScopeRate(d, s) = UnitSum(RateOf, A)
    BY DEF ScopeCredits, ScopeRate
<1> HIDE DEF A, B
<1>9. /\ UnitSum(CreditsOf', A) = UnitSum(CreditsOf, A)
      /\ UnitSum(RateOf', A) = UnitSum(RateOf, A)
    BY <1>5, UnitSumLocal
<1>10. /\ UnitSum(CreditsOf', A \cup {i})
             = UnitSum(CreditsOf', A) + answer.credits
       /\ UnitSum(RateOf', A \cup {i}) = UnitSum(RateOf', A) + answer.rate
    BY <1>3, <1>4, <1>6, UnitSumAdd
<1> QED
    BY <1>7, <1>8, <1>9, <1>10

(* What a cap leaves, added to what the scope holds, stays in the cap.     *)
LEMMA CapLeaves ==
    ASSUME NEW available \in Nat, NEW cap \in U64, NEW sum \in Nat,
           NEW units \in Nat, units # 0,
           units <= CappedAvailable(available, cap,
                        IF sum > MaxU64 THEN MaxU64 ELSE sum)
    PROVE  WithinCap(sum + units, cap)
BY WidthAssumption DEF CappedAvailable, WithinCap, U64

\* No policy but the three of the library is ever selected.
OnlyStandardPolicies == \A p \in PolicyInstances : p.kind \in StandardKinds

(* A standard policy accepts only on an available device.                  *)
LEMMA AcceptedWhenAvailable ==
    ASSUME LedgerTypeOK, OnlyStandardPolicies, NEW req, NEW snap,
           Prepared(req, snap), NEW answer \in AnswersTo(req, snap),
           answer.decision = "ACCEPTED"
    PROVE  snap.state = "AVAILABLE"
<1> DEFINE policy == devices[req.device].policy
           view == PolicyView(req, snap)
<1>1. policy.kind \in StandardKinds
  <2>1. devices[req.device] \in DeviceEntry
      BY RequestTypes DEF Prepared, LedgerTypeOK
  <2> QED
      BY <2>1, PreparedFacts DEF OnlyStandardPolicies, DeviceEntry
<1>2. view.device_state = snap.state
    BY DEF PolicyView, DecoratedView, CreditView, CapacityView
<1>3. ~Blocked(view)
  <2>1. BlockedDecision(view) # "ACCEPTED"
      BY DEF BlockedDecision
  <2> HIDE DEF view, policy
  <2> QED
      BY <1>1, <2>1
         DEF AnswersTo, PolicyAnswers, StandardKinds, CreditAnswer,
             CreditDecision, RateAnswer, RateDecision, UnlimitedAnswer,
             Refusal, view, policy
<1> QED
    BY <1>2, <1>3 DEF Blocked

(* Whatever the policy, what it may grant is capped for the scope.         *)
LEMMA CappedView ==
    ASSUME LedgerTypeOK, clock \in Times, NEW req, NEW snap,
           Prepared(req, snap)
    PROVE  LET d == req.device
               s == req.scope
               view == PolicyView(req, snap)
           IN  /\ view.external_credits = snap.external_credits
               /\ view.external_rate = snap.external_rate
               /\ \E n \in Nat : view.effective_credits =
                     CappedAvailable(n, snap.external_credits,
                         SatSum(CreditsOf, ActiveIn(d, s)))
               /\ \E n \in Nat : view.effective_rate =
                     CappedAvailable(n, snap.external_rate,
                         SatSum(RateOf, ActiveIn(d, s)))
<1> DEFINE d == req.device
           s == req.scope
           core == CapacityView(d, s, snap)
           view == PolicyView(req, snap)
           policy == devices[d].policy
           left_credits == SatSub(TotalCredits(d), Committed(CreditsOf, d))
           left_rate == SatSub(TotalRate(d), Committed(RateOf, d))
           limit == EffectiveLimit(policy, TotalCredits(d))
           left_limit == IF TotalCredits(d) = 0 THEN 0
                         ELSE SatSub(limit, Committed(CreditsOf, d))
<1>1. d \in Devices /\ devices[d].est # 0
    BY RequestTypes, PreparedFacts DEF Prepared
<1>2. TotalCredits(d) \in Nat /\ TotalRate(d) \in Nat
    BY <1>1, TotalsFit, WidthAssumption DEF U64
<1>3. limit \in Nat
    BY <1>1, TotalsFit, EffectiveLimitFits, DeviceTypes
<1>4. left_credits \in Nat /\ left_rate \in Nat /\ left_limit \in Nat
    BY <1>2, <1>3, CommittedTypes, SatSubBound
<1>5. /\ core.external_credits = snap.external_credits
      /\ core.external_rate = snap.external_rate
      /\ core.effective_credits = CappedAvailable(left_credits,
            snap.external_credits, SatSum(CreditsOf, ActiveIn(d, s)))
      /\ core.effective_rate = CappedAvailable(left_rate,
            snap.external_rate, SatSum(RateOf, ActiveIn(d, s)))
    BY DEF CapacityView
<1>6. CASE policy.kind # "credit"
  <2>1. view = core
      BY <1>6 DEF PolicyView, DecoratedView
  <2> HIDE DEF core, view, left_credits, left_rate
  <2> QED
      BY <1>4, <1>5, <2>1 DEF view
<1>7. CASE policy.kind = "credit"
  <2>1. /\ view.external_credits = core.external_credits
        /\ view.external_rate = core.external_rate
        /\ view.effective_rate = core.effective_rate
        /\ view.effective_credits = CappedAvailable(left_limit,
              snap.external_credits, SatSum(CreditsOf, ActiveIn(d, s)))
      BY <1>7 DEF PolicyView, DecoratedView, CreditView, CapacityView
  <2> HIDE DEF core, view, left_credits, left_rate, left_limit
  <2> QED
      BY <1>4, <1>5, <2>1 DEF view
<1> QED
    BY <1>6, <1>7

\* What ScopeCapRespected asks of one step, one device and one scope.
CappedIn(d, s) ==
    GrewInScope(d, s) => \E snap \in out'.seen : FitsCapsOf(snap, d, s)

LEMMA GrantWithinCap ==
    ASSUME LedgerTypeOK, clock \in Times, OnlyStandardPolicies,
           NEW d, NEW s, NEW i \in Ids, NEW req, NEW snap,
           Prepared(req, snap), NEW answer \in AnswersTo(req, snap),
           Granted(i, req, snap, answer)
    PROVE  CappedIn(d, s)
<1> DEFINE credits == ScopeCredits(d, s)
           rate == ScopeRate(d, s)
           view == PolicyView(req, snap)
<1>1. credits \in Nat /\ rate \in Nat
    BY ScopeFinite
<1>2. answer.credits \in Nat /\ answer.rate \in Nat
    BY AnswerTypes, WidthAssumption DEF Granted, U64
<1>3. CASE ~(d = req.device /\ s = req.scope)
  <2>1. credits' = credits /\ rate' = rate
      BY <1>3, ScopeAfterGrant
  <2> HIDE DEF credits, rate
  <2>2. ~(credits' > credits) /\ ~(rate' > rate)
      BY <1>1, <2>1
  <2> QED
      BY <2>2 DEF CappedIn, GrewInScope, credits, rate
<1>4. CASE d = req.device /\ s = req.scope
  <2>1. credits' = credits + answer.credits /\ rate' = rate + answer.rate
    <3>1. IF d = req.device /\ s = req.scope
          THEN /\ credits' = credits + answer.credits
               /\ rate' = rate + answer.rate
          ELSE credits' = credits /\ rate' = rate
        BY ScopeAfterGrant
    <3> HIDE DEF credits, rate
    <3> QED
        BY <1>4, <3>1
  <2>2. snap \in out'.seen /\ snap.ok /\ snap.state = "AVAILABLE"
    <3>1. snap \in out'.seen
        BY DEF Granted, Decides
    <3>2. snap.ok
        BY DEF Prepared, PrepareCode
    <3> QED
        BY <3>1, <3>2, AcceptedWhenAvailable DEF Granted
  <2>3. snap.external_credits \in U64 /\ snap.external_rate \in U64
      BY InputsAssumption, WidthAssumption
         DEF Prepared, SnapshotsNow, Snapshot, OwnSnapshot, U64
  <2>4. /\ SatSum(CreditsOf, ActiveIn(d, s))
              = IF credits > MaxU64 THEN MaxU64 ELSE credits
        /\ SatSum(RateOf, ActiveIn(d, s))
              = IF rate > MaxU64 THEN MaxU64 ELSE rate
      BY DEF SatSum, ScopeCredits, ScopeRate
  <2>5. /\ snap.external_credits # 0 =>
              answer.credits <= view.effective_credits
        /\ snap.external_rate # 0 => answer.rate <= view.effective_rate
      BY CappedView DEF Granted, ValidGrant
  <2>6. PICK n \in Nat : view.effective_credits =
              CappedAvailable(n, snap.external_credits,
                  SatSum(CreditsOf, ActiveIn(d, s)))
      BY <1>4, CappedView
  <2>7. PICK m \in Nat : view.effective_rate =
              CappedAvailable(m, snap.external_rate,
                  SatSum(RateOf, ActiveIn(d, s)))
      BY <1>4, CappedView
  <2> HIDE DEF credits, rate, view
  <2>8. ASSUME answer.credits # 0
        PROVE  WithinCap(credits', snap.external_credits)
    <3>1. CASE snap.external_credits = 0
        BY <3>1 DEF WithinCap
    <3>2. CASE snap.external_credits # 0
        BY <1>1, <1>2, <2>1, <2>3, <2>4, <2>5, <2>6, <2>8, <3>2, CapLeaves
    <3> QED
        BY <3>1, <3>2
  <2>9. ASSUME answer.rate # 0
        PROVE  WithinCap(rate', snap.external_rate)
    <3>1. CASE snap.external_rate = 0
        BY <3>1 DEF WithinCap
    <3>2. CASE snap.external_rate # 0
        BY <1>1, <1>2, <2>1, <2>3, <2>4, <2>5, <2>7, <2>9, <3>2, CapLeaves
    <3> QED
        BY <3>1, <3>2
  <2>10. /\ credits' > credits => answer.credits # 0
         /\ rate' > rate => answer.rate # 0
      BY <1>1, <1>2, <2>1
  <2> QED
      BY <2>2, <2>8, <2>9, <2>10
         DEF CappedIn, GrewInScope, FitsCapsOf, credits, rate
<1> QED
    BY <1>3, <1>4

LEMMA CapStep ==
    ASSUME LedgerTypeOK, clock \in Times, OnlyStandardPolicies, SomeShape,
           NEW d, NEW s
    PROVE  CappedIn(d, s)
<1>1. CASE \A j \in Ids : KeepsUnits(j)
  <2>1. /\ ScopeCredits(d, s)' <= ScopeCredits(d, s)
        /\ ScopeRate(d, s)' <= ScopeRate(d, s)
      BY <1>1, ScopesDoNotGrow
  <2>2. ScopeCredits(d, s) \in Nat /\ ScopeRate(d, s) \in Nat
      BY ScopeFinite
  <2>3. ScopeCredits(d, s)' \in Nat /\ ScopeRate(d, s)' \in Nat
    <3>1. IsFiniteSet(ActiveIn(d, s)')
      <4>1. ActiveIn(d, s)' \in SUBSET Ids
          BY DEF ActiveIn, ActiveOn
      <4>2. IsFiniteSet(Ids)
          BY FS_Interval, BoundsAssumption DEF Ids
      <4> QED
          BY <4>1, <4>2, FS_Subset
    <3> QED
        BY <3>1, UnitsFinite DEF ScopeCredits, ScopeRate
  <2>4. /\ ~(ScopeCredits(d, s)' > ScopeCredits(d, s))
        /\ ~(ScopeRate(d, s)' > ScopeRate(d, s))
      BY <2>1, <2>2, <2>3
  <2> QED
      BY <2>4 DEF CappedIn, GrewInScope
<1>2. ASSUME NEW req \in Requests, NEW i \in Ids, NEW snap \in SnapshotsNow,
             NEW answer \in AnswersTo(req, snap),
             Granted(i, req, snap, answer)
      PROVE  CappedIn(d, s)
  <2>1. Prepared(req, snap)
      BY <1>2 DEF Granted, Prepared
  <2> QED
      BY <1>2, <2>1, GrantWithinCap
<1> QED
    BY <1>1, <1>2, OnlyGrantsAddUnits

(* With the policies of the library, a grant leaves its scope within the   *)
(* caps of the very snapshot it was decided on, what the scope held before *)
(* included, and that snapshot shows the device available.                 *)
THEOREM ScopesStayWithinCaps ==
    ASSUME Devices # {}, Scopes # {}, OnlyStandardPolicies
    PROVE  Spec => ScopeCapRespected
<1>1. Init => Inv
    BY InvInit
<1>2. Inv /\ [Next]_vars => Inv'
    BY InvStep
<1>3. Inv /\ [Next]_vars
        => [\A d \in Devices, s \in Scopes : CappedIn(d, s)]_vars
    BY StepFacts, CapStep
<1>4. ScopeCapRespected
        <=> [][\A d \in Devices, s \in Scopes : CappedIn(d, s)]_vars
    BY PTL DEF ScopeCapRespected, CappedIn
<1> QED
    BY <1>1, <1>2, <1>3, <1>4, PTL DEF Spec

-----------------------------------------------------------------------------
(* Pages of the reservation list                                           *)

Listed(i) == reservations[i].state # "ABSENT"

\* A listed entry stays listed, with what a fixed filter asks for.
StaysListed(i) ==
    Listed(i) =>
        /\ Listed(i)'
        /\ reservations'[i].device = reservations[i].device
        /\ reservations'[i].scope = reservations[i].scope
        /\ reservations'[i].created = reservations[i].created

(* Ids that the context chooses have not been passed by its counter.       *)
IdsAreBehind ==
    NoIdsFromCallers /\ next_reservation_id # 0 =>
        \A i \in Ids : Listed(i) => i < next_reservation_id

LEMMA ListedStay ==
    ASSUME LedgerTypeOK, SomeShape, NEW i \in Ids
    PROVE  StaysListed(i)
<1> DEFINE old == reservations[i]
           new == reservations'[i]
<1>1. FinalOnce(i) /\ OnlyTheLeaseMoves(i)
    BY LifecycleStep
<1>2. old \in ReservationEntry
    BY DEF LedgerTypeOK
<1>3. old.state \in {"ABSENT", "ACTIVE"} \cup Terminal
    BY <1>2 DEF ReservationEntry
<1>4. CASE old.state \in Terminal
    BY <1>1, <1>4 DEF FinalOnce, StaysListed, Listed
<1>5. CASE old.state = "ACTIVE"
  <2>1. /\ new.state \in {"ACTIVE"} \cup Terminal
        /\ new = [old EXCEPT !.state = new.state, !.expires = new.expires]
      BY <1>1, <1>5 DEF OnlyTheLeaseMoves, Active
  <2>2. /\ new.device = old.device /\ new.scope = old.scope
        /\ new.created = old.created
      BY <1>2, <2>1 DEF ReservationEntry
  <2> QED
      BY <2>1, <2>2 DEF StaysListed, Listed, Terminal
<1> QED
    BY <1>3, <1>4, <1>5 DEF StaysListed, Listed

(* Only a reserve call enters an id and only it moves the counter.         *)
NoNewId ==
    /\ next_reservation_id' = next_reservation_id
    /\ \A i \in Ids : Listed(i)' => Listed(i)

NewId(req, i) ==
    /\ Allocates(req, i)
    /\ next_reservation_id' = NextIdAfter(req, i)
    /\ \A j \in Ids : Listed(j)' => Listed(j) \/ j = i

LEMMA IdStep ==
    ASSUME LedgerTypeOK, [Next]_vars
    PROVE  NoNewId \/ \E req \in Requests, i \in Ids : NewId(req, i)
<1>a. ASSUME UNCHANGED <<reservations, next_reservation_id>> PROVE NoNewId
    BY <1>a DEF NoNewId, Listed
<1>b. ASSUME NEW call, NEW rc, Refuse(call, rc) PROVE NoNewId
    BY <1>a, <1>b DEF Refuse
<1>c. ASSUME NEW call, NEW d, NEW entry, SetDevice(call, d, entry)
      PROVE  NoNewId
    BY <1>a, <1>c DEF SetDevice
<1>d. ASSUME NEW i \in Ids, Listed(i), NEW entry,
             reservations' = [reservations EXCEPT ![i] = entry],
             next_reservation_id' = next_reservation_id
      PROVE  NoNewId
    BY <1>d DEF NoNewId, Listed, LedgerTypeOK
<1>e. ASSUME NEW S \in SUBSET Ids, \A i \in S : Listed(i),
             reservations' = Swept(S),
             next_reservation_id' = next_reservation_id
      PROVE  NoNewId
    BY <1>e DEF Swept, NoNewId, Listed
<1>1. CASE Configure
    BY <1>1, <1>b, <1>c
       DEF Configure, RegisterDevice, UnregisterDevice, SetBaseline,
           SetEstimator, SetPolicy, Unconfigurable
<1>2. CASE \E installed \in BOOLEAN : SetCapacityProvider(installed)
    BY <1>2, <1>a DEF SetCapacityProvider
<1>3. ASSUME NEW req \in Requests, Reserve(req)
      PROVE  NoNewId \/ \E i \in Ids : NewId(req, i)
  <2>1. PICK snap \in SnapshotsNow :
          ReserveRefused(req, snap) \/ ReserveDecided(req, snap)
      BY <1>3 DEF Reserve
  <2>2. CASE ReserveRefused(req, snap)
      BY <1>a, <2>2 DEF ReserveRefused
  <2>3. CASE ReserveDecided(req, snap)
    <3>1. PICK i \in Ids :
            /\ Allocates(req, i)
            /\ next_reservation_id' = NextIdAfter(req, i)
            /\ \E answer \in AnswersTo(req, snap) :
                  Conclude(req, i, answer, PolicyView(req, snap), snap)
        BY <2>3 DEF ReserveDecided
    <3>2. \/ UNCHANGED reservations
          \/ \E entry : \/ reservations' = Inserted(i, entry)
                        \/ reservations' = Removed(Inserted(i, entry), i)
        BY <3>1 DEF Conclude, ConcludeGrant
    <3>3. \A j \in Ids \ {i} : reservations'[j] = reservations[j]
        BY <3>2 DEF LedgerTypeOK, Inserted, Removed
    <3> QED
        BY <3>1, <3>3 DEF NewId, Listed
  <2> QED
      BY <2>1, <2>2, <2>3
<1>4. ASSUME NEW i \in Ids, Active(i) PROVE Listed(i)
    BY <1>4 DEF Active, Listed
<1>5. ASSUME NEW call, NEW i \in Ids, NEW state, Transition(call, i, state)
      PROVE  NoNewId
  <2>1. ASSUME Active(i), NEW entry,
               reservations' = [reservations EXCEPT ![i] = entry],
               next_reservation_id' = next_reservation_id
        PROVE  NoNewId
      BY <1>4, <1>d, <2>1
  <2> QED
      BY <1>5, <1>b, <2>1 DEF Transition
<1>6. ASSUME NEW i \in Ids, NEW now, NEW ttl, Renew(i, now, ttl)
      PROVE  NoNewId
    BY <1>4, <1>6, <1>b, <1>d DEF Renew, SetReservation
<1>7. ASSUME NEW now, Expire(now) PROVE NoNewId
  <2>1. Lapsed(AsOf(now)) \in SUBSET Ids
        /\ \A i \in Lapsed(AsOf(now)) : Listed(i)
      BY <1>4 DEF Lapsed
  <2>2. CASE ExpireAll(now)
      BY <2>1, <2>2, <1>e DEF ExpireAll
  <2>3. CASE ExpireFails(now)
    <3>1. PICK i \in Lapsed(AsOf(now)) :
            \E done \in SUBSET (Lapsed(AsOf(now)) \ {i}) :
               reservations' = [Swept(done) EXCEPT ![i] =
                   Transitioned(reservations[i], "EXPIRED", "CALLBACK")]
        BY <2>3 DEF ExpireFails
    <3>2. PICK done \in SUBSET (Lapsed(AsOf(now)) \ {i}) :
            reservations' = [Swept(done) EXCEPT ![i] =
                Transitioned(reservations[i], "EXPIRED", "CALLBACK")]
        BY <3>1
    <3>3. reservations' = Swept(done)
        BY <2>1, <3>1, <3>2, SweepStopUndone
    <3> QED
        BY <2>1, <2>3, <3>2, <3>3, <1>e DEF ExpireFails
  <2> QED
      BY <1>7, <2>2, <2>3 DEF Expire
<1>8. CASE EndLease
    BY <1>5, <1>6, <1>7, <1>8 DEF EndLease, Release, Cancel
<1>9. ASSUME NEW i \in Ids, Feedback(i) PROVE NoNewId
    BY <1>9, <1>c DEF Feedback
<1>10. CASE Tick
    BY <1>10, <1>a DEF Tick
<1>11. CASE UNCHANGED vars
    BY <1>11, <1>a DEF vars
<1> QED
    BY <1>1, <1>2, <1>3, <1>8, <1>9, <1>10, <1>11 DEF Next

(* An id that the context chooses comes after every listed one, and its    *)
(* counter passes it or has run out.                                       *)
LEMMA ChosenIdIsLast ==
    ASSUME IdsAreBehind, NoIdsFromCallers, next_reservation_id \in 0..MaxId,
           NEW req \in Requests, NEW i \in Ids, Allocates(req, i)
    PROVE  /\ \A j \in Ids : Listed(j) => j < i
           /\ NextIdAfter(req, i) # 0 => NextIdAfter(req, i) = i + 1
<1>1. req.id = 0
    BY DEF NoIdsFromCallers
<1>2. next_reservation_id # 0 /\ next_reservation_id <= i /\ i \in 1..MaxId
    BY <1>1 DEF Allocates, FreeIds, Ids
<1>3. NextIdAfter(req, i) = (i + 1) % (MaxId + 1)
    BY <1>1 DEF NextIdAfter
<1>4. CASE i = MaxId
    BY <1>2, <1>3, <1>4, BoundsAssumption DEF IdsAreBehind, Ids
<1>5. CASE i # MaxId
  <2>1. (i + 1) % (MaxId + 1) = i + 1
      BY <1>2, <1>5, BoundsAssumption
  <2> QED
      BY <1>2, <1>3, <2>1, BoundsAssumption DEF IdsAreBehind, Ids
<1> QED
    BY <1>4, <1>5

LEMMA BehindStep ==
    ASSUME Inv, IdsAreBehind, [Next]_vars PROVE IdsAreBehind'
<1>1. LedgerTypeOK /\ next_reservation_id \in 0..MaxId
    BY StepFacts DEF Inv, TypeOK
<1>2. SUFFICES ASSUME NoIdsFromCallers, next_reservation_id' # 0,
                      NEW j \in Ids, Listed(j)'
               PROVE  j < next_reservation_id'
    BY DEF IdsAreBehind, NoIdsFromCallers
<1>3. CASE NoNewId
    BY <1>2, <1>3 DEF NoNewId, IdsAreBehind
<1>4. ASSUME NEW req \in Requests, NEW i \in Ids, NewId(req, i)
      PROVE  j < next_reservation_id'
  <2>1. /\ \A k \in Ids : Listed(k) => k < i
        /\ next_reservation_id' = i + 1 /\ i \in Nat
      BY <1>1, <1>2, <1>4, ChosenIdIsLast DEF NewId, Ids
  <2>2. j < i \/ j = i
      BY <1>2, <1>4, <2>1 DEF NewId
  <2> QED
      BY <2>1, <2>2 DEF Ids
<1> QED
    BY <1>1, <1>3, <1>4, IdStep

(* No list is longer than the table, so a page that large ends the list.   *)
LEMMA PageEndsTheList ==
    ASSUME NEW M \in SUBSET Ids, NEW n \in Nat, NEW i \in M
    PROVE  /\ Position(M, i) \in Nat
           /\ i \in Page(M, n, MaxId) <=> n <= Position(M, i)
<1> DEFINE before == {j \in M : j < i}
<1>1. i \in 1..MaxId /\ M \in SUBSET (1..MaxId) /\ MaxId \in Nat
    BY BoundsAssumption DEF Ids
<1>2. IsFiniteSet(1..(i - 1)) /\ Cardinality(1..(i - 1)) = i - 1
    BY <1>1, FS_Interval
<1>3. before \in SUBSET (1..(i - 1))
  <2>1. ASSUME NEW j \in M, j < i PROVE j \in 1..(i - 1)
      BY <1>1, <2>1
  <2> QED
      BY <2>1
<1>4. /\ IsFiniteSet(before) /\ Cardinality(before) <= i - 1
      /\ Cardinality(before) \in Nat
    BY <1>2, <1>3, FS_Subset, FS_CardinalityType
<1>5. Position(M, i) \in Nat /\ Position(M, i) < MaxId
    BY <1>1, <1>4 DEF Position
<1> QED
    BY <1>1, <1>5 DEF Page

LEMMA PositionsGrow ==
    ASSUME NEW N \in SUBSET Ids, NEW M \in SUBSET N, NEW i \in M
    PROVE  /\ Position(M, i) <= Position(N, i)
           /\ (\A j \in N \ M : i < j) => Position(M, i) = Position(N, i)
<1> DEFINE old == {j \in M : j < i}
           new == {j \in N : j < i}
<1>1. IsFiniteSet(1..MaxId) /\ N \in SUBSET (1..MaxId) /\ i \in 1..MaxId
    BY BoundsAssumption, FS_Interval DEF Ids
<1>2. new \in SUBSET (1..MaxId) /\ old \in SUBSET new
    BY <1>1
<1>3. IsFiniteSet(new) /\ Cardinality(old) <= Cardinality(new)
    BY <1>1, <1>2, FS_Subset
<1>4. ASSUME \A j \in N \ M : i < j PROVE old = new
  <2>1. ASSUME NEW j \in new PROVE j \in M
      BY <1>1, <1>4, <2>1
  <2> QED
      BY <1>2, <2>1
<1> QED
    BY <1>3, <1>4 DEF Position

LEMMA MatchingIsFixed ==
    ASSUME LedgerTypeOK, NEW f \in FixedFilters
    PROVE  /\ f.created_after \in Nat /\ ~FilterInvalid(f)
           /\ Matching(f) =
                {i \in Ids : /\ Listed(i)
                             /\ Admits(f.device, reservations[i].device)
                             /\ Admits(f.scope, reservations[i].scope)
                             /\ f.created_after <= reservations[i].created
                             /\ NotAfter(reservations[i].created,
                                         f.created_before)}
<1>1. /\ f.state = Any /\ f.expires_after = 0 /\ f.expires_before = Any
      /\ f \in Filter /\ ~FilterInvalid(f)
    BY FiltersAssumption DEF FixedFilters
<1>2. f.created_after \in Nat
    BY <1>1, BoundsAssumption DEF Filter, Times
<1>3. \A i \in Ids : Listed(i) => 0 <= reservations[i].expires
    BY BoundsAssumption DEF LedgerTypeOK, ReservationEntry, Times
<1> QED
    BY <1>1, <1>2, <1>3 DEF Matching, Matches, Admits, NotAfter, Listed

\* The formula of PagesSkipNothing, for one step, filter and offset.
ReadsOn(f, n) ==
    /\ StillToRead(f, n) \subseteq StillToRead(f, n)'
    /\ NoIdsFromCallers =>
          StillToRead(f, n)' \cap Matching(f) = StillToRead(f, n)

LEMMA PagesStep ==
    ASSUME Inv, Inv', IdsAreBehind, [Next]_vars,
           NEW f \in FixedFilters, NEW n \in 0..MaxId
    PROVE  ReadsOn(f, n)
<1> DEFINE M == Matching(f)
           N == Matching(f)'
<1>1. /\ LedgerTypeOK /\ LedgerTypeOK' /\ SomeShape
      /\ next_reservation_id \in 0..MaxId /\ n \in Nat
    BY StepFacts, BoundsAssumption DEF Inv, TypeOK, LedgerTypeOK
<1>2. /\ M = {i \in Ids : /\ Listed(i)
                          /\ Admits(f.device, reservations[i].device)
                          /\ Admits(f.scope, reservations[i].scope)
                          /\ f.created_after <= reservations[i].created
                          /\ NotAfter(reservations[i].created,
                                      f.created_before)}
      /\ ~FilterInvalid(f)
    BY <1>1, MatchingIsFixed
<1>3. N = {i \in Ids : /\ Listed(i)'
                       /\ Admits(f.device, reservations'[i].device)
                       /\ Admits(f.scope, reservations'[i].scope)
                       /\ f.created_after <= reservations'[i].created
                       /\ NotAfter(reservations'[i].created,
                                   f.created_before)}
  <2>1. /\ f.state = Any /\ f.expires_after = 0 /\ f.expires_before = Any
        /\ f.created_after \in Nat
      BY <1>1, MatchingIsFixed, FiltersAssumption DEF FixedFilters
  <2>2. \A i \in Ids : Listed(i)' => 0 <= reservations'[i].expires
      BY <1>1, BoundsAssumption DEF LedgerTypeOK, ReservationEntry, Times
  <2> QED
      BY <2>1, <2>2 DEF Matching, Matches, Admits, NotAfter, Listed
<1>4. \A i \in Ids : StaysListed(i)
    BY <1>1, ListedStay
<1> HIDE DEF M, N
<1>5. M \in SUBSET N /\ N \in SUBSET Ids
    BY <1>2, <1>3, <1>4 DEF StaysListed, Admits, NotAfter
<1>6. StillToRead(f, n) = Page(M, n, MaxId)
      /\ StillToRead(f, n)' = Page(N, n, MaxId)
    BY <1>2 DEF StillToRead, List, FilterInvalid, M, N, Page, Position
<1>7. Page(M, n, MaxId) \subseteq M /\ Page(N, n, MaxId) \subseteq N
    BY DEF Page
<1>8. ASSUME NEW i \in M
      PROVE  /\ Position(M, i) \in Nat /\ Position(N, i) \in Nat
             /\ Position(M, i) <= Position(N, i)
             /\ i \in Page(M, n, MaxId) <=> n <= Position(M, i)
             /\ i \in Page(N, n, MaxId) <=> n <= Position(N, i)
    BY <1>1, <1>5, PageEndsTheList, PositionsGrow
<1>9. Page(M, n, MaxId) \subseteq Page(N, n, MaxId)
    BY <1>1, <1>7, <1>8
<1>10. ASSUME NoIdsFromCallers
       PROVE  Page(N, n, MaxId) \cap M = Page(M, n, MaxId)
  <2>1. ASSUME NEW j \in N \ M, NEW i \in M PROVE i < j
    <3>1. j \in Ids /\ Listed(j)' /\ ~Listed(j) /\ i \in Ids /\ Listed(i)
        BY <1>2, <1>3, <1>4, <2>1 DEF StaysListed
    <3>2. ~NoNewId
        BY <3>1 DEF NoNewId
    <3>3. PICK req \in Requests, k \in Ids : NewId(req, k)
        BY <1>1, <3>2, IdStep
    <3>4. j = k
        BY <3>1, <3>3 DEF NewId
    <3> QED
        BY <1>1, <1>10, <3>1, <3>3, <3>4, ChosenIdIsLast DEF NewId
  <2>2. ASSUME NEW i \in M PROVE Position(M, i) = Position(N, i)
      BY <1>5, <2>1, PositionsGrow
  <2> QED
      BY <1>7, <1>8, <2>2
<1> QED
    BY <1>6, <1>9, <1>10 DEF ReadsOn, M

(* A reader of the list who goes on from page to page misses no entry that *)
(* was there throughout, whatever others do in between, and where the      *)
(* context chooses the ids it is shown none twice.                         *)
THEOREM PagesAreComplete ==
    ASSUME Devices # {}, Scopes # {} PROVE Spec => PagesSkipNothing
<1>1. Init => Inv /\ IdsAreBehind
  <2>1. Init => \A i \in Ids : ~Listed(i)
      BY DEF Init, Listed, NoReservation
  <2> QED
      BY <2>1, InvInit DEF IdsAreBehind
<1>2. Inv /\ IdsAreBehind /\ [Next]_vars => Inv' /\ IdsAreBehind'
    BY InvStep, BehindStep
<1>3. Inv /\ Inv' /\ IdsAreBehind /\ [Next]_vars
        => [\A f \in FixedFilters, n \in 0..MaxId : ReadsOn(f, n)]_vars
    BY PagesStep
<1>4. [\A f \in FixedFilters, n \in 0..MaxId : ReadsOn(f, n)]_vars
        => [reservations' # reservations =>
              \A f \in FixedFilters, n \in 0..MaxId :
                  LET before == StillToRead(f, n)
                      after == StillToRead(f, n)'
                  IN  /\ before \subseteq after
                      /\ NoIdsFromCallers =>
                            after \cap Matching(f) = before]_vars
    BY DEF ReadsOn
<1> QED
    BY <1>1, <1>2, <1>3, <1>4, PTL DEF Spec, PagesSkipNothing

-----------------------------------------------------------------------------
(* Slots                                                                   *)

(* What a slot of either pool shows.                                       *)
LEMMA SlotView ==
    ASSUME NEW i \in Ids
    PROVE  /\ SlotsOf(CreditsOf)[i].phase = PhaseOf(reservations[i].state)
           /\ SlotsOf(CreditsOf)[i].pool = reservations[i].device
           /\ SlotsOf(CreditsOf)[i].units = reservations[i].credits
           /\ SlotsOf(RateOf)[i].phase = PhaseOf(reservations[i].state)
           /\ SlotsOf(RateOf)[i].pool = reservations[i].device
           /\ SlotsOf(RateOf)[i].units = reservations[i].rate
<1>1. CreditsOf[i] = reservations[i].credits /\ RateOf[i] = reservations[i].rate
    BY DEF CreditsOf, RateOf
<1>2. /\ SlotsOf(CreditsOf)[i]
            = [phase |-> PhaseOf(reservations[i].state),
               pool |-> reservations[i].device, units |-> CreditsOf[i]]
      /\ SlotsOf(RateOf)[i]
            = [phase |-> PhaseOf(reservations[i].state),
               pool |-> reservations[i].device, units |-> RateOf[i]]
    BY DEF SlotsOf
<1> QED
    BY <1>1, <1>2

LEMMA PhaseIsHeld ==
    ASSUME NEW i \in Ids
    PROVE  PhaseOf(reservations[i].state) = "held" <=> Active(i)
BY DEF PhaseOf, Active

(* What a pool has handed out of d is what d has committed.                *)
LEMMA UsedIsCommitted ==
    ASSUME NEW d \in Devices
    PROVE  /\ CreditPool!Held(d) = ActiveOn(d)
           /\ RatePool!Held(d) = ActiveOn(d)
           /\ CreditPool!Used(d) = CreditsCommitted(d)
           /\ RatePool!Used(d) = RateCommitted(d)
<1>1. CreditPool!Held(d) = ActiveOn(d) /\ RatePool!Held(d) = ActiveOn(d)
    BY SlotView, PhaseIsHeld DEF CreditPool!Held, RatePool!Held, ActiveOn
<1>2. /\ CreditPool!Units = [i \in Ids |-> reservations[i].credits]
      /\ RatePool!Units = [i \in Ids |-> reservations[i].rate]
    BY SlotView DEF CreditPool!Units, RatePool!Units
<1>3. CreditPool!Units = CreditsOf /\ RatePool!Units = RateOf
    BY <1>2 DEF CreditsOf, RateOf
<1>4. ASSUME NEW f, NEW S
      PROVE  /\ CreditPool!UnitSum(f, S) = UnitSum(f, S)
             /\ RatePool!UnitSum(f, S) = UnitSum(f, S)
  <2>1. ASSUME NEW T
        PROVE  /\ CreditPool!Cardinality(T) = Cardinality(T)
               /\ RatePool!Cardinality(T) = Cardinality(T)
      BY DEF CreditPool!Cardinality, RatePool!Cardinality, Cardinality
  <2>2. /\ CreditPool!UnitsHeld(f, S) = UnitsHeld(f, S)
        /\ RatePool!UnitsHeld(f, S) = UnitsHeld(f, S)
      BY DEF CreditPool!UnitsHeld, RatePool!UnitsHeld, UnitsHeld
  <2> QED
      BY <2>1, <2>2 DEF CreditPool!UnitSum, RatePool!UnitSum, UnitSum
<1> QED
    BY <1>1, <1>3, <1>4 DEF CreditPool!Used, RatePool!Used, CreditsCommitted,
                            RateCommitted

-----------------------------------------------------------------------------
(* Limits                                                                  *)

\* The limit of a device entry in either pool.
CreditLimitAt(dev) ==
    IF dev.registered /\ dev.profile.credits # 0 THEN CreditLimitOf(dev)
    ELSE -1

RateLimitAt(dev) ==
    IF dev.registered /\ dev.profile.rate # 0 THEN dev.profile.rate ELSE -1

(* A limit is a function of the entry alone: where a total is configured,  *)
(* no estimate enters it.                                                  *)
LEMMA LimitView ==
    ASSUME NEW d \in Devices
    PROVE  /\ CreditLimits[d] = CreditLimitAt(devices[d])
           /\ RateLimits[d] = RateLimitAt(devices[d])
BY DEF CreditLimits, RateLimits, CreditLimitAt, RateLimitAt, CreditLimit,
       RateLimit, CreditLimitOf, TotalCredits, TotalRate, DerivedTotal

LEMMA LimitViewNext ==
    ASSUME NEW d \in Devices
    PROVE  /\ CreditLimits'[d] = CreditLimitAt(devices'[d])
           /\ RateLimits'[d] = RateLimitAt(devices'[d])
BY DEF CreditLimits, RateLimits, CreditLimitAt, RateLimitAt, CreditLimit,
       RateLimit, CreditLimitOf, TotalCredits, TotalRate, DerivedTotal

(* Both are functions on the devices.                                      *)
LEMMA LimitFunctions ==
    /\ CreditLimits = [d \in Devices |-> CreditLimits[d]]
    /\ CreditLimits' = [d \in Devices |-> CreditLimits'[d]]
    /\ RateLimits = [d \in Devices |-> RateLimits[d]]
    /\ RateLimits' = [d \in Devices |-> RateLimits'[d]]
BY DEF CreditLimits, RateLimits, CreditLimit, RateLimit, TotalCredits,
       TotalRate, DerivedTotal

(* Where every entry keeps its limit, the pools keep theirs.               *)
LEMMA LimitsFollowEntries ==
    ASSUME \A d \in Devices :
              /\ CreditLimitAt(devices'[d]) = CreditLimitAt(devices[d])
              /\ RateLimitAt(devices'[d]) = RateLimitAt(devices[d])
    PROVE  CreditLimits' = CreditLimits /\ RateLimits' = RateLimits
<1>1. \A d \in Devices : /\ CreditLimits'[d] = CreditLimits[d]
                         /\ RateLimits'[d] = RateLimits[d]
    BY LimitView, LimitViewNext
<1> QED
    BY <1>1, LimitFunctions

(* The next slots, slot by slot.                                           *)
LEMMA SlotViewNext ==
    ASSUME NEW i \in Ids
    PROVE  /\ SlotsOf(CreditsOf)'[i]
                = [phase |-> PhaseOf(reservations'[i].state),
                   pool |-> reservations'[i].device,
                   units |-> reservations'[i].credits]
           /\ SlotsOf(RateOf)'[i]
                = [phase |-> PhaseOf(reservations'[i].state),
                   pool |-> reservations'[i].device,
                   units |-> reservations'[i].rate]
<1>1. /\ CreditsOf'[i] = reservations'[i].credits
      /\ RateOf'[i] = reservations'[i].rate
    BY DEF CreditsOf, RateOf
<1>2. /\ SlotsOf(CreditsOf)'[i]
            = [phase |-> PhaseOf(reservations'[i].state),
               pool |-> reservations'[i].device, units |-> CreditsOf'[i]]
      /\ SlotsOf(RateOf)'[i]
            = [phase |-> PhaseOf(reservations'[i].state),
               pool |-> reservations'[i].device, units |-> RateOf'[i]]
    BY DEF SlotsOf
<1> QED
    BY <1>1, <1>2

(* The types of a pool.                                                    *)
LEMMA PoolTypes ==
    ASSUME LedgerTypeOK
    PROVE  CreditPool!PoolTypeOK /\ RatePool!PoolTypeOK
<1>1. ASSUME NEW d \in Devices
      PROVE  /\ CreditLimits[d] \in Nat \cup {-1}
             /\ RateLimits[d] \in Nat \cup {-1}
  <2>1. devices[d] \in DeviceEntry
      BY DEF LedgerTypeOK
  <2> QED
      BY <2>1, LimitView, ConfiguredLimits DEF CreditLimitAt, RateLimitAt
<1>2. /\ CreditLimits \in [Devices -> Nat \cup {-1}]
      /\ RateLimits \in [Devices -> Nat \cup {-1}]
    BY <1>1, LimitFunctions
<1>3. ASSUME NEW i \in Ids
      PROVE  /\ PhaseOf(reservations[i].state) \in {"free", "held", "gone"}
             /\ reservations[i].device \in Devices
             /\ CreditsOf[i] \in U64 /\ RateOf[i] \in U64
    BY DEF LedgerTypeOK, ReservationEntry, PhaseOf, CreditsOf, RateOf
<1> DEFINE Slot == [phase : {"free", "held", "gone"}, pool : Devices,
                    units : U64]
<1>4. SlotsOf(CreditsOf) \in [Ids -> Slot] /\ SlotsOf(RateOf) \in [Ids -> Slot]
    BY <1>3 DEF SlotsOf
<1>5. CreditPool!U64 = U64 /\ RatePool!U64 = U64
    BY DEF CreditPool!U64, RatePool!U64, U64
<1>6. /\ CreditPool!Phases = {"free", "held", "gone"}
      /\ RatePool!Phases = {"free", "held", "gone"}
      /\ CreditPool!NoLimit = -1 /\ RatePool!NoLimit = -1
    BY DEF CreditPool!Phases, RatePool!Phases, CreditPool!NoLimit,
           RatePool!NoLimit
<1> QED
    BY <1>2, <1>4, <1>5, <1>6 DEF CreditPool!PoolTypeOK, RatePool!PoolTypeOK

LEMMA PoolsInit ==
    ASSUME Devices # {}, Scopes # {}, Init
    PROVE  CreditPool!PoolInit /\ RatePool!PoolInit
<1>1. LedgerTypeOK
    BY InvInit DEF Inv, TypeOK, LedgerTypeOK
<1>2. \A i \in Ids : PhaseOf(reservations[i].state) = "free"
    BY DEF Init, NoReservation, PhaseOf
<1>3. \A i \in Ids : /\ SlotsOf(CreditsOf)[i].phase = "free"
                     /\ SlotsOf(RateOf)[i].phase = "free"
    BY <1>2, SlotView
<1> QED
    BY <1>1, <1>3, PoolTypes DEF CreditPool!PoolInit, RatePool!PoolInit

-----------------------------------------------------------------------------
(* Steps                                                                   *)

\* What one step of a pool is, stuttering included.
CreditPoolStep ==
    CreditPool!PoolNext \/ UNCHANGED <<CreditLimits, SlotsOf(CreditsOf)>>

RatePoolStep ==
    RatePool!PoolNext \/ UNCHANGED <<RateLimits, SlotsOf(RateOf)>>

(* Slots move only where a reservation changes what a pool shows of it.    *)
LEMMA SlotsStay ==
    ASSUME \A i \in Ids :
              /\ PhaseOf(reservations'[i].state) = PhaseOf(reservations[i].state)
              /\ reservations'[i].device = reservations[i].device
              /\ reservations'[i].credits = reservations[i].credits
              /\ reservations'[i].rate = reservations[i].rate
    PROVE  /\ SlotsOf(CreditsOf)' = SlotsOf(CreditsOf)
           /\ SlotsOf(RateOf)' = SlotsOf(RateOf)
<1>1. \A i \in Ids : /\ CreditsOf'[i] = CreditsOf[i]
                     /\ RateOf'[i] = RateOf[i]
    BY DEF CreditsOf, RateOf
<1> QED
    BY <1>1 DEF SlotsOf

LEMMA ReconfiguredPools ==
    ASSUME LedgerTypeOK, NEW d \in Devices, Reconfigured(d)
    PROVE  CreditPoolStep /\ RatePoolStep
<1>1. /\ SlotsOf(CreditsOf)' = SlotsOf(CreditsOf)
      /\ SlotsOf(RateOf)' = SlotsOf(RateOf)
    BY SlotsStay DEF Reconfigured
<1>2. CreditPool!Held(d) = {} /\ RatePool!Held(d) = {}
    BY UsedIsCommitted DEF Reconfigured, HasActive
<1>3. \A e \in Devices \ {d} : devices'[e] = devices[e]
    BY DEF Reconfigured, LedgerTypeOK
<1>4. \A e \in Devices \ {d} : /\ CreditLimits'[e] = CreditLimits[e]
                               /\ RateLimits'[e] = RateLimits[e]
    BY <1>3, LimitView, LimitViewNext
<1>5. /\ CreditLimits' = [CreditLimits EXCEPT ![d] = CreditLimits'[d]]
      /\ RateLimits' = [RateLimits EXCEPT ![d] = RateLimits'[d]]
    BY <1>4, LimitFunctions
<1>6. /\ CreditPool!Resize(d, CreditLimits'[d])
      /\ RatePool!Resize(d, RateLimits'[d])
    BY <1>1, <1>2, <1>5 DEF CreditPool!Resize, RatePool!Resize
<1> QED
    BY <1>6 DEF CreditPool!PoolNext, RatePool!PoolNext, CreditPoolStep,
                RatePoolStep

LEMMA RecalibratedPools ==
    ASSUME LedgerTypeOK, NEW d \in Devices, Recalibrated(d)
    PROVE  CreditPoolStep /\ RatePoolStep
<1>1. PICK n \in Nat :
        devices' = [devices EXCEPT ![d] = [devices[d] EXCEPT !.est = n]]
    BY DEF Recalibrated
<1>2. ASSUME NEW e \in Devices
      PROVE  /\ devices'[e].registered = devices[e].registered
             /\ devices'[e].profile = devices[e].profile
             /\ devices'[e].policy = devices[e].policy
  <2> DEFINE old == devices[e]
             new == devices'[e]
  <2>1. old \in DeviceEntry
      BY DEF LedgerTypeOK
  <2>2. new = old \/ new = [old EXCEPT !.est = n]
      BY <1>1 DEF LedgerTypeOK
  <2> HIDE DEF old, new
  <2>3. /\ new.registered = old.registered
        /\ new.profile = old.profile
        /\ new.policy = old.policy
      BY <2>1, <2>2 DEF DeviceEntry
  <2> QED
      BY <2>3 DEF old, new
<1>3. ASSUME NEW e \in Devices
      PROVE  /\ CreditLimitAt(devices'[e]) = CreditLimitAt(devices[e])
             /\ RateLimitAt(devices'[e]) = RateLimitAt(devices[e])
    BY <1>2 DEF CreditLimitAt, RateLimitAt, CreditLimitOf
<1>4. CreditLimits' = CreditLimits /\ RateLimits' = RateLimits
    BY <1>3, LimitsFollowEntries
<1>5. /\ SlotsOf(CreditsOf)' = SlotsOf(CreditsOf)
      /\ SlotsOf(RateOf)' = SlotsOf(RateOf)
    BY SlotsStay DEF Recalibrated
<1> QED
    BY <1>4, <1>5 DEF CreditPoolStep, RatePoolStep

LEMMA UntouchedDevices ==
    ASSUME devices' = devices
    PROVE  CreditLimits' = CreditLimits /\ RateLimits' = RateLimits
BY LimitsFollowEntries

LEMMA EndedPools ==
    ASSUME LedgerTypeOK, NEW S \in SUBSET Ids, NEW state \in Terminal,
           Ended(S, state)
    PROVE  CreditPoolStep /\ RatePoolStep
<1>1. CreditLimits' = CreditLimits /\ RateLimits' = RateLimits
    BY UntouchedDevices DEF Ended
<1>2. ASSUME NEW i \in S
      PROVE  /\ SlotsOf(CreditsOf)[i].phase = "held"
             /\ SlotsOf(RateOf)[i].phase = "held"
    BY SlotView, PhaseIsHeld DEF Ended
<1>3. ASSUME NEW i \in Ids
      PROVE  /\ PhaseOf(reservations'[i].state)
                  = IF i \in S THEN "gone"
                    ELSE PhaseOf(reservations[i].state)
             /\ reservations'[i].device = reservations[i].device
             /\ reservations'[i].credits = reservations[i].credits
             /\ reservations'[i].rate = reservations[i].rate
  <2>1. reservations[i] \in ReservationEntry
      BY DEF LedgerTypeOK
  <2>2. reservations'[i] = IF i \in S
                           THEN [reservations[i] EXCEPT !.state = state]
                           ELSE reservations[i]
      BY DEF Ended
  <2>3. PhaseOf(state) = "gone"
      BY DEF PhaseOf, Terminal
  <2> QED
      BY <2>1, <2>2, <2>3 DEF ReservationEntry
<1>4. /\ SlotsOf(CreditsOf)' = [i \in Ids |-> IF i \in S
                    THEN [SlotsOf(CreditsOf)[i] EXCEPT !.phase = "gone"]
                    ELSE SlotsOf(CreditsOf)[i]]
      /\ SlotsOf(RateOf)' = [i \in Ids |-> IF i \in S
                    THEN [SlotsOf(RateOf)[i] EXCEPT !.phase = "gone"]
                    ELSE SlotsOf(RateOf)[i]]
  <2>1. \A i \in Ids : /\ CreditsOf'[i] = CreditsOf[i]
                       /\ RateOf'[i] = RateOf[i]
      BY <1>3 DEF CreditsOf, RateOf
  <2> QED
      BY <1>3, <2>1 DEF SlotsOf
<1>5. CreditPool!GiveBack(S) /\ RatePool!GiveBack(S)
    BY <1>1, <1>2, <1>4 DEF CreditPool!GiveBack, RatePool!GiveBack
<1> QED
    BY <1>5 DEF CreditPool!PoolNext, RatePool!PoolNext, CreditPoolStep,
                RatePoolStep

LEMMA RenewedPools ==
    ASSUME LedgerTypeOK, NEW i \in Ids, Renewed(i)
    PROVE  CreditPoolStep /\ RatePoolStep
<1>1. PICK t \in Times :
        reservations' = [reservations EXCEPT
           ![i] = [reservations[i] EXCEPT !.expires = t]]
    BY DEF Renewed
<1>2. ASSUME NEW j \in Ids
      PROVE  /\ reservations'[j].state = reservations[j].state
             /\ reservations'[j].device = reservations[j].device
             /\ reservations'[j].credits = reservations[j].credits
             /\ reservations'[j].rate = reservations[j].rate
  <2>1. reservations[j] \in ReservationEntry
      BY DEF LedgerTypeOK
  <2>2. \/ reservations'[j] = reservations[j]
        \/ reservations'[j] = [reservations[j] EXCEPT !.expires = t]
      BY <1>1 DEF LedgerTypeOK
  <2> QED
      BY <2>1, <2>2 DEF ReservationEntry
<1>3. /\ SlotsOf(CreditsOf)' = SlotsOf(CreditsOf)
      /\ SlotsOf(RateOf)' = SlotsOf(RateOf)
    BY <1>2, SlotsStay
<1>4. CreditLimits' = CreditLimits /\ RateLimits' = RateLimits
    BY UntouchedDevices DEF Renewed
<1> QED
    BY <1>3, <1>4 DEF CreditPoolStep, RatePoolStep

(* A grant of the context is a grant of both pools.                        *)
LEMMA GrantedPools ==
    ASSUME LedgerTypeOK, clock \in Times, \A d \in Devices : WithinLimits(d),
           NEW i \in Ids, NEW req \in Requests, NEW snap,
           Prepared(req, snap), NEW answer \in AnswersTo(req, snap),
           Granted(i, req, snap, answer)
    PROVE  CreditPoolStep /\ RatePoolStep
<1> DEFINE d == req.device
           entry == NewReservation(req, answer, PolicyView(req, snap))
<1>1. /\ d \in Devices
      /\ answer.credits \in U64 /\ answer.rate \in U64
    BY RequestTypes, AnswerTypes DEF Granted
<1>2. devices' = devices
    BY DEF Granted
<1>3. CreditLimits' = CreditLimits /\ RateLimits' = RateLimits
    BY <1>2, UntouchedDevices
<1>4. /\ SlotsOf(CreditsOf)[i].phase = "free"
      /\ SlotsOf(RateOf)[i].phase = "free"
    BY SlotView DEF Granted, PhaseOf
<1>5. /\ entry.state = "ACTIVE" /\ entry.device = d
      /\ entry.credits = answer.credits /\ entry.rate = answer.rate
    BY DEF NewReservation
<1>6. /\ reservations'[i] = entry
      /\ \A j \in Ids \ {i} : reservations'[j] = reservations[j]
    BY DEF Granted, LedgerTypeOK
<1> HIDE DEF entry
<1>7. /\ CreditsOf'[i] = answer.credits /\ RateOf'[i] = answer.rate
      /\ \A j \in Ids \ {i} : /\ CreditsOf'[j] = CreditsOf[j]
                              /\ RateOf'[j] = RateOf[j]
      /\ PhaseOf(reservations'[i].state) = "held"
    BY <1>5, <1>6 DEF CreditsOf, RateOf, PhaseOf
<1>8. /\ SlotsOf(CreditsOf)' = [SlotsOf(CreditsOf) EXCEPT ![i] =
            [phase |-> "held", pool |-> d, units |-> answer.credits]]
      /\ SlotsOf(RateOf)' = [SlotsOf(RateOf) EXCEPT ![i] =
            [phase |-> "held", pool |-> d, units |-> answer.rate]]
    BY <1>5, <1>6, <1>7 DEF SlotsOf
<1>9. WithinLimits(d)'
    BY <1>1, GrantStaysWithin
<1>10. /\ CreditsCommitted(d)' = CreditPool!Used(d) + answer.credits
       /\ RateCommitted(d)' = RatePool!Used(d) + answer.rate
    BY <1>1, SumsAfterGrant, UsedIsCommitted
<1>11. /\ CreditLimits[d] = -1
            \/ CreditPool!Used(d) + answer.credits <= CreditLimits[d]
       /\ RateLimits[d] = -1
            \/ RatePool!Used(d) + answer.rate <= RateLimits[d]
  <2>1. /\ devices[d].registered /\ devices[d].profile.credits # 0 =>
             CreditsCommitted(d)' <= CreditLimitOf(devices[d])
        /\ devices[d].registered /\ devices[d].profile.rate # 0 =>
             RateCommitted(d)' <= devices[d].profile.rate
      BY <1>2, <1>9 DEF WithinLimits
  <2>2. /\ CreditLimits[d] = CreditLimitAt(devices[d])
        /\ RateLimits[d] = RateLimitAt(devices[d])
      BY <1>1, LimitView
  <2> QED
      BY <1>10, <2>1, <2>2 DEF CreditLimitAt, RateLimitAt
<1>12. /\ CreditPool!Grant(i, d, answer.credits)
       /\ RatePool!Grant(i, d, answer.rate)
    BY <1>3, <1>4, <1>8, <1>11
       DEF CreditPool!Grant, RatePool!Grant, CreditPool!NoLimit,
           RatePool!NoLimit
<1>13. answer.credits \in CreditPool!U64 /\ answer.rate \in RatePool!U64
    BY <1>1 DEF CreditPool!U64, RatePool!U64, U64
<1> QED
    BY <1>1, <1>12, <1>13 DEF CreditPool!PoolNext, RatePool!PoolNext,
                              CreditPoolStep, RatePoolStep

LEMMA PoolsStep ==
    ASSUME Inv, [Next]_vars PROVE CreditPoolStep /\ RatePoolStep
<1>1. LedgerTypeOK /\ clock \in Times /\ SomeShape
    BY StepFacts
<1>2. \A d \in Devices : WithinLimits(d)
    BY NoOversellSplit DEF Inv
<1>3. CASE Quiet
  <2>1. CreditLimits' = CreditLimits /\ RateLimits' = RateLimits
      BY <1>3, UntouchedDevices DEF Quiet
  <2>2. /\ SlotsOf(CreditsOf)' = SlotsOf(CreditsOf)
        /\ SlotsOf(RateOf)' = SlotsOf(RateOf)
      BY <1>3, SlotsStay DEF Quiet
  <2> QED
      BY <2>1, <2>2 DEF CreditPoolStep, RatePoolStep
<1>4. CASE \E d \in Devices : Reconfigured(d) \/ Recalibrated(d)
    BY <1>1, <1>4, ReconfiguredPools, RecalibratedPools
<1>5. CASE \E req \in Requests, i \in Ids : \E snap \in SnapshotsNow :
              \E answer \in AnswersTo(req, snap) :
                  Granted(i, req, snap, answer)
  <2>1. PICK req \in Requests, i \in Ids : \E snap \in SnapshotsNow :
              \E answer \in AnswersTo(req, snap) :
                  Granted(i, req, snap, answer)
      BY <1>5
  <2>2. PICK snap \in SnapshotsNow : \E answer \in AnswersTo(req, snap) :
                  Granted(i, req, snap, answer)
      BY <2>1
  <2>3. PICK answer \in AnswersTo(req, snap) : Granted(i, req, snap, answer)
      BY <2>2
  <2>4. Prepared(req, snap)
      BY <2>3 DEF Granted, Prepared
  <2> QED
      BY <1>1, <1>2, <2>3, <2>4, GrantedPools
<1>6. CASE \E S \in SUBSET Ids, state \in Terminal : Ended(S, state)
    BY <1>1, <1>6, EndedPools
<1>7. CASE \E i \in Ids : Renewed(i)
    BY <1>1, <1>7, RenewedPools
<1> QED
    BY <1>1, <1>3, <1>4, <1>5, <1>6, <1>7 DEF SomeShape

-----------------------------------------------------------------------------
(* The refinement                                                          *)

(* Every execution of the context, seen through its credits, is one of a   *)
(* lease pool: grants within the limit, final returns, and limits that     *)
(* move only while nobody holds a unit.                                    *)
THEOREM ContextIsACreditPool ==
    ASSUME Devices # {}, Scopes # {} PROVE Spec => ImplementsCreditPool
<1>1. Init => Inv /\ CreditPool!PoolInit
    BY InvInit, PoolsInit
<1>2. Inv /\ [Next]_vars => Inv'
    BY InvStep
<1>3. Inv /\ [Next]_vars => [CreditPool!PoolNext]_(CreditPool!poolVars)
    BY PoolsStep DEF CreditPoolStep, CreditPool!poolVars
<1> QED
    BY <1>1, <1>2, <1>3, PTL
       DEF Spec, ImplementsCreditPool, CreditPool!PoolSpec

(* And so it is through its rate units.                                    *)
THEOREM ContextIsARatePool ==
    ASSUME Devices # {}, Scopes # {} PROVE Spec => ImplementsRatePool
<1>1. Init => Inv /\ RatePool!PoolInit
    BY InvInit, PoolsInit
<1>2. Inv /\ [Next]_vars => Inv'
    BY InvStep
<1>3. Inv /\ [Next]_vars => [RatePool!PoolNext]_(RatePool!poolVars)
    BY PoolsStep DEF RatePoolStep, RatePool!poolVars
<1> QED
    BY <1>1, <1>2, <1>3, PTL
       DEF Spec, ImplementsRatePool, RatePool!PoolSpec
=============================================================================
