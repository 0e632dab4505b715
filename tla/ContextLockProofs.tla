------------------------- MODULE ContextLockProofs -------------------------
(***************************************************************************)
(* For any number of threads, with or without a provider that locks: the   *)
(* views a caller may still read are allocated, and only the provider can  *)
(* keep a thread in the context.                                           *)
(***************************************************************************)
EXTENDS ContextLock, TLAPS

Places == {"idle", "serving", "waiting", "asking", "inside"}

LockTypeOK ==
    /\ pc \in [Threads -> Places]
    /\ call \in [Threads -> Kinds]
    /\ views \in SUBSET Threads
    /\ promised \in SUBSET Threads

(* While a mutating call is under way nobody is promised a view: the call  *)
(* will drop the views once it has the mutex, and the promise ends when    *)
(* the call starts.                                                        *)
NothingPromisedDuringMutation ==
    (\E t \in Pending : Mutating(call[t])) => promised = {}

ViewInv == LockTypeOK /\ NothingPromisedDuringMutation /\ PromisedViewsLive

LEMMA ViewInvInit == ASSUME Init PROVE ViewInv
BY DEF Init, ViewInv, LockTypeOK, Places, Kinds, Pending, Inside,
       NothingPromisedDuringMutation, PromisedViewsLive

LEMMA LockTypeStep ==
    ASSUME LockTypeOK, [Next]_vars PROVE LockTypeOK'
<1>1. CASE UNCHANGED vars
    BY <1>1 DEF vars, LockTypeOK
<1>2. ASSUME NEW t \in Threads, EnterService(t) \/ LeaveService(t)
      PROVE  LockTypeOK'
    BY <1>2 DEF EnterService, LeaveService, LockTypeOK, Places
<1>3. ASSUME NEW t \in Threads, NEW kind \in Kinds, Start(t, kind)
      PROVE  LockTypeOK'
    BY <1>3 DEF Start, LockTypeOK, Places
<1>4. ASSUME NEW t \in Threads, Progress(t) PROVE LockTypeOK'
    BY <1>4 DEF Progress, Acquire, Ask, Answer, Fail, Resting, LockTypeOK,
                Places
<1> QED
    BY <1>1, <1>2, <1>3, <1>4 DEF Next

(* Each action keeps the promise; only a start changes who is in a call    *)
(* and what it is, and only an answer promises anything.                   *)
LEMMA ViewInvStep == ASSUME ViewInv, [Next]_vars PROVE ViewInv'
<1> USE DEF ViewInv
<1>1. LockTypeOK'
    BY LockTypeStep
<1>2. CASE UNCHANGED vars
    BY <1>2 DEF vars, LockTypeOK, NothingPromisedDuringMutation, Pending,
                PromisedViewsLive
<1>3. ASSUME NEW t \in Threads, EnterService(t) \/ LeaveService(t)
      PROVE  NothingPromisedDuringMutation' /\ PromisedViewsLive'
  <2>1. Pending' \subseteq Pending /\ call' = call /\ promised' = promised
      BY <1>3 DEF EnterService, LeaveService, Pending, Inside, LockTypeOK
  <2> QED
      BY <1>3, <2>1 DEF EnterService, LeaveService,
            NothingPromisedDuringMutation, PromisedViewsLive
<1>4. ASSUME NEW t \in Threads, NEW kind \in Kinds, Start(t, kind)
      PROVE  NothingPromisedDuringMutation' /\ PromisedViewsLive'
  <2>1. CASE Mutating(kind)
      BY <1>4, <2>1 DEF Start, NothingPromisedDuringMutation,
            PromisedViewsLive
  <2>2. CASE ~Mutating(kind)
    <3>1. call'[t] = kind /\ promised' = promised /\ views' = views
        BY <1>4, <2>2 DEF Start, LockTypeOK
    <3>2. \A u \in Threads \ {t} : call'[u] = call[u] /\ pc'[u] = pc[u]
        BY <1>4 DEF Start, LockTypeOK
    <3>3. ASSUME NEW u \in Pending', Mutating(call'[u])
          PROVE  u \in Pending /\ Mutating(call[u])
        BY <2>2, <3>1, <3>2, <3>3 DEF Pending
    <3> QED
        BY <3>1, <3>3 DEF NothingPromisedDuringMutation, PromisedViewsLive
  <2> QED
      BY <2>1, <2>2
<1>5. ASSUME NEW t \in Threads, Acquire(t)
      PROVE  NothingPromisedDuringMutation' /\ PromisedViewsLive'
  <2>1. Pending' = Pending
      BY <1>5 DEF Acquire, Pending, Inside, LockTypeOK
  <2>2. t \in Pending
      BY <1>5 DEF Acquire, Pending, Inside
  <2>3. Mutating(call[t]) => promised = {}
      BY <2>2 DEF NothingPromisedDuringMutation
  <2> QED
      BY <1>5, <2>1, <2>3 DEF Acquire, ClearsOutput, PromisedViewsLive,
            NothingPromisedDuringMutation
<1>6. ASSUME NEW t \in Threads, Ask(t)
      PROVE  NothingPromisedDuringMutation' /\ PromisedViewsLive'
  <2>1. Pending' = Pending
      BY <1>6 DEF Ask, Pending, Inside, LockTypeOK
  <2> QED
      BY <1>6, <2>1 DEF Ask, PromisedViewsLive,
            NothingPromisedDuringMutation
<1>7. ASSUME NEW t \in Threads, Answer(t) \/ Fail(t)
      PROVE  NothingPromisedDuringMutation' /\ PromisedViewsLive'
  <2>1. Pending' = Pending \ {t}
    <3>1. Resting(t) \in {"idle", "serving"}
        BY DEF Resting
    <3>2. pc'[t] = Resting(t) /\ \A u \in Threads \ {t} : pc'[u] = pc[u]
        BY <1>7 DEF Answer, Fail, LockTypeOK
    <3> QED
        BY <3>1, <3>2 DEF Pending, Inside
  <2>2. call' = call
      BY <1>7 DEF Answer, Fail
  <2>3. CASE Fail(t)
      BY <2>1, <2>2, <2>3 DEF Fail, PromisedViewsLive,
            NothingPromisedDuringMutation
  <2>4. CASE Answer(t)
      BY <2>1, <2>2, <2>4 DEF Answer, PromisedViewsLive,
            NothingPromisedDuringMutation
  <2> QED
      BY <1>7, <2>3, <2>4
<1> QED
    BY <1>1, <1>2, <1>3, <1>4, <1>5, <1>6, <1>7 DEF Next, Progress

(* A view that a caller was promised is not freed before a mutating call   *)
(* starts, however the calls of the other threads interleave.              *)
THEOREM ViewsLiveAsPromised == Spec => []PromisedViewsLive
<1>1. Init => ViewInv
    BY ViewInvInit
<1>2. ViewInv /\ [Next]_vars => ViewInv'
    BY ViewInvStep
<1>3. ViewInv => PromisedViewsLive
    BY DEF ViewInv
<1> QED
    BY <1>1, <1>2, <1>3, PTL DEF Spec

-----------------------------------------------------------------------------
(* Who holds which lock                                                    *)

\* The guards of Ask, and of Answer and Fail.
MayGoOn(t) ==
    \/ pc[t] = "asking" /\ (ProviderLocks => service \in {Nobody, t})
    \/ pc[t] = "inside"

\* A thread other than t has the service's lock and is not in the context.
ServiceTaken(t) ==
    \E u \in Threads \ {t} : service = u /\ pc[u] \in {"serving", "waiting"}

(* The mutex is held by the one thread that is in the context.             *)
HolderIsInside == \A t \in Threads : ctx = t <=> pc[t] \in Inside

(* The holder of the mutex can always go on, but for one case: the         *)
(* provider wants the lock of its service, and a thread outside has it.    *)
OnlyTheProviderBlocks ==
    \A t \in Threads :
        ctx = t => \/ MayGoOn(t)
                   \/ ProviderLocks /\ ServiceTaken(t)

(* The service's lock is held by a thread that is doing something: one     *)
(* that serves, or one that calls the context while it has the lock.       *)
ServiceIsHeld ==
    /\ service \in Threads \cup {Nobody}
    /\ \A t \in Threads : /\ pc[t] = "serving" => service = t
                          /\ service = t => pc[t] # "idle"

LockInv == LockTypeOK /\ HolderIsInside /\ ServiceIsHeld

LEMMA LockInvInit == ASSUME Init PROVE LockInv
<1>1. LockTypeOK
    BY DEF Init, LockTypeOK, Places, Kinds
<1>2. HolderIsInside /\ ServiceIsHeld
    BY NobodyAssumption DEF Init, HolderIsInside, ServiceIsHeld, Inside
<1> QED
    BY <1>1, <1>2 DEF LockInv

LEMMA LockInvStep == ASSUME LockInv, [Next]_vars PROVE LockInv'
<1> USE NobodyAssumption DEF LockInv
<1>1. LockTypeOK'
    BY LockTypeStep
<1>2. CASE UNCHANGED vars
    BY <1>1, <1>2 DEF vars, HolderIsInside, ServiceIsHeld
<1>3. ASSUME NEW t \in Threads, EnterService(t) \/ LeaveService(t)
      PROVE  HolderIsInside' /\ ServiceIsHeld'
  <2>1. /\ ctx' = ctx /\ pc[t] \in {"idle", "serving"}
        /\ pc'[t] \in {"idle", "serving"}
        /\ \A u \in Threads \ {t} : pc'[u] = pc[u]
      BY <1>3 DEF EnterService, LeaveService, LockTypeOK
  <2>2. HolderIsInside'
      BY <2>1 DEF HolderIsInside, Inside
  <2>3. ServiceIsHeld'
      BY <1>3, <2>1 DEF EnterService, LeaveService, ServiceIsHeld, LockTypeOK
  <2> QED
      BY <2>2, <2>3
<1>4. ASSUME NEW t \in Threads, NEW kind \in Kinds, Start(t, kind)
      PROVE  HolderIsInside' /\ ServiceIsHeld'
    BY <1>4 DEF Start, HolderIsInside, ServiceIsHeld, Inside, LockTypeOK
<1>5. ASSUME NEW t \in Threads, Acquire(t) \/ Ask(t)
      PROVE  HolderIsInside' /\ ServiceIsHeld'
  <2>1. /\ ctx \in {Nobody, t} /\ ctx' = t /\ service' = service
        /\ pc'[t] \in Inside /\ \A u \in Threads \ {t} : pc'[u] = pc[u]
      BY <1>5 DEF Acquire, Ask, HolderIsInside, Inside, LockTypeOK
  <2> QED
      BY <2>1 DEF HolderIsInside, ServiceIsHeld, Inside
<1>6. ASSUME NEW t \in Threads, Answer(t) \/ Fail(t)
      PROVE  HolderIsInside' /\ ServiceIsHeld'
  <2>1. /\ ctx = t /\ ctx' = Nobody /\ service' = service
        /\ pc'[t] = Resting(t) /\ \A u \in Threads \ {t} : pc'[u] = pc[u]
      BY <1>6 DEF Answer, Fail, HolderIsInside, Inside, LockTypeOK
  <2> QED
      BY <2>1 DEF HolderIsInside, ServiceIsHeld, Inside, Resting
<1> QED
    BY <1>1, <1>2, <1>3, <1>4, <1>5, <1>6 DEF Next, Progress

LEMMA LockInvariant == Spec => []LockInv
<1>1. Init => LockInv
    BY LockInvInit
<1>2. LockInv /\ [Next]_vars => LockInv'
    BY LockInvStep
<1> QED
    BY <1>1, <1>2, PTL DEF Spec

(* The documented deadlock is the only one: a call that has the mutex can  *)
(* take its next step unless its provider waits for the service's lock,    *)
(* which a thread has that serves or itself waits for the mutex.  With a   *)
(* provider that takes no lock no call is ever stuck with the mutex.       *)
THEOREM DeadlockNeedsTheProvider == Spec => []OnlyTheProviderBlocks
<1>1. ASSUME LockInv PROVE OnlyTheProviderBlocks
  <2> SUFFICES ASSUME NEW t \in Threads, ctx = t, ~MayGoOn(t)
               PROVE  ProviderLocks /\ ServiceTaken(t)
      BY DEF OnlyTheProviderBlocks
  <2>1. /\ pc[t] = "asking" /\ ProviderLocks /\ service \in Threads \ {t}
      BY <1>1 DEF LockInv, HolderIsInside, ServiceIsHeld, Inside, MayGoOn
  <2>2. pc[service] \notin Inside
      BY <1>1, <2>1 DEF LockInv, HolderIsInside
  <2>3. pc[service] \in {"serving", "waiting"}
      BY <1>1, <2>1, <2>2
         DEF LockInv, ServiceIsHeld, LockTypeOK, Places, Inside
  <2> QED
      BY <2>1, <2>3 DEF ServiceTaken
<1> QED
    BY <1>1, LockInvariant, PTL
=============================================================================
