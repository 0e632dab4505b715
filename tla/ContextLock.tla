---------------------------- MODULE ContextLock ----------------------------
(***************************************************************************)
(* Threads inside one context in QHW_ADM_THREAD_SAFE mode: the context     *)
(* mutex, the capacity provider that is called with it held, the lock that *)
(* the provider's service may take, and the output views that the context  *)
(* owns on behalf of its callers.                                          *)
(***************************************************************************)
EXTENDS FiniteSets

CONSTANTS
    Threads,
    Nobody,
    ProviderLocks   \* the provider's callback takes the service's lock

ASSUME NobodyAssumption == Nobody \notin Threads
ASSUME ProviderAssumption == ProviderLocks \in BOOLEAN

VARIABLES
    ctx,        \* the holder of the context mutex
    service,    \* the holder of the service's own (recursive) lock
    pc,         \* where a thread is
    call,       \* the call it makes
    views,      \* threads whose last output view is still allocated
    promised    \* history: threads that may still read their view

vars == <<ctx, service, pc, call, views, promised>>

\* One call of each sort.
Kinds == {"reserve", "evaluate", "release"}

Mutating(kind) == kind \in {"reserve", "release"}

TakesSnapshot(kind) == kind \in {"reserve", "evaluate"}

\* The others only return a code.
HandsOutView(kind) == kind \in {"reserve", "evaluate"}

\* Mutant: every call drops the output of the calls before it.
EveryCallClears(kind) == TRUE

ClearsOutput(kind) == Mutating(kind)

Inside == {"asking", "inside"}

Pending == {t \in Threads : pc[t] \in {"waiting"} \cup Inside}

Resting(t) == IF service = t THEN "serving" ELSE "idle"

-----------------------------------------------------------------------------
(* The controller                                                          *)

EnterService(t) ==
    /\ pc[t] = "idle"
    /\ service = Nobody
    /\ service' = t
    /\ pc' = [pc EXCEPT ![t] = "serving"]
    /\ UNCHANGED <<ctx, call, views, promised>>

LeaveService(t) ==
    /\ pc[t] = "serving"
    /\ service' = Nobody
    /\ pc' = [pc EXCEPT ![t] = "idle"]
    /\ UNCHANGED <<ctx, call, views, promised>>

\* Views are promised until the next mutating call on the context.
Start(t, kind) ==
    /\ pc[t] \in {"idle", "serving"}
    /\ pc' = [pc EXCEPT ![t] = "waiting"]
    /\ call' = [call EXCEPT ![t] = kind]
    /\ promised' = IF Mutating(kind) THEN {} ELSE promised
    /\ UNCHANGED <<ctx, service, views>>

-----------------------------------------------------------------------------
(* A call on the context                                                   *)

\* qhw_adm_lock, then qhw_adm_clear_output.
Acquire(t) ==
    /\ pc[t] = "waiting"
    /\ ctx = Nobody
    /\ ctx' = t
    /\ views' = IF ClearsOutput(call[t]) THEN {} ELSE views
    /\ pc' = [pc EXCEPT
            ![t] = IF TakesSnapshot(call[t]) THEN "asking" ELSE "inside"]
    /\ UNCHANGED <<service, call, promised>>

\* build_capacity_view calls the provider, which locks and unlocks its
\* service, while this thread holds the context mutex.
Ask(t) ==
    /\ pc[t] = "asking"
    /\ ProviderLocks => service \in {Nobody, t}
    /\ pc' = [pc EXCEPT ![t] = "inside"]
    /\ UNCHANGED <<ctx, service, call, views, promised>>

\* The view is promised unless a mutating call is already under way.
Answer(t) ==
    /\ pc[t] = "inside"
    /\ ctx' = Nobody
    /\ pc' = [pc EXCEPT ![t] = Resting(t)]
    /\ \/ /\ HandsOutView(call[t])
          /\ views' = views \cup {t}
          /\ promised' = IF \E u \in Pending \ {t} : Mutating(call[u])
                         THEN promised ELSE promised \cup {t}
       \/ /\ ~HandsOutView(call[t])
          /\ UNCHANGED <<views, promised>>
    /\ UNCHANGED <<service, call>>

\* Mutant: an early return forgets the mutex.
FailLocked(t) ==
    /\ pc[t] = "inside"
    /\ pc' = [pc EXCEPT ![t] = Resting(t)]
    /\ promised' = promised \ {t}
    /\ UNCHANGED <<ctx, service, call, views>>

\* An error return: no view is handed out.
Fail(t) ==
    /\ pc[t] = "inside"
    /\ ctx' = Nobody
    /\ pc' = [pc EXCEPT ![t] = Resting(t)]
    /\ promised' = promised \ {t}
    /\ UNCHANGED <<service, call, views>>

-----------------------------------------------------------------------------
Init ==
    /\ ctx = Nobody
    /\ service = Nobody
    /\ pc = [t \in Threads |-> "idle"]
    /\ call = [t \in Threads |-> "evaluate"]
    /\ views = {}
    /\ promised = {}

\* What a thread that entered a call does by itself.
Progress(t) == Acquire(t) \/ Ask(t) \/ Answer(t) \/ Fail(t)

Next ==
    \E t \in Threads :
        \/ EnterService(t)
        \/ LeaveService(t)
        \/ \E kind \in Kinds : Start(t, kind)
        \/ Progress(t)

(* A thread inside a call keeps running, and one that only holds the        *)
(* service's lock eventually leaves.  No fairness between contenders of the *)
(* mutex is assumed, and nobody has to make calls.                          *)
Fairness ==
    \A t \in Threads : WF_vars(Progress(t)) /\ WF_vars(LeaveService(t))

Spec == Init /\ [][Next]_vars /\ Fairness

-----------------------------------------------------------------------------
(* The views a caller may still read are allocated: calls that only read    *)
(* the context, of whichever thread, release nobody's output.               *)
PromisedViewsLive == promised \subseteq views

(* detailed-design.md: the lock order prevents deadlocks with controller    *)
(* code that may already hold its own service lock.  Whoever takes the      *)
(* context mutex gives it back, whatever the other threads hold.            *)
MutexIsReleased == \A t \in Threads : ctx = t ~> ctx # t
=============================================================================
