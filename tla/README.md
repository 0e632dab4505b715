# A TLA+ model of qhw-admission

qhw-admission decides which quantum workloads may use which device, when and
for how much. A controller creates a context (`qhw_adm_t`), registers devices,
gives each an estimator and a policy, asks for reservations against devices,
and reports the usage of the tasks that run under a reservation. This directory
holds TLA+ modules of that library, TLC configurations that check them on small
instances, and TLAPS proofs of what matters most for instances of any size.

Paths below are relative to the repository; the C sources are in `src/`, and
file names without a directory are there.

## 1. Inventory

| Component | State | Operations | Where |
|---|---|---|---|
| Context | threading mode, mutex, output views, last error, id counter | create, destroy, lock, unlock, clear and append output views | `qhw_admission.c`, `qhw_thread.c`, `qhw_metadata.c`, `qhw_error.c`, `qhw_registry.c` |
| Device registry | per device: profile, estimator, policy instance, three version counters | register (also replaces), unregister, get, set_baseline | `qhw_device.c` |
| Estimators | registry of built-in and plugin estimators, search paths; the baseline estimator is a pure function | set_estimator, estimate_baseline, estimate_task, load, add path | `qhw_estimator.c`, `estimators/baseline.c` |
| Policies | registry of policy plugins, search paths; per device an instance with options | set_policy, load, add path | `qhw_policy.c` |
| Standard policies | options only | evaluate, reserve, release, consume, return_usage, capacity | `policies/credit.c`, `policies/rate.c`, `policies/unlimited.c` |
| Reservation core | reservation table, id counter, capacity provider | evaluate, reserve, release, cancel, renew, expire, get_capacity, set_capacity_provider, get, list | `qhw_reservation.c` |
| Usage accounting | per reservation: consumed and unused units, overuse count, measured total, usage events, actual events | authorize, consume, return, record_actual, get_usage, get_compliance | `qhw_usage.c` |
| Configuration loader | parser: section and current device; load: staged copy of devices, policies and paths | load_config, load_config_string | `qhw_config.c` |
| Arithmetic | none | checked add and multiply, ceiling division, clock | `qhw_math.c` |
| Bindings | none of their own | a facade over the C calls | `python/`, `swg/` |

How they interact. Every public call takes the context mutex (in thread-safe
mode), works on the tables, calls plugin callbacks with the mutex held, and
releases it. `reserve` reads the device, asks the estimator, builds a capacity
view (totals of the device or of the estimator, sums over the active
reservations, and the snapshot of the capacity provider), lets the policy
decorate it, asks the policy for a decision, validates the grant and enters a
reservation that points into the device's policy. Ending a reservation
finalises its account and calls the policy's release. `record_actual` calls
back into the device's estimator, which may change later estimates.

What is hard here:

* the sums are recomputed on each call and compared with totals that a policy
  may overcommit, that a provider caps per scope, and that estimates may move
  under active reservations;
* reservations keep raw pointers into configuration that other calls replace;
* plugins may fail, or answer anything, between two writes of one operation;
* callers retry, repeat, alter and delay their reports;
* 64-bit boundaries: overcommit, lease ends, ids, window sums;
* a configuration load fails half-way, with entries shared between two tables
  and plugins loaded for entries that are thrown away;
* a time is rounded to units, a span to credits, units to a rate and a rate to
  slices, and each step may overflow or round the wrong way;
* the parser keeps one section and no indentation, so the order of the lines of
  a YAML document decides what they mean;
* a list is read page by page while others change it;
* threads: a provider called under the mutex, and output views that belong to
  the context and not to the call.

What makes each component correct: no device promises more than it has; a scope
stays within its cap; configuration does not move under an active reservation;
a lease has an end and ends once; a terminal reservation is final; a failed call
changes nothing, a failed configuration load included; no plugin is unloaded
while an entry may call it; estimates are exact or refused, and units cover the
time they stand for; a document is read as it was written; accounts agree with
event lists and stay in their envelope; retries are free; feedback is delivered
once; what a caller is told remains is what it may use; a reader of a list
misses nothing; the mutex is given back; views live as long as promised.
`PROJECT.json` lists the hazards with their lines.

## 2. Modules

| Module | Models | Kind |
|---|---|---|
| `CapacityMath` | checked, saturating and rounding arithmetic; sums over the table | operators |
| `Policies` | credit, rate and unlimited policies; third-party plugins | operators |
| `Admission` | device registry and reservation table of one context | state machine |
| `ReservationList` | the filtered, paged list, read while the table changes | operators on states of `Admission` |
| `LeasePool` | what a ledger of leases promises | abstract specification |
| `AdmissionPools` | `Admission` as two lease pools (credits, rate) | refinement mapping |
| `Estimator` | from task classes to units to a grant | state machine |
| `Usage` | accounting of one reservation | state machine |
| `ContextLock` | threads, mutex, provider, output views | state machine with fairness |
| `Config` | configuration loads, plugin registries, memory of the device table | state machine |
| `ConfigText` | the parser of configuration documents, and an author who writes them | state machine |
| `CapacityTheorems` | lemmas about `CapacityMath` | proofs |
| `AdmissionProofs`, `LeaseProofs` | theorems about `Admission`, its lists and its refinements | proofs |
| `EstimatorProofs`, `UsageProofs`, `ContextLockProofs`, `ConfigProofs`, `ConfigTextProofs` | theorems about the module they are named after | proofs |
| `MCAdmission`, `MCEstimator`, `MCUsage`, `MCContextLock`, `MCConfig`, `MCConfigText` | inputs of the runs | model checking |

### Admission

`devices[d]` is `struct qhw_adm_device_entry`: profile (configured totals,
accounting span, concurrent jobs), the estimate `est` of the baseline circuit,
whether the estimator takes feedback, the policy instance and the versions. The
estimator's state is abstracted to `est`, the time it answers for the baseline
circuit: all totals that the core derives come from it. `est = 0` stands for an
estimate that fails. `reservations[i]` is the reservation of id `i`, or
`ABSENT`; entries are never removed, as in the code. `next_reservation_id`
wraps to 0 as the C counter does. `provider` says whether a capacity provider is
installed, and `clock` is what `TIME_UTC` reads, which may step back, and reads 0
when the system call fails. `counted` is a
history variable: ids that were in a count `qhw_adm_expire` returned. So is
`out.seen`, the snapshot a decision was made on.

A call is one action because it holds the mutex from its first read to its last
write. An early return is a disjunct with its return code (those that leave the same
state and code are one); `out` is the last
call's result. Reserve follows `prepare_policy_call` in order (`PrepareCode`),
allocates an id (spent even if the policy refuses), asks the policy
(`AnswersTo`), and ends in one of the outcomes of `Conclude`: callback error,
delayed or rejected, refused grant, lease overflow, failed allocation,
success. `ExpireFails` lets the sweep stop after any subset of what it had to
end, because the order of the walk is that of hash buckets.

Where the code writes, fails and undoes, the action composes the write with the
undoing, each an operator of its own: `Transitioned` stores the terminal state
(`Stored`) and takes it back (`RolledBack`) if the release callback refuses, in
release, cancel and the sweep alike; `ConcludeGrant` enters the reservation
(`Inserted`) and removes it (`Removed`) if the decision cannot be copied out. That
nothing is left behind is therefore something to check: `NotRolledBack` is the
mutation that `FailedCallsChangeNothing` refutes, and that a removed slot is as it
was needs the invariant that an unused slot holds nothing.

`MaxId` and `MaxTime` stand for `UINT64_MAX`, with the
code's behaviour there, so they are not artificial bounds. `MaxVersion` is one: a
configuration call that would take a version counter past it is not taken. The
runs never get there, since it is above their depth.

### Policies

The standard plugins keep nothing that a decision depends on, so each is an
operator from instance, profile, request and view to an answer. The kind
`plugin` answers anything in `PluginAnswers`, and its init and release callbacks may
fail; its capacity callback is taken to succeed and
to leave the numbers of the view alone. A plugin that inflates the view it is given
is outside what the invariants claim.

### LeasePool and AdmissionPools

`LeasePool` says what a ledger owes its users: a slot goes from free to held to
gone, a grant fits the limit, and a limit moves only while nobody holds units
of the pool. `AdmissionPools` maps devices to pools and ids to slots, once for
credits and once for rate. A device without a configured total is a pool without
a limit, since feedback moves derived totals under active reservations; what
holds for these is `GrantsFit`.

### ReservationList

`qhw_adm_list_reservations` writes nothing, so a call is the operator `List` on
a state of `Admission`: the filter is validated, the matching entries are put in
the order of their ids, and the page that begins at an offset is copied out. The
user, job and workload flags of a filter are equality tests on fields that never
change, as the scope is; the scope stands for them. What a reader relies on is
not a property of one call: `PagesSkipNothing` compares what is behind an offset
before and after every step of `Admission` that changes the table.

### Estimator

`estimate_shape` with its intermediate sums and products in the code's order,
each of which may overflow; `qhw_adm_metadata_get_u64` overriding timing fields;
`baseline_estimate_task`, which divides by the baseline's own time;
`estimate_request`, one action for each round of its loop; the totals that the
core derives from the accounting span; and the decision of `Policies` on the
result. `exact` and `work` are history variables: what the classes take, and
what was granted, in arithmetic without a width. `unfit` remembers that a class
was refused for another reason than its size. Grants do not end here, so
`PromisesFitTheSpan` is about everything a device could hold at once; how
capacity comes back is the business of `Admission`.

### Usage

One reservation, from its creation to its end. `account` has the accounting
fields of `qhw_adm_reservation_t`, `events` is `usage_event_list`, and
`actuals` the table of measured times. Each record is one of `Usages(lease)` or
`Actuals(lease)`; retries are
calls with a task that is on record. Class, measured times and metadata of a
record take part only in the comparison of a retry with the original, so they
are one attribute together with the time. `unrecorded` is a history variable:
what anonymous calls moved without leaving an event. Rate windows, returns
counted in the window of their consumption, overflow to `UINT64_MAX` and the
order of the two additions of `add_usage_units` are as in the code. Allocation
may fail wherever an event or a copy is made.

Failures after the first write are composed of the write and its undoing, as in
`Admission`: `WithUnits` and `WithoutUnits` when the event of a consume cannot be
inserted, `StoredReturn` and `ClearedReturn` around the policy's return callback,
`Finalised` and `Unfinalised` around its release callback. The failed first half of
`add_usage_units` is not undone, as in the code. One detail is abstracted: when the
copy of a returned record runs out of memory, what it copied so far stays in the
event, where nothing reads it.
The other half of `transition_reservation`, the state of the entry, is in
`Admission`.

### ContextLock

Threads of a controller that may hold a lock of their own service while they
call the context. A call starts, takes the mutex (and, if it is a mutating call,
drops the output views), asks the provider if it builds a capacity view, and
answers or fails. `promised` is a history variable: the threads to whom the documents
promise that their last view is still readable.

### Config

What `Admission` leaves out of the registries. A device entry is a block of
`heap`, and `devices` holds handles, because a MERGE load has one entry in the
live and in the staged table at once. `load` is the load that holds the mutex:
its staged table, the entry under construction, the plugins it has loaded, and
(history) the context as it was when it began. A load is not one step but one
for each allocation, plugin and table insertion of `stage_config`, each of
which may fail: `CreateEntry`, `SelectPlugin` for the estimator and for the
policy, `InsertEntry`, then `Publish` (the path arrays and `commit_config`), or
`Discard` (`free_staged_device_table`) and `Rollback`. Other calls wait for the
mutex, so they are steps taken while no load is under way.

A plugin file is what its descriptor says: `Descriptor(kind, path, name)` is
missing, broken, or a name that need not be the file's. `FindOrLoad` follows
`qhw_adm_find_or_load_policy` through the registry, the paths of the
configuration and those of the context, up to the case where it returns OK
without a plugin. Estimators and policies go through two copies of the same
code, modelled once with the kind as a parameter. Reservations are the set
`active` of devices that have one.

Memory: an entry takes one block of `MaxEntries`, and an allocation fails when
none is left as well as whenever the environment says so. `MaxPaths` bounds the
search paths of the context. A configuration names a device once: what a second
insertion under one key does is decided by the hash table, which is not in this
repository. An allocation that fails while the search paths are walked ends the
search, where the code goes on to the next directory in one of three cases.

### ConfigText

`parse_yaml_text` after a line is split, trimmed and unquoted: what is left is
whether it is a list item, its indentation, a key and a value. The parser's
state is the section, the devices so far, the search paths and the return code.
The environment is an author who writes YAML one line at a time: any mapping
that is open may get a key it does not have yet, in any order, and a key may open
a nested mapping. What was written is kept as history (`items`, `dirs`), so the
properties compare what was meant with what was parsed. `idFirst` and `inOrder`
record whether the document has the shape of the documented examples: an item
begins with `device_id`, its scalars come before its nested mappings, and no
scalar is `Misfiled`: named like a section, or a key of the device that is
written under `estimator` or `policy`, where the parser files it as the
device's.

## 3. Runs

| Run | Asks | Bounds |
|---|---|---|
| `standard` | capacity, scope caps, the credit refinement and pinned configuration under the credit and rate policies, on a device that is reconfigured and recalibrated | one device, two scopes, ids 1..3, three profiles, six policies, two estimators, two baselines, 0..7 for 64 bits, ppm scale 4 |
| `leases` | the same core under a third-party policy that grants anything and whose release may fail: lease ends, sweeps, failed calls undone, the rate refinement, list pages | one device, two scopes, ids 1..3, eight answers, times 0..4, a clock that takes the values 0, 1 and 3, two renewals, three filters |
| `estimator` | exact estimates, rounding, promises against the span | 0..63 for 64 bits, three devices, eight classes, two classes a request, two grants |
| `usage` | the account, the envelopes, retries, failed calls undone, measured times, feedback, what remains | two tasks and anonymous calls, two rate windows, three events, two measured times, 0..15 |
| `config` | atomicity of loads, memory, plugin lifetimes, active devices | two devices, four blocks, two search paths, three names of each kind, five configurations |
| `yaml` | documents are read as written | seven lines, two devices, ten keys, five values, 3-bit and 2-bit numbers, one search path |
| `threads` | mutex and output views | three threads |
| `yaml_order` | violated: see below | as `yaml`, six lines, well-formed numbers |
| `expired_uncounted` | violated | a third-party policy whose release may fail |
| `rate_conversion` | violated | rate reservation whose budget is two windows long |
| `overflow_leak` | violated | credit reservation whose tasks also name rate units |
| `provider_deadlock` | violated | two threads, a provider that takes the service's lock |

Why the bounds are enough. With 0..7 for 64 bits a request, an overcommit and a
slice each overflow within one or two calls; ids wrap after three grants;
three reservations in two scopes are the least that distinguish device sums
from scope sums and let one be ended between two others. They are on one device:
devices share only the id counter and the provider, and that what is committed on one does
not depend on another is left to the proofs, which are about any devices. In `config` two devices are the
least with which a load keeps one entry, replaces or drops another, and fails at
the second after it loaded a plugin for the first. Three events suffice
for consume, return and a late consume in the same window, the shortest
sequence that can overdraw one. With 6-bit words the classes of `estimator` overflow
in a product, in a sum of a class and only in the sum of two classes; its
baselines leave a remainder in the span and in the units. Seven lines hold two
devices with a nested mapping each, or one with options and two sections. Each
input set holds the boundary on both
sides. Every property has a mutation of the code, in `PROJECT.json`, that TLC
refutes within these bounds.

The runs of `Admission` and `Usage` use a `VIEW` that drops `out` (no guard
reads it) and, for terminal reservations, everything but the state (no sum and
no guard reads the rest). That of `Admission` also keeps of the version counters only
whether those of an active reservation are its device's, which is all that a property asks.
Action properties are still evaluated on every
step. Deadlock checking is off: ids, events and versions are used up, and
callers may stop. The view of `Config` drops `out` only, and its deadlock
checking is on.

`Estimator` and `ConfigText` do not check deadlock either: grants and lines are
used up.

Fairness. `Admission`, `Estimator`, `Usage`, `Config` and `ConfigText` have none: nothing happens unless a caller
calls, expiry included (there is no sweeper thread). `ContextLock` assumes
that a thread inside a call keeps running and that the holder of the service's
lock leaves, not that a contender of the mutex gets it: `pthread_mutex_t`
promises no order. `MutexIsReleased` needs no more.

### Where the documents and the code disagree

* `yaml_order`: the documents call the configuration YAML, whose mappings have
  no order (`docs/detailed-design.md:1833`). A scalar of a device that is
  written after a nested mapping goes to that mapping, which drops it.
* `expired_uncounted`: a sweep that fails half-way has expired reservations
  that no returned count ever includes (`docs/detailed-design.md:1002`).
* `rate_conversion`: a rate reservation is to be charged
  `ceil(baseline * time_span / quantum_budget)` units for baseline units of work
  (`docs/detailed-design.md:980` and `1439-1458`). `usage_rate_units`
  (`qhw_usage.c:72-84`) charges the baseline units themselves, and the budget the
  reservation keeps is never read. `RateEnvelope`, and what else is said about
  rates here, is about the units that the code charges.
* `overflow_leak`: a consume that fails in its second addition keeps the
  first, and a retry charges it again (`docs/detailed-design.md:2123`).
* `provider_deadlock`: the provider is called with the context mutex held
  (`docs/detailed-design.md:2187`).

Seen while modelling, without a run:

* An explicit rate slice is compared with the total rate only when the policy is
  set; a baseline or estimator set later may bring the derived total below it
  (`docs/detailed-design.md:1391`).
* Capacity that was returned and consumed again is still counted as unused
  (`docs/detailed-design.md:986`).
* `docs/detailed-design.md:916` has the core derive baseline units that an
  estimator left at zero; `estimate_request` (`qhw_reservation.c:323-377`) takes
  them as they are. The baseline estimator never answers zero.
* An anonymous return may take units that a named task charged, whose own return
  is then refused (`qhw_usage.c:1093`).
* `default_ttl_ns` never applies, because a request without a walltime is
  refused before `select_ttl` could reach it.
* A limit of `UINT64_MAX` credits or rate units is no limit, because the sum
  that is compared with it saturates there (`policies/rate.c` and
  `policies/credit.c` alike); `RateEnvelope` and `RemainingIsUsable` exclude it.
* Calls that only read append output views that only a mutating call frees;
  `qhw_adm_last_error` reads its buffer without the mutex.
* Configuration: a list item whose first key is not `device_id`, after
  another device's nested mapping, does not start a device, and its lines go to
  the previous one; an option named like a section switches to that section; a key
  of the device under `estimator` or `policy` is the device's; numbers are
  read with base 0, so a leading zero makes them octal.

## 4. Proofs

Each theorem holds for every value of the constants that satisfies the named
assumptions of the modules: any devices, scopes, threads, tasks, classes,
plugins and configurations, any width of the words, any table size and
repertoire of inputs.

| Module | Theorem | Statement |
|---|---|---|
| `AdmissionProofs` | `TypeCorrectness` | `Spec => []TypeOK` |
| | `ConfigurationStaysPinned` | `Spec => []PinnedConfiguration` |
| | `CreditsAreNeverOversold` | `Spec => []NoCreditOversell` |
| | `RateIsNeverOversold` | `Spec => []NoRateOversell` |
| | `LifecycleIsKept` | `Spec => ReservationLifecycle` |
| `LeaseProofs` | `LeasesEnd` | `Spec => []EveryLeaseEnds` |
| | `SweepsAreExact` | `Spec => SweepIsExact` |
| | `FailedCallsAreClean` | `Spec => FailedCallsChangeNothing` |
| | `EveryGrantFits` | `Spec => GrantsFit` |
| | `ScopesStayWithinCaps` | `Spec => ScopeCapRespected`, under the standard policies |
| | `PagesAreComplete` | `Spec => PagesSkipNothing` |
| | `ContextIsACreditPool` | `Spec => CreditPool!PoolSpec` |
| | `ContextIsARatePool` | `Spec => RatePool!PoolSpec` |
| `EstimatorProofs` | `EveryEstimateIsExact` | `Spec => []EstimatesAreExact` |
| | `EveryUnitCounts` | `Spec => []UnitsCoverTheTime` |
| | `SpanIsNeverOversold` | `Spec => []PromisesFitTheSpan` |
| | `EveryGrantSuffices` | `Spec => []GrantsSuffice` |
| `UsageProofs` | `TasksCountOnce` | `Spec => []OnceByTask` |
| | `UnderuseIsReported` | `Spec => []UnderuseReported` |
| | `EveryDenialCounts` | `Spec => []DenialsCounted` |
| | `RetriesMoveNothing` | `Spec => RetriesAreFree` |
| | `MeasuredTimesCountOnce` | `Spec => []FeedbackOnce` |
| | `AccountFollowsEvents` | `Spec => []LedgerBalances`, if a record names units of one kind |
| | `FailuresAreUndone` | `Spec => FailedCallsMoveNothing`, under the same condition |
| | `CreditsStayInEnvelope` | `Spec => []CreditEnvelope` |
| | `RateStaysInEnvelope` | `Spec => []RateEnvelope` |
| | `RemainingCanBeUsed` | `Spec => []RemainingIsUsable` |
| `ContextLockProofs` | `ViewsLiveAsPromised` | `Spec => []PromisedViewsLive` |
| | `DeadlockNeedsTheProvider` | `Spec => []OnlyTheProviderBlocks` |
| `ConfigProofs` | `EntriesAreTyped` | `Spec => []TypeOK` |
| | `PluginsOutliveEntries` | `Spec => []NoDanglingPlugin` |
| | `LoadsLeakNothing` | `Spec => []HeapMatchesTable` |
| | `FailedLoadsChangeNothing` | `Spec => FailedLoadRestores` |
| | `LoadsPublishEverything` | `Spec => LoadPublishesWhole` |
| | `ActiveDevicesStay` | `Spec => ActiveDevicesKept` |
| `ConfigTextProofs` | `DocumentsAreReadAsWritten` | `Spec => []FieldsLandWhereWritten` |
| | `DevicesAreKeptApart` | `Spec => []DevicesKeepApart` |

**Admission.** The inductive invariant `Inv` is the conjunction of `TypeOK`,
`PinnedConfiguration`, `NoCreditOversell` and `NoRateOversell`; the passing runs
check each conjunct. None is inductive alone. That a limit may change needs a
device without active reservations; for a first registration, which the code
makes without looking at the reservations, this follows from the pinned
configuration: an active reservation names a registered device. That sums and
limits stay comparable needs types.

The argument goes by shape. `StepShape` says that every step does one of six
things to the two tables: nothing, reconfigure an idle device, recalibrate an
estimate, grant an absent slot, end a set of active entries, or renew one. Each
invariant is then checked against six shapes instead of forty disjuncts. The
heart is `GrantBounds`: whatever the policy, a grant that passed
`validate_policy_grant` is at most what the view called available, and
`PolicyViewBounds` says that the view never calls more available than the limit
less the committed sum. `CapacityTheorems` has the sums: how `UnitSum` changes
when a member joins, leaves or grows.

`LeaseInv` adds `EveryLeaseEnds`: a grant has an end because its walltime is not
zero, and a renewal because the sum it writes did not overflow.

`FailedCallsAreClean` goes over every way a call fails. Most leave the tables alone at
once; three do not. `TransitionUndone`: storing a state and rolling it back gives
the entry. `InsertionUndone`: an id is taken only where the slot is
unused, and by `TypeOK` an unused slot holds nothing, so removing what was inserted
gives the table. `SweepStopUndone`: the entry at which a sweep stopped is
what it was, and so is lapsed and still active, whatever was ended before.

`ScopesStayWithinCaps` is about the snapshot in `out.seen`, the one the call was decided
on. It assumes `OnlyStandardPolicies`, since only the policy looks at the state of
the device in the snapshot.

`PagesAreComplete` adds `IdsAreBehind`: where the context chooses the ids, each
listed one is below its counter. A new entry then stands behind all others and
moves none of them (`ChosenIdIsLast`); an id that a caller chooses may only push
entries back, so that one is shown twice but none is missed (`PositionsGrow`).

The refinement proof maps each shape to a step of the abstract pool or a
stutter. A grant is the one hard case: the abstract pool asks that the units fit
its limit, which is `GrantBounds` again, seen through the mapping.

All of these assume a device and a scope (`Devices # {}`, `Scopes # {}`), since
the table of an empty context has no entry of its type.

**Estimator.** `Fit(n)` is what checked arithmetic makes of a number: itself, or
an overflow. Sums and products of `Fit`s are the `Fit` of the exact sum or
product (`FitPlus`, `FitTimes`), so each part of an estimate is the `Fit` of its
exact value; `FitTimes` needs the other factor not to be zero, which is what
validation asks of shots and repetitions. As no part is longer than the total,
any overflow means that the total does not fit. `EstimatorInvariant` adds
`Summed`, how units and time relate after any number of classes, and
`CreditsKept`, that the granted work is paid for by credits inside the limit.

**Usage.** As for `Admission`, by shape: a call does one of ten things to the account, the
events and the measured times. `UsageInv` holds types, one event a task, and
refunds that their charge covers. `AccountFollowsEvents` assumes
`TasksNameOneUnit` (a record in credits or in rate, not both), which is what
`overflow_leak` violates. `FailuresAreUndone` has the same assumption for the same
reason; taking units off that were put on, clearing a return that was stored and
restoring a finalised account each give back what was there.

`RateStaysInEnvelope` is about what `rate_window_consumed` answers when it walks
the event list, which is as long as the reservation was used. `WalkCovers` says
what holds after the first `k` events: a walk that did not saturate has at least
the charges of its window less their refunds. It is proved by induction along the
list; `Upwards` gives induction over the numbers from the fact that a set of
numbers has a least member, since the installed provers cannot instantiate an
induction rule that takes a predicate. `WindowsFit` is `RateEnvelope` for all
windows, those without an event included, and is kept by each shape: a charge
was compared with the walk of its own window, and a return, late as it may be,
is counted where its charge is. The device of a rate reservation has an
accounting span (`RateWindows`): the rate policy reserves nothing without one
(`policies/rate.c:341`).

`RemainingCanBeUsed` needs types only, since the walk of `get_usage` is that of a
consume; what could be lost is the boundary between saturating subtraction there
and saturating addition here.

**ContextLock.** The invariant adds that nobody is promised a view while a
mutating call is under way, waiting for the mutex included. `LockInv` says who
has which lock: the mutex is with the one thread that is inside
(`HolderIsInside`), the service's lock with one that is not idle. From this
`OnlyTheProviderBlocks` follows, the safety side of `MutexIsReleased`: whoever has the mutex
can take its next step, except in the deadlock that `provider_deadlock` shows.

**Config.** `ConfigInv` says who owns the blocks: the table, the staged table, or
the load as the entry under construction (`Owned`, `EntryApart`); that each
allocated entry uses loaded plugins (`PluginsLoaded`); that the load can still
restore what it found (`BeforeKept`); and what the staged table holds so far
(`StagedSoFar`). `LoadsPublishEverything` needs a second invariant, that a load
that unwinds has an error code to return.

**ConfigText.** `TextInv` relates where the author is to where the parser is. The
paths follow in every document (`PathsFollow`). For the rest, `SectionFollows`
says that in documents of the documented shape the parser's section is the
mapping the author is in, so that a scalar goes where it was written
(`FieldIsFiled`) and adds to the device just what it adds to its meaning
(`FieldIsMeant`). `ItemsAreOpen` keeps the author in an item and lets no options
be opened twice. `DevicesKeepApart` does not need `SectionFollows`: a line of an
item changes the last device only, and with nothing but what was written in the
last item. The vocabulary is any set of keys in the mappings of a device
(`ScalarsAssumption`), and a document is of any length.

**Only model-checked.** `MutexIsReleased` is liveness, which is out of the
prover's reach. It is the only property of a passing run that no theorem states.

## 5. Not modelled

* Splitting a configuration line (`split_key_value`, `trim`, comments, quotes),
  and reading the file: `ConfigText` starts at the key and the value, and `Config` at the
  parsed configuration.
* Loading a shared object: a plugin file is the name its descriptor gives, or
  missing, or broken.
* A third-party capacity callback that changes the numbers of the view, and a
  third-party estimator: `Admission` takes the baseline time it answers as an
  input, `Estimator` is the built-in one.
* `evaluate`, `get_capacity`, `get_device` and `get_reservation` change no table
  and share the operators of the calls that do.
* Destroying a context and the deep copies in and out of it.
* Failures that leave the same state and return the same code are one outcome, in
  `reserve` and in the configuration calls. In `ContextLock` one `Fail` stands for
  all early returns of a call: that each of them gives the mutex back is
  not checked.
* What some properties leave open: `UnderuseReported` is a lower bound and allows that capacity which was
  returned and consumed again is counted as unused; `RemainingIsUsable` asks in
  the window of the latest event, which is the one `get_usage` answers for; and
  `DevicesKeepApart` is about items that begin with `device_id`.
* Messages, retry hints, metadata contents, logging, the Python and SWIG
  facades, and the containers of qhw-datastructures, which are functions and
  sequences here.

## 6. Plan

1. `Usage` composed with `Admission`: one reservation of the table with its
   account, ended by a sweep between two reports.
2. Destruction of a context: that it frees the entries, plugin states and
   output views that `Config` and `ContextLock` track, each once.
