-------------------------- MODULE ReservationList --------------------------
(***************************************************************************)
(* qhw_adm_list_reservations: a filtered, paged read of the reservation    *)
(* table in the order of ids.  One call is atomic, but a caller reads a    *)
(* list page after page by offset, and the table changes between pages.    *)
(* The call writes nothing, so it is an operator on a state of Admission   *)
(* and what a reader relies on is a property of Admission's steps.         *)
(***************************************************************************)
EXTENDS Admission

CONSTANTS
    Any,        \* a criterion that the filter's flags leave out
    Filters     \* filters that callers pass

(* The flags that select on the user, the job and the workload kind are    *)
(* equality tests on fields that never change, as the scope is: scope      *)
(* stands for all four.                                                    *)
Filter ==
    [device : Devices \cup {Any}, scope : Scopes \cup {Any},
     state : {"ACTIVE"} \cup Terminal \cup {Any},
     created_after : Times, created_before : Times \cup {Any},
     expires_after : Times, expires_before : Times \cup {Any}]

ASSUME FiltersAssumption == Filters \subseteq Filter

\* validate_reservation_filter
FilterInvalid(f) ==
    \/ f.created_before # Any /\ f.created_after > f.created_before
    \/ f.expires_before # Any /\ f.expires_after > f.expires_before

Admits(criterion, value) == criterion = Any \/ criterion = value

NotAfter(value, bound) == bound = Any \/ value <= bound

\* Mutant: the list forgets what has ended.
MatchesActive(f, r) ==
    /\ r.state = "ACTIVE"
    /\ Admits(f.device, r.device)
    /\ Admits(f.scope, r.scope)

\* reservation_matches_filter
Matches(f, r) ==
    /\ Admits(f.device, r.device)
    /\ Admits(f.scope, r.scope)
    /\ Admits(f.state, r.state)
    /\ f.created_after <= r.created
    /\ NotAfter(r.created, f.created_before)
    /\ f.expires_after <= r.expires
    /\ NotAfter(r.expires, f.expires_before)

Matching(f) ==
    {i \in Ids : reservations[i].state # "ABSENT"
                 /\ Matches(f, reservations[i])}

\* The index of i in the sorted array of the matching ids.
Position(matching, i) == Cardinality({j \in matching : j < i})

\* The ids copied out; the caller's array holds them in ascending order.
Page(matching, offset, capacity) ==
    {i \in matching : LET position == Position(matching, i)
                      IN  offset <= position /\ position < offset + capacity}

List(f, offset, capacity) ==
    IF FilterInvalid(f) THEN [rc |-> "INVAL", total |-> 0, page |-> {}]
    ELSE [rc |-> "OK", total |-> Cardinality(Matching(f)),
          page |-> Page(Matching(f), offset, capacity)]

-----------------------------------------------------------------------------
(* Filters on what a reservation is created with and keeps.                *)
FixedFilters ==
    {f \in Filters : /\ f.state = Any
                     /\ f.expires_after = 0
                     /\ f.expires_before = Any
                     /\ ~FilterInvalid(f)}

(* What a reader who has read n entries still gets, if it goes on now.     *)
StillToRead(f, n) == List(f, n, MaxId).page

NoIdsFromCallers == \A req \in Requests : req.id = 0

(* A reader that pages through the list while others reserve, renew, end    *)
(* and sweep misses nothing: what lay behind its offset still does after    *)
(* any step, if the filter asks for nothing that changes.  When the context *)
(* chooses all ids it is not shown an entry twice either; an id of a        *)
(* caller's choice may sort before the offset and move the rest up.         *)
PagesSkipNothing ==
    [][reservations' # reservations =>
        \A f \in FixedFilters, n \in 0..MaxId :
            LET before == StillToRead(f, n)
                after == StillToRead(f, n)'
            IN  /\ before \subseteq after
                /\ NoIdsFromCallers => after \cap Matching(f) = before]_vars
=============================================================================
