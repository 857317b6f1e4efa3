------------------------------ MODULE Ledger ------------------------------
(***************************************************************************)
(* The transaction ledger of an account's page: the two dates, the pages   *)
(* of PAGE_SIZE rows, and the query that keeps showing the last answer     *)
(* until the one for the new dates and page is there.                      *)
(*                                                                         *)
(* A filter, a pair of dates, is a name with the number of rows it         *)
(* matches; a page is the number of rows on it and the total that came     *)
(* with them.  The query cache is external: each filter and page has an    *)
(* entry and a fetch of its own, which goes on when it is no longer shown. *)
(* The search box, which hides rows of the page shown, is left empty.      *)
(***************************************************************************)
EXTENDS Naturals

CONSTANTS
    Filters,
    NoDates,        \* both dates empty
    PageSize,
    MaxTotal,       \* bound: rows the account ever has
    None

VARIABLES
    total,      \* total[f]: stored rows that f matches
    filter,     \* start and end
    page,
    cache,      \* cache[k]: the last answer for a filter and page
    pending,    \* what is being fetched
    kept        \* the last key shown whose answer was there

vars == <<total, filter, page, cache, pending, kept>>

-----------------------------------------------------------------------------
(* No page behind the last one is ever offered.                            *)
Keys    == Filters \X (0..MaxTotal)
Key     == <<filter, page>>
Unknown == [loaded |-> FALSE, failed |-> FALSE, count |-> 0, total |-> 0]
Failure == [Unknown EXCEPT !.failed = TRUE]

(* list_transactions: a page, and the total with it.                       *)
Read(k) ==
    LET t == total[k[1]]
        offset == k[2] * PageSize
        left == IF t > offset THEN t - offset ELSE 0
    IN  [loaded |-> TRUE, failed |-> FALSE,
         count |-> IF left > PageSize THEN PageSize ELSE left, total |-> t]

(* placeholderData: while a key has no answer yet, the last one is shown.  *)
Shown ==
    IF cache[Key].loaded \/ cache[Key].failed \/ kept = None THEN cache[Key] ELSE cache[kept]

(* The buttons under the table are drawn.                                  *)
PagerShown == Shown.loaded /\ Shown.total > PageSize
LastPage == (Shown.total + PageSize - 1) \div PageSize - 1

Init ==
    /\ total \in {t \in [Filters -> 0..MaxTotal] : \A f \in Filters : t[f] <= t[NoDates]}
    /\ filter = NoDates
    /\ page = 0
    /\ cache = [k \in Keys |-> Unknown]
    /\ pending = {<<NoDates, 0>>}
    /\ kept = None

-----------------------------------------------------------------------------
(* The page asks for its new key: fetched unless the answer is fresh; a    *)
(* failed one is tried again.                                              *)
Observe(k) ==
    /\ filter' = k[1]
    /\ page' = k[2]
    /\ kept' = IF cache[k].loaded THEN k ELSE kept
    /\ \/ pending' = pending \cup {k}
       \/ cache[k].loaded /\ UNCHANGED pending
    /\ cache' = IF cache[k].failed THEN [cache EXCEPT ![k] = Unknown] ELSE cache
    /\ UNCHANGED total

(* A date is changed: setPage(0).                                          *)
SetDates(f) == f # filter /\ Observe(<<f, 0>>)

PreviousPage == PagerShown /\ page > 0 /\ Observe(<<filter, page - 1>>)

NextPage == PagerShown /\ page < LastPage /\ Observe(<<filter, page + 1>>)

Lands(k, answer) ==
    /\ k \in pending
    /\ pending' = pending \ {k}
    /\ cache' = [cache EXCEPT ![k] = answer]
    /\ kept' = IF k = Key /\ answer.loaded THEN k ELSE kept
    /\ UNCHANGED <<total, filter, page>>

(* The answer, or an error after both tries, which leaves an old answer.   *)
FetchLands(k) == Lands(k, Read(k))
FetchFails(k) == Lands(k, IF cache[k].loaded THEN cache[k] ELSE Failure)

(* The timer of a manual sync (ManualSync) has what is shown fetched again. *)
Invalidated ==
    /\ pending' = pending \cup {Key}
    /\ UNCHANGED <<total, filter, page, cache, kept>>

(* A sync stores a row, which some filters match.                          *)
SyncStores(F) ==
    /\ NoDates \in F
    /\ total[NoDates] < MaxTotal
    /\ total' = [f \in Filters |-> IF f \in F THEN total[f] + 1 ELSE total[f]]
    /\ UNCHANGED <<filter, page, cache, pending, kept>>

Next ==
    \/ \E f \in Filters : SetDates(f)
    \/ PreviousPage \/ NextPage \/ Invalidated
    \/ \E k \in Keys : FetchLands(k) \/ FetchFails(k)
    \/ \E F \in SUBSET Filters : SyncStores(F)

Spec == Init /\ [][Next]_vars

-----------------------------------------------------------------------------
(* When the page has its answer and says that nothing matches the dates    *)
(* (AccountDetail.tsx:442-445), nothing does: the answer's total is 0.     *)
EmptyMeansNothing ==
    cache[Key].loaded /\ cache[Key].count = 0 => cache[Key].total = 0
=============================================================================
