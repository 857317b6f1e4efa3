------------------------- MODULE TransactionHistory -------------------------
(***************************************************************************)
(* The history of one demo account, from the bank to the user: the ledger  *)
(* that mockbank/app.py keeps in memory, the rows that overlapping syncs   *)
(* store of it, and the export that reads them page by page                *)
(* (frontend/src/lib/export.ts over GET /accounts/{id}/transactions).      *)
(*                                                                         *)
(* A transaction is the id its bank gave it and, as its content, a number  *)
(* of its own: two transactions may be given one id, never one number.     *)
(* Sessions, locks and failures of a sync are LinkSync's subject: here a   *)
(* sync is the fetch and, later, the commit.                               *)
(***************************************************************************)
EXTENDS Integers, FiniteSets, Functions, SequencesExt

CONSTANTS
    Syncs,        \* syncs of the account that may overlap
    Seed,         \* transactions _seed gives the account
    MaxPosted,    \* bound: transactions the bank ever makes, seeds included
    MaxRestarts,  \* bound: restarts of the bank's process
    PageSize      \* the export's limit (200)

ASSUME HistoryAssumption ==
    /\ MaxPosted \in Nat /\ Seed \in 0 .. MaxPosted /\ MaxRestarts \in Nat
    /\ PageSize \in Nat \ {0}

VARIABLES
    bank,     \* the bank's process: its ledger, its _ids counter; and all it ever made
    linked,   \* the account's row exists
    stored,   \* its transactions rows, in the order the API lists them
    sync,     \* whether each sync has fetched, and what
    export    \* the export: where it is, and what it has read

vars == <<bank, linked, stored, sync, export>>

-----------------------------------------------------------------------------
Numbers == 1 .. MaxPosted
Txn     == [id : Numbers, number : Numbers]
Idle    == [pc |-> "idle", fetched |-> {}]

Reading == {"check", "count", "rows"}

Ids(txns) == {t.id : t \in txns}

(* How many new rows come before the i-th place of a listing.              *)
NewBefore(place, i) == Cardinality({t \in DOMAIN place : place[t] < i})

(* Every new row at its place, and the rows that were there before, in     *)
(* their order, at the others.                                             *)
Listing(old, place) ==
    [i \in 1 .. Len(old) + Cardinality(DOMAIN place) |->
        IF \E t \in DOMAIN place : place[t] = i
        THEN CHOOSE t \in DOMAIN place : place[t] = i
        ELSE old[i - NewBefore(place, i)]]

(* Listings of the rows in `new` among those of `old`: ORDER BY posted_at  *)
(* DESC, id DESC.  A bank may post late or several times on one day, and   *)
(* row ids are random: a new row may come anywhere.                        *)
Listings(old, new) ==
    {Listing(old, place) : place \in Injection(new, 1 .. Len(old) + Cardinality(new))}

(* _seed and _new_txn: ids from the counter, contents never seen before.   *)
SeedFrom(number) == {[id |-> i, number |-> number + i] : i \in 1 .. Seed}

Init ==
    /\ bank = [ledger |-> SeedFrom(0), next |-> Seed + 1, made |-> Seed, restarts |-> 0]
    /\ linked = TRUE
    /\ stored = << >>
    /\ sync = [s \in Syncs |-> Idle]
    /\ export = [pc |-> "idle", offset |-> 0, total |-> 0, lines |-> << >>,
                 start |-> {}, inserted |-> 0]

-----------------------------------------------------------------------------
(* The bank.                                                               *)

(* _tick: one more transaction.                                            *)
Post ==
    /\ bank.made < MaxPosted
    /\ bank' = [bank EXCEPT !.ledger = @ \cup {[id |-> bank.next, number |-> bank.made + 1]},
                            !.next = @ + 1,
                            !.made = @ + 1]
    /\ UNCHANGED <<linked, stored, sync, export>>

(* The process starts again: count(1) and _seed.                           *)
Restart ==
    /\ bank.restarts < MaxRestarts /\ bank.made + Seed <= MaxPosted
    /\ bank' = [ledger |-> SeedFrom(bank.made), next |-> Seed + 1,
                made |-> bank.made + Seed, restarts |-> bank.restarts + 1]
    /\ UNCHANGED <<linked, stored, sync, export>>

(* Fault: only a first page of it.                                         *)
AnswerFirstPage(ledger) == {t \in ledger : t.id <= 2}

(* GET /{slug}/transactions: all of the ledger.                            *)
Answer(ledger) == ledger

-----------------------------------------------------------------------------
(* The syncs.                                                              *)

SyncFetch(s) ==
    /\ linked /\ sync[s].pc = "idle"
    /\ sync' = [sync EXCEPT ![s] = [pc |-> "fetched", fetched |-> Answer(bank.ledger)]]
    /\ UNCHANGED <<bank, linked, stored, export>>

(* INSERT ... ON CONFLICT (account_id, provider_transaction_id) DO NOTHING *)
(* and COMMIT: the rows appear at once.                                    *)
NewRows(fetched) == {t \in fetched : t.id \notin Ids(ToSet(stored))}

SyncCommit(s) ==
    /\ linked /\ sync[s].pc = "fetched"
    /\ stored' \in Listings(stored, NewRows(sync[s].fetched))
    /\ export' = IF export.pc \in Reading
                 THEN [export EXCEPT !.inserted = @ + Len(stored') - Len(stored)]
                 ELSE export
    /\ sync' = [sync EXCEPT ![s] = Idle]
    /\ UNCHANGED <<bank, linked>>

(* DELETE /accounts/{id}, which takes the rows along; a sync on its way    *)
(* ends in an error.                                                       *)
Unlink ==
    /\ linked
    /\ linked' = FALSE
    /\ stored' = << >>
    /\ sync' = [s \in Syncs |-> Idle]
    /\ UNCHANGED <<bank, export>>

-----------------------------------------------------------------------------
(* The export: pages asked for one after the other.  The API answers each  *)
(* with three statements, and each statement sees what is committed then.  *)

Begin ==
    /\ export.pc = "idle" /\ linked
    /\ export' = [export EXCEPT !.pc = "check", !.start = ToSet(stored), !.inserted = 0]
    /\ UNCHANGED <<bank, linked, stored, sync>>

(* _get_owned_account: 404 when the account is gone.                       *)
Check ==
    /\ export.pc = "check"
    /\ export' = [export EXCEPT !.pc = IF linked THEN "count" ELSE "failed"]
    /\ UNCHANGED <<bank, linked, stored, sync>>

(* SELECT count: the page's total.                                         *)
CountRows ==
    /\ export.pc = "count"
    /\ export' = [export EXCEPT !.pc = "rows", !.total = Len(stored)]
    /\ UNCHANGED <<bank, linked, stored, sync>>

(* Fault: > for >=.                                                        *)
AfterPagePastEnd(offset) == IF offset + PageSize > export.total THEN "done" ELSE "check"

(* Fault: the last row counts as a page of its own, and is left out.       *)
AfterPageShort(offset) == IF offset + PageSize + 1 >= export.total THEN "done" ELSE "check"

(* offset += 200; if (offset >= page.total) break.                         *)
AfterPage(offset) == IF offset + PageSize >= export.total THEN "done" ELSE "check"

(* SELECT ... LIMIT OFFSET: the page's items, appended to the file.        *)
Page(offset) == SubSeq(stored, offset + 1, Min({offset + PageSize, Len(stored)}))

ReadRows ==
    /\ export.pc = "rows"
    /\ export' = [export EXCEPT !.pc = AfterPage(export.offset),
                                !.lines = @ \o Page(export.offset),
                                !.offset = @ + PageSize]
    /\ UNCHANGED <<bank, linked, stored, sync>>

-----------------------------------------------------------------------------
Next ==
    \/ Post \/ Restart \/ Unlink
    \/ \E s \in Syncs : SyncFetch(s) \/ SyncCommit(s)
    \/ Begin \/ Check \/ CountRows \/ ReadRows

Spec == Init /\ [][Next]_vars

(* The scheduler and the worker sync a due account again and again, and a  *)
(* running sync ends.                                                      *)
FairSpec == Spec /\ \A s \in Syncs : WF_vars(SyncFetch(s)) /\ WF_vars(SyncCommit(s))

-----------------------------------------------------------------------------
(* Every variable has its type, one row is stored of an id, and no page is *)
(* asked for past the last total.                                          *)
TypeOK ==
    /\ bank \in [ledger : SUBSET Txn, next : Nat, made : 0 .. MaxPosted,
                 restarts : 0 .. MaxRestarts]
    /\ linked \in BOOLEAN
    /\ stored \in Seq(Txn)
    /\ \A i, j \in DOMAIN stored : stored[i].id = stored[j].id => i = j
    /\ sync \in [Syncs -> [pc : {"idle", "fetched"}, fetched : SUBSET Txn]]
    /\ export \in [pc : {"idle", "done", "failed"} \cup Reading, offset : Nat, total : Nat,
                   lines : Seq(Txn), start : SUBSET Txn, inserted : Nat]
    /\ export.pc = "check" => export.offset = 0 \/ export.offset < export.total

(* A row that was there when the export began is missing from the file, or *)
(* one is in it twice, only for a row that was inserted meanwhile: at most *)
(* one for each (an unlink during the export aside).                       *)
ExportSlack ==
    export.pc = "done" /\ linked =>
        LET read == ToSet(export.lines) IN
        /\ Cardinality(export.start \ read) <= export.inserted
        /\ Len(export.lines) - Cardinality(read) <= export.inserted

(* Every id the bank offers is stored, sooner or later, unless the bank    *)
(* loses it first or the account is unlinked.                              *)
EveryIdIsStored ==
    \A i \in Numbers :
        i \in Ids(bank.ledger)
            ~> i \in Ids(ToSet(stored)) \/ i \notin Ids(bank.ledger) \/ ~linked
=============================================================================
