------------------------------ MODULE LinkSync ------------------------------
(***************************************************************************)
(* The data plane of the aggregator: POST /accounts/link/callback          *)
(* (complete_link), sync_linked_account as it runs inside that request and *)
(* inside the worker, and DELETE /accounts/{id}, over one PostgreSQL       *)
(* database in READ COMMITTED and a provider that moves on its own.        *)
(*                                                                         *)
(* A handler is a session: it loads rows, awaits the provider, and commits *)
(* much later.  Every await is a step boundary.  A session's uncommitted   *)
(* work is in orm and buf; the tables hold what is committed.  The row     *)
(* locks PostgreSQL takes are not variables: they follow from the phases   *)
(* the sessions are in (RowLocked, KeyShared).                             *)
(*                                                                         *)
(* Abstractions: a linked_accounts row has the identity of the request     *)
(* that inserted it, and so does the access token that request obtained;   *)
(* (user_id, provider_item_id) is a connection; a provider's ledger is the *)
(* number of transactions it has posted, which are 1..ledger, and the      *)
(* balance it reports is that number.                                      *)
(***************************************************************************)
EXTENDS Naturals, FiniteSets, FiniteSetsExt, Functions

CONSTANTS
    Requests,          \* calls of POST /accounts/link/callback, each made once
    Deliveries,        \* handlings of one message by a worker, each made once
    Conns,             \* the (user_id, provider_item_id) pairs
    ConnOf,            \* ConnOf[r]: the connection request r is about
    ProviderAccounts,  \* provider_account_id values
    DemoAccount,       \* the one account each bank of mockbank/app.py has
    Plaid,             \* the connections held by Plaid, the others by the demo banks
    MaxLedger,         \* bound: transactions a provider ever posts
    NoLink             \* "no linked account loaded"

Procs == Requests \cup Deliveries

ASSUME ConstantsAssumption ==
    /\ Requests \cap Deliveries = {}
    /\ ConnOf \in [Requests -> Conns]
    /\ DemoAccount \in ProviderAccounts
    /\ Plaid \subseteq Conns
    /\ MaxLedger \in Nat
    /\ NoLink \notin Requests

VARIABLES
    links,      \* table linked_accounts: partial function on Requests
    balance,    \* table accounts: row |-> current_balance
    txns,       \* table transactions
    jobs,       \* table sync_jobs
    ledger,     \* provider: transactions posted so far on a connection
    offered,    \* provider: accounts it lists for a connection
    reports,    \* the transactions_synced that successful attempts reported
    pc,         \* where each session is
    orm,        \* the LinkedAccount object a session has loaded
    buf         \* what a session has fetched and not committed

dbVars  == <<links, balance, txns, jobs>>
envVars == <<ledger, offered, reports>>
vars    == <<links, balance, txns, jobs, ledger, offered, reports, pc, orm, buf>>

-----------------------------------------------------------------------------
LinkRow    == [status : {"active", "needs_reauth"}, token : Requests, synced : BOOLEAN]
AccountRow == [link : Requests, pid : ProviderAccounts, by : Requests]
TxnIds     == 1 .. MaxLedger
TxnRow     == [acct : AccountRow, tid : TxnIds]
JobRow     == [link : Requests, by : Procs, status : {"success", "failed"}]
Report     == [link : Requests, by : Procs, count : Nat]

LinkPhases == {"link_fetch", "link_flush", "link_commit"}
JobPhases  == {"sync_accounts", "sync_txns", "sync_read", "sync_write", "sync_commit"}
Ended      == {"done", "aborted"}
Phases     == {"idle", "lookup", "insert", "link_refresh", "sync_start", "sync_record",
               "sync_refresh"} \cup LinkPhases \cup JobPhases \cup Ended

Orm == [link : Requests \cup {NoLink}, token : Requests \cup {NoLink},
        status : {"active", "needs_reauth"}]
Buf == [pids : SUBSET ProviderAccounts, bal : 0 .. MaxLedger, ids : SUBSET TxnIds,
        dirty : SUBSET AccountRow, target : SUBSET AccountRow]

NoOrm == [link |-> NoLink, token |-> NoLink, status |-> "active"]
NoBuf == [pids |-> {}, bal |-> 0, ids |-> {}, dirty |-> {}, target |-> {}]

Links          == DOMAIN links
AccountsOf(l)  == {a \in DOMAIN balance : a.link = l}
TxnsOf(l)      == {t \in txns : t.acct.link = l}
LinksOfConn(c) == {l \in Links : ConnOf[l] = c}

(* The row r inserted and has not committed: no other session sees it.     *)
HasNewRow(r) == r \in Requests /\ pc[r] \in LinkPhases /\ orm[r].link = r

(* UPDATE linked_accounts of a re-link, emitted by the autoflush before    *)
(* select(Account) and held until the commit.                              *)
RowLocked(l) == \E r \in Requests : pc[r] = "link_commit" /\ orm[r].link = l

(* Fault: the job is only added, and flushed with everything else.         *)
JobFlushedLate(l) == \E p \in Procs : pc[p] = "sync_commit" /\ orm[p].link = l

(* FOR KEY SHARE on the parent row, taken by the flush of the sync_jobs    *)
(* insert (foreign key) and held until the session's commit.  It is        *)
(* compatible with RowLocked and conflicts with DELETE.                    *)
KeyShared(l) == \E p \in Procs : pc[p] \in JobPhases /\ orm[p].link = l

(* Session p ends: the SQLAlchemy session closes and its objects go.       *)
End(p, phase) ==
    /\ pc'  = [pc EXCEPT ![p] = phase]
    /\ orm' = [orm EXCEPT ![p] = NoOrm]
    /\ buf' = [buf EXCEPT ![p] = NoBuf]

Goto(p, phase) == pc' = [pc EXCEPT ![p] = phase]

Init ==
    /\ links = [l \in {} |-> NoLink]
    /\ balance = [a \in {} |-> 0]
    /\ txns = {}
    /\ jobs = {}
    /\ ledger = [c \in Conns |-> 0]
    /\ offered = [c \in Conns |-> {DemoAccount}]
    /\ reports = {}
    /\ pc  = [p \in Procs |-> "idle"]
    /\ orm = [p \in Procs |-> NoOrm]
    /\ buf = [p \in Procs |-> NoBuf]

-----------------------------------------------------------------------------
(* POST /accounts/link/callback                                            *)

(* provider.exchange succeeded: the request holds token r.                 *)
StartLink(r) ==
    /\ pc[r] = "idle"
    /\ Goto(r, "lookup")
    /\ UNCHANGED <<dbVars, envVars, orm, buf>>

(* The select by (user_id, provider_item_id).  A row found is mutated in   *)
(* memory only; orm.status keeps the status as LOADED, because the ORM     *)
(* later writes the status only where it differs from that.                *)
LookupLink(r) ==
    /\ pc[r] = "lookup"
    /\ \/ /\ LinksOfConn(ConnOf[r]) = {}
          /\ Goto(r, "insert")
          /\ UNCHANGED orm
       \/ \E l \in LinksOfConn(ConnOf[r]) :
            /\ orm' = [orm EXCEPT ![r] =
                         [link |-> l, token |-> r, status |-> links[l].status]]
            /\ Goto(r, "link_fetch")
    /\ UNCHANGED <<dbVars, envVars, buf>>

(* Fault: no unique index on (user_id, provider_item_id).                  *)
InsertWithoutIndex(r) ==
    /\ pc[r] = "insert"
    /\ orm' = [orm EXCEPT ![r] = [link |-> r, token |-> r, status |-> "active"]]
    /\ Goto(r, "link_fetch")
    /\ UNCHANGED <<dbVars, envVars, buf>>

(* flush of the INSERT.  The unique index makes it wait for an uncommitted *)
(* row of the same connection and fail on a committed one.                 *)
InsertLink(r) ==
    /\ pc[r] = "insert"
    /\ \A q \in Requests : ~(HasNewRow(q) /\ ConnOf[q] = ConnOf[r])
    /\ \/ /\ LinksOfConn(ConnOf[r]) = {}
          /\ orm' = [orm EXCEPT ![r] = [link |-> r, token |-> r, status |-> "active"]]
          /\ Goto(r, "link_fetch")
          /\ UNCHANGED buf
       \/ /\ LinksOfConn(ConnOf[r]) # {}
          /\ End(r, "aborted")
    /\ UNCHANGED <<dbVars, envVars>>

(* provider.fetch_accounts(linked), answered with data.                    *)
FetchForLink(r) ==
    /\ pc[r] = "link_fetch"
    /\ buf' = [buf EXCEPT ![r].pids = offered[ConnOf[r]], ![r].bal = ledger[ConnOf[r]]]
    /\ Goto(r, "link_flush")
    /\ UNCHANGED <<dbVars, envVars, orm>>

(* A provider error, RateLimited or an empty list: rollback and an error   *)
(* response.                                                               *)
LinkFails(r) ==
    /\ pc[r] = "link_fetch"
    /\ End(r, "aborted")
    /\ UNCHANGED <<dbVars, envVars>>

(* Fault: the existing ids are read without the autoflush, and its lock.   *)
FlushWithoutLock(r) ==
    /\ pc[r] = "link_flush"
    /\ orm[r].link \in Links \cup {r}
    /\ buf' = [buf EXCEPT ![r].pids = @ \ {a.pid : a \in AccountsOf(orm[r].link)}]
    /\ Goto(r, "link_commit")
    /\ UNCHANGED <<dbVars, envVars, orm>>

(* select(Account) with its autoflush: for a re-link the UPDATE of the row *)
(* comes first (waits for its lock; StaleDataError when the row is gone),  *)
(* then the ids that already have an Account are read.                     *)
FlushLink(r) ==
    /\ pc[r] = "link_flush"
    /\ LET l == orm[r].link IN
         \/ /\ l # r => l \in Links /\ ~RowLocked(l)
            /\ buf' = [buf EXCEPT ![r].pids = @ \ {a.pid : a \in AccountsOf(l)}]
            /\ Goto(r, "link_commit")
            /\ UNCHANGED orm
         \/ /\ l # r /\ l \notin Links
            /\ End(r, "aborted")
    /\ UNCHANGED <<dbVars, envVars>>

(* The row a link request commits.  A re-link writes the status only if    *)
(* the loaded one was not ACTIVE already.                                  *)
CommittedRow(r) ==
    IF orm[r].link = r
    THEN [status |-> "active", token |-> r, synced |-> FALSE]
    ELSE [links[orm[r].link] EXCEPT
            !.token  = r,
            !.status = IF orm[r].status = "active" THEN @ ELSE "active"]

CommitLink(r) ==
    /\ pc[r] = "link_commit"
    /\ LET l     == orm[r].link
           fresh == {[link |-> l, pid |-> x, by |-> r] : x \in buf[r].pids}
       IN /\ links' = [k \in Links \cup {l} |-> IF k = l THEN CommittedRow(r) ELSE links[k]]
          /\ balance' = [a \in DOMAIN balance \cup fresh |->
                           IF a \in fresh THEN buf[r].bal ELSE balance[a]]
    /\ Goto(r, "link_refresh")
    /\ buf' = [buf EXCEPT ![r] = NoBuf]
    /\ UNCHANGED <<txns, jobs, envVars, orm>>

(* What a session loads when it reads a linked_accounts row.               *)
Loaded(l) == [link |-> l, token |-> links[l].token, status |-> links[l].status]

(* db.refresh(linked): the row may be gone by now, which raises.           *)
RefreshLink(r) ==
    /\ pc[r] = "link_refresh"
    /\ \/ /\ orm[r].link \in Links
          /\ orm' = [orm EXCEPT ![r] = Loaded(orm[r].link)]
          /\ Goto(r, "sync_start")
          /\ UNCHANGED buf
       \/ /\ orm[r].link \notin Links
          /\ End(r, "aborted")
    /\ UNCHANGED <<dbVars, envVars>>

-----------------------------------------------------------------------------
(* The worker, up to the sync: unknown and needs-reauth links are skipped. *)
ReceiveRequest(d, l) ==
    /\ pc[d] = "idle"
    /\ \/ /\ l \in Links /\ links[l].status # "needs_reauth"
          /\ orm' = [orm EXCEPT ![d] = Loaded(l)]
          /\ Goto(d, "sync_start")
          /\ UNCHANGED buf
       \/ /\ l \in Links => links[l].status = "needs_reauth"
          /\ End(d, "done")
    /\ UNCHANGED <<dbVars, envVars>>

-----------------------------------------------------------------------------
(* sync_linked_account                                                     *)

SyncConn(p) == ConnOf[orm[p].link]

(* The in_progress job is flushed, not committed; its foreign key fails    *)
(* when the link was deleted since it was loaded.                          *)
OpenJob(p) ==
    /\ pc[p] = "sync_start"
    /\ \/ /\ orm[p].link \in Links
          /\ Goto(p, "sync_accounts")
          /\ UNCHANGED <<orm, buf>>
       \/ /\ orm[p].link \notin Links
          /\ End(p, "aborted")
    /\ UNCHANGED <<dbVars, envVars>>

FetchAccounts(p) ==
    /\ pc[p] = "sync_accounts"
    /\ buf' = [buf EXCEPT ![p].pids = offered[SyncConn(p)], ![p].bal = ledger[SyncConn(p)]]
    /\ Goto(p, "sync_txns")
    /\ UNCHANGED <<dbVars, envVars, orm>>

(* Plaid's PRODUCT_NOT_READY is turned into an empty list.                 *)
FetchTransactions(p) ==
    /\ pc[p] = "sync_txns"
    /\ \E n \in {ledger[SyncConn(p)]} \cup (IF SyncConn(p) \in Plaid THEN {0} ELSE {}) :
         buf' = [buf EXCEPT ![p].ids = 1 .. n]
    /\ Goto(p, "sync_read")
    /\ UNCHANGED <<dbVars, envVars, orm>>

(* Fault: the job is committed as it was opened.                           *)
JobNeverClosed(p, outcome) == [link |-> orm[p].link, by |-> p, status |-> "in_progress"]

Job(p, outcome) == [link |-> orm[p].link, by |-> p, status |-> outcome]

(* The except branch: a provider error or RateLimited closes the job as    *)
(* failed.  Any provider may answer any call with 401 or 403, whatever     *)
(* token it carries; then the status is flipped, which is an UPDATE of the *)
(* row (so it waits for a re-link holding it) when the loaded status       *)
(* differs.                                                                *)
SyncFails(p, auth) ==
    /\ pc[p] \in {"sync_accounts", "sync_txns"}
    /\ IF auth /\ orm[p].status # "needs_reauth"
       THEN /\ ~RowLocked(orm[p].link)
            /\ links' = [links EXCEPT ![orm[p].link].status = "needs_reauth"]
       ELSE links' = links
    /\ jobs' = jobs \cup {Job(p, "failed")}
    /\ End(p, "done")
    /\ UNCHANGED <<balance, txns, envVars>>

(* Fault: the balance is fetched after the transactions.                   *)
BalanceFetchedLast(p) ==
    /\ pc[p] = "sync_read"
    /\ \E first \in AccountsOf(orm[p].link) :
         buf' = [buf EXCEPT ![p].bal = ledger[SyncConn(p)], ![p].target = {first},
                            ![p].dirty = AccountsOf(orm[p].link)]
    /\ Goto(p, "sync_write")
    /\ UNCHANGED <<dbVars, envVars, orm>>

(* select(Account) of the link: balances to rewrite are those whose loaded *)
(* value differs; the target of every transaction is the first row of a    *)
(* query without ORDER BY, if there is one.                                *)
ReadAccounts(p) ==
    /\ pc[p] = "sync_read"
    /\ LET mine == AccountsOf(orm[p].link)
           differ == {a \in mine : a.pid \in buf[p].pids /\ balance[a] # buf[p].bal}
       IN \/ \E first \in mine :
               buf' = [buf EXCEPT ![p].dirty = differ, ![p].target = {first}]
          \/ /\ mine = {}
             /\ buf' = [buf EXCEPT ![p].ids = {}, ![p].target = {}]
    /\ Goto(p, "sync_write")
    /\ UNCHANGED <<dbVars, envVars, orm>>

(* The transaction rows session p is about to insert or has inserted.      *)
RowsOf(p) == [acct : buf[p].target, tid : buf[p].ids]

(* Fault: rows are locked as they are read, in the order each query happens*)
(* to return them.                                                         *)
LockedWhenRead(p, q) ==
    /\ q # p
    /\ pc[q] \in {"sync_write", "sync_commit"}
    /\ RowsOf(q) \cap RowsOf(p) # {}

(* Rows q has written and not committed, which another writer waits for.   *)
InTheWay(p, q) ==
    /\ q # p
    /\ pc[q] = "sync_commit"
    /\ buf[q].dirty \cap buf[p].dirty # {} \/ RowsOf(q) \cap RowsOf(p) # {}

(* Fault: the rows offered are counted, not the rows inserted.             *)
CountOffered(p) ==
    /\ pc[p] = "sync_write"
    /\ \A q \in Procs : ~InTheWay(p, q)
    /\ Goto(p, "sync_commit")
    /\ UNCHANGED <<dbVars, envVars, orm, buf>>

(* The balance UPDATEs and INSERT ... ON CONFLICT DO NOTHING, which keeps  *)
(* the rows that are not stored yet; rowcount is their number.             *)
WriteRows(p) ==
    /\ pc[p] = "sync_write"
    /\ \A q \in Procs : ~InTheWay(p, q)
    /\ buf' = [buf EXCEPT ![p].ids = {t.tid : t \in RowsOf(p) \ txns}]
    /\ Goto(p, "sync_commit")
    /\ UNCHANGED <<dbVars, envVars, orm>>

(* Faults: a sync replaces what is stored; a success clears needs_reauth.  *)
ApplyReplaces(p) ==
    /\ txns' = (txns \ TxnsOf(orm[p].link)) \cup RowsOf(p)
    /\ jobs' = jobs \cup {Job(p, "success")}
    /\ UNCHANGED <<links, balance>>

ApplyReactivates(p) ==
    /\ links' = [links EXCEPT ![orm[p].link] = [@ EXCEPT !.synced = TRUE, !.status = "active"]]
    /\ jobs' = jobs \cup {Job(p, "success")}
    /\ UNCHANGED <<balance, txns>>

(* What a successful sync commits, in one database transaction.            *)
Apply(p) ==
    /\ balance' = [a \in DOMAIN balance |->
                     IF a \in buf[p].dirty THEN buf[p].bal ELSE balance[a]]
    /\ txns' = txns \cup RowsOf(p)
    /\ links' = [links EXCEPT ![orm[p].link].synced = TRUE]
    /\ jobs' = jobs \cup {Job(p, "success")}

(* The commit returns: of what it fetched the session still has the count. *)
CommitSync(p) ==
    /\ pc[p] = "sync_commit"
    /\ ~RowLocked(orm[p].link)
    /\ Apply(p)
    /\ Goto(p, "sync_refresh")
    /\ buf' = [buf EXCEPT ![p] = [NoBuf EXCEPT !.ids = buf[p].ids]]
    /\ UNCHANGED <<envVars, orm>>

(* The commit raises: it was rolled back, or it was applied and only the   *)
(* acknowledgement was lost.  The session rolls back either way and        *)
(* forgets its count.                                                      *)
LoseCommit(p) ==
    /\ pc[p] = "sync_commit"
    /\ ~RowLocked(orm[p].link)
    /\ Apply(p) \/ UNCHANGED dbVars
    /\ Goto(p, "sync_record")
    /\ buf' = [buf EXCEPT ![p] = NoBuf]
    /\ UNCHANGED <<envVars, orm>>

(* db.refresh(job) raises when an unlink has taken the job; otherwise      *)
(* _emit tells the caller and the log what was inserted.                   *)
ReportOf(p) == [link |-> orm[p].link, by |-> p, count |-> Cardinality(buf[p].ids)]

ReportSync(p) ==
    /\ pc[p] = "sync_refresh"
    /\ \/ /\ Job(p, "success") \in jobs
          /\ reports' = reports \cup {ReportOf(p)}
          /\ End(p, "done")
       \/ /\ Job(p, "success") \notin jobs
          /\ End(p, "aborted")
          /\ UNCHANGED reports
    /\ UNCHANGED <<dbVars, ledger, offered>>

(* The failed job, which reports that nothing was inserted.                *)
RecordFailed(p) ==
    /\ pc[p] = "sync_record"
    /\ \/ /\ orm[p].link \in Links
          /\ jobs' = jobs \cup {Job(p, "failed")}
          /\ End(p, "done")
       \/ /\ orm[p].link \notin Links
          /\ End(p, "aborted")
          /\ UNCHANGED jobs
    /\ UNCHANGED <<links, balance, txns, envVars>>

-----------------------------------------------------------------------------
(* Any exception no branch handles, and a crash: the session is rolled     *)
(* back.  The API answers with an error, the worker logs and moves on.     *)
Abort(p) ==
    /\ pc[p] \notin Ended \cup {"idle"}
    /\ End(p, "aborted")
    /\ UNCHANGED <<dbVars, envVars>>

(* Fault: the foreign key from accounts does not cascade.                  *)
UnlinkKeepsAccounts(l) ==
    /\ l \in Links
    /\ ~RowLocked(l) /\ ~KeyShared(l)
    /\ links' = Restrict(links, Links \ {l})
    /\ UNCHANGED <<balance, txns, jobs, envVars, pc, orm, buf>>

(* DELETE /accounts/{id}: the link goes and the foreign keys cascade.  It  *)
(* waits for every lock on the row.                                        *)
Unlink(l) ==
    /\ l \in Links
    /\ ~RowLocked(l) /\ ~KeyShared(l)
    /\ links' = Restrict(links, Links \ {l})
    /\ balance' = Restrict(balance, DOMAIN balance \ AccountsOf(l))
    /\ txns' = txns \ TxnsOf(l)
    /\ jobs' = {j \in jobs : j.link # l}
    /\ UNCHANGED <<envVars, pc, orm, buf>>

(* The provider on its own.                                                *)
Post(c) ==
    /\ ledger[c] < MaxLedger
    /\ ledger' = [ledger EXCEPT ![c] = @ + 1]
    /\ UNCHANGED <<dbVars, offered, reports, pc, orm, buf>>

OpenAccount(c, x) ==
    /\ c \in Plaid
    /\ x \notin offered[c]
    /\ offered' = [offered EXCEPT ![c] = @ \cup {x}]
    /\ UNCHANGED <<dbVars, ledger, reports, pc, orm, buf>>

-----------------------------------------------------------------------------
LinkStep(r) ==
    \/ StartLink(r) \/ LookupLink(r) \/ InsertLink(r) \/ FetchForLink(r)
    \/ LinkFails(r) \/ FlushLink(r) \/ CommitLink(r) \/ RefreshLink(r)

SyncStep(p) ==
    \/ OpenJob(p) \/ FetchAccounts(p) \/ FetchTransactions(p)
    \/ \E auth \in BOOLEAN : SyncFails(p, auth)
    \/ ReadAccounts(p) \/ WriteRows(p) \/ CommitSync(p) \/ ReportSync(p)
    \/ LoseCommit(p) \/ RecordFailed(p)

ProviderStep == \E c \in Conns : Post(c) \/ \E x \in ProviderAccounts : OpenAccount(c, x)

(* Every session has ended: nothing is left to do.                         *)
Finished == (\A p \in Procs : pc[p] \in Ended) /\ UNCHANGED vars

Next ==
    \/ \E r \in Requests : LinkStep(r) \/ Unlink(r)
    \/ \E d \in Deliveries, l \in Requests : ReceiveRequest(d, l)
    \/ \E p \in Procs : SyncStep(p) \/ Abort(p)
    \/ ProviderStep
    \/ Finished

Spec == Init /\ [][Next]_vars

(* A session that can go on does: every await has a timeout, and an error  *)
(* ends it.  Nothing is assumed of users, providers or crashes.            *)
Progress(p) == (p \in Requests /\ LinkStep(p)) \/ SyncStep(p)

FairSpec == Spec /\ \A p \in Procs : WF_vars(Progress(p))
-----------------------------------------------------------------------------
(* Properties.                                                             *)

(* Every table holds rows of its shape, and so does every session.         *)
TypeOK ==
    /\ Links \subseteq Requests /\ links \in [Links -> LinkRow]
    /\ DOMAIN balance \subseteq AccountRow /\ balance \in [DOMAIN balance -> 0 .. MaxLedger]
    /\ txns \subseteq TxnRow
    /\ jobs \subseteq JobRow
    /\ ledger \in [Conns -> 0 .. MaxLedger]
    /\ offered \in [Conns -> SUBSET ProviderAccounts]
    /\ reports \subseteq Report
    /\ pc \in [Procs -> Phases]
    /\ orm \in [Procs -> Orm]
    /\ buf \in [Procs -> Buf]

(* A connection has one linked_accounts row, however many callbacks, some  *)
(* of which are rolled back, look it up and insert it at once.             *)
OneLinkPerConnection == \A k, l \in Links : ConnOf[k] = ConnOf[l] => k = l

(* A link has one Account per provider account.  No constraint of the      *)
(* schema says so: complete_link reads the existing ids and inserts the    *)
(* others, with an await in between, in concurrent re-links of one link.   *)
NoDuplicateAccounts ==
    \A a, b \in DOMAIN balance : a.link = b.link /\ a.pid = b.pid => a = b

(* No account, transaction or job outlives its link, although syncs that   *)
(* loaded the link before an unlink commit after it.                       *)
CascadeComplete ==
    /\ \A a \in DOMAIN balance : a.link \in Links
    /\ \A t \in txns : t.acct \in DOMAIN balance
    /\ \A j \in jobs : j.link \in Links

(* The transactions_synced of some reports, added up.                      *)
Total(told) == MapThenSumSet(LAMBDA r : r.count, told)

ReportsOf(l) == {r \in reports : r.link = l}

(* Some report says what the successful attempt j inserted.                *)
ReportedIn(j, told) == \E r \in told : r.by = j.by

AllReported(l, told) ==
    \A j \in jobs : j.link = l /\ j.status = "success" => ReportedIn(j, told)

(* Overlapping and repeated syncs of a link never report one stored        *)
(* transaction twice: the transactions_synced reported for it add up to at *)
(* most what is stored, and to exactly that once every attempt whose       *)
(* commit was applied has reported.  What is stored goes unreported when a *)
(* commit is applied and its acknowledgement lost, or when the attempt is  *)
(* cut off before _emit.                                                   *)
CountsMatch ==
    \A l \in Links :
      /\ Total(ReportsOf(l)) <= Cardinality(TxnsOf(l))
      /\ AllReported(l, ReportsOf(l)) => Total(ReportsOf(l)) = Cardinality(TxnsOf(l))

(* A demo bank's cached balance is never ahead of its stored transactions  *)
(* once a sync succeeded: balances are fetched before transactions and     *)
(* both are committed at once.                                             *)
BalanceBacked ==
    \A a \in DOMAIN balance :
      ConnOf[a.link] \notin Plaid /\ links[a.link].synced =>
        \A n \in 1 .. balance[a] : [acct |-> a, tid |-> n] \in txns

(* "permanent until the user re-links": a parked link is reactivated only  *)
(* together with a new token, never by a sync that was already running.    *)
ParkedUntilRelink ==
    [][\A l \in Links \cap Links' :
         links[l].status = "needs_reauth" /\ links'[l].status = "active"
           => links'[l].token # links[l].token]_vars

(* Every callback and every delivery comes to an end: no lock cycle, no    *)
(* wait that lasts.  (Each is made once, so in the end none is running.)   *)
EverySessionEnds == <>[](\A p \in Procs : pc[p] \in {"idle"} \cup Ended)

-----------------------------------------------------------------------------
(* The inductive invariant behind OneLinkPerConnection,                    *)
(* NoDuplicateAccounts and CascadeComplete.                                *)

(* A row is committed by the request that inserted it, at the end of its   *)
(* linking phases; while that row is uncommitted no other row of its       *)
(* connection is live or pending.                                          *)
NewRows ==
    /\ \A l \in Links : pc[l] \notin {"idle", "lookup", "insert"} \cup LinkPhases
    /\ \A r \in Requests : HasNewRow(r) => LinksOfConn(ConnOf[r]) = {}
    /\ \A q, r \in Requests :
         HasNewRow(q) /\ HasNewRow(r) /\ ConnOf[q] = ConnOf[r] => q = r

(* Between its flush and its commit a re-link holds its row alone, and the *)
(* accounts it is about to add are not there.                              *)
RelinkLock ==
    \A r \in Requests : pc[r] = "link_commit" =>
      /\ orm[r].link # NoLink
      /\ orm[r].link # r => orm[r].link \in Links
      /\ \A q \in Requests :
           pc[q] = "link_commit" /\ orm[q].link = orm[r].link => q = r
      /\ \A a \in AccountsOf(orm[r].link) : a.pid \notin buf[r].pids

(* A session with a flushed job keeps its link from being deleted, and     *)
(* what it is about to write hangs off that link's accounts.               *)
JobPinsLink ==
    \A p \in Procs : pc[p] \in JobPhases =>
      /\ orm[p].link \in Links
      /\ pc[p] \in {"sync_write", "sync_commit"} => buf[p].target \subseteq AccountsOf(orm[p].link)

(* No two sessions, and no unlink, ever break the structure of the tables. *)
Structure ==
    /\ OneLinkPerConnection
    /\ NoDuplicateAccounts
    /\ CascadeComplete
    /\ NewRows
    /\ RelinkLock
    /\ JobPinsLink

-----------------------------------------------------------------------------
(* Refinement: what the tables show of each connection.                    *)
Shown(c) ==
    [linked |-> LinksOfConn(c) # {},
     parked |-> \E l \in LinksOfConn(c) : links[l].status = "needs_reauth",
     pids   |-> {a.pid : a \in {b \in DOMAIN balance : ConnOf[b.link] = c}},
     stored |-> {<<t.acct.pid, t.tid>> : t \in {u \in txns : ConnOf[u.acct.link] = c}}]

Abstract == INSTANCE ConnectionView WITH
              conn <- [c \in Conns |-> Shown(c)]

(* Every interleaving of callbacks, syncs, failures and unlinks looks to a *)
(* reader like atomic steps of ConnectionView.                             *)
ImplementsView == Abstract!Spec

(* What is shown is consistent: a linked connection has an account to be   *)
(* synced and unlinked through, an unlinked one has left nothing behind.   *)
ViewConsistent == Abstract!Consistent

-----------------------------------------------------------------------------
(* What the documentation says and the code does not do.                   *)

(* "re-link reactivates the connection" (tests/test_resilience.py).        *)
RelinkReactivates ==
    [][\A r \in Requests :
         pc[r] = "link_commit" /\ pc'[r] = "link_refresh"
           => links'[orm[r].link].status = "active"]_vars

(* "an at-least-once redelivery can't double-count": one provider          *)
(* transaction is stored once on a link.                                   *)
StoredOnce ==
    \A t, u \in txns : t.acct.link = u.acct.link /\ t.tid = u.tid => t = u
=============================================================================
