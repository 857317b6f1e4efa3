--------------------------- MODULE LinkSyncProofs ---------------------------
(***************************************************************************)
(* Theorems about LinkSync.  The inductive invariant is Inv: the types and *)
(* the structure of the tables are proved together, because a session's    *)
(* loaded link is known to be a linked_accounts row only through the locks *)
(* it holds (RelinkLock, JobPinsLink).                                     *)
(*                                                                         *)
(* The second half is about needs_reauth: only a new token ends it.  That  *)
(* rests on Tokens: the token a row or a session holds was obtained for    *)
(* that row's connection, by a request that is past its commit when the    *)
(* row holds it.                                                           *)
(***************************************************************************)
EXTENDS LinkSync, FiniteSetTheorems, TLAPS

Inv == TypeOK /\ Structure

(* The five sets of values a sync or a callback may write.                 *)
RowTypes == /\ Links \subseteq Requests /\ links \in [Links -> LinkRow]
            /\ DOMAIN balance \subseteq AccountRow
            /\ balance \in [DOMAIN balance -> 0 .. MaxLedger]
            /\ txns \subseteq TxnRow
            /\ jobs \subseteq JobRow
EnvTypes == /\ ledger \in [Conns -> 0 .. MaxLedger]
            /\ offered \in [Conns -> SUBSET ProviderAccounts]
            /\ reports \subseteq Report
SessionTypes == /\ pc \in [Procs -> Phases]
                /\ orm \in [Procs -> Orm]
                /\ buf \in [Procs -> Buf]

-----------------------------------------------------------------------------
(* Types.                                                                  *)

(* TypeOK, in the three parts the actions change separately.               *)
LEMMA TypeParts == /\ TypeOK <=> RowTypes /\ EnvTypes /\ SessionTypes
                   /\ TypeOK' <=> RowTypes' /\ EnvTypes' /\ SessionTypes'
  BY DEF TypeOK, RowTypes, EnvTypes, SessionTypes

(* Structure is true of empty tables.                                      *)
LEMMA InitInv == Init => Inv
  <1> SUFFICES ASSUME Init PROVE Inv
    OBVIOUS
  <1>1. TypeOK
    BY ConstantsAssumption
       DEF Init, TypeOK, Links, Procs, NoOrm, NoBuf, Orm, Buf, Phases, Ended
  <1>2. Structure
    BY DEF Init, Structure, OneLinkPerConnection, NoDuplicateAccounts, CascadeComplete,
           NewRows, RelinkLock, JobPinsLink, Links, HasNewRow, LinkPhases, JobPhases, Procs
  <1> QED BY <1>1, <1>2 DEF Inv

(* Rows and the environment keep their types when nothing writes them.     *)
LEMMA UnchangedRows == ASSUME RowTypes, UNCHANGED <<links, balance, txns, jobs>> PROVE RowTypes'
  BY DEF RowTypes, Links

(* A step that leaves the provider alone keeps its types. *)
LEMMA UnchangedEnv == ASSUME EnvTypes, UNCHANGED <<ledger, offered, reports>> PROVE EnvTypes'
  BY DEF EnvTypes

(* A session that moves on, with new locals of the right shape.            *)
LEMMA MoveTypes ==
  ASSUME SessionTypes, NEW p \in Procs, NEW phase \in Phases, NEW o \in Orm, NEW b \in Buf,
         pc' = [pc EXCEPT ![p] = phase],
         orm' = [orm EXCEPT ![p] = o],
         buf' = [buf EXCEPT ![p] = b]
  PROVE SessionTypes'
  BY DEF SessionTypes, Procs

(* A session that ends.                                                    *)
LEMMA EndTypes ==
  ASSUME SessionTypes, NEW p \in Procs, NEW phase \in Ended, End(p, phase)
  PROVE SessionTypes'
  <1>1. phase \in Phases /\ NoOrm \in Orm /\ NoBuf \in Buf
    BY ConstantsAssumption DEF Phases, NoOrm, Orm, NoBuf, Buf
  <1> QED BY <1>1, MoveTypes DEF End

(* A session that moves on and reloads its link or keeps it.               *)
LEMMA LoadTypes ==
  ASSUME SessionTypes, NEW p \in Procs, NEW phase \in Phases, NEW o \in Orm,
         Goto(p, phase), orm' = [orm EXCEPT ![p] = o], UNCHANGED buf
  PROVE SessionTypes'
  BY DEF SessionTypes, Goto, Procs

(* A session that moves on and keeps its link.                             *)
LEMMA FetchTypes ==
  ASSUME SessionTypes, NEW p \in Procs, NEW phase \in Phases, NEW b \in Buf,
         Goto(p, phase), buf' = [buf EXCEPT ![p] = b], UNCHANGED orm
  PROVE SessionTypes'
  BY DEF SessionTypes, Goto, Procs

(* A session that only moves on.                                           *)
LEMMA GotoTypes ==
  ASSUME SessionTypes, NEW p \in Procs, NEW phase \in Phases,
         Goto(p, phase), UNCHANGED <<orm, buf>>
  PROVE SessionTypes'
  BY DEF SessionTypes, Goto, Procs

(* complete_link keeps every type, step by step. *)
LEMMA LinkStepTypes == ASSUME Inv, NEW r \in Requests, LinkStep(r) PROVE TypeOK'
  <1>0. /\ RowTypes /\ EnvTypes /\ SessionTypes /\ r \in Procs
        /\ orm[r] \in Orm /\ buf[r] \in Buf
    BY TypeParts DEF Inv, SessionTypes, Procs
  <1>1. CASE StartLink(r)
    BY <1>0, <1>1, UnchangedRows, UnchangedEnv, GotoTypes, TypeParts DEF dbVars, envVars, StartLink, Phases
  <1>2. CASE LookupLink(r)
    <2>1. SessionTypes'
      <3>1. CASE Goto(r, "insert") /\ UNCHANGED <<orm, buf>>
        BY <1>0, <3>1, GotoTypes DEF Phases
      <3>2. CASE \E l \in LinksOfConn(ConnOf[r]) :
                   /\ orm' = [orm EXCEPT ![r] =
                                [link |-> l, token |-> r, status |-> links[l].status]]
                   /\ Goto(r, "link_fetch") /\ UNCHANGED buf
        <4>1. PICK l \in LinksOfConn(ConnOf[r]) :
                 /\ orm' = [orm EXCEPT ![r] =
                              [link |-> l, token |-> r, status |-> links[l].status]]
                 /\ Goto(r, "link_fetch") /\ UNCHANGED buf
          BY <3>2
        <4>2. [link |-> l, token |-> r, status |-> links[l].status] \in Orm
          BY <1>0 DEF LinksOfConn, RowTypes, LinkRow, Orm, Links
        <4> QED BY <1>0, <4>1, <4>2, LoadTypes DEF Phases, LinkPhases
      <3> QED BY <1>2, <3>1, <3>2 DEF LookupLink
    <2> QED BY <1>0, <1>2, <2>1, UnchangedRows, UnchangedEnv, TypeParts DEF dbVars, envVars, LookupLink
  <1>3. CASE InsertLink(r)
    <2>1. [link |-> r, token |-> r, status |-> "active"] \in Orm
      BY DEF Orm
    <2>2. SessionTypes'
      BY <1>0, <1>3, <2>1, LoadTypes, EndTypes DEF InsertLink, Phases, LinkPhases, Ended
    <2> QED BY <1>0, <1>3, <2>2, UnchangedRows, UnchangedEnv, TypeParts DEF dbVars, envVars, InsertLink
  <1>4. CASE FetchForLink(r)
    <2>1. [buf[r] EXCEPT !.pids = offered[ConnOf[r]], !.bal = ledger[ConnOf[r]]] \in Buf
      BY <1>0, ConstantsAssumption DEF Buf, EnvTypes
    <2>2. SessionTypes'
      BY <1>0, <1>4, <2>1, FetchTypes DEF FetchForLink, Phases, LinkPhases
    <2> QED BY <1>0, <1>4, <2>2, UnchangedRows, UnchangedEnv, TypeParts DEF dbVars, envVars, FetchForLink
  <1>5. CASE LinkFails(r)
    BY <1>0, <1>5, UnchangedRows, UnchangedEnv, EndTypes, TypeParts DEF dbVars, envVars, LinkFails, Ended
  <1>6. CASE FlushLink(r)
    <2> DEFINE b == [buf[r] EXCEPT !.pids = @ \ {a.pid : a \in AccountsOf(orm[r].link)}]
    <2>1. b \in Buf
      BY <1>0 DEF Buf
    <2>2. \/ End(r, "aborted")
          \/ Goto(r, "link_commit") /\ buf' = [buf EXCEPT ![r] = b] /\ UNCHANGED orm
      BY <1>6 DEF FlushLink
    <2>3. SessionTypes'
      BY <1>0, <2>1, <2>2, FetchTypes, EndTypes DEF Phases, LinkPhases, Ended
    <2> QED BY <1>0, <1>6, <2>3, UnchangedRows, UnchangedEnv, TypeParts DEF dbVars, envVars, FlushLink
  <1>7. CASE CommitLink(r)
    <2> DEFINE l == orm[r].link
               fresh == {[link |-> l, pid |-> x, by |-> r] : x \in buf[r].pids}
    <2>1. l \in Requests /\ (l # r => l \in Links)
      BY <1>0, <1>7 DEF CommitLink, Inv, Structure, RelinkLock, Orm
    <2>2. CommittedRow(r) \in LinkRow
      BY <1>0, <2>1 DEF CommittedRow, RowTypes, LinkRow, Links
    <2>3. Links' \subseteq Requests /\ links' \in [Links' -> LinkRow]
      BY <1>0, <1>7, <2>1, <2>2 DEF CommitLink, RowTypes, Links
    <2>4. fresh \subseteq AccountRow /\ buf[r].bal \in 0 .. MaxLedger
      BY <1>0, <2>1 DEF Buf, AccountRow
    <2>5. /\ DOMAIN balance' \subseteq AccountRow
          /\ balance' \in [DOMAIN balance' -> 0 .. MaxLedger]
      BY <1>0, <1>7, <2>4 DEF CommitLink, RowTypes
    <2>6. NoBuf \in Buf
      BY ConstantsAssumption DEF Buf, NoBuf
    <2>7. SessionTypes'
      BY <1>0, <1>7, <2>6, FetchTypes DEF CommitLink, Phases
    <2> QED BY <1>0, <1>7, <2>3, <2>5, <2>7, UnchangedEnv, TypeParts DEF dbVars, envVars, CommitLink, RowTypes
  <1>8. CASE RefreshLink(r)
    <2>1. orm[r].link \in Links => Loaded(orm[r].link) \in Orm
      BY <1>0 DEF RowTypes, LinkRow, Loaded, Orm, Links
    <2>2. SessionTypes'
      BY <1>0, <1>8, <2>1, LoadTypes, EndTypes DEF RefreshLink, Phases, Ended
    <2> QED BY <1>0, <1>8, <2>2, UnchangedRows, UnchangedEnv, TypeParts DEF dbVars, envVars, RefreshLink
  <1> QED BY <1>1, <1>2, <1>3, <1>4, <1>5, <1>6, <1>7, <1>8 DEF LinkStep

(* The worker's lookup keeps every type. *)
LEMMA ReceiveRequestTypes ==
  ASSUME Inv, NEW d \in Deliveries, NEW l \in Requests, ReceiveRequest(d, l)
  PROVE TypeOK'
  <1>0. RowTypes /\ EnvTypes /\ SessionTypes /\ d \in Procs
    BY TypeParts DEF Inv, Procs
  <1>1. l \in Links => Loaded(l) \in Orm
    BY <1>0 DEF RowTypes, LinkRow, Loaded, Orm, Links
  <1>2. SessionTypes'
    BY <1>0, <1>1, LoadTypes, EndTypes DEF ReceiveRequest, Phases, Ended
  <1> QED BY <1>0, <1>2, UnchangedRows, UnchangedEnv, TypeParts DEF dbVars, envVars, ReceiveRequest

(* The job row session p writes.                                           *)
LEMMA JobType ==
  ASSUME RowTypes, SessionTypes, NEW p \in Procs, orm[p].link \in Links
  PROVE Job(p, "failed") \in JobRow /\ Job(p, "success") \in JobRow
  BY DEF RowTypes, Job, JobRow

(* What session p reports; rowcount is a number because a session holds    *)
(* finitely many rows.                                                     *)
LEMMA ReportType ==
  ASSUME SessionTypes, NEW p \in Procs, orm[p].link \in Requests
  PROVE ReportOf(p) \in Report
  <1>1. IsFiniteSet(TxnIds)
    BY ConstantsAssumption, FS_Interval DEF TxnIds
  <1>2. buf[p].ids \subseteq TxnIds
    BY DEF SessionTypes, Buf
  <1>3. Cardinality(buf[p].ids) \in Nat
    BY <1>1, <1>2, FS_Subset, FS_CardinalityType
  <1> QED BY <1>3 DEF ReportOf, Report

(* What a successful sync writes has the types of the tables.              *)
LEMMA ApplyTypes ==
  ASSUME RowTypes, SessionTypes, NEW p \in Procs, orm[p].link \in Links, Apply(p)
  PROVE RowTypes'
  <1>1. buf[p] \in Buf
    BY DEF SessionTypes
  <1>2. Links' \subseteq Requests /\ links' \in [Links' -> LinkRow]
    BY DEF RowTypes, Apply, Links, LinkRow
  <1>3. /\ DOMAIN balance' \subseteq AccountRow
        /\ balance' \in [DOMAIN balance' -> 0 .. MaxLedger]
    BY <1>1 DEF RowTypes, Apply, Buf
  <1>4. txns' \subseteq TxnRow
    BY <1>1 DEF RowTypes, Apply, RowsOf, TxnRow, Buf
  <1>5. jobs' \subseteq JobRow
    BY JobType DEF RowTypes, Apply
  <1> QED BY <1>2, <1>3, <1>4, <1>5 DEF RowTypes

(* sync_linked_account keeps every type, step by step. *)
LEMMA SyncStepTypes == ASSUME Inv, NEW p \in Procs, SyncStep(p) PROVE TypeOK'
  <1>0. /\ RowTypes /\ EnvTypes /\ SessionTypes
        /\ orm[p] \in Orm /\ buf[p] \in Buf
    BY TypeParts DEF Inv, SessionTypes
  <1>l. pc[p] \in JobPhases => orm[p].link \in Links /\ SyncConn(p) \in Conns
    BY <1>0, ConstantsAssumption DEF Inv, Structure, JobPinsLink, SyncConn, RowTypes
  <1>b. NoBuf \in Buf
    BY ConstantsAssumption DEF Buf, NoBuf
  <1>1. CASE OpenJob(p)
    <2>1. SessionTypes'
      BY <1>0, <1>1, GotoTypes, EndTypes DEF OpenJob, Phases, JobPhases, Ended
    <2> QED BY <1>0, <1>1, <2>1, UnchangedRows, UnchangedEnv, TypeParts DEF dbVars, envVars, OpenJob
  <1>2. CASE FetchAccounts(p)
    <2>1. [buf[p] EXCEPT !.pids = offered[SyncConn(p)], !.bal = ledger[SyncConn(p)]] \in Buf
      BY <1>0, <1>2, <1>l DEF FetchAccounts, JobPhases, Buf, EnvTypes
    <2>2. SessionTypes'
      BY <1>0, <1>2, <2>1, FetchTypes DEF FetchAccounts, Phases, JobPhases
    <2> QED BY <1>0, <1>2, <2>2, UnchangedRows, UnchangedEnv, TypeParts DEF dbVars, envVars, FetchAccounts
  <1>3. CASE FetchTransactions(p)
    <2>1. PICK n \in 0 .. MaxLedger : buf' = [buf EXCEPT ![p].ids = 1 .. n]
      <3>1. {ledger[SyncConn(p)]} \cup (IF SyncConn(p) \in Plaid THEN {0} ELSE {})
              \subseteq 0 .. MaxLedger
        BY <1>0, <1>3, <1>l, ConstantsAssumption DEF FetchTransactions, JobPhases, EnvTypes
      <3> QED BY <1>3, <3>1 DEF FetchTransactions
    <2>2. [buf[p] EXCEPT !.ids = 1 .. n] \in Buf
      BY <1>0, ConstantsAssumption DEF Buf, TxnIds
    <2>3. SessionTypes'
      BY <1>0, <1>3, <2>1, <2>2, FetchTypes DEF FetchTransactions, Phases, JobPhases
    <2> QED BY <1>0, <1>3, <2>3, UnchangedRows, UnchangedEnv, TypeParts DEF dbVars, envVars, FetchTransactions
  <1>4. ASSUME NEW auth \in BOOLEAN, SyncFails(p, auth) PROVE TypeOK'
    <2>1. orm[p].link \in Links
      BY <1>4, <1>l DEF SyncFails, JobPhases
    <2>2. SessionTypes'
      BY <1>0, <1>4, EndTypes DEF SyncFails, Ended
    <2>3. links' \in [Links' -> LinkRow] /\ Links' = Links
      BY <1>0, <1>4, <2>1 DEF SyncFails, RowTypes, Links, LinkRow
    <2>4. jobs' \subseteq JobRow
      BY <1>0, <1>4, <2>1, JobType DEF SyncFails, RowTypes
    <2>5. RowTypes'
      BY <1>0, <1>4, <2>3, <2>4 DEF SyncFails, RowTypes
    <2> QED BY <1>0, <1>4, <2>2, <2>5, UnchangedEnv, TypeParts DEF envVars, SyncFails
  <1>5. CASE ReadAccounts(p)
    <2>1. /\ {a \in AccountsOf(orm[p].link) :
                a.pid \in buf[p].pids /\ balance[a] # buf[p].bal} \subseteq AccountRow
          /\ AccountsOf(orm[p].link) \subseteq AccountRow
      BY <1>0 DEF AccountsOf, RowTypes
    <2>2. PICK b \in Buf : buf' = [buf EXCEPT ![p] = b]
      <3>1. CASE buf' = [buf EXCEPT ![p].ids = {}, ![p].target = {}]
        <4>1. [buf[p] EXCEPT !.ids = {}, !.target = {}] \in Buf
          BY <1>0 DEF Buf
        <4> QED BY <3>1, <4>1
      <3>2. CASE \E first \in AccountsOf(orm[p].link) :
                   buf' = [buf EXCEPT ![p].dirty =
                              {a \in AccountsOf(orm[p].link) :
                                 a.pid \in buf[p].pids /\ balance[a] # buf[p].bal},
                                      ![p].target = {first}]
        <4>1. PICK first \in AccountsOf(orm[p].link) :
                   buf' = [buf EXCEPT ![p].dirty =
                              {a \in AccountsOf(orm[p].link) :
                                 a.pid \in buf[p].pids /\ balance[a] # buf[p].bal},
                                      ![p].target = {first}]
          BY <3>2
        <4>2. [buf[p] EXCEPT !.dirty =
                 {a \in AccountsOf(orm[p].link) :
                    a.pid \in buf[p].pids /\ balance[a] # buf[p].bal},
                             !.target = {first}] \in Buf
          BY <1>0, <2>1 DEF Buf
        <4> QED BY <1>0, <4>1, <4>2
      <3> QED BY <1>5, <3>1, <3>2 DEF ReadAccounts
    <2>3. SessionTypes'
      BY <1>0, <1>5, <2>2, FetchTypes DEF ReadAccounts, Phases, JobPhases
    <2> QED BY <1>0, <1>5, <2>3, UnchangedRows, UnchangedEnv, TypeParts DEF dbVars, envVars, ReadAccounts
  <1>6. CASE WriteRows(p)
    <2>1. [buf[p] EXCEPT !.ids = {t.tid : t \in RowsOf(p) \ txns}] \in Buf
      BY <1>0 DEF Buf, RowsOf
    <2>2. SessionTypes'
      BY <1>0, <1>6, <2>1, FetchTypes DEF WriteRows, Phases, JobPhases
    <2> QED BY <1>0, <1>6, <2>2, UnchangedRows, UnchangedEnv, TypeParts DEF dbVars, envVars, WriteRows
  <1>7. CASE CommitSync(p)
    <2>1. RowTypes'
      BY <1>0, <1>7, <1>l, ApplyTypes DEF CommitSync, JobPhases
    <2>b. [NoBuf EXCEPT !.ids = buf[p].ids] \in Buf
      BY <1>0, <1>b DEF Buf, NoBuf
    <2>2. SessionTypes'
      BY <1>0, <1>7, <2>b, FetchTypes DEF CommitSync, Phases
    <2> QED BY <1>0, <1>7, <2>1, <2>2, UnchangedEnv, TypeParts DEF envVars, CommitSync
  <1>8. CASE LoseCommit(p)
    <2>1. RowTypes'
      BY <1>0, <1>8, <1>l, ApplyTypes, UnchangedRows DEF dbVars, LoseCommit, JobPhases
    <2>2. SessionTypes'
      BY <1>0, <1>8, <1>b, FetchTypes DEF LoseCommit, Phases
    <2> QED BY <1>0, <1>8, <2>1, <2>2, UnchangedEnv, TypeParts DEF envVars, LoseCommit
  <1>9. CASE RecordFailed(p)
    <2>1. jobs' \subseteq JobRow
      BY <1>0, <1>9, JobType DEF RecordFailed, RowTypes
    <2>2. RowTypes'
      BY <1>0, <1>9, <2>1 DEF RecordFailed, RowTypes, Links
    <2>3. SessionTypes'
      BY <1>0, <1>9, EndTypes DEF RecordFailed, Ended
    <2> QED BY <1>0, <1>9, <2>2, <2>3, UnchangedEnv, TypeParts DEF envVars, RecordFailed
  <1>10. CASE ReportSync(p)
    <2>1. reports' \subseteq Report
      <3>1. CASE reports' = reports
        BY <1>0, <3>1 DEF EnvTypes
      <3>2. CASE Job(p, "success") \in jobs /\ reports' = reports \cup {ReportOf(p)}
        <4>1. orm[p].link \in Requests
          BY <1>0, <3>2 DEF RowTypes, Job, JobRow
        <4> QED BY <1>0, <3>2, <4>1, ReportType DEF EnvTypes
      <3> QED BY <1>10, <3>1, <3>2 DEF ReportSync
    <2>2. EnvTypes'
      BY <1>0, <1>10, <2>1 DEF ReportSync, EnvTypes
    <2>3. SessionTypes'
      BY <1>0, <1>10, EndTypes DEF ReportSync, Ended
    <2> QED BY <1>0, <1>10, <2>2, <2>3, UnchangedRows, TypeParts DEF dbVars, ReportSync
  <1> QED BY <1>1, <1>2, <1>3, <1>4, <1>5, <1>6, <1>7, <1>8, <1>9, <1>10 DEF SyncStep

(* A session that is rolled back keeps every type. *)
LEMMA AbortTypes == ASSUME Inv, NEW p \in Procs, Abort(p) PROVE TypeOK'
  BY UnchangedRows, UnchangedEnv, EndTypes, TypeParts DEF Inv, Abort, Ended, dbVars, envVars

(* An unlink and its cascade keep every type. *)
LEMMA UnlinkTypes == ASSUME Inv, NEW l \in Requests, Unlink(l) PROVE TypeOK'
  <1>1. RowTypes /\ EnvTypes /\ SessionTypes
    BY TypeParts DEF Inv
  <1>2. RowTypes'
    BY <1>1 DEF Unlink, RowTypes, Links, Restrict, TxnsOf
  <1>3. EnvTypes' /\ SessionTypes'
    BY <1>1 DEF Unlink, EnvTypes, SessionTypes, envVars
  <1> QED BY <1>2, <1>3, TypeParts

(* What the provider does on its own keeps every type. *)
LEMMA ProviderTypes == ASSUME Inv, ProviderStep PROVE TypeOK'
  <1>1. RowTypes /\ EnvTypes /\ SessionTypes
    BY TypeParts DEF Inv
  <1>2. RowTypes' /\ SessionTypes'
    BY <1>1 DEF ProviderStep, Post, OpenAccount, RowTypes, SessionTypes, Links, dbVars
  <1>3. EnvTypes'
    BY <1>1, ConstantsAssumption DEF ProviderStep, Post, OpenAccount, EnvTypes
  <1> QED BY <1>2, <1>3, TypeParts

-----------------------------------------------------------------------------
(* Structure.                                                              *)

Early == {"idle", "lookup", "insert"} \cup LinkPhases

(* Only session p moves.                                                   *)
OnlyMoves(p) == \A q \in Procs \ {p} :
                  pc'[q] = pc[q] /\ orm'[q] = orm[q] /\ buf'[q] = buf[q]

(* The tables keep their links and accounts, and new rows hang off these.  *)
SameLinks == /\ Links' = Links
             /\ DOMAIN balance' = DOMAIN balance
             /\ \A t \in txns' : t.acct \in DOMAIN balance
             /\ \A j \in jobs' : j.link \in Links

(* A step without a commit leaves every link's accounts as they are. *)
LEMMA UnchangedTables == ASSUME Inv, UNCHANGED dbVars PROVE SameLinks
  BY DEF Inv, Structure, CascadeComplete, SameLinks, dbVars, Links

(* A session that neither gains an uncommitted row nor the lock of a       *)
(* re-link, and that stays on a live link once it has a job.               *)
LEMMA QuietMove ==
  ASSUME Inv, NEW p \in Procs, OnlyMoves(p), SameLinks,
         pc'[p] # "link_commit",
         HasNewRow(p)' => HasNewRow(p),
         p \in Links => pc'[p] \notin Early,
         pc'[p] \in JobPhases =>
           /\ orm'[p].link \in Links
           /\ pc'[p] \in {"sync_write", "sync_commit"} =>
                buf'[p].target \subseteq AccountsOf(orm'[p].link)
  PROVE Structure'
  <1>0. Structure /\ TypeOK
    BY DEF Inv
  <1>1. OneLinkPerConnection' /\ NoDuplicateAccounts' /\ CascadeComplete'
    BY <1>0 DEF Structure, OneLinkPerConnection, NoDuplicateAccounts, CascadeComplete, SameLinks
  <1>2. \A q \in Requests : HasNewRow(q)' => HasNewRow(q)
    BY DEF HasNewRow, OnlyMoves, Procs
  <1>3. NewRows'
    <2>1. ASSUME NEW l \in Links' PROVE pc'[l] \notin Early
      BY <1>0, <2>1 DEF Structure, NewRows, SameLinks, OnlyMoves, TypeOK, Procs, Early
    <2> QED BY <1>0, <1>2, <2>1 DEF Structure, NewRows, SameLinks, LinksOfConn, Early
  <1>4. RelinkLock'
    BY <1>0 DEF Structure, RelinkLock, SameLinks, OnlyMoves, AccountsOf, Procs
  <1>5. JobPinsLink'
    BY <1>0 DEF Structure, JobPinsLink, SameLinks, OnlyMoves, AccountsOf
  <1> QED BY <1>1, <1>3, <1>4, <1>5 DEF Structure

(* A session that ends without a commit keeps the structure. *)
LEMMA EndStructure ==
  ASSUME Inv, NEW p \in Procs, NEW phase \in Ended, End(p, phase), SameLinks
  PROVE Structure'
  <1>1. pc'[p] = phase /\ OnlyMoves(p)
    BY DEF Inv, TypeOK, End, OnlyMoves
  <1>2. ~HasNewRow(p)' /\ pc'[p] \notin Early \cup JobPhases
    BY <1>1 DEF HasNewRow, Ended, Early, LinkPhases, JobPhases
  <1> QED BY <1>1, <1>2, QuietMove DEF Early, LinkPhases

(* complete_link keeps the structure: the unique index orders the inserts, the row lock the re-links. *)
LEMMA LinkStepStructure == ASSUME Inv, NEW r \in Requests, LinkStep(r) PROVE Structure'
  <1>0. TypeOK /\ Structure /\ r \in Procs /\ NoLink \notin Requests
    BY ConstantsAssumption DEF Inv, Procs
  <1>l. pc[r] \in Early => r \notin Links
    BY <1>0 DEF Structure, NewRows, Early
  <1>1. CASE StartLink(r)
    <2>1. OnlyMoves(r) /\ pc'[r] = "lookup" /\ SameLinks
      BY <1>0, <1>1, UnchangedTables DEF StartLink, Goto, TypeOK, OnlyMoves
    <2> QED BY <1>0, <1>1, <1>l, <2>1, QuietMove DEF StartLink, HasNewRow, Early, LinkPhases, JobPhases
  <1>2. CASE LookupLink(r)
    <2>1. /\ OnlyMoves(r) /\ SameLinks
          /\ \/ pc'[r] = "insert"
             \/ pc'[r] = "link_fetch" /\ orm'[r].link \in Links
      <3>1. OnlyMoves(r) /\ pc'[r] \in {"insert", "link_fetch"}
        BY <1>0, <1>2 DEF LookupLink, Goto, TypeOK, OnlyMoves
      <3>2. ASSUME pc'[r] # "insert" PROVE orm'[r].link \in Links
        BY <1>0, <1>2, <3>2 DEF LookupLink, Goto, TypeOK, LinksOfConn
      <3> QED BY <1>2, <3>1, <3>2, UnchangedTables DEF LookupLink
    <2>2. pc'[r] \notin JobPhases /\ pc'[r] # "link_commit" /\ r \notin Links
      BY <1>l, <1>2, <2>1 DEF LookupLink, Early, LinkPhases, JobPhases
    <2>3. ~HasNewRow(r)'
      BY <2>1, <2>2 DEF HasNewRow, LinkPhases
    <2> QED BY <1>0, <2>1, <2>2, <2>3, QuietMove
  <1>3. CASE InsertLink(r)
    <2>1. CASE End(r, "aborted")
      BY <1>0, <1>3, <2>1, EndStructure, UnchangedTables DEF InsertLink, Ended
    <2>2. CASE LinksOfConn(ConnOf[r]) = {} /\ ~End(r, "aborted")
      <3>1. /\ OnlyMoves(r) /\ SameLinks /\ pc'[r] = "link_fetch"
            /\ orm'[r].link = r /\ r \notin Links
        BY <1>0, <1>l, <1>3, <2>2, UnchangedTables
           DEF InsertLink, Goto, TypeOK, OnlyMoves, Early
      <3>2. OneLinkPerConnection' /\ NoDuplicateAccounts' /\ CascadeComplete'
        BY <1>0, <3>1 DEF Structure, OneLinkPerConnection, NoDuplicateAccounts,
                          CascadeComplete, SameLinks
      <3>3. \A q \in Requests \ {r} : HasNewRow(q)' <=> HasNewRow(q)
        BY <3>1 DEF HasNewRow, OnlyMoves, Procs
      <3>4. \A q \in Requests : HasNewRow(q) => ConnOf[q] # ConnOf[r]
        BY <1>3 DEF InsertLink
      <3>5. NewRows'
        BY <1>0, <2>2, <3>1, <3>3, <3>4
           DEF Structure, NewRows, SameLinks, LinksOfConn, OnlyMoves, TypeOK, Procs
      <3>6. RelinkLock'
        BY <1>0, <3>1 DEF Structure, RelinkLock, SameLinks, OnlyMoves, AccountsOf, Procs
      <3>7. JobPinsLink'
        BY <1>0, <3>1 DEF Structure, JobPinsLink, SameLinks, OnlyMoves, AccountsOf, JobPhases
      <3> QED BY <3>2, <3>5, <3>6, <3>7 DEF Structure
    <2> QED BY <1>3, <2>1, <2>2 DEF InsertLink
  <1>4. CASE FetchForLink(r)
    <2>1. OnlyMoves(r) /\ pc'[r] = "link_flush" /\ orm' = orm /\ SameLinks
      BY <1>0, <1>4, UnchangedTables DEF FetchForLink, Goto, TypeOK, OnlyMoves
    <2> QED BY <1>0, <1>4, <1>l, <2>1, QuietMove
            DEF FetchForLink, HasNewRow, Early, LinkPhases, JobPhases
  <1>5. CASE LinkFails(r)
    BY <1>0, <1>5, EndStructure, UnchangedTables DEF LinkFails, Ended
  <1>6. CASE FlushLink(r)
    <2> DEFINE l == orm[r].link
               b == [buf[r] EXCEPT !.pids = @ \ {a.pid : a \in AccountsOf(l)}]
    <2>1. CASE End(r, "aborted")
      BY <1>0, <1>6, <2>1, EndStructure, UnchangedTables DEF FlushLink, Ended
    <2>2. CASE ~End(r, "aborted")
      <3>1. /\ OnlyMoves(r) /\ SameLinks /\ pc'[r] = "link_commit" /\ orm' = orm
            /\ l # r => l \in Links /\ ~RowLocked(l)
            /\ buf'[r] = b
        BY <1>0, <1>6, <2>2, UnchangedTables DEF FlushLink, Goto, TypeOK, OnlyMoves
      <3>2. r \notin Links /\ buf[r] \in Buf /\ pc[r] = "link_flush"
        BY <1>0, <1>6, <1>l DEF FlushLink, Early, LinkPhases, TypeOK
      <3>3. OneLinkPerConnection' /\ NoDuplicateAccounts' /\ CascadeComplete'
        BY <1>0, <3>1 DEF Structure, OneLinkPerConnection, NoDuplicateAccounts,
                          CascadeComplete, SameLinks
      <3>4. \A q \in Requests : HasNewRow(q)' <=> HasNewRow(q)
        BY <3>1, <3>2 DEF HasNewRow, OnlyMoves, Procs, LinkPhases
      <3>5. NewRows'
        BY <1>0, <3>1, <3>2, <3>4
           DEF Structure, NewRows, SameLinks, LinksOfConn, OnlyMoves, TypeOK, Procs
      <3>6. \A a \in AccountsOf(l) : a.pid \notin b.pids
        BY <3>2 DEF Buf
      <3>7. \A q \in Requests \ {r} : pc[q] = "link_commit" => orm[q].link # l
        BY <1>0, <3>1, <3>2 DEF RowLocked, Structure, RelinkLock
      <3>8. l # NoLink
        BY <1>0, <3>1 DEF TypeOK, Links
      <3>9. RelinkLock'
        <4>1. SUFFICES ASSUME NEW q \in Requests, pc'[q] = "link_commit"
              PROVE /\ orm[q].link # NoLink
                    /\ orm[q].link # q => orm[q].link \in Links
                    /\ \A s \in Requests :
                         pc'[s] = "link_commit" /\ orm[s].link = orm[q].link => s = q
                    /\ \A a \in AccountsOf(orm[q].link) : a.pid \notin buf'[q].pids
          BY <3>1 DEF RelinkLock, SameLinks, AccountsOf
        <4>2. CASE q = r
          BY <3>1, <3>6, <3>7, <3>8, <4>2 DEF OnlyMoves, Procs
        <4>3. CASE q # r
          BY <1>0, <3>1, <3>7, <4>1, <4>3 DEF Structure, RelinkLock, OnlyMoves, Procs
        <4> QED BY <4>2, <4>3
      <3>10. JobPinsLink'
        BY <1>0, <3>1 DEF Structure, JobPinsLink, SameLinks, OnlyMoves, AccountsOf, JobPhases
      <3> QED BY <3>3, <3>5, <3>9, <3>10 DEF Structure
    <2> QED BY <2>1, <2>2
  <1>7. CASE CommitLink(r)
    <2> DEFINE l == orm[r].link
               fresh == {[link |-> l, pid |-> x, by |-> r] : x \in buf[r].pids}
    <2>1. /\ OnlyMoves(r) /\ pc'[r] = "link_refresh" /\ orm' = orm
          /\ Links' = Links \cup {l}
          /\ DOMAIN balance' = DOMAIN balance \cup fresh
          /\ txns' = txns /\ jobs' = jobs
      BY <1>0, <1>7 DEF CommitLink, Goto, TypeOK, OnlyMoves, Links
    <2>2. /\ pc[r] = "link_commit" /\ r \notin Links
          /\ l # r => l \in Links
          /\ l \in Requests
          /\ \A q \in Requests : pc[q] = "link_commit" /\ orm[q].link = l => q = r
          /\ \A a \in AccountsOf(l) : a.pid \notin buf[r].pids
      BY <1>0, <1>7, <1>l DEF CommitLink, Early, LinkPhases, Structure, RelinkLock, TypeOK, Orm
    <2>3. l = r => HasNewRow(r)
      BY <2>2 DEF HasNewRow, LinkPhases
    <2>4. OneLinkPerConnection'
      BY <1>0, <2>1, <2>2, <2>3
         DEF Structure, OneLinkPerConnection, NewRows, LinksOfConn
    <2>5. NoDuplicateAccounts'
      BY <1>0, <2>1, <2>2 DEF Structure, NoDuplicateAccounts, AccountsOf
    <2>6. CascadeComplete'
      BY <1>0, <2>1 DEF Structure, CascadeComplete
    <2>7. \A q \in Requests : HasNewRow(q)' <=> q # r /\ HasNewRow(q)
      BY <2>1 DEF HasNewRow, OnlyMoves, Procs, LinkPhases
    <2>8. NewRows'
      <3>1. ASSUME NEW k \in Links' PROVE pc'[k] \notin Early
        BY <1>0, <2>1, <2>2, <3>1
           DEF Structure, NewRows, OnlyMoves, TypeOK, Procs, Early, LinkPhases
      <3>2. ASSUME NEW q \in Requests, HasNewRow(q)' PROVE LinksOfConn(ConnOf[q])' = {}
        BY <1>0, <2>1, <2>2, <2>3, <2>7, <3>2 DEF Structure, NewRows, LinksOfConn
      <3> QED BY <1>0, <2>7, <3>1, <3>2 DEF Structure, NewRows, Early
    <2>9. RelinkLock'
      <3>1. ASSUME NEW q \in Requests, pc'[q] = "link_commit"
            PROVE /\ q # r /\ pc[q] = "link_commit"
                  /\ orm'[q] = orm[q] /\ buf'[q] = buf[q] /\ orm[q].link # l
        BY <2>1, <2>2, <3>1 DEF OnlyMoves, Procs
      <3>2. ASSUME NEW q \in Requests, pc'[q] = "link_commit"
            PROVE \A a \in AccountsOf(orm[q].link)' : a.pid \notin buf[q].pids
        BY <1>0, <2>1, <3>1, <3>2 DEF Structure, RelinkLock, AccountsOf
      <3> QED BY <1>0, <2>1, <3>1, <3>2 DEF Structure, RelinkLock, AccountsOf
    <2>10. JobPinsLink'
      BY <1>0, <2>1 DEF Structure, JobPinsLink, OnlyMoves, AccountsOf, JobPhases
    <2> QED BY <2>4, <2>5, <2>6, <2>8, <2>9, <2>10 DEF Structure
  <1>8. CASE RefreshLink(r)
    <2>1. CASE End(r, "aborted")
      BY <1>0, <1>8, <2>1, EndStructure, UnchangedTables DEF RefreshLink, Ended
    <2>2. CASE ~End(r, "aborted")
      <3>1. OnlyMoves(r) /\ SameLinks /\ pc'[r] = "sync_start"
        BY <1>0, <1>8, <2>2, UnchangedTables DEF RefreshLink, Goto, TypeOK, OnlyMoves
      <3> QED BY <1>0, <3>1, QuietMove DEF HasNewRow, Early, LinkPhases, JobPhases
    <2> QED BY <2>1, <2>2
  <1> QED BY <1>1, <1>2, <1>3, <1>4, <1>5, <1>6, <1>7, <1>8 DEF LinkStep

(* The worker's lookup keeps the structure. *)
LEMMA ReceiveRequestStructure ==
  ASSUME Inv, NEW d \in Deliveries, NEW l \in Requests, ReceiveRequest(d, l)
  PROVE Structure'
  <1>0. TypeOK /\ d \in Procs /\ d \notin Requests
    BY ConstantsAssumption DEF Inv, Procs
  <1>1. CASE End(d, "done")
    BY <1>0, <1>1, EndStructure, UnchangedTables DEF ReceiveRequest, Ended
  <1>2. CASE ~End(d, "done")
    <2>1. OnlyMoves(d) /\ SameLinks /\ pc'[d] = "sync_start"
      BY <1>0, <1>2, UnchangedTables DEF ReceiveRequest, Goto, TypeOK, OnlyMoves
    <2> QED BY <1>0, <2>1, QuietMove DEF HasNewRow, Early, LinkPhases, JobPhases
  <1> QED BY <1>1, <1>2

(* A session that holds a job commits rows that hang off its own link.     *)
LEMMA ApplySameLinks ==
  ASSUME Inv, NEW p \in Procs, pc[p] = "sync_commit", Apply(p)
  PROVE SameLinks
  <1>1. orm[p].link \in Links /\ buf[p].target \subseteq AccountsOf(orm[p].link)
    BY DEF Inv, Structure, JobPinsLink, JobPhases
  <1>2. Links' = Links /\ DOMAIN balance' = DOMAIN balance
    BY DEF Apply, Links, Inv, TypeOK
  <1>3. \A t \in RowsOf(p) : t.acct \in DOMAIN balance
    BY <1>1 DEF RowsOf, AccountsOf
  <1>4. \A j \in jobs' : j.link \in Links
    BY <1>1 DEF Apply, Job, Inv, Structure, CascadeComplete
  <1> QED BY <1>2, <1>3, <1>4 DEF Apply, SameLinks, Inv, Structure, CascadeComplete

(* sync_linked_account keeps the structure: its flushed job pins the link until it commits. *)
LEMMA SyncStepStructure == ASSUME Inv, NEW p \in Procs, SyncStep(p) PROVE Structure'
  <1>0. TypeOK /\ Structure
    BY DEF Inv
  <1>l. pc[p] \in JobPhases => orm[p].link \in Links
    BY <1>0 DEF Structure, JobPinsLink
  <1>1. CASE OpenJob(p)
    <2>1. CASE End(p, "aborted")
      BY <1>1, <2>1, EndStructure, UnchangedTables DEF OpenJob, Ended
    <2>2. CASE ~End(p, "aborted")
      <3>1. /\ OnlyMoves(p) /\ SameLinks /\ pc'[p] = "sync_accounts"
            /\ orm' = orm /\ orm[p].link \in Links
        BY <1>0, <1>1, <2>2, UnchangedTables DEF OpenJob, Goto, TypeOK, OnlyMoves
      <3> QED BY <3>1, QuietMove DEF HasNewRow, Early, LinkPhases, JobPhases
    <2> QED BY <2>1, <2>2
  <1>2. CASE FetchAccounts(p) \/ FetchTransactions(p)
    <2>1. /\ OnlyMoves(p) /\ SameLinks /\ pc'[p] \in {"sync_txns", "sync_read"}
          /\ orm' = orm /\ orm[p].link \in Links
      BY <1>0, <1>2, <1>l, UnchangedTables
         DEF FetchAccounts, FetchTransactions, Goto, TypeOK, OnlyMoves, JobPhases
    <2> QED BY <2>1, QuietMove DEF HasNewRow, Early, LinkPhases, JobPhases
  <1>3. ASSUME NEW auth \in BOOLEAN, SyncFails(p, auth) PROVE Structure'
    <2>1. orm[p].link \in Links
      BY <1>3, <1>l DEF SyncFails, JobPhases
    <2>2. SameLinks
      BY <1>0, <1>3, <2>1
         DEF SyncFails, SameLinks, Links, TypeOK, Structure, CascadeComplete, Job
    <2> QED BY <1>3, <2>2, EndStructure DEF SyncFails, Ended
  <1>4. CASE ReadAccounts(p)
    <2>1. /\ OnlyMoves(p) /\ SameLinks /\ pc'[p] = "sync_write"
          /\ orm' = orm /\ orm[p].link \in Links
      BY <1>0, <1>4, <1>l, UnchangedTables
         DEF ReadAccounts, Goto, TypeOK, OnlyMoves, JobPhases
    <2>2. buf'[p].target \subseteq AccountsOf(orm[p].link)
      <3>1. buf[p] \in Buf
        BY <1>0 DEF TypeOK
      <3>2. CASE buf' = [buf EXCEPT ![p].ids = {}, ![p].target = {}] /\ AccountsOf(orm[p].link) = {}
        BY <1>0, <3>1, <3>2 DEF TypeOK, Buf
      <3> QED BY <1>0, <1>4, <3>1, <3>2 DEF ReadAccounts, TypeOK, Buf
    <2> QED BY <2>1, <2>2, QuietMove DEF HasNewRow, Early, LinkPhases, JobPhases
  <1>5. CASE WriteRows(p)
    <2>1. /\ OnlyMoves(p) /\ SameLinks /\ pc'[p] = "sync_commit"
          /\ orm' = orm /\ orm[p].link \in Links
          /\ buf'[p].target = buf[p].target
      BY <1>0, <1>5, <1>l, UnchangedTables
         DEF WriteRows, Goto, TypeOK, OnlyMoves, JobPhases, Buf
    <2>2. buf[p].target \subseteq AccountsOf(orm[p].link)
      BY <1>0, <1>5 DEF WriteRows, Structure, JobPinsLink, JobPhases
    <2> QED BY <2>1, <2>2, QuietMove DEF HasNewRow, Early, LinkPhases, JobPhases
  <1>6. CASE CommitSync(p)
    <2>1. OnlyMoves(p) /\ pc'[p] = "sync_refresh"
      BY <1>0, <1>6 DEF CommitSync, Goto, TypeOK, OnlyMoves
    <2>2. SameLinks
      BY <1>6, ApplySameLinks DEF CommitSync
    <2> QED BY <2>1, <2>2, QuietMove DEF HasNewRow, Early, LinkPhases, JobPhases
  <1>7. CASE LoseCommit(p)
    <2>1. OnlyMoves(p) /\ pc'[p] = "sync_record"
      BY <1>0, <1>7 DEF LoseCommit, Goto, TypeOK, OnlyMoves
    <2>2. SameLinks
      BY <1>7, ApplySameLinks, UnchangedTables DEF LoseCommit
    <2> QED BY <2>1, <2>2, QuietMove DEF HasNewRow, Early, LinkPhases, JobPhases
  <1>8. CASE RecordFailed(p)
    <2>1. SameLinks
      BY <1>0, <1>8 DEF RecordFailed, SameLinks, Links, Structure, CascadeComplete, Job
    <2> QED BY <1>8, <2>1, EndStructure DEF RecordFailed, Ended
  <1>9. CASE ReportSync(p)
    BY <1>9, EndStructure, UnchangedTables DEF ReportSync, Ended
  <1> QED BY <1>1, <1>2, <1>3, <1>4, <1>5, <1>6, <1>7, <1>8, <1>9 DEF SyncStep

(* A session that is rolled back keeps the structure. *)
LEMMA AbortStructure == ASSUME Inv, NEW p \in Procs, Abort(p) PROVE Structure'
  BY EndStructure, UnchangedTables DEF Abort, Ended

(* An unlink keeps the structure: it waits for every lock and takes all that hangs off the link. *)
LEMMA UnlinkStructure == ASSUME Inv, NEW l \in Requests, Unlink(l) PROVE Structure'
  <1>0. TypeOK /\ Structure
    BY DEF Inv
  <1>1. /\ Links' = Links \ {l}
        /\ DOMAIN balance' = DOMAIN balance \ AccountsOf(l)
        /\ txns' = txns \ TxnsOf(l)
        /\ jobs' = {j \in jobs : j.link # l}
        /\ pc' = pc /\ orm' = orm /\ buf' = buf
    BY DEF Unlink, Links, Restrict
  <1>2. /\ \A q \in Requests : pc[q] = "link_commit" => orm[q].link # l
        /\ \A q \in Procs : pc[q] \in JobPhases => orm[q].link # l
    BY DEF Unlink, RowLocked, KeyShared
  <1>3. OneLinkPerConnection' /\ NoDuplicateAccounts' /\ CascadeComplete'
    BY <1>0, <1>1 DEF Structure, OneLinkPerConnection, NoDuplicateAccounts, CascadeComplete,
                      AccountsOf, TxnsOf
  <1>4. NewRows'
    BY <1>0, <1>1 DEF Structure, NewRows, HasNewRow, LinksOfConn
  <1>5. RelinkLock'
    BY <1>0, <1>1, <1>2 DEF Structure, RelinkLock, AccountsOf
  <1>6. JobPinsLink'
    BY <1>0, <1>1, <1>2 DEF Structure, JobPinsLink, AccountsOf
  <1> QED BY <1>3, <1>4, <1>5, <1>6 DEF Structure

(* Structure is about the tables and the sessions only.                    *)
LEMMA IdleStructure ==
  ASSUME Inv, UNCHANGED <<links, balance, txns, jobs, pc, orm, buf>> PROVE Structure'
  BY DEF Inv, Structure, OneLinkPerConnection, NoDuplicateAccounts, CascadeComplete,
         NewRows, RelinkLock, JobPinsLink, Links, HasNewRow, AccountsOf, LinksOfConn

(* Every step preserves the invariant. *)
LEMMA StepInv == Inv /\ [Next]_vars => Inv'
  <1> SUFFICES ASSUME Inv, [Next]_vars PROVE Inv'
    OBVIOUS
  <1>1. ASSUME NEW r \in Requests, LinkStep(r) PROVE Inv'
    BY <1>1, LinkStepTypes, LinkStepStructure DEF Inv
  <1>2. ASSUME NEW r \in Requests, Unlink(r) PROVE Inv'
    BY <1>2, UnlinkTypes, UnlinkStructure DEF Inv
  <1>3. ASSUME NEW d \in Deliveries, NEW l \in Requests, ReceiveRequest(d, l) PROVE Inv'
    BY <1>3, ReceiveRequestTypes, ReceiveRequestStructure DEF Inv
  <1>4. ASSUME NEW p \in Procs, SyncStep(p) PROVE Inv'
    BY <1>4, SyncStepTypes, SyncStepStructure DEF Inv
  <1>5. ASSUME NEW p \in Procs, Abort(p) PROVE Inv'
    BY <1>5, AbortTypes, AbortStructure DEF Inv
  <1>6. CASE ProviderStep
    <2>1. UNCHANGED <<links, balance, txns, jobs, pc, orm, buf>>
      BY <1>6 DEF ProviderStep, Post, OpenAccount, dbVars
    <2> QED BY <1>6, <2>1, ProviderTypes, IdleStructure DEF Inv
  <1>7. CASE UNCHANGED vars
    <2>1. TypeOK'
      BY <1>7 DEF Inv, TypeOK, vars, Links
    <2> QED BY <1>7, <2>1, IdleStructure DEF Inv, vars
  <1> QED BY <1>1, <1>2, <1>3, <1>4, <1>5, <1>6, <1>7 DEF Next, Finished

-----------------------------------------------------------------------------
(* The tables and the sessions have their types in every reachable state,  *)
(* for any number of callbacks, deliveries, connections and accounts.      *)
THEOREM TypeCorrect == Spec => []TypeOK
  <1>1. Inv => TypeOK
    BY DEF Inv
  <1> QED BY <1>1, InitInv, StepInv, PTL DEF Spec

(* complete_link, the syncs and unlink never break the structure of the    *)
(* tables, whatever the interleaving of their database transactions.       *)
THEOREM StructureHolds == Spec => []Structure
  <1>1. Inv => Structure
    BY DEF Inv
  <1> QED BY <1>1, InitInv, StepInv, PTL DEF Spec

(* However many callbacks race, a link has one Account per provider        *)
(* account, although no unique constraint of the schema says so.           *)
THEOREM AccountsUnique == Spec => []NoDuplicateAccounts
  <1>1. Structure => NoDuplicateAccounts
    BY DEF Structure
  <1> QED BY <1>1, StructureHolds, PTL

(* A user's provider item has at most one linked_accounts row.             *)
THEOREM LinkUnique == Spec => []OneLinkPerConnection
  <1>1. Structure => OneLinkPerConnection
    BY DEF Structure
  <1> QED BY <1>1, StructureHolds, PTL

(* Nothing outlives an unlink: no account, transaction or job without its  *)
(* link, although syncs in flight commit rows of it later.                 *)
THEOREM UnlinkCascades == Spec => []CascadeComplete
  <1>1. Structure => CascadeComplete
    BY DEF Structure
  <1> QED BY <1>1, StructureHolds, PTL

-----------------------------------------------------------------------------
(* needs_reauth.                                                           *)

(* The token of a committed row.                                           *)
RowTokens ==
    \A l \in Links : /\ ConnOf[links[l].token] = ConnOf[l]
                     /\ pc[links[l].token] \notin Early

(* The token in session p's loaded row: of the row's connection, and p's   *)
(* own while p is linking.                                                 *)
SessionToken(p) ==
    /\ orm[p].link # NoLink =>
         orm[p].token \in Requests /\ ConnOf[orm[p].token] = ConnOf[orm[p].link]
    /\ pc[p] \in LinkPhases => orm[p].link # NoLink /\ orm[p].token = p

Tokens == RowTokens /\ \A p \in Procs : SessionToken(p)

-----------------------------------------------------------------------------
(* Tokens.                                                                 *)

(* A session moves on, no row is added and no row's token changes.         *)
LEMMA QuietTokens ==
  ASSUME Inv, Tokens, NEW p \in Procs, OnlyMoves(p), SessionToken(p)',
         Links' \subseteq Links, \A l \in Links' : links'[l].token = links[l].token,
         pc'[p] \in Early => pc[p] \in Early
  PROVE Tokens'
  <1>1. RowTokens'
    BY DEF Inv, TypeOK, LinkRow, Tokens, RowTokens, OnlyMoves, Procs
  <1>2. \A q \in Procs : SessionToken(q)'
    BY DEF Tokens, SessionToken, OnlyMoves
  <1> QED BY <1>1, <1>2 DEF Tokens

(* A session that ends holds no token.                                     *)
LEMMA EndTokens ==
  ASSUME Inv, Tokens, NEW p \in Procs, NEW phase \in Ended, End(p, phase),
         Links' \subseteq Links, \A l \in Links' : links'[l].token = links[l].token
  PROVE Tokens'
  <1>1. OnlyMoves(p) /\ pc'[p] = phase /\ orm'[p] = NoOrm
    BY DEF Inv, TypeOK, End, OnlyMoves
  <1>2. SessionToken(p)' /\ pc'[p] \notin Early
    BY <1>1 DEF SessionToken, NoOrm, Ended, Early, LinkPhases
  <1> QED BY <1>1, <1>2, QuietTokens

(* A session that moves on within its linking, or within its sync, and     *)
(* keeps its loaded row.                                                   *)
LEMMA GotoTokens ==
  ASSUME Inv, Tokens, NEW p \in Procs, NEW phase \in Phases, Goto(p, phase),
         orm' = orm, \A q \in Procs \ {p} : buf'[q] = buf[q],
         phase \in Early => pc[p] \in Early,
         phase \in LinkPhases => pc[p] \in LinkPhases,
         Links' \subseteq Links, \A l \in Links' : links'[l].token = links[l].token
  PROVE Tokens'
  <1>1. OnlyMoves(p) /\ pc'[p] = phase
    BY DEF Inv, TypeOK, Goto, OnlyMoves
  <1>2. SessionToken(p)'
    BY <1>1 DEF Tokens, SessionToken
  <1> QED BY <1>1, <1>2, QuietTokens

(* A session that loads a committed row.                                   *)
LEMMA LoadTokens ==
  ASSUME Inv, Tokens, NEW p \in Procs, NEW l \in Links, Goto(p, "sync_start"),
         orm' = [orm EXCEPT ![p] = Loaded(l)], UNCHANGED buf, UNCHANGED links
  PROVE Tokens'
  <1>1. OnlyMoves(p) /\ pc'[p] = "sync_start" /\ orm'[p] = Loaded(l)
    BY DEF Inv, TypeOK, Goto, OnlyMoves
  <1>2. SessionToken(p)' /\ pc'[p] \notin Early
    BY <1>1 DEF SessionToken, Loaded, Tokens, RowTokens, Inv, TypeOK, LinkRow, Links,
                Early, LinkPhases
  <1> QED BY <1>1, <1>2, QuietTokens DEF Links

(* Linking gives a row the token of the request that commits, which is a   *)
(* token of the row's connection.                                          *)
LEMMA LinkStepTokens == ASSUME Inv, Tokens, NEW r \in Requests, LinkStep(r) PROVE Tokens'
  <1>0. TypeOK /\ Structure /\ r \in Procs
    BY DEF Inv, Procs
  <1>1. CASE StartLink(r)
    BY <1>0, <1>1, GotoTokens DEF StartLink, Phases, Early, LinkPhases, dbVars, Links
  <1>2. CASE LookupLink(r)
    <2>1. CASE Goto(r, "insert") /\ UNCHANGED orm
      BY <1>0, <1>2, <2>1, GotoTokens DEF LookupLink, Phases, Early, LinkPhases, dbVars, Links
    <2>2. CASE \E l \in LinksOfConn(ConnOf[r]) :
                 /\ orm' = [orm EXCEPT ![r] =
                              [link |-> l, token |-> r, status |-> links[l].status]]
                 /\ Goto(r, "link_fetch")
      <3>1. PICK l \in LinksOfConn(ConnOf[r]) :
                 /\ orm' = [orm EXCEPT ![r] =
                              [link |-> l, token |-> r, status |-> links[l].status]]
                 /\ Goto(r, "link_fetch")
        BY <2>2
      <3>2. /\ OnlyMoves(r) /\ pc'[r] = "link_fetch"
            /\ orm'[r] = [link |-> l, token |-> r, status |-> links[l].status]
        BY <1>0, <1>2, <3>1 DEF LookupLink, TypeOK, Goto, OnlyMoves
      <3>3. SessionToken(r)'
        BY <1>0, <3>1, <3>2, ConstantsAssumption DEF SessionToken, LinksOfConn, TypeOK
      <3> QED BY <1>0, <1>2, <3>2, <3>3, QuietTokens DEF LookupLink, Early, dbVars, Links
    <2> QED BY <1>2, <2>1, <2>2 DEF LookupLink
  <1>3. CASE InsertLink(r)
    <2>1. CASE End(r, "aborted")
      BY <1>0, <1>3, <2>1, EndTokens DEF InsertLink, Ended, dbVars, Links
    <2>2. CASE ~End(r, "aborted")
      <3>1. /\ OnlyMoves(r) /\ pc'[r] = "link_fetch"
            /\ orm'[r] = [link |-> r, token |-> r, status |-> "active"]
        BY <1>0, <1>3, <2>2 DEF InsertLink, TypeOK, Goto, OnlyMoves
      <3>2. SessionToken(r)'
        BY <3>1, ConstantsAssumption DEF SessionToken
      <3> QED BY <1>0, <1>3, <3>1, <3>2, QuietTokens DEF InsertLink, Early, dbVars, Links
    <2> QED BY <2>1, <2>2
  <1>4. CASE FetchForLink(r)
    BY <1>0, <1>4, GotoTokens DEF FetchForLink, Phases, LinkPhases, Early, dbVars, Links, TypeOK
  <1>5. CASE LinkFails(r)
    BY <1>0, <1>5, EndTokens DEF LinkFails, Ended, dbVars, Links
  <1>6. CASE FlushLink(r)
    <2>1. CASE End(r, "aborted")
      BY <1>0, <1>6, <2>1, EndTokens DEF FlushLink, Ended, dbVars, Links
    <2>2. CASE ~End(r, "aborted")
      BY <1>0, <1>6, <2>2, GotoTokens
         DEF FlushLink, Phases, LinkPhases, Early, dbVars, Links, TypeOK
    <2> QED BY <2>1, <2>2
  <1>7. CASE CommitLink(r)
    <2> DEFINE l == orm[r].link
    <2>1. /\ OnlyMoves(r) /\ pc[r] = "link_commit" /\ pc'[r] = "link_refresh"
          /\ orm' = orm /\ Links' = Links \cup {l}
      BY <1>0, <1>7 DEF CommitLink, Goto, TypeOK, OnlyMoves, Links
    <2>2. l \in Requests /\ (l # r => l \in Links) /\ ConnOf[l] = ConnOf[r]
      BY <1>0, <2>1 DEF Tokens, SessionToken, LinkPhases, Structure, RelinkLock, TypeOK, Orm
    <2>3. /\ links'[l].token = r
          /\ \A k \in Links \ {l} : links'[k] = links[k]
      BY <1>0, <1>7, <2>2 DEF CommitLink, CommittedRow, TypeOK, LinkRow
    <2>4. RowTokens'
      <3>1. ASSUME NEW k \in Links' PROVE ConnOf[links'[k].token] = ConnOf[k]
        BY <2>1, <2>2, <2>3, <3>1 DEF Tokens, RowTokens
      <3>2. ASSUME NEW k \in Links' PROVE pc'[links'[k].token] \notin Early
        <4>1. CASE k = l
          BY <2>1, <2>3, <4>1 DEF Early, LinkPhases
        <4>2. CASE k # l
          BY <1>0, <2>1, <2>3, <3>2, <4>2
             DEF Tokens, RowTokens, OnlyMoves, TypeOK, LinkRow, Procs, Early, LinkPhases
        <4> QED BY <4>1, <4>2
      <3> QED BY <3>1, <3>2 DEF RowTokens
    <2>5. \A p \in Procs : SessionToken(p)'
      BY <2>1 DEF Tokens, SessionToken, OnlyMoves, LinkPhases
    <2> QED BY <2>4, <2>5 DEF Tokens
  <1>8. CASE RefreshLink(r)
    <2>1. CASE End(r, "aborted")
      BY <1>0, <1>8, <2>1, EndTokens DEF RefreshLink, Ended, dbVars, Links
    <2>2. CASE ~End(r, "aborted")
      BY <1>0, <1>8, <2>2, LoadTokens DEF RefreshLink, dbVars
    <2> QED BY <2>1, <2>2
  <1> QED BY <1>1, <1>2, <1>3, <1>4, <1>5, <1>6, <1>7, <1>8 DEF LinkStep

(* A sync changes no token.                                                *)
LEMMA SyncKeepsTokens ==
  ASSUME Inv, NEW p \in Procs, SyncStep(p)
  PROVE Links' = Links /\ \A l \in Links : links'[l].token = links[l].token
  <1>0. TypeOK /\ (pc[p] \in JobPhases => orm[p].link \in Links)
    BY DEF Inv, Structure, JobPinsLink
  <1>1. CASE OpenJob(p) \/ FetchAccounts(p) \/ FetchTransactions(p) \/ ReadAccounts(p)
               \/ WriteRows(p) \/ ReportSync(p) \/ RecordFailed(p)
    BY <1>1 DEF OpenJob, FetchAccounts, FetchTransactions, ReadAccounts, WriteRows,
                ReportSync, RecordFailed, dbVars, Links
  <1>2. ASSUME NEW auth \in BOOLEAN, SyncFails(p, auth)
        PROVE Links' = Links /\ \A l \in Links : links'[l].token = links[l].token
    BY <1>0, <1>2 DEF SyncFails, TypeOK, LinkRow, Links, JobPhases
  <1>3. CASE CommitSync(p) \/ LoseCommit(p)
    BY <1>0, <1>3 DEF CommitSync, LoseCommit, Apply, dbVars, TypeOK, LinkRow, Links, JobPhases
  <1> QED BY <1>1, <1>2, <1>3 DEF SyncStep

(* A sync keeps the token it loaded until it ends.                         *)
LEMMA SyncStepTokens == ASSUME Inv, Tokens, NEW p \in Procs, SyncStep(p) PROVE Tokens'
  <1>0. /\ TypeOK
        /\ Links' \subseteq Links /\ \A l \in Links' : links'[l].token = links[l].token
    BY SyncKeepsTokens DEF Inv
  <1>1. CASE \E phase \in Ended : End(p, phase)
    BY <1>0, <1>1, EndTokens
  <1>2. CASE ~ \E phase \in Ended : End(p, phase)
    <2>1. PICK phase \in JobPhases \cup {"sync_record", "sync_refresh"} :
             Goto(p, phase) /\ orm' = orm /\ \A q \in Procs \ {p} : buf'[q] = buf[q]
      BY <1>0, <1>2
         DEF SyncStep, OpenJob, FetchAccounts, FetchTransactions, SyncFails, ReadAccounts,
             WriteRows, CommitSync, ReportSync, LoseCommit, RecordFailed, JobPhases, Ended,
             TypeOK
    <2>2. phase \in Phases /\ phase \notin Early
      BY DEF Phases, JobPhases, Early, LinkPhases
    <2> QED BY <1>0, <2>1, <2>2, GotoTokens DEF Early
  <1> QED BY <1>1, <1>2

(* Every step preserves Tokens.                                            *)
LEMMA StepTokens == Inv /\ Tokens /\ [Next]_vars => Tokens'
  <1> SUFFICES ASSUME Inv, Tokens, [Next]_vars PROVE Tokens'
    OBVIOUS
  <1>1. ASSUME NEW r \in Requests, LinkStep(r) PROVE Tokens'
    BY <1>1, LinkStepTokens
  <1>2. ASSUME NEW l \in Requests, Unlink(l) PROVE Tokens'
    <2>1. /\ Links' \subseteq Links /\ \A k \in Links' : links'[k] = links[k]
          /\ pc' = pc /\ orm' = orm
      BY <1>2 DEF Unlink, Links, Restrict
    <2> QED BY <2>1 DEF Tokens, RowTokens, SessionToken
  <1>3. ASSUME NEW d \in Deliveries, NEW l \in Requests, ReceiveRequest(d, l) PROVE Tokens'
    <2>1. d \in Procs /\ links' = links
      BY <1>3 DEF ReceiveRequest, dbVars, Procs
    <2>2. CASE End(d, "done")
      BY <2>1, <2>2, EndTokens DEF Ended, Links
    <2>3. CASE ~End(d, "done")
      BY <1>3, <2>1, <2>3, LoadTokens DEF ReceiveRequest
    <2> QED BY <2>2, <2>3
  <1>4. ASSUME NEW p \in Procs, SyncStep(p) PROVE Tokens'
    BY <1>4, SyncStepTokens
  <1>5. ASSUME NEW p \in Procs, Abort(p) PROVE Tokens'
    BY <1>5, EndTokens DEF Abort, Ended, dbVars, Links
  <1>6. CASE ProviderStep \/ UNCHANGED vars
    <2>1. links' = links /\ pc' = pc /\ orm' = orm
      BY <1>6 DEF ProviderStep, Post, OpenAccount, dbVars, vars
    <2> QED BY <2>1 DEF Tokens, RowTokens, SessionToken, Links
  <1> QED BY <1>1, <1>2, <1>3, <1>4, <1>5, <1>6 DEF Next, Finished

(* Empty tables hold no token.                                             *)
LEMMA InitTokens == Init => Inv /\ Tokens
  <1> SUFFICES ASSUME Init PROVE Inv /\ Tokens
    OBVIOUS
  <1>1. Inv
    BY InitInv
  <1>2. Links = {}
    BY DEF Init, Links
  <1>3. \A p \in Procs : SessionToken(p)
    BY DEF Init, SessionToken, NoOrm, LinkPhases
  <1> QED BY <1>1, <1>2, <1>3 DEF Tokens, RowTokens

-----------------------------------------------------------------------------
(* A row that becomes active again has a new token.                        *)
LEMMA ReactivationIsRelink ==
  ASSUME Inv, Tokens, [Next]_vars, NEW l \in Links, l \in Links',
         links[l].status = "needs_reauth", links'[l].status = "active"
  PROVE links'[l].token # links[l].token
  <1>0. TypeOK /\ Structure
    BY DEF Inv
  <1>1. ASSUME NEW r \in Requests, CommitLink(r) PROVE links'[l].token # links[l].token
    <2>1. orm[r].link = l
      BY <1>1 DEF CommitLink, Links
    <2>2. pc[r] = "link_commit" /\ r \notin Links
      BY <1>0, <1>1 DEF CommitLink, Structure, NewRows, LinkPhases
    <2>3. links'[l].token = r
      BY <1>0, <1>1, <2>1, <2>2 DEF CommitLink, CommittedRow, TypeOK, LinkRow
    <2>4. links[l].token # r
      BY <2>2 DEF Tokens, RowTokens, Early, LinkPhases
    <2> QED BY <2>3, <2>4
  <1>2. ASSUME NEW r \in Requests, LinkStep(r), ~CommitLink(r) PROVE FALSE
    BY <1>2 DEF LinkStep, StartLink, LookupLink, InsertLink, FetchForLink, LinkFails,
                FlushLink, RefreshLink, dbVars
  <1>3. ASSUME NEW k \in Requests, Unlink(k) PROVE FALSE
    BY <1>3 DEF Unlink, Restrict, Links
  <1>4. ASSUME NEW p \in Procs, SyncStep(p) PROVE FALSE
    <2>0. pc[p] \in JobPhases => orm[p].link \in Links
      BY <1>0 DEF Structure, JobPinsLink
    <2>1. ASSUME NEW auth \in BOOLEAN, SyncFails(p, auth) PROVE FALSE
      BY <1>0, <2>0, <2>1 DEF SyncFails, TypeOK, LinkRow, JobPhases
    <2>2. CASE CommitSync(p) \/ LoseCommit(p)
      BY <1>0, <2>0, <2>2 DEF CommitSync, LoseCommit, Apply, dbVars, TypeOK, LinkRow, JobPhases
    <2>3. CASE OpenJob(p) \/ FetchAccounts(p) \/ FetchTransactions(p) \/ ReadAccounts(p)
               \/ WriteRows(p) \/ ReportSync(p) \/ RecordFailed(p)
      BY <2>3 DEF OpenJob, FetchAccounts, FetchTransactions, ReadAccounts, WriteRows,
                  ReportSync, RecordFailed, dbVars
    <2> QED BY <1>4, <2>1, <2>2, <2>3 DEF SyncStep
  <1>5. CASE \/ \E d \in Deliveries, k \in Requests : ReceiveRequest(d, k)
             \/ \E p \in Procs : Abort(p)
             \/ ProviderStep
             \/ UNCHANGED vars
    BY <1>5 DEF ReceiveRequest, Abort, ProviderStep, Post, OpenAccount, dbVars, vars
  <1> QED BY <1>1, <1>2, <1>3, <1>4, <1>5 DEF Next, Finished

(* A parked connection is reactivated only by a re-link, which brings a    *)
(* token it did not have, and never by a sync that was already running.    *)
THEOREM ParkedUntilRelinked == Spec => ParkedUntilRelink
  <1>1. Inv /\ Tokens /\ [Next]_vars =>
          [\A l \in Links \cap Links' :
             links[l].status = "needs_reauth" /\ links'[l].status = "active"
               => links'[l].token # links[l].token]_vars
    BY ReactivationIsRelink
  <1> QED BY <1>1, InitTokens, StepInv, StepTokens, PTL DEF Spec, ParkedUntilRelink
=============================================================================
