------------------------------ MODULE ViewProofs ------------------------------
(***************************************************************************)
(* What a reader of LinkSync's tables is shown.                            *)
(*                                                                         *)
(* LinkSync implements ConnectionView: what the tables show of a connection*)
(* changes by one step of it at a time.  Beyond Inv the proof needs that a *)
(* link always has an account and that a sync writes the transactions of   *)
(* one account (ViewInv).                                                  *)
(*                                                                         *)
(* BalanceBacked, in the second part: a demo bank's balance is never ahead *)
(* of the stored transactions.  A sync carries a balance and transactions  *)
(* fetched after it through several steps, while other syncs and re-links  *)
(* of the same link commit; SessionDemo says what it still knows of both   *)
(* when it commits.                                                        *)
(*                                                                         *)
(* CountsMatch, in the third: the transactions_synced reported for a link  *)
(* add up to its stored transactions, but for the attempts whose commit    *)
(* was applied and never reported.  The rows two sessions have written and *)
(* not committed are never the same (WritersApart), which is what the row  *)
(* locks are for, and a session reports one success at most                *)
(* (SessionCounts).  Between its commit and its report a session's count   *)
(* is due, so the induction is on what is due (Counted).  The sum is a     *)
(* fold; TotalIsReported turns it into the size of a set, of which the     *)
(* library knows what adding an element does.                              *)
(***************************************************************************)
EXTENDS LinkSyncProofs, WellFoundedInduction

(* What is shown, as the function that the refinement substitutes.         *)
Shows == [c \in Conns |-> Shown(c)]

(* What session p is about to commit: a new link comes with accounts, and  *)
(* a sync's transactions have one account.                                 *)
SessionView(p) ==
    /\ pc[p] \in {"link_flush", "link_commit"} /\ orm[p].link = p => buf[p].pids # {}
    /\ pc[p] \in {"sync_write", "sync_commit"} => \A a, b \in buf[p].target : a = b

ViewParts ==
    /\ \A c \in Conns : offered[c] # {}
    /\ \A l \in Links : AccountsOf(l) # {}
    /\ \A p \in Procs : SessionView(p)

ViewInv == Inv /\ ViewParts

-----------------------------------------------------------------------------
(* ViewInv is inductive.                                                   *)

(* No account goes without its link.                                       *)
KeepsAccounts ==
    /\ Links' \subseteq Links
    /\ \A l \in Links' : AccountsOf(l) \subseteq AccountsOf(l)'

(* A session moves on, and every link keeps its accounts.                  *)
LEMMA QuietView ==
  ASSUME ViewParts, NEW p \in Procs, OnlyMoves(p), SessionView(p)', KeepsAccounts,
         UNCHANGED offered
  PROVE ViewParts'
  <1>1. \A q \in Procs : SessionView(q)'
    BY DEF ViewParts, SessionView, OnlyMoves
  <1>2. \A l \in Links' : AccountsOf(l)' # {}
    BY DEF ViewParts, KeepsAccounts
  <1> QED BY <1>1, <1>2 DEF ViewParts

(* A session that ends has nothing to commit.                              *)
LEMMA EndView ==
  ASSUME Inv, ViewParts, NEW p \in Procs, NEW phase \in Ended, End(p, phase), KeepsAccounts,
         UNCHANGED offered
  PROVE ViewParts'
  <1>1. OnlyMoves(p) /\ pc'[p] = phase
    BY DEF Inv, TypeOK, End, OnlyMoves
  <1>2. SessionView(p)'
    BY <1>1 DEF SessionView, Ended
  <1> QED BY <1>1, <1>2, QuietView

(* A session in any other phase has nothing to commit yet.                 *)
LEMMA EarlierView ==
  ASSUME ViewParts, NEW p \in Procs, OnlyMoves(p), KeepsAccounts, UNCHANGED offered,
         pc'[p] \notin {"link_flush", "link_commit", "sync_write", "sync_commit"}
  PROVE ViewParts'
  BY QuietView DEF SessionView

(* Without a write every link keeps its accounts.                          *)
LEMMA UnchangedAccounts == ASSUME UNCHANGED <<links, balance>> PROVE KeepsAccounts
  BY DEF KeepsAccounts, Links, AccountsOf

(* complete_link gives every link it commits an account.                   *)
LEMMA LinkStepView == ASSUME ViewInv, NEW r \in Requests, LinkStep(r) PROVE ViewParts'
  <1>0. Inv /\ ViewParts /\ TypeOK /\ Structure /\ r \in Procs
    BY DEF ViewInv, Inv, Procs
  <1>o. offered' = offered
    BY DEF LinkStep, StartLink, LookupLink, InsertLink, FetchForLink, LinkFails, FlushLink,
           CommitLink, RefreshLink, envVars
  <1>k. ~CommitLink(r) => KeepsAccounts
    BY UnchangedAccounts
       DEF LinkStep, StartLink, LookupLink, InsertLink, FetchForLink, LinkFails, FlushLink,
           RefreshLink, dbVars
  <1>1. CASE End(r, "aborted") /\ ~CommitLink(r)
    BY <1>0, <1>o, <1>k, <1>1, EndView DEF Ended
  <1>2. CASE StartLink(r) \/ LookupLink(r)
    <2>1. OnlyMoves(r) /\ pc'[r] \in {"lookup", "insert", "link_fetch"} /\ KeepsAccounts
      BY <1>0, <1>2, UnchangedAccounts
         DEF StartLink, LookupLink, Goto, TypeOK, OnlyMoves, dbVars
    <2> QED BY <1>0, <1>o, <2>1, EarlierView
  <1>3. CASE (InsertLink(r) \/ RefreshLink(r)) /\ ~End(r, "aborted")
    <2>1. OnlyMoves(r) /\ pc'[r] \in {"link_fetch", "sync_start"} /\ KeepsAccounts
      BY <1>0, <1>3, UnchangedAccounts
         DEF InsertLink, RefreshLink, Goto, TypeOK, OnlyMoves, dbVars
    <2> QED BY <1>0, <1>o, <2>1, EarlierView
  <1>4. CASE FetchForLink(r)
    <2>1. /\ OnlyMoves(r) /\ pc'[r] = "link_flush" /\ KeepsAccounts
          /\ buf'[r].pids = offered[ConnOf[r]]
      BY <1>0, <1>4, UnchangedAccounts
         DEF FetchForLink, Goto, TypeOK, OnlyMoves, dbVars, Buf
    <2>2. SessionView(r)'
      BY <1>0, <2>1, ConstantsAssumption DEF SessionView, ViewParts
    <2> QED BY <1>0, <1>o, <2>1, <2>2, QuietView
  <1>5. CASE FlushLink(r) /\ ~End(r, "aborted")
    <2>1. /\ OnlyMoves(r) /\ pc'[r] = "link_commit" /\ KeepsAccounts /\ orm' = orm
          /\ buf'[r].pids = buf[r].pids \ {a.pid : a \in AccountsOf(orm[r].link)}
          /\ pc[r] = "link_flush"
      BY <1>0, <1>5, UnchangedAccounts
         DEF FlushLink, Goto, TypeOK, OnlyMoves, dbVars, Buf
    <2>2. AccountsOf(r) = {}
      BY <1>0, <2>1 DEF Structure, NewRows, CascadeComplete, AccountsOf, LinkPhases
    <2>3. SessionView(r)'
      BY <1>0, <2>1, <2>2 DEF SessionView, ViewParts
    <2> QED BY <1>0, <1>o, <2>1, <2>3, QuietView
  <1>6. CASE CommitLink(r)
    <2> DEFINE l == orm[r].link
               fresh == {[link |-> l, pid |-> x, by |-> r] : x \in buf[r].pids}
    <2>1. /\ OnlyMoves(r) /\ pc'[r] = "link_refresh" /\ pc[r] = "link_commit"
          /\ Links' = Links \cup {l} /\ DOMAIN balance' = DOMAIN balance \cup fresh
          /\ orm' = orm
      BY <1>0, <1>6 DEF CommitLink, Goto, TypeOK, OnlyMoves, Links
    <2>2. \A k \in Links : AccountsOf(k)' # {}
      BY <1>0, <2>1 DEF ViewParts, AccountsOf
    <2>3. AccountsOf(l)' # {}
      <3>1. CASE l = r
        <4>1. PICK x \in buf[r].pids : TRUE
          BY <1>0, <2>1, <3>1 DEF ViewParts, SessionView
        <4>2. [link |-> l, pid |-> x, by |-> r] \in DOMAIN balance'
          BY <2>1, <4>1
        <4> QED BY <2>1, <4>2 DEF AccountsOf
      <3>2. CASE l # r
        <4>1. orm'[r].link \in Links
          BY <1>0, <2>1, <3>2 DEF Structure, RelinkLock
        <4> QED BY <2>2, <4>1 DEF AccountsOf
      <3> QED BY <3>1, <3>2
    <2>4. \A p \in Procs : SessionView(p)'
      BY <1>0, <2>1 DEF ViewParts, SessionView, OnlyMoves
    <2> QED BY <1>0, <1>o, <2>1, <2>2, <2>3, <2>4 DEF ViewParts
  <1>7. CASE LinkFails(r)
    BY <1>1, <1>7 DEF LinkFails, CommitLink
  <1> QED BY <1>1, <1>2, <1>3, <1>4, <1>5, <1>6, <1>7 DEF LinkStep

(* A sync adds and drops no account.                                       *)
LEMMA SyncKeepsAccounts ==
  ASSUME Inv, NEW p \in Procs, SyncStep(p)
  PROVE /\ Links' = Links /\ DOMAIN balance' = DOMAIN balance
        /\ KeepsAccounts /\ UNCHANGED offered
  <1>1. Links' = Links /\ DOMAIN balance' = DOMAIN balance /\ UNCHANGED offered
    BY DEF SyncStep, OpenJob, FetchAccounts, FetchTransactions, SyncFails, ReadAccounts,
           WriteRows, CommitSync, ReportSync, LoseCommit, RecordFailed, Apply, dbVars, envVars,
           Links, Inv, TypeOK
  <1> QED BY <1>1 DEF KeepsAccounts, AccountsOf

(* A sync takes its transactions to one account.                           *)
LEMMA SyncStepView == ASSUME ViewInv, NEW p \in Procs, SyncStep(p) PROVE ViewParts'
  <1>0. /\ Inv /\ ViewParts /\ TypeOK
        /\ KeepsAccounts /\ UNCHANGED offered
    BY SyncKeepsAccounts DEF ViewInv, Inv
  <1>1. CASE \E phase \in Ended : End(p, phase)
    BY <1>0, <1>1, EndView
  <1>2. CASE ReadAccounts(p)
    <2>1. OnlyMoves(p) /\ pc'[p] = "sync_write"
      BY <1>0, <1>2 DEF ReadAccounts, Goto, TypeOK, OnlyMoves
    <2>2. \A a, b \in buf'[p].target : a = b
      <3>1. buf[p] \in Buf
        BY <1>0 DEF TypeOK
      <3>2. CASE buf' = [buf EXCEPT ![p].ids = {}, ![p].target = {}]
        BY <1>0, <3>1, <3>2 DEF TypeOK, Buf
      <3> QED BY <1>0, <1>2, <3>1, <3>2 DEF ReadAccounts, TypeOK, Buf
    <2>3. SessionView(p)'
      BY <2>1, <2>2 DEF SessionView
    <2> QED BY <1>0, <2>1, <2>3, QuietView
  <1>3. CASE WriteRows(p)
    <2>1. /\ OnlyMoves(p) /\ pc'[p] = "sync_commit" /\ pc[p] = "sync_write"
          /\ buf'[p].target = buf[p].target
      BY <1>0, <1>3 DEF WriteRows, Goto, TypeOK, OnlyMoves, Buf
    <2>2. SessionView(p)'
      BY <1>0, <2>1 DEF ViewParts, SessionView
    <2> QED BY <1>0, <2>1, <2>2, QuietView
  <1>4. CASE ~(\E phase \in Ended : End(p, phase)) /\ ~ReadAccounts(p) /\ ~WriteRows(p)
    <2>1. OnlyMoves(p) /\ pc'[p] \in {"sync_accounts", "sync_txns", "sync_read", "sync_record",
                                      "sync_refresh"}
      BY <1>0, <1>4
         DEF SyncStep, OpenJob, FetchAccounts, FetchTransactions, SyncFails, CommitSync,
             ReportSync, LoseCommit, RecordFailed, Goto, Ended, TypeOK, OnlyMoves
    <2> QED BY <1>0, <2>1, EarlierView
  <1> QED BY <1>1, <1>2, <1>3, <1>4

(* Every step preserves the invariant.                                     *)
LEMMA StepView == ViewInv /\ [Next]_vars => ViewInv'
  <1> SUFFICES ASSUME ViewInv, [Next]_vars PROVE ViewInv'
    OBVIOUS
  <1>0. Inv /\ ViewParts /\ Inv'
    BY StepInv DEF ViewInv
  <1>1. ASSUME NEW r \in Requests, LinkStep(r) PROVE ViewParts'
    BY <1>1, LinkStepView
  <1>2. ASSUME NEW l \in Requests, Unlink(l) PROVE ViewParts'
    <2>1. /\ Links' = Links \ {l} /\ DOMAIN balance' = DOMAIN balance \ AccountsOf(l)
          /\ pc' = pc /\ orm' = orm /\ buf' = buf /\ offered' = offered
      BY <1>2 DEF Unlink, Links, Restrict, envVars
    <2>2. \A k \in Links' : AccountsOf(k)' = AccountsOf(k)
      BY <2>1 DEF AccountsOf
    <2> QED BY <1>0, <2>1, <2>2 DEF ViewParts, SessionView
  <1>3. ASSUME NEW d \in Deliveries, NEW l \in Requests, ReceiveRequest(d, l) PROVE ViewParts'
    <2>1. d \in Procs /\ KeepsAccounts /\ offered' = offered
      BY <1>3, UnchangedAccounts DEF ReceiveRequest, dbVars, envVars, Procs
    <2>2. CASE End(d, "done")
      BY <1>0, <2>1, <2>2, EndView DEF Ended
    <2>3. CASE ~End(d, "done")
      <3>1. OnlyMoves(d) /\ pc'[d] = "sync_start"
        BY <1>0, <1>3, <2>1, <2>3 DEF ReceiveRequest, Goto, Inv, TypeOK, OnlyMoves
      <3> QED BY <1>0, <2>1, <3>1, EarlierView
    <2> QED BY <2>2, <2>3
  <1>4. ASSUME NEW p \in Procs, SyncStep(p) PROVE ViewParts'
    BY <1>4, SyncStepView
  <1>5. ASSUME NEW p \in Procs, Abort(p) PROVE ViewParts'
    BY <1>0, <1>5, EndView, UnchangedAccounts DEF Abort, Ended, dbVars, envVars
  <1>6. CASE ProviderStep
    <2>1. UNCHANGED <<links, balance, pc, orm, buf>> /\ \A c \in Conns : offered[c] \subseteq offered'[c]
      BY <1>0, <1>6 DEF ProviderStep, Post, OpenAccount, dbVars, Inv, TypeOK
    <2> QED BY <1>0, <2>1 DEF ViewInv, ViewParts, SessionView, Links, AccountsOf
  <1>7. CASE UNCHANGED vars
    BY <1>0, <1>7 DEF ViewInv, ViewParts, SessionView, Links, AccountsOf, vars
  <1> QED BY <1>0, <1>1, <1>2, <1>3, <1>4, <1>5, <1>6, <1>7 DEF ViewInv, Next, Finished

(* The empty tables show nothing, and every provider lists an account.     *)
LEMMA InitView == Init => ViewInv
  <1> SUFFICES ASSUME Init PROVE ViewInv
    OBVIOUS
  <1>1. ViewParts
    BY DEF Init, ViewParts, SessionView, Links
  <1> QED BY <1>1, InitInv DEF ViewInv

-----------------------------------------------------------------------------
(* What is shown is consistent.                                            *)

(* What the tables show of a connection, from its only link.               *)
LEMMA ShownLinked ==
  ASSUME Inv, NEW l \in Links
  PROVE /\ Shown(ConnOf[l]).linked
        /\ Shown(ConnOf[l]).parked = (links[l].status = "needs_reauth")
        /\ Shown(ConnOf[l]).pids = {a.pid : a \in AccountsOf(l)}
        /\ Shown(ConnOf[l]).stored = {<<t.acct.pid, t.tid>> : t \in TxnsOf(l)}
  <1>1. LinksOfConn(ConnOf[l]) = {l}
    BY DEF Inv, Structure, OneLinkPerConnection, LinksOfConn
  <1>2. {b \in DOMAIN balance : ConnOf[b.link] = ConnOf[l]} = AccountsOf(l)
    BY DEF Inv, Structure, OneLinkPerConnection, CascadeComplete, AccountsOf
  <1>3. {u \in txns : ConnOf[u.acct.link] = ConnOf[l]} = TxnsOf(l)
    BY DEF Inv, Structure, OneLinkPerConnection, CascadeComplete, TxnsOf
  <1> QED BY <1>1, <1>2, <1>3 DEF Shown

(* The same, after a step.                                                 *)
LEMMA ShownLinkedNext ==
  ASSUME Inv', NEW l \in Links'
  PROVE /\ Shown(ConnOf[l])'.linked
        /\ Shown(ConnOf[l])'.parked = (links'[l].status = "needs_reauth")
        /\ Shown(ConnOf[l])'.pids = {a.pid : a \in AccountsOf(l)'}
        /\ Shown(ConnOf[l])'.stored = {<<t.acct.pid, t.tid>> : t \in TxnsOf(l)'}
  <1>1. LinksOfConn(ConnOf[l])' = {l}
    BY DEF Inv, Structure, OneLinkPerConnection, LinksOfConn
  <1>2. {b \in DOMAIN balance' : ConnOf[b.link] = ConnOf[l]} = AccountsOf(l)'
    BY DEF Inv, Structure, OneLinkPerConnection, CascadeComplete, AccountsOf
  <1>3. {u \in txns' : ConnOf[u.acct.link] = ConnOf[l]} = TxnsOf(l)'
    BY DEF Inv, Structure, OneLinkPerConnection, CascadeComplete, TxnsOf
  <1> QED BY <1>1, <1>2, <1>3 DEF Shown

(* A connection without a link shows nothing.                              *)
LEMMA ShownUnlinked ==
  ASSUME Inv, NEW c \in Conns, LinksOfConn(c) = {}
  PROVE Shown(c) = Abstract!Unlinked
  <1>1. {b \in DOMAIN balance : ConnOf[b.link] = c} = {}
    BY DEF Inv, Structure, CascadeComplete, LinksOfConn
  <1>2. {u \in txns : ConnOf[u.acct.link] = c} = {}
    BY DEF Inv, Structure, CascadeComplete, LinksOfConn
  <1> QED BY <1>1, <1>2 DEF Shown, Abstract!Unlinked

(* What is shown has the shape of a View.                                  *)
LEMMA ShownType == ASSUME TypeOK, NEW c \in Conns PROVE Shown(c) \in Abstract!View
  <1>1. {a.pid : a \in {b \in DOMAIN balance : ConnOf[b.link] = c}} \subseteq ProviderAccounts
    BY DEF TypeOK, AccountRow
  <1>2. {<<t.acct.pid, t.tid>> : t \in {u \in txns : ConnOf[u.acct.link] = c}}
          \subseteq ProviderAccounts \X TxnIds
    BY DEF TypeOK, TxnRow, AccountRow
  <1> QED BY <1>1, <1>2 DEF Shown, Abstract!View

(* The invariant says what Consistent says.                                *)
LEMMA ViewIsConsistent == ViewInv => ViewConsistent
  <1> SUFFICES ASSUME ViewInv PROVE ViewConsistent
    OBVIOUS
  <1>0. Inv /\ ViewParts /\ TypeOK /\ CascadeComplete
    BY DEF ViewInv, Inv, Structure
  <1>1. Shows \in [Conns -> Abstract!View]
    BY <1>0, ShownType DEF Shows
  <1>2. ASSUME NEW c \in Conns
        PROVE /\ Shows[c].linked => Shows[c].pids # {}
              /\ ~Shows[c].linked => Shows[c] = Abstract!Unlinked
              /\ \A t \in Shows[c].stored : t[1] \in Shows[c].pids
    <2>1. CASE LinksOfConn(c) = {}
      <3>1. Shows[c] = Abstract!Unlinked
        BY <1>0, <2>1, ShownUnlinked DEF Shows
      <3> QED BY <3>1 DEF Abstract!Unlinked
    <2>2. CASE LinksOfConn(c) # {}
      <3>1. PICK l \in Links : ConnOf[l] = c
        BY <2>2 DEF LinksOfConn
      <3>2. /\ Shows[c].linked
            /\ Shows[c].pids = {a.pid : a \in AccountsOf(l)}
            /\ Shows[c].stored = {<<t.acct.pid, t.tid>> : t \in TxnsOf(l)}
        BY <1>0, <3>1, ShownLinked DEF Shows
      <3>3. Shows[c].pids # {}
        BY <1>0, <3>2 DEF ViewParts
      <3>4. \A t \in TxnsOf(l) : t.acct \in AccountsOf(l)
        BY <1>0 DEF CascadeComplete, TxnsOf, AccountsOf
      <3>5. \A t \in Shows[c].stored : t[1] \in Shows[c].pids
        BY <3>2, <3>4
      <3> QED BY <3>2, <3>3, <3>5
    <2> QED BY <2>1, <2>2
  <1> QED BY <1>1, <1>2 DEF ViewConsistent, Abstract!Consistent, Shows

(* Whatever races, a linked connection shows an account to be synced and   *)
(* unlinked through, and an unlinked one shows nothing.                    *)
THEOREM ShownIsConsistent == Spec => []ViewConsistent
  BY InitView, StepView, ViewIsConsistent, PTL DEF Spec

-----------------------------------------------------------------------------
(* The steps of ConnectionView, by what they make of one connection.       *)

(* Every connection but c shows what it showed.                            *)
Elsewhere(c) == \A d \in Conns \ {c} : Shown(d)' = Shown(d)

(* A step of ConnectionView, or a stutter where the connection shows what  *)
(* it showed.                                                              *)
LEMMA AsStep ==
  ASSUME NEW c \in Conns, Elsewhere(c),
         \/ Abstract!Link(c) \/ Abstract!Relink(c) \/ Abstract!Sync(c)
         \/ Abstract!Park(c) \/ Abstract!Unlink(c)
  PROVE [Abstract!Next]_Shows
  <1>1. CASE Shown(c)' = Shown(c)
    BY <1>1 DEF Elsewhere, Shows
  <1>2. CASE Shown(c)' # Shown(c)
    <2>1. [d \in Conns |-> Shown(d)]'[c] # [d \in Conns |-> Shown(d)][c]
      BY <1>2
    <2> QED BY <2>1 DEF Abstract!Next
  <1> QED BY <1>1, <1>2

(* Only c is rewritten.                                                    *)
LEMMA ShowsAt ==
  ASSUME NEW c \in Conns, Elsewhere(c) PROVE Shows' = [Shows EXCEPT ![c] = Shown(c)']
  BY DEF Shows, Elsewhere

(* A first callback commits.                                               *)
LEMMA AsLink ==
  ASSUME NEW c \in Conns, Elsewhere(c), NEW new \in SUBSET ProviderAccounts, new # {},
         ~Shown(c).linked,
         Shown(c)' = [linked |-> TRUE, parked |-> FALSE, pids |-> new, stored |-> {}]
  PROVE [Abstract!Next]_Shows
  <1>1. Abstract!Link(c)
    BY ShowsAt DEF Abstract!Link, Shows
  <1> QED BY <1>1, AsStep

(* A later callback commits.                                               *)
LEMMA AsRelink ==
  ASSUME NEW c \in Conns, Elsewhere(c), NEW more \in SUBSET ProviderAccounts,
         NEW parked \in {FALSE, Shown(c).parked}, Shown(c).linked,
         Shown(c)' = [linked |-> TRUE, parked |-> parked,
                      pids |-> Shown(c).pids \cup more, stored |-> Shown(c).stored]
  PROVE [Abstract!Next]_Shows
  <1>1. Abstract!Relink(c)
    BY ShowsAt DEF Abstract!Relink, Shows
  <1> QED BY <1>1, AsStep

(* A sync commits.                                                         *)
LEMMA AsSync ==
  ASSUME NEW c \in Conns, Elsewhere(c), NEW x \in Shown(c).pids, NEW ids \in SUBSET TxnIds,
         Shown(c).linked,
         Shown(c)' = [Shown(c) EXCEPT !.stored = @ \cup ({x} \X ids)]
  PROVE [Abstract!Next]_Shows
  <1>1. Shows' = [Shows EXCEPT ![c].stored = @ \cup ({x} \X ids)]
    BY ShowsAt DEF Shows
  <1>2. Shows[c].linked /\ x \in Shows[c].pids
    BY DEF Shows
  <1>3. \E y \in Shows[c].pids, new \in SUBSET TxnIds :
           Shows' = [Shows EXCEPT ![c].stored = @ \cup ({y} \X new)]
    BY <1>1, <1>2
  <1>4. Abstract!Sync(c)
    BY <1>2, <1>3 DEF Abstract!Sync, Shows
  <1> QED BY <1>4, AsStep

(* The provider's rejection is recorded.                                   *)
LEMMA AsPark ==
  ASSUME NEW c \in Conns, Elsewhere(c), Shown(c).linked, ~Shown(c).parked,
         Shown(c)' = [Shown(c) EXCEPT !.parked = TRUE]
  PROVE [Abstract!Next]_Shows
  <1>1. Shows' = [Shows EXCEPT ![c].parked = TRUE]
    BY ShowsAt DEF Shows
  <1>2. Abstract!Park(c)
    BY <1>1 DEF Abstract!Park, Shows
  <1> QED BY <1>2, AsStep

(* An unlink commits.                                                      *)
LEMMA AsUnlink ==
  ASSUME NEW c \in Conns, Elsewhere(c), Shown(c).linked, Shown(c)' = Abstract!Unlinked
  PROVE [Abstract!Next]_Shows
  <1>1. Abstract!Unlink(c)
    BY ShowsAt DEF Abstract!Unlink, Shows
  <1> QED BY <1>1, AsStep

(* Nothing that is shown changes.                                          *)
LEMMA AsStutter == ASSUME \A c \in Conns : Shown(c)' = Shown(c) PROVE [Abstract!Next]_Shows
  BY DEF Shows

-----------------------------------------------------------------------------
(* Every step of LinkSync is one of these or a stutter.                    *)

(* What is shown of a connection is a record of these fields.              *)
LEMMA ShownFields ==
  ASSUME NEW c
  PROVE /\ Shown(c) = [linked |-> Shown(c).linked, parked |-> Shown(c).parked,
                       pids |-> Shown(c).pids, stored |-> Shown(c).stored]
        /\ Shown(c)' = [linked |-> Shown(c)'.linked, parked |-> Shown(c)'.parked,
                        pids |-> Shown(c)'.pids, stored |-> Shown(c)'.stored]
  BY DEF Shown

(* Rewriting one field of such a record.                                   *)
LEMMA StoredField ==
  ASSUME NEW s, NEW linked, NEW parked, NEW pids, NEW stored, NEW new,
         s = [linked |-> linked, parked |-> parked, pids |-> pids, stored |-> stored]
  PROVE [s EXCEPT !.stored = new]
          = [linked |-> linked, parked |-> parked, pids |-> pids, stored |-> new]
  OBVIOUS

(* The same of the field parked.                                           *)
LEMMA ParkedField ==
  ASSUME NEW s, NEW linked, NEW parked, NEW pids, NEW stored, NEW new,
         s = [linked |-> linked, parked |-> parked, pids |-> pids, stored |-> stored]
  PROVE [s EXCEPT !.parked = new]
          = [linked |-> linked, parked |-> new, pids |-> pids, stored |-> stored]
  OBVIOUS

(* Rows of other connections stay as they are.                             *)
LEMMA ElsewhereSame ==
  ASSUME TypeOK, TypeOK', NEW c \in Conns,
         \A l \in Requests : ConnOf[l] # c =>
            /\ l \in Links' <=> l \in Links
            /\ l \in Links => links'[l].status = links[l].status,
         \A a \in AccountRow : ConnOf[a.link] # c => (a \in DOMAIN balance' <=> a \in DOMAIN balance),
         \A t \in TxnRow : ConnOf[t.acct.link] # c => (t \in txns' <=> t \in txns)
  PROVE Elsewhere(c)
  <1> SUFFICES ASSUME NEW d \in Conns \ {c} PROVE Shown(d)' = Shown(d)
    BY DEF Elsewhere
  <1>1. LinksOfConn(d)' = LinksOfConn(d)
    BY DEF LinksOfConn, TypeOK
  <1>2. \A l \in LinksOfConn(d) : links'[l].status = links[l].status
    BY DEF LinksOfConn, TypeOK
  <1>3. {b \in DOMAIN balance : ConnOf[b.link] = d}' = {b \in DOMAIN balance : ConnOf[b.link] = d}
    BY DEF TypeOK
  <1>4. {u \in txns : ConnOf[u.acct.link] = d}' = {u \in txns : ConnOf[u.acct.link] = d}
    BY DEF TypeOK
  <1> QED BY <1>1, <1>2, <1>3, <1>4 DEF Shown

(* Nothing that Shown reads changes.                                       *)
LEMMA ShownSame ==
  ASSUME Links' = Links, \A l \in Links : links'[l].status = links[l].status,
         DOMAIN balance' = DOMAIN balance, txns' = txns
  PROVE [Abstract!Next]_Shows
  <1> SUFFICES ASSUME NEW c \in Conns PROVE Shown(c)' = Shown(c)
    BY AsStutter
  <1>1. LinksOfConn(c)' = LinksOfConn(c) /\ \A l \in LinksOfConn(c) : links'[l].status = links[l].status
    BY DEF LinksOfConn
  <1> QED BY <1>1 DEF Shown

(* The commit of a callback is a Link or a Relink.                         *)
LEMMA CommitLinkShown ==
  ASSUME ViewInv, ViewInv', NEW r \in Requests, CommitLink(r),
         NEW l \in Requests, l = orm[r].link
  PROVE [Abstract!Next]_Shows
  <1> DEFINE c == ConnOf[l]
             fresh == {[link |-> l, pid |-> x, by |-> r] : x \in buf[r].pids}
  <1>0. /\ Inv /\ TypeOK /\ Structure /\ ViewParts /\ r \in Procs
        /\ Inv' /\ TypeOK'
    BY DEF ViewInv, Inv, Procs
  <1>1. /\ pc[r] = "link_commit" /\ orm' = orm /\ txns' = txns
        /\ Links' = Links \cup {l}
        /\ links' = [k \in Links \cup {l} |-> IF k = l THEN CommittedRow(r) ELSE links[k]]
        /\ DOMAIN balance' = DOMAIN balance \cup fresh
    BY <1>0 DEF CommitLink, Links
  <1>2. /\ c \in Conns
        /\ l # r => l \in Links
        /\ l = r => l \notin Links
        /\ buf[r].pids \in SUBSET ProviderAccounts
    BY <1>0, <1>1, ConstantsAssumption
       DEF Structure, RelinkLock, NewRows, LinkPhases, TypeOK, Orm, Buf
  <1>3. Elsewhere(c)
    BY <1>0, <1>1, <1>2, ElsewhereSame
  <1>4. /\ Shown(c)'.linked
        /\ Shown(c)'.parked = (CommittedRow(r).status = "needs_reauth")
        /\ Shown(c)'.pids = {a.pid : a \in AccountsOf(l)'}
        /\ Shown(c)'.stored = {<<t.acct.pid, t.tid>> : t \in TxnsOf(l)'}
    <2>1. l \in Links' /\ links'[l] = CommittedRow(r)
      BY <1>1
    <2> QED BY <1>0, <2>1, ShownLinkedNext
  <1>5. {a.pid : a \in AccountsOf(l)'} = {a.pid : a \in AccountsOf(l)} \cup buf[r].pids
    <2>1. AccountsOf(l)' = AccountsOf(l) \cup fresh
      BY <1>1 DEF AccountsOf
    <2>2. \A a \in fresh : a.pid \in buf[r].pids
      OBVIOUS
    <2>3. ASSUME NEW x \in buf[r].pids PROVE x \in {a.pid : a \in fresh}
      <3>1. [link |-> l, pid |-> x, by |-> r] \in fresh
        OBVIOUS
      <3> QED BY <3>1
    <2> QED BY <2>1, <2>2, <2>3
  <1>6. CASE l = r
    <2>1. LinksOfConn(c) = {}
      BY <1>0, <1>1, <1>6 DEF Structure, NewRows, HasNewRow, LinkPhases
    <2>2. Shown(c) = Abstract!Unlinked
      BY <1>0, <1>2, <2>1, ShownUnlinked
    <2>3. AccountsOf(l) = {} /\ TxnsOf(l) = {}
      BY <1>0, <1>2, <1>6 DEF Structure, CascadeComplete, AccountsOf, TxnsOf
    <2>4. buf[r].pids # {}
      BY <1>0, <1>1, <1>6 DEF ViewParts, SessionView
    <2>5. CommittedRow(r).status = "active"
      BY <1>6 DEF CommittedRow
    <2>6. TxnsOf(l)' = {}
      BY <1>1, <2>3 DEF TxnsOf
    <2>7. Shown(c)' = [linked |-> TRUE, parked |-> FALSE, pids |-> buf[r].pids, stored |-> {}]
      BY <1>4, <1>5, <2>3, <2>5, <2>6 DEF Shown
    <2>8. ~Shown(c).linked
      BY <2>2 DEF Abstract!Unlinked
    <2> QED BY <1>2, <1>3, <2>4, <2>7, <2>8, AsLink
  <1>7. CASE l # r
    <2>1. l \in Links
      BY <1>2, <1>7
    <2>2. /\ Shown(c).linked
          /\ Shown(c).parked = (links[l].status = "needs_reauth")
          /\ Shown(c).pids = {a.pid : a \in AccountsOf(l)}
          /\ Shown(c).stored = {<<t.acct.pid, t.tid>> : t \in TxnsOf(l)}
      BY <1>0, <2>1, ShownLinked
    <2>3. CommittedRow(r).status \in {"active", links[l].status}
      BY <1>0, <1>7, <2>1 DEF CommittedRow, TypeOK, LinkRow
    <2>4. Shown(c)'.parked \in {FALSE, Shown(c).parked}
      BY <1>4, <2>2, <2>3
    <2>5. TxnsOf(l)' = TxnsOf(l)
      BY <1>1 DEF TxnsOf
    <2>6. Shown(c)' = [linked |-> TRUE, parked |-> Shown(c)'.parked,
                       pids |-> Shown(c).pids \cup buf[r].pids, stored |-> Shown(c).stored]
      BY <1>4, <1>5, <2>2, <2>5 DEF Shown
    <2> QED BY <1>2, <1>3, <2>2, <2>4, <2>6, AsRelink
  <1> QED BY <1>6, <1>7
(* The commit of a sync is a Sync, or shows nothing new.                   *)
LEMMA ApplyShown ==
  ASSUME ViewInv, ViewInv', NEW p \in Procs, pc[p] = "sync_commit", Apply(p),
         NEW l \in Requests, l = orm[p].link
  PROVE [Abstract!Next]_Shows
  <1> DEFINE c == ConnOf[l]
  <1>0. /\ Inv /\ TypeOK /\ Structure /\ ViewParts /\ Inv' /\ TypeOK' /\ c \in Conns
    BY ConstantsAssumption DEF ViewInv, Inv
  <1>1. /\ l \in Links /\ buf[p].target \subseteq AccountsOf(l)
        /\ \A a, b \in buf[p].target : a = b
        /\ buf[p].ids \in SUBSET TxnIds
    BY <1>0 DEF Structure, JobPinsLink, JobPhases, ViewParts, SessionView, TypeOK, Buf
  <1>2. /\ Links' = Links /\ \A k \in Links : links'[k].status = links[k].status
        /\ DOMAIN balance' = DOMAIN balance
        /\ txns' = txns \cup RowsOf(p)
    BY <1>0, <1>1 DEF Apply, TypeOK, LinkRow, Links
  <1>3. CASE buf[p].target = {}
    <2>1. txns' = txns
      BY <1>2, <1>3 DEF RowsOf
    <2> QED BY <1>2, <2>1, ShownSame
  <1>4. CASE buf[p].target # {}
    <2>1. PICK a \in AccountsOf(l) : buf[p].target = {a}
      BY <1>1, <1>4
    <2>2. /\ \A t \in RowsOf(p) : t.acct = a /\ t.tid \in buf[p].ids
          /\ \A n \in buf[p].ids : [acct |-> a, tid |-> n] \in RowsOf(p)
      BY <2>1 DEF RowsOf
    <2>3. \A t \in RowsOf(p) : t.acct.link = l
      BY <2>2 DEF AccountsOf
    <2>4. Elsewhere(c)
      BY <1>0, <1>2, <2>3, ElsewhereSame
    <2>5. /\ Shown(c).linked
          /\ Shown(c).pids = {b.pid : b \in AccountsOf(l)}
          /\ Shown(c).stored = {<<t.acct.pid, t.tid>> : t \in TxnsOf(l)}
      BY <1>0, <1>1, ShownLinked
    <2>6. Shown(c)'.stored = {<<t.acct.pid, t.tid>> : t \in TxnsOf(l)'}
      BY <1>0, <1>1, <1>2, ShownLinkedNext
    <2>7. TxnsOf(l)' = TxnsOf(l) \cup RowsOf(p)
      BY <1>2, <2>3 DEF TxnsOf
    <2>8. {<<t.acct.pid, t.tid>> : t \in RowsOf(p)} = {a.pid} \X buf[p].ids
      <3>1. ASSUME NEW n \in buf[p].ids
            PROVE <<a.pid, n>> \in {<<t.acct.pid, t.tid>> : t \in RowsOf(p)}
        <4> DEFINE row == [acct |-> a, tid |-> n]
        <4>1. row \in RowsOf(p) /\ row.acct = a /\ row.tid = n
          BY <2>2
        <4> QED BY <4>1
      <3>2. ASSUME NEW t \in RowsOf(p) PROVE <<t.acct.pid, t.tid>> \in {a.pid} \X buf[p].ids
        BY <2>2
      <3> QED BY <3>1, <3>2
    <2>9. Shown(c)'.stored = Shown(c).stored \cup ({a.pid} \X buf[p].ids)
      BY <2>5, <2>6, <2>7, <2>8
    <2>10. LinksOfConn(c)' = LinksOfConn(c) /\ \A k \in LinksOfConn(c) : links'[k].status = links[k].status
      BY <1>2 DEF LinksOfConn
    <2>11. /\ Shown(c)'.linked = Shown(c).linked
           /\ Shown(c)'.parked = Shown(c).parked
           /\ Shown(c)'.pids = Shown(c).pids
      BY <1>2, <2>10 DEF Shown
    <2>12. Shown(c)' = [Shown(c) EXCEPT !.stored = @ \cup ({a.pid} \X buf[p].ids)]
      <3> DEFINE new == Shown(c).stored \cup ({a.pid} \X buf[p].ids)
      <3> HIDE DEF new
      <3>1. [Shown(c) EXCEPT !.stored = new]
              = [linked |-> Shown(c).linked, parked |-> Shown(c).parked,
                 pids |-> Shown(c).pids, stored |-> new]
        BY ShownFields, StoredField
      <3>2. Shown(c)' = [linked |-> Shown(c).linked, parked |-> Shown(c).parked,
                         pids |-> Shown(c).pids, stored |-> new]
        BY <2>9, <2>11, ShownFields DEF new
      <3> QED BY <3>1, <3>2 DEF new
    <2>13. a.pid \in Shown(c).pids
      BY <2>5
    <2> QED BY <1>0, <1>1, <2>4, <2>5, <2>12, <2>13, AsSync
  <1> QED BY <1>3, <1>4

(* A rejection that is recorded is a Park, or shows nothing new.           *)
LEMMA SyncFailsShown ==
  ASSUME ViewInv, ViewInv', NEW p \in Procs, NEW auth \in BOOLEAN, SyncFails(p, auth),
         NEW l \in Requests, l = orm[p].link
  PROVE [Abstract!Next]_Shows
  <1> DEFINE c == ConnOf[l]
  <1>0. /\ Inv /\ TypeOK /\ Structure /\ Inv' /\ TypeOK' /\ c \in Conns
        /\ l \in Links /\ balance' = balance /\ txns' = txns
    BY ConstantsAssumption DEF ViewInv, Inv, Structure, JobPinsLink, JobPhases, SyncFails
  <1>1. CASE links' = links
    BY <1>0, <1>1, ShownSame DEF Links
  <1>2. CASE links' = [links EXCEPT ![l].status = "needs_reauth"]
    <2>1. Links' = Links /\ \A k \in Links \ {l} : links'[k] = links[k]
      BY <1>0, <1>2 DEF Links
    <2>2. links'[l].status = "needs_reauth"
      BY <1>0, <1>2 DEF TypeOK, LinkRow
    <2>3. CASE links[l].status = "needs_reauth"
      BY <1>0, <2>1, <2>2, <2>3, ShownSame
    <2>4. CASE links[l].status # "needs_reauth"
      <3>1. Elsewhere(c)
        BY <1>0, <2>1, ElsewhereSame
      <3>2. Shown(c).linked /\ ~Shown(c).parked
        BY <1>0, <2>4, ShownLinked
      <3>3. Shown(c)'.parked = TRUE
        BY <1>0, <2>1, <2>2, ShownLinkedNext
      <3>4. LinksOfConn(c)' = LinksOfConn(c)
        BY <2>1 DEF LinksOfConn
      <3>5. /\ Shown(c)'.linked = Shown(c).linked
            /\ Shown(c)'.pids = Shown(c).pids
            /\ Shown(c)'.stored = Shown(c).stored
        BY <1>0, <3>4 DEF Shown
      <3>6. Shown(c)' = [Shown(c) EXCEPT !.parked = TRUE]
        <4> DEFINE new == TRUE
        <4> HIDE DEF new
        <4>1. [Shown(c) EXCEPT !.parked = new]
                = [linked |-> Shown(c).linked, parked |-> new,
                   pids |-> Shown(c).pids, stored |-> Shown(c).stored]
          BY ShownFields, ParkedField
        <4>2. Shown(c)' = [linked |-> Shown(c).linked, parked |-> new,
                           pids |-> Shown(c).pids, stored |-> Shown(c).stored]
          BY <3>3, <3>5, ShownFields DEF new
        <4> QED BY <4>1, <4>2 DEF new
      <3> QED BY <1>0, <3>1, <3>2, <3>6, AsPark
    <2> QED BY <2>3, <2>4
  <1> QED BY <1>1, <1>2 DEF SyncFails

(* An unlink is an Unlink.                                                 *)
LEMMA UnlinkShown ==
  ASSUME ViewInv, ViewInv', NEW l \in Requests, Unlink(l)
  PROVE [Abstract!Next]_Shows
  <1> DEFINE c == ConnOf[l]
  <1>0. /\ Inv /\ TypeOK /\ Structure /\ Inv' /\ TypeOK' /\ c \in Conns
    BY ConstantsAssumption DEF ViewInv, Inv
  <1>1. /\ l \in Links /\ Links' = Links \ {l} /\ \A k \in Links' : links'[k] = links[k]
        /\ DOMAIN balance' = DOMAIN balance \ AccountsOf(l)
        /\ txns' = txns \ TxnsOf(l)
    BY DEF Unlink, Links, Restrict
  <1>2. Elsewhere(c)
    BY <1>0, <1>1, ElsewhereSame DEF AccountsOf, TxnsOf
  <1>3. Shown(c).linked
    BY <1>0, <1>1, ShownLinked
  <1>4. LinksOfConn(c)' = {}
    BY <1>0, <1>1 DEF LinksOfConn, Structure, OneLinkPerConnection
  <1>5. Shown(c)' = Abstract!Unlinked
    <2>1. {b \in DOMAIN balance : ConnOf[b.link] = c}' = {}
      BY <1>0, <1>4 DEF Inv, Structure, CascadeComplete, LinksOfConn
    <2>2. {u \in txns : ConnOf[u.acct.link] = c}' = {}
      BY <1>0, <1>4 DEF Inv, Structure, CascadeComplete, LinksOfConn
    <2> QED BY <1>4, <2>1, <2>2 DEF Shown, Abstract!Unlinked
  <1> QED BY <1>0, <1>2, <1>3, <1>5, AsUnlink

(* Every step of LinkSync is a step of ConnectionView or a stutter.        *)
LEMMA StepShown == ViewInv /\ [Next]_vars => [Abstract!Next]_Shows
  <1> SUFFICES ASSUME ViewInv, [Next]_vars PROVE [Abstract!Next]_Shows
    OBVIOUS
  <1>0. ViewInv' /\ TypeOK /\ Structure
    BY StepView DEF ViewInv, Inv
  <1>1. ASSUME NEW r \in Requests, CommitLink(r) PROVE [Abstract!Next]_Shows
    <2>1. orm[r].link \in Requests
      BY <1>0, <1>1 DEF CommitLink, Structure, RelinkLock, TypeOK, Links
    <2> QED BY <1>0, <1>1, <2>1, CommitLinkShown
  <1>2. ASSUME NEW r \in Requests, Unlink(r) PROVE [Abstract!Next]_Shows
    BY <1>0, <1>2, UnlinkShown
  <1>3. ASSUME NEW p \in Procs, NEW auth \in BOOLEAN, SyncFails(p, auth)
        PROVE [Abstract!Next]_Shows
    <2>1. orm[p].link \in Requests
      BY <1>0, <1>3 DEF SyncFails, Structure, JobPinsLink, JobPhases, TypeOK
    <2> QED BY <1>0, <1>3, <2>1, SyncFailsShown
  <1>4. ASSUME NEW p \in Procs, pc[p] = "sync_commit", Apply(p) PROVE [Abstract!Next]_Shows
    <2>1. orm[p].link \in Requests
      BY <1>0, <1>4 DEF Structure, JobPinsLink, JobPhases, TypeOK
    <2> QED BY <1>0, <1>4, <2>1, ApplyShown
  <1>5. ASSUME links' = links, balance' = balance, txns' = txns PROVE [Abstract!Next]_Shows
    BY <1>5, ShownSame DEF Links
  <1>6. ASSUME NEW r \in Requests, LinkStep(r) PROVE [Abstract!Next]_Shows
    BY <1>1, <1>5, <1>6
       DEF LinkStep, StartLink, LookupLink, InsertLink, FetchForLink, LinkFails, FlushLink,
           RefreshLink, dbVars
  <1>7. ASSUME NEW p \in Procs, SyncStep(p) PROVE [Abstract!Next]_Shows
    BY <1>3, <1>4, <1>5, <1>7
       DEF SyncStep, OpenJob, FetchAccounts, FetchTransactions, ReadAccounts, WriteRows,
           CommitSync, ReportSync, LoseCommit, RecordFailed, dbVars
  <1>8. CASE \/ \E d \in Deliveries, l \in Requests : ReceiveRequest(d, l)
             \/ \E p \in Procs : Abort(p)
             \/ ProviderStep
             \/ UNCHANGED vars
    BY <1>5, <1>8 DEF ReceiveRequest, Abort, ProviderStep, Post, OpenAccount, dbVars, vars
  <1> QED BY <1>2, <1>6, <1>7, <1>8 DEF Next, Finished

(* LinkSync implements ConnectionView: whatever callbacks, syncs, failures *)
(* and unlinks interleave, a reader sees each of them happen at one        *)
(* instant and never half of it.                                           *)
THEOREM ImplementsConnectionView == Spec => ImplementsView
  <1>1. Init => Abstract!Init
    <2> SUFFICES ASSUME Init PROVE Abstract!Init
      OBVIOUS
    <2>1. \A c \in Conns : LinksOfConn(c) = {}
      BY DEF Init, LinksOfConn, Links
    <2>2. \A c \in Conns : Shown(c) = Abstract!Unlinked
      BY <2>1, InitInv, ShownUnlinked
    <2> QED BY <2>2 DEF Abstract!Init
  <1>2. ViewInv /\ [Next]_vars => [Abstract!Next]_Shows
    BY StepShown
  <1> QED BY <1>1, <1>2, InitView, StepView, PTL DEF Spec, ImplementsView, Abstract!Spec, Shows

-----------------------------------------------------------------------------
(* The connections of the demo banks.                                      *)
Demo(l) == ConnOf[l] \notin Plaid

(* What session p carries.  Between the fetches the balance is at most the *)
(* ledger; then the transactions reach it; after the write those it no     *)
(* longer carries are stored; and a balance it does not rewrite is the one *)
(* it fetched, or another sync has committed meanwhile.                    *)
SessionDemo(p) ==
    /\ pc[p] \in {"sync_write", "sync_commit"} => buf[p].dirty \subseteq AccountsOf(orm[p].link)
    /\ Demo(orm[p].link) =>
         /\ pc[p] \in {"link_flush", "link_commit"} => buf[p].pids \subseteq {DemoAccount}
         /\ pc[p] \in {"sync_txns", "sync_read"} => buf[p].pids = {DemoAccount}
         /\ pc[p] = "sync_txns" => buf[p].bal <= ledger[SyncConn(p)]
         /\ pc[p] \in {"sync_read", "sync_write"} => 1 .. buf[p].bal \subseteq buf[p].ids
         /\ pc[p] = "sync_commit" =>
              \A a \in buf[p].target, n \in 1 .. buf[p].bal :
                 n \in buf[p].ids \/ [acct |-> a, tid |-> n] \in txns
         /\ pc[p] \in {"sync_write", "sync_commit"} =>
              /\ buf[p].target # {}
              /\ \A a \in buf[p].target :
                   \/ a \in buf[p].dirty
                   \/ balance[a] = buf[p].bal
                   \/ links[orm[p].link].synced

(* A demo bank lists one account, so a link to it has no other.            *)
DemoOffers   == \A c \in Conns \ Plaid : offered[c] = {DemoAccount}
DemoAccounts == \A a \in DOMAIN balance : Demo(a.link) => a.pid = DemoAccount

DemoParts == DemoOffers /\ DemoAccounts /\ \A p \in Procs : SessionDemo(p)

BalanceInv == ViewInv /\ Tokens /\ DemoParts /\ BalanceBacked

-----------------------------------------------------------------------------
(* What a session at work on l relies on while others commit.              *)
Kept(l) ==
    /\ l \in Links'
    /\ links[l].synced => links'[l].synced
    /\ \A t \in txns : t.acct.link = l => t \in txns'
    /\ \A a \in AccountsOf(l) :
         a \in DOMAIN balance' /\ (balance'[a] = balance[a] \/ links'[l].synced)

LedgersGrow == \A c \in Conns : ledger[c] <= ledger'[c]

(* Without a write everything is kept.                                     *)
LEMMA UnchangedKept ==
  ASSUME Inv, UNCHANGED <<balance, txns>>, Links' = Links,
         \A k \in Links : links'[k].synced = links[k].synced
  PROVE /\ \A l \in Links : Kept(l)
        /\ DemoAccounts => DemoAccounts'
        /\ BalanceBacked => BalanceBacked'
  BY DEF Inv, Structure, CascadeComplete, Kept, AccountsOf, DemoAccounts, Demo, BalanceBacked

(* A session that does not move keeps what it knows.                       *)
LEMMA OtherDemo ==
  ASSUME Inv, TypeOK', LedgersGrow, NEW q \in Procs, SessionDemo(q),
         pc'[q] = pc[q], orm'[q] = orm[q], buf'[q] = buf[q],
         pc[q] \in JobPhases => Kept(orm[q].link)
  PROVE SessionDemo(q)'
  <1>0. TypeOK /\ Structure
    BY DEF Inv
  <1> DEFINE l == orm[q].link
  <1>1. ASSUME pc[q] \in JobPhases
        PROVE /\ l \in Links /\ Kept(l) /\ SyncConn(q) \in Conns
              /\ pc[q] \in {"sync_write", "sync_commit"} => buf[q].target \subseteq AccountsOf(l)
    BY <1>0, <1>1, ConstantsAssumption DEF Structure, JobPinsLink, SyncConn, TypeOK
  <1>2. pc[q] \in {"sync_write", "sync_commit"} => buf[q].dirty \subseteq AccountsOf(orm[q].link)'
    BY <1>1 DEF SessionDemo, JobPhases, Kept, AccountsOf
  <1>3. Demo(l) /\ pc[q] = "sync_txns" => buf[q].bal <= ledger'[SyncConn(q)]
    <2>1. buf[q].bal \in Nat /\ \A c \in Conns : ledger[c] \in Nat /\ ledger'[c] \in Nat
      BY <1>0, ConstantsAssumption DEF TypeOK, Buf
    <2> QED BY <1>1, <2>1 DEF SessionDemo, JobPhases, LedgersGrow
  <1>4. Demo(l) /\ pc[q] = "sync_commit" =>
          \A a \in buf[q].target, n \in 1 .. buf[q].bal :
             n \in buf[q].ids \/ [acct |-> a, tid |-> n] \in txns'
    BY <1>1 DEF SessionDemo, JobPhases, Kept, AccountsOf
  <1>5. Demo(l) /\ pc[q] \in {"sync_write", "sync_commit"} =>
          \A a \in buf[q].target :
             \/ a \in buf[q].dirty \/ balance'[a] = buf[q].bal \/ links'[l].synced
    BY <1>1 DEF SessionDemo, JobPhases, Kept
  <1> QED BY <1>2, <1>3, <1>4, <1>5 DEF SessionDemo, Demo, SyncConn

(* One session moves.                                                      *)
LEMMA MoveDemo ==
  ASSUME Inv, TypeOK', DemoParts, NEW p \in Procs, OnlyMoves(p), SessionDemo(p)',
         UNCHANGED <<ledger, offered>>, \A l \in Links : Kept(l), DemoAccounts'
  PROVE DemoParts'
  <1>1. LedgersGrow
    BY ConstantsAssumption DEF LedgersGrow, Inv, TypeOK
  <1>2. ASSUME NEW q \in Procs \ {p} PROVE SessionDemo(q)'
    <2>1. pc[q] \in JobPhases => Kept(orm[q].link)
      BY DEF Inv, Structure, JobPinsLink
    <2> QED BY <1>1, <2>1, OtherDemo DEF DemoParts, OnlyMoves
  <1> QED BY <1>2 DEF DemoParts, DemoOffers

(* A session moves without a write to balances, transactions or synced.    *)
LEMMA QuietDemo ==
  ASSUME BalanceInv, TypeOK', NEW p \in Procs, OnlyMoves(p), SessionDemo(p)',
         UNCHANGED <<ledger, offered, balance, txns>>, Links' = Links,
         \A k \in Links : links'[k].synced = links[k].synced
  PROVE DemoParts' /\ BalanceBacked'
  BY UnchangedKept, MoveDemo DEF BalanceInv, ViewInv, DemoParts

(* The phases in which a session carries something.                        *)
Carrying == {"link_flush", "link_commit", "sync_txns", "sync_read", "sync_write", "sync_commit"}

(* A session that carries nothing has nothing to know.                     *)
LEMMA EmptyHanded == ASSUME NEW p, pc'[p] \notin Carrying PROVE SessionDemo(p)'
  BY DEF SessionDemo, Carrying

(* A session that ends moves alone and carries nothing.                    *)
LEMMA EndMoves ==
  ASSUME TypeOK, NEW p \in Procs, NEW phase \in Ended, End(p, phase)
  PROVE OnlyMoves(p) /\ pc'[p] = phase /\ pc'[p] \notin Carrying
  BY DEF TypeOK, End, OnlyMoves, Ended, Carrying

-----------------------------------------------------------------------------
(* The actions.                                                            *)

(* A re-link of a demo bank adds no account; a first link is not synced.   *)
LEMMA CommitLinkDemo ==
  ASSUME BalanceInv, TypeOK', NEW r \in Requests, CommitLink(r)
  PROVE DemoParts' /\ BalanceBacked'
  <1> DEFINE l == orm[r].link
             fresh == {[link |-> l, pid |-> x, by |-> r] : x \in buf[r].pids}
  <1>0. /\ Inv /\ TypeOK /\ Structure /\ ViewParts /\ r \in Procs
        /\ DemoParts /\ BalanceBacked /\ SessionDemo(r)
    BY DEF BalanceInv, ViewInv, DemoParts, Inv, Procs
  <1>1. /\ OnlyMoves(r) /\ pc[r] = "link_commit" /\ pc'[r] = "link_refresh"
        /\ Links' = Links \cup {l} /\ links'[l] = CommittedRow(r)
        /\ \A k \in Links \ {l} : links'[k] = links[k]
        /\ DOMAIN balance' = DOMAIN balance \cup fresh
        /\ \A a \in DOMAIN balance \ fresh : balance'[a] = balance[a]
        /\ txns' = txns /\ UNCHANGED <<ledger, offered>>
    BY <1>0 DEF CommitLink, Goto, TypeOK, OnlyMoves, Links, envVars
  <1>2. /\ l # r => l \in Links
        /\ r \notin Links
        /\ \A a \in AccountsOf(l) : a.pid \notin buf[r].pids
        /\ Demo(l) => buf[r].pids \subseteq {DemoAccount}
    BY <1>0, <1>1 DEF Structure, RelinkLock, NewRows, LinkPhases, SessionDemo
  <1>3. \A a \in DOMAIN balance : a \notin fresh
    BY <1>2 DEF AccountsOf
  <1>4. l # r => links'[l].synced = links[l].synced
    BY <1>0, <1>1, <1>2 DEF CommittedRow, TypeOK, LinkRow
  <1>5. ASSUME NEW k \in Links PROVE Kept(k)
    <2>1. links[k].synced => links'[k].synced
      BY <1>1, <1>2, <1>4
    <2> QED BY <1>1, <1>3, <2>1 DEF Kept, AccountsOf
  <1>6. DemoAccounts'
    BY <1>0, <1>1, <1>2 DEF DemoParts, DemoAccounts, Demo
  <1>7. l # r /\ Demo(l) => fresh = {}
    <2> SUFFICES ASSUME l # r, Demo(l) PROVE buf[r].pids = {}
      OBVIOUS
    <2>1. PICK a \in AccountsOf(l) : TRUE
      BY <1>0, <1>2 DEF ViewParts
    <2>2. a.pid = DemoAccount
      BY <1>0, <2>1 DEF DemoParts, DemoAccounts, AccountsOf
    <2> QED BY <1>2, <2>1, <2>2
  <1>8. BalanceBacked'
    <2> SUFFICES ASSUME NEW a \in DOMAIN balance', Demo(a.link), links'[a.link].synced
                 PROVE \A n \in 1 .. balance'[a] : [acct |-> a, tid |-> n] \in txns'
      BY DEF BalanceBacked, Demo
    <2>1. a \notin fresh
      <3>1. l = r => ~links'[l].synced
        BY <1>1 DEF CommittedRow
      <3> QED BY <1>7, <3>1
    <2>2. a \in DOMAIN balance /\ balance'[a] = balance[a]
      BY <1>1, <2>1
    <2>3. links[a.link].synced
      <3>1. a.link \in Links
        BY <1>0, <2>2 DEF Structure, CascadeComplete
      <3> QED BY <1>1, <1>2, <1>4, <3>1
    <2> QED BY <1>0, <1>1, <2>2, <2>3 DEF BalanceBacked, Demo
  <1>9. SessionDemo(r)'
    BY <1>1, EmptyHanded DEF Carrying
  <1> QED BY <1>0, <1>1, <1>5, <1>6, <1>8, <1>9, MoveDemo

(* complete_link.                                                          *)
LEMMA LinkStepDemo ==
  ASSUME BalanceInv, TypeOK', NEW r \in Requests, LinkStep(r)
  PROVE DemoParts' /\ BalanceBacked'
  <1>0. /\ TypeOK /\ r \in Procs /\ SessionDemo(r) /\ DemoOffers /\ SessionToken(r)
    BY DEF BalanceInv, ViewInv, DemoParts, Inv, Procs, Tokens
  <1>1. CASE CommitLink(r)
    BY <1>1, CommitLinkDemo
  <1>2. CASE ~CommitLink(r)
    <2>1. UNCHANGED <<links, balance, txns, ledger, offered>>
      BY <1>2 DEF LinkStep, StartLink, LookupLink, InsertLink, FetchForLink, LinkFails,
                  FlushLink, RefreshLink, dbVars, envVars
    <2>2. OnlyMoves(r) /\ SessionDemo(r)'
      <3>1. CASE End(r, "aborted")
        BY <1>0, <3>1, EndMoves, EmptyHanded DEF Ended
      <3>2. CASE FetchForLink(r)
        <4>1. /\ OnlyMoves(r) /\ pc'[r] = "link_flush" /\ orm' = orm /\ pc[r] = "link_fetch"
              /\ buf'[r].pids = offered[ConnOf[r]]
          BY <1>0, <3>2 DEF FetchForLink, Goto, TypeOK, OnlyMoves, Buf
        <4>2. ConnOf[orm[r].link] = ConnOf[r] /\ ConnOf[r] \in Conns
          BY <1>0, <4>1, ConstantsAssumption DEF SessionToken, LinkPhases
        <4> QED BY <1>0, <4>1, <4>2 DEF SessionDemo, Demo, DemoOffers
      <3>3. CASE FlushLink(r) /\ ~End(r, "aborted")
        <4>1. /\ OnlyMoves(r) /\ pc[r] = "link_flush" /\ pc'[r] = "link_commit" /\ orm' = orm
              /\ buf'[r].pids \subseteq buf[r].pids
          BY <1>0, <3>3 DEF FlushLink, Goto, TypeOK, OnlyMoves, Buf
        <4> QED BY <1>0, <4>1 DEF SessionDemo, Demo
      <3>4. CASE (StartLink(r) \/ LookupLink(r) \/ InsertLink(r) \/ RefreshLink(r))
                   /\ ~End(r, "aborted")
        <4>1. OnlyMoves(r) /\ pc'[r] \in {"lookup", "insert", "link_fetch", "sync_start"}
          BY <1>0, <3>4
             DEF StartLink, LookupLink, InsertLink, RefreshLink, Goto, TypeOK, OnlyMoves
        <4> QED BY <4>1, EmptyHanded DEF Carrying
      <3> QED BY <1>2, <3>1, <3>2, <3>3, <3>4 DEF LinkStep, LinkFails
    <2> QED BY <1>0, <2>1, <2>2, QuietDemo DEF Links
  <1> QED BY <1>1, <1>2

(* What a sync commits keeps every demo balance backed.                    *)
LEMMA ApplyDemo ==
  ASSUME BalanceInv, TypeOK', NEW p \in Procs, pc[p] = "sync_commit", Apply(p)
  PROVE /\ \A k \in Links : Kept(k)
        /\ DemoAccounts' /\ BalanceBacked'
  <1> DEFINE l == orm[p].link
  <1>0. /\ Inv /\ TypeOK /\ Structure /\ DemoAccounts /\ BalanceBacked /\ SessionDemo(p)
        /\ l \in Links /\ buf[p].target \subseteq AccountsOf(l)
        /\ buf[p].dirty \subseteq AccountsOf(l)
    BY DEF BalanceInv, ViewInv, DemoParts, Inv, Structure, JobPinsLink, JobPhases, SessionDemo
  <1>1. /\ Links' = Links /\ links'[l].synced
        /\ \A k \in Links \ {l} : links'[k] = links[k]
        /\ DOMAIN balance' = DOMAIN balance
        /\ \A a \in DOMAIN balance :
             balance'[a] = IF a \in buf[p].dirty THEN buf[p].bal ELSE balance[a]
        /\ txns' = txns \cup RowsOf(p)
    BY <1>0 DEF Apply, TypeOK, LinkRow, Links
  <1>2. ASSUME NEW k \in Links PROVE Kept(k)
    <2>1. links[k].synced => links'[k].synced
      BY <1>1
    <2>2. \A a \in AccountsOf(k) : balance'[a] = balance[a] \/ links'[k].synced
      BY <1>0, <1>1 DEF AccountsOf
    <2> QED BY <1>1, <2>1, <2>2 DEF Kept, AccountsOf
  <1>3. DemoAccounts'
    BY <1>0, <1>1 DEF DemoAccounts, Demo
  <1>4. BalanceBacked'
    <2> SUFFICES ASSUME NEW a \in DOMAIN balance, Demo(a.link), links'[a.link].synced,
                        NEW n \in 1 .. balance'[a]
                 PROVE [acct |-> a, tid |-> n] \in txns'
      BY <1>1 DEF BalanceBacked, Demo
    <2>0. a.link \in Links
      BY <1>0 DEF Structure, CascadeComplete
    <2>1. CASE balance'[a] = balance[a] /\ links[a.link].synced
      BY <1>0, <1>1, <2>1 DEF BalanceBacked, Demo
    <2>2. CASE ~(balance'[a] = balance[a] /\ links[a.link].synced)
      <3>1. a.link = l /\ a \in AccountsOf(l)
        BY <1>0, <1>1, <2>0, <2>2 DEF AccountsOf
      <3>2. PICK b \in buf[p].target : TRUE
        BY <1>0, <3>1 DEF SessionDemo
      <3>3. b = a
        BY <1>0, <3>1, <3>2 DEF Structure, NoDuplicateAccounts, DemoAccounts, AccountsOf, Demo
      <3>4. balance'[a] = buf[p].bal
        BY <1>0, <1>1, <2>2, <3>1, <3>2, <3>3 DEF SessionDemo
      <3>5. n \in buf[p].ids \/ [acct |-> a, tid |-> n] \in txns
        BY <1>0, <3>1, <3>2, <3>3, <3>4 DEF SessionDemo
      <3>6. n \in buf[p].ids => [acct |-> a, tid |-> n] \in RowsOf(p)
        BY <3>2, <3>3 DEF RowsOf
      <3> QED BY <1>1, <3>5, <3>6
    <2> QED BY <2>1, <2>2
  <1> QED BY <1>2, <1>3, <1>4
(* A sync that does not write yet: it fetches the balance first, then the  *)
(* transactions, and reads the one account they are for.                   *)
LEMMA FetchDemo ==
  ASSUME BalanceInv, NEW p \in Procs,
         FetchAccounts(p) \/ FetchTransactions(p) \/ ReadAccounts(p) \/ WriteRows(p)
  PROVE OnlyMoves(p) /\ SessionDemo(p)'
  <1> DEFINE l == orm[p].link
  <1>0. /\ Inv /\ TypeOK /\ Structure /\ ViewParts
        /\ DemoOffers /\ DemoAccounts /\ SessionDemo(p)
        /\ l \in Links /\ SyncConn(p) \in Conns /\ buf[p] \in Buf
        /\ orm' = orm /\ UNCHANGED <<links, balance, txns, ledger>>
    <2>1. /\ pc[p] \in JobPhases
          /\ orm' = orm /\ UNCHANGED <<links, balance, txns, ledger>>
      BY DEF FetchAccounts, FetchTransactions, ReadAccounts, WriteRows, JobPhases, dbVars, envVars
    <2>2. Inv /\ TypeOK /\ Structure /\ ViewParts /\ DemoParts /\ l \in Links
      BY <2>1 DEF BalanceInv, ViewInv, Inv, Structure, JobPinsLink
    <2> QED BY <2>1, <2>2, ConstantsAssumption DEF DemoParts, SyncConn, TypeOK
  <1>1. CASE FetchAccounts(p)
    <2>1. /\ OnlyMoves(p) /\ pc'[p] = "sync_txns"
          /\ buf'[p].pids = offered[SyncConn(p)] /\ buf'[p].bal = ledger[SyncConn(p)]
      BY <1>0, <1>1 DEF FetchAccounts, Goto, TypeOK, OnlyMoves, Buf
    <2>2. ledger[SyncConn(p)] \in Nat
      BY <1>0, ConstantsAssumption DEF TypeOK
    <2> QED BY <1>0, <2>1, <2>2 DEF SessionDemo, Demo, DemoOffers, SyncConn
  <1>2. CASE FetchTransactions(p)
    <2>1. /\ OnlyMoves(p) /\ pc[p] = "sync_txns" /\ pc'[p] = "sync_read"
          /\ buf'[p].pids = buf[p].pids /\ buf'[p].bal = buf[p].bal
          /\ Demo(l) => buf'[p].ids = 1 .. ledger[SyncConn(p)]
      BY <1>0, <1>2 DEF FetchTransactions, Goto, TypeOK, OnlyMoves, Buf, Demo, SyncConn
    <2>2. ASSUME Demo(l) PROVE 1 .. buf'[p].bal \subseteq buf'[p].ids
      <3>1. buf[p].bal \in Nat /\ ledger[SyncConn(p)] \in Nat
        BY <1>0, ConstantsAssumption DEF TypeOK, Buf
      <3>2. buf[p].bal <= ledger[SyncConn(p)]
        BY <1>0, <2>1, <2>2 DEF SessionDemo
      <3> QED BY <2>1, <2>2, <3>1, <3>2
    <2> QED BY <1>0, <2>1, <2>2 DEF SessionDemo, Demo
  <1>3. CASE ReadAccounts(p)
    <2>1. OnlyMoves(p) /\ pc[p] = "sync_read" /\ pc'[p] = "sync_write"
      BY <1>0, <1>3 DEF ReadAccounts, Goto, TypeOK, OnlyMoves
    <2>2. PICK first \in AccountsOf(l) :
             buf' = [buf EXCEPT ![p].dirty = {a \in AccountsOf(l) :
                                     a.pid \in buf[p].pids /\ balance[a] # buf[p].bal},
                                ![p].target = {first}]
      BY <1>0, <1>3 DEF ReadAccounts, ViewParts
    <2>3. /\ buf'[p].dirty = {a \in AccountsOf(l) :
                                a.pid \in buf[p].pids /\ balance[a] # buf[p].bal}
          /\ buf'[p].target = {first}
          /\ buf'[p].ids = buf[p].ids /\ buf'[p].bal = buf[p].bal
      BY <1>0, <2>2 DEF TypeOK, Buf
    <2>4. ASSUME Demo(l) PROVE first \in buf'[p].dirty \/ balance[first] = buf[p].bal
      <3>1. first.pid \in buf[p].pids
        BY <1>0, <2>1, <2>2, <2>4 DEF DemoAccounts, SessionDemo, AccountsOf, Demo
      <3> QED BY <2>2, <2>3, <3>1
    <2>5. buf'[p].dirty \subseteq AccountsOf(orm[p].link)'
      BY <1>0, <2>3 DEF AccountsOf
    <2> QED BY <1>0, <2>1, <2>3, <2>4, <2>5 DEF SessionDemo, Demo
  <1>4. CASE WriteRows(p)
    <2>1. /\ OnlyMoves(p) /\ pc[p] = "sync_write" /\ pc'[p] = "sync_commit"
          /\ buf'[p].ids = {t.tid : t \in RowsOf(p) \ txns}
          /\ buf'[p].bal = buf[p].bal /\ buf'[p].target = buf[p].target
          /\ buf'[p].dirty = buf[p].dirty
      BY <1>0, <1>4 DEF WriteRows, Goto, TypeOK, OnlyMoves, Buf
    <2>2. ASSUME Demo(l), NEW a \in buf[p].target, NEW n \in 1 .. buf[p].bal,
                 [acct |-> a, tid |-> n] \notin txns
          PROVE n \in buf'[p].ids
      <3> DEFINE row == [acct |-> a, tid |-> n]
      <3>1. n \in buf[p].ids
        BY <1>0, <2>1, <2>2 DEF SessionDemo
      <3>2. row \in RowsOf(p) \ txns /\ row.tid = n
        BY <2>2, <3>1 DEF RowsOf
      <3> QED BY <2>1, <3>2
    <2>3. buf'[p].dirty \subseteq AccountsOf(orm[p].link)'
      BY <1>0, <2>1 DEF SessionDemo, AccountsOf
    <2> QED BY <1>0, <2>1, <2>2, <2>3 DEF SessionDemo, Demo
  <1> QED BY <1>1, <1>2, <1>3, <1>4

(* sync_linked_account.                                                    *)
LEMMA SyncStepDemo ==
  ASSUME BalanceInv, TypeOK', NEW p \in Procs, SyncStep(p)
  PROVE DemoParts' /\ BalanceBacked'
  <1>0. /\ Inv /\ TypeOK /\ Structure /\ DemoParts
        /\ pc[p] \in JobPhases => orm[p].link \in Links
    BY DEF BalanceInv, ViewInv, Inv, Structure, JobPinsLink
  <1>1. CASE FetchAccounts(p) \/ FetchTransactions(p) \/ ReadAccounts(p) \/ WriteRows(p)
    <2>1. OnlyMoves(p) /\ SessionDemo(p)'
      BY <1>1, FetchDemo
    <2>2. UNCHANGED <<ledger, offered, links, balance, txns>>
      BY <1>1 DEF FetchAccounts, FetchTransactions, ReadAccounts, WriteRows, dbVars, envVars
    <2> QED BY <2>1, <2>2, QuietDemo DEF Links
  <1>2. CASE CommitSync(p) \/ (LoseCommit(p) /\ Apply(p))
    <2>1. pc[p] = "sync_commit" /\ Apply(p) /\ UNCHANGED <<ledger, offered>>
      BY <1>2 DEF CommitSync, LoseCommit, envVars
    <2>2. OnlyMoves(p) /\ SessionDemo(p)'
      <3>1. OnlyMoves(p) /\ pc'[p] \in {"sync_record", "sync_refresh"}
        BY <1>0, <1>2 DEF CommitSync, LoseCommit, Goto, TypeOK, OnlyMoves
      <3> QED BY <3>1, EmptyHanded DEF Carrying
    <2> QED BY <1>0, <2>1, <2>2, ApplyDemo, MoveDemo
  <1>3. CASE \/ OpenJob(p) \/ RecordFailed(p) \/ (LoseCommit(p) /\ UNCHANGED dbVars)
             \/ ReportSync(p)
             \/ \E auth \in BOOLEAN : SyncFails(p, auth)
    <2>1. OnlyMoves(p) /\ pc'[p] \notin Carrying
      <3>1. CASE \E phase \in Ended : End(p, phase)
        BY <1>0, <3>1, EndMoves
      <3>2. CASE ~ \E phase \in Ended : End(p, phase)
        BY <1>0, <1>3, <3>2
           DEF OpenJob, RecordFailed, LoseCommit, ReportSync, SyncFails, Goto, Ended, TypeOK,
               OnlyMoves, Carrying
      <3> QED BY <3>1, <3>2
    <2>2. /\ UNCHANGED <<ledger, offered, balance, txns>> /\ Links' = Links
          /\ \A k \in Links : links'[k].synced = links[k].synced
      <3>1. ASSUME NEW auth \in BOOLEAN, SyncFails(p, auth)
            PROVE /\ UNCHANGED <<ledger, offered, balance, txns>> /\ Links' = Links
                  /\ \A k \in Links : links'[k].synced = links[k].synced
        BY <1>0, <3>1 DEF SyncFails, TypeOK, LinkRow, Links, JobPhases, envVars
      <3> QED BY <1>3, <3>1 DEF OpenJob, RecordFailed, LoseCommit, ReportSync, dbVars, envVars,
                                Links
    <2> QED BY <2>1, <2>2, EmptyHanded, QuietDemo
  <1> QED BY <1>1, <1>2, <1>3 DEF SyncStep, LoseCommit

(* An unlink waits for the syncs at work on the link.                      *)
LEMMA UnlinkDemo ==
  ASSUME BalanceInv, TypeOK', NEW l \in Requests, Unlink(l)
  PROVE DemoParts' /\ BalanceBacked'
  <1>0. /\ Inv /\ TypeOK /\ Structure /\ DemoParts /\ BalanceBacked
    BY DEF BalanceInv, ViewInv, Inv
  <1>1. /\ Links' = Links \ {l} /\ \A k \in Links' : links'[k] = links[k]
        /\ DOMAIN balance' = DOMAIN balance \ AccountsOf(l)
        /\ \A a \in DOMAIN balance' : balance'[a] = balance[a]
        /\ txns' = txns \ TxnsOf(l)
        /\ UNCHANGED <<ledger, offered, pc, orm, buf>>
    BY DEF Unlink, Links, Restrict, envVars
  <1>2. \A q \in Procs : pc[q] \in JobPhases => orm[q].link \in Links \ {l}
    BY <1>0 DEF Unlink, KeyShared, Structure, JobPinsLink
  <1>3. \A k \in Links \ {l} : Kept(k)
    BY <1>1 DEF Kept, AccountsOf, TxnsOf
  <1>4. LedgersGrow
    BY <1>0, <1>1, ConstantsAssumption DEF LedgersGrow, TypeOK
  <1>5. \A q \in Procs : SessionDemo(q)'
    BY <1>0, <1>1, <1>2, <1>3, <1>4, OtherDemo DEF DemoParts
  <1>6. DemoOffers' /\ DemoAccounts'
    BY <1>0, <1>1 DEF DemoParts, DemoOffers, DemoAccounts, Demo
  <1>7. BalanceBacked'
    BY <1>0, <1>1 DEF BalanceBacked, Structure, CascadeComplete, AccountsOf, TxnsOf
  <1> QED BY <1>5, <1>6, <1>7 DEF DemoParts

(* The provider posts and lists more, and never at a demo bank lists more. *)
LEMMA ProviderDemo ==
  ASSUME BalanceInv, TypeOK', ProviderStep
  PROVE DemoParts' /\ BalanceBacked'
  <1>0. /\ Inv /\ TypeOK /\ Structure /\ DemoParts /\ BalanceBacked
    BY DEF BalanceInv, ViewInv, Inv
  <1>1. UNCHANGED <<links, balance, txns, pc, orm, buf>>
    BY DEF ProviderStep, Post, OpenAccount, dbVars
  <1>2. LedgersGrow
    <2>1. \A c \in Conns : ledger[c] \in Nat
      BY <1>0, ConstantsAssumption DEF TypeOK
    <2> QED BY <1>0, <2>1 DEF ProviderStep, Post, OpenAccount, LedgersGrow, TypeOK
  <1>3. DemoOffers'
    BY <1>0 DEF ProviderStep, Post, OpenAccount, DemoParts, DemoOffers, TypeOK
  <1>4. /\ \A l \in Links : Kept(l)
        /\ DemoAccounts' /\ BalanceBacked'
    BY <1>0, <1>1, UnchangedKept DEF DemoParts, Links
  <1>5. \A q \in Procs : SessionDemo(q)'
    <2>1. \A q \in Procs : pc[q] \in JobPhases => Kept(orm[q].link)
      BY <1>0, <1>4 DEF Structure, JobPinsLink
    <2> QED BY <1>0, <1>1, <1>2, <2>1, OtherDemo DEF DemoParts
  <1> QED BY <1>3, <1>4, <1>5 DEF DemoParts

(* Every step preserves the invariant.                                     *)
LEMMA StepBalance == BalanceInv /\ [Next]_vars => BalanceInv'
  <1> SUFFICES ASSUME BalanceInv, [Next]_vars PROVE BalanceInv'
    OBVIOUS
  <1>0. ViewInv' /\ Tokens' /\ TypeOK'
    BY StepView, StepTokens DEF BalanceInv, ViewInv, Inv
  <1>1. ASSUME NEW r \in Requests, LinkStep(r) PROVE DemoParts' /\ BalanceBacked'
    BY <1>0, <1>1, LinkStepDemo
  <1>2. ASSUME NEW l \in Requests, Unlink(l) PROVE DemoParts' /\ BalanceBacked'
    BY <1>0, <1>2, UnlinkDemo
  <1>3. ASSUME NEW p \in Procs, SyncStep(p) PROVE DemoParts' /\ BalanceBacked'
    BY <1>0, <1>3, SyncStepDemo
  <1>4. CASE ProviderStep
    BY <1>0, <1>4, ProviderDemo DEF BalanceInv
  <1>5. ASSUME NEW d \in Deliveries, NEW l \in Requests, ReceiveRequest(d, l)
        PROVE DemoParts' /\ BalanceBacked'
    <2>1. d \in Procs /\ TypeOK /\ UNCHANGED <<links, balance, txns, ledger, offered>>
      BY <1>5 DEF ReceiveRequest, dbVars, envVars, Procs, BalanceInv, ViewInv, Inv
    <2>2. OnlyMoves(d) /\ pc'[d] \notin Carrying
      <3>1. CASE End(d, "done")
        BY <2>1, <3>1, EndMoves DEF Ended
      <3>2. CASE ~End(d, "done")
        BY <1>5, <2>1, <3>2 DEF ReceiveRequest, Goto, TypeOK, OnlyMoves, Carrying
      <3> QED BY <3>1, <3>2
    <2> QED BY <1>0, <2>1, <2>2, EmptyHanded, QuietDemo DEF Links
  <1>6. ASSUME NEW p \in Procs, Abort(p) PROVE DemoParts' /\ BalanceBacked'
    <2>1. TypeOK /\ UNCHANGED <<links, balance, txns, ledger, offered>> /\ End(p, "aborted")
      BY <1>6 DEF Abort, dbVars, envVars, BalanceInv, ViewInv, Inv
    <2>2. OnlyMoves(p) /\ pc'[p] \notin Carrying
      BY <2>1, EndMoves DEF Ended
    <2> QED BY <1>0, <2>1, <2>2, EmptyHanded, QuietDemo DEF Links
  <1>7. CASE UNCHANGED vars
    BY <1>0, <1>7 DEF vars, BalanceInv, DemoParts, DemoOffers, DemoAccounts, SessionDemo,
                      Demo, BalanceBacked, AccountsOf, SyncConn
  <1> QED BY <1>0, <1>1, <1>2, <1>3, <1>4, <1>5, <1>6, <1>7 DEF BalanceInv, Next, Finished

(* Nothing is carried at the start.                                        *)
LEMMA InitBalance == Init => BalanceInv
  <1> SUFFICES ASSUME Init PROVE BalanceInv
    OBVIOUS
  <1>1. ViewInv /\ Tokens
    BY InitView, InitTokens
  <1>2. DemoParts /\ BalanceBacked
    BY DEF Init, DemoParts, DemoOffers, DemoAccounts, SessionDemo, BalanceBacked
  <1> QED BY <1>1, <1>2 DEF BalanceInv

-----------------------------------------------------------------------------
(* However syncs, re-links and unlinks of a link overlap, the balance GET  *)
(* /accounts shows of a demo bank's account is one that its stored         *)
(* transactions reach, from the first successful sync on.                  *)
THEOREM BalanceStaysBacked == Spec => []BalanceBacked
  <1>1. BalanceInv => BalanceBacked
    BY DEF BalanceInv
  <1> QED BY <1>1, InitBalance, StepBalance, PTL DEF Spec

-----------------------------------------------------------------------------
(* The sum over a set of reports.                                          *)

(* The transactions a report counts, one by one, and those of a set.       *)
Of(j) == {<<j, i>> : i \in 1 .. j.count}
Reported(S) == UNION {Of(j) : j \in S}

(* The transactions of one report are as many as it counts.                *)
LEMMA ReportedByOne ==
  ASSUME NEW j, j.count \in Nat
  PROVE IsFiniteSet(Of(j)) /\ Cardinality(Of(j)) = j.count
  <1> DEFINE f == [i \in 1 .. j.count |-> <<j, i>>]
  <1>1. f \in Bijection(1 .. j.count, Of(j))
    BY DEF Bijection, Injection, Surjection, IsInjective, Of
  <1>2. IsFiniteSet(1 .. j.count) /\ Cardinality(1 .. j.count) = j.count
    BY FS_Interval
  <1> QED BY <1>1, <1>2, FS_Bijection DEF ExistsBijection

(* Finitely many reports have finitely many.                               *)
LEMMA ReportedFinite ==
  ASSUME NEW S, IsFiniteSet(S), \A j \in S : j.count \in Nat
  PROVE IsFiniteSet(Reported(S))
  <1> DEFINE parts == {Of(j) : j \in S}
             f == [j \in S |-> Of(j)]
  <1>1. f \in Surjection(S, parts)
    BY DEF Surjection
  <1>2. IsFiniteSet(parts)
    BY <1>1, FS_Surjection
  <1>3. \A T \in parts : IsFiniteSet(T)
    BY ReportedByOne
  <1> QED BY <1>2, <1>3, FS_UNION DEF Reported

(* One report more.                                                        *)
LEMMA ReportedWith ==
  ASSUME NEW S, IsFiniteSet(S), \A j \in S : j.count \in Nat, NEW x \in S
  PROVE Cardinality(Reported(S)) = x.count + Cardinality(Reported(S \ {x}))
  <1> DEFINE R == Reported(S \ {x})
  <1>1. IsFiniteSet(R)
    BY ReportedFinite, FS_RemoveElement
  <1>2. IsFiniteSet(Of(x)) /\ Cardinality(Of(x)) = x.count
    BY ReportedByOne
  <1>3. Reported(S) = R \cup Of(x)
    BY DEF Reported
  <1>4. R \cap Of(x) = {}
    BY DEF Reported, Of
  <1>5. Cardinality(R) \in Nat
    BY <1>1, FS_CardinalityType
  <1>6. x.count \in Nat
    OBVIOUS
  <1>7. Cardinality(R \cup Of(x)) = Cardinality(R) + Cardinality(Of(x)) - Cardinality(R \cap Of(x))
    BY ONLY <1>1, <1>2, FS_Union
  <1>8. Cardinality(R \cap Of(x)) = 0
    BY <1>4, FS_EmptySet
  <1>9. Cardinality(Reported(S)) = Cardinality(R) + x.count
    BY ONLY <1>2, <1>3, <1>5, <1>6, <1>7, <1>8
  <1> QED BY ONLY <1>5, <1>6, <1>9

(* One step of the fold: some report is taken out, and what it counts is   *)
(* added to the sum over the others.                                       *)
TotalStep(h, s) == IF s = {} THEN 0 ELSE LET x == CHOOSE y \in s : TRUE IN x.count + h[s \ {x}]

(* The fold is a recursive function, of which CHOOSE yields one as soon as *)
(* there is one.                                                           *)
LEMMA TotalIs ==
  ASSUME NEW S, NEW g, g = [s \in SUBSET S |-> TotalStep(g, s)]
  PROVE \E h : h = [s \in SUBSET S |-> TotalStep(h, s)] /\ Total(S) = h[S]
  <1> DEFINE P(h) == h = [s \in SUBSET S |-> TotalStep(h, s)]
  <1>1. P(CHOOSE h : P(h))
    <2>1. P(g)
      OBVIOUS
    <2> HIDE DEF P
    <2> QED BY <2>1
  <1>2. Total(S) = (CHOOSE h : P(h))[S]
    BY DEF Total, MapThenSumSet, MapThenFoldSet, TotalStep
  <1> QED BY <1>1, <1>2

(* A set of numbers has a least one.                                       *)
LEMMA LeastNumber ==
  ASSUME NEW T, T \subseteq Nat, T # {}
  PROVE \E n \in T : \A m \in T : n <= m
  <1>1. PICK n \in T : \A m \in T : ~(<<m, n>> \in OpToRel(<, Nat))
    BY NatLessThanWellFounded, WFMin, Zenon
  <1>2. ASSUME NEW m \in T PROVE n <= m
    BY <1>1, m \in Nat, n \in Nat, <<m, n>> \in Nat \X Nat DEF OpToRel
  <1> QED BY <1>2

(* A recursive sum has one value.                                          *)
LEMMA TotalUnique ==
  ASSUME NEW S, IsFiniteSet(S), NEW g, NEW h,
         g = [s \in SUBSET S |-> TotalStep(g, s)],
         h = [s \in SUBSET S |-> TotalStep(h, s)]
  PROVE g[S] = h[S]
  <1> SUFFICES ASSUME g[S] # h[S] PROVE FALSE
    OBVIOUS
  <1> DEFINE Differ == {s \in SUBSET S : g[s] # h[s]}
             Sizes  == {n \in Nat : \E s \in Differ : n = Cardinality(s)}
  <1>1. \A s \in SUBSET S : IsFiniteSet(s) /\ Cardinality(s) \in Nat
    BY FS_Subset, FS_CardinalityType
  <1>2. Sizes \subseteq Nat /\ Sizes # {}
    BY <1>1
  <1>3. PICK n \in Sizes : \A m \in Sizes : n <= m
    BY ONLY <1>2, LeastNumber
  <1>4. PICK s \in Differ : n = Cardinality(s)
    OBVIOUS
  <1>5. s # {} /\ s \in SUBSET S
    BY <1>4 DEF TotalStep
  <1>6. PICK x : x = CHOOSE y \in s : TRUE
    OBVIOUS
  <1>7. x \in s /\ s \ {x} \in SUBSET S
    BY <1>5, <1>6
  <1>8. Cardinality(s \ {x}) = Cardinality(s) - 1 /\ Cardinality(s) \in Nat
    BY ONLY <1>1, <1>5, <1>7, FS_RemoveElement
  <1>9. s \ {x} \notin Differ
    <2>1. Cardinality(s \ {x}) \in Nat
      BY <1>1, <1>7
    <2>2. s \ {x} \in Differ => Cardinality(s \ {x}) \in Sizes
      BY <2>1
    <2> HIDE DEF Differ, Sizes
    <2> QED BY <1>3, <1>4, <1>8, <2>2
  <1>10. g[s] = TotalStep(g, s) /\ h[s] = TotalStep(h, s)
    BY <1>5
  <1> QED BY <1>4, <1>5, <1>6, <1>7, <1>9, <1>10 DEF TotalStep

(* The sum of the counts is the number of transactions reported.           *)
LEMMA TotalIsReported ==
  ASSUME NEW S, IsFiniteSet(S), \A j \in S : j.count \in Nat
  PROVE Total(S) = Cardinality(Reported(S))
  <1> DEFINE g == [s \in SUBSET S |-> Cardinality(Reported(s))]
  <1>1. \A s \in SUBSET S : Cardinality(Reported(s)) = TotalStep(g, s)
    <2> SUFFICES ASSUME NEW s \in SUBSET S PROVE Cardinality(Reported(s)) = TotalStep(g, s)
      OBVIOUS
    <2>1. CASE s = {}
      <3>1. Reported({}) = {}
        BY DEF Reported
      <3> QED BY <2>1, <3>1, FS_EmptySet DEF TotalStep
    <2>2. CASE s # {}
      <3> DEFINE x == CHOOSE y \in s : TRUE
      <3>1. x \in s /\ s \ {x} \in SUBSET S
        BY <2>2
      <3>2. IsFiniteSet(s)
        BY FS_Subset
      <3>3. Cardinality(Reported(s)) = x.count + Cardinality(Reported(s \ {x}))
        BY <3>1, <3>2, ReportedWith
      <3> QED BY <2>2, <3>1, <3>3 DEF TotalStep
    <2> QED BY <2>1, <2>2
  <1>2. g = [s \in SUBSET S |-> TotalStep(g, s)]
    BY <1>1
  <1>3. g[S] = Cardinality(Reported(S))
    OBVIOUS
  <1> HIDE DEF g
  <1>4. PICK h : h = [s \in SUBSET S |-> TotalStep(h, s)] /\ Total(S) = h[S]
    BY <1>2, TotalIs
  <1>5. g[S] = h[S]
    BY <1>2, <1>4, TotalUnique
  <1> QED BY <1>3, <1>4, <1>5

(* No reports count nothing.                                               *)
LEMMA TotalNone == Total({}) = 0
  <1>1. Reported({}) = {}
    BY DEF Reported
  <1> QED BY <1>1, TotalIsReported, FS_EmptySet

(* One report more adds what it counts.                                    *)
LEMMA TotalWith ==
  ASSUME NEW S, IsFiniteSet(S), \A j \in S : j.count \in Nat,
         NEW x, x.count \in Nat, x \notin S \/ x.count = 0
  PROVE Total(S \cup {x}) = Total(S) + x.count
  <1> DEFINE T == S \cup {x}
  <1>1. IsFiniteSet(T) /\ \A j \in T : j.count \in Nat
    BY FS_AddElement
  <1>2. Total(T) = Cardinality(Reported(T)) /\ Total(S) = Cardinality(Reported(S))
    BY <1>1, TotalIsReported
  <1>3. CASE x \notin S
    <2>1. T \ {x} = S
      BY <1>3
    <2>2. Cardinality(Reported(T)) = x.count + Cardinality(Reported(T \ {x}))
      BY <1>1, ReportedWith
    <2>3. Cardinality(Reported(S)) \in Nat
      BY ReportedFinite, FS_CardinalityType
    <2> QED BY <1>2, <2>1, <2>2, <2>3
  <1>4. CASE x \in S
    <2>1. S \cup {x} = S /\ x.count = 0
      BY <1>4
    <2>2. Total(S) \in Nat
      BY <1>2, ReportedFinite, FS_CardinalityType
    <2>3. Total(S \cup {x}) = Total(S)
      BY ONLY <2>1, Zenon
    <2>4. Total(S) + x.count = Total(S)
      BY ONLY <2>1, <2>2
    <2> QED BY <2>3, <2>4
  <1> QED BY <1>3, <1>4

(* Some of them sum up to no more than all of them.                        *)
LEMMA TotalOfSome ==
  ASSUME NEW S, NEW T, IsFiniteSet(S), \A r \in S : r.count \in Nat, T \subseteq S
  PROVE Total(T) \in Nat /\ Total(S) \in Nat /\ Total(T) <= Total(S)
  <1>1. IsFiniteSet(T)
    BY FS_Subset
  <1>2. Total(S) = Cardinality(Reported(S)) /\ Total(T) = Cardinality(Reported(T))
    BY <1>1, TotalIsReported
  <1>3. IsFiniteSet(Reported(S)) /\ Reported(T) \subseteq Reported(S)
    BY ReportedFinite DEF Reported
  <1> QED BY <1>2, <1>3, FS_Subset, FS_CardinalityType

-----------------------------------------------------------------------------
(* CountsMatch.                                                            *)

(* What has been reported, and what the sessions whose commit has returned *)
(* are about to report.                                                    *)
Pending  == {ReportOf(p) : p \in {q \in Procs : pc[q] = "sync_refresh"}}
Due      == reports \cup Pending
DueOf(l) == {r \in Due : r.link = l}

(* The phases in which session p may have committed a successful job.      *)
Reporting == {"sync_record", "sync_refresh"} \cup Ended

(* What session p knows of the counts: it has committed no success before  *)
(* its commit and reported none before its end, the rows it is about to    *)
(* commit are not stored, and the job it is about to report is there as    *)
(* long as its link is.                                                    *)
SessionCounts(p) ==
    /\ pc[p] \notin Reporting => \A j \in jobs : ~(j.by = p /\ j.status = "success")
    /\ pc[p] \notin Ended => \A r \in reports : r.by # p
    /\ pc[p] = "sync_commit" =>
         /\ RowsOf(p) \cap txns = {}
         /\ buf[p].ids # {} => buf[p].target # {}
    /\ pc[p] = "sync_refresh" =>
         /\ orm[p].link \in Requests /\ pc[orm[p].link] \notin Early
         /\ orm[p].link \in Links => Job(p, "success") \in jobs

(* The locks of two sessions that have written.                            *)
WritersApart ==
    \A p, q \in Procs : p # q /\ pc[p] = "sync_commit" /\ pc[q] = "sync_commit"
                          => RowsOf(p) \cap RowsOf(q) = {}

CountParts ==
    /\ IsFiniteSet(Due) /\ IsFiniteSet(txns)
    /\ \A r \in reports : pc[r.link] \notin Early
    /\ \A p \in Procs : SessionCounts(p)
    /\ WritersApart

(* CountsMatch, of what is due.                                            *)
Counted ==
    \A l \in Links :
      /\ Total(DueOf(l)) <= Cardinality(TxnsOf(l))
      /\ AllReported(l, DueOf(l)) => Total(DueOf(l)) = Cardinality(TxnsOf(l))

CountInv == ViewInv /\ CountParts /\ Counted

-----------------------------------------------------------------------------
(* What is due.                                                            *)

(* What is due are reports, on rows whose request is past its commit.      *)
LEMMA DueType ==
  ASSUME TypeOK, CountParts
  PROVE /\ Due \subseteq Report
        /\ \A r \in Due : pc[r.link] \notin Early
  <1>1. SessionTypes
    BY TypeParts
  <1>2. ASSUME NEW p \in Procs, pc[p] = "sync_refresh"
        PROVE ReportOf(p) \in Report /\ pc[ReportOf(p).link] \notin Early
    <2>1. orm[p].link \in Requests /\ pc[orm[p].link] \notin Early
      BY <1>2 DEF CountParts, SessionCounts
    <2> QED BY <1>1, <2>1, ReportType DEF ReportOf
  <1> QED BY <1>2 DEF TypeOK, CountParts, Due, Pending

(* A session that neither gains nor loses a report.                        *)
LEMMA DueSame ==
  ASSUME NEW p \in Procs, OnlyMoves(p), reports' = reports,
         pc[p] # "sync_refresh", pc'[p] # "sync_refresh"
  PROVE Due' = Due
  <1>1. {q \in Procs : pc'[q] = "sync_refresh"} = {q \in Procs : pc[q] = "sync_refresh"}
    BY DEF OnlyMoves
  <1>2. \A q \in {r \in Procs : pc[r] = "sync_refresh"} : ReportOf(q)' = ReportOf(q)
    BY DEF OnlyMoves, ReportOf
  <1>3. Pending' = Pending
    BY <1>1, <1>2 DEF Pending
  <1> QED BY <1>3 DEF Due

(* A session whose commit has returned.                                    *)
LEMMA DueMore ==
  ASSUME NEW p \in Procs, OnlyMoves(p), reports' = reports,
         pc[p] # "sync_refresh", pc'[p] = "sync_refresh"
  PROVE Due' = Due \cup {ReportOf(p)'}
  <1>1. {q \in Procs : pc'[q] = "sync_refresh"}
          = {q \in Procs : pc[q] = "sync_refresh"} \cup {p}
    BY DEF OnlyMoves
  <1>2. \A q \in {r \in Procs : pc[r] = "sync_refresh"} : ReportOf(q)' = ReportOf(q)
    BY DEF OnlyMoves, ReportOf
  <1>3. Pending' = Pending \cup {ReportOf(p)'}
    BY <1>1, <1>2 DEF Pending
  <1> QED BY <1>3 DEF Due

(* A session that ends after its commit: only its own report is lost, if   *)
(* it is not told.                                                         *)
LEMMA DueEnds ==
  ASSUME CountParts, NEW p \in Procs, OnlyMoves(p),
         pc[p] = "sync_refresh", pc'[p] # "sync_refresh"
  PROVE /\ reports' = reports \cup {ReportOf(p)} => Due' = Due
        /\ reports' = reports => Due' = Due \ {ReportOf(p)} /\ \A r \in Due' : r.by # p
  <1>1. {q \in Procs : pc'[q] = "sync_refresh"}
          = {q \in Procs : pc[q] = "sync_refresh"} \ {p}
    BY DEF OnlyMoves
  <1>2. \A q \in {r \in Procs : pc[r] = "sync_refresh"} \ {p} :
           ReportOf(q)' = ReportOf(q) /\ ReportOf(q).by = q
    BY DEF OnlyMoves, ReportOf
  <1>3. ReportOf(p).by = p /\ ReportOf(p) \in Pending
    BY DEF ReportOf, Pending
  <1>4. Pending' = Pending \ {ReportOf(p)} /\ \A r \in Pending' : r.by # p
    <2>1. Pending' = {ReportOf(q) : q \in {r \in Procs : pc[r] = "sync_refresh"} \ {p}}
      BY <1>1, <1>2 DEF Pending
    <2>2. \A r \in Pending' : r.by # p
      BY <1>2, <2>1
    <2> QED BY <1>3, <2>1, <2>2 DEF Pending
  <1>5. \A r \in reports : r.by # p
    BY DEF CountParts, SessionCounts, Ended
  <1> QED BY <1>3, <1>4, <1>5 DEF Due

-----------------------------------------------------------------------------
(* CountParts and Counted, step by step.                                   *)

(* No link appears but of a request at its commit.                         *)
LinksMayGrow == \A l \in Links' : l \in Links \/ pc[l] \in Early

(* A session moves on; what it writes touches no other session's rows.     *)
LEMMA MoveCounts ==
  ASSUME CountParts, TypeOK, NEW p \in Procs, OnlyMoves(p), SessionCounts(p)',
         IsFiniteSet(Due'), IsFiniteSet(txns'), LinksMayGrow,
         pc'[p] \in Early => pc[p] \in Early,
         jobs \subseteq jobs', \A j \in jobs' : j \in jobs \/ j.by = p,
         \A r \in reports' : r \in reports \/ (r.by = p /\ pc'[r.link] \notin Early),
         \A q \in Procs \ {p} : pc[q] = "sync_commit" =>
           /\ RowsOf(q) \cap txns' = {}
           /\ pc'[p] = "sync_commit" => RowsOf(q) \cap RowsOf(p)' = {}
  PROVE CountParts'
  <1>1. \A q \in Procs \ {p} :
          /\ pc'[q] = pc[q] /\ orm'[q] = orm[q] /\ buf'[q] = buf[q] /\ RowsOf(q)' = RowsOf(q)
          /\ Job(q, "success")' = Job(q, "success")
    BY DEF OnlyMoves, RowsOf, Job
  <1>2. \A l \in Requests : pc[l] \notin Early => pc'[l] \notin Early
    BY DEF OnlyMoves, Procs
  <1>3. ASSUME NEW q \in Procs PROVE SessionCounts(q)'
    <2>1. CASE q # p
      <3>1. /\ SessionCounts(q)
            /\ pc'[q] = pc[q] /\ orm'[q] = orm[q] /\ buf'[q] = buf[q] /\ RowsOf(q)' = RowsOf(q)
            /\ Job(q, "success")' = Job(q, "success")
        BY <1>1, <2>1 DEF CountParts
      <3>2. pc[q] \notin Reporting => \A j \in jobs' : ~(j.by = q /\ j.status = "success")
        BY <2>1, <3>1 DEF SessionCounts
      <3>3. pc[q] \notin Ended => \A r \in reports' : r.by # q
        BY <2>1, <3>1 DEF SessionCounts
      <3>4. pc[q] = "sync_refresh" =>
              /\ orm[q].link \in Requests /\ pc'[orm[q].link] \notin Early
              /\ orm[q].link \in Links' => Job(q, "success") \in jobs'
        BY <1>2, <3>1 DEF SessionCounts, LinksMayGrow
      <3>5. pc[q] = "sync_commit" =>
              RowsOf(q) \cap txns' = {} /\ (buf[q].ids # {} => buf[q].target # {})
        BY <2>1, <3>1 DEF SessionCounts
      <3> QED BY <3>1, <3>2, <3>3, <3>4, <3>5 DEF SessionCounts
    <2> QED BY <2>1
  <1>4. WritersApart'
    <2> SUFFICES ASSUME NEW a \in Procs, NEW b \in Procs, a # b,
                        pc'[a] = "sync_commit", pc'[b] = "sync_commit"
                 PROVE RowsOf(a)' \cap RowsOf(b)' = {}
      BY DEF WritersApart
    <2>1. CASE a # p /\ b # p
      BY <1>1, <2>1 DEF CountParts, WritersApart
    <2>2. CASE a = p
      BY <1>1, <2>2
    <2>3. CASE b = p
      BY <1>1, <2>3
    <2> QED BY <2>1, <2>2, <2>3
  <1>5. \A r \in reports' : pc'[r.link] \notin Early
    BY <1>2 DEF CountParts, TypeOK, Report
  <1> QED BY <1>3, <1>4, <1>5 DEF CountParts

(* Nothing is stored and no success is added: a new link has no reports    *)
(* and no transactions.                                                    *)
LEMMA CountedSame ==
  ASSUME CountInv, Due' = Due, txns' = txns, LinksMayGrow,
         \A j : j.status = "success" => (j \in jobs' <=> j \in jobs)
  PROVE Counted'
  <1>0. TypeOK /\ CascadeComplete /\ CountParts /\ Counted
    BY DEF CountInv, ViewInv, Inv, Structure
  <1> SUFFICES ASSUME NEW l \in Links'
               PROVE /\ Total(DueOf(l)') <= Cardinality(TxnsOf(l)')
                     /\ AllReported(l, DueOf(l))' => Total(DueOf(l)') = Cardinality(TxnsOf(l)')
    BY DEF Counted
  <1>1. DueOf(l)' = DueOf(l) /\ TxnsOf(l)' = TxnsOf(l)
    BY DEF DueOf, TxnsOf
  <1>2. AllReported(l, DueOf(l))' => AllReported(l, DueOf(l))
    BY <1>1 DEF AllReported, ReportedIn
  <1>3. CASE l \in Links
    BY <1>0, <1>1, <1>2, <1>3 DEF Counted
  <1>4. CASE l \notin Links
    <2>1. DueOf(l) = {}
      BY <1>0, <1>4, DueType DEF LinksMayGrow, DueOf
    <2>2. TxnsOf(l) = {}
      BY <1>0, <1>4 DEF CascadeComplete, TxnsOf
    <2>3. Total(DueOf(l)') = 0 /\ Cardinality(TxnsOf(l)') = 0
      BY <1>1, <2>1, <2>2, TotalNone, FS_EmptySet
    <2> QED BY <2>3
  <1> QED BY <1>3, <1>4

(* A report is lost: the attempt it belonged to stays unreported.          *)
LEMMA CountedLess ==
  ASSUME CountInv, NEW p \in Procs, OnlyMoves(p), pc[p] = "sync_refresh",
         pc'[p] # "sync_refresh", UNCHANGED <<links, jobs, txns, reports>>
  PROVE Counted'
  <1>0. TypeOK /\ CountParts /\ Counted /\ SessionCounts(p)
    BY DEF CountInv, ViewInv, Inv, CountParts
  <1> DEFINE lost == ReportOf(p)
  <1>1. lost.link = orm[p].link
    BY DEF ReportOf
  <1>2. Due' = Due \ {lost} /\ \A r \in Due' : r.by # p
    BY <1>0, DueEnds
  <1> HIDE DEF lost
  <1> SUFFICES ASSUME NEW l \in Links
               PROVE /\ Total(DueOf(l)') <= Cardinality(TxnsOf(l))
                     /\ AllReported(l, DueOf(l))' => Total(DueOf(l)') = Cardinality(TxnsOf(l))
    BY DEF Counted, Links, TxnsOf
  <1>3. Total(DueOf(l)) <= Cardinality(TxnsOf(l))
    BY <1>0 DEF Counted
  <1>4. CASE l # orm[p].link
    <2>1. DueOf(l)' = DueOf(l)
      BY <1>1, <1>2, <1>4 DEF DueOf
    <2>2. AllReported(l, DueOf(l))' => AllReported(l, DueOf(l))
      BY <2>1 DEF AllReported
    <2> QED BY <1>0, <2>1, <2>2 DEF Counted
  <1>5. CASE l = orm[p].link
    <2>1. Job(p, "success") \in jobs'
      BY <1>0, <1>5 DEF SessionCounts
    <2>2. ~AllReported(l, DueOf(l))'
      <3>1. /\ Job(p, "success").link = l /\ Job(p, "success").by = p
            /\ Job(p, "success").status = "success"
        BY <1>5 DEF Job
      <3> QED BY <1>2, <2>1, <3>1 DEF AllReported, ReportedIn, DueOf
    <2>3. DueOf(l)' \subseteq DueOf(l)
      BY <1>2 DEF DueOf
    <2>4. IsFiniteSet(DueOf(l)) /\ \A r \in DueOf(l) : r.count \in Nat
      BY <1>0, DueType, FS_Subset DEF DueOf, CountParts, Report
    <2>5. Total(DueOf(l)') \in Nat /\ Total(DueOf(l)) \in Nat /\ Total(DueOf(l)') <= Total(DueOf(l))
      BY <2>3, <2>4, TotalOfSome
    <2>6. Cardinality(TxnsOf(l)) \in Nat
      BY <1>0, FS_Subset, FS_CardinalityType DEF CountParts, TxnsOf
    <2>7. Total(DueOf(l)') <= Cardinality(TxnsOf(l))
      BY ONLY <1>3, <2>5, <2>6
    <2> QED BY <2>2, <2>7
  <1> QED BY <1>4, <1>5

(* A sync commits the rows it inserted, which nobody else has stored.      *)
LEMMA ApplyCounts ==
  ASSUME CountInv, NEW p \in Procs, pc[p] = "sync_commit", Apply(p),
         NEW l, l = orm[p].link, NEW n, n = Cardinality(buf[p].ids)
  PROVE /\ l \in Links /\ Links' = Links /\ n \in Nat
        /\ jobs' = jobs \cup {Job(p, "success")}
        /\ IsFiniteSet(txns')
        /\ \A k \in Links \ {l} : TxnsOf(k)' = TxnsOf(k)
        /\ Cardinality(TxnsOf(l)) \in Nat
        /\ Cardinality(TxnsOf(l)') = Cardinality(TxnsOf(l)) + n
        /\ \A q \in Procs \ {p} : pc[q] = "sync_commit" => RowsOf(q) \cap txns' = {}
  <1> DEFINE rows == RowsOf(p)
  <1>0. /\ Inv /\ TypeOK /\ Structure /\ CountParts
        /\ l \in Links /\ buf[p].target \subseteq AccountsOf(l) /\ buf[p] \in Buf
        /\ SessionCounts(p) /\ WritersApart /\ SessionView(p)
    BY DEF CountInv, ViewInv, ViewParts, CountParts, Inv, Structure, JobPinsLink, JobPhases, TypeOK
  <1>1. Links' = Links /\ txns' = txns \cup rows /\ jobs' = jobs \cup {Job(p, "success")}
    BY <1>0 DEF Apply, Links, TypeOK
  <1>2. IsFiniteSet(buf[p].ids) /\ n \in Nat
    <2>1. IsFiniteSet(TxnIds)
      BY ConstantsAssumption, FS_Interval DEF TxnIds
    <2>2. buf[p].ids \subseteq TxnIds
      BY <1>0 DEF Buf
    <2> QED BY <2>1, <2>2, FS_Subset, FS_CardinalityType
  <1>3. IsFiniteSet(rows) /\ Cardinality(rows) = n
    <2>1. CASE buf[p].ids = {}
      <3>1. rows = {}
        BY <2>1 DEF RowsOf
      <3> QED BY <2>1, <3>1, FS_EmptySet
    <2>2. CASE buf[p].ids # {}
      <3>1. PICK a \in buf[p].target : TRUE
        BY <1>0, <2>2 DEF SessionCounts
      <3>2. buf[p].target = {a}
        BY <1>0, <3>1 DEF SessionView
      <3> DEFINE f == [i \in buf[p].ids |-> [acct |-> a, tid |-> i]]
      <3>3. f \in Bijection(buf[p].ids, rows)
        BY <3>2 DEF Bijection, Injection, Surjection, IsInjective, RowsOf
      <3> QED BY <1>2, <3>3, FS_Bijection DEF ExistsBijection
    <2> QED BY <2>1, <2>2
  <1>4. rows \cap txns = {}
    BY <1>0 DEF SessionCounts
  <1>5. \A t \in rows : t.acct.link = l
    BY <1>0 DEF RowsOf, AccountsOf
  <1>6. IsFiniteSet(txns') /\ IsFiniteSet(TxnsOf(l))
    BY <1>0, <1>1, <1>3, FS_Union, FS_Subset DEF CountParts, TxnsOf
  <1>7. \A k \in Links \ {l} : TxnsOf(k)' = TxnsOf(k)
    BY <1>1, <1>5 DEF TxnsOf
  <1>8. TxnsOf(l)' = TxnsOf(l) \cup rows /\ TxnsOf(l) \cap rows = {}
    BY <1>1, <1>4, <1>5 DEF TxnsOf
  <1>9. Cardinality(TxnsOf(l)) \in Nat /\ Cardinality(TxnsOf(l) \cap rows) = 0
    BY <1>6, <1>8, FS_CardinalityType, FS_EmptySet
  <1>10. Cardinality(TxnsOf(l) \cup rows)
           = Cardinality(TxnsOf(l)) + Cardinality(rows) - Cardinality(TxnsOf(l) \cap rows)
    BY <1>3, <1>6, FS_Union
  <1> HIDE DEF rows
  <1>11. Cardinality(TxnsOf(l)') = Cardinality(TxnsOf(l)) + n
    BY ONLY <1>2, <1>3, <1>8, <1>9, <1>10
  <1>12. ASSUME NEW q \in Procs \ {p}, pc[q] = "sync_commit" PROVE RowsOf(q) \cap txns' = {}
    BY <1>0, <1>1, <1>12 DEF CountParts, SessionCounts, WritersApart, rows
  <1> QED BY <1>0, <1>1, <1>2, <1>6, <1>7, <1>9, <1>11, <1>12

(* A session that has not reported a success and is not about to commit or *)
(* to report.                                                              *)
LEMMA QuietCounts ==
  ASSUME CountInv, NEW p \in Procs, OnlyMoves(p), UNCHANGED <<jobs, txns, reports>>,
         LinksMayGrow,
         pc[p] # "sync_refresh", pc'[p] \notin {"sync_commit", "sync_refresh"},
         pc[p] \notin Reporting \/ pc'[p] \in Ended,
         pc'[p] \in Early => pc[p] \in Early
  PROVE CountParts' /\ Counted'
  <1>0. CountParts /\ TypeOK
    BY DEF CountInv, ViewInv, Inv
  <1>1. Due' = Due
    BY DueSame
  <1>2. SessionCounts(p)'
    BY <1>0 DEF CountParts, SessionCounts, Reporting, Ended
  <1>3. \A q \in Procs : pc[q] = "sync_commit" => RowsOf(q) \cap txns' = {}
    BY <1>0 DEF CountParts, SessionCounts
  <1>4. CountParts'
    BY <1>0, <1>1, <1>2, <1>3, MoveCounts DEF CountParts
  <1> QED BY <1>1, <1>4, CountedSame

(* A session that closes its job as failed.                                *)
LEMMA FailedCounts ==
  ASSUME CountInv, NEW p \in Procs, OnlyMoves(p), Links' = Links, UNCHANGED <<txns, reports>>,
         jobs' = jobs \cup {Job(p, "failed")},
         pc[p] # "sync_refresh", pc'[p] = "done"
  PROVE CountParts' /\ Counted'
  <1>0. CountParts /\ TypeOK /\ LinksMayGrow
    BY DEF CountInv, ViewInv, Inv, LinksMayGrow
  <1>1. Due' = Due
    BY DueSame
  <1>2. SessionCounts(p)'
    BY DEF SessionCounts, Reporting, Ended
  <1>3. Job(p, "failed").by = p /\ Job(p, "failed").status = "failed"
    BY DEF Job
  <1>4. \A q \in Procs : pc[q] = "sync_commit" => RowsOf(q) \cap txns' = {}
    BY <1>0 DEF CountParts, SessionCounts
  <1>5. pc'[p] \notin Early
    BY DEF Early, LinkPhases
  <1>6. CountParts'
    BY <1>0, <1>1, <1>2, <1>3, <1>4, <1>5, MoveCounts DEF CountParts
  <1>7. \A j : j.status = "success" => (j \in jobs' <=> j \in jobs)
    BY <1>3
  <1> QED BY <1>0, <1>1, <1>6, <1>7, CountedSame

(* complete_link writes no job and no transaction.                         *)
LEMMA LinkStepCounts ==
  ASSUME CountInv, NEW r \in Requests, LinkStep(r)
  PROVE CountParts' /\ Counted'
  <1>0. Inv /\ TypeOK /\ r \in Procs
    BY DEF CountInv, ViewInv, Inv, Procs
  <1>1. UNCHANGED <<jobs, txns, reports>>
    BY DEF LinkStep, StartLink, LookupLink, InsertLink, FetchForLink, LinkFails, FlushLink,
           CommitLink, RefreshLink, dbVars, envVars
  <1>2. pc[r] \in Early \cup {"link_refresh"}
    BY DEF LinkStep, StartLink, LookupLink, InsertLink, FetchForLink, LinkFails, FlushLink,
           CommitLink, RefreshLink, Early, LinkPhases
  <1>3. /\ OnlyMoves(r) /\ pc'[r] \notin {"sync_commit", "sync_refresh"}
        /\ pc'[r] \in Early => pc[r] \in Early
    <2>1. CASE End(r, "aborted")
      BY <1>0, <2>1, EndMoves DEF Ended, Early, LinkPhases
    <2>2. CASE ~End(r, "aborted")
      BY <1>0, <2>2
         DEF LinkStep, StartLink, LookupLink, InsertLink, FetchForLink, LinkFails, FlushLink,
             CommitLink, RefreshLink, Goto, TypeOK, OnlyMoves, Early, LinkPhases
    <2> QED BY <2>1, <2>2
  <1>4. LinksMayGrow
    <2>1. CASE CommitLink(r)
      <3>1. Links' = Links \cup {orm[r].link} /\ pc[r] = "link_commit"
        BY <2>1 DEF CommitLink, Links
      <3>2. orm[r].link # r => orm[r].link \in Links
        BY <1>0, <3>1 DEF Inv, Structure, RelinkLock
      <3> QED BY <3>1, <3>2 DEF LinksMayGrow, Early, LinkPhases
    <2>2. CASE ~CommitLink(r)
      BY <2>2 DEF LinkStep, StartLink, LookupLink, InsertLink, FetchForLink, LinkFails,
                  FlushLink, RefreshLink, dbVars, LinksMayGrow, Links
    <2> QED BY <2>1, <2>2
  <1>5. pc[r] # "sync_refresh" /\ pc[r] \notin Reporting
    BY <1>2 DEF Reporting, Ended, Early, LinkPhases
  <1> QED BY <1>0, <1>1, <1>3, <1>4, <1>5, QuietCounts

(* A sync waits for the rows in its way, and keeps those that are new.     *)
LEMMA WriteRowsCounts ==
  ASSUME CountInv, NEW p \in Procs, WriteRows(p)
  PROVE CountParts' /\ Counted'
  <1>0. /\ Inv /\ TypeOK /\ CountParts /\ buf[p] \in Buf
        /\ SessionView(p) /\ SessionCounts(p) /\ WritersApart
    BY DEF CountInv, ViewInv, ViewParts, CountParts, Inv, TypeOK
  <1>1. /\ OnlyMoves(p) /\ pc[p] = "sync_write" /\ pc'[p] = "sync_commit"
        /\ buf'[p].ids = {t.tid : t \in RowsOf(p) \ txns}
        /\ buf'[p].target = buf[p].target
        /\ UNCHANGED <<jobs, txns, reports>> /\ Links' = Links
    BY <1>0 DEF WriteRows, Goto, TypeOK, OnlyMoves, Buf, dbVars, envVars, Links
  <1>2. RowsOf(p)' \subseteq RowsOf(p) \ txns
    <2> SUFFICES ASSUME NEW a \in buf[p].target, NEW i \in buf'[p].ids
                 PROVE [acct |-> a, tid |-> i] \in RowsOf(p) \ txns
      BY <1>1 DEF RowsOf
    <2>1. PICK t \in RowsOf(p) \ txns : t.tid = i
      BY <1>1
    <2>2. PICK b \in buf[p].target : t = [acct |-> b, tid |-> i]
      BY <2>1 DEF RowsOf
    <2>3. a = b
      BY <1>0, <1>1 DEF SessionView
    <2> QED BY <2>1, <2>2, <2>3
  <1>3. buf'[p].ids # {} => buf'[p].target # {}
    BY <1>1 DEF RowsOf
  <1>4. SessionCounts(p)'
    BY <1>0, <1>1, <1>2, <1>3 DEF SessionCounts, Reporting, Ended
  <1>5. ASSUME NEW q \in Procs \ {p}, pc[q] = "sync_commit"
        PROVE RowsOf(q) \cap txns' = {} /\ RowsOf(q) \cap RowsOf(p)' = {}
    <2>1. RowsOf(q) \cap RowsOf(p) = {}
      BY <1>5 DEF WriteRows, InTheWay
    <2>2. RowsOf(q) \cap txns = {}
      BY <1>0, <1>5 DEF CountParts, SessionCounts
    <2> QED BY <1>1, <1>2, <2>1, <2>2
  <1>6. Due' = Due /\ LinksMayGrow
    BY <1>1, DueSame DEF LinksMayGrow
  <1>7. pc'[p] \notin Early
    BY <1>1 DEF Early, LinkPhases
  <1>8. CountParts'
    BY <1>0, <1>1, <1>4, <1>5, <1>6, <1>7, MoveCounts DEF CountParts
  <1> QED BY <1>1, <1>6, <1>8, CountedSame

(* The commit of a sync, whether or not it is acknowledged: the session    *)
(* knows enough when it moves on.                                          *)
LEMMA CommitParts ==
  ASSUME CountInv, NEW p \in Procs, OnlyMoves(p), pc[p] = "sync_commit", Apply(p),
         UNCHANGED reports, orm' = orm, pc'[p] \in {"sync_record", "sync_refresh"},
         IsFiniteSet(Due')
  PROVE CountParts'
  <1> DEFINE l == orm[p].link
             n == Cardinality(buf[p].ids)
  <1>0. /\ CountParts /\ TypeOK /\ SessionCounts(p) /\ NewRows
    BY DEF CountInv, ViewInv, Inv, Structure, CountParts
  <1>1. /\ l \in Links /\ Links' = Links /\ IsFiniteSet(txns')
        /\ jobs' = jobs \cup {Job(p, "success")}
        /\ \A q \in Procs \ {p} : pc[q] = "sync_commit" => RowsOf(q) \cap txns' = {}
    BY ApplyCounts
  <1>2. l \in Requests /\ pc[l] \notin Early
    BY <1>0, <1>1 DEF TypeOK, NewRows, Early
  <1>3. pc'[p] \notin Early /\ LinksMayGrow
    BY <1>1 DEF Early, LinkPhases, LinksMayGrow
  <1>4. pc'[l] \notin Early
    BY <1>2, <1>3 DEF OnlyMoves, Procs
  <1>5. Job(p, "success").by = p /\ Job(p, "success")' = Job(p, "success")
    BY DEF Job
  <1>6. SessionCounts(p)'
    <2>1. \A r \in reports' : r.by # p
      BY <1>0 DEF SessionCounts, Ended
    <2> QED BY <1>1, <1>2, <1>4, <1>5, <2>1 DEF SessionCounts, Reporting
  <1> QED BY <1>0, <1>1, <1>3, <1>5, <1>6, MoveCounts

(* An acknowledged commit will be reported, with the rows it inserted.     *)
LEMMA CommitSyncCounts ==
  ASSUME CountInv, NEW p \in Procs, CommitSync(p)
  PROVE CountParts' /\ Counted'
  <1> DEFINE l == orm[p].link
             n == Cardinality(buf[p].ids)
             new == ReportOf(p)'
             job == Job(p, "success")
  <1>0. /\ CountParts /\ TypeOK /\ Counted /\ buf[p] \in Buf
        /\ pc[p] = "sync_commit" /\ Apply(p) /\ UNCHANGED reports /\ orm' = orm
    BY DEF CountInv, ViewInv, Inv, TypeOK, CommitSync, envVars
  <1>1. /\ OnlyMoves(p) /\ pc'[p] = "sync_refresh" /\ buf'[p].ids = buf[p].ids
    BY <1>0 DEF CommitSync, Goto, TypeOK, OnlyMoves, NoBuf
  <1>2. /\ l \in Links /\ Links' = Links /\ n \in Nat
        /\ jobs' = jobs \cup {job}
        /\ \A k \in Links \ {l} : TxnsOf(k)' = TxnsOf(k)
        /\ Cardinality(TxnsOf(l)) \in Nat
        /\ Cardinality(TxnsOf(l)') = Cardinality(TxnsOf(l)) + n
    BY <1>0, ApplyCounts
  <1>3. Due' = Due \cup {new} /\ new = [link |-> l, by |-> p, count |-> n]
    BY <1>0, <1>1, DueMore DEF ReportOf
  <1>4. /\ job.link = l /\ job.by = p /\ job.status = "success"
        /\ new.link = l /\ new.by = p /\ new.count = n
    BY <1>3 DEF Job
  <1>5. \A r \in Due : r.by # p
    <2>1. \A r \in reports : r.by # p
      BY <1>0 DEF CountParts, SessionCounts, Ended
    <2>2. \A r \in Pending : r.by # p
      BY <1>0 DEF Pending, ReportOf
    <2> QED BY <2>1, <2>2 DEF Due
  <1>6. \A j \in jobs : ~(j.by = p /\ j.status = "success")
    BY <1>0 DEF CountParts, SessionCounts, Reporting, Ended
  <1>7. CountParts'
    <2>1. IsFiniteSet(Due')
      BY <1>0, <1>3, FS_AddElement DEF CountParts
    <2> QED BY <1>0, <1>1, <2>1, CommitParts
  <1> HIDE DEF new, job, n
  <1>8. ASSUME NEW k \in Links
        PROVE /\ Total(DueOf(k)') <= Cardinality(TxnsOf(k)')
              /\ AllReported(k, DueOf(k))' => Total(DueOf(k)') = Cardinality(TxnsOf(k)')
    <2>1. AllReported(k, DueOf(k))' => AllReported(k, DueOf(k))
      <3> SUFFICES ASSUME AllReported(k, DueOf(k))',
                          NEW j \in jobs, j.link = k, j.status = "success"
                   PROVE \E r \in DueOf(k) : r.by = j.by
        BY DEF AllReported, ReportedIn
      <3>1. PICK r \in DueOf(k)' : r.by = j.by
        BY <1>2 DEF AllReported, ReportedIn
      <3>2. r \in Due \/ r = new
        BY <1>3, <3>1 DEF DueOf
      <3>3. r # new
        BY <1>4, <1>6, <3>1
      <3> QED BY <3>1, <3>2, <3>3 DEF DueOf
    <2>2. /\ Total(DueOf(k)) <= Cardinality(TxnsOf(k))
          /\ AllReported(k, DueOf(k)) => Total(DueOf(k)) = Cardinality(TxnsOf(k))
      BY <1>0 DEF Counted
    <2>3. CASE k # l
      <3>1. DueOf(k)' = DueOf(k)
        BY <1>3, <1>4, <2>3 DEF DueOf
      <3>2. TxnsOf(k)' = TxnsOf(k)
        BY <1>2, <2>3
      <3> QED BY <2>1, <2>2, <3>1, <3>2
    <2>4. CASE k = l
      <3>1. DueOf(k)' = DueOf(k) \cup {new}
        BY <1>3, <1>4, <2>4 DEF DueOf
      <3>2. new \notin DueOf(k)
        BY <1>4, <1>5 DEF DueOf
      <3>3. IsFiniteSet(DueOf(k)) /\ \A r \in DueOf(k) : r.count \in Nat
        BY <1>0, DueType, FS_Subset DEF DueOf, CountParts, Report
      <3>4. Total(DueOf(k) \cup {new}) = Total(DueOf(k)) + new.count
        BY <1>2, <1>4, <3>2, <3>3, TotalWith
      <3>5. Total(DueOf(k)) \in Nat
        BY <3>3, TotalOfSome
      <3>6. Total(DueOf(k)') = Total(DueOf(k)) + n
        BY <1>4, <3>1, <3>4
      <3>7. /\ Cardinality(TxnsOf(k)) \in Nat /\ n \in Nat
            /\ Cardinality(TxnsOf(k)') = Cardinality(TxnsOf(k)) + n
        BY <1>0, <1>2, <2>4 DEF TxnsOf
      <3>8. Total(DueOf(k)') <= Cardinality(TxnsOf(k)')
        BY ONLY <2>2, <3>5, <3>6, <3>7
      <3>9. Total(DueOf(k)) = Cardinality(TxnsOf(k)) => Total(DueOf(k)') = Cardinality(TxnsOf(k)')
        BY ONLY <3>6, <3>7
      <3> QED BY <2>1, <2>2, <3>8, <3>9
    <2> QED BY <2>3, <2>4
  <1>9. Counted'
    BY <1>2, <1>8 DEF Counted
  <1> QED BY <1>7, <1>9

(* A commit that is applied and not acknowledged stores rows that its      *)
(* session will not report.                                                *)
LEMMA LostCommitCounts ==
  ASSUME CountInv, NEW p \in Procs, LoseCommit(p), Apply(p)
  PROVE CountParts' /\ Counted'
  <1> DEFINE l == orm[p].link
             n == Cardinality(buf[p].ids)
             job == Job(p, "success")
  <1>0. /\ CountParts /\ TypeOK /\ Counted
        /\ pc[p] = "sync_commit" /\ UNCHANGED reports /\ orm' = orm
    BY DEF CountInv, ViewInv, Inv, LoseCommit, envVars
  <1>1. /\ OnlyMoves(p) /\ pc'[p] = "sync_record"
    BY <1>0 DEF LoseCommit, Goto, TypeOK, OnlyMoves
  <1>2. /\ l \in Links /\ Links' = Links /\ n \in Nat
        /\ jobs' = jobs \cup {job}
        /\ \A k \in Links \ {l} : TxnsOf(k)' = TxnsOf(k)
        /\ Cardinality(TxnsOf(l)) \in Nat
        /\ Cardinality(TxnsOf(l)') = Cardinality(TxnsOf(l)) + n
    BY <1>0, ApplyCounts
  <1>3. Due' = Due
    BY <1>0, <1>1, DueSame
  <1>4. job.link = l /\ job.by = p /\ job.status = "success"
    BY DEF Job
  <1>5. \A r \in Due : r.by # p
    <2>1. \A r \in reports : r.by # p
      BY <1>0 DEF CountParts, SessionCounts, Ended
    <2>2. \A r \in Pending : r.by # p
      BY <1>0 DEF Pending, ReportOf
    <2> QED BY <2>1, <2>2 DEF Due
  <1>6. CountParts'
    BY <1>0, <1>1, <1>3, CommitParts DEF CountParts
  <1> HIDE DEF job, n
  <1>7. ASSUME NEW k \in Links
        PROVE /\ Total(DueOf(k)') <= Cardinality(TxnsOf(k)')
              /\ AllReported(k, DueOf(k))' => Total(DueOf(k)') = Cardinality(TxnsOf(k)')
    <2>1. DueOf(k)' = DueOf(k)
      BY <1>3 DEF DueOf
    <2>2. /\ Total(DueOf(k)) <= Cardinality(TxnsOf(k))
          /\ AllReported(k, DueOf(k)) => Total(DueOf(k)) = Cardinality(TxnsOf(k))
      BY <1>0 DEF Counted
    <2>3. CASE k # l
      <3>1. TxnsOf(k)' = TxnsOf(k)
        BY <1>2, <2>3
      <3>2. AllReported(k, DueOf(k))' => AllReported(k, DueOf(k))
        BY <1>2, <2>1 DEF AllReported
      <3> QED BY <2>1, <2>2, <3>1, <3>2
    <2>4. CASE k = l
      <3>1. ~AllReported(k, DueOf(k))'
        BY <1>2, <1>3, <1>4, <1>5, <2>4 DEF AllReported, ReportedIn, DueOf
      <3>2. IsFiniteSet(DueOf(k)) /\ \A r \in DueOf(k) : r.count \in Nat
        BY <1>0, DueType, FS_Subset DEF DueOf, CountParts, Report
      <3>3. Total(DueOf(k)) \in Nat
        BY <3>2, TotalOfSome
      <3>4. /\ Cardinality(TxnsOf(k)) \in Nat /\ n \in Nat
            /\ Cardinality(TxnsOf(k)') = Cardinality(TxnsOf(k)) + n
        BY <1>0, <1>2, <2>4 DEF TxnsOf
      <3>5. Total(DueOf(k)) <= Cardinality(TxnsOf(k)')
        BY ONLY <2>2, <3>3, <3>4
      <3> QED BY <2>1, <3>1, <3>5
    <2> QED BY <2>3, <2>4
  <1>8. Counted'
    BY <1>2, <1>7 DEF Counted
  <1> QED BY <1>6, <1>8

(* A session ends after its commit, with its report told or not.           *)
LEMMA ReportCounts ==
  ASSUME CountInv, NEW p \in Procs, ReportSync(p) \/ (Abort(p) /\ pc[p] = "sync_refresh")
  PROVE CountParts' /\ Counted'
  <1>0. CountParts /\ TypeOK /\ SessionCounts(p)
    BY DEF CountInv, ViewInv, Inv, CountParts
  <1>1. /\ pc[p] = "sync_refresh" /\ UNCHANGED dbVars
        /\ End(p, "done") \/ End(p, "aborted")
        /\ \/ reports' = reports \cup {ReportOf(p)}
           \/ reports' = reports
    BY DEF ReportSync, Abort, envVars
  <1>2. OnlyMoves(p) /\ pc'[p] \in Ended /\ pc'[p] # "sync_refresh"
    BY <1>0, <1>1, EndMoves DEF Ended
  <1>3. ReportOf(p).by = p /\ ReportOf(p).link = orm[p].link
    BY DEF ReportOf
  <1>4. pc'[orm[p].link] \notin Early
    <2>1. orm[p].link \in Requests /\ pc[orm[p].link] \notin Early
      BY <1>0, <1>1 DEF SessionCounts
    <2>2. pc'[p] \notin Early
      BY <1>2 DEF Ended, Early, LinkPhases
    <2> QED BY <1>2, <2>1, <2>2 DEF OnlyMoves, Procs
  <1>5. UNCHANGED <<links, jobs, txns>> /\ Links' = Links /\ LinksMayGrow
    BY <1>1 DEF dbVars, LinksMayGrow, Links
  <1>6. Due' = Due \/ (reports' = reports /\ Due' \subseteq Due)
    BY <1>0, <1>1, <1>2, DueEnds
  <1>7. CountParts'
    <2>1. SessionCounts(p)'
      BY <1>2 DEF SessionCounts, Reporting, Ended
    <2>2. IsFiniteSet(Due') /\ IsFiniteSet(txns')
      BY <1>0, <1>5, <1>6, FS_Subset DEF CountParts
    <2>3. \A r \in reports' : r \in reports \/ (r.by = p /\ pc'[r.link] \notin Early)
      BY <1>1, <1>3, <1>4
    <2>4. \A q \in Procs : pc[q] = "sync_commit" => RowsOf(q) \cap txns' = {}
      BY <1>0, <1>5 DEF CountParts, SessionCounts
    <2>5. pc'[p] \notin Early /\ pc'[p] # "sync_commit"
      BY <1>2 DEF Ended, Early, LinkPhases
    <2> QED BY <1>0, <1>2, <1>5, <2>1, <2>2, <2>3, <2>4, <2>5, MoveCounts
  <1>8. CASE Due' = Due
    BY <1>5, <1>7, <1>8, CountedSame
  <1>9. CASE reports' = reports
    BY <1>1, <1>2, <1>5, <1>7, <1>9, CountedLess
  <1> QED BY <1>6, <1>7, <1>8, <1>9

(* sync_linked_account.                                                    *)
LEMMA SyncStepCounts ==
  ASSUME CountInv, NEW p \in Procs, SyncStep(p)
  PROVE CountParts' /\ Counted'
  <1>0. /\ Inv /\ TypeOK /\ CountParts /\ Links' = Links /\ LinksMayGrow
    BY SyncKeepsAccounts DEF CountInv, ViewInv, Inv, LinksMayGrow
  <1>1. CASE WriteRows(p)
    BY <1>1, WriteRowsCounts
  <1>2. CASE CommitSync(p)
    BY <1>2, CommitSyncCounts
  <1>3. CASE LoseCommit(p) /\ Apply(p)
    BY <1>3, LostCommitCounts
  <1>4. CASE ReportSync(p)
    BY <1>4, ReportCounts
  <1>5. CASE /\ jobs' = jobs \cup {Job(p, "failed")} /\ pc'[p] = "done"
             /\ RecordFailed(p) \/ \E auth \in BOOLEAN : SyncFails(p, auth)
    <2>1. End(p, "done") \/ End(p, "aborted")
      BY <1>5 DEF RecordFailed, SyncFails
    <2>2. OnlyMoves(p) /\ pc[p] # "sync_refresh" /\ UNCHANGED <<txns, reports>>
      BY <1>0, <1>5, <2>1, EndMoves DEF RecordFailed, SyncFails, Ended, envVars
    <2> QED BY <1>0, <1>5, <2>2, FailedCounts
  <1>6. CASE \/ OpenJob(p) \/ FetchAccounts(p) \/ FetchTransactions(p) \/ ReadAccounts(p)
             \/ LoseCommit(p) /\ UNCHANGED dbVars
             \/ RecordFailed(p) /\ UNCHANGED jobs
    <2>1. /\ UNCHANGED <<jobs, txns, reports>> /\ OnlyMoves(p)
          /\ pc[p] # "sync_refresh" /\ pc'[p] \notin {"sync_commit", "sync_refresh"}
      <3>1. CASE \E phase \in Ended : End(p, phase)
        BY <1>0, <1>6, <3>1, EndMoves
           DEF OpenJob, FetchAccounts, FetchTransactions, ReadAccounts, LoseCommit,
               RecordFailed, dbVars, envVars, Ended
      <3>2. CASE ~ \E phase \in Ended : End(p, phase)
        BY <1>0, <1>6, <3>2
           DEF OpenJob, FetchAccounts, FetchTransactions, ReadAccounts, LoseCommit,
               RecordFailed, Goto, TypeOK, OnlyMoves, dbVars, envVars, Ended
      <3> QED BY <3>1, <3>2
    <2>2. pc[p] \notin Reporting \/ pc'[p] \in Ended
      <3>1. CASE RecordFailed(p)
        BY <1>0, <3>1, EndMoves DEF RecordFailed, Ended
      <3>2. CASE ~RecordFailed(p)
        BY <1>6, <3>2
           DEF OpenJob, FetchAccounts, FetchTransactions, ReadAccounts, LoseCommit, Reporting, Ended
      <3> QED BY <3>1, <3>2
    <2>3. pc'[p] \notin Early
      <3>1. CASE \E phase \in Ended : End(p, phase)
        BY <1>0, <3>1, EndMoves DEF Ended, Early, LinkPhases
      <3>2. CASE ~ \E phase \in Ended : End(p, phase)
        BY <1>0, <1>6, <3>2
           DEF OpenJob, FetchAccounts, FetchTransactions, ReadAccounts, LoseCommit,
               RecordFailed, Goto, TypeOK, Ended, Early, LinkPhases
      <3> QED BY <3>1, <3>2
    <2> QED BY <1>0, <2>1, <2>2, <2>3, QuietCounts
  <1>7. (\E auth \in BOOLEAN : SyncFails(p, auth)) =>
          jobs' = jobs \cup {Job(p, "failed")} /\ pc'[p] = "done"
    BY <1>0, EndMoves DEF SyncFails, Ended
  <1>8. RecordFailed(p) => \/ jobs' = jobs \cup {Job(p, "failed")} /\ pc'[p] = "done"
                           \/ UNCHANGED jobs
    BY <1>0, EndMoves DEF RecordFailed, Ended
  <1> QED BY <1>1, <1>2, <1>3, <1>4, <1>5, <1>6, <1>7, <1>8 DEF SyncStep, LoseCommit

(* An unlink takes a link's jobs along with its transactions.              *)
LEMMA UnlinkCounts ==
  ASSUME CountInv, NEW l \in Requests, Unlink(l)
  PROVE CountParts' /\ Counted'
  <1>0. CountParts /\ Counted
    BY DEF CountInv
  <1>1. /\ Links' = Links \ {l} /\ txns' = txns \ TxnsOf(l)
        /\ jobs' = {j \in jobs : j.link # l}
        /\ pc' = pc /\ buf' = buf /\ orm' = orm /\ reports' = reports
    BY DEF Unlink, Links, Restrict, envVars
  <1>2. Due' = Due
    BY <1>1 DEF Due, Pending, ReportOf
  <1>3. ASSUME NEW k \in Links'
        PROVE /\ Total(DueOf(k)') <= Cardinality(TxnsOf(k)')
              /\ AllReported(k, DueOf(k))' => Total(DueOf(k)') = Cardinality(TxnsOf(k)')
    <2>1. k \in Links /\ k # l
      BY <1>1
    <2>2. DueOf(k)' = DueOf(k) /\ TxnsOf(k)' = TxnsOf(k)
      BY <1>1, <1>2, <2>1 DEF DueOf, TxnsOf
    <2>3. AllReported(k, DueOf(k))' => AllReported(k, DueOf(k))
      BY <1>1, <2>1, <2>2 DEF AllReported
    <2> QED BY <1>0, <2>1, <2>2, <2>3 DEF Counted
  <1>4. Counted'
    BY <1>3 DEF Counted
  <1>5. IsFiniteSet(Due') /\ IsFiniteSet(txns')
    BY <1>0, <1>1, <1>2, FS_Subset DEF CountParts
  <1>6. ASSUME NEW q \in Procs PROVE SessionCounts(q)'
    <2>1. SessionCounts(q) /\ RowsOf(q)' = RowsOf(q) /\ Job(q, "success")' = Job(q, "success")
          /\ Job(q, "success").link = orm[q].link
      BY <1>0, <1>1 DEF CountParts, RowsOf, Job
    <2> QED BY <1>1, <2>1 DEF SessionCounts
  <1>7. WritersApart' /\ \A r \in reports' : pc'[r.link] \notin Early
    BY <1>0, <1>1 DEF CountParts, WritersApart, RowsOf
  <1> QED BY <1>4, <1>5, <1>6, <1>7 DEF CountParts

(* Every step preserves the invariant.                                     *)
LEMMA StepCounts == CountInv /\ [Next]_vars => CountInv'
  <1> SUFFICES ASSUME CountInv, [Next]_vars PROVE CountInv'
    OBVIOUS
  <1>0. ViewInv' /\ TypeOK /\ CountParts
    BY StepView DEF CountInv, ViewInv, Inv
  <1>1. ASSUME NEW r \in Requests, LinkStep(r) PROVE CountParts' /\ Counted'
    BY <1>1, LinkStepCounts
  <1>2. ASSUME NEW l \in Requests, Unlink(l) PROVE CountParts' /\ Counted'
    BY <1>2, UnlinkCounts
  <1>3. ASSUME NEW p \in Procs, SyncStep(p) PROVE CountParts' /\ Counted'
    BY <1>3, SyncStepCounts
  <1>4. ASSUME NEW d \in Deliveries, NEW l \in Requests, ReceiveRequest(d, l)
        PROVE CountParts' /\ Counted'
    <2>1. d \in Procs /\ UNCHANGED <<jobs, txns, reports>> /\ pc[d] = "idle" /\ LinksMayGrow
      BY <1>4 DEF ReceiveRequest, dbVars, envVars, Procs, LinksMayGrow, Links
    <2>2. OnlyMoves(d) /\ pc'[d] \notin {"sync_commit", "sync_refresh"}
      <3>1. CASE End(d, "done")
        BY <1>0, <2>1, <3>1, EndMoves DEF Ended
      <3>2. CASE ~End(d, "done")
        BY <1>0, <1>4, <2>1, <3>2 DEF ReceiveRequest, Goto, TypeOK, OnlyMoves
      <3> QED BY <3>1, <3>2
    <2>3. pc[d] \in Early /\ pc[d] \notin Reporting
      BY <2>1 DEF Early, Reporting, Ended
    <2> QED BY <2>1, <2>2, <2>3, QuietCounts
  <1>5. ASSUME NEW p \in Procs, Abort(p) PROVE CountParts' /\ Counted'
    <2>1. UNCHANGED <<jobs, txns, reports>> /\ End(p, "aborted") /\ LinksMayGrow
      BY <1>5 DEF Abort, dbVars, envVars, LinksMayGrow, Links
    <2>2. OnlyMoves(p) /\ pc'[p] = "aborted"
      BY <1>0, <2>1, EndMoves DEF Ended
    <2>3. CASE pc[p] = "sync_refresh"
      BY <1>5, <2>3, ReportCounts
    <2>4. CASE pc[p] # "sync_refresh"
      BY <2>1, <2>2, <2>4, QuietCounts DEF Ended, Early, LinkPhases
    <2> QED BY <2>3, <2>4
  <1>6. CASE ProviderStep \/ UNCHANGED vars
    <2>1. UNCHANGED <<links, jobs, txns, reports, pc, orm, buf>>
      BY <1>6 DEF ProviderStep, Post, OpenAccount, dbVars, vars
    <2>2. Due' = Due /\ LinksMayGrow
      BY <2>1 DEF Due, Pending, ReportOf, LinksMayGrow, Links
    <2>3. ASSUME NEW q \in Procs PROVE SessionCounts(q)'
      <3>1. SessionCounts(q) /\ RowsOf(q)' = RowsOf(q) /\ Job(q, "success")' = Job(q, "success")
            /\ Links' = Links
        BY <1>0, <2>1 DEF CountParts, RowsOf, Job, Links
      <3> QED BY <2>1, <3>1 DEF SessionCounts
    <2>4. CountParts'
      BY <1>0, <2>1, <2>2, <2>3 DEF CountParts, WritersApart, RowsOf
    <2>5. Counted'
      BY <2>1, <2>2, CountedSame
    <2> QED BY <1>0, <2>4, <2>5 DEF CountInv
  <1> QED BY <1>0, <1>1, <1>2, <1>3, <1>4, <1>5, <1>6 DEF CountInv, Next, Finished

(* Nothing is reported and nothing is stored at the start.                 *)
LEMMA InitCounts == Init => CountInv
  <1> SUFFICES ASSUME Init PROVE CountInv
    OBVIOUS
  <1>1. Due = {}
    BY DEF Init, Due, Pending
  <1>2. CountParts
    BY <1>1, FS_EmptySet DEF Init, CountParts, SessionCounts, WritersApart
  <1>3. Counted
    BY DEF Init, Counted, Links
  <1> QED BY <1>2, <1>3, InitView DEF CountInv

(* What has been reported is at most what is due, and it is all of it once *)
(* every success is reported: the job of a session that is yet to report   *)
(* would be one that is not.                                               *)
LEMMA CountsFromDue == CountInv => CountsMatch
  <1> SUFFICES ASSUME CountInv, NEW l \in Links
               PROVE /\ Total(ReportsOf(l)) <= Cardinality(TxnsOf(l))
                     /\ AllReported(l, ReportsOf(l)) =>
                          Total(ReportsOf(l)) = Cardinality(TxnsOf(l))
    BY DEF CountsMatch
  <1>0. TypeOK /\ CountParts /\ Counted
    BY DEF CountInv, ViewInv, Inv
  <1>1. ReportsOf(l) \subseteq DueOf(l)
    BY DEF ReportsOf, DueOf, Due
  <1>2. IsFiniteSet(DueOf(l)) /\ \A r \in DueOf(l) : r.count \in Nat
    BY <1>0, DueType, FS_Subset DEF DueOf, CountParts, Report
  <1>3. /\ Total(ReportsOf(l)) \in Nat /\ Total(DueOf(l)) \in Nat
        /\ Total(ReportsOf(l)) <= Total(DueOf(l))
    BY <1>1, <1>2, TotalOfSome
  <1>4. Cardinality(TxnsOf(l)) \in Nat
    BY <1>0, FS_Subset, FS_CardinalityType DEF CountParts, TxnsOf
  <1>5. /\ Total(DueOf(l)) <= Cardinality(TxnsOf(l))
        /\ AllReported(l, DueOf(l)) => Total(DueOf(l)) = Cardinality(TxnsOf(l))
    BY <1>0 DEF Counted
  <1>6. ASSUME AllReported(l, ReportsOf(l)) PROVE DueOf(l) = ReportsOf(l)
    <2> SUFFICES ASSUME NEW p \in Procs, pc[p] = "sync_refresh", ReportOf(p).link = l
                 PROVE FALSE
      BY <1>1 DEF DueOf, Due, Pending, ReportsOf
    <2>1. SessionCounts(p) /\ orm[p].link = l
      BY <1>0 DEF CountParts, ReportOf
    <2>2. Job(p, "success") \in jobs
      BY <2>1 DEF SessionCounts
    <2>3. /\ Job(p, "success").link = l /\ Job(p, "success").by = p
          /\ Job(p, "success").status = "success"
      BY <2>1 DEF Job
    <2>4. PICK r \in reports : r.by = p
      BY <1>6, <2>2, <2>3 DEF AllReported, ReportedIn, ReportsOf
    <2> QED BY <2>1, <2>4 DEF SessionCounts, Ended
  <1>7. Total(ReportsOf(l)) <= Cardinality(TxnsOf(l))
    BY ONLY <1>3, <1>4, <1>5
  <1>8. ASSUME AllReported(l, ReportsOf(l)) PROVE Total(ReportsOf(l)) = Cardinality(TxnsOf(l))
    BY <1>5, <1>6, <1>8
  <1> QED BY <1>7, <1>8

(* However the syncs of a link overlap and are repeated, and whatever      *)
(* acknowledgement of a commit is lost, the transactions_synced reported   *)
(* for it never exceed the transactions stored, and add up to them once    *)
(* every attempt that stored any has reported.                             *)
THEOREM CountsAddUp == Spec => []CountsMatch
  <1> QED BY CountsFromDue, InitCounts, StepCounts, PTL DEF Spec
=============================================================================
