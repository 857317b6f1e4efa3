---------------------------- MODULE Connections ----------------------------
(***************************************************************************)
(* The web client's connections: the dialog that links a bank, the list    *)
(* ["accounts"] every page reads from the query cache, the unlinking of a  *)
(* connection on the settings page, and the rows behind them.              *)
(*                                                                         *)
(* A connection is a linked_accounts row; its accounts come and go with it *)
(* and are left out.  The server's handlers commit at once here (LinkSync  *)
(* takes them apart); their answers arrive later, or are lost.  A handler  *)
(* of the client runs on after the dialog or page it belongs to is gone.   *)
(* The query cache is external.  While a page is shown, an invalidation    *)
(* starts a fetch, in place of a running one if the entry has data; it     *)
(* joins an entry's first fetch, whose landing clears the mark too.        *)
(***************************************************************************)
EXTENDS Naturals, FiniteSets

CONSTANTS
    Users,
    Banks,          \* banks the demo service lists
    Plaid,          \* the choice of Plaid; its every success is a new item
    Jobs,           \* bound: links in flight at once
    MaxRows,        \* bound: rows ever made
    MaxDeletes,     \* bound: unlinks in flight at once
    None

ASSUME ConnectionsAssumption ==
    /\ Plaid \notin Banks
    /\ None \notin Users \cup Jobs \cup Banks \cup {Plaid}
    /\ MaxRows \in Nat /\ MaxDeletes \in Nat

VARIABLES
    rows,       \* linked_accounts
    made,       \* rows ever made: the next row's id
    me,         \* whose tokens the client holds, None when signed out
    page,
    dialog,     \* LinkAccountModal
    job,        \* job[j]: a startLink or completeLink in flight
    confirming, \* the connection the settings page asks about, a row
    deletes,    \* DELETE /accounts/{id} in flight
    list,       \* the cache entry ["accounts"]
    fetch,      \* the fetch of that entry
    joined,     \* an invalidation met a first fetch that had read (history)
    untold,     \* rows changed, or a fetch failed, without the client hearing
    switched    \* somebody has signed out (history, like untold)

vars == <<rows, made, me, page, dialog, job, confirming, deletes, list, fetch, joined, untold, switched>>

cache == <<list, fetch, joined>>

-----------------------------------------------------------------------------
(* The accounts pages offer what the dashboard offers.                     *)
Pages   == {"dashboard", "activity", "settings"}
Choices == Banks \cup {Plaid}
Row     == [id : 1..MaxRows, owner : Users, bank : Choices]
RowsOf(u) == {r \in rows : r.owner = u}

(* step is a step of DemoBankFlow or a phase of PlaidFlow.                 *)
Steps  == {"name", "preparing", "ready", "working", "done", "error"}
Dialog == [view : {"closed", "choose"}, bank : {None}, step : {"name"}, job : {None}]
            \cup [view : {"flow"}, bank : Choices, step : Steps, job : Jobs \cup {None}]
Closed  == [view |-> "closed", bank |-> None, step |-> "name", job |-> None]

(* Fault: the chosen bank is kept when the user goes back.                 *)
ChooserOfBank == [dialog EXCEPT !.view = "choose"]

Chooser == [Closed EXCEPT !.view = "choose"]

(* bearer: whose access token the request in flight carries; linked: the   *)
(* callback has committed, its answer is on the way.                       *)
Job   == [pc : {"idle"}, bank : {None}, bearer : {None}]
           \cup [pc : {"prepare", "start", "complete", "linked"}, bank : Choices, bearer : Users \cup {None}]
NoJob == [pc |-> "idle", bank |-> None, bearer |-> None]
Idle(j) == job[j].pc = "idle"

(* here: the settings page that sent it is still shown; done: the row is   *)
(* deleted, the answer is on the way.                                      *)
Delete == [row : Row, bearer : Users \cup {None}, here : BOOLEAN, done : BOOLEAN]

Entry   == [loaded : BOOLEAN, data : SUBSET Row, invalid : BOOLEAN]
Fetch   == [pc : {"idle", "asked", "read"}, bearer : Users \cup {None}, data : SUBSET Row]
NoFetch == [pc |-> "idle", bearer |-> None, data |-> {}]
Asked(u) == [pc |-> "asked", bearer |-> u, data |-> {}]

Init ==
    /\ rows = {}
    /\ made = 0
    /\ me = None
    /\ page = "dashboard"
    /\ dialog = Closed
    /\ job = [j \in Jobs |-> NoJob]
    /\ confirming = {}
    /\ deletes = {}
    /\ list = [loaded |-> FALSE, data |-> {}, invalid |-> FALSE]
    /\ fetch = NoFetch
    /\ joined = FALSE
    /\ untold = FALSE
    /\ switched = FALSE

-----------------------------------------------------------------------------
(* The query cache.                                                        *)

(* An invalidation that joins a fetch: what has read already stays old.    *)
Join ==
    /\ UNCHANGED fetch
    /\ joined' = (joined \/ fetch.pc = "read")

Ask(u) == fetch' = Asked(u) /\ joined' = FALSE

(* Fault: an invalidation joins whatever fetch is running.                 *)
InvalidateJoining ==
    /\ list' = [list EXCEPT !.invalid = TRUE]
    /\ CASE me # None /\ fetch.pc = "idle" -> Ask(me)
         [] list.loaded /\ ~(me # None /\ fetch.pc = "idle") -> UNCHANGED <<fetch, joined>>
         [] OTHER -> Join

(* invalidateQueries(["accounts"]).                                        *)
Invalidate ==
    /\ list' = [list EXCEPT !.invalid = TRUE]
    /\ IF me # None /\ (fetch.pc = "idle" \/ list.loaded) THEN Ask(me) ELSE Join

(* A page of u mounts: it joins a running fetch, starts one when there is  *)
(* no data or it is invalid, and may start one when it is 10 s old.        *)
Mount(u) ==
    \/ Ask(u) /\ fetch.pc = "idle"
    \/ UNCHANGED <<fetch, joined>> /\ (fetch.pc # "idle" \/ (list.loaded /\ ~list.invalid))

(* GET /accounts reads the caller's rows; without a token it is refused.   *)
FetchRead ==
    /\ fetch.pc = "asked"
    /\ fetch.bearer # None
    /\ fetch' = [fetch EXCEPT !.pc = "read", !.data = RowsOf(fetch.bearer)]
    /\ UNCHANGED <<rows, made, me, page, dialog, job, confirming, deletes, list, joined, untold, switched>>

FetchLands ==
    /\ fetch.pc = "read"
    /\ list' = [loaded |-> TRUE, data |-> fetch.data, invalid |-> FALSE]
    /\ fetch' = NoFetch
    /\ UNCHANGED <<rows, made, me, page, dialog, job, confirming, deletes, joined, untold, switched>>

(* Both tries failed: the old data stays.                                  *)
FetchFails ==
    /\ fetch.pc # "idle"
    /\ fetch' = NoFetch
    /\ untold' = TRUE
    /\ UNCHANGED <<rows, made, me, page, dialog, job, confirming, deletes, list, joined, switched>>

-----------------------------------------------------------------------------
(* Pages and session.                                                      *)

Covered == dialog.view # "closed" \/ confirming # {}

(* What the page mounted before leaves behind.                             *)
LeavePage ==
    /\ dialog' = Closed
    /\ confirming' = {}
    /\ deletes' = {[d EXCEPT !.here = FALSE] : d \in deletes}

Navigate(p) ==
    /\ me # None
    /\ p # page
    /\ page' = p
    /\ LeavePage
    /\ Mount(me)
    /\ UNCHANGED <<rows, made, me, job, list, untold, switched>>

(* The list stays in the cache.                                            *)
SignOut ==
    /\ me # None
    /\ ~Covered
    /\ me' = None
    /\ page' = "dashboard"
    /\ switched' = TRUE
    /\ LeavePage
    /\ UNCHANGED <<rows, made, job, cache, untold>>

SignIn(u) ==
    /\ me = None
    /\ me' = u
    /\ Mount(u)
    /\ UNCHANGED <<rows, made, page, dialog, job, confirming, deletes, list, untold, switched>>

(* Another device of the user's, which this client does not hear of.       *)
(* Bound: it acts once, before anything else went past the client.         *)
Elsewhere(u) ==
    /\ ~untold
    /\ untold' = TRUE
    /\ \/ \E r \in RowsOf(u) : rows' = rows \ {r} /\ UNCHANGED made
       \/ \E b \in Banks : /\ made < MaxRows
                           /\ {r \in RowsOf(u) : r.bank = b} = {}
                           /\ rows' = rows \cup {[id |-> made + 1, owner |-> u, bank |-> b]}
                           /\ made' = made + 1
    /\ UNCHANGED <<me, page, dialog, job, confirming, deletes, cache, switched>>

-----------------------------------------------------------------------------
(* The dialog.                                                             *)

(* The pages with a Link or Reconnect button.                              *)
Offers(p) == p \in Pages \ {"activity"}

OpenDialog ==
    /\ me # None
    /\ ~Covered
    /\ Offers(page)
    /\ dialog' = Chooser
    /\ UNCHANGED <<rows, made, me, page, job, confirming, deletes, cache, untold, switched>>

(* onClose, at every step: what is in flight goes on.                      *)
CloseDialog ==
    /\ dialog.view # "closed"
    /\ dialog' = Closed
    /\ UNCHANGED <<rows, made, me, page, job, confirming, deletes, cache, untold, switched>>

(* Choosing a demo bank leads to its name; choosing Plaid asks for a link  *)
(* token at once.                                                          *)
ChooseBank(b) ==
    /\ dialog.view = "choose"
    /\ dialog' = [view |-> "flow", bank |-> b, step |-> "name", job |-> None]
    /\ UNCHANGED <<rows, made, me, page, job, confirming, deletes, cache, untold, switched>>

ChoosePlaid(j) ==
    /\ dialog.view = "choose"
    /\ Idle(j)
    /\ dialog' = [view |-> "flow", bank |-> Plaid, step |-> "preparing", job |-> j]
    /\ job' = [job EXCEPT ![j] = [pc |-> "prepare", bank |-> Plaid, bearer |-> me]]
    /\ UNCHANGED <<rows, made, me, page, confirming, deletes, cache, untold, switched>>

(* onBack is offered while nothing has been sent for the bank.             *)
Back ==
    /\ dialog.view = "flow"
    /\ dialog.step \in {"name", "preparing", "ready"}
    /\ dialog' = Chooser
    /\ UNCHANGED <<rows, made, me, page, job, confirming, deletes, cache, untold, switched>>

(* connect, from Connect or Try again: startLink.                          *)
Connect(j) ==
    /\ dialog.view = "flow" /\ dialog.bank # Plaid
    /\ dialog.step \in {"name", "error"}
    /\ Idle(j)
    /\ dialog' = [dialog EXCEPT !.step = "working", !.job = j]
    /\ job' = [job EXCEPT ![j] = [pc |-> "start", bank |-> dialog.bank, bearer |-> me]]
    /\ UNCHANGED <<rows, made, me, page, confirming, deletes, cache, untold, switched>>

(* onSuccess of Plaid's own dialog (external: it may succeed whenever it   *)
(* can be opened).                                                         *)
PlaidSucceeds(j) ==
    /\ dialog.view = "flow" /\ dialog.bank = Plaid
    /\ dialog.step = "ready"
    /\ Idle(j)
    /\ dialog' = [dialog EXCEPT !.step = "working", !.job = j]
    /\ job' = [job EXCEPT ![j] = [pc |-> "complete", bank |-> Plaid, bearer |-> me]]
    /\ UNCHANGED <<rows, made, me, page, confirming, deletes, cache, untold, switched>>

(* The state updates of job j reach the dialog that is still its own.      *)
Show(j, step) ==
    dialog' = IF dialog.job = j THEN [dialog EXCEPT !.step = step, !.job = None] ELSE dialog

(* Fault: an error of the handler is not caught.                           *)
ThrowUncaught(j) ==
    /\ job' = [job EXCEPT ![j] = NoJob]
    /\ UNCHANGED dialog

(* The catch block.                                                        *)
Throw(j) ==
    /\ job' = [job EXCEPT ![j] = NoJob]
    /\ Show(j, "error")

(* startLink is answered: Plaid's button is ready, or connect goes on to   *)
(* completeLink with the token that is stored by then.                     *)
Started(j) ==
    /\ job[j].pc \in {"prepare", "start"}
    /\ \/ Throw(j)
       \/ /\ job[j].bearer # None
          /\ IF job[j].pc = "prepare"
             THEN job' = [job EXCEPT ![j] = NoJob] /\ Show(j, "ready")
             ELSE job' = [job EXCEPT ![j].pc = "complete", ![j].bearer = me] /\ UNCHANGED dialog
    /\ UNCHANGED <<rows, made, me, page, confirming, deletes, cache, untold, switched>>

(* The link's callback: a demo bank is linked once per user, a Plaid       *)
(* success is an item of its own.                                          *)
LinkRow(u, b) ==
    IF b # Plaid /\ \E r \in RowsOf(u) : r.bank = b
    THEN UNCHANGED <<rows, made>>
    ELSE /\ made < MaxRows
         /\ rows' = rows \cup {[id |-> made + 1, owner |-> u, bank |-> b]}
         /\ made' = made + 1

(* completeLink is sent: it fails without a row, or its callback commits.  *)
Completed(j) ==
    /\ job[j].pc = "complete"
    /\ \/ Throw(j) /\ UNCHANGED <<rows, made>>
       \/ /\ job[j].bearer # None
          /\ LinkRow(job[j].bearer, job[j].bank)
          /\ job' = [job EXCEPT ![j].pc = "linked"]
          /\ UNCHANGED dialog
    /\ UNCHANGED <<me, page, confirming, deletes, cache, untold, switched>>

(* Its answer arrives, or is lost.                                         *)
Answered(j) ==
    /\ job[j].pc = "linked"
    /\ \/ /\ job' = [job EXCEPT ![j] = NoJob]
          /\ Show(j, "done")
          /\ Invalidate
          /\ UNCHANGED untold
       \/ /\ Throw(j)
          /\ untold' = TRUE
          /\ UNCHANGED cache
    /\ UNCHANGED <<rows, made, me, page, confirming, deletes, switched>>

-----------------------------------------------------------------------------
(* Unlinking, on the settings page.  confirming holds one row or none.     *)
AskUnlink(r) ==
    /\ me # None /\ page = "settings"
    /\ ~Covered
    /\ list.loaded /\ r \in list.data
    /\ confirming' = {r}
    /\ UNCHANGED <<rows, made, me, page, dialog, job, deletes, cache, untold, switched>>

(* Cancel closes the question even while the DELETE is running.            *)
CancelUnlink ==
    /\ confirming # {}
    /\ confirming' = {}
    /\ UNCHANGED <<rows, made, me, page, dialog, job, deletes, cache, untold, switched>>

(* "Yes, unlink" is busy while this page's mutation is pending.            *)
ConfirmUnlink(r) ==
    /\ r \in confirming
    /\ \A d \in deletes : ~d.here
    /\ Cardinality(deletes) < MaxDeletes
    /\ deletes' = deletes \cup {[row |-> r, bearer |-> me, here |-> TRUE, done |-> FALSE]}
    /\ UNCHANGED <<rows, made, me, page, dialog, job, confirming, cache, untold, switched>>

(* The connection of the account the DELETE names, if the caller owns it.  *)
Named(d) == {r \in RowsOf(d.bearer) : r = d.row}

(* The server deletes it, or the DELETE fails and the question stays open. *)
Deleted(d) ==
    /\ d \in deletes /\ ~d.done
    /\ \/ deletes' = deletes \ {d} /\ UNCHANGED rows
       \/ /\ Named(d) # {}
          /\ rows' = rows \ Named(d)
          /\ deletes' = (deletes \ {d}) \cup {[d EXCEPT !.done = TRUE]}
    /\ UNCHANGED <<made, me, page, dialog, job, confirming, cache, untold, switched>>

(* The answer closes whatever question the page shows by now, or is lost.  *)
Unlinked(d) ==
    /\ d \in deletes /\ d.done
    /\ deletes' = deletes \ {d}
    /\ \/ /\ Invalidate
          /\ confirming' = IF d.here THEN {} ELSE confirming
          /\ UNCHANGED untold
       \/ untold' = TRUE /\ UNCHANGED <<confirming, cache>>
    /\ UNCHANGED <<rows, made, me, page, dialog, job, switched>>

-----------------------------------------------------------------------------
Next ==
    \/ FetchRead \/ FetchLands \/ FetchFails
    \/ \E p \in Pages : Navigate(p)
    \/ SignOut
    \/ \E u \in Users : SignIn(u) \/ Elsewhere(u)
    \/ OpenDialog \/ CloseDialog \/ Back
    \/ \E b \in Banks : ChooseBank(b)
    \/ \E j \in Jobs : ChoosePlaid(j) \/ Connect(j) \/ PlaidSucceeds(j) \/ Started(j)
                    \/ Completed(j) \/ Answered(j)
    \/ \E r \in Row : AskUnlink(r) \/ ConfirmUnlink(r)
    \/ CancelUnlink
    \/ \E d \in deletes : Deleted(d) \/ Unlinked(d)

(* Requests are answered, or fail; nobody has to press a button.           *)
Fairness ==
    /\ \A j \in Jobs : WF_vars(Started(j)) /\ WF_vars(Completed(j)) /\ WF_vars(Answered(j))
    /\ WF_vars(FetchRead) /\ WF_vars(FetchLands \/ FetchFails)

Spec == Init /\ [][Next]_vars
FairSpec == Spec /\ Fairness

-----------------------------------------------------------------------------
(* The kinds of values: a dialog at the chooser or closed is no flow's.    *)
TypeOK ==
    /\ rows \subseteq Row
    /\ made \in 0..MaxRows
    /\ me \in Users \cup {None}
    /\ page \in Pages
    /\ dialog \in Dialog
    /\ job \in [Jobs -> Job]
    /\ confirming \in SUBSET Row /\ Cardinality(confirming) <= 1
    /\ deletes \subseteq Delete
    /\ list \in Entry
    /\ fetch \in Fetch
    /\ joined \in BOOLEAN /\ untold \in BOOLEAN /\ switched \in BOOLEAN

(* A change of the user's the client is still to be answered about.        *)
Unheard == (\E j \in Jobs : job[j].pc = "linked") \/ (\E d \in deletes : d.done)

(* The list a page shows is the user's connections whenever no fetch is    *)
(* running and every change of this client has been answered: no order of  *)
(* commits, answers, page changes and fetches leaves a stale list behind   *)
(* (LinkAccountModal.tsx:131, 235; Settings.tsx:94).  Excepted: an         *)
(* invalidation met the first fetch after it had read (joined), an answer  *)
(* was lost, a fetch failed or another device acted (untold), the session  *)
(* changed (switched).                                                     *)
ListIsRight ==
    /\ me # None /\ fetch.pc = "idle"
    /\ ~Unheard /\ ~joined /\ ~untold /\ ~switched
    => list.loaded /\ list.data = RowsOf(me)

(* A dialog that says Connecting ends in a result or an error, or has been *)
(* left.                                                                   *)
WorkingEnds == dialog.step = "working" ~> dialog.step # "working"
=============================================================================
