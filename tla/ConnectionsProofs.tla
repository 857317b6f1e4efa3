------------------------- MODULE ConnectionsProofs -------------------------
(***************************************************************************)
(* Proofs about Connections, for any users, banks and links in flight.     *)
(***************************************************************************)
EXTENDS Connections, FiniteSetTheorems, TLAPS

-----------------------------------------------------------------------------
(* Types.                                                                  *)

Owner == Users \cup {None}

LEMMA DialogTypes ==
    /\ Closed \in Dialog /\ Chooser \in Dialog
    /\ \A b \in Choices, step \in Steps, j \in Jobs \cup {None} :
         [view |-> "flow", bank |-> b, step |-> step, job |-> j] \in Dialog
  BY DEF Closed, Chooser, Dialog

LEMMA JobTypes ==
    /\ NoJob \in Job
    /\ \A pc \in {"prepare", "start", "complete", "linked"}, b \in Choices, u \in Owner :
         [pc |-> pc, bank |-> b, bearer |-> u] \in Job
    /\ \A k \in Job, u \in Owner :
         k.pc # "idle" => /\ k.bank \in Choices
                            /\ [k EXCEPT !.pc = "complete", !.bearer = u] \in Job
                            /\ [k EXCEPT !.pc = "linked"] \in Job
    /\ \A k \in Job : k.bearer \in Owner
  BY DEF NoJob, Job, Owner

LEMMA FetchTypes ==
    /\ NoFetch \in Fetch
    /\ \A u \in Owner : Asked(u) \in Fetch
    /\ \A f \in Fetch : f.data \subseteq Row /\ f.pc \in {"idle", "asked", "read"}
    /\ \A f \in Fetch, data \in SUBSET Row : [f EXCEPT !.pc = "read", !.data = data] \in Fetch
  BY DEF NoFetch, Asked, Fetch, Owner

(* What the helpers make of the dialog, the jobs and the cache.            *)
LEMMA ShowTypes ==
    ASSUME TypeOK, NEW j \in Jobs, NEW step \in Steps, Show(j, step)
    PROVE  dialog' \in Dialog
  <1>1. CASE dialog.job = j
    <2>1. dialog.view = "flow" /\ dialog \in Dialog
      BY <1>1, ConnectionsAssumption DEF TypeOK, Dialog
    <2>2. [dialog EXCEPT !.step = step, !.job = None] \in Dialog
      BY <2>1 DEF Dialog
    <2> QED
      BY <1>1, <2>2 DEF Show
  <1>2. CASE dialog.job # j
    BY <1>2 DEF Show, TypeOK
  <1> QED
    BY <1>1, <1>2

LEMMA ThrowTypes ==
    ASSUME TypeOK, NEW j \in Jobs, Throw(j)
    PROVE  job' \in [Jobs -> Job] /\ dialog' \in Dialog
  <1>1. "error" \in Steps
    BY DEF Steps
  <1> QED
    BY <1>1, JobTypes, ShowTypes DEF Throw, TypeOK

LEMMA InvalidateTypes ==
    ASSUME TypeOK, Invalidate
    PROVE  list' \in Entry /\ fetch' \in Fetch /\ joined' \in BOOLEAN
  BY FetchTypes DEF TypeOK, Invalidate, Ask, Join, Entry, Owner

LEMMA MountTypes ==
    ASSUME TypeOK, NEW u \in Users, Mount(u)
    PROVE  fetch' \in Fetch /\ joined' \in BOOLEAN
  BY FetchTypes DEF TypeOK, Mount, Ask, Owner

LEMMA LeaveTypes ==
    ASSUME TypeOK, LeavePage
    PROVE  /\ dialog' \in Dialog
           /\ confirming' \in SUBSET Row /\ Cardinality(confirming') <= 1
           /\ deletes' \subseteq Delete
  <1>1. dialog' \in Dialog /\ confirming' = {}
    BY DialogTypes DEF LeavePage
  <1>2. Cardinality(confirming') <= 1
    BY <1>1, FS_EmptySet
  <1>3. deletes' \subseteq Delete
    BY DEF LeavePage, TypeOK, Delete
  <1> QED
    BY <1>1, <1>2, <1>3

LEMMA NewRowTypes ==
    ASSUME TypeOK, NEW u \in Users, NEW b \in Choices, made < MaxRows
    PROVE  /\ [id |-> made + 1, owner |-> u, bank |-> b] \in Row
           /\ made + 1 \in 0..MaxRows
  BY ConnectionsAssumption DEF TypeOK, Row

LEMMA LinkRowTypes ==
    ASSUME TypeOK, NEW u \in Users, NEW b \in Choices, LinkRow(u, b)
    PROVE  rows' \subseteq Row /\ made' \in 0..MaxRows
  <1>1. CASE UNCHANGED <<rows, made>>
    BY <1>1 DEF TypeOK
  <1>2. CASE /\ made < MaxRows
             /\ rows' = rows \cup {[id |-> made + 1, owner |-> u, bank |-> b]}
             /\ made' = made + 1
    BY <1>2, NewRowTypes DEF TypeOK
  <1> QED
    BY <1>1, <1>2 DEF LinkRow

(* Every step keeps the types.                                             *)
LEMMA TypesKept ==
    ASSUME TypeOK, [Next]_vars
    PROVE  TypeOK'
  <1> USE DEF TypeOK, cache
  <1>1. CASE FetchRead
    <2>1. RowsOf(fetch.bearer) \in SUBSET Row
      BY DEF RowsOf
    <2> QED
      BY <1>1, <2>1, FetchTypes DEF FetchRead
  <1>2. CASE FetchLands
    BY <1>2, FetchTypes DEF FetchLands, Entry
  <1>3. CASE FetchFails
    BY <1>3, FetchTypes DEF FetchFails
  <1>4. ASSUME NEW p \in Pages, Navigate(p)
        PROVE  TypeOK'
    BY <1>4, MountTypes, LeaveTypes DEF Navigate
  <1>5. CASE SignOut
    BY <1>5, LeaveTypes DEF SignOut, Pages
  <1>6. ASSUME NEW u \in Users, SignIn(u)
        PROVE  TypeOK'
    BY <1>6, MountTypes DEF SignIn
  <1>7. ASSUME NEW u \in Users, Elsewhere(u)
        PROVE  TypeOK'
    BY <1>7, NewRowTypes DEF Elsewhere, Choices
  <1>8. CASE OpenDialog \/ CloseDialog \/ Back
    BY <1>8, DialogTypes DEF OpenDialog, CloseDialog, Back
  <1>9. ASSUME NEW b \in Banks, ChooseBank(b)
        PROVE  TypeOK'
    <2>1. dialog' \in Dialog
      BY <1>9, DialogTypes DEF ChooseBank, Choices, Steps
    <2> QED
      BY <1>9, <2>1 DEF ChooseBank
  <1>10. ASSUME NEW j \in Jobs, ChoosePlaid(j)
         PROVE  TypeOK'
    <2>1. dialog' \in Dialog
      BY <1>10, DialogTypes DEF ChoosePlaid, Choices, Steps
    <2>2. job' \in [Jobs -> Job]
      BY <1>10, JobTypes DEF ChoosePlaid, Choices, Owner
    <2> QED
      BY <1>10, <2>1, <2>2 DEF ChoosePlaid
  <1>11. ASSUME NEW j \in Jobs, Connect(j) \/ PlaidSucceeds(j)
         PROVE  TypeOK'
    <2>1. dialog.view = "flow" /\ dialog.bank \in Choices
      BY <1>11 DEF Connect, PlaidSucceeds, Dialog
    <2>2. dialog' \in Dialog
      BY <1>11, <2>1 DEF Connect, PlaidSucceeds, Dialog, Steps
    <2>3. job' \in [Jobs -> Job]
      <3>1. /\ [pc |-> "start", bank |-> dialog.bank, bearer |-> me] \in Job
            /\ [pc |-> "complete", bank |-> Plaid, bearer |-> me] \in Job
        BY <2>1, JobTypes DEF Owner, Choices
      <3> QED
        BY <1>11, <3>1 DEF Connect, PlaidSucceeds
    <2> QED
      BY <1>11, <2>2, <2>3 DEF Connect, PlaidSucceeds
  <1>12. ASSUME NEW j \in Jobs, Started(j)
         PROVE  TypeOK'
    <2>1. CASE Throw(j)
      BY <1>12, <2>1, ThrowTypes DEF Started
    <2>2. CASE job' = [job EXCEPT ![j] = NoJob] /\ Show(j, "ready")
      <3>1. dialog' \in Dialog
        BY <2>2, ShowTypes DEF Steps
      <3> QED
        BY <1>12, <2>2, <3>1, JobTypes DEF Started
    <2>3. CASE /\ job' = [job EXCEPT ![j].pc = "complete", ![j].bearer = me]
               /\ UNCHANGED dialog
      <3>1. [job[j] EXCEPT !.pc = "complete", !.bearer = me] \in Job
        BY <1>12, JobTypes DEF Started, Owner
      <3>2. job' = [job EXCEPT ![j] = [job[j] EXCEPT !.pc = "complete", !.bearer = me]]
        BY <2>3
      <3>3. job' \in [Jobs -> Job]
        BY <3>1, <3>2
      <3> QED
        BY <1>12, <2>3, <3>3 DEF Started
    <2> QED
      BY <1>12, <2>1, <2>2, <2>3 DEF Started
  <1>13. ASSUME NEW j \in Jobs, Completed(j)
         PROVE  TypeOK'
    <2>1. UNCHANGED <<me, page, confirming, deletes, cache, untold, switched>>
      BY <1>13 DEF Completed
    <2>2. CASE Throw(j) /\ UNCHANGED <<rows, made>>
      BY <2>1, <2>2, ThrowTypes
    <2>3. CASE /\ job[j].bearer # None /\ LinkRow(job[j].bearer, job[j].bank)
               /\ job' = [job EXCEPT ![j].pc = "linked"] /\ UNCHANGED dialog
      <3>1. job[j] \in Job /\ job[j].pc # "idle"
        BY <1>13 DEF Completed
      <3>2. job[j].bearer \in Users /\ job[j].bank \in Choices
        BY <2>3, <3>1, JobTypes DEF Owner
      <3>3. rows' \subseteq Row /\ made' \in 0..MaxRows
        BY <2>3, <3>2, LinkRowTypes
      <3>4. [job[j] EXCEPT !.pc = "linked"] \in Job
        BY <3>1, JobTypes DEF Owner
      <3>5. job' = [job EXCEPT ![j] = [job[j] EXCEPT !.pc = "linked"]]
        BY <2>3
      <3>6. job' \in [Jobs -> Job]
        BY <3>4, <3>5
      <3> QED
        BY <2>1, <2>3, <3>3, <3>6
    <2> QED
      BY <1>13, <2>2, <2>3 DEF Completed
  <1>14. ASSUME NEW j \in Jobs, Answered(j)
         PROVE  TypeOK'
    <2>1. UNCHANGED <<rows, made, me, page, confirming, deletes, switched>> /\ untold' \in BOOLEAN
      BY <1>14 DEF Answered
    <2>2. CASE job' = [job EXCEPT ![j] = NoJob] /\ Show(j, "done") /\ Invalidate
      <3>1. dialog' \in Dialog
        BY <2>2, ShowTypes DEF Steps
      <3> QED
        BY <2>1, <2>2, <3>1, JobTypes, InvalidateTypes
    <2>3. CASE Throw(j) /\ UNCHANGED cache
      BY <2>1, <2>3, ThrowTypes
    <2> QED
      BY <1>14, <2>2, <2>3 DEF Answered
  <1>15. ASSUME NEW r \in Row, AskUnlink(r)
         PROVE  TypeOK'
    <2>1. Cardinality({r}) = 1
      BY FS_Singleton
    <2> QED
      BY <1>15, <2>1 DEF AskUnlink
  <1>16. ASSUME NEW r \in Row, ConfirmUnlink(r)
         PROVE  TypeOK'
    <2>1. [row |-> r, bearer |-> me, here |-> TRUE, done |-> FALSE] \in Delete
      BY DEF Delete
    <2> QED
      BY <1>16, <2>1 DEF ConfirmUnlink
  <1>17. CASE CancelUnlink
    BY <1>17, FS_EmptySet DEF CancelUnlink
  <1>18. ASSUME NEW d \in deletes, Deleted(d)
         PROVE  TypeOK'
    <2>1. [d EXCEPT !.done = TRUE] \in Delete
      BY DEF Delete
    <2>2. rows' \subseteq Row /\ deletes' \subseteq Delete
      BY <1>18, <2>1 DEF Deleted
    <2> QED
      BY <1>18, <2>2 DEF Deleted
  <1>19. ASSUME NEW d \in deletes, Unlinked(d)
         PROVE  TypeOK'
    <2>1. UNCHANGED <<rows, made, me, page, dialog, job, switched>> /\ deletes' \subseteq Delete
      BY <1>19 DEF Unlinked
    <2>2. CASE /\ Invalidate /\ UNCHANGED untold
               /\ confirming' = IF d.here THEN {} ELSE confirming
      BY <2>1, <2>2, InvalidateTypes, FS_EmptySet
    <2>3. CASE untold' = TRUE /\ UNCHANGED <<confirming, cache>>
      BY <2>1, <2>3
    <2> QED
      BY <1>19, <2>2, <2>3 DEF Unlinked
  <1>20. CASE UNCHANGED vars
    BY <1>20 DEF vars
  <1> QED
    BY <1>1, <1>2, <1>3, <1>4, <1>5, <1>6, <1>7, <1>8, <1>9, <1>10, <1>11, <1>12, <1>13,
       <1>14, <1>15, <1>16, <1>17, <1>18, <1>19, <1>20 DEF Next

LEMMA InitTypes == Init => TypeOK
  <1> SUFFICES ASSUME Init PROVE TypeOK
    OBVIOUS
  <1>1. confirming \in SUBSET Row /\ Cardinality(confirming) <= 1
    BY FS_EmptySet DEF Init
  <1>2. made \in 0..MaxRows /\ rows \subseteq Row /\ deletes \subseteq Delete
    BY ConnectionsAssumption DEF Init
  <1>3. dialog \in Dialog /\ job \in [Jobs -> Job] /\ fetch \in Fetch
    BY DialogTypes, JobTypes, FetchTypes DEF Init
  <1>4. list \in Entry
    BY DEF Init, Entry
  <1> QED
    BY <1>1, <1>2, <1>3, <1>4 DEF Init, TypeOK, Pages

(* The client holds nothing but what TypeOK lists (LinkAccountModal.tsx,   *)
(* Settings.tsx, queries.ts).                                              *)
THEOREM TypesHold == Spec => []TypeOK
  BY InitTypes, TypesKept, PTL DEF Spec

-----------------------------------------------------------------------------
(* What the client knows while it has heard of everything: a fetch that is *)
(* to land was sent for the user and has read the user's rows of now, and  *)
(* where none is running, the list is there.                               *)
Current == /\ fetch.pc = "read" => fetch.data = RowsOf(me)
           /\ fetch.pc = "idle" => list.data = RowsOf(me)

Fresh ==
    IF me = None
    THEN fetch = NoFetch /\ ~list.loaded
    ELSE /\ fetch.pc = "asked" => fetch.bearer = me
         /\ fetch.pc = "idle" => list.loaded
         /\ ~Unheard /\ ~joined => Current

Known == ~untold /\ ~switched => Fresh

(* After an invalidation nothing depends on what the rows were, or it has  *)
(* joined a first fetch.                                                   *)
LEMMA InvalidateFresh ==
    ASSUME TypeOK, Known, UNCHANGED <<me, switched, untold>>, Invalidate
    PROVE  Known'
  <1>1. CASE me = None
    BY <1>1 DEF TypeOK, Known, Fresh, Invalidate, Join, Entry
  <1>2. CASE me # None /\ (fetch.pc = "idle" \/ list.loaded)
    BY <1>2 DEF Known, Fresh, Current, Invalidate, Ask, Asked
  <1>3. CASE me # None /\ ~(fetch.pc = "idle" \/ list.loaded)
    <2>1. UNCHANGED fetch /\ fetch.pc # "idle" /\ (fetch.pc = "read" => joined')
      BY <1>3 DEF Invalidate, Join
    <2> QED
      BY <1>3, <2>1 DEF Known, Fresh, Current
  <1> QED
    BY <1>1, <1>2, <1>3

(* A change stays unheard of while its job and its DELETE stay as they are.*)
LEMMA UnheardKept ==
    ASSUME \A j \in Jobs : job[j].pc = "linked" => job'[j].pc = "linked",
           \A d \in deletes : d.done => \E e \in deletes' : e.done
    PROVE  Unheard => Unheard'
  BY DEF Unheard

LEMMA LeftUnheard ==
    ASSUME TypeOK, LeavePage, UNCHANGED job
    PROVE  Unheard => Unheard'
  <1>1. \A d \in deletes : [d EXCEPT !.here = FALSE] \in deletes'
    BY DEF LeavePage
  <1>2. \A d \in deletes : [d EXCEPT !.here = FALSE].done = d.done
    BY DEF TypeOK, Delete
  <1> QED
    BY <1>1, <1>2, UnheardKept

LEMMA KnownKept ==
    ASSUME TypeOK, Known, [Next]_vars
    PROVE  Known'
  <1> USE DEF cache
  <1>1. ASSUME UNCHANGED <<rows, me, cache, untold, switched>>, Unheard => Unheard'
        PROVE  Known'
    BY <1>1 DEF Known, Fresh, Current, RowsOf
  <1>2. CASE FetchRead
    <2>1. Unheard' <=> Unheard
      BY <1>2 DEF FetchRead, Unheard
    <2> QED
      BY <1>2, <2>1 DEF FetchRead, Known, Fresh, Current, RowsOf, TypeOK, Fetch, NoFetch
  <1>3. CASE FetchLands
    <2>1. Unheard' <=> Unheard
      BY <1>3 DEF FetchLands, Unheard
    <2> QED
      BY <1>3, <2>1 DEF FetchLands, Known, Fresh, Current, RowsOf, NoFetch
  <1>4. CASE FetchFails
    BY <1>4 DEF FetchFails, Known
  <1>5. ASSUME NEW p \in Pages, Navigate(p)
        PROVE  Known'
    <2>1. Unheard => Unheard'
      BY <1>5, LeftUnheard DEF Navigate
    <2>2. me # None /\ UNCHANGED <<rows, me, list, untold, switched>> /\ Mount(me)
      BY <1>5 DEF Navigate
    <2>3. CASE Ask(me)
      BY <2>2, <2>3 DEF Ask, Asked, Known, Fresh, Current
    <2>4. CASE UNCHANGED <<fetch, joined>>
      BY <1>1, <2>1, <2>2, <2>4
    <2> QED
      BY <2>2, <2>3, <2>4 DEF Mount
  <1>6. CASE SignOut
    BY <1>6 DEF SignOut, Known
  <1>7. ASSUME NEW u \in Users, SignIn(u)
        PROVE  Known'
    <2>1. u # None /\ me = None /\ me' = u /\ UNCHANGED <<rows, list, untold, switched>>
      BY <1>7, ConnectionsAssumption DEF SignIn
    <2>2. ~untold /\ ~switched => fetch' = Asked(u)
      BY <1>7, <2>1 DEF SignIn, Mount, Ask, Known, Fresh, NoFetch
    <2> QED
      BY <2>1, <2>2 DEF Known, Fresh, Current, Asked
  <1>8. ASSUME NEW u \in Users, Elsewhere(u)
        PROVE  Known'
    BY <1>8 DEF Elsewhere, Known
  <1>9. ASSUME NEW j \in Jobs, Completed(j)
        PROVE  Known'
    <2>1. UNCHANGED <<me, deletes, cache, untold, switched>>
      BY <1>9 DEF Completed
    <2>2. CASE Throw(j) /\ UNCHANGED rows
      <3>1. Unheard => Unheard'
        BY <1>9, <2>1, <2>2, UnheardKept DEF Completed, Throw, TypeOK
      <3> QED
        BY <1>1, <2>1, <2>2, <3>1
    <2>3. CASE job' = [job EXCEPT ![j].pc = "linked"]
      <3>1. job[j] \in Job
        BY DEF TypeOK
      <3>2. job'[j].pc = "linked"
        BY <2>3, <3>1 DEF TypeOK, Job
      <3>3. Unheard'
        BY <3>2 DEF Unheard
      <3> QED
        BY <2>1, <3>3 DEF Known, Fresh
    <2> QED
      BY <1>9, <2>2, <2>3 DEF Completed
  <1>10. ASSUME NEW d \in deletes, Deleted(d)
         PROVE  Known'
    <2>1. UNCHANGED <<me, job, cache, untold, switched>> /\ ~d.done
      BY <1>10 DEF Deleted
    <2>2. CASE deletes' = deletes \ {d} /\ UNCHANGED rows
      <3>1. Unheard => Unheard'
        BY <2>1, <2>2, UnheardKept
      <3> QED
        BY <1>1, <2>1, <2>2, <3>1
    <2>3. CASE deletes' = (deletes \ {d}) \cup {[d EXCEPT !.done = TRUE]}
      <3>1. [d EXCEPT !.done = TRUE].done
        BY DEF TypeOK, Delete
      <3>2. Unheard'
        BY <2>3, <3>1 DEF Unheard
      <3> QED
        BY <2>1, <3>2 DEF Known, Fresh
    <2> QED
      BY <1>10, <2>2, <2>3 DEF Deleted
  <1>11. ASSUME NEW j \in Jobs, Answered(j)
         PROVE  Known'
    <2>1. CASE Invalidate /\ UNCHANGED untold
      BY <1>11, <2>1, InvalidateFresh DEF Answered
    <2>2. CASE untold' = TRUE
      BY <2>2 DEF Known
    <2> QED
      BY <1>11, <2>1, <2>2 DEF Answered
  <1>12. ASSUME NEW d \in deletes, Unlinked(d)
         PROVE  Known'
    <2>1. CASE Invalidate /\ UNCHANGED untold
      BY <1>12, <2>1, InvalidateFresh DEF Unlinked
    <2>2. CASE untold' = TRUE
      BY <2>2 DEF Known
    <2> QED
      BY <1>12, <2>1, <2>2 DEF Unlinked
  <1>13. CASE OpenDialog \/ CloseDialog \/ Back \/ CancelUnlink
    <2>1. UNCHANGED <<job, deletes>>
      BY <1>13 DEF OpenDialog, CloseDialog, Back, CancelUnlink
    <2>2. Unheard => Unheard'
      BY <2>1, UnheardKept
    <2> QED
      BY <1>1, <1>13, <2>2 DEF OpenDialog, CloseDialog, Back, CancelUnlink
  <1>14. ASSUME NEW b \in Banks, ChooseBank(b)
         PROVE  Known'
    <2>1. Unheard => Unheard'
      BY <1>14, UnheardKept DEF ChooseBank
    <2> QED
      BY <1>1, <1>14, <2>1 DEF ChooseBank
  <1>15. ASSUME NEW j \in Jobs, ChoosePlaid(j) \/ Connect(j) \/ PlaidSucceeds(j) \/ Started(j)
         PROVE  Known'
    <2>1. job[j].pc # "linked" /\ UNCHANGED deletes
      BY <1>15 DEF ChoosePlaid, Connect, PlaidSucceeds, Started, Idle
    <2>2. \A k \in Jobs \ {j} : job'[k] = job[k]
      BY <1>15 DEF ChoosePlaid, Connect, PlaidSucceeds, Started, Throw, TypeOK
    <2>3. Unheard => Unheard'
      BY <2>1, <2>2, UnheardKept
    <2> QED
      BY <1>1, <1>15, <2>3 DEF ChoosePlaid, Connect, PlaidSucceeds, Started
  <1>16. ASSUME NEW r \in Row, AskUnlink(r) \/ ConfirmUnlink(r)
         PROVE  Known'
    <2>1. Unheard => Unheard'
      BY <1>16, UnheardKept DEF AskUnlink, ConfirmUnlink
    <2> QED
      BY <1>1, <1>16, <2>1 DEF AskUnlink, ConfirmUnlink
  <1>17. CASE UNCHANGED vars
    <2>1. Unheard => Unheard'
      BY <1>17, UnheardKept DEF vars
    <2> QED
      BY <1>1, <1>17, <2>1 DEF vars
  <1> QED
    BY <1>2, <1>3, <1>4, <1>5, <1>6, <1>7, <1>8, <1>9, <1>10, <1>11, <1>12, <1>13, <1>14,
       <1>15, <1>16, <1>17 DEF Next

(* The list a page shows is the user's connections whenever no fetch is    *)
(* running and every change is answered, with the exceptions that joined,  *)
(* untold and switched name: whatever the order of commits, reads, answers *)
(* and page changes (LinkAccountModal.tsx:131, 235; Settings.tsx:94).      *)
THEOREM ListStaysRight == Spec => []ListIsRight
  <1>1. Init => Known
    BY DEF Init, Known, Fresh
  <1>2. Known => ListIsRight
    BY DEF Known, Fresh, Current, ListIsRight
  <1>3. TypeOK /\ Known /\ [Next]_vars => Known'
    BY KnownKept
  <1> QED
    BY <1>1, <1>2, <1>3, TypesHold, PTL DEF Spec

=============================================================================
