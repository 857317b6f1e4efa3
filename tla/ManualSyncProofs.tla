------------------------- MODULE ManualSyncProofs --------------------------
(***************************************************************************)
(* Proofs about ManualSync, for any links, presses, limit and window.      *)
(***************************************************************************)
EXTENDS ManualSync, TLAPS

-----------------------------------------------------------------------------
(* Types.                                                                  *)

LEMMA CallTypes ==
    /\ Idle.pc = "idle"
    /\ \A k \in Call \cup Timer \cup {Idle} :
         /\ k.pc \in PostPC \cup {"settled"} =>
              /\ k \in Call
              /\ \A pc \in PostPC \cup {"settled"} : [k EXCEPT !.pc = pc] \in Call
         /\ k.pc = "timer" => k.at \in Links \cup {"activity"}
    /\ \A k \in Call : k.link \in Links /\ k.at \in Pages /\ k.all \in BOOLEAN
    /\ \A l \in Links, at \in Pages, all \in BOOLEAN :
         [pc |-> "incr", link |-> l, at |-> at, all |-> all] \in Call
    /\ \A at \in Links \cup {"activity"} : [pc |-> "timer", at |-> at] \in Timer
  BY DEF Call, Timer, Idle, PostPC

LEMMA CacheTypes ==
    /\ NoFetch \in Fetch /\ Asked \in Fetch /\ NoData \in Entry
    /\ \A e \in Entry : e.version \in Versions /\ [e EXCEPT !.invalid = TRUE] \in Entry
    /\ \A f \in Fetch : f.version \in Versions /\ f.pc \in {"idle", "asked", "read"}
    /\ \A v \in Versions : [pc |-> "read", version |-> v] \in Fetch
    /\ \A v \in Versions : [version |-> v, invalid |-> FALSE, loaded |-> TRUE] \in Entry
  <1>1. 0 \in Versions
    BY ManualSyncAssumption DEF Versions
  <1> QED
    BY <1>1 DEF NoFetch, Asked, NoData, Entry, Fetch

CallsOK == call \in [Calls -> Call \cup Timer \cup {Idle}]

(* The steps of a press that is not a timer's.                             *)
LEMMA ToTypes ==
    ASSUME CallsOK, NEW c \in Calls, call[c].pc \in PostPC, NEW pc \in PostPC, To(c, pc)
    PROVE  CallsOK'
  <1>1. call' = [call EXCEPT ![c] = [call[c] EXCEPT !.pc = pc]]
    BY DEF To
  <1> QED
    BY <1>1, CallTypes DEF CallsOK

LEMMA RefusedTypes ==
    ASSUME CallsOK, NEW c \in Calls, call[c].pc \in PostPC, Refused(c)
    PROVE  CallsOK'
  BY CallTypes DEF CallsOK, Refused

LEMMA AcceptedTypes ==
    ASSUME CallsOK, NEW c \in Calls, call[c].pc \in PostPC, Accepted(c)
    PROVE  CallsOK'
  <1>1. call[c] \in Call /\ call[c].all \in BOOLEAN
    BY CallTypes DEF CallsOK
  <1>2. \/ call'[c] = [call[c] EXCEPT !.pc = "settled"]
        \/ call'[c] = Idle
        \/ call[c].at \in Links /\ call'[c] = [pc |-> "timer", at |-> call[c].at]
    <2>1. CASE call[c].all
      BY <1>1, <2>1 DEF Accepted, CallsOK
    <2>2. CASE ~call[c].all /\ call[c].at \in Links
      BY <1>1, <2>2 DEF Accepted, CallsOK
    <2>3. CASE ~call[c].all /\ call[c].at \notin Links
      BY <1>1, <2>3 DEF Accepted, CallsOK
    <2> QED
      BY <2>1, <2>2, <2>3
  <1>3. call'[c] \in Call \cup Timer \cup {Idle}
    BY <1>1, <1>2, CallTypes DEF CallsOK
  <1> QED
    BY <1>3 DEF Accepted, CallsOK

LEMMA SyncAllTypes ==
    ASSUME CallsOK, page \in Pages, NEW S \in SUBSET Links, SyncAll(S)
    PROVE  CallsOK'
  <1>1. PICK f \in [S -> Calls] :
          call' = [c \in Calls |->
                     IF \E l \in S : f[l] = c
                     THEN [pc |-> "incr", link |-> CHOOSE l \in S : f[l] = c, at |-> page, all |-> TRUE]
                     ELSE call[c]]
    BY DEF SyncAll
  <1>2. ASSUME NEW c \in Calls, \E l \in S : f[l] = c
        PROVE  [pc |-> "incr", link |-> CHOOSE l \in S : f[l] = c, at |-> page, all |-> TRUE] \in Call
    <2>1. (CHOOSE l \in S : f[l] = c) \in Links
      BY <1>2
    <2> QED
      BY <2>1, CallTypes
  <1> QED
    BY <1>1, <1>2 DEF CallsOK

LEMMA SettledTypes ==
    ASSUME CallsOK, AllSettled
    PROVE  CallsOK'
  <1>1. \A d \in Calls : call'[d] \in {call[d], Idle, [pc |-> "timer", at |-> "activity"]}
    BY DEF AllSettled
  <1>2. call' = [d \in Calls |-> call'[d]]
    BY DEF AllSettled
  <1> QED
    BY <1>1, <1>2, CallTypes DEF CallsOK

LEMMA CountTypes ==
    ASSUME TypeOK
    PROVE  Counted \in 0..Limit + 1 /\ Counted > 0
  BY ManualSyncAssumption DEF Counted, TypeOK

(* Every step keeps the types.                                             *)
LEMMA TypesKept ==
    ASSUME TypeOK, [Next]_vars
    PROVE  TypeOK'
  <1> USE DEF TypeOK, limiter, server, client
  <1>1. CallsOK
    BY DEF CallsOK
  <1>2. ASSUME NEW c \in Calls, NEW l \in Links, Sync(c, l)
        PROVE  TypeOK'
    BY <1>2, CallTypes DEF Sync
  <1>3. ASSUME NEW c \in Calls, Incr(c)
        PROVE  TypeOK'
    <2>1. counter' \in 0..Limit + 1
      BY <1>3, CountTypes DEF Incr
    <2>2. CallsOK'
      BY <1>1, <1>3, ToTypes, RefusedTypes DEF Incr, PostPC
    <2> QED
      BY <1>3, <2>1, <2>2 DEF Incr, CallsOK
  <1>4. ASSUME NEW c \in Calls, IncrFails(c)
         PROVE  TypeOK'
    <2>1. counter' \in 0..Limit + 1 /\ broken' \in BOOLEAN
      BY <1>4, CountTypes DEF IncrFails, CountUnseen
    <2>2. CallsOK'
      BY <1>1, <1>4, ToTypes, RefusedTypes DEF IncrFails, PostPC, CallsOK
    <2>3. adrift' \subseteq {"incr", "expire"}
      BY <1>4 DEF IncrFails
    <2> QED
      BY <1>4, <2>1, <2>2, <2>3 DEF IncrFails, CallsOK
  <1>5. CASE LateIncr
    <2>1. counter' \in 0..Limit + 1 /\ broken' \in BOOLEAN
      BY <1>5, CountTypes DEF LateIncr, CountUnseen
    <2> QED
      BY <1>5, <2>1 DEF LateIncr
  <1>6. CASE LateExpire
    <2>1. ttl' \in 0..Window
      BY <1>6, ManualSyncAssumption DEF LateExpire, SetExpiry
    <2> QED
      BY <1>6, <2>1 DEF LateExpire
  <1>7. ASSUME NEW c \in Calls, Expire(c)
        PROVE  TypeOK'
    <2>1. CallsOK'
      BY <1>1, <1>7, ToTypes DEF Expire, PostPC
    <2>2. ttl' \in 0..Window
      BY <1>7, ManualSyncAssumption DEF Expire, SetExpiry
    <2>3. broken' \in BOOLEAN /\ adrift' \subseteq {"incr", "expire"}
      BY <1>7 DEF Expire
    <2> QED
      BY <1>7, <2>1, <2>2, <2>3 DEF Expire, CallsOK
  <1>8. ASSUME NEW c \in Calls, Crash(c)
        PROVE  TypeOK'
    <2>1. CallsOK'
      BY <1>1, <1>8, RefusedTypes DEF Crash, PostPC
    <2>2. broken' \in BOOLEAN
      BY <1>8 DEF Crash
    <2> QED
      BY <1>8, <2>1, <2>2 DEF Crash, CallsOK
  <1>9. ASSUME NEW c \in Calls, Body(c)
        PROVE  TypeOK'
    <2>1. CallsOK'
      BY <1>1, <1>9, AcceptedTypes, RefusedTypes DEF Body, PostPC
    <2>2. queued' \subseteq Links
      <3>1. call[c].link \in Links
        BY <1>9, CallTypes DEF Body, PostPC
      <3> QED
        BY <1>9, <3>1 DEF Body
    <2> QED
      BY <1>9, <2>1, <2>2 DEF Body, CallsOK
  <1>10. ASSUME NEW c \in Calls, TimerFires(c)
        PROVE  TypeOK'
    <2>1. call[c].at \in Links \cup {"activity"}
      BY <1>10, CallTypes DEF TimerFires
    <2>2. owed' \in Versions
      BY <1>10, <2>1 DEF TimerFires, Newest
    <2>3. entry' \in Entry /\ fetch' \in Fetch
      BY <1>10, CacheTypes DEF TimerFires, Refetch
    <2>4. CallsOK'
      BY <1>10 DEF TimerFires, CallsOK
    <2> QED
      BY <1>10, <2>2, <2>3, <2>4 DEF TimerFires, CallsOK
  <1>11. ASSUME NEW S \in SUBSET Links, SyncAll(S)
        PROVE  TypeOK'
    BY <1>1, <1>11, SyncAllTypes DEF SyncAll, CallsOK
  <1>12. CASE AllSettled
    BY <1>1, <1>12, SettledTypes DEF AllSettled, CallsOK
  <1>13. CASE Tick
    <2>1. counter' \in 0..Limit + 1 /\ ttl' \in 0..Window
      BY <1>13, ManualSyncAssumption DEF Tick
    <2>2. broken' \in BOOLEAN
      BY <1>13 DEF Tick
    <2> QED
      BY <1>13, <2>1, <2>2 DEF Tick
  <1>14. ASSUME NEW l \in Links, SyncRuns(l)
         PROVE  TypeOK'
    <2>1. commits' \in Versions /\ last' \in [Links -> Versions]
      BY <1>14, ManualSyncAssumption DEF SyncRuns, Versions
    <2> QED
      BY <1>14, <2>1 DEF SyncRuns
  <1>15. ASSUME NEW l \in Links, Relink(l)
         PROVE  TypeOK'
    BY <1>15 DEF Relink
  <1>16. ASSUME NEW p \in Pages, Navigate(p)
         PROVE  TypeOK'
    BY <1>16, CacheTypes DEF Navigate
  <1>17. CASE FetchRead
    BY <1>17, CacheTypes DEF FetchRead
  <1>18. CASE FetchLands
    BY <1>18, CacheTypes DEF FetchLands
  <1>19. CASE FetchFails
    BY <1>19, CacheTypes DEF FetchFails
  <1>20. CASE UNCHANGED vars
    BY <1>20 DEF vars
  <1> QED
    BY <1>2, <1>3, <1>4, <1>5, <1>6, <1>7, <1>8, <1>9, <1>10, <1>11, <1>12, <1>13, <1>14,
       <1>15, <1>16, <1>17, <1>18, <1>19, <1>20 DEF Next

LEMMA InitTypes == Init => TypeOK
  <1> SUFFICES ASSUME Init PROVE TypeOK
    OBVIOUS
  <1>1. 0 \in Versions /\ NoData \in Entry
    BY ManualSyncAssumption, CacheTypes DEF Versions
  <1>2. fetch \in Fetch
    BY CacheTypes DEF Init
  <1>3. counter \in 0..Limit + 1 /\ ttl \in 0..Window
    BY ManualSyncAssumption DEF Init
  <1>4. call \in [Calls -> Call \cup Timer \cup {Idle}]
    BY DEF Init
  <1>5. last \in [Links -> Versions] /\ status \in [Links -> {"active", "needs_reauth"}]
    BY <1>1 DEF Init
  <1> QED
    BY <1>1, <1>2, <1>3, <1>4, <1>5 DEF Init, TypeOK, Pages

(* The limiter's key, the presses and the cache entry hold nothing but     *)
(* what TypeOK lists; the counter stays within the bound of the model.     *)
THEOREM TypesHold == Spec => []TypeOK
  BY InitTypes, TypesKept, PTL DEF Spec

-----------------------------------------------------------------------------
(* The limiter: a call between its INCR and its EXPIRE stays there in the  *)
(* steps of everybody else.                                                *)
Expiring(c) == call[c].pc = "expire"

LEMMA UnseenIsBroken ==
    ASSUME TypeOK, CountUnseen
    PROVE  (broken => broken') /\ (broken' \/ counter > 0)
  <1>1. broken \/ counter = 0 => broken'
    BY DEF CountUnseen
  <1>2. counter = 0 \/ counter > 0
    BY DEF TypeOK
  <1> QED
    BY <1>1, <1>2

LEMMA ExpiryKept ==
    ASSUME TypeOK, ExpiryIsSet, [Next]_vars
    PROVE  ExpiryIsSet'
  <1> USE DEF limiter, server, client
  <1>1. ASSUME UNCHANGED limiter, \A d \in Calls : Expiring(d) => Expiring(d)'
        PROVE  ExpiryIsSet'
    BY <1>1 DEF ExpiryIsSet, Expiring
  <1>2. ASSUME NEW c \in Calls, NEW l \in Links, Sync(c, l)
        PROVE  ExpiryIsSet'
    BY <1>1, <1>2 DEF Sync, Expiring, Idle, TypeOK
  <1>3. ASSUME NEW c \in Calls, Incr(c)
        PROVE  ExpiryIsSet'
    <2>1. ~Expiring(c) /\ \A d \in Calls \ {c} : call'[d] = call[d]
      BY <1>3 DEF Incr, To, Refused, Expiring, TypeOK
    <2>2. CASE StartsWindow(counter') /\ To(c, "expire")
      <3>1. Expiring(c)'
        BY <2>2 DEF To, Expiring, TypeOK, Call, Timer, Idle
      <3> QED
        BY <3>1 DEF ExpiryIsSet, Expiring
    <2>3. CASE ~StartsWindow(counter')
      <3>1. counter > 0
        BY <1>3, <2>3, ManualSyncAssumption DEF Incr, Counted, StartsWindow, TypeOK
      <3> QED
        BY <1>3, <2>1, <3>1 DEF Incr, ExpiryIsSet, Expiring
    <2> QED
      BY <1>3, <2>2, <2>3 DEF Incr
  <1>4. ASSUME NEW c \in Calls, IncrFails(c)
         PROVE  ExpiryIsSet'
    <2>1. \A d \in Calls : Expiring(d) => Expiring(d)'
      BY <1>4 DEF IncrFails, To, Refused, Expiring, TypeOK
    <2>2. UNCHANGED ttl /\ (CountUnseen \/ UNCHANGED <<counter, broken>>)
      BY <1>4 DEF IncrFails
    <2> QED
      BY <2>1, <2>2, UnseenIsBroken DEF ExpiryIsSet, Expiring
  <1>5. CASE LateIncr
    <2>1. UNCHANGED <<ttl, call>> /\ CountUnseen
      BY <1>5 DEF LateIncr
    <2> QED
      BY <2>1, UnseenIsBroken DEF ExpiryIsSet, Expiring
  <1>6. CASE LateExpire
    <2>1. counter' = 0 \/ ttl' > 0
      BY <1>6, ManualSyncAssumption DEF LateExpire, SetExpiry
    <2> QED
      BY <2>1 DEF ExpiryIsSet
  <1>7. ASSUME NEW c \in Calls, Expire(c)
        PROVE  ExpiryIsSet'
    <2>1. CASE SetExpiry /\ UNCHANGED counter
      BY <2>1, ManualSyncAssumption DEF ExpiryIsSet, SetExpiry
    <2>2. CASE broken' = (counter # 0) /\ UNCHANGED counter
      <3>1. counter # 0 => broken'
        BY <2>2
      <3> QED
        BY <2>2, <3>1 DEF ExpiryIsSet, TypeOK
    <2> QED
      BY <1>7, <2>1, <2>2 DEF Expire
  <1>8. ASSUME NEW c \in Calls, Crash(c)
        PROVE  ExpiryIsSet'
    <2>1. counter # 0 => broken'
      BY <1>8 DEF Crash
    <2>2. UNCHANGED counter
      BY <1>8 DEF Crash
    <2> QED
      BY <2>1, <2>2 DEF ExpiryIsSet, TypeOK
  <1>9. ASSUME NEW c \in Calls, Body(c)
        PROVE  ExpiryIsSet'
    BY <1>1, <1>9 DEF Body, Accepted, Refused, Expiring, TypeOK
  <1>10. ASSUME NEW c \in Calls, TimerFires(c)
        PROVE  ExpiryIsSet'
    BY <1>1, <1>10 DEF TimerFires, Expiring, TypeOK
  <1>11. ASSUME NEW S \in SUBSET Links, SyncAll(S)
        PROVE  ExpiryIsSet'
    <2>1. \A d \in Calls : call[d] = Idle \/ call'[d] = call[d]
      BY <1>11 DEF SyncAll
    <2> QED
      BY <1>1, <1>11, <2>1 DEF SyncAll, Expiring, Idle
  <1>12. CASE AllSettled
    <2>1. \A d \in Calls : call[d].pc = "settled" \/ call'[d] = call[d]
      BY <1>12 DEF AllSettled
    <2> QED
      BY <1>1, <1>12, <2>1 DEF AllSettled, Expiring
  <1>13. CASE Tick
    BY <1>13, ManualSyncAssumption DEF Tick, ExpiryIsSet, TypeOK
  <1>14. ASSUME NEW l \in Links, SyncRuns(l) \/ Relink(l)
         PROVE  ExpiryIsSet'
    BY <1>1, <1>14 DEF SyncRuns, Relink, Expiring
  <1>15. ASSUME NEW p \in Pages, Navigate(p)
         PROVE  ExpiryIsSet'
    BY <1>1, <1>15 DEF Navigate, Expiring
  <1>16. CASE FetchRead \/ FetchLands \/ FetchFails
    BY <1>1, <1>16 DEF FetchRead, FetchLands, FetchFails, Expiring
  <1>17. CASE UNCHANGED vars
    BY <1>1, <1>17 DEF vars, Expiring
  <1> QED
    BY <1>2, <1>3, <1>4, <1>5, <1>6, <1>7, <1>8, <1>9, <1>10, <1>11, <1>12, <1>13, <1>14,
       <1>15, <1>16, <1>17 DEF Next

(* However INCRs, EXPIREs, lost replies, late commands, crashes and the    *)
(* passing of the window are interleaved, a counter that no expiry will    *)
(* reset is one whose EXPIRE is to come, whose making went unseen, or      *)
(* whose EXPIRE was given up or lost (ratelimit.py:82-88).                 *)
THEOREM ExpiryStaysSet == Spec => []ExpiryIsSet
  <1>1. Init => ExpiryIsSet
    BY DEF Init, ExpiryIsSet
  <1> QED
    BY <1>1, ExpiryKept, TypesHold, PTL DEF Spec

-----------------------------------------------------------------------------
(* The cache: nothing has seen a commit that has not happened, and a fetch *)
(* that has read what it will show has read what the page is owed.         *)
Owed ==
    /\ owed <= commits
    /\ \A l \in Links : last[l] <= commits
    /\ entry.version <= commits
    /\ fetch.pc = "read" => fetch.version \in owed..commits
    /\ FinishedIsShown

(* What a page with a timer shows is read by it and invalidated by it.     *)
LEMMA ShownIsInvalidated ==
    \A at \in Links \cup {"activity"} : Shows(at) \subseteq Reads(at) /\ Shows(at) \subseteq Invalidates(at)
  BY ManualSyncAssumption DEF Shows, Reads, Invalidates

LEMMA OwedKept ==
    ASSUME TypeOK, Owed, [Next]_vars
    PROVE  Owed'
  <1> USE DEF limiter, server, client
  <1>0. ASSUME UNCHANGED <<commits, last, entry, fetch, owed>>
        PROVE  Owed'
    BY <1>0 DEF Owed, FinishedIsShown
  <1>1. ASSUME NEW c \in Calls, TimerFires(c)
        PROVE  Owed'
    <2> DEFINE at == call[c].at
    <2>1. at \in Links \cup {"activity"}
      BY <1>1, CallTypes DEF TimerFires, TypeOK
    <2>2. UNCHANGED <<commits, last>> /\ entry'.version = entry.version
      BY <1>1 DEF TimerFires, TypeOK, Entry
    <2>3. owed' <= commits
      BY <1>1, <2>1 DEF TimerFires, Newest, Owed, TypeOK, Versions
    <2>4. \/ fetch' = Asked
          \/ UNCHANGED <<fetch, owed>>
          \/ UNCHANGED fetch /\ fetch.pc = "asked"
      <3>1. CASE page = at /\ key \in Shows(at) /\ ~TooLate
        <4>1. key \in Invalidates(at) /\ Observed
          BY <2>1, <3>1, ShownIsInvalidated DEF Observed
        <4>2. fetch' = Refetch
          BY <1>1, <4>1 DEF TimerFires
        <4>3. fetch.pc \in {"idle", "asked", "read"}
          BY CacheTypes DEF TypeOK
        <4> QED
          BY <3>1, <4>2, <4>3 DEF Refetch, TooLate
      <3>2. CASE ~(page = at /\ key \in Shows(at) /\ ~TooLate)
        BY <1>1, <3>2 DEF TimerFires, Refetch
      <3> QED
        BY <3>1, <3>2
    <2> QED
      <3>1. CASE fetch' = Asked
        BY <2>2, <2>3, <3>1 DEF Owed, FinishedIsShown, Asked
      <3>2. CASE UNCHANGED <<fetch, owed>>
        BY <2>2, <2>3, <3>2 DEF Owed, FinishedIsShown
      <3>3. CASE UNCHANGED fetch /\ fetch.pc = "asked"
        BY <2>2, <2>3, <3>3 DEF Owed, FinishedIsShown
      <3> QED
        BY <2>4, <3>1, <3>2, <3>3
  <1>2. ASSUME NEW l \in Links, SyncRuns(l)
        PROVE  Owed'
    <2>1. UNCHANGED <<entry, fetch, owed>>
      BY <1>2 DEF SyncRuns
    <2>2. owed <= commits' /\ \A m \in Links : last'[m] <= commits'
      BY <1>2 DEF SyncRuns, Owed, TypeOK, Versions
    <2>3. commits <= commits' /\ commits' \in Nat
      BY <1>2 DEF SyncRuns, TypeOK, Versions
    <2>4. owed \in Nat /\ commits \in Nat /\ entry.version \in Nat
      <3>1. Versions \subseteq Nat
        BY DEF Versions
      <3>2. owed \in Versions /\ commits \in Versions /\ entry.version \in Versions
        BY CacheTypes DEF TypeOK
      <3> QED
        BY <3>1, <3>2
    <2> QED
      BY <2>1, <2>2, <2>3, <2>4 DEF Owed, FinishedIsShown
  <1>3. ASSUME NEW p \in Pages, Navigate(p)
        PROVE  Owed'
    BY <1>3 DEF Navigate, Owed, FinishedIsShown, Asked
  <1>4. CASE FetchRead
    BY <1>4 DEF FetchRead, Owed, FinishedIsShown, TypeOK, Versions
  <1>5. CASE FetchLands
    BY <1>5 DEF FetchLands, Owed, FinishedIsShown, NoFetch, TypeOK, Versions
  <1>6. CASE FetchFails
    BY <1>6 DEF FetchFails, Owed, FinishedIsShown, NoFetch, TypeOK, Entry, Versions
  <1>7. ASSUME NEW c \in Calls,
               (\E l \in Links : Sync(c, l)) \/ Incr(c) \/ IncrFails(c) \/ Expire(c) \/ Crash(c) \/ Body(c)
        PROVE  Owed'
    BY <1>0, <1>7 DEF Sync, Incr, IncrFails, Expire, Crash, Body
  <1>8. ASSUME NEW S \in SUBSET Links, SyncAll(S)
        PROVE  Owed'
    BY <1>0, <1>8 DEF SyncAll
  <1>9. CASE AllSettled \/ LateIncr \/ LateExpire \/ Tick \/ (\E l \in Links : Relink(l)) \/ UNCHANGED vars
    BY <1>0, <1>9 DEF AllSettled, LateIncr, LateExpire, Tick, Relink, vars
  <1> QED
    BY <1>1, <1>2, <1>3, <1>4, <1>5, <1>6, <1>7, <1>8, <1>9 DEF Next

(* Once the timer of a shown page has fired, what had committed by then is *)
(* on the page whenever nothing is being fetched, unless the timer met the *)
(* entry's first fetch after it had read, or a fetch failed.               *)
THEOREM FinishedStaysShown == Spec => []FinishedIsShown
  <1>1. Init => Owed
    BY CacheTypes DEF Init, NoData, Owed, FinishedIsShown, Asked, NoFetch
  <1>2. Owed => FinishedIsShown
    BY DEF Owed
  <1> QED
    BY <1>1, <1>2, OwedKept, TypesHold, PTL DEF Spec

=============================================================================
