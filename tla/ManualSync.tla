---------------------------- MODULE ManualSync ----------------------------
(***************************************************************************)
(* The sync buttons of the web client from the press to what the page      *)
(* shows: POST /accounts/{id}/sync with its per-user limit in Redis, the   *)
(* worker behind Kafka, the toast, the timer that invalidates the page's   *)
(* queries 1.5 s later, and the query cache that fetches them again.       *)
(*                                                                         *)
(* Kafka and the worker are SyncPipeline's subject: here a request that    *)
(* went out is executed some time later, and a sync is visible only when   *)
(* it is committed with its outcome, never as running; that is why the     *)
(* pages' polling of queued and running jobs never starts and is left out. *)
(* One entry of the cache is followed, any one, chosen at the start: no    *)
(* entry reads another.  A link stands for one of its accounts too.  One   *)
(* user, whose limit it is.                                                *)
(***************************************************************************)
EXTENDS Naturals, FiniteSets

CONSTANTS
    Links,
    Calls,          \* bound: presses under way at once
    Limit,          \* api_rate_limit_per_minute
    Window,         \* its window, in ticks of the clock
    MaxCommits,     \* bound: syncs that commit
    Followed        \* bound: the kinds of cache entries to choose from

ASSUME ManualSyncAssumption ==
    /\ Limit \in Nat \ {0} /\ Window \in Nat \ {0} /\ MaxCommits \in Nat
    /\ {"dashboard", "activity"} \cap Links = {}

VARIABLES
    counter,    \* ratelimit:user:sync:<user> in Redis, 0 when there is no key
    ttl,        \* ticks until the key expires, 0 when it has no expiry
    adrift,     \* commands Redis may run although their call has gone on
    broken,     \* the INCR that made the key was not followed by its EXPIRE
                \* (history)
    status,     \* linked_accounts.status; nothing is unlinked here
    call,       \* call[c]: a press and where its POST is
    queued,     \* links with a request in Kafka
    commits,    \* number of committed syncs
    last,       \* last[l]: the number of l's last one
    page,       \* the page shown: a link's own, or one of the others
    key,        \* the cache entry followed
    entry,      \* its data, as the number of commits it has seen
    fetch,      \* the fetch of it
    owed        \* commits the entry must show once it is fetched (history)

vars == <<counter, ttl, adrift, broken, status, call, queued, commits, last, page, key, entry, fetch, owed>>

limiter == <<counter, ttl, adrift, broken>>
server  == <<status, queued, commits, last>>
client  == <<page, key, entry, fetch, owed>>

-----------------------------------------------------------------------------
(* Stands for the dashboard and the accounts page, which have no timer.    *)
Pages == Links \cup {"activity", "dashboard"}

(* What a page reads: the accounts, the jobs, what belongs to its account  *)
(* (the transactions stand for the sync status, balance and month too).    *)
Keys == {<<"accounts">>, <<"sync-activity">>} \cup ({"transactions"} \X Links)
Reads(p) == {<<"accounts">>} \cup (IF p = "activity" THEN {<<"sync-activity">>} ELSE {})
                         \cup (IF p \in Links THEN {"transactions"} \X {p} ELSE {})
Observed == key \in Reads(page)

(* at: the page the button was pressed on; all: the press was Sync all;    *)
(* settled: answered, waiting for the others of its Sync all.              *)
PostPC  == {"incr", "expire", "body"}
Call    == [pc : PostPC \cup {"settled"}, link : Links, at : Pages, all : BOOLEAN]
Timer   == [pc : {"timer"}, at : Links \cup {"activity"}]
Idle    == [pc |-> "idle"]
Pending(c) == call[c].pc \in PostPC \cup {"settled"}

Versions == 0..MaxCommits
(* loaded: a fetch of it has landed.                                       *)
Entry    == [version : Versions, invalid : BOOLEAN, loaded : BOOLEAN]
NoData   == [version |-> 0, invalid |-> TRUE, loaded |-> FALSE]
Fetch    == [pc : {"idle", "asked", "read"}, version : Versions]
NoFetch  == [pc |-> "idle", version |-> 0]
Asked    == [pc |-> "asked", version |-> 0]

Init ==
    /\ counter = 0
    /\ ttl = 0
    /\ adrift = {}
    /\ broken = FALSE
    /\ status = [l \in Links |-> "active"]
    /\ call = [c \in Calls |-> Idle]
    /\ queued = {}
    /\ commits = 0
    /\ last = [l \in Links |-> 0]
    /\ page = "dashboard"
    /\ key \in {k \in Keys : k[1] \in Followed}
    /\ entry = NoData
    /\ fetch = IF key \in Reads("dashboard") THEN Asked ELSE NoFetch
    /\ owed = 0

-----------------------------------------------------------------------------
(* The buttons.  One is busy while its press is pending, which is forgotten *)
(* when the dashboard's next one is pressed or the page is mounted anew:   *)
(* any press may meet an older one of the same link.                       *)
Sync(c, l) ==
    /\ call[c] = Idle
    /\ page \in {l, "dashboard"}
    /\ call' = [call EXCEPT ![c] = [pc |-> "incr", link |-> l, at |-> page, all |-> FALSE]]
    /\ UNCHANGED <<limiter, server, client>>

(* Sync all: one POST for each account the list shows as active (the list  *)
(* may be out of date).  Bound: one Sync all at a time, of any page.       *)
SyncAll(S) ==
    /\ page \in {"activity", "dashboard"}
    /\ ~\E d \in Calls : Pending(d) /\ call[d].all
    /\ \E f \in [S -> Calls] :
         /\ \A l \in S : call[f[l]] = Idle /\ \A m \in S \ {l} : f[m] # f[l]
         /\ call' = [c \in Calls |->
                       IF \E l \in S : f[l] = c
                       THEN [pc |-> "incr", link |-> CHOOSE l \in S : f[l] = c, at |-> page, all |-> TRUE]
                       ELSE call[c]]
    /\ UNCHANGED <<limiter, server, client>>

-----------------------------------------------------------------------------
(* enforce_user_limit.  Counts past the limit are alike.                   *)
To(c, pc) == call' = [call EXCEPT ![c].pc = pc]

Counted == IF counter > Limit THEN counter ELSE counter + 1

(* Fault: the expiry is set when the limit is passed.                      *)
StartsWindowLate(n) == n = Limit + 1

(* Fault: every call sets the expiry anew.                                 *)
StartsWindowAlways(n) == TRUE

(* count == 1                                                              *)
StartsWindow(n) == n = 1

Over(n) == n > Limit

(* The press ends with an error: 429, 409 or no answer.                    *)
Refused(c) == call' = [call EXCEPT ![c] = IF @.all THEN [@ EXCEPT !.pc = "settled"] ELSE Idle]

(* An INCR whose caller does not learn the count, so that no EXPIRE        *)
(* follows.                                                                *)
CountUnseen ==
    /\ counter' = Counted
    /\ broken' = (broken \/ counter = 0)

(* INCR is answered; past the limit the call is refused, with the key's    *)
(* TTL, or allowed when that command fails.                                *)
Incr(c) ==
    /\ call[c].pc = "incr"
    /\ counter' = Counted
    /\ \/ StartsWindow(counter') /\ To(c, "expire")
       \/ ~StartsWindow(counter') /\ ~Over(counter') /\ To(c, "body")
       \/ ~StartsWindow(counter') /\ Over(counter') /\ (Refused(c) \/ To(c, "body"))
    /\ UNCHANGED <<ttl, adrift, broken, server, client>>

(* INCR has no answer: Redis has run it, or may run it later.  The call is *)
(* allowed, the client library sends the command again, or the API process *)
(* has died.                                                               *)
IncrFails(c) ==
    /\ call[c].pc = "incr"
    /\ \/ CountUnseen /\ UNCHANGED adrift
       \/ adrift' = adrift \cup {"incr"} /\ UNCHANGED <<counter, broken>>
    /\ To(c, "body") \/ UNCHANGED call \/ Refused(c)
    /\ UNCHANGED <<ttl, server, client>>

(* EXPIRE, on the key if there still is one.                               *)
SetExpiry == ttl' = IF counter = 0 THEN 0 ELSE Window

(* Its caller is the first of the window, within the limit, and goes on    *)
(* whether it is answered or not.                                          *)
Expire(c) ==
    /\ call[c].pc = "expire"
    /\ \/ SetExpiry /\ UNCHANGED <<adrift, broken>>
       \/ adrift' = adrift \cup {"expire"} /\ broken' = (counter # 0) /\ UNCHANGED ttl
    /\ To(c, "body")
    /\ UNCHANGED <<counter, server, client>>

(* The API process dies in between: the press fails.                       *)
Crash(c) ==
    /\ call[c].pc = "expire"
    /\ broken' = (counter # 0)
    /\ Refused(c)
    /\ UNCHANGED <<counter, ttl, adrift, server, client>>

(* Redis runs a command whose caller has given it up.                      *)
LateIncr ==
    /\ "incr" \in adrift
    /\ adrift' = adrift \ {"incr"}
    /\ CountUnseen
    /\ UNCHANGED <<ttl, call, server, client>>

LateExpire ==
    /\ "expire" \in adrift
    /\ adrift' = adrift \ {"expire"}
    /\ SetExpiry
    /\ UNCHANGED <<counter, broken, call, server, client>>

(* A second passes; at the last one the key is gone.                       *)
Tick ==
    /\ ttl > 0
    /\ ttl' = ttl - 1
    /\ IF ttl = 1 THEN counter' = 0 /\ broken' = FALSE ELSE UNCHANGED <<counter, broken>>
    /\ UNCHANGED <<adrift, call, server, client>>

-----------------------------------------------------------------------------
(* Fault: the dashboard's button sets a timer too.                         *)
AcceptedEverywhere(c) ==
    call' = [call EXCEPT ![c] = IF @.all THEN [@ EXCEPT !.pc = "settled"] ELSE [pc |-> "timer", at |-> @.at]]

(* 202: only the account's own page sets a timer.                          *)
Accepted(c) ==
    call' = [call EXCEPT ![c] =
               CASE @.all -> [@ EXCEPT !.pc = "settled"]
                 [] ~@.all /\ @.at \in Links -> [pc |-> "timer", at |-> @.at]
                 [] ~@.all /\ @.at \notin Links -> Idle]

(* The rest of the handler: 409, or the request is published, if Kafka     *)
(* takes it.                                                               *)
Body(c) ==
    /\ call[c].pc = "body"
    /\ IF status[call[c].link] = "active"
       THEN /\ Accepted(c)
            /\ queued' \in {queued, queued \cup {call[c].link}}
       ELSE Refused(c) /\ UNCHANGED queued
    /\ UNCHANGED <<limiter, status, commits, last, client>>

(* allSettled: whatever the answers were, the page says that all are       *)
(* queued; the activity page sets its timer.                               *)
AllSettled ==
    LET All == {c \in Calls : Pending(c) /\ call[c].all} IN
    /\ All # {}
    /\ \A c \in All : call[c].pc = "settled"
    /\ \E c \in All : call' = [d \in Calls |->
                                 IF d \notin All THEN call[d]
                                 ELSE IF d = c /\ call[c].at = "activity" THEN [pc |-> "timer", at |-> "activity"]
                                 ELSE Idle]
    /\ UNCHANGED <<limiter, server, client>>

(* The worker: a sync commits with its outcome, or is put off or skipped.  *)
SyncRuns(l) ==
    /\ l \in queued
    /\ queued' = queued \ {l}
    /\ \/ /\ status[l] = "active"
          /\ commits < MaxCommits
          /\ commits' = commits + 1
          /\ last' = [last EXCEPT ![l] = commits + 1]
          /\ status' \in {status, [status EXCEPT ![l] = "needs_reauth"]}
       \/ UNCHANGED <<status, commits, last>>
    /\ UNCHANGED <<limiter, call, client>>

Relink(l) ==
    /\ status[l] = "needs_reauth"
    /\ status' = [status EXCEPT ![l] = "active"]
    /\ UNCHANGED <<limiter, call, queued, commits, last, client>>

-----------------------------------------------------------------------------
(* The keys the timer of a page invalidates.                               *)
Invalidates(at) ==
    IF at = "activity" THEN {<<"sync-activity">>}
    ELSE {<<"accounts">>} \cup ({"transactions"} \X {at})

(* Fault: an invalidation joins whatever fetch is running.                 *)
RefetchJoining == IF fetch.pc = "idle" THEN Asked ELSE fetch

(* invalidateQueries starts a fetch, in place of a running one if the      *)
(* entry has data; a first fetch it joins.                                 *)
Refetch == IF fetch.pc = "idle" \/ entry.loaded THEN Asked ELSE fetch

(* A first fetch that has read by now cannot show what follows.            *)
TooLate == fetch.pc = "read" /\ ~entry.loaded

(* What a page with a timer shows of its syncs: on an account's page the   *)
(* head (status, last synced) comes from the list of accounts.             *)
Shows(p) == IF p = "activity" THEN {<<"sync-activity">>} ELSE Reads(p)

(* The newest commit of the links a page's timer is about.                 *)
Newest(at) == IF at = "activity" THEN commits ELSE last[at]

(* The timer fires, whatever page is shown by now: a key the page reads is *)
(* fetched, another is only marked.                                        *)
TimerFires(c) ==
    /\ call[c].pc = "timer"
    /\ call' = [call EXCEPT ![c] = Idle]
    /\ LET at == call[c].at IN
         /\ IF key \in Invalidates(at)
            THEN /\ entry' = [entry EXCEPT !.invalid = TRUE]
                 /\ fetch' = IF Observed THEN Refetch ELSE fetch
            ELSE UNCHANGED <<entry, fetch>>
         /\ owed' = IF page = at /\ key \in Shows(at) /\ ~TooLate /\ Newest(at) > owed THEN Newest(at) ELSE owed
    /\ UNCHANGED <<limiter, server, page, key>>

(* A page mounts: it joins a running fetch, starts one when there is no    *)
(* data or it is invalid, and may start one when it is 10 s old.           *)
Navigate(p) ==
    /\ p # page
    /\ page' = p
    /\ IF key \in Reads(p) /\ fetch.pc = "idle"
       THEN \/ fetch' = Asked
            \/ ~entry.invalid /\ UNCHANGED fetch
       ELSE UNCHANGED fetch
    /\ UNCHANGED <<limiter, server, call, key, entry, owed>>

FetchRead ==
    /\ fetch.pc = "asked"
    /\ fetch' = [pc |-> "read", version |-> commits]
    /\ UNCHANGED <<limiter, server, call, page, key, entry, owed>>

FetchLands ==
    /\ fetch.pc = "read"
    /\ entry' = [version |-> fetch.version, invalid |-> FALSE, loaded |-> TRUE]
    /\ fetch' = NoFetch
    /\ UNCHANGED <<limiter, server, call, page, key, owed>>

(* Both tries failed: the old data stays, and the page does not claim more.*)
FetchFails ==
    /\ fetch.pc # "idle"
    /\ fetch' = NoFetch
    /\ owed' = entry.version
    /\ UNCHANGED <<limiter, server, call, page, key, entry>>

-----------------------------------------------------------------------------
Next ==
    \/ \E c \in Calls : \/ \E l \in Links : Sync(c, l)
                        \/ Incr(c) \/ IncrFails(c) \/ Expire(c) \/ Crash(c) \/ Body(c)
                        \/ TimerFires(c)
    \/ \E S \in SUBSET Links : S # {} /\ SyncAll(S)
    \/ AllSettled
    \/ LateIncr \/ LateExpire \/ Tick
    \/ \E l \in Links : SyncRuns(l) \/ Relink(l)
    \/ \E p \in Pages : Navigate(p)
    \/ FetchRead \/ FetchLands \/ FetchFails

(* Time passes, and a handler that has made the key sets its expiry, fails *)
(* to, or dies.  Nothing else has to happen.                               *)
Fairness == WF_vars(Tick) /\ \A c \in Calls : WF_vars(Expire(c) \/ Crash(c))

Spec == Init /\ [][Next]_vars
FairSpec == Spec /\ Fairness

-----------------------------------------------------------------------------
(* The kinds of values; a timer belongs to an account's page or to the     *)
(* activity page, the only ones that look again.                           *)
TypeOK ==
    /\ counter \in 0..Limit + 1
    /\ ttl \in 0..Window
    /\ adrift \subseteq {"incr", "expire"} /\ broken \in BOOLEAN
    /\ status \in [Links -> {"active", "needs_reauth"}]
    /\ call \in [Calls -> Call \cup Timer \cup {Idle}]
    /\ queued \subseteq Links
    /\ commits \in Versions
    /\ last \in [Links -> Versions]
    /\ page \in Pages
    /\ key \in Keys
    /\ entry \in Entry
    /\ fetch \in Fetch
    /\ owed \in Versions

(* A counter without an expiry, which would never be reset, is one whose   *)
(* EXPIRE is still to come, or whose making went unseen, or whose EXPIRE   *)
(* was given up or lost in a crash (ratelimit.py:82-88): no order of       *)
(* answered calls, late commands and ticks leaves one behind.              *)
ExpiryIsSet == counter > 0 /\ ttl = 0 => broken \/ \E c \in Calls : call[c].pc = "expire"

(* A user who is over the limit is let in again, however often the buttons *)
(* are pressed meanwhile and whatever commands run late, unless the key    *)
(* has no expiry because a command of its window failed.                   *)
RefusalsEnd == Over(counter) ~> ~Over(counter) \/ (broken /\ ttl = 0)

(* When the timer of a shown page fires, every sync committed by then is   *)
(* on the page as soon as nothing is being fetched, whatever fetches were  *)
(* under way, unless the timer met the entry's first fetch after it had    *)
(* read, or a fetch failed (AccountDetail.tsx:161-171).                    *)
FinishedIsShown == fetch.pc = "idle" => entry.version >= owed
=============================================================================
