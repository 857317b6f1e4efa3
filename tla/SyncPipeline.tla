---------------------------- MODULE SyncPipeline ----------------------------
(***************************************************************************)
(* The control plane: who asks for a sync, how the request travels over    *)
(* Kafka, and what a worker does with it.  Processes: the API (POST        *)
(* /accounts/{id}/sync), the scheduler, and the workers of one consumer    *)
(* group on the single partition an auto-created topic has.                *)
(*                                                                         *)
(* What a sync does to the tables is LinkSync's subject; here it has one   *)
(* of five outcomes.  backlog is the part of account-sync-requests the     *)
(* group has not committed, so a consumer that takes the partition over    *)
(* starts at its head.  Undecodable messages are left out: only the        *)
(* helpers of app/kafka_client.py write to the topic.                      *)
(***************************************************************************)
EXTENDS Naturals, Sequences, Functions

CONSTANTS
    Links,          \* linked_accounts rows
    Workers,        \* processes running app.worker
    MaxBacklog,     \* bound: length of the backlog the API and scheduler add to
    MaxCrashes,     \* bound: worker crashes
    MaxRebalances,  \* bound: times the partition moves between live workers
    MaxOutages,     \* bound: times Kafka becomes unreachable
    ColdStart,      \* may a process first use its producer while Kafka is down?
    Nobody          \* no worker owns the partition

ASSUME PipelineAssumption ==
    /\ MaxBacklog \in Nat /\ MaxCrashes \in Nat /\ MaxRebalances \in Nat /\ MaxOutages \in Nat
    /\ ColdStart \in BOOLEAN
    /\ Nobody \notin Workers
    /\ {"api", "scheduler"} \cap Workers = {}

VARIABLES
    status,     \* linked_accounts.status, or "gone" after an unlink
    due,        \* last_synced_at is null or older than sync_interval_seconds
    todo,       \* links the scheduler's current pass has still to enqueue
    backlog,    \* uncommitted requests: [link, handled], handled once attempted
                \* or skipped (history, read by the properties only)
    owner,      \* the worker the partition is assigned to
    worker,     \* worker[w]: where it is, on what
    brokerUp,
    producer,   \* the module global _producer of each process
    crashes, rebalances, outages

vars == <<status, due, todo, backlog, owner, worker, brokerUp, producer, crashes, rebalances, outages>>

-----------------------------------------------------------------------------
Clients == {"api", "scheduler"} \cup Workers
WorkerPC == {"down", "polling", "syncing", "publishing", "sleeping", "committing"}
Outcomes == {"success", "failed", "rejected", "rate_limited", "exception"}

(* held: Kafka still takes w's commit of the message it has read, which it *)
(* does until it assigns the partition again.                              *)
WorkerState == [pc : WorkerPC, link : Links \cup {Nobody}, held : BOOLEAN, limited : BOOLEAN]
Polling == [pc |-> "polling", link |-> Nobody, held |-> FALSE, limited |-> FALSE]
Down    == [Polling EXCEPT !.pc = "down"]

Request(l) == [link |-> l, handled |-> FALSE]

Init ==
    /\ status \in [Links -> {"active"}]
    /\ due \in [Links -> BOOLEAN]
    /\ todo = {}
    /\ backlog = <<>>
    /\ owner = Nobody
    /\ worker = [w \in Workers |-> Polling]
    /\ brokerUp = (~ColdStart)
    /\ producer = [c \in Clients |-> "none"]
    /\ crashes = 0
    /\ rebalances = 0
    /\ outages = 0

(* get_producer assigns the global before start(): a start that fails      *)
(* leaves a producer that is never started and never replaced.             *)
ProducerAfter(c) ==
    IF producer[c] = "none" THEN (IF brokerUp THEN "started" ELSE "broken") ELSE producer[c]

(* publish: TRUE and appended, or FALSE and nothing.                       *)
Delivered(c) == brokerUp /\ ProducerAfter(c) = "started"
UseProducer(c) == producer' = [producer EXCEPT ![c] = ProducerAfter(c)]

EnqueueSync(c, l) ==
    /\ UseProducer(c)
    /\ backlog' = IF Delivered(c) THEN Append(backlog, Request(l)) ELSE backlog

-----------------------------------------------------------------------------
(* POST /accounts/{id}/sync: 404 when unlinked, 409 when it needs          *)
(* re-authentication, otherwise 202 whether or not the enqueue went out.   *)
SyncAccount(l) ==
    /\ status[l] = "active"
    /\ Len(backlog) < MaxBacklog
    /\ EnqueueSync("api", l)
    /\ UNCHANGED <<status, due, todo, owner, worker, brokerUp, crashes, rebalances, outages>>

(* Fault: the comparison of last_synced_at with the cutoff is reversed.    *)
FreshLinks == {l \in Links : status[l] = "active" /\ ~due[l]}

DueLinks == {l \in Links : status[l] = "active" /\ due[l]}

(* One pass: the due links are read at once and enqueued one by one.       *)
BeginPass ==
    /\ todo = {}
    /\ todo' = DueLinks
    /\ UNCHANGED <<status, due, backlog, owner, worker, brokerUp, producer, crashes, rebalances, outages>>

EnqueueDue(l) ==
    /\ l \in todo
    /\ Len(backlog) < MaxBacklog
    /\ EnqueueSync("scheduler", l)
    /\ todo' = todo \ {l}
    /\ UNCHANGED <<status, due, owner, worker, brokerUp, crashes, rebalances, outages>>

-----------------------------------------------------------------------------
(* The worker.                                                             *)

(* The request w read has been attempted; it is the head of what w owns.   *)
MarkHandled(w) ==
    backlog' = IF worker[w].held THEN [backlog EXCEPT ![1].handled = TRUE] ELSE backlog

(* Fault: a link synced meanwhile is skipped too.                          *)
ReceiveIfDue(w) ==
    /\ worker[w].pc = "polling"
    /\ owner = w
    /\ brokerUp
    /\ backlog # <<>>
    /\ LET l == Head(backlog).link IN
         worker' = [worker EXCEPT ![w] =
                      [pc |-> IF status[l] = "active" /\ due[l] THEN "syncing" ELSE "committing",
                       link |-> l, held |-> TRUE, limited |-> FALSE]]
    /\ UNCHANGED <<status, due, todo, backlog, owner, brokerUp, producer, crashes, rebalances, outages>>

(* Reads the next message and looks the link up: a link that is gone or    *)
(* needs re-authentication is skipped.                                     *)
Receive(w) ==
    /\ worker[w].pc = "polling"
    /\ owner = w
    /\ brokerUp
    /\ backlog # <<>>
    /\ LET l == Head(backlog).link
           skip == status[l] # "active"
       IN /\ worker' = [worker EXCEPT ![w] =
                          [pc |-> IF skip THEN "committing" ELSE "syncing",
                           link |-> l, held |-> TRUE, limited |-> FALSE]]
          /\ backlog' = IF skip THEN [backlog EXCEPT ![1].handled = TRUE] ELSE backlog
    /\ UNCHANGED <<status, due, todo, owner, brokerUp, producer, crashes, rebalances, outages>>

(* Fault: the outcome of the attempt is written to the link's status.      *)
OutcomeOnLink(w, outcome) ==
    /\ worker[w].pc = "syncing"
    /\ status' = [status EXCEPT ![worker[w].link] = outcome]
    /\ worker' = [worker EXCEPT ![w].pc = "publishing"]
    /\ MarkHandled(w)
    /\ UNCHANGED <<due, todo, owner, brokerUp, producer, crashes, rebalances, outages>>

(* sync_linked_account returns, or raises (always when the link is gone).  *)
SyncEnds(w, outcome) ==
    /\ worker[w].pc = "syncing"
    /\ LET l == worker[w].link IN
         /\ status[l] = "gone" => outcome = "exception"
         /\ due' = IF outcome = "success" THEN [due EXCEPT ![l] = FALSE] ELSE due
         /\ status' = IF outcome = "rejected" THEN [status EXCEPT ![l] = "needs_reauth"] ELSE status
    /\ worker' = [worker EXCEPT ![w].pc = IF outcome = "exception" THEN "committing" ELSE "publishing",
                                ![w].limited = (outcome = "rate_limited")]
    /\ MarkHandled(w)
    /\ UNCHANGED <<todo, owner, brokerUp, producer, crashes, rebalances, outages>>

(* The result event is best effort.  A rate-limited request is kept for a  *)
(* requeue after a sleep.                                                  *)
PublishResult(w) ==
    /\ worker[w].pc = "publishing"
    /\ UseProducer(w)
    /\ worker' = [worker EXCEPT ![w].pc = IF worker[w].limited THEN "sleeping" ELSE "committing"]
    /\ UNCHANGED <<status, due, todo, backlog, owner, brokerUp, crashes, rebalances, outages>>

Requeue(w) ==
    /\ worker[w].pc = "sleeping"
    /\ EnqueueSync(w, worker[w].link)
    /\ worker' = [worker EXCEPT ![w].pc = "committing"]
    /\ UNCHANGED <<status, due, todo, owner, brokerUp, crashes, rebalances, outages>>

(* Fault: the commit does not notice that the partition was taken away.    *)
CommitRegardless(w) ==
    /\ worker[w].pc = "committing"
    /\ brokerUp
    /\ backlog # <<>>
    /\ backlog' = Tail(backlog)
    /\ worker' = [worker EXCEPT ![w] = Polling]
    /\ UNCHANGED <<status, due, todo, owner, brokerUp, producer, crashes, rebalances, outages>>

(* consumer.commit() moves the group past the message if the partition is  *)
(* still w's.  If it is not, it commits nothing or raises; it is outside   *)
(* the try, so raising ends the worker's loop, as it does with Kafka down. *)
Commit(w) ==
    /\ worker[w].pc = "committing"
    /\ \/ /\ worker[w].held /\ brokerUp
          /\ backlog' = Tail(backlog)
          /\ worker' = [worker EXCEPT ![w] = Polling]
          /\ UNCHANGED owner
       \/ /\ ~worker[w].held
          /\ worker' = [worker EXCEPT ![w] = Polling]
          /\ UNCHANGED <<backlog, owner>>
       \/ /\ ~worker[w].held \/ ~brokerUp
          /\ worker' = [worker EXCEPT ![w] = Down]
          /\ owner' = IF owner = w THEN Nobody ELSE owner
          /\ UNCHANGED backlog
    /\ UNCHANGED <<status, due, todo, brokerUp, producer, crashes, rebalances, outages>>

Crash(w) ==
    /\ worker[w].pc # "down"
    /\ crashes < MaxCrashes
    /\ crashes' = crashes + 1
    /\ worker' = [worker EXCEPT ![w] = Down]
    /\ owner' = IF owner = w THEN Nobody ELSE owner
    /\ UNCHANGED <<status, due, todo, backlog, brokerUp, producer, rebalances, outages>>

(* The process is started again, with a producer not created yet.          *)
Restart(w) ==
    /\ worker[w].pc = "down"
    /\ brokerUp
    /\ worker' = [worker EXCEPT ![w] = Polling]
    /\ producer' = [producer EXCEPT ![w] = "none"]
    /\ UNCHANGED <<status, due, todo, backlog, owner, brokerUp, crashes, rebalances, outages>>

-----------------------------------------------------------------------------
(* Kafka's consumer group.                                                 *)

(* The partition goes to w, and the group starts over at the head of the   *)
(* backlog.  The worker that was reading goes on with its message, which   *)
(* nothing in app/worker.py tells it to drop; only its commit will fail,   *)
(* because Kafka refuses one of an earlier generation (held is then FALSE).*)
AssignTo(w) ==
    /\ owner' = w
    /\ worker' = [v \in Workers |-> [worker[v] EXCEPT !.held = FALSE]]

Assign(w) ==
    /\ brokerUp
    /\ owner = Nobody
    /\ worker[w].pc # "down"
    /\ AssignTo(w)
    /\ UNCHANGED <<status, due, todo, backlog, brokerUp, producer, crashes, rebalances, outages>>

(* A worker joins, or a sync outlasts max.poll.interval.                   *)
Rebalance(w) ==
    /\ brokerUp
    /\ owner # Nobody
    /\ worker[w].pc # "down"
    /\ rebalances < MaxRebalances
    /\ rebalances' = rebalances + 1
    /\ AssignTo(w)
    /\ UNCHANGED <<status, due, todo, backlog, brokerUp, producer, crashes, outages>>

(* Kafka is briefly unreachable.  Without ColdStart the scheduler's        *)
(* producer is started before that happens.                                *)
BrokerDown ==
    /\ brokerUp
    /\ ColdStart \/ producer["scheduler"] = "started"
    /\ outages < MaxOutages
    /\ outages' = outages + 1
    /\ brokerUp' = FALSE
    /\ UNCHANGED <<status, due, todo, backlog, owner, worker, producer, crashes, rebalances>>

BrokerBack ==
    /\ ~brokerUp
    /\ brokerUp' = TRUE
    /\ UNCHANGED <<status, due, todo, backlog, owner, worker, producer, crashes, rebalances, outages>>

(* Time, and the user.                                                     *)
FallDue(l) ==
    /\ ~due[l]
    /\ due' = [due EXCEPT ![l] = TRUE]
    /\ UNCHANGED <<status, todo, backlog, owner, worker, brokerUp, producer, crashes, rebalances, outages>>

(* A re-link runs an initial sync of its own, which may succeed.           *)
Relink(l) ==
    /\ status[l] = "needs_reauth"
    /\ status' = [status EXCEPT ![l] = "active"]
    /\ \E d \in BOOLEAN : due' = [due EXCEPT ![l] = d]
    /\ UNCHANGED <<todo, backlog, owner, worker, brokerUp, producer, crashes, rebalances, outages>>

Unlink(l) ==
    /\ status[l] # "gone"
    /\ ~\E w \in Workers : worker[w].pc = "syncing" /\ worker[w].link = l
    /\ status' = [status EXCEPT ![l] = "gone"]
    /\ UNCHANGED <<due, todo, backlog, owner, worker, brokerUp, producer, crashes, rebalances, outages>>

-----------------------------------------------------------------------------
SchedulerStep == BeginPass \/ \E l \in Links : EnqueueDue(l)

WorkerStep(w) ==
    \/ Receive(w)
    \/ \E outcome \in Outcomes : SyncEnds(w, outcome)
    \/ PublishResult(w) \/ Requeue(w) \/ Commit(w) \/ Restart(w)

GroupStep == \E w \in Workers : Assign(w)

Next ==
    \/ SchedulerStep
    \/ GroupStep
    \/ \E w \in Workers : WorkerStep(w) \/ Crash(w) \/ Rebalance(w)
    \/ BrokerDown \/ BrokerBack
    \/ \E l \in Links : SyncAccount(l) \/ FallDue(l) \/ Relink(l) \/ Unlink(l)

Spec == Init /\ [][Next]_vars

(* The scheduler keeps polling and serves every due link of a pass, a      *)
(* worker goes on with what it has (every await ends) and is started again *)
(* after it died, and Kafka assigns an orphaned partition.  Nothing is     *)
(* assumed of the user, of crashes or of the broker.                       *)
Fairness ==
    /\ WF_vars(BeginPass)
    /\ \A l \in Links : WF_vars(EnqueueDue(l))
    /\ \A w \in Workers : WF_vars(WorkerStep(w))
    /\ WF_vars(GroupStep)

FairSpec == Spec /\ Fairness

-----------------------------------------------------------------------------
(* Every variable has its type; only a requeue exceeds MaxBacklog.         *)
TypeOK ==
    /\ status \in [Links -> {"active", "needs_reauth", "gone"}]
    /\ due \in [Links -> BOOLEAN]
    /\ todo \subseteq Links
    /\ backlog \in Seq([link : Links, handled : BOOLEAN])
    /\ owner \in Workers \cup {Nobody}
    /\ worker \in [Workers -> WorkerState]
    /\ brokerUp \in BOOLEAN
    /\ producer \in [Clients -> {"none", "started", "broken"}]
    /\ crashes \in 0 .. MaxCrashes
    /\ rebalances \in 0 .. MaxRebalances
    /\ outages \in 0 .. MaxOutages

(* At least once: the group's offset moves past a request only when an     *)
(* attempt at it has ended, whatever crashes and rebalances intervene.     *)
NothingDropped ==
    [][Len(backlog') < Len(backlog) => Head(backlog).handled /\ backlog' = Tail(backlog)]_vars

Waiting(l)    == [link |-> l, handled |-> FALSE] \in Range(backlog)
Attempting(l) == \E w \in Workers : worker[w].pc = "syncing" /\ worker[w].link = l

(* A link that is due and active is attempted, if Kafka eventually stays   *)
(* up: "losing an enqueue is harmless, the account is simply picked up on  *)
(* the next pass" (app/scheduler.py).                                      *)
DueIsAttempted ==
    <>[]brokerUp => \A l \in Links :
      (due[l] /\ status[l] = "active") ~> (Attempting(l) \/ ~due[l] \/ status[l] # "active")

(* A request on the topic is attempted, or its link has stopped being      *)
(* active: no crash, rebalance or lost commit loses it.                    *)
QueuedIsAttempted ==
    <>[]brokerUp => \A l \in Links :
      Waiting(l) ~> (Attempting(l) \/ status[l] # "active")
=============================================================================
