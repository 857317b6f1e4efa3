------------------------- MODULE SyncPipelineProofs -------------------------
(***************************************************************************)
(* At-least-once delivery, for any links, workers and bounds:              *)
(* NothingDropped.                                                         *)
(*                                                                         *)
(* The inductive invariant says what a worker whose commit Kafka takes is  *)
(* about to commit (Holding): the request at the head of the backlog,      *)
(* which is marked as attempted by the time the worker goes to commit.     *)
(***************************************************************************)
EXTENDS SyncPipeline, SequenceTheorems, TLAPS

Req == [link : Links, handled : BOOLEAN]

Attempted == {"publishing", "sleeping", "committing"}

(* A worker that still holds the partition owns it, and is on its head.    *)
Holding ==
    \A w \in Workers : worker[w].held =>
        /\ owner = w
        /\ backlog # << >>
        /\ worker[w].pc \in {"syncing"} \cup Attempted
        /\ worker[w].pc \in Attempted => Head(backlog).handled

(* A worker that has read a message works on a link.                       *)
OnALink ==
    \A w \in Workers : worker[w].pc \in {"syncing"} \cup Attempted => worker[w].link \in Links

Inv == TypeOK /\ Holding /\ OnALink

-----------------------------------------------------------------------------
(* The backlog as a sequence.                                              *)

(* A request appended to a backlog leaves its head alone.                  *)
LEMMA Appended ==
    ASSUME NEW s \in Seq(Req), NEW l \in Links
    PROVE  /\ Append(s, Request(l)) \in Seq(Req)
           /\ Append(s, Request(l)) # << >>
           /\ Len(Append(s, Request(l))) = Len(s) + 1
           /\ s # << >> => Head(Append(s, Request(l))) = Head(s)
  <1>1. Request(l) \in Req
    BY DEF Request, Req
  <1> QED
    BY <1>1, AppendProperties, HeadTailAppend

(* Marking the head changes nothing else.                                  *)
LEMMA Marked ==
    ASSUME NEW s \in Seq(Req), s # << >>
    PROVE  LET t == [s EXCEPT ![1].handled = TRUE]
           IN /\ t \in Seq(Req) /\ t # << >> /\ Len(t) = Len(s)
              /\ Head(t).handled
  <1> DEFINE h == [s[1] EXCEPT !.handled = TRUE]
  <1>1. 1 \in 1 .. Len(s) /\ s[1] \in Req
    BY EmptySeq, ElementOfSeq
  <1>2. h \in Req /\ h.handled
    BY <1>1 DEF Req
  <1>4. [s EXCEPT ![1].handled = TRUE] = [s EXCEPT ![1] = h]
    OBVIOUS
  <1> DEFINE t == [s EXCEPT ![1] = h]
  <1>5. t \in Seq(Req) /\ Len(t) = Len(s) /\ t[1] = h
    <2>1. h \in Req
      BY <1>2
    <2> HIDE DEF h
    <2> QED
      BY <1>1, <2>1, ExceptSeq
  <1>6. t # << >> /\ Head(t) = t[1]
    <2> HIDE DEF t
    <2> QED
      BY <1>1, <1>5, EmptySeq
  <1> QED
    BY <1>2, <1>4, <1>5, <1>6

-----------------------------------------------------------------------------
(* The shape of the steps.                                                 *)

(* A worker that moves on with what it has, and holds it no longer or as   *)
(* before.                                                                 *)
LEMMA WorkerMoves ==
    ASSUME Inv, NEW w \in Workers, NEW s \in WorkerState,
           worker' = [worker EXCEPT ![w] = s],
           s.pc \in {"syncing"} \cup Attempted => s.link \in Links,
           UNCHANGED <<status, due, todo, brokerUp, crashes, rebalances, outages>>,
           producer' \in [Clients -> {"none", "started", "broken"}],
           owner' \in Workers \cup {Nobody},
           backlog' \in Seq(Req),
           \A v \in Workers \ {w} : worker[v].held =>
               owner' = v /\ backlog' # << >> /\ Head(backlog').handled = Head(backlog).handled,
           s.held =>
               /\ owner' = w /\ backlog' # << >>
               /\ s.pc \in {"syncing"} \cup Attempted
               /\ s.pc \in Attempted => Head(backlog').handled
    PROVE  Inv'
  <1>1. worker' \in [Workers -> WorkerState]
    BY DEF Inv, TypeOK
  <1>2. \A v \in Workers : worker'[v] = IF v = w THEN s ELSE worker[v]
    BY DEF Inv, TypeOK
  <1>3. TypeOK'
    BY <1>1 DEF Inv, TypeOK, Req
  <1>4. Holding'
    <2> SUFFICES ASSUME NEW v \in Workers, worker'[v].held
                 PROVE  /\ owner' = v /\ backlog' # << >>
                        /\ worker'[v].pc \in {"syncing"} \cup Attempted
                        /\ worker'[v].pc \in Attempted => Head(backlog').handled
      BY DEF Holding
    <2> QED
      BY <1>2 DEF Inv, Holding
  <1>5. OnALink'
    BY <1>2 DEF Inv, OnALink
  <1> QED
    BY <1>3, <1>4, <1>5 DEF Inv

(* Someone else's step: the workers stay, the head of the backlog stays.   *)
LEMMA OthersMove ==
    ASSUME Inv, UNCHANGED <<owner, worker>>,
           status' \in [Links -> {"active", "needs_reauth", "gone"}],
           due' \in [Links -> BOOLEAN],
           todo' \subseteq Links,
           brokerUp' \in BOOLEAN,
           producer' \in [Clients -> {"none", "started", "broken"}],
           crashes' = crashes, rebalances' = rebalances, outages' \in 0 .. MaxOutages,
           backlog' \in Seq(Req),
           backlog # << >> => backlog' # << >> /\ Head(backlog').handled = Head(backlog).handled
    PROVE  Inv'
  <1>1. TypeOK'
    BY DEF Inv, TypeOK, Req
  <1>2. Holding' /\ OnALink'
    BY DEF Inv, Holding, OnALink
  <1> QED
    BY <1>1, <1>2 DEF Inv

(* A producer is used: its state is one of the three.                      *)
LEMMA ProducerTyped ==
    ASSUME Inv, NEW c \in Clients, UseProducer(c)
    PROVE  producer' \in [Clients -> {"none", "started", "broken"}]
  BY DEF Inv, TypeOK, UseProducer, ProducerAfter

(* An enqueue keeps the head.                                              *)
LEMMA EnqueueKeepsHead ==
    ASSUME Inv, NEW c \in Clients, NEW l \in Links, EnqueueSync(c, l)
    PROVE  /\ producer' \in [Clients -> {"none", "started", "broken"}]
           /\ backlog' \in Seq(Req) /\ Len(backlog') >= Len(backlog)
           /\ backlog # << >> =>
                backlog' # << >> /\ Head(backlog').handled = Head(backlog).handled
  <1>1. backlog \in Seq(Req)
    BY DEF Inv, TypeOK, Req
  <1>2. producer' \in [Clients -> {"none", "started", "broken"}]
    BY ProducerTyped DEF EnqueueSync
  <1>3. backlog' = backlog \/ backlog' = Append(backlog, Request(l))
    BY DEF EnqueueSync
  <1> QED
    BY <1>1, <1>2, <1>3, Appended

(* MarkHandled keeps a held head, and marks it.                            *)
LEMMA HeadMarked ==
    ASSUME Inv, NEW w \in Workers, MarkHandled(w)
    PROVE  /\ backlog' \in Seq(Req) /\ Len(backlog') = Len(backlog)
           /\ worker[w].held => backlog' # << >> /\ Head(backlog').handled
           /\ ~worker[w].held => backlog' = backlog
  <1>1. backlog \in Seq(Req)
    BY DEF Inv, TypeOK, Req
  <1>2. CASE ~worker[w].held
    BY <1>1, <1>2 DEF MarkHandled
  <1>3. CASE worker[w].held
    <2>1. backlog # << >>
      BY <1>3 DEF Inv, Holding
    <2>2. backlog' = [backlog EXCEPT ![1].handled = TRUE]
      BY <1>3 DEF MarkHandled
    <2> QED
      BY <1>1, <1>3, <2>1, <2>2, Marked
  <1> QED
    BY <1>2, <1>3

(* No two workers may have their commits taken.                            *)
LEMMA HolderAlone ==
    ASSUME Inv, NEW w \in Workers, NEW v \in Workers \ {w}, worker[v].held
    PROVE  owner = v /\ ~worker[w].held /\ backlog # << >>
  BY DEF Inv, Holding

-----------------------------------------------------------------------------
(* The worker's steps.                                                     *)

(* Reading a message: the reader owns the partition, so nobody else holds  *)
(* it, and a skipped request is marked.                                    *)
LEMMA ReceiveInv ==
    ASSUME Inv, NEW w \in Workers, Receive(w)
    PROVE  Inv'
  <1> DEFINE skip == status[Head(backlog).link] # "active"
             s == [pc |-> IF skip THEN "committing" ELSE "syncing",
                   link |-> Head(backlog).link, held |-> TRUE, limited |-> FALSE]
  <1>1. backlog \in Seq(Req) /\ backlog # << >> /\ Head(backlog) \in Req
    BY HeadTailProperties DEF Receive, Inv, TypeOK, Req
  <1>2. s.link \in Links /\ s \in WorkerState
    BY <1>1 DEF Req, WorkerState, WorkerPC
  <1>3. /\ worker' = [worker EXCEPT ![w] = s]
        /\ backlog' = IF skip THEN [backlog EXCEPT ![1].handled = TRUE] ELSE backlog
        /\ owner = w /\ owner' = owner /\ producer' = producer
        /\ UNCHANGED <<status, due, todo, brokerUp, crashes, rebalances, outages>>
    BY DEF Receive
  <1>4. /\ backlog' \in Seq(Req) /\ backlog' # << >>
        /\ skip => Head(backlog').handled
    BY <1>1, <1>3, Marked
  <1>5. \A v \in Workers \ {w} : ~worker[v].held
    BY <1>3 DEF Inv, Holding
  <1>6. s.pc \in Attempted => skip
    BY DEF Attempted
  <1>7. s.pc \in {"syncing"} \cup Attempted
    BY DEF Attempted
  <1>8. producer' \in [Clients -> {"none", "started", "broken"}] /\ owner' \in Workers \cup {Nobody}
    BY <1>3 DEF Inv, TypeOK
  <1> HIDE DEF s, skip
  <1> QED
    BY <1>2, <1>3, <1>4, <1>5, <1>6, <1>7, <1>8, WorkerMoves

(* An attempt ends: the head is marked before the worker may commit it.    *)
LEMMA SyncEndsInv ==
    ASSUME Inv, NEW w \in Workers, NEW outcome \in Outcomes, SyncEnds(w, outcome)
    PROVE  Inv'
  <1> DEFINE s == [worker[w] EXCEPT
                     !.pc = IF outcome = "exception" THEN "committing" ELSE "publishing",
                     !.limited = (outcome = "rate_limited")]
  <1>1. worker[w] \in WorkerState /\ worker[w].link \in Links
    BY DEF SyncEnds, Inv, TypeOK, OnALink
  <1>2. /\ s \in WorkerState /\ s.pc \in Attempted /\ s.link = worker[w].link
        /\ s.held = worker[w].held
    BY <1>1 DEF WorkerState, WorkerPC, Attempted
  <1>3. /\ worker' = [worker EXCEPT ![w] = s]
        /\ UNCHANGED <<todo, owner, brokerUp, producer, crashes, rebalances, outages>>
        /\ MarkHandled(w)
    BY DEF SyncEnds
  <1>4. /\ status' \in [Links -> {"active", "needs_reauth", "gone"}]
        /\ due' \in [Links -> BOOLEAN]
    BY DEF SyncEnds, Inv, TypeOK
  <1>5. worker' \in [Workers -> WorkerState] /\ \A v \in Workers : worker'[v] = IF v = w THEN s ELSE worker[v]
    BY <1>2, <1>3 DEF Inv, TypeOK
  <1>6. TypeOK'
    BY <1>3, <1>4, <1>5, HeadMarked DEF Inv, TypeOK, Req
  <1> HIDE DEF s
  <1>7. Holding'
    <2> SUFFICES ASSUME NEW v \in Workers, worker'[v].held
                 PROVE  /\ owner' = v /\ backlog' # << >>
                        /\ worker'[v].pc \in {"syncing"} \cup Attempted
                        /\ worker'[v].pc \in Attempted => Head(backlog').handled
      BY DEF Holding
    <2>1. CASE v = w
      BY <1>2, <1>3, <1>5, <2>1, HeadMarked DEF Inv, Holding
    <2>2. CASE v # w
      <3>1. worker'[v] = worker[v]
        BY <1>5, <2>2
      <3>2. backlog' = backlog
        BY <1>3, <2>2, <3>1, HolderAlone, HeadMarked
      <3> QED
        BY <1>3, <3>1, <3>2 DEF Inv, Holding
    <2> QED
      BY <2>1, <2>2
  <1>8. OnALink'
    BY <1>1, <1>2, <1>5 DEF Inv, OnALink
  <1> QED
    BY <1>6, <1>7, <1>8 DEF Inv

(* The result event and the requeue: an append never touches the head.     *)
LEMMA PublishRequeueInv ==
    ASSUME Inv, NEW w \in Workers, PublishResult(w) \/ Requeue(w)
    PROVE  Inv'
  <1>1. PICK phase \in {"sleeping", "committing"} :
            worker' = [worker EXCEPT ![w] = [worker[w] EXCEPT !.pc = phase]]
    BY DEF PublishResult, Requeue
  <1> DEFINE s == [worker[w] EXCEPT !.pc = phase]
  <1>2. worker[w] \in WorkerState /\ worker[w].pc \in Attempted /\ worker[w].link \in Links
    BY DEF PublishResult, Requeue, Attempted, Inv, TypeOK, OnALink
  <1>3. /\ s \in WorkerState /\ s.pc \in Attempted /\ s.link \in Links
        /\ s.held = worker[w].held
    BY <1>2 DEF WorkerState, WorkerPC, Attempted
  <1>4. /\ producer' \in [Clients -> {"none", "started", "broken"}]
        /\ backlog' \in Seq(Req)
        /\ backlog # << >> => backlog' # << >> /\ Head(backlog').handled = Head(backlog).handled
    <2>1. w \in Clients
      BY DEF Clients
    <2>2. CASE PublishResult(w)
      BY <2>1, <2>2, ProducerTyped DEF PublishResult, Inv, TypeOK, Req
    <2>3. CASE Requeue(w)
      BY <1>2, <2>1, <2>3, EnqueueKeepsHead DEF Requeue
    <2> QED
      BY <2>2, <2>3
  <1>5. UNCHANGED <<status, due, todo, owner, brokerUp, crashes, rebalances, outages>>
    BY DEF PublishResult, Requeue
  <1>6. owner' \in Workers \cup {Nobody}
    BY <1>5 DEF Inv, TypeOK
  <1>7. \A v \in Workers \ {w} : worker[v].held =>
            owner' = v /\ backlog' # << >> /\ Head(backlog').handled = Head(backlog).handled
    BY <1>4, <1>5, HolderAlone
  <1>8. worker[w].held => owner = w /\ backlog # << >> /\ Head(backlog).handled
    BY <1>2 DEF Inv, Holding
  <1> HIDE DEF s
  <1> QED
    BY <1>1, <1>3, <1>4, <1>5, <1>6, <1>7, <1>8, WorkerMoves DEF s

(* The commit: a worker lets go of what it held.                           *)
LEMMA CommitInv ==
    ASSUME Inv, NEW w \in Workers, Commit(w)
    PROVE  Inv'
  <1>1. PICK s \in {Polling, Down} : worker' = [worker EXCEPT ![w] = s]
    BY DEF Commit
  <1>2. s \in WorkerState /\ ~s.held /\ s.pc \notin {"syncing"} \cup Attempted
    <2>1. CASE s = Polling
      BY <2>1 DEF Polling, WorkerState, WorkerPC, Attempted
    <2>2. CASE s = Down
      BY <2>2 DEF Polling, Down, WorkerState, WorkerPC, Attempted
    <2> QED
      BY <2>1, <2>2
  <1>3. /\ UNCHANGED <<status, due, todo, brokerUp, producer, crashes, rebalances, outages>>
        /\ owner' \in Workers \cup {Nobody}
        /\ producer' \in [Clients -> {"none", "started", "broken"}]
    BY DEF Commit, Inv, TypeOK
  <1>4. backlog \in Seq(Req)
    BY DEF Inv, TypeOK, Req
  <1>5. CASE worker[w].held
    <2>1. backlog # << >> /\ owner = w
      BY <1>5 DEF Inv, Holding
    <2>2. backlog' \in Seq(Req)
      BY <1>4, <1>5, <2>1, HeadTailProperties DEF Commit
    <2>3. \A v \in Workers \ {w} : ~worker[v].held
      BY <1>5 DEF Inv, Holding
    <2> QED
      BY <1>1, <1>2, <1>3, <2>2, <2>3, WorkerMoves
  <1>6. CASE ~worker[w].held
    <2>1. backlog' = backlog
      BY <1>6 DEF Commit
    <2>2. \A v \in Workers \ {w} : worker[v].held => owner = v /\ owner' = v /\ backlog # << >>
      BY <1>6, HolderAlone DEF Commit
    <2> QED
      BY <1>1, <1>2, <1>3, <1>4, <2>1, <2>2, WorkerMoves
  <1> QED
    BY <1>5, <1>6

(* A crash lets go of the partition; a restarted worker holds nothing and  *)
(* has a producer still to create.                                         *)
LEMMA CrashRestartInv ==
    ASSUME Inv, NEW w \in Workers, Crash(w) \/ Restart(w)
    PROVE  Inv'
  <1>1. PICK s \in {Polling, Down} : worker' = [worker EXCEPT ![w] = s]
    BY DEF Crash, Restart
  <1>2. s \in WorkerState /\ ~s.held /\ s.pc \notin {"syncing"} \cup Attempted
    <2>1. CASE s = Polling
      BY <2>1 DEF Polling, WorkerState, WorkerPC, Attempted
    <2>2. CASE s = Down
      BY <2>2 DEF Polling, Down, WorkerState, WorkerPC, Attempted
    <2> QED
      BY <2>1, <2>2
  <1>3. worker' \in [Workers -> WorkerState]
        /\ \A v \in Workers : worker'[v] = IF v = w THEN s ELSE worker[v]
    BY <1>1, <1>2 DEF Inv, TypeOK
  <1>4. /\ UNCHANGED <<status, due, todo, backlog, brokerUp, rebalances, outages>>
        /\ owner' \in Workers \cup {Nobody}
        /\ producer' \in [Clients -> {"none", "started", "broken"}]
        /\ crashes' \in 0 .. MaxCrashes
    <2>1. CASE Crash(w)
      BY <2>1, PipelineAssumption DEF Crash, Inv, TypeOK
    <2>2. CASE Restart(w)
      BY <2>2 DEF Restart, Inv, TypeOK
    <2> QED
      BY <2>1, <2>2
  <1>5. TypeOK'
    BY <1>3, <1>4 DEF Inv, TypeOK
  <1>6. \A v \in Workers : owner = v /\ v # w => owner' = v
    BY DEF Crash, Restart
  <1>7. Holding'
    BY <1>2, <1>3, <1>4, <1>6 DEF Inv, Holding
  <1>8. OnALink'
    BY <1>2, <1>3 DEF Inv, OnALink
  <1> QED
    BY <1>5, <1>7, <1>8 DEF Inv

(* An assignment: nobody holds the partition until its new owner reads.    *)
LEMMA AssignInv ==
    ASSUME Inv, NEW w \in Workers, Assign(w) \/ Rebalance(w)
    PROVE  Inv'
  <1>1. /\ owner' = w
        /\ worker' = [v \in Workers |-> [worker[v] EXCEPT !.held = FALSE]]
        /\ UNCHANGED <<status, due, todo, backlog, brokerUp, producer, crashes, outages>>
    BY DEF Assign, Rebalance, AssignTo
  <1>2. rebalances' \in 0 .. MaxRebalances
    BY PipelineAssumption DEF Assign, Rebalance, Inv, TypeOK
  <1>3. ASSUME NEW v \in Workers
        PROVE  /\ worker'[v] \in WorkerState /\ ~worker'[v].held
               /\ worker'[v].pc = worker[v].pc /\ worker'[v].link = worker[v].link
    <2>1. worker[v] \in WorkerState
      BY DEF Inv, TypeOK
    <2>2. worker'[v] = [worker[v] EXCEPT !.held = FALSE]
      BY <1>1
    <2> QED
      BY <2>1, <2>2 DEF WorkerState
  <1>4. worker' \in [Workers -> WorkerState]
    BY <1>1, <1>3
  <1>5. TypeOK'
    BY <1>1, <1>2, <1>4 DEF Inv, TypeOK
  <1>6. Holding' /\ OnALink'
    BY <1>3 DEF Inv, Holding, OnALink
  <1> QED
    BY <1>5, <1>6 DEF Inv

-----------------------------------------------------------------------------
(* Everybody else's steps.                                                 *)

(* The API and the scheduler append; the broker, time and the user leave   *)
(* the backlog and the workers alone.                                      *)
LEMMA EnvironmentInv ==
    ASSUME Inv,
           \/ BeginPass \/ BrokerDown \/ BrokerBack
           \/ \E l \in Links : \/ SyncAccount(l) \/ EnqueueDue(l)
                              \/ FallDue(l) \/ Relink(l) \/ Unlink(l)
    PROVE  Inv' /\ Len(backlog') >= Len(backlog)
  <1>1. backlog \in Seq(Req) /\ Len(backlog) \in Nat
    BY LenProperties DEF Inv, TypeOK, Req
  <1>2. "api" \in Clients /\ "scheduler" \in Clients
    BY DEF Clients
  <1>3. CASE BeginPass
    <2>1. todo' \subseteq Links
      BY <1>3 DEF BeginPass, DueLinks
    <2> QED
      BY <1>1, <1>3, <2>1, OthersMove DEF BeginPass, Inv, TypeOK
  <1>4. CASE BrokerDown
    <2>1. outages' = outages + 1 /\ outages < MaxOutages
      BY <1>4 DEF BrokerDown
    <2>2. outages' \in 0 .. MaxOutages
      BY <2>1, PipelineAssumption DEF Inv, TypeOK
    <2>3. brokerUp' \in BOOLEAN
      BY <1>4 DEF BrokerDown
    <2> QED
      BY <1>1, <1>4, <2>2, <2>3, OthersMove DEF BrokerDown, Inv, TypeOK
  <1>5. CASE BrokerBack
    BY <1>1, <1>5, OthersMove DEF BrokerBack, Inv, TypeOK
  <1>6. ASSUME NEW l \in Links, SyncAccount(l)
        PROVE  Inv' /\ Len(backlog') >= Len(backlog)
    BY <1>2, <1>6, EnqueueKeepsHead, OthersMove DEF SyncAccount, Inv, TypeOK
  <1>7. ASSUME NEW l \in Links, EnqueueDue(l)
        PROVE  Inv' /\ Len(backlog') >= Len(backlog)
    <2>1. todo' \subseteq Links
      BY <1>7 DEF EnqueueDue, Inv, TypeOK
    <2> QED
      BY <1>2, <1>7, <2>1, EnqueueKeepsHead, OthersMove DEF EnqueueDue, Inv, TypeOK
  <1>8. ASSUME NEW l \in Links, FallDue(l) \/ Relink(l) \/ Unlink(l)
        PROVE  Inv' /\ Len(backlog') >= Len(backlog)
    <2>1. /\ status' \in [Links -> {"active", "needs_reauth", "gone"}]
          /\ due' \in [Links -> BOOLEAN]
      BY <1>8 DEF FallDue, Relink, Unlink, Inv, TypeOK
    <2>2. UNCHANGED <<todo, backlog, owner, worker, brokerUp, producer, crashes, rebalances, outages>>
      BY <1>8 DEF FallDue, Relink, Unlink
    <2> QED
      BY <1>1, <2>1, <2>2, OthersMove DEF Inv, TypeOK
  <1> QED
    BY <1>3, <1>4, <1>5, <1>6, <1>7, <1>8

-----------------------------------------------------------------------------
(* At the start nobody holds anything.                                     *)
LEMMA InitInv ==
    Init => Inv
  <1> SUFFICES ASSUME Init PROVE Inv
    OBVIOUS
  <1>1. Polling \in WorkerState /\ ~Polling.held /\ Polling.pc \notin {"syncing"} \cup Attempted
    BY DEF Polling, WorkerState, WorkerPC, Attempted
  <1>2. worker \in [Workers -> WorkerState] /\ \A w \in Workers : worker[w] = Polling
    BY <1>1 DEF Init
  <1>3. backlog \in Seq(Req)
    BY DEF Init
  <1>4. TypeOK
    BY <1>2, <1>3, PipelineAssumption DEF Init, TypeOK, Req
  <1>5. Holding /\ OnALink
    BY <1>1, <1>2 DEF Holding, OnALink
  <1> QED
    BY <1>4, <1>5 DEF Inv

(* The disjuncts of Next, as the lemmas group them.                        *)
LEMMA Steps ==
    ASSUME Next
    PROVE  \/ \E w \in Workers :
                \/ Receive(w) \/ \E outcome \in Outcomes : SyncEnds(w, outcome)
                \/ PublishResult(w) \/ Requeue(w) \/ Commit(w)
                \/ Crash(w) \/ Restart(w) \/ Assign(w) \/ Rebalance(w)
           \/ BeginPass \/ BrokerDown \/ BrokerBack
           \/ \E l \in Links : \/ SyncAccount(l) \/ EnqueueDue(l)
                              \/ FallDue(l) \/ Relink(l) \/ Unlink(l)
  BY DEF Next, SchedulerStep, WorkerStep, GroupStep

(* Every step preserves the invariant.                                     *)
LEMMA StepInv ==
    Inv /\ [Next]_vars => Inv'
  <1> SUFFICES ASSUME Inv, [Next]_vars PROVE Inv'
    OBVIOUS
  <1>1. CASE UNCHANGED vars
    BY <1>1 DEF vars, Inv, TypeOK, Holding, OnALink
  <1>2. CASE Next
    BY <1>2, Steps, ReceiveInv, SyncEndsInv, PublishRequeueInv, CommitInv, CrashRestartInv,
       AssignInv, EnvironmentInv
  <1> QED
    BY <1>1, <1>2

(* The invariant holds in every reachable state.                           *)
LEMMA AlwaysInv ==
    Spec => []Inv
  BY InitInv, StepInv, PTL DEF Spec

-----------------------------------------------------------------------------
(* Every variable has its type, for any links, workers and bounds.         *)
THEOREM PipelineTypes ==
    Spec => []TypeOK
  <1>1. Inv => TypeOK
    BY DEF Inv
  <1> QED
    BY <1>1, AlwaysInv, PTL

(* At least once (app/worker.py commits after the attempt): the backlog    *)
(* loses nothing but its head, and that only once its attempt has ended.   *)
THEOREM NothingIsDropped ==
    Spec => NothingDropped
  <1> DEFINE Kept == Len(backlog') < Len(backlog) => Head(backlog).handled /\ backlog' = Tail(backlog)
  <1>1. Inv /\ [Next]_vars => Kept
    <2> SUFFICES ASSUME Inv, [Next]_vars PROVE Kept
      OBVIOUS
    <2>1. backlog \in Seq(Req) /\ Len(backlog) \in Nat
      BY LenProperties DEF Inv, TypeOK, Req
    <2>2. CASE backlog' = backlog
      BY <2>1, <2>2
    <2>3. ASSUME NEW w \in Workers, Receive(w)
          PROVE  Kept
      BY <2>1, <2>3, Marked DEF Receive
    <2>4. ASSUME NEW w \in Workers, NEW outcome \in Outcomes, SyncEnds(w, outcome)
          PROVE  Kept
      BY <2>1, <2>4, HeadMarked DEF SyncEnds
    <2>5. ASSUME NEW w \in Workers, Requeue(w)
          PROVE  Kept
      <3>1. w \in Clients /\ worker[w].link \in Links
        BY <2>5 DEF Clients, Requeue, Attempted, Inv, OnALink
      <3>2. backlog' \in Seq(Req) /\ Len(backlog') >= Len(backlog)
        BY <2>5, <3>1, EnqueueKeepsHead DEF Requeue
      <3> QED
        BY <2>1, <3>2, LenProperties
    <2>6. ASSUME NEW w \in Workers, Commit(w)
          PROVE  Kept
      <3>1. CASE worker[w].held
        BY <2>6, <3>1 DEF Commit, Inv, Holding, Attempted
      <3>2. CASE ~worker[w].held
        BY <2>1, <2>6, <3>2 DEF Commit
      <3> QED
        BY <3>1, <3>2
    <2>7. ASSUME NEW w \in Workers,
                 PublishResult(w) \/ Crash(w) \/ Restart(w) \/ Assign(w) \/ Rebalance(w)
          PROVE  Kept
      BY <2>2, <2>7 DEF PublishResult, Crash, Restart, Assign, Rebalance
    <2>8. CASE \/ BeginPass \/ BrokerDown \/ BrokerBack
               \/ \E l \in Links : \/ SyncAccount(l) \/ EnqueueDue(l)
                                  \/ FallDue(l) \/ Relink(l) \/ Unlink(l)
      <3>1. Len(backlog') >= Len(backlog) /\ backlog' \in Seq(Req)
        BY <2>8, EnvironmentInv DEF Inv, TypeOK, Req
      <3> QED
        BY <2>1, <3>1, LenProperties
    <2>9. CASE UNCHANGED vars
      BY <2>2, <2>9 DEF vars
    <2> HIDE DEF Kept
    <2> QED
      BY <2>3, <2>4, <2>5, <2>6, <2>7, <2>8, <2>9, Steps
  <1> QED
    BY <1>1, AlwaysInv, PTL DEF Spec, NothingDropped
=============================================================================
