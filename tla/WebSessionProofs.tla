-------------------------- MODULE WebSessionProofs --------------------------
(***************************************************************************)
(* Proofs about WebSession, for any users, sign-ins and calls.             *)
(***************************************************************************)
EXTENDS WebSession, TLAPS

(* A call of a page that has not been answered has not run.                *)
NotRunYet ==
    \A p \in Posts : executed[p] <= 1 /\ (req[p].pc # "idle" => executed[p] = 0)

(* The first load is a request, during which nobody signs in; a sign-in's  *)
(* request is its me().                                                    *)
Asking ==
    /\ loading <=> req["boot"].pc # "idle"
    /\ loading => ~Signed /\ ~SigningIn
    /\ \A s \in SignIns : req[s].pc # "idle" => flow[s].pc = "me"

(* Unless two sign-ins overlapped, there is one at a time, and only while  *)
(* nobody is signed in.                                                    *)
OneAtATime ==
    ~overlapped =>
        /\ SigningIn => ~Signed
        /\ \A s, t \in SignIns : Running(s) /\ Running(t) => s = t

(* Who is asked about is whom the stored tokens speak for, the first load  *)
(* included.                                                               *)
AskedHoldsTokens ==
    ~late /\ ~overlapped =>
        \A r \in {"boot"} \cup SignIns : req[r].pc = "sent" => store = Tokens(req[r].bearer)

-----------------------------------------------------------------------------
(* Types of what the helpers make.                                         *)

LEMMA RequestTypes ==
    /\ NoRequest \in Request
    /\ Waiting \in Request
    /\ \A b \in Owner, retry \in BOOLEAN : Sent(b, retry) \in Request
    /\ \A r \in Request : r.bearer \in Owner /\ r.retry \in BOOLEAN /\ r.pc \in {"idle", "sent", "waiting"}
  BY DEF NoRequest, Waiting, Sent, Request, Owner

LEMMA FlowTypes ==
    /\ NoFlow \in Flow
    /\ \A f \in Flow :
         /\ f.mounted \in BOOLEAN
         /\ [f EXCEPT !.mounted = FALSE] \in Flow
         /\ f.pc = "register" => f.who \in Users /\ [f EXCEPT !.pc = "login"] \in Flow
         /\ f.pc = "login" => f.who \in Users
         /\ [f EXCEPT !.pc = "me", !.who = None] \in Flow
  BY DEF NoFlow, Flow

LEMMA TokenTypes ==
    /\ NoTokens \in [access : Owner, refresh : Owner]
    /\ \A u \in Users : Tokens(u) \in [access : Owner, refresh : Owner]
  BY DEF NoTokens, Tokens, Owner

LEMMA FailTypes ==
    ASSUME TypeOK, NEW R \in SUBSET Requests, NEW status, Fail(R, status)
    PROVE  /\ req' \in [Requests -> Request]
           /\ flow' \in [SignIns -> Flow]
           /\ loading' \in BOOLEAN
           /\ store' \in [access : Owner, refresh : Owner]
           /\ late' \in BOOLEAN
           /\ user' \in Owner
  <1>1. req' \in [Requests -> Request]
    <2>1. \A r \in Requests : (IF r \in R THEN NoRequest ELSE req[r]) \in Request
      BY RequestTypes DEF TypeOK
    <2> QED
      BY <2>1 DEF Fail
  <1>2. flow' \in [SignIns -> Flow]
    <2>1. \A s \in SignIns : (IF s \in R THEN NoFlow ELSE flow[s]) \in Flow
      BY FlowTypes DEF TypeOK
    <2> QED
      BY <2>1 DEF Fail
  <1>3. loading' \in BOOLEAN
    BY DEF Fail, LoadingAfter
  <1>4. store' \in [access : Owner, refresh : Owner] /\ late' \in BOOLEAN
    BY TokenTypes DEF Fail, TypeOK
  <1>5. user' \in Owner
    BY DEF Fail, TypeOK
  <1> QED
    BY <1>1, <1>2, <1>3, <1>4, <1>5

LEMMA AcceptTypes ==
    ASSUME TypeOK, NEW s \in SignIns, NEW u \in Users, Accept(s, u)
    PROVE  /\ req' \in [Requests -> Request]
           /\ flow' \in [SignIns -> Flow]
           /\ store' \in [access : Owner, refresh : Owner]
           /\ late' \in BOOLEAN
  <1>1. s \in Requests /\ u \in Owner
    BY DEF Requests, Owner
  <1>2. req' \in [Requests -> Request]
    <2>1. Sent(u, TRUE) \in Request
      BY <1>1, RequestTypes
    <2> QED
      BY <1>1, <2>1 DEF Accept, TypeOK
  <1>3. flow' \in [SignIns -> Flow]
    <2>1. flow' = [flow EXCEPT ![s] = [flow[s] EXCEPT !.pc = "me", !.who = None]]
      BY DEF Accept, TypeOK
    <2>2. [flow[s] EXCEPT !.pc = "me", !.who = None] \in Flow
      BY FlowTypes DEF TypeOK
    <2> QED
      BY <2>1, <2>2 DEF TypeOK
  <1>4. store' \in [access : Owner, refresh : Owner] /\ late' \in BOOLEAN
    BY TokenTypes DEF Accept, SetTokens
  <1> QED
    BY <1>2, <1>3, <1>4

LEMMA StartTypes ==
    ASSUME TypeOK, NEW s \in SignIns, NEW kind, NEW pc, NEW u,
           [pc |-> pc, kind |-> kind, who |-> u, mounted |-> TRUE] \in Flow,
           Start(s, kind, pc, u)
    PROVE  TypeOK'
  BY DEF TypeOK, Start, SigningIn

(* Every step keeps the types.                                             *)
LEMMA TypesKept ==
    ASSUME TypeOK, [Next]_vars
    PROVE  TypeOK'
  <1>1. ASSUME NEW s \in SignIns, NEW u \in Users, Submit(s, u)
        PROVE  TypeOK'
    <2>1. PICK pc \in {"register", "login"} : Start(s, "form", pc, u)
      BY <1>1 DEF Submit
    <2>2. [pc |-> pc, kind |-> "form", who |-> u, mounted |-> TRUE] \in Flow
      BY DEF Flow
    <2> QED
      BY <2>1, <2>2, StartTypes
  <1>2. ASSUME NEW s \in SignIns, Guest(s)
        PROVE  TypeOK'
    <2>1. [pc |-> "create", kind |-> "guest", who |-> None, mounted |-> TRUE] \in Flow
      BY DEF Flow
    <2> QED
      BY <1>2, <2>1, StartTypes DEF Guest
  <1>3. ASSUME NEW s \in SignIns, Register(s)
        PROVE  TypeOK'
    <2>1. flow[s] \in Flow /\ flow[s].pc = "register"
      BY <1>3 DEF Register, TypeOK
    <2>2. flow' \in [SignIns -> Flow]
      <3>1. [flow[s] EXCEPT !.pc = "login"] \in Flow /\ NoFlow \in Flow
        BY <2>1, FlowTypes
      <3>2. \/ flow' = [flow EXCEPT ![s] = [flow[s] EXCEPT !.pc = "login"]]
            \/ flow' = [flow EXCEPT ![s] = NoFlow]
        BY <1>3 DEF Register, Stop, TypeOK
      <3> QED
        BY <3>1, <3>2 DEF TypeOK
    <2>3. registered' \subseteq Users
      <3>1. flow[s].who \in Users
        BY <2>1, FlowTypes
      <3> QED
        BY <1>3, <3>1 DEF Register, TypeOK
    <2> QED
      BY <1>3, <2>2, <2>3 DEF Register, TypeOK
  <1>4. ASSUME NEW s \in SignIns, SignIn(s)
        PROVE  TypeOK'
    <2>1. flow[s].who \in Users
      BY <1>4, FlowTypes DEF SignIn, TypeOK
    <2>2. CASE Accept(s, flow[s].who)
      BY <1>4, <2>1, <2>2, AcceptTypes DEF SignIn, TypeOK
    <2>3. CASE Stop(s) /\ UNCHANGED <<store, late, req>>
      BY <1>4, <2>3, FlowTypes DEF SignIn, Stop, TypeOK
    <2> QED
      BY <1>4, <2>2, <2>3 DEF SignIn
  <1>5. ASSUME NEW s \in SignIns, CreateGuest(s)
        PROVE  TypeOK'
    <2>1. ASSUME NEW u \in Users, registered' = registered \cup {u}, Accept(s, u)
          PROVE  TypeOK'
      BY <1>5, <2>1, AcceptTypes DEF CreateGuest, TypeOK
    <2>2. CASE Stop(s) /\ UNCHANGED <<registered, store, late, req>>
      BY <1>5, <2>2, FlowTypes DEF CreateGuest, Stop, TypeOK
    <2> QED
      BY <1>5, <2>1, <2>2 DEF CreateGuest
  <1>6. ASSUME NEW p \in Posts, Press(p)
        PROVE  TypeOK'
    <2>1. Sent(store.access, TRUE) \in Request /\ p \in Requests
      BY RequestTypes DEF TypeOK, Requests
    <2> QED
      BY <1>6, <2>1 DEF Press, TypeOK
  <1>7. CASE SignOut
    BY <1>7, TokenTypes DEF SignOut, TypeOK, Owner
  <1>8. CASE Reload
    <2>1. req' \in [Requests -> Request]
      <3>1. NoRequest \in Request /\ Sent(store.access, TRUE) \in Request
        BY RequestTypes DEF TypeOK
      <3> QED
        BY <1>8, <3>1 DEF Reload
    <2>2. flow' \in [SignIns -> Flow] /\ executed' \in [Posts -> Nat]
      BY <1>8, FlowTypes DEF Reload
    <2> QED
      BY <1>8, <2>1, <2>2 DEF Reload, TypeOK, Owner
  <1>9. ASSUME NEW r \in Requests, Answer(r)
        PROVE  TypeOK'
    <2>1. \A answer \in {"ok", "refused", "failed"} :
            Count(r, answer) => executed' \in [Posts -> Nat]
      <3>1. \A answer \in {"ok", "refused", "failed"} : Ran(answer) \subseteq Nat
        BY DEF Ran
      <3>2. \A p \in Posts, n \in Nat : executed[p] + n \in Nat
        BY DEF TypeOK
      <3> QED
        BY <3>1, <3>2 DEF Count, TypeOK
    <2>2. CASE Succeed(r) /\ Count(r, "ok")
      <3>1. req' \in [Requests -> Request]
        BY <2>2, RequestTypes DEF Succeed, TypeOK
      <3>2. user' \in Owner
        BY <2>2, RequestTypes DEF Succeed, TypeOK
      <3>3. \A s \in SignIns : [flow[s] EXCEPT !.mounted = FALSE] \in Flow /\ NoFlow \in Flow
        BY FlowTypes DEF TypeOK
      <3>4. flow' \in [SignIns -> Flow]
        BY <2>2, <3>3 DEF Succeed, TypeOK
      <3>5. loading' \in BOOLEAN
        BY <2>2 DEF Succeed
      <3> QED
        BY <1>9, <2>1, <2>2, <3>1, <3>2, <3>4, <3>5 DEF Answer, Succeed, TypeOK
    <2>3. CASE Refused(r) /\ Count(r, "refused")
      <3> USE <1>9, <2>1, <2>3
      <3>1. executed' \in [Posts -> Nat] /\ UNCHANGED <<registered, overlapped>>
        BY DEF Answer
      <3>2. CASE req[r].retry /\ store.refresh # None
        <4>1. req' = [req EXCEPT ![r] = Waiting] /\ flight' \in Owner
          BY <3>2 DEF Refused, TypeOK, Owner
        <4>2. UNCHANGED <<store, late, user, flow, loading>>
          BY <3>2 DEF Refused
        <4> QED
          BY <3>1, <4>1, <4>2, RequestTypes DEF TypeOK
      <3>3. CASE ~(req[r].retry /\ store.refresh # None)
        <4>1. Fail({r}, 401) /\ UNCHANGED flight
          BY <3>3 DEF Refused
        <4> QED
          BY <3>1, <4>1, FailTypes DEF TypeOK
      <3> QED
        BY <3>2, <3>3
    <2>4. CASE Fail({r}, 500) /\ UNCHANGED flight /\ Count(r, "failed")
      BY <1>9, <2>1, <2>4, FailTypes DEF Answer, TypeOK
    <2> QED
      BY <1>9, <2>2, <2>3, <2>4 DEF Answer
  <1>10. CASE RefreshEnds
    <2>1. CASE Fail(Waiters, 401)
      <3>1. Waiters \in SUBSET Requests
        BY DEF Waiters
      <3>2. UNCHANGED <<registered, executed, overlapped>> /\ flight' \in Owner
        BY <1>10 DEF RefreshEnds, Owner
      <3> QED
        BY <2>1, <3>1, <3>2, FailTypes DEF TypeOK
    <2>2. CASE /\ store' = [store EXCEPT !.access = flight]
               /\ late' = (late \/ store.refresh # flight)
               /\ req' = [r \in Requests |-> IF r \in Waiters THEN Resent(flight) ELSE req[r]]
               /\ UNCHANGED <<user, flow, loading>>
      BY <1>10, <2>2, RequestTypes DEF RefreshEnds, Resent, TypeOK, Owner
    <2> QED
      BY <1>10, <2>1, <2>2 DEF RefreshEnds
  <1>11. CASE UNCHANGED vars
    BY <1>11 DEF vars, TypeOK
  <1> QED
    BY <1>1, <1>2, <1>3, <1>4, <1>5, <1>6, <1>7, <1>8, <1>9, <1>10, <1>11 DEF Next

-----------------------------------------------------------------------------
(* The rest of the invariant, one step per action.                         *)

Safety == StoreIsOne /\ NotRunYet /\ Asking /\ OneAtATime /\ AskedHoldsTokens /\ ShownHoldsTokens

LEMMA Apart ==
    /\ "boot" \in Requests /\ SignIns \subseteq Requests /\ Posts \subseteq Requests
    /\ \A s \in SignIns : s # "boot" /\ s \notin Posts
    /\ \A p \in Posts : p # "boot" /\ p \notin SignIns
    /\ Requests \ Posts = {"boot"} \cup SignIns
  BY SessionAssumption DEF Requests

(* Who may be asked about while somebody is shown, or signing in.          *)
LEMMA Exclusive ==
    ASSUME TypeOK, Safety
    PROVE  /\ SigningIn \/ Signed => ~loading /\ req["boot"].pc = "idle"
           /\ \A s \in SignIns : ~Running(s) \/ flow[s].pc # "me" => req[s].pc = "idle"
           /\ Signed /\ ~overlapped => ~SigningIn
           /\ ~SigningIn => \A s \in SignIns : req[s].pc = "idle"
  BY DEF Safety, Asking, OneAtATime, SigningIn, Running

(* A pair of one user is Tokens of that user.                              *)
LEMMA Pair ==
    ASSUME TypeOK, StoreIsOne, ~late
    PROVE  store = Tokens(store.access)
  BY DEF TypeOK, StoreIsOne, Tokens

(* Flows that only end, for nobody who appears.                            *)
LEMMA FlowsEnd ==
    ASSUME Safety,
           \A s \in SignIns : Running(s)' => Running(s),
           user' \in {user, None}, overlapped' = overlapped
    PROVE  OneAtATime'
  BY DEF Safety, OneAtATime, SigningIn, Signed

LEMMA StartSafe ==
    ASSUME TypeOK, Safety, NEW s \in SignIns, NEW kind, NEW pc \in {"register", "login", "create"}, NEW u,
           Start(s, kind, pc, u)
    PROVE  Safety'
  <1>1. /\ flow' = [flow EXCEPT ![s] = [pc |-> pc, kind |-> kind, who |-> u, mounted |-> TRUE]]
        /\ overlapped' = (overlapped \/ SigningIn)
        /\ UNCHANGED <<registered, store, user, loading, req, flight, executed, late>>
        /\ ~loading /\ ~Signed /\ ~Running(s)
    BY DEF Start, MayPress
  <1>2. Running(s)' /\ \A t \in SignIns \ {s} : flow'[t] = flow[t]
    BY <1>1 DEF Running, TypeOK
  <1>3. StoreIsOne' /\ NotRunYet'
    BY <1>1 DEF Safety, StoreIsOne, NotRunYet
  <1>4. Asking'
    BY <1>1, <1>2, Exclusive DEF Safety, Asking, Signed, Running
  <1>5. OneAtATime'
    BY <1>1, <1>2 DEF OneAtATime, SigningIn, Running, Signed
  <1>6. AskedHoldsTokens'
    BY <1>1 DEF Safety, AskedHoldsTokens
  <1>7. ShownHoldsTokens'
    BY <1>2 DEF ShownHoldsTokens, SigningIn
  <1> QED
    BY <1>3, <1>4, <1>5, <1>6, <1>7 DEF Safety

(* A sign-in that stops, or goes on to its login.                          *)
LEMMA FlowSafe ==
    ASSUME TypeOK, Safety, NEW s \in SignIns, flow[s].pc \in {"register", "login", "create"},
           \/ Stop(s)
           \/ flow' = [flow EXCEPT ![s].pc = "login"],
           UNCHANGED <<store, user, loading, req, executed, late, overlapped>>
    PROVE  Safety'
  <1>1. Running(s) /\ req[s].pc = "idle"
    BY Exclusive DEF Running
  <1>2. \A t \in SignIns : (Running(t)' => Running(t)) /\ (t # s => flow'[t] = flow[t])
    BY <1>1 DEF Running, Stop, TypeOK
  <1>3. StoreIsOne' /\ NotRunYet'
    BY DEF Safety, StoreIsOne, NotRunYet
  <1>4. Asking'
    BY <1>1, <1>2 DEF Safety, Asking, Signed, SigningIn
  <1>5. OneAtATime'
    BY <1>2, FlowsEnd
  <1>6. AskedHoldsTokens'
    BY DEF Safety, AskedHoldsTokens
  <1>7. ShownHoldsTokens'
    BY <1>1 DEF Safety, OneAtATime, ShownHoldsTokens, SigningIn, Signed
  <1> QED
    BY <1>3, <1>4, <1>5, <1>6, <1>7 DEF Safety

LEMMA AcceptSafe ==
    ASSUME TypeOK, Safety, NEW s \in SignIns, flow[s].pc \in {"login", "create"}, NEW u \in Users,
           Accept(s, u), UNCHANGED <<user, loading, executed, overlapped>>
    PROVE  Safety'
  <1>1. Running(s) /\ SigningIn /\ ~loading /\ req["boot"].pc = "idle"
    BY Exclusive DEF Running, SigningIn
  <1>2. /\ \A t \in SignIns : (Running(t)' <=> Running(t)) /\ (t # s => flow'[t] = flow[t])
        /\ flow'[s].pc = "me"
    BY <1>1 DEF Accept, Running, TypeOK
  <1>3. /\ req'[s] = Sent(u, TRUE)
        /\ \A r \in Requests \ {s} : req'[r] = req[r]
    BY Apart DEF Accept, TypeOK
  <1>4. StoreIsOne' /\ store' = Tokens(u)
    BY DEF Accept, SetTokens, Tokens, StoreIsOne
  <1>5. NotRunYet'
    BY <1>3, Apart DEF Safety, NotRunYet
  <1>6. Asking'
    BY <1>1, <1>2, <1>3, Apart DEF Safety, Asking
  <1>7. OneAtATime'
    BY <1>2, FlowsEnd
  <1>8. AskedHoldsTokens'
    <2> SUFFICES ASSUME ~overlapped, NEW r \in {"boot"} \cup SignIns, req'[r].pc = "sent"
                 PROVE  store' = Tokens(req'[r].bearer)
      BY DEF AskedHoldsTokens
    <2>1. CASE r = s
      BY <1>3, <1>4, <2>1 DEF Sent
    <2>2. CASE r = "boot"
      BY <1>1, <1>3, <2>2, Apart
    <2>3. CASE r \in SignIns \ {s}
      <3>1. req[r].pc = "sent"
        BY <1>3, <2>3, Apart
      <3>2. Running(r)
        BY <2>3, <3>1 DEF Safety, Asking, Running
      <3> QED
        BY <1>1, <2>3, <3>2 DEF Safety, OneAtATime
    <2> QED
      BY <2>1, <2>2, <2>3
  <1>9. ShownHoldsTokens'
    BY <1>1, <1>2 DEF ShownHoldsTokens, SigningIn
  <1> QED
    BY <1>4, <1>5, <1>6, <1>7, <1>8, <1>9 DEF Safety

LEMMA PressSafe ==
    ASSUME TypeOK, Safety, NEW p \in Posts, Press(p)
    PROVE  Safety'
  <1>1. /\ executed' = [executed EXCEPT ![p] = 0]
        /\ \A r \in Requests \ {p} : req'[r] = req[r]
        /\ UNCHANGED <<store, user, loading, flow, late, overlapped>>
    BY Apart DEF Press, TypeOK
  <1>2. NotRunYet'
    BY <1>1, Apart DEF Safety, NotRunYet, TypeOK
  <1>3. \A r \in {"boot"} \cup SignIns : req'[r] = req[r]
    BY <1>1, Apart
  <1>4. StoreIsOne' /\ Asking' /\ OneAtATime' /\ AskedHoldsTokens' /\ ShownHoldsTokens'
    BY <1>1, <1>3
      DEF Safety, StoreIsOne, Asking, OneAtATime, AskedHoldsTokens, ShownHoldsTokens,
          SigningIn, Running, Signed
  <1> QED
    BY <1>2, <1>4 DEF Safety

LEMMA SignOutSafe ==
    ASSUME TypeOK, Safety, SignOut
    PROVE  Safety'
  <1>1. /\ Signed /\ store' = NoTokens /\ user' = None
        /\ UNCHANGED <<loading, flow, req, executed, overlapped>>
    BY DEF SignOut
  <1>2. StoreIsOne' /\ NotRunYet' /\ Asking' /\ OneAtATime' /\ ShownHoldsTokens'
    BY <1>1, FlowsEnd
      DEF Safety, StoreIsOne, NotRunYet, Asking, OneAtATime, ShownHoldsTokens, NoTokens,
          SigningIn, Running, Signed
  <1>3. AskedHoldsTokens'
    BY <1>1, Exclusive DEF AskedHoldsTokens
  <1> QED
    BY <1>2, <1>3 DEF Safety

LEMMA ReloadSafe ==
    ASSUME TypeOK, Safety, Reload
    PROVE  Safety'
  <1>1. /\ user' = None /\ (loading' <=> store.access # None)
        /\ \A s \in SignIns : flow'[s] = NoFlow /\ req'[s] = NoRequest
        /\ req'["boot"] = IF store.access # None THEN Sent(store.access, TRUE) ELSE NoRequest
        /\ \A p \in Posts : executed'[p] = 0 /\ req'[p] = NoRequest
        /\ UNCHANGED <<store, late>>
    BY Apart DEF Reload
  <1>2. StoreIsOne' /\ NotRunYet'
    BY <1>1 DEF Safety, StoreIsOne, NotRunYet, NoRequest
  <1>3. ~Signed' /\ ~SigningIn'
    BY <1>1 DEF Signed, SigningIn, Running, NoFlow
  <1>4. Asking'
    BY <1>1, <1>3 DEF Asking, NoRequest, Sent
  <1>5. OneAtATime' /\ ShownHoldsTokens'
    BY <1>3 DEF OneAtATime, ShownHoldsTokens, SigningIn
  <1>6. AskedHoldsTokens'
    BY <1>1, Pair DEF Safety, AskedHoldsTokens, NoRequest, Sent
  <1> QED
    BY <1>2, <1>4, <1>5, <1>6 DEF Safety

(* A call's handler ran once at most by the time of the answer.            *)
LEMMA CountSafe ==
    ASSUME TypeOK, Safety, NEW r \in Requests, req[r].pc = "sent",
           NEW answer \in {"ok", "refused", "failed"}, Count(r, answer),
           \A x \in Requests \ {r} : req'[x] = req[x],
           answer = "refused" \/ req'[r].pc = "idle"
    PROVE  NotRunYet'
  <1>1. CASE r \in Posts
    <2>1. PICK n \in Ran(answer) : executed' = [executed EXCEPT ![r] = @ + n]
      BY <1>1 DEF Count
    <2>2. n \in {0, 1} /\ (answer = "refused" => n = 0)
      BY DEF Ran
    <2>3. executed[r] = 0 /\ \A p \in Posts : executed[p] \in Nat
      BY <1>1 DEF Safety, NotRunYet, TypeOK
    <2> QED
      BY <1>1, <2>1, <2>2, <2>3, Apart DEF Safety, NotRunYet, TypeOK
  <1>2. CASE r \notin Posts
    <2>1. UNCHANGED executed /\ \A p \in Posts : req'[p] = req[p]
      BY <1>2, Apart DEF Count
    <2> QED
      BY <2>1 DEF Safety, NotRunYet
  <1> QED
    BY <1>1, <1>2

LEMMA SucceedSafe ==
    ASSUME TypeOK, Safety, NEW r \in Requests, req[r].pc = "sent", Succeed(r), Count(r, "ok"),
           UNCHANGED overlapped
    PROVE  Safety'
  <1>1. /\ req'[r] = NoRequest
        /\ \A x \in Requests \ {r} : req'[x] = req[x]
        /\ UNCHANGED <<store, late, overlapped>>
        /\ loading' <=> (loading /\ r # "boot")
    BY DEF Succeed, TypeOK
  <1>2. StoreIsOne' /\ NotRunYet'
    BY <1>1, CountSafe DEF Safety, StoreIsOne, NoRequest
  <1>3. AskedHoldsTokens'
    BY <1>1, Apart DEF Safety, AskedHoldsTokens, NoRequest
  <1>4. CASE r \in Posts
    <2>1. UNCHANGED <<user, flow>> /\ (loading' <=> loading)
      BY <1>1, <1>4, Apart DEF Succeed
    <2>2. \A x \in {"boot"} \cup SignIns : req'[x] = req[x]
      BY <1>1, <1>4, Apart
    <2>3. (SigningIn' <=> SigningIn) /\ (Signed' <=> Signed) /\ \A s \in SignIns : Running(s)' <=> Running(s)
      BY <2>1 DEF SigningIn, Running, Signed
    <2>4. Asking'
      BY <2>1, <2>2, <2>3 DEF Safety, Asking
    <2>5. OneAtATime' /\ ShownHoldsTokens'
      BY <1>1, <2>1, <2>3 DEF Safety, OneAtATime, ShownHoldsTokens
    <2> QED
      BY <1>2, <1>3, <2>4, <2>5 DEF Safety
  <1>5. CASE r = "boot"
    <2>1. loading /\ ~SigningIn /\ ~Signed
      BY <1>5 DEF Safety, Asking
    <2>2. \A s \in SignIns : ~Running(s) /\ flow'[s].pc = flow[s].pc /\ req'[s] = req[s]
      BY <1>1, <1>5, <2>1, Apart DEF Succeed, SigningIn, TypeOK, Flow
    <2>3. ~SigningIn'
      BY <2>2 DEF SigningIn, Running
    <2>4. Asking' /\ OneAtATime'
      BY <1>1, <1>5, <2>1, <2>2, <2>3 DEF Safety, Asking, OneAtATime, NoRequest, SigningIn
    <2>5. ShownHoldsTokens'
      BY <1>1, <1>5 DEF Safety, AskedHoldsTokens, ShownHoldsTokens, Succeed
    <2> QED
      BY <1>2, <1>3, <2>4, <2>5 DEF Safety
  <1>6. CASE r \in SignIns
    <2>1. Running(r) /\ SigningIn /\ ~loading /\ req["boot"].pc = "idle"
      BY <1>6, Exclusive DEF Safety, Asking, Running, SigningIn
    <2>2. /\ flow'[r] = NoFlow
          /\ \A s \in SignIns \ {r} : flow'[s].pc = flow[s].pc /\ req'[s] = req[s]
      BY <1>1, <1>6, Apart DEF Succeed, TypeOK, Flow
    <2>3. Asking'
      BY <1>1, <1>6, <2>1, <2>2, Apart DEF Safety, Asking, NoRequest
    <2>4. OneAtATime'
      <3> SUFFICES ASSUME ~overlapped PROVE ~SigningIn'
        BY <1>1 DEF OneAtATime, SigningIn
      <3> QED
        BY <1>6, <2>1, <2>2 DEF Safety, OneAtATime, SigningIn, Running, NoFlow
    <2>5. ShownHoldsTokens'
      BY <1>1, <1>6 DEF Safety, AskedHoldsTokens, ShownHoldsTokens, Succeed
    <2> QED
      BY <1>2, <1>3, <2>3, <2>4, <2>5 DEF Safety
  <1> QED
    BY <1>4, <1>5, <1>6 DEF Requests

(* Requests that throw.                                                    *)
LEMMA FailSafe ==
    ASSUME TypeOK, Safety, NEW R \in SUBSET Requests, \A r \in R : req[r].pc # "idle",
           NEW status, Fail(R, status), NotRunYet', UNCHANGED overlapped
    PROVE  Safety'
  <1>1. /\ \A r \in R : req'[r] = NoRequest
        /\ \A r \in Requests \ R : req'[r] = req[r]
        /\ \A s \in SignIns : flow'[s] = IF s \in R THEN NoFlow ELSE flow[s]
        /\ loading' <=> (loading /\ "boot" \notin R)
        /\ UNCHANGED <<user, overlapped>>
    BY DEF Fail, LoadingAfter
  <1>2. "boot" \in R => loading /\ ~SigningIn /\ ~Signed
    BY DEF Safety, Asking
  <1>3. "boot" \notin R => UNCHANGED <<store, late>>
    BY DEF Fail
  <1>4. StoreIsOne'
    BY DEF Safety, Fail, StoreIsOne, NoTokens
  <1>5. \A s \in SignIns : Running(s)' => Running(s)
    BY <1>1 DEF Running, NoFlow
  <1>6. Asking'
    BY <1>1, <1>5, Apart DEF Safety, Asking, NoRequest, Signed, SigningIn
  <1>7. OneAtATime'
    BY <1>1, <1>5, FlowsEnd
  <1>8. AskedHoldsTokens'
    <2>1. CASE "boot" \in R
      <3>1. \A r \in {"boot"} \cup SignIns : req'[r].pc # "sent"
        BY <1>1, <1>2, <2>1, Exclusive, Apart DEF NoRequest
      <3> QED
        BY <3>1 DEF AskedHoldsTokens
    <2>2. CASE "boot" \notin R
      BY <1>1, <1>3, <2>2, Apart DEF Safety, AskedHoldsTokens, NoRequest
    <2> QED
      BY <2>1, <2>2
  <1>9. ShownHoldsTokens'
    <2> SUFFICES ASSUME Signed, ~overlapped, ~late' PROVE store' = Tokens(user)
      BY <1>1 DEF ShownHoldsTokens, Signed
    <2>1. ~SigningIn /\ "boot" \notin R
      BY <1>2, Exclusive
    <2> QED
      BY <1>3, <2>1 DEF Safety, ShownHoldsTokens
  <1> QED
    BY <1>4, <1>6, <1>7, <1>8, <1>9 DEF Safety

(* A request that starts to wait for a refresh.                            *)
LEMMA WaitSafe ==
    ASSUME TypeOK, Safety, NEW r \in Requests, req[r].pc = "sent", Count(r, "refused"),
           req' = [req EXCEPT ![r] = Waiting],
           UNCHANGED <<store, user, loading, flow, late, overlapped>>
    PROVE  Safety'
  <1>1. /\ req'[r] = Waiting
        /\ \A x \in Requests \ {r} : req'[x] = req[x]
    BY DEF TypeOK
  <1>2. \A x \in Requests : (req'[x].pc = "idle" <=> req[x].pc = "idle")
    BY <1>1 DEF Waiting
  <1>3. StoreIsOne' /\ NotRunYet'
    BY <1>1, CountSafe DEF Safety, StoreIsOne
  <1>4. Asking'
    BY <1>2, Apart DEF Safety, Asking, SigningIn, Running, Signed
  <1>5. OneAtATime' /\ ShownHoldsTokens'
    BY DEF Safety, OneAtATime, ShownHoldsTokens, SigningIn, Running, Signed
  <1>6. AskedHoldsTokens'
    BY <1>1, Apart DEF Safety, AskedHoldsTokens, Waiting
  <1> QED
    BY <1>3, <1>4, <1>5, <1>6 DEF Safety

(* The refresh succeeds: unless it was for another session, the stored     *)
(* pair is what it was.                                                    *)
LEMMA RefreshedSafe ==
    ASSUME TypeOK, Safety,
           store' = [store EXCEPT !.access = flight],
           late' = (late \/ store.refresh # flight),
           req' = [r \in Requests |-> IF r \in Waiters THEN Resent(flight) ELSE req[r]],
           UNCHANGED <<user, flow, loading, executed, overlapped>>
    PROVE  Safety'
  <1>1. ~late' => ~late /\ store.refresh = flight
    OBVIOUS
  <1>2. ~late' => store' = store /\ store = Tokens(flight)
    BY <1>1 DEF Safety, StoreIsOne, TypeOK, Tokens
  <1>3. \A x \in Requests : (req'[x].pc = "idle" <=> req[x].pc = "idle")
    BY DEF Waiters, Resent, Sent
  <1>4. StoreIsOne'
    BY <1>2 DEF StoreIsOne, Tokens
  <1>5. NotRunYet'
    BY <1>3, Apart DEF Safety, NotRunYet
  <1>6. Asking'
    BY <1>3, Apart DEF Safety, Asking, SigningIn, Running, Signed
  <1>7. OneAtATime'
    BY DEF Safety, OneAtATime, SigningIn, Running, Signed
  <1>8. AskedHoldsTokens'
    <2> SUFFICES ASSUME ~late', ~overlapped, NEW r \in {"boot"} \cup SignIns, req'[r].pc = "sent"
                 PROVE  store' = Tokens(req'[r].bearer)
      BY DEF AskedHoldsTokens
    <2>1. CASE r \in Waiters
      BY <1>2, <2>1, Apart DEF Resent, Sent
    <2>2. CASE r \notin Waiters
      BY <1>1, <1>2, <2>2, Apart DEF Safety, AskedHoldsTokens
    <2> QED
      BY <2>1, <2>2
  <1>9. ShownHoldsTokens'
    BY <1>1, <1>2 DEF Safety, ShownHoldsTokens, SigningIn, Running, Signed
  <1> QED
    BY <1>4, <1>5, <1>6, <1>7, <1>8, <1>9 DEF Safety

(* Every step keeps the invariant.                                         *)
LEMMA SafetyKept ==
    ASSUME TypeOK, Safety, [Next]_vars
    PROVE  Safety'
  <1>1. ASSUME NEW s \in SignIns, NEW u \in Users, Submit(s, u)
        PROVE  Safety'
    BY <1>1, StartSafe DEF Submit
  <1>2. ASSUME NEW s \in SignIns, Guest(s)
        PROVE  Safety'
    BY <1>2, StartSafe DEF Guest
  <1>3. ASSUME NEW s \in SignIns, Register(s)
        PROVE  Safety'
    BY <1>3, FlowSafe DEF Register
  <1>4. ASSUME NEW s \in SignIns, SignIn(s)
        PROVE  Safety'
    <2>1. flow[s].pc = "login" /\ UNCHANGED <<user, loading, executed, overlapped>>
      BY <1>4 DEF SignIn
    <2>2. CASE Accept(s, flow[s].who)
      <3>1. flow[s].who \in Users
        BY <2>1, FlowTypes DEF TypeOK
      <3> QED
        BY <2>1, <2>2, <3>1, AcceptSafe
    <2>3. CASE Stop(s) /\ UNCHANGED <<store, late, req>>
      BY <2>1, <2>3, FlowSafe
    <2> QED
      BY <1>4, <2>2, <2>3 DEF SignIn
  <1>5. ASSUME NEW s \in SignIns, CreateGuest(s)
        PROVE  Safety'
    <2>1. flow[s].pc = "create" /\ UNCHANGED <<user, loading, executed, overlapped>>
      BY <1>5 DEF CreateGuest
    <2>2. ASSUME NEW u \in Users, Accept(s, u)
          PROVE  Safety'
      BY <2>1, <2>2, AcceptSafe
    <2>3. CASE Stop(s) /\ UNCHANGED <<registered, store, late, req>>
      BY <2>1, <2>3, FlowSafe
    <2> QED
      BY <1>5, <2>2, <2>3 DEF CreateGuest
  <1>6. ASSUME NEW p \in Posts, Press(p)
        PROVE  Safety'
    BY <1>6, PressSafe
  <1>7. CASE SignOut
    BY <1>7, SignOutSafe
  <1>8. CASE Reload
    BY <1>8, ReloadSafe
  <1>9. ASSUME NEW r \in Requests, Answer(r)
        PROVE  Safety'
    <2>1. req[r].pc = "sent" /\ UNCHANGED overlapped
      BY <1>9 DEF Answer
    <2>2. CASE Succeed(r) /\ Count(r, "ok")
      BY <2>1, <2>2, SucceedSafe
    <2>3. ASSUME NEW status, NEW answer \in {"refused", "failed"}, Fail({r}, status), Count(r, answer)
          PROVE  Safety'
      <3>1. req'[r].pc = "idle" /\ \A x \in Requests \ {r} : req'[x] = req[x]
        BY <2>3 DEF Fail, NoRequest
      <3>2. NotRunYet'
        BY <2>1, <2>3, <3>1, CountSafe
      <3> QED
        BY <2>1, <2>3, <3>2, FailSafe
    <2>4. CASE Refused(r) /\ Count(r, "refused")
      <3>1. CASE req[r].retry /\ store.refresh # None
        <4>1. UNCHANGED <<store, user, loading, flow, late>> /\ req' = [req EXCEPT ![r] = Waiting]
          BY <2>4, <3>1 DEF Refused
        <4> QED
          BY <2>1, <2>4, <4>1, WaitSafe
      <3>2. CASE ~(req[r].retry /\ store.refresh # None)
        BY <2>3, <2>4, <3>2 DEF Refused
      <3> QED
        BY <3>1, <3>2
    <2> QED
      BY <1>9, <2>2, <2>3, <2>4 DEF Answer
  <1>10. CASE RefreshEnds
    <2>1. UNCHANGED <<executed, overlapped>>
      BY <1>10 DEF RefreshEnds
    <2>2. CASE Fail(Waiters, 401)
      <3>1. Waiters \in SUBSET Requests /\ \A r \in Waiters : req[r].pc # "idle"
        BY DEF Waiters
      <3>2. \A r \in Requests : req'[r].pc # "idle" => req[r].pc # "idle"
        BY <2>2 DEF Fail, NoRequest
      <3>3. NotRunYet'
        BY <2>1, <3>2, Apart DEF Safety, NotRunYet
      <3> QED
        BY <2>1, <2>2, <3>1, <3>3, FailSafe
    <2>3. CASE /\ store' = [store EXCEPT !.access = flight]
               /\ late' = (late \/ store.refresh # flight)
               /\ req' = [r \in Requests |-> IF r \in Waiters THEN Resent(flight) ELSE req[r]]
               /\ UNCHANGED <<user, flow, loading>>
      BY <2>1, <2>3, RefreshedSafe
    <2> QED
      BY <1>10, <2>2, <2>3 DEF RefreshEnds
  <1>11. CASE UNCHANGED vars
    BY <1>11
      DEF vars, Safety, StoreIsOne, NotRunYet, Asking, OneAtATime, AskedHoldsTokens,
          ShownHoldsTokens, SigningIn, Running, Signed
  <1> QED
    BY <1>1, <1>2, <1>3, <1>4, <1>5, <1>6, <1>7, <1>8, <1>9, <1>10, <1>11 DEF Next

LEMMA InitSafe == Init => TypeOK /\ Safety
  <1> SUFFICES ASSUME Init PROVE TypeOK /\ Safety
    OBVIOUS
  <1>1. TypeOK
    BY RequestTypes, FlowTypes, TokenTypes DEF Init, TypeOK, Owner
  <1>2. ~SigningIn /\ ~Signed
    BY DEF Init, SigningIn, Signed, Running, NoFlow
  <1>3. StoreIsOne /\ NotRunYet /\ AskedHoldsTokens
    BY Apart DEF Init, StoreIsOne, NotRunYet, AskedHoldsTokens, NoTokens, NoRequest
  <1>4. Asking
    BY Apart, <1>2 DEF Init, Asking, NoRequest
  <1>5. OneAtATime /\ ShownHoldsTokens
    BY <1>2 DEF OneAtATime, ShownHoldsTokens, SigningIn
  <1> QED
    BY <1>1, <1>3, <1>4, <1>5 DEF Safety

LEMMA InvariantHolds == Spec => [](TypeOK /\ Safety)
  BY InitSafe, TypesKept, SafetyKept, PTL DEF Spec

-----------------------------------------------------------------------------
(* The client holds nothing but what TypeOK lists, whatever the order of   *)
(* its answers (client.ts, AuthContext.tsx, Login.tsx).                    *)
THEOREM TypesHold == Spec => []TypeOK
  BY InvariantHolds, PTL

(* A call that was refused, refreshed and resent has run once at most.     *)
THEOREM CallsRunOnce == Spec => []AtMostOnce
  <1>1. Safety => AtMostOnce
    BY DEF Safety, NotRunYet, AtMostOnce
  <1> QED
    BY <1>1, InvariantHolds, PTL

(* The stored pair is one user's, but for a refresh that came late.        *)
THEOREM PairIsOnes == Spec => []StoreIsOne
  <1>1. Safety => StoreIsOne
    BY DEF Safety
  <1> QED
    BY <1>1, InvariantHolds, PTL

(* The pages show whom the stored tokens speak for, with the same          *)
(* exception and that of two sign-ins at once.                             *)
THEOREM ShownIsTheirs == Spec => []ShownHoldsTokens
  <1>1. Safety => ShownHoldsTokens
    BY DEF Safety
  <1> QED
    BY <1>1, InvariantHolds, PTL

=============================================================================
