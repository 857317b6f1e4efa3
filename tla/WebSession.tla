---------------------------- MODULE WebSession ----------------------------
(***************************************************************************)
(* The web client's session: the two tokens in localStorage, the fetch     *)
(* wrapper that refreshes and resends once, the provider that loads, signs *)
(* in and signs out, the sign-in page with its two buttons, and the        *)
(* server's /auth routes behind them.                                      *)
(*                                                                         *)
(* A token is abstracted to the user it was issued to; any of them may     *)
(* have expired by the time the server looks, so a token that is somebody's *)
(* is accepted or refused.  The server acts and its answer is handled in   *)
(* one step: nothing the server knows changes in between.  One browser tab: *)
(* another tab would share localStorage but not the promise of the refresh. *)
(* Of what the pages ask for, the calls that must not happen twice are     *)
(* kept (a link's callback); the query cache is Connections' subject.      *)
(***************************************************************************)
EXTENDS Naturals, FiniteSets

CONSTANTS
    Users,      \* e-mail addresses
    SignIns,    \* bound: sign-ins in flight at once, pressed in any order
    Posts,      \* calls of a page that must not happen twice
    None        \* no token, no user

ASSUME SessionAssumption ==
    /\ None \notin Users
    /\ "boot" \notin SignIns \cup Posts
    /\ SignIns \cap Posts = {}

VARIABLES
    registered, \* users with a row in the users table
    store,      \* localStorage: whose access and whose refresh token
    user,       \* AuthProvider's user; a page is shown unless it is None
    loading,    \* AuthProvider's loading
    flow,       \* flow[s]: where an onSubmit or onGuest is
    req,        \* req[r]: the authenticated request of r that is running
    flight,     \* whose refresh token refreshInFlight was sent with
    executed,   \* how often the handler of a page's call ran (history)
    late,       \* a refresh landed beside another's refresh token (history)
    overlapped  \* two sign-ins ran at once since the page was loaded (history)

vars == <<registered, store, user, loading, flow, req, flight, executed, late, overlapped>>

-----------------------------------------------------------------------------
Owner    == Users \cup {None}
Requests == {"boot"} \cup SignIns \cup Posts

(* kind: which button of the page; mounted: that page is still shown, so   *)
(* its busy flag keeps the button disabled.                                *)
Flow == [pc : {"register", "login"}, kind : {"form"}, who : Users, mounted : BOOLEAN]
          \cup [pc : {"idle", "create", "me"}, kind : {"form", "guest"}, who : {None}, mounted : BOOLEAN]
NoFlow == [pc |-> "idle", kind |-> "form", who |-> None, mounted |-> FALSE]

(* sent: with that bearer; waiting: answered 401, awaits the refresh.      *)
NoRequest == [pc |-> "idle", bearer |-> None, retry |-> FALSE]
Sent(bearer, retry) == [pc |-> "sent", bearer |-> bearer, retry |-> retry]

(* Fault: what waits for a refresh may be refreshed again.                 *)
WaitingWithRetry == [pc |-> "waiting", bearer |-> None, retry |-> TRUE]

Waiting == [pc |-> "waiting", bearer |-> None, retry |-> FALSE]
Request == [pc : {"sent"}, bearer : Owner, retry : BOOLEAN]
             \cup [pc : {"idle", "waiting"}, bearer : {None}, retry : {FALSE}]

NoTokens  == [access |-> None, refresh |-> None]
Tokens(u) == [access |-> u, refresh |-> u]

Running(s)  == flow[s].pc # "idle"
SigningIn   == \E s \in SignIns : Running(s)
Busy(kind)  == \E s \in SignIns : Running(s) /\ flow[s].mounted /\ flow[s].kind = kind
Signed      == user # None

(* The page has been loaded with nothing in localStorage.                  *)
Init ==
    /\ registered = {}
    /\ store = NoTokens
    /\ user = None
    /\ loading = FALSE
    /\ flow = [s \in SignIns |-> NoFlow]
    /\ req = [r \in Requests |-> NoRequest]
    /\ flight = None
    /\ executed = [p \in Posts |-> 0]
    /\ late = FALSE
    /\ overlapped = FALSE

-----------------------------------------------------------------------------
(* The sign-in page is shown, and its button of this kind is enabled.      *)
MayPress(s, kind) ==
    /\ ~loading /\ ~Signed
    /\ ~Running(s) /\ ~Busy(kind)

Start(s, kind, pc, u) ==
    /\ MayPress(s, kind)
    /\ flow' = [flow EXCEPT ![s] = [pc |-> pc, kind |-> kind, who |-> u, mounted |-> TRUE]]
    /\ overlapped' = (overlapped \/ SigningIn)
    /\ UNCHANGED <<registered, store, user, loading, req, flight, executed, late>>

(* onSubmit: registering (with matching passwords) or signing in.          *)
Submit(s, u) == \E pc \in {"register", "login"} : Start(s, "form", pc, u)

(* onGuest: a throwaway account.                                           *)
Guest(s) == Start(s, "guest", "create", None)

(* An unauthenticated call of a sign-in failed: its page shows the error.  *)
Stop(s) == flow' = [flow EXCEPT ![s] = NoFlow]

(* POST /auth/register: 409 when the address is taken; a lost answer may   *)
(* have registered it.                                                     *)
Register(s) ==
    /\ flow[s].pc = "register"
    /\ LET u == flow[s].who IN
         \/ /\ u \notin registered
            /\ registered' = registered \cup {u}
            /\ \/ flow' = [flow EXCEPT ![s].pc = "login"]
               \/ Stop(s)
         \/ UNCHANGED registered /\ Stop(s)
    /\ UNCHANGED <<store, user, loading, req, flight, executed, late, overlapped>>

(* Fault: tokenStore.set leaves a refresh token that is already there.     *)
SetKeepingRefresh(u) ==
    [access |-> u, refresh |-> IF store.refresh = None THEN u ELSE store.refresh]

(* Fault: only the access token is stored.                                 *)
SetAccessOnly(u) == [store EXCEPT !.access = u]

(* tokenStore.set with both tokens, as a sign-in does.                     *)
SetTokens(u) == Tokens(u)

(* The tokens are stored and, in the same turn, me() is sent with them.    *)
Accept(s, u) ==
    /\ store' = SetTokens(u)
    /\ late' = FALSE
    /\ flow' = [flow EXCEPT ![s].pc = "me", ![s].who = None]
    /\ req' = [req EXCEPT ![s] = Sent(u, TRUE)]

(* POST /auth/login: 401 for an unknown address or a wrong password.       *)
SignIn(s) ==
    /\ flow[s].pc = "login"
    /\ \/ flow[s].who \in registered /\ Accept(s, flow[s].who)
       \/ Stop(s) /\ UNCHANGED <<store, late, req>>
    /\ UNCHANGED <<registered, user, loading, flight, executed, overlapped>>

(* POST /auth/test-account creates a user of its own.                      *)
CreateGuest(s) ==
    /\ flow[s].pc = "create"
    /\ \/ \E u \in Users \ registered : registered' = registered \cup {u} /\ Accept(s, u)
       \/ Stop(s) /\ UNCHANGED <<registered, store, late, req>>
    /\ UNCHANGED <<user, loading, flight, executed, overlapped>>

-----------------------------------------------------------------------------
Press(p) ==
    /\ Signed
    /\ req[p].pc = "idle"
    /\ req' = [req EXCEPT ![p] = Sent(store.access, TRUE)]
    /\ executed' = [executed EXCEPT ![p] = 0]
    /\ UNCHANGED <<registered, store, user, loading, flow, flight, late, overlapped>>

(* logout: what is in flight goes on.                                      *)
SignOut ==
    /\ Signed
    /\ store' = NoTokens
    /\ late' = FALSE
    /\ user' = None
    /\ UNCHANGED <<registered, loading, flow, req, flight, executed, overlapped>>

(* The page is loaded again: what is not in localStorage is gone.  The     *)
(* provider's effect runs once: without a stored token there is nothing to *)
(* load, otherwise it asks who the token belongs to.                       *)
Reload ==
    /\ user' = None
    /\ loading' = (store.access # None)
    /\ flow' = [s \in SignIns |-> NoFlow]
    /\ req' = [r \in Requests |-> IF r = "boot" /\ store.access # None
                                   THEN Sent(store.access, TRUE) ELSE NoRequest]
    /\ flight' = None
    /\ executed' = [p \in Posts |-> 0]
    /\ overlapped' = FALSE
    /\ UNCHANGED <<registered, store, late>>

-----------------------------------------------------------------------------
(* request returns its result to the caller.  When a user appears, the     *)
(* sign-in page is gone and its handlers run on.                           *)
Succeed(r) ==
    /\ req' = [req EXCEPT ![r] = NoRequest]
    /\ IF r \in {"boot"} \cup SignIns
       THEN /\ user' = req[r].bearer
            /\ flow' = [s \in SignIns |-> IF s = r THEN NoFlow ELSE [flow[s] EXCEPT !.mounted = FALSE]]
       ELSE UNCHANGED <<user, flow>>
    /\ loading' = (loading /\ r # "boot")
    /\ UNCHANGED <<store, late, flight>>

(* Fault: setLoading(false) stands in the try block, not in finally.       *)
LoadingAfterError(R) == loading

(* loading when the requests of R have thrown.                             *)
LoadingAfter(R) == loading /\ "boot" \notin R

(* The requests of R throw.  The first load forgets the tokens on a 401    *)
(* and on nothing else; the sign-in page shows the error.                  *)
Fail(R, status) ==
    /\ req' = [r \in Requests |-> IF r \in R THEN NoRequest ELSE req[r]]
    /\ flow' = [s \in SignIns |-> IF s \in R THEN NoFlow ELSE flow[s]]
    /\ loading' = LoadingAfter(R)
    /\ IF "boot" \in R /\ status = 401
       THEN store' = NoTokens /\ late' = FALSE
       ELSE UNCHANGED <<store, late>>
    /\ UNCHANGED user

(* A 401 is refreshed and resent once, unless there is no refresh token;   *)
(* one refresh serves everybody who waits.                                 *)
Refused(r) ==
    IF req[r].retry /\ store.refresh # None
    THEN /\ req' = [req EXCEPT ![r] = Waiting]
         /\ flight' = IF flight = None THEN store.refresh ELSE flight
         /\ UNCHANGED <<store, late, user, flow, loading>>
    ELSE Fail({r}, 401) /\ UNCHANGED flight

(* Fault: a 401 of the provider, met in the handler, is passed on as 401.  *)
RanDespite401(answer) == IF answer = "ok" THEN {1} ELSE {0, 1}

(* How often the handler ran by the time of this answer.                   *)
Ran(answer) ==
    CASE answer = "ok" -> {1}
      [] answer = "refused" -> {0}
      [] answer = "failed" -> {0, 1}

Count(r, answer) ==
    IF r \in Posts
    THEN \E n \in Ran(answer) : executed' = [executed EXCEPT ![r] = @ + n]
    ELSE UNCHANGED executed

(* The server answers r: with the result, if the bearer is anybody's;      *)
(* with 401 from get_current_user, before the handler runs; or not at all  *)
(* or with another status.                                                 *)
Answer(r) ==
    /\ req[r].pc = "sent"
    /\ \/ req[r].bearer # None /\ Succeed(r) /\ Count(r, "ok")
       \/ Refused(r) /\ Count(r, "refused")
       \/ Fail({r}, 500) /\ UNCHANGED flight /\ Count(r, "failed")
    /\ UNCHANGED <<registered, overlapped>>

(* Fault: the resent request may refresh again.                            *)
ResentAsFirst(t) == Sent(t, TRUE)

(* The continuation of a request that waited: request with retry: false,   *)
(* which reads the access token the refresh has just stored.               *)
Resent(t) == Sent(t, FALSE)

Waiters == {r \in Requests : req[r].pc = "waiting"}

(* POST /auth/refresh is answered.  On success the access token is stored  *)
(* whatever the store holds by now, otherwise nothing changes.             *)
RefreshEnds ==
    /\ flight # None
    /\ flight' = None
    /\ \/ /\ store' = [store EXCEPT !.access = flight]
          /\ late' = (late \/ store.refresh # flight)
          /\ req' = [r \in Requests |-> IF r \in Waiters THEN Resent(flight) ELSE req[r]]
          /\ UNCHANGED <<user, flow, loading>>
       \/ Fail(Waiters, 401)
    /\ UNCHANGED <<registered, executed, overlapped>>

-----------------------------------------------------------------------------
Next ==
    \/ \E s \in SignIns :
         \/ \E u \in Users : Submit(s, u)
         \/ Guest(s)
         \/ Register(s)
         \/ SignIn(s)
         \/ CreateGuest(s)
    \/ \E p \in Posts : Press(p)
    \/ SignOut
    \/ Reload
    \/ \E r \in Requests : Answer(r)
    \/ RefreshEnds

(* Every fetch ends, with an answer or an error.  Nobody has to press a    *)
(* button or reload.                                                       *)
Fairness ==
    /\ \A s \in SignIns : WF_vars(Register(s)) /\ WF_vars(SignIn(s)) /\ WF_vars(CreateGuest(s))
    /\ \A r \in Requests : WF_vars(Answer(r))
    /\ WF_vars(RefreshEnds)

Spec == Init /\ [][Next]_vars
FairSpec == Spec /\ Fairness

-----------------------------------------------------------------------------
(* The kinds of values the client holds: a request is either not running,  *)
(* sent with somebody's access token, or waiting for a refresh, in which   *)
(* case the retry: false of its second call is settled (api.ts:100).       *)
TypeOK ==
    /\ registered \subseteq Users
    /\ store \in [access : Owner, refresh : Owner]
    /\ user \in Owner
    /\ loading \in BOOLEAN
    /\ flow \in [SignIns -> Flow]
    /\ req \in [Requests -> Request]
    /\ flight \in Owner
    /\ executed \in [Posts -> Nat]
    /\ late \in BOOLEAN
    /\ overlapped \in BOOLEAN

(* A call that was refused, refreshed and resent has run once at most:     *)
(* every 401 of the API comes from get_current_user, before the handler.   *)
AtMostOnce == \A p \in Posts : executed[p] <= 1

(* The two stored tokens belong to one user, except after a refresh that   *)
(* was sent for another session has landed (api.ts:75): neither failed     *)
(* sign-ins nor reloads in their middle tear the pair apart.               *)
StoreIsOne == late \/ store.access = store.refresh

(* Whom the pages show is whom the stored tokens speak for, once no        *)
(* sign-in is running: what a page loads, links or unlinks is the shown    *)
(* user's.  The two exceptions are the late refresh and two sign-ins that  *)
(* ran at once (the page's two buttons have a busy flag each).             *)
ShownHoldsTokens ==
    Signed /\ ~SigningIn /\ ~late /\ ~overlapped => store = Tokens(user)

(* Every request ends for its caller: a refusal is not refreshed forever,  *)
(* and nobody waits for a refresh that is over.  Reloading the page over   *)
(* and over is left out.                                                   *)
EveryRequestEnds ==
    \A r \in Requests : []<>(req[r].pc = "idle") \/ []<><<Reload>>_vars

(* The page's spinner ends whatever the stored tokens are worth, with the  *)
(* same exception.                                                         *)
LoadingEnds == []<>~loading \/ []<><<Reload>>_vars
=============================================================================
