--------------------------- MODULE ProviderClient ---------------------------
(***************************************************************************)
(* app/provider.py's _get: one call to a demo bank, retried with backoff,  *)
(* every attempt of which takes a token from the bucket in Redis that all  *)
(* API and worker processes share (take_provider_token).                   *)
(*                                                                         *)
(* One bank, so one bucket.  The unit of time is the time one token takes  *)
(* to come back (provider_rate_refill_per_second is 1: one second).  The   *)
(* script takes `now` from its caller, who read its own clock before the   *)
(* connection was made and the script was sent.  Each of the two may take  *)
(* up to its timeout, and a script that was sent can still run after its   *)
(* caller gave up waiting: the reading may be MaxLag old, for any MaxLag.  *)
(***************************************************************************)
EXTENDS Integers, FiniteSetsExt

CONSTANTS
    Calls,        \* calls of _get for the bank, each made once
    Capacity,     \* provider_rate_capacity
    MaxAttempts,  \* provider_max_attempts
    BackoffBase,  \* provider_backoff_base_seconds
    BackoffMax,   \* provider_backoff_max_seconds
    MaxLag,       \* bound: age of a caller's clock reading when the script runs
    MaxTime       \* bound: where the clock stops

ASSUME ClientAssumption ==
    /\ Capacity \in Nat \ {0}
    /\ MaxAttempts \in Nat \ {0}
    /\ BackoffBase \in Nat /\ BackoffMax \in Nat
    /\ MaxLag \in Nat
    /\ MaxTime \in Nat

VARIABLES
    now,        \* time at Redis
    bucket,     \* the hash ratelimit:provider:{bank} and its expiry
    call,       \* where each call is in _get
    adrift,     \* scripts that were sent, given up and not run yet
    window      \* history: what an observer counts from a grant it chooses

vars == <<now, bucket, call, adrift, window>>

-----------------------------------------------------------------------------
Waiting == {"take", "request", "backoff"}
Ended   == {"returned", "rejected", "exhausted", "limited"}

Bucket == [tokens : 0 .. Capacity - 1, ts : 0 .. MaxTime, expires : Nat]
Call   == [pc : {"idle"} \cup Waiting \cup Ended, attempt : 0 .. MaxAttempts, wake : Nat]
Window == [since : 0 .. MaxTime, sent : Nat, rewound : Nat, expired : Nat]
Script == [by : Calls, clock : 0 .. MaxTime]

Idle == [pc |-> "idle", attempt |-> 0, wake |-> 0]

Init ==
    /\ now = 0
    /\ bucket = [tokens |-> 0, ts |-> 0, expires |-> 0]
    /\ call = [c \in Calls |-> Idle]
    /\ adrift = {}
    /\ window = [since |-> 0, sent |-> 0, rewound |-> 0, expired |-> 0]

(* _backoff_delay(attempt): base, 2 base, 4 base, ... capped.              *)
BackoffDelay(attempt) == Min({BackoffBase * 2 ^ (attempt - 2), BackoffMax})

Present == now < bucket.expires

(* Fault: the cap is left out, an idle bucket overflows.                   *)
RefilledPastCapacity(clock) ==
    IF Present THEN bucket.tokens + Max({0, clock - bucket.ts}) ELSE Capacity

(* What the script finds, refilled: tokens and ts when the key is there, a *)
(* full bucket when it is not.                                             *)
Refilled(clock) ==
    IF Present
    THEN Min({Capacity, bucket.tokens + Max({0, clock - bucket.ts})})
    ELSE Capacity

(* The script writes the caller's clock, even when it is behind ts.        *)
Rewind(clock) == IF Present THEN Max({0, bucket.ts - clock}) ELSE 0

(* Fault: the refill is stored and its time is not: it comes back twice.   *)
StoredWithoutTime(tokens, clock) ==
    [tokens |-> tokens, ts |-> bucket.ts, expires |-> now + Capacity + 1]

(* What the script leaves, and for how long.                               *)
Stored(tokens, clock) == [tokens |-> tokens, ts |-> clock, expires |-> now + Capacity + 1]

(* The script finds the key gone, while the observer counts.               *)
Expiry == IF Present THEN 0 ELSE 1

(* The script has run, and that many requests were sent for it.  The       *)
(* observer may begin with any of them, at the reading the script was given*)
(* for it, and counts from then on.                                        *)
Count(clock, requests) ==
    \/ window.sent = 0 /\ UNCHANGED window
    \/ /\ window.sent = 0 /\ requests = 1
       /\ window' = [since |-> clock, sent |-> 1, rewound |-> 0, expired |-> 0]
    \/ /\ window.sent > 0
       /\ window' = [window EXCEPT !.sent = @ + requests, !.rewound = @ + Rewind(clock),
                                   !.expired = @ + Expiry]

(* The script grants a token, or it does not.                              *)
Granted(clock) ==
    /\ Refilled(clock) >= 1
    /\ bucket' = Stored(Refilled(clock) - 1, clock)

Denied(clock) ==
    /\ Refilled(clock) < 1
    /\ bucket' = Stored(Refilled(clock), clock)

Goto(c, phase) == call' = [call EXCEPT ![c].pc = phase]
End(c, phase)  == call' = [call EXCEPT ![c] = [Idle EXCEPT !.pc = phase]]

-----------------------------------------------------------------------------
(* _get is called, by a sync or a callback.                                *)
Begin(c) ==
    /\ call[c].pc = "idle"
    /\ call' = [call EXCEPT ![c] = [pc |-> "take", attempt |-> 1, wake |-> 0]]
    /\ UNCHANGED <<now, bucket, adrift, window>>

(* A token was granted and the request goes out.                           *)
TakeToken(c, clock) ==
    /\ call[c].pc = "take"
    /\ Granted(clock)
    /\ Goto(c, "request")
    /\ Count(clock, 1)
    /\ UNCHANGED <<now, adrift>>

(* RateLimited: no request goes out, and _get raises.                      *)
IsLimited(c, clock) ==
    /\ call[c].pc = "take"
    /\ Denied(clock)
    /\ End(c, "limited")
    /\ Count(clock, 0)
    /\ UNCHANGED <<now, adrift>>

(* A RedisError: the request goes out without a token.  The script was not *)
(* sent, or it was and Redis runs it sooner or later, if at all.           *)
FailOpen(c, clock) ==
    /\ call[c].pc = "take"
    /\ adrift' \in {adrift, adrift \cup {[by |-> c, clock |-> clock]}}
    /\ Goto(c, "request")
    /\ UNCHANGED <<now, bucket, window>>

(* A script runs whose reply nobody reads.                                 *)
LateRun(s) ==
    /\ s \in adrift
    /\ Granted(s.clock) \/ Denied(s.clock)
    /\ Count(s.clock, 0)
    /\ adrift' = adrift \ {s}
    /\ UNCHANGED <<now, call>>

(* The bank answers, with data or a 4xx.                                   *)
Answered(c, phase) ==
    /\ call[c].pc = "request"
    /\ phase \in {"returned", "rejected"}
    /\ End(c, phase)
    /\ UNCHANGED <<now, bucket, adrift, window>>

(* A 5xx, a timeout or a network error: retried until the last attempt.    *)
TransientFailure(c) ==
    /\ call[c].pc = "request"
    /\ \/ /\ call[c].attempt = MaxAttempts
          /\ End(c, "exhausted")
       \/ /\ call[c].attempt < MaxAttempts
          /\ call' = [call EXCEPT ![c].pc = "backoff",
                                  ![c].wake = now + BackoffDelay(call[c].attempt + 1)]
    /\ UNCHANGED <<now, bucket, adrift, window>>

(* Fault: the attempts are not counted.                                    *)
RetryForever(c) ==
    /\ call[c].pc = "backoff"
    /\ now >= call[c].wake \/ now = MaxTime
    /\ call' = [call EXCEPT ![c] = [pc |-> "take", attempt |-> @.attempt, wake |-> 0]]
    /\ UNCHANGED <<now, bucket, adrift, window>>

(* The sleep is over (or the clock has stopped).                           *)
Retry(c) ==
    /\ call[c].pc = "backoff"
    /\ now >= call[c].wake \/ now = MaxTime
    /\ call' = [call EXCEPT ![c] = [pc |-> "take", attempt |-> @.attempt + 1, wake |-> 0]]
    /\ UNCHANGED <<now, bucket, adrift, window>>

(* Time passes; what would be older than MaxLag runs no more.              *)
Tick ==
    /\ now < MaxTime
    /\ now' = now + 1
    /\ adrift' = {s \in adrift : now' <= s.clock + MaxLag}
    /\ UNCHANGED <<bucket, call, window>>

-----------------------------------------------------------------------------
Clocks == {t \in 0 .. MaxTime : t <= now /\ now <= t + MaxLag}

Proceed(c) ==
    \/ \E clock \in Clocks : TakeToken(c, clock) \/ IsLimited(c, clock) \/ FailOpen(c, clock)
    \/ \E phase \in {"returned", "rejected"} : Answered(c, phase)
    \/ TransientFailure(c) \/ Retry(c)

(* Nothing is left to do before the clock stops.                           *)
Finished ==
    /\ now = MaxTime
    /\ \A c \in Calls : call[c].pc \in Ended
    /\ UNCHANGED vars

Next ==
    \/ \E c \in Calls : Begin(c) \/ Proceed(c)
    \/ \E s \in adrift : LateRun(s)
    \/ Tick \/ Finished

Spec == Init /\ [][Next]_vars

(* Time passes, and no await of _get lasts for ever: Redis and the bank    *)
(* are given timeouts.                                                     *)
FairSpec == Spec /\ WF_vars(Tick) /\ \A c \in Calls : WF_vars(Proceed(c))

-----------------------------------------------------------------------------
(* Every variable has its type; the script never leaves a full bucket.     *)
TypeOK ==
    /\ now \in 0 .. MaxTime
    /\ bucket \in Bucket
    /\ call \in [Calls -> Call]
    /\ adrift \subseteq Script
    /\ window \in Window

(* From any granted token on, counting from the reading it was granted for,*)
(* the requests that got one are at most a full bucket, one more per unit  *)
(* of time, and what old readings gave away: one for each unit by which    *)
(* one turned the bucket's timestamp back, and MaxLag - 1 for each time    *)
(* the key expired, which it does a unit later than an idle bucket is full *)
(* by readings that are not old.  No retry, lost reply or late run gives a *)
(* token away.                                                             *)
Throttled ==
    window.sent <= Capacity + (now - window.since)
                     + window.rewound + window.expired * Max({0, MaxLag - 1})

(* A call ends, after MaxAttempts requests at most.                        *)
EveryCallEnds == \A c \in Calls : call[c].pc \in Waiting ~> call[c].pc \in Ended
=============================================================================
