------------------------ MODULE ProviderClientProofs ------------------------
(***************************************************************************)
(* The token bucket throttles, for every capacity, number of calls and     *)
(* interleaving: the proof of Throttled; and, at the end, of TypeOK: the   *)
(* script never leaves a full bucket and no call exceeds its attempts.     *)
(*                                                                         *)
(* Throttled alone is not inductive: it forgets the tokens still in the    *)
(* bucket.  What the script preserves is the sum of the tokens spent and   *)
(* the tokens left, measured at the bucket's own timestamp (Balanced).  A  *)
(* key expires Capacity + 1 after it was written (Dated), so a reading that*)
(* finds it gone is at least Capacity + 1 - MaxLag after its timestamp: a  *)
(* full bucket is MaxLag - 1 more than that time earned, at most.          *)
(***************************************************************************)
EXTENDS ProviderClient, FiniteSetTheorems, TLAPS

(* What an expiry may give away.                                           *)
Excess == Max({0, MaxLag - 1})

(* The state of the bucket and of the observer, without the calls'.        *)
BucketTyped ==
    /\ now \in Nat
    /\ bucket \in [tokens : 0 .. Capacity, ts : Nat, expires : Nat]
    /\ window \in [since : Nat, sent : Nat, rewound : Nat, expired : Nat]

(* Nothing is dated in the future, a script that may still run is MaxLag   *)
(* old at most, and a bucket that has been written expires after the time  *)
(* it takes to fill.                                                       *)
Dated ==
    /\ bucket.ts <= now
    /\ window.since <= now
    /\ \A s \in adrift : s.clock \in Nat /\ s.clock <= now /\ now <= s.clock + MaxLag
    /\ window.sent > 0 => bucket.expires >= bucket.ts + Capacity + 1

(* What is spent and what is left were there at first, or were earned, or  *)
(* were given away.                                                        *)
Balanced ==
    window.sent > 0 =>
        window.sent + bucket.tokens
            <= Capacity + (bucket.ts - window.since) + window.rewound + window.expired * Excess

BucketInv == BucketTyped /\ Dated /\ Balanced

(* The larger and the smaller of two numbers, by cases.                    *)
LEMMA TwoNumbers ==
    ASSUME NEW a \in Int, NEW b \in Int
    PROVE  /\ Max({a, b}) = IF a >= b THEN a ELSE b
           /\ Min({a, b}) = IF a <= b THEN a ELSE b
  <1>1. Max({a, b}) = IF a >= b THEN a ELSE b
    BY DEF Max
  <1>2. Min({a, b}) = IF a <= b THEN a ELSE b
    BY DEF Min
  <1> QED
    BY <1>1, <1>2

(* An expiry more gives away so much more.                                 *)
LEMMA OneMore ==
    ASSUME NEW e \in Nat, NEW x \in Nat
    PROVE  (e + 1) * x = e * x + x /\ e * x \in Nat
  OBVIOUS

(* What an expiry may give away is a number, and MaxLag is at most one     *)
(* more.                                                                   *)
LEMMA ExcessType == Excess \in Nat /\ MaxLag <= Excess + 1
  <1>1. Max({0, MaxLag - 1}) = IF 0 >= MaxLag - 1 THEN 0 ELSE MaxLag - 1
    BY ClientAssumption, TwoNumbers
  <1> QED
    BY <1>1, ClientAssumption DEF Excess

(* A run of the script keeps the invariant, whether it grants a token that *)
(* is used for a request, grants one that is lost, or grants none.         *)
LEMMA ScriptKeepsBalance ==
    ASSUME BucketInv,
           NEW clock \in Nat, clock <= now, now <= clock + MaxLag,
           NEW requests \in {0, 1},
           Granted(clock) \/ (requests = 0 /\ Denied(clock)),
           Count(clock, requests),
           now' = now, adrift' \subseteq adrift
    PROVE  BucketInv'
  <1> DEFINE sum    == bucket.tokens + Max({0, clock - bucket.ts})
             tokens == Refilled(clock)
             left   == bucket'.tokens
             given  == window.expired * Excess
  <1>1. /\ Capacity \in Nat \ {0}
        /\ MaxLag \in Nat
        /\ now \in Nat
        /\ bucket.tokens \in 0 .. Capacity /\ bucket.ts \in Nat /\ bucket.expires \in Nat
        /\ window.since \in Nat /\ window.sent \in Nat
        /\ window.rewound \in Nat /\ window.expired \in Nat
    BY ClientAssumption DEF BucketInv, BucketTyped
  <1>2. Max({0, clock - bucket.ts}) = IF clock >= bucket.ts THEN clock - bucket.ts ELSE 0
    BY <1>1, TwoNumbers
  <1>3. Max({0, bucket.ts - clock}) = IF bucket.ts > clock THEN bucket.ts - clock ELSE 0
    BY <1>1, TwoNumbers
  <1>4. /\ tokens \in 0 .. Capacity
        /\ Present => tokens <= sum
    <2>1. sum \in Nat
      BY <1>1, <1>2
    <2>2. Min({Capacity, sum}) = IF Capacity <= sum THEN Capacity ELSE sum
      <3>1. Capacity \in Int /\ sum \in Int
        BY <1>1, <2>1
      <3> HIDE DEF sum
      <3> QED
        BY ONLY <3>1, TwoNumbers
    <2>3. tokens = IF Present THEN Min({Capacity, sum}) ELSE Capacity
      BY DEF Refilled
    <2> HIDE DEF sum, tokens
    <2> QED
      BY <1>1, <2>1, <2>2, <2>3
  <1>5. /\ left \in 0 .. Capacity /\ left + requests <= tokens
        /\ bucket' = [tokens |-> left, ts |-> clock, expires |-> now + Capacity + 1]
    BY <1>1, <1>4 DEF Granted, Denied, Stored
  <1>6. /\ bucket' \in [tokens : 0 .. Capacity, ts : Nat, expires : Nat]
        /\ bucket'.tokens = left /\ bucket'.ts = clock /\ bucket'.expires = now + Capacity + 1
    <2> HIDE DEF left
    <2> QED
      BY <1>1, <1>5
  <1>7. ASSUME window'.since \in Nat, window'.since <= now,
               window' \in [since : Nat, sent : Nat, rewound : Nat, expired : Nat]
        PROVE  BucketTyped' /\ Dated'
    BY <1>1, <1>6, <1>7 DEF BucketInv, BucketTyped, Dated
  <1>8. CASE window.sent = 0 /\ UNCHANGED window
    BY <1>1, <1>7, <1>8 DEF BucketInv, BucketTyped, Dated, Balanced
  <1>9. CASE requests = 1 /\ window' = [since |-> clock, sent |-> 1, rewound |-> 0, expired |-> 0]
    <2>1. BucketTyped' /\ Dated'
      BY <1>7, <1>9
    <2>2. Balanced'
      <3>1. Excess \in Nat /\ 0 * Excess = 0
        BY ExcessType
      <3>2. left + 1 <= tokens /\ left \in Nat /\ tokens \in 0 .. Capacity
        BY <1>1, <1>4, <1>5, <1>9
      <3>3. 1 + left <= Capacity + (clock - clock) + 0 + 0
        <4> HIDE DEF left, tokens
        <4> QED
          BY <1>1, <3>2
      <3> HIDE DEF left
      <3> QED
        BY <1>6, <1>9, <3>1, <3>3 DEF Balanced, Excess
    <2> QED
      BY <2>1, <2>2 DEF BucketInv
  <1>10. CASE /\ window.sent > 0
              /\ window' = [window EXCEPT !.sent = @ + requests, !.rewound = @ + Rewind(clock),
                                          !.expired = @ + Expiry]
    <2> DEFINE lost == Rewind(clock)
    <2>1. lost = IF Present /\ bucket.ts > clock THEN bucket.ts - clock ELSE 0
      BY <1>3 DEF Rewind
    <2>2. lost \in Nat /\ Expiry \in {0, 1} /\ (Expiry = 1 <=> ~Present)
      BY <1>1, <2>1 DEF Expiry
    <2>3. window' = [window EXCEPT !.sent = @ + requests, !.rewound = @ + lost,
                                   !.expired = @ + Expiry]
      BY <1>10
    <2> HIDE DEF lost
    <2>4. /\ window'.since = window.since
          /\ window'.sent = window.sent + requests
          /\ window'.rewound = window.rewound + lost
          /\ window'.expired = window.expired + Expiry
          /\ window' \in [since : Nat, sent : Nat, rewound : Nat, expired : Nat]
      <3>1. window \in [since : Nat, sent : Nat, rewound : Nat, expired : Nat]
        BY DEF BucketInv, BucketTyped
      <3>2. /\ window.sent + requests \in Nat
            /\ window.rewound + lost \in Nat
            /\ window.expired + Expiry \in Nat
        BY <1>1, <2>2
      <3> QED
        BY ONLY <2>3, <3>1, <3>2
    <2>5. BucketTyped' /\ Dated'
      BY <1>1, <1>7, <2>4 DEF BucketInv, Dated
    <2>6. /\ given \in Nat
          /\ window'.expired * Excess = given + (IF Present THEN 0 ELSE Excess)
      <3>1. Excess \in Nat
        BY ExcessType
      <3>2. given \in Nat /\ (window.expired + 1) * Excess = given + Excess
        BY <1>1, <3>1, OneMore
      <3>3. CASE Present
        <4>1. window'.expired = window.expired
          BY <1>1, <2>2, <2>4, <3>3
        <4> QED
          BY <3>2, <3>3, <4>1
      <3>4. CASE ~Present
        <4>1. window'.expired = window.expired + 1
          BY <2>2, <2>4, <3>4
        <4> QED
          BY <3>2, <3>4, <4>1
      <3> QED
        BY <3>3, <3>4
    <2>7. Balanced'
      <3>0. /\ left \in 0 .. Capacity /\ left + requests <= tokens
            /\ tokens \in 0 .. Capacity
            /\ window.sent + bucket.tokens
                 <= Capacity + (bucket.ts - window.since) + window.rewound + given
        BY <1>4, <1>5, <1>10 DEF BucketInv, Balanced
      <3>1. window.sent + requests + left
              <= Capacity + (clock - window.since) + (window.rewound + lost)
                   + (given + (IF Present THEN 0 ELSE Excess))
        <4>1. CASE ~Present
          <5>1. clock + MaxLag >= bucket.ts + Capacity + 1
            BY <1>1, <1>10, <4>1 DEF BucketInv, Dated, Present
          <5>2. MaxLag <= Excess + 1 /\ Excess \in Nat
            BY ExcessType
          <5> HIDE DEF tokens, left, given
          <5> QED
            BY <1>1, <2>2, <2>6, <3>0, <4>1, <5>1, <5>2
        <4>2. CASE Present
          <5>1. tokens <= bucket.tokens + (IF clock >= bucket.ts THEN clock - bucket.ts ELSE 0)
            BY <1>2, <1>4, <4>2
          <5> HIDE DEF tokens, left, given
          <5> QED
            BY <1>1, <2>1, <2>2, <2>6, <3>0, <4>2, <5>1
        <4> QED
          BY <4>1, <4>2
      <3>2. Excess' = Excess
        BY DEF Excess
      <3> HIDE DEF left, given
      <3> QED
        BY <1>6, <2>4, <2>6, <3>1, <3>2 DEF Balanced
    <2> QED
      BY <2>5, <2>7 DEF BucketInv
  <1> QED
    BY <1>8, <1>9, <1>10 DEF Count

(* Every reading a caller may bring is a past time, MaxLag old at most.    *)
LEMMA ClocksLag ==
    ASSUME BucketTyped, NEW clock \in Clocks
    PROVE  clock \in Nat /\ clock <= now /\ now <= clock + MaxLag
  BY ClientAssumption DEF Clocks, BucketTyped

(* Each step keeps the invariant: three of them run the script, the clock  *)
(* moves alone, the rest leave the bucket alone.                           *)
LEMMA BucketInvStep ==
    ASSUME BucketInv, [Next]_vars
    PROVE  BucketInv'
  <1> USE DEF BucketInv
  <1>1. ASSUME UNCHANGED <<now, bucket, adrift, window>>
        PROVE  BucketInv'
    BY <1>1 DEF BucketTyped, Dated, Balanced, Excess
  <1>2. CASE UNCHANGED vars \/ Finished
    BY <1>1, <1>2 DEF vars, Finished
  <1>3. CASE \E c \in Calls : Begin(c)
    BY <1>1, <1>3 DEF Begin
  <1>4. ASSUME NEW c \in Calls, Proceed(c)
        PROVE  BucketInv'
    <2>1. ASSUME NEW clock \in Clocks, TakeToken(c, clock)
          PROVE  BucketInv'
      BY <2>1, ClocksLag, ScriptKeepsBalance DEF TakeToken
    <2>2. ASSUME NEW clock \in Clocks, IsLimited(c, clock)
          PROVE  BucketInv'
      BY <2>2, ClocksLag, ScriptKeepsBalance DEF IsLimited
    <2>3. ASSUME NEW clock \in Clocks, FailOpen(c, clock)
          PROVE  BucketInv'
      <3>1. \A s \in adrift' : s \in adrift \/ s.clock = clock
        BY <2>3 DEF FailOpen
      <3> QED
        BY <2>3, <3>1, ClocksLag DEF FailOpen, BucketTyped, Dated, Balanced, Excess
    <2>4. CASE \E phase \in {"returned", "rejected"} : Answered(c, phase)
      BY <1>1, <2>4 DEF Answered
    <2>5. CASE TransientFailure(c) \/ Retry(c)
      BY <1>1, <2>5 DEF TransientFailure, Retry
    <2> QED
      BY <1>4, <2>1, <2>2, <2>3, <2>4, <2>5 DEF Proceed
  <1>5. CASE \E s \in adrift : LateRun(s)
    <2>1. PICK s \in adrift : LateRun(s)
      BY <1>5
    <2> QED
      BY <2>1, ScriptKeepsBalance DEF LateRun, Dated
  <1>6. CASE Tick
    BY <1>6, ClientAssumption DEF Tick, BucketTyped, Dated, Balanced, Excess
  <1> QED
    BY <1>2, <1>3, <1>4, <1>5, <1>6 DEF Next

(* From any granted token on, the bucket lets through at most a full       *)
(* bucket, what the time earned, and what old readings of the clock gave   *)
(* away, however old a reading may be when its script runs.                *)
THEOREM ThrottledAlways == Spec => []Throttled
  <1>1. Init => BucketInv
    BY ClientAssumption DEF Init, BucketInv, BucketTyped, Dated, Balanced
  <1>2. BucketInv /\ [Next]_vars => BucketInv'
    BY BucketInvStep
  <1>3. BucketInv => Throttled
    <2> SUFFICES ASSUME BucketInv PROVE Throttled
      OBVIOUS
    <2> DEFINE given == window.expired * Excess
    <2>1. /\ window.sent \in Nat /\ window.since \in Nat /\ window.rewound \in Nat
          /\ given \in Nat
          /\ bucket.tokens \in Nat /\ bucket.ts \in Nat /\ now \in Nat /\ Capacity \in Nat
          /\ window.since <= now /\ bucket.ts <= now
      BY ClientAssumption, ExcessType, OneMore DEF BucketInv, BucketTyped, Dated
    <2>2. window.sent > 0 => window.sent + bucket.tokens
            <= Capacity + (bucket.ts - window.since) + window.rewound + given
      BY DEF BucketInv, Balanced
    <2> HIDE DEF given
    <2>3. window.sent <= Capacity + (now - window.since) + window.rewound + given
      BY ONLY <2>1, <2>2
    <2> QED
      BY <2>3 DEF Throttled, Excess, given
  <1> QED
    BY <1>1, <1>2, <1>3, PTL DEF Spec

-----------------------------------------------------------------------------
(* Types.                                                                  *)

(* A power of two is a number: as many as there are subsets.               *)
LEMMA PowerOfTwo == ASSUME NEW k \in Nat PROVE 2 ^ k \in Nat
  <1>1. IsFiniteSet(1 .. k) /\ Cardinality(1 .. k) = k
    BY FS_Interval
  <1>2. IsFiniteSet(SUBSET (1 .. k)) /\ Cardinality(SUBSET (1 .. k)) = 2 ^ k
    BY <1>1, FS_SUBSET
  <1> QED
    BY <1>2, FS_CardinalityType

(* The delay before any attempt after the first is a time.                 *)
LEMMA DelayType == ASSUME NEW k \in Nat PROVE BackoffDelay(k + 2) \in Nat
  <1> DEFINE power == 2 ^ k
             delay == BackoffBase * power
  <1>1. power \in Nat /\ BackoffBase \in Nat /\ BackoffMax \in Nat
    BY PowerOfTwo, ClientAssumption
  <1> HIDE DEF power
  <1>2. delay \in Nat
    BY <1>1
  <1>3. BackoffDelay(k + 2) = Min({delay, BackoffMax})
    <2>1. (k + 2) - 2 = k
      OBVIOUS
    <2> QED
      BY <2>1 DEF BackoffDelay, power
  <1> HIDE DEF delay
  <1>4. delay \in Int /\ BackoffMax \in Int
    BY <1>1, <1>2
  <1>5. Min({delay, BackoffMax}) = IF delay <= BackoffMax THEN delay ELSE BackoffMax
    BY ONLY <1>4, TwoNumbers
  <1> QED
    BY <1>1, <1>2, <1>3, <1>5

(* A call that has begun is at its first attempt at least, and one that    *)
(* waits to try again is not at its last.                                  *)
Attempted ==
    \A c \in Calls :
        /\ call[c].pc \in Waiting => call[c].attempt >= 1
        /\ call[c].pc = "backoff" => call[c].attempt < MaxAttempts

ClientInv == TypeOK /\ Attempted

(* The script leaves less than a full bucket: it takes a token from one    *)
(* that has any.                                                           *)
LEMMA ScriptTypes ==
    ASSUME TypeOK, NEW clock \in 0 .. MaxTime, Granted(clock) \/ Denied(clock),
           NEW requests \in {0, 1}, Count(clock, requests)
    PROVE  bucket' \in Bucket /\ window' \in Window
  <1>1. /\ Capacity \in Nat \ {0} /\ MaxTime \in Nat /\ now \in 0 .. MaxTime
        /\ bucket.tokens \in 0 .. Capacity - 1 /\ bucket.ts \in 0 .. MaxTime
        /\ clock \in 0 .. MaxTime
    BY ClientAssumption DEF TypeOK, Bucket
  <1>2. Refilled(clock) \in 0 .. Capacity
    <2> DEFINE sum == bucket.tokens + Max({0, clock - bucket.ts})
    <2>1. Max({0, clock - bucket.ts}) = IF 0 >= clock - bucket.ts THEN 0 ELSE clock - bucket.ts
      BY <1>1, TwoNumbers
    <2>2. sum \in Nat
      BY <1>1, <2>1
    <2> HIDE DEF sum
    <2>3. Min({Capacity, sum}) = IF Capacity <= sum THEN Capacity ELSE sum
      <3>1. Capacity \in Int /\ sum \in Int
        BY <1>1, <2>2
      <3> QED
        BY ONLY <3>1, TwoNumbers
    <2>4. Refilled(clock) = IF Present THEN Min({Capacity, sum}) ELSE Capacity
      BY DEF Refilled, sum
    <2> QED
      BY <1>1, <2>2, <2>3, <2>4
  <1>3. bucket' \in Bucket
    BY <1>1, <1>2 DEF Granted, Denied, Stored, Bucket
  <1>4. Rewind(clock) \in Nat
    <2>1. Max({0, bucket.ts - clock}) = IF 0 >= bucket.ts - clock THEN 0 ELSE bucket.ts - clock
      BY <1>1, TwoNumbers
    <2> QED
      BY <1>1, <2>1 DEF Rewind
  <1>5. window' \in Window
    <2> DEFINE lost == Rewind(clock)
    <2>1. /\ window.sent + requests \in Nat /\ window.rewound + lost \in Nat
          /\ window.expired + Expiry \in Nat
      BY <1>4 DEF TypeOK, Window, Expiry
    <2>2. CASE window' = [window EXCEPT !.sent = @ + requests, !.rewound = @ + lost,
                                        !.expired = @ + Expiry]
      <3> HIDE DEF lost
      <3> QED
        BY <2>1, <2>2 DEF TypeOK, Window
    <2>3. CASE \/ UNCHANGED window
               \/ window' = [since |-> clock, sent |-> 1, rewound |-> 0, expired |-> 0]
      BY <1>1, <2>3 DEF TypeOK, Window
    <2> QED
      BY <2>2, <2>3 DEF Count
  <1> QED
    BY <1>3, <1>5

(* A call goes on to its request, or ends.                                 *)
LEMMA GotoTypes ==
    ASSUME ClientInv, NEW c \in Calls, call[c].pc \in Waiting,
           Goto(c, "request") \/ \E phase \in Ended : End(c, phase)
    PROVE  call' \in [Calls -> Call] /\ Attempted'
  <1>0. call \in [Calls -> Call] /\ Attempted /\ MaxAttempts \in Nat
    BY ClientAssumption DEF ClientInv, TypeOK
  <1>1. CASE Goto(c, "request")
    BY <1>0, <1>1 DEF Attempted, Goto, Call, Waiting, Ended
  <1>2. ASSUME NEW phase \in Ended, End(c, phase)
        PROVE  call' \in [Calls -> Call] /\ Attempted'
    BY <1>0, <1>2 DEF Attempted, End, Idle, Call, Waiting, Ended
  <1> QED
    BY <1>1, <1>2

(* Each step of a call keeps the types.                                    *)
LEMMA ProceedTypes ==
    ASSUME ClientInv, NEW c \in Calls, Proceed(c)
    PROVE  ClientInv'
  <1>0. /\ TypeOK /\ call \in [Calls -> Call] /\ call[c] \in Call
        /\ call[c].pc \in Waiting => call[c].attempt \in 1 .. MaxAttempts
        /\ adrift \subseteq Script
        /\ MaxAttempts \in Nat \ {0}
    BY ClientAssumption DEF ClientInv, TypeOK, Attempted, Call
  <1>1. ASSUME NEW clock \in Clocks, TakeToken(c, clock) \/ IsLimited(c, clock) \/ FailOpen(c, clock)
        PROVE  ClientInv'
    <2>1. /\ call[c].pc = "take" /\ now' = now
          /\ Goto(c, "request") \/ End(c, "limited")
          /\ adrift' \subseteq Script
      BY <1>0, <1>1 DEF TakeToken, IsLimited, FailOpen, Script, Clocks
    <2>2. call' \in [Calls -> Call] /\ Attempted'
      BY <2>1, GotoTypes DEF Waiting, Ended
    <2>3. bucket' \in Bucket /\ window' \in Window
      <3>1. CASE UNCHANGED <<bucket, window>>
        BY <1>0, <3>1 DEF TypeOK
      <3>2. CASE ~ UNCHANGED <<bucket, window>>
        <4>1. \/ Granted(clock) /\ (Count(clock, 1) \/ Count(clock, 0))
              \/ Denied(clock) /\ Count(clock, 0)
          BY <1>1, <3>2 DEF TakeToken, IsLimited, FailOpen
        <4> QED
          BY <1>0, <4>1, ScriptTypes DEF Clocks
      <3> QED
        BY <3>1, <3>2
    <2> QED
      BY <1>0, <2>1, <2>2, <2>3 DEF ClientInv, TypeOK
  <1>2. ASSUME NEW phase \in {"returned", "rejected"}, Answered(c, phase)
        PROVE  ClientInv'
    <2>1. call' \in [Calls -> Call] /\ Attempted'
      BY <1>2, GotoTypes DEF Answered, Ended, Waiting
    <2> QED
      BY <1>0, <1>2, <2>1 DEF Answered, ClientInv, TypeOK
  <1>3. CASE TransientFailure(c)
    <2>1. CASE End(c, "exhausted")
      <3>1. call' \in [Calls -> Call] /\ Attempted'
        BY <1>3, <2>1, GotoTypes DEF TransientFailure, Ended, Waiting
      <3> QED
        BY <1>0, <1>3, <3>1 DEF TransientFailure, ClientInv, TypeOK
    <2>2. CASE ~End(c, "exhausted")
      <3> DEFINE delay == BackoffDelay(call[c].attempt + 1)
      <3>1. PICK k \in Nat : call[c].attempt + 1 = k + 2
        <4>1. call[c].attempt - 1 \in Nat /\ call[c].attempt + 1 = (call[c].attempt - 1) + 2
          BY <1>0, <1>3 DEF TransientFailure, Waiting
        <4> QED
          BY <4>1
      <3>2. now + delay \in Nat
        <4>1. delay \in Nat
          BY <3>1, DelayType
        <4> HIDE DEF delay
        <4> QED
          BY <1>0, <4>1, ClientAssumption DEF TypeOK
      <3>3. call' = [call EXCEPT ![c].pc = "backoff", ![c].wake = now + delay]
        BY <1>3, <2>2 DEF TransientFailure
      <3> HIDE DEF delay
      <3>4. call' \in [Calls -> Call] /\ Attempted'
        BY <1>0, <1>3, <2>2, <3>2, <3>3 DEF TransientFailure, ClientInv, Attempted, Call, Waiting
      <3> QED
        BY <1>0, <1>3, <3>4 DEF TransientFailure, ClientInv, TypeOK
    <2> QED
      BY <2>1, <2>2
  <1>4. CASE Retry(c)
    <2>1. call[c].attempt + 1 \in 1 .. MaxAttempts
      BY <1>0, <1>4 DEF Retry, ClientInv, Attempted, Waiting
    <2>2. call' \in [Calls -> Call] /\ Attempted'
      BY <1>0, <1>4, <2>1 DEF Retry, ClientInv, Attempted, Call, Waiting
    <2> QED
      BY <1>0, <1>4, <2>2 DEF Retry, ClientInv, TypeOK
  <1> QED
    BY <1>1, <1>2, <1>3, <1>4 DEF Proceed

(* Every step keeps the types.                                             *)
LEMMA ClientInvStep == ClientInv /\ [Next]_vars => ClientInv'
  <1> SUFFICES ASSUME ClientInv, [Next]_vars
               PROVE  ClientInv'
    OBVIOUS
  <1>0. TypeOK /\ Attempted
    BY DEF ClientInv
  <1>1. ASSUME NEW c \in Calls, Begin(c)
        PROVE  ClientInv'
    <2>1. call' \in [Calls -> Call] /\ Attempted'
      BY <1>0, <1>1, ClientAssumption DEF Begin, TypeOK, Attempted, Call, Waiting
    <2> QED
      BY <1>0, <1>1, <2>1 DEF Begin, TypeOK, ClientInv
  <1>2. ASSUME NEW c \in Calls, Proceed(c)
        PROVE  ClientInv'
    BY <1>2, ProceedTypes
  <1>3. CASE Tick
    BY <1>0, <1>3, ClientAssumption DEF Tick, TypeOK, ClientInv, Attempted
  <1>4. ASSUME NEW s \in adrift, LateRun(s)
        PROVE  ClientInv'
    <2>1. adrift' \subseteq Script /\ now' = now /\ call' = call
      BY <1>0, <1>4 DEF LateRun, TypeOK
    <2>2. s.clock \in 0 .. MaxTime
      BY <1>0 DEF TypeOK, Script
    <2>3. bucket' \in Bucket /\ window' \in Window
      BY <1>0, <1>4, <2>2, ScriptTypes DEF LateRun
    <2> QED
      BY <1>0, <2>1, <2>3 DEF ClientInv, TypeOK, Attempted
  <1>5. CASE UNCHANGED vars \/ Finished
    BY <1>0, <1>5 DEF vars, Finished, TypeOK, ClientInv, Attempted
  <1> QED
    BY <1>1, <1>2, <1>3, <1>4, <1>5 DEF Next

(* The script never stores a full bucket or more, and no call makes more   *)
(* than MaxAttempts requests.                                              *)
THEOREM ClientTypes == Spec => []TypeOK
  <1>1. Init => ClientInv
    BY ClientAssumption DEF Init, ClientInv, TypeOK, Attempted, Bucket, Call, Window, Idle, Waiting
  <1>2. ClientInv => TypeOK
    BY DEF ClientInv
  <1> QED
    BY <1>1, <1>2, ClientInvStep, PTL DEF Spec
=============================================================================
