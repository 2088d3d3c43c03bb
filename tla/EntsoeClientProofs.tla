------------------------- MODULE EntsoeClientProofs -------------------------
(* The client's calls use the bucket as it is meant to be used, for any     *)
(* number of callers, attempts and backoffs.                                *)
EXTENDS EntsoeClient, FiniteSetTheorems, SequenceTheorems, TLAPS

BucketFacts == INSTANCE TokenBucketProofs

LEMMA InitIsBucketInit == Init => Bucket!Init
  BY DEF Init

LEMMA NextIsBucketNext == [Next]_vars => [Bucket!Next]_bucketVars
<1> SUFFICES ASSUME [Next]_vars
             PROVE  [Bucket!Next]_bucketVars
  OBVIOUS
<1>1. CASE Tick
  BY <1>1 DEF Tick, Bucket!Next
<1>2. ASSUME NEW c \in Callers, Begin(c)
      PROVE  UNCHANGED bucketVars
  BY <1>2 DEF Begin
<1>3. ASSUME NEW c \in Callers, Take(c)
      PROVE  Bucket!Next
  BY <1>3 DEF Take, Bucket!Next
<1>4. ASSUME NEW c \in Callers, Send(c)
      PROVE  Bucket!Next
  BY <1>4 DEF Send, Bucket!Next
<1>5. ASSUME NEW c \in Callers, NEW answer \in Answers, Answer(c, answer)
      PROVE  UNCHANGED bucketVars
  BY <1>5 DEF Answer
<1>6. ASSUME NEW c \in Callers, Resume(c)
      PROVE  UNCHANGED bucketVars
  BY <1>6 DEF Resume
<1>7. CASE UNCHANGED vars
  BY <1>7 DEF vars, bucketVars
<1> QED
  BY <1>1, <1>2, <1>3, <1>4, <1>5, <1>6, <1>7 DEF Next

(* Sets are counted alike wherever the counting is instantiated.            *)
LEMMA SameSets ==
  \A S : /\ BucketFacts!IsFiniteSet(S) <=> IsFiniteSet(S)
         /\ BucketFacts!Cardinality(S) = Cardinality(S)
         /\ Bucket!Cardinality(S) = Cardinality(S)
<1>1. \A S : BucketFacts!IsFiniteSet(S) <=> IsFiniteSet(S)
  BY DEF BucketFacts!IsFiniteSet, IsFiniteSet
<1>2. \A S : BucketFacts!Cardinality(S) = Cardinality(S)
  BY DEF BucketFacts!Cardinality, Cardinality
<1>3. \A S : Bucket!Cardinality(S) = Cardinality(S)
  BY DEF Bucket!Cardinality, Cardinality
<1> QED
  BY <1>1, <1>2, <1>3

(* The bucket the client uses is the bucket the theorems are about.         *)
LEMMA SameBucket ==
  /\ Bucket!Init => BucketFacts!Init
  /\ [Bucket!Next]_bucketVars => [BucketFacts!Next]_(BucketFacts!vars)
  /\ BucketFacts!RateHolds => Bucket!RateHolds
  /\ BucketFacts!Queued => Bucket!Queued
  /\ BucketFacts!BoundedWait => Bucket!BoundedWait
  /\ BucketFacts!TypeOK => Bucket!TypeOK
  /\ \A c \in Callers : Bucket!Acquire(c) => BucketFacts!Acquire(c)
  /\ \A c \in Callers : Bucket!Return(c) => BucketFacts!Return(c)
  /\ Bucket!Tick => BucketFacts!Tick
<1>1. /\ Bucket!Full = BucketFacts!Full
      /\ Bucket!Awake = BucketFacts!Awake
  BY DEF Bucket!Full, BucketFacts!Full, Bucket!Awake, BucketFacts!Awake
<1>2. Bucket!Refilled = BucketFacts!Refilled
  BY <1>1 DEF Bucket!Refilled, BucketFacts!Refilled
<1>3. /\ Bucket!Shortfall(Bucket!Refilled)
           = BucketFacts!Shortfall(BucketFacts!Refilled)
      /\ Bucket!Spent(Bucket!Refilled) = BucketFacts!Spent(BucketFacts!Refilled)
  BY <1>2 DEF Bucket!Shortfall, BucketFacts!Shortfall,
              Bucket!Spent, BucketFacts!Spent
<1>4. Bucket!Init => BucketFacts!Init
  BY <1>1 DEF Bucket!Init, BucketFacts!Init
<1>5. \A c \in Callers : Bucket!Acquire(c) => BucketFacts!Acquire(c)
  BY <1>1, <1>3 DEF Bucket!Acquire, BucketFacts!Acquire
<1>6. \A c \in Callers : Bucket!Return(c) => BucketFacts!Return(c)
  BY <1>1 DEF Bucket!Return, BucketFacts!Return
<1>7. Bucket!Tick => BucketFacts!Tick
  BY DEF Bucket!Tick, BucketFacts!Tick
<1>8. [Bucket!Next]_bucketVars => [BucketFacts!Next]_(BucketFacts!vars)
  BY <1>5, <1>6, <1>7 DEF Bucket!Next, BucketFacts!Next, bucketVars,
                          BucketFacts!vars
<1>9. /\ BucketFacts!RateHolds => Bucket!RateHolds
      /\ BucketFacts!Queued => Bucket!Queued
      /\ BucketFacts!TypeOK => Bucket!TypeOK
  BY DEF BucketFacts!RateHolds, Bucket!RateHolds, BucketFacts!Queued,
         Bucket!Queued, BucketFacts!TypeOK, Bucket!TypeOK,
         BucketFacts!Awake, Bucket!Awake
<1>10. BucketFacts!BoundedWait => Bucket!BoundedWait
  BY SameSets DEF BucketFacts!BoundedWait, Bucket!BoundedWait
<1> QED
  BY <1>4, <1>5, <1>6, <1>7, <1>8, <1>9, <1>10

(* A call takes a token before each of its requests, and nothing else the   *)
(* client does touches the bucket (fetch).                                  *)
THEOREM ClientUsesBucket == Spec => BucketSpec
<1>1. [Bucket!Next]_bucketVars => [Bucket!Next]_(Bucket!vars)
  BY DEF bucketVars, Bucket!vars
<1> QED
  BY <1>1, NextIsBucketNext, InitIsBucketInit, PTL
     DEF Spec, BucketSpec, Bucket!Spec

(* The client's steps are those the theorems of the bucket are about.       *)
LEMMA ClientIsBucketFacts == Spec => BucketFacts!Spec
  BY SameBucket, NextIsBucketNext, InitIsBucketInit, PTL
     DEF Spec, BucketFacts!Spec

LEMMA BucketAssumption == BucketFacts!BucketOK
  BY ClientOK, SameSets DEF BucketFacts!BucketOK

(* However many threads share a client, and whatever they are answered, the *)
(* times they are let through keep within the burst and the refill.         *)
THEOREM ClientKeepsRate == Spec => []RateHolds
  BY BucketAssumption, BucketFacts!RateHoldsAlways, ClientIsBucketFacts,
     SameBucket, PTL DEF RateHolds, Queued

(* The client's waiting threads are a token apart.                          *)
THEOREM ClientQueues == Spec => []Queued
  BY BucketAssumption, BucketFacts!QueuedAlways, ClientIsBucketFacts,
     SameBucket, PTL DEF RateHolds, Queued

(* Nobody who shares a client waits longer than a token for each thread     *)
(* asleep, himself included.                                                *)
THEOREM ClientWaitsAreBounded == Spec => []BoundedWait
  BY BucketAssumption, BucketFacts!BoundedWaitAlways, ClientIsBucketFacts,
     SameBucket, PTL DEF BoundedWait

-----------------------------------------------------------------------------
(* The calls and their requests.                                            *)

Request == [caller : Callers, n : Nat, at : Nat, answer : {"none"} \cup Answers]

CallTypes == call \in [Callers -> Call] /\ requests \in Seq(Request)

(* What a caller has sent so far in this call, by where it is: it asks only *)
(* for the answer to its newest request, and goes on only while all answers *)
(* were transient.                                                          *)
Sent(c) == RequestsOf(c, call[c].n)
Transient(i) == requests[i].answer = "transient"
AllBut(c, answer) ==
  \E last \in Sent(c) :
    /\ requests[last].answer = answer
    /\ \A i \in Sent(c) \ {last} : i < last /\ Transient(i)

CallOK(c) ==
  LET k == call[c]
  IN  /\ k.pc # "idle" => k.outcome = "none" /\ k.attempt >= 1
      /\ k.pc \in {"acquire", "asleep"} =>
           /\ Cardinality(Sent(c)) = k.attempt - 1
           /\ \A i \in Sent(c) : Transient(i)
      /\ k.pc = "backoff" =>
           /\ Cardinality(Sent(c)) = k.attempt /\ k.attempt < MaxAttempts
           /\ \A i \in Sent(c) : Transient(i)
      /\ k.pc = "flight" => Cardinality(Sent(c)) = k.attempt /\ AllBut(c, "none")
      /\ k.outcome = "unavailable" =>
           Cardinality(Sent(c)) = MaxAttempts /\ \A i \in Sent(c) : Transient(i)
      /\ k.outcome \in {"429", "interpreted"} => AllBut(c, k.outcome)
      /\ \A i \in DOMAIN requests : requests[i].caller = c =>
           /\ requests[i].n <= k.n
           /\ requests[i].answer = "none" => k.pc = "flight" /\ requests[i].n = k.n

CallsInv == CallTypes /\ \A c \in Callers : CallOK(c)

(* A call whose record, and whose requests, stand is undisturbed.           *)
LEMMA OtherCall ==
  ASSUME NEW c \in Callers, CallOK(c), call'[c] = call[c],
         \A i \in DOMAIN requests' : requests'[i].caller = c =>
           i \in DOMAIN requests /\ requests'[i] = requests[i],
         \A i \in DOMAIN requests : requests[i].caller = c =>
           i \in DOMAIN requests' /\ requests'[i] = requests[i]
  PROVE  CallOK(c)'
<1>1. Sent(c)' = Sent(c)
  BY DEF Sent, RequestsOf
<1>2. \A i \in Sent(c) : requests'[i] = requests[i]
  BY DEF Sent, RequestsOf
<1>3. \A answer : AllBut(c, answer) => AllBut(c, answer)'
  BY <1>1, <1>2 DEF AllBut, Transient
<1>4. (\A i \in Sent(c) : Transient(i)) => (\A i \in Sent(c) : Transient(i))'
  BY <1>1, <1>2 DEF Transient
<1> QED
  BY <1>1, <1>3, <1>4 DEF CallOK

LEMMA FiniteSent ==
  ASSUME CallTypes, NEW c \in Callers
  PROVE  IsFiniteSet(Sent(c)) /\ Cardinality(Sent(c)) \in Nat
<1>1. DOMAIN requests = 1 .. Len(requests) /\ Len(requests) \in Nat
  BY DEF CallTypes
<1>2. IsFiniteSet(DOMAIN requests)
  BY <1>1, FS_Interval
<1> QED
  BY <1>2, FS_Subset, FS_CardinalityType DEF Sent, RequestsOf

LEMMA BeginStep ==
  ASSUME CallsInv, NEW c \in Callers, Begin(c)
  PROVE  CallsInv'
<1>1. /\ call[c] \in Call /\ call \in [Callers -> Call] /\ CallOK(c)
      /\ requests' = requests /\ requests \in Seq(Request)
      /\ call' = [call EXCEPT ![c] = [pc |-> "acquire", n |-> @.n + 1,
                    attempt |-> 1, until |-> 0, outcome |-> "none"]]
  BY DEF CallsInv, CallTypes, Begin
<1>2. CallTypes'
  BY <1>1, ClientOK DEF CallTypes, Call, Outcomes
<1>3. CallOK(c)'
  <2>1. /\ call'[c].pc = "acquire" /\ call'[c].n = call[c].n + 1
        /\ call'[c].attempt = 1 /\ call'[c].outcome = "none"
        /\ call[c].n \in Nat /\ call[c].pc = "idle"
    BY <1>1 DEF Call, Begin
  <2>2. \A i \in DOMAIN requests : requests[i].n \in Nat
    <3>1. \A i \in DOMAIN requests : requests[i] \in Request
      BY <1>1
    <3> QED
      BY <3>1 DEF Request
  <2>3. Sent(c)' = {}
    BY <1>1, <2>1, <2>2 DEF CallOK, Sent, RequestsOf
  <2>4. Cardinality(Sent(c)') = 0
    BY <2>3, FS_EmptySet
  <2> QED
    BY <1>1, <2>1, <2>2, <2>3, <2>4 DEF CallOK
<1>4. ASSUME NEW d \in Callers, d # c
      PROVE  CallOK(d)'
  BY <1>1, <1>4, OtherCall DEF CallsInv
<1> QED
  BY <1>2, <1>3, <1>4 DEF CallsInv

LEMMA TakeStep ==
  ASSUME CallsInv, NEW c \in Callers, Take(c)
  PROVE  CallsInv'
<1>1. /\ call[c] \in Call /\ call \in [Callers -> Call] /\ CallOK(c)
      /\ call[c].pc = "acquire"
      /\ requests' = requests /\ requests \in Seq(Request)
      /\ call' = [call EXCEPT ![c].pc = "asleep"]
  BY DEF CallsInv, CallTypes, Take
<1>2. CallTypes'
  BY <1>1 DEF CallTypes, Call
<1>3. CallOK(c)'
  <2>1. /\ call'[c].pc = "asleep" /\ call'[c].n = call[c].n
        /\ call'[c].attempt = call[c].attempt
        /\ call'[c].outcome = call[c].outcome
    BY <1>1 DEF Call
  <2>2. Sent(c)' = Sent(c)
    BY <1>1, <2>1 DEF Sent, RequestsOf
  <2> QED
    BY <1>1, <2>1, <2>2 DEF CallOK, Transient
<1>4. ASSUME NEW d \in Callers, d # c
      PROVE  CallOK(d)'
  BY <1>1, <1>4, OtherCall DEF CallsInv
<1> QED
  BY <1>2, <1>3, <1>4 DEF CallsInv

LEMMA ResumeStep ==
  ASSUME CallsInv, NEW c \in Callers, Resume(c)
  PROVE  CallsInv'
<1>1. /\ call[c] \in Call /\ call \in [Callers -> Call] /\ CallOK(c)
      /\ call[c].pc = "backoff"
      /\ requests' = requests /\ requests \in Seq(Request)
      /\ call' = [call EXCEPT ![c] =
           [call[c] EXCEPT !.pc = "acquire", !.attempt = @ + 1]]
  BY DEF CallsInv, CallTypes, Resume
<1>2. call[c].attempt + 1 \in 0 .. MaxAttempts
  BY <1>1, ClientOK DEF CallOK, Call
<1>3. CallTypes'
  BY <1>1, <1>2 DEF CallTypes, Call
<1>4. CallOK(c)'
  <2>1. /\ call'[c].pc = "acquire" /\ call'[c].n = call[c].n
        /\ call'[c].attempt = call[c].attempt + 1
        /\ call'[c].outcome = call[c].outcome
        /\ call[c].attempt \in Nat
    BY <1>1 DEF Call
  <2>2. Sent(c)' = Sent(c)
    BY <1>1, <2>1 DEF Sent, RequestsOf
  <2> QED
    BY <1>1, <2>1, <2>2 DEF CallOK, Transient
<1>5. ASSUME NEW d \in Callers, d # c
      PROVE  CallOK(d)'
  BY <1>1, <1>5, OtherCall DEF CallsInv
<1> QED
  BY <1>3, <1>4, <1>5 DEF CallsInv

LEMMA SendStep ==
  ASSUME CallsInv, now \in Nat, NEW c \in Callers, Send(c)
  PROVE  CallsInv'
<1> DEFINE new == [caller |-> c, n |-> call[c].n, at |-> now, answer |-> "none"]
           n == Len(requests)
<1>1. /\ call[c] \in Call /\ call \in [Callers -> Call] /\ CallOK(c)
      /\ call[c].pc = "asleep"
      /\ requests' = Append(requests, new) /\ requests \in Seq(Request)
      /\ call' = [call EXCEPT ![c].pc = "flight"]
      /\ new \in Request
  BY DEF CallsInv, CallTypes, Send, Call, Request
<1>2. /\ n \in Nat /\ DOMAIN requests = 1 .. n /\ DOMAIN requests' = 1 .. n + 1
      /\ requests'[n + 1] = new /\ requests' \in Seq(Request)
      /\ \A i \in 1 .. n : requests'[i] = requests[i]
  BY <1>1
<1>3. /\ new.caller = c /\ new.n = call[c].n /\ new.answer = "none"
  OBVIOUS
<1> HIDE DEF new
<1>4. CallTypes'
  BY <1>1, <1>2 DEF CallTypes, Call
<1>5. CallOK(c)'
  <2>1. /\ call'[c].pc = "flight" /\ call'[c].n = call[c].n
        /\ call'[c].attempt = call[c].attempt
        /\ call'[c].outcome = call[c].outcome
        /\ call[c].attempt \in Nat /\ call[c].n \in Nat
    BY <1>1 DEF Call
  <2>2. Sent(c)' = Sent(c) \cup {n + 1} /\ n + 1 \notin Sent(c)
    BY <1>2, <1>3, <2>1 DEF Sent, RequestsOf
  <2>3. Cardinality(Sent(c)') = call[c].attempt
    <3>1. Cardinality(Sent(c)') = Cardinality(Sent(c)) + 1
      BY <2>2, FiniteSent, FS_AddElement DEF CallsInv
    <3> QED
      BY <1>1, <2>1, <3>1 DEF CallOK
  <2>4. AllBut(c, "none")'
    <3>1. \A i \in Sent(c) : i < n + 1 /\ requests'[i].answer = "transient"
      BY <1>1, <1>2 DEF CallOK, Sent, RequestsOf, Transient
    <3> QED
      BY <1>2, <1>3, <2>2, <3>1 DEF AllBut, Transient
  <2>5. \A i \in DOMAIN requests' : requests'[i].caller = c =>
          requests'[i].n <= call[c].n /\
          (requests'[i].answer = "none" => requests'[i].n = call[c].n)
    BY <1>1, <1>2, <1>3, <2>1 DEF CallOK
  <2> QED
    BY <1>1, <2>1, <2>3, <2>4, <2>5 DEF CallOK
<1>6. ASSUME NEW d \in Callers, d # c
      PROVE  CallOK(d)'
  BY <1>1, <1>2, <1>3, <1>6, OtherCall DEF CallsInv
<1> QED
  BY <1>4, <1>5, <1>6 DEF CallsInv

LEMMA AnswerStep ==
  ASSUME CallsInv, now \in Nat, NEW c \in Callers, NEW answer \in Answers,
         Answer(c, answer)
  PROVE  CallsInv'
<1> DEFINE k == call[c]
<1>1. /\ k \in Call /\ call \in [Callers -> Call] /\ CallOK(c)
      /\ k.pc = "flight" /\ k.outcome = "none" /\ k.attempt >= 1
      /\ requests \in Seq(Request) /\ requests' = Answered(c, answer)
  BY DEF CallsInv, CallTypes, Answer, CallOK
<1>2. /\ DOMAIN requests' = DOMAIN requests /\ requests' \in Seq(Request)
      /\ \A i \in DOMAIN requests :
           /\ requests[i] \in Request
           /\ requests'[i].caller = requests[i].caller
           /\ requests'[i].n = requests[i].n
           /\ IF requests[i].caller = c /\ requests[i].answer = "none"
              THEN requests'[i].answer = answer
              ELSE requests'[i] = requests[i]
  <2>1. \A i \in DOMAIN requests : requests[i] \in Request
    BY <1>1
  <2>2. ASSUME NEW i \in DOMAIN requests
        PROVE  [requests[i] EXCEPT !.answer = answer] \in Request
    BY <2>1 DEF Request
  <2>3. requests' = [i \in DOMAIN requests |->
           IF requests[i].caller = c /\ requests[i].answer = "none"
           THEN [requests[i] EXCEPT !.answer = answer] ELSE requests[i]]
    BY <1>1 DEF Answered
  <2>4. \A i \in DOMAIN requests : requests'[i] \in Request
    BY <2>1, <2>2, <2>3
  <2>5. requests' \in Seq(Request)
    <3>1. DOMAIN requests' = 1 .. Len(requests) /\ Len(requests) \in Nat
      BY <1>1, <2>3
    <3>2. requests' \in [1 .. Len(requests) -> Request]
      BY <1>1, <2>1, <2>2, <2>3
    <3> QED
      BY <3>1, <3>2, SeqDef
  <2> QED
    BY <2>1, <2>2, <2>3, <2>5 DEF Request
<1> DEFINE Moved ==
        /\ call' \in [Callers -> Call]
        /\ \A d \in Callers \ {c} : call'[d] = call[d]
        /\ call'[c].n = k.n /\ call'[c].attempt = k.attempt
        /\ \/ /\ answer # "transient"
              /\ call'[c].pc = "idle" /\ call'[c].outcome = answer
           \/ /\ answer = "transient" /\ k.attempt < MaxAttempts
              /\ call'[c].pc = "backoff" /\ call'[c].outcome = "none"
           \/ /\ answer = "transient" /\ ~(k.attempt < MaxAttempts)
              /\ call'[c].pc = "idle" /\ call'[c].outcome = "unavailable"
<1>3. Moved
  <2>1. CASE /\ ~Retries(answer)
             /\ call' = [call EXCEPT ![c] =
                  [k EXCEPT !.pc = "idle", !.outcome = answer]]
    BY <1>1, <2>1 DEF Call, Outcomes, Answers, Retries
  <2>2. ASSUME Retries(answer), Another(k.attempt),
               NEW pause \in 0 .. Ceiling(k.attempt),
               call' = [call EXCEPT ![c] =
                 [k EXCEPT !.pc = "backoff", !.until = now + pause]]
        PROVE  Moved
    <3>1. now + pause \in Nat
      OBVIOUS
    <3>2. [k EXCEPT !.pc = "backoff", !.until = now + pause] \in Call
      BY <1>1, <3>1 DEF Call
    <3> QED
      BY <1>1, <2>2, <3>2 DEF Call, Retries, Another
  <2>3. CASE /\ Retries(answer) /\ ~Another(k.attempt)
             /\ call' = [call EXCEPT ![c] =
                  [k EXCEPT !.pc = "idle", !.outcome = "unavailable"]]
    BY <1>1, <2>3 DEF Call, Outcomes, Retries, Another
  <2> QED
    <3> HIDE DEF Moved
    <3> QED
      BY <2>1, <2>2, <2>3 DEF Answer
<1>4. Sent(c)' = Sent(c)
  BY <1>2, <1>3 DEF Sent, RequestsOf
<1>5. AllBut(c, answer)'
  <2>1. PICK last \in Sent(c) :
          /\ requests[last].answer = "none"
          /\ \A i \in Sent(c) \ {last} : i < last /\ Transient(i)
    BY <1>1 DEF CallOK, AllBut
  <2>2. requests'[last].answer = answer
    BY <1>2, <2>1 DEF Sent, RequestsOf
  <2>3. \A i \in Sent(c) \ {last} : Transient(i)'
    BY <1>2, <2>1 DEF Sent, RequestsOf, Transient
  <2> QED
    BY <1>4, <2>1, <2>2, <2>3 DEF AllBut
<1>6. answer = "transient" => \A i \in Sent(c) : Transient(i)'
  BY <1>4, <1>5 DEF AllBut, Transient
<1>7. \A i \in DOMAIN requests' : requests'[i].caller = c =>
        requests'[i].n <= k.n /\ requests'[i].answer # "none"
  BY <1>1, <1>2 DEF CallOK, Answers
<1>8. Cardinality(Sent(c)) = k.attempt /\ k.attempt \in 0 .. MaxAttempts
  BY <1>1 DEF CallOK, Call
<1>9. CallOK(c)'
  <2>1. CASE answer # "transient"
    BY <1>1, <1>2, <1>3, <1>4, <1>5, <1>7, <1>8, <2>1 DEF CallOK, Answers
  <2>2. CASE answer = "transient" /\ k.attempt < MaxAttempts
    BY <1>1, <1>2, <1>3, <1>4, <1>6, <1>7, <1>8, <2>2 DEF CallOK, Transient
  <2>3. CASE answer = "transient" /\ ~(k.attempt < MaxAttempts)
    <3>1. k.attempt = MaxAttempts
      BY <1>8, <2>3, ClientOK
    <3> QED
      BY <1>1, <1>2, <1>3, <1>4, <1>6, <1>7, <1>8, <2>3, <3>1
         DEF CallOK, Transient
  <2> QED
    BY <2>1, <2>2, <2>3
<1>10. ASSUME NEW d \in Callers, d # c
       PROVE  CallOK(d)'
  BY <1>2, <1>3, <1>10, OtherCall DEF CallsInv
<1> QED
  BY <1>2, <1>3, <1>9, <1>10 DEF CallsInv, CallTypes

LEMMA NextCallsInv == CallsInv /\ now \in Nat /\ [Next]_vars => CallsInv'
<1> SUFFICES ASSUME CallsInv, now \in Nat, [Next]_vars
             PROVE  CallsInv'
  OBVIOUS
<1>1. ASSUME UNCHANGED <<call, requests>>
      PROVE  CallsInv'
  <2>1. \A c \in Callers : CallOK(c)'
    BY <1>1, OtherCall DEF CallsInv
  <2> QED
    BY <1>1, <2>1 DEF CallsInv, CallTypes
<1>2. CASE Tick
  BY <1>1, <1>2 DEF Tick
<1>3. ASSUME NEW c \in Callers, Begin(c) \/ Take(c) \/ Send(c) \/ Resume(c)
      PROVE  CallsInv'
  BY <1>3, BeginStep, TakeStep, SendStep, ResumeStep
<1>4. ASSUME NEW c \in Callers, NEW answer \in Answers, Answer(c, answer)
      PROVE  CallsInv'
  BY <1>4, AnswerStep
<1>5. CASE UNCHANGED vars
  BY <1>1, <1>5 DEF vars
<1> QED
  BY <1>2, <1>3, <1>4, <1>5 DEF Next

LEMMA InitCallsInv == Init => CallsInv
<1> SUFFICES ASSUME Init PROVE CallsInv
  OBVIOUS
<1>1. CallTypes
  BY ClientOK DEF Init, CallTypes, Call, Outcomes
<1>2. DOMAIN requests = {}
  BY DEF Init
<1> QED
  BY <1>1, <1>2 DEF Init, CallsInv, CallOK

LEMMA BucketTypes == Spec => []BucketFacts!TypeOK
  BY BucketAssumption, BucketFacts!TypeCorrect, ClientIsBucketFacts, PTL

LEMMA CallsInvariance == Spec => [](BucketFacts!TypeOK /\ CallsInv)
<1>1. BucketFacts!TypeOK => now \in Nat
  BY DEF BucketFacts!TypeOK
<1> QED
  BY <1>1, InitCallsInv, NextCallsInv, BucketTypes, PTL DEF Spec

(* Every variable of the client and of its bucket stays in its domain, for  *)
(* any callers, rates, attempts and backoffs.                               *)
THEOREM TypeCorrect == Spec => []TypeOK
<1>1. BucketFacts!TypeOK /\ CallsInv => TypeOK
  BY SameBucket DEF CallsInv, CallTypes, Request, TypeOK
<1> QED
  BY <1>1, CallsInvariance, PTL

(* A call's outcome is earned by its own requests, whatever the others do   *)
(* (fetch).                                                                 *)
THEOREM OutcomeIsEarnedHolds == Spec => []OutcomeIsEarned
<1>1. CallsInv => OutcomeIsEarned
  BY DEF CallsInv, CallOK, OutcomeIsEarned, AllBut, Sent, Transient
<1> QED
  BY <1>1, CallsInvariance, PTL

-----------------------------------------------------------------------------
(* Requests and the slots they were let through for.                        *)

Sleeping == {c \in Callers : wake[c] # -1}
N == Cardinality(Callers)

(* A slot is spent, or slept on.                                            *)
SlotsAccounted == Len(slots) = Len(requests) + Cardinality(Sleeping)

(* The j-th request leaves no earlier than the j-th slot; slots handed out  *)
(* once the i-th has left are no earlier than it, and of those before, at   *)
(* most one for each caller was not yet spent.                              *)
RequestsFollowSlots ==
  \A j \in DOMAIN requests :
    /\ j <= Len(slots) /\ slots[j] <= requests[j].at
    /\ \A k \in DOMAIN slots : j + N <= k => requests[j].at <= slots[k]

InOrder ==
  \A i, j \in DOMAIN requests :
    requests[j].at <= now /\ (i <= j => requests[i].at <= requests[j].at)

RequestsInv == SlotsAccounted /\ RequestsFollowSlots /\ InOrder

Typed ==
  /\ now \in Nat /\ tokens \in Int /\ updated \in Nat
  /\ wake \in [Callers -> Nat \cup {-1}]
  /\ slots \in Seq(Nat) /\ CallTypes
  /\ N \in Nat /\ Unit \in Nat \ {0} /\ Burst \in Nat

LEMMA TypedAlways == BucketFacts!TypeOK /\ CallTypes => Typed
<1>1. N \in Nat
  BY ClientOK, FS_CardinalityType DEF N
<1> QED
  BY <1>1, ClientOK DEF BucketFacts!TypeOK, BucketFacts!Awake, Typed

LEMMA SleepingFinite ==
  /\ IsFiniteSet(Sleeping) /\ Cardinality(Sleeping) \in Nat
  /\ Cardinality(Sleeping) <= N
<1>1. Sleeping \subseteq Callers
  BY DEF Sleeping
<1> QED
  BY <1>1, ClientOK, FS_Subset, FS_CardinalityType DEF N

LEMMA TakeKeepsRequests ==
  ASSUME Typed, RequestsInv, NEW c \in Callers, Take(c)
  PROVE  RequestsInv'
<1> DEFINE n == Len(slots)
<1>1. PICK slot \in Nat :
        /\ slot >= now /\ slots' = Append(slots, slot) /\ now' = now
        /\ wake' = [wake EXCEPT ![c] = slot] /\ wake[c] = -1
        /\ requests' = requests
  <2>1. Bucket!Acquire(c) /\ requests' = requests
    BY DEF Take
  <2> DEFINE slot == now + Bucket!Shortfall(Bucket!Refilled)
  <2>2. slot \in Nat /\ slot >= now
    <3>1. Bucket!Full \in Int
      BY DEF Bucket!Full, Typed
    <3>2. Bucket!Refilled \in Int
      BY <3>1 DEF Bucket!Refilled, Typed
    <3> QED
      BY <3>2 DEF Bucket!Shortfall, Typed
  <2> QED
    BY <2>1, <2>2 DEF Bucket!Acquire, Bucket!Awake
<1>2. /\ n \in Nat /\ DOMAIN slots = 1 .. n /\ DOMAIN slots' = 1 .. n + 1
      /\ Len(slots') = n + 1 /\ slots'[n + 1] = slot
      /\ \A i \in 1 .. n : slots'[i] = slots[i]
  BY <1>1 DEF Typed
<1>3. /\ Len(requests) \in Nat /\ DOMAIN requests = 1 .. Len(requests)
      /\ \A i \in DOMAIN requests : requests[i].at \in Nat
  <2>1. \A i \in DOMAIN requests : requests[i] \in Request
    BY DEF Typed, CallTypes
  <2> QED
    BY <2>1 DEF Typed, CallTypes, Request
<1>4. SlotsAccounted'
  <2>1. Sleeping' = Sleeping \cup {c} /\ c \notin Sleeping
    BY <1>1 DEF Sleeping, Typed
  <2>2. Cardinality(Sleeping') = Cardinality(Sleeping) + 1
    BY <2>1, SleepingFinite, FS_AddElement
  <2> QED
    BY <1>1, <1>2, <1>3, <2>2, SleepingFinite DEF RequestsInv, SlotsAccounted
<1>5. RequestsFollowSlots'
  <2>1. ASSUME NEW j \in DOMAIN requests, NEW k \in 1 .. n + 1, j + N <= k
        PROVE  requests[j].at <= slots'[k]
    <3>1. requests[j].at <= now
      BY DEF RequestsInv, InOrder
    <3>2. CASE k = n + 1
      BY <1>1, <1>2, <1>3, <3>1, <3>2 DEF Typed
    <3>3. CASE k \in 1 .. n
      BY <1>2, <2>1, <3>3 DEF RequestsInv, RequestsFollowSlots
    <3> QED
      BY <1>2, <3>2, <3>3
  <2>2. \A j \in DOMAIN requests : j <= n + 1 /\ slots'[j] <= requests[j].at
    BY <1>2, <1>3 DEF RequestsInv, RequestsFollowSlots
  <2> QED
    BY <1>1, <1>2, <2>1, <2>2 DEF RequestsFollowSlots, N
<1>6. InOrder'
  BY <1>1 DEF RequestsInv, InOrder
<1> QED
  BY <1>4, <1>5, <1>6 DEF RequestsInv

(* The slot a request spends has come: the slots still to come have other   *)
(* sleepers.                                                                *)
LEMMA SendKeepsRequests ==
  ASSUME Typed, RequestsInv, BucketFacts!SlotsHaveSleepers,
         BucketFacts!PastOrBeforeNext, NEW c \in Callers, Send(c)
  PROVE  RequestsInv'
<1> DEFINE n == Len(slots)
           r == Len(requests)
           a == Cardinality(Sleeping)
<1>1. /\ wake[c] # -1 /\ wake[c] <= now /\ wake' = [wake EXCEPT ![c] = -1]
      /\ now' = now /\ slots' = slots
  BY DEF Send, Bucket!Return, Bucket!Awake
<1>2. /\ n \in Nat /\ r \in Nat /\ a \in Nat /\ a <= N /\ N \in Nat /\ n = r + a
      /\ DOMAIN slots = 1 .. n /\ DOMAIN requests = 1 .. r
      /\ \A i \in 1 .. n : slots[i] \in Nat
      /\ now \in Nat
  BY SleepingFinite DEF Typed, CallTypes, RequestsInv, SlotsAccounted
<1>3. /\ DOMAIN requests' = 1 .. r + 1 /\ Len(requests') = r + 1
      /\ \A i \in 1 .. r : requests'[i] = requests[i] /\ requests[i].at \in Nat
      /\ requests'[r + 1].at = now
  <2> DEFINE new == [caller |-> c, n |-> call[c].n, at |-> now, answer |-> "none"]
  <2>1. requests' = Append(requests, new) /\ new.at = now
    BY DEF Send
  <2>2. requests \in Seq(Request)
    BY DEF Typed, CallTypes
  <2>3. \A i \in 1 .. r : requests[i] \in Request
    BY <2>2
  <2>4. \A i \in 1 .. r : requests[i].at \in Nat
    BY <2>3 DEF Request
  <2>5. new \in Request
    BY DEF Typed, CallTypes, Call, Request
  <2> HIDE DEF new
  <2> QED
    BY <2>1, <2>2, <2>4, <2>5
<1>4. Cardinality(Sleeping') = a - 1 /\ c \in Sleeping
      /\ Sleeping' = Sleeping \ {c}
  <2>1. Sleeping' = Sleeping \ {c} /\ c \in Sleeping
    BY <1>1 DEF Sleeping, Typed
  <2> QED
    BY <2>1, SleepingFinite, FS_RemoveElement
<1>5. a >= 1
  <2>1. Sleeping # {}
    BY <1>4
  <2> QED
    BY <1>2, <2>1, SleepingFinite, FS_EmptySet
<1>6. slots[r + 1] <= now
  <2> SUFFICES ASSUME slots[r + 1] > now PROVE FALSE
    BY <1>2, <1>5
  <2> DEFINE S == {d \in Callers : wake[d] >= slots[r + 1]}
  <2>1. r + 1 \in DOMAIN slots
    BY <1>2, <1>5
  <2>2. n - (r + 1) + 1 <= Cardinality(S)
    BY <2>1, SameSets DEF BucketFacts!SlotsHaveSleepers
  <2>3. S \subseteq Sleeping'
    <3> SUFFICES ASSUME NEW d \in Callers, wake[d] >= slots[r + 1]
                 PROVE  d \in Sleeping \ {c}
      BY <1>4
    <3>1. slots[r + 1] \in Nat /\ wake[d] \in Int /\ wake[c] \in Int
      BY <1>2, <2>1 DEF Typed
    <3>2. d # c /\ wake[d] # -1
      BY <1>1, <1>2, <3>1
    <3> QED
      BY <3>2 DEF Sleeping
  <2>4. Cardinality(S) <= a - 1 /\ Cardinality(S) \in Nat
    BY <1>4, <2>3, SleepingFinite, FS_Subset, FS_RemoveElement, FS_CardinalityType
  <2> QED
    BY <1>2, <2>2, <2>4
<1>7. SlotsAccounted'
  BY <1>1, <1>2, <1>3, <1>4 DEF SlotsAccounted
<1>8. RequestsFollowSlots'
  <2>1. ASSUME NEW j \in 1 .. r
        PROVE  /\ j <= n /\ slots[j] <= requests[j].at
               /\ \A k \in DOMAIN slots : j + N <= k => requests[j].at <= slots[k]
    BY <1>2 DEF RequestsInv, RequestsFollowSlots
  <2>2. \A k \in 1 .. n : ~(r + 1 + N <= k)
    BY <1>2
  <2>3. ASSUME NEW j \in 1 .. r + 1
        PROVE  /\ j <= n /\ slots[j] <= requests'[j].at
               /\ \A k \in DOMAIN slots : j + N <= k => requests'[j].at <= slots[k]
    <3>1. CASE j = r + 1
      BY <1>2, <1>3, <1>5, <1>6, <2>2, <3>1
    <3>2. CASE j \in 1 .. r
      BY <1>3, <2>1, <3>2
    <3> QED
      BY <1>2, <3>1, <3>2
  <2> QED
    BY <1>1, <1>3, <2>3 DEF RequestsFollowSlots, N
<1>9. InOrder'
  <2>1. \A i \in 1 .. r : requests'[i].at <= now
    BY <1>2, <1>3 DEF RequestsInv, InOrder
  <2>2. \A i, j \in 1 .. r : i <= j => requests'[i].at <= requests'[j].at
    BY <1>2, <1>3 DEF RequestsInv, InOrder
  <2>3. \A i, j \in 1 .. r + 1 : i <= j => requests'[i].at <= requests'[j].at
    <3> SUFFICES ASSUME NEW i \in 1 .. r + 1, NEW j \in 1 .. r + 1, i <= j
                 PROVE  requests'[i].at <= requests'[j].at
      OBVIOUS
    <3> HIDE DEF n, r, a
    <3>1. CASE j \in 1 .. r
      BY <1>2, <2>2, <3>1
    <3>2. CASE j = r + 1 /\ i \in 1 .. r
      BY <1>3, <2>1, <3>2
    <3>3. CASE j = r + 1 /\ i = r + 1
      BY <1>2, <1>3, <3>3
    <3> QED
      BY <1>2, <3>1, <3>2, <3>3
  <2> QED
    BY <1>1, <1>2, <1>3, <2>1, <2>3 DEF InOrder
<1> QED
  BY <1>7, <1>8, <1>9 DEF RequestsInv

LEMMA OtherKeepsRequests ==
  ASSUME Typed, RequestsInv, UNCHANGED <<wake, slots>>, now' \in Nat, now <= now',
         DOMAIN requests' = DOMAIN requests, Len(requests') = Len(requests),
         \A i \in DOMAIN requests : requests'[i].at = requests[i].at
  PROVE  RequestsInv'
<1>1. \A i \in DOMAIN requests : requests[i].at \in Nat
  <2>1. \A i \in DOMAIN requests : requests[i] \in Request
    BY DEF Typed, CallTypes
  <2> QED
    BY <2>1 DEF Request
<1>2. SlotsAccounted' /\ RequestsFollowSlots'
  BY DEF RequestsInv, SlotsAccounted, Sleeping, RequestsFollowSlots, N
<1>3. InOrder'
  BY <1>1 DEF Typed, RequestsInv, InOrder
<1> QED
  BY <1>2, <1>3 DEF RequestsInv

LEMMA NextRequestsInv ==
  /\ Typed /\ BucketFacts!SlotsHaveSleepers /\ BucketFacts!PastOrBeforeNext
  /\ RequestsInv
  /\ [Next]_vars
  => RequestsInv'
<1> SUFFICES ASSUME Typed, RequestsInv, BucketFacts!SlotsHaveSleepers,
                    BucketFacts!PastOrBeforeNext, [Next]_vars
             PROVE  RequestsInv'
  OBVIOUS
<1>1. ASSUME UNCHANGED <<wake, slots, requests>>, now' \in Nat, now <= now'
      PROVE  RequestsInv'
  BY <1>1, OtherKeepsRequests
<1>2. CASE Tick
  BY <1>1, <1>2 DEF Tick, Bucket!Tick, Typed
<1>3. ASSUME NEW c \in Callers, Begin(c) \/ Resume(c)
      PROVE  RequestsInv'
  BY <1>1, <1>3 DEF Begin, Resume, bucketVars, Typed
<1>4. ASSUME NEW c \in Callers, Take(c) \/ Send(c)
      PROVE  RequestsInv'
  BY <1>4, TakeKeepsRequests, SendKeepsRequests
<1>5. ASSUME NEW c \in Callers, NEW answer \in Answers, Answer(c, answer)
      PROVE  RequestsInv'
  <2>1. /\ UNCHANGED <<now, wake, slots>>
        /\ requests' = Answered(c, answer)
    BY <1>5 DEF Answer, bucketVars
  <2>2. /\ requests \in Seq(Request)
        /\ \A i \in DOMAIN requests : requests[i] \in Request
    BY DEF Typed, CallTypes
  <2>3. /\ DOMAIN requests' = 1 .. Len(requests) /\ Len(requests) \in Nat
        /\ DOMAIN requests = 1 .. Len(requests)
        /\ \A i \in DOMAIN requests : requests'[i].at = requests[i].at
    BY <2>1, <2>2 DEF Answered, Request
  <2>4. Len(requests') = Len(requests)
    <3>1. requests' \in Seq(Request)
      <4>1. \A i \in DOMAIN requests :
              [requests[i] EXCEPT !.answer = answer] \in Request
        BY <2>2 DEF Request
      <4>2. requests' \in [1 .. Len(requests) -> Request]
        BY <2>1, <2>2, <2>3, <4>1 DEF Answered
      <4> QED
        BY <2>3, <4>2, SeqDef
    <3> QED
      BY <2>3, <3>1
  <2> QED
    BY <2>1, <2>3, <2>4, OtherKeepsRequests DEF Typed
<1>6. CASE UNCHANGED vars
  BY <1>1, <1>6 DEF vars, bucketVars, Typed
<1> QED
  BY <1>2, <1>3, <1>4, <1>5, <1>6 DEF Next

LEMMA InitRequestsInv == Init => RequestsInv
<1> SUFFICES ASSUME Init PROVE RequestsInv
  OBVIOUS
<1>1. Sleeping = {}
  BY DEF Init, Bucket!Init, Bucket!Awake, Sleeping
<1>2. Cardinality(Sleeping) = 0
  BY <1>1, FS_EmptySet
<1> QED
  BY <1>2 DEF Init, Bucket!Init, RequestsInv, SlotsAccounted,
              RequestsFollowSlots, InOrder

LEMMA BucketQueue == Spec => []BucketFacts!QueueInv
  BY BucketAssumption, BucketFacts!QueueInvariance, ClientIsBucketFacts, PTL

LEMMA RequestsInvariance ==
  Spec => [](Typed /\ BucketFacts!QueueInv /\ RequestsInv)
<1>1. BucketFacts!TypeOK /\ CallsInv => Typed
  BY TypedAlways DEF CallsInv
<1>2. BucketFacts!QueueInv =>
        BucketFacts!SlotsHaveSleepers /\ BucketFacts!PastOrBeforeNext
  BY DEF BucketFacts!QueueInv
<1> QED
  BY <1>1, <1>2, CallsInvariance, BucketQueue, InitRequestsInv,
     NextRequestsInv, PTL DEF Spec

(* A window of any length sees no more requests than the rate allows and    *)
(* one more for each caller, however late callers wake and send.            *)
THEOREM RequestsBoundedAlways == Spec => []RequestsBounded
<1>1. ASSUME Typed, RequestsInv, BucketFacts!RateHolds,
             NEW i \in DOMAIN requests, NEW j \in DOMAIN requests, i <= j
      PROVE  (j - i + 1 - Burst - N) * Unit <= requests[j].at - requests[i].at
  <2>1. /\ i \in Nat /\ j \in Nat /\ N \in Nat /\ Unit \in Nat \ {0} /\ Burst \in Nat
        /\ DOMAIN slots = 1 .. Len(slots) /\ Len(slots) \in Nat
        /\ \A k \in DOMAIN slots : slots[k] \in Nat
    BY <1>1 DEF Typed, CallTypes
  <2>2. requests[i].at \in Nat /\ requests[j].at \in Nat
    <3>1. requests[i] \in Request /\ requests[j] \in Request
      BY <1>1 DEF Typed, CallTypes
    <3> QED
      BY <3>1 DEF Request
  <2>3. CASE i + N <= j
    <3>1. i + N \in DOMAIN slots /\ j \in DOMAIN slots /\ i + N \in Nat
      <4>1. 1 <= i /\ j <= Len(slots)
        BY <1>1 DEF Typed, CallTypes, RequestsInv, RequestsFollowSlots
      <4> QED
        BY <2>1, <2>3, <4>1
    <3>2. (j - (i + N) + 1 - Burst) * Unit <= slots[j] - slots[i + N]
      BY <1>1, <2>3, <3>1 DEF BucketFacts!RateHolds
    <3>3. requests[i].at <= slots[i + N] /\ slots[j] <= requests[j].at
      BY <1>1, <2>1, <3>1 DEF RequestsInv, RequestsFollowSlots
    <3>4. j - (i + N) + 1 - Burst = j - i + 1 - Burst - N
      BY <2>1
    <3>5. (j - i + 1 - Burst - N) * Unit \in Int
      <4>1. j - i + 1 - Burst - N \in Int
        BY <2>1
      <4> QED
        BY <2>1, <4>1
    <3> DEFINE p == (j - i + 1 - Burst - N) * Unit
    <3>6. p \in Int /\ p <= slots[j] - slots[i + N]
      BY <3>2, <3>4, <3>5
    <3>7. slots[j] \in Nat /\ slots[i + N] \in Nat
      BY <2>1, <3>1
    <3> HIDE DEF p
    <3>8. p <= requests[j].at - requests[i].at
      BY <2>2, <3>3, <3>6, <3>7
    <3> QED
      BY <3>8 DEF p
  <2>4. CASE ~(i + N <= j)
    <3> DEFINE m == j - i + 1 - Burst - N
    <3>1. m \in Int /\ m <= 0
      <4>1. j - i + 1 - N <= 0
        BY <2>1, <2>4
      <4> QED
        BY <2>1, <4>1
    <3>2. requests[i].at <= requests[j].at
      BY <1>1 DEF RequestsInv, InOrder
    <3> HIDE DEF m
    <3>3. m * Unit <= 0 /\ m * Unit \in Int
      BY <2>1, <3>1
    <3>4. m * Unit <= requests[j].at - requests[i].at
      BY <2>2, <3>2, <3>3
    <3> QED
      BY <3>4 DEF m
  <2> QED
    BY <2>3, <2>4
<1>2. Typed /\ BucketFacts!QueueInv /\ RequestsInv => RequestsBounded
  <2>1. BucketFacts!QueueInv => BucketFacts!RateHolds
    BY DEF BucketFacts!QueueInv, BucketFacts!IInv
  <2> QED
    BY <1>1, <2>1 DEF RequestsBounded, N
<1> QED
  BY <1>2, RequestsInvariance, PTL
=============================================================================
