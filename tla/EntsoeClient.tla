---------------------------- MODULE EntsoeClient ----------------------------
(* ingest/entsoe.py: threads that call fetch on one client, through one     *)
(* token bucket.  A call makes up to MaxAttempts requests, each after a     *)
(* token and, from the second on, after a jittered backoff.  Only a         *)
(* transport error or a 5xx is worth another attempt.                       *)
(*                                                                          *)
(* External: the platform and the network (Answer), which may take any time *)
(* and say anything.                                                        *)
EXTENDS Integers, Sequences, FiniteSets

CONSTANTS Callers, Unit, Burst, MaxTime, MaxGrants,
  MaxAttempts,   \* max_attempts
  Base,          \* backoff_base, in ticks
  Cap            \* backoff_cap

ASSUME ClientOK ==
  /\ IsFiniteSet(Callers)
  /\ Unit \in Nat \ {0} /\ Burst \in Nat \ {0}
  /\ MaxTime \in Nat /\ MaxGrants \in Nat
  /\ MaxAttempts \in Nat \ {0} /\ Base \in Nat /\ Cap \in Nat

VARIABLES now, tokens, updated, wake, slots,
  call,       \* the call each caller is in
  requests    \* history: what was sent, and what came back

bucketVars == <<now, tokens, updated, wake, slots>>
vars == <<bucketVars, call, requests>>

Bucket == INSTANCE TokenBucket

(* A transport error or a 5xx; a 429, which raises RateLimited; and what    *)
(* _interpret turns into a FetchResult, EntsoeNoData or another rejection.  *)
Answers == {"transient", "429", "interpreted"}
Outcomes == {"none", "unavailable", "429", "interpreted"}
Call == [pc : {"idle", "acquire", "asleep", "flight", "backoff"},
         n : Nat, attempt : 0 .. MaxAttempts, until : Nat, outcome : Outcomes]

Init ==
  /\ Bucket!Init
  /\ call = [c \in Callers |-> [pc |-> "idle", n |-> 0, attempt |-> 0,
                                until |-> 0, outcome |-> "none"]]
  /\ requests = <<>>

(* fetch is called.                                                         *)
Begin(c) ==
  /\ call[c].pc = "idle"
  /\ call' = [call EXCEPT ![c] = [pc |-> "acquire", n |-> @.n + 1,
                attempt |-> 1, until |-> 0, outcome |-> "none"]]
  /\ UNCHANGED <<bucketVars, requests>>

Take(c) ==
  /\ call[c].pc = "acquire"
  /\ Bucket!Acquire(c)
  /\ call' = [call EXCEPT ![c].pc = "asleep"]
  /\ UNCHANGED requests

(* The token is there and the request leaves.                               *)
Send(c) ==
  /\ call[c].pc = "asleep"
  /\ Bucket!Return(c)
  /\ call' = [call EXCEPT ![c].pc = "flight"]
  /\ requests' = Append(requests, [caller |-> c, n |-> call[c].n, at |-> now,
                                   answer |-> "none"])

Ceiling(attempt) ==
  LET exponential == Base * 2^(attempt - 1)
  IN  IF exponential < Cap THEN exponential ELSE Cap

(* Faulty variants: one attempt too many; a 429 is retried like a 5xx.      *)
AnotherPastTheEnd(attempt) == attempt <= MaxAttempts
RetriesBan(answer) == answer # "interpreted"

Another(attempt) == attempt < MaxAttempts
Retries(answer) == answer = "transient"

(* The answer to the caller's last request, now known.                      *)
Answered(c, answer) ==
  [i \in DOMAIN requests |->
     IF /\ requests[i].caller = c /\ requests[i].answer = "none"
     THEN [requests[i] EXCEPT !.answer = answer]
     ELSE requests[i]]

Answer(c, answer) ==
  LET attempt == call[c].attempt
      Ends(outcome) == [call[c] EXCEPT !.pc = "idle", !.outcome = outcome]
  IN  /\ call[c].pc = "flight"
      /\ requests' = Answered(c, answer)
      /\ \/ /\ ~Retries(answer)
            /\ call' = [call EXCEPT ![c] = Ends(answer)]
         \/ /\ Retries(answer) /\ Another(attempt)
            /\ \E pause \in 0 .. Ceiling(attempt) :
                 call' = [call EXCEPT ![c] =
                   [@ EXCEPT !.pc = "backoff", !.until = now + pause]]
         \/ /\ Retries(answer) /\ ~Another(attempt)
            /\ call' = [call EXCEPT ![c] = Ends("unavailable")]
      /\ UNCHANGED bucketVars

(* The backoff is over.                                                     *)
Resume(c) ==
  /\ call[c].pc = "backoff"
  /\ call[c].until <= now
  /\ call' = [call EXCEPT ![c].pc = "acquire", ![c].attempt = @ + 1]
  /\ UNCHANGED <<bucketVars, requests>>

Tick ==
  /\ Bucket!Tick
  /\ UNCHANGED <<call, requests>>

Next ==
  \/ Tick
  \/ \E c \in Callers :
       \/ Begin(c)
       \/ Take(c)
       \/ Send(c)
       \/ \E answer \in Answers : Answer(c, answer)
       \/ Resume(c)

Spec == Init /\ [][Next]_vars

-----------------------------------------------------------------------------
TypeOK ==
  /\ Bucket!TypeOK
  /\ call \in [Callers -> Call]
  /\ requests \in Seq([caller : Callers, n : Nat, at : Nat,
                       answer : {"none"} \cup Answers])

(* The calls take tokens as the bucket's specification says, and only so:  *)
(* what TokenBucket promises holds of them.                                 *)
BucketSpec == Bucket!Spec

(* The limiter's promise, below any mix of calls, attempts and backoffs     *)
(* (TokenBucket.acquire): a window of w ticks holds at most Burst + w / Unit*)
(* of the times it hands out.                                               *)
RateHolds == Bucket!RateHolds

(* Callers that wait do so a token apart (the comment in acquire).          *)
Queued == Bucket!Queued

(* A caller waits at most one token for each caller still asleep (acquire). *)
BoundedWait == Bucket!BoundedWait

(* Callers sleep longer than asked, are slow to send, and share the bucket; *)
(* still, a window of w ticks sees at most Burst + w / Unit requests and one*)
(* for each caller that was late for its slot.                              *)
RequestsBounded ==
  \A i, j \in DOMAIN requests :
    i <= j => (j - i + 1 - Burst - Cardinality(Callers)) * Unit
                 <= requests[j].at - requests[i].at

(* The requests of call n of a caller, as positions in the order sent.      *)
RequestsOf(c, n) ==
  {i \in DOMAIN requests : requests[i].caller = c /\ requests[i].n = n}

(* A call says unavailable only when all its attempts were used up and every*)
(* one failed transiently; any other outcome is the answer to its last      *)
(* request, the first that was definite: nothing is sent after a 429, and   *)
(* no definite answer is thrown away for another attempt (fetch).           *)
OutcomeIsEarned ==
  \A c \in Callers :
    LET sent == RequestsOf(c, call[c].n)
        Transient(i) == requests[i].answer = "transient"
    IN  /\ call[c].outcome = "unavailable" =>
             Cardinality(sent) = MaxAttempts /\ \A i \in sent : Transient(i)
        /\ call[c].outcome \in {"429", "interpreted"} =>
             \E last \in sent :
               /\ requests[last].answer = call[c].outcome
               /\ \A i \in sent \ {last} : i < last /\ Transient(i)
=============================================================================
