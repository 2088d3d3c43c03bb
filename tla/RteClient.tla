----------------------------- MODULE RteClient -----------------------------
(* ingest/rte.py: threads that call fetch on one client and share its       *)
(* bearer token, which nothing locks.  Time is in ticks.  The wait for the  *)
(* bucket and the backoff before it are one wait of any length: TokenBucket *)
(* and EntsoeClient say how long.                                           *)
(*                                                                          *)
(* External: the token endpoint, the resource and the network (Grant,       *)
(* Refuse, Answer).  The endpoint may give the same token again, and take   *)
(* any back, whenever it likes.                                             *)
EXTENDS Integers

CONSTANTS
  Callers,
  MaxAttempts,    \* max_attempts
  Skew,           \* TOKEN_SKEW_SECONDS
  Lifetimes,      \* what expires_in may say
  MaxTime,        \* bound on the clock
  MaxCalls        \* bound on the calls of each caller

ASSUME RteOK ==
  /\ MaxAttempts \in Nat \ {0} /\ Skew \in Nat
  /\ MaxTime \in Nat /\ MaxCalls \in Nat
  /\ Lifetimes \subseteq Nat
  /\ \E l \in Lifetimes : \A o \in Lifetimes : o <= l

Longest == CHOOSE l \in Lifetimes : \A o \in Lifetimes : o <= l

VARIABLES
  now,
  token,      \* _token, or None
  expires,    \* _expires_at
  pause,      \* history: the longest between a thread's two writes of them
  call        \* the call each caller is in

vars == <<now, token, expires, pause, call>>

(* A token: when it was given out, for how long, and when it was stored.    *)
Token == [at : Nat, lifetime : Nat \cup {-1}, arrived : Nat]
None == [at |-> 0, lifetime |-> -1, arrived |-> 0]

(* A result, a 403, a 429 and another 4xx are all definite; raised is an    *)
(* error nothing catches.                                                   *)
Outcomes == {"none", "auth", "unavailable", "definite", "raised"}

Call ==
  [pc : {"idle", "waiting", "looked", "posting", "issued", "kept", "checked", "flight"},
   n : Nat, attempt : 0 .. MaxAttempts, refreshed : BOOLEAN,
   mine : Token,        \* the token the endpoint just gave this caller
   bearer : Token,      \* the token of its last request
   checked : Nat,       \* when it found that token good
   stale : BOOLEAN,     \* history: none was stored since it dropped one,
   endpoint : {"none", "refused", "down"},   \* what the endpoint said last,
   transient : Nat,     \* and its failures by kind
   unauthorized : Nat,
   outcome : Outcomes]

Fresh == [pc |-> "idle", n |-> 0, attempt |-> 0, refreshed |-> FALSE,
          mine |-> None, bearer |-> None, checked |-> 0, stale |-> FALSE,
          endpoint |-> "none", transient |-> 0, unauthorized |-> 0,
          outcome |-> "none"]

Init ==
  /\ now = 0
  /\ token = None
  /\ expires = 0
  /\ pause = 0
  /\ call = [c \in Callers |-> Fresh]

-----------------------------------------------------------------------------
Tick ==
  /\ now < MaxTime
  /\ now' = now + 1
  /\ UNCHANGED <<token, expires, pause, call>>

(* fetch is called.                                                         *)
Begin(c) ==
  /\ call[c].pc = "idle" /\ call[c].n < MaxCalls
  /\ call' = [call EXCEPT ![c] =
       [Fresh EXCEPT !.pc = "waiting", !.n = call[c].n + 1, !.attempt = 1]]
  /\ UNCHANGED <<now, token, expires, pause>>

(* acquire returned, and _bearer looks whether there is a token,            *)
Look(c) ==
  /\ call[c].pc = "waiting"
  /\ call' = [call EXCEPT ![c].pc = IF token # None THEN "looked" ELSE "posting"]
  /\ UNCHANGED <<now, token, expires, pause>>

(* and then at the expiry, which may be of another by now.                  *)
Check(c) ==
  /\ call[c].pc = "looked"
  /\ call' = [call EXCEPT ![c] =
       IF now < expires THEN [@ EXCEPT !.pc = "checked", !.checked = now]
                        ELSE [@ EXCEPT !.pc = "posting"]]
  /\ UNCHANGED <<now, token, expires, pause>>

(* The endpoint gives out a token, and it may be a while under way.         *)
Grant(c) ==
  /\ call[c].pc = "posting"
  /\ \E lifetime \in Lifetimes :
       call' = [call EXCEPT ![c] = [@ EXCEPT !.pc = "issued",
         !.mine = [at |-> now, lifetime |-> lifetime, arrived |-> now]]]
  /\ UNCHANGED <<now, token, expires, pause>>

(* The token is stored, and only then its expiry: two writes, and another   *)
(* thread's may come between.                                               *)
Keep(c) ==
  /\ call[c].pc = "issued"
  /\ token' = [call[c].mine EXCEPT !.arrived = now]
  /\ call' = [d \in Callers |->
       IF d = c THEN [call[c] EXCEPT !.pc = "kept", !.mine = token', !.stale = FALSE]
                ELSE [call[d] EXCEPT !.stale = FALSE]]
  /\ UNCHANGED <<now, expires, pause>>

(* Faulty variant: the expiry is taken at its word.                         *)
LateExpiry(lifetime) == now + lifetime

Expiry(lifetime) == now + IF lifetime > Skew THEN lifetime - Skew ELSE 0

Date(c) ==
  LET took == now - call[c].mine.arrived
  IN  /\ call[c].pc = "kept"
      /\ expires' = Expiry(call[c].mine.lifetime)
      /\ pause' = IF took > pause THEN took ELSE pause
      /\ call' = [call EXCEPT ![c] = [@ EXCEPT !.pc = "checked", !.checked = now,
                                               !.mine = None]]
      /\ UNCHANGED <<now, token>>

(* _bearer returns _token, whatever it is by now, and the request leaves.   *)
Send(c) ==
  /\ call[c].pc = "checked"
  /\ call' = [call EXCEPT ![c] = [@ EXCEPT !.pc = "flight", !.bearer = token]]
  /\ UNCHANGED <<now, token, expires, pause>>

(* The call is over, and of its requests only the counts are kept.          *)
Ended(k, outcome) ==
  [k EXCEPT !.pc = "idle", !.outcome = outcome, !.mine = None, !.bearer = None,
            !.checked = 0, !.stale = FALSE]

Ends(c, outcome) == call' = [call EXCEPT ![c] = Ended(@, outcome)]

(* The payload has no token, or its expires_in is no number, by when the    *)
(* token is stored beside the old expiry.                                   *)
Unreadable(c) ==
  /\ call[c].pc \in {"issued", "kept"}
  /\ Ends(c, "raised")
  /\ UNCHANGED <<now, token, expires, pause>>

NextAttempt(k) ==
  [k EXCEPT !.pc = "waiting", !.attempt = @ + 1, !.bearer = None, !.checked = 0]

(* Faulty variant: one attempt fewer is made.                               *)
LastAttemptEarly(c) == call[c].attempt >= MaxAttempts - 1

(* Faulty variant: one more.                                                *)
LastAttemptLate(c) == call[c].attempt > MaxAttempts

LastAttempt(c) == call[c].attempt = MaxAttempts

(* The attempt failed: another, or none.                                    *)
Failed(c, k) ==
  call' = [call EXCEPT ![c] = IF LastAttempt(c) THEN Ended(k, "unavailable")
                                                ELSE NextAttempt(k)]

(* A transport error, of either request, or a 5xx.                          *)
Transient(c) == Failed(c, [call[c] EXCEPT !.transient = @ + 1])

(* Faulty variant: the token is kept, and so is the attempt.                *)
RefreshInPlace(c) ==
  /\ call' = [call EXCEPT ![c].pc = "waiting"]
  /\ UNCHANGED token

(* Faulty variant: the token is kept.                                       *)
RefreshKeepsToken(c) ==
  /\ Failed(c, [call[c] EXCEPT !.unauthorized = @ + 1, !.refreshed = TRUE,
                               !.stale = TRUE])
  /\ UNCHANGED token

(* The first 401: the next attempt fetches a token.  There may be none.     *)
Refresh(c) ==
  /\ Failed(c, [call[c] EXCEPT !.unauthorized = @ + 1, !.refreshed = TRUE,
                               !.stale = TRUE])
  /\ token' = None

(* "one forced refresh, then believe the 401"                               *)
Unauthorized(c) ==
  \/ /\ ~call[c].refreshed
     /\ Refresh(c)
  \/ /\ call[c].refreshed
     /\ call' = [call EXCEPT ![c] =
          Ended([call[c] EXCEPT !.unauthorized = @ + 1], "auth")]
     /\ UNCHANGED token

(* The endpoint says no, which is not asked again.                          *)
Denied(c, endpoint, outcome) ==
  call' = [call EXCEPT ![c] = Ended([@ EXCEPT !.endpoint = endpoint], outcome)]

(* No token comes: a transport error; the credentials are refused; or any   *)
(* other status.                                                            *)
Refuse(c) ==
  /\ call[c].pc = "posting"
  /\ \/ Transient(c)
     \/ Denied(c, "refused", "auth")
     \/ Denied(c, "down", "unavailable")
  /\ UNCHANGED <<now, token, expires, pause>>

Alive(t) == t # None /\ now < t.at + t.lifetime

(* The request is answered, or lost.  A live token may have been taken      *)
(* back, and a dead one or none be met with a 403, a 429 or another 4xx.    *)
Answer(c) ==
  /\ call[c].pc = "flight"
  /\ \/ Transient(c) /\ UNCHANGED token
     \/ Ends(c, "definite") /\ UNCHANGED token
     \/ Unauthorized(c)
  /\ UNCHANGED <<now, expires, pause>>

-----------------------------------------------------------------------------
Step(c) ==
  \/ Look(c)
  \/ Check(c)
  \/ Grant(c)
  \/ Keep(c)
  \/ Date(c)
  \/ Unreadable(c)
  \/ Send(c)
  \/ Refuse(c)
  \/ Answer(c)

Next ==
  \/ Tick
  \/ \E c \in Callers : Begin(c) \/ Step(c)

(* The bucket lets every caller through, and a request is answered or times *)
(* out.                                                                     *)
Spec == Init /\ [][Next]_vars /\ \A c \in Callers : WF_vars(Step(c))

-----------------------------------------------------------------------------
TypeOK ==
  /\ now \in 0 .. MaxTime /\ expires \in Nat /\ pause \in Nat
  /\ token \in Token
  /\ call \in [Callers -> Call]

Failures(k) == k.transient + k.unauthorized

(* However the threads take the token from under each other, a call says    *)
(* credentials rejected only at its second 401, or when the token endpoint  *)
(* refuses them; it says unavailable only when every attempt failed, or     *)
(* when the token endpoint is down; and it makes no request after a definite *)
(* answer, of either endpoint (fetch).                                      *)
OutcomeIsEarned ==
  \A c \in Callers :
    LET k == call[c]
    IN  /\ k.unauthorized <= 2 /\ Failures(k) <= MaxAttempts
        /\ k.unauthorized = 2 => k.outcome = "auth"
        /\ k.outcome = "auth" => k.unauthorized = 2 \/ k.endpoint = "refused"
        /\ k.outcome = "unavailable" =>
             Failures(k) = MaxAttempts \/ k.endpoint = "down"
        /\ (\/ k.endpoint # "none"
            \/ k.outcome \in {"definite", "raised"}
            \/ k.outcome = "none" /\ k.n > 0) => Failures(k) = k.attempt - 1

(* The caller's request arrives now with a token that outlives the skew.    *)
Arrives(k) == k.pc = "flight" /\ k.bearer # None /\ k.bearer.lifetime > Skew

(* How long the token was under way to the client, its expiry to its place, *)
(* and the request to the resource.                                         *)
UnderWay(k) == (k.bearer.arrived - k.bearer.at) + pause + (now - k.checked)

(* "so a call never starts with a token that expires mid-flight"            *)
(* (TOKEN_SKEW_SECONDS): a token that lives longer than the skew is alive   *)
(* when a request arrives, unless its own delivery and the request's took   *)
(* longer than the skew together.                                           *)
NeverExpiresMidFlight ==
  \A c \in Callers :
    (Arrives(call[c]) /\ UnderWay(call[c]) <= Skew) => Alive(call[c].bearer)

(* What the skew does cover, however the threads' writes of token and expiry *)
(* fall between each other: also what a token lives less than another.      *)
FreshOnArrival ==
  \A c \in Callers :
    (/\ Arrives(call[c])
     /\ UnderWay(call[c]) + (Longest - call[c].bearer.lifetime) <= Skew) =>
      Alive(call[c].bearer)

(* "one forced refresh": after a 401 no request of the call leaves before a *)
(* token was stored anew, though other threads check, fetch and drop tokens *)
(* meanwhile (fetch, _bearer).                                              *)
RefreshIsForced == \A c \in Callers : call[c].pc = "flight" => ~call[c].stale

(* Every call ends, whatever the endpoints do (fetch).                      *)
CallEnds == \A c \in Callers : []<>(call[c].pc = "idle")
=============================================================================
