-------------------------- MODULE RteClientProofs --------------------------
(* What holds of the client for any number of threads, attempts and tokens, *)
(* any skew and any lifetimes.                                              *)
EXTENDS RteClient, TLAPS

(* A call that is going on has failed once per attempt before this one; a   *)
(* call that is over says what OutcomeIsEarned lets it say.                 *)
GoingOn(k) ==
  /\ k.outcome = "none" /\ k.endpoint = "none"
  /\ k.n > 0
  /\ k.attempt \in 1 .. MaxAttempts
  /\ Failures(k) = k.attempt - 1
  /\ k.unauthorized = IF k.refreshed THEN 1 ELSE 0

Over(k) ==
  /\ k.unauthorized <= 2 /\ Failures(k) <= MaxAttempts
  /\ k.unauthorized = 2 => k.outcome = "auth"
  /\ k.outcome = "none" => k.n = 0
  /\ k.outcome = "auth" => k.unauthorized = 2 \/ k.endpoint = "refused"
  /\ k.outcome = "unavailable" => Failures(k) = MaxAttempts \/ k.endpoint = "down"
  /\ k.endpoint # "none" => Failures(k) = k.attempt - 1
  /\ k.outcome \in {"definite", "raised"} => Failures(k) = k.attempt - 1

Accounted(k) == IF k.pc = "idle" THEN Over(k) ELSE GoingOn(k)

CallOK(k) == k \in Call /\ Accounted(k)

CallsOK == \A c \in Callers : CallOK(call[c])

-----------------------------------------------------------------------------
LEMMA NoneIsToken == None \in Token
  BY RteOK DEF None, Token

LEMMA FreshOK == CallOK(Fresh)
  BY NoneIsToken, RteOK DEF CallOK, Call, Accounted, Over, Failures, Fresh, Outcomes

(* A call that goes on to another step of the same attempt.                 *)
LEMMA GoesOn ==
  ASSUME NEW k, CallOK(k), k.pc # "idle",
         NEW pc \in {"waiting", "looked", "posting", "issued", "kept", "checked", "flight"},
         NEW mine \in Token, NEW bearer \in Token, NEW checked \in Nat,
         NEW stale \in BOOLEAN
  PROVE  CallOK([k EXCEPT !.pc = pc, !.mine = mine, !.bearer = bearer,
                          !.checked = checked, !.stale = stale])
  BY DEF CallOK, Call, Accounted, GoingOn, Failures

(* Nothing the outcome is earned with hangs on stale.                       *)
LEMMA StaleIsHistory ==
  ASSUME NEW k, CallOK(k)
  PROVE  CallOK([k EXCEPT !.stale = FALSE])
  BY DEF CallOK, Call, Accounted, GoingOn, Over, Failures

LEMMA EndedOK ==
  ASSUME NEW k \in Call, NEW outcome \in Outcomes, Over([k EXCEPT !.outcome = outcome])
  PROVE  CallOK(Ended(k, outcome))
<1> DEFINE e == Ended(k, outcome)
           j == [k EXCEPT !.outcome = outcome]
<1>1. e \in Call
  BY NoneIsToken DEF Call, Ended, Outcomes
<1>2. /\ e.pc = "idle" /\ e.outcome = j.outcome /\ e.n = j.n
      /\ e.attempt = j.attempt /\ e.transient = j.transient
      /\ e.unauthorized = j.unauthorized /\ e.endpoint = j.endpoint
  BY DEF Call, Ended
<1>3. Over(j)
  OBVIOUS
<1> HIDE DEF e, j
<1>4. Over(e)
  BY <1>2, <1>3 DEF Over, Failures
<1> QED
  BY <1>1, <1>2, <1>4 DEF CallOK, Accounted, e

LEMMA NextAttemptOK ==
  ASSUME NEW k \in Call, k.outcome = "none", k.endpoint = "none", k.n > 0,
         k.attempt \in 1 .. MaxAttempts, k.attempt # MaxAttempts,
         Failures(k) = k.attempt,
         k.unauthorized = IF k.refreshed THEN 1 ELSE 0
  PROVE  CallOK(NextAttempt(k))
<1> DEFINE e == NextAttempt(k)
<1>0. k.attempt + 1 \in 1 .. MaxAttempts /\ 0 \in Nat
  BY RteOK
<1>1. e \in Call
  <2>1. k.attempt + 1 \in 0 .. MaxAttempts
    BY <1>0
  <2> HIDE DEF e
  <2>2. e = [k EXCEPT !.pc = "waiting", !.attempt = k.attempt + 1,
                      !.bearer = None, !.checked = 0]
    BY DEF e, NextAttempt
  <2> QED
    BY <1>0, <2>1, <2>2, NoneIsToken DEF Call
<1>2. /\ e.pc = "waiting" /\ e.outcome = k.outcome /\ e.n = k.n
      /\ e.attempt = k.attempt + 1 /\ e.transient = k.transient
      /\ e.unauthorized = k.unauthorized /\ e.refreshed = k.refreshed
      /\ e.endpoint = k.endpoint
  BY DEF Call, NextAttempt
<1> HIDE DEF e
<1>3. e.attempt \in 1 .. MaxAttempts /\ e.attempt - 1 = k.attempt
  BY <1>0, <1>2
<1>4. Accounted(e)
  BY <1>2, <1>3 DEF Accounted, GoingOn, Failures
<1> QED
  BY <1>1, <1>4 DEF CallOK, e

-----------------------------------------------------------------------------
LEMMA Update ==
  ASSUME TypeOK, CallsOK, NEW c \in Callers, NEW e, CallOK(e),
         call' = [call EXCEPT ![c] = e]
  PROVE  CallsOK' /\ call' \in [Callers -> Call]
  BY DEF TypeOK, CallsOK, CallOK

(* An attempt that failed, of a call in any of its attempts.                *)
LEMMA FailedOK ==
  ASSUME TypeOK, CallsOK, NEW c \in Callers, NEW k \in Call, Failed(c, k),
         k.outcome = "none", k.endpoint = "none", k.n > 0,
         k.attempt = call[c].attempt, k.attempt \in 1 .. MaxAttempts,
         Failures(k) = k.attempt, k.unauthorized = IF k.refreshed THEN 1 ELSE 0
  PROVE  CallsOK' /\ call' \in [Callers -> Call]
<1>1. CASE LastAttempt(c)
  <2>1. Over([k EXCEPT !.outcome = "unavailable"])
    BY <1>1, RteOK DEF Over, Failures, LastAttempt, Call
  <2>2. CallOK(Ended(k, "unavailable"))
    BY <2>1, EndedOK DEF Outcomes
  <2> QED
    BY <1>1, <2>2, Update DEF Failed
<1>2. CASE ~LastAttempt(c)
  <2>1. CallOK(NextAttempt(k))
    BY <1>2, NextAttemptOK DEF LastAttempt
  <2> QED
    BY <1>2, <2>1, Update DEF Failed
<1> QED
  BY <1>1, <1>2

(* A transport error or a 5xx.                                              *)
LEMMA TransientOK ==
  ASSUME TypeOK, CallsOK, NEW c \in Callers, call[c].pc # "idle", Transient(c)
  PROVE  CallsOK' /\ call' \in [Callers -> Call]
<1> DEFINE k == call[c]
           failed == [k EXCEPT !.transient = @ + 1]
<1>1. k \in Call /\ GoingOn(k)
  BY DEF CallsOK, CallOK, Accounted
<1>2. failed \in Call
  BY <1>1 DEF Call
<1>3. /\ failed.outcome = k.outcome /\ failed.n = k.n /\ failed.endpoint = k.endpoint
      /\ failed.attempt = k.attempt /\ failed.refreshed = k.refreshed
      /\ failed.transient = k.transient + 1 /\ failed.unauthorized = k.unauthorized
      /\ k.transient \in Nat /\ k.unauthorized \in Nat /\ k.attempt \in Nat
  BY <1>1 DEF Call
<1>4. Failed(c, failed)
  BY DEF Transient
<1> HIDE DEF failed
<1>5. Failures(failed) = failed.attempt
  BY <1>1, <1>3 DEF GoingOn, Failures
<1> QED
  BY <1>1, <1>2, <1>3, <1>4, <1>5, FailedOK DEF GoingOn

(* A 401: the first is a failed attempt, the second the end.                *)
LEMMA UnauthorizedOK ==
  ASSUME TypeOK, CallsOK, NEW c \in Callers, call[c].pc # "idle", Unauthorized(c)
  PROVE  CallsOK' /\ call' \in [Callers -> Call]
<1> DEFINE k == call[c]
           last == [k EXCEPT !.unauthorized = @ + 1]
           first == [k EXCEPT !.unauthorized = @ + 1, !.refreshed = TRUE, !.stale = TRUE]
<1>1. k \in Call /\ GoingOn(k)
  BY DEF CallsOK, CallOK, Accounted
<1>2. last \in Call /\ first \in Call
  <2>1. k.unauthorized + 1 \in Nat
    BY <1>1 DEF Call
  <2>2. last \in Call
    BY <1>1, <2>1 DEF Call
  <2>3. first = [last EXCEPT !.refreshed = TRUE, !.stale = TRUE]
    BY <1>1 DEF Call
  <2> HIDE DEF k, last, first
  <2> QED
    BY <2>2, <2>3 DEF Call
<1>3. /\ first.outcome = k.outcome /\ first.n = k.n /\ first.endpoint = k.endpoint
      /\ first.attempt = k.attempt /\ first.refreshed = TRUE
      /\ first.transient = k.transient /\ first.unauthorized = k.unauthorized + 1
      /\ k.transient \in Nat /\ k.unauthorized \in Nat /\ k.attempt \in Nat
  BY <1>1 DEF Call
<1>4. CASE ~k.refreshed /\ Refresh(c)
  <2>1. Failed(c, first)
    BY <1>4 DEF Refresh
  <2> HIDE DEF first
  <2>2. Failures(first) = first.attempt /\ first.unauthorized = 1
    BY <1>1, <1>3, <1>4 DEF GoingOn, Failures
  <2> QED
    BY <1>1, <1>2, <1>3, <2>1, <2>2, FailedOK DEF GoingOn
<1>5. CASE k.refreshed /\ call' = [call EXCEPT ![c] = Ended(last, "auth")]
  <2>1. Over([last EXCEPT !.outcome = "auth"])
    BY <1>1, <1>5, RteOK DEF Over, Failures, GoingOn, Call
  <2>2. CallOK(Ended(last, "auth"))
    BY <1>2, <2>1, EndedOK DEF Outcomes
  <2> QED
    BY <1>5, <2>2, Update
<1>6. \/ ~k.refreshed /\ Refresh(c)
      \/ k.refreshed /\ call' = [call EXCEPT ![c] = Ended(last, "auth")]
  BY DEF Unauthorized
<1> HIDE DEF k, last, first
<1> QED
  BY <1>4, <1>5, <1>6

(* An outcome told without a failure being counted.                         *)
LEMMA EndsOK ==
  ASSUME TypeOK, CallsOK, NEW c \in Callers, call[c].pc # "idle",
         \/ Ends(c, "definite") \/ Ends(c, "raised")
         \/ Denied(c, "refused", "auth") \/ Denied(c, "down", "unavailable")
  PROVE  CallsOK' /\ call' \in [Callers -> Call]
<1> DEFINE k == call[c]
           said(endpoint) == [k EXCEPT !.endpoint = endpoint]
<1>1. k \in Call /\ GoingOn(k)
  BY DEF CallsOK, CallOK, Accounted
<1>2. ASSUME NEW outcome \in {"definite", "raised"}, Ends(c, outcome)
      PROVE  CallsOK' /\ call' \in [Callers -> Call]
  <2>1. Over([k EXCEPT !.outcome = outcome])
    BY <1>1, RteOK DEF Over, Failures, GoingOn, Call
  <2>2. CallOK(Ended(k, outcome))
    BY <1>1, <2>1, EndedOK DEF Outcomes
  <2> QED
    BY <1>2, <2>2, Update DEF Ends
<1>3. ASSUME NEW endpoint \in {"refused", "down"}, NEW outcome \in {"auth", "unavailable"},
             endpoint = "refused" <=> outcome = "auth", Denied(c, endpoint, outcome)
      PROVE  CallsOK' /\ call' \in [Callers -> Call]
  <2>1. said(endpoint) \in Call
    BY <1>1 DEF Call
  <2>2. Over([said(endpoint) EXCEPT !.outcome = outcome])
    BY <1>1, <1>3, RteOK DEF Over, Failures, GoingOn, Call
  <2>3. CallOK(Ended(said(endpoint), outcome))
    BY <2>1, <2>2, EndedOK DEF Outcomes
  <2> QED
    BY <1>3, <2>3, Update DEF Denied
<1> QED
  BY <1>2, <1>3

LEMMA StepKeepsTypes ==
  ASSUME TypeOK, CallsOK, NEW c \in Callers, Step(c)
  PROVE  TypeOK' /\ CallsOK'
<1> DEFINE k == call[c]
           Going(pc, mine, bearer, checked, stale) ==
             [k EXCEPT !.pc = pc, !.mine = mine, !.bearer = bearer,
                       !.checked = checked, !.stale = stale]
<1>0. /\ now \in Nat /\ token \in Token /\ expires \in Nat /\ None \in Token
      /\ CallOK(k) /\ k \in Call /\ now \in 0 .. MaxTime /\ pause \in Nat
      /\ k.mine \in Token /\ k.bearer \in Token /\ k.checked \in Nat
      /\ k.stale \in BOOLEAN /\ call \in [Callers -> Call]
  BY RteOK, NoneIsToken DEF TypeOK, CallsOK, CallOK, Call
<1>1. CASE Look(c) \/ Check(c)
  <2>1. k.pc # "idle"
    BY <1>1 DEF Look, Check
  <2>2. /\ CallOK(Going("looked", k.mine, k.bearer, k.checked, k.stale))
        /\ CallOK(Going("posting", k.mine, k.bearer, k.checked, k.stale))
        /\ CallOK(Going("checked", k.mine, k.bearer, now, k.stale))
    BY <1>0, <2>1, GoesOn
  <2>3. /\ [k EXCEPT !.pc = "looked"] = Going("looked", k.mine, k.bearer, k.checked, k.stale)
        /\ [k EXCEPT !.pc = "posting"] = Going("posting", k.mine, k.bearer, k.checked, k.stale)
        /\ [k EXCEPT !.pc = "checked", !.checked = now]
             = Going("checked", k.mine, k.bearer, now, k.stale)
    BY <1>0 DEF Call
  <2>4. \E e : CallOK(e) /\ call' = [call EXCEPT ![c] = e]
    BY <1>1, <2>2, <2>3 DEF Look, Check
  <2> HIDE DEF Going, k
  <2> QED
    BY <1>0, <1>1, <2>4, Update DEF Look, Check, TypeOK
<1>2. CASE Grant(c)
  <2>1. k.pc # "idle"
    BY <1>2 DEF Grant
  <2>2. PICK lifetime \in Lifetimes :
          call' = [call EXCEPT ![c] = [@ EXCEPT !.pc = "issued",
            !.mine = [at |-> now, lifetime |-> lifetime, arrived |-> now]]]
    BY <1>2 DEF Grant
  <2> DEFINE mine == [at |-> now, lifetime |-> lifetime, arrived |-> now]
  <2>3. mine \in Token
    BY <1>0, RteOK DEF Token
  <2> HIDE DEF mine
  <2>4. CallOK(Going("issued", mine, k.bearer, k.checked, k.stale))
    BY <1>0, <2>1, <2>3, GoesOn
  <2>5. [k EXCEPT !.pc = "issued", !.mine = mine]
          = Going("issued", mine, k.bearer, k.checked, k.stale)
    BY <1>0 DEF Call
  <2>6. call' = [call EXCEPT ![c] = Going("issued", mine, k.bearer, k.checked, k.stale)]
    BY <2>2, <2>5 DEF mine
  <2> HIDE DEF Going, k
  <2> QED
    BY <1>0, <1>2, <2>4, <2>6, Update DEF Grant, TypeOK
<1>3. CASE Keep(c)
  <2>1. k.pc # "idle"
    BY <1>3 DEF Keep
  <2>2. token' \in Token
    BY <1>0, <1>3 DEF Keep, Token
  <2>3. CallOK(Going("kept", token', k.bearer, k.checked, FALSE))
    BY <1>0, <2>1, <2>2, GoesOn
  <2>4. [k EXCEPT !.pc = "kept", !.mine = token', !.stale = FALSE]
          = Going("kept", token', k.bearer, k.checked, FALSE)
    BY <1>0 DEF Call
  <2>5. call' = [d \in Callers |->
          IF d = c THEN Going("kept", token', k.bearer, k.checked, FALSE)
                   ELSE [call[d] EXCEPT !.stale = FALSE]]
    BY <1>3, <2>4 DEF Keep
  <2>6. \A d \in Callers : CallOK([call[d] EXCEPT !.stale = FALSE])
    BY StaleIsHistory DEF CallsOK
  <2> HIDE DEF Going, k
  <2>7. \A d \in Callers : CallOK(call'[d])
    BY <2>3, <2>5, <2>6
  <2>8. CallsOK' /\ call' \in [Callers -> Call]
    BY <2>5, <2>7 DEF CallsOK, CallOK
  <2> QED
    BY <1>0, <1>3, <2>2, <2>8 DEF Keep, TypeOK
<1>4. CASE Date(c)
  <2>1. k.pc # "idle"
    BY <1>4 DEF Date
  <2>2. CallOK(Going("checked", None, k.bearer, now, k.stale))
    BY <1>0, <2>1, GoesOn
  <2>3. [k EXCEPT !.pc = "checked", !.checked = now, !.mine = None]
          = Going("checked", None, k.bearer, now, k.stale)
    BY <1>0 DEF Call
  <2>4. call' = [call EXCEPT ![c] = Going("checked", None, k.bearer, now, k.stale)]
    BY <1>4, <2>3 DEF Date
  <2>5. expires' \in Nat
    BY <1>0, <1>4, RteOK DEF Date, Token, Expiry
  <2>6. pause' \in Nat
    <3>1. k.mine.arrived \in Nat
      BY <1>0 DEF Token
    <3> HIDE DEF k
    <3> QED
      BY <1>0, <1>4, <3>1 DEF Date, k
  <2> HIDE DEF Going, k
  <2> QED
    BY <1>0, <1>4, <2>2, <2>4, <2>5, <2>6, Update DEF Date, TypeOK
<1>5. CASE Send(c)
  <2>1. k.pc # "idle"
    BY <1>5 DEF Send
  <2>2. CallOK(Going("flight", k.mine, token, k.checked, k.stale))
    BY <1>0, <2>1, GoesOn
  <2>3. [k EXCEPT !.pc = "flight", !.bearer = token]
          = Going("flight", k.mine, token, k.checked, k.stale)
    BY <1>0 DEF Call
  <2>4. call' = [call EXCEPT ![c] = Going("flight", k.mine, token, k.checked, k.stale)]
    BY <1>5, <2>3 DEF Send
  <2> HIDE DEF Going, k
  <2> QED
    BY <1>0, <1>5, <2>2, <2>4, Update DEF Send, TypeOK
<1>6. CASE Unreadable(c) \/ Refuse(c) \/ Answer(c)
  <2>1. /\ k.pc # "idle" /\ UNCHANGED <<now, expires, pause>>
        /\ token' = token \/ token' = None
    BY <1>6 DEF Unreadable, Refuse, Answer, Unauthorized, Refresh
  <2>2. CallsOK' /\ call' \in [Callers -> Call]
    BY <1>6, <2>1, TransientOK, EndsOK, UnauthorizedOK DEF Unreadable, Refuse, Answer
  <2> QED
    BY <1>0, <2>1, <2>2 DEF TypeOK
<1> QED
  BY <1>1, <1>2, <1>3, <1>4, <1>5, <1>6 DEF Step

LEMMA NextKeepsTypes ==
  ASSUME TypeOK, CallsOK, [Next]_vars
  PROVE  TypeOK' /\ CallsOK'
<1>1. CASE UNCHANGED vars
  BY <1>1 DEF vars, TypeOK, CallsOK
<1>2. CASE Tick
  BY <1>2, RteOK DEF Tick, TypeOK, CallsOK
<1>3. ASSUME NEW c \in Callers, Begin(c)
      PROVE  TypeOK' /\ CallsOK'
  <2>1. call[c].n \in Nat
    BY DEF TypeOK, Call
  <2> DEFINE e == [Fresh EXCEPT !.pc = "waiting", !.n = call[c].n + 1, !.attempt = 1]
  <2>2. CallOK(e)
    <3>1. Fresh \in Call
      BY FreshOK DEF CallOK
    <3>2. /\ e.pc = "waiting" /\ e.n = call[c].n + 1 /\ e.attempt = 1
          /\ e.refreshed = FALSE /\ e.transient = 0 /\ e.unauthorized = 0
          /\ e.outcome = "none" /\ e.endpoint = "none"
      BY DEF Fresh
    <3>3. 1 \in 0 .. MaxAttempts /\ call[c].n + 1 \in Nat
      BY <2>1, RteOK
    <3>4. e \in Call
      BY <3>1, <3>3 DEF Call
    <3> HIDE DEF e
    <3>5. Accounted(e)
      BY <2>1, <3>2, RteOK DEF Accounted, GoingOn, Failures
    <3> QED
      BY <3>4, <3>5 DEF CallOK
  <2> HIDE DEF e
  <2>3. call' = [call EXCEPT ![c] = e] /\ UNCHANGED <<now, token, expires, pause>>
    BY <1>3 DEF Begin, e
  <2> QED
    BY <2>2, <2>3, Update DEF TypeOK
<1> QED
  BY <1>1, <1>2, <1>3, StepKeepsTypes DEF Next

LEMMA InitTypes == Init => TypeOK /\ CallsOK
  BY NoneIsToken, FreshOK, RteOK DEF Init, TypeOK, CallsOK, CallOK

(* Every variable of the client stays in its domain, for any parameters.    *)
THEOREM TypeCorrect == Spec => []TypeOK
<1>1. Spec => [](TypeOK /\ CallsOK)
  BY InitTypes, NextKeepsTypes, PTL DEF Spec
<1> QED
  BY <1>1, PTL

(* However threads share the client, a call says credentials rejected only  *)
(* after two 401s or the token endpoint's refusal, and unavailable only with *)
(* its attempts spent or the token endpoint down (fetch).                   *)
THEOREM OutcomeIsEarnedHolds == Spec => []OutcomeIsEarned
<1>1. Spec => [](TypeOK /\ CallsOK)
  BY InitTypes, NextKeepsTypes, PTL DEF Spec
<1>2. TypeOK /\ CallsOK => OutcomeIsEarned
  <2> SUFFICES ASSUME TypeOK, CallsOK, NEW c \in Callers
               PROVE  OutcomeIsEarned!(c)
    BY DEF OutcomeIsEarned
  <2> DEFINE k == call[c]
  <2>1. Accounted(k) /\ k \in Call
    BY DEF CallsOK, CallOK
  <2>2. /\ k.transient \in Nat /\ k.unauthorized \in Nat /\ k.attempt \in 0 .. MaxAttempts
        /\ k.refreshed \in BOOLEAN /\ k.n \in Nat
    BY <2>1 DEF Call
  <2>3. CASE k.pc = "idle"
    BY <2>1, <2>2, <2>3, RteOK DEF Accounted, Over, Failures
  <2>4. CASE k.pc # "idle"
    BY <2>1, <2>2, <2>4, RteOK DEF Accounted, GoingOn, Failures
  <2> QED
    BY <2>3, <2>4
<1> QED
  BY <1>1, <1>2, PTL

-----------------------------------------------------------------------------
(* A step that ends an attempt or a call leaves no check behind.            *)
LEMMA NoCheckLeft ==
  ASSUME TypeOK, NEW c \in Callers, Unreadable(c) \/ Refuse(c) \/ Answer(c)
  PROVE  /\ call'[c].checked \in {call[c].checked, 0}
         /\ call'[c].pc \in {"idle", "waiting"}
         /\ call'[c].stale => call[c].stale \/ token' = None
         /\ \A d \in Callers \ {c} : call'[d] = call[d]
         /\ token' \in {token, None} /\ UNCHANGED <<now, expires, pause>>
<1>0. call[c] \in Call /\ call \in [Callers -> Call]
  BY DEF TypeOK
<1> DEFINE Left(stale) == /\ call'[c].checked \in {call[c].checked, 0}
                          /\ call'[c].pc \in {"idle", "waiting"}
                          /\ call'[c].stale => stale
                          /\ \A d \in Callers \ {c} : call'[d] = call[d]
<1>1. ASSUME Transient(c)
      PROVE  Left(call[c].stale)
  BY <1>0, <1>1 DEF Transient, Failed, Call, Ended, NextAttempt
<1>2. ASSUME NEW outcome, Ends(c, outcome)
      PROVE  Left(call[c].stale)
  BY <1>0, <1>2 DEF Ends, Call, Ended
<1>3. ASSUME NEW endpoint, NEW outcome, Denied(c, endpoint, outcome)
      PROVE  Left(call[c].stale)
  BY <1>0, <1>3 DEF Denied, Call, Ended
<1>4. ASSUME Unauthorized(c)
      PROVE  \/ Left(TRUE) /\ token' = None
             \/ Left(call[c].stale) /\ token' = token
  <2>1. CASE Refresh(c)
    BY <1>0, <2>1 DEF Refresh, Failed, Call, Ended, NextAttempt
  <2>2. CASE /\ call' = [call EXCEPT ![c] =
                  Ended([call[c] EXCEPT !.unauthorized = @ + 1], "auth")]
             /\ UNCHANGED token
    BY <1>0, <2>2 DEF Call, Ended
  <2> QED
    BY <1>4, <2>1, <2>2 DEF Unauthorized
<1> HIDE DEF Left
<1>5. \/ Left(TRUE) /\ token' = None
      \/ Left(call[c].stale) /\ token' = token
  BY <1>1, <1>2, <1>3, <1>4 DEF Unreadable, Refuse, Answer
<1>6. UNCHANGED <<now, expires, pause>>
  BY DEF Unreadable, Refuse, Answer
<1> QED
  BY <1>5, <1>6 DEF Left

(* While a call waits for the token that its 401 made it fetch there is no  *)
(* token, and it is on its way to fetch one.                                *)
Forced ==
  \A c \in Callers :
    call[c].stale => token = None /\ call[c].pc \in {"waiting", "posting", "issued", "idle"}

LEMMA ForcedKept ==
  ASSUME TypeOK, Forced, [Next]_vars
  PROVE  Forced'
<1>0. call \in [Callers -> Call] /\ \A c \in Callers : call[c] \in Call
  BY DEF TypeOK
<1>1. CASE UNCHANGED vars
  BY <1>1 DEF vars, Forced
<1>2. CASE Tick
  BY <1>2 DEF Tick, Forced
<1>3. ASSUME NEW c \in Callers, Begin(c)
      PROVE  Forced'
  BY <1>0, <1>3 DEF Begin, Fresh, Forced
<1>4. ASSUME NEW c \in Callers, Look(c) \/ Check(c) \/ Grant(c) \/ Date(c) \/ Send(c)
      PROVE  Forced'
  <2>1. /\ call'[c].stale = call[c].stale /\ token' = token
        /\ \A d \in Callers \ {c} : call'[d] = call[d]
        /\ \/ call[c].pc \in {"looked", "kept", "checked"}
           \/ call[c].pc = "waiting" /\ (token = None => call'[c].pc = "posting")
           \/ call[c].pc = "posting" /\ call'[c].pc = "issued"
    <3>1. CASE Look(c)
      BY <1>0, <3>1 DEF Look, Call
    <3>2. CASE Check(c)
      BY <1>0, <3>2 DEF Check, Call
    <3>3. CASE Grant(c)
      BY <1>0, <3>3 DEF Grant, Call
    <3>4. CASE Date(c)
      BY <1>0, <3>4 DEF Date, Call
    <3>5. CASE Send(c)
      BY <1>0, <3>5 DEF Send, Call
    <3> QED
      BY <1>4, <3>1, <3>2, <3>3, <3>4, <3>5
  <2> QED
    BY <2>1 DEF Forced
<1>5. ASSUME NEW c \in Callers, Keep(c)
      PROVE  Forced'
  <2>1. \A d \in Callers : ~call'[d].stale
    BY <1>0, <1>5 DEF Keep, Call
  <2> QED
    BY <2>1 DEF Forced
<1>6. ASSUME NEW c \in Callers, Unreadable(c) \/ Refuse(c) \/ Answer(c)
      PROVE  Forced'
  BY <1>6, NoCheckLeft DEF Forced
<1> QED
  BY <1>1, <1>2, <1>3, <1>4, <1>5, <1>6 DEF Next, Step

(* After a 401 no request of the call leaves before a token was stored      *)
(* anew, whatever the other threads do with the token (fetch, _bearer).     *)
THEOREM RefreshIsForcedHolds == Spec => []RefreshIsForced
<1>1. Init => TypeOK /\ CallsOK /\ Forced
  BY InitTypes DEF Init, Fresh, Forced
<1>2. TypeOK /\ CallsOK /\ Forced /\ [Next]_vars => TypeOK' /\ CallsOK' /\ Forced'
  BY NextKeepsTypes, ForcedKept
<1>3. Forced => RefreshIsForced
  BY DEF Forced, RefreshIsForced
<1> QED
  BY <1>1, <1>2, <1>3, PTL DEF Spec

-----------------------------------------------------------------------------
(* The longest an expiry is put off.                                        *)
Beyond == IF Longest > Skew THEN Longest - Skew ELSE 0

LEMMA LongestIsNat ==
  /\ Longest \in Lifetimes /\ Longest \in Nat /\ \A l \in Lifetimes : l <= Longest
  /\ Beyond \in Nat
<1>1. Longest \in Lifetimes /\ \A l \in Lifetimes : l <= Longest
  BY RteOK DEF Longest
<1> QED
  BY <1>1, RteOK DEF Beyond

LEMMA ExpiryIsBounded ==
  ASSUME now \in Nat, NEW l \in Lifetimes
  PROVE  Expiry(l) <= now + Beyond
  BY LongestIsNat, RteOK DEF Expiry, Beyond

(* Until when a check may have found a token good.                          *)
GoodAt(t, checked) ==
  t # None => /\ t.lifetime \in Lifetimes
              /\ Longest > Skew => checked < t.arrived + pause + Beyond

(* The expiry is never further off than the token it may not be of: by when *)
(* a thread writes an expiry its token is there, or a younger one.          *)
Timely ==
  /\ expires <= now + Beyond
  /\ token # None => /\ token.lifetime \in Lifetimes
                     /\ expires <= token.arrived + pause + Beyond
  /\ \A c \in Callers :
       /\ call[c].checked <= now
       /\ call[c].pc \in {"issued", "kept"} => call[c].mine.lifetime \in Lifetimes
       /\ call[c].pc = "kept" =>
            /\ call[c].mine.arrived <= now
            /\ token # None => call[c].mine.arrived <= token.arrived
       /\ call[c].pc = "checked" => GoodAt(token, call[c].checked)
       /\ call[c].pc = "flight" => GoodAt(call[c].bearer, call[c].checked)

LEMMA TimelyIsFresh ==
  ASSUME TypeOK, Timely
  PROVE  FreshOnArrival
<1> SUFFICES ASSUME NEW c \in Callers, Arrives(call[c]),
                    UnderWay(call[c]) + (Longest - call[c].bearer.lifetime) <= Skew
             PROVE  Alive(call[c].bearer)
  BY DEF FreshOnArrival
<1> DEFINE t == call[c].bearer
<1>1. /\ t \in Token /\ call[c].checked \in Nat /\ now \in Nat /\ pause \in Nat
      /\ t.at \in Nat /\ t.arrived \in Nat
  <2>1. call[c] \in Call
    BY DEF TypeOK
  <2> QED
    BY <2>1, RteOK DEF TypeOK, Call, Token
<1>2. t # None /\ t.lifetime \in Lifetimes /\ t.lifetime > Skew
  BY DEF Arrives, Timely, GoodAt
<1>3. Longest > Skew /\ t.lifetime \in Nat /\ Longest \in Nat /\ Skew \in Nat
  <2>1. t.lifetime \in Nat /\ t.lifetime <= Longest
    BY <1>2, LongestIsNat, RteOK
  <2> HIDE DEF t
  <2> QED
    BY <1>2, <2>1, LongestIsNat, RteOK
<1>4. call[c].checked < t.arrived + pause + (Longest - Skew)
  BY <1>2, <1>3 DEF Timely, GoodAt, Arrives, Beyond
<1>5. (t.arrived - t.at) + pause + (now - call[c].checked) + (Longest - t.lifetime) <= Skew
  BY DEF UnderWay
<1> HIDE DEF t
<1>6. now < t.at + t.lifetime
  BY <1>1, <1>3, <1>4, <1>5
<1> QED
  BY <1>2, <1>6 DEF Alive, t

LEMMA TimelyKept ==
  ASSUME TypeOK, Timely, [Next]_vars
  PROVE  Timely'
<1>0. /\ call \in [Callers -> Call] /\ token \in Token /\ expires \in Nat
      /\ now \in Nat /\ Skew \in Nat /\ pause \in Nat /\ token.arrived \in Nat
      /\ \A c \in Callers : /\ call[c] \in Call /\ call[c].checked \in Nat
                             /\ call[c].bearer \in Token /\ call[c].mine \in Token
                             /\ call[c].mine.arrived \in Nat
                             /\ call[c].bearer.arrived \in Nat
  <2>1. \A c \in Callers : call[c] \in Call
    BY DEF TypeOK
  <2> QED
    BY <2>1, RteOK DEF TypeOK, Call, Token
<1>00. Beyond \in Nat /\ Longest \in Nat /\ (Longest > Skew => Beyond > 0)
  BY <1>0, LongestIsNat DEF Beyond
<1>1. CASE UNCHANGED vars
  BY <1>1 DEF vars, Timely, GoodAt
<1>2. CASE Tick
  BY <1>0, <1>00, <1>2 DEF Tick, Timely, GoodAt
<1>3. ASSUME NEW c \in Callers, Begin(c)
      PROVE  Timely'
  <2>1. /\ call'[c].checked = 0 /\ call'[c].pc = "waiting"
        /\ \A d \in Callers \ {c} : call'[d] = call[d]
        /\ UNCHANGED <<now, token, expires, pause>>
    BY <1>0, <1>3 DEF Begin, Fresh
  <2> QED
    BY <1>0, <1>00, <2>1 DEF Timely, GoodAt
<1>4. ASSUME NEW c \in Callers, Look(c)
      PROVE  Timely'
  <2>1. /\ call'[c].pc \in {"looked", "posting"} /\ call'[c].checked = call[c].checked
        /\ \A d \in Callers \ {c} : call'[d] = call[d]
        /\ UNCHANGED <<now, token, expires, pause>>
    BY <1>0, <1>4 DEF Look, Call
  <2> QED
    BY <1>0, <2>1 DEF Timely, GoodAt
<1>5. ASSUME NEW c \in Callers, Check(c)
      PROVE  Timely'
  <2>1. /\ \/ /\ call'[c].pc = "checked" /\ call'[c].checked = now
              /\ now < expires
           \/ call'[c].pc = "posting" /\ call'[c].checked = call[c].checked
        /\ \A d \in Callers \ {c} : call'[d] = call[d]
        /\ UNCHANGED <<now, token, expires, pause>>
    BY <1>0, <1>5 DEF Check, Call
  <2> QED
    BY <1>0, <1>00, <2>1 DEF Timely, GoodAt
<1>6. ASSUME NEW c \in Callers, Grant(c)
      PROVE  Timely'
  <2>1. PICK lifetime \in Lifetimes :
          call' = [call EXCEPT ![c] = [@ EXCEPT !.pc = "issued",
            !.mine = [at |-> now, lifetime |-> lifetime, arrived |-> now]]]
    BY <1>6 DEF Grant
  <2>2. /\ call'[c].pc = "issued" /\ call'[c].checked = call[c].checked
        /\ call'[c].mine.lifetime = lifetime
        /\ \A d \in Callers \ {c} : call'[d] = call[d]
    BY <1>0, <2>1 DEF Call
  <2>3. UNCHANGED <<now, token, expires, pause>>
    BY <1>6 DEF Grant
  <2> QED
    BY <1>0, <2>2, <2>3 DEF Timely, GoodAt
<1>7. ASSUME NEW c \in Callers, Keep(c)
      PROVE  Timely'
  <2>1. /\ call'[c].pc = "kept" /\ call'[c].mine = token'
        /\ call'[c].checked = call[c].checked
        /\ \A d \in Callers \ {c} : /\ call'[d].pc = call[d].pc
                                     /\ call'[d].mine = call[d].mine
                                     /\ call'[d].bearer = call[d].bearer
                                     /\ call'[d].checked = call[d].checked
        /\ UNCHANGED <<now, expires, pause>>
    <3>1. \A d \in Callers \ {c} : call'[d] = [call[d] EXCEPT !.stale = FALSE]
      BY <1>7 DEF Keep
    <3>2. call'[c] = [call[c] EXCEPT !.pc = "kept", !.mine = token', !.stale = FALSE]
      BY <1>7 DEF Keep
    <3>3. UNCHANGED <<now, expires, pause>>
      BY <1>7 DEF Keep
    <3>4. \A d \in Callers : call[d] \in Call
      BY <1>0
    <3>5. \A d \in Callers \ {c} : /\ call'[d].pc = call[d].pc
                                  /\ call'[d].mine = call[d].mine
                                  /\ call'[d].bearer = call[d].bearer
                                  /\ call'[d].checked = call[d].checked
      BY <3>1, <3>4 DEF Call
    <3>6. /\ call'[c].pc = "kept" /\ call'[c].mine = token'
          /\ call'[c].checked = call[c].checked
      BY <3>2, <3>4 DEF Call
    <3> QED
      BY <3>3, <3>5, <3>6
  <2>2. token'.lifetime \in Lifetimes /\ token'.arrived = now
    BY <1>0, <1>7 DEF Keep, Timely, Token
  <2> QED
    BY <1>0, <1>00, <2>1, <2>2 DEF Timely, GoodAt
<1>8. ASSUME NEW c \in Callers, Date(c)
      PROVE  Timely'
  <2>1. /\ call'[c].pc = "checked" /\ call'[c].checked = now
        /\ \A d \in Callers \ {c} : call'[d] = call[d]
        /\ UNCHANGED <<now, token>>
    BY <1>0, <1>8 DEF Date, Call
  <2>2. /\ call[c].mine.lifetime \in Lifetimes /\ call[c].mine.arrived <= now
        /\ token # None => call[c].mine.arrived <= token.arrived
    BY <1>8 DEF Date, Timely
  <2>3. expires' <= now + Beyond /\ expires' \in Int
    <3>1. expires' = Expiry(call[c].mine.lifetime)
      BY <1>8 DEF Date
    <3>2. call[c].mine.lifetime \in Nat
      BY <2>2, RteOK
    <3> QED
      BY <1>0, <2>2, <3>1, <3>2, ExpiryIsBounded DEF Expiry
  <2>4. pause' \in Nat /\ pause' >= pause /\ pause' >= now - call[c].mine.arrived
    BY <1>0, <1>8, <2>2 DEF Date
  <2>5. token # None => now <= token.arrived + pause'
    BY <1>0, <2>2, <2>4
  <2> QED
    BY <1>0, <1>00, <2>1, <2>2, <2>3, <2>4, <2>5 DEF Timely, GoodAt
<1>9. ASSUME NEW c \in Callers, Send(c)
      PROVE  Timely'
  <2>1. /\ call[c].pc = "checked" /\ call'[c].pc = "flight"
        /\ call'[c].bearer = token /\ call'[c].checked = call[c].checked
        /\ \A d \in Callers \ {c} : call'[d] = call[d]
        /\ UNCHANGED <<now, token, expires, pause>>
    BY <1>0, <1>9 DEF Send, Call
  <2> QED
    BY <1>0, <2>1 DEF Timely, GoodAt
<1>10. ASSUME NEW c \in Callers, Unreadable(c) \/ Refuse(c) \/ Answer(c)
       PROVE  Timely'
  BY <1>0, <1>10, NoCheckLeft DEF Timely, GoodAt
<1> QED
  BY <1>1, <1>2, <1>3, <1>4, <1>5, <1>6, <1>7, <1>8, <1>9, <1>10 DEF Next, Step

(* A token that outlives the skew is alive when a request arrives with it,  *)
(* though it may not be the token that was checked, nor the expiry its own, *)
(* unless delivery, the pause between the two writes, the request and what  *)
(* it lives less than the longest are more than the skew between them       *)
(* (_bearer).                                                               *)
THEOREM FreshOnArrivalHolds == Spec => []FreshOnArrival
<1>1. Init => Timely
  BY LongestIsNat, RteOK DEF Init, Timely, GoodAt, Fresh, None
<1>2. Init => TypeOK /\ CallsOK
  BY InitTypes
<1>3. TypeOK /\ CallsOK /\ Timely /\ [Next]_vars => TypeOK' /\ CallsOK' /\ Timely'
  BY NextKeepsTypes, TimelyKept
<1>4. TypeOK /\ Timely => FreshOnArrival
  BY TimelyIsFresh
<1> QED
  BY <1>1, <1>2, <1>3, <1>4, PTL DEF Spec
=============================================================================
