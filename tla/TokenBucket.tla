---------------------------- MODULE TokenBucket ----------------------------
(* ingest/ratelimit.py.  Time is in ticks, and tokens are counted in the    *)
(* ticks it takes to refill them: one token is Unit (1 / rate_per_second).  *)
(* Callers are threads sharing one bucket.  The lock makes the bookkeeping  *)
(* of acquire one step; the sleep is outside it and may last longer than    *)
(* asked, never less.                                                       *)
EXTENDS Integers, Sequences, FiniteSets

CONSTANTS
  Callers,
  Unit,       \* ticks to refill one token
  Burst,
  MaxTime,    \* bound on the clock
  MaxGrants   \* bound on the tokens handed out

(* What the constructor's arguments satisfy.                                *)
BucketOK ==
  /\ IsFiniteSet(Callers)
  /\ Unit \in Nat \ {0} /\ Burst \in Nat \ {0}
  /\ MaxTime \in Nat /\ MaxGrants \in Nat

VARIABLES
  now,
  tokens,     \* _tokens, in ticks; negative while callers are queued
  updated,    \* _updated
  wake,       \* when the sleep of each caller inside acquire is over
  slots       \* history: those times, in the order they were handed out

vars == <<now, tokens, updated, wake, slots>>

Awake == -1   \* not inside acquire
Full == Burst * Unit

Init ==
  /\ now = 0
  /\ tokens = Full
  /\ updated = 0
  /\ wake = [c \in Callers |-> Awake]
  /\ slots = <<>>

(* Faulty variants: idle time is credited without a cap; time does not pay  *)
(* off a debt.                                                              *)
RefilledUncapped == tokens + (now - updated)
RefilledButNotDebt ==
  IF tokens < 0 THEN tokens
  ELSE IF tokens + (now - updated) < Full THEN tokens + (now - updated) ELSE Full

(* The balance once the time since the last update is credited.             *)
Refilled ==
  LET balance == tokens + (now - updated)
  IN  IF balance < Full THEN balance ELSE Full

Shortfall(balance) == IF balance < Unit THEN Unit - balance ELSE 0

(* Faulty variant: never below zero.                                        *)
SpentClamped(balance) == IF balance < Unit THEN 0 ELSE balance - Unit

Spent(balance) == balance - Unit

Acquire(c) ==
  LET slot == now + Shortfall(Refilled)
  IN  /\ wake[c] = Awake
      /\ Len(slots) < MaxGrants
      /\ tokens' = Spent(Refilled)
      /\ updated' = now
      /\ wake' = [wake EXCEPT ![c] = slot]
      /\ slots' = Append(slots, slot)
      /\ UNCHANGED now

(* Faulty variant: the wait is computed, and not slept.                     *)
ReturnAtOnce(c) ==
  /\ wake[c] # Awake
  /\ wake' = [wake EXCEPT ![c] = Awake]
  /\ UNCHANGED <<now, tokens, updated, slots>>

(* acquire returns.                                                         *)
Return(c) ==
  /\ wake[c] # Awake
  /\ wake[c] <= now
  /\ wake' = [wake EXCEPT ![c] = Awake]
  /\ UNCHANGED <<now, tokens, updated, slots>>

Tick ==
  /\ now < MaxTime
  /\ now' = now + 1
  /\ UNCHANGED <<tokens, updated, wake, slots>>

Next ==
  \/ Tick
  \/ \E c \in Callers : Acquire(c) \/ Return(c)

Spec == Init /\ [][Next]_vars

-----------------------------------------------------------------------------
TypeOK ==
  /\ now \in Nat
  /\ tokens \in Int
  /\ updated \in Nat
  /\ wake \in [Callers -> Nat \cup {Awake}]
  /\ slots \in Seq(Nat)

(* What the limiter is for: of the times it hands out, any window of w      *)
(* ticks holds at most Burst + w / Unit, however the callers interleave and *)
(* however often the bucket was idle, capped or in debt.                    *)
RateHolds ==
  \A i, j \in DOMAIN slots :
    i <= j => (j - i + 1 - Burst) * Unit <= slots[j] - slots[i]

(* "concurrent callers queue instead of all waking at the same moment"      *)
(* (ingest/ratelimit.py, the comment on the negative balance).              *)
Queued ==
  \A c, d \in Callers :
    (c # d /\ wake[c] > now /\ wake[d] > now) =>
      \/ wake[c] + Unit <= wake[d]
      \/ wake[d] + Unit <= wake[c]

(* The queue moves at the refill rate: nobody waits longer than one token   *)
(* for each caller still asleep, himself included.                          *)
BoundedWait ==
  \A c \in Callers :
    wake[c] > now =>
      wake[c] - now <= Unit * Cardinality({d \in Callers : wake[d] > now})
=============================================================================
