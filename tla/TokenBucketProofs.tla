------------------------- MODULE TokenBucketProofs --------------------------
(* The limiter keeps its rate and its queue for any rate, burst and number  *)
(* of callers.  Every fact here is under BucketOK, which whoever instantiates*)
(* the bucket has to establish.                                             *)
EXTENDS TokenBucket, FiniteSetTheorems, WellFoundedInduction, TLAPS

(* When the next token is free, were the bucket never capped.  Each grant   *)
(* moves it by one token or, when the cap bit, further.                     *)
NextSlot == updated - tokens + Unit

(* The next slot keeps the rate with every slot handed out so far.          *)
NextKeepsRate ==
  \A i \in DOMAIN slots :
    slots[i] + (Len(slots) + 2 - i - Burst) * Unit <= NextSlot

(* Whoever still waits does so for a slot before the next one.              *)
NextIsLast == \A c \in Callers : wake[c] > now => wake[c] + Unit <= NextSlot

IInv == TypeOK /\ NextKeepsRate /\ RateHolds /\ NextIsLast /\ Queued

(* Products with Unit, as the steps below need them.                        *)
LEMMA Multiples ==
  ASSUME BucketOK
  PROVE
  /\ Full \in Int /\ Unit <= Full
  /\ \A k \in Int : k * Unit \in Int /\ (k + 1) * Unit = k * Unit + Unit
  /\ (1 - Burst) * Unit = Unit - Full
  /\ (2 - Burst) * Unit = 2 * Unit - Full
<1>1. Full \in Int
  BY DEF BucketOK, Full
<1>2. \A k \in Int : k * Unit \in Int /\ (k + 1) * Unit = k * Unit + Unit
  BY DEF BucketOK
<1>3. (1 - Burst) * Unit = Unit - Full
  BY DEF BucketOK, Full
<1>4. (2 - Burst) * Unit = 2 * Unit - Full
  BY DEF BucketOK, Full
<1>5. Unit <= Full
  <2>1. PICK b \in Nat : Burst = b + 1
    BY DEF BucketOK
  <2>2. b * Unit >= 0
    BY DEF BucketOK
  <2> QED
    BY <1>2, <2>1, <2>2 DEF BucketOK, Full
<1> QED
  BY <1>1, <1>2, <1>3, <1>4, <1>5

LEMMA NextType ==
  ASSUME BucketOK
  PROVE  TypeOK /\ [Next]_vars => TypeOK'
<1> SUFFICES ASSUME TypeOK, [Next]_vars
             PROVE  TypeOK'
  OBVIOUS
<1>1. CASE Tick
  BY <1>1 DEF Tick, TypeOK
<1>2. ASSUME NEW c \in Callers, Acquire(c)
      PROVE  TypeOK'
  <2>1. Refilled \in Int
    BY Multiples DEF TypeOK, Refilled
  <2>2. now + Shortfall(Refilled) \in Nat
    BY <2>1 DEF BucketOK, TypeOK, Shortfall
  <2> QED
    BY <1>2, <2>1, <2>2 DEF BucketOK, Acquire, TypeOK, Spent
<1>3. ASSUME NEW c \in Callers, Return(c)
      PROVE  TypeOK'
  BY <1>3 DEF Return, TypeOK
<1>4. CASE UNCHANGED vars
  BY <1>4 DEF vars, TypeOK
<1> QED
  BY <1>1, <1>2, <1>3, <1>4 DEF Next

(* Every variable stays in its domain.                                      *)
THEOREM TypeCorrect ==
  ASSUME BucketOK
  PROVE  Spec => []TypeOK
<1>1. Init => TypeOK
  BY Multiples DEF BucketOK, Init, TypeOK, Awake
<1> QED
  BY <1>1, NextType, PTL DEF Spec

(* What one acquire hands out: a slot not before the next one, which then   *)
(* moves on by a token at least; a caller that has to wait gets exactly the *)
(* next one.                                                                *)
LEMMA AcquireEffect ==
  ASSUME BucketOK, TypeOK, NEW c \in Callers, Acquire(c)
  PROVE  LET slot == now + Shortfall(Refilled)
         IN  /\ slot \in Nat
             /\ slots' = Append(slots, slot)
             /\ wake' = [wake EXCEPT ![c] = slot]
             /\ now' = now
             /\ NextSlot \in Int /\ NextSlot' \in Int
             /\ slot >= NextSlot /\ slot >= now
             /\ slot + 2 * Unit - Full <= NextSlot'
             /\ NextSlot + Unit <= NextSlot'
             /\ slot > now => slot = NextSlot
             /\ NextSlot' - Unit > now => slot = NextSlot' - Unit
<1>1. /\ updated \in Int /\ tokens \in Int /\ now \in Nat
      /\ Unit \in Nat \ {0} /\ Full \in Int /\ Unit <= Full
  BY Multiples DEF BucketOK, TypeOK
<1>2. /\ tokens' = Refilled - Unit /\ updated' = now
      /\ slots' = Append(slots, now + Shortfall(Refilled))
      /\ wake' = [wake EXCEPT ![c] = now + Shortfall(Refilled)]
      /\ now' = now
  BY DEF Acquire, Spent
<1>3. CASE tokens + (now - updated) < Full
  BY <1>1, <1>2, <1>3 DEF Refilled, Shortfall, NextSlot
<1>4. CASE ~(tokens + (now - updated) < Full)
  BY <1>1, <1>2, <1>4 DEF Refilled, Shortfall, NextSlot
<1> QED
  BY <1>3, <1>4

LEMMA AcquireKeepsRate ==
  ASSUME BucketOK, IInv, NEW c \in Callers, Acquire(c)
  PROVE  NextKeepsRate' /\ RateHolds'
<1> DEFINE slot == now + Shortfall(Refilled)
           n == Len(slots)
<1>1. /\ slot \in Nat /\ slots' = Append(slots, slot)
      /\ NextSlot \in Int /\ NextSlot' \in Int
      /\ slot >= NextSlot
      /\ slot + 2 * Unit - Full <= NextSlot'
      /\ NextSlot + Unit <= NextSlot'
  BY AcquireEffect DEF IInv
<1> HIDE DEF slot
<1>2. slots \in Seq(Nat) /\ n \in Nat /\ Unit \in Nat /\ Burst \in Nat
  BY DEF BucketOK, IInv, TypeOK
<1>3. /\ DOMAIN slots = 1 .. n /\ DOMAIN slots' = 1 .. n + 1
      /\ Len(slots') = n + 1
      /\ slots'[n + 1] = slot
      /\ \A i \in 1 .. n : slots'[i] = slots[i] /\ slots[i] \in Nat
  BY <1>1, <1>2
<1>4. NextKeepsRate'
  <2> SUFFICES ASSUME NEW i \in 1 .. n + 1
               PROVE  slots'[i] + ((n + 1) + 2 - i - Burst) * Unit <= NextSlot'
    BY <1>3 DEF NextKeepsRate
  <2>1. CASE i = n + 1
    <3>1. (n + 1) + 2 - i - Burst = 2 - Burst
      BY <1>2, <2>1
    <3> QED
      BY <1>1, <1>2, <1>3, <2>1, <3>1, Multiples
  <2>2. CASE i \in 1 .. n
    <3> DEFINE k == n + 2 - i - Burst
    <3>1. k \in Int /\ (n + 1) + 2 - i - Burst = k + 1
      BY <1>2
    <3>2. slots[i] + k * Unit <= NextSlot
      BY <1>3, <2>2 DEF IInv, NextKeepsRate
    <3>3. (k + 1) * Unit = k * Unit + Unit /\ k * Unit \in Int
      BY <3>1, Multiples
    <3>4. slots[i] \in Nat /\ slots'[i] = slots[i]
      BY <1>3, <2>2
    <3>5. ((n + 1) + 2 - i - Burst) * Unit = k * Unit + Unit
      BY <3>1, <3>3
    <3> DEFINE p == k * Unit
    <3>6. slots[i] + (p + Unit) <= NextSlot'
      <4>1. slots[i] + p <= NextSlot /\ p \in Int
        BY <3>2, <3>3
      <4> HIDE DEF p
      <4> QED
        BY <1>1, <1>2, <3>4, <4>1
    <3> QED
      BY <3>4, <3>5, <3>6
  <2> QED
    BY <1>2, <2>1, <2>2
<1>5. RateHolds'
  <2> SUFFICES ASSUME NEW i \in 1 .. n + 1, NEW j \in 1 .. n + 1, i <= j
               PROVE  (j - i + 1 - Burst) * Unit <= slots'[j] - slots'[i]
    BY <1>3 DEF RateHolds
  <2>1. CASE j \in 1 .. n
    <3>1. i \in 1 .. n
      BY <1>2, <2>1
    <3>2. (j - i + 1 - Burst) * Unit <= slots[j] - slots[i]
      BY <1>3, <2>1, <3>1 DEF IInv, RateHolds
    <3> QED
      BY <1>3, <2>1, <3>1, <3>2
  <2>2. CASE i = n + 1
    <3>1. j = n + 1 /\ j - i + 1 - Burst = 1 - Burst
      BY <1>2, <2>2
    <3> QED
      BY <1>1, <1>2, <1>3, <2>2, <3>1, Multiples
  <2>3. CASE j = n + 1 /\ i \in 1 .. n
    <3>1. j - i + 1 - Burst = n + 2 - i - Burst
      BY <1>2, <2>3
    <3>2. slots[i] + (n + 2 - i - Burst) * Unit <= NextSlot
      BY <1>3, <2>3 DEF IInv, NextKeepsRate
    <3>3. (n + 2 - i - Burst) * Unit \in Int
      BY <1>2, Multiples
    <3> QED
      BY <1>1, <1>2, <1>3, <2>3, <3>1, <3>2, <3>3
  <2> QED
    BY <1>2, <2>1, <2>2, <2>3
<1> QED
  BY <1>4, <1>5

LEMMA AcquireKeepsQueue ==
  ASSUME BucketOK, IInv, NEW c \in Callers, Acquire(c)
  PROVE  NextIsLast' /\ Queued'
<1> DEFINE slot == now + Shortfall(Refilled)
<1>1. /\ slot \in Nat /\ now' = now
      /\ wake' = [wake EXCEPT ![c] = slot]
      /\ NextSlot \in Int /\ NextSlot' \in Int
      /\ NextSlot + Unit <= NextSlot'
      /\ slot > now => slot = NextSlot
  BY AcquireEffect DEF IInv
<1> HIDE DEF slot
<1>2. /\ now \in Nat /\ Unit \in Nat
      /\ \A d \in Callers : wake[d] \in Int
      /\ wake'[c] = slot
      /\ \A d \in Callers : d # c => wake'[d] = wake[d]
  BY <1>1 DEF BucketOK, IInv, TypeOK, Awake
<1>3. \A d \in Callers : wake[d] > now => wake[d] + Unit <= NextSlot
  BY DEF IInv, NextIsLast
<1>4. NextIsLast'
  BY <1>1, <1>2, <1>3 DEF NextIsLast
<1>5. Queued'
  BY <1>1, <1>2, <1>3 DEF IInv, Queued
<1> QED
  BY <1>4, <1>5

LEMMA NextInv ==
  ASSUME BucketOK
  PROVE  IInv /\ [Next]_vars => IInv'
<1> SUFFICES ASSUME IInv, [Next]_vars
             PROVE  IInv'
  OBVIOUS
<1>1. TypeOK /\ TypeOK'
  BY NextType DEF IInv
<1>2. /\ now \in Nat /\ NextSlot \in Int
      /\ \A c \in Callers : wake[c] \in Int
  BY <1>1 DEF BucketOK, TypeOK, NextSlot, Awake
<1>3. CASE Tick
  <2>1. now' = now + 1 /\ wake' = wake /\ slots' = slots /\ NextSlot' = NextSlot
    BY <1>3 DEF Tick, NextSlot
  <2>2. NextKeepsRate' /\ RateHolds'
    BY <2>1 DEF IInv, NextKeepsRate, RateHolds
  <2>3. NextIsLast' /\ Queued'
    BY <1>2, <2>1 DEF IInv, NextIsLast, Queued
  <2> QED
    BY <1>1, <2>2, <2>3 DEF IInv
<1>4. ASSUME NEW c \in Callers, Acquire(c)
      PROVE  IInv'
  BY <1>1, <1>4, AcquireKeepsRate, AcquireKeepsQueue DEF IInv
<1>5. ASSUME NEW c \in Callers, Return(c)
      PROVE  IInv'
  <2>1. now' = now /\ slots' = slots /\ NextSlot' = NextSlot
    BY <1>5 DEF Return, NextSlot
  <2>2. NextKeepsRate' /\ RateHolds'
    BY <2>1 DEF IInv, NextKeepsRate, RateHolds
  <2>3. \A d \in Callers : wake'[d] > now => wake'[d] = wake[d]
    BY <1>1, <1>2, <1>5 DEF Return, TypeOK, Awake
  <2>4. NextIsLast' /\ Queued'
    BY <1>2, <2>1, <2>3 DEF IInv, NextIsLast, Queued
  <2> QED
    BY <1>1, <2>2, <2>4 DEF IInv
<1>6. CASE UNCHANGED vars
  BY <1>1, <1>6
     DEF vars, IInv, NextKeepsRate, RateHolds, NextIsLast, Queued, NextSlot
<1> QED
  BY <1>3, <1>4, <1>5, <1>6 DEF Next

LEMMA InitInv ==
  ASSUME BucketOK
  PROVE  Init => IInv
<1> SUFFICES ASSUME Init PROVE IInv
  OBVIOUS
<1>1. TypeOK
  BY Multiples DEF BucketOK, Init, TypeOK, Awake
<1>2. NextKeepsRate /\ RateHolds
  BY DEF Init, NextKeepsRate, RateHolds
<1>3. NextIsLast /\ Queued
  BY DEF Init, NextIsLast, Queued, Awake
<1> QED
  BY <1>1, <1>2, <1>3 DEF IInv

LEMMA Invariance ==
  ASSUME BucketOK
  PROVE  Spec => []IInv
  BY InitInv, NextInv, PTL DEF Spec

-----------------------------------------------------------------------------
(* How the slots lie on the clock, and who waits for which.                 *)

(* A slot is not past the next one, unless its time has come.               *)
PastOrBeforeNext ==
  \A i \in DOMAIN slots : slots[i] <= now \/ slots[i] + Unit <= NextSlot

(* From a slot whose time has not come on, each has its sleeper.            *)
SlotsHaveSleepers ==
  \A k \in DOMAIN slots :
    slots[k] > now =>
      Len(slots) - k + 1 <= Cardinality({c \in Callers : wake[c] >= slots[k]})

(* Every slot further off than a token follows another by a token exactly.  *)
NoHoles ==
  /\ NextSlot - Unit > now => \E d \in Callers : wake[d] = NextSlot - Unit
  /\ \A c \in Callers :
       wake[c] > now + Unit => \E d \in Callers : wake[d] = wake[c] - Unit

QueueInv == IInv /\ PastOrBeforeNext /\ SlotsHaveSleepers /\ NoHoles

LEMMA Sleepers ==
  ASSUME BucketOK, NEW S \in SUBSET Callers
  PROVE  IsFiniteSet(S) /\ Cardinality(S) \in Nat
  BY FS_Subset, FS_CardinalityType DEF BucketOK

LEMMA AcquireKeepsSleepers ==
  ASSUME BucketOK, QueueInv, NEW c \in Callers, Acquire(c)
  PROVE  PastOrBeforeNext' /\ SlotsHaveSleepers' /\ NoHoles'
<1> DEFINE slot == now + Shortfall(Refilled)
           n == Len(slots)
<1>1. /\ slot \in Nat /\ slots' = Append(slots, slot) /\ now' = now
      /\ wake' = [wake EXCEPT ![c] = slot]
      /\ NextSlot \in Int /\ NextSlot' \in Int
      /\ slot >= NextSlot /\ slot >= now
      /\ NextSlot + Unit <= NextSlot'
      /\ slot > now => slot = NextSlot
      /\ NextSlot' - Unit > now => slot = NextSlot' - Unit
  BY AcquireEffect DEF IInv, QueueInv
<1> HIDE DEF slot
<1>2. slots \in Seq(Nat) /\ n \in Nat /\ Unit \in Nat \ {0} /\ now \in Nat
      /\ wake \in [Callers -> Nat \cup {-1}] /\ wake[c] = -1
  BY DEF BucketOK, IInv, QueueInv, TypeOK, Awake, Acquire
<1>3. /\ DOMAIN slots = 1 .. n /\ DOMAIN slots' = 1 .. n + 1
      /\ Len(slots') = n + 1
      /\ slots'[n + 1] = slot
      /\ \A i \in 1 .. n : slots'[i] = slots[i] /\ slots[i] \in Nat
  BY <1>1, <1>2
<1>4. /\ wake'[c] = slot
      /\ \A d \in Callers : wake[d] \in Int /\ (d # c => wake'[d] = wake[d])
  BY <1>1, <1>2
<1>5. PastOrBeforeNext'
  <2> SUFFICES ASSUME NEW i \in 1 .. n + 1
               PROVE  slots'[i] <= now \/ slots'[i] + Unit <= NextSlot'
    BY <1>1, <1>3 DEF PastOrBeforeNext
  <2>1. CASE i = n + 1
    BY <1>1, <1>2, <1>3, <2>1
  <2>2. CASE i \in 1 .. n
    <3>1. slots'[i] = slots[i] /\ slots[i] \in Nat
      BY <1>3, <2>2
    <3>2. slots[i] <= now \/ slots[i] + Unit <= NextSlot
      BY <1>3, <2>2 DEF QueueInv, PastOrBeforeNext
    <3>3. /\ NextSlot \in Int /\ NextSlot' \in Int /\ Unit \in Nat
          /\ NextSlot <= NextSlot'
      BY <1>1, <1>2
    <3> QED
      BY <3>1, <3>2, <3>3
  <2> QED
    BY <1>2, <2>1, <2>2
<1>6. SlotsHaveSleepers'
  <2> SUFFICES ASSUME NEW k \in 1 .. n + 1, slots'[k] > now
               PROVE  n + 1 - k + 1 <=
                        Cardinality({d \in Callers : wake'[d] >= slots'[k]})
    BY <1>1, <1>3, SMTT(30) DEF SlotsHaveSleepers
  <2> DEFINE S == {d \in Callers : wake'[d] >= slots'[k]}
  <2>1. CASE k = n + 1
    <3>1. c \in S
      BY <1>1, <1>3, <1>4, <2>1
    <3>2. {c} \subseteq S /\ Cardinality({c}) = 1
      BY <3>1, FS_Singleton
    <3>3. 1 <= Cardinality(S)
      <4>1. IsFiniteSet(S)
        BY Sleepers
      <4> HIDE DEF S
      <4> QED
        BY <3>2, <4>1, FS_Subset
    <3> QED
      BY <1>2, <2>1, <3>3, Sleepers
  <2>2. CASE k \in 1 .. n
    <3> DEFINE T == {d \in Callers : wake[d] >= slots[k]}
    <3>1. slots'[k] = slots[k] /\ slots[k] \in Nat /\ slots[k] > now
      BY <1>3, <2>2
    <3>2. slots[k] <= slot
      <4>1. slots[k] <= now \/ slots[k] + Unit <= NextSlot
        BY <1>3, <2>2 DEF QueueInv, PastOrBeforeNext
      <4> QED
        BY <1>1, <1>2, <3>1, <4>1
    <3>3. S = T \cup {c}
      <4>1. c \in S
        BY <1>4, <3>1, <3>2
      <4>2. \A d \in Callers : d # c => (d \in S <=> d \in T)
        BY <1>4, <3>1
      <4> QED
        BY <4>1, <4>2
    <3>4. c \notin T
      BY <1>2, <3>1
    <3>5. Cardinality(S) = Cardinality(T) + 1
      BY <3>3, <3>4, Sleepers, FS_AddElement
    <3>6. n - k + 1 <= Cardinality(T)
      BY <1>3, <2>2, <3>1 DEF QueueInv, SlotsHaveSleepers
    <3>7. Cardinality(T) \in Nat
      BY Sleepers
    <3> HIDE DEF S, T
    <3> QED
      BY <1>2, <3>5, <3>6, <3>7 DEF S
  <2> QED
    BY <1>2, <2>1, <2>2
<1>7. NoHoles'
  <2>1. ASSUME NEW d \in Callers, wake[d] > now
        PROVE  wake'[d] = wake[d]
    BY <1>2, <1>4, <2>1
  <2>2. NextSlot' - Unit > now => \E d \in Callers : wake'[d] = NextSlot' - Unit
    BY <1>1, <1>4
  <2>3. ASSUME NEW d \in Callers, wake'[d] > now + Unit
        PROVE  \E e \in Callers : wake'[e] = wake'[d] - Unit
    <3>1. CASE d = c
      <4>1. slot = NextSlot /\ NextSlot - Unit > now
        BY <1>1, <1>2, <1>4, <2>3, <3>1
      <4>2. PICK e \in Callers : wake[e] = NextSlot - Unit
        BY <4>1 DEF QueueInv, NoHoles
      <4> QED
        BY <1>4, <2>1, <3>1, <4>1, <4>2
    <3>2. CASE d # c
      <4>1. PICK e \in Callers : wake[e] = wake[d] - Unit
        BY <1>4, <2>3, <3>2 DEF QueueInv, NoHoles
      <4>2. wake[e] > now
        BY <1>2, <1>4, <2>3, <3>2, <4>1
      <4> QED
        BY <1>4, <2>1, <3>2, <4>1, <4>2
    <3> QED
      BY <3>1, <3>2
  <2> QED
    BY <1>1, <2>2, <2>3 DEF NoHoles
<1> QED
  BY <1>5, <1>6, <1>7

LEMMA NextQueueInv ==
  ASSUME BucketOK
  PROVE  QueueInv /\ [Next]_vars => QueueInv'
<1> SUFFICES ASSUME QueueInv, [Next]_vars
             PROVE  QueueInv'
  OBVIOUS
<1>1. IInv /\ IInv' /\ TypeOK /\ TypeOK'
  BY NextInv DEF QueueInv, IInv
<1>2. /\ now \in Nat /\ NextSlot \in Int /\ Unit \in Nat \ {0}
      /\ \A c \in Callers : wake[c] \in Int
      /\ \A i \in DOMAIN slots : slots[i] \in Nat
  BY <1>1 DEF BucketOK, TypeOK, NextSlot, Awake
<1>3. CASE Tick
  <2>1. now' = now + 1 /\ wake' = wake /\ slots' = slots /\ NextSlot' = NextSlot
    BY <1>3 DEF Tick, NextSlot
  <2>2. PastOrBeforeNext' /\ SlotsHaveSleepers'
    BY <1>2, <2>1 DEF QueueInv, PastOrBeforeNext, SlotsHaveSleepers
  <2>3. NoHoles'
    BY <1>2, <2>1 DEF QueueInv, NoHoles
  <2> QED
    BY <1>1, <2>2, <2>3 DEF QueueInv
<1>4. ASSUME NEW c \in Callers, Acquire(c)
      PROVE  QueueInv'
  BY <1>1, <1>4, AcquireKeepsSleepers DEF QueueInv
<1>5. ASSUME NEW c \in Callers, Return(c)
      PROVE  QueueInv'
  <2>1. /\ now' = now /\ slots' = slots /\ NextSlot' = NextSlot
        /\ wake[c] <= now /\ wake'[c] = -1
        /\ \A d \in Callers : d # c => wake'[d] = wake[d]
    BY <1>1, <1>5 DEF Return, NextSlot, TypeOK, Awake
  <2>2. \A k \in DOMAIN slots : slots[k] > now =>
          {d \in Callers : wake'[d] >= slots[k]}
            = {d \in Callers : wake[d] >= slots[k]}
    BY <1>2, <2>1
  <2>3. PastOrBeforeNext' /\ SlotsHaveSleepers'
    BY <2>1, <2>2 DEF QueueInv, PastOrBeforeNext, SlotsHaveSleepers
  <2>4. \A d \in Callers :
          wake'[d] > now \/ wake[d] > now => wake'[d] = wake[d]
    BY <1>2, <2>1
  <2>5. NoHoles'
    BY <1>2, <2>1, <2>4 DEF QueueInv, NoHoles
  <2> QED
    BY <1>1, <2>3, <2>5 DEF QueueInv
<1>6. CASE UNCHANGED vars
  BY <1>1, <1>6 DEF vars, QueueInv, PastOrBeforeNext, SlotsHaveSleepers,
                    NoHoles, NextSlot
<1> QED
  BY <1>3, <1>4, <1>5, <1>6 DEF Next

LEMMA InitQueueInv ==
  ASSUME BucketOK
  PROVE  Init => QueueInv
<1> SUFFICES ASSUME Init PROVE QueueInv
  OBVIOUS
<1>1. PastOrBeforeNext /\ SlotsHaveSleepers
  BY DEF Init, PastOrBeforeNext, SlotsHaveSleepers
<1>2. NextSlot - Unit <= now /\ now = 0
  BY Multiples DEF BucketOK, Init, NextSlot
<1>3. NextSlot \in Int /\ Unit \in Nat
  BY Multiples DEF BucketOK, Init, NextSlot
<1>4. NoHoles
  BY <1>2, <1>3 DEF Init, NoHoles, Awake
<1> QED
  BY <1>1, <1>4, InitInv DEF QueueInv

LEMMA QueueInvariance ==
  ASSUME BucketOK
  PROVE  Spec => []QueueInv
  BY InitQueueInv, NextQueueInv, PTL DEF Spec

(* The first waiter whose wait is too long has one a token before it, whose *)
(* wait is not.                                                             *)
LEMMA WaitsAreBounded ==
  ASSUME BucketOK, TypeOK, NoHoles
  PROVE  BoundedWait
<1> DEFINE W(t) == {d \in Callers : now < wake[d] /\ wake[d] <= t}
           Late == {t \in Nat : /\ \E c \in Callers : wake[c] = t
                                /\ t > now /\ t - now > Unit * Cardinality(W(t))}
<1>1. /\ now \in Nat /\ Unit \in Nat \ {0}
      /\ \A c \in Callers : wake[c] \in Int /\ (wake[c] > now => wake[c] \in Nat)
  BY DEF BucketOK, TypeOK, Awake
<1>2. \A t \in Nat : IsFiniteSet(W(t)) /\ Cardinality(W(t)) \in Nat
  BY Sleepers
<1>3. Late = {}
  <2> SUFFICES ASSUME Late # {} PROVE FALSE
    OBVIOUS
  <2>1. PICK t \in Late : \A u \in Late : ~(u < t)
    <3> DEFINE R == OpToRel(<, Nat)
    <3>1. \A p \in Nat, q \in Nat : <<p, q>> \in R <=> p < q
      BY DEF OpToRel
    <3>2. IsWellFoundedOn(R, Nat)
      BY NatLessThanWellFounded
    <3> HIDE DEF R
    <3>3. Late \subseteq Nat
      OBVIOUS
    <3> HIDE DEF Late
    <3>4. PICK t \in Late : \A u \in Late : <<u, t>> \notin R
      BY <3>2, <3>3, WFMin
    <3> QED
      BY <3>1, <3>3, <3>4
  <2>2. PICK c \in Callers : wake[c] = t
    BY <2>1
  <2>3. t \in Nat /\ t > now /\ t - now > Unit * Cardinality(W(t))
    BY <2>1
  <2>4. c \in W(t)
    BY <1>1, <2>2, <2>3
  <2>5. CASE t <= now + Unit
    <3>1. {c} \subseteq W(t) /\ Cardinality({c}) = 1
      BY <2>4, FS_Singleton
    <3>2. Cardinality({c}) <= Cardinality(W(t))
      BY <1>2, <2>3, <3>1, FS_Subset
    <3>3. Cardinality(W(t)) >= 1 /\ Cardinality(W(t)) \in Nat
      BY <1>2, <2>3, <3>1, <3>2
    <3> HIDE DEF W
    <3>4. Unit <= Unit * Cardinality(W(t))
      BY <1>1, <3>3
    <3>5. Unit * Cardinality(W(t)) \in Nat
      BY <1>1, <3>3
    <3> QED
      BY <1>1, <2>3, <2>5, <3>4, <3>5
  <2>6. CASE t > now + Unit
    <3>1. PICK d \in Callers : wake[d] = t - Unit
      BY <2>2, <2>6 DEF NoHoles
    <3> DEFINE u == t - Unit
    <3>2. u \in Nat /\ u > now /\ u < t
      BY <1>1, <2>3, <2>6
    <3>3. u - now <= Unit * Cardinality(W(u))
      <4>1. u \notin Late
        BY <2>1, <3>2
      <4>2. Unit * Cardinality(W(u)) \in Nat
        <5>1. Cardinality(W(u)) \in Nat
          BY <1>2, <3>2
        <5> HIDE DEF W, u
        <5> QED
          BY <1>1, <5>1
      <4>3. ~(u - now > Unit * Cardinality(W(u)))
        BY <3>1, <3>2, <4>1
      <4> HIDE DEF W, u
      <4> QED
        BY <1>1, <3>2, <4>2, <4>3
    <3>4. c \notin W(u) /\ W(u) \cup {c} \subseteq W(t)
      BY <1>1, <2>2, <2>3, <2>4, <3>2
    <3>5. Cardinality(W(u)) + 1 <= Cardinality(W(t))
      <4>1. Cardinality(W(u) \cup {c}) = Cardinality(W(u)) + 1
        BY <1>2, <3>2, <3>4, FS_AddElement
      <4>2. IsFiniteSet(W(t))
        BY <1>2, <2>3
      <4>3. Cardinality(W(u) \cup {c}) <= Cardinality(W(t))
        BY <3>4, <4>2, FS_Subset
      <4> QED
        BY <4>1, <4>3
    <3> DEFINE a == Cardinality(W(u))
               b == Cardinality(W(t))
    <3>6. a \in Nat /\ b \in Nat /\ a + 1 <= b
      BY <1>2, <2>3, <3>2, <3>5
    <3>7. u - now <= Unit * a /\ t - now > Unit * b
      BY <2>3, <3>3
    <3> HIDE DEF a, b, W
    <3>8. Unit * a + Unit <= Unit * b
      <4>1. Unit * (a + 1) = Unit * a + Unit
        BY <1>1, <3>6
      <4>2. Unit * (a + 1) <= Unit * b
        BY <1>1, <3>6
      <4> QED
        BY <4>1, <4>2
    <3>9. Unit * a \in Nat /\ Unit * b \in Nat
      BY <1>1, <3>6
    <3> QED
      BY <1>1, <2>3, <3>7, <3>8, <3>9
  <2> QED
    BY <1>1, <2>3, <2>5, <2>6
<1>4. ASSUME NEW c \in Callers, wake[c] > now
      PROVE  wake[c] - now <= Unit * Cardinality({d \in Callers : wake[d] > now})
  <2> DEFINE t == wake[c]
             a == Cardinality(W(t))
             b == Cardinality({d \in Callers : wake[d] > now})
  <2>1. t \in Nat /\ a \in Nat /\ b \in Nat
    BY <1>1, <1>2, <1>4, Sleepers
  <2>2. a <= b
    <3>1. W(t) \subseteq {d \in Callers : wake[d] > now}
      BY <1>1
    <3>2. IsFiniteSet({d \in Callers : wake[d] > now})
      BY Sleepers
    <3> QED
      BY <3>1, <3>2, FS_Subset
  <2>3. ~(t - now > Unit * a)
    BY <1>3, <1>4, <2>1
  <2> HIDE DEF a, b, W
  <2>4. Unit * a <= Unit * b /\ Unit * a \in Nat /\ Unit * b \in Nat
    BY <1>1, <2>1, <2>2
  <2> QED
    BY <1>1, <1>4, <2>1, <2>3, <2>4 DEF b
<1> QED
  BY <1>4 DEF BoundedWait

-----------------------------------------------------------------------------
(* Nobody waits longer than one token for each caller asleep, himself       *)
(* included, however many share the bucket (acquire).                       *)
THEOREM BoundedWaitAlways ==
  ASSUME BucketOK
  PROVE  Spec => []BoundedWait
<1>1. QueueInv => BoundedWait
  BY WaitsAreBounded DEF QueueInv, IInv
<1> QED
  BY <1>1, QueueInvariance, PTL

(* Whatever the rate, the burst and the callers, any window of the slots    *)
(* handed out keeps within the burst and the refill (acquire).              *)
THEOREM RateHoldsAlways ==
  ASSUME BucketOK
  PROVE  Spec => []RateHolds
<1>1. IInv => RateHolds
  BY DEF IInv
<1> QED
  BY <1>1, Invariance, PTL

(* Callers that wait do so a token apart, however many there are (the       *)
(* comment on the negative balance).                                        *)
THEOREM QueuedAlways ==
  ASSUME BucketOK
  PROVE  Spec => []Queued
<1>1. IInv => Queued
  BY DEF IInv
<1> QED
  BY <1>1, Invariance, PTL
=============================================================================
