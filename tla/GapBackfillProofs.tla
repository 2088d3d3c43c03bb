------------------------- MODULE GapBackfillProofs --------------------------
(* For any number of days, retries and faults: a run of the dag leaves no   *)
(* gap when it succeeds, and no day is behind another for good.             *)
EXTENDS GapBackfill, WellFoundedInduction, TLAPS

Oldest(date) == date - Lookback
Invoked == {"invoke", "wait", "succeeded", "failed"}

(* Where a run is, and that the gaps it found hold the oldest day it can see*)
(* unless bronze had it; it fails without a fault only by a call's answer.  *)
RunOK(date) ==
  LET r == run[date]
  IN  /\ r.state \in {"find", "invoke", "wait"} <=> current = date
      /\ r.gaps \subseteq Window(date)
      /\ r.state \in {"invoke", "wait"} => r.gaps # {}
      /\ r.state \in {"wait", "succeeded"} =>
           r.call \in DOMAIN invocations /\ invocations[r.call].for = date
      /\ r.state = "succeeded" => invocations[r.call].state = "returned"
      /\ (r.state \in Invoked /\ ~r.faulty /\ Oldest(date) \in Days) =>
           Oldest(date) \in r.gaps \cup bronze
      /\ (r.state = "skipped" /\ Oldest(date) \in Days) => Oldest(date) \in bronze
      /\ (r.state = "failed" /\ ~r.faulty) =>
           \E i \in DOMAIN invocations :
             invocations[i].for = date /\ invocations[i].state = "raised"

(* The walk of an invocation over the gaps of its run: what it has passed   *)
(* has rows, or had none; if it raised without a fault, it had begun.       *)
CallOK(i) ==
  LET k    == invocations[i]
      gaps == run[k.for].gaps
      Seen(g) == g \in bronze \cup k.unloadable
  IN  /\ run[k.for].state \in Invoked
      /\ gaps # {}
      /\ k.last = Last(gaps) /\ First(gaps) <= k.day /\ k.day <= k.last
      /\ \A g \in gaps : (g < k.day \/ k.state = "returned") => Seen(g)
      /\ (k.state = "raised" /\ ~run[k.for].faulty) => Seen(First(gaps))

IInv ==
  /\ TypeOK
  /\ \A date \in Days : RunOK(date)
  /\ \A i \in DOMAIN invocations : CallOK(i)

-----------------------------------------------------------------------------
(* The least of a set of naturals.                                          *)

LEMMA LeastOfNaturals ==
  ASSUME NEW S \in SUBSET Nat, S # {}
  PROVE  \E m \in S : \A n \in S : m <= n
<1> DEFINE R == OpToRel(<, Nat)
<1>1. \A p \in Nat, q \in Nat : <<p, q>> \in R <=> p < q
  BY DEF OpToRel
<1>2. IsWellFoundedOn(R, Nat)
  BY NatLessThanWellFounded
<1> HIDE DEF R
<1>3. PICK m \in S : \A n \in S : <<n, m>> \notin R
  BY <1>2, WFMin
<1>4. ASSUME NEW n \in S
      PROVE  m <= n
  <2>1. m \in Nat /\ n \in Nat
    OBVIOUS
  <2>2. ~(n < m)
    BY <1>1, <1>3, <2>1
  <2> QED
    BY <2>1, <2>2
<1> QED
  BY <1>4

(* First and Last are what their names say.                                 *)
LEMMA Extremes ==
  ASSUME NEW gaps \in SUBSET Days, gaps # {}
  PROVE  /\ First(gaps) \in gaps /\ \A g \in gaps : First(gaps) <= g
         /\ Last(gaps) \in gaps /\ \A g \in gaps : g <= Last(gaps)
<1>1. \E m \in gaps : \A n \in gaps : m <= n
  BY LeastOfNaturals DEF Days
<1>2. \E m \in gaps : \A n \in gaps : n <= m
  <2> DEFINE back == {LastDay - g : g \in gaps}
  <2>1. back \in SUBSET Nat /\ back # {}
    <3>1. PICK g \in gaps : TRUE
      OBVIOUS
    <3>2. LastDay - g \in back
      BY <3>1
    <3>3. \A h \in gaps : LastDay - h \in Nat
      BY GapOK DEF Days
    <3> QED
      BY <3>2, <3>3
  <2>2. PICK k \in back : \A n \in back : k <= n
    BY <2>1, LeastOfNaturals
  <2>3. PICK m \in gaps : k = LastDay - m
    BY <2>2
  <2>4. \A n \in gaps : k <= LastDay - n
    BY <2>2
  <2> QED
    BY <2>3, <2>4, GapOK DEF Days
<1> QED
  BY <1>1, <1>2 DEF First, Last

(* How the other runs and the invocations may move without undoing a run.   *)
CallsGo ==
  /\ DOMAIN invocations \subseteq DOMAIN invocations'
  /\ \A i \in DOMAIN invocations :
       /\ invocations'[i].for = invocations[i].for
       /\ invocations[i].state # "running" =>
            invocations'[i].state = invocations[i].state

LEMMA RunKept ==
  ASSUME NEW date \in Days, RunOK(date),
         run'[date] = run[date],
         current' = date <=> current = date,
         bronze \subseteq bronze',
         CallsGo
  PROVE  RunOK(date)'
  BY DEF RunOK, CallsGo, Oldest, Window, Days

LEMMA CallKept ==
  ASSUME NEW i \in DOMAIN invocations, CallOK(i),
         invocations'[i] = invocations[i],
         bronze \subseteq bronze',
         run'[invocations[i].for].gaps = run[invocations[i].for].gaps,
         run'[invocations[i].for].state \in Invoked,
         run[invocations[i].for].faulty => run'[invocations[i].for].faulty
  PROVE  CallOK(i)'
  BY DEF CallOK, Invoked, First, Last

LEMMA InitInv == Init => IInv
<1> SUFFICES ASSUME Init PROVE IInv
  OBVIOUS
<1>1. TypeOK
  BY GapOK DEF Init, TypeOK, Days, Answers, States, Run
<1>2. \A date \in Days : RunOK(date)
  BY GapOK DEF Init, RunOK, Invoked, Days
<1>3. DOMAIN invocations = {}
  BY DEF Init
<1> QED
  BY <1>1, <1>2, <1>3 DEF IInv

(* The dag run in progress, and where it is.                                *)
LEMMA InProgress ==
  ASSUME IInv, current # 0
  PROVE  /\ current \in Days
         /\ run[current] \in Run
         /\ run[current].state \in {"find", "invoke", "wait"}
         /\ RunOK(current)
  BY DEF IInv, TypeOK, Days, RunOK

LEMMA CallTypes ==
  ASSUME TypeOK, NEW i \in DOMAIN invocations
  PROVE  /\ invocations[i] \in Invocation
         /\ invocations[i].for \in Days
         /\ run[invocations[i].for] \in Run
<1>1. invocations \in Seq(Invocation) /\ run \in [Days -> Run]
  BY DEF TypeOK
<1>2. invocations[i] \in Invocation
  BY <1>1
<1> QED
  BY <1>1, <1>2 DEF Invocation

(* What leaves runs and invocations alone.                                  *)
LEMMA QuietStep ==
  ASSUME IInv, TypeOK', UNCHANGED <<current, run, invocations>>,
         bronze \subseteq bronze'
  PROVE  IInv'
<1>1. CallsGo
  BY DEF CallsGo
<1>2. ASSUME NEW date \in Days
      PROVE  RunOK(date)'
  BY <1>1, RunKept DEF IInv
<1>3. ASSUME NEW i \in DOMAIN invocations
      PROVE  CallOK(i)'
  BY CallKept DEF IInv, CallOK
<1> QED
  BY <1>2, <1>3 DEF IInv

(* A step of the run in progress that leaves the invocations alone: the     *)
(* other runs stand, and the calls do, if its gaps, and the fact that it    *)
(* had invoked the function, and its faults, stay.                          *)
LEMMA RunStep ==
  ASSUME IInv, TypeOK', UNCHANGED <<invocations, bronze>>,
         NEW date \in Days, RunOK(date)',
         \A d \in Days \ {date} :
           run'[d] = run[d] /\ (current' = d <=> current = d),
         run[date].state \in Invoked =>
           /\ run'[date].state \in Invoked
           /\ run'[date].gaps = run[date].gaps
           /\ run[date].faulty => run'[date].faulty
  PROVE  IInv'
<1>1. CallsGo
  BY DEF CallsGo
<1>2. ASSUME NEW d \in Days
      PROVE  RunOK(d)'
  <2>1. CASE d = date
    BY <2>1
  <2>2. CASE d # date
    BY <1>1, <2>2, RunKept DEF IInv
  <2> QED
    BY <2>1, <2>2
<1>3. ASSUME NEW i \in DOMAIN invocations
      PROVE  CallOK(i)'
  <2>1. invocations[i].for \in Days
    BY CallTypes DEF IInv
  <2>2. CallOK(i) /\ run[invocations[i].for].state \in Invoked
    BY DEF IInv, CallOK
  <2>3. /\ run'[invocations[i].for].gaps = run[invocations[i].for].gaps
        /\ run'[invocations[i].for].state \in Invoked
        /\ run[invocations[i].for].faulty => run'[invocations[i].for].faulty
    BY <2>1, <2>2
  <2> QED
    BY <2>2, <2>3, CallKept
<1> QED
  BY <1>2, <1>3 DEF IInv

LEMMA StartRunStep ==
  ASSUME IInv, NEW date \in Days, StartRun(date)
  PROVE  IInv'
<1> USE DEF IInv
<1>1. /\ current = 0 /\ current' = date /\ run[date].state = "none"
      /\ run' = [run EXCEPT ![date].state = "find"]
      /\ UNCHANGED <<today, says, changes, bronze, invocations, faults>>
  BY DEF StartRun, Days
<1>2. run \in [Days -> Run] /\ 0 \notin Days /\ RunOK(date)
  BY DEF TypeOK, Days
<1>3. TypeOK'
  <2>1. run' \in [Days -> Run]
    BY <1>1, <1>2 DEF Run, States
  <2>2. current' \in 0 .. LastDay
    BY <1>1 DEF Days
  <2> QED
    BY <1>1, <2>1, <2>2 DEF TypeOK
<1>4. RunOK(date)'
  BY <1>1, <1>2 DEF RunOK, Invoked, Window, Days, Run
<1>5. \A d \in Days \ {date} :
        run'[d] = run[d] /\ (current' = d <=> current = d)
  BY <1>1, <1>2
<1> QED
  BY <1>1, <1>3, <1>4, <1>5, RunStep DEF Invoked

LEMMA FindGapsStep ==
  ASSUME IInv, FindGaps
  PROVE  IInv'
<1> DEFINE gaps == Window(current) \ bronze
<1>1. /\ current # 0 /\ run[current].state = "find"
      /\ UNCHANGED <<today, says, changes, bronze, invocations, faults>>
  BY DEF FindGaps
<1>2. /\ current \in Days /\ run[current] \in Run /\ RunOK(current)
      /\ run \in [Days -> Run] /\ TypeOK
  BY <1>1, InProgress DEF IInv, TypeOK
<1>3. current \in 0 .. LastDay /\ 0 \in 0 .. LastDay /\ 0 \notin Days
  BY <1>2, GapOK DEF TypeOK, Days
<1>4. gaps \subseteq Window(current) /\ gaps \in SUBSET Days
  BY DEF Window
<1>5. Oldest(current) \in Days => Oldest(current) \in Window(current)
  BY <1>2, GapOK DEF Window, Oldest, Days
<1>6. CASE gaps = {}
  <2>1. /\ current' = 0
        /\ run' = [run EXCEPT ![current].state = "skipped"]
    BY <1>6 DEF FindGaps, Finish
  <2>2. run' \in [Days -> Run]
    BY <1>2, <2>1 DEF Run, States
  <2>3. TypeOK'
    BY <1>1, <1>2, <1>3, <2>1, <2>2 DEF TypeOK
  <2>5. \A date \in Days : date = current => RunOK(date)'
    BY <1>1, <1>2, <1>3, <1>5, <1>6, <2>1
       DEF RunOK, Invoked, Window, Days, Oldest
  <2>6. \A d \in Days \ {current} :
          run'[d] = run[d] /\ (current' = d <=> current = d)
    BY <1>2, <1>3, <2>1
  <2> QED
    BY <1>1, <2>3, <2>6, <2>5, <1>2, RunStep DEF Invoked
<1>7. CASE gaps # {}
  <2>1. /\ current' = current
        /\ run' = [run EXCEPT ![current] =
             [@ EXCEPT !.state = "invoke", !.tries = 0, !.gaps = gaps]]
    BY <1>7 DEF FindGaps
  <2> HIDE DEF gaps
  <2>2. run' \in [Days -> Run]
    <3>1. 0 \in 0 .. Retries + 1 /\ "invoke" \in States
      BY GapOK DEF States
    <3>2. [run[current] EXCEPT !.state = "invoke", !.tries = 0, !.gaps = gaps]
            \in Run
      BY <1>2, <1>4, <3>1 DEF Run
    <3> QED
      BY <1>2, <2>1, <3>2
  <2>3. TypeOK'
    BY <1>1, <1>2, <1>3, <2>1, <2>2 DEF TypeOK
  <2>4. \A date \in Days : date = current => RunOK(date)'
    BY <1>1, <1>2, <1>3, <1>4, <1>5, <1>7, <2>1
       DEF RunOK, Invoked, Window, Days, Oldest, gaps
  <2>5. \A d \in Days \ {current} :
          run'[d] = run[d] /\ (current' = d <=> current = d)
    BY <1>2, <1>3, <2>1
  <2> QED
    BY <1>1, <2>3, <2>4, <2>5, <1>2, RunStep DEF Invoked
<1> QED
  BY <1>6, <1>7

LEMMA InvokeStep ==
  ASSUME IInv, Invoke
  PROVE  IInv'
<1> DEFINE gaps == run[current].gaps
           n == Len(invocations)
           new == [for |-> current, day |-> First(gaps), last |-> Last(gaps),
                   state |-> "running", unloadable |-> {}]
<1>1. /\ current # 0 /\ run[current].state = "invoke"
      /\ invocations' = Append(invocations, new)
      /\ run' = [run EXCEPT ![current] =
           [@ EXCEPT !.state = "wait", !.call = Len(invocations')]]
      /\ UNCHANGED <<today, says, changes, bronze, current, faults>>
  BY DEF Invoke
<1>2. /\ current \in Days /\ run[current] \in Run /\ RunOK(current)
      /\ run \in [Days -> Run] /\ TypeOK /\ invocations \in Seq(Invocation)
  BY <1>1, InProgress DEF IInv, TypeOK
<1>3. gaps \in SUBSET Days /\ gaps # {}
  BY <1>1, <1>2 DEF RunOK, Run
<1>4. /\ First(gaps) \in Days /\ Last(gaps) \in Days
      /\ First(gaps) <= Last(gaps) /\ \A g \in gaps : First(gaps) <= g
  BY <1>3, Extremes
<1> HIDE DEF gaps
<1>5. new \in Invocation
  BY <1>2, <1>4 DEF Invocation
<1>6. /\ invocations' \in Seq(Invocation) /\ Len(invocations') = n + 1
      /\ DOMAIN invocations' = 1 .. n + 1 /\ DOMAIN invocations = 1 .. n
      /\ n \in Nat /\ n + 1 \in Nat /\ invocations'[n + 1] = new
      /\ \A i \in 1 .. n : invocations'[i] = invocations[i]
  <2> HIDE DEF new
  <2> QED
    BY <1>1, <1>2, <1>5
<1>7. TypeOK'
  <2>1. [run[current] EXCEPT !.state = "wait", !.call = n + 1] \in Run
    BY <1>2, <1>6 DEF Run, States
  <2>2. run' \in [Days -> Run]
    BY <1>1, <1>2, <1>6, <2>1
  <2> QED
    BY <1>1, <1>2, <1>6, <2>2 DEF TypeOK
<1>8. CallsGo
  BY <1>6 DEF CallsGo
<1>9. ASSUME NEW date \in Days
      PROVE  RunOK(date)'
  <2>1. CASE date = current
    BY <1>1, <1>2, <1>6, <2>1 DEF RunOK, Invoked, Window, Oldest, Days, Run
  <2>2. CASE date # current
    BY <1>1, <1>2, <1>8, <2>2, RunKept DEF IInv
  <2> QED
    BY <2>1, <2>2
<1>10. /\ run'[current].gaps = gaps /\ run'[current].state = "wait"
       /\ run'[current].faulty = run[current].faulty
       /\ \A d \in Days \ {current} : run'[d] = run[d]
  BY <1>1, <1>2 DEF gaps, Run
<1>11. ASSUME NEW i \in DOMAIN invocations'
       PROVE  CallOK(i)'
  <2>1. CASE i = n + 1
    <3>1. invocations'[i] = new
      BY <1>6, <2>1
    <3> DEFINE k == invocations'[i]
    <3>2. /\ k.for = current /\ k.day = First(gaps) /\ k.last = Last(gaps)
          /\ k.state = "running"
      BY <3>1
    <3>3. \A g \in gaps : ~(g < First(gaps))
      BY <1>3, <1>4 DEF Days
    <3>4. First(gaps) <= k.day /\ k.day <= k.last
      BY <1>4, <3>2 DEF Days
    <3> HIDE DEF k
    <3> QED
      BY <1>3, <1>10, <3>2, <3>3, <3>4 DEF CallOK, k, Invoked, First, Last
  <2>2. CASE i \in 1 .. n
    <3>1. CallOK(i) /\ invocations'[i] = invocations[i]
      BY <1>6, <2>2 DEF IInv
    <3>2. invocations[i].for \in Days /\ run[invocations[i].for].state \in Invoked
      BY <1>2, <1>6, <2>2, <3>1, CallTypes DEF CallOK
    <3>3. /\ run'[invocations[i].for].gaps = run[invocations[i].for].gaps
          /\ run'[invocations[i].for].state \in Invoked
          /\ run[invocations[i].for].faulty => run'[invocations[i].for].faulty
      BY <1>10, <3>2 DEF gaps, Invoked
    <3> QED
      BY <1>1, <1>6, <2>2, <3>1, <3>3, CallKept
  <2> QED
    BY <1>6, <2>1, <2>2
<1> QED
  BY <1>7, <1>9, <1>11 DEF IInv

(* A task raised, and is tried again or ends the run: after a fault, or     *)
(* because its call raised.                                                 *)
LEMMA TaskFailsStep ==
  ASSUME IInv, current # 0, NEW again \in {"find", "invoke"}, NEW faulty \in BOOLEAN,
         TaskFails(again, faulty),
         UNCHANGED <<today, says, changes, bronze, invocations>>,
         faults' \in 0 .. MaxFaults,
         \/ run[current].state = "find" /\ again = "find" /\ faulty
         \/ /\ run[current].state = "wait" /\ again = "invoke"
            /\ faulty \/ invocations[run[current].call].state = "raised"
  PROVE  IInv'
<1>1. /\ current \in Days /\ run[current] \in Run /\ RunOK(current)
      /\ run \in [Days -> Run] /\ TypeOK /\ 0 \notin Days
      /\ 0 \in 0 .. LastDay /\ current \in 0 .. LastDay
  BY InProgress, GapOK DEF IInv, TypeOK, Days
<1> DEFINE old == run[current]
           new == run'[current]
<1>2. /\ \A d \in Days \ {current} : run'[d] = run[d]
      /\ new.gaps = old.gaps /\ new.call = old.call
      /\ new.faulty = (old.faulty \/ faulty)
      /\ \/ new.state = again /\ current' = current
         \/ new.state = "failed" /\ current' = 0
      /\ run' \in [Days -> Run]
  <2>1. CASE MayRetry(old.tries)
    <3> DEFINE r == [old EXCEPT !.state = again, !.tries = @ + 1,
                                !.faulty = @ \/ faulty]
    <3>1. /\ run' = [run EXCEPT ![current] = r]
          /\ current' = current
      BY <2>1 DEF TaskFails
    <3>2. old.tries + 1 \in 0 .. Retries + 1
      BY <1>1, <2>1, GapOK DEF MayRetry, Run
    <3>3. /\ r.gaps = old.gaps /\ r.call = old.call
          /\ r.faulty = (old.faulty \/ faulty) /\ r.state = again
          /\ r \in Run
      BY <1>1, <3>2 DEF Run, States
    <3> HIDE DEF r
    <3> QED
      BY <1>1, <3>1, <3>3
  <2>2. CASE ~MayRetry(old.tries)
    <3> DEFINE r == [old EXCEPT !.state = "failed", !.faulty = @ \/ faulty]
    <3>1. /\ run' = [run EXCEPT ![current] = r]
          /\ current' = 0
      BY <2>2 DEF TaskFails
    <3>2. /\ r.gaps = old.gaps /\ r.call = old.call
          /\ r.faulty = (old.faulty \/ faulty) /\ r.state = "failed"
          /\ r \in Run
      BY <1>1 DEF Run, States
    <3> HIDE DEF r
    <3> QED
      BY <1>1, <3>1, <3>2
  <2> QED
    BY <2>1, <2>2
<1>3. TypeOK'
  BY <1>1, <1>2 DEF TypeOK
<1>4. new.state = "failed" /\ ~new.faulty =>
        \E i \in DOMAIN invocations :
          invocations[i].for = current /\ invocations[i].state = "raised"
  <2>1. run[current].state = "wait" =>
          /\ old.call \in DOMAIN invocations
          /\ invocations[old.call].for = current
    BY <1>1 DEF RunOK
  <2> QED
    BY <1>2, <2>1
<1>5. \A date \in Days : date = current => RunOK(date)'
  BY <1>1, <1>2, <1>4 DEF RunOK, Invoked, Window, Oldest
<1>6. \A d \in Days \ {current} :
        run'[d] = run[d] /\ (current' = d <=> current = d)
  BY <1>1, <1>2
<1> QED
  BY <1>1, <1>2, <1>3, <1>5, <1>6, RunStep DEF Invoked

LEMMA ReadAnswerStep ==
  ASSUME IInv, ReadAnswer
  PROVE  IInv'
<1> DEFINE call == run[current].call
<1>1. /\ current # 0 /\ run[current].state = "wait"
      /\ UNCHANGED <<today, says, changes, bronze, invocations, faults>>
  BY DEF ReadAnswer
<1>2. /\ current \in Days /\ run[current] \in Run /\ RunOK(current)
      /\ run \in [Days -> Run] /\ TypeOK
  BY <1>1, InProgress DEF IInv, TypeOK
<1>3. CASE invocations[call].state = "returned" /\ Finish("succeeded")
  <2>1. 0 \in 0 .. LastDay /\ 0 \notin Days /\ current \in 0 .. LastDay
    BY <1>2, GapOK DEF TypeOK, Days
  <2>2. /\ current' = 0
        /\ run' = [run EXCEPT ![current].state = "succeeded"]
    BY <1>3 DEF Finish
  <2>3. run' \in [Days -> Run]
    BY <1>2, <2>2 DEF Run, States
  <2>4. TypeOK'
    BY <1>1, <1>2, <2>1, <2>2, <2>3 DEF TypeOK
  <2>5. \A date \in Days : date = current => RunOK(date)'
    BY <1>1, <1>2, <1>3, <2>1, <2>2 DEF RunOK, Invoked, Window, Oldest, Days, Run
  <2>6. /\ \A d \in Days \ {current} :
             run'[d] = run[d] /\ (current' = d <=> current = d)
        /\ run'[current].state = "succeeded"
        /\ run'[current].gaps = run[current].gaps
        /\ run'[current].faulty = run[current].faulty
    BY <1>2, <2>1, <2>2 DEF Run
  <2> QED
    BY <1>1, <1>2, <2>4, <2>5, <2>6, RunStep DEF Invoked
<1>4. CASE invocations[call].state = "raised" /\ TaskFails("invoke", FALSE)
  BY <1>1, <1>2, <1>4, TaskFailsStep DEF TypeOK
<1> QED
  BY <1>3, <1>4 DEF ReadAnswer

LEMMA FaultsCounted ==
  ASSUME TypeOK, Lost
  PROVE  faults' \in 0 .. MaxFaults
  BY GapOK DEF TypeOK, Lost

LEMMA LoadDayStep ==
  ASSUME IInv, NEW i \in DOMAIN invocations, LoadDay(i)
  PROVE  IInv'
<1> DEFINE k    == invocations[i]
           new  == invocations'[i]
           gaps == run[k.for].gaps
           seen == IF says[k.day] = "rows" THEN k.unloadable
                   ELSE k.unloadable \cup {k.day}
<1>1. /\ k \in Invocation /\ k.for \in Days /\ run[k.for] \in Run
      /\ k.day \in Days /\ k.last \in Days /\ k.day <= k.last
      /\ CallOK(i) /\ RunOK(k.for) /\ TypeOK
  BY CallTypes DEF IInv, CallOK, Invocation
<1>2. /\ k.state = "running"
      /\ UNCHANGED <<today, says, changes, current, run, faults>>
      /\ bronze' = IF says[k.day] = "rows" THEN bronze \cup {k.day} ELSE bronze
  BY DEF LoadDay
<1>3. /\ new \in Invocation /\ new.for = k.for /\ new.last = k.last
      /\ new.unloadable = seen
      /\ \/ new.state = "raised" /\ new.day = k.day /\ says[k.day] = "unreadable"
         \/ new.state = "returned" /\ new.day = k.day /\ k.day = k.last
         \/ new.state = "running" /\ new.day = k.day + 1 /\ k.day < k.last
  <2> DEFINE Moved ==
        IF says[k.day] = "unreadable" THEN [k EXCEPT !.state = "raised"]
        ELSE IF k.day = k.last THEN [k EXCEPT !.state = "returned"]
        ELSE [k EXCEPT !.day = @ + 1]
  <2>1. new = [Moved EXCEPT !.unloadable = seen]
    BY DEF LoadDay
  <2>2. k.day < k.last \/ k.day = k.last
    BY <1>1 DEF Days
  <2>3. k.day < k.last => k.day + 1 \in Days
    BY <1>1, GapOK DEF Days
  <2>4. seen \in SUBSET Days
    BY <1>1 DEF Invocation
  <2> HIDE DEF seen
  <2>5. CASE says[k.day] = "unreadable"
    BY <1>1, <2>1, <2>4, <2>5 DEF Invocation
  <2>6. CASE says[k.day] # "unreadable" /\ k.day = k.last
    BY <1>1, <2>1, <2>4, <2>6 DEF Invocation
  <2>7. CASE says[k.day] # "unreadable" /\ k.day # k.last
    BY <1>1, <1>2, <2>1, <2>2, <2>3, <2>4, <2>7 DEF Invocation
  <2> QED
    BY <2>5, <2>6, <2>7
<1>4. /\ DOMAIN invocations' = DOMAIN invocations
      /\ \A j \in DOMAIN invocations : j # i => invocations'[j] = invocations[j]
      /\ invocations' \in Seq(Invocation)
  <2>1. invocations' = [invocations EXCEPT ![i] = new]
    BY DEF LoadDay
  <2>2. invocations \in Seq(Invocation)
    BY <1>1 DEF TypeOK
  <2> QED
    BY <1>3, <2>1, <2>2
<1>5. bronze \subseteq bronze' /\ bronze' \subseteq Days
  BY <1>1, <1>2 DEF TypeOK
<1>6. TypeOK'
  BY <1>1, <1>2, <1>4, <1>5 DEF TypeOK
<1>7. CallsGo
  BY <1>2, <1>3, <1>4 DEF CallsGo
<1>8. ASSUME NEW date \in Days
      PROVE  RunOK(date)'
  BY <1>2, <1>5, <1>7, RunKept DEF IInv
<1>9. CallOK(i)'
  <2>1. /\ gaps # {} /\ gaps \in SUBSET Days /\ run[k.for].state \in Invoked
        /\ k.last = Last(gaps) /\ First(gaps) <= k.day
        /\ \A g \in gaps : g < k.day => g \in bronze \cup k.unloadable
    BY <1>1 DEF CallOK, Run
  <2>2. /\ First(gaps) \in gaps /\ \A g \in gaps : First(gaps) <= g
        /\ \A g \in gaps : g <= Last(gaps)
    BY <2>1, Extremes
  <2>3. bronze \cup k.unloadable \cup {k.day} = bronze' \cup new.unloadable
    BY <1>2, <1>3
  <2>4. First(gaps) <= new.day /\ new.day <= new.last
    BY <1>1, <1>3, <2>1, <2>2 DEF Days
  <2>5. \A g \in gaps : g <= k.day => g \in bronze' \cup new.unloadable
    <3>1. ASSUME NEW g \in gaps, g <= k.day
          PROVE  g < k.day \/ g = k.day
      BY <1>1, <2>1, <3>1 DEF Days
    <3> QED
      BY <2>1, <2>3, <3>1
  <2>6. \A g \in gaps : (g < new.day \/ new.state = "returned") =>
                          g \in bronze' \cup new.unloadable
    BY <1>1, <1>3, <2>1, <2>2, <2>5 DEF Days
  <2>7. new.state = "raised" => First(gaps) \in bronze' \cup new.unloadable
    BY <2>1, <2>2, <2>5
  <2>8. run'[new.for] = run[k.for]
    BY <1>2, <1>3
  <2> HIDE DEF seen
  <2> QED
    BY <1>3, <2>1, <2>4, <2>6, <2>7, <2>8 DEF CallOK, First, Last
<1>10. ASSUME NEW j \in DOMAIN invocations, j # i
       PROVE  CallOK(j)'
  BY <1>2, <1>4, <1>5, <1>10, CallKept DEF IInv, CallOK
<1> QED
  BY <1>4, <1>6, <1>8, <1>9, <1>10 DEF IInv

LEMMA DieStep ==
  ASSUME IInv, NEW i \in DOMAIN invocations, Die(i)
  PROVE  IInv'
<1> DEFINE k == invocations[i]
<1>1. /\ k \in Invocation /\ k.for \in Days /\ run[k.for] \in Run
      /\ CallOK(i) /\ TypeOK
      /\ run \in [Days -> Run] /\ invocations \in Seq(Invocation)
  BY CallTypes DEF IInv, TypeOK
<1>2. /\ k.state = "running"
      /\ invocations' = [invocations EXCEPT ![i].state = "raised"]
      /\ run' = [run EXCEPT ![k.for].faulty = TRUE]
      /\ UNCHANGED <<today, says, changes, bronze, current>>
      /\ faults' \in 0 .. MaxFaults
  BY <1>1, FaultsCounted DEF Die
<1>3. /\ DOMAIN invocations' = DOMAIN invocations
      /\ \A j \in DOMAIN invocations : j # i => invocations'[j] = invocations[j]
      /\ invocations'[i] = [k EXCEPT !.state = "raised"]
      /\ invocations'[i] \in Invocation
      /\ invocations' \in Seq(Invocation)
  <2>1. [k EXCEPT !.state = "raised"] \in Invocation
    BY <1>1 DEF Invocation
  <2> QED
    BY <1>1, <1>2, <2>1
<1>4. /\ \A d \in Days \ {k.for} : run'[d] = run[d]
      /\ run'[k.for] = [run[k.for] EXCEPT !.faulty = TRUE]
      /\ run' \in [Days -> Run]
  <2>1. [run[k.for] EXCEPT !.faulty = TRUE] \in Run
    BY <1>1 DEF Run
  <2> QED
    BY <1>1, <1>2, <2>1
<1>5. TypeOK'
  BY <1>1, <1>2, <1>3, <1>4 DEF TypeOK
<1>6. CallsGo
  BY <1>1, <1>2, <1>3 DEF CallsGo, Invocation
<1>7. ASSUME NEW date \in Days
      PROVE  RunOK(date)'
  <2>1. CASE date = k.for
    <3>1. /\ run'[date].state = run[date].state /\ run'[date].gaps = run[date].gaps
          /\ run'[date].call = run[date].call /\ run'[date].faulty
      BY <1>1, <1>4, <2>1 DEF Run
    <3>2. RunOK(date) /\ current' = current /\ bronze' = bronze
      BY <1>2 DEF IInv
    <3>3. run[date].state # "skipped"
      BY <1>1, <2>1 DEF CallOK, Invoked
    <3> QED
      BY <1>6, <3>1, <3>2, <3>3 DEF RunOK, CallsGo, Window, Oldest, Days
  <2>2. CASE date # k.for
    BY <1>2, <1>4, <1>6, <2>2, RunKept DEF IInv
  <2> QED
    BY <2>1, <2>2
<1>8. ASSUME NEW j \in DOMAIN invocations
      PROVE  /\ run'[invocations[j].for].gaps = run[invocations[j].for].gaps
             /\ run'[invocations[j].for].state = run[invocations[j].for].state
             /\ run[invocations[j].for].faulty => run'[invocations[j].for].faulty
  <2>1. invocations[j].for \in Days
    BY <1>1, CallTypes
  <2>2. CASE invocations[j].for = k.for
    BY <1>1, <1>4, <2>2 DEF Run
  <2>3. CASE invocations[j].for # k.for
    BY <1>4, <2>1, <2>3
  <2> QED
    BY <2>2, <2>3
<1>9. CallOK(i)'
  <2>1. /\ invocations'[i].for = k.for /\ invocations'[i].day = k.day
        /\ invocations'[i].last = k.last /\ invocations'[i].state = "raised"
        /\ invocations'[i].unloadable = k.unloadable
    BY <1>1, <1>3 DEF Invocation
  <2>2. run'[k.for].faulty /\ bronze' = bronze
    BY <1>1, <1>2, <1>4 DEF Run
  <2> QED
    BY <1>1, <1>2, <1>8, <2>1, <2>2 DEF CallOK, First, Last
<1>10. ASSUME NEW j \in DOMAIN invocations, j # i
       PROVE  CallOK(j)'
  BY <1>2, <1>3, <1>8, <1>10, CallKept DEF IInv, CallOK
<1> QED
  BY <1>3, <1>5, <1>7, <1>9, <1>10 DEF IInv

LEMMA NextInv == IInv /\ [Next]_vars => IInv'
<1> SUFFICES ASSUME IInv, [Next]_vars
             PROVE  IInv'
  OBVIOUS
<1>0. TypeOK
  BY DEF IInv
<1>1. CASE Tick
  <2>1. TypeOK'
    BY <1>0, <1>1, GapOK DEF Tick, TypeOK, Days
  <2> QED
    BY <1>1, <2>1, QuietStep DEF Tick
<1>2. ASSUME NEW d \in Days, NEW answer \in Answers, Publish(d, answer)
      PROVE  IInv'
  <2>1. TypeOK'
    BY <1>0, <1>2, GapOK DEF Publish, TypeOK
  <2> QED
    BY <1>2, <2>1, QuietStep DEF Publish
<1>3. ASSUME NEW d \in Days, Load(d)
      PROVE  IInv'
  <2>1. TypeOK'
    BY <1>0, <1>3 DEF Load, TypeOK
  <2> QED
    BY <1>3, <2>1, QuietStep DEF Load
<1>4. ASSUME NEW d \in Days, StartRun(d)
      PROVE  IInv'
  BY <1>4, StartRunStep
<1>5. CASE Dag
  BY <1>5, FindGapsStep, InvokeStep, ReadAnswerStep DEF Dag
<1>6. CASE QueryFails
  BY <1>0, <1>6, FaultsCounted, TaskFailsStep DEF QueryFails
<1>7. CASE GiveUp
  BY <1>0, <1>7, FaultsCounted, TaskFailsStep DEF GiveUp
<1>8. ASSUME NEW i \in DOMAIN invocations, LoadDay(i) \/ Die(i)
      PROVE  IInv'
  BY <1>8, LoadDayStep, DieStep
<1>9. CASE UNCHANGED vars
  <2>1. TypeOK'
    BY <1>0, <1>9 DEF vars, TypeOK
  <2> QED
    BY <1>9, <2>1, QuietStep DEF vars
<1> QED
  BY <1>1, <1>2, <1>3, <1>4, <1>5, <1>6, <1>7, <1>8, <1>9 DEF Next

LEMMA Invariance == Spec => []IInv
  BY InitInv, NextInv, PTL DEF Spec

-----------------------------------------------------------------------------
(* Every variable stays in its domain: the walk of an invocation never      *)
(* leaves its range.                                                        *)
THEOREM TypeCorrect == Spec => []TypeOK
<1>1. IInv => TypeOK
  BY DEF IInv
<1> QED
  BY <1>1, Invariance, PTL

(* A run of the dag that succeeds left none of its gaps, however its task   *)
(* was retried and whoever else loads days meanwhile (backfill).            *)
THEOREM SuccessLeavesNoGapHolds == Spec => []SuccessLeavesNoGap
<1>1. IInv => SuccessLeavesNoGap
  BY DEF IInv, RunOK, CallOK, SuccessLeavesNoGap
<1> QED
  BY <1>1, Invariance, PTL

(* The last run that can see a day begins with it: for any look-back, a     *)
(* document that does not parse keeps no other day unloaded for good        *)
(* (find_gaps, backfill).                                                   *)
THEOREM HasItsTurnHolds == Spec => []HasItsTurn
<1>1. ASSUME IInv, NEW date \in Days, Oldest(date) \in Days,
             run[date].state \in {"succeeded", "skipped", "failed"},
             ~run[date].faulty, Oldest(date) \notin bronze
      PROVE  \E i \in DOMAIN invocations :
               /\ invocations[i].for = date
               /\ Oldest(date) \in invocations[i].unloadable
  <2> DEFINE gaps == run[date].gaps
  <2>1. /\ RunOK(date) /\ Oldest(date) \in gaps
        /\ run[date].state # "skipped"
    BY <1>1 DEF IInv, RunOK, Invoked
  <2>2. \A g \in gaps : Oldest(date) <= g
    BY <2>1, GapOK DEF RunOK, Window, Oldest, Days
  <2>3. First(gaps) = Oldest(date)
    <3>1. gaps \in SUBSET Days /\ gaps # {}
      BY <2>1 DEF RunOK, Window
    <3>2. First(gaps) \in gaps /\ First(gaps) <= Oldest(date)
      BY <2>1, <3>1, Extremes
    <3> QED
      BY <2>1, <2>2, <3>1, <3>2 DEF Days
  <2>4. CASE run[date].state = "succeeded"
    BY <1>1, <2>1, <2>4 DEF IInv, RunOK, CallOK
  <2>5. CASE run[date].state = "failed"
    <3>1. PICK i \in DOMAIN invocations :
            invocations[i].for = date /\ invocations[i].state = "raised"
      BY <1>1, <2>1, <2>5 DEF RunOK
    <3> QED
      BY <1>1, <2>3, <3>1 DEF IInv, CallOK
  <2> QED
    BY <1>1, <2>1, <2>4, <2>5
<1>2. IInv => HasItsTurn
  BY <1>1 DEF HasItsTurn, Oldest
<1> QED
  BY <1>2, Invariance, PTL
=============================================================================
