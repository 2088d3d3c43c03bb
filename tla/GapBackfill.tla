---------------------------- MODULE GapBackfill ----------------------------
(* dags/bronze_backfill.py and lake/gaps.py: once a day, find the days of   *)
(* the last week that bronze has no row of, and have the backfill Lambda    *)
(* fetch from the first to the last of them, oldest first.  Time is in days;*)
(* bronze is the set of days it has rows of.  That loading a day twice, or  *)
(* twice at once, does no harm is what BronzeIngest is about.               *)
(*                                                                          *)
(* External: the platform (Publish).                                        *)
EXTENDS Integers, Sequences, FiniteSets

CONSTANTS
  LastDay,
  Lookback,     \* LOOKBACK_DAYS
  Retries,      \* retries of each task
  MaxChanges,   \* bound on what the platform changes
  MaxFaults     \* bound on lost queries, invocations and answers

ASSUME GapOK ==
  /\ LastDay \in Nat \ {0} /\ Lookback \in Nat \ {0}
  /\ Retries \in Nat /\ MaxChanges \in Nat /\ MaxFaults \in Nat

VARIABLES
  today,
  says,         \* what the platform answers for each day
  changes,
  bronze,       \* days with a row
  current,      \* the date of the dag run in progress, 0 if none
  run,          \* the dag run of each date
  invocations,  \* the Lambda invocations, in the order they were made
  faults

vars == <<today, says, changes, bronze, current, run, invocations, faults>>

Days == 1 .. LastDay

(* No data, or no row the gate accepts; a document that does not parse.     *)
Answers == {"nothing", "unreadable", "rows"}
States == {"none", "find", "invoke", "wait", "succeeded", "skipped", "failed"}
Run == [state : States, tries : 0 .. Retries + 1, gaps : SUBSET Days,
        call : Nat, faulty : BOOLEAN]
Invocation == [for : Days, day : Days, last : Days,
               state : {"running", "returned", "raised"},
               unloadable : SUBSET Days]

Init ==
  /\ today = 1
  /\ says = [d \in Days |-> "nothing"]
  /\ changes = 0
  /\ bronze = {}
  /\ current = 0
  /\ run = [d \in Days |-> [state |-> "none", tries |-> 0, gaps |-> {},
                            call |-> 0, faulty |-> FALSE]]
  /\ invocations = <<>>
  /\ faults = 0

-----------------------------------------------------------------------------
Tick ==
  /\ today < LastDay
  /\ today' = today + 1
  /\ UNCHANGED <<says, changes, bronze, current, run, invocations, faults>>

Publish(d, answer) ==
  /\ d <= today /\ changes < MaxChanges
  /\ says[d] # answer
  /\ says' = [says EXCEPT ![d] = answer]
  /\ changes' = changes + 1
  /\ UNCHANGED <<today, bronze, current, run, invocations, faults>>

(* The ingest or a refetch loads a day, start to end (handlers/).           *)
Load(d) ==
  /\ d < today /\ says[d] = "rows" /\ d \notin bronze
  /\ bronze' = bronze \cup {d}
  /\ UNCHANGED <<today, says, changes, current, run, invocations, faults>>

-----------------------------------------------------------------------------
(* The dag.  A run keeps its date however late it gets to work; one is      *)
(* active at a time, and dates may be passed over.                          *)
StartRun(date) ==
  /\ current = 0
  /\ date <= today
  /\ \A d \in Days : d >= date => run[d].state = "none"
  /\ current' = date
  /\ run' = [run EXCEPT ![date].state = "find"]
  /\ UNCHANGED <<today, says, changes, bronze, invocations, faults>>

(* Faulty variant: a week and a day.                                        *)
WindowTooLong(date) == (date - 1 - Lookback .. date - 1) \cap Days

(* From start to end, with end yesterday.                                   *)
Window(date) == (date - 1 - (Lookback - 1) .. date - 1) \cap Days

Finish(state) ==
  /\ current' = 0
  /\ run' = [run EXCEPT ![current].state = state]

(* With no gap the second task is skipped.                                  *)
FindGaps ==
  LET gaps == Window(current) \ bronze
  IN  /\ current # 0 /\ run[current].state = "find"
      /\ IF gaps = {}
         THEN Finish("skipped")
         ELSE /\ run' = [run EXCEPT ![current] =
                   [@ EXCEPT !.state = "invoke", !.tries = 0, !.gaps = gaps]]
              /\ UNCHANGED current
      /\ UNCHANGED <<today, says, changes, bronze, invocations, faults>>

First(gaps) == CHOOSE d \in gaps : \A g \in gaps : d <= g

LastIsFirst(gaps) == First(gaps)   \* faulty

Last(gaps) == CHOOSE d \in gaps : \A g \in gaps : g <= d

(* A retry sends the gaps found by the first task again.                    *)
Invoke ==
  LET gaps == run[current].gaps
  IN  /\ current # 0 /\ run[current].state = "invoke"
      /\ invocations' = Append(invocations,
           [for |-> current, day |-> First(gaps), last |-> Last(gaps),
            state |-> "running", unloadable |-> {}])
      /\ run' = [run EXCEPT ![current] =
           [@ EXCEPT !.state = "wait", !.call = Len(invocations')]]
      /\ UNCHANGED <<today, says, changes, bronze, current, faults>>

(* Faulty variant: a task is tried until it succeeds.                       *)
MayRetryAlways(tries) == TRUE

MayRetry(tries) == tries < Retries

(* A task raised: it is tried again, from its own beginning, or the run is  *)
(* over.                                                                    *)
TaskFails(again, faulty) ==
  LET r == run[current]
  IN  IF MayRetry(r.tries)
      THEN /\ run' = [run EXCEPT ![current] =
                [r EXCEPT !.state = again, !.tries = @ + 1,
                          !.faulty = @ \/ faulty]]
           /\ UNCHANGED current
      ELSE /\ run' = [run EXCEPT ![current] =
                [r EXCEPT !.state = "failed", !.faulty = @ \/ faulty]]
           /\ current' = 0

(* The response is read.                                                    *)
ReadAnswer ==
  LET call == run[current].call
  IN  /\ current # 0 /\ run[current].state = "wait"
      /\ \/ invocations[call].state = "returned" /\ Finish("succeeded")
         \/ invocations[call].state = "raised" /\ TaskFails("invoke", FALSE)
      /\ UNCHANGED <<today, says, changes, bronze, invocations, faults>>

Lost ==
  /\ faults < MaxFaults
  /\ faults' = faults + 1

QueryFails ==
  /\ current # 0 /\ run[current].state = "find"
  /\ Lost
  /\ TaskFails("find", TRUE)
  /\ UNCHANGED <<today, says, changes, bronze, invocations>>

(* The client gives up while the function keeps running.                    *)
GiveUp ==
  /\ current # 0 /\ run[current].state = "wait"
  /\ Lost
  /\ TaskFails("invoke", TRUE)
  /\ UNCHANGED <<today, says, changes, bronze, invocations>>

-----------------------------------------------------------------------------
(* The backfill Lambda, one day at a time.  A day without rows is passed    *)
(* over, a document that does not parse ends the invocation.                *)
LoadDay(i) ==
  LET call == invocations[i]
      seen == IF says[call.day] = "rows" THEN call.unloadable
              ELSE call.unloadable \cup {call.day}
      Moved ==
        IF says[call.day] = "unreadable" THEN [call EXCEPT !.state = "raised"]
        ELSE IF call.day = call.last THEN [call EXCEPT !.state = "returned"]
        ELSE [call EXCEPT !.day = @ + 1]
  IN  /\ call.state = "running"
      /\ invocations' = [invocations EXCEPT ![i] =
           [Moved EXCEPT !.unloadable = seen]]
      /\ bronze' = IF says[call.day] = "rows" THEN bronze \cup {call.day}
                   ELSE bronze
      /\ UNCHANGED <<today, says, changes, current, run, faults>>

(* It is killed, or a call it makes raises.                                 *)
Die(i) ==
  /\ invocations[i].state = "running"
  /\ Lost
  /\ invocations' = [invocations EXCEPT ![i].state = "raised"]
  /\ run' = [run EXCEPT ![invocations[i].for].faulty = TRUE]
  /\ UNCHANGED <<today, says, changes, bronze, current>>

-----------------------------------------------------------------------------
Dag ==
  \/ FindGaps
  \/ Invoke
  \/ ReadAnswer

Next ==
  \/ Tick
  \/ \E d \in Days : \/ \E answer \in Answers : Publish(d, answer)
                     \/ Load(d)
                     \/ StartRun(d)
  \/ Dag
  \/ QueryFails
  \/ GiveUp
  \/ \E i \in DOMAIN invocations : LoadDay(i) \/ Die(i)

Spec == Init /\ [][Next]_vars

-----------------------------------------------------------------------------
TypeOK ==
  /\ today \in Days
  /\ says \in [Days -> Answers]
  /\ changes \in 0 .. MaxChanges
  /\ bronze \subseteq Days
  /\ current \in 0 .. LastDay
  /\ run \in [Days -> Run]
  /\ invocations \in Seq(Invocation)
  /\ faults \in 0 .. MaxFaults

(* A run that succeeds left none of the gaps it found, the first task's,    *)
(* the retried task's or another loader's: each has rows now, or had none to*)
(* load when it was asked for (backfill).                                   *)
SuccessLeavesNoGap ==
  \A date \in Days : run[date].state = "succeeded" =>
    run[date].gaps \subseteq bronze \cup invocations[run[date].call].unloadable

(* A document that does not parse keeps every later day of its range        *)
(* unloaded, run after run, but no day is behind another for good: the last *)
(* run that can see a day begins with it.  When that run ends without a     *)
(* fault the day has rows, or had none to load (find_gaps, backfill).       *)
HasItsTurn ==
  \A date \in Days :
    LET oldest == date - Lookback
    IN  (/\ oldest \in Days
         /\ run[date].state \in {"succeeded", "skipped", "failed"}
         /\ ~run[date].faulty) =>
           \/ oldest \in bronze
           \/ \E i \in DOMAIN invocations :
                invocations[i].for = date /\ oldest \in invocations[i].unloadable
=============================================================================
