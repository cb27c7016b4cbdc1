--------------------------- MODULE VoiceCallProofs ---------------------------
(***************************************************************************)
(* What holds of VoiceCall for every number of rows, requests, worker      *)
(* slots, attempts and faults.                                             *)
(***************************************************************************)
EXTENDS VoiceCall, TLAPS

\* A slot has a job of the kind its handler is for.
SlotKnows(s) ==
    /\ s.pc # "idle" => s.job \in Jobs
    /\ s.pc \in DialPhases \cup {"claim"} => s.job \in CallJobs
    /\ s.pc \in {"check", "poll"} => s.job \in CheckJobs

\* A request knows its row, and is not about to insert attempt 0.
TaskKnows(x) ==
    /\ x.pc \in {"resume", "add", "rollback", "write"} => x.c \in Calls
    /\ x.pc = "resume" => "overlap" \in Faults
    /\ x.pc = "create" => x.attempt > 0

SlotsKnow == \A w \in Workers : SlotKnows(slot[w])
TasksKnow == \A t \in Tasks : TaskKnows(task[t])

TypeInv == TypeOK /\ SlotsKnow /\ TasksKnow

LEMMA TypeInit == Init => TypeInv
<1> SUFFICES ASSUME Init PROVE TypeInv
    OBVIOUS
<1>1. RowOK
      BY BoundsAssumption DEF Init, RowOK, RowRecord, NoRow, Status, Keys
<1>2. PhoneOK
      BY BoundsAssumption DEF Init, PhoneOK
<1>3. QueueOK
      BY DEF Init, QueueOK, JobRecord, NoJob
<1>4. WorkOK /\ SlotsKnow
      BY BoundsAssumption
      DEF Init, WorkOK, SlotsKnow, SlotKnows, SlotRecord, Free, Phases, DialPhases
<1>5. TaskOK /\ TasksKnow
      BY BoundsAssumption
      DEF Init, TaskOK, TasksKnow, TaskKnows, TaskRecord, IdleTask, Keys
<1>6. QED
      BY <1>1, <1>2, <1>3, <1>4, <1>5 DEF TypeInv, TypeOK

LEMMA CallJobParts ==
    ASSUME NEW j \in CallJobs PROVE j[1] = "call" /\ j[2] \in Calls /\ j[3] \in 0 .. MaxDefers
BY DEF CallJobs

LEMMA CheckJobParts ==
    ASSUME NEW j \in CheckJobs PROVE j[1] = "check" /\ j[2] \in Calls /\ j[3] \in 1 .. MaxChecks
BY DEF CheckJobs

\* Whatever is written to a row's status leaves a row.
LEMMA StatusKept ==
    ASSUME RowOK, NEW c, NEW s \in Status, SetStatus(c, s)
    PROVE  RowOK'
<1>1. \A d \in Calls : [row[d] EXCEPT !.st = s] \in RowRecord
      BY DEF RowOK, RowRecord
<1>2. QED
      BY <1>1 DEF RowOK, SetStatus

\* ... and whatever is queued leaves a queue.
LEMMA AddedKept ==
    ASSUME QueueOK, NEW j, queue' = Added(j)
    PROVE  QueueOK'
<1>1. NewJob \in JobRecord
      BY DEF NewJob, NoJob, JobRecord
<1>2. QED
      BY <1>1 DEF QueueOK, Added

\* A slot goes on with its job, in a phase that is for jobs of its kind.
LEMMA Going ==
    ASSUME WorkOK, SlotsKnow, UNCHANGED stops,
           NEW w \in Workers, NEW pc \in Phases, slot[w].pc # "idle", Goto(w, pc),
           pc \in DialPhases => slot[w].pc \in DialPhases \cup {"claim"},
           pc = "poll" => slot[w].pc = "check",
           pc \in {"return", "throw", "poll"} \cup DialPhases
    PROVE  WorkOK' /\ SlotsKnow'
<1> DEFINE s == [slot[w] EXCEPT !.pc = pc]
<1>1. s \in SlotRecord
      BY DEF WorkOK, SlotRecord
<1>2. SlotKnows(s)
      BY DEF SlotsKnow, SlotKnows, WorkOK, SlotRecord, DialPhases
<1>3. slot' = [slot EXCEPT ![w] = s]
      BY DEF Goto
<1>4. WorkOK'
      BY <1>1, <1>3 DEF WorkOK
<1>5. SlotsKnow'
      BY <1>2, <1>3 DEF SlotsKnow, WorkOK
<1>6. QED
      BY <1>4, <1>5

\* A request goes on as x.
LEMMA Turning ==
    ASSUME TaskOK, TasksKnow, starts' \in 0 .. MaxStarts,
           NEW t \in Tasks, NEW x \in TaskRecord, TaskKnows(x), task' = [task EXCEPT ![t] = x]
    PROVE  TaskOK' /\ TasksKnow'
<1>1. TaskOK'
      BY DEF TaskOK
<1>2. TasksKnow'
      BY DEF TasksKnow, TaskOK
<1>3. QED
      BY <1>1, <1>2

LEMMA TypeStep == TypeInv /\ [Next]_vars => TypeInv'
<1> SUFFICES ASSUME TypeInv, [Next]_vars PROVE TypeInv'
    OBVIOUS
<1> USE DEF TypeInv, TypeOK
<1>a. UNCHANGED row => RowOK'
      BY DEF RowOK
<1>b. UNCHANGED phoneVars => PhoneOK'
      BY DEF PhoneOK, phoneVars
<1>c. UNCHANGED queue => QueueOK'
      BY DEF QueueOK
<1>d. UNCHANGED workVars => WorkOK' /\ SlotsKnow'
      BY DEF WorkOK, SlotsKnow, workVars
<1>e. UNCHANGED taskVars => TaskOK' /\ TasksKnow'
      BY DEF TaskOK, TasksKnow, taskVars
<1>f. IdleTask \in TaskRecord /\ TaskKnows(IdleTask)
      BY BoundsAssumption DEF IdleTask, TaskRecord, TaskKnows, Keys
<1>g. Free \in SlotRecord /\ SlotKnows(Free)
      BY DEF Free, SlotRecord, SlotKnows, Phases, DialPhases
<1>1. CASE UNCHANGED vars
      BY <1>1, <1>a, <1>b, <1>c, <1>d, <1>e DEF vars
<1>2. ASSUME NEW t \in Tasks, NEW key \in Keys, Start(t, key) PROVE TypeInv'
  <2> DEFINE x == [pc |-> "create", c |-> None, key |-> key, attempt |-> 1]
  <2>1. x \in TaskRecord /\ TaskKnows(x)
        BY BoundsAssumption DEF TaskRecord, TaskKnows
  <2>2. starts' \in 0 .. MaxStarts
        BY <1>2, BoundsAssumption DEF Start, TaskOK
  <2>3. TaskOK' /\ TasksKnow'
        BY <1>2, <2>1, <2>2, Turning DEF Start
  <2>4. QED
        BY <1>2, <2>3, <1>a, <1>b, <1>c, <1>d DEF Start
<1>3. ASSUME NEW t \in Tasks, CreateCall(t) PROVE TypeInv'
  <2>0. task[t] \in TaskRecord /\ task[t].pc = "create" /\ starts' = starts
        BY <1>3 DEF CreateCall, TaskOK
  <2>1. ASSUME NEW c \in Calls, NEW pc \in {"add", "resume"},
               pc = "resume" => "overlap" \in Faults,
               task' = [task EXCEPT ![t].pc = pc, ![t].c = c]
        PROVE  TaskOK' /\ TasksKnow'
    <3> DEFINE x == [task[t] EXCEPT !.pc = pc, !.c = c]
    <3>1. x \in TaskRecord /\ x.pc = pc /\ x.c = c
          BY <2>0 DEF TaskRecord
    <3>2. TaskKnows(x)
          BY <2>1, <3>1 DEF TaskKnows
    <3>3. task' = [task EXCEPT ![t] = x]
          BY <2>1
    <3>4. QED
          BY <2>0, <3>1, <3>2, <3>3, Turning DEF TaskOK
  <2>2. ASSUME NEW c \in Calls,
               row' = [row EXCEPT ![c] = [st |-> "scheduled", attempt |-> task[t].attempt,
                                          key |-> task[t].key]]
        PROVE  RowOK'
        BY <2>0, <2>2 DEF RowOK, RowRecord, TaskRecord, Status
  <2>3. ASSUME NEW c \in Calls, SetStatus(c, "scheduled") PROVE RowOK'
        BY <2>3, StatusKept DEF Status
  <2>4. task' = [task EXCEPT ![t] = IdleTask] => TaskOK' /\ TasksKnow'
        BY <2>0, <1>f, Turning DEF TaskOK
  <2>5. RowOK' /\ TaskOK' /\ TasksKnow'
        BY <1>3, <2>1, <2>2, <2>3, <2>4, <1>a DEF CreateCall, Holders
  <2>6. QED
        BY <1>3, <2>5, <1>b, <1>c, <1>d DEF CreateCall
<1>j. ASSUME NEW t \in Tasks, Resume(t) PROVE TypeInv'
  <2> DEFINE x == [task[t] EXCEPT !.pc = "add"]
  <2>1. task[t] \in TaskRecord /\ task[t].pc = "resume" /\ starts' = starts
        BY <1>j DEF Resume, TaskOK
  <2>2. x \in TaskRecord /\ TaskKnows(x)
        BY <2>1 DEF TaskRecord, TaskKnows, TasksKnow
  <2>3. TaskOK' /\ TasksKnow'
        BY <1>j, <2>1, <2>2, Turning DEF Resume, TaskOK
  <2>4. RowOK'
        BY <1>j, StatusKept DEF Resume, Status
  <2>5. QED
        BY <1>j, <2>3, <2>4, <1>b, <1>c, <1>d DEF Resume
<1>4. ASSUME NEW t \in Tasks, AddCall(t) PROVE TypeInv'
  <2>1. task[t] \in TaskRecord /\ task[t].pc = "add" /\ starts' = starts
        BY <1>4 DEF AddCall, TaskOK
  <2> DEFINE x == [task[t] EXCEPT !.pc = "rollback"]
  <2>2. x \in TaskRecord /\ TaskKnows(x)
        BY <2>1 DEF TaskRecord, TaskKnows, TasksKnow
  <2>3. task' = [task EXCEPT ![t] = IdleTask] \/ task' = [task EXCEPT ![t] = x]
        BY <1>4 DEF AddCall
  <2>4. TaskOK' /\ TasksKnow'
        BY <2>1, <2>2, <2>3, <1>f, Turning DEF TaskOK
  <2>5. queue' = Added(<<"call", task[t].c, 0>>) \/ queue' = queue
        BY <1>4 DEF AddCall
  <2>6. QueueOK'
        BY <2>5, <1>c, AddedKept
  <2>7. QED
        BY <1>4, <2>4, <2>6, <1>a, <1>b, <1>d DEF AddCall
<1>5. ASSUME NEW t \in Tasks, RollBack(t) PROVE TypeInv'
  <2>1. RowOK'
        BY <1>5, StatusKept DEF RollBack, Status
  <2>2. TaskOK' /\ TasksKnow'
        BY <1>5, <1>f, Turning DEF RollBack, TaskOK
  <2>3. QED
        BY <1>5, <2>1, <2>2, <1>b, <1>c, <1>d DEF RollBack
<1>6. ASSUME NEW t \in Tasks, WriteFailure(t) PROVE TypeInv'
  <2> DEFINE c == task[t].c
             n == row[c].attempt
             x == [pc |-> "create", c |-> None, key |-> c, attempt |-> n + 1]
  <2>1. c \in Calls /\ n \in 0 .. MaxAttempts
        BY <1>6 DEF WriteFailure, TasksKnow, TaskKnows, RowOK, RowRecord
  <2>2. n < MaxAttempts => x \in TaskRecord /\ TaskKnows(x)
        BY <2>1, BoundsAssumption DEF TaskRecord, TaskKnows, Keys
  <2>3. \/ n < MaxAttempts /\ task' = [task EXCEPT ![t] = x]
        \/ task' = [task EXCEPT ![t] = IdleTask]
        BY <1>6 DEF WriteFailure, NextAttempt
  <2>4. TaskOK' /\ TasksKnow'
        BY <1>6, <2>2, <2>3, <1>f, Turning DEF WriteFailure, TaskOK
  <2>5. RowOK'
        BY <1>6, StatusKept DEF WriteFailure, Status
  <2>6. QED
        BY <1>6, <2>4, <2>5, <1>b, <1>c, <1>d DEF WriteFailure
<1>7. ASSUME NEW t \in Tasks, NEW c \in Calls, InitiationFailure(t, c) PROVE TypeInv'
  <2> DEFINE x == [IdleTask EXCEPT !.pc = "write", !.c = c]
  <2>1. x \in TaskRecord /\ TaskKnows(x)
        BY <1>f DEF TaskRecord, TaskKnows, IdleTask
  <2>2. TaskOK' /\ TasksKnow'
        BY <1>7, <2>1, Turning DEF InitiationFailure, TaskOK
  <2>3. PhoneOK' /\ WorkOK' /\ SlotsKnow'
        BY <1>7, <1>b, <1>d DEF InitiationFailure, phoneVars
  <2>4. QED
        BY <1>7, <2>2, <2>3, <1>a, <1>c DEF InitiationFailure
<1>8. ASSUME NEW c \in Calls, CancelCall(c) PROVE TypeInv'
  <2>1. RowOK'
        BY <1>8, StatusKept DEF CancelCall, Status
  <2>2. QueueOK'
        BY <1>8 DEF CancelCall, QueueOK, NoJob, JobRecord
  <2>3. QED
        BY <1>8, <2>1, <2>2, <1>b, <1>d, <1>e DEF CancelCall
<1>9. ASSUME NEW c \in Calls, Ends(c) PROVE TypeInv'
  <2>1. PhoneOK'
        BY <1>9 DEF Ends, PhoneOK
  <2>2. QED
        BY <1>9, <2>1, <1>a, <1>c, <1>d, <1>e DEF Ends
<1>10. ASSUME NEW c \in Calls, Transcription(c) PROVE TypeInv'
  <2>1. RowOK'
        BY <1>10, StatusKept DEF Transcription, Status
  <2>2. PhoneOK'
        BY <1>10, <1>b DEF Transcription, phoneVars
  <2>3. QED
        BY <1>10, <2>1, <2>2, <1>c, <1>d, <1>e DEF Transcription
<1>11. ASSUME NEW w \in Workers, NEW j \in Jobs, Take(w, j) PROVE TypeInv'
  <2> DEFINE s == [pc |-> IF j[1] = "call" THEN "claim" ELSE "check", job |-> j, locked |-> TRUE]
  <2>1. s \in SlotRecord
        BY DEF SlotRecord, Phases
  <2>2. SlotKnows(s)
        BY CallJobParts, CheckJobParts DEF SlotKnows, Jobs, DialPhases
  <2>3. WorkOK' /\ SlotsKnow'
        BY <1>11, <2>1, <2>2 DEF Take, WorkOK, SlotsKnow
  <2>4. QueueOK'
    <3>1. [queue[j] EXCEPT !.st = "active"] \in JobRecord
          BY DEF QueueOK, JobRecord
    <3>2. QED
          BY <1>11, <3>1 DEF Take, QueueOK
  <2>5. QED
        BY <1>11, <2>3, <2>4, <1>a, <1>b, <1>e DEF Take
<1>h. \A j : Closed(j) \in JobRecord
      BY DEF Closed, NoJob, JobRecord
<1>i. \A c \in Calls : rings[c] < MaxRings => rings[c] + 1 \in 0 .. MaxRings
      BY BoundsAssumption DEF PhoneOK
<1>12. ASSUME NEW w \in Workers, JobReturns(w) PROVE TypeInv'
  <2>1. WorkOK' /\ SlotsKnow'
        BY <1>12, <1>g DEF JobReturns, WorkOK, SlotsKnow
  <2>2. QueueOK'
        BY <1>12, <1>h DEF JobReturns, QueueOK
  <2>3. QED
        BY <1>12, <2>1, <2>2, <1>a, <1>b, <1>e DEF JobReturns
<1>13. ASSUME NEW w \in Workers, JobThrows(w) PROVE TypeInv'
  <2>1. WorkOK' /\ SlotsKnow'
        BY <1>13, <1>g DEF JobThrows, WorkOK, SlotsKnow
  <2>2. ASSUME NEW j \in Jobs PROVE [queue[j] EXCEPT !.made = @ + 1, !.st = "wait"] \in JobRecord
    <3>1. queue[j] \in JobRecord /\ queue[j].made + 1 \in Nat
          BY DEF QueueOK, JobRecord
    <3>2. QED
          BY <3>1 DEF JobRecord
  <2>3. QueueOK'
        BY <1>13, <1>h, <2>2 DEF JobThrows, QueueOK
  <2>4. QED
        BY <1>13, <2>1, <2>3, <1>a, <1>b, <1>e DEF JobThrows
<1>14. ASSUME NEW j \in Jobs, StalledCheck(j) PROVE TypeInv'
  <2>1. [queue[j] EXCEPT !.stalls = @ + 1, !.st = "wait"] \in JobRecord
    <3>1. queue[j] \in JobRecord /\ queue[j].stalls + 1 \in Nat
          BY DEF QueueOK, JobRecord
    <3>2. QED
          BY <3>1 DEF JobRecord
  <2>2. QueueOK'
        BY <1>14, <1>h, <2>1 DEF StalledCheck, QueueOK
  <2>3. QED
        BY <1>14, <2>2, <1>a, <1>b, <1>d, <1>e DEF StalledCheck
<1>15. ASSUME NEW w \in Workers, LockExpires(w) PROVE TypeInv'
  <2> DEFINE s == [slot[w] EXCEPT !.locked = FALSE]
  <2>1. s \in SlotRecord /\ SlotKnows(s)
        BY DEF SlotRecord, WorkOK, SlotsKnow, SlotKnows
  <2>2. slot' = [slot EXCEPT ![w] = s] /\ stops' \in 0 .. MaxStops
        BY <1>15, BoundsAssumption DEF LockExpires, WorkOK
  <2>3. WorkOK' /\ SlotsKnow'
        BY <2>1, <2>2 DEF WorkOK, SlotsKnow
  <2>4. QED
        BY <1>15, <2>3, <1>a, <1>b, <1>c, <1>e DEF LockExpires
<1>16. ASSUME WorkerCrash PROVE TypeInv'
  <2>1. WorkOK' /\ SlotsKnow'
        BY <1>16, <1>g, BoundsAssumption DEF WorkerCrash, WorkOK, SlotsKnow
  <2>2. QED
        BY <1>16, <2>1, <1>a, <1>b, <1>c, <1>e DEF WorkerCrash
<1>17. ASSUME NEW w \in Workers, Run(w) PROVE TypeInv'
  <2> USE DEF Phases, DialPhases
  <2>0. \A s \in {"canceled", "scheduled", "calling", "blocked", "failed", "in_progress", "completed"} :
            s \in Status
        BY DEF Status
  <2>1. CASE Claim(w)
    <3>1. RowOK'
          BY <2>1, <2>0, <1>a, StatusKept DEF Claim
    <3>2. WorkOK' /\ SlotsKnow'
          BY <2>1, Going DEF Claim
    <3>3. QED
          BY <2>1, <3>1, <3>2, <1>b, <1>c, <1>e DEF Claim
  <2>2. CASE CheckGates(w)
    <3>1. RowOK'
          BY <2>2, <2>0, <1>a, StatusKept DEF CheckGates
    <3>2. WorkOK' /\ SlotsKnow'
          BY <2>2, Going DEF CheckGates
    <3>3. QED
          BY <2>2, <3>1, <3>2, <1>b, <1>c, <1>e DEF CheckGates
  <2>3. CASE Defer(w)
    <3>1. WorkOK' /\ SlotsKnow'
          BY <2>3, Going DEF Defer
    <3>2. QED
          BY <2>3, <3>1, AddedKept, <1>a, <1>b, <1>e DEF Defer
  <2>4. CASE Dial(w)
    <3>1. WorkOK' /\ SlotsKnow'
          BY <2>4, Going DEF Dial
    <3>2. PhoneOK'
          BY <2>4, <1>i DEF Dial, PhoneOK
    <3>3. QED
          BY <2>4, <3>1, <3>2, <1>a, <1>c, <1>e DEF Dial
  <2>5. CASE DialBlocked(w)
    <3>1. RowOK'
          BY <2>5, <2>0, StatusKept DEF DialBlocked
    <3>2. WorkOK' /\ SlotsKnow'
          BY <2>5, Going DEF DialBlocked
    <3>3. QED
          BY <2>5, <3>1, <3>2, <1>b, <1>c, <1>e DEF DialBlocked
  <2>6. CASE DialFails(w)
    <3>0. slot[w].pc = "dial" /\ UNCHANGED <<line, queue, stops, taskVars>>
          BY <2>6 DEF DialFails
    <3>1. \A d \in Calls : [row[d] EXCEPT !.st = IF @ = "calling" THEN "scheduled" ELSE @] \in RowRecord
          BY <2>0 DEF RowOK, RowRecord
    <3>2. RowOK'
          BY <2>6, <2>0, <3>1, StatusKept DEF DialFails, RowOK
    <3>3. Goto(w, "throw") \/ Goto(w, "return")
          BY <2>6 DEF DialFails
    <3>4. WorkOK' /\ SlotsKnow'
          BY <3>0, <3>3, Going
    <3>5. PhoneOK'
          BY <2>6, <1>i DEF DialFails, PhoneOK
    <3>6. QED
          BY <3>0, <3>2, <3>4, <3>5, <1>c, <1>e
  <2>7. CASE Record(w)
    <3>1. RowOK'
          BY <2>7, <2>0, StatusKept DEF Record
    <3>2. WorkOK' /\ SlotsKnow'
          BY <2>7, Going DEF Record
    <3>3. PhoneOK'
          BY <2>7 DEF Record, PhoneOK
    <3>4. QED
          BY <2>7, <3>1, <3>2, <3>3, <1>c, <1>e DEF Record
  <2>8. CASE Arm(w)
    <3>1. WorkOK' /\ SlotsKnow'
          BY <2>8, Going DEF Arm
    <3>2. QED
          BY <2>8, <3>1, AddedKept, <1>a, <1>b, <1>e DEF Arm
  <2>9. CASE ReadCall(w)
    <3>1. WorkOK' /\ SlotsKnow'
          BY <2>9, Going DEF ReadCall
    <3>2. QED
          BY <2>9, <3>1, <1>a, <1>b, <1>c, <1>e DEF ReadCall
  <2>10. CASE Poll(w)
    <3>1. RowOK'
          BY <2>10, <2>0, <1>a, StatusKept DEF Poll
    <3>2. QueueOK'
          BY <2>10, <1>c, AddedKept DEF Poll, Rearm
    <3>3. WorkOK' /\ SlotsKnow'
          BY <2>10, Going DEF Poll
    <3>4. QED
          BY <2>10, <3>1, <3>2, <3>3, <1>b, <1>e DEF Poll
  <2>11. QED
         BY <1>17, <2>1, <2>2, <2>3, <2>4, <2>5, <2>6, <2>7, <2>8, <2>9, <2>10, <1>12, <1>13 DEF Run
<1>18. None \in Keys /\ AutoKey \in Keys
       BY DEF Keys
<1>19. QED
  <2>1. ASSUME NEW t \in Tasks, Booking(t) \/ ScheduleAutoCalls(t) \/ TriggerManualCall(t)
        PROVE TypeInv'
    <3>1. CASE Booking(t)
          BY <3>1, <1>3, <1>4, <1>5, <1>6, <1>j DEF Booking
    <3>2. CASE Start(t, AutoKey)
          BY <3>2, <1>2, <1>18
    <3>3. CASE Start(t, None)
          BY <3>3, <1>2, <1>18
    <3>4. QED
          BY <2>1, <3>1, <3>2, <3>3 DEF ScheduleAutoCalls, TriggerManualCall
  <2>2. QED
        BY <2>1, <1>1, <1>7, <1>8, <1>9, <1>10, <1>11, <1>14, <1>15, <1>16, <1>17 DEF Next

\* Rows, jobs, slots and requests stay within their types, in particular no call is booked
\* with an attempt number beyond MAX_ATTEMPTS: for every constant and under every fault.
THEOREM TypeCorrect == Spec => []TypeOK
<1>1. TypeInv => TypeOK
      BY DEF TypeInv
<1>2. QED
      BY <1>1, TypeInit, TypeStep, PTL DEF Spec

------------------------------------------------------------------------------
(* One next attempt.                                                         *)

\* A key belongs to one row, as the unique index on idempotencyKey has it, and only a retry,
\* keyed by a call, is more than a first attempt.
KeyInv ==
    /\ \A c, d \in Calls : row[c].key # None /\ row[c].key = row[d].key => c = d
    /\ \A c \in Calls : row[c].attempt > 1 => row[c].key \in Calls
    /\ \A t \in Tasks : task[t].pc = "create" /\ task[t].attempt > 1 => task[t].key \in Calls

LEMMA NoneIsNoCall == None \notin Calls
BY NoneAssumption, BoundsAssumption DEF Calls

\* Nothing but an insert touches the key or the attempt of a row.
KeysStay == \A c \in Calls : row'[c].key = row[c].key /\ row'[c].attempt = row[c].attempt

LEMMA StatusKeepsKeys ==
    ASSUME RowOK, NEW c, NEW s, SetStatus(c, s)
    PROVE  KeysStay
<1>1. \A d \in Calls : [row[d] EXCEPT !.st = s].key = row[d].key
                       /\ [row[d] EXCEPT !.st = s].attempt = row[d].attempt
      BY DEF RowOK, RowRecord
<1>2. QED
      BY <1>1 DEF SetStatus, RowOK, KeysStay

\* A step of the worker, of a cancellation, of the provider or of a webhook.
LEMMA OthersKeepKeys ==
    ASSUME TypeInv,
           \/ \E w \in Workers : Run(w) \/ LockExpires(w)
           \/ \E w \in Workers, j \in Jobs : Take(w, j)
           \/ \E j \in Jobs : StalledCheck(j)
           \/ WorkerCrash
           \/ \E c \in Calls : CancelCall(c) \/ Ends(c) \/ Transcription(c)
    PROVE  KeysStay /\ UNCHANGED task
<1> USE DEF TypeInv, TypeOK
<1>1. UNCHANGED row => KeysStay
      BY DEF KeysStay
<1>2. ASSUME NEW w \in Workers, Run(w) PROVE KeysStay /\ UNCHANGED task
  <2> USE DEF taskVars
  <2>1. CASE Claim(w)
        BY <2>1, <1>1, StatusKeepsKeys DEF Claim
  <2>2. CASE CheckGates(w)
        BY <2>2, <1>1, StatusKeepsKeys DEF CheckGates
  <2>3. CASE Defer(w) \/ Dial(w) \/ Arm(w) \/ ReadCall(w) \/ JobReturns(w) \/ JobThrows(w)
        BY <2>3, <1>1 DEF Defer, Dial, Arm, ReadCall, JobReturns, JobThrows
  <2>4. CASE DialBlocked(w)
        BY <2>4, StatusKeepsKeys DEF DialBlocked
  <2>5. CASE DialFails(w)
    <3> DEFINE Reopened(r) == [r EXCEPT !.st = IF @ = "calling" THEN "scheduled" ELSE @]
    <3>1. \A d \in Calls : Reopened(row[d]).key = row[d].key /\ Reopened(row[d]).attempt = row[d].attempt
          BY DEF RowOK, RowRecord
    <3>2. CASE row' = [row EXCEPT ![Call(w)] = Reopened(row[Call(w)])]
          BY <2>5, <3>1, <3>2 DEF RowOK, KeysStay, DialFails
    <3>3. CASE SetStatus(Call(w), "failed")
          BY <2>5, <3>3, StatusKeepsKeys DEF DialFails
    <3>4. QED
          BY <2>5, <3>2, <3>3 DEF DialFails
  <2>6. CASE Record(w)
        BY <2>6, StatusKeepsKeys DEF Record
  <2>7. CASE Poll(w)
        BY <2>7, <1>1, StatusKeepsKeys DEF Poll, Rearm
  <2>8. QED
        BY <1>2, <2>1, <2>2, <2>3, <2>4, <2>5, <2>6, <2>7 DEF Run
<1>3. ASSUME NEW w \in Workers, LockExpires(w) PROVE KeysStay /\ UNCHANGED task
      BY <1>3, <1>1 DEF LockExpires, taskVars
<1>4. ASSUME NEW w \in Workers, NEW j \in Jobs, Take(w, j) PROVE KeysStay /\ UNCHANGED task
      BY <1>4, <1>1 DEF Take, taskVars
<1>5. ASSUME NEW j \in Jobs, StalledCheck(j) PROVE KeysStay /\ UNCHANGED task
      BY <1>5, <1>1 DEF StalledCheck, taskVars
<1>6. ASSUME WorkerCrash PROVE KeysStay /\ UNCHANGED task
      BY <1>6, <1>1 DEF WorkerCrash, taskVars
<1>7. ASSUME NEW c \in Calls, CancelCall(c) \/ Ends(c) \/ Transcription(c)
      PROVE  KeysStay /\ UNCHANGED task
      BY <1>7, <1>1, StatusKeepsKeys DEF CancelCall, Ends, Transcription, taskVars
<1>8. QED
      BY <1>2, <1>3, <1>4, <1>5, <1>6, <1>7

LEMMA KeyInit == Init => KeyInv
BY DEF Init, KeyInv, NoRow, IdleTask

LEMMA KeyStep == TypeInv /\ KeyInv /\ [Next]_vars => KeyInv'
<1> SUFFICES ASSUME TypeInv, KeyInv, [Next]_vars PROVE KeyInv'
    OBVIOUS
<1> USE DEF TypeInv, TypeOK
<1>1. KeysStay /\ UNCHANGED task => KeyInv'
      BY DEF KeyInv, KeysStay
<1>2. CASE UNCHANGED vars
      BY <1>2, <1>1 DEF vars, taskVars, KeysStay
<1>3. ASSUME NEW t \in Tasks, NEW x, KeysStay, task' = [task EXCEPT ![t] = x],
             x.pc = "create" /\ x.attempt > 1 => x.key \in Calls
      PROVE  KeyInv'
      BY <1>3 DEF KeyInv, KeysStay, TaskOK
<1>i. IdleTask.pc # "create"
      BY DEF IdleTask
<1>4. ASSUME NEW t \in Tasks, NEW key, Start(t, key) PROVE KeyInv'
  <2> DEFINE x == [pc |-> "create", c |-> None, key |-> key, attempt |-> 1]
  <2>1. KeysStay
        BY <1>4 DEF Start, KeysStay
  <2>2. ~(x.pc = "create" /\ x.attempt > 1)
        OBVIOUS
  <2>3. task' = [task EXCEPT ![t] = x]
        BY <1>4 DEF Start
  <2>4. QED
        BY <2>1, <2>2, <2>3, <1>3
<1>5. ASSUME NEW t \in Tasks, CreateCall(t) PROVE KeyInv'
  <2> DEFINE key == task[t].key
             new == [st |-> "scheduled", attempt |-> task[t].attempt, key |-> key]
  <2>0. task[t] \in TaskRecord /\ task[t].pc = "create"
        BY <1>5 DEF CreateCall, TaskOK
  <2>1. ASSUME NEW c \in Calls, Holders(key) = {}, NextRow(c), row' = [row EXCEPT ![c] = new],
               task' = [task EXCEPT ![t].pc = "add", ![t].c = c]
        PROVE  KeyInv'
    <3>1. key # None => \A d \in Calls : row[d].key # key
          BY <2>1 DEF Holders, NoRow
    <3>2. \A d \in Calls : row'[d] = IF d = c THEN new ELSE row[d]
          BY <2>1 DEF RowOK
    <3>3. \A a, b \in Calls : row'[a].key # None /\ row'[a].key = row'[b].key => a = b
          BY <3>1, <3>2 DEF KeyInv
    <3>4. \A d \in Calls : row'[d].attempt > 1 => row'[d].key \in Calls
          BY <2>0, <3>2 DEF KeyInv
    <3>5. \A u \in Tasks : task'[u].pc = "create" /\ task'[u].attempt > 1 => task'[u].key \in Calls
          BY <2>0, <2>1 DEF KeyInv, TaskOK, TaskRecord
    <3>6. QED
          BY <3>3, <3>4, <3>5 DEF KeyInv
  <2>2. ASSUME NEW c \in Calls, SetStatus(c, "scheduled"),
               task' = [task EXCEPT ![t].pc = "add", ![t].c = c]
        PROVE  KeyInv'
    <3>1. KeysStay
          BY <2>2, StatusKeepsKeys
    <3>2. task' = [task EXCEPT ![t] = [task[t] EXCEPT !.pc = "add", !.c = c]]
          BY <2>2
    <3>3. [task[t] EXCEPT !.pc = "add", !.c = c].pc # "create"
          BY <2>0 DEF TaskRecord
    <3>4. QED
          BY <3>1, <3>2, <3>3, <1>3
  <2>3. ASSUME task' = [task EXCEPT ![t] = IdleTask], UNCHANGED row
        PROVE  KeyInv'
        BY <2>3, <1>3, <1>i DEF KeysStay
  <2>4. ASSUME NEW c, task' = [task EXCEPT ![t].pc = "resume", ![t].c = c], UNCHANGED row
        PROVE  KeyInv'
    <3>1. task' = [task EXCEPT ![t] = [task[t] EXCEPT !.pc = "resume", !.c = c]]
          BY <2>4
    <3>2. [task[t] EXCEPT !.pc = "resume", !.c = c].pc # "create"
          BY <2>0 DEF TaskRecord
    <3>3. QED
          BY <2>4, <3>1, <3>2, <1>3 DEF KeysStay
  <2>5. QED
        BY <1>5, <2>1, <2>2, <2>3, <2>4 DEF CreateCall, Holders
<1>r. ASSUME NEW t \in Tasks, Resume(t) PROVE KeyInv'
  <2>1. KeysStay
        BY <1>r, StatusKeepsKeys DEF Resume
  <2>2. [task[t] EXCEPT !.pc = "add"].pc # "create"
        BY DEF TaskOK, TaskRecord
  <2>3. task' = [task EXCEPT ![t] = [task[t] EXCEPT !.pc = "add"]]
        BY <1>r DEF Resume
  <2>4. QED
        BY <2>1, <2>2, <2>3, <1>3
<1>6. ASSUME NEW t \in Tasks, AddCall(t) PROVE KeyInv'
  <2>1. KeysStay
        BY <1>6 DEF AddCall, KeysStay
  <2>2. [task[t] EXCEPT !.pc = "rollback"].pc # "create"
        BY DEF TaskOK, TaskRecord
  <2>3. task' = [task EXCEPT ![t] = IdleTask]
        \/ task' = [task EXCEPT ![t] = [task[t] EXCEPT !.pc = "rollback"]]
        BY <1>6 DEF AddCall
  <2>4. QED
        BY <2>1, <2>2, <2>3, <1>3, <1>i
<1>7. ASSUME NEW t \in Tasks, RollBack(t) PROVE KeyInv'
  <2>1. KeysStay
        BY <1>7, StatusKeepsKeys DEF RollBack
  <2>2. QED
        BY <1>7, <2>1, <1>3, <1>i DEF RollBack
<1>8. ASSUME NEW t \in Tasks, WriteFailure(t) PROVE KeyInv'
  <2>1. task[t].c \in Calls
        BY <1>8 DEF WriteFailure, TasksKnow, TaskKnows
  <2>2. KeysStay
        BY <1>8, StatusKeepsKeys DEF WriteFailure
  <2>3. QED
        BY <1>8, <2>1, <2>2, <1>3, <1>i DEF WriteFailure, NextAttempt
<1>9. ASSUME NEW t \in Tasks, NEW c \in Calls, InitiationFailure(t, c) PROVE KeyInv'
  <2>1. [IdleTask EXCEPT !.pc = "write", !.c = c].pc # "create"
        BY DEF IdleTask
  <2>2. KeysStay
        BY <1>9 DEF InitiationFailure, KeysStay
  <2>3. QED
        BY <1>9, <2>1, <2>2, <1>3 DEF InitiationFailure
<1>10. ASSUME NEW t \in Tasks, Booking(t) \/ ScheduleAutoCalls(t) \/ TriggerManualCall(t)
       PROVE  KeyInv'
  <2>1. CASE Booking(t)
        BY <2>1, <1>5, <1>6, <1>7, <1>8, <1>r DEF Booking
  <2>2. QED
        BY <1>10, <2>1, <1>4 DEF ScheduleAutoCalls, TriggerManualCall
<1>11. QED
       BY <1>1, <1>2, <1>9, <1>10, OthersKeepKeys DEF Next

\* However often the failure of a call is reported, and whatever else goes wrong, it is
\* followed by one next attempt at most.
THEOREM OneRetry == Spec => []OneNextAttempt
<1>1. TypeInv /\ KeyInv => OneNextAttempt
      BY NoneIsNoCall DEF KeyInv, OneNextAttempt
<1>2. QED
      BY <1>1, TypeInit, TypeStep, KeyInit, KeyStep, PTL DEF Spec

------------------------------------------------------------------------------
(* The book.                                                                 *)

\* Worker slot w is on call c, between its claim and its record of the conversation.
Dials(w, c) == slot[w].pc \in {"gates", "dial", "record"} /\ Call(w) = c

\* Booking t is about to queue call c.
Holds(t, c) == task[t].pc \in {"add", "rollback"} /\ task[t].c = c

\* No job of call c was ever queued: nobody can dial it.
Untouched(c) ==
    /\ rings[c] = 0
    /\ \A n \in 0 .. MaxDefers : queue[<<"call", c, n>>].st = "none"
    /\ \A w \in Workers : slot[w].pc # "idle" /\ slot[w].job \in CallJobs => Call(w) # c

\* A phone that rang belongs to a call that is being dialled, in progress or over, and a row
\* that knows its conversation is past dialling.
RingInv(c) ==
    /\ rings[c] > 0 => row[c].st \in {"calling", "in_progress"} \cup Over
    /\ line[c] # "none" => rings[c] > 0 /\ row[c].st \in {"in_progress"} \cup Over
    /\ row[c].st = "in_progress" => line[c] # "none"

\* One slot at a time dials a call; the phone rings as it leaves that phase.
DialInv(c) ==
    /\ \A w \in Workers : Dials(w, c) =>
        row[c].st = "calling" /\ (rings[c] > 0 <=> slot[w].pc = "record")
    /\ \A v, w \in Workers : Dials(v, c) /\ Dials(w, c) => v = w
    /\ \A w \in Workers : slot[w].pc = "poll" /\ Call(w) = c => line[c] # "none"

FreshInv(c) ==
    row[c].st \in {"none", "unqueued"} \/ (\E t \in Tasks : Holds(t, c)) => Untouched(c)

\* One booking at a time queues a call; a failure is written for a conversation that failed.
HoldInv(c) ==
    /\ \A t \in Tasks : Holds(t, c) => row[c].st \in {"scheduled", "canceled"}
    /\ \A t, u \in Tasks : Holds(t, c) /\ Holds(u, c) => t = u
    /\ \A t \in Tasks : task[t].pc = "write" /\ task[t].c = c => line[c] \in {"busy", "failed"}

CallInv(c) == RingInv(c) /\ DialInv(c) /\ FreshInv(c) /\ HoldInv(c)

\* What the book cannot stand: a lost reply to a booking, two requests that re-arm one row at
\* once, and a call the provider placed although dialling it failed.
Undisturbed == {"flap", "overlap", "unrecorded"} \cap Faults = {}

BookInv == TypeInv /\ \A c \in Calls : CallInv(c)

LEMMA BookInit == Init => BookInv
<1> SUFFICES ASSUME Init, NEW c \in Calls PROVE CallInv(c)
    BY TypeInit DEF BookInv
<1>1. \A n \in 0 .. MaxDefers : <<"call", c, n>> \in Jobs
      BY DEF Jobs, CallJobs
<1>2. row[c].st = "none" /\ rings[c] = 0 /\ line[c] = "none"
      BY DEF Init, NoRow
<1>3. (\A w \in Workers : slot[w].pc = "idle") /\ (\A t \in Tasks : task[t].pc = "idle")
      BY DEF Init, Free, IdleTask
<1>4. Untouched(c)
      BY <1>1, <1>2, <1>3 DEF Init, Untouched, NoJob
<1>5. QED
      BY <1>2, <1>3, <1>4 DEF CallInv, RingInv, DialInv, FreshInv, HoldInv, Dials, Holds

\* What is written to the row of one call is not written to another.
LEMMA StatusOf ==
    ASSUME RowOK, NEW c \in Calls, NEW s, SetStatus(c, s)
    PROVE  \A d \in Calls : row'[d].st = IF d = c THEN s ELSE row[d].st
BY DEF RowOK, RowRecord, SetStatus

\* A job is queued for one call only, and a check for none.
LEMMA AddedFor ==
    ASSUME QueueOK, NEW j, NEW d \in Calls, queue' = Added(j), j[1] = "call" => j[2] # d
    PROVE  \A n \in 0 .. MaxDefers : queue'[<<"call", d, n>>] = queue[<<"call", d, n>>]
<1> SUFFICES ASSUME NEW n \in 0 .. MaxDefers
             PROVE queue'[<<"call", d, n>>] = queue[<<"call", d, n>>]
    OBVIOUS
<1>1. <<"call", d, n>> \in Jobs
      BY DEF Jobs, CallJobs
<1>2. <<"call", d, n>> # j
      OBVIOUS
<1>3. QED
      BY <1>1, <1>2 DEF Added, QueueOK

\* A call that neither the step nor anything it changes is about.
LEMMA Elsewhere ==
    ASSUME NEW d \in Calls, CallInv(d), row'[d] = row[d], rings'[d] = rings[d], line'[d] = line[d],
           \A n \in 0 .. MaxDefers : queue'[<<"call", d, n>>] = queue[<<"call", d, n>>],
           \A w \in Workers :
                \/ slot'[w] = slot[w]
                \/ /\ slot[w].pc # "idle" => slot[w].job[2] # d
                   /\ slot'[w].pc # "idle" => slot'[w].job[2] # d,
           \A t \in Tasks :
                \/ task'[t] = task[t]
                \/ /\ task[t].pc \in {"add", "rollback", "write"} => task[t].c # d
                   /\ task'[t].pc \in {"add", "rollback", "write"} => task'[t].c # d
    PROVE  CallInv(d)'
<1> USE DEF CallInv, Call
<1>1. RingInv(d)'
      BY DEF RingInv
<1>2. DialInv(d)'
      BY DEF DialInv, Dials
<1>3. FreshInv(d)'
      BY DEF FreshInv, Untouched, Holds
<1>4. HoldInv(d)'
      BY DEF HoldInv, Holds
<1>5. QED
      BY <1>1, <1>2, <1>3, <1>4

\* A step that writes nothing down and takes no slot into a dialling phase or to a poll.
LEMMA Calm ==
    ASSUME NEW d \in Calls, CallInv(d), UNCHANGED <<row, phoneVars, task>>,
           \A w \in Workers : slot'[w].pc \in {"gates", "dial", "record", "poll"} =>
                slot'[w].pc = slot[w].pc /\ slot'[w].job = slot[w].job,
           Untouched(d) => Untouched(d)'
    PROVE  CallInv(d)'
<1> USE DEF CallInv, Call, phoneVars
<1>1. RingInv(d)'
      BY DEF RingInv
<1>2. DialInv(d)'
      BY DEF DialInv, Dials
<1>3. FreshInv(d)' /\ HoldInv(d)'
      BY DEF FreshInv, HoldInv, Holds
<1>4. QED
      BY <1>1, <1>2, <1>3

\* A step of requests, none of which takes up a row.
LEMMA Asking ==
    ASSUME NEW d \in Calls, CallInv(d), UNCHANGED <<row, phoneVars, queue, slot>>,
           \A t \in Tasks : task'[t].pc \in {"add", "rollback", "write"} =>
                /\ task'[t].c = task[t].c
                /\ task'[t].pc = "write" <=> task[t].pc = "write"
                /\ task[t].pc \in {"add", "rollback", "write"}
    PROVE  CallInv(d)'
<1> USE DEF CallInv, Call, phoneVars
<1>1. RingInv(d)'
      BY DEF RingInv
<1>2. DialInv(d)'
      BY DEF DialInv, Dials
<1>3. FreshInv(d)'
      BY DEF FreshInv, Untouched, Holds
<1>4. HoldInv(d)'
      BY DEF HoldInv, Holds
<1>5. QED
      BY <1>1, <1>2, <1>3, <1>4

\* The slot that runs a call job runs it for a call somebody queued.
LEMMA OnTheJob ==
    ASSUME NEW w \in Workers, TypeInv, slot[w].pc \in {"claim"} \cup DialPhases,
           CallInv(Call(w))
    PROVE  /\ Call(w) \in Calls /\ slot[w].job \in CallJobs
           /\ row[Call(w)].st \notin {"none", "unqueued"}
           /\ \A t \in Tasks : ~Holds(t, Call(w))
<1>1. slot[w].job \in CallJobs /\ slot[w].pc # "idle"
      BY DEF TypeInv, SlotsKnow, SlotKnows, DialPhases
<1>2. Call(w) \in Calls
      BY <1>1, CallJobParts DEF Call
<1>3. QED
      BY <1>1, <1>2 DEF CallInv, FreshInv, Untouched

LEMMA Turns ==
    ASSUME WorkOK, NEW w \in Workers, NEW pc, Goto(w, pc)
    PROVE  /\ slot'[w].pc = pc /\ slot'[w].job = slot[w].job
           /\ \A v \in Workers : v # w => slot'[v] = slot[v]
<1>1. [slot[w] EXCEPT !.pc = pc].pc = pc /\ [slot[w] EXCEPT !.pc = pc].job = slot[w].job
      BY DEF WorkOK, SlotRecord
<1>2. QED
      BY <1>1 DEF WorkOK, Goto

\* A step of executeCall() leaves every other call alone.
LEMMA OtherCalls ==
    ASSUME TypeInv, NEW w \in Workers, NEW pc, slot[w].pc # "idle", Goto(w, pc), UNCHANGED task,
           NEW d \in Calls, d # Call(w), CallInv(d),
           row'[d] = row[d], rings'[d] = rings[d], line'[d] = line[d], UNCHANGED queue
    PROVE  CallInv(d)'
<1>1. WorkOK
      BY DEF TypeInv, TypeOK
<1>0. slot'[w].job = slot[w].job /\ \A v \in Workers : v # w => slot'[v] = slot[v]
      BY <1>1, Turns
<1>2. \A v \in Workers :
        \/ slot'[v] = slot[v]
        \/ /\ slot[v].pc # "idle" => slot[v].job[2] # d
           /\ slot'[v].pc # "idle" => slot'[v].job[2] # d
      BY <1>0 DEF Call
<1>3. \A n \in 0 .. MaxDefers : queue'[<<"call", d, n>>] = queue[<<"call", d, n>>]
      OBVIOUS
<1>4. \A t \in Tasks : task'[t] = task[t]
      OBVIOUS
<1>5. QED
      BY <1>2, <1>3, <1>4, Elsewhere

\* ... and of its own, all but what it writes and the phase it goes to.
LEMMA OwnCall ==
    ASSUME TypeInv, NEW c \in Calls, NEW w \in Workers, c = Call(w), CallInv(c),
           slot[w].pc \in {"claim"} \cup DialPhases, UNCHANGED task,
           row'[c].st \notin {"none", "unqueued"}, line'[c] = line[c] \/ line[c] = "none",
           RingInv(c)', DialInv(c)'
    PROVE  CallInv(c)'
<1>1. \A t \in Tasks : ~Holds(t, c)
      BY OnTheJob
<1>2. \A t \in Tasks : ~Holds(t, c)'
      BY <1>1 DEF Holds
<1>3. FreshInv(c)'
      BY <1>2 DEF FreshInv
<1>4. HoldInv(c)'
      BY <1>2 DEF HoldInv, Holds, CallInv
<1>5. QED
      BY <1>3, <1>4 DEF CallInv

LEMMA BookStepOfRequests ==
    ASSUME BookInv, Undisturbed, NEW t \in Tasks, NEW d \in Calls,
           Booking(t) \/ ScheduleAutoCalls(t) \/ TriggerManualCall(t)
    PROVE  CallInv(d)'
<1> USE DEF BookInv, TypeInv, TypeOK, Undisturbed
<1>i. IdleTask.pc = "idle"
      BY DEF IdleTask
<1>r. ~Resume(t)
      BY DEF Resume, TasksKnow, TaskKnows
<1>q. UNCHANGED queue =>
        \A e \in Calls : \A n \in 0 .. MaxDefers :
            queue'[<<"call", e, n>>] = queue[<<"call", e, n>>]
      OBVIOUS
<1>1. ASSUME NEW key, Start(t, key) PROVE CallInv(d)'
  <2>1. task'[t].pc = "create" /\ \A u \in Tasks : u # t => task'[u] = task[u]
        BY <1>1 DEF Start, TaskOK
  <2>2. UNCHANGED <<row, phoneVars, queue, slot>>
        BY <1>1 DEF Start, workVars
  <2>3. QED
        BY <2>1, <2>2, Asking
<1>2. CASE CreateCall(t)
  <2> DEFINE key == task[t].key
             new == [st |-> "scheduled", attempt |-> task[t].attempt, key |-> key]
             x(c) == [task[t] EXCEPT !.pc = "add", !.c = c]
  <2>0. /\ task[t].pc = "create" /\ task[t] \in TaskRecord
        /\ UNCHANGED <<phoneVars, queue, workVars>>
        BY <1>2 DEF CreateCall, TaskOK
  <2>1. ASSUME NEW c \in Calls, row[c].st \in {"none", "unqueued"},
               \A e \in Calls : row'[e] = IF e = c THEN row'[c] ELSE row[e],
               row'[c].st = "scheduled",
               task' = [task EXCEPT ![t].pc = "add", ![t].c = c]
        PROVE  CallInv(d)'
    <3>1. task'[t] = x(c) /\ \A u \in Tasks : u # t => task'[u] = task[u]
          BY <2>1 DEF TaskOK
    <3>2. task'[t].pc = "add" /\ task'[t].c = c
          BY <2>0, <3>1 DEF TaskRecord
    <3>3. CASE d # c
      <4>1. row'[d] = row[d] /\ rings'[d] = rings[d] /\ line'[d] = line[d]
            BY <2>0, <2>1, <3>3 DEF phoneVars
      <4>2. \A w \in Workers : slot'[w] = slot[w]
            BY <2>0 DEF workVars
      <4>3. \A u \in Tasks :
              \/ task'[u] = task[u]
              \/ /\ task[u].pc \in {"add", "rollback", "write"} => task[u].c # d
                 /\ task'[u].pc \in {"add", "rollback", "write"} => task'[u].c # d
            BY <2>0, <3>1, <3>2, <3>3
      <4>4. QED
            BY <2>0, <4>1, <4>2, <4>3, <1>q, Elsewhere
    <3>4. CASE d = c
      <4>1. CallInv(c) /\ Untouched(c)
            BY <2>1 DEF CallInv, FreshInv
      <4>2. UNCHANGED <<rings, line, queue, slot>>
            BY <2>0 DEF phoneVars, workVars
      <4>3. RingInv(c)'
            BY <2>1, <4>1, <4>2 DEF RingInv, CallInv, Untouched
      <4>4. DialInv(c)'
            BY <2>1, <4>1, <4>2 DEF DialInv, CallInv, Dials, Call
      <4>5. FreshInv(c)'
            BY <4>1, <4>2 DEF FreshInv, Untouched, Call
      <4>6. HoldInv(c)'
        <5>1. \A u \in Tasks : ~Holds(u, c)
              BY <2>1, <4>1 DEF CallInv, HoldInv
        <5>2. \A u \in Tasks : Holds(u, c)' => u = t
              BY <3>1, <5>1 DEF Holds
        <5>3. QED
              BY <2>1, <3>1, <3>2, <4>1, <4>2, <5>2 DEF HoldInv, CallInv
      <4>7. QED
            BY <3>4, <4>3, <4>4, <4>5, <4>6 DEF CallInv
    <3>5. QED
          BY <3>3, <3>4
  <2>2. ASSUME NEW c \in Calls, NextRow(c), row' = [row EXCEPT ![c] = new]
        PROVE  /\ row[c].st \in {"none", "unqueued"} /\ row'[c].st = "scheduled"
               /\ \A e \in Calls : row'[e] = IF e = c THEN row'[c] ELSE row[e]
        BY <2>2 DEF NextRow, NoRow, RowOK
  <2>3. ASSUME NEW c \in Calls, row[c].st = "unqueued", SetStatus(c, "scheduled")
        PROVE  /\ row[c].st \in {"none", "unqueued"} /\ row'[c].st = "scheduled"
               /\ \A e \in Calls : row'[e] = IF e = c THEN row'[c] ELSE row[e]
        BY <2>3 DEF SetStatus, RowOK, RowRecord
  <2>4. ASSUME task' = [task EXCEPT ![t] = IdleTask], UNCHANGED row PROVE CallInv(d)'
    <3>1. task'[t].pc = "idle" /\ \A u \in Tasks : u # t => task'[u] = task[u]
          BY <2>4, <1>i DEF TaskOK
    <3>2. UNCHANGED <<row, phoneVars, queue, slot>>
          BY <2>0, <2>4 DEF workVars
    <3>3. QED
          BY <3>1, <3>2, Asking
  <2>5. QED
        BY <1>2, <2>1, <2>2, <2>3, <2>4 DEF CreateCall, Holders
<1>3. CASE AddCall(t)
  <2> DEFINE c == task[t].c
             x == [task[t] EXCEPT !.pc = "rollback"]
  <2>0. /\ task[t].pc = "add" /\ task[t] \in TaskRecord /\ c \in Calls
        /\ UNCHANGED <<row, rings, line, slot>>
        BY <1>3 DEF AddCall, TaskOK, TasksKnow, TaskKnows, phoneVars, workVars
  <2>1. CASE task' = [task EXCEPT ![t] = IdleTask] /\ queue' = Added(<<"call", c, 0>>)
    <3>1. task'[t].pc = "idle" /\ \A u \in Tasks : u # t => task'[u] = task[u]
          BY <2>1, <1>i DEF TaskOK
    <3>2. CASE d # c
      <4>1. \A n \in 0 .. MaxDefers : queue'[<<"call", d, n>>] = queue[<<"call", d, n>>]
            BY <2>1, <3>2, AddedFor
      <4>2. \A u \in Tasks :
              \/ task'[u] = task[u]
              \/ /\ task[u].pc \in {"add", "rollback", "write"} => task[u].c # d
                 /\ task'[u].pc \in {"add", "rollback", "write"} => task'[u].c # d
            BY <3>1, <3>2
      <4>3. QED
            BY <2>0, <4>1, <4>2, Elsewhere
    <3>3. CASE d = c
      <4>1. CallInv(d) /\ Holds(t, d)
            BY <3>3, <2>0 DEF Holds
      <4>2. RingInv(d)'
            BY <3>3, <2>0, <4>1 DEF RingInv, CallInv
      <4>3. DialInv(d)'
            BY <3>3, <2>0, <4>1 DEF DialInv, CallInv, Dials, Call
      <4>4. \A u \in Tasks : Holds(u, d)' => Holds(u, d) /\ u # t
            BY <3>3, <3>1 DEF Holds
      <4>5. FreshInv(d)'
            BY <3>3, <2>0, <4>1, <4>4 DEF FreshInv, CallInv, HoldInv
      <4>6. HoldInv(d)'
            BY <3>3, <2>0, <3>1, <4>1, <4>4 DEF HoldInv, CallInv
      <4>7. QED
            BY <3>3, <4>2, <4>3, <4>5, <4>6 DEF CallInv
    <3>4. QED
          BY <3>2, <3>3
  <2>2. CASE task' = [task EXCEPT ![t] = x] /\ queue' = queue
    <3>1. task'[t].pc = "rollback" /\ task'[t].c = c /\ \A u \in Tasks : u # t => task'[u] = task[u]
          BY <2>0, <2>2 DEF TaskOK, TaskRecord
    <3>2. UNCHANGED <<row, phoneVars, queue, slot>>
          BY <2>0, <2>2 DEF phoneVars
    <3>3. QED
          BY <2>0, <3>1, <3>2, Asking
  <2>3. QED
        BY <1>3, <2>1, <2>2 DEF AddCall
<1>4. CASE RollBack(t)
  <2> DEFINE c == task[t].c
  <2>0. /\ task[t].pc = "rollback" /\ c \in Calls /\ SetStatus(c, "unqueued")
        /\ UNCHANGED <<rings, line, queue, slot>>
        BY <1>4 DEF RollBack, TasksKnow, TaskKnows, phoneVars, workVars
  <2>1. task'[t].pc = "idle" /\ \A u \in Tasks : u # t => task'[u] = task[u]
        BY <1>4, <1>i DEF RollBack, TaskOK
  <2>2. row'[c].st = "unqueued" /\ \A e \in Calls : e # c => row'[e] = row[e]
        BY <2>0 DEF SetStatus, RowOK, RowRecord
  <2>3. CASE d # c
    <3>1. row'[d] = row[d] /\ rings'[d] = rings[d] /\ line'[d] = line[d]
          BY <2>0, <2>2, <2>3
    <3>2. \A w \in Workers : slot'[w] = slot[w]
          BY <2>0
    <3>3. \A u \in Tasks :
            \/ task'[u] = task[u]
            \/ /\ task[u].pc \in {"add", "rollback", "write"} => task[u].c # d
               /\ task'[u].pc \in {"add", "rollback", "write"} => task'[u].c # d
          BY <2>1, <2>3
    <3>4. QED
          BY <2>0, <3>1, <3>2, <3>3, <1>q, Elsewhere
  <2>4. CASE d = c
    <3>1. CallInv(d) /\ Holds(t, d) /\ Untouched(d)
          BY <2>4, <2>0 DEF Holds, CallInv, FreshInv
    <3>2. RingInv(d)'
          BY <2>4, <2>0, <2>2, <3>1 DEF RingInv, CallInv, Untouched
    <3>3. DialInv(d)'
      <4>1. \A w \in Workers : ~Dials(w, d)
            BY <2>4, <3>1 DEF CallInv, DialInv, HoldInv
      <4>2. \A w \in Workers : ~Dials(w, d)'
            BY <2>4, <2>0, <4>1 DEF Dials, Call
      <4>3. QED
            BY <2>4, <2>0, <3>1, <4>2 DEF DialInv, CallInv, Call
    <3>4. FreshInv(d)'
          BY <2>4, <2>0, <3>1 DEF FreshInv, Untouched, Call
    <3>5. \A u \in Tasks : ~Holds(u, d)'
          BY <2>4, <2>1, <3>1 DEF Holds, CallInv, HoldInv
    <3>6. HoldInv(d)'
          BY <2>4, <2>0, <2>1, <3>1, <3>5 DEF HoldInv, CallInv
    <3>7. QED
          BY <2>4, <3>2, <3>3, <3>4, <3>6 DEF CallInv
  <2>5. QED
        BY <2>3, <2>4
<1>5. CASE WriteFailure(t)
  <2> DEFINE c == task[t].c
  <2>0. /\ task[t].pc = "write" /\ c \in Calls /\ UNCHANGED <<rings, line, queue, slot>>
        /\ SetStatus(c, "no_answer") \/ SetStatus(c, "failed")
        BY <1>5 DEF WriteFailure, TasksKnow, TaskKnows, phoneVars, workVars
  <2>1. task'[t].pc \in {"idle", "create"} /\ \A u \in Tasks : u # t => task'[u] = task[u]
        BY <1>5, <1>i DEF WriteFailure, NextAttempt, TaskOK
  <2>2. row'[c].st \in {"no_answer", "failed"} /\ \A e \in Calls : e # c => row'[e] = row[e]
        BY <2>0 DEF SetStatus, RowOK, RowRecord
  <2>3. CASE d # c
    <3>1. row'[d] = row[d] /\ rings'[d] = rings[d] /\ line'[d] = line[d]
          BY <2>0, <2>2, <2>3
    <3>2. \A w \in Workers : slot'[w] = slot[w]
          BY <2>0
    <3>3. \A u \in Tasks :
            \/ task'[u] = task[u]
            \/ /\ task[u].pc \in {"add", "rollback", "write"} => task[u].c # d
               /\ task'[u].pc \in {"add", "rollback", "write"} => task'[u].c # d
          BY <2>1, <2>3
    <3>4. QED
          BY <2>0, <3>1, <3>2, <3>3, <1>q, Elsewhere
  <2>4. CASE d = c
    <3>0. CallInv(d)
          OBVIOUS
    <3>1. line[d] # "none" /\ rings[d] > 0 /\ row[d].st \in {"in_progress"} \cup Over
          BY <2>4, <2>0, <3>0 DEF CallInv, HoldInv, RingInv
    <3>2. (\A u \in Tasks : ~Holds(u, d)) /\ (\A w \in Workers : ~Dials(w, d))
      <4>1. ~Untouched(d)
            BY <3>1, BoundsAssumption DEF Untouched
      <4>2. QED
            BY <3>0, <3>1, <4>1 DEF CallInv, FreshInv, DialInv, Over
    <3>3. (\A u \in Tasks : ~Holds(u, d)') /\ (\A w \in Workers : ~Dials(w, d)')
          BY <2>4, <2>0, <2>1, <3>2 DEF Holds, Dials, Call
    <3>4. RingInv(d)'
          BY <2>4, <2>0, <2>2, <3>1 DEF RingInv, Over
    <3>5. DialInv(d)'
          BY <2>4, <2>0, <3>0, <3>1, <3>3 DEF DialInv, CallInv
    <3>6. FreshInv(d)'
          BY <2>4, <2>2, <3>3 DEF FreshInv
    <3>7. HoldInv(d)'
          BY <2>4, <2>0, <2>1, <3>0, <3>3 DEF HoldInv, CallInv
    <3>8. QED
          BY <2>4, <3>4, <3>5, <3>6, <3>7 DEF CallInv
  <2>5. QED
        BY <2>3, <2>4
<1>6. QED
      BY <1>1, <1>2, <1>3, <1>4, <1>5, <1>r DEF Booking, ScheduleAutoCalls, TriggerManualCall

LEMMA BookStepOfProvider ==
    ASSUME BookInv, NEW d \in Calls, NEW c \in Calls,
           \/ CancelCall(c) \/ Ends(c) \/ Transcription(c)
           \/ \E t \in Tasks : InitiationFailure(t, c)
    PROVE  CallInv(d)'
<1> USE DEF BookInv, TypeInv, TypeOK
<1>c. CallInv(c)
      OBVIOUS
<1>1. CASE CancelCall(c)
  <2>0. /\ row[c].st = "scheduled" /\ SetStatus(c, "canceled")
        /\ UNCHANGED <<rings, line, slot, task>>
        BY <1>1 DEF CancelCall, phoneVars, workVars, taskVars
  <2>1. row'[c].st = "canceled" /\ \A e \in Calls : e # c => row'[e] = row[e]
        BY <2>0 DEF SetStatus, RowOK, RowRecord
  <2>2. \A e \in Calls : Untouched(e) => Untouched(e)'
    <3>1. \A j \in Jobs : queue[j].st = "none" => queue'[j].st = "none"
          BY <1>1 DEF CancelCall, QueueOK, NoJob
    <3>2. \A e \in Calls : \A n \in 0 .. MaxDefers : <<"call", e, n>> \in Jobs
          BY DEF Jobs, CallJobs
    <3>3. QED
          BY <2>0, <3>1, <3>2 DEF Untouched, Call
  <2>3. CASE d # c
    <3>1. row'[d] = row[d]
          BY <2>1, <2>3
    <3>2. RingInv(d)' /\ HoldInv(d)'
          BY <2>0, <3>1 DEF CallInv, RingInv, HoldInv, Holds
    <3>3. DialInv(d)'
          BY <2>0, <3>1 DEF CallInv, DialInv, Dials, Call
    <3>4. FreshInv(d)'
          BY <2>0, <2>2, <3>1 DEF CallInv, FreshInv, Holds
    <3>5. QED
          BY <3>2, <3>3, <3>4 DEF CallInv
  <2>4. CASE d = c
    <3>1. rings[c] = 0 /\ line[c] = "none" /\ \A w \in Workers : ~Dials(w, c)
          BY <1>c, <2>0, BoundsAssumption DEF CallInv, RingInv, DialInv, Over, PhoneOK
    <3>2. RingInv(c)' /\ HoldInv(c)'
          BY <1>c, <2>0, <2>1, <3>1 DEF CallInv, RingInv, HoldInv, Holds
    <3>3. \A w \in Workers : ~Dials(w, c)'
          BY <2>0, <3>1 DEF Dials, Call
    <3>4. DialInv(c)'
          BY <1>c, <2>0, <3>3 DEF CallInv, DialInv, Call
    <3>5. FreshInv(c)'
          BY <1>c, <2>0, <2>1, <2>2 DEF CallInv, FreshInv, Holds
    <3>6. QED
          BY <2>4, <3>2, <3>4, <3>5 DEF CallInv
  <2>5. QED
        BY <2>3, <2>4
<1>2. CASE Ends(c)
  <2>0. /\ line[c] = "talking" /\ UNCHANGED <<row, rings, queue, slot, task>>
        /\ \A e \in Calls : e # c => line'[e] = line[e]
        /\ line'[c] # "none"
        BY <1>2 DEF Ends, PhoneOK, workVars, taskVars
  <2>1. line'[d] # "none" <=> line[d] # "none"
        BY <2>0
  <2>2. RingInv(d)'
        BY <2>0, <2>1 DEF CallInv, RingInv
  <2>3. DialInv(d)'
        BY <2>0, <2>1 DEF CallInv, DialInv, Dials, Call
  <2>4. FreshInv(d)'
        BY <2>0 DEF CallInv, FreshInv, Holds, Untouched, Call
  <2>5. HoldInv(d)'
        BY <2>0 DEF CallInv, HoldInv, Holds
  <2>6. QED
        BY <2>2, <2>3, <2>4, <2>5 DEF CallInv
<1>3. CASE Transcription(c)
  <2>0. /\ line[c] = "done" /\ SetStatus(c, "completed")
        /\ UNCHANGED <<rings, line, queue, slot, task>>
        BY <1>3 DEF Transcription, workVars, taskVars
  <2>1. row'[c].st = "completed" /\ \A e \in Calls : e # c => row'[e] = row[e]
        BY <2>0 DEF SetStatus, RowOK, RowRecord
  <2>2. rings[c] > 0 /\ row[c].st \in {"in_progress"} \cup Over
        BY <1>c, <2>0 DEF CallInv, RingInv
  <2>3. ~Untouched(c)
        BY <2>2 DEF Untouched
  <2>4. CASE d # c
    <3>1. row'[d] = row[d]
          BY <2>1, <2>4
    <3>2. RingInv(d)' /\ HoldInv(d)'
          BY <2>0, <3>1 DEF CallInv, RingInv, HoldInv, Holds
    <3>3. DialInv(d)'
          BY <2>0, <3>1 DEF CallInv, DialInv, Dials, Call
    <3>4. FreshInv(d)'
          BY <2>0, <3>1 DEF CallInv, FreshInv, Holds, Untouched, Call
    <3>5. QED
          BY <3>2, <3>3, <3>4 DEF CallInv
  <2>5. CASE d = c
    <3>1. (\A t \in Tasks : ~Holds(t, c)) /\ (\A w \in Workers : ~Dials(w, c))
          BY <1>c, <2>2, <2>3 DEF CallInv, FreshInv, DialInv, Over
    <3>2. (\A t \in Tasks : ~Holds(t, c)') /\ (\A w \in Workers : ~Dials(w, c)')
          BY <2>0, <3>1 DEF Holds, Dials, Call
    <3>3. RingInv(c)'
          BY <2>0, <2>1, <2>2 DEF RingInv, Over
    <3>4. DialInv(c)'
          BY <1>c, <2>0, <3>2 DEF CallInv, DialInv, Call
    <3>5. FreshInv(c)' /\ HoldInv(c)'
          BY <1>c, <2>0, <2>1, <3>2 DEF CallInv, FreshInv, HoldInv
    <3>6. QED
          BY <2>5, <3>3, <3>4, <3>5 DEF CallInv
  <2>6. QED
        BY <2>4, <2>5
<1>4. ASSUME NEW t \in Tasks, InitiationFailure(t, c) PROVE CallInv(d)'
  <2>0. /\ line[c] \in {"busy", "failed"} /\ UNCHANGED <<row, rings, line, queue, slot>>
        /\ task'[t].pc = "write" /\ task'[t].c = c
        /\ \A u \in Tasks : u # t => task'[u] = task[u]
        BY <1>4 DEF InitiationFailure, workVars, TaskOK, IdleTask
  <2>1. \A u \in Tasks : Holds(u, d)' => Holds(u, d)
        BY <2>0 DEF Holds
  <2>2. RingInv(d)'
        BY <2>0 DEF CallInv, RingInv
  <2>3. DialInv(d)'
        BY <2>0 DEF CallInv, DialInv, Dials, Call
  <2>4. FreshInv(d)'
        BY <2>0, <2>1 DEF CallInv, FreshInv, Untouched, Call
  <2>5. HoldInv(d)'
        BY <2>0, <2>1 DEF CallInv, HoldInv
  <2>6. QED
        BY <2>2, <2>3, <2>4, <2>5 DEF CallInv
<1>5. QED
      BY <1>1, <1>2, <1>3, <1>4

\* What a queue step does to a job that is queued or running leaves an untouched call so.
LEMMA QueueStepCalm ==
    ASSUME TypeInv, NEW d \in Calls, Untouched(d), UNCHANGED rings,
           \A j \in Jobs : queue'[j].st = "none" \/ queue[j].st # "none"
                \/ \E w \in Workers : slot[w].pc # "idle" /\ slot[w].job = j,
           \A w \in Workers : slot'[w].pc # "idle" =>
                \/ slot[w].pc # "idle" /\ slot'[w].job = slot[w].job
                \/ queue[slot'[w].job].st # "none"
    PROVE  Untouched(d)'
<1>1. \A n \in 0 .. MaxDefers : <<"call", d, n>> \in CallJobs /\ <<"call", d, n>> \in Jobs
                                /\ <<"call", d, n>>[2] = d
      BY DEF Jobs, CallJobs
<1>2. \A n \in 0 .. MaxDefers : queue'[<<"call", d, n>>].st = "none"
      BY <1>1 DEF Untouched, Call
<1>3. ASSUME NEW w \in Workers, slot'[w].pc # "idle", slot'[w].job \in CallJobs
      PROVE  slot'[w].job[2] # d
  <2>1. CASE slot[w].pc # "idle" /\ slot'[w].job = slot[w].job
        BY <1>3, <2>1 DEF Untouched, Call
  <2>2. CASE queue[slot'[w].job].st # "none"
    <3>1. PICK e \in Calls, n \in 0 .. MaxDefers : slot'[w].job = <<"call", e, n>>
          BY <1>3 DEF CallJobs
    <3>2. QED
          BY <2>2, <3>1 DEF Untouched
  <2>3. QED
        BY <1>3, <2>1, <2>2
<1>4. QED
      BY <1>2, <1>3 DEF Untouched, Call

LEMMA BookStepOfQueue ==
    ASSUME BookInv, NEW d \in Calls,
           \/ \E w \in Workers : JobReturns(w) \/ JobThrows(w) \/ LockExpires(w)
           \/ \E w \in Workers, j \in Jobs : Take(w, j)
           \/ \E j \in Jobs : StalledCheck(j)
           \/ WorkerCrash
    PROVE  CallInv(d)'
<1> USE DEF BookInv, TypeInv, TypeOK
<1>0. Free.pc = "idle" /\ CallInv(d)
      BY DEF Free
<1>1. ASSUME NEW w \in Workers, JobReturns(w) \/ JobThrows(w) PROVE CallInv(d)'
  <2>0. /\ slot[w].pc \in {"return", "throw"} /\ slot[w].job \in Jobs
        /\ UNCHANGED <<row, phoneVars, task>>
        BY <1>1 DEF JobReturns, JobThrows, SlotsKnow, SlotKnows, taskVars
  <2>1. slot'[w].pc = "idle" /\ \A v \in Workers : v # w => slot'[v] = slot[v]
        BY <1>0, <1>1 DEF JobReturns, JobThrows, WorkOK
  <2>2. \A j \in Jobs : j # slot[w].job => queue'[j] = queue[j]
        BY <1>1 DEF JobReturns, JobThrows, QueueOK
  <2>3. Untouched(d) => Untouched(d)'
        BY <2>0, <2>1, <2>2, QueueStepCalm DEF phoneVars
  <2>4. QED
        BY <1>0, <2>0, <2>1, <2>3, Calm
<1>2. ASSUME NEW w \in Workers, LockExpires(w) PROVE CallInv(d)'
  <2>1. \A v \in Workers : slot'[v].pc = slot[v].pc /\ slot'[v].job = slot[v].job
        BY <1>2 DEF LockExpires, WorkOK, SlotRecord
  <2>2. UNCHANGED <<row, phoneVars, task, queue>>
        BY <1>2 DEF LockExpires, taskVars
  <2>3. Untouched(d) => Untouched(d)'
        BY <2>1, <2>2 DEF Untouched, Call, phoneVars
  <2>4. QED
        BY <1>0, <2>1, <2>2, <2>3, Calm
<1>3. ASSUME NEW w \in Workers, NEW j \in Jobs, Take(w, j) PROVE CallInv(d)'
  <2>0. queue[j].st = "wait" /\ UNCHANGED <<row, phoneVars, task>>
        BY <1>3 DEF Take, taskVars
  <2>1. /\ slot'[w].pc \in {"claim", "check"} /\ slot'[w].job = j
        /\ \A v \in Workers : v # w => slot'[v] = slot[v]
        BY <1>3 DEF Take, WorkOK
  <2>2. \A i \in Jobs : i # j => queue'[i] = queue[i]
        BY <1>3 DEF Take, QueueOK
  <2>3. Untouched(d) => Untouched(d)'
        BY <2>0, <2>1, <2>2, QueueStepCalm DEF phoneVars
  <2>4. QED
        BY <1>0, <2>0, <2>1, <2>3, Calm
<1>4. ASSUME NEW j \in Jobs, StalledCheck(j) PROVE CallInv(d)'
  <2>0. queue[j].st = "active" /\ UNCHANGED <<row, phoneVars, task, slot>>
        BY <1>4 DEF StalledCheck, taskVars, workVars
  <2>1. \A i \in Jobs : i # j => queue'[i] = queue[i]
        BY <1>4 DEF StalledCheck, QueueOK
  <2>2. Untouched(d) => Untouched(d)'
        BY <2>0, <2>1, QueueStepCalm DEF phoneVars
  <2>3. QED
        BY <1>0, <2>0, <2>2, Calm
<1>5. ASSUME WorkerCrash PROVE CallInv(d)'
  <2>1. \A v \in Workers : slot'[v].pc = "idle"
        BY <1>0, <1>5 DEF WorkerCrash
  <2>2. UNCHANGED <<row, phoneVars, task, queue>>
        BY <1>5 DEF WorkerCrash, taskVars
  <2>3. Untouched(d) => Untouched(d)'
        BY <2>1, <2>2 DEF Untouched, phoneVars
  <2>4. QED
        BY <1>0, <2>1, <2>2, <2>3, Calm
<1>6. QED
      BY <1>1, <1>2, <1>3, <1>4, <1>5

LEMMA BookStepOfWorker ==
    ASSUME BookInv, Undisturbed, NEW d \in Calls, NEW w \in Workers,
           \/ Claim(w) \/ CheckGates(w) \/ Dial(w) \/ DialBlocked(w) \/ DialFails(w) \/ Record(w)
    PROVE  CallInv(d)'
<1> USE DEF BookInv, TypeInv, TypeOK, Undisturbed
<1>0. slot[w].pc \in {"claim"} \cup DialPhases /\ UNCHANGED <<queue, task>>
      BY DEF Claim, CheckGates, Dial, DialBlocked, DialFails, Record, DialPhases, taskVars
<1>1. Call(w) \in Calls
  <2>1. slot[w].job \in CallJobs
        BY <1>0 DEF SlotsKnow, SlotKnows
  <2>2. QED
        BY <2>1, CallJobParts DEF Call
<1>2. \A e \in Calls : e # Call(w) =>
        row'[e] = row[e] /\ rings'[e] = rings[e] /\ line'[e] = line[e]
      BY <1>1 DEF Claim, CheckGates, Dial, DialBlocked, DialFails, Record, SetStatus,
                  phoneVars, RowOK, PhoneOK
<1>3. PICK pc \in Phases : Goto(w, pc)
      BY DEF Claim, CheckGates, Dial, DialBlocked, DialFails, Record, Phases, DialPhases
<1>4. CASE d # Call(w)
  <2>1. slot[w].pc # "idle"
        BY <1>0 DEF DialPhases
  <2>2. QED
        BY <1>0, <1>2, <1>3, <1>4, <2>1, OtherCalls
<1>5. CASE d = Call(w)
  <2>1. CallInv(d)
        OBVIOUS
  <2>2. /\ slot'[w].job = slot[w].job /\ Call(w)' = d
        /\ \A v \in Workers : v # w => slot'[v] = slot[v]
        BY <1>3, <1>5, Turns DEF Call
  <2>3. \A v \in Workers : v # w => (Dials(v, d)' <=> Dials(v, d))
        BY <2>2 DEF Dials, Call
  <2>4. row[d].st \notin {"none", "unqueued"}
        BY <1>0, <1>5, <2>1, OnTheJob
  <2>5. \A s : SetStatus(Call(w), s) => row'[d].st = s
        BY <1>1, <1>5, StatusOf
  <2>6. \A p : Goto(w, p) => slot'[w].pc = p
        BY Turns
  <2>7. Dials(w, d) => \A v \in Workers : v # w => ~Dials(v, d)
        BY <2>1 DEF CallInv, DialInv
  \* It is enough to show the two parts the step may disturb.
  <2>8. ASSUME row'[d].st \notin {"none", "unqueued"}, line'[d] = line[d] \/ line[d] = "none",
               RingInv(d)',
               \A v \in Workers : Dials(v, d)' =>
                    row'[d].st = "calling" /\ (rings'[d] > 0 <=> slot'[v].pc = "record"),
               \A u, v \in Workers : Dials(u, d)' /\ Dials(v, d)' => u = v,
               slot'[w].pc # "poll", line[d] # "none" => line'[d] # "none"
        PROVE  CallInv(d)'
    <3>1. \A v \in Workers : slot'[v].pc = "poll" /\ Call(v)' = d => line'[d] # "none"
          BY <2>1, <2>2, <2>8 DEF CallInv, DialInv, Call
    <3>2. DialInv(d)'
          BY <2>8, <3>1 DEF DialInv
    <3>3. QED
          BY <1>0, <1>5, <2>1, <2>8, <3>2, OwnCall
  <2>9. CASE Claim(w)
    <3>1. CASE row[d].st = "scheduled" /\ slot'[w].pc = "gates"
      <4>1. rings[d] = 0 /\ line[d] = "none" /\ \A v \in Workers : ~Dials(v, d)
            BY <2>1, <3>1, BoundsAssumption DEF CallInv, RingInv, DialInv, Over, PhoneOK
      <4>2. RingInv(d)'
            BY <3>1, <4>1, <2>5, <2>9, <1>5 DEF RingInv, Claim, phoneVars
      <4>3. row'[d].st = "calling"
            BY <3>1, <2>5, <2>9, <1>5 DEF Claim
      <4>4. rings'[d] = 0 /\ line'[d] = line[d]
            BY <2>9, <4>1 DEF Claim, phoneVars
      <4>5. \A v \in Workers : Dials(v, d)' => v = w
            BY <2>3, <4>1
      <4>6. QED
            BY <2>8, <3>1, <4>1, <4>2, <4>3, <4>4, <4>5
    <3>2. CASE UNCHANGED row /\ slot'[w].pc = "return"
      <4>1. rings' = rings /\ line' = line
            BY <2>9 DEF Claim, phoneVars
      <4>2. ~Dials(w, d)' /\ RingInv(d)'
            BY <2>1, <3>2, <4>1 DEF Dials, CallInv, RingInv
      <4>3. \A v \in Workers : Dials(v, d)' => Dials(v, d) /\ slot'[v].pc = slot[v].pc
            BY <2>2, <2>3, <4>2
      <4>4. QED
            BY <2>1, <2>4, <2>8, <3>2, <4>1, <4>2, <4>3 DEF CallInv, DialInv
    <3>3. QED
          BY <1>5, <2>6, <2>9, <3>1, <3>2 DEF Claim
  <2>10. CASE CheckGates(w) \/ DialBlocked(w) \/ DialFails(w)
    <3>1. Dials(w, d) /\ slot[w].pc # "record"
          BY <1>5, <2>10 DEF CheckGates, DialBlocked, DialFails, Dials
    <3>2. row[d].st = "calling" /\ rings[d] = 0 /\ line[d] = "none"
          BY <2>1, <3>1, BoundsAssumption DEF CallInv, DialInv, RingInv, Over, PhoneOK
    <3>3. rings'[d] = 0 /\ line'[d] = "none"
          BY <2>10, <3>2 DEF CheckGates, DialBlocked, DialFails, phoneVars
    <3>4. \/ slot'[w].pc = "dial" /\ row'[d].st = "calling"
          \/ /\ slot'[w].pc \in {"return", "defer", "throw"}
             /\ row'[d].st \in {"canceled", "scheduled", "blocked", "failed"}
      <4>1. row'= [row EXCEPT ![Call(w)].st = IF @ = "calling" THEN "scheduled" ELSE @]
              => row'[d].st = "scheduled"
            BY <1>5, <3>2 DEF RowOK, RowRecord
      <4>2. CASE CheckGates(w)
            BY <4>2, <2>5, <2>6, <3>2 DEF CheckGates
      <4>3. CASE DialBlocked(w)
            BY <4>3, <2>5, <2>6 DEF DialBlocked
      <4>4. CASE DialFails(w)
            BY <4>4, <4>1, <2>5, <2>6 DEF DialFails
      <4>5. QED
            BY <2>10, <4>2, <4>3, <4>4
    <3>5. RingInv(d)'
          BY <3>3, <3>4 DEF RingInv
    <3>6. \A v \in Workers : Dials(v, d)' => v = w /\ slot'[w].pc = "dial"
          BY <2>3, <2>7, <3>1, <3>4 DEF Dials
    <3>7. QED
          BY <2>8, <3>2, <3>3, <3>4, <3>5, <3>6
  <2>11. CASE Dial(w)
    <3>1. Dials(w, d) /\ slot[w].pc = "dial" /\ row' = row /\ line' = line
          BY <1>5, <2>11 DEF Dial, Dials
    <3>2. row[d].st = "calling" /\ line[d] = "none"
          BY <2>1, <3>1, BoundsAssumption DEF CallInv, DialInv, RingInv, Over, PhoneOK
    <3>3. rings'[d] > 0 /\ slot'[w].pc = "record"
          BY <1>5, <2>6, <2>11 DEF Dial, PhoneOK
    <3>4. RingInv(d)'
          BY <3>1, <3>2, <3>3 DEF RingInv
    <3>5. \A v \in Workers : Dials(v, d)' => v = w
          BY <2>3, <2>7, <3>1
    <3>6. QED
          BY <2>8, <3>1, <3>2, <3>3, <3>4, <3>5
  <2>12. CASE Record(w)
    <3>1. Dials(w, d) /\ slot[w].pc = "record" /\ rings' = rings
          BY <1>5, <2>12 DEF Record, Dials
    <3>2. row[d].st = "calling" /\ rings[d] > 0 /\ line[d] = "none"
          BY <2>1, <3>1 DEF CallInv, DialInv, RingInv, Over
    <3>3. row'[d].st = "in_progress" /\ line'[d] = "talking" /\ slot'[w].pc = "arm"
          BY <1>5, <2>5, <2>6, <2>12 DEF Record, PhoneOK
    <3>4. RingInv(d)'
          BY <3>1, <3>2, <3>3 DEF RingInv
    <3>5. \A v \in Workers : ~Dials(v, d)'
          BY <2>3, <2>7, <3>1, <3>3 DEF Dials
    <3>6. QED
          BY <2>8, <3>2, <3>3, <3>4, <3>5
  <2>13. QED
         BY <2>9, <2>10, <2>11, <2>12
<1>6. QED
      BY <1>4, <1>5

LEMMA BookStepOfJobs ==
    ASSUME BookInv, NEW d \in Calls, NEW w \in Workers, Defer(w) \/ Arm(w) \/ ReadCall(w) \/ Poll(w)
    PROVE  CallInv(d)'
<1> USE DEF BookInv, TypeInv, TypeOK
<1>0. CallInv(d) /\ UNCHANGED <<rings, line, task>>
      BY DEF Defer, Arm, ReadCall, Poll, phoneVars, taskVars
<1>1. PICK pc : Goto(w, pc)
      BY DEF Defer, Arm, ReadCall, Poll
<1>2. /\ slot'[w].job = slot[w].job /\ slot'[w].pc = pc
      /\ \A v \in Workers : v # w => slot'[v] = slot[v]
      BY <1>1, Turns
<1>3. slot[w].pc # "idle" /\ slot'[w].pc \in {"return", "poll"}
      BY <1>1, Turns DEF Defer, Arm, ReadCall, Poll
<1>4. Defer(w) \/ Arm(w) => slot[w].job \in CallJobs
      BY DEF Defer, Arm, SlotsKnow, SlotKnows, DialPhases
<1>5. ReadCall(w) \/ Poll(w) => slot[w].job \in CheckJobs
      BY DEF ReadCall, Poll, SlotsKnow, SlotKnows
<1>6. Call(w) \in Calls /\ CallInv(Call(w))
      BY <1>4, <1>5, CallJobParts, CheckJobParts DEF Call
<1>7. Untouched(d) => Untouched(d)'
  <2> SUFFICES ASSUME Untouched(d) PROVE Untouched(d)'
      OBVIOUS
  <2>1. UNCHANGED queue \/ \E j : queue' = Added(j) /\ (j[1] = "call" => j[2] # d)
    <3>1. CASE Defer(w)
      <4> DEFINE j == <<"call", Call(w), slot[w].job[3] + 1>>
      <4>1. Call(w) # d
            BY <1>3, <1>4, <3>1 DEF Untouched
      <4>2. queue' = Added(j) /\ j[2] # d
            BY <3>1, <4>1 DEF Defer
      <4>3. QED
            BY <4>2
    <3>2. CASE Arm(w)
      <4> DEFINE j == <<"check", Call(w), 1>>
      <4>1. queue' = Added(j) /\ j[1] # "call"
            BY <3>2 DEF Arm
      <4>2. QED
            BY <4>1
    <3>3. CASE Poll(w)
      <4> DEFINE j == <<"check", Call(w), slot[w].job[3] + 1>>
      <4>1. UNCHANGED queue \/ queue' = Added(j)
            BY <3>3 DEF Poll, Rearm
      <4>2. j[1] # "call"
            OBVIOUS
      <4>3. QED
            BY <4>1, <4>2
    <3>4. CASE ReadCall(w)
          BY <3>4 DEF ReadCall
    <3>5. QED
          BY <3>1, <3>2, <3>3, <3>4
  <2>2. \A n \in 0 .. MaxDefers : queue'[<<"call", d, n>>] = queue[<<"call", d, n>>]
        BY <2>1, AddedFor
  <2>3. \A v \in Workers : slot'[v].pc # "idle" => slot[v].pc # "idle"
        BY <1>2, <1>3
  <2>4. \A v \in Workers : slot'[v].job = slot[v].job
        BY <1>2
  <2>5. QED
        BY <1>0, <2>2, <2>3, <2>4 DEF Untouched, Call
<1>8. CASE UNCHANGED row /\ slot'[w].pc = "return"
  <2>1. \A v \in Workers : slot'[v].pc \in {"gates", "dial", "record", "poll"} =>
            slot'[v].pc = slot[v].pc /\ slot'[v].job = slot[v].job
        BY <1>2, <1>8
  <2>2. QED
        BY <1>0, <1>7, <1>8, <2>1, Calm DEF phoneVars
<1>9. CASE ReadCall(w) /\ slot'[w].pc = "poll"
  <2>1. row' = row /\ row[Call(w)].st = "in_progress"
        BY <1>1, <1>9, Turns DEF ReadCall
  <2>2. line[Call(w)] # "none"
        BY <1>6, <2>1 DEF CallInv, RingInv
  <2>3. RingInv(d)' /\ HoldInv(d)'
        BY <1>0, <2>1 DEF CallInv, RingInv, HoldInv, Holds
  <2>4. FreshInv(d)'
        BY <1>0, <1>7, <2>1 DEF CallInv, FreshInv, Holds
  <2>5. DialInv(d)'
    <3>1. \A v \in Workers : Dials(v, d)' => Dials(v, d) /\ slot'[v].pc = slot[v].pc
          BY <1>2, <1>9 DEF Dials, Call
    <3>2. QED
          BY <1>0, <1>2, <2>1, <2>2, <3>1 DEF CallInv, DialInv, Call
  <2>6. QED
        BY <2>3, <2>4, <2>5 DEF CallInv
<1>10. ASSUME Poll(w), NEW s \in {"completed", "failed"}, SetStatus(Call(w), s) PROVE CallInv(d)'
  <2>1. row'[Call(w)].st \in Over /\ \A e \in Calls : e # Call(w) => row'[e] = row[e]
        BY <1>6, <1>10 DEF SetStatus, RowOK, RowRecord, Over
  <2>2. slot[w].pc = "poll" /\ slot'[w].pc = "return"
        BY <1>10, Turns DEF Poll
  <2>3. d = Call(w) => line[d] # "none"
        BY <1>0, <2>2 DEF CallInv, DialInv
  <2>4. d = Call(w) => rings[d] > 0 /\ row[d].st \in {"in_progress"} \cup Over
        BY <1>0, <2>3 DEF CallInv, RingInv
  <2>5. d = Call(w) => ~Untouched(d)
        BY <2>4 DEF Untouched
  <2>6. d = Call(w) => (\A t \in Tasks : ~Holds(t, d)) /\ (\A v \in Workers : ~Dials(v, d))
        BY <1>0, <2>4, <2>5 DEF CallInv, FreshInv, DialInv, Over
  <2>7. \A v \in Workers : Dials(v, d)' => Dials(v, d) /\ slot'[v].pc = slot[v].pc
        BY <1>2, <2>2 DEF Dials, Call
  <2>8. \A v \in Workers : slot'[v].pc = "poll" /\ Call(v)' = d => slot[v].pc = "poll" /\ Call(v) = d
        BY <1>2, <2>2 DEF Call
  <2>9. CASE d # Call(w)
    <3>1. row'[d] = row[d]
          BY <2>1, <2>9
    <3>2. RingInv(d)' /\ HoldInv(d)'
          BY <1>0, <3>1 DEF CallInv, RingInv, HoldInv, Holds
    <3>3. FreshInv(d)'
          BY <1>0, <1>7, <3>1 DEF CallInv, FreshInv, Holds
    <3>4. DialInv(d)'
          BY <1>0, <2>7, <2>8, <3>1 DEF CallInv, DialInv
    <3>5. QED
          BY <3>2, <3>3, <3>4 DEF CallInv
  <2>10. CASE d = Call(w)
    <3>1. row'[d].st \in Over
          BY <2>1, <2>10
    <3>2. \A t \in Tasks : ~Holds(t, d)'
          BY <1>0, <2>6, <2>10 DEF Holds
    <3>3. RingInv(d)'
          BY <1>0, <2>4, <2>10, <3>1 DEF RingInv, Over
    <3>4. DialInv(d)'
          BY <1>0, <2>6, <2>7, <2>8, <2>10 DEF CallInv, DialInv
    <3>5. FreshInv(d)' /\ HoldInv(d)'
          BY <1>0, <3>1, <3>2 DEF CallInv, FreshInv, HoldInv, Over
    <3>6. QED
          BY <3>3, <3>4, <3>5 DEF CallInv
  <2>11. QED
         BY <2>9, <2>10
<1>11. QED
  <2>1. CASE Defer(w) \/ Arm(w)
        BY <2>1, <1>8, Turns DEF Defer, Arm
  <2>2. CASE ReadCall(w)
        BY <2>2, <1>3, <1>8, <1>9 DEF ReadCall
  <2>3. CASE Poll(w)
    <3>1. slot'[w].pc = "return"
          BY <2>3, Turns DEF Poll
    <3>2. UNCHANGED row \/ SetStatus(Call(w), "completed") \/ SetStatus(Call(w), "failed")
          BY <2>3 DEF Poll
    <3>3. QED
          BY <2>3, <3>1, <3>2, <1>8, <1>10
  <2>4. QED
        BY <2>1, <2>2, <2>3

LEMMA BookStep ==
    ASSUME Undisturbed
    PROVE  BookInv /\ [Next]_vars => BookInv'
<1> SUFFICES ASSUME BookInv, [Next]_vars PROVE BookInv'
    OBVIOUS
<1>1. TypeInv'
      BY TypeStep DEF BookInv
<1>2. ASSUME NEW d \in Calls PROVE CallInv(d)'
  <2>1. CASE UNCHANGED vars
    <3>1. CallInv(d) /\ UNCHANGED <<row, phoneVars, task, queue, slot>>
          BY <2>1 DEF BookInv, vars, workVars, taskVars
    <3>2. Untouched(d) => Untouched(d)'
          BY <3>1 DEF Untouched, Call, phoneVars
    <3>3. QED
          BY <3>1, <3>2, Calm
  <2>2. CASE \E t \in Tasks : Booking(t) \/ ScheduleAutoCalls(t) \/ TriggerManualCall(t)
        BY <2>2, BookStepOfRequests
  <2>3. CASE \/ \E t \in Tasks, c \in Calls : InitiationFailure(t, c)
             \/ \E c \in Calls : CancelCall(c) \/ Ends(c) \/ Transcription(c)
        BY <2>3, BookStepOfProvider
  <2>4. CASE \E w \in Workers : Run(w)
        BY <2>4, BookStepOfWorker, BookStepOfJobs, BookStepOfQueue DEF Run
  <2>5. CASE \/ \E w \in Workers : LockExpires(w)
             \/ \E w \in Workers, j \in Jobs : Take(w, j)
             \/ \E j \in Jobs : StalledCheck(j)
             \/ WorkerCrash
        BY <2>5, BookStepOfQueue
  <2>6. QED
        BY <2>1, <2>2, <2>3, <2>4, <2>5 DEF Next
<1>3. QED
      BY <1>1, <1>2 DEF BookInv

\* How a step may change the row of call c, the phone of which has or has not rung.
LegalMove(c) ==
    LET s == row[c].st
        t == row'[c].st
    IN
    \/ s = "none" /\ t = "scheduled"
    \/ s = "unqueued" /\ t = "scheduled"
    \/ s = "scheduled" /\ t \in {"calling", "canceled", "unqueued"}
    \/ s = "calling" /\ rings[c] = 0 /\ t \in {"scheduled"} \cup Over
    \/ s = "canceled" /\ rings[c] = 0 /\ t = "unqueued"
    \/ s = "calling" /\ rings[c] > 0 /\ t = "in_progress"
    \/ s \in {"in_progress"} \cup Over /\ t \in Over

Moves(c) == UNCHANGED rings /\ LegalMove(c) /\ \A e \in Calls : e # c => row'[e] = row[e]
Rings(c) == /\ UNCHANGED row /\ row[c].st = "calling" /\ rings[c] = 0
            /\ \E n \in Nat \ {0} : rings' = [rings EXCEPT ![c] = n]

BookStepShape == \/ UNCHANGED <<row, rings>>
                 \/ \E c \in Calls : Moves(c) \/ Rings(c)

\* Every step leaves row and phone alone, moves one row legally, or rings one phone for the
\* first time.
LEMMA StepOfOneCall ==
    ASSUME Undisturbed, BookInv, [Next]_vars
    PROVE  BookStepShape
<1> USE DEF BookInv, TypeInv, TypeOK, Undisturbed
<1>r. \A t \in Tasks : ~Resume(t)
      BY DEF Resume, TasksKnow, TaskKnows
<1>1. ASSUME NEW c \in Calls, NEW s \in Status, SetStatus(c, s)
      PROVE  row'[c].st = s /\ \A e \in Calls : e # c => row'[e] = row[e]
      BY <1>1 DEF SetStatus, RowOK, RowRecord
<1>s. {"calling", "in_progress", "scheduled", "canceled", "unqueued"} \cup Over \subseteq Status
      BY DEF Status, Over
<1>2. ASSUME NEW t \in Tasks, CreateCall(t) PROVE BookStepShape
  <2>1. UNCHANGED rings
        BY <1>2 DEF CreateCall, phoneVars
  <2>2. ASSUME NEW c \in Calls, NextRow(c),
               row' = [row EXCEPT ![c] = [st |-> "scheduled", attempt |-> task[t].attempt,
                                          key |-> task[t].key]]
        PROVE  Moves(c)
        BY <2>1, <2>2 DEF Moves, LegalMove, NextRow, NoRow, RowOK
  <2>3. ASSUME NEW c \in Calls, row[c].st = "unqueued", SetStatus(c, "scheduled")
        PROVE  Moves(c)
        BY <2>1, <2>3, <1>1, <1>s DEF Moves, LegalMove
  <2>4. QED
        BY <1>2, <2>1, <2>2, <2>3 DEF CreateCall, BookStepShape, Holders
<1>3. ASSUME NEW t \in Tasks, RollBack(t) PROVE BookStepShape
  <2>1. PICK c \in Calls : c = task[t].c
        BY <1>3 DEF RollBack, TasksKnow, TaskKnows
  <2>2. SetStatus(c, "unqueued") /\ UNCHANGED rings
        BY <1>3, <2>1 DEF RollBack, phoneVars
  <2>3. Holds(t, c) /\ CallInv(c)
        BY <1>3, <2>1 DEF RollBack, Holds
  <2>4. row[c].st \in {"scheduled", "canceled"} /\ rings[c] = 0
        BY <2>3 DEF CallInv, HoldInv, FreshInv, Untouched
  <2>5. Moves(c)
        BY <2>2, <2>4, <1>1, <1>s DEF Moves, LegalMove
  <2>6. QED
        BY <2>5 DEF BookStepShape
<1>4. ASSUME NEW t \in Tasks, WriteFailure(t) PROVE BookStepShape
  <2>1. PICK c \in Calls : c = task[t].c
        BY <1>4 DEF WriteFailure, TasksKnow, TaskKnows
  <2>2. /\ SetStatus(c, "no_answer") \/ SetStatus(c, "failed")
        /\ UNCHANGED rings
        BY <1>4, <2>1 DEF WriteFailure, phoneVars
  <2>3. CallInv(c) /\ line[c] # "none"
        BY <1>4, <2>1 DEF WriteFailure, CallInv, HoldInv
  <2>4. row[c].st \in {"in_progress"} \cup Over
        BY <2>3 DEF CallInv, RingInv
  <2>5. row'[c].st \in Over /\ \A e \in Calls : e # c => row'[e] = row[e]
        BY <2>2, <1>1 DEF Over, Status
  <2>6. Moves(c)
        BY <2>2, <2>4, <2>5 DEF Moves, LegalMove
  <2>7. QED
        BY <2>6 DEF BookStepShape
<1>5. ASSUME NEW c \in Calls, CancelCall(c) PROVE BookStepShape
  <2>1. Moves(c)
        BY <1>5, <1>1, <1>s DEF CancelCall, phoneVars, Moves, LegalMove
  <2>2. QED
        BY <2>1 DEF BookStepShape
<1>6. ASSUME NEW c \in Calls, Transcription(c) PROVE BookStepShape
  <2>1. CallInv(c) /\ line[c] # "none" /\ SetStatus(c, "completed") /\ UNCHANGED rings
        BY <1>6 DEF Transcription
  <2>2. row[c].st \in {"in_progress"} \cup Over
        BY <2>1 DEF CallInv, RingInv
  <2>3. row'[c].st \in Over /\ \A e \in Calls : e # c => row'[e] = row[e]
        BY <2>1, <1>1 DEF Over, Status
  <2>4. Moves(c)
        BY <2>1, <2>2, <2>3 DEF Moves, LegalMove
  <2>5. QED
        BY <2>4 DEF BookStepShape
<1>7. ASSUME NEW w \in Workers, Run(w) PROVE BookStepShape
  <2>1. CASE Defer(w) \/ Arm(w) \/ ReadCall(w) \/ JobReturns(w) \/ JobThrows(w)
        BY <2>1 DEF Defer, Arm, ReadCall, JobReturns, JobThrows, phoneVars, BookStepShape
  <2>2. CASE Claim(w) \/ CheckGates(w) \/ Dial(w) \/ DialBlocked(w) \/ DialFails(w) \/ Record(w)
                \/ Poll(w)
    <3>1. slot[w].job \in CallJobs \cup CheckJobs
          BY <2>2 DEF Claim, CheckGates, Dial, DialBlocked, DialFails, Record, Poll,
                      SlotsKnow, SlotKnows, DialPhases
    <3>2. PICK c \in Calls : c = Call(w)
          BY <3>1, CallJobParts, CheckJobParts DEF Call
    <3>3. CallInv(c)
          OBVIOUS
    <3>4. Dials(w, c) => row[c].st = "calling" /\ (rings[c] > 0 <=> slot[w].pc = "record")
          BY <3>3 DEF CallInv, DialInv
    <3>5. CASE Claim(w)
      <4>1. UNCHANGED rings
            BY <3>5 DEF Claim, phoneVars
      <4>2. CASE row[c].st = "scheduled" /\ SetStatus(c, "calling")
            BY <4>1, <4>2, <1>1, <1>s DEF Moves, LegalMove, BookStepShape
      <4>3. QED
            BY <3>2, <3>5, <4>1, <4>2 DEF Claim, BookStepShape
    <3>6. CASE CheckGates(w) \/ DialBlocked(w) \/ DialFails(w)
      <4>1. row[c].st = "calling" /\ rings[c] = 0
        <5>1. Dials(w, c) /\ slot[w].pc # "record"
              BY <3>2, <3>6 DEF CheckGates, DialBlocked, DialFails, Dials
        <5>2. QED
              BY <3>4, <5>1 DEF PhoneOK
      <4>2. UNCHANGED rings
            BY <3>6 DEF CheckGates, DialBlocked, DialFails, phoneVars
      <4>3. (row'= [row EXCEPT ![c].st = IF @ = "calling" THEN "scheduled" ELSE @])
              => SetStatus(c, "scheduled")
            BY <4>1 DEF SetStatus, RowOK
      <4>4. \/ UNCHANGED row
            \/ \E s \in {"scheduled"} \cup Over : SetStatus(c, s)
        <5>1. CASE CheckGates(w)
              BY <5>1, <3>2 DEF CheckGates, Over
        <5>2. CASE DialBlocked(w)
              BY <5>2, <3>2 DEF DialBlocked, Over
        <5>3. CASE DialFails(w)
              BY <5>3, <3>2, <4>3 DEF DialFails, Over
        <5>4. QED
              BY <3>6, <5>1, <5>2, <5>3
      <4>5. ASSUME NEW s \in {"scheduled"} \cup Over, SetStatus(c, s) PROVE Moves(c)
            BY <4>1, <4>2, <4>5, <1>1, <1>s DEF Moves, LegalMove
      <4>6. QED
            BY <4>2, <4>4, <4>5 DEF BookStepShape
    <3>7. CASE Dial(w)
      <4>1. row[c].st = "calling" /\ rings[c] = 0
        <5>1. Dials(w, c) /\ slot[w].pc # "record"
              BY <3>2, <3>7 DEF Dial, Dials
        <5>2. QED
              BY <3>4, <5>1 DEF PhoneOK
      <4>2. rings' = [rings EXCEPT ![c] = 1] /\ UNCHANGED row
            BY <3>2, <3>7, <4>1 DEF Dial, PhoneOK
      <4>3. 1 \in Nat \ {0}
            OBVIOUS
      <4>4. Rings(c)
            BY <4>1, <4>2, <4>3, Zenon DEF Rings
      <4>5. QED
            BY <4>4 DEF BookStepShape
    <3>8. CASE Record(w)
      <4>1. row[c].st = "calling" /\ rings[c] > 0
            BY <3>2, <3>4, <3>8 DEF Record, Dials
      <4>2. Moves(c)
            BY <3>2, <3>8, <4>1, <1>1, <1>s DEF Record, Moves, LegalMove
      <4>3. QED
            BY <4>2 DEF BookStepShape
    <3>9. CASE Poll(w)
      <4>1. UNCHANGED rings /\ line[c] # "none"
            BY <3>2, <3>3, <3>9 DEF Poll, phoneVars, CallInv, DialInv
      <4>2. row[c].st \in {"in_progress"} \cup Over
            BY <3>3, <4>1 DEF CallInv, RingInv
      <4>3. UNCHANGED row \/ \E s \in Over : SetStatus(c, s)
            BY <3>2, <3>9 DEF Poll, Rearm, Over
      <4>4. ASSUME NEW s \in Over, SetStatus(c, s) PROVE Moves(c)
            BY <4>1, <4>2, <4>4, <1>1, <1>s DEF Moves, LegalMove
      <4>5. QED
            BY <4>1, <4>3, <4>4 DEF BookStepShape
    <3>10. QED
           BY <2>2, <3>5, <3>6, <3>7, <3>8, <3>9
  <2>3. QED
        BY <1>7, <2>1, <2>2 DEF Run
<1>8. CASE \/ UNCHANGED vars
           \/ \E t \in Tasks : AddCall(t) \/ ScheduleAutoCalls(t) \/ TriggerManualCall(t)
           \/ \E t \in Tasks, c \in Calls : InitiationFailure(t, c)
           \/ \E c \in Calls : Ends(c)
           \/ \E w \in Workers : LockExpires(w)
           \/ \E w \in Workers, j \in Jobs : Take(w, j)
           \/ \E j \in Jobs : StalledCheck(j)
           \/ WorkerCrash
      BY <1>8 DEF vars, AddCall, ScheduleAutoCalls, TriggerManualCall, Start, InitiationFailure,
                  Ends, LockExpires, Take, StalledCheck, WorkerCrash, phoneVars, BookStepShape
<1>9. QED
      BY <1>2, <1>3, <1>4, <1>5, <1>6, <1>7, <1>8, <1>r DEF Next, Booking

LEMMA PhaseFacts ==
    /\ PhaseOf("none") = "none"
    /\ PhaseOf("scheduled") = "booked" /\ PhaseOf("unqueued") = "booked"
    /\ PhaseOf("calling") = "dialling" /\ PhaseOf("in_progress") = "live"
    /\ \A s \in Over : PhaseOf(s) = "over"
BY DEF PhaseOf, Over

LEMMA FlagRaised ==
    ASSUME NEW S, NEW f \in [S -> BOOLEAN], NEW g \in [S -> BOOLEAN], NEW c \in S,
           \A e \in S : g[e] <=> (e = c \/ f[e])
    PROVE  g = [f EXCEPT ![c] = TRUE]
OBVIOUS

\* As long as Redis does not lose the reply to a booking, no two requests re-arm one row at
\* once, and the provider does not place a call that dialling reports as failed, any number of bookings, worker slots, webhooks and
\* watchdog checks keeps the book: the phone rings once per call, an ended call stays ended.
THEOREM ImplementsBook ==
    ASSUME Undisturbed
    PROVE  Spec => KeepsBook
<1>1. Init => Book!Init
  <2> SUFFICES ASSUME Init PROVE Book!Init
      OBVIOUS
  <2>1. \A c \in Calls : PhaseOf(row[c].st) = "none"
        BY PhaseFacts DEF Init, NoRow
  <2>2. \A c \in Calls : (rings[c] > 0) = FALSE
        BY DEF Init
  <2>3. [c \in Calls |-> rings[c] > 0] = [c \in Calls |-> FALSE]
        BY <2>2, Zenon
  <2>4. QED
        BY <2>1, <2>3 DEF Book!Init
<1>2. BookInv /\ [Next]_vars => [Book!Next]_(Book!book)
  <2> SUFFICES ASSUME BookInv, [Next]_vars
               PROVE  Book!Next \/ UNCHANGED Book!book
      OBVIOUS
  <2> DEFINE phase == [c \in Calls |-> PhaseOf(row[c].st)]
             rang == [c \in Calls |-> rings[c] > 0]
  <2>0. RowOK /\ PhoneOK
        BY DEF BookInv, TypeInv, TypeOK
  <2>1. BookStepShape
        BY StepOfOneCall
  <2>2. CASE UNCHANGED <<row, rings>>
        BY <2>2 DEF Book!book
  <2>3. ASSUME NEW c \in Calls, Rings(c) PROVE Book!Next
    <3>0. row' = row /\ row[c].st = "calling" /\ ~(rings[c] > 0)
          BY <2>3 DEF Rings
    <3>1. UNCHANGED phase /\ phase[c] = "dialling" /\ ~rang[c]
      <4>1. UNCHANGED phase /\ phase[c] = "dialling"
            BY <3>0, PhaseFacts
      <4>2. ~rang[c]
            BY <3>0, Zenon
      <4>3. QED
            BY <4>1, <4>2
    <3>2. rang' = [rang EXCEPT ![c] = TRUE]
      <4>1. PICK n \in Nat \ {0} : rings' = [rings EXCEPT ![c] = n]
            BY <2>3 DEF Rings
      <4>2. \A e \in Calls : rings'[e] = IF e = c THEN n ELSE rings[e]
            BY <2>0, <4>1 DEF PhoneOK
      <4>3. \A e \in Calls : (rings'[e] > 0) <=> (e = c \/ rings[e] > 0)
            BY <4>2
      <4>4. rang \in [Calls -> BOOLEAN] /\ rang' \in [Calls -> BOOLEAN]
            OBVIOUS
      <4>5. \A e \in Calls : rang'[e] <=> (e = c \/ rang[e])
            BY <4>3, Zenon
      <4> HIDE DEF rang
      <4>6. QED
            BY <4>4, <4>5, FlagRaised
    <3>3. Book!Ring(c)
          BY <3>1, <3>2 DEF Book!Ring
    <3>4. QED
          BY <3>3 DEF Book!Next
  <2>4. ASSUME NEW c \in Calls, Moves(c) PROVE Book!Next \/ UNCHANGED Book!book
    <3> DEFINE s == row[c].st
               t == row'[c].st
    <3>1. UNCHANGED rang /\ LegalMove(c) /\ (rang[c] <=> rings[c] > 0)
          BY <2>4 DEF Moves
    <3>2. phase' = [phase EXCEPT ![c] = PhaseOf(t)]
          BY <2>4 DEF Moves
    <3>3. ASSUME NEW from, NEW to, PhaseOf(s) = from, PhaseOf(t) = to
          PROVE  Book!Move(c, from, to)
          BY <3>2, <3>3 DEF Book!Move
    <3>4. CASE PhaseOf(t) = PhaseOf(s)
      <4>1. phase' = phase
            BY <3>2, <3>4
      <4>2. QED
            BY <3>1, <4>1 DEF Book!book
    <3>5. CASE s = "none" /\ t = "scheduled"
          BY <3>1, <3>3, <3>5, PhaseFacts DEF Book!Next, Book!Book
    <3>6. CASE s = "scheduled" /\ t \in {"calling", "canceled", "unqueued"}
          BY <3>1, <3>3, <3>4, <3>6, PhaseFacts
          DEF Book!Next, Book!Dial, Book!End, Over
    <3>7. CASE s = "calling" /\ rings[c] = 0 /\ t \in {"scheduled"} \cup Over
          BY <3>1, <3>3, <3>7, PhaseFacts DEF Book!Next, Book!PutBack, Book!End
    <3>8. CASE s = "canceled" /\ rings[c] = 0 /\ t = "unqueued"
          BY <3>1, <3>3, <3>8, PhaseFacts DEF Book!Next, Book!PutBack, Over
    <3>9. CASE s = "calling" /\ rings[c] > 0 /\ t = "in_progress"
          BY <3>1, <3>3, <3>9, PhaseFacts DEF Book!Next, Book!Connect
    <3>10. CASE s \in {"in_progress"} \cup Over /\ t \in Over
           BY <3>1, <3>3, <3>4, <3>10, PhaseFacts DEF Book!Next, Book!End
    <3>11. QED
           BY <3>1, <3>4, <3>5, <3>6, <3>7, <3>8, <3>9, <3>10, PhaseFacts DEF LegalMove
  <2>5. QED
        BY <2>1, <2>2, <2>3, <2>4 DEF BookStepShape
<1>3. QED
      BY <1>1, <1>2, BookInit, BookStep, PTL DEF Spec, KeepsBook, Book!Spec

------------------------------------------------------------------------------
(* Retries follow calls that were not answered.                              *)

\* Call c was not answered, its outcome is written, and n is the attempt after it.
Unanswered(c, n) ==
    line[c] = "busy" /\ row[c].st \in {"no_answer", "failed"} /\ n = row[c].attempt + 1

RetryInv ==
    \A c \in Calls :
        /\ \A d \in Calls : row[d].key = c => Unanswered(c, row[d].attempt)
        /\ \A t \in Tasks : task[t].pc = "create" /\ task[t].key = c => Unanswered(c, task[t].attempt)

LEMMA RetryInit == Init => RetryInv
BY NoneIsNoCall DEF Init, RetryInv, NoRow, IdleTask

\* Whatever happens, a call that was not answered stays that way.
LEMMA UnansweredStays ==
    ASSUME Undisturbed, BookInv, [Next]_vars,
           NEW c \in Calls, NEW n, Unanswered(c, n)
    PROVE  Unanswered(c, n)'
<1> USE DEF BookInv, TypeInv, TypeOK, Undisturbed
<1>r. \A t \in Tasks : ~Resume(t)
      BY DEF Resume, TasksKnow, TaskKnows
<1>0. CallInv(c) /\ rings[c] > 0 /\ line[c] = "busy" /\ row[c].st \in {"no_answer", "failed"}
      BY DEF CallInv, RingInv, Unanswered
<1>1. \A w \in Workers : ~Dials(w, c)
      BY <1>0 DEF CallInv, DialInv
<1>2. \A t \in Tasks : ~Holds(t, c)
      BY <1>0 DEF CallInv, FreshInv, Untouched
<1>3. row'[c] = row[c] /\ line'[c] = line[c] => Unanswered(c, n)'
      BY DEF Unanswered
<1>4. ASSUME NEW e \in Calls, NEW s, SetStatus(e, s), e = c => s \in {"no_answer", "failed"},
             UNCHANGED line
      PROVE  Unanswered(c, n)'
      BY <1>4 DEF Unanswered, SetStatus, RowOK, RowRecord
<1>5. CASE UNCHANGED vars
      BY <1>3, <1>5 DEF vars, phoneVars
<1>6. ASSUME NEW t \in Tasks, CreateCall(t) PROVE Unanswered(c, n)'
  <2>1. UNCHANGED line
        BY <1>6 DEF CreateCall, phoneVars
  <2>2. ASSUME NEW e \in Calls, NextRow(e),
               row' = [row EXCEPT ![e] = [st |-> "scheduled", attempt |-> task[t].attempt,
                                          key |-> task[t].key]]
        PROVE  Unanswered(c, n)'
        BY <1>0, <1>3, <2>1, <2>2 DEF NextRow, NoRow, RowOK
  <2>3. ASSUME NEW e \in Calls, row[e].st = "unqueued", SetStatus(e, "scheduled")
        PROVE  Unanswered(c, n)'
        BY <1>0, <1>4, <2>1, <2>3
  <2>4. QED
        BY <1>3, <1>6, <2>1, <2>2, <2>3 DEF CreateCall, Holders
<1>7. ASSUME NEW t \in Tasks, RollBack(t) PROVE Unanswered(c, n)'
  <2>1. PICK e \in Calls : e = task[t].c
        BY <1>7 DEF RollBack, TasksKnow, TaskKnows
  <2>2. Holds(t, e) /\ SetStatus(e, "unqueued") /\ UNCHANGED line
        BY <1>7, <2>1 DEF RollBack, Holds, phoneVars
  <2>3. QED
        BY <1>2, <1>4, <2>2
<1>8. ASSUME NEW t \in Tasks, WriteFailure(t) PROVE Unanswered(c, n)'
  <2>1. PICK e \in Calls : e = task[t].c
        BY <1>8 DEF WriteFailure, TasksKnow, TaskKnows
  <2>2. UNCHANGED line /\ SetStatus(e, IF line[e] = "busy" THEN "no_answer" ELSE "failed")
        BY <1>8, <2>1 DEF WriteFailure, phoneVars
  <2>3. QED
        BY <1>4, <2>2
<1>9. ASSUME NEW e \in Calls, CancelCall(e) \/ Transcription(e) PROVE Unanswered(c, n)'
      BY <1>0, <1>4, <1>9 DEF CancelCall, Transcription, phoneVars
<1>10. ASSUME NEW e \in Calls, Ends(e) PROVE Unanswered(c, n)'
       BY <1>0, <1>3, <1>10 DEF Ends, PhoneOK
<1>11. ASSUME NEW w \in Workers, Run(w) PROVE Unanswered(c, n)'
  <2>1. CASE Defer(w) \/ Arm(w) \/ ReadCall(w) \/ JobReturns(w) \/ JobThrows(w) \/ Dial(w)
        BY <1>3, <2>1 DEF Defer, Arm, ReadCall, JobReturns, JobThrows, Dial, phoneVars
  <2>2. CASE Claim(w) \/ CheckGates(w) \/ DialBlocked(w) \/ DialFails(w) \/ Record(w) \/ Poll(w)
    <3>1. slot[w].job \in CallJobs \cup CheckJobs
          BY <2>2 DEF Claim, CheckGates, DialBlocked, DialFails, Record, Poll,
                      SlotsKnow, SlotKnows, DialPhases
    <3>2. PICK e \in Calls : e = Call(w)
          BY <3>1, CallJobParts, CheckJobParts DEF Call
    <3>3. CASE Claim(w)
          BY <1>0, <1>3, <1>4, <3>2, <3>3 DEF Claim, phoneVars
    <3>4. CASE CheckGates(w) \/ DialBlocked(w) \/ DialFails(w) \/ Record(w)
      <4>1. Dials(w, e)
            BY <3>2, <3>4 DEF CheckGates, DialBlocked, DialFails, Record, Dials
      <4>2. e # c
            BY <1>1, <4>1
      <4>3. row'[c] = row[c] /\ line'[c] = line[c]
            BY <3>2, <3>4, <4>2
            DEF CheckGates, DialBlocked, DialFails, Record, SetStatus, phoneVars, RowOK, PhoneOK
      <4>4. QED
            BY <1>3, <4>3
    <3>5. CASE Poll(w)
      <4>1. UNCHANGED line
            BY <3>5 DEF Poll, phoneVars
      <4>2. \/ UNCHANGED row
            \/ SetStatus(e, "failed")
            \/ SetStatus(e, "completed") /\ line[e] = "done"
            BY <3>2, <3>5 DEF Poll, Rearm
      <4>3. QED
            BY <1>0, <1>3, <1>4, <4>1, <4>2
    <3>6. QED
          BY <2>2, <3>3, <3>4, <3>5
  <2>3. QED
        BY <1>11, <2>1, <2>2 DEF Run
<1>12. CASE \/ \E t \in Tasks : AddCall(t) \/ ScheduleAutoCalls(t) \/ TriggerManualCall(t)
            \/ \E t \in Tasks, e \in Calls : InitiationFailure(t, e)
            \/ \E w \in Workers : LockExpires(w)
            \/ \E w \in Workers, j \in Jobs : Take(w, j)
            \/ \E j \in Jobs : StalledCheck(j)
            \/ WorkerCrash
       BY <1>3, <1>12 DEF AddCall, ScheduleAutoCalls, TriggerManualCall, Start,
                InitiationFailure, LockExpires, Take, StalledCheck, WorkerCrash, phoneVars
<1>13. QED
       BY <1>5, <1>6, <1>7, <1>8, <1>9, <1>10, <1>11, <1>12, <1>r DEF Next, Booking

\* A row with a key for a call was there before, or is what a request was about to insert.
LEMMA RowsWithKeys ==
    ASSUME TypeInv, [Next]_vars, NEW c \in Calls, NEW d \in Calls, row'[d].key = c
    PROVE  \/ row[d].key = c /\ row'[d].attempt = row[d].attempt
           \/ \E t \in Tasks : /\ task[t].pc = "create" /\ task[t].key = c
                               /\ task[t].attempt = row'[d].attempt
<1> USE DEF TypeInv, TypeOK
<1>1. CASE KeysStay
      BY <1>1 DEF KeysStay
<1>2. ASSUME NEW t \in Tasks, CreateCall(t)
      PROVE  KeysStay \/ (/\ task[t].pc = "create" /\ task[t].key = c
                          /\ task[t].attempt = row'[d].attempt)
                      \/ (row[d].key = c /\ row'[d].attempt = row[d].attempt)
  <2>1. ASSUME NEW e \in Calls,
               row' = [row EXCEPT ![e] = [st |-> "scheduled", attempt |-> task[t].attempt,
                                          key |-> task[t].key]]
        PROVE  IF d = e THEN task[t].key = c /\ task[t].attempt = row'[d].attempt
                        ELSE row[d].key = c /\ row'[d].attempt = row[d].attempt
        BY <2>1 DEF RowOK
  <2>2. UNCHANGED row => KeysStay
        BY DEF KeysStay
  <2>3. QED
        BY <1>2, <2>1, <2>2, StatusKeepsKeys DEF CreateCall, Holders
<1>3. ASSUME NEW t \in Tasks, Resume(t) \/ RollBack(t) \/ WriteFailure(t) PROVE KeysStay
      BY <1>3, StatusKeepsKeys DEF Resume, RollBack, WriteFailure
<1>4. CASE \/ UNCHANGED vars
           \/ \E t \in Tasks : AddCall(t) \/ ScheduleAutoCalls(t) \/ TriggerManualCall(t)
           \/ \E t \in Tasks, e \in Calls : InitiationFailure(t, e)
      BY <1>4 DEF vars, AddCall, ScheduleAutoCalls, TriggerManualCall, Start, InitiationFailure,
                  KeysStay
<1>5. QED
      BY <1>1, <1>2, <1>3, <1>4, OthersKeepKeys DEF Next, Booking

\* A request about to insert a retry was about to do so before, or has just closed its call.
LEMMA TasksWithKeys ==
    ASSUME TypeInv, [Next]_vars, NEW c \in Calls, NEW t \in Tasks,
           task'[t].pc = "create", task'[t].key = c
    PROVE  \/ task[t] = task'[t]
           \/ Unanswered(c, task[t].attempt)'
<1> USE DEF TypeInv, TypeOK
<1>0. c # None /\ c # AutoKey /\ IdleTask.pc = "idle"
      BY NoneIsNoCall, BoundsAssumption DEF Calls, AutoKey, IdleTask
<1>1. CASE UNCHANGED task
      BY <1>1
<1>2. ASSUME NEW u \in Tasks, NEW x, task' = [task EXCEPT ![u] = x],
             x.pc = "create" => x.key # c \/ u # t
      PROVE  task[t] = task'[t]
      BY <1>2 DEF TaskOK
<1>3. ASSUME NEW u \in Tasks, ScheduleAutoCalls(u) \/ TriggerManualCall(u) PROVE task[t] = task'[t]
      BY <1>0, <1>3 DEF ScheduleAutoCalls, TriggerManualCall, Start, TaskOK
<1>4. ASSUME NEW u \in Tasks, CreateCall(u) \/ Resume(u) \/ AddCall(u) \/ RollBack(u)
      PROVE  task[t] = task'[t]
  <2>1. \/ task' = [task EXCEPT ![u] = IdleTask]
        \/ \E pc \in {"add", "rollback"} : task' = [task EXCEPT ![u].pc = pc]
        \/ \E e : \E pc \in {"resume", "add"} : task' = [task EXCEPT ![u].pc = pc, ![u].c = e]
        BY <1>4 DEF CreateCall, Resume, AddCall, RollBack
  <2>2. QED
        BY <1>0, <2>1 DEF TaskOK, TaskRecord
<1>5. ASSUME NEW u \in Tasks, NEW e \in Calls, InitiationFailure(u, e) PROVE task[t] = task'[t]
      BY <1>5 DEF InitiationFailure, IdleTask, TaskOK
<1>6. ASSUME NEW u \in Tasks, WriteFailure(u)
      PROVE  task[t] = task'[t] \/ Unanswered(c, task[t].attempt)'
  <2>1. PICK e \in Calls : e = task[u].c
        BY <1>6 DEF WriteFailure, TasksKnow, TaskKnows
  <2>2. CASE task' = [task EXCEPT ![u] = IdleTask]
        BY <1>0, <2>2 DEF TaskOK
  <2>3. CASE line[e] = "busy" /\ NextAttempt(u, e, row[e].attempt + 1)
    <3>1. line' = line /\ SetStatus(e, "no_answer")
          BY <1>6, <2>1, <2>3 DEF WriteFailure, phoneVars
    <3>2. row'[e].st = "no_answer" /\ row'[e].attempt = row[e].attempt
          BY <3>1 DEF SetStatus, RowOK, RowRecord
    <3>3. u # t => task'[t] = task[t]
          BY <2>3 DEF NextAttempt, TaskOK
    <3>4. u = t => e = c /\ task'[t].attempt = row[e].attempt + 1
          BY <2>3 DEF NextAttempt, TaskOK
    <3>5. QED
          BY <2>3, <3>1, <3>2, <3>3, <3>4 DEF Unanswered
  <2>4. QED
        BY <1>6, <2>1, <2>2, <2>3 DEF WriteFailure
<1>7. CASE UNCHANGED vars
      BY <1>1, <1>7 DEF vars, taskVars
<1>8. QED
      BY <1>1, <1>3, <1>4, <1>5, <1>6, <1>7, OthersKeepKeys DEF Next, Booking

LEMMA RetryStep ==
    ASSUME Undisturbed
    PROVE  BookInv /\ RetryInv /\ [Next]_vars => RetryInv'
<1> SUFFICES ASSUME BookInv, RetryInv, [Next]_vars, NEW c \in Calls
             PROVE  /\ \A d \in Calls : row'[d].key = c => Unanswered(c, row[d].attempt)'
                    /\ \A t \in Tasks : task'[t].pc = "create" /\ task'[t].key = c
                                            => Unanswered(c, task[t].attempt)'
    BY DEF RetryInv
<1> USE DEF BookInv
<1>1. ASSUME NEW d \in Calls, row'[d].key = c PROVE Unanswered(c, row[d].attempt)'
  <2>1. PICK n : n = row'[d].attempt
        OBVIOUS
  <2>2. Unanswered(c, n)
        BY <1>1, <2>1, RowsWithKeys DEF RetryInv, Unanswered
  <2>3. Unanswered(c, n)'
        BY <2>2, UnansweredStays
  <2>4. QED
        BY <2>1, <2>3 DEF Unanswered
<1>2. ASSUME NEW t \in Tasks, task'[t].pc = "create", task'[t].key = c
      PROVE  Unanswered(c, task[t].attempt)'
  <2>1. PICK n : n = task'[t].attempt
        OBVIOUS
  <2>2. CASE task[t] = task'[t]
    <3>1. Unanswered(c, n)
          BY <1>2, <2>1, <2>2 DEF RetryInv, Unanswered
    <3>2. Unanswered(c, n)'
          BY <3>1, UnansweredStays
    <3>3. QED
          BY <2>1, <3>2 DEF Unanswered
  <2>3. QED
        BY <1>2, <2>2, TasksWithKeys
<1>3. QED
      BY <1>1, <1>2

\* Under the same conditions a retry is only ever booked for a call that nobody answered,
\* and neither a late transcript nor the watchdog makes an answered call of it afterwards.
THEOREM RetriesFollowNoAnswer ==
    ASSUME Undisturbed
    PROVE  Spec => []RetryAfterNoAnswer
<1>1. RetryInv => RetryAfterNoAnswer
      BY DEF RetryInv, RetryAfterNoAnswer, Unanswered
<1>2. QED
      BY <1>1, BookInit, BookStep, RetryInit, RetryStep, PTL DEF Spec
=============================================================================
