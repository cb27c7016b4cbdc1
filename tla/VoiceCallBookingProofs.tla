----------------------- MODULE VoiceCallBookingProofs -----------------------
(***************************************************************************)
(* No booked call is forgotten.  Nothing rescans rows that say             *)
(* "scheduled", and such a row blocks every later call, so each of them    *)
(* must have a job, or a booking that is about to queue one.  This module  *)
(* shows that every step keeps it so, with one worker slot and as long as  *)
(* no job loses its lock more often than BullMQ re-runs it; and that a     *)
(* call in progress, once watched by a check, stays watched.               *)
(***************************************************************************)
EXTENDS VoiceCallProofs

\* The voice-call worker sets no concurrency: it runs one job at a time.
SingleSlot == \A v, w \in Workers : v = w

\* Locks are lost no more often than a job may stall.
Attended == MaxStops <= MaxStalled

Unheld(j) == queue[j].st = "active" /\ \A w \in Workers : ~(slot[w].job = j /\ slot[w].locked)

\* A job stalls only after an expired lock or a crash, and once for each.
StallInv == \A j \in Jobs : /\ queue[j].stalls <= stops
                            /\ Unheld(j) => queue[j].stalls < stops

\* The job for the latest business window a call was put off to is not finished.
Latest(c, n) ==
    /\ Live(<<"call", c, n>>)
    /\ \A m \in 0 .. MaxDefers : m > n => queue[<<"call", c, m>>].st = "none"
Queued(c) == \E n \in 0 .. MaxDefers : Latest(c, n)

\* A call that waits to be dialled, or that the slot dialling it may still put back.
Dialling(w, c) == slot[w].pc \in {"gates", "dial"} /\ Call(w) = c
Due(c) == \/ row[c].st = "scheduled" /\ \A t \in Tasks : ~Holds(t, c)
          \/ \E w \in Workers : Dialling(w, c)
DueInv == \A c \in Calls : Due(c) => Queued(c)

WatchedWithout(c, j) ==
    \E n \in 1 .. MaxChecks : <<"check", c, n>> # j /\ Live(<<"check", c, n>>)

\* A job about to end leaves its call to a later job, if it is still to be dialled, and to
\* another check, if it is in progress.
Leaves(w) ==
    /\ slot[w].pc = "idle" => slot[w] = Free
    /\ slot[w].pc = "arm" => row[Call(w)].st # "scheduled"
    /\ slot[w].pc = "defer" => slot[w].job[3] < MaxDefers
    /\ slot[w].pc = "throw" =>
        slot[w].job \in CallJobs /\ (row[Call(w)].st = "scheduled" => ~LastAttempt(slot[w].job))
    /\ slot[w].pc = "return" /\ slot[w].job \in CallJobs /\ row[Call(w)].st = "scheduled" =>
        \E n \in 0 .. MaxDefers : n > slot[w].job[3] /\ Latest(Call(w), n)
    /\ slot[w].pc = "return" /\ slot[w].job \in CheckJobs /\ row[Call(w)].st = "in_progress" =>
        WatchedWithout(Call(w), slot[w].job)
LeaveInv == \A w \in Workers : Leaves(w)

StrandInv == StallInv /\ DueInv /\ LeaveInv

LEMMA StrandInit == Init => StrandInv
<1> SUFFICES ASSUME Init PROVE StrandInv
    OBVIOUS
<1>1. StallInv
      BY DEF Init, StallInv, Unheld, NoJob
<1>2. DueInv
      BY DEF Init, DueInv, Due, NoRow, Free, Dialling
<1>3. LeaveInv
      BY DEF Init, LeaveInv, Leaves, Free
<1>4. QED
      BY <1>1, <1>2, <1>3 DEF StrandInv

LEMMA CallJobIs == ASSUME NEW j \in CallJobs PROVE j \in Jobs /\ j = <<"call", j[2], j[3]>>
BY DEF CallJobs, Jobs

LEMMA CheckIsNoCall == ASSUME NEW j \in CheckJobs PROVE j \notin CallJobs /\ j \in Jobs
BY DEF CallJobs, CheckJobs, Jobs

LEMMA IsCheckJob ==
    ASSUME NEW c \in Calls, NEW n \in 1 .. MaxChecks
    PROVE  <<"check", c, n>> \in CheckJobs
BY DEF CheckJobs

LEMMA IsCallJob ==
    ASSUME NEW c \in Calls, NEW n \in 0 .. MaxDefers
    PROVE  /\ <<"call", c, n>> \in CallJobs /\ <<"call", c, n>> \in Jobs
           /\ <<"call", c, n>>[2] = c /\ <<"call", c, n>>[3] = n
BY DEF CallJobs, Jobs

\* A slot with a call job runs it for a row that was queued, and that no booking holds.
LEMMA Busy ==
    ASSUME BookInv, NEW w \in Workers, slot[w].pc # "idle", slot[w].job \in CallJobs
    PROVE  /\ Call(w) \in Calls /\ ~Untouched(Call(w))
           /\ row[Call(w)].st \notin {"none", "unqueued"}
           /\ \A t \in Tasks : ~Holds(t, Call(w))
<1>1. Call(w) \in Calls
      BY CallJobParts DEF Call
<1>2. ~Untouched(Call(w))
      BY DEF Untouched
<1>3. FreshInv(Call(w))
      BY <1>1 DEF BookInv, CallInv
<1>4. QED
      BY <1>1, <1>2, <1>3 DEF FreshInv

\* What most steps do to stalls: nothing, or a job starts or ends.
LEMMA StallsKept ==
    ASSUME TypeInv, StallInv, UNCHANGED stops,
           \A j \in Jobs : /\ queue'[j].stalls \in {0, queue[j].stalls}
                           /\ Unheld(j)' => Unheld(j) /\ queue'[j].stalls = queue[j].stalls
    PROVE  StallInv'
<1>1. stops \in Nat
      BY BoundsAssumption DEF TypeInv, TypeOK, WorkOK
<1>2. QED
      BY <1>1 DEF StallInv

\* The call jobs of c are as they were.
SameJobs(c) == \A n \in 0 .. MaxDefers : queue'[<<"call", c, n>>] = queue[<<"call", c, n>>]

LEMMA LatestKept ==
    ASSUME NEW c \in Calls, SameJobs(c), NEW n \in 0 .. MaxDefers, Latest(c, n)
    PROVE  Latest(c, n)'
BY DEF SameJobs, Latest, Live

------------------------------------------------------------------------------
(* Steps of bookings, users and the provider.                                *)

LEMMA RequestKeeps ==
    ASSUME BookInv, StrandInv, UNCHANGED <<slot, stops>>,
           \A c \in Calls : row'[c].st = "scheduled" => row[c].st = "scheduled" \/ Untouched(c),
           \A c \in Calls : row'[c].st = "in_progress" => row[c].st = "in_progress",
           \A c \in Calls : Due(c)' => Queued(c)' \/ (Due(c) /\ SameJobs(c)),
           \A c \in Calls : SameJobs(c) \/ Untouched(c) \/ row'[c].st # "scheduled",
           \A j \in CheckJobs : queue'[j] = queue[j],
           \A j \in CallJobs :
               \/ queue'[j] = queue[j]
               \/ queue'[j].st # "active" /\ queue'[j].stalls = 0
    PROVE  StrandInv'
<1> USE DEF StrandInv
<1>1. StallInv'
  <2>1. \A j \in Jobs : /\ queue'[j].stalls \in {0, queue[j].stalls}
                        /\ Unheld(j)' => Unheld(j) /\ queue'[j].stalls = queue[j].stalls
        BY DEF Unheld, Jobs
  <2>2. QED
        BY <2>1, StallsKept DEF BookInv
<1>2. DueInv'
      BY LatestKept DEF DueInv, Queued
<1>3. ASSUME NEW w \in Workers PROVE Leaves(w)'
  <2>1. Leaves(w)
        BY DEF LeaveInv
  <2>2. slot'[w] = slot[w] /\ Call(w)' = Call(w)
        BY DEF Call
  <2>3. CASE slot[w].pc = "idle"
        BY <2>1, <2>2, <2>3 DEF Leaves, Free
  <2>4. CASE slot[w].pc \in {"arm", "throw", "return"} /\ slot[w].job \in CallJobs
    <3>1. PICK c \in Calls : c = Call(w) /\ ~Untouched(c)
          BY <2>4, Busy
    <3>2. row'[c].st = "scheduled" => row[c].st = "scheduled" /\ SameJobs(c)
          BY <3>1
    <3>3. slot[w].job[3] \in 0 .. MaxDefers /\ slot[w].job = <<"call", c, slot[w].job[3]>>
          BY <2>4, <3>1, CallJobParts, CallJobIs DEF Call
    <3>4. row'[c].st = "scheduled" => (LastAttempt(slot[w].job)' <=> LastAttempt(slot[w].job))
          BY <2>2, <3>2, <3>3 DEF SameJobs, LastAttempt
    <3>5. row'[c].st = "scheduled" => \A n \in 0 .. MaxDefers : Latest(c, n) => Latest(c, n)'
          BY <3>2, LatestKept
    <3>6. row'[c].st = "scheduled" /\ slot[w].pc = "return" =>
              \E n \in 0 .. MaxDefers : n > slot[w].job[3] /\ Latest(c, n)'
          BY <2>1, <2>4, <3>1, <3>2, <3>5 DEF Leaves
    <3>7. (slot[w].pc = "return" /\ slot[w].job \in CallJobs /\ row[Call(w)].st = "scheduled" =>
            \E n \in 0 .. MaxDefers : n > slot[w].job[3] /\ Latest(Call(w), n))'
          BY <2>2, <3>1, <3>6 DEF Latest, Live
    <3>8. slot[w].job \notin CheckJobs
          BY <2>4, CheckIsNoCall
    <3>9. QED
          BY <2>1, <2>2, <2>4, <3>1, <3>2, <3>4, <3>7, <3>8 DEF Leaves, LastAttempt
  <2>5. CASE slot[w].pc \notin {"idle", "arm", "throw"} /\ (slot[w].pc = "return" => slot[w].job \notin CallJobs)
    <3>1. ASSUME slot[w].job \in CheckJobs, row'[Call(w)].st = "in_progress",
                 WatchedWithout(Call(w), slot[w].job)
          PROVE  row[Call(w)].st = "in_progress" /\ WatchedWithout(Call(w), slot[w].job)'
      <4>1. PICK c \in Calls : c = Call(w)
            BY <3>1, CheckJobParts DEF Call
      <4>2. WatchedWithout(c, slot[w].job)'
            BY <2>2, <3>1, <4>1, IsCheckJob DEF WatchedWithout, Live
      <4>3. QED
            BY <2>2, <3>1, <4>1, <4>2 DEF WatchedWithout, Live
    <3>2. slot[w].job \in CheckJobs => Call(w) \in Calls
          BY CheckJobParts DEF Call
    <3>3. QED
          BY <2>1, <2>2, <2>5, <3>1, <3>2 DEF Leaves
  <2>6. slot[w].pc \in {"arm", "throw"} => slot[w].job \in CallJobs
        BY <2>1 DEF Leaves, BookInv, TypeInv, SlotsKnow, SlotKnows, DialPhases
  <2>7. QED
        BY <2>3, <2>4, <2>5, <2>6
<1>4. QED
      BY <1>1, <1>2, <1>3 DEF LeaveInv

\* A step of requests that queues nothing: a call it schedules is held, and one that was
\* scheduled is held as before.
LEMMA RowKeeps ==
    ASSUME BookInv, StrandInv, UNCHANGED <<slot, stops, queue>>,
           \A c \in Calls : row'[c].st = "scheduled" =>
                \/ row[c].st = "scheduled" /\ \A t \in Tasks : Holds(t, c) => Holds(t, c)'
                \/ Untouched(c) /\ \E t \in Tasks : Holds(t, c)',
           \A c \in Calls : row'[c].st = "in_progress" => row[c].st = "in_progress"
    PROVE  StrandInv'
<1>1. \A c \in Calls : SameJobs(c)
      BY DEF SameJobs
<1>2. \A c \in Calls : Due(c)' => Due(c)
      BY DEF Due, Dialling, Call
<1>3. \A c \in Calls : row'[c].st = "scheduled" => row[c].st = "scheduled" \/ Untouched(c)
      OBVIOUS
<1>4. \A j \in CallJobs :
               \/ queue'[j] = queue[j]
               \/ queue'[j].st # "active" /\ queue'[j].stalls = 0
      OBVIOUS
<1>5. \A j \in CheckJobs : queue'[j] = queue[j]
      OBVIOUS
<1>6. QED
      BY <1>1, <1>2, <1>3, <1>4, <1>5, RequestKeeps

LEMMA RequestSteps ==
    ASSUME BookInv, StrandInv, Undisturbed, NEW t \in Tasks,
           \/ Booking(t) \/ ScheduleAutoCalls(t) \/ TriggerManualCall(t)
           \/ \E c \in Calls : InitiationFailure(t, c)
    PROVE  StrandInv'
<1> USE DEF BookInv, TypeInv, TypeOK, Undisturbed
<1>i. IdleTask.pc = "idle"
      BY DEF IdleTask
<1>r. ~Resume(t)
      BY DEF Resume, TasksKnow, TaskKnows
<1>1. ASSUME UNCHANGED <<slot, stops, queue>>, NEW x, task' = [task EXCEPT ![t] = x],
             task[t].pc \notin {"add", "rollback"},
             \A c \in Calls : row'[c].st \in {"scheduled", "in_progress"} => row[c].st = row'[c].st
      PROVE  StrandInv'
  <2>1. \A u \in Tasks, c \in Calls : Holds(u, c) => Holds(u, c)'
        BY <1>1 DEF Holds, TaskOK
  <2>2. QED
        BY <1>1, <2>1, RowKeeps
<1>2. ASSUME NEW key, Start(t, key) PROVE StrandInv'
  <2> DEFINE x == [pc |-> "create", c |-> None, key |-> key, attempt |-> 1]
  <2>1. UNCHANGED <<slot, stops, queue, row>> /\ task' = [task EXCEPT ![t] = x] /\ task[t].pc = "idle"
        BY <1>2 DEF Start, workVars
  <2>2. QED
        BY <2>1, <1>1
<1>3. ASSUME NEW c \in Calls, InitiationFailure(t, c) PROVE StrandInv'
  <2> DEFINE x == [IdleTask EXCEPT !.pc = "write", !.c = c]
  <2>1. UNCHANGED <<slot, stops, queue, row>> /\ task' = [task EXCEPT ![t] = x] /\ task[t].pc = "idle"
        BY <1>3 DEF InitiationFailure, workVars
  <2>2. QED
        BY <2>1, <1>1
<1>4. CASE CreateCall(t)
  <2>0. task[t].pc = "create" /\ task[t] \in TaskRecord /\ UNCHANGED <<slot, stops, queue>>
        BY <1>4 DEF CreateCall, TaskOK, workVars
  <2>1. ASSUME NEW c \in Calls, row[c].st \in {"none", "unqueued"},
               row'[c].st = "scheduled", \A e \in Calls : e # c => row'[e] = row[e],
               task' = [task EXCEPT ![t].pc = "add", ![t].c = c]
        PROVE  StrandInv'
    <3>1. task'[t].pc = "add" /\ task'[t].c = c /\ \A u \in Tasks : u # t => task'[u] = task[u]
          BY <2>0, <2>1 DEF TaskOK, TaskRecord
    <3>2. Untouched(c) /\ Holds(t, c)'
          BY <2>1, <3>1 DEF CallInv, FreshInv, Holds
    <3>3. \A u \in Tasks, e \in Calls : Holds(u, e) => Holds(u, e)'
          BY <2>0, <3>1 DEF Holds
    <3>4. QED
          BY <2>0, <2>1, <3>2, <3>3, RowKeeps
  <2>2. ASSUME NEW c \in Calls, NextRow(c), NEW new, new.st = "scheduled",
               row' = [row EXCEPT ![c] = new]
        PROVE  /\ row[c].st \in {"none", "unqueued"} /\ row'[c].st = "scheduled"
               /\ \A e \in Calls : e # c => row'[e] = row[e]
        BY <2>2 DEF NextRow, NoRow, RowOK
  <2>3. ASSUME NEW c \in Calls, SetStatus(c, "scheduled")
        PROVE  row'[c].st = "scheduled" /\ \A e \in Calls : e # c => row'[e] = row[e]
        BY <2>3 DEF SetStatus, RowOK, RowRecord
  <2>4. CASE task' = [task EXCEPT ![t] = IdleTask] /\ UNCHANGED row
        BY <2>0, <2>4, <1>1
  <2> DEFINE new == [st |-> "scheduled", attempt |-> task[t].attempt, key |-> task[t].key]
  <2>5. ASSUME NEW c \in Calls, NextRow(c), row' = [row EXCEPT ![c] = new],
               task' = [task EXCEPT ![t].pc = "add", ![t].c = c]
        PROVE  StrandInv'
    <3>1. new.st = "scheduled"
          OBVIOUS
    <3> HIDE DEF new
    <3>2. QED
          BY <2>1, <2>2, <2>5, <3>1
  <2>6. QED
        BY <1>4, <2>1, <2>3, <2>4, <2>5 DEF CreateCall, Holders
<1>5. CASE AddCall(t)
  <2> DEFINE x == [task[t] EXCEPT !.pc = "rollback"]
  <2>a. PICK c \in Calls : c = task[t].c
        BY <1>5 DEF AddCall, TasksKnow, TaskKnows
  <2>0. /\ task[t].pc = "add" /\ task[t] \in TaskRecord /\ UNCHANGED <<row, slot, stops>>
        BY <1>5 DEF AddCall, TaskOK, workVars
  <2>1. CASE task' = [task EXCEPT ![t] = IdleTask] /\ queue' = Added(<<"call", c, 0>>)
    <3>1. \A u \in Tasks : u # t => task'[u] = task[u]
          BY <2>1 DEF TaskOK
    <3>2. Untouched(c)
          BY <2>a, <2>0 DEF CallInv, FreshInv, Holds
    <3>3. <<"call", c, 0>> \in Jobs /\ queue[<<"call", c, 0>>].st = "none" /\ 0 \in 0 .. MaxDefers
          BY <2>0, <3>2, BoundsAssumption, IsCallJob DEF Untouched
    <3>4. queue' = [queue EXCEPT ![<<"call", c, 0>>] = NewJob]
          BY <2>1, <3>3 DEF Added
    <3>5. \A e \in Calls : e # c => SameJobs(e)
          BY <2>0, <2>1, AddedFor DEF SameJobs
    <3>6. Latest(c, 0)'
      <4>1. queue'[<<"call", c, 0>>].st = "wait"
            BY <3>3, <3>4 DEF QueueOK, NewJob, NoJob
      <4>2. \A m \in 0 .. MaxDefers : m > 0 => queue'[<<"call", c, m>>].st = "none"
            BY <2>0, <3>2, <3>4, IsCallJob DEF QueueOK, Untouched
      <4>3. QED
            BY <4>1, <4>2 DEF Latest, Live
    <3>7. Queued(c)'
          BY <3>3, <3>6 DEF Queued
    <3>8. \A e \in Calls : e # c /\ Due(e)' => Due(e)
      <4>1. \A u \in Tasks, e \in Calls : e # c /\ Holds(u, e) => Holds(u, e)'
            BY <2>a, <3>1 DEF Holds
      <4>2. QED
            BY <2>0, <4>1 DEF Due, Dialling, Call
    <3>9. \A j \in CallJobs :
               \/ queue'[j] = queue[j]
               \/ queue'[j].st # "active" /\ queue'[j].stalls = 0
      <4>1. NewJob.st = "wait" /\ NewJob.stalls = 0
            BY DEF NewJob, NoJob
      <4>2. \A i \in CallJobs : i \in Jobs
            BY DEF Jobs
      <4>3. QED
            BY <3>3, <3>4, <4>1, <4>2 DEF QueueOK
    <3>10. \A e \in Calls : Due(e)' => Queued(e)' \/ (Due(e) /\ SameJobs(e))
      <4> TAKE e \in Calls
      <4>1. CASE e = c
            BY <3>7, <4>1 DEF Queued, Latest, Live
      <4>2. CASE e # c
            BY <3>5, <3>8, <4>2
      <4>3. QED
            BY <4>1, <4>2
    <3>11. \A i \in CheckJobs : queue'[i] = queue[i]
           BY <3>3, <3>4, CheckIsNoCall, IsCallJob DEF QueueOK
    <3>12. QED
           BY <2>0, <3>2, <3>5, <3>9, <3>10, <3>11, RequestKeeps
  <2>2. CASE task' = [task EXCEPT ![t] = x] /\ queue' = queue
    <3>1. \A u \in Tasks, e \in Calls : Holds(u, e) => Holds(u, e)'
          BY <2>0, <2>2 DEF Holds, TaskOK, TaskRecord
    <3>2. QED
          BY <2>0, <2>2, <3>1, RowKeeps
  <2>3. QED
        BY <1>5, <2>a, <2>1, <2>2 DEF AddCall
<1>6. CASE RollBack(t)
  <2> DEFINE c == task[t].c
  <2>0. /\ task[t].pc = "rollback" /\ c \in Calls /\ SetStatus(c, "unqueued")
        /\ UNCHANGED <<queue, slot, stops>>
        BY <1>6 DEF RollBack, TasksKnow, TaskKnows, workVars
  <2>1. \A u \in Tasks : u # t => task'[u] = task[u]
        BY <1>6 DEF RollBack, TaskOK
  <2>2. row'[c].st = "unqueued" /\ \A e \in Calls : e # c => row'[e] = row[e]
        BY <2>0 DEF SetStatus, RowOK, RowRecord
  <2>3. \A u \in Tasks, e \in Calls : e # c /\ Holds(u, e) => Holds(u, e)'
        BY <2>1 DEF Holds
  <2>4. QED
        BY <2>0, <2>2, <2>3, RowKeeps
<1>7. CASE WriteFailure(t)
  <2> DEFINE c == task[t].c
             s == IF line[c] = "busy" THEN "no_answer" ELSE "failed"
  <2>0. /\ task[t].pc = "write" /\ c \in Calls /\ UNCHANGED <<queue, slot, stops>>
        /\ SetStatus(c, s)
        BY <1>7 DEF WriteFailure, TasksKnow, TaskKnows, workVars
  <2>1. \E x : task' = [task EXCEPT ![t] = x]
        BY <1>7 DEF WriteFailure, NextAttempt
  <2>2. \A e \in Calls : row'[e].st \in {"scheduled", "in_progress"} => row[e].st = row'[e].st
        BY <2>0, StatusOf
  <2>3. QED
        BY <2>0, <2>1, <2>2, <1>1
<1>8. QED
      BY <1>2, <1>3, <1>4, <1>5, <1>6, <1>7, <1>r DEF Booking, ScheduleAutoCalls, TriggerManualCall

LEMMA ProviderSteps ==
    ASSUME BookInv, StrandInv, NEW c \in Calls, CancelCall(c) \/ Ends(c) \/ Transcription(c)
    PROVE  StrandInv'
<1> USE DEF BookInv, TypeInv, TypeOK
<1>1. CASE Ends(c)
  <2>1. UNCHANGED <<row, queue, slot, stops, task>>
        BY <1>1 DEF Ends, workVars, taskVars
  <2>2. \A t \in Tasks, e \in Calls : Holds(t, e) => Holds(t, e)'
        BY <2>1 DEF Holds
  <2>3. QED
        BY <2>1, <2>2, RowKeeps
<1>2. CASE Transcription(c)
  <2>1. SetStatus(c, "completed") /\ UNCHANGED <<queue, slot, stops, task>>
        BY <1>2 DEF Transcription, workVars, taskVars
  <2>2. \A t \in Tasks, e \in Calls : Holds(t, e) => Holds(t, e)'
        BY <2>1 DEF Holds
  <2>3. \A e \in Calls : row'[e].st \in {"scheduled", "in_progress"} => row[e].st = row'[e].st
        BY <2>1, StatusOf
  <2>4. QED
        BY <2>1, <2>2, <2>3, RowKeeps
<1>3. CASE CancelCall(c)
  <2> DEFINE j == <<"call", c, 0>>
  <2>0. /\ row[c].st = "scheduled" /\ SetStatus(c, "canceled") /\ UNCHANGED <<slot, stops, task>>
        /\ UNCHANGED queue \/ queue' = [queue EXCEPT ![j] = NoJob]
        BY <1>3 DEF CancelCall, workVars, taskVars
  <2>1. /\ row'[c].st = "canceled"
        /\ \A e \in Calls : row'[e].st \in {"scheduled", "in_progress"} => row[e].st = row'[e].st
        BY <2>0, StatusOf
  <2>2. \A e \in Calls : e # c => SameJobs(e) /\ row'[e] = row[e]
    <3>1. \A e \in Calls : e # c => row'[e] = row[e]
          BY <2>0 DEF SetStatus, RowOK
    <3>2. \A e \in Calls, n \in 0 .. MaxDefers : e # c => <<"call", e, n>> # j
          OBVIOUS
    <3>3. \A e \in Calls : e # c => SameJobs(e)
          BY <2>0, <3>2, IsCallJob DEF SameJobs, QueueOK
    <3>4. QED
          BY <3>1, <3>3
  <2>3. ~Due(c)'
    <3>1. \A w \in Workers : ~Dialling(w, c)
          BY <2>0 DEF CallInv, DialInv, Dials, Dialling
    <3>2. QED
          BY <2>0, <2>1, <3>1 DEF Due, Dialling, Call
  <2>4. \A e \in Calls : e # c /\ Due(e)' => Due(e)
        BY <2>0, <2>2 DEF Due, Dialling, Call, Holds
  <2>5. \A i \in CallJobs :
               \/ queue'[i] = queue[i]
               \/ queue'[i].st # "active" /\ queue'[i].stalls = 0
    <3>1. NoJob.st = "none" /\ NoJob.stalls = 0
          BY DEF NoJob
    <3>2. j \in Jobs /\ \A i \in CallJobs : i \in Jobs
          BY BoundsAssumption DEF Jobs, CallJobs
    <3>3. QED
          BY <2>0, <3>1, <3>2 DEF QueueOK
  <2>6. \A i \in CheckJobs : queue'[i] = queue[i]
    <3>1. j \in CallJobs
          BY BoundsAssumption DEF CallJobs
    <3>2. QED
          BY <2>0, <3>1, CheckIsNoCall DEF QueueOK
  <2>7. QED
        BY <2>0, <2>1, <2>2, <2>3, <2>4, <2>5, <2>6, RequestKeeps
<1>4. QED
      BY <1>1, <1>2, <1>3

------------------------------------------------------------------------------
(* Steps of the queue: a job is taken, ends, or is found without a lock.      *)

LEMMA TakeKeeps ==
    ASSUME BookInv, StrandInv, SingleSlot, NEW w \in Workers, NEW j \in Jobs, Take(w, j)
    PROVE  StrandInv'
<1> USE DEF BookInv, TypeInv, TypeOK, StrandInv
<1>1. /\ slot[w] = Free /\ queue[j].st = "wait" /\ UNCHANGED <<row, task, stops>>
      BY DEF Take, LeaveInv, Leaves, taskVars
<1>2. /\ slot'[w].job = j /\ slot'[w].locked /\ slot'[w].pc \in {"claim", "check"}
      /\ \A v \in Workers : v = w
      BY DEF Take, WorkOK, SingleSlot
<1>3. /\ queue'[j].st = "active" /\ queue'[j].stalls = queue[j].stalls
      /\ \A i \in Jobs : i # j => queue'[i] = queue[i]
      BY DEF Take, QueueOK, JobRecord
<1>5. \A i \in Jobs : /\ queue'[i].stalls \in {0, queue[i].stalls}
                      /\ Unheld(i)' => Unheld(i) /\ queue'[i].stalls = queue[i].stalls
      BY <1>1, <1>2, <1>3 DEF Unheld, Free
<1>6. StallInv'
      BY <1>1, <1>5, StallsKept
<1>7. \A c \in Calls : \A n \in 0 .. MaxDefers : Latest(c, n) => Latest(c, n)'
      BY <1>1, <1>3, IsCallJob DEF Latest, Live
<1>8. \A c \in Calls : Due(c)' => Due(c)
      BY <1>1, <1>2 DEF Due, Dialling, Call, Holds
<1>9. DueInv'
      BY <1>7, <1>8 DEF DueInv, Queued
<1>10. LeaveInv'
      BY <1>2 DEF LeaveInv, Leaves
<1>11. QED
      BY <1>6, <1>9, <1>10

\* A lock is lost: now its job may stall once more.
LEMMA StopKeeps ==
    ASSUME BookInv, StrandInv, WorkerCrash \/ \E w \in Workers : LockExpires(w)
    PROVE  StrandInv'
<1> USE DEF BookInv, TypeInv, TypeOK, StrandInv
<1>1. /\ UNCHANGED <<row, queue, task>> /\ stops' = stops + 1
      BY DEF WorkerCrash, LockExpires, taskVars
<1>2. StallInv'
  <2>1. stops \in Nat /\ \A j \in Jobs : queue[j].stalls \in Nat
        BY BoundsAssumption DEF WorkOK, QueueOK, JobRecord
  <2>2. QED
        BY <1>1, <2>1 DEF StallInv
<1> DEFINE Stays(w) == \/ slot'[w] = Free
                       \/ slot'[w] = slot[w]
                       \/ /\ slot'[w].pc = slot[w].pc /\ slot'[w].job = slot[w].job
                          /\ slot[w].pc # "idle"
<1>3. \A w \in Workers : Stays(w)
  <2>1. CASE WorkerCrash
        BY <2>1 DEF WorkerCrash
  <2>2. ASSUME NEW v \in Workers, LockExpires(v) PROVE \A w \in Workers : Stays(w)
    <3>1. slot[v].locked /\ slot[v].pc # "idle"
          BY <2>2 DEF LockExpires, LeaveInv, Leaves, Free
    <3>2. QED
          BY <2>2, <3>1 DEF LockExpires, WorkOK, SlotRecord
  <2>3. QED
        BY <2>1, <2>2
<1>4. \A c \in Calls : Due(c)' => Due(c)
      BY <1>1, <1>3 DEF Due, Dialling, Call, Holds, Free
<1>5. \A c \in Calls : SameJobs(c)
      BY <1>1 DEF SameJobs
<1>6. DueInv'
      BY <1>4, <1>5, LatestKept DEF DueInv, Queued
<1>7. ASSUME NEW w \in Workers PROVE Leaves(w)'
  <2>1. CASE slot'[w] = Free
        BY <2>1 DEF Leaves, Free
  <2>2. CASE \/ slot'[w] = slot[w]
             \/ /\ slot'[w].pc = slot[w].pc /\ slot'[w].job = slot[w].job
                /\ slot[w].pc # "idle"
    <3>1. Leaves(w)
          BY DEF LeaveInv
    <3>2. QED
          BY <1>1, <2>2, <3>1 DEF Leaves, Call, LastAttempt, Latest, WatchedWithout, Live
  <2>3. QED
        BY <1>3, <2>1, <2>2
<1>8. QED
      BY <1>2, <1>6, <1>7 DEF LeaveInv

\* A job without a lock has stalls to spare, so BullMQ puts it back.
LEMMA StallSpare ==
    ASSUME BookInv, StrandInv, Attended, NEW j \in Jobs, StalledCheck(j)
    PROVE  /\ queue[j].stalls < stops /\ queue'[j].made = queue[j].made
           /\ queue'[j].st = "wait" /\ queue'[j].stalls = queue[j].stalls + 1
           /\ \A i \in Jobs : i # j => queue'[i] = queue[i]
<1> USE DEF BookInv, TypeInv, TypeOK, StrandInv
<1>1. Unheld(j)
      BY DEF StalledCheck, Unheld
<1>2. queue[j].stalls < stops
      BY <1>1 DEF StallInv
<1>3. queue[j] \in JobRecord /\ queue[j].stalls \in Nat /\ stops \in 0 .. MaxStops
      BY DEF QueueOK, JobRecord, WorkOK
<1>4. ~(queue[j].stalls + 1 > MaxStalled)
      BY <1>2, <1>3, BoundsAssumption DEF Attended
<1>5. queue' = [queue EXCEPT ![j].stalls = @ + 1, ![j].st = "wait"]
      BY <1>4 DEF StalledCheck
<1>6. QED
      BY <1>2, <1>3, <1>5 DEF QueueOK, JobRecord

LEMMA StalledKeeps ==
    ASSUME BookInv, StrandInv, Attended, NEW j \in Jobs, StalledCheck(j)
    PROVE  StrandInv'
<1> USE DEF BookInv, TypeInv, TypeOK, StrandInv
<1>1. Unheld(j) /\ UNCHANGED <<row, task, slot, stops>>
      BY DEF StalledCheck, Unheld, workVars, taskVars
<1>2. /\ \A i \in Jobs : i # j => queue'[i] = queue[i]
      /\ \A i \in CallJobs : i \in Jobs
      BY DEF StalledCheck, QueueOK, Jobs
<1>3. \A c \in Calls : Due(c)' => Due(c)
      BY <1>1 DEF Due, Dialling, Call, Holds
<1>4. /\ queue[j].stalls < stops /\ queue'[j].made = queue[j].made
      /\ queue'[j].st = "wait" /\ queue'[j].stalls = queue[j].stalls + 1
      BY StallSpare
<1>5. StallInv'
  <2>1. stops \in Nat /\ \A i \in Jobs : queue[i].stalls \in Nat
        BY BoundsAssumption DEF WorkOK, QueueOK, JobRecord
  <2>2. QED
        BY <1>1, <1>2, <1>4, <2>1 DEF StallInv, Unheld
<1>a. \A i \in Jobs : /\ Live(i) => Live(i)'
                      /\ queue[i].st = "none" => queue'[i].st = "none"
      BY <1>1, <1>2, <1>4 DEF Live, Unheld
<1>6. \A c \in Calls : \A n \in 0 .. MaxDefers : Latest(c, n) => Latest(c, n)'
      BY <1>a, IsCallJob DEF Latest
<1>7. DueInv'
      BY <1>3, <1>6 DEF DueInv, Queued
<1>8. ASSUME NEW w \in Workers PROVE Leaves(w)'
  <2>1. Leaves(w)
        BY DEF LeaveInv
  <2>2. slot[w].job \in CallJobs => (LastAttempt(slot[w].job)' <=> LastAttempt(slot[w].job))
        BY <1>1, <1>2, <1>4 DEF LastAttempt
  <2>3. ASSUME slot[w].pc = "return", slot[w].job \in CallJobs, row[Call(w)].st = "scheduled"
        PROVE  \E n \in 0 .. MaxDefers : n > slot[w].job[3] /\ Latest(Call(w), n)'
    <3>1. PICK c \in Calls : c = Call(w)
          BY <2>3, CallJobParts DEF Call
    <3>2. PICK n \in 0 .. MaxDefers : n > slot[w].job[3] /\ Latest(c, n)
          BY <2>1, <2>3, <3>1 DEF Leaves
    <3>3. Latest(c, n)'
          BY <1>6, <3>2
    <3>4. QED
          BY <1>1, <3>1, <3>2, <3>3 DEF Latest, Live, Call
  <2>4. ASSUME slot[w].job \in CheckJobs, WatchedWithout(Call(w), slot[w].job)
        PROVE  WatchedWithout(Call(w), slot[w].job)'
    <3>1. PICK c \in Calls : c = Call(w)
          BY <2>4, CheckJobParts DEF Call
    <3>2. PICK n \in 1 .. MaxChecks : <<"check", c, n>> # slot[w].job /\ Live(<<"check", c, n>>)
          BY <2>4, <3>1 DEF WatchedWithout
    <3>3. Live(<<"check", c, n>>)'
          BY <1>a, <3>2, IsCheckJob, CheckIsNoCall
    <3>4. QED
          BY <1>1, <3>1, <3>2, <3>3 DEF WatchedWithout, Live, Call
  <2>5. QED
        BY <1>1, <2>1, <2>2, <2>3, <2>4 DEF Leaves, Call, LastAttempt
<1>9. QED
      BY <1>5, <1>7, <1>8 DEF LeaveInv

\* A job that ends leaves its call to a later job, or waits for its next attempt.
LEMMA EndKeeps ==
    ASSUME BookInv, StrandInv, SingleSlot, NEW w \in Workers, JobReturns(w) \/ JobThrows(w)
    PROVE  StrandInv'
<1> USE DEF BookInv, TypeInv, TypeOK, StrandInv
<1>1. PICK j \in Jobs : j = slot[w].job
      BY DEF JobReturns, JobThrows, SlotsKnow, SlotKnows
<1>2. /\ slot'[w] = Free /\ UNCHANGED <<row, task, stops>> /\ slot[w].pc \in {"return", "throw"}
      /\ \A v \in Workers : v = w
      BY DEF JobReturns, JobThrows, WorkOK, SingleSlot, taskVars
<1>3. \A i \in Jobs : i # j => queue'[i] = queue[i]
      BY <1>1 DEF JobReturns, JobThrows, QueueOK
<1>4. \/ queue' = queue
      \/ slot[w].locked /\ queue' = [queue EXCEPT ![j] = Closed(j)]
      \/ slot[w].locked /\ queue' = [queue EXCEPT ![j].made = @ + 1, ![j].st = "wait"]
      BY <1>1 DEF JobReturns, JobThrows
<1>5. \/ queue'[j] = queue[j] /\ ~slot[w].locked
      \/ slot[w].locked /\ queue'[j].st # "active" /\ queue'[j].stalls \in {0, queue[j].stalls}
      \/ queue' = queue
      BY <1>4 DEF QueueOK, JobRecord, Closed, NoJob
<1>6. StallInv'
  <2>2. \A i \in Jobs : queue'[i].stalls \in {0, queue[i].stalls}
        BY <1>3, <1>5
  <2>3. ASSUME NEW i \in Jobs, Unheld(i)'
        PROVE  Unheld(i) /\ queue'[i].stalls = queue[i].stalls
    <3>1. CASE i # j
          BY <1>1, <1>2, <1>3, <2>3, <3>1 DEF Unheld
    <3>2. CASE i = j
      <4>1. queue'[j] = queue[j] /\ ~slot[w].locked
            BY <1>1, <1>2, <2>3, <3>2, <1>4 DEF Unheld, QueueOK, Closed, NoJob, JobRecord, JobReturns, JobThrows
      <4>2. QED
            BY <1>2, <2>3, <3>2, <4>1 DEF Unheld
    <3>3. QED
          BY <3>1, <3>2
  <2>4. QED
        BY <1>2, <2>2, <2>3, StallsKept
<1>7. ASSUME NEW d \in Calls, Due(d)' PROVE Queued(d)'
  <2>1. row[d].st = "scheduled" /\ Due(d)
        BY <1>2, <1>7 DEF Due, Dialling, Free, Holds
  <2>2. CASE ~(j \in CallJobs /\ j[2] = d)
    <3>1. \A n \in 0 .. MaxDefers : <<"call", d, n>> # j
          BY <2>2, IsCallJob
    <3>2. SameJobs(d)
          BY <1>3, <3>1, IsCallJob DEF SameJobs
    <3>3. QED
          BY <2>1, <3>2, LatestKept DEF DueInv, Queued
  <2>3. CASE j \in CallJobs /\ j[2] = d
    <3>1. Call(w) = d /\ j[3] \in 0 .. MaxDefers /\ j = <<"call", d, j[3]>>
          BY <1>1, <2>3, CallJobParts, CallJobIs DEF Call
    <3>2. CASE slot[w].pc = "return"
      <4>1. PICK n \in 0 .. MaxDefers : n > j[3] /\ Latest(d, n)
            BY <1>1, <2>1, <2>3, <3>1, <3>2 DEF LeaveInv, Leaves
      <4>2. \A m \in 0 .. MaxDefers : m >= n => <<"call", d, m>> # j
            BY <3>1, <4>1
      <4>3. \A m \in 0 .. MaxDefers : m >= n => queue'[<<"call", d, m>>] = queue[<<"call", d, m>>]
            BY <1>3, <4>2, IsCallJob
      <4>4. Latest(d, n)'
            BY <4>1, <4>3 DEF Latest, Live
      <4>5. QED
            BY <4>4 DEF Queued
    <3>3. CASE slot[w].pc = "throw"
      <4>1. ~LastAttempt(j)
            BY <1>1, <2>1, <3>1, <3>3 DEF LeaveInv, Leaves
      <4>2. PICK n \in 0 .. MaxDefers : Latest(d, n)
            BY <2>1 DEF DueInv, Queued
      <4>3. CASE queue' = queue
            BY <4>2, <4>3 DEF Queued, Latest, Live
      <4>4. CASE queue'[j].st = "wait"
        <5>1. CASE n >= j[3]
          <6>1. \A m \in 0 .. MaxDefers : m > n => queue'[<<"call", d, m>>] = queue[<<"call", d, m>>]
            <7>1. \A m \in 0 .. MaxDefers : m > n => <<"call", d, m>> # j
                  BY <3>1, <5>1
            <7>2. QED
                  BY <1>3, <7>1, IsCallJob
          <6>2. Live(<<"call", d, n>>)'
            <7>1. <<"call", d, n>> \in Jobs
                  BY IsCallJob
            <7>2. QED
                  BY <1>3, <4>2, <4>4, <7>1 DEF Latest, Live
          <6>3. QED
                BY <4>2, <6>1, <6>2 DEF Latest, Live, Queued
        <5>2. CASE n < j[3]
          <6>1. \A m \in 0 .. MaxDefers : m > j[3] => queue'[<<"call", d, m>>] = queue[<<"call", d, m>>]
            <7>1. \A m \in 0 .. MaxDefers : m > j[3] => <<"call", d, m>> # j
                  BY <3>1
            <7>2. QED
                  BY <1>3, <7>1, IsCallJob
          <6>2. \A m \in 0 .. MaxDefers : m > j[3] => m > n
                BY <3>1, <5>2
          <6>3. Latest(d, j[3])'
                BY <3>1, <4>2, <4>4, <6>1, <6>2 DEF Latest, Live
          <6>4. QED
                BY <3>1, <6>3 DEF Queued
        <5>3. QED
              BY <3>1, <5>1, <5>2
      <4>5. QED
        <5>1. queue' = queue \/ queue' = [queue EXCEPT ![j].made = @ + 1, ![j].st = "wait"]
              BY <1>1, <3>3, <4>1 DEF JobReturns, JobThrows
        <5>2. queue' = queue \/ queue'[j].st = "wait"
              BY <5>1 DEF QueueOK, JobRecord
        <5>3. QED
              BY <4>3, <4>4, <5>2
    <3>4. QED
          BY <1>2, <3>2, <3>3
  <2>4. QED
        BY <2>2, <2>3
<1>8. LeaveInv'
      BY <1>2 DEF LeaveInv, Leaves, Free
<1>9. QED
      BY <1>6, <1>7, <1>8 DEF DueInv

------------------------------------------------------------------------------
(* Steps within executeCall() and checkCall().                               *)

\* The slot goes on with a call that is still due, leaves one that is not, or serves a check.
Onward(w, pc) ==
    \/ /\ slot[w].job \in CallJobs /\ Due(Call(w))
       /\ \/ pc \in {"gates", "dial"}
          \/ pc = "defer" /\ slot[w].job[3] < MaxDefers
          \/ pc = "throw" /\ ~LastAttempt(slot[w].job)
    \/ /\ slot[w].job \in CallJobs /\ row'[Call(w)].st # "scheduled"
       /\ pc \in {"record", "arm", "return"}
    \/ /\ slot[w].job \notin CallJobs /\ pc \in {"poll", "return"}
       /\ row'[Call(w)].st = "scheduled" => row[Call(w)].st = "scheduled"
       /\ pc = "return" /\ row'[Call(w)].st = "in_progress" =>
            \E n \in 1 .. MaxChecks : /\ <<"check", Call(w), n>> # slot[w].job
                                     /\ queue'[<<"check", Call(w), n>>].st \in {"wait", "active"}

LEMMA OnwardKeeps ==
    ASSUME BookInv, StrandInv, SingleSlot, NEW w \in Workers, NEW pc, slot[w].pc # "idle",
           Goto(w, pc), Onward(w, pc), UNCHANGED <<stops, task>>,
           \A j \in CallJobs : queue'[j] = queue[j],
           \A j \in CheckJobs : queue'[j] = queue[j] \/ queue'[j] = NewJob,
           \A d \in Calls : d # Call(w) => row'[d] = row[d]
    PROVE  StrandInv'
<1> USE DEF BookInv, TypeInv, TypeOK, StrandInv
<1>1. /\ slot'[w].pc = pc /\ slot'[w].job = slot[w].job /\ slot'[w].locked = slot[w].locked
      /\ \A v \in Workers : v = w
      BY DEF Goto, WorkOK, SlotRecord, SingleSlot
<1>2. pc \in {"gates", "dial", "defer", "throw", "record", "arm", "return", "poll"}
      BY DEF Onward
<1>3. Call(w)' = Call(w)
      BY <1>1 DEF Call
<1>4. StallInv'
  <2>1. \A j \in Jobs : /\ queue'[j].stalls \in {0, queue[j].stalls}
                        /\ Unheld(j)' => Unheld(j) /\ queue'[j].stalls = queue[j].stalls
        BY <1>1 DEF Unheld, NewJob, NoJob, Jobs
  <2>2. QED
        BY <2>1, StallsKept
<1>5. \A d \in Calls : SameJobs(d)
      BY IsCallJob DEF SameJobs
<1>6. ASSUME NEW d \in Calls, Due(d)' PROVE Due(d)
  <2>1. CASE d # Call(w)
        BY <1>1, <1>3, <1>6, <2>1 DEF Due, Dialling, Holds
  <2>2. CASE d = Call(w)
    <3>1. CASE Due(Call(w))
          BY <2>2, <3>1
    <3>2. CASE row'[d].st # "scheduled" /\ pc \notin {"gates", "dial"}
          BY <1>1, <1>6, <3>2 DEF Due, Dialling
    <3>3. CASE pc \notin {"gates", "dial"} /\ row[d].st = "scheduled"
          BY <1>1, <1>6, <3>3 DEF Due, Dialling, Holds
    <3>4. QED
          BY <2>2, <3>1, <3>2, <3>3 DEF Onward
  <2>3. QED
        BY <2>1, <2>2
<1>7. DueInv'
      BY <1>5, <1>6, LatestKept DEF DueInv, Queued
<1>8. Leaves(w)'
  <2>1. pc = "arm" => row'[Call(w)].st # "scheduled"
        BY DEF Onward
  <2>2. pc = "throw" => slot[w].job \in CallJobs /\ ~LastAttempt(slot[w].job)'
        BY <1>1 DEF Onward, LastAttempt
  <2>3. pc = "return" /\ slot[w].job \in CallJobs => row'[Call(w)].st # "scheduled"
        BY DEF Onward
  <2>4. pc = "defer" => slot[w].job[3] < MaxDefers
        BY DEF Onward
  <2>5. pc = "return" /\ slot[w].job \in CheckJobs /\ row'[Call(w)].st = "in_progress" =>
            \E n \in 1 .. MaxChecks : /\ <<"check", Call(w), n>> # slot[w].job
                                     /\ queue'[<<"check", Call(w), n>>].st \in {"wait", "active"}
        BY CheckIsNoCall DEF Onward
  <2>6. QED
        BY <1>1, <1>2, <1>3, <2>1, <2>2, <2>3, <2>4, <2>5 DEF Leaves, LastAttempt, WatchedWithout, Live
<1>9. QED
      BY <1>1, <1>4, <1>7, <1>8 DEF LeaveInv

LEMMA DialSteps ==
    ASSUME BookInv, StrandInv, SingleSlot, NEW w \in Workers,
           Claim(w) \/ CheckGates(w) \/ Dial(w) \/ DialBlocked(w) \/ DialFails(w) \/ Record(w)
    PROVE  StrandInv'
<1> USE DEF BookInv, TypeInv, TypeOK, StrandInv
<1>1. slot[w].pc \in {"claim"} \cup DialPhases /\ UNCHANGED <<queue, stops, task>>
      BY DEF Claim, CheckGates, Dial, DialBlocked, DialFails, Record, DialPhases, taskVars
<1>2. slot[w].job \in CallJobs /\ slot[w].pc # "idle"
      BY <1>1 DEF SlotsKnow, SlotKnows, DialPhases
<1>3. Call(w) \in Calls /\ \A t \in Tasks : ~Holds(t, Call(w))
      BY <1>2, Busy
<1>4. \A s : SetStatus(Call(w), s) =>
          row'[Call(w)].st = s /\ \A d \in Calls : d # Call(w) => row'[d] = row[d]
      BY <1>3 DEF SetStatus, RowOK, RowRecord
<1>5. slot[w].pc \in {"gates", "dial"} => Due(Call(w))
      BY DEF Due, Dialling
<1>6. slot[w].pc \in {"gates", "dial", "record"} => row[Call(w)].st = "calling"
      BY <1>3 DEF CallInv, DialInv, Dials
<1>7. (\A j \in CallJobs : queue'[j] = queue[j]) /\ (\A j \in CheckJobs : queue'[j] = queue[j])
      BY <1>1
<1>8. ASSUME NEW pc, Goto(w, pc), Onward(w, pc), \A d \in Calls : d # Call(w) => row'[d] = row[d]
      PROVE  StrandInv'
      BY <1>1, <1>2, <1>7, <1>8, OnwardKeeps
<1>9. CASE Claim(w)
  <2>1. CASE row[Call(w)].st = "scheduled" /\ SetStatus(Call(w), "calling") /\ Goto(w, "gates")
    <3>1. Onward(w, "gates")
          BY <1>2, <1>3, <2>1 DEF Onward, Due
    <3>2. QED
          BY <1>4, <1>8, <2>1, <3>1
  <2>2. CASE row[Call(w)].st # "scheduled" /\ Goto(w, "return") /\ UNCHANGED row
        BY <1>2, <1>8, <2>2 DEF Onward
  <2>3. QED
        BY <1>9, <2>1, <2>2 DEF Claim
<1>10. CASE CheckGates(w)
  <2>0. Due(Call(w))
        BY <1>5, <1>10 DEF CheckGates
  <2>1. CASE SetStatus(Call(w), "canceled") /\ Goto(w, "return")
        BY <1>2, <1>4, <1>8, <2>1 DEF Onward
  <2>2. CASE slot[w].job[3] < MaxDefers /\ SetStatus(Call(w), "scheduled") /\ Goto(w, "defer")
    <3>1. Onward(w, "defer")
          BY <1>2, <2>0, <2>2 DEF Onward
    <3>2. QED
          BY <1>4, <1>8, <2>2, <3>1
  <2>3. CASE Goto(w, "dial") /\ UNCHANGED row
        BY <1>2, <1>8, <2>0, <2>3 DEF Onward
  <2>4. QED
        BY <1>10, <2>1, <2>2, <2>3 DEF CheckGates
<1>11. CASE Dial(w)
  <2>1. Goto(w, "record") /\ UNCHANGED row /\ row[Call(w)].st = "calling"
        BY <1>6, <1>11 DEF Dial
  <2>2. QED
        BY <1>2, <1>8, <2>1 DEF Onward
<1>12. CASE DialBlocked(w)
  <2>1. PICK s \in {"blocked", "failed"} : SetStatus(Call(w), s) /\ Goto(w, "return")
        BY <1>12 DEF DialBlocked
  <2>2. QED
        BY <1>2, <1>4, <1>8, <2>1 DEF Onward
<1>13. CASE DialFails(w)
  <2>0. Due(Call(w)) /\ row[Call(w)].st = "calling"
        BY <1>5, <1>6, <1>13 DEF DialFails
  <2>1. CASE /\ ~LastAttempt(slot[w].job)
             /\ row' = [row EXCEPT ![Call(w)].st = IF @ = "calling" THEN "scheduled" ELSE @]
             /\ Goto(w, "throw")
    <3>1. Onward(w, "throw")
          BY <1>2, <2>0, <2>1 DEF Onward
    <3>2. \A d \in Calls : d # Call(w) => row'[d] = row[d]
          BY <2>1 DEF RowOK
    <3>3. QED
          BY <1>8, <2>1, <3>1, <3>2
  <2>2. CASE SetStatus(Call(w), "failed") /\ Goto(w, "return")
        BY <1>2, <1>4, <1>8, <2>2 DEF Onward
  <2>3. QED
        BY <1>13, <2>1, <2>2 DEF DialFails
<1>14. CASE Record(w)
  <2>1. SetStatus(Call(w), "in_progress") /\ Goto(w, "arm")
        BY <1>14 DEF Record
  <2>2. QED
        BY <1>2, <1>4, <1>8, <2>1 DEF Onward
<1>15. QED
       BY <1>9, <1>10, <1>11, <1>12, <1>13, <1>14

\* A check that has ended is forgotten.
NoneDone == \A j \in CheckJobs : queue[j].st # "done"

\* Queuing a check leaves the call jobs alone, and the check alive.
LEMMA CheckAdded ==
    ASSUME QueueOK, NEW c, NEW n, queue' = Added(<<"check", c, n>>)
    PROVE  /\ \A j \in CallJobs : queue'[j] = queue[j]
           /\ \A j \in CheckJobs : queue'[j] = queue[j] \/ queue'[j] = NewJob
           /\ NoneDone /\ <<"check", c, n>> \in CheckJobs =>
                queue'[<<"check", c, n>>].st \in {"wait", "active"}
<1> DEFINE i == <<"check", c, n>>
<1>1. \A j \in Jobs : IF j = i /\ queue[i].st = "none" THEN queue'[j] = NewJob ELSE queue'[j] = queue[j]
      BY DEF Added, QueueOK
<1>2. \A j \in CallJobs : j \in Jobs /\ j # i
      BY DEF CallJobs, Jobs
<1>3. i \in CheckJobs => queue[i].st \in {"none", "wait", "active", "done"}
      BY DEF QueueOK, JobRecord, Jobs
<1>4. NewJob.st = "wait"
      BY DEF NewJob, NoJob
<1>5. NoneDone /\ i \in CheckJobs => queue'[i].st \in {"wait", "active"}
      BY <1>1, <1>3, <1>4, CheckIsNoCall DEF NoneDone
<1>6. \A j \in CheckJobs : queue'[j] = queue[j] \/ queue'[j] = NewJob
      BY <1>1, CheckIsNoCall
<1>7. \A j \in CallJobs : queue'[j] = queue[j]
      BY <1>1, <1>2
<1>8. QED
      BY <1>5, <1>6, <1>7

LEMMA CheckSteps ==
    ASSUME BookInv, NoneDone, StrandInv, SingleSlot, NEW w \in Workers,
           Arm(w) \/ ReadCall(w) \/ Poll(w)
    PROVE  StrandInv'
<1> USE DEF BookInv, TypeInv, TypeOK, StrandInv
<1>1. slot[w].pc \in {"arm", "check", "poll"} /\ UNCHANGED <<stops, task>>
      BY DEF Arm, ReadCall, Poll, taskVars
<1>2. /\ \A j \in CallJobs : queue'[j] = queue[j]
      /\ \A j \in CheckJobs : queue'[j] = queue[j] \/ queue'[j] = NewJob
  <2>1. UNCHANGED queue \/ \E n : queue' = Added(<<"check", Call(w), n>>)
        BY DEF Arm, ReadCall, Poll, Rearm
  <2>2. QED
        BY <2>1, CheckAdded
<1>3. ASSUME NEW pc, Goto(w, pc), Onward(w, pc), \A d \in Calls : d # Call(w) => row'[d] = row[d]
      PROVE  StrandInv'
      BY <1>1, <1>2, <1>3, OnwardKeeps
<1>4. CASE Arm(w)
  <2>1. /\ row[Call(w)].st # "scheduled" /\ UNCHANGED row /\ Goto(w, "return")
        /\ slot[w].job \in CallJobs
        BY <1>4 DEF Arm, LeaveInv, Leaves, SlotsKnow, SlotKnows, DialPhases
  <2>2. QED
        BY <1>3, <2>1 DEF Onward
<1>5. ASSUME slot[w].job \in CheckJobs, NEW pc \in {"poll", "return"}, Goto(w, pc),
             UNCHANGED row \/ \E s \in {"completed", "failed"} : SetStatus(Call(w), s),
             pc = "return" /\ row'[Call(w)].st = "in_progress" =>
                \E n \in 1 .. MaxChecks : /\ <<"check", Call(w), n>> # slot[w].job
                                         /\ queue'[<<"check", Call(w), n>>].st \in {"wait", "active"}
      PROVE  StrandInv'
  <2>1. slot[w].job \notin CallJobs /\ Call(w) \in Calls
        BY <1>5, CheckJobParts, CheckIsNoCall DEF Call
  <2>2. \A d \in Calls : d # Call(w) => row'[d] = row[d]
        BY <1>5 DEF SetStatus, RowOK
  <2>3. row'[Call(w)].st = "scheduled" => row[Call(w)].st = "scheduled"
        BY <1>5, <2>1, StatusOf
  <2>4. Onward(w, pc)
        BY <1>5, <2>1, <2>3 DEF Onward
  <2>5. QED
        BY <1>3, <1>5, <2>2, <2>4
<1>6. CASE ReadCall(w)
  <2>1. slot[w].job \in CheckJobs /\ UNCHANGED row
        BY <1>6 DEF ReadCall, SlotsKnow, SlotKnows
  <2>2. CASE row[Call(w)].st = "in_progress" /\ Goto(w, "poll")
        BY <1>5, <2>1, <2>2
  <2>3. CASE row[Call(w)].st # "in_progress" /\ Goto(w, "return")
        BY <1>5, <2>1, <2>3
  <2>4. QED
        BY <1>6, <2>2, <2>3 DEF ReadCall
<1>7. CASE Poll(w)
  <2>1. slot[w].job \in CheckJobs /\ Goto(w, "return")
        BY <1>7 DEF Poll, SlotsKnow, SlotKnows
  <2>2. PICK c \in Calls, k \in 1 .. MaxChecks : slot[w].job = <<"check", c, k>>
        BY <2>1 DEF CheckJobs
  <2>3. c = Call(w) /\ k = slot[w].job[3]
        BY <2>2 DEF Call
  <2>4. ASSUME NEW s \in {"completed", "failed"}, SetStatus(c, s) PROVE StrandInv'
    <3>1. row'[c].st # "in_progress"
          BY <2>4, StatusOf
    <3>2. QED
          BY <1>5, <2>1, <2>3, <2>4, <3>1
  <2>5. CASE Rearm(w) /\ UNCHANGED row
    <3>1. k + 1 \in 1 .. MaxChecks /\ queue' = Added(<<"check", c, k + 1>>)
          BY <2>3, <2>5, BoundsAssumption DEF Rearm
    <3>2. <<"check", c, k + 1>> \in CheckJobs
          BY <3>1, IsCheckJob
    <3>3. queue'[<<"check", c, k + 1>>].st \in {"wait", "active"}
          BY <3>1, <3>2, CheckAdded
    <3>4. <<"check", c, k + 1>> # slot[w].job
          BY <2>2
    <3>5. QED
          BY <1>5, <2>1, <2>3, <2>5, <3>1, <3>3, <3>4
  <2>6. QED
        BY <1>7, <2>3, <2>4, <2>5 DEF Poll
<1>8. QED
      BY <1>4, <1>6, <1>7

\* The call gets a job for the next window, unless it has one for that or a later window already.
LEMMA DeferKeeps ==
    ASSUME BookInv, StrandInv, SingleSlot, NEW w \in Workers, Defer(w)
    PROVE  StrandInv'
<1> USE DEF BookInv, TypeInv, TypeOK, StrandInv
<1>1. /\ slot[w].pc = "defer" /\ UNCHANGED <<row, stops, task>> /\ Goto(w, "return")
      /\ slot[w].job \in CallJobs
      BY DEF Defer, taskVars, SlotsKnow, SlotKnows, DialPhases
<1>2. /\ slot'[w].pc = "return" /\ slot'[w].job = slot[w].job /\ slot'[w].locked = slot[w].locked
      /\ \A v \in Workers : v = w
      BY <1>1 DEF Goto, WorkOK, SlotRecord, SingleSlot
<1>3. PICK c \in Calls, k \in 0 .. MaxDefers : c = Call(w) /\ k = slot[w].job[3]
      BY <1>1, CallJobParts DEF Call
<1>4. k + 1 \in 0 .. MaxDefers
      BY <1>1, <1>3, BoundsAssumption DEF LeaveInv, Leaves
<1>5. PICK j \in CallJobs : j = <<"call", c, k + 1>>
      BY <1>4, IsCallJob
<1>6. queue' = Added(j) /\ j \in Jobs
      BY <1>3, <1>5, CallJobIs DEF Defer
<1>7. /\ \A i \in Jobs : i # j => queue'[i] = queue[i]
      /\ queue[j].st # "none" => queue'[j] = queue[j]
      /\ queue[j].st = "none" => queue'[j] = NewJob
      BY <1>6 DEF Added, QueueOK
<1>8. NewJob.st = "wait" /\ NewJob.stalls = 0
      BY DEF NewJob, NoJob
<1>9. StallInv'
  <2>1. \A i \in Jobs : /\ queue'[i].stalls \in {0, queue[i].stalls}
                        /\ Unheld(i)' => Unheld(i) /\ queue'[i].stalls = queue[i].stalls
        BY <1>2, <1>7, <1>8 DEF Unheld
  <2>2. QED
        BY <1>1, <2>1, StallsKept
<1>10. \A d \in Calls : Due(d)' => Due(d)
       BY <1>1, <1>2 DEF Due, Dialling, Holds
<1>11. ASSUME NEW d \in Calls, d # c, Queued(d) PROVE Queued(d)'
  <2>1. \A n \in 0 .. MaxDefers : <<"call", d, n>> # j
        BY <1>5, <1>11
  <2>2. SameJobs(d)
        BY <1>7, <2>1, IsCallJob DEF SameJobs
  <2>3. QED
        BY <1>11, <2>2, LatestKept DEF Queued
<1>12. ASSUME NEW n \in 0 .. MaxDefers, Latest(c, n)
       PROVE  \E m \in 0 .. MaxDefers : m > k /\ Latest(c, m)'
  <2>1. CASE n > k
    <3>1. <<"call", c, n>> \in CallJobs /\ (<<"call", c, n>> = j => queue[j].st # "none")
          BY <1>12, IsCallJob DEF Latest, Live
    <3>2. queue'[<<"call", c, n>>] = queue[<<"call", c, n>>]
          BY <1>7, <3>1, CallJobIs
    <3>3. \A m \in 0 .. MaxDefers : m > n => <<"call", c, m>> # j
          BY <1>5, <2>1
    <3>4. \A m \in 0 .. MaxDefers : m > n => queue'[<<"call", c, m>>] = queue[<<"call", c, m>>]
          BY <1>7, <3>3, IsCallJob
    <3>5. Latest(c, n)'
          BY <1>12, <3>2, <3>4 DEF Latest, Live
    <3>6. QED
          BY <2>1, <3>5
  <2>2. CASE ~(n > k)
    <3>1. queue[j].st = "none"
          BY <1>3, <1>4, <1>5, <1>12, <2>2 DEF Latest
    <3>2. \A m \in 0 .. MaxDefers : m > k + 1 => m > n /\ <<"call", c, m>> # j
          BY <1>3, <1>5, <2>2
    <3>3. \A m \in 0 .. MaxDefers : m > k + 1 => queue'[<<"call", c, m>>] = queue[<<"call", c, m>>]
          BY <1>7, <3>2, IsCallJob
    <3>4. \A m \in 0 .. MaxDefers : m > k + 1 => queue[<<"call", c, m>>].st = "none"
          BY <1>12, <3>2 DEF Latest
    <3>5. Latest(c, k + 1)'
          BY <1>5, <1>7, <1>8, <3>1, <3>3, <3>4 DEF Latest, Live
    <3>6. k + 1 > k
          BY <1>3
    <3>7. QED
          BY <1>4, <3>5, <3>6
  <2>3. QED
        BY <2>1, <2>2
<1>13. Queued(c) => Queued(c)'
       BY <1>12 DEF Queued
<1>14. DueInv'
  <2>1. \A d \in Calls : Queued(d) => Queued(d)'
    <3> TAKE d \in Calls
    <3>1. CASE d = c
          BY <1>13, <3>1 DEF Queued, Latest, Live
    <3>2. CASE d # c
          BY <1>11, <3>2
    <3>3. QED
          BY <3>1, <3>2
  <2>2. QED
        BY <1>10, <2>1 DEF DueInv
<1>15. Leaves(w)'
  <2>1. ASSUME row[c].st = "scheduled" PROVE \E m \in 0 .. MaxDefers : m > k /\ Latest(c, m)'
    <3>1. Due(c)
          BY <1>1, <1>3, <2>1, Busy DEF Due
    <3>2. QED
          BY <1>12, <3>1 DEF DueInv, Queued
  <2>2. QED
        BY <1>1, <1>2, <1>3, <2>1, CheckIsNoCall DEF Leaves, Call, Latest, Live
<1>16. QED
       BY <1>2, <1>9, <1>14, <1>15 DEF LeaveInv

LEMMA NoneDoneInit == Init => NoneDone
BY CheckIsNoCall DEF Init, NoneDone, NoJob

LEMMA NoneDoneStep == TypeInv /\ NoneDone /\ [Next]_vars => NoneDone'
<1> SUFFICES ASSUME TypeInv, NoneDone, [Next]_vars PROVE NoneDone'
    OBVIOUS
<1> USE DEF TypeInv, TypeOK
<1>1. UNCHANGED queue => NoneDone'
      BY DEF NoneDone
<1>2. ASSUME NEW j, NEW x, x.st # "done" \/ j \notin CheckJobs, queue' = [queue EXCEPT ![j] = x]
      PROVE  NoneDone'
      BY <1>2, CheckIsNoCall DEF NoneDone, QueueOK
<1>3. NoJob.st = "none" /\ NewJob.st = "wait"
      BY DEF NoJob, NewJob
<1>4. \A j \in Jobs : Closed(j).st # "done" \/ j \notin CheckJobs
      BY <1>3, CheckJobParts DEF Closed
<1>5. ASSUME NEW j, queue' = Added(j) PROVE NoneDone'
      BY <1>1, <1>2, <1>3, <1>5 DEF Added
<1>6. ASSUME NEW j \in Jobs,
             \/ queue' = [queue EXCEPT ![j].st = "active"]
             \/ queue' = [queue EXCEPT ![j].made = @ + 1, ![j].st = "wait"]
             \/ queue' = [queue EXCEPT ![j].stalls = @ + 1, ![j].st = "wait"]
      PROVE  NoneDone'
  <2>1. queue'[j].st # "done" /\ \A i \in Jobs : i # j => queue'[i] = queue[i]
        BY <1>6 DEF QueueOK, JobRecord
  <2>2. QED
        BY <2>1, CheckIsNoCall DEF NoneDone
<1>7. CASE UNCHANGED vars
      BY <1>1, <1>7 DEF vars
<1>8. ASSUME NEW t \in Tasks,
             \/ Booking(t) \/ ScheduleAutoCalls(t) \/ TriggerManualCall(t)
             \/ \E c \in Calls : InitiationFailure(t, c)
      PROVE  NoneDone'
  <2>1. UNCHANGED queue \/ \E j : queue' = Added(j)
        BY <1>8 DEF Booking, CreateCall, Resume, AddCall, RollBack, WriteFailure,
                    ScheduleAutoCalls, TriggerManualCall, Start, InitiationFailure
  <2>2. QED
        BY <1>1, <1>5, <2>1
<1>9. ASSUME NEW c \in Calls, CancelCall(c) \/ Ends(c) \/ Transcription(c) PROVE NoneDone'
  <2>1. UNCHANGED queue \/ \E j : queue' = [queue EXCEPT ![j] = NoJob]
        BY <1>9 DEF CancelCall, Ends, Transcription
  <2>2. QED
        BY <1>1, <1>2, <1>3, <2>1
<1>10. ASSUME NEW w \in Workers, Run(w) \/ LockExpires(w) \/ WorkerCrash PROVE NoneDone'
  <2>1. CASE JobReturns(w) \/ JobThrows(w)
    <3>1. PICK j \in Jobs : j = slot[w].job
          BY <2>1 DEF JobReturns, JobThrows, SlotsKnow, SlotKnows
    <3>2. \/ UNCHANGED queue
          \/ queue' = [queue EXCEPT ![j] = Closed(j)]
          \/ queue' = [queue EXCEPT ![j].made = @ + 1, ![j].st = "wait"]
          BY <2>1, <3>1 DEF JobReturns, JobThrows
    <3>3. QED
          BY <1>1, <1>2, <1>4, <1>6, <3>2
  <2>2. CASE ~(JobReturns(w) \/ JobThrows(w))
    <3>1. UNCHANGED queue \/ \E j : queue' = Added(j)
          BY <1>10, <2>2 DEF Run, Claim, CheckGates, Defer, Dial, DialBlocked, DialFails, Record,
                             Arm, ReadCall, Poll, Rearm, LockExpires, WorkerCrash
    <3>2. QED
          BY <1>1, <1>5, <3>1
  <2>3. QED
        BY <2>1, <2>2
<1>11. CASE WorkerCrash
       BY <1>1, <1>11 DEF WorkerCrash
<1>12. ASSUME NEW w \in Workers, NEW j \in Jobs, Take(w, j) PROVE NoneDone'
       BY <1>6, <1>12 DEF Take
<1>13. ASSUME NEW j \in Jobs, StalledCheck(j) PROVE NoneDone'
       BY <1>2, <1>4, <1>6, <1>13 DEF StalledCheck
<1>14. QED
       BY <1>7, <1>8, <1>9, <1>10, <1>11, <1>12, <1>13 DEF Next

LEMMA StrandStep ==
    ASSUME SingleSlot, Attended, Undisturbed
    PROVE  BookInv /\ NoneDone /\ StrandInv /\ [Next]_vars => StrandInv'
<1> SUFFICES ASSUME BookInv, NoneDone, StrandInv, [Next]_vars PROVE StrandInv'
    OBVIOUS
<1>1. CASE UNCHANGED vars
  <2>1. UNCHANGED <<row, queue, slot, stops, task>>
        BY <1>1 DEF vars, workVars, taskVars
  <2>2. \A t \in Tasks, c \in Calls : Holds(t, c) => Holds(t, c)'
        BY <2>1 DEF Holds
  <2>3. QED
        BY <2>1, <2>2, RowKeeps
<1>2. CASE \/ \E t \in Tasks : Booking(t) \/ ScheduleAutoCalls(t) \/ TriggerManualCall(t)
           \/ \E t \in Tasks, c \in Calls : InitiationFailure(t, c)
      BY <1>2, RequestSteps
<1>3. CASE \E c \in Calls : CancelCall(c) \/ Ends(c) \/ Transcription(c)
      BY <1>3, ProviderSteps
<1>4. CASE \E w \in Workers : Run(w)
      BY <1>4, DialSteps, CheckSteps, DeferKeeps, EndKeeps DEF Run
<1>5. CASE WorkerCrash \/ \E w \in Workers : LockExpires(w)
      BY <1>5, StopKeeps
<1>6. CASE \E w \in Workers, j \in Jobs : Take(w, j)
      BY <1>6, TakeKeeps
<1>7. CASE \E j \in Jobs : StalledCheck(j)
      BY <1>7, StalledKeeps
<1>8. QED
      BY <1>1, <1>2, <1>3, <1>4, <1>5, <1>6, <1>7 DEF Next

LEMMA StrandCovers == BookInv /\ StrandInv => NoStrandedBooking
<1> SUFFICES ASSUME StrandInv, NEW c \in Calls, row[c].st = "scheduled",
                    \A t \in Tasks : ~Holds(t, c)
             PROVE  \E n \in 0 .. MaxDefers : Live(<<"call", c, n>>)
    BY DEF NoStrandedBooking, Holds
<1>1. Queued(c)
      BY DEF StrandInv, DueInv, Due
<1>2. QED
      BY <1>1 DEF Queued, Latest

\* With one worker slot, every scheduled call has a job that will dial it, or a booking about
\* to queue one (VoiceCallsService.scheduleCall, VoiceCallProcessor): as long as no reply to a
\* booking is lost, no two requests re-arm one row at once, the provider places no call it then
\* denies, and locks are lost no more often than maxStalledCount.
THEOREM NoBookingIsStranded ==
    ASSUME SingleSlot, Attended, Undisturbed
    PROVE  Spec => []NoStrandedBooking
<1>1. Init => BookInv /\ NoneDone /\ StrandInv
      BY BookInit, NoneDoneInit, StrandInit
<1>2. BookInv /\ NoneDone /\ StrandInv /\ [Next]_vars => (BookInv /\ NoneDone /\ StrandInv)'
      BY BookStep, NoneDoneStep, StrandStep DEF BookInv
<1>3. QED
      BY <1>1, <1>2, StrandCovers, PTL DEF Spec

------------------------------------------------------------------------------
(* The watchdog.                                                             *)

\* Only a check that returns with its lock held comes to an end.
LEMMA ChecksStayLive ==
    ASSUME BookInv, StrandInv, Attended, [Next]_vars, NEW j \in CheckJobs, Live(j)
    PROVE  Live(j)' \/ \E w \in Workers : JobReturns(w) /\ slot[w].job = j
<1> USE DEF BookInv, TypeInv, TypeOK, StrandInv
<1>0. j \in Jobs /\ j \notin CallJobs
      BY CheckIsNoCall
<1>1. UNCHANGED queue => Live(j)'
      BY DEF Live
<1>2. ASSUME NEW i, queue' = Added(i) PROVE Live(j)'
  <2>1. queue'[j] = queue[j] \/ queue'[j] = NewJob
        BY <1>0, <1>2 DEF Added, QueueOK
  <2>2. NewJob.st = "wait"
        BY DEF NewJob, NoJob
  <2>3. QED
        BY <2>1, <2>2 DEF Live
<1>3. ASSUME NEW i \in Jobs, \A k \in Jobs : k # i => queue'[k] = queue[k],
             i = j => queue'[i].st \in {"wait", "active"}
      PROVE  Live(j)'
      BY <1>0, <1>3 DEF Live
<1>4. CASE UNCHANGED vars
      BY <1>1, <1>4 DEF vars
<1>5. ASSUME NEW t \in Tasks,
             \/ Booking(t) \/ ScheduleAutoCalls(t) \/ TriggerManualCall(t)
             \/ \E c \in Calls : InitiationFailure(t, c)
      PROVE  Live(j)'
  <2>1. UNCHANGED queue \/ \E i : queue' = Added(i)
        BY <1>5 DEF Booking, CreateCall, Resume, AddCall, RollBack, WriteFailure,
                    ScheduleAutoCalls, TriggerManualCall, Start, InitiationFailure
  <2>2. QED
        BY <1>1, <1>2, <2>1
<1>6. ASSUME NEW c \in Calls, CancelCall(c) \/ Ends(c) \/ Transcription(c) PROVE Live(j)'
  <2> DEFINE i == <<"call", c, 0>>
  <2>1. i \in CallJobs /\ i \in Jobs
        BY BoundsAssumption DEF CallJobs, Jobs
  <2>2. UNCHANGED queue \/ queue' = [queue EXCEPT ![i] = NoJob]
        BY <1>6 DEF CancelCall, Ends, Transcription
  <2>3. queue'[j] = queue[j]
        BY <1>0, <2>1, <2>2 DEF QueueOK
  <2>4. QED
        BY <2>3 DEF Live
<1>7. ASSUME NEW w \in Workers, Run(w) \/ LockExpires(w)
      PROVE  Live(j)' \/ \E v \in Workers : JobReturns(v) /\ slot[v].job = j
  <2>1. CASE JobReturns(w)
    <3>1. slot[w].job # j => queue'[j] = queue[j]
          BY <1>0, <2>1 DEF JobReturns, QueueOK
    <3>2. QED
          BY <2>1, <3>1 DEF Live
  <2>2. CASE JobThrows(w)
    <3>1. slot[w].job \in CallJobs
          BY <2>2 DEF JobThrows, LeaveInv, Leaves
    <3>2. queue'[j] = queue[j]
          BY <1>0, <2>2, <3>1 DEF JobThrows, QueueOK
    <3>3. QED
          BY <3>2 DEF Live
  <2>3. CASE ~(JobReturns(w) \/ JobThrows(w))
    <3>1. UNCHANGED queue \/ \E i : queue' = Added(i)
          BY <1>7, <2>3 DEF Run, Claim, CheckGates, Defer, Dial, DialBlocked, DialFails, Record,
                            Arm, ReadCall, Poll, Rearm, LockExpires
    <3>2. QED
          BY <1>1, <1>2, <3>1
  <2>4. QED
        BY <2>1, <2>2, <2>3
<1>8. CASE WorkerCrash
      BY <1>1, <1>8 DEF WorkerCrash
<1>9. ASSUME NEW w \in Workers, NEW i \in Jobs, Take(w, i) PROVE Live(j)'
  <2>1. queue'[i].st = "active" /\ \A k \in Jobs : k # i => queue'[k] = queue[k]
        BY <1>9 DEF Take, QueueOK, JobRecord
  <2>2. QED
        BY <1>3, <2>1
<1>10. ASSUME NEW i \in Jobs, StalledCheck(i) PROVE Live(j)'
  <2>1. queue'[i].st = "wait" /\ \A k \in Jobs : k # i => queue'[k] = queue[k]
        BY <1>10, StallSpare
  <2>2. QED
        BY <1>3, <2>1
<1>11. QED
       BY <1>4, <1>5, <1>6, <1>7, <1>8, <1>9, <1>10 DEF Next

LEMMA ChecksStep ==
    ASSUME BookInv, StrandInv, SingleSlot, Attended, [Next]_vars,
           NEW c \in Calls, row[c].st = "in_progress", Watched(c)
    PROVE  Watched(c)' \/ row'[c].st # "in_progress"
<1>1. PICK n \in 1 .. MaxChecks : Live(<<"check", c, n>>)
      BY DEF Watched
<1>2. CASE Live(<<"check", c, n>>)'
      BY <1>2 DEF Watched, Live
<1>3. ASSUME NEW w \in Workers, JobReturns(w), slot[w].job = <<"check", c, n>>
      PROVE  Watched(c)'
  <2>1. slot[w].job \in CheckJobs /\ Call(w) = c
        BY <1>3, IsCheckJob DEF Call
  <2>2. PICK m \in 1 .. MaxChecks : <<"check", c, m>> # slot[w].job /\ Live(<<"check", c, m>>)
        BY <1>3, <2>1 DEF JobReturns, StrandInv, LeaveInv, Leaves, WatchedWithout
  <2>3. queue'[<<"check", c, m>>] = queue[<<"check", c, m>>]
        BY <1>3, <2>2, IsCheckJob, CheckIsNoCall DEF JobReturns, BookInv, TypeInv, TypeOK, QueueOK
  <2>4. QED
        BY <2>2, <2>3 DEF Watched, Live
<1>4. QED
      BY <1>1, <1>2, <1>3, IsCheckJob, ChecksStayLive

\* With one worker slot, and under the same conditions, a call in progress that is watched by a
\* check stays so until it is no longer in progress (VoiceCallProcessor.checkCall): each check
\* queues the next one before it ends, though every webhook be lost and every poll fail.
THEOREM ChecksAreKept ==
    ASSUME SingleSlot, Attended, Undisturbed
    PROVE  Spec => ChecksGoOn
<1> DEFINE Step == \A c \in Calls : row[c].st = "in_progress" /\ Watched(c) =>
                        Watched(c)' \/ row'[c].st # "in_progress"
<1>1. Init => BookInv /\ NoneDone /\ StrandInv
      BY BookInit, NoneDoneInit, StrandInit
<1>2. BookInv /\ NoneDone /\ StrandInv /\ [Next]_vars => (BookInv /\ NoneDone /\ StrandInv)'
      BY BookStep, NoneDoneStep, StrandStep DEF BookInv
<1>3. BookInv /\ StrandInv /\ [Next]_vars => Step
      BY ChecksStep
<1>4. QED
      BY <1>1, <1>2, <1>3, PTL DEF Spec, ChecksGoOn
=============================================================================
