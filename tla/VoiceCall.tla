------------------------------ MODULE VoiceCall ------------------------------
(***************************************************************************)
(* AI screening calls: booking (VoiceCallsService), dialling and watchdog  *)
(* (VoiceCallProcessor), the provider's webhooks (VoiceResultsService).    *)
(*                                                                         *)
(* The voice_calls row is the state everybody shares.  Booking inserts a   *)
(* row and queues a "call" job; the worker claims the row, dials and arms  *)
(* a "check" job; a webhook or the watchdog writes the outcome, and a call *)
(* nobody answered books the next attempt.  All of it for one candidate    *)
(* and one of its jobs.                                                    *)
(***************************************************************************)
EXTENDS Integers

CONSTANTS
    Workers,       \* slots of the voice-call worker
    Tasks,         \* bookings and webhook requests served at a time
    None,          \* no key, no job, no call
    MaxAttempts,   \* MAX_ATTEMPTS: calls in a chain of retries
    Attempts,      \* VOICE_JOB_OPTS.attempts
    MaxStalled,    \* maxStalledCount of the worker
    MaxCalls,      \* bound: rows
    MaxStarts,     \* bound: bookings asked for, retries not counted
    MaxDefers,     \* bound: times one call is put off to the next business window
    MaxChecks,     \* checks until a call is older than MAX_CALL_AGE_MS
    MaxRings,      \* bound: dials of one call that reach the provider
    MaxStops,      \* bound: lock expiries and worker crashes, in total
    Faults         \* what may go wrong in this instance, see FaultKinds

(* "book"       Redis refuses the job of a booking                         *)
(* "flap"       ... or accepts it, and only the reply is lost              *)
(* "overlap"    a booking reads a row to re-arm, and others go on before it *)
(*              writes that row                                            *)
(* "unrecorded" the provider places the call, but dialling it or writing   *)
(*              down its conversation fails                                *)
(* "stall"      a lock expires under a slot that is still running          *)
(* "crash"      the worker dies between two steps of a voice-call job      *)
FaultKinds == {"book", "flap", "overlap", "unrecorded", "stall", "crash"}

Calls   == 1 .. MaxCalls
AutoKey == 0                                \* the key "auto:{candidateId}:{jobId}:1"
Keys    == {None, AutoKey} \cup Calls        \* c \in Calls: the key "retry:{c}"

CallJobs  == {"call"} \X Calls \X (0 .. MaxDefers)    \* 0: call-{id}, else call-{id}-{slot}
CheckJobs == {"check"} \X Calls \X (1 .. MaxChecks)   \* check-{id}-{time}: the n-th in a row
Jobs      == CallJobs \cup CheckJobs

ASSUME BoundsAssumption ==
    /\ MaxAttempts \in Nat \ {0}
    /\ Attempts \in Nat \ {0}
    /\ MaxStalled \in Nat
    /\ MaxCalls \in Nat
    /\ MaxStarts \in Nat
    /\ MaxDefers \in Nat
    /\ MaxChecks \in Nat
    /\ MaxRings \in Nat
    /\ MaxStops \in Nat
ASSUME FaultsAssumption == Faults \subseteq FaultKinds
ASSUME NoneAssumption == None \notin Nat /\ None \notin Jobs

VARIABLES
    row,      \* row[c]: the voice_calls row c
    rings,    \* rings[c]: how often c made the candidate's phone ring
    line,     \* line[c]: the conversation row c knows, as the provider sees it
    queue,    \* queue[j]: BullMQ's record of job j
    slot,     \* slot[w]: what worker slot w is doing
    stops,    \* lock expiries and crashes so far
    task,     \* task[t]: booking or webhook request t
    starts    \* bookings asked for so far

phoneVars == <<rings, line>>
workVars  == <<slot, stops>>
taskVars  == <<task, starts>>
vars == <<row, phoneVars, queue, workVars, taskVars>>

\* "unqueued" is status 'failed' with error 'enqueue_failed'.
Status == {"none", "scheduled", "calling", "in_progress", "completed", "no_answer",
           "blocked", "canceled", "failed", "unqueued"}
ACTIVE_CALL_STATUSES == {"scheduled", "calling", "in_progress"}
Over == {"completed", "no_answer", "blocked", "canceled", "failed"}

NoRow    == [st |-> "none", attempt |-> 0, key |-> None]
NoJob    == [st |-> "none", made |-> 0, stalls |-> 0]
NewJob   == [NoJob EXCEPT !.st = "wait"]
Free     == [pc |-> "idle", job |-> None, locked |-> FALSE]
IdleTask == [pc |-> "idle", c |-> None, key |-> None, attempt |-> 0]

DialPhases == {"gates", "defer", "dial", "record", "arm"}
Phases     == DialPhases \cup {"idle", "claim", "check", "poll", "return", "throw"}

RowRecord  == [st : Status, attempt : 0 .. MaxAttempts, key : Keys]
JobRecord  == [st : {"none", "wait", "active", "done"}, made : Nat, stalls : Nat]
SlotRecord == [pc : Phases, job : Jobs \cup {None}, locked : BOOLEAN]
TaskRecord == [pc : {"idle", "create", "resume", "add", "rollback", "write"},
               c : Calls \cup {None}, key : Keys, attempt : 0 .. MaxAttempts]

RowOK   == row \in [Calls -> RowRecord]
PhoneOK ==
    /\ rings \in [Calls -> 0 .. MaxRings]
    /\ line \in [Calls -> {"none", "talking", "done", "busy", "failed"}]
QueueOK == queue \in [Jobs -> JobRecord]
WorkOK  == slot \in [Workers -> SlotRecord] /\ stops \in 0 .. MaxStops
TaskOK  == task \in [Tasks -> TaskRecord] /\ starts \in 0 .. MaxStarts
TypeOK  == RowOK /\ PhoneOK /\ QueueOK /\ WorkOK /\ TaskOK

Init ==
    /\ row = [c \in Calls |-> NoRow]
    /\ rings = [c \in Calls |-> 0]
    /\ line = [c \in Calls |-> "none"]
    /\ queue = [j \in Jobs |-> NoJob]
    /\ slot = [w \in Workers |-> Free]
    /\ stops = 0
    /\ task = [t \in Tasks |-> IdleTask]
    /\ starts = 0

SetStatus(c, status) == row' = [row EXCEPT ![c].st = status]

\* add() ignores an id that is retained in any state.
Added(j) == IF queue[j].st = "none" THEN [queue EXCEPT ![j] = NewJob] ELSE queue

------------------------------------------------------------------------------
(* Booking: scheduleAutoCalls, triggerManualCall, scheduleCall, cancelCall.  *)

NoActiveCall == \A c \in Calls : row[c].st \notin ACTIVE_CALL_STATUSES

\* The gates are open and the active-call check has passed: what it read may be old by the
\* time the row is inserted.
Start(t, key) ==
    /\ task[t].pc = "idle"
    /\ starts < MaxStarts
    /\ NoActiveCall
    /\ task' = [task EXCEPT ![t] = [pc |-> "create", c |-> None, key |-> key, attempt |-> 1]]
    /\ starts' = starts + 1
    /\ UNCHANGED <<row, phoneVars, queue, workVars>>

\* The intake worker books one candidate's auto call at a time.
ScheduleAutoCalls(t) ==
    /\ \A u \in Tasks :
        task[u].pc \in {"create", "resume", "add", "rollback"} => task[u].key # AutoKey
    /\ Start(t, AutoKey)

TriggerManualCall(t) == Start(t, None)

\* Rows are numbered in the order of their insertion.
NextRow(c) == row[c] = NoRow /\ \A d \in 1 .. (c - 1) : row[d] # NoRow

Holders(key) == {c \in Calls : row[c] # NoRow /\ key # None /\ row[c].key = key}

\* scheduleCall(): insert the row; when its key is taken, re-arm the row that holds it if that
\* one was never queued, else skip the duplicate.
CreateCall(t) ==
    LET key == task[t].key
        Hold(c) == task' = [task EXCEPT ![t].pc = "add", ![t].c = c]
    IN
    /\ task[t].pc = "create"
    /\ \/ \E c \in Calls :
            /\ Holders(key) = {} /\ NextRow(c)
            /\ row' = [row EXCEPT ![c] = [st |-> "scheduled", attempt |-> task[t].attempt,
                                          key |-> key]]
            /\ Hold(c)
       \/ \E c \in Holders(key) :
            /\ row[c].st = "unqueued"
            /\ \/ SetStatus(c, "scheduled") /\ Hold(c)
               \/ /\ "overlap" \in Faults
                  /\ task' = [task EXCEPT ![t].pc = "resume", ![t].c = c]
                  /\ UNCHANGED row
       \/ /\ \E c \in Holders(key) : row[c].st # "unqueued"
          /\ task' = [task EXCEPT ![t] = IdleTask]
          /\ UNCHANGED row
    /\ UNCHANGED <<phoneVars, queue, workVars, starts>>

\* resumeStrandedCall(): the row is re-armed as it was found, whatever it has become.
Resume(t) ==
    /\ task[t].pc = "resume"
    /\ SetStatus(task[t].c, "scheduled")
    /\ task' = [task EXCEPT ![t].pc = "add"]
    /\ UNCHANGED <<phoneVars, queue, workVars, starts>>

\* enqueueCall(): queue the call under the id of its row, or learn that this failed.
AddCall(t) ==
    LET added == Added(<<"call", task[t].c, 0>>) IN
    /\ task[t].pc = "add"
    /\ \/ /\ queue' = added
          /\ task' = [task EXCEPT ![t] = IdleTask]
       \/ /\ "book" \in Faults
          /\ \E landed \in BOOLEAN :
                /\ landed => "flap" \in Faults
                /\ queue' = IF landed THEN added ELSE queue
          /\ task' = [task EXCEPT ![t].pc = "rollback"]
    /\ UNCHANGED <<row, phoneVars, workVars, starts>>

RollBack(t) ==
    /\ task[t].pc = "rollback"
    /\ SetStatus(task[t].c, "unqueued")
    /\ task' = [task EXCEPT ![t] = IdleTask]
    /\ UNCHANGED <<phoneVars, queue, workVars, starts>>

\* cancelCall(): claim the row; the removal of its job is best effort, and never reaches a
\* job that is locked or was put off to a later window.
CancelCall(c) ==
    LET j == <<"call", c, 0>> IN
    /\ row[c].st = "scheduled"
    /\ SetStatus(c, "canceled")
    /\ \/ queue[j].st \in {"wait", "done"} /\ queue' = [queue EXCEPT ![j] = NoJob]
       \/ UNCHANGED queue
    /\ UNCHANGED <<phoneVars, workVars, taskVars>>

------------------------------------------------------------------------------
(* The provider and its webhooks: VoiceResultsService.                       *)

\* The conversation ends: it was held, nobody picked up, or it never came about.
Ends(c) ==
    /\ line[c] = "talking"
    /\ \E outcome \in {"done", "busy", "failed"} : line' = [line EXCEPT ![c] = outcome]
    /\ UNCHANGED <<row, rings, queue, workVars, taskVars>>

\* A webhook comes never, once or several times.  finalizeFromTranscription() completes the
\* row that knows the conversation, whatever its status.
Transcription(c) ==
    /\ line[c] = "done"
    /\ SetStatus(c, "completed")
    /\ UNCHANGED <<rings, line, queue, workVars, taskVars>>

\* handleInitiationFailure(): read the row; only one in flight goes on.
InitiationFailure(t, c) ==
    /\ task[t].pc = "idle"
    /\ line[c] \in {"busy", "failed"}
    /\ row[c].st \in {"calling", "in_progress"}
    /\ task' = [task EXCEPT ![t] = [IdleTask EXCEPT !.pc = "write", !.c = c]]
    /\ UNCHANGED <<row, rings, line, queue, workVars, starts>>

\* scheduleRetry() for a call that nobody answered.
NextAttempt(t, key, n) ==
    task' = [task EXCEPT ![t] = [pc |-> "create", c |-> None, key |-> key, attempt |-> n]]

\* Broken: the next attempt has no key, so a failure reported twice books it twice.
WriteFailureUnkeyed(t) ==
    LET c == task[t].c
        n == row[c].attempt
        again == line[c] = "busy" /\ n < MaxAttempts
    IN
    /\ task[t].pc = "write"
    /\ SetStatus(c, IF line[c] = "busy" THEN "no_answer" ELSE "failed")
    /\ \/ again /\ NextAttempt(t, None, n + 1)
       \/ ~again /\ task' = [task EXCEPT ![t] = IdleTask]
    /\ UNCHANGED <<phoneVars, queue, workVars, starts>>

\* Broken: one attempt too many.
WriteFailureOffByOne(t) ==
    LET c == task[t].c
        n == row[c].attempt
        again == line[c] = "busy" /\ n <= MaxAttempts
    IN
    /\ task[t].pc = "write"
    /\ SetStatus(c, IF line[c] = "busy" THEN "no_answer" ELSE "failed")
    /\ \/ again /\ NextAttempt(t, c, n + 1)
       \/ ~again /\ task' = [task EXCEPT ![t] = IdleTask]
    /\ UNCHANGED <<phoneVars, queue, workVars, starts>>

\* Broken: the next attempt is booked, the row left to the watchdog.
WriteFailureLeavesRow(t) ==
    LET c == task[t].c
        n == row[c].attempt
        again == line[c] = "busy" /\ n < MaxAttempts
    IN
    /\ task[t].pc = "write"
    /\ \/ again /\ NextAttempt(t, c, n + 1) /\ UNCHANGED row
       \/ ~again /\ SetStatus(c, "failed") /\ task' = [task EXCEPT ![t] = IdleTask]
    /\ UNCHANGED <<phoneVars, queue, workVars, starts>>

\* Busy or no answer: close the row and book the next attempt, keyed by this call, while
\* attempts remain.  Any other failure only closes the row.
WriteFailure(t) ==
    LET c == task[t].c
        n == row[c].attempt
        again == line[c] = "busy" /\ n < MaxAttempts
    IN
    /\ task[t].pc = "write"
    /\ SetStatus(c, IF line[c] = "busy" THEN "no_answer" ELSE "failed")
    /\ \/ again /\ NextAttempt(t, c, n + 1)
       \/ ~again /\ task' = [task EXCEPT ![t] = IdleTask]
    /\ UNCHANGED <<phoneVars, queue, workVars, starts>>

------------------------------------------------------------------------------
(* The worker around a job, as BullMQ runs it.                               *)

Call(w) == slot[w].job[2]
Goto(w, pc) == slot' = [slot EXCEPT ![w].pc = pc]

Take(w, j) ==
    /\ slot[w].pc = "idle"
    /\ queue[j].st = "wait"
    /\ queue' = [queue EXCEPT ![j].st = "active"]
    /\ slot' = [slot EXCEPT ![w] = [pc |-> IF j[1] = "call" THEN "claim" ELSE "check",
                                    job |-> j, locked |-> TRUE]]
    /\ UNCHANGED <<row, phoneVars, stops, taskVars>>

\* Of a finished "call" job the id is kept; a check's id is never used again.
Closed(j) == IF j[1] = "call" THEN [NoJob EXCEPT !.st = "done"] ELSE NoJob

JobReturns(w) ==
    LET j == slot[w].job IN
    /\ slot[w].pc = "return"
    /\ slot' = [slot EXCEPT ![w] = Free]
    /\ queue' = IF slot[w].locked THEN [queue EXCEPT ![j] = Closed(j)] ELSE queue
    /\ UNCHANGED <<row, phoneVars, stops, taskVars>>

LastAttempt(j) == queue[j].made + 1 >= Attempts

JobThrows(w) ==
    LET j == slot[w].job IN
    /\ slot[w].pc = "throw"
    /\ slot' = [slot EXCEPT ![w] = Free]
    /\ queue' = IF ~slot[w].locked THEN queue
                ELSE IF LastAttempt(j) THEN [queue EXCEPT ![j] = Closed(j)]
                ELSE [queue EXCEPT ![j].made = @ + 1, ![j].st = "wait"]
    /\ UNCHANGED <<row, phoneVars, stops, taskVars>>

StalledCheck(j) ==
    /\ queue[j].st = "active"
    /\ \A w \in Workers : ~(slot[w].job = j /\ slot[w].locked)
    /\ queue' = IF queue[j].stalls + 1 > MaxStalled THEN [queue EXCEPT ![j] = Closed(j)]
                ELSE [queue EXCEPT ![j].stalls = @ + 1, ![j].st = "wait"]
    /\ UNCHANGED <<row, phoneVars, workVars, taskVars>>

LockExpires(w) ==
    /\ "stall" \in Faults /\ stops < MaxStops
    /\ slot[w].locked
    /\ slot' = [slot EXCEPT ![w].locked = FALSE]
    /\ stops' = stops + 1
    /\ UNCHANGED <<row, phoneVars, queue, taskVars>>

WorkerCrash ==
    /\ "crash" \in Faults /\ stops < MaxStops
    /\ \E w \in Workers : slot[w].pc # "idle"
    /\ slot' = [w \in Workers |-> Free]
    /\ stops' = stops + 1
    /\ UNCHANGED <<row, phoneVars, queue, taskVars>>

------------------------------------------------------------------------------
(* executeCall().                                                            *)

\* Broken: every job that comes along dials.
ClaimAny(w) ==
    /\ slot[w].pc = "claim"
    /\ SetStatus(Call(w), "calling")
    /\ Goto(w, "gates")
    /\ UNCHANGED <<phoneVars, queue, stops, taskVars>>

\* Only a scheduled row may dial.
Claim(w) ==
    LET c == Call(w) IN
    /\ slot[w].pc = "claim"
    /\ \/ row[c].st = "scheduled" /\ SetStatus(c, "calling") /\ Goto(w, "gates")
       \/ row[c].st # "scheduled" /\ Goto(w, "return") /\ UNCHANGED row
    /\ UNCHANGED <<phoneVars, queue, stops, taskVars>>

\* A gate closed meanwhile, the business window is over, or the call goes out.
CheckGates(w) ==
    /\ slot[w].pc = "gates"
    /\ \/ SetStatus(Call(w), "canceled") /\ Goto(w, "return")
       \/ /\ slot[w].job[3] < MaxDefers
          /\ SetStatus(Call(w), "scheduled")
          /\ Goto(w, "defer")
       \/ Goto(w, "dial") /\ UNCHANGED row
    /\ UNCHANGED <<phoneVars, queue, stops, taskVars>>

\* Broken: the job is queued again under the id it is running under.
DeferSameId(w) ==
    /\ slot[w].pc = "defer"
    /\ queue' = Added(slot[w].job)
    /\ Goto(w, "return")
    /\ UNCHANGED <<row, phoneVars, stops, taskVars>>

\* The row is scheduled again; its job for the next window has an id of its own.
Defer(w) ==
    /\ slot[w].pc = "defer"
    /\ queue' = Added(<<"call", Call(w), slot[w].job[3] + 1>>)
    /\ Goto(w, "return")
    /\ UNCHANGED <<row, phoneVars, stops, taskVars>>

\* The provider accepts the call: the phone rings, the row does not know yet.
Dial(w) ==
    /\ slot[w].pc = "dial"
    /\ rings[Call(w)] < MaxRings
    /\ rings' = [rings EXCEPT ![Call(w)] = @ + 1]
    /\ Goto(w, "record")
    /\ UNCHANGED <<row, line, queue, stops, taskVars>>

\* The gateway's own safety gate: test mode, unusable number, not configured.
DialBlocked(w) ==
    /\ slot[w].pc = "dial"
    /\ \E status \in {"blocked", "failed"} : SetStatus(Call(w), status)
    /\ Goto(w, "return")
    /\ UNCHANGED <<phoneVars, queue, stops, taskVars>>

\* Dialling fails: put the row back for BullMQ's retry, or give up on the last attempt.  The
\* provider may have placed the call all the same.
DialFails(w) ==
    LET c == Call(w) IN
    /\ slot[w].pc = "dial"
    /\ \E placed \in BOOLEAN :
        /\ placed => "unrecorded" \in Faults /\ rings[c] < MaxRings
        /\ rings' = IF placed THEN [rings EXCEPT ![c] = @ + 1] ELSE rings
    /\ \/ /\ ~LastAttempt(slot[w].job)
          /\ row' = [row EXCEPT ![c].st = IF @ = "calling" THEN "scheduled" ELSE @]
          /\ Goto(w, "throw")
       \/ /\ LastAttempt(slot[w].job)
          /\ SetStatus(c, "failed")
          /\ Goto(w, "return")
    /\ UNCHANGED <<line, queue, stops, taskVars>>

\* From here on a webhook finds the row.
Record(w) ==
    LET c == Call(w) IN
    /\ slot[w].pc = "record"
    /\ SetStatus(c, "in_progress")
    /\ line' = [line EXCEPT ![c] = "talking"]
    /\ Goto(w, "arm")
    /\ UNCHANGED <<rings, queue, stops, taskVars>>

\* Without the first check nobody watches the call.
Arm(w) ==
    /\ slot[w].pc = "arm"
    /\ queue' = Added(<<"check", Call(w), 1>>)
    /\ Goto(w, "return")
    /\ UNCHANGED <<row, phoneVars, stops, taskVars>>

------------------------------------------------------------------------------
(* checkCall(), the watchdog.                                                *)

\* The row is read before the provider is asked.
ReadCall(w) ==
    /\ slot[w].pc = "check"
    /\ Goto(w, IF row[Call(w)].st = "in_progress" THEN "poll" ELSE "return")
    /\ UNCHANGED <<row, phoneVars, queue, stops, taskVars>>

\* The call is young enough for another check.
Rearm(w) ==
    LET n == slot[w].job[3] IN
    /\ n < MaxChecks
    /\ queue' = Added(<<"check", Call(w), n + 1>>)

\* Broken: a failed poll fails the job.
PollThrows(w) ==
    LET c == Call(w) IN
    /\ slot[w].pc = "poll"
    /\ \/ line[c] = "done" /\ SetStatus(c, "completed") /\ Goto(w, "return") /\ UNCHANGED queue
       \/ line[c] # "done" /\ SetStatus(c, "failed") /\ Goto(w, "return") /\ UNCHANGED queue
       \/ line[c] = "talking" /\ Rearm(w) /\ Goto(w, "return") /\ UNCHANGED row
       \/ Goto(w, "throw") /\ UNCHANGED <<row, queue>>
    /\ UNCHANGED <<phoneVars, stops, taskVars>>

\* The provider's answer is written without looking at the row again: the transcript, or
\* failure.  An unfinished conversation, or a poll that fails, means another check, until
\* the call is too old.
Poll(w) ==
    LET c == Call(w) IN
    /\ slot[w].pc = "poll"
    /\ \/ line[c] = "done" /\ SetStatus(c, "completed") /\ UNCHANGED queue
       \/ SetStatus(c, "failed") /\ UNCHANGED queue
       \/ Rearm(w) /\ UNCHANGED row
    /\ Goto(w, "return")
    /\ UNCHANGED <<phoneVars, stops, taskVars>>

------------------------------------------------------------------------------
Booking(t) == CreateCall(t) \/ Resume(t) \/ AddCall(t) \/ RollBack(t) \/ WriteFailure(t)

Run(w) ==
    \/ Claim(w) \/ CheckGates(w) \/ Defer(w)
    \/ Dial(w) \/ DialBlocked(w) \/ DialFails(w) \/ Record(w) \/ Arm(w)
    \/ ReadCall(w) \/ Poll(w)
    \/ JobReturns(w) \/ JobThrows(w)

Next ==
    \/ \E t \in Tasks : Booking(t) \/ ScheduleAutoCalls(t) \/ TriggerManualCall(t)
    \/ \E t \in Tasks, c \in Calls : InitiationFailure(t, c)
    \/ \E c \in Calls : CancelCall(c) \/ Ends(c) \/ Transcription(c)
    \/ \E w \in Workers : Run(w) \/ LockExpires(w)
    \/ \E w \in Workers, j \in Jobs : Take(w, j)
    \/ \E j \in Jobs : StalledCheck(j)
    \/ WorkerCrash

Spec == Init /\ [][Next]_vars

------------------------------------------------------------------------------
(* Properties.                                                               *)

Live(j) == queue[j].st \in {"wait", "active"}

\* As long as locks are lost no more often than maxStalledCount, a scheduled call has a job
\* that will dial it, or a booking that is about to queue one.
\* Nothing rescans scheduled rows, and such a row blocks every later call as an active one
\* (voice-calls.service.ts:78, "so nothing strands in 'scheduled'").
NoStrandedBooking ==
    \A c \in Calls : row[c].st = "scheduled" =>
        \/ \E n \in 0 .. MaxDefers : Live(<<"call", c, n>>)
        \/ \E t \in Tasks : task[t].pc \in {"add", "rollback"} /\ task[t].c = c

\* However often a failure is reported, by however many concurrent deliveries, a call is
\* followed by one next attempt, and by none once MAX_ATTEMPTS are used up.
OneNextAttempt ==
    \A c, d \in Calls :
        row[c].attempt > 1 /\ row[d].attempt > 1 /\ row[c].key = row[d].key => c = d

\* A call is followed by a next attempt only after it has ended without a conversation, and
\* it stays that way: nobody who was talked to is rung again by a retry.
RetryAfterNoAnswer ==
    \A c, d \in Calls :
        row[d].key = c => row[c].st \in {"no_answer", "failed"} /\ row[d].attempt = row[c].attempt + 1

\* While a call is in progress its chain of checks does not break: each check queues the next
\* one before it is done, though every webhook be lost and every poll fail
\* (voice-call.processor.ts:210-213), as long as locks are lost no more often than
\* maxStalledCount.  MAX_CALL_AGE_MS bounds the chain, so the call ends.
Watched(c) == \E n \in 1 .. MaxChecks : Live(<<"check", c, n>>)
ChecksGoOn ==
    [][\A c \in Calls :
        row[c].st = "in_progress" /\ Watched(c) => Watched(c)' \/ row'[c].st # "in_progress"]_vars

\* What a lost 'call_initiation_failure' would have written, the watchdog writes
\* (voice-results.service.ts:37): a call nobody answered ends as no_answer.
LostFailureIsRederived ==
    \A c \in Calls : line[c] = "busy" /\ row[c].st \in Over => row[c].st = "no_answer"

PhaseOf(status) ==
    CASE status = "none" -> "none"
      [] status \in {"scheduled", "unqueued"} -> "booked"
      [] status = "calling" -> "dialling"
      [] status = "in_progress" -> "live"
      [] OTHER -> "over"

Book == INSTANCE ScreeningBook WITH
    phase <- [c \in Calls |-> PhaseOf(row[c].st)],
    rang  <- [c \in Calls |-> rings[c] > 0]

\* Bookings, worker, webhooks and watchdog together implement the book: the phone rings at
\* most once per call, and an ended call stays ended.
KeepsBook == Book!Spec
==============================================================================
