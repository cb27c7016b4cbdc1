----------------------------- MODULE EmailIntake -----------------------------
(***************************************************************************)
(* The life of an inbound e-mail: the Mailgun webhook (WebhooksService),   *)
(* the BullMQ queue "ingest-email", the ingest worker (IngestionProcessor) *)
(* and the operator's pause and replay (IngestControlService).             *)
(*                                                                         *)
(* The intake row (email_intake_log) is the state everybody shares.  The   *)
(* webhook creates it and puts a job on the queue, a worker slot moves it  *)
(* through the phases of run(), and replayHeld() puts parked rows back.    *)
(* Every await that another actor can slip into is a step of its own.      *)
(*                                                                         *)
(* One vacancy stands for all of them: an e-mail either targets it or      *)
(* targets none.  It may close, and open again, at any moment.             *)
(***************************************************************************)
EXTENDS Integers

CONSTANTS
    Messages,        \* Message-Ids
    Workers,         \* slots of the worker process (INGEST_CONCURRENCY)
    Requests,        \* webhook requests the API serves at a time
    Admins,          \* replayHeld() calls in progress at a time
    Contact,         \* Contact[m]: the e-mail/phone identity extracted from m
    NoContact,       \* a CV that names neither
    Spam,            \* messages the spam filter rejects
    Unparseable,     \* messages a delivery of which may fail to parse
    Explicit,        \* messages that quote the vacancy's number
    None,            \* no candidate, no message, no cached answer
    Attempts,        \* INGEST_JOB_OPTS.attempts
    MaxStalled,      \* maxStalledCount of the worker
    MaxReplays,      \* bound: claims replayHeld() may win per message
    MaxDeliveries,   \* bound: deliveries of one message
    MaxStops,        \* bound: lock expiries and worker crashes, in total
    MaxInserts,      \* bound: candidates one message could be inserted as
    Faults           \* what may happen besides in this instance, see FaultKinds

(* "write"    a status write of an error path fails                        *)
(* "reply"    the write that settles a row commits, its reply is lost      *)
(* "read"     the row cannot be read or marked as a job starts             *)
(* "queue"    Redis refuses a command, or its reply is lost                *)
(* "flap"     add() is accepted, its reply and the getJob() after it lost  *)
(* "redeliver" Mailgun sends again what was already answered               *)
(* "verdicts" R2 refuses to store a classification                         *)
(* "matches"  R2 refuses to store a matching                               *)
(* "stall"    a lock expires under a slot that is still running            *)
(* "crash"    the worker process dies                                      *)
(* "api"      the API process dies                                         *)
(* "close"    a recruiter closes the vacancy or opens it again             *)
FaultKinds == {"write", "reply", "read", "queue", "flap", "redeliver", "verdicts", "matches",
               "stall", "crash", "api", "close"}

JobKeys    == 0 .. (MaxReplays + MaxDeliveries)     \* 0 is ingestJobId, the rest replay ids
Jobs       == Messages \X JobKeys
Candidates == Messages \X (1 .. MaxInserts)         \* <<m, n>>: the n-th inserted for m

ASSUME BoundsAssumption ==
    /\ Attempts \in Nat \ {0}
    /\ MaxStalled \in Nat
    /\ MaxReplays \in Nat
    /\ MaxDeliveries \in Nat
    /\ MaxStops \in Nat
    /\ MaxInserts \in Nat
ASSUME FaultsAssumption == Faults \subseteq FaultKinds
ASSUME NoneAssumption ==
    /\ None \notin Candidates
    /\ None \notin Messages
    /\ None \notin Jobs
    /\ None \notin {"cv", "not_cv", "uncertain", "job", "empty"}

VARIABLES
    row,        \* row[m]: processing_status of m's intake row, "none" before it exists
    owner,      \* owner[m]: candidate_id of that row
    verdict,    \* verdict[m]: the classification cached in R2
    target,     \* target[m]: the matching cached in R2
    missed,     \* messages the cached vacancy of which was looked up and found closed
    people,     \* rows of candidates
    placed,     \* candidates with a job_id, and the application for it
    scored,     \* candidates whose application carries a score
    open,       \* the vacancy's status is open
    gate,       \* organization.ai_ingest_enabled
    queue,      \* queue[j]: BullMQ's record of job j
    used,       \* used[m]: replay ids handed out for m
    events,     \* 'failed' events not handled yet: <<job, its attemptsMade>>
    slot,       \* slot[w]: what worker slot w is doing
    stops,      \* lock expiries and crashes so far
    mail,       \* mail[m]: "owed" until Mailgun is answered 200, then "acked"
    sent,       \* sent[m]: deliveries of m so far
    req,        \* req[q]: webhook request q
    adm         \* adm[a]: replayHeld() call a

rowVars    == <<row, owner>>
cacheVars  == <<verdict, target, missed>>
peopleVars == <<people, placed, scored, open>>     \* the recruiters' tables
queueVars  == <<queue, used, events>>
mailVars   == <<mail, sent>>
workVars   == <<slot, stops>>
vars == <<rowVars, cacheVars, peopleVars, gate, queueVars, workVars, mailVars, req, adm>>

Status   == {"none", "pending", "processing", "held", "failed",
             "completed", "spam", "not_cv", "needs_review"}
TERMINAL == {"completed", "spam", "not_cv", "needs_review"}

\* The phases of run(), in their order: between two of them the slot awaits.
RunPhases == {"gate", "classify", "identify", "match", "place", "score", "complete"}
Phases    == RunPhases \cup {"idle", "read", "mark", "catch", "return", "throw"}

Free    == [pc |-> "idle", job |-> None, locked |-> FALSE, attempt |-> 0,
            seen |-> None, hit |-> None, err |-> None]
IdleReq == [pc |-> "idle", m |-> None, act |-> None, key |-> 0]
IdleAdm == [pc |-> "idle", list |-> {}, m |-> None, key |-> 0]
NoJob   == [st |-> "none", made |-> 0, stalls |-> 0]
NewJob  == [NoJob EXCEPT !.st = "wait"]

JobRecord  == [st : {"none", "wait", "active", "completed", "failed"}, made : Nat, stalls : Nat]
SlotRecord == [pc : Phases, job : Jobs \cup {None}, locked : BOOLEAN, attempt : Nat,
               seen : Candidates \cup {None}, hit : {None, "job", "empty"},
               err : {None, "upstream", "other"}]
ReqRecord  == [pc : {"idle", "create", "ensure", "act"}, m : Messages \cup {None},
               act : {None, "add", "retry", "replay"}, key : JobKeys]
AdmRecord  == [pc : {"idle", "claim", "add"}, list : SUBSET Messages,
               m : Messages \cup {None}, key : JobKeys]

RowOK ==
    /\ row \in [Messages -> Status]
    /\ owner \in [Messages -> Candidates \cup {None}]
CacheOK ==
    /\ verdict \in [Messages -> {None, "cv", "not_cv", "uncertain"}]
    /\ target \in [Messages -> {None, "job", "empty"}]
    /\ missed \subseteq Messages
PeopleOK ==
    /\ people \subseteq Candidates
    /\ placed \subseteq people
    /\ scored \subseteq placed
    /\ open \in BOOLEAN
QueueOK ==
    /\ queue \in [Jobs -> JobRecord]
    /\ used \in [Messages -> JobKeys]
    /\ events \subseteq Jobs \X Nat
WorkOK ==
    /\ slot \in [Workers -> SlotRecord]
    /\ stops \in 0 .. MaxStops
MailOK ==
    /\ mail \in [Messages -> {"owed", "acked"}]
    /\ sent \in [Messages -> 0 .. MaxDeliveries]
CallsOK ==
    /\ req \in [Requests -> ReqRecord]
    /\ adm \in [Admins -> AdmRecord]
TypeOK ==
    RowOK /\ CacheOK /\ PeopleOK /\ gate \in BOOLEAN /\ QueueOK /\ WorkOK /\ MailOK /\ CallsOK

Init ==
    /\ row = [m \in Messages |-> "none"]
    /\ owner = [m \in Messages |-> None]
    /\ verdict = [m \in Messages |-> None]
    /\ target = [m \in Messages |-> None]
    /\ missed = {}
    /\ people = {} /\ placed = {} /\ scored = {}
    /\ open = TRUE
    /\ gate \in BOOLEAN
    /\ queue = [j \in Jobs |-> NoJob]
    /\ used = [m \in Messages |-> 0]
    /\ events = {}
    /\ slot = [w \in Workers |-> Free]
    /\ stops = 0
    /\ mail = [m \in Messages |-> "owed"]
    /\ sent = [m \in Messages |-> 0]
    /\ req = [q \in Requests |-> IdleReq]
    /\ adm = [a \in Admins |-> IdleAdm]

------------------------------------------------------------------------------
(* Webhook: WebhooksService.enqueue, ensureEnqueued, recordRejected.         *)

Base(m) == <<m, 0>>

Answer200(q, m) ==
    /\ mail' = [mail EXCEPT ![m] = "acked"]
    /\ req' = [req EXCEPT ![q] = IdleReq]

\* Mailgun sends a message until it is answered 200, one request at a time.
MayDeliver(m) ==
    /\ sent[m] < MaxDeliveries
    /\ \/ mail[m] = "owed" /\ \A q \in Requests : req[q].m # m
       \/ "redeliver" \in Faults

\* enqueue(): the lookup of the row decides what the request is going to do.
Deliver(q, m) ==
    /\ req[q].pc = "idle"
    /\ MayDeliver(m)
    /\ sent' = [sent EXCEPT ![m] = @ + 1]
    /\ \/ /\ row[m] = "none"
          /\ req' = [req EXCEPT ![q] = [IdleReq EXCEPT !.pc = "create", !.m = m]]
          /\ UNCHANGED mail
       \/ /\ row[m] = "pending"
          /\ req' = [req EXCEPT ![q] = [IdleReq EXCEPT !.pc = "ensure", !.m = m]]
          /\ UNCHANGED mail
       \/ /\ row[m] \notin {"none", "pending"}
          /\ Answer200(q, m)
    /\ UNCHANGED <<rowVars, cacheVars, peopleVars, gate, queueVars, workVars, adm>>

\* The payload is in R2; insert the row, or lose the race (P2002) and converge.
CreateRow(q) ==
    LET m == req[q].m IN
    /\ req[q].pc = "create"
    /\ row' = [row EXCEPT ![m] = IF @ = "none" THEN "pending" ELSE @]
    /\ req' = [req EXCEPT ![q].pc = "ensure"]
    /\ UNCHANGED <<owner, cacheVars, peopleVars, gate, queueVars, workVars, mailVars, adm>>

\* ensureEnqueued(): look the deterministic job up and decide.
EnsureEnqueued(q) ==
    LET m  == req[q].m
        st == queue[Base(m)].st
        Decide(act, key) ==
            /\ req' = [req EXCEPT ![q].pc = "act", ![q].act = act, ![q].key = key]
            /\ UNCHANGED mail
    IN
    /\ req[q].pc = "ensure"
    /\ \/ /\ st = "none"
          /\ Decide("add", 0)
          /\ UNCHANGED used
       \/ /\ st = "failed"
          /\ Decide("retry", 0)
          /\ UNCHANGED used
       \/ /\ st = "completed"
          /\ used[m] < MaxReplays + MaxDeliveries
          /\ Decide("replay", used[m] + 1)
          /\ used' = [used EXCEPT ![m] = @ + 1]
       \/ /\ st \in {"wait", "active"}
          /\ Answer200(q, m)
          /\ UNCHANGED used
    /\ UNCHANGED <<rowVars, cacheVars, peopleVars, gate, queue, events, workVars, sent, adm>>

\* add() ignores an id that is retained in any state; retry() needs a failed job and keeps
\* its attempt and stall counters.
Enqueued(j, act) ==
    IF act = "retry" THEN [queue EXCEPT ![j].st = "wait"]
    ELSE IF queue[j].st = "none" THEN [queue EXCEPT ![j] = NewJob]
    ELSE queue

ActOnQueue(q) ==
    LET m == req[q].m
        j == <<m, req[q].key>>
        accepted == req[q].act = "retry" => queue[j].st = "failed"
    IN
    /\ req[q].pc = "act"
    /\ \/ /\ accepted
          /\ queue' = Enqueued(j, req[q].act)
          /\ Answer200(q, m)
       \/ /\ accepted /\ "queue" \in Faults          \* the reply is lost: 500
          /\ queue' = Enqueued(j, req[q].act)
          /\ req' = [req EXCEPT ![q] = IdleReq]
          /\ UNCHANGED mail
       \/ /\ ~accepted \/ "queue" \in Faults         \* refused: 500
          /\ req' = [req EXCEPT ![q] = IdleReq]
          /\ UNCHANGED <<queue, mail>>
    /\ UNCHANGED <<rowVars, cacheVars, peopleVars, gate, used, events, workVars, sent, adm>>

\* Broken: a rejected delivery overwrites whatever the row says.
RecordRejectedOverwrites(m) ==
    /\ m \in Unparseable
    /\ MayDeliver(m)
    /\ sent' = [sent EXCEPT ![m] = @ + 1]
    /\ row' = [row EXCEPT ![m] = "failed"]
    /\ mail' = [mail EXCEPT ![m] = "acked"]
    /\ UNCHANGED <<owner, cacheVars, peopleVars, gate, queueVars, workVars, req, adm>>

\* recordRejected(): an unparseable delivery is recorded, never over an accepted one.
RecordRejected(m) ==
    /\ m \in Unparseable
    /\ MayDeliver(m)
    /\ sent' = [sent EXCEPT ![m] = @ + 1]
    /\ row' = [row EXCEPT ![m] = IF @ = "none" THEN "failed" ELSE @]
    /\ mail' = [mail EXCEPT ![m] = "acked"]
    /\ UNCHANGED <<owner, cacheVars, peopleVars, gate, queueVars, workVars, req, adm>>

------------------------------------------------------------------------------
(* The worker around a job: BullMQ's bookkeeping, process(), the backstop.   *)

JobOf(w) == slot[w].job
Msg(w)   == slot[w].job[1]
Goto(w, pc) == slot' = [slot EXCEPT ![w].pc = pc]

\* The run is over: all that is left of it is the job and its lock.
Leave(w, pc) ==
    slot' = [slot EXCEPT ![w] = [Free EXCEPT !.pc = pc, !.job = slot[w].job,
                                             !.locked = slot[w].locked]]

\* BullMQ hands a waiting job to a free slot and locks it.
Take(w, j) ==
    /\ slot[w].pc = "idle"
    /\ queue[j].st = "wait"
    /\ queue' = [queue EXCEPT ![j].st = "active"]
    /\ slot' = [slot EXCEPT ![w] = [Free EXCEPT !.pc = "read", !.job = j, !.locked = TRUE,
                                                !.attempt = queue[j].made + 1]]
    /\ UNCHANGED <<rowVars, cacheVars, peopleVars, gate, used, events, stops, mailVars, req, adm>>

\* process(): one read of the row; a finished row makes the job a stale duplicate.
ReadIntake(w) ==
    LET m == Msg(w) IN
    /\ slot[w].pc = "read"
    /\ \/ row[m] \in TERMINAL /\ Leave(w, "return")
       \/ row[m] \notin TERMINAL /\ slot' = [slot EXCEPT ![w].pc = "mark", ![w].seen = owner[m]]
    /\ UNCHANGED <<rowVars, cacheVars, peopleVars, gate, queueVars, stops, mailVars, req, adm>>

MarkProcessing(w) ==
    /\ slot[w].pc = "mark"
    /\ row' = [row EXCEPT ![Msg(w)] = "processing"]
    /\ Goto(w, "gate")
    /\ UNCHANGED <<owner, cacheVars, peopleVars, gate, queueVars, stops, mailVars, req, adm>>

\* The two statements before the try block throw past process().
ReadOrMarkFails(w) ==
    /\ "read" \in Faults
    /\ slot[w].pc \in {"read", "mark"}
    /\ Leave(w, "throw")
    /\ UNCHANGED <<rowVars, cacheVars, peopleVars, gate, queueVars, stops, mailVars, req, adm>>

Throw(w, kind) ==
    slot' = [slot EXCEPT ![w].pc = "catch", ![w].err = kind, ![w].seen = None, ![w].hit = None]

\* Any phase of run() may throw, on an upstream provider's error or on another.
PhaseThrows(w, kind) ==
    /\ slot[w].pc \in RunPhases
    /\ Throw(w, kind)
    /\ UNCHANGED <<rowVars, cacheVars, peopleVars, gate, queueVars, stops, mailVars, req, adm>>

\* A status write of the catch block; its own failure is swallowed.
WriteOrSwallow(m, status) ==
    \/ row' = [row EXCEPT ![m] = status]
    \/ "write" \in Faults /\ UNCHANGED row

\* Broken: an outage that outlives the attempts leaves the row as it is.
CatchForgetsHeld(w) ==
    LET final == slot[w].attempt >= Attempts IN
    /\ slot[w].pc = "catch"
    /\ \/ ~final /\ Leave(w, "throw") /\ UNCHANGED row
       \/ final /\ slot[w].err = "upstream" /\ Leave(w, "return") /\ UNCHANGED row
       \/ final /\ slot[w].err = "other" /\ WriteOrSwallow(Msg(w), "failed") /\ Leave(w, "throw")
    /\ UNCHANGED <<owner, cacheVars, peopleVars, gate, queueVars, stops, mailVars, req, adm>>

Catch(w) ==
    LET final == slot[w].attempt >= Attempts IN
    /\ slot[w].pc = "catch"
    /\ \/ /\ ~final
          /\ Leave(w, "throw")
          /\ UNCHANGED row
       \/ /\ final /\ slot[w].err = "upstream"
          /\ WriteOrSwallow(Msg(w), "held")
          /\ Leave(w, "return")
       \/ /\ final /\ slot[w].err = "other"
          /\ WriteOrSwallow(Msg(w), "failed")
          /\ Leave(w, "throw")
    /\ UNCHANGED <<owner, cacheVars, peopleVars, gate, queueVars, stops, mailVars, req, adm>>

\* The handler returned: BullMQ completes the job, unless its lock is gone.
JobReturns(w) ==
    /\ slot[w].pc = "return"
    /\ queue' = IF slot[w].locked THEN [queue EXCEPT ![JobOf(w)].st = "completed"] ELSE queue
    /\ slot' = [slot EXCEPT ![w] = Free]
    /\ UNCHANGED <<rowVars, cacheVars, peopleVars, gate, used, events, stops, mailVars, req, adm>>

\* The handler threw: BullMQ retries the job until its attempts are used up.
JobThrows(w) ==
    LET j     == JobOf(w)
        final == queue[j].made + 1 >= Attempts
    IN
    /\ slot[w].pc = "throw"
    /\ slot' = [slot EXCEPT ![w] = Free]
    /\ \/ /\ slot[w].locked
          /\ queue' = [queue EXCEPT ![j].made = @ + 1,
                                    ![j].st = IF final THEN "failed" ELSE "wait"]
          /\ events' = IF final THEN events \cup {<<j, queue[j].made + 1>>} ELSE events
       \/ /\ ~slot[w].locked
          /\ UNCHANGED <<queue, events>>
    /\ UNCHANGED <<rowVars, cacheVars, peopleVars, gate, used, stops, mailVars, req, adm>>

\* An active job nobody holds a lock on is re-run, maxStalledCount times; then it fails
\* with the attempts it has made.
StalledCheck(j) ==
    LET exceeded == queue[j].stalls + 1 > MaxStalled IN
    /\ queue[j].st = "active"
    /\ \A w \in Workers : ~(slot[w].job = j /\ slot[w].locked)
    /\ queue' = [queue EXCEPT ![j].stalls = @ + 1,
                              ![j].st = IF exceeded THEN "failed" ELSE "wait"]
    /\ events' = IF exceeded THEN events \cup {<<j, queue[j].made>>} ELSE events
    /\ UNCHANGED <<rowVars, cacheVars, peopleVars, gate, used, workVars, mailVars, req, adm>>

\* Broken: the backstop stamps every row, not only an unfinished one.
OnFailedUnguarded(e) ==
    /\ e \in events
    /\ events' = events \ {e}
    /\ row' = IF e[2] >= Attempts THEN [row EXCEPT ![e[1][1]] = "failed"] ELSE row
    /\ UNCHANGED <<owner, cacheVars, peopleVars, gate, queue, used, workVars, mailVars, req, adm>>

\* onFailed(): stamp a row that nobody is going to touch again.
OnFailed(e) ==
    LET m == e[1][1] IN
    /\ e \in events
    /\ events' = events \ {e}
    /\ \/ /\ e[2] >= Attempts
          /\ \/ row' = [row EXCEPT ![m] = IF @ \in {"pending", "processing"} THEN "failed" ELSE @]
             \/ "write" \in Faults /\ UNCHANGED row
       \/ /\ e[2] < Attempts
          /\ UNCHANGED row
    /\ UNCHANGED <<owner, cacheVars, peopleVars, gate, queue, used, workVars, mailVars, req, adm>>

\* The event loop is blocked for longer than lockDuration; the slot does not notice.
LockExpires(w) ==
    /\ "stall" \in Faults /\ stops < MaxStops
    /\ slot[w].locked
    /\ slot' = [slot EXCEPT ![w].locked = FALSE]
    /\ stops' = stops + 1
    /\ UNCHANGED <<rowVars, cacheVars, peopleVars, gate, queueVars, mailVars, req, adm>>

WorkerCrash ==
    /\ "crash" \in Faults /\ stops < MaxStops
    /\ \E w \in Workers : slot[w].pc # "idle"
    /\ slot' = [w \in Workers |-> Free]
    /\ events' = {}
    /\ stops' = stops + 1
    /\ UNCHANGED <<rowVars, cacheVars, peopleVars, gate, queue, used, mailVars, req, adm>>

------------------------------------------------------------------------------
(* The phases of run().                                                      *)

\* A phase that ends the run by writing the row's status; to the run a write whose reply is
\* lost looks like one that failed.
Finish(w, status) ==
    /\ row' = [row EXCEPT ![Msg(w)] = status]
    /\ \/ Leave(w, "return")
       \/ "reply" \in Faults /\ \E kind \in {"upstream", "other"} : Throw(w, kind)

\* Spam filter, then the tenant's pause switch, before the first paid call.
SpamAndGate(w) ==
    /\ slot[w].pc = "gate"
    /\ \/ /\ Msg(w) \in Spam
          /\ Finish(w, "spam")
       \/ /\ Msg(w) \notin Spam /\ ~gate
          /\ Finish(w, "held")
       \/ /\ Msg(w) \notin Spam /\ gate
          /\ Goto(w, "classify")
          /\ UNCHANGED row
    /\ UNCHANGED <<owner, cacheVars, peopleVars, gate, queueVars, stops, mailVars, req, adm>>

\* A fresh answer is cached for the next attempt, over no earlier one; a cache that cannot be
\* written only warns.
CacheOrWarn(refused, cached, fresh) ==
    IF cached # None THEN {cached} ELSE {fresh} \cup (IF refused \in Faults THEN {None} ELSE {})

\* Broken: every attempt asks the model again.
VerdictsAskAgain(m) == {"cv", "not_cv", "uncertain"}

\* The classifier answers from its cache, else from the model.
Verdicts(m) == IF verdict[m] # None THEN {verdict[m]} ELSE {"cv", "not_cv", "uncertain"}

Classify(w) ==
    LET m == Msg(w) IN
    /\ slot[w].pc = "classify"
    /\ \E v \in Verdicts(m) :
        /\ \E c \in CacheOrWarn("verdicts", verdict[m], v) : verdict' = [verdict EXCEPT ![m] = c]
        /\ \/ v = "cv" /\ Goto(w, "identify") /\ UNCHANGED row
           \/ v = "not_cv" /\ Finish(w, "not_cv")
           \/ v = "uncertain" /\ Finish(w, "needs_review")
    /\ UNCHANGED <<owner, target, missed, peopleVars, gate, queueVars, stops, mailVars, req, adm>>

SamePerson(m) == {c \in people : Contact[m] # NoContact /\ Contact[c[1]] = Contact[m]}

\* Broken: a retry goes through Phase 6 again.
IdentifyAlways(w) ==
    LET m == Msg(w) IN
    /\ slot[w].pc = "identify"
    /\ \E c \in Candidates :
        /\ \/ c \in SamePerson(m) /\ UNCHANGED people
           \/ SamePerson(m) = {} /\ c[1] = m /\ c \notin people /\ people' = people \cup {c}
        /\ owner' = [owner EXCEPT ![m] = c]
        /\ slot' = [slot EXCEPT ![w].pc = "match", ![w].seen = c]
    /\ UNCHANGED <<row, cacheVars, placed, scored, open, gate, queueVars, stops, mailVars, req, adm>>

\* Broken: the row is written outside the transaction that inserts the candidate, which
\* is then rolled back.
IdentifyTorn(w) ==
    /\ slot[w].pc = "identify"
    /\ \E c \in Candidates :
        /\ c[1] = Msg(w)
        /\ owner' = [owner EXCEPT ![Msg(w)] = c]
        /\ slot' = [slot EXCEPT ![w].pc = "match", ![w].seen = c]
    /\ UNCHANGED <<row, cacheVars, peopleVars, gate, queueVars, stops, mailVars, req, adm>>

\* Phase 6, one transaction under advisory locks: attribute the message to the candidate
\* with its contact, else insert one.  Skipped when the row had a candidate when it was read.
Identify(w) ==
    LET m == Msg(w) IN
    /\ slot[w].pc = "identify"
    /\ \/ /\ slot[w].seen # None
          /\ Goto(w, "match")
          /\ UNCHANGED <<owner, people>>
       \/ /\ slot[w].seen = None
          /\ \E c \in Candidates :
              /\ \/ c \in SamePerson(m) /\ UNCHANGED people
                 \/ /\ SamePerson(m) = {} /\ c[1] = m /\ c \notin people
                    /\ people' = people \cup {c}
              /\ owner' = [owner EXCEPT ![m] = c]
              /\ slot' = [slot EXCEPT ![w].pc = "match", ![w].seen = c]
    /\ UNCHANGED <<row, cacheVars, placed, scored, open, gate, queueVars, stops, mailVars, req, adm>>

\* Broken: a retry derives the target again instead of reading the cache.
TargetsAnew(m, c) ==
    IF ~open THEN {"empty"}
    ELSE IF m \in Explicit THEN {"job"}
    ELSE IF c \in placed THEN {"empty"}
    ELSE {"job", "empty"}

\* Phase 15: the cached answer, else the number the mail quotes, else, for a candidate
\* without a job, the AI matcher's guess; each as far as the vacancy is open now.
Targets(m, c) ==
    IF ~open THEN {"empty"}
    ELSE IF target[m] # None THEN {target[m]}
    ELSE IF m \in Explicit THEN {"job"}
    ELSE IF c \in placed THEN {"empty"}
    ELSE {"job", "empty"}

Match(w) ==
    LET m == Msg(w) IN
    /\ slot[w].pc = "match"
    /\ \E t \in Targets(m, slot[w].seen) :
        /\ \E c \in CacheOrWarn("matches", target[m], t) : target' = [target EXCEPT ![m] = c]
        /\ slot' = [slot EXCEPT ![w].pc = "place", ![w].hit = t]
    /\ missed' = IF target[m] = "job" /\ ~open THEN missed \cup {m} ELSE missed
    /\ UNCHANGED <<rowVars, verdict, peopleVars, gate, queueVars, stops, mailVars, req, adm>>

\* Phase 7, one row-locked transaction: the candidate's job and the application for it.
Place(w) ==
    /\ slot[w].pc = "place"
    /\ \/ /\ slot[w].hit = "job"
          /\ placed' = placed \cup {slot[w].seen}
          /\ Goto(w, "score")
       \/ /\ slot[w].hit = "empty"
          /\ Goto(w, "complete")
          /\ UNCHANGED placed
    /\ UNCHANGED <<rowVars, cacheVars, people, scored, open, gate, queueVars, stops, mailVars, req, adm>>

Score(w) ==
    /\ slot[w].pc = "score"
    /\ scored' = scored \cup {slot[w].seen}
    /\ Goto(w, "complete")
    /\ UNCHANGED <<rowVars, cacheVars, people, placed, open, gate, queueVars, stops, mailVars, req, adm>>

Complete(w) ==
    /\ slot[w].pc = "complete"
    /\ Finish(w, "completed")
    /\ UNCHANGED <<owner, cacheVars, peopleVars, gate, queueVars, stops, mailVars, req, adm>>

------------------------------------------------------------------------------
(* The operator: pause, resume, replay.  A recruiter: the vacancy's status.  *)

SetEnabled ==
    /\ Admins # {}
    /\ gate' = ~gate
    /\ UNCHANGED <<rowVars, cacheVars, peopleVars, queueVars, workVars, mailVars, req, adm>>

\* A recruiter edits or deletes the job: JobsService.updateJob(), deleteJob().
SetOpen ==
    /\ "close" \in Faults
    /\ open' = ~open
    /\ UNCHANGED <<rowVars, cacheVars, people, placed, scored, gate, queueVars, workVars, mailVars,
                   req, adm>>

\* replayHeld() takes one list of held rows and works through it.
ReplayHeld(a) ==
    LET held == {m \in Messages : row[m] = "held"} IN
    /\ adm[a].pc = "idle"
    /\ gate
    /\ held # {}
    /\ adm' = [adm EXCEPT ![a].pc = "claim", ![a].list = held]
    /\ UNCHANGED <<rowVars, cacheVars, peopleVars, gate, queueVars, workVars, mailVars, req>>

\* The next row of the list is claimed if it is still held, and skipped otherwise.
ReplayClaim(a, m) ==
    LET rest == adm[a].list \ {m} IN
    /\ adm[a].pc = "claim"
    /\ m \in adm[a].list
    /\ \/ /\ row[m] = "held"
          /\ used[m] < MaxReplays
          /\ row' = [row EXCEPT ![m] = "pending"]
          /\ used' = [used EXCEPT ![m] = @ + 1]
          /\ adm' = [adm EXCEPT ![a] = [pc |-> "add", list |-> rest, m |-> m, key |-> used[m] + 1]]
       \/ /\ row[m] # "held" \/ used[m] >= MaxReplays
          /\ adm' = [adm EXCEPT ![a].list = rest]
          /\ UNCHANGED <<row, used>>
    /\ UNCHANGED <<owner, cacheVars, peopleVars, gate, queue, events, workVars, mailVars, req>>

\* Broken: a refused add() leaves the claimed row pending.
ReplayAddKeepsClaim(a) ==
    /\ adm[a].pc = "add"
    /\ \/ queue' = Enqueued(<<adm[a].m, adm[a].key>>, "add")
       \/ "queue" \in Faults /\ UNCHANGED queue
    /\ adm' = [adm EXCEPT ![a].pc = "claim", ![a].m = None, ![a].key = 0]
    /\ UNCHANGED <<rowVars, cacheVars, peopleVars, gate, used, events, workVars, mailVars, req>>

\* add() under the fresh id; a refused one puts the row back into held.  When that fails too,
\* the call ends with an error and the rest of its list is left alone.
ReplayAdd(a) ==
    LET m   == adm[a].m
        j   == <<m, adm[a].key>>
        Add == queue' = Enqueued(j, "add")
        Revert == row' = [row EXCEPT ![m] = IF @ = "pending" THEN "held" ELSE @]
        GoOn == adm' = [adm EXCEPT ![a].pc = "claim", ![a].m = None, ![a].key = 0]
    IN
    /\ adm[a].pc = "add"
    /\ \/ Add /\ UNCHANGED row /\ GoOn
       \/ "queue" \in Faults /\ UNCHANGED queue /\ Revert /\ GoOn
       \/ "flap" \in Faults /\ Add /\ Revert /\ GoOn
       \/ /\ {"queue", "write"} \subseteq Faults
          /\ adm' = [adm EXCEPT ![a] = IdleAdm]
          /\ UNCHANGED <<row, queue>>
    /\ UNCHANGED <<owner, cacheVars, peopleVars, gate, used, events, workVars, mailVars, req>>

ReplayDone(a) ==
    /\ adm[a].pc = "claim"
    /\ adm[a].list = {}
    /\ adm' = [adm EXCEPT ![a] = IdleAdm]
    /\ UNCHANGED <<rowVars, cacheVars, peopleVars, gate, queueVars, workVars, mailVars, req>>

\* The API process dies with its requests and replays.
ApiCrash ==
    /\ "api" \in Faults
    /\ req' = [q \in Requests |-> IdleReq]
    /\ adm' = [a \in Admins |-> IdleAdm]
    /\ UNCHANGED <<rowVars, cacheVars, peopleVars, gate, queueVars, workVars, mailVars>>

------------------------------------------------------------------------------
Api ==
    \/ \E q \in Requests : CreateRow(q) \/ EnsureEnqueued(q) \/ ActOnQueue(q)
    \/ \E a \in Admins : (\E m \in Messages : ReplayClaim(a, m)) \/ ReplayAdd(a) \/ ReplayDone(a)

Run(w) ==
    \/ ReadIntake(w) \/ MarkProcessing(w) \/ Catch(w) \/ JobReturns(w) \/ JobThrows(w)
    \/ SpamAndGate(w) \/ Classify(w) \/ Identify(w) \/ Match(w) \/ Place(w) \/ Score(w)
    \/ Complete(w)

Worker ==
    \/ \E w \in Workers : Run(w)
    \/ \E w \in Workers, j \in Jobs : Take(w, j)
    \/ \E j \in Jobs : StalledCheck(j)
    \/ \E e \in events : OnFailed(e)

Outside ==
    \/ \E m \in Messages : RecordRejected(m) \/ (\E q \in Requests : Deliver(q, m))
    \/ \E a \in Admins : ReplayHeld(a)
    \/ SetEnabled
    \/ SetOpen
    \/ \E w \in Workers : \/ ReadOrMarkFails(w)
                          \/ LockExpires(w)
                          \/ \E kind \in {"upstream", "other"} : PhaseThrows(w, kind)
    \/ WorkerCrash
    \/ ApiCrash

Next == Api \/ Worker \/ Outside

Spec == Init /\ [][Next]_vars

(* A request and a replay run to their end, a free slot takes the next job, a *)
(* slot that runs a job goes on, BullMQ checks for stalled jobs and emits its *)
(* events.  Nobody owes the system a delivery, a replay or a working provider.*)
Fairness ==
    /\ WF_vars(Api)
    /\ \A w \in Workers : WF_vars(Run(w) \/ \E j \in Jobs : Take(w, j))
    /\ WF_vars(\E j \in Jobs : StalledCheck(j))
    /\ WF_vars(\E e \in events : OnFailed(e))

FairSpec == Spec /\ Fairness

------------------------------------------------------------------------------
(* Properties.                                                               *)

\* A row that says "pending" or "processing" is somebody's business: a job is queued or
\* active for it, a webhook request or replay is about to queue one, Mailgun will send it
\* again, or a 'failed' event is about to stamp it.  Otherwise the application is lost
\* without a trace: nothing ever rescans such rows.
NoStrandedRow ==
    \A m \in Messages : row[m] \in {"pending", "processing"} =>
        \/ \E k \in JobKeys : queue[<<m, k>>].st \in {"wait", "active"}
        \/ \E q \in Requests : req[q].m = m
        \/ \E a \in Admins : adm[a].m = m
        \/ mail[m] = "owed"
        \/ \E e \in events : e[1][1] = m

\* A finished row is never taken up again: no stale duplicate job (redelivery, replay,
\* stalled re-run) moves it out of a TERMINAL status (ingestion.processor.ts:60).
FinishedStaysFinished ==
    [][\A m \in Messages : row[m] \in TERMINAL => row'[m] = row[m]]_vars

\* However many attempts, replays and duplicate jobs a message gets, at most one candidate
\* is inserted on its behalf (the idempotency guard before Phase 6).
OneCandidatePerMessage ==
    \A c, d \in people : c[1] = d[1] => c = d

\* A message the classifier turned away leaves no candidate behind, whatever its earlier
\* attempts did (the classification cache).
TurnedAwayHasNoCandidate ==
    \A m \in Messages : row[m] \in {"spam", "not_cv", "needs_review"} => owner[m] = None

\* An application without a score has an unfinished intake behind it, which will score it
\* or is parked where an operator sees it; else an attempt found that the vacancy an earlier one
\* had matched is closed, and left the application as it was (the matching cache,
\* ingestion.processor.ts:526-541).
UnscoredIsUnfinished ==
    \A c \in placed \ scored :
        \E m \in Messages : owner[m] = c /\ (row[m] \notin TERMINAL \/ m \in missed)

\* Once Mailgun has its 200, an intake does not stay open for ever: it is finished, or
\* parked as held or failed where an operator sees it.
Settles ==
    \A m \in Messages :
        (mail[m] = "acked" /\ row[m] \in {"pending", "processing"})
            ~> row[m] \notin {"pending", "processing"}

Unfinished == {"pending", "processing", "held", "failed"}

Ledger == INSTANCE IntakeLedger WITH
    People <- Candidates, Nobody <- None, person <- owner,
    status <- [m \in Messages |-> IF row[m] \in Unfinished THEN "open" ELSE row[m]]

\* The pipeline implements the ledger: for every message the status and the candidate change
\* only as IntakeLedger allows, through every retry, redelivery and lost write.
KeepsLedger == Ledger!Spec
==============================================================================
