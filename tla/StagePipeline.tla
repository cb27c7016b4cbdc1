---------------------------- MODULE StagePipeline ----------------------------
(***************************************************************************)
(* Where a candidate is: its job and hiring stage, its applications and    *)
(* their stages, stage summaries and the headline score, as written by the *)
(* recruiter's requests (CandidatesService, JobsService), bulk assignment  *)
(* (assignCandidateToJob), the intake's enrichment and the assessment of   *)
(* voice calls.                                                            *)
(*                                                                         *)
(* The board reads the candidate, voice assessment the application: two    *)
(* copies of one fact, kept equal by every writer for itself.  A request   *)
(* reads, thinks (often with a model call) and commits one transaction;    *)
(* what it read may have changed by then.                                  *)
(***************************************************************************)
EXTENDS Integers

CONSTANTS
    Candidates,
    Jobs,
    Tasks,       \* requests and worker jobs served at a time
    None,        \* null: no job, no stage
    Absent,      \* no application row
    NStages,     \* stages in a job's hiring flow
    MaxEdits,    \* bound: edits of one job
    MaxCalls,    \* bound: requests and worker jobs begun
    MayCrash     \* whether a process may die between two steps

Orders == 1 .. NStages

\* A job_stages row.  Editing a job deletes its rows and inserts new ones: rows of
\* generation gen exist until the next edit.
Stages == [job : Jobs, gen : 0 .. MaxEdits, order : Orders]

ASSUME BoundsAssumption ==
    /\ NStages \in Nat \ {0}
    /\ MaxEdits \in Nat
    /\ MaxCalls \in Nat
    /\ MayCrash \in BOOLEAN
ASSUME NullAssumption ==
    /\ None \notin Candidates \cup Jobs \cup Stages \cup {Absent}
    /\ Absent \notin Stages

VARIABLES
    cand,    \* cand[c]: the candidates row c
    app,     \* app[<<c, j>>]: job_stage_id of the application of c for j
    notes,   \* candidate_stage_summaries: candidate and stage
    job,     \* job[j]: the jobs row j and which of its stages are enabled
    task,    \* task[t]: a request or worker job between two steps
    calls    \* requests and worker jobs begun so far

tables == <<cand, app, notes, job>>
vars == <<tables, task, calls>>

\* "none": not inserted yet, "gone": deleted.  A draft is closed to assignment and matching.
CandidateStatus == {"none", "active", "rejected", "gone"}
JobStatus       == {"open", "closed", "gone"}

NoCandidate == [status |-> "none", job |-> None, stage |-> None,
                score |-> "none", over |-> FALSE]
IdleTask    == [pc |-> "idle", c |-> None, job |-> None, stage |-> None,
                extra |-> {}, from |-> None, then |-> "idle"]

CandidateRecord ==
    [status : CandidateStatus, job : Jobs \cup {None}, stage : Stages \cup {None},
     score : {"none", "ai", "manual"},      \* ai_score: who it came from
     over : BOOLEAN]                        \* is_score_overridden
JobRecord  == [status : JobStatus, gen : 0 .. MaxEdits, enabled : SUBSET Orders]
TaskRecord ==
    [pc : {"idle", "move", "advance", "assess", "upsert", "point", "place", "score",
           "update", "assign", "create", "enrich", "rescore"},
     c : Candidates \cup {None}, job : Jobs \cup {None}, stage : Stages \cup {None},
     extra : SUBSET Jobs,                   \* further jobs an email matched
     from : Stages \cup {None},             \* the stage an assessment was filed on
     then : {"idle", "place", "score"}]     \* the phase after the next one

Init ==
    /\ cand = [c \in Candidates |-> NoCandidate]
    /\ app = [x \in Candidates \X Jobs |-> Absent]
    /\ notes = {}
    /\ job = [j \in Jobs |-> [status |-> "open", gen |-> 0, enabled |-> Orders]]
    /\ task = [t \in Tasks |-> IdleTask]
    /\ calls = 0

------------------------------------------------------------------------------
(* What the foreign keys and the queries for stages see.                     *)

HasRow(c) == c \in Candidates /\ cand[c].status \in {"active", "rejected"}
Exists(j) == j \in Jobs /\ job[j].status # "gone"
IsOpen(j) == Exists(j) /\ job[j].status = "open"

Stage(j, order) == [job |-> j, gen |-> job[j].gen, order |-> order]
StageExists(s)  == s \in Stages /\ Exists(s.job) /\ s.gen = job[s.job].gen

EnabledStages(j) == IF Exists(j) THEN {Stage(j, o) : o \in job[j].enabled} ELSE {}
Lowest(S)        == {s \in S : \A r \in S : s.order <= r.order}
FirstEnabled(j)  == Lowest(EnabledStages(j))

\* The enabled stage of job j after s, if s is one itself.
NextEnabled(j, s) ==
    IF s \in EnabledStages(j) THEN Lowest({r \in EnabledStages(j) : r.order > s.order}) ELSE {}

\* s is a stage of the job the candidate is on now.
OnJob(c, s) == HasRow(c) /\ StageExists(s) /\ cand[c].job = s.job

Applied(c, j) == app[<<c, j>>] # Absent

\* A request or worker job begins, having read what its guard says.
Begin(t, next) ==
    /\ task[t].pc = "idle"
    /\ calls < MaxCalls
    /\ calls' = calls + 1
    /\ task' = [task EXCEPT ![t] = next]

\* A request that one transaction serves, from its first read to its last write.
Serve ==
    /\ calls < MaxCalls
    /\ calls' = calls + 1
    /\ UNCHANGED task

Goto(t, pc) ==
    /\ task' = [task EXCEPT ![t] = IF pc = "idle" THEN IdleTask
                                   ELSE [task[t] EXCEPT !.pc = pc]]
    /\ UNCHANGED calls

------------------------------------------------------------------------------
(* Moving between stages: the board, the advance button, voice assessment.   *)

\* moveCandidateToStage() reads the candidate's job and checks the stage against it ...
MoveToStage(t, c, s) ==
    /\ OnJob(c, s)
    /\ Begin(t, [IdleTask EXCEPT !.pc = "move", !.c = c, !.job = s.job, !.stage = s])
    /\ UNCHANGED tables

\* Broken: the application written is the one for the job the candidate has by now.
CommitMoveAfresh(t) ==
    LET c == task[t].c  j == cand[c].job  s == task[t].stage IN
    /\ task[t].pc = "move"
    /\ HasRow(c)
    /\ StageExists(s)
    /\ cand' = [cand EXCEPT ![c].stage = s]
    /\ app' = IF j # None /\ Applied(c, j) THEN [app EXCEPT ![<<c, j>>] = s] ELSE app
    /\ Goto(t, task[t].then)
    /\ UNCHANGED <<notes, job>>

\* ... and then writes the candidate, and the application for the job it read.
CommitMove(t) ==
    LET c == task[t].c  j == task[t].job  s == task[t].stage IN
    /\ task[t].pc = "move"
    /\ HasRow(c)
    /\ StageExists(s)
    /\ cand' = [cand EXCEPT ![c].stage = s]
    /\ app' = IF Applied(c, j) THEN [app EXCEPT ![<<c, j>>] = s] ELSE app
    /\ Goto(t, task[t].then)
    /\ UNCHANGED <<notes, job>>

\* saveStageSummary(), which the advance button goes on from.
SaveStageSummary(t, c, s) ==
    /\ OnJob(c, s)
    /\ notes' = notes \cup {<<c, s>>}
    /\ Begin(t, [IdleTask EXCEPT !.pc = "advance", !.c = c, !.job = s.job, !.stage = s])
    /\ UNCHANGED <<cand, app, job>>

\* advanceWithSummary() and advanceToNextStage() read the enabled stages, then move.
Advance(t) ==
    LET c == task[t].c IN
    /\ task[t].pc = "advance"
    /\ \E s \in NextEnabled(task[t].job, task[t].stage) :
        /\ OnJob(c, s)
        /\ task' = [task EXCEPT ![t].pc = "move", ![t].stage = s]
    /\ UNCHANGED <<tables, calls>>

ResolveCurrentStage(c, j) ==
    IF StageExists(cand[c].stage) /\ cand[c].stage.job = j THEN {cand[c].stage}
    ELSE IF app[<<c, j>>] \in Stages THEN {app[<<c, j>>]}
    ELSE FirstEnabled(j)

\* assessCall() for a completed call about job j, up to the model call.
AssessCall(t, c, j) ==
    /\ HasRow(c)
    /\ Applied(c, j)
    /\ \E s \in ResolveCurrentStage(c, j) :
        /\ <<c, s>> \notin notes
        /\ Begin(t, [IdleTask EXCEPT !.pc = "assess", !.c = c, !.job = j, !.stage = s])
    /\ UNCHANGED tables

\* Broken: the summary is upserted, so nobody loses the race.
CreateSummaryUpsert(t) ==
    LET c == task[t].c  s == task[t].stage IN
    /\ task[t].pc = "assess"
    /\ HasRow(c)
    /\ StageExists(s)
    /\ notes' = notes \cup {<<c, s>>}
    /\ task' = [task EXCEPT ![t].pc = "advance", ![t].from = s]
    /\ UNCHANGED <<cand, app, job, calls>>

\* createSummary(): the unique key decides between two assessments of one stage.
CreateSummary(t) ==
    LET c == task[t].c  s == task[t].stage IN
    /\ task[t].pc = "assess"
    /\ HasRow(c)
    /\ StageExists(s)
    /\ <<c, s>> \notin notes
    /\ notes' = notes \cup {<<c, s>>}
    /\ task' = [task EXCEPT ![t].pc = "advance", ![t].from = s]
    /\ UNCHANGED <<cand, app, job, calls>>

------------------------------------------------------------------------------
(* Bulk assignment: assignCandidateToJob() in the worker.                    *)

Assign(t, c, j) ==
    /\ c \in Candidates /\ cand[c].status = "active"
    /\ IsOpen(j)
    /\ Begin(t, [IdleTask EXCEPT !.pc = "upsert", !.c = c, !.job = j])
    /\ UNCHANGED tables

UpsertApplication(t) ==
    LET c == task[t].c  j == task[t].job IN
    /\ task[t].pc = "upsert"
    /\ HasRow(c)
    /\ Exists(j)
    /\ app' = IF Applied(c, j) THEN app ELSE [app EXCEPT ![<<c, j>>] = None]
    /\ task' = [task EXCEPT ![t].pc = "point",
                            ![t].then = IF app[<<c, j>>] \in Stages THEN "score" ELSE "place"]
    /\ UNCHANGED <<cand, notes, job, calls>>

PointAtJob(t) ==
    LET c == task[t].c  j == task[t].job IN
    /\ task[t].pc = "point"
    /\ HasRow(c)
    /\ Exists(j)
    /\ cand' = [cand EXCEPT ![c].job = j]
    /\ Goto(t, task[t].then)
    /\ UNCHANGED <<app, notes, job>>

\* Only for an application that had no stage when it was upserted.
PlaceInitially(t) ==
    LET c == task[t].c IN
    /\ task[t].pc = "place"
    /\ \E s \in FirstEnabled(task[t].job) :
        /\ OnJob(c, s)
        /\ task' = [task EXCEPT ![t].pc = "move", ![t].stage = s, ![t].then = "score"]
    /\ UNCHANGED <<tables, calls>>

\* Broken: the override is not looked at when the score arrives.
HeadlineAlways(c) == "ai"

\* The score rows hang off the application; a sticky override keeps the headline.
Headline(c) == IF cand[c].over THEN cand[c].score ELSE "ai"

WriteScore(t) ==
    LET c == task[t].c IN
    /\ task[t].pc = "score"
    /\ HasRow(c)
    /\ Applied(c, task[t].job)
    /\ cand' = [cand EXCEPT ![c].score = Headline(c)]
    /\ Goto(t, "idle")
    /\ UNCHANGED <<app, notes, job>>

------------------------------------------------------------------------------
(* Requests of a recruiter about a candidate.                                *)

\* updateCandidate() with another job than the candidate's: a reassignment ...
UpdateCandidate(t, c, j) ==
    /\ HasRow(c)
    /\ Exists(j)
    /\ cand[c].job \notin {None, j}
    /\ \E s \in FirstEnabled(j) :
        Begin(t, [IdleTask EXCEPT !.pc = "update", !.c = c, !.job = j, !.stage = s])
    /\ UNCHANGED tables

\* ... or, for a candidate without one, the initial assignment, which may ask a model for a
\* summary first.  Another writer may have given the candidate a job by the time it commits.
InitialAssignment(t, c, j) ==
    /\ HasRow(c)
    /\ Exists(j)
    /\ cand[c].job = None
    /\ \E s \in FirstEnabled(j) :
        Begin(t, [IdleTask EXCEPT !.pc = "assign", !.c = c, !.job = j, !.stage = s])
    /\ UNCHANGED tables

\* Broken: a stage the application already has is kept, as in bulk assignment.
CommitUpdateKeepsStage(t, override) ==
    LET c == task[t].c  j == task[t].job  s == task[t].stage IN
    /\ task[t].pc = "update"
    /\ HasRow(c)
    /\ StageExists(s)
    /\ app' = IF app[<<c, j>>] \in Stages THEN app ELSE [app EXCEPT ![<<c, j>>] = s]
    /\ cand' = [cand EXCEPT ![c].job = j, ![c].stage = s,
                            ![c].score = IF override THEN "manual" ELSE @,
                            ![c].over = IF override THEN TRUE ELSE @]
    /\ Goto(t, "score")
    /\ UNCHANGED <<notes, job>>

\* Broken: who gets a job is active again, although rejected since the request began.
WriteAssignmentReopens(t, override) ==
    LET c == task[t].c  j == task[t].job  s == task[t].stage IN
    /\ HasRow(c)
    /\ StageExists(s)
    /\ app' = [app EXCEPT ![<<c, j>>] = s]
    /\ cand' = [cand EXCEPT ![c].status = "active", ![c].job = j, ![c].stage = s,
                            ![c].score = IF override THEN "manual" ELSE @,
                            ![c].over = IF override THEN TRUE ELSE @]
    /\ Goto(t, "score")
    /\ UNCHANGED <<notes, job>>

\* The transactions of both write the same, whatever the candidate's job is by now; the body
\* of the request may override the score as well.
WriteAssignment(t, override) ==
    LET c == task[t].c  j == task[t].job  s == task[t].stage IN
    /\ HasRow(c)
    /\ StageExists(s)
    /\ app' = [app EXCEPT ![<<c, j>>] = s]
    /\ cand' = [cand EXCEPT ![c].job = j, ![c].stage = s,
                            ![c].score = IF override THEN "manual" ELSE @,
                            ![c].over = IF override THEN TRUE ELSE @]
    /\ Goto(t, "score")
    /\ UNCHANGED <<notes, job>>

CommitUpdate(t, override) ==
    /\ task[t].pc = "update"
    /\ WriteAssignment(t, override)

CommitAssignment(t, override) ==
    /\ task[t].pc = "assign"
    /\ WriteAssignment(t, override)

\* createCandidate() takes the first stage, enabled or not.
CreateCandidate(t, c, j) ==
    /\ cand[c].status = "none"
    /\ Exists(j)
    /\ Begin(t, [IdleTask EXCEPT !.pc = "create", !.c = c, !.job = j, !.stage = Stage(j, 1)])
    /\ UNCHANGED tables

CommitCreate(t) ==
    LET c == task[t].c  j == task[t].job  s == task[t].stage IN
    /\ task[t].pc = "create"
    /\ c \in Candidates /\ cand[c].status = "none"
    /\ StageExists(s)
    /\ cand' = [cand EXCEPT ![c] = [NoCandidate EXCEPT !.status = "active",
                                                       !.job = j, !.stage = s]]
    /\ app' = [app EXCEPT ![<<c, j>>] = s]
    /\ Goto(t, "idle")
    /\ UNCHANGED <<notes, job>>

SetStatus(c, from, to) ==
    /\ HasRow(c)
    /\ cand[c].status = from
    /\ cand' = [cand EXCEPT ![c].status = to]
    /\ Serve
    /\ UNCHANGED <<app, notes, job>>

RejectCandidate(c)   == SetStatus(c, "active", "rejected")
UnrejectCandidate(c) == SetStatus(c, "rejected", "active")

DeleteCandidate(c) ==
    /\ HasRow(c)
    /\ cand' = [cand EXCEPT ![c] = [NoCandidate EXCEPT !.status = "gone"]]
    /\ app' = [x \in Candidates \X Jobs |-> IF x[1] = c THEN Absent ELSE app[x]]
    /\ notes' = {n \in notes : n[1] # c}
    /\ Serve
    /\ UNCHANGED job

------------------------------------------------------------------------------
(* The headline score.                                                       *)

\* updateCandidate() with a score and no new job.
OverrideScore(c) ==
    /\ HasRow(c)
    /\ cand' = [cand EXCEPT ![c].score = "manual", ![c].over = TRUE]
    /\ Serve
    /\ UNCHANGED <<app, notes, job>>

\* rescoreCandidate(), and uploadCv() for a candidate without an override.
Rescore(t, c) ==
    /\ HasRow(c)
    /\ cand[c].job # None
    /\ Begin(t, [IdleTask EXCEPT !.pc = "rescore", !.c = c, !.job = cand[c].job])
    /\ UNCHANGED tables

\* revertScore() clears the flag, then rescores ...
RevertScore(t, c) ==
    /\ HasRow(c)
    /\ cand[c].job # None
    /\ cand' = [cand EXCEPT ![c].over = FALSE]
    /\ Begin(t, [IdleTask EXCEPT !.pc = "rescore", !.c = c, !.job = cand[c].job])
    /\ UNCHANGED <<app, notes, job>>

\* ... or, without a job or a CV, clears both.
ClearScore(c) ==
    /\ HasRow(c)
    /\ cand' = [cand EXCEPT ![c].score = "none", ![c].over = FALSE]
    /\ Serve
    /\ UNCHANGED <<app, notes, job>>

\* rescoreAssignedJob(): the job read is gone, override or not ...
ForgetScore(t) ==
    LET c == task[t].c IN
    /\ task[t].pc = "rescore"
    /\ HasRow(c)
    /\ ~Exists(task[t].job)
    /\ cand' = [cand EXCEPT ![c].score = "none"]
    /\ Goto(t, "idle")
    /\ UNCHANGED <<app, notes, job>>

\* ... or was there when the scoring began.
WriteRescore(t) ==
    LET c == task[t].c IN
    /\ task[t].pc = "rescore"
    /\ HasRow(c)
    /\ cand' = [cand EXCEPT ![c].score = Headline(c)]
    /\ Goto(t, "idle")
    /\ UNCHANGED <<app, notes, job>>

------------------------------------------------------------------------------
(* The intake's writes: phase 6 inserts the person, phase 7 places it.       *)

InsertCandidate(c) ==
    /\ cand[c].status = "none"
    /\ cand' = [cand EXCEPT ![c].status = "active"]
    /\ UNCHANGED <<app, notes, job, task, calls>>

\* Phase 15: the primary job j with its first stage, and the other jobs of the email.
MatchJobs(t, c, j, extra) ==
    /\ HasRow(c)
    /\ \A k \in extra \cup {j} : IsOpen(k)
    /\ \E s \in FirstEnabled(j) :
        Begin(t, [IdleTask EXCEPT !.pc = "enrich", !.c = c, !.job = j, !.stage = s,
                                  !.extra = extra])
    /\ UNCHANGED tables

\* mergeEnrichment(): the stage rides with the job, and only when the job changes; then a
\* stage the application already has wins over the first one.
MergedStage(c, j, first) ==
    IF cand[c].job = j THEN cand[c].stage
    ELSE IF app[<<c, j>>] \in Stages THEN app[<<c, j>>] ELSE first

\* Broken: the candidate is pointed at the job first, its application is left to the scoring.
EnrichWithoutApplication(t) ==
    LET c == task[t].c
        j == task[t].job
        s == MergedStage(c, j, task[t].stage)
    IN
    /\ task[t].pc = "enrich"
    /\ HasRow(c)
    /\ \A k \in task[t].extra \cup {j} : Exists(k)
    /\ s = None \/ StageExists(s)
    /\ cand' = [cand EXCEPT ![c].job = j, ![c].stage = s]
    /\ Goto(t, "score")
    /\ UNCHANGED <<app, notes, job>>

\* Phase 7, one transaction under the candidate's row lock.
Enrich(t) ==
    LET c == task[t].c
        j == task[t].job
        s == MergedStage(c, j, task[t].stage)
        upserted(k) == IF k = j /\ s # None THEN s
                       ELSE IF Applied(c, k) THEN app[<<c, k>>] ELSE None
    IN
    /\ task[t].pc = "enrich"
    /\ HasRow(c)
    /\ \A k \in task[t].extra \cup {j} : Exists(k)
    /\ s = None \/ StageExists(s)
    /\ cand' = [cand EXCEPT ![c].job = j, ![c].stage = s]
    /\ app' = [x \in Candidates \X Jobs |->
                IF x[1] = c /\ x[2] \in task[t].extra \cup {j} THEN upserted(x[2])
                ELSE app[x]]
    /\ Goto(t, "score")
    /\ UNCHANGED <<notes, job>>

------------------------------------------------------------------------------
(* Jobs.                                                                     *)

\* Broken: a reference to a stage survives it.
NulledNot(s, j) == s

\* ON DELETE SET NULL, for a reference to a stage of j.
Nulled(s, j) == IF s \in Stages /\ s.job = j THEN None ELSE s

\* updateJob(), one transaction: detach the job's candidates and applications, replace all
\* stages, attach every candidate without a job that has an application for this one.
UpdateJob(j, status, enabled) ==
    LET first == [job |-> j, gen |-> job[j].gen + 1, order |-> 1]
        attached(c) == /\ HasRow(c)
                       /\ cand[c].job \in {None, j}
                       /\ Applied(c, j)
        detached(c) == cand[c].job = j /\ ~Applied(c, j)
    IN
    /\ Exists(j)
    /\ job[j].gen < MaxEdits
    /\ enabled # {}
    /\ job' = [job EXCEPT ![j] = [status |-> status, gen |-> job[j].gen + 1,
                                  enabled |-> enabled]]
    /\ cand' = [c \in Candidates |->
                IF attached(c) THEN [cand[c] EXCEPT !.job = j, !.stage = first]
                ELSE [cand[c] EXCEPT !.job = IF detached(c) THEN None ELSE @,
                                     !.stage = IF detached(c) THEN None ELSE Nulled(@, j)]]
    /\ app' = [x \in Candidates \X Jobs |->
                IF x[2] = j /\ app[x] # Absent THEN first ELSE Nulled(app[x], j)]
    /\ notes' = {n \in notes : n[2].job # j}
    /\ Serve

DeleteJob(j) ==
    /\ Exists(j)
    /\ job' = [job EXCEPT ![j].status = "closed"]
    /\ Serve
    /\ UNCHANGED <<cand, app, notes>>

\* The foreign keys cascade to stages, applications and summaries, and null the candidates'
\* job and stage.
HardDeleteJob(j) ==
    /\ Exists(j)
    /\ job' = [job EXCEPT ![j].status = "gone"]
    /\ cand' = [c \in Candidates |->
                [cand[c] EXCEPT !.job = IF @ = j THEN None ELSE @, !.stage = Nulled(@, j)]]
    /\ app' = [x \in Candidates \X Jobs |->
                IF x[2] = j THEN Absent ELSE Nulled(app[x], j)]
    /\ notes' = {n \in notes : n[2].job # j}
    /\ Serve

------------------------------------------------------------------------------
(* A row the next write refers to is gone: the write fails.                  *)
RowsGone(t) ==
    \/ ~HasRow(task[t].c)
    \/ ~Exists(task[t].job)
    \/ task[t].stage # None /\ ~StageExists(task[t].stage)

\* The request returns early or throws; a worker job that throws begins again as a new one.
Return(t) ==
    /\ task[t].pc # "idle"
    /\ \/ task[t].pc \in {"advance", "assess", "score", "rescore"}
       \/ task[t].pc = "place" /\ cand[task[t].c].job # task[t].job
       \/ task[t].pc = "create" /\ cand[task[t].c].status # "none"
       \/ task[t].pc # "create" /\ RowsGone(t)
       \/ task[t].pc = "create" /\ ~StageExists(task[t].stage)
    /\ Goto(t, "idle")
    /\ UNCHANGED tables

Crash(t) ==
    /\ MayCrash
    /\ task[t].pc # "idle"
    /\ Goto(t, "idle")
    /\ UNCHANGED tables

Begins(t) ==
    \E c \in Candidates :
        \/ \E s \in Stages : MoveToStage(t, c, s) \/ SaveStageSummary(t, c, s)
        \/ \E j \in Jobs :
            \/ AssessCall(t, c, j)
            \/ Assign(t, c, j)
            \/ UpdateCandidate(t, c, j) \/ InitialAssignment(t, c, j)
            \/ CreateCandidate(t, c, j)
            \/ \E extra \in SUBSET (Jobs \ {j}) : MatchJobs(t, c, j, extra)
        \/ Rescore(t, c)
        \/ RevertScore(t, c)

GoesOn(t) ==
    \/ CommitMove(t) \/ Advance(t) \/ CreateSummary(t)
    \/ UpsertApplication(t) \/ PointAtJob(t) \/ PlaceInitially(t) \/ WriteScore(t)
    \/ \E override \in BOOLEAN : CommitUpdate(t, override) \/ CommitAssignment(t, override)
    \/ CommitCreate(t)
    \/ ForgetScore(t) \/ WriteRescore(t)
    \/ Enrich(t)
    \/ Return(t) \/ Crash(t)

AtOnce(c) ==
    \/ RejectCandidate(c) \/ UnrejectCandidate(c) \/ DeleteCandidate(c)
    \/ OverrideScore(c) \/ ClearScore(c) \/ InsertCandidate(c)

EditsJob(j) ==
    \/ \E status \in {"open", "closed"}, enabled \in SUBSET Orders :
        UpdateJob(j, status, enabled)
    \/ DeleteJob(j) \/ HardDeleteJob(j)

Next ==
    \/ \E t \in Tasks : Begins(t) \/ GoesOn(t)
    \/ \E c \in Candidates : AtOnce(c)
    \/ \E j \in Jobs : EditsJob(j)

Spec == Init /\ [][Next]_vars

------------------------------------------------------------------------------
(* Properties.                                                               *)

Types ==
    /\ cand \in [Candidates -> CandidateRecord]
    /\ app \in [Candidates \X Jobs -> Stages \cup {None, Absent}]
    /\ notes \subseteq Candidates \X Stages
    /\ job \in [Jobs -> JobRecord]
    /\ task \in [Tasks -> TaskRecord]
    /\ calls \in 0 .. MaxCalls

\* A column that refers to a row is null or names a row that exists.
References ==
    /\ \A c \in Candidates :
        /\ cand[c].job # None => HasRow(c) /\ Exists(cand[c].job)
        /\ cand[c].stage # None => HasRow(c) /\ StageExists(cand[c].stage)
    /\ \A c \in Candidates, j \in Jobs : Applied(c, j) =>
        HasRow(c) /\ Exists(j) /\ (app[<<c, j>>] = None \/ StageExists(app[<<c, j>>]))
    /\ \A n \in notes : HasRow(n[1]) /\ StageExists(n[2])

\* The type of the state: every value is of its column's kind, and no edit or deletion of a
\* job or a candidate, whatever is in flight, leaves a reference to a row that is gone.
TypeOK == Types /\ References

\* A candidate that points at a job has an application for it, between any two steps of any
\* writer, while the job lives and after it is gone (ingestion.processor.ts:630-631,
\* "never observed apart").
AssignedHasApplication ==
    \A c \in Candidates : cand[c].job # None => Applied(c, cand[c].job)

\* A score a recruiter has set is not replaced by a model's answer, however long ago that
\* was asked for (TO-58, the sticky override).
OverrideStands == \A c \in Candidates : cand[c].over => cand[c].score # "ai"

\* Of all the assessments that end on one stage of a candidate, however many are delivered
\* at once, a single one goes on to advance it (voice-assessment.service.ts:121, "a single
\* idempotent advance").
OneAdvancePerStage ==
    \A t, u \in Tasks :
        /\ {task[t].pc, task[u].pc} \subseteq {"advance", "move"}
        /\ task[t].c = task[u].c
        /\ task[t].from = task[u].from
        /\ task[t].from # None
        => t = u

\* The board and the application agree on the stage of candidate c.
Agrees(c) == cand[c].job = None \/ app[<<c, cand[c].job>>] = cand[c].stage

\* Two steps may part them, and nothing else does: a bulk assignment that points the
\* candidate at its job, and a move that commits for a job the candidate has left.
SplitsAreKnown ==
    [][\A c \in Candidates : Agrees(c) => Agrees(c)' \/
        \E t \in Tasks :
            /\ task[t].c = c
            /\ task'[t] # task[t]
            /\ \/ task[t].pc = "point"
               \/ task[t].pc = "move" /\ task[t].job # cand[c].job]_vars

\* The application for job j is on a stage of j, if on any.
OnOwnStage(c, j) == app[<<c, j>>] \in Stages => app[<<c, j>>].job = j

\* An application comes to a stage of another job only as a copy of its own candidate, which
\* already was on the job and on that stage.
ForeignStagesAreCopied ==
    [][\A c \in Candidates, j \in Jobs : OnOwnStage(c, j) => OnOwnStage(c, j)' \/
        /\ cand[c].job = j
        /\ cand[c].stage = app'[<<c, j>>]]_vars

\* What CandidateBoard sees.
StatusOf     == [c \in Candidates |-> cand[c].status]
JobOf        == [c \in Candidates |-> cand[c].job]
ScoreOf      == [c \in Candidates |-> cand[c].score]
Overridden   == {c \in Candidates : cand[c].over}
Applications == {x \in Candidates \X Jobs : app[x] # Absent}
LiveJobs     == {j \in Jobs : Exists(j)}

Board == INSTANCE CandidateBoard WITH
    status <- StatusOf, at <- JobOf, applied <- Applications,
    score <- ScoreOf, over <- Overridden, live <- LiveJobs

\* Whatever is in flight, a candidate changes only as CandidateBoard allows: no request that
\* commits what it read earlier takes back a rejection or a deletion, drops an application,
\* replaces an overridden score or reaches a deleted job.
KeepsBoard == Board!Spec

\* While nobody is at work on a candidate, the board and the application agree on its stage
\* (ingestion.processor.ts:691-693, candidates.service.ts:480-483: they "must not disagree").
BoardAgrees == \A c \in Candidates : (\A t \in Tasks : task[t].c # c) => Agrees(c)
==============================================================================
