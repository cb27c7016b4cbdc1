# TLA+ development for the TalentOS backend

TLA+ modules, TLC configurations and TLAPS proofs for the NestJS backend under `src/`
(paths below are relative to the repository root, `src/src/...` in `PROJECT.json`).
The sections: the system, its hard behaviours, the modules, what the runs check, what is
proved, what is left out, what is done.

## 1. The system

Three containers share one Postgres (Prisma), one Redis (BullMQ) and one R2 bucket: `api`
(HTTP, `src/main.ts`), `worker` (queues, `src/worker.ts`) and `mcp` (`src/mcp.ts`). None is
allowed to start before the migrations are applied.

| Component | Where | State it keeps | Operations that change it |
|---|---|---|---|
| Webhook intake | `webhooks/webhooks.service.ts` | `email_intake_log` row, queue job, payload in R2 | `enqueue`, `ensureEnqueued`, `recordRejected` |
| Ingest queue | `ingestion/ingest-queue.ts` | BullMQ jobs, attempts, locks, stall counters | add, retry, take, return, throw, stalled check |
| Ingestion processor | `ingestion/ingestion.processor.ts` | row status, `candidate_id`, candidates, applications, scores | `process`, `run` (phases 3 to 16), `onFailed` |
| AI services and caches | `ingestion/services/*`, `storage/storage.service.ts` | R2 caches per message | `classify`, `extract`, `matchJobs`, put/get of cached answers |
| Ingest control | `ingest-control/ingest-control.service.ts` | `organization.ai_ingest_enabled`, held rows | `setEnabled`, `replayHeld` |
| Identity and dedup | `dedup/*`, `ingestion/merge-enrichment.ts`, `scripts/*` | candidates' e-mail, phone, CV text and file | `check`, `insertCandidate`, `fillContactFields`, `mergeEnrichment`, `mergeCandidates`, both clean-up scripts |
| Candidates and stages | `candidates/candidates.service.ts`, `stage-move.ts` | `candidate.job_id`, `hiring_stage_id`, `status`, score headline, `application`, stage summaries | create, update, reject, unreject, move, advance, upload CV, rescore, revert, delete |
| Bulk assignment | `bulk-assign/*` | the same columns, queue `candidate-assign` | `assignCandidateToJob` per candidate |
| Jobs | `jobs/jobs.service.ts` | jobs, their stages, short ids, knockout questions | create, update (stage sync and reattachment), delete |
| Scoring | `scoring/*` | none (`candidate_job_scores` is written by its callers) | `score`, `completeEvaluation`, `computeScore` |
| Voice screening | `voice/*` | `voice_calls` rows, queue `voice-call` | schedule, dial, check, finalize, cancel, re-arm |
| Auth, team, invitations | `auth/*` | `users`, `organizations`, `invitations` | sign up, join, onboard, invite, cancel, accept, change role, remove |
| MCP and OAuth | `mcp/*` | codes and tokens | issue, exchange, refresh, revoke |
| Migration gate, health, config, read models | `prisma/*`, `health/*`, `config/*`, `applications/*`, `pmb-token/*` | none that others depend on | start-up poll, reads |

How they interact: Mailgun posts to the webhook, which creates the row and then puts a job
on the ingest queue; the worker takes it, calls the models (answers cached in R2), resolves
the person, and writes candidate, application, score and finally the row; an operator may
pause the worker's paid phases and later replay what was parked. Candidates, jobs and voice
screening then work on the same candidate rows from the UI, the MCP tools and their own
queues.

### What makes each part correct

- *Intake.* Every message Mailgun was told is accepted ends as finished or where an
  operator sees it; a finished row is never processed again; a message makes one
  candidate; what a retry does agrees with what the attempt before it did.
- *Identity.* Two intakes of one person, whatever their order, end at one candidate; nobody
  is merged into somebody else; a CV text stands next to the file it came from.
- *Stages.* A candidate's stage is one of its job's stages; a reject and the unreject after
  it restore that; score headline and per-job scores agree.
- *Jobs.* Short ids are unique; editing stages never leaves candidates without a stage.
- *Voice.* One live call per candidate and job; no more than three attempts; every call
  placed is eventually finalised once, by the webhook or the watchdog.
- *Scoring.* Better evidence never scores lower, silence about a requirement never helps, and
  the score kept is the median of real evaluations.
- *Team.* A founded organization keeps exactly one owner, the seeded one gets none; a member was invited, founded the
  organization or signed in to the single tenant; lost access is lost at the next request.

### Hard behaviours

Delivery at least once (Mailgun retries; a lost reply is a duplicate), BullMQ's at-least-once
processing (attempts, expired locks, stalled re-runs, `failed` events handled later), crashes of the
api and the worker between two awaits, error paths whose own writes fail and are swallowed,
caches that make a retry repeat an earlier decision, and operators who act while jobs run.
`PROJECT.json` lists each hazard at its line, with the properties aimed at it.

## 2. The modules

### `IntakeLedger`

What the intake promises, without queue, worker or cache: a message is recorded once, while
open it may be attributed to one candidate, then it is settled for ever, and settled as
`completed` only with a candidate.

### `EmailIntake`

Webhook, queue, worker and operator around the intake row. State and code:

| Variable | Code |
|---|---|
| `row`, `owner` | `email_intake_log.processing_status`, `.candidate_id` |
| `verdict`, `target` | the classification and matching answers cached in R2. `missed` is history: messages whose cached vacancy was found closed |
| `open` | whether the vacancy's `jobs.status` is `open` |
| `people`, `placed`, `scored` | candidates; those with `job_id` and an application; those whose application has a score |
| `gate` | `organization.ai_ingest_enabled` |
| `queue`, `events`, `used` | BullMQ's job hashes (state, `attemptsMade`, stall counter), `failed` events the worker has yet to handle, replay ids handed out |
| `slot`, `stops` | what each worker slot holds: position in `process`/`run`, the job, whether it still owns the lock, the row snapshot (`seen`), the match, the error caught |
| `mail`, `sent`, `req` | Mailgun's view, deliveries, webhook requests between their awaits |
| `adm` | `replayHeld` calls between their awaits |

One action per step between two awaits that another actor can observe. The worker's
`run` is cut into its phases: `SpamAndGate` (phase 3 and the pause switch), `Classify`,
`Identify` (phase 6, one transaction under advisory locks), `Match` (phase 15), `Place`
(phase 7), `Score`, `Complete`. `PhaseThrows` lets each of them fail before it commits, with
an upstream error or another; `Catch` is the catch block, `JobReturns` and `JobThrows` are
what BullMQ does with the outcome while the slot still holds the lock, and nothing if it
does not. `StalledCheck`, `OnFailed`, `LockExpires` and `WorkerCrash` are BullMQ's recovery
and what calls for it. The webhook and `replayHeld` are cut at each Redis or database call.

`Faults` names what may go wrong in an instance (`FaultKinds` explains each), so that a
run states exactly under which faults a property holds, and a theorem under which
it is proved.

Simplifications, and why they do not hide the interesting part:

- One vacancy stands for all: the intake either targets it or none. Under the fault `close` a recruiter closes and
  opens it at any time (`SetOpen`), and a cached match is filtered by that once more (`Targets`). What else
  a job edit does to candidates is `StagePipeline`'s concern.
- `Classify` and `Match` read and write their cache in one step. Two runs of one message can
  interleave there only if two slots run it, which needs the overlap that
  `intake_two_slots` already reports as a divergence.
- A replay id is a counter here and `Date.now()` in the code: ids are taken to be unique.
- A job's `failed` or `completed` record is kept for ever; the code keeps a large but
  bounded number of them.
- Extraction (phase 4 and 5), its cache, dedup's field rules and the enrichment's text are
  data: `Contact` maps a message to the identity found in it.
- Backoff and delays are only order.

### `ScreeningBook`

What voice screening promises for each call it books, without queue, worker, provider or
watchdog: a call waits, is dialled, the phone rings at most once, a connected call ends for
good. A call is put back or taken up again only while its phone has not rung.

### `VoiceCall`

Bookings, worker, webhooks and watchdog around the rows of one candidate and one job.

| Variable | Code |
|---|---|
| `row` | `voice_calls.status`, `.attempt`, `.idempotency_key`; `unqueued` is `failed` with error `enqueue_failed` |
| `rings` | how often a dial for this row made the phone ring |
| `line` | the conversation whose id the row knows, as the provider reports it |
| `queue` | BullMQ's job hashes: `call-{id}`, `call-{id}-{slot}`, `check-{id}-...`, with `attemptsMade` and the stall counter |
| `slot`, `stops` | worker slots between two awaits of `executeCall` and `checkCall`, and whether they own their lock |
| `task`, `starts` | `scheduleCall` and `handleInitiationFailure` between their awaits |

`Start`, `CreateCall`, `Resume`, `AddCall`, `RollBack` are `scheduleCall` cut at its database
and Redis calls. `Claim`, `CheckGates`, `Defer`, `Dial`, `DialBlocked`, `DialFails`, `Record`, `Arm` are
`executeCall`; `ReadCall` and `Poll` are `checkCall`, cut where the row is read before the provider is
asked. `InitiationFailure` and `WriteFailure` are the failure webhook, cut between its guard
and its write, so that two deliveries overlap; `Transcription` is the transcript webhook, one
statement that finds the row by its conversation.

Simplifications:

- One candidate and one job. Active calls and retry keys are per candidate and job.
- Time is order: a job may run whenever it waits, and the number of a check stands
  for the age of its call (`MaxChecks` for `MAX_CALL_AGE_MS`). Two live successors of a check that ran
  twice merge into one.
- The gates (flags, phone, rejection, business window, test mode) are data the calls do not
  change: they may open and close at any time.
- `cancelCall` removes its job in one best-effort step.
- A database error inside a handler, a Redis error of the worker's own adds and the death of
  the api in the middle of a booking are left out. The first two end in BullMQ's retry, which the
  claim skips; the last leaves a row nobody re-arms.
- The audio download, the assessment and the stage advance it may cause start when a call
  completes and do not write the columns modelled here.

### `CandidateBoard`

What a recruiter may rely on about candidates, without requests in flight, stages or foreign keys. Each change of
a candidate's status, job, applications, score and override is a step of its own: insert, enter with a job, apply, assign,
reject, unreject, delete, rate; an edit of a job takes in its applicants who are at none, its removal takes
its applications with it. A rejection is only taken back by an unrejection, an overridden score only by a
revert, another override or the loss of the job, a deleted candidate or job never comes back.

### `StagePipeline`

Everyone who writes where a candidate is: recruiters' requests, bulk assignment, job edits,
the intake's placement and the assessment of voice calls. The board reads the stage from the
candidate, voice assessment from the application, and every writer keeps the two equal for itself.

| Variable | Code |
|---|---|
| `cand` | `candidates.status`, `.job_id`, `.hiring_stage_id`, `.is_score_overridden`, and who `ai_score` came from |
| `app` | `applications.job_stage_id` per candidate and job; `Absent` is no row |
| `notes` | `candidate_stage_summaries`, unique per candidate and stage |
| `job` | `jobs.status` and its `job_stages`: the generation (every save deletes and re-creates them) and which are enabled |
| `task` | what a request or worker job has read and will write next, between two awaits |
| `calls` | requests begun, for the bound only |

A request whose first read and last write another writer can come between is cut there: the
move between its check and its transaction (`MoveToStage`, `CommitMove`), reassignment and
creation (`UpdateCandidate`, `CommitUpdate`, `CreateCandidate`, `CommitCreate`), the intake between
matching and phase 7 (`MatchJobs`, `Enrich`), the first job of a candidate that had none, which is
written after its stage summary and score are computed (`InitialAssignment`, `CommitAssignment`), rescoring (`Rescore`, `RevertScore`, `WriteRescore`,
`ForgetScore`). `assignCandidateToJob` has no transaction, so each of its writes is a step: `Assign`,
`UpsertApplication`, `PointAtJob`, `PlaceInitially`, `CommitMove`, `WriteScore`. `AssessCall`, `CreateSummary`,
`Advance` and `CommitMove` are voice assessment around its model call; `SaveStageSummary` begins
the advance button. Job edits and deletions (`UpdateJob`, `DeleteJob`, `HardDeleteJob`), with the
cascades of the foreign keys, and reject, unreject, delete and score overrides are one step.

Simplifications:

- A Prisma transaction is one step. `updateJob` runs at PostgreSQL's default isolation, so another
  request's commit may fall between its statements; that is left out.
- A worker's retry or stalled re-run begins with the same reads as the first attempt, so it is
  a new `Assign`, `AssessCall` or `MatchJobs`.
- `mergeEnrichment`'s rule for job and stage is modelled (`MergedStage`); the text fields are
  data. So are score rows, CV text, `application.stage` and rejection reasons (undoing a
  rejection after a reassignment leaves the old application's `stage` rejected). A draft job is
  a closed one: neither takes assignments or matches.
- Jobs exist from the start (`createJob` touches no candidate). A deleted candidate's id is not
  used again. `mergeCandidates` and the scripts around it are in `CandidateIdentity`.
- The comment in `updateJob` speaks of a CHECK constraint on `job_id` and `hiring_stage_id`. No migration
  creates it, so the model has none.

### `CandidateIdentity`

Which candidate a submission belongs to, with everyone who writes a candidate's contacts and CV.
An address has one mailbox whatever its capitals, a phone is its digits; rows are numbered in order of age.

| Variable | Code |
|---|---|
| `cand`, `next` | `candidates.email`, `.phone`, `.job_id`, where `cv_text` and `cv_file_url` came from, the jobs with an application; the next row's id. `typed` is history: a recruiter has entered contacts on the row |
| `log` | `email_intake_log.candidate_id` |
| `task` | the worker on a message, between two steps of phases 6 and 7 |
| `hand` | a manual creation between its checks and its insert |
| `script` | what `dedup-cleanup` or `merge-case-duplicate-emails` has planned and not yet applied. `touched` is history: rows whose contacts changed since |
| `budget` | hand edits and script runs so far, for the bounds only |

`LockMailbox`, `Check` (under the phone's lock), `File` or `FileFails`, and `Enrich` are phases 6 and 7 with
`DedupService.check`, `insertCandidate`, `fillContactFields` and `mergeEnrichment`; `Rerun` is a retry
or a stalled re-run. `HandCheck` and `HandInsert` are `createCandidate`, `EditContact`, `UploadCv` and `Delete`
the other operations on contacts and CVs. `PlanCleanup`, `PlanCaseMerges`, `Scrub`, `Fold` and `ScriptDies` are the two
scripts, with `planPhoneMerges` and `mergeCandidates`.

Simplifications:

- Names and other profile fields are data. So are the duplicate flags, which nobody here reads.
- A job is only a pointer and an application; where it stands is `StagePipeline`'s concern.
- A lock is held to the end of its transaction; a waiting worker is one whose action is not enabled.
- `FoldedIndex` says whether the unique index ignores capitals: the migration that creates it skips a database
  with duplicates. Without it the application's own checks are all there is.
- Rows removed by `dedup-cleanup --delete-ids` are a `Delete`.

### `ScoringPolicy`, `Scoring`

`ScoringPolicy` is `computeScore` and `completeEvaluation` as operators: coverage by requirement, weights, the
ramp of the years, credential deductions, tool bonuses, caps, rounding. `Scoring` is one
`score()` request around them: `job` is what is scored against, `sample` what each of the three model
calls came back with, `outcome` what the request returned or threw. `Evaluate` and `Fail` are a
sample's end, `Settle` the median or the error. An answer is whatever passes the schema: every grade of evidence
with every status, and years and relevance that are fractions with denominator `Grain`.

Simplifications: the code computes with doubles. Here a share is out of `One`, a score is in units of
`1 / One^2`, and quotients are rounded down; arithmetic is exact if `One` is divisible by every denominator, as in the run
(1200), so a score of the code within a rounding error of one half may differ by a point. Prompt
texts, the wording of reasons and the labels of the breakdown are left out. A job that lists one
requirement twice, in one spelling or two, is not modelled: its requirements are a set.

### `TeamAccess`

Who belongs to an organization, in which role.

| Variable | Code |
|---|---|
| `user` | `users.is_active`, `.role` per organization and address |
| `orgs`, `onboarded` | `organizations`, and those with `onboarding_completed_at` |
| `invite` | `invitations`; `expired` is pending past `expires_at` |
| `req` | requests in flight: what the guard and the checks read. `missed` is history: whose row or invitation another request wrote since this one read it |
| `tenant` | `TENANT_ID` in single-tenant mode |

`Admit` is `SessionGuard`; every request is then cut between what it checks and what it writes: `CheckMember`,
`CheckPending`, `InsertInvite`; `CheckCancel`, `DeleteInvite`; `CheckRole`, `ChangeRole`; `CheckRemoval`,
`RemoveMember`; `CheckOnboarding`, `CompleteOnboarding`; `GoogleVerify`, then `JoinTenant` or `SignUp`;
`ReadInvite`, `ReadMember`, `Join`. `Refuse` is any failed check or error, `Restart` the process. `Seed` is
`prisma/seed.ts`, which makes the organization `TENANT_ID` refers to, with no users: members join it in
single-tenant mode, and nobody is ever its owner.

Simplifications: whoever has a row may hold a cookie for it, so signing in to an existing row changes nothing, and the
JWT's signature and age are left out. So are magic-link tokens, mail delivery and profile fields. An invitation's
link token is its row.

### The proof modules

`EmailIntakeProofs` and `EmailIntakeRowsProofs` (which extends it), `VoiceCallProofs` and
`VoiceCallBookingProofs` (which extends it), `StagePipelineProofs`, `CandidateIdentityProofs`, `ScoringProofs` and `TeamAccessProofs`: the theorems of section 4.

### The MC modules

`MCEmailIntake`, `MCVoiceCall`, `MCStagePipeline`, `MCCandidateIdentity`, `MCScoring` and `MCTeamAccess` hold the
definitions of the configurations: contacts, documents, jobs, evaluations, symmetry sets.

## 3. The runs

Every passing run finishes its whole state space. The bounds are the constants
`MaxReplays`, `MaxDeliveries`, `MaxStops`, `MaxInserts` and `Attempts`, `MaxStalled`
(3 and 2 in the code; smaller values reach the same branches sooner).

| Run | Instance | Shows |
|---|---|---|
| `intake_workers` | 3 messages (two of one person, one spam), 2 slots, 2 attempts, replies of settling writes may be lost, the vacancy may close and open at any time | `TypeOK`, `TurnedAwayHasNoCandidate`, `UnscoredIsUnfinished` |
| `intake_faults` | 1 message without contact, 1 slot, 2 requests, 1 replay, 1 stop, every fault of writes, Redis, locks and crashes | `OneCandidatePerMessage`, `FinishedStaysFinished`, `KeepsLedger` |
| `intake_recovery` | 1 message, 1 slot, 2 attempts, 2 stops, 1 replay, weak fairness | `NoStrandedRow`, `Settles` |
| `intake_stall_limit` | 3 crashes, one more than `maxStalledCount` | `NoStrandedRow` is violated |
| `intake_two_slots` | 2 slots and one expired lock | `FinishedStaysFinished` is violated |
| `voice_calls` | one booking and its retries (3 rows, 2 attempts), 2 requests, 1 slot, refused bookings and overlapping re-arms, one expired lock or crash | `TypeOK`, `NoStrandedBooking`, `OneNextAttempt`, `RetryAfterNoAnswer`, `ChecksGoOn`, `KeepsBook` |
| `voice_lost_event` | no fault but a webhook that does not come | `LostFailureIsRederived` is violated |
| `stage_pipeline` | 1 candidate, 2 jobs of 2 stages, any 4 requests, 2 at a time, either may die half-way, 1 save per job | `TypeOK`, `AssignedHasApplication`, `OverrideStands`, `OneAdvancePerStage`, `SplitsAreKnown`, `ForeignStagesAreCopied`, `KeepsBoard` |
| `stage_bulk_assign` | the same, one request at a time, no crash | `BoardAgrees` is violated |
| `candidate_identity` | 2 submissions, 1 manual creation at a time, 1 change by hand, 1 script run, 3 rows, a blocked address and a blocked number, an index that tells capitals apart | `TypeOK`, `MailboxTwinsTyped`, `OfficeContactsTyped`, `TextBesideItsFile`, `PointersHold`, `ApplicationsFollow`, `NewRowIsStranger`, `FoldsOnlyWhenStale`, `ClearsOnlyWhenStale` |
| `scoring` | 3 jobs; 3 samples, the first any of some thousand evaluations | `TypeOK`, `BetterNeverScoresLower`, `SilenceNeverHelps`, `LeftOutIsCapped`, `MedianOfReal` |
| `access` | 2 organizations, one of which may be seeded without an owner, 2 people, 2 invitations, 2 requests at a time, both modes | `TypeOK`, `OrgKeepsItsOwner`, `JoinsOnlyByInvitation`, `RevokedAtOnce`, `RacesExplainDuplicates` |

Why the instances are enough. Messages interact only through a shared person, so two
messages of one person and one without a candidate cover the pairs; a message without
contact is the hardest case for `OneCandidatePerMessage`, because dedup cannot find what an
earlier attempt inserted. Two deliveries and one replay put two live jobs on one row. One
expired lock gives a run without a lock next to its re-run, two stops use up
`maxStalledCount` exactly. `MaxInserts` of 2 is one more than the property allows.

For the calls: two requests are two deliveries of one failure, or a delivery beside the
booking it triggered. Three rows are a call, its retry, and the duplicate that a broken key would
insert. One slot is what a worker process has (the processor sets no concurrency). One stop
with `MaxStalled` 1 uses up `maxStalledCount` exactly, as 2 stops and 2 would: one more and BullMQ fails
the job, and `NoStrandedBooking` and `ChecksGoOn` no longer hold.

For the stages: candidates do not interact, except that a job edit writes all of them, so one is
enough for TLC (the theorems have any number). Two jobs are where a candidate is and where it
goes. Two stages are a first and a next one. Four requests are what the longest cases take:
a foreign stage on an application needs a creation, a move that is overtaken by a reassignment
(`SplitsAreKnown`), and then an intake that copies it. One save per job makes every
stage id held by a request in flight stale at least once.

For identity: two submissions are one race for a lock, one match and one insert. One person writes the address
with and without capitals, another shares the phone, the office has an address and a number, which
a recruiter may type and a CV may show: every answer of the check is reached, every kind of merge, and clearings of either
contact, in time and stale. The instance is the weaker database, whose index
tells capitals apart; the theorems have both, and any number of everything.

For scoring: the three jobs have what the formula distinguishes (with and without nice-to-haves, a range
of years, only a minimum, and bounds the wrong way round), and the first sample ranges over pairs of evaluations of every kind, repeated
and foreign requirements, each grade of evidence, the boundary of relevance and the half-years around both ends of the range. The other two samples
have fixed answers and serve the median: both orders, ties, and any subset that fails.

For the team: two requests are one race, of any two kinds. Two people are a caller and a target, or a
member and a newcomer; two invitations a duplicate. `Offers` and `Changes` contain `owner`, which the code refuses.
The theorems have any number.

The largest runs: `intake_workers` has 2.7 million distinct states up to
the exchange of slots and of the two mails of one person (neither of which names the vacancy; the mail of `intake_faults` does),
`access` 2.3 million, `candidate_identity` 568 thousand, `scoring` 213 thousand. None takes more than four
minutes with two workers.

Fairness (`intake_recovery` only): a request or replay that has begun goes on, a slot that
holds a job goes on, a free slot takes a waiting job, BullMQ's stalled check and its events
happen. These are the event loop and BullMQ's timers. Nothing is assumed of Mailgun, of the
operator or of the model providers: a phase may throw each time.

### The divergences

- `intake_stall_limit`: `onFailed` takes `attemptsMade < attempts` for a pending retry. A
  job failed for stalling too often has attempts to spare and no retry; its row says
  `processing` for ever.
- `intake_two_slots`: the comment on `INGEST_CONCURRENCY` calls 2 or 3 slots safe. The terminal
  check and the write of `processing` are two statements; with two slots and an expired
  lock a finished row is taken up again. One slot is the default, for which the
  theorem `FinishedForGood` shows it cannot happen.
- `voice_lost_event`: the watchdog is said to write whatever a lost event would have
  written. It writes `failed` for a call nobody answered and books no next attempt.
- `stage_bulk_assign`: the board and voice assessment "must not disagree" about a candidate's stage.
  A bulk assignment to a job the candidate has an application with a stage for moves only `job_id`: the
  candidate keeps a stage of the job it came from, and stands in no column of the new one.

### Limits found on the way

`NoStrandedRow` and `Settles` are checked without the faults `write` and `api`. A swallowed
status write of the last attempt, and an api process that dies between claiming a held row and
queueing its job, both leave a row nobody looks at: the code has no rescan. A `failed` event
is lost with the worker that should have handled it. `FinishedStaysFinished` needs
acknowledged settling writes: if the write commits and its reply is lost, the catch
block writes `failed` or `held` over it, and the retry repeats the work with the cached answers.
`UnscoredIsUnfinished` needs a matching cache that accepts its write (no fault `matches`): otherwise the retry
does not re-match, as a log line says it would, and finishes an intake whose application is never scored.
The same happens when the vacancy is closed between two attempts: `run` filters a cached match by `status: 'open'` once more
(`ingestion.processor.ts:531-548`), goes on without a match and completes the intake (724-730), with a candidate placed and
unscored, although a comment (606) asks that the second attempt "reach the same conclusion". `UnscoredIsUnfinished` names
this case (`missed`) and says that there is no other.

For the calls: a dial that the provider placed and the code saw fail (fault `unrecorded`) is
dialled again. Three deliveries of one failure, of which the first books the retry and
is refused by Redis while the other two find its row to re-arm, dial the retry twice: the second
re-arm puts a live row back to `scheduled` (fault `overlap` with three requests; with two it
cannot happen, as `voice_calls` shows). `checkCall` writes on what it read before the poll, so it may put
`failed` over a call that a transcript has just completed. A worker that dies between
recording the conversation and arming the first check leaves the webhook as the only end. Two bookings
can pass the active-call check together. A booking whose queue reply was lost leaves `call-{id}` in BullMQ;
a later booking re-arms the row and adds that id again, which BullMQ ignores, so `NoStrandedBooking` does not
hold with that fault. The rollback of a refused booking does not look at the status
it overwrites, a cancellation included. `ScreeningBook` allows what the code does in the last
case; the others are outside the properties, and `PROJECT.json` lists them.

For the stages: `SplitsAreKnown` names the two steps after which board and application differ; the
second, a move that commits after its candidate was reassigned, is a race in
`moveCandidateToStage`, whose check is outside its transaction. An assessment that dies between
its summary and its move never advances the candidate, since the re-run finds the summary. A
bulk assignment that read no stage drags a candidate back whom a voice call advances in between.
Saving a job attaches every candidate without one that ever applied to it. The matcher's guess, made
only for someone without a job, is placed without looking again. The model does all of these;
no property speaks against them, and each is a hazard with its note in `PROJECT.json`.

For identity: a recruiter's entry takes no lock and may make a duplicate the intake would not
(`MailboxTwinsTyped` says it takes one). The scripts apply their plan without looking again: a row edited in
between may be folded into another person's, or lose a contact that is not blocked (`FoldsOnlyWhenStale` and `ClearsOnlyWhenStale`
say that only such rows are). A re-run finds its candidate by the log of its submission: a merge that left the log to the foreign
key would null it (`PointersHold`), and the applications would go with the row (`ApplicationsFollow`).

For scoring: `SilenceNeverHelps` leaves out a missing credential. Reported, it costs five points; unreported, it
is added as a missing requirement of kind `other`, which lowers the average, and when the average has
nothing left to lose the candidate scores up to five points higher. An entry for something the job does not ask for stays in
the average: with one unreported must-have and a foreign one met in its place, coverage is one half instead of
nothing, and 35 points may become 60. The cap for a missing must-have holds all the same (`LeftOutIsCapped`), but that
coverage rises is what the comment in `completeEvaluation()` (`scoring.service.ts:66-68`) says is over. And a met requirement with
evidence graded `none` is worth as much as with demonstrated evidence, and more than graded `claimed`
(`scoring-policy.ts:122`), although the prompt keeps `none` for what is missing: no code refuses that answer.
`BetterNeverScoresLower` therefore does not rank `none` below `claimed`.

For the team: duplicates (two open invitations, two rows of one newcomer, a second onboarding) do arise from two requests
at a time; `RacesExplainDuplicates` says that it takes such a race. A removal leaves the person's open invitations
open, and an acceptance that overlaps another one of the same invitation may bring a removed member back.

## 4. The proofs

Each theorem holds for every value of the constants that satisfies the modules' named
assumptions. `EmailIntakeProofs`:

| Theorem | Assumes | States |
|---|---|---|
| `TypeCorrect` | nothing beyond the constants' assumptions | `TypeOK`, with `scored` within `placed` within `people` |
| `OneCandidate` | `SingleSlot` | `OneCandidatePerMessage` |
| `FinishedForGood` | `SingleSlot`, `"reply"` not in `Faults` | `FinishedStaysFinished` |
| `ImplementsLedger` | the same | `KeepsLedger` |
| `TurnedAwayForGood` | `"verdicts"` not in `Faults`; any number of slots | `TurnedAwayHasNoCandidate` |
| `OneCandidatePerContact` | `Identified`: every CV names an e-mail address or a telephone; any number of slots | `OneCandidatePerMessage` |
| `UnscoredKeepsItsIntake` | `SingleSlot`, neither `"verdicts"` nor `"matches"` in `Faults` | `UnscoredIsUnfinished` |

`EmailIntakeRowsProofs`:

| Theorem | Assumes | States |
|---|---|---|
| `NoRowIsStranded` | `SingleSlot`, `Attended` | `NoStrandedRow` |

`Attended` says that error-path reads and writes succeed and the API process does not crash (none of
`"write"`, `"read"`, `"api"` in `Faults`), that every message parses (`Unparseable` is empty), and that locks are lost and
workers die at most as often as a job may stall (`MaxStops <= MaxStalled`). `intake_stall_limit`
shows that the last condition is needed.

`VoiceCallProofs`, for every number of rows, requests, slots, attempts and stops:

| Theorem | Assumes | States |
|---|---|---|
| `TypeCorrect` | nothing beyond the constants' assumptions | `TypeOK`, so no attempt beyond `MaxAttempts` |
| `OneRetry` | the same | `OneNextAttempt` |
| `ImplementsBook` | `Undisturbed`: none of `"flap"`, `"overlap"`, `"unrecorded"` in `Faults` | `KeepsBook` |
| `RetriesFollowNoAnswer` | the same | `RetryAfterNoAnswer` |

`VoiceCallBookingProofs`:

| Theorem | Assumes | States |
|---|---|---|
| `NoBookingIsStranded` | `SingleSlot`, `Undisturbed`, `Attended` (`MaxStops <= MaxStalled`) | `NoStrandedBooking` |
| `ChecksAreKept` | the same | `ChecksGoOn` |

The voice-call worker sets no concurrency, so BullMQ runs one job at a time: `SingleSlot`.

`StagePipelineProofs`, for every number of candidates, jobs, stages, edits, requests and tasks, with or
without crashes, from the constants' assumptions alone:

| Theorem | States |
|---|---|
| `TypeCorrect` | `TypeOK`: types, and no dangling reference |
| `PointerHasApplication` | `AssignedHasApplication` |
| `OverridesStand` | `OverrideStands` |
| `OneAdvance` | `OneAdvancePerStage` |
| `OnlyKnownSplits` | `SplitsAreKnown` |
| `ForeignStagesOnlyCopied` | `ForeignStagesAreCopied` |
| `ImplementsBoard` | `KeepsBoard` |

`CandidateIdentityProofs`, for every number of addresses, phones, submissions, jobs, rows, edits and script
runs, with either index:

| Theorem | States |
|---|---|
| `IdentityTypes` | `TypeOK` |
| `OneRowPerMailbox` | `MailboxTwinsTyped` |
| `OfficeContactsStayOut` | `OfficeContactsTyped` |
| `TextKeepsItsFile` | `TextBesideItsFile` |
| `PointersAreKept` | `PointersHold` |
| `ApplicationsAreKept` | `ApplicationsFollow` |
| `InsertsOnlyStrangers` | `NewRowIsStranger` |
| `FoldsErrOnlyWhenStale` | `FoldsOnlyWhenStale` |
| `ClearsErrOnlyWhenStale` | `ClearsOnlyWhenStale` |

`ScoringProofs`, for every set of jobs, names and spellings, every answer that passes the schema, every number of
samples, every `Grain`, and every precision `One` divisible by 100 times it:

| Theorem | States |
|---|---|
| `ScoresAreBounded` | `TypeOK` |
| `MoreEvidenceNeverHurts` | `BetterNeverScoresLower` |
| `SilenceDoesNotPay` | `SilenceNeverHelps` |
| `NothingStandsIn` | `LeftOutIsCapped` |
| `MedianIsReal` | `MedianOfReal` |
| `MedianExists` | if a sample was evaluated, one of them is the median |

`TeamAccessProofs`, for every number of organizations, seeded or not, people, invitations and requests:

| Theorem | States |
|---|---|
| `TeamTypes` | `TypeOK` |
| `OwnersStay` | `OrgKeepsItsOwner` |
| `MembersWereInvited` | `JoinsOnlyByInvitation` |
| `RevocationIsImmediate` | `RevokedAtOnce` |
| `DuplicatesTakeARace` | `RacesExplainDuplicates` |

`SingleSlot` says there is one worker slot: the default of `INGEST_CONCURRENCY`. All other faults
(expired locks, crashes, duplicate jobs, lost Redis replies, swallowed writes, redeliveries) are
allowed.

The argument. `TypeInv` adds to the types what a position in the code implies: a slot that
is busy has a job, one past `Identify` carries a candidate that exists, one at `Place` or
later knows its match, a call past its claim has a message, an attributed row exists.
`OneCandidatePerMessage` is not inductive: nothing in it excludes a
run whose snapshot of `candidate_id` is stale. `SlotInv` adds that the one slot's snapshot equals
the row's `candidate_id` up to `Identify`, that its row is not finished while it is between
its read and its last write, and that a message with a candidate of its own has `owner` set.
With these, `Identify` inserts only for a message that had no candidate. The refinement
classifies every step as one of `Quiet`, `Records`, `Attributes`, `Closes` or `Reopens` (open to open)
and maps each to a step of `IntakeLedger` or to a stutter.

For the calls, `TypeInv` adds that a slot's job is of its handler's kind and that a request knows its
row. `KeyInv` is the unique index, and that a second attempt always carries a key; it is
kept under every fault, because only an insert writes a key. `KeepsBook` is far from inductive: it
follows from `CallInv`, per call, whose four parts say that a phone that rang
belongs to a call in `calling` or beyond (`RingInv`), that one slot at a time is
between claim and record and its row says `calling` (`DialInv`), that a row not yet queued
has no job and no slot (`FreshInv`), and that one booking at a time queues it (`HoldInv`).
The three excluded faults break it: `flap` the third part, `overlap` the fourth, `unrecorded`
the second.
`RetriesFollowNoAnswer` adds that a call followed by a retry has a busy line, which nothing changes.

`NoBookingIsStranded` adds three parts to the book's invariant. `StallInv` counts stalls as for the intake. `DueInv` says that of
a call that is scheduled, or that a slot may still put back, the job with the highest number ever used (the latest
business window) is not finished: that some job is alive is not inductive, as the live one
could be the job about to end. `LeaveInv` says that a job which ends leaves its call to a job with
a higher number, to its own next attempt, or not scheduled at all. Its last part says that a check which ends leaves
a call in progress to another check; with it, and as a check that has ended is forgotten, so that its id is free
(`NoneDone`), `ChecksAreKept` follows step by step.

For the stages, one invariant `Inv` carries all seven. `TableInv` is what the tables hold: types, references,
`AssignedHasApplication` and `OverrideStands`. It is not inductive, because a request
writes what it read earlier. `Fine` says what a request may rely on in spite of the others:
a stage it holds belongs to the job it holds; one about to point the candidate at a job has its
application, unless candidate or job are gone; one that was filed by an assessment left a
summary, unless that can never be written again (`Dead`). `OneAssessor` is the strengthening of
`OneAdvancePerStage`. That other steps keep `Fine` follows from `Grows`, the facts no step takes
back: a deleted row stays deleted, generations only rise, an application or a summary goes only with
its candidate, job or stage. So each action is shown to keep `TableInv`, to satisfy `Grows`, and
to leave its own task fine; the two action properties (`Placed`) are shown per action from `Inv`.
So is the refinement. `CandidateBoard` is seen through columns of `cand` (`StatusOf`, `JobOf`, `ScoreOf`, `Overridden`), the rows
of `app` and the jobs that exist; `Columns` says what one row write does to them, `MoreApplications` what an upsert does. Beginning,
moving, advancing, summarising and crashing show nothing, and each commit is one step of the board. It takes `Inv` in three places:
a bulk assignment points a candidate only at a job it has an application for (`Fine`), a stage held by an assignment is of the job
it names, so that job exists (`Fine`), and a job edit never detaches anybody (`AssignedHasApplication`).
With one candidate, TLC cannot tell an edit that moves it from an assignment; the theorem has any number.

`TurnedAwayForGood` and `UnscoredKeepsItsIntake` are about what a retry remembers. `DecidedInv` says that a slot
past `Classify`, and a message with a candidate, have a cached verdict that lets them pass; since a
verdict never changes, a message turned away can have no candidate. It needs no `SingleSlot`, as it relates only
the cache to positions and rows. `MatchedInv` says the same of the cached match: a placed
candidate without a score is either still in a slot, or waits with a match that the next attempt will score, or has
lost its vacancy meanwhile.

`NoRowIsStranded` is the theorem about the queue. `StallInv` counts: a job has stalled at most as often as a
worker died or lost a lock, so BullMQ never gives it up for stalling. `BusyInv` says that the job in a slot is
unfinished and runs the attempt that the job's count says. `KeyInv` says that a replay's job id has never been
used before the replay that claimed the row adds it, so that add is not ignored as a duplicate. On these
rests `CoverInv`: an open row has a waiting or active job, or somebody who has claimed it and is about to add
one, or a mail that has not been queued yet; and a job about to end leaves a row that is settled, parked as held, or covered
by another job.

For identity, `Inv` is `TypeOK`, the per-row facts (a text stands beside its file, a job has its application, an
office contact was typed), `MailboxTwinsTyped`, and three parts that make it inductive. `Locks`: two workers between
lock and commit differ in mailbox, two past the check also in phone. `LogsLive`: every pointer into `cand` is to a
live row. `PlanInv`: a planned fold is of compatible rows, and a planned clearing of a blocked address, unless a row of it was
touched; `NumbersPlanned` says so of numbers. `Attributed`, the log behind a CV text, is an invariant of its own on top of these:
a fold keeps it because the logs move in the transaction that moves the text. An insert by the intake is then safe because its check saw every
untyped row with its mailbox, and the lock kept any other from appearing in between.

For scoring, the state is simple and the formula is not. The invariant `Consistent` says that an evaluated sample has the
score of its answer, and that an outcome comes after the last sample; the rest is about the operators.
`NoWorse` compares two entries for one requirement: one of them may have left the core only if the other is missing from
it, so that an average loses nothing but zeros (`CoverageGrows`), and when nothing of the core is left, relevance replaces
an average of zero (`CoreShareGrows`). `Better` compares two evaluations, and `ExperienceGrows`, `RawGrows`, `AdjustmentGrows`,
`CapGrows` and `RoundedGrows` take it through the formula. `BetterList` and `ShorterList` show that
`completeEvaluation()` makes of a better list a better evaluation, and of a shorter one a worse; `RepeatingList`, that a
repeated entry makes no better one. A sum is a fold of the
community modules, which is a recursive function: `TotalSums` says that it exists on every finite set. That and all
other inductions take the smallest counterexample out of a set of subsets (`SmallestSet`), which the
library proves to exist without an operator as parameter. As `One` is any precision, the theorems hold in particular
where it has every denominator of an instance, that is, for the exact formula; what they do not say is how doubles round.
The attempt to prove `ExperienceGrows` found that the model's case distinction was ambiguous for a job whose maximum is below its
minimum, which the code accepts; it now follows the order of the code's tests.

For the team, `Inv` says of the tables what `TypeOK` does and that an organization has one owner, or is seeded and has none (`Owned`), and of each request three things.
`Shape`: its position says which fields it has. `Fresh`: what its checks read still holds, unless it has missed a write.
`Bound`: the roles it gives exclude `owner`, and its target is not the owner: a row once not the
owner's never becomes it. Every action is shown to keep the tables and the requests, and the action
properties follow per action from `Fresh`.

`OneCandidatePerContact` says what the guard before Phase 6 does not have to: when two slots run one message at once,
both may have read a row without a candidate, and the second insertion finds the first one's candidate by its contact, because
the look-up and the insertion are one transaction under the contact's lock. The invariant is `OnePerContact`, which needs
no assumption; a CV without any contact is what `SingleSlot` is for. It takes `Contact`, what is extracted from a message, as fixed,
as `EmailIntake` does; what happens when a contact is edited or merged is the subject of `CandidateIdentity`.

Only model-checked: the liveness of the intake (`Settles`), and what two intake slots do, except `TypeCorrect`,
`TurnedAwayForGood` and `OneCandidatePerContact`.

## 5. Not modelled, and what is left

Not modelled, with the reasons:

- *MCP and OAuth.* Adapters that call the services above, and token issuing. An authorization code is taken with one
  atomic command; a refresh token is read, saved and deleted in three. No other part reads this state.
- *Migration gate.* A poll that ends when the migrations are applied; it shares no state with the running system.
- *Read models, health, configuration, storage of files.* Queries, probes and parsing without behaviour over time.
- *Prompts and the model providers.* Any answer that passes its schema is allowed.

Partly modelled: the intake's AI services (the extraction cache and the spam rules are data), jobs (creation and short ids
touch no candidate), voice screening (business hours, phone formats and the assessment's prompt are data), and the
access of a team, as section 2 says.

Left to do: the refresh-token rotation of `mcp/`, beside `TeamAccess`.
