------------------------- MODULE StagePipelineProofs -------------------------
(***************************************************************************)
(* Theorems about StagePipeline, for any number of candidates, jobs, tasks *)
(* and stages.  TypeOK, AssignedHasApplication, OverrideStands and         *)
(* OneAdvancePerStage rest on one inductive invariant, Inv: what the       *)
(* tables hold (TableInv), and what a request or worker job between two    *)
(* steps may still rely on although others write (Fine).                   *)
(***************************************************************************)
EXTENDS StagePipeline, TLAPS

TableTypes ==
    /\ cand \in [Candidates -> CandidateRecord]
    /\ app \in [Candidates \X Jobs -> Stages \cup {None, Absent}]
    /\ notes \subseteq Candidates \X Stages
    /\ job \in [Jobs -> JobRecord]

TableInv == TableTypes /\ References /\ AssignedHasApplication /\ OverrideStands

\* No summary of candidate c for stage s can be written any more.
Dead(c, s) == cand[c].status = "gone" \/ ~Exists(s.job) \/ s.gen < job[s.job].gen

Fine(r) ==
    /\ r \in TaskRecord
    /\ r.pc # "idle" => r.c \in Candidates /\ r.job \in Jobs
    /\ r.pc \in {"move", "update", "assign", "create", "enrich"} =>
        r.stage \in Stages /\ r.stage.job = r.job
    /\ r.pc = "point" => /\ cand[r.c].status # "none"
                         /\ HasRow(r.c) /\ Exists(r.job) => Applied(r.c, r.job)
    /\ r.from # None => /\ r.c \in Candidates
                        /\ <<r.c, r.from>> \in notes \/ Dead(r.c, r.from)

\* A stage of a candidate has been assessed on behalf of one worker job at most.
OneAssessor ==
    \A t, u \in Tasks :
        task[t].from # None /\ task[t].from = task[u].from /\ task[t].c = task[u].c => t = u

Inv ==
    /\ TableInv
    /\ task \in [Tasks -> TaskRecord]
    /\ \A t \in Tasks : Fine(task[t])
    /\ OneAssessor
    /\ calls \in 0 .. MaxCalls

\* What no step takes back, and a task may therefore rely on.
Grows ==
    /\ \A c \in Candidates : /\ cand[c].status # "none" => cand'[c].status # "none"
                             /\ cand[c].status = "gone" => cand'[c].status = "gone"
    /\ \A j \in Jobs : /\ Exists(j)' => Exists(j)
                       /\ job[j].gen <= job'[j].gen
    /\ \A c \in Candidates, j \in Jobs :
        Applied(c, j) => Applied(c, j)' \/ ~HasRow(c)' \/ ~Exists(j)'
    /\ \A c \in Candidates, s \in Stages :
        <<c, s>> \in notes => <<c, s>> \in notes' \/ Dead(c, s)'

\* The steps that may part the board and the application of c.
Splits(c) ==
    \E t \in Tasks : /\ task[t].c = c
                     /\ task'[t] # task[t]
                     /\ \/ task[t].pc = "point"
                        \/ task[t].pc = "move" /\ task[t].job # cand[c].job

\* What SplitsAreKnown and ForeignStagesAreCopied say of one step.
Placed ==
    /\ \A c \in Candidates : Agrees(c) => Agrees(c)' \/ Splits(c)
    /\ \A c \in Candidates, j \in Jobs : OnOwnStage(c, j) =>
        \/ OnOwnStage(c, j)'
        \/ cand[c].job = j /\ cand[c].stage = app'[<<c, j>>]

------------------------------------------------------------------------------
(* Steps in general.                                                         *)

LEMMA GenIsInt ==
    ASSUME TableTypes, NEW j \in Jobs PROVE job[j].gen \in 0 .. MaxEdits /\ job[j].gen \in Int
BY BoundsAssumption DEF TableTypes, JobRecord

\* What a task relies on still holds after any step.
LEMMA StaysFine ==
    ASSUME TableTypes, TableTypes', Grows, NEW r, Fine(r)
    PROVE  Fine(r)'
<1>1. r \in TaskRecord
  BY DEF Fine
<1>2. r.pc = "point" => /\ cand'[r.c].status # "none"
                        /\ (HasRow(r.c) /\ Exists(r.job))' => Applied(r.c, r.job)'
  <2> SUFFICES ASSUME r.pc = "point"
               PROVE  /\ cand'[r.c].status # "none"
                      /\ (HasRow(r.c) /\ Exists(r.job))' => Applied(r.c, r.job)'
    OBVIOUS
  <2>1. r.c \in Candidates /\ r.job \in Jobs /\ cand[r.c].status # "none"
    BY DEF Fine
  <2>2. cand'[r.c].status # "none"
    BY <2>1 DEF Grows
  <2>3. HasRow(r.c)' => HasRow(r.c)
    BY <2>1 DEF Grows, HasRow, TableTypes, CandidateRecord, CandidateStatus
  <2>4. Exists(r.job)' => Exists(r.job)
    BY <2>1 DEF Grows
  <2>5. HasRow(r.c) /\ Exists(r.job) => Applied(r.c, r.job)
    BY DEF Fine
  <2> QED BY <2>1, <2>2, <2>3, <2>4, <2>5 DEF Grows
<1>3. r.from # None => /\ r.c \in Candidates
                       /\ <<r.c, r.from>> \in notes' \/ Dead(r.c, r.from)'
  <2> SUFFICES ASSUME r.from # None
               PROVE  /\ r.c \in Candidates
                      /\ <<r.c, r.from>> \in notes' \/ Dead(r.c, r.from)'
    OBVIOUS
  <2>1. r.c \in Candidates /\ r.from \in Stages
    BY <1>1 DEF Fine, TaskRecord
  <2>2. r.from.job \in Jobs /\ r.from.gen \in 0 .. MaxEdits
    BY <2>1 DEF Stages
  <2>3. Dead(r.c, r.from) => Dead(r.c, r.from)'
    <3>1. job[r.from.job].gen \in Int /\ job'[r.from.job].gen \in Int /\ r.from.gen \in Int
      BY <2>2, BoundsAssumption DEF TableTypes, JobRecord
    <3>2. job[r.from.job].gen <= job'[r.from.job].gen
      BY <2>2 DEF Grows
    <3>3. Exists(r.from.job)' => Exists(r.from.job)
      BY <2>2 DEF Grows
    <3>4. cand[r.c].status = "gone" => cand'[r.c].status = "gone"
      BY <2>1 DEF Grows
    <3> QED BY <3>1, <3>2, <3>3, <3>4 DEF Dead
  <2>4. <<r.c, r.from>> \in notes \/ Dead(r.c, r.from)
    BY DEF Fine
  <2> QED BY <2>1, <2>3, <2>4 DEF Grows
<1> QED BY <1>1, <1>2, <1>3 DEF Fine

\* A step of task t that leaves it with a record it may rely on.
LEMMA TasksStayFine ==
    ASSUME Inv, TableInv', Grows, NEW t \in Tasks, NEW n, Fine(n)',
           task' = [task EXCEPT ![t] = n]
    PROVE  task' \in [Tasks -> TaskRecord] /\ \A u \in Tasks : Fine(task[u])'
<1>1. n \in TaskRecord
  BY DEF Fine
<1>2. task' \in [Tasks -> TaskRecord]
  BY <1>1 DEF Inv
<1>3. ASSUME NEW u \in Tasks PROVE Fine(task[u])'
  <2>1. CASE u = t
    <3>1. task'[u] = n
      BY <2>1 DEF Inv
    <3> QED BY <3>1 DEF Fine
  <2>2. CASE u # t
    <3>1. PICK r : r = task[u]
      OBVIOUS
    <3>2. Fine(r)
      BY <3>1 DEF Inv, Fine
    <3>3. Fine(r)'
      BY <3>2, StaysFine DEF Inv, TableInv
    <3>4. task'[u] = r
      BY <3>1, <2>2 DEF Inv
    <3> QED BY <3>3, <3>4 DEF Fine
  <2> QED BY <2>1, <2>2
<1> QED BY <1>2, <1>3

\* The same when the step files no summary.
LEMMA TaskWrites ==
    ASSUME Inv, TableInv', Grows, NEW t \in Tasks, NEW n, Fine(n)',
           n.from # None => n.from = task[t].from /\ n.c = task[t].c,
           task' = [task EXCEPT ![t] = n], calls' \in 0 .. MaxCalls
    PROVE  Inv'
<1>1. task' \in [Tasks -> TaskRecord] /\ \A u \in Tasks : Fine(task[u])'
  BY TasksStayFine
<1>2. OneAssessor'
  BY <1>1 DEF Inv, OneAssessor
<1> QED BY <1>1, <1>2 DEF Inv

\* A step of no task.
LEMMA TablesOnly ==
    ASSUME Inv, TableInv', Grows, UNCHANGED task, calls' \in 0 .. MaxCalls
    PROVE  Inv'
<1>1. ASSUME NEW u \in Tasks PROVE Fine(task[u])'
  <2>1. PICK r : r = task[u]
    OBVIOUS
  <2>2. Fine(r)
    BY <2>1 DEF Inv, Fine
  <2>3. Fine(r)'
    BY <2>2, StaysFine DEF Inv, TableInv
  <2> QED BY <2>1, <2>3 DEF Fine
<1> QED BY <1>1 DEF Inv, OneAssessor

\* The tables are as they were.
LEMMA SameTables ==
    ASSUME TableInv, UNCHANGED tables
    PROVE  TableInv' /\ Grows
<1>1. TableInv'
  BY DEF TableInv, TableTypes, References, AssignedHasApplication, OverrideStands, tables,
         HasRow, Exists, StageExists, Applied
<1>2. ASSUME NEW j \in Jobs PROVE job[j].gen <= job'[j].gen
  BY GenIsInt DEF TableInv, tables
<1> QED BY <1>1, <1>2 DEF Grows, tables, HasRow, Exists, Applied

\* A write to the row and the applications of one candidate that keeps every application and
\* refers only to rows that exist.
LEMMA WriteRows ==
    ASSUME TableInv, NEW c \in Candidates, NEW d \in CandidateRecord,
           NEW a \in [Candidates \X Jobs -> Stages \cup {None, Absent}],
           cand[c].status # "gone", d.status \in {"active", "rejected"},
           d.job # None => Exists(d.job) /\ a[<<c, d.job>>] # Absent,
           d.stage # None => StageExists(d.stage),
           d.over => d.score # "ai",
           \A k \in Jobs : \/ a[<<c, k>>] = app[<<c, k>>]
                           \/ /\ Exists(k) /\ a[<<c, k>>] # Absent
                              /\ a[<<c, k>>] = None \/ StageExists(a[<<c, k>>]),
           \A e \in Candidates \ {c}, k \in Jobs : a[<<e, k>>] = app[<<e, k>>],
           cand' = [cand EXCEPT ![c] = d], app' = a, UNCHANGED <<notes, job>>
    PROVE  TableInv' /\ Grows
<1>1. TableTypes'
  BY DEF TableInv, TableTypes
<1>2. /\ cand'[c] = d
      /\ \A e \in Candidates \ {c} : cand'[e] = cand[e]
  BY DEF TableInv, TableTypes
<1>3. \A e \in Candidates : HasRow(e) => HasRow(e)'
  BY <1>2 DEF HasRow
<1>4. HasRow(c)'
  BY <1>2 DEF HasRow
<1>5. /\ \A j : Exists(j)' <=> Exists(j)
      /\ \A s : StageExists(s)' <=> StageExists(s)
  BY DEF Exists, StageExists
<1>6. References'
  <2>1. ASSUME NEW e \in Candidates
        PROVE  /\ cand'[e].job # None => HasRow(e)' /\ Exists(cand'[e].job)
               /\ cand'[e].stage # None => HasRow(e)' /\ StageExists(cand'[e].stage)
    BY <1>2, <1>3, <1>4 DEF TableInv, References
  <2>2. ASSUME NEW e \in Candidates, NEW k \in Jobs, a[<<e, k>>] # Absent
        PROVE  HasRow(e)' /\ Exists(k) /\ (a[<<e, k>>] = None \/ StageExists(a[<<e, k>>]))
    BY <2>2, <1>3, <1>4 DEF TableInv, References, Applied
  <2>3. \A n \in notes : HasRow(n[1])' /\ StageExists(n[2])
    BY <1>3 DEF TableInv, References, TableTypes
  <2> QED BY <2>1, <2>2, <2>3, <1>5 DEF References, Applied, Exists, StageExists
<1>7. AssignedHasApplication'
  <2> SUFFICES ASSUME NEW e \in Candidates, cand'[e].job # None
               PROVE  a[<<e, cand'[e].job>>] # Absent
    BY DEF AssignedHasApplication, Applied
  <2>1. CASE e = c
    BY <2>1, <1>2
  <2>2. CASE e # c
    <3>1. cand'[e] = cand[e]
      BY <2>2, <1>2
    <3>2. cand[e].job \in Jobs /\ app[<<e, cand[e].job>>] # Absent
      BY <3>1 DEF TableInv, AssignedHasApplication, Applied, TableTypes, CandidateRecord
    <3> QED BY <3>1, <3>2, <2>2
  <2> QED BY <2>1, <2>2
<1>8. OverrideStands'
  BY <1>2 DEF TableInv, OverrideStands
<1>9. Grows
  <2>1. ASSUME NEW e \in Candidates
        PROVE  /\ cand[e].status # "none" => cand'[e].status # "none"
               /\ cand[e].status = "gone" => cand'[e].status = "gone"
    BY <1>2
  <2>2. ASSUME NEW j \in Jobs PROVE job[j].gen <= job'[j].gen
    <3>1. job' = job
      OBVIOUS
    <3>2. TableTypes
      BY DEF TableInv
    <3>3. job[j].gen \in Int
      BY <3>2, GenIsInt
    <3> QED BY <3>1, <3>3
  <2>3. ASSUME NEW e \in Candidates, NEW k \in Jobs, Applied(e, k) PROVE Applied(e, k)'
    BY <2>3 DEF Applied
  <2> QED BY <2>1, <2>2, <2>3, <1>5 DEF Grows
<1> QED BY <1>1, <1>6, <1>7, <1>8, <1>9 DEF TableInv

\* The same with the row alone: where the candidate is does not change.
LEMMA WriteHeadline ==
    ASSUME TableInv, NEW c \in Candidates, NEW d \in CandidateRecord, HasRow(c),
           d.status \in {"active", "rejected"}, d.job = cand[c].job, d.stage = cand[c].stage,
           d.over => d.score # "ai",
           cand' = [cand EXCEPT ![c] = d], UNCHANGED <<app, notes, job>>
    PROVE  TableInv' /\ Grows
<1>1. PICK a : a = app
  OBVIOUS
<1>2. a \in [Candidates \X Jobs -> Stages \cup {None, Absent}]
  BY <1>1 DEF TableInv, TableTypes
<1>3. cand[c].status # "gone"
  BY DEF HasRow
<1>4. d.job # None => Exists(d.job) /\ a[<<c, d.job>>] # Absent
  BY <1>1 DEF TableInv, References, AssignedHasApplication, Applied
<1>5. d.stage # None => StageExists(d.stage)
  BY DEF TableInv, References
<1>6. app' = a /\ UNCHANGED <<notes, job>>
  BY <1>1
<1>7. /\ \A k \in Jobs : a[<<c, k>>] = app[<<c, k>>]
      /\ \A e \in Candidates \ {c}, k \in Jobs : a[<<e, k>>] = app[<<e, k>>]
  BY <1>1
<1> QED BY <1>2, <1>3, <1>4, <1>5, <1>6, <1>7, WriteRows

\* A summary more.
LEMMA WriteNote ==
    ASSUME TableInv, NEW c \in Candidates, NEW s \in Stages, HasRow(c), StageExists(s),
           notes' = notes \cup {<<c, s>>}, UNCHANGED <<cand, app, job>>
    PROVE  TableInv' /\ Grows
<1>1. TableTypes'
  BY DEF TableInv, TableTypes
<1>2. /\ \A e \in Candidates : HasRow(e)' <=> HasRow(e)
      /\ \A j : Exists(j)' <=> Exists(j)
      /\ \A r : StageExists(r)' <=> StageExists(r)
      /\ \A e, j : Applied(e, j)' <=> Applied(e, j)
  BY DEF HasRow, Exists, StageExists, Applied
<1>3. \A n \in notes' : HasRow(n[1])' /\ StageExists(n[2])'
  <2> SUFFICES ASSUME NEW n \in notes' PROVE HasRow(n[1])' /\ StageExists(n[2])'
    OBVIOUS
  <2>1. CASE n \in notes
    BY <2>1, <1>2 DEF TableInv, TableTypes, References
  <2>2. CASE n = <<c, s>>
    BY <2>2, <1>2
  <2> QED BY <2>1, <2>2
<1>4. References'
  <2>1. ASSUME NEW e \in Candidates
        PROVE  /\ cand'[e].job # None => HasRow(e)' /\ Exists(cand[e].job)'
               /\ cand'[e].stage # None => HasRow(e)' /\ StageExists(cand[e].stage)'
    BY <1>2 DEF TableInv, References, HasRow, Exists, StageExists
  <2>2. ASSUME NEW e \in Candidates, NEW j \in Jobs, Applied(e, j)'
        PROVE  /\ HasRow(e)' /\ Exists(j)'
               /\ app'[<<e, j>>] = None \/ StageExists(app[<<e, j>>])'
    BY <2>2, <1>2 DEF TableInv, References, HasRow, Exists, StageExists, Applied
  <2> QED BY <2>1, <2>2, <1>3 DEF References
<1>5. AssignedHasApplication' /\ OverrideStands'
  BY DEF TableInv, AssignedHasApplication, OverrideStands, Applied
<1>6. ASSUME NEW j \in Jobs PROVE job[j].gen <= job'[j].gen
  BY GenIsInt DEF TableInv
<1>7. Grows
  BY <1>2, <1>6 DEF Grows
<1> QED BY <1>1, <1>4, <1>5, <1>7 DEF TableInv

\* A step that moves nobody.
LEMMA Unmoved ==
    ASSUME app' = app,
           \A c \in Candidates : cand'[c].job = cand[c].job /\ cand'[c].stage = cand[c].stage
    PROVE  Placed
BY DEF Placed, Agrees, OnOwnStage

\* A write to the row and the applications of one candidate.
LEMMA RowMoves ==
    ASSUME TableInv, NEW c \in Candidates, NEW d \in CandidateRecord,
           NEW a \in [Candidates \X Jobs -> Stages \cup {None, Absent}],
           \A e \in Candidates \ {c}, k \in Jobs : a[<<e, k>>] = app[<<e, k>>],
           d.job = None \/ a[<<c, d.job>>] = d.stage \/ ~Agrees(c) \/ Splits(c),
           \A k \in Jobs : \/ a[<<c, k>>] = app[<<c, k>>]
                           \/ a[<<c, k>>] \notin Stages
                           \/ a[<<c, k>>].job = k
                           \/ cand[c].job = k /\ cand[c].stage = a[<<c, k>>],
           cand' = [cand EXCEPT ![c] = d], app' = a
    PROVE  Placed
<1>1. cand'[c] = d /\ \A e \in Candidates \ {c} : cand'[e] = cand[e]
  BY DEF TableInv, TableTypes
<1>2. ASSUME NEW e \in Candidates, Agrees(e) PROVE Agrees(e)' \/ Splits(e)
  <2>1. CASE e = c
    BY <2>1, <1>1, <1>2 DEF Agrees
  <2>2. CASE e # c
    <3>1. cand[e].job = None \/ (cand[e].job \in Jobs /\ app[<<e, cand[e].job>>] = cand[e].stage)
      BY <1>2 DEF Agrees, TableInv, TableTypes, CandidateRecord
    <3> QED BY <2>2, <3>1, <1>1 DEF Agrees
  <2> QED BY <2>1, <2>2
<1>3. ASSUME NEW e \in Candidates, NEW k \in Jobs, OnOwnStage(e, k)
      PROVE  OnOwnStage(e, k)' \/ (cand[e].job = k /\ cand[e].stage = app'[<<e, k>>])
  BY <1>3 DEF OnOwnStage
<1> QED BY <1>2, <1>3 DEF Placed

------------------------------------------------------------------------------
(* Steps that take rows away.                                                *)

LEMMA DeleteCandidateTables ==
    ASSUME TableInv, NEW c \in Candidates, DeleteCandidate(c)
    PROVE  TableInv' /\ Grows
<1> DEFINE d == [NoCandidate EXCEPT !.status = "gone"]
<1>1. /\ d \in CandidateRecord
      /\ d.status = "gone" /\ d.job = None /\ d.stage = None /\ ~d.over
  BY DEF NoCandidate, CandidateRecord, CandidateStatus
<1>2. /\ cand' = [cand EXCEPT ![c] = d]
      /\ job' = job
      /\ HasRow(c)
      /\ notes' = {n \in notes : n[1] # c}
      /\ app' = [x \in Candidates \X Jobs |-> IF x[1] = c THEN Absent ELSE app[x]]
  BY DEF DeleteCandidate
<1> HIDE DEF d
<1>3. TableTypes'
  BY <1>1, <1>2 DEF TableInv, TableTypes
<1>4. /\ cand'[c] = d
      /\ \A e \in Candidates \ {c} : cand'[e] = cand[e]
      /\ \A e \in Candidates \ {c}, j \in Jobs : app'[<<e, j>>] = app[<<e, j>>]
      /\ \A j \in Jobs : app'[<<c, j>>] = Absent
  BY <1>2 DEF TableInv, TableTypes
<1>5. /\ \A e \in Candidates \ {c} : HasRow(e)' <=> HasRow(e)
      /\ \A j : Exists(j)' <=> Exists(j)
      /\ \A s : StageExists(s)' <=> StageExists(s)
      /\ \A e \in Candidates \ {c}, j \in Jobs : Applied(e, j)' <=> Applied(e, j)
      /\ \A j \in Jobs : ~Applied(c, j)'
      /\ ~HasRow(c)'
  BY <1>1, <1>2, <1>4 DEF HasRow, Exists, StageExists, Applied
<1>6. References'
  <2>1. ASSUME NEW e \in Candidates, NEW j \in Jobs, Applied(e, j)'
        PROVE  /\ HasRow(e)' /\ Exists(j)'
               /\ app'[<<e, j>>] = None \/ StageExists(app[<<e, j>>])'
               /\ app'[<<e, j>>] = app[<<e, j>>]
    BY <2>1, <1>4, <1>5 DEF TableInv, References
  <2>2. ASSUME NEW e \in Candidates
        PROVE  /\ cand'[e].job # None => e # c /\ HasRow(e)' /\ Exists(cand[e].job)'
               /\ cand'[e].stage # None => e # c /\ HasRow(e)' /\ StageExists(cand[e].stage)'
    BY <1>1, <1>4, <1>5 DEF TableInv, References
  <2>3. ASSUME NEW n \in notes' PROVE HasRow(n[1])' /\ StageExists(n[2])'
    BY <1>2, <1>5 DEF TableInv, TableTypes, References
  <2> QED BY <2>1, <2>2, <2>3, <1>4 DEF References, Exists, StageExists
<1>7. AssignedHasApplication'
  <2> SUFFICES ASSUME NEW e \in Candidates, cand'[e].job # None
               PROVE  app'[<<e, cand'[e].job>>] # Absent
    BY DEF AssignedHasApplication, Applied
  <2>1. e # c /\ cand'[e] = cand[e]
    BY <1>1, <1>4
  <2>2. cand[e].job \in Jobs /\ app[<<e, cand[e].job>>] # Absent
    BY <2>1 DEF TableInv, AssignedHasApplication, Applied, TableTypes, CandidateRecord
  <2> QED BY <2>1, <2>2, <1>4
<1>8. OverrideStands'
  BY <1>1, <1>4 DEF TableInv, OverrideStands
<1>9. Grows
  <2>1. ASSUME NEW j \in Jobs PROVE job[j].gen <= job'[j].gen
    BY <1>2, GenIsInt DEF TableInv
  <2>2. ASSUME NEW e \in Candidates
        PROVE  /\ cand[e].status # "none" => cand'[e].status # "none"
               /\ cand[e].status = "gone" => cand'[e].status = "gone"
    BY <1>1, <1>4
  <2>3. ASSUME NEW e \in Candidates, NEW s \in Stages, <<e, s>> \in notes
        PROVE  <<e, s>> \in notes' \/ Dead(e, s)'
    BY <2>3, <1>1, <1>2, <1>4 DEF Dead
  <2> QED BY <2>1, <2>2, <2>3, <1>5 DEF Grows
<1> QED BY <1>3, <1>6, <1>7, <1>8, <1>9 DEF TableInv

LEMMA DeleteJobTables ==
    ASSUME TableInv, NEW j \in Jobs, DeleteJob(j)
    PROVE  TableInv' /\ Grows
<1>1. /\ job' = [job EXCEPT ![j].status = "closed"]
      /\ UNCHANGED <<cand, app, notes>>
      /\ job[j].status # "gone"
  BY DEF DeleteJob, Exists
<1>2. /\ TableTypes'
      /\ \A k \in Jobs : job'[k].gen = job[k].gen
      /\ \A k \in Jobs : (job'[k].status # "gone") <=> (job[k].status # "gone")
  BY <1>1 DEF TableInv, TableTypes, JobRecord, JobStatus
<1>3. /\ \A e \in Candidates : HasRow(e)' <=> HasRow(e)
      /\ \A k : Exists(k)' <=> Exists(k)
      /\ \A s : StageExists(s)' <=> StageExists(s)
      /\ \A e, k : Applied(e, k)' <=> Applied(e, k)
  BY <1>1, <1>2 DEF HasRow, Exists, StageExists, Stages, Applied
<1>4. References'
  BY <1>1, <1>3 DEF TableInv, TableTypes, References
<1>5. AssignedHasApplication' /\ OverrideStands'
  BY <1>1, <1>3 DEF TableInv, AssignedHasApplication, OverrideStands, Applied
<1>6. ASSUME NEW k \in Jobs PROVE job[k].gen <= job'[k].gen
  BY <1>2, GenIsInt DEF TableInv
<1>7. Grows
  BY <1>1, <1>3, <1>6 DEF Grows
<1> QED BY <1>2, <1>4, <1>5, <1>7 DEF TableInv

\* What becomes of a reference to a stage when the stages of j go.
LEMMA NulledStage ==
    ASSUME NEW j \in Jobs, NEW s \in Stages \cup {None, Absent}
    PROVE  /\ Nulled(s, j) \in {s, None}
           /\ s \in Stages => (Nulled(s, j) = None) <=> (s.job = j)
           /\ s \notin Stages => Nulled(s, j) = s
BY NullAssumption DEF Nulled

LEMMA UpdateJobTables ==
    ASSUME TableInv, NEW j \in Jobs, NEW status \in {"open", "closed"},
           NEW enabled \in SUBSET Orders, UpdateJob(j, status, enabled)
    PROVE  TableInv' /\ Grows
<1>1. PICK first : first = [job |-> j, gen |-> job[j].gen + 1, order |-> 1]
  OBVIOUS
<1>2. PICK g : g = job[j].gen + 1
  OBVIOUS
<1> DEFINE attached(c) == HasRow(c) /\ cand[c].job \in {None, j} /\ Applied(c, j)
           detached(c) == cand[c].job = j /\ ~Applied(c, j)
<1>3. /\ Exists(j)
      /\ job[j].gen < MaxEdits
      /\ job' = [job EXCEPT ![j] = [status |-> status, gen |-> g, enabled |-> enabled]]
      /\ cand' = [c \in Candidates |->
                    IF attached(c) THEN [cand[c] EXCEPT !.job = j, !.stage = first]
                    ELSE [cand[c] EXCEPT !.job = IF detached(c) THEN None ELSE @,
                                         !.stage = IF detached(c) THEN None ELSE Nulled(@, j)]]
      /\ app' = [x \in Candidates \X Jobs |->
                    IF x[2] = j /\ app[x] # Absent THEN first ELSE Nulled(app[x], j)]
      /\ notes' = {n \in notes : n[2].job # j}
  BY <1>1, <1>2 DEF UpdateJob
<1>4. /\ job[j].gen \in Nat /\ g \in 0 .. MaxEdits /\ g = job[j].gen + 1
      /\ job[j].gen \in Int /\ g \in Int
  <2>1. job[j].gen \in 0 .. MaxEdits /\ job[j].gen \in Int
    BY GenIsInt DEF TableInv
  <2>2. job[j].gen < MaxEdits
    BY ONLY <1>3
  <2>3. MaxEdits \in Int
    BY ONLY BoundsAssumption
  <2>4. PICK h : h = job[j].gen
    OBVIOUS
  <2>5. h \in 0 .. MaxEdits /\ h \in Int /\ h < MaxEdits /\ g = h + 1
    BY <2>1, <2>2, <2>4, <1>2
  <2>6. h \in Nat /\ g \in 0 .. MaxEdits /\ g \in Int
    BY <2>3, <2>5
  <2> QED BY <2>4, <2>5, <2>6
<1>5. first \in Stages /\ first.job = j /\ first.gen = g
  BY <1>1, <1>2, <1>4, BoundsAssumption DEF Stages, Orders
<1>6. job' \in [Jobs -> JobRecord]
  BY <1>3, <1>4 DEF TableInv, TableTypes, JobRecord, JobStatus
<1>7. /\ job'[j].gen = g /\ job'[j].status # "gone"
      /\ \A k \in Jobs \ {j} : job'[k] = job[k]
  BY <1>3 DEF TableInv, TableTypes
<1>8. /\ \A k : Exists(k)' <=> Exists(k)
      /\ StageExists(first)'
      /\ \A s \in Stages : StageExists(s) /\ s.job # j => StageExists(s)'
  BY <1>3, <1>5, <1>7 DEF Exists, StageExists, Stages
<1>9. ASSUME NEW c \in Candidates
      PROVE  /\ cand'[c] \in CandidateRecord
             /\ cand'[c].status = cand[c].status
             /\ cand'[c].over = cand[c].over /\ cand'[c].score = cand[c].score
             /\ cand'[c].job = IF attached(c) THEN j
                               ELSE IF detached(c) THEN None ELSE cand[c].job
             /\ cand'[c].stage = IF attached(c) THEN first
                                 ELSE IF detached(c) THEN None ELSE Nulled(cand[c].stage, j)
  <2>1. cand[c] \in CandidateRecord
    BY DEF TableInv, TableTypes
  <2>2. Nulled(cand[c].stage, j) \in Stages \cup {None}
    BY <2>1, NulledStage DEF CandidateRecord
  <2>3. CASE attached(c)
    <3>1. cand'[c] = [cand[c] EXCEPT !.job = j, !.stage = first]
      BY <1>3, <2>3
    <3> QED BY <2>1, <2>3, <3>1, <1>5 DEF CandidateRecord
  <2>4. CASE ~attached(c)
    <3> HIDE DEF attached, detached
    <3>1. cand'[c] = [cand[c] EXCEPT !.job = IF detached(c) THEN None ELSE @,
                                     !.stage = IF detached(c) THEN None ELSE Nulled(@, j)]
      BY <1>3, <2>4
    <3>2. CASE detached(c)
      <4>1. cand'[c] = [cand[c] EXCEPT !.job = None, !.stage = None]
        BY <3>1, <3>2
      <4> QED BY <2>1, <2>4, <3>2, <4>1 DEF CandidateRecord
    <3>3. CASE ~detached(c)
      <4>1. PICK n : n = Nulled(cand[c].stage, j)
        OBVIOUS
      <4>2. cand'[c] = [cand[c] EXCEPT !.stage = n]
        BY <2>1, <3>1, <3>3, <4>1 DEF CandidateRecord
      <4> QED BY <2>1, <2>2, <2>4, <3>3, <4>1, <4>2 DEF CandidateRecord
    <3> QED BY <3>2, <3>3
  <2> QED BY <2>3, <2>4
<1>10. ASSUME NEW c \in Candidates, NEW k \in Jobs
       PROVE  app'[<<c, k>>] = IF k = j /\ Applied(c, k) THEN first ELSE Nulled(app[<<c, k>>], j)
  BY <1>3 DEF Applied
<1>11. ASSUME NEW c \in Candidates, NEW k \in Jobs
       PROVE  /\ app'[<<c, k>>] \in Stages \cup {None, Absent}
              /\ Applied(c, k)' <=> Applied(c, k)
  <2>1. app[<<c, k>>] \in Stages \cup {None, Absent}
    BY DEF TableInv, TableTypes
  <2> QED BY <2>1, <1>5, <1>10, NulledStage, NullAssumption DEF Applied
<1>12. TableTypes'
  <2>1. cand' \in [Candidates -> CandidateRecord]
    BY <1>3, <1>9
  <2>2. app' \in [Candidates \X Jobs -> Stages \cup {None, Absent}]
    <3>1. ASSUME NEW x \in Candidates \X Jobs
          PROVE  (IF x[2] = j /\ app[x] # Absent THEN first ELSE Nulled(app[x], j))
                    \in Stages \cup {None, Absent}
      <4>1. app[x] \in Stages \cup {None, Absent}
        BY DEF TableInv, TableTypes
      <4> QED BY <4>1, <1>5, NulledStage
    <3> QED BY <3>1, <1>3
  <2> QED BY <1>3, <1>6, <2>1, <2>2 DEF TableInv, TableTypes
<1>13. \A c \in Candidates : HasRow(c)' <=> HasRow(c)
  BY <1>9 DEF HasRow
<1>14. ASSUME NEW c \in Candidates
       PROVE  /\ cand'[c].job # None => HasRow(c) /\ Exists(cand'[c].job)
              /\ cand'[c].stage # None => HasRow(c)
              /\ cand'[c].stage # None =>
                    \/ cand'[c].stage = first
                    \/ /\ cand'[c].stage \in Stages /\ StageExists(cand[c].stage)
                       /\ cand'[c].stage = cand[c].stage /\ cand[c].stage.job # j
  <2>1. cand[c].stage \in Stages \cup {None}
    BY DEF TableInv, TableTypes, CandidateRecord
  <2>2. /\ cand[c].job # None => HasRow(c) /\ Exists(cand[c].job)
        /\ cand[c].stage # None => HasRow(c) /\ StageExists(cand[c].stage)
    BY DEF TableInv, References
  <2>3. /\ cand'[c].job \in {cand[c].job, None} \/ (cand'[c].job = j /\ HasRow(c))
        /\ \/ cand'[c].stage = None
           \/ cand'[c].stage = first /\ HasRow(c)
           \/ cand'[c].stage = Nulled(cand[c].stage, j)
    <3>1. attached(c) => HasRow(c)
      OBVIOUS
    <3> HIDE DEF attached, detached
    <3> QED BY <3>1, <1>9
  <2>4. PICK n : n = Nulled(cand[c].stage, j)
    OBVIOUS
  <2>5. n = None \/ (n = cand[c].stage /\ n \in Stages /\ n.job # j)
    BY <2>1, <2>4, NulledStage, NullAssumption
  <2> QED BY <2>2, <2>3, <2>4, <2>5, <1>3
<1>15. References'
  <2>1. ASSUME NEW c \in Candidates, cand'[c].stage # None PROVE StageExists(cand[c].stage)'
    BY <2>1, <1>8, <1>14
  <2>2. ASSUME NEW c \in Candidates, NEW k \in Jobs, Applied(c, k)'
        PROVE  /\ HasRow(c)' /\ Exists(k)'
               /\ app'[<<c, k>>] = None \/ StageExists(app[<<c, k>>])'
    <3>1. Applied(c, k) /\ HasRow(c) /\ Exists(k)
      BY <2>2, <1>11 DEF TableInv, References
    <3>2. app[<<c, k>>] = None \/ StageExists(app[<<c, k>>])
      BY <3>1 DEF TableInv, References
    <3>3. app[<<c, k>>] \in Stages \cup {None, Absent}
      BY DEF TableInv, TableTypes
    <3>4. \/ app'[<<c, k>>] = None \/ app'[<<c, k>>] = first
          \/ /\ app'[<<c, k>>] = app[<<c, k>>] /\ app[<<c, k>>] \in Stages
             /\ app[<<c, k>>].job # j /\ StageExists(app[<<c, k>>])
      BY <3>1, <3>2, <3>3, <1>10, NulledStage, NullAssumption DEF Applied
    <3> QED BY <3>1, <3>4, <1>8, <1>13
  <2>3. ASSUME NEW n \in notes' PROVE HasRow(n[1])' /\ StageExists(n[2])'
    <3>1. /\ n \in notes /\ n[1] \in Candidates /\ n[2] \in Stages /\ n[2].job # j
          /\ HasRow(n[1]) /\ StageExists(n[2])
      BY <1>3 DEF TableInv, TableTypes, References
    <3> QED BY <3>1, <1>8, <1>13
  <2> QED BY <1>8, <1>13, <1>14, <2>1, <2>2, <2>3 DEF References, Exists
<1>16. AssignedHasApplication'
  <2> SUFFICES ASSUME NEW c \in Candidates, cand'[c].job # None
               PROVE  app'[<<c, cand'[c].job>>] # Absent
    BY DEF AssignedHasApplication, Applied
  <2>1. PICK k : k = cand'[c].job
    OBVIOUS
  <2>2. k \in Jobs /\ Applied(c, k)
    BY <2>1, <1>9, <1>12 DEF TableInv, TableTypes, CandidateRecord, AssignedHasApplication
  <2> QED BY <2>1, <2>2, <1>11 DEF Applied
<1>17. OverrideStands'
  BY <1>9 DEF TableInv, OverrideStands
<1>18. Grows
  <2>1. ASSUME NEW k \in Jobs PROVE job[k].gen <= job'[k].gen
    <3>1. job[k].gen \in Int
      BY GenIsInt DEF TableInv
    <3> QED BY <3>1, <1>4, <1>7
  <2>2. ASSUME NEW c \in Candidates, NEW s \in Stages, <<c, s>> \in notes
        PROVE  <<c, s>> \in notes' \/ Dead(c, s)'
    <3>1. CASE s.job # j
      BY <2>2, <3>1, <1>3
    <3>2. CASE s.job = j
      <4>1. s.gen = job[j].gen
        BY <2>2, <3>2 DEF TableInv, References, StageExists
      <4> QED BY <4>1, <3>2, <1>4, <1>7 DEF Dead
    <3> QED BY <3>1, <3>2
  <2> QED BY <2>1, <2>2, <1>8, <1>9, <1>11 DEF Grows
<1> QED BY <1>12, <1>15, <1>16, <1>17, <1>18 DEF TableInv

LEMMA HardDeleteJobTables ==
    ASSUME TableInv, NEW j \in Jobs, HardDeleteJob(j)
    PROVE  TableInv' /\ Grows
<1>1. /\ Exists(j)
      /\ job' = [job EXCEPT ![j].status = "gone"]
      /\ cand' = [c \in Candidates |->
            [cand[c] EXCEPT !.job = IF @ = j THEN None ELSE @, !.stage = Nulled(@, j)]]
      /\ app' = [x \in Candidates \X Jobs |-> IF x[2] = j THEN Absent ELSE Nulled(app[x], j)]
      /\ notes' = {n \in notes : n[2].job # j}
  BY DEF HardDeleteJob
<1>2. /\ job' \in [Jobs -> JobRecord]
      /\ job'[j].status = "gone"
      /\ \A k \in Jobs \ {j} : job'[k] = job[k]
      /\ \A k \in Jobs : job'[k].gen = job[k].gen
  BY <1>1 DEF TableInv, TableTypes, JobRecord, JobStatus
<1>3. /\ \A k : Exists(k)' => Exists(k)
      /\ \A k : Exists(k) /\ k # j => Exists(k)'
      /\ ~Exists(j)'
      /\ \A s \in Stages : StageExists(s) /\ s.job # j => StageExists(s)'
  BY <1>1, <1>2 DEF Exists, StageExists, Stages
<1>4. ASSUME NEW c \in Candidates
      PROVE  /\ cand'[c] \in CandidateRecord
             /\ cand'[c].status = cand[c].status
             /\ cand'[c].over = cand[c].over /\ cand'[c].score = cand[c].score
             /\ cand'[c].job = IF cand[c].job = j THEN None ELSE cand[c].job
             /\ cand'[c].stage = Nulled(cand[c].stage, j)
  <2>1. cand[c] \in CandidateRecord
    BY DEF TableInv, TableTypes
  <2>2. Nulled(cand[c].stage, j) \in Stages \cup {None}
    BY <2>1, NulledStage DEF CandidateRecord
  <2>3. PICK n, k : /\ n = Nulled(cand[c].stage, j)
                    /\ k = IF cand[c].job = j THEN None ELSE cand[c].job
    OBVIOUS
  <2>4. cand'[c] = [cand[c] EXCEPT !.job = k, !.stage = n]
    BY <2>1, <2>3, <1>1 DEF CandidateRecord
  <2> QED BY <2>1, <2>2, <2>3, <2>4 DEF CandidateRecord
<1>5. ASSUME NEW c \in Candidates, NEW k \in Jobs
      PROVE  /\ app'[<<c, k>>] = IF k = j THEN Absent ELSE Nulled(app[<<c, k>>], j)
             /\ Applied(c, k)' <=> (Applied(c, k) /\ k # j)
  <2>1. app[<<c, k>>] \in Stages \cup {None, Absent}
    BY DEF TableInv, TableTypes
  <2>2. app'[<<c, k>>] = IF k = j THEN Absent ELSE Nulled(app[<<c, k>>], j)
    BY <1>1
  <2> QED BY <2>1, <2>2, NulledStage, NullAssumption DEF Applied
<1>6. TableTypes'
  <2>1. cand' \in [Candidates -> CandidateRecord]
    BY <1>1, <1>4
  <2>2. app' \in [Candidates \X Jobs -> Stages \cup {None, Absent}]
    <3>1. ASSUME NEW x \in Candidates \X Jobs
          PROVE  (IF x[2] = j THEN Absent ELSE Nulled(app[x], j)) \in Stages \cup {None, Absent}
      <4>1. app[x] \in Stages \cup {None, Absent}
        BY DEF TableInv, TableTypes
      <4> QED BY <4>1, NulledStage
    <3> QED BY <3>1, <1>1
  <2> QED BY <1>1, <1>2, <2>1, <2>2 DEF TableInv, TableTypes
<1>7. \A c \in Candidates : HasRow(c)' <=> HasRow(c)
  BY <1>4 DEF HasRow
<1>8. References'
  <2>1. ASSUME NEW c \in Candidates
        PROVE  /\ cand'[c].job # None => HasRow(c)' /\ Exists(cand[c].job)'
                                         /\ cand'[c].job = cand[c].job
               /\ cand'[c].stage # None => HasRow(c)' /\ StageExists(cand[c].stage)'
    <3>1. /\ cand[c].job # None => HasRow(c) /\ Exists(cand[c].job)
          /\ cand[c].stage # None => HasRow(c) /\ StageExists(cand[c].stage)
          /\ cand[c].stage \in Stages \cup {None}
      BY DEF TableInv, TableTypes, CandidateRecord, References
    <3>2. PICK n : n = Nulled(cand[c].stage, j)
      OBVIOUS
    <3>3. n = None \/ (n = cand[c].stage /\ n \in Stages /\ n.job # j)
      BY <3>1, <3>2, NulledStage, NullAssumption
    <3>4. cand'[c].stage # None => HasRow(c)' /\ StageExists(cand[c].stage)'
      <4>1. cand'[c].stage = n
        BY <3>2, <1>4
      <4> QED BY <4>1, <3>1, <3>3, <1>3, <1>7
    <3> QED BY <3>1, <3>4, <1>3, <1>4, <1>7
  <2>2. ASSUME NEW c \in Candidates, NEW k \in Jobs, Applied(c, k)'
        PROVE  /\ HasRow(c)' /\ Exists(k)'
               /\ app'[<<c, k>>] = None \/ StageExists(app[<<c, k>>])'
    <3>1. /\ Applied(c, k) /\ k # j /\ HasRow(c) /\ Exists(k)
          /\ app'[<<c, k>>] = Nulled(app[<<c, k>>], j)
      BY <2>2, <1>5 DEF TableInv, References
    <3>2. app[<<c, k>>] = None \/ StageExists(app[<<c, k>>])
      BY <3>1 DEF TableInv, References
    <3>3. app[<<c, k>>] \in Stages \cup {None, Absent}
      BY DEF TableInv, TableTypes
    <3>4. \/ app'[<<c, k>>] = None
          \/ /\ app'[<<c, k>>] = app[<<c, k>>] /\ app[<<c, k>>] \in Stages
             /\ app[<<c, k>>].job # j /\ StageExists(app[<<c, k>>])
      BY <3>1, <3>2, <3>3, NulledStage, NullAssumption DEF Applied
    <3> QED BY <3>1, <3>4, <1>3, <1>7
  <2>3. ASSUME NEW n \in notes' PROVE HasRow(n[1])' /\ StageExists(n[2])'
    <3>1. /\ n \in notes /\ n[1] \in Candidates /\ n[2] \in Stages /\ n[2].job # j
          /\ HasRow(n[1]) /\ StageExists(n[2])
      BY <1>1 DEF TableInv, TableTypes, References
    <3> QED BY <3>1, <1>3, <1>7
  <2> QED BY <2>1, <2>2, <2>3 DEF References, Exists
<1>9. AssignedHasApplication'
  <2> SUFFICES ASSUME NEW c \in Candidates, cand'[c].job # None
               PROVE  app'[<<c, cand'[c].job>>] # Absent
    BY DEF AssignedHasApplication, Applied
  <2>1. PICK k : k = cand'[c].job
    OBVIOUS
  <2>2. k \in Jobs /\ k # j /\ Applied(c, k)
    BY <2>1, <1>4, <1>6 DEF TableInv, TableTypes, CandidateRecord, AssignedHasApplication
  <2> QED BY <2>1, <2>2, <1>5 DEF Applied
<1>10. OverrideStands'
  BY <1>4 DEF TableInv, OverrideStands
<1>11. Grows
  <2>1. ASSUME NEW k \in Jobs PROVE job[k].gen <= job'[k].gen
    <3>1. job[k].gen \in Int
      BY GenIsInt DEF TableInv
    <3> QED BY <3>1, <1>2
  <2>2. ASSUME NEW c \in Candidates, NEW s \in Stages, <<c, s>> \in notes
        PROVE  <<c, s>> \in notes' \/ Dead(c, s)'
    BY <2>2, <1>1, <1>3 DEF Dead
  <2> QED BY <2>1, <2>2, <1>3, <1>4, <1>5 DEF Grows
<1> QED BY <1>6, <1>8, <1>9, <1>10, <1>11 DEF TableInv

------------------------------------------------------------------------------
(* What the actions do to tasks.                                             *)

LEMMA OneCallMore ==
    ASSUME calls \in 0 .. MaxCalls, calls < MaxCalls, calls' = calls + 1
    PROVE  calls' \in 0 .. MaxCalls
BY BoundsAssumption

LEMMA BeginKeeps ==
    ASSUME Inv, TableInv', Grows, NEW t \in Tasks, NEW n \in TaskRecord,
           n.c \in Candidates, n.job \in Jobs, n.from = None, n.pc # "point",
           n.pc \in {"move", "update", "assign", "create", "enrich"} =>
               n.stage \in Stages /\ n.stage.job = n.job,
           Begin(t, n)
    PROVE  Inv'
<1>1. Fine(n)'
  BY DEF Fine
<1>2. calls' \in 0 .. MaxCalls
  BY OneCallMore DEF Inv, Begin
<1>3. task' = [task EXCEPT ![t] = n]
  BY DEF Begin
<1> QED BY <1>1, <1>2, <1>3, TaskWrites

LEMMA GotoKeeps ==
    ASSUME Inv, TableInv', Grows, NEW t \in Tasks, NEW pc \in {"idle", "place", "score"},
           task[t].pc # "idle", Goto(t, pc)
    PROVE  Inv'
<1>1. PICK r : r = task[t]
  OBVIOUS
<1>2. Fine(r)
  BY <1>1 DEF Inv, Fine
<1>3. Fine(r)'
  BY <1>2, StaysFine DEF Inv, TableInv
<1>4. PICK n : n = IF pc = "idle" THEN IdleTask ELSE [r EXCEPT !.pc = pc]
  OBVIOUS
<1>5. Fine(n)' /\ (n.from # None => n.from = task[t].from /\ n.c = task[t].c)
  <2>1. CASE pc = "idle"
    BY <2>1, <1>4, NullAssumption DEF Fine, IdleTask, TaskRecord
  <2>2. CASE pc # "idle"
    <3>1. n = [r EXCEPT !.pc = pc] /\ r \in TaskRecord
      BY <2>2, <1>2, <1>4 DEF Fine
    <3>2. /\ n \in TaskRecord /\ n.pc \in {"place", "score"}
          /\ n.c = r.c /\ n.job = r.job /\ n.from = r.from
      BY <2>2, <3>1 DEF TaskRecord
    <3> QED BY <3>2, <1>1, <1>3 DEF Fine
  <2> QED BY <2>1, <2>2
<1>6. task' = [task EXCEPT ![t] = n] /\ calls' \in 0 .. MaxCalls
  BY <1>1, <1>4 DEF Goto, Inv
<1> QED BY <1>5, <1>6, TaskWrites

LEMMA GotoMoves ==
    ASSUME NEW t \in Tasks, NEW pc \in {"idle", "place", "score"}, Inv,
           task[t].pc \notin {"idle", "place", "score"}, Goto(t, pc)
    PROVE  task'[t] # task[t]
<1>1. PICK r, n : r = task[t] /\ n = IF pc = "idle" THEN IdleTask ELSE [r EXCEPT !.pc = pc]
  OBVIOUS
<1>2. r \in TaskRecord /\ task'[t] = n
  BY <1>1 DEF Goto, Inv
<1>3. n.pc = pc
  BY <1>1, <1>2 DEF IdleTask, TaskRecord
<1> QED BY <1>1, <1>2, <1>3

LEMMA ServeKeeps ==
    ASSUME Inv, TableInv', Grows, Serve
    PROVE  Inv'
<1>1. calls' \in 0 .. MaxCalls
  BY OneCallMore DEF Inv, Serve
<1> QED BY <1>1, TablesOnly DEF Serve

\* What a busy task's record says.
LEMMA BusyTask ==
    ASSUME Inv, NEW t \in Tasks, task[t].pc # "idle"
    PROVE  /\ task[t] \in TaskRecord
           /\ task[t].c \in Candidates /\ task[t].job \in Jobs
           /\ task[t].pc \in {"move", "update", "assign", "create", "enrich"} =>
                task[t].stage \in Stages /\ task[t].stage.job = task[t].job
BY DEF Inv, Fine

LEMMA StagesOfJobs ==
    ASSUME TableTypes, NEW j \in Jobs
    PROVE  \A s \in EnabledStages(j) : s \in Stages /\ s.job = j /\ StageExists(s)
<1> SUFFICES ASSUME Exists(j), NEW o \in job[j].enabled
             PROVE  Stage(j, o) \in Stages /\ Stage(j, o).job = j /\ StageExists(Stage(j, o))
  BY DEF EnabledStages
<1>1. o \in Orders /\ job[j].gen \in 0 .. MaxEdits
  BY GenIsInt DEF TableTypes, JobRecord
<1> QED BY <1>1 DEF Stage, Stages, StageExists

LEMMA BeginsKeeps ==
    ASSUME Inv, NEW t \in Tasks, Begins(t)
    PROVE  Inv'
<1> USE DEF Inv
<1>1. ASSUME NEW c \in Candidates, NEW s \in Stages, MoveToStage(t, c, s) PROVE Inv'
  <2>1. PICK n : n = [IdleTask EXCEPT !.pc = "move", !.c = c, !.job = s.job, !.stage = s]
    OBVIOUS
  <2>2. /\ n \in TaskRecord /\ n.c \in Candidates /\ n.job \in Jobs /\ n.from = None
        /\ n.pc = "move" /\ n.stage \in Stages /\ n.stage.job = n.job
    BY <2>1 DEF IdleTask, TaskRecord, Stages
  <2>3. Begin(t, n) /\ UNCHANGED tables
    BY <1>1, <2>1 DEF MoveToStage
  <2> QED BY <2>2, <2>3, SameTables, BeginKeeps
<1>2. ASSUME NEW c \in Candidates, NEW s \in Stages, SaveStageSummary(t, c, s) PROVE Inv'
  <2>1. PICK n : n = [IdleTask EXCEPT !.pc = "advance", !.c = c, !.job = s.job, !.stage = s]
    OBVIOUS
  <2>2. /\ n \in TaskRecord /\ n.c \in Candidates /\ n.job \in Jobs /\ n.from = None
        /\ n.pc = "advance"
    BY <2>1 DEF IdleTask, TaskRecord, Stages
  <2>3. /\ Begin(t, n) /\ HasRow(c) /\ StageExists(s)
        /\ notes' = notes \cup {<<c, s>>} /\ UNCHANGED <<cand, app, job>>
    BY <1>2, <2>1 DEF SaveStageSummary, OnJob
  <2>4. TableInv' /\ Grows
    BY <2>3, WriteNote
  <2> QED BY <2>2, <2>3, <2>4, BeginKeeps
<1>3. ASSUME NEW c \in Candidates, NEW j \in Jobs, AssessCall(t, c, j) PROVE Inv'
  <2>1. PICK s \in ResolveCurrentStage(c, j) :
          Begin(t, [IdleTask EXCEPT !.pc = "assess", !.c = c, !.job = j, !.stage = s])
    BY <1>3 DEF AssessCall
  <2>2. s \in Stages
    <3>1. FirstEnabled(j) \subseteq Stages
      BY StagesOfJobs DEF TableInv, FirstEnabled, Lowest
    <3> QED BY <3>1 DEF ResolveCurrentStage, StageExists
  <2>3. PICK n : n = [IdleTask EXCEPT !.pc = "assess", !.c = c, !.job = j, !.stage = s]
    OBVIOUS
  <2>4. /\ n \in TaskRecord /\ n.c \in Candidates /\ n.job \in Jobs /\ n.from = None
        /\ n.pc = "assess"
    BY <2>2, <2>3 DEF IdleTask, TaskRecord
  <2>5. Begin(t, n) /\ UNCHANGED tables
    BY <1>3, <2>1, <2>3 DEF AssessCall
  <2> QED BY <2>4, <2>5, SameTables, BeginKeeps
<1>4. ASSUME NEW c \in Candidates, NEW j \in Jobs, Assign(t, c, j) PROVE Inv'
  <2>1. PICK n : n = [IdleTask EXCEPT !.pc = "upsert", !.c = c, !.job = j]
    OBVIOUS
  <2>2. /\ n \in TaskRecord /\ n.c \in Candidates /\ n.job \in Jobs /\ n.from = None
        /\ n.pc = "upsert"
    BY <2>1 DEF IdleTask, TaskRecord
  <2>3. Begin(t, n) /\ UNCHANGED tables
    BY <1>4, <2>1 DEF Assign
  <2> QED BY <2>2, <2>3, SameTables, BeginKeeps
<1>5. ASSUME NEW c \in Candidates, NEW j \in Jobs,
             UpdateCandidate(t, c, j) \/ InitialAssignment(t, c, j) PROVE Inv'
  <2>1. PICK s \in FirstEnabled(j), pc \in {"update", "assign"} :
            /\ Begin(t, [IdleTask EXCEPT !.pc = pc, !.c = c, !.job = j, !.stage = s])
            /\ UNCHANGED tables
    BY <1>5 DEF UpdateCandidate, InitialAssignment
  <2>2. s \in Stages /\ s.job = j
    BY StagesOfJobs DEF TableInv, FirstEnabled, Lowest
  <2>3. PICK n : n = [IdleTask EXCEPT !.pc = pc, !.c = c, !.job = j, !.stage = s]
    OBVIOUS
  <2>4. /\ n \in TaskRecord /\ n.c \in Candidates /\ n.job \in Jobs /\ n.from = None
        /\ n.pc = pc /\ n.stage \in Stages /\ n.stage.job = n.job
    BY <2>2, <2>3 DEF IdleTask, TaskRecord
  <2>5. Begin(t, n) /\ UNCHANGED tables
    BY <2>1, <2>3
  <2> QED BY <2>4, <2>5, SameTables, BeginKeeps
<1>6. ASSUME NEW c \in Candidates, NEW j \in Jobs, CreateCandidate(t, c, j) PROVE Inv'
  <2>1. PICK s : s = Stage(j, 1)
    OBVIOUS
  <2>2. s \in Stages /\ s.job = j
    <3>1. job[j].gen \in 0 .. MaxEdits /\ 1 \in Orders
      BY GenIsInt, BoundsAssumption DEF TableInv, Orders
    <3> QED BY <3>1, <2>1 DEF Stage, Stages
  <2>3. PICK n : n = [IdleTask EXCEPT !.pc = "create", !.c = c, !.job = j, !.stage = s]
    OBVIOUS
  <2>4. /\ n \in TaskRecord /\ n.c \in Candidates /\ n.job \in Jobs /\ n.from = None
        /\ n.pc = "create" /\ n.stage \in Stages /\ n.stage.job = n.job
    BY <2>2, <2>3 DEF IdleTask, TaskRecord
  <2>5. Begin(t, n) /\ UNCHANGED tables
    BY <1>6, <2>1, <2>3 DEF CreateCandidate
  <2> QED BY <2>4, <2>5, SameTables, BeginKeeps
<1>7. ASSUME NEW c \in Candidates, NEW j \in Jobs, NEW extra \in SUBSET (Jobs \ {j}),
             MatchJobs(t, c, j, extra)
      PROVE  Inv'
  <2>1. PICK s \in FirstEnabled(j) :
          Begin(t, [IdleTask EXCEPT !.pc = "enrich", !.c = c, !.job = j, !.stage = s,
                                    !.extra = extra])
    BY <1>7 DEF MatchJobs
  <2>2. s \in Stages /\ s.job = j
    BY StagesOfJobs DEF TableInv, FirstEnabled, Lowest
  <2>3. PICK n : n = [IdleTask EXCEPT !.pc = "enrich", !.c = c, !.job = j, !.stage = s,
                                      !.extra = extra]
    OBVIOUS
  <2>4. /\ n \in TaskRecord /\ n.c \in Candidates /\ n.job \in Jobs /\ n.from = None
        /\ n.pc = "enrich" /\ n.stage \in Stages /\ n.stage.job = n.job
    BY <2>2, <2>3 DEF IdleTask, TaskRecord
  <2>5. Begin(t, n) /\ UNCHANGED tables
    BY <1>7, <2>1, <2>3 DEF MatchJobs
  <2> QED BY <2>4, <2>5, SameTables, BeginKeeps
<1>8. ASSUME NEW c \in Candidates, NEW k, k = cand[c].job, k # None,
             Begin(t, [IdleTask EXCEPT !.pc = "rescore", !.c = c, !.job = k]),
             TableInv', Grows
      PROVE  Inv'
  <2>1. PICK n : n = [IdleTask EXCEPT !.pc = "rescore", !.c = c, !.job = k]
    OBVIOUS
  <2>2. k \in Jobs
    BY <1>8 DEF TableInv, TableTypes, CandidateRecord
  <2>3. /\ n \in TaskRecord /\ n.c \in Candidates /\ n.job \in Jobs /\ n.from = None
        /\ n.pc = "rescore"
    BY <2>1, <2>2 DEF IdleTask, TaskRecord
  <2> QED BY <1>8, <2>1, <2>3, BeginKeeps
<1>9. ASSUME NEW c \in Candidates, Rescore(t, c) PROVE Inv'
  <2>1. TableInv' /\ Grows
    BY <1>9, SameTables DEF Rescore
  <2>2. PICK k : k = cand[c].job
    OBVIOUS
  <2> QED BY <1>8, <1>9, <2>1, <2>2 DEF Rescore
<1>10. ASSUME NEW c \in Candidates, RevertScore(t, c) PROVE Inv'
  <2>1. PICK d : d = [cand[c] EXCEPT !.over = FALSE]
    OBVIOUS
  <2>2. /\ d \in CandidateRecord /\ d.status = cand[c].status /\ d.job = cand[c].job
        /\ d.stage = cand[c].stage /\ d.over = FALSE
    BY <2>1 DEF TableInv, TableTypes, CandidateRecord
  <2>3. /\ HasRow(c) /\ cand' = [cand EXCEPT ![c] = d] /\ UNCHANGED <<app, notes, job>>
    BY <1>10, <2>1 DEF RevertScore
  <2>4. TableInv' /\ Grows
    BY <2>2, <2>3, WriteHeadline DEF HasRow
  <2>5. PICK k : k = cand[c].job
    OBVIOUS
  <2> QED BY <1>8, <1>10, <2>4, <2>5 DEF RevertScore
<1> QED BY <1>1, <1>2, <1>3, <1>4, <1>5, <1>6, <1>7, <1>9, <1>10 DEF Begins

LEMMA CommitMoveKeeps ==
    ASSUME Inv, NEW t \in Tasks, CommitMove(t)
    PROVE  Inv' /\ Placed
<1>1. PICK c, j, s, p : c = task[t].c /\ j = task[t].job /\ s = task[t].stage /\ p = task[t].then
  OBVIOUS
<1>2. PICK d, a : /\ d = [cand[c] EXCEPT !.stage = s]
                  /\ a = IF Applied(c, j) THEN [app EXCEPT ![<<c, j>>] = s] ELSE app
  OBVIOUS
<1>3. /\ task[t].pc = "move" /\ HasRow(c) /\ StageExists(s)
      /\ cand' = [cand EXCEPT ![c] = d] /\ app' = a /\ UNCHANGED <<notes, job>>
      /\ Goto(t, p)
  BY <1>1, <1>2 DEF CommitMove
<1>4. /\ c \in Candidates /\ j \in Jobs /\ s \in Stages /\ s.job = j
      /\ p \in {"idle", "place", "score"}
  BY <1>1, <1>3, BusyTask DEF TaskRecord
<1>5. /\ d \in CandidateRecord /\ d.status = cand[c].status /\ d.job = cand[c].job
      /\ d.over = cand[c].over /\ d.score = cand[c].score /\ d.stage = s
  BY <1>2, <1>4 DEF Inv, TableInv, TableTypes, CandidateRecord
<1>6. /\ a \in [Candidates \X Jobs -> Stages \cup {None, Absent}]
      /\ \A k \in Jobs : a[<<c, k>>] = app[<<c, k>>] \/ (k = j /\ Applied(c, j) /\ a[<<c, k>>] = s)
      /\ \A e \in Candidates \ {c}, k \in Jobs : a[<<e, k>>] = app[<<e, k>>]
  BY <1>2, <1>4 DEF Inv, TableInv, TableTypes
<1>7. s # None /\ s # Absent /\ Exists(j)
  BY <1>3, <1>4, NullAssumption DEF StageExists
<1>8. d.job # None => Exists(d.job) /\ a[<<c, d.job>>] # Absent
  <2> SUFFICES ASSUME d.job # None PROVE Exists(d.job) /\ a[<<c, d.job>>] # Absent
    OBVIOUS
  <2>1. d.job \in Jobs /\ Exists(d.job) /\ app[<<c, d.job>>] # Absent
    BY <1>4, <1>5 DEF Inv, TableInv, TableTypes, CandidateRecord, References,
                      AssignedHasApplication, Applied
  <2> QED BY <2>1, <1>6, <1>7
<1>9. /\ d.status \in {"active", "rejected"} /\ cand[c].status # "gone"
      /\ d.over => d.score # "ai"
      /\ d.stage # None => StageExists(d.stage)
  BY <1>3, <1>4, <1>5 DEF Inv, TableInv, OverrideStands, HasRow
<1>10. \A k \in Jobs : \/ a[<<c, k>>] = app[<<c, k>>]
                       \/ /\ Exists(k) /\ a[<<c, k>>] # Absent
                          /\ a[<<c, k>>] = None \/ StageExists(a[<<c, k>>])
  BY <1>3, <1>6, <1>7
<1>11. TableInv' /\ Grows
  BY <1>3, <1>4, <1>5, <1>6, <1>8, <1>9, <1>10, WriteRows DEF Inv
<1>12. d.job = None \/ a[<<c, d.job>>] = d.stage \/ Splits(c)
  <2>1. CASE cand[c].job = j
    BY <2>1, <1>2, <1>4, <1>5, NullAssumption
      DEF Inv, TableInv, TableTypes, AssignedHasApplication
  <2>2. CASE cand[c].job # j
    BY <2>2, <1>1, <1>3, <1>4, GotoMoves DEF Splits
  <2> QED BY <2>1, <2>2
<1>13. Placed
  BY <1>3, <1>4, <1>5, <1>6, <1>12, RowMoves DEF Inv
<1> QED BY <1>3, <1>4, <1>11, <1>13, GotoKeeps

LEMMA UpsertApplicationKeeps ==
    ASSUME Inv, NEW t \in Tasks, UpsertApplication(t)
    PROVE  Inv' /\ Placed
<1>1. PICK c, j, r : c = task[t].c /\ j = task[t].job /\ r = task[t]
  OBVIOUS
<1>2. PICK d, a : /\ d = cand[c]
                  /\ a = IF Applied(c, j) THEN app ELSE [app EXCEPT ![<<c, j>>] = None]
  OBVIOUS
<1>3. PICK p \in {"score", "place"} : p = IF app[<<c, j>>] \in Stages THEN "score" ELSE "place"
  OBVIOUS
<1>4. PICK n : n = [r EXCEPT !.pc = "point", !.then = p]
  OBVIOUS
<1>5. /\ task[t].pc = "upsert" /\ HasRow(c) /\ Exists(j)
      /\ app' = a /\ UNCHANGED <<cand, notes, job, calls>>
      /\ task' = [task EXCEPT ![t].pc = "point", ![t].then = p]
  BY <1>1, <1>2, <1>3 DEF UpsertApplication
<1>6. /\ c \in Candidates /\ j \in Jobs /\ r \in TaskRecord /\ Fine(r)
      /\ r.pc = "upsert" /\ r.c = c /\ r.job = j
  BY <1>1, <1>5, BusyTask DEF Inv
<1>7. d \in CandidateRecord /\ cand' = [cand EXCEPT ![c] = d]
  BY <1>2, <1>5, <1>6 DEF Inv, TableInv, TableTypes
<1>8. /\ a \in [Candidates \X Jobs -> Stages \cup {None, Absent}]
      /\ \A k \in Jobs : a[<<c, k>>] = app[<<c, k>>] \/ (k = j /\ a[<<c, k>>] = None)
      /\ \A e \in Candidates \ {c}, k \in Jobs : a[<<e, k>>] = app[<<e, k>>]
      /\ a[<<c, j>>] # Absent
  BY <1>2, <1>6, NullAssumption DEF Inv, TableInv, TableTypes, Applied
<1>9. d.job # None => Exists(d.job) /\ a[<<c, d.job>>] # Absent
  <2> SUFFICES ASSUME d.job # None PROVE Exists(d.job) /\ a[<<c, d.job>>] # Absent
    OBVIOUS
  <2>1. d.job \in Jobs /\ Exists(d.job) /\ app[<<c, d.job>>] # Absent
    BY <1>2, <1>6 DEF Inv, TableInv, TableTypes, CandidateRecord, References,
                      AssignedHasApplication, Applied
  <2> QED BY <2>1, <1>8, NullAssumption
<1>10. /\ d.status \in {"active", "rejected"} /\ cand[c].status # "gone"
       /\ d.over => d.score # "ai"
       /\ d.stage # None => StageExists(d.stage)
  BY <1>2, <1>5, <1>6 DEF Inv, TableInv, References, OverrideStands, HasRow
<1>11. \A k \in Jobs : \/ a[<<c, k>>] = app[<<c, k>>]
                       \/ /\ Exists(k) /\ a[<<c, k>>] # Absent
                          /\ a[<<c, k>>] = None \/ StageExists(a[<<c, k>>])
  BY <1>5, <1>8, NullAssumption
<1>12. TableInv' /\ Grows
  BY <1>5, <1>6, <1>7, <1>8, <1>9, <1>10, <1>11, WriteRows DEF Inv
<1>13. Fine(n)'
  <2>1. Fine(r)'
    BY <1>6, <1>12, StaysFine DEF Inv, TableInv
  <2>2. /\ n \in TaskRecord /\ n.pc = "point" /\ n.c = c /\ n.job = j /\ n.from = r.from
    BY <1>4, <1>6 DEF TaskRecord
  <2>3. cand'[c].status # "none" /\ Applied(c, j)'
    BY <1>5, <1>8 DEF Applied, HasRow
  <2> QED BY <1>6, <2>1, <2>2, <2>3 DEF Fine
<1>14. task' = [task EXCEPT ![t] = n] /\ n.from = task[t].from /\ n.c = task[t].c
  <2>1. task' = [task EXCEPT ![t] = [task[t] EXCEPT !.pc = "point", !.then = p]]
    BY <1>5, <1>6 DEF Inv, TaskRecord
  <2> QED BY <2>1, <1>1, <1>4, <1>6 DEF TaskRecord
<1>15. calls' \in 0 .. MaxCalls
  BY <1>5 DEF Inv
<1>16. Placed
  <2>1. cand[c].job # None => cand[c].job \in Jobs /\ Applied(c, cand[c].job)
    BY <1>6 DEF Inv, TableInv, TableTypes, CandidateRecord, AssignedHasApplication
  <2>2. \A k \in Jobs : Applied(c, k) => a[<<c, k>>] = app[<<c, k>>]
    BY <1>2, <1>6 DEF Inv, TableInv, TableTypes, Applied
  <2>3. d.job = None \/ a[<<c, d.job>>] = d.stage \/ ~Agrees(c)
    BY <1>2, <2>1, <2>2 DEF Agrees
  <2>4. \A k \in Jobs : a[<<c, k>>] = app[<<c, k>>] \/ a[<<c, k>>] \notin Stages
    BY <1>8, NullAssumption
  <2> QED BY <1>5, <1>6, <1>7, <1>8, <2>3, <2>4, RowMoves DEF Inv
<1> QED BY <1>12, <1>13, <1>14, <1>15, <1>16, TaskWrites

LEMMA PointAtJobKeeps ==
    ASSUME Inv, NEW t \in Tasks, PointAtJob(t)
    PROVE  Inv' /\ Placed
<1>1. PICK c, j, p : c = task[t].c /\ j = task[t].job /\ p = task[t].then
  OBVIOUS
<1>2. PICK d, a : d = [cand[c] EXCEPT !.job = j] /\ a = app
  OBVIOUS
<1>3. /\ task[t].pc = "point" /\ HasRow(c) /\ Exists(j)
      /\ cand' = [cand EXCEPT ![c] = d] /\ app' = a /\ UNCHANGED <<notes, job>>
      /\ Goto(t, p)
  BY <1>1, <1>2 DEF PointAtJob
<1>4. /\ c \in Candidates /\ j \in Jobs /\ p \in {"idle", "place", "score"}
  BY <1>1, <1>3, BusyTask DEF TaskRecord
<1>5. Applied(c, j)
  BY <1>1, <1>3 DEF Inv, Fine
<1>6. /\ d \in CandidateRecord /\ d.status = cand[c].status /\ d.job = j
      /\ d.over = cand[c].over /\ d.score = cand[c].score /\ d.stage = cand[c].stage
  BY <1>2, <1>4 DEF Inv, TableInv, TableTypes, CandidateRecord
<1>7. /\ d.status \in {"active", "rejected"} /\ cand[c].status # "gone"
      /\ d.over => d.score # "ai"
      /\ d.stage # None => StageExists(d.stage)
  BY <1>3, <1>4, <1>6 DEF Inv, TableInv, References, OverrideStands, HasRow
<1>8. /\ a \in [Candidates \X Jobs -> Stages \cup {None, Absent}]
      /\ Exists(d.job) /\ a[<<c, d.job>>] # Absent
      /\ \A k \in Jobs : a[<<c, k>>] = app[<<c, k>>]
      /\ \A e \in Candidates \ {c}, k \in Jobs : a[<<e, k>>] = app[<<e, k>>]
  BY <1>2, <1>3, <1>5, <1>6 DEF Inv, TableInv, TableTypes, Applied
<1>9. TableInv' /\ Grows
  BY <1>3, <1>4, <1>6, <1>7, <1>8, WriteRows DEF Inv
<1>10. Splits(c)
  BY <1>1, <1>3, <1>4, GotoMoves DEF Splits
<1>11. Placed
  BY <1>3, <1>4, <1>6, <1>8, <1>10, RowMoves DEF Inv
<1> QED BY <1>3, <1>4, <1>9, <1>11, GotoKeeps

LEMMA CommitUpdateKeeps ==
    ASSUME Inv, NEW t \in Tasks, NEW override \in BOOLEAN,
           CommitUpdate(t, override) \/ CommitAssignment(t, override)
    PROVE  Inv' /\ Placed
<1>1. PICK c, j, s : c = task[t].c /\ j = task[t].job /\ s = task[t].stage
  OBVIOUS
<1>2. PICK d, a : /\ d = [cand[c] EXCEPT !.job = j, !.stage = s,
                                         !.score = IF override THEN "manual" ELSE @,
                                         !.over = IF override THEN TRUE ELSE @]
                  /\ a = [app EXCEPT ![<<c, j>>] = s]
  OBVIOUS
<1>3. /\ task[t].pc \in {"update", "assign"} /\ HasRow(c) /\ StageExists(s)
      /\ app' = a /\ UNCHANGED <<notes, job>>
      /\ Goto(t, "score")
  BY <1>1, <1>2 DEF CommitUpdate, CommitAssignment, WriteAssignment
<1>4. /\ c \in Candidates /\ j \in Jobs /\ s \in Stages /\ s.job = j
  BY <1>1, <1>3, BusyTask
<1>5. cand' = [cand EXCEPT ![c] = d] /\ cand[c] \in CandidateRecord
  BY <1>1, <1>2, <1>4 DEF CommitUpdate, CommitAssignment, WriteAssignment, Inv, TableInv, TableTypes,
                         CandidateRecord
<1>6. /\ d \in CandidateRecord /\ d.status = cand[c].status /\ d.job = j /\ d.stage = s
      /\ d.over => d.score = "manual" \/ (d.score = cand[c].score /\ cand[c].over)
  <2>1. CASE override
    <3>1. d = [cand[c] EXCEPT !.job = j, !.stage = s, !.score = "manual", !.over = TRUE]
      BY <1>2, <1>5, <2>1 DEF CandidateRecord
    <3> QED BY <3>1, <1>4, <1>5 DEF CandidateRecord
  <2>2. CASE ~override
    <3>1. d = [cand[c] EXCEPT !.job = j, !.stage = s]
      BY <1>2, <1>5, <2>2 DEF CandidateRecord
    <3> QED BY <3>1, <1>4, <1>5 DEF CandidateRecord
  <2> QED BY <2>1, <2>2
<1>7. s # None /\ s # Absent /\ Exists(j)
  BY <1>3, <1>4, NullAssumption DEF StageExists
<1>8. /\ d.status \in {"active", "rejected"} /\ cand[c].status # "gone"
      /\ d.over => d.score # "ai"
      /\ d.stage # None => StageExists(d.stage)
  BY <1>3, <1>4, <1>6 DEF Inv, TableInv, OverrideStands, HasRow
<1>9. /\ a \in [Candidates \X Jobs -> Stages \cup {None, Absent}]
      /\ a[<<c, j>>] = s
      /\ \A k \in Jobs : a[<<c, k>>] = app[<<c, k>>] \/ k = j
      /\ \A e \in Candidates \ {c}, k \in Jobs : a[<<e, k>>] = app[<<e, k>>]
  BY <1>2, <1>4 DEF Inv, TableInv, TableTypes
<1>10. /\ d.job # None => Exists(d.job) /\ a[<<c, d.job>>] # Absent
       /\ \A k \in Jobs : \/ a[<<c, k>>] = app[<<c, k>>]
                          \/ /\ Exists(k) /\ a[<<c, k>>] # Absent
                             /\ a[<<c, k>>] = None \/ StageExists(a[<<c, k>>])
  BY <1>3, <1>6, <1>7, <1>9
<1>11. TableInv' /\ Grows
  BY <1>3, <1>4, <1>5, <1>6, <1>8, <1>9, <1>10, WriteRows DEF Inv
<1>12. Placed
  <2>1. \A k \in Jobs : a[<<c, k>>] = app[<<c, k>>] \/ a[<<c, k>>].job = k
    BY <1>4, <1>9
  <2>2. a[<<c, d.job>>] = d.stage
    BY <1>6, <1>9
  <2> QED BY <1>3, <1>4, <1>5, <1>6, <1>9, <2>1, <2>2, RowMoves DEF Inv
<1> QED BY <1>3, <1>11, <1>12, GotoKeeps

LEMMA CommitCreateKeeps ==
    ASSUME Inv, NEW t \in Tasks, CommitCreate(t)
    PROVE  Inv' /\ Placed
<1>1. PICK c, j, s : c = task[t].c /\ j = task[t].job /\ s = task[t].stage
  OBVIOUS
<1>2. PICK d, a : /\ d = [NoCandidate EXCEPT !.status = "active", !.job = j, !.stage = s]
                  /\ a = [app EXCEPT ![<<c, j>>] = s]
  OBVIOUS
<1>3. /\ task[t].pc = "create" /\ cand[c].status = "none" /\ StageExists(s)
      /\ cand' = [cand EXCEPT ![c] = d] /\ app' = a /\ UNCHANGED <<notes, job>>
      /\ Goto(t, "idle")
  BY <1>1, <1>2 DEF CommitCreate
<1>4. /\ c \in Candidates /\ j \in Jobs /\ s \in Stages /\ s.job = j
  BY <1>1, <1>3, BusyTask
<1>5. /\ d \in CandidateRecord /\ d.status = "active" /\ d.job = j /\ d.stage = s /\ ~d.over
  BY <1>2, <1>4 DEF NoCandidate, CandidateRecord, CandidateStatus
<1>6. s # None /\ s # Absent /\ Exists(j)
  BY <1>3, <1>4, NullAssumption DEF StageExists
<1>7. /\ a \in [Candidates \X Jobs -> Stages \cup {None, Absent}]
      /\ a[<<c, j>>] = s
      /\ \A k \in Jobs : a[<<c, k>>] = app[<<c, k>>] \/ k = j
      /\ \A e \in Candidates \ {c}, k \in Jobs : a[<<e, k>>] = app[<<e, k>>]
  BY <1>2, <1>4 DEF Inv, TableInv, TableTypes
<1>8. /\ d.job # None => Exists(d.job) /\ a[<<c, d.job>>] # Absent
      /\ d.stage # None => StageExists(d.stage)
      /\ \A k \in Jobs : \/ a[<<c, k>>] = app[<<c, k>>]
                         \/ /\ Exists(k) /\ a[<<c, k>>] # Absent
                            /\ a[<<c, k>>] = None \/ StageExists(a[<<c, k>>])
  BY <1>3, <1>5, <1>6, <1>7
<1>9. TableInv' /\ Grows
  BY <1>3, <1>4, <1>5, <1>7, <1>8, WriteRows DEF Inv
<1>10. Placed
  <2>1. \A k \in Jobs : a[<<c, k>>] = app[<<c, k>>] \/ a[<<c, k>>].job = k
    BY <1>4, <1>7
  <2>2. a[<<c, d.job>>] = d.stage
    BY <1>5, <1>7
  <2> QED BY <1>3, <1>4, <1>5, <1>7, <2>1, <2>2, RowMoves DEF Inv
<1> QED BY <1>3, <1>9, <1>10, GotoKeeps

\* The three writes of an arrived score, and of none.
LEMMA ScoreKeeps ==
    ASSUME Inv, NEW t \in Tasks, NEW c, NEW score \in {"none", "ai", "manual"},
           c = task[t].c, task[t].pc # "idle", HasRow(c),
           cand[c].over => score # "ai",
           cand' = [cand EXCEPT ![c].score = score],
           UNCHANGED <<app, notes, job>>, Goto(t, "idle")
    PROVE  Inv'
<1>1. c \in Candidates
  BY BusyTask
<1>2. PICK d : d = [cand[c] EXCEPT !.score = score]
  OBVIOUS
<1>3. /\ d \in CandidateRecord /\ d.status = cand[c].status /\ d.job = cand[c].job
      /\ d.stage = cand[c].stage /\ d.over = cand[c].over /\ d.score = score
  <2>1. cand[c] \in CandidateRecord
    BY <1>1 DEF Inv, TableInv, TableTypes
  <2>2. score \in {"none", "ai", "manual"}
    OBVIOUS
  <2> QED BY ONLY <1>2, <2>1, <2>2 DEF CandidateRecord
<1>4. cand' = [cand EXCEPT ![c] = d]
  BY <1>2
<1>5. TableInv' /\ Grows
  BY <1>1, <1>3, <1>4, WriteHeadline DEF HasRow, Inv
<1> QED BY <1>5, GotoKeeps

LEMMA HeadlineIsKept ==
    ASSUME TableInv, NEW c \in Candidates
    PROVE  /\ Headline(c) \in {"none", "ai", "manual"}
           /\ cand[c].over => Headline(c) # "ai"
BY DEF TableInv, TableTypes, CandidateRecord, OverrideStands, Headline

LEMMA ScoresKeep ==
    ASSUME Inv, NEW t \in Tasks, WriteScore(t) \/ WriteRescore(t) \/ ForgetScore(t)
    PROVE  Inv'
<1>1. PICK c, h : c = task[t].c /\ h = Headline(c)
  OBVIOUS
<1>2. task[t].pc \in {"score", "rescore"} /\ HasRow(c) /\ Goto(t, "idle")
      /\ UNCHANGED <<app, notes, job>>
  BY <1>1 DEF WriteScore, WriteRescore, ForgetScore
<1>3. h \in {"none", "ai", "manual"} /\ (cand[c].over => h # "ai")
  BY <1>1, <1>2, BusyTask, HeadlineIsKept DEF Inv
<1>4. \/ cand' = [cand EXCEPT ![c].score = h]
      \/ cand' = [cand EXCEPT ![c].score = "none"]
  BY <1>1 DEF WriteScore, WriteRescore, ForgetScore
<1> QED BY <1>1, <1>2, <1>3, <1>4, ScoreKeeps

\* The stage mergeEnrichment() arrives at: a stage or none.
LEMMA MergedStageIsStage ==
    ASSUME TableInv, NEW c \in Candidates, NEW j \in Jobs, NEW first \in Stages
    PROVE  MergedStage(c, j, first) \in Stages \cup {None}
BY DEF TableInv, TableTypes, CandidateRecord, MergedStage

LEMMA EnrichKeeps ==
    ASSUME Inv, NEW t \in Tasks, Enrich(t)
    PROVE  Inv' /\ Placed
<1>1. PICK c, j, s, extra : /\ c = task[t].c /\ j = task[t].job /\ extra = task[t].extra
                            /\ s = MergedStage(c, j, task[t].stage)
  OBVIOUS
<1>2. task[t].pc = "enrich"
  BY DEF Enrich
<1>3. /\ c \in Candidates /\ j \in Jobs /\ task[t].stage \in Stages
      /\ s \in Stages \cup {None} /\ extra \in SUBSET Jobs
  BY <1>1, <1>2, BusyTask, MergedStageIsStage DEF Inv, TaskRecord
<1> DEFINE upserted(k) == IF k = j /\ s # None THEN s
                          ELSE IF Applied(c, k) THEN app[<<c, k>>] ELSE None
<1>4. PICK d, a : /\ d = [cand[c] EXCEPT !.job = j, !.stage = s]
                  /\ a = [x \in Candidates \X Jobs |->
                            IF x[1] = c /\ x[2] \in extra \cup {j} THEN upserted(x[2])
                            ELSE app[x]]
  OBVIOUS
<1>5. /\ HasRow(c) /\ (\A k \in extra \cup {j} : Exists(k)) /\ (s = None \/ StageExists(s))
      /\ cand' = [cand EXCEPT ![c] = d] /\ app' = a /\ UNCHANGED <<notes, job>>
      /\ Goto(t, "score")
  BY <1>1, <1>4 DEF Enrich
<1>6. /\ d \in CandidateRecord /\ d.status = cand[c].status /\ d.job = j
      /\ d.over = cand[c].over /\ d.score = cand[c].score /\ d.stage = s
  <2>1. cand[c] \in CandidateRecord
    BY <1>3 DEF Inv, TableInv, TableTypes
  <2> QED BY <2>1, <1>3, <1>4 DEF CandidateRecord
<1>7. ASSUME NEW k \in Jobs
      PROVE  /\ upserted(k) \in Stages \cup {None}
             /\ upserted(k) = None \/ StageExists(upserted(k))
  <2>1. CASE k = j /\ s # None
    BY <2>1, <1>3, <1>5
  <2>2. CASE ~(k = j /\ s # None) /\ Applied(c, k)
    <3>1. upserted(k) = app[<<c, k>>]
      BY <2>2
    <3>2. app[<<c, k>>] \in Stages \cup {None}
      BY <2>2, <1>3 DEF Inv, TableInv, TableTypes, Applied
    <3>3. app[<<c, k>>] = None \/ StageExists(app[<<c, k>>])
      BY <2>2, <1>3 DEF Inv, TableInv, References
    <3> QED BY <3>1, <3>2, <3>3
  <2>3. CASE ~(k = j /\ s # None) /\ ~Applied(c, k)
    BY <2>3
  <2> QED BY <2>1, <2>2, <2>3
<1> HIDE DEF upserted
<1>8. /\ a \in [Candidates \X Jobs -> Stages \cup {None, Absent}]
      /\ \A k \in Jobs : a[<<c, k>>] = IF k \in extra \cup {j} THEN upserted(k) ELSE app[<<c, k>>]
      /\ \A e \in Candidates \ {c}, k \in Jobs : a[<<e, k>>] = app[<<e, k>>]
  <2>1. \A x \in Candidates \X Jobs : app[x] \in Stages \cup {None, Absent}
    BY DEF Inv, TableInv, TableTypes
  <2>2. ASSUME NEW x \in Candidates \X Jobs
        PROVE  (IF x[1] = c /\ x[2] \in extra \cup {j} THEN upserted(x[2]) ELSE app[x])
                  \in Stages \cup {None, Absent}
    BY <2>1, <1>7
  <2>3. a \in [Candidates \X Jobs -> Stages \cup {None, Absent}]
    BY <2>2, <1>4
  <2>4. /\ \A k \in Jobs : a[<<c, k>>] = IF k \in extra \cup {j} THEN upserted(k) ELSE app[<<c, k>>]
        /\ \A e \in Candidates \ {c}, k \in Jobs : a[<<e, k>>] = app[<<e, k>>]
    BY <1>3, <1>4
  <2> QED BY <2>3, <2>4
<1>9. Absent \notin Stages \cup {None}
  BY NullAssumption
<1>10. /\ d.job # None => Exists(d.job) /\ a[<<c, d.job>>] # Absent
       /\ \A k \in Jobs : \/ a[<<c, k>>] = app[<<c, k>>]
                          \/ /\ Exists(k) /\ a[<<c, k>>] # Absent
                             /\ a[<<c, k>>] = None \/ StageExists(a[<<c, k>>])
  BY <1>3, <1>5, <1>6, <1>7, <1>8, <1>9
<1>11. /\ d.status \in {"active", "rejected"} /\ cand[c].status # "gone"
       /\ d.over => d.score # "ai"
       /\ d.stage # None => StageExists(d.stage)
  BY <1>3, <1>5, <1>6 DEF Inv, TableInv, OverrideStands, HasRow
<1>12. TableInv' /\ Grows
  BY <1>3, <1>5, <1>6, <1>8, <1>10, <1>11, WriteRows DEF Inv
<1>13. PICK first : first = task[t].stage
  OBVIOUS
<1>14. first \in Stages /\ first.job = j /\ s = MergedStage(c, j, first)
  BY <1>1, <1>2, <1>13, BusyTask
<1>15. a[<<c, j>>] = s \/ ~Agrees(c)
  <2>1. a[<<c, j>>] = upserted(j)
    BY <1>3, <1>8
  <2>2. CASE s # None
    BY <2>1, <2>2 DEF upserted
  <2>3. CASE s = None
    <3>1. cand[c].job = j /\ cand[c].stage = None
      BY <2>3, <1>14, NullAssumption DEF MergedStage
    <3>2. Applied(c, j)
      BY <3>1, <1>3, NullAssumption DEF Inv, TableInv, AssignedHasApplication
    <3> QED BY <2>1, <2>3, <3>1, <3>2, <1>3, NullAssumption DEF upserted, Agrees
  <2> QED BY <2>2, <2>3
<1>16. ASSUME NEW k \in Jobs
       PROVE  \/ a[<<c, k>>] = app[<<c, k>>]
              \/ a[<<c, k>>] \notin Stages
              \/ a[<<c, k>>].job = k
              \/ cand[c].job = k /\ cand[c].stage = a[<<c, k>>]
  <2>1. a[<<c, k>>] = app[<<c, k>>] \/ a[<<c, k>>] = None \/ (k = j /\ a[<<c, k>>] = s)
    BY <1>8 DEF upserted
  <2>2. s = first \/ s = app[<<c, j>>] \/ (cand[c].job = j /\ s = cand[c].stage)
    BY <1>14 DEF MergedStage
  <2> QED BY <2>1, <2>2, <1>14, NullAssumption
<1>17. Placed
  BY <1>3, <1>5, <1>6, <1>8, <1>15, <1>16, RowMoves DEF Inv
<1> QED BY <1>2, <1>5, <1>12, <1>17, GotoKeeps

\* Steps of a task that leave the tables alone: the next record is fine if it aims well.
LEMMA AimKeeps ==
    ASSUME Inv, NEW t \in Tasks, NEW n \in TaskRecord, task[t].pc # "idle",
           n.c = task[t].c, n.job = task[t].job, n.from = task[t].from, n.pc = "move",
           n.stage \in Stages, n.stage.job = n.job,
           task' = [task EXCEPT ![t] = n], UNCHANGED <<tables, calls>>
    PROVE  Inv'
<1>1. TableInv' /\ Grows
  BY SameTables DEF Inv
<1>2. PICK r : r = task[t]
  OBVIOUS
<1>3. Fine(r) /\ r.c \in Candidates /\ r.job \in Jobs
  BY <1>2, BusyTask DEF Inv
<1>4. Fine(r)'
  BY <1>1, <1>3, StaysFine DEF Inv, TableInv
<1>5. Fine(n)'
  BY <1>2, <1>3, <1>4 DEF Fine
<1>6. calls' \in 0 .. MaxCalls
  BY DEF Inv
<1> QED BY <1>1, <1>5, <1>6, TaskWrites

LEMMA AdvanceKeeps ==
    ASSUME Inv, NEW t \in Tasks, Advance(t)
    PROVE  Inv'
<1>1. PICK r, j : r = task[t] /\ j = task[t].job
  OBVIOUS
<1>2. PICK s \in NextEnabled(j, r.stage) : task' = [task EXCEPT ![t].pc = "move", ![t].stage = s]
  BY <1>1 DEF Advance
<1>3. task[t].pc # "idle" /\ UNCHANGED <<tables, calls>>
  BY DEF Advance
<1>4. j \in Jobs /\ r \in TaskRecord
  BY <1>1, <1>3, BusyTask
<1>5. s \in Stages /\ s.job = j
  BY <1>4, StagesOfJobs DEF Inv, TableInv, NextEnabled, Lowest
<1>6. PICK n : n = [r EXCEPT !.pc = "move", !.stage = s]
  OBVIOUS
<1>7. task' = [task EXCEPT ![t] = n]
  BY <1>1, <1>2, <1>4, <1>6 DEF Inv, TaskRecord
<1>8. /\ n \in TaskRecord /\ n.c = task[t].c /\ n.job = task[t].job /\ n.from = task[t].from
      /\ n.pc = "move" /\ n.stage = s
  BY <1>1, <1>4, <1>5, <1>6 DEF TaskRecord
<1> QED BY <1>1, <1>3, <1>5, <1>7, <1>8, AimKeeps

LEMMA PlaceInitiallyKeeps ==
    ASSUME Inv, NEW t \in Tasks, PlaceInitially(t)
    PROVE  Inv'
<1>1. PICK r, j : r = task[t] /\ j = task[t].job
  OBVIOUS
<1>2. PICK s \in FirstEnabled(j) :
        task' = [task EXCEPT ![t].pc = "move", ![t].stage = s, ![t].then = "score"]
  BY <1>1 DEF PlaceInitially
<1>3. task[t].pc # "idle" /\ UNCHANGED <<tables, calls>>
  BY DEF PlaceInitially
<1>4. j \in Jobs /\ r \in TaskRecord
  BY <1>1, <1>3, BusyTask
<1>5. s \in Stages /\ s.job = j
  BY <1>4, StagesOfJobs DEF Inv, TableInv, FirstEnabled, Lowest
<1>6. PICK n : n = [r EXCEPT !.pc = "move", !.stage = s, !.then = "score"]
  OBVIOUS
<1>7. task' = [task EXCEPT ![t] = n]
  BY <1>1, <1>2, <1>4, <1>6 DEF Inv, TaskRecord
<1>8. /\ n \in TaskRecord /\ n.c = task[t].c /\ n.job = task[t].job /\ n.from = task[t].from
      /\ n.pc = "move" /\ n.stage = s
  BY <1>1, <1>4, <1>5, <1>6 DEF TaskRecord
<1> QED BY <1>1, <1>3, <1>5, <1>7, <1>8, AimKeeps

\* The one step that files a summary on which a candidate is advanced: whoever has filed it
\* before would have left it in the table.
LEMMA CreateSummaryKeeps ==
    ASSUME Inv, NEW t \in Tasks, CreateSummary(t)
    PROVE  Inv'
<1>1. PICK r, c, s : r = task[t] /\ c = task[t].c /\ s = task[t].stage
  OBVIOUS
<1>2. /\ task[t].pc = "assess" /\ HasRow(c) /\ StageExists(s) /\ <<c, s>> \notin notes
      /\ notes' = notes \cup {<<c, s>>} /\ UNCHANGED <<cand, app, job, calls>>
      /\ task' = [task EXCEPT ![t].pc = "advance", ![t].from = s]
  BY <1>1 DEF CreateSummary
<1>3. /\ c \in Candidates /\ s \in Stages /\ r \in TaskRecord /\ r.job \in Jobs /\ r.c = c
  BY <1>1, <1>2, BusyTask DEF StageExists
<1>4. TableInv' /\ Grows
  BY <1>2, <1>3, WriteNote DEF Inv
<1>5. PICK n : n = [r EXCEPT !.pc = "advance", !.from = s]
  OBVIOUS
<1>6. /\ n \in TaskRecord /\ n.pc = "advance" /\ n.c = c /\ n.job = r.job /\ n.from = s
  BY <1>3, <1>5 DEF TaskRecord
<1>7. task' = [task EXCEPT ![t] = n]
  BY <1>1, <1>2, <1>3, <1>5 DEF Inv, TaskRecord
<1>8. Fine(n)'
  BY <1>2, <1>3, <1>6 DEF Fine
<1>9. task' \in [Tasks -> TaskRecord] /\ \A u \in Tasks : Fine(task[u])'
  BY <1>4, <1>7, <1>8, TasksStayFine
<1>10. ASSUME NEW u \in Tasks, u # t, task[u].c = c, task[u].from = s PROVE FALSE
  <2>1. PICK q : q = task[u]
    OBVIOUS
  <2>2. Fine(q) /\ q.c = c /\ q.from = s /\ s # None
    BY <1>3, <1>10, <2>1, NullAssumption DEF Inv, Fine
  <2>3. Dead(c, s)
    BY <1>2, <2>2 DEF Fine
  <2>4. job[s.job].gen \in Int
    BY <1>3, GenIsInt DEF Inv, TableInv, Stages
  <2> QED BY <1>2, <2>3, <2>4 DEF Dead, HasRow, StageExists
<1>11. OneAssessor'
  <2> SUFFICES ASSUME NEW u \in Tasks, NEW v \in Tasks, task'[u].from # None,
                      task'[u].from = task'[v].from, task'[u].c = task'[v].c
               PROVE  u = v
    BY DEF OneAssessor
  <2>1. task'[t] = n /\ \A w \in Tasks \ {t} : task'[w] = task[w]
    BY <1>7 DEF Inv
  <2>2. CASE u = t
    BY <2>1, <2>2, <1>6, <1>10
  <2>3. CASE v = t
    BY <2>1, <2>3, <1>6, <1>10
  <2>4. CASE u # t /\ v # t
    BY <2>1, <2>4 DEF Inv, OneAssessor
  <2> QED BY <2>2, <2>3, <2>4
<1> QED BY <1>2, <1>4, <1>9, <1>11 DEF Inv

LEMMA GoesOnKeeps ==
    ASSUME Inv, NEW t \in Tasks, GoesOn(t)
    PROVE  Inv'
<1>1. CASE Return(t) \/ Crash(t)
  <2>1. task[t].pc # "idle" /\ Goto(t, "idle") /\ UNCHANGED tables
    BY <1>1 DEF Return, Crash
  <2>2. TableInv' /\ Grows
    BY <2>1, SameTables DEF Inv
  <2> QED BY <2>1, <2>2, GotoKeeps
<1>2. CASE \E override \in BOOLEAN : CommitUpdate(t, override) \/ CommitAssignment(t, override)
  BY <1>2, CommitUpdateKeeps
<1>3. CASE WriteScore(t) \/ WriteRescore(t) \/ ForgetScore(t)
  BY <1>3, ScoresKeep
<1>4. CASE CommitMove(t) \/ Advance(t) \/ CreateSummary(t)
  BY <1>4, CommitMoveKeeps, AdvanceKeeps, CreateSummaryKeeps
<1>5. CASE UpsertApplication(t) \/ PointAtJob(t) \/ PlaceInitially(t)
  BY <1>5, UpsertApplicationKeeps, PointAtJobKeeps, PlaceInitiallyKeeps
<1>6. CASE CommitCreate(t) \/ Enrich(t)
  BY <1>6, CommitCreateKeeps, EnrichKeeps
<1> QED BY <1>1, <1>2, <1>3, <1>4, <1>5, <1>6 DEF GoesOn

LEMMA AtOnceKeeps ==
    ASSUME Inv, NEW c \in Candidates, AtOnce(c)
    PROVE  Inv'
<1>1. cand[c] \in CandidateRecord /\ (cand[c].over => cand[c].score # "ai")
  BY DEF Inv, TableInv, TableTypes, OverrideStands
<1>2. ASSUME NEW d \in CandidateRecord, HasRow(c), d.status \in {"active", "rejected"},
             d.job = cand[c].job, d.stage = cand[c].stage, d.over => d.score # "ai",
             cand' = [cand EXCEPT ![c] = d], UNCHANGED <<app, notes, job>>, Serve
      PROVE  Inv'
  <2>1. TableInv' /\ Grows
    BY <1>2, WriteHeadline DEF Inv
  <2> QED BY <1>2, <2>1, ServeKeeps
<1>3. ASSUME NEW to \in {"active", "rejected"}, NEW from, SetStatus(c, from, to) PROVE Inv'
  <2>1. PICK d : d = [cand[c] EXCEPT !.status = to]
    OBVIOUS
  <2>2. /\ d \in CandidateRecord /\ d.status = to /\ d.job = cand[c].job
        /\ d.stage = cand[c].stage /\ d.over = cand[c].over /\ d.score = cand[c].score
    BY <1>1, <2>1 DEF CandidateRecord, CandidateStatus
  <2>3. /\ HasRow(c) /\ cand' = [cand EXCEPT ![c] = d] /\ UNCHANGED <<app, notes, job>>
        /\ Serve
    BY <1>3, <2>1 DEF SetStatus
  <2> QED BY <1>1, <1>2, <2>2, <2>3
<1>4. ASSUME OverrideScore(c) PROVE Inv'
  <2>1. PICK d : d = [cand[c] EXCEPT !.score = "manual", !.over = TRUE]
    OBVIOUS
  <2>2. /\ d \in CandidateRecord /\ d.status = cand[c].status /\ d.job = cand[c].job
        /\ d.stage = cand[c].stage /\ d.over /\ d.score = "manual"
    BY <1>1, <2>1 DEF CandidateRecord
  <2>3. /\ HasRow(c) /\ cand' = [cand EXCEPT ![c] = d] /\ UNCHANGED <<app, notes, job>>
        /\ Serve
    BY <1>4, <2>1 DEF OverrideScore
  <2> QED BY <1>2, <2>2, <2>3 DEF HasRow
<1>5. ASSUME ClearScore(c) PROVE Inv'
  <2>1. PICK d : d = [cand[c] EXCEPT !.score = "none", !.over = FALSE]
    OBVIOUS
  <2>2. /\ d \in CandidateRecord /\ d.status = cand[c].status /\ d.job = cand[c].job
        /\ d.stage = cand[c].stage /\ d.score = "none"
    BY <1>1, <2>1 DEF CandidateRecord
  <2>3. /\ HasRow(c) /\ cand' = [cand EXCEPT ![c] = d] /\ UNCHANGED <<app, notes, job>>
        /\ Serve
    BY <1>5, <2>1 DEF ClearScore
  <2> QED BY <1>2, <2>2, <2>3 DEF HasRow
<1>6. ASSUME DeleteCandidate(c) PROVE Inv'
  BY <1>6, DeleteCandidateTables, ServeKeeps DEF DeleteCandidate, Inv
<1>7. ASSUME InsertCandidate(c) PROVE Inv'
  <2>1. PICK d, a : d = [cand[c] EXCEPT !.status = "active"] /\ a = app
    OBVIOUS
  <2>2. /\ d \in CandidateRecord /\ d.status = "active" /\ d.job = cand[c].job
        /\ d.stage = cand[c].stage /\ d.over = cand[c].over /\ d.score = cand[c].score
    BY <1>1, <2>1 DEF CandidateRecord, CandidateStatus
  <2>3. /\ cand[c].status = "none" /\ cand' = [cand EXCEPT ![c] = d] /\ app' = a
        /\ UNCHANGED <<notes, job, task, calls>>
    BY <1>7, <2>1 DEF InsertCandidate
  <2>4. d.job = None /\ d.stage = None
    BY <2>2, <2>3 DEF Inv, TableInv, References, HasRow
  <2>5. /\ a \in [Candidates \X Jobs -> Stages \cup {None, Absent}]
        /\ \A k \in Jobs : a[<<c, k>>] = app[<<c, k>>]
        /\ \A e \in Candidates \ {c}, k \in Jobs : a[<<e, k>>] = app[<<e, k>>]
    BY <2>1 DEF Inv, TableInv, TableTypes
  <2>6. TableInv' /\ Grows
    BY <1>1, <2>2, <2>3, <2>4, <2>5, WriteRows DEF Inv
  <2> QED BY <2>3, <2>6, TablesOnly DEF Inv
<1> QED BY <1>3, <1>4, <1>5, <1>6, <1>7 DEF AtOnce, RejectCandidate, UnrejectCandidate

LEMMA EditsJobKeeps ==
    ASSUME Inv, NEW j \in Jobs, EditsJob(j)
    PROVE  Inv'
<1>1. ASSUME NEW status \in {"open", "closed"}, NEW enabled \in SUBSET Orders,
             UpdateJob(j, status, enabled)
      PROVE  Inv'
  <2>1. Serve
    BY <1>1 DEF UpdateJob
  <2> QED BY <1>1, <2>1, UpdateJobTables, ServeKeeps DEF Inv
<1>2. CASE DeleteJob(j)
  BY <1>2, DeleteJobTables, ServeKeeps DEF DeleteJob, Inv
<1>3. CASE HardDeleteJob(j)
  BY <1>3, HardDeleteJobTables, ServeKeeps DEF HardDeleteJob, Inv
<1> QED BY <1>1, <1>2, <1>3 DEF EditsJob

------------------------------------------------------------------------------
(* The invariant and what follows from it.                                   *)

LEMMA InitInv == Init => Inv
<1> SUFFICES ASSUME Init PROVE Inv
  OBVIOUS
<1> USE DEF Init
<1>1. IdleTask \in TaskRecord /\ IdleTask.pc = "idle" /\ IdleTask.from = None
  BY DEF IdleTask, TaskRecord
<1>2. /\ NoCandidate \in CandidateRecord /\ NoCandidate.job = None
      /\ NoCandidate.stage = None /\ ~NoCandidate.over
  BY DEF NoCandidate, CandidateRecord, CandidateStatus
<1>3. TableTypes
  <2>1. job \in [Jobs -> JobRecord]
    BY BoundsAssumption DEF JobRecord, JobStatus, Orders
  <2>2. app \in [Candidates \X Jobs -> Stages \cup {None, Absent}]
    OBVIOUS
  <2>3. cand \in [Candidates -> CandidateRecord]
    BY <1>2
  <2>4. notes \subseteq Candidates \X Stages
    OBVIOUS
  <2> QED BY <2>1, <2>2, <2>3, <2>4 DEF TableTypes
<1>4. References
  BY <1>2 DEF References, Applied
<1>5. AssignedHasApplication /\ OverrideStands
  BY <1>2 DEF AssignedHasApplication, OverrideStands
<1>6. ASSUME NEW t \in Tasks PROVE Fine(task[t])
  <2>1. task[t] = IdleTask
    OBVIOUS
  <2> QED BY <1>1, <2>1 DEF Fine
<1>7. OneAssessor
  BY <1>1 DEF OneAssessor
<1>8. calls \in 0 .. MaxCalls
  BY BoundsAssumption
<1>9. task \in [Tasks -> TaskRecord]
  BY <1>1
<1> QED BY <1>3, <1>4, <1>5, <1>6, <1>7, <1>8, <1>9 DEF Inv, TableInv

LEMMA NextInv == Inv /\ [Next]_vars => Inv'
<1> SUFFICES ASSUME Inv, [Next]_vars PROVE Inv'
  OBVIOUS
<1>1. ASSUME NEW t \in Tasks, Begins(t) \/ GoesOn(t) PROVE Inv'
  BY <1>1, BeginsKeeps, GoesOnKeeps
<1>2. ASSUME NEW c \in Candidates, AtOnce(c) PROVE Inv'
  BY <1>2, AtOnceKeeps
<1>3. ASSUME NEW j \in Jobs, EditsJob(j) PROVE Inv'
  BY <1>3, EditsJobKeeps
<1>4. CASE UNCHANGED vars
  BY <1>4, SameTables, TablesOnly DEF vars, Inv
<1> QED BY <1>1, <1>2, <1>3, <1>4 DEF Next

LEMMA InvIsInvariant == Spec => []Inv
BY InitInv, NextInv, PTL DEF Spec

\* For any number of candidates, jobs, tasks, stages and edits: every value keeps its kind and
\* no reference outlives the row it names, whatever is edited or deleted under a request.
THEOREM TypeCorrect == Spec => []TypeOK
<1>1. Inv => TypeOK
  BY DEF Inv, TableInv, TableTypes, TypeOK, Types
<1> QED BY <1>1, InvIsInvariant, PTL

\* A candidate that points at a job always has an application for it, the worker's two
\* separate writes of a bulk assignment included.
THEOREM PointerHasApplication == Spec => []AssignedHasApplication
<1>1. Inv => AssignedHasApplication
  BY DEF Inv, TableInv
<1> QED BY <1>1, InvIsInvariant, PTL

\* A score a recruiter has set is never a model's, however late that one's answer comes.
THEOREM OverridesStand == Spec => []OverrideStands
<1>1. Inv => OverrideStands
  BY DEF Inv, TableInv
<1> QED BY <1>1, InvIsInvariant, PTL

\* The unique key of the stage summaries lets one assessment of a stage go on to advance the
\* candidate, for any number of assessments at once.
THEOREM OneAdvance == Spec => []OneAdvancePerStage
<1>1. Inv => OneAdvancePerStage
  BY DEF Inv, OneAssessor, OneAdvancePerStage
<1> QED BY <1>1, InvIsInvariant, PTL

------------------------------------------------------------------------------
(* Who moves whom.                                                           *)

LEMMA ScoresMoveNobody ==
    ASSUME TableInv, NEW c \in Candidates, NEW v, NEW w,
           \/ cand' = [cand EXCEPT ![c].score = v]
           \/ cand' = [cand EXCEPT ![c].over = w]
           \/ cand' = [cand EXCEPT ![c].status = v]
           \/ cand' = [cand EXCEPT ![c].score = v, ![c].over = w],
           app' = app
    PROVE  Placed
<1>1. ASSUME NEW e \in Candidates
      PROVE  cand'[e].job = cand[e].job /\ cand'[e].stage = cand[e].stage
  BY DEF TableInv, TableTypes, CandidateRecord
<1> QED BY <1>1, Unmoved

LEMMA BeginsMovesNobody ==
    ASSUME Inv, NEW t \in Tasks, Begins(t)
    PROVE  Placed
<1>1. CASE UNCHANGED <<cand, app>>
  BY <1>1, Unmoved
<1>2. ASSUME NEW c \in Candidates, RevertScore(t, c) PROVE Placed
  BY <1>2, ScoresMoveNobody DEF RevertScore, Inv
<1> QED
  BY <1>1, <1>2 DEF Begins, MoveToStage, SaveStageSummary, AssessCall, Assign, UpdateCandidate,
                    InitialAssignment, CreateCandidate, MatchJobs, Rescore, tables

LEMMA GoesOnPlaces ==
    ASSUME Inv, NEW t \in Tasks, GoesOn(t)
    PROVE  Placed
<1>1. CASE UNCHANGED <<cand, app>>
  BY <1>1, Unmoved
<1>2. CASE WriteScore(t) \/ WriteRescore(t) \/ ForgetScore(t)
  <2>1. PICK c, h : c = task[t].c /\ h = Headline(c)
    OBVIOUS
  <2>2. task[t].pc # "idle" /\ app' = app
    BY <1>2 DEF WriteScore, WriteRescore, ForgetScore
  <2>3. c \in Candidates
    BY <2>1, <2>2, BusyTask
  <2>4. cand' = [cand EXCEPT ![c].score = h] \/ cand' = [cand EXCEPT ![c].score = "none"]
    BY <1>2, <2>1 DEF WriteScore, WriteRescore, ForgetScore
  <2> QED BY <2>2, <2>3, <2>4, ScoresMoveNobody DEF Inv
<1>3. CASE \/ CommitMove(t) \/ UpsertApplication(t) \/ PointAtJob(t) \/ CommitCreate(t)
           \/ Enrich(t)
           \/ \E override \in BOOLEAN : CommitUpdate(t, override) \/ CommitAssignment(t, override)
  BY <1>3, CommitMoveKeeps, UpsertApplicationKeeps, PointAtJobKeeps, CommitCreateKeeps,
     EnrichKeeps, CommitUpdateKeeps
<1> QED
  BY <1>1, <1>2, <1>3 DEF GoesOn, Advance, CreateSummary, PlaceInitially, Return, Crash, tables

LEMMA AtOncePlaces ==
    ASSUME Inv, NEW c \in Candidates, AtOnce(c)
    PROVE  Placed
<1>1. CASE RejectCandidate(c) \/ UnrejectCandidate(c)
  BY <1>1, ScoresMoveNobody DEF RejectCandidate, UnrejectCandidate, SetStatus, Inv
<1>2. CASE OverrideScore(c)
  BY <1>2, ScoresMoveNobody DEF OverrideScore, Inv
<1>3. CASE ClearScore(c)
  BY <1>3, ScoresMoveNobody DEF ClearScore, Inv
<1>4. CASE InsertCandidate(c)
  BY <1>4, ScoresMoveNobody DEF InsertCandidate, Inv
<1>5. CASE DeleteCandidate(c)
  <2>1. PICK d, a : /\ d = [NoCandidate EXCEPT !.status = "gone"]
                    /\ a = [x \in Candidates \X Jobs |-> IF x[1] = c THEN Absent ELSE app[x]]
    OBVIOUS
  <2>2. d \in CandidateRecord /\ d.job = None
    BY <2>1 DEF NoCandidate, CandidateRecord, CandidateStatus
  <2>3. /\ a \in [Candidates \X Jobs -> Stages \cup {None, Absent}]
        /\ \A k \in Jobs : a[<<c, k>>] \notin Stages
        /\ \A e \in Candidates \ {c}, k \in Jobs : a[<<e, k>>] = app[<<e, k>>]
    BY <2>1, NullAssumption DEF Inv, TableInv, TableTypes
  <2>4. cand' = [cand EXCEPT ![c] = d] /\ app' = a
    BY <1>5, <2>1 DEF DeleteCandidate
  <2> QED BY <2>2, <2>3, <2>4, RowMoves DEF Inv
<1> QED BY <1>1, <1>2, <1>3, <1>4, <1>5 DEF AtOnce

\* Two references to one stage stay equal.
LEMMA HardDeleteJobPlaces ==
    ASSUME Inv, NEW j \in Jobs, HardDeleteJob(j)
    PROVE  Placed
<1>1. /\ cand' = [c \in Candidates |->
            [cand[c] EXCEPT !.job = IF @ = j THEN None ELSE @, !.stage = Nulled(@, j)]]
      /\ app' = [x \in Candidates \X Jobs |-> IF x[2] = j THEN Absent ELSE Nulled(app[x], j)]
  BY DEF HardDeleteJob
<1>2. ASSUME NEW c \in Candidates
      PROVE  /\ cand'[c].job = IF cand[c].job = j THEN None ELSE cand[c].job
             /\ cand'[c].stage = Nulled(cand[c].stage, j)
  <2>1. cand[c] \in CandidateRecord
    BY DEF Inv, TableInv, TableTypes
  <2> QED BY <2>1, <1>1 DEF CandidateRecord
<1>3. ASSUME NEW c \in Candidates, NEW k \in Jobs
      PROVE  app'[<<c, k>>] = IF k = j THEN Absent ELSE Nulled(app[<<c, k>>], j)
  BY <1>1
<1>4. ASSUME NEW c \in Candidates, Agrees(c) PROVE Agrees(c)'
  <2>1. cand[c].job \in Jobs \cup {None}
    BY DEF Inv, TableInv, TableTypes, CandidateRecord
  <2>2. CASE cand[c].job \in {None, j}
    BY <2>2, <1>2 DEF Agrees
  <2>3. CASE cand[c].job \in Jobs \ {None, j}
    <3>1. app[<<c, cand[c].job>>] = cand[c].stage /\ cand'[c].job = cand[c].job
      BY <2>3, <1>2, <1>4 DEF Agrees
    <3>2. app'[<<c, cand[c].job>>] = Nulled(app[<<c, cand[c].job>>], j)
      BY <2>3, <1>3
    <3> QED BY <3>1, <3>2, <1>2 DEF Agrees
  <2> QED BY <2>1, <2>2, <2>3
<1>5. ASSUME NEW c \in Candidates, NEW k \in Jobs, OnOwnStage(c, k) PROVE OnOwnStage(c, k)'
  <2>1. app[<<c, k>>] \in Stages \cup {None, Absent}
    BY DEF Inv, TableInv, TableTypes
  <2>2. \/ app'[<<c, k>>] \in {None, Absent} \/ app'[<<c, k>>] = app[<<c, k>>]
    BY <2>1, <1>3, NulledStage
  <2> QED BY <1>5, <2>2, NullAssumption DEF OnOwnStage
<1> QED BY <1>4, <1>5 DEF Placed

LEMMA UpdateJobPlaces ==
    ASSUME Inv, NEW j \in Jobs, NEW status \in {"open", "closed"},
           NEW enabled \in SUBSET Orders, UpdateJob(j, status, enabled)
    PROVE  Placed
<1>1. PICK first : first = [job |-> j, gen |-> job[j].gen + 1, order |-> 1]
  OBVIOUS
<1> DEFINE attached(c) == HasRow(c) /\ cand[c].job \in {None, j} /\ Applied(c, j)
           detached(c) == cand[c].job = j /\ ~Applied(c, j)
<1>2. /\ cand' = [c \in Candidates |->
                    IF attached(c) THEN [cand[c] EXCEPT !.job = j, !.stage = first]
                    ELSE [cand[c] EXCEPT !.job = IF detached(c) THEN None ELSE @,
                                         !.stage = IF detached(c) THEN None ELSE Nulled(@, j)]]
      /\ app' = [x \in Candidates \X Jobs |->
                    IF x[2] = j /\ app[x] # Absent THEN first ELSE Nulled(app[x], j)]
  BY <1>1 DEF UpdateJob
<1>3. first.job = j
  BY <1>1
<1>4. ASSUME NEW c \in Candidates, NEW k \in Jobs
      PROVE  app'[<<c, k>>] = IF k = j /\ Applied(c, k) THEN first ELSE Nulled(app[<<c, k>>], j)
  BY <1>2 DEF Applied
<1>5. ASSUME NEW c \in Candidates, Agrees(c) PROVE Agrees(c)'
  <2>1. cand[c] \in CandidateRecord /\ cand[c].job \in Jobs \cup {None}
    BY DEF Inv, TableInv, TableTypes, CandidateRecord
  <2>2. cand[c].job # None => HasRow(c) /\ Applied(c, cand[c].job)
    BY DEF Inv, TableInv, References, AssignedHasApplication
  <2>3. CASE attached(c)
    <3>1. cand'[c] = [cand[c] EXCEPT !.job = j, !.stage = first]
      BY <1>2, <2>3
    <3>2. cand'[c].job = j /\ cand'[c].stage = first
      BY <2>1, <3>1 DEF CandidateRecord
    <3>3. app'[<<c, j>>] = first
      BY <2>3, <1>4
    <3> QED BY <3>2, <3>3 DEF Agrees
  <2>4. CASE ~attached(c)
    <3>1. cand[c].job # j /\ ~detached(c)
      BY <2>2, <2>4, NullAssumption
    <3>2. cand'[c] = [cand[c] EXCEPT !.stage = Nulled(@, j)]
      <4> HIDE DEF attached, detached
      <4> QED BY <1>2, <2>1, <2>4, <3>1 DEF CandidateRecord
    <3>3. cand'[c].job = cand[c].job /\ cand'[c].stage = Nulled(cand[c].stage, j)
      BY <2>1, <3>2 DEF CandidateRecord
    <3>4. CASE cand[c].job = None
      BY <3>3, <3>4 DEF Agrees
    <3>5. CASE cand[c].job # None
      <4>1. app'[<<c, cand[c].job>>] = Nulled(app[<<c, cand[c].job>>], j)
        BY <2>1, <3>1, <3>5, <1>4
      <4>2. app[<<c, cand[c].job>>] = cand[c].stage
        BY <3>5, <1>5 DEF Agrees
      <4> QED BY <3>3, <4>1, <4>2 DEF Agrees
    <3> QED BY <3>4, <3>5
  <2> QED BY <2>3, <2>4
<1>6. ASSUME NEW c \in Candidates, NEW k \in Jobs, OnOwnStage(c, k) PROVE OnOwnStage(c, k)'
  <2>1. app[<<c, k>>] \in Stages \cup {None, Absent}
    BY DEF Inv, TableInv, TableTypes
  <2>2. \/ app'[<<c, k>>] = first /\ k = j
        \/ app'[<<c, k>>] \in {None, Absent} \/ app'[<<c, k>>] = app[<<c, k>>]
    BY <2>1, <1>4, NulledStage
  <2> QED BY <1>3, <1>6, <2>2, NullAssumption DEF OnOwnStage
<1> QED BY <1>5, <1>6 DEF Placed

LEMMA NextPlaces == Inv /\ [Next]_vars => Placed \/ UNCHANGED vars
<1> SUFFICES ASSUME Inv, Next PROVE Placed
  OBVIOUS
<1>1. ASSUME NEW t \in Tasks, Begins(t) \/ GoesOn(t) PROVE Placed
  BY <1>1, BeginsMovesNobody, GoesOnPlaces
<1>2. ASSUME NEW c \in Candidates, AtOnce(c) PROVE Placed
  BY <1>2, AtOncePlaces
<1>3. ASSUME NEW j \in Jobs, EditsJob(j) PROVE Placed
  <2>1. CASE DeleteJob(j)
    BY <2>1, Unmoved DEF DeleteJob
  <2> QED BY <1>3, <2>1, HardDeleteJobPlaces, UpdateJobPlaces DEF EditsJob
<1> QED BY <1>1, <1>2, <1>3 DEF Next

\* Whatever the requests, worker jobs and edits in flight, the board and the application of a
\* candidate are parted only by a bulk assignment's pointer or by a move that commits late.
THEOREM OnlyKnownSplits == Spec => SplitsAreKnown
<1>1. Inv /\ [Next]_vars =>
        [\A c \in Candidates : Agrees(c) => Agrees(c)' \/
            \E t \in Tasks :
                /\ task[t].c = c
                /\ task'[t] # task[t]
                /\ \/ task[t].pc = "point"
                   \/ task[t].pc = "move" /\ task[t].job # cand[c].job]_vars
  BY NextPlaces DEF Placed, Splits
<1> QED BY <1>1, InvIsInvariant, PTL DEF Spec, SplitsAreKnown

\* An application is put on a stage of a job not its own only by copying the stage its
\* candidate was on.
THEOREM ForeignStagesOnlyCopied == Spec => ForeignStagesAreCopied
<1>1. Inv /\ [Next]_vars =>
        [\A c \in Candidates, j \in Jobs : OnOwnStage(c, j) => OnOwnStage(c, j)' \/
            /\ cand[c].job = j
            /\ cand[c].stage = app'[<<c, j>>]]_vars
  BY NextPlaces DEF Placed
<1> QED BY <1>1, InvIsInvariant, PTL DEF Spec, ForeignStagesAreCopied

------------------------------------------------------------------------------
(* Every step is a step of CandidateBoard, or changes nothing it shows.      *)

LEMMA Columns ==
    ASSUME cand \in [Candidates -> CandidateRecord], NEW c \in Candidates,
           NEW d \in CandidateRecord, cand' = [cand EXCEPT ![c] = d]
    PROVE  /\ StatusOf' = [StatusOf EXCEPT ![c] = d.status]
           /\ JobOf' = [JobOf EXCEPT ![c] = d.job]
           /\ ScoreOf' = [ScoreOf EXCEPT ![c] = d.score]
           /\ Overridden' = IF d.over THEN Overridden \cup {c} ELSE Overridden \ {c}
           /\ d.status = cand[c].status => StatusOf' = StatusOf
           /\ d.job = cand[c].job => JobOf' = JobOf
           /\ d.score = cand[c].score => ScoreOf' = ScoreOf
           /\ d.over = cand[c].over => Overridden' = Overridden
<1>1. cand'[c] = d /\ \A e \in Candidates \ {c} : cand'[e] = cand[e]
  OBVIOUS
<1>2. StatusOf' = [StatusOf EXCEPT ![c] = d.status]
  BY <1>1 DEF StatusOf
<1>3. JobOf' = [JobOf EXCEPT ![c] = d.job]
  BY <1>1 DEF JobOf
<1>4. ScoreOf' = [ScoreOf EXCEPT ![c] = d.score]
  BY <1>1 DEF ScoreOf
<1>5. Overridden' = IF d.over THEN Overridden \cup {c} ELSE Overridden \ {c}
  BY <1>1 DEF Overridden
<1>6. d.status = cand[c].status => StatusOf' = StatusOf
  BY <1>1 DEF StatusOf
<1>7. d.job = cand[c].job => JobOf' = JobOf
  BY <1>1 DEF JobOf
<1>8. d.score = cand[c].score => ScoreOf' = ScoreOf
  BY <1>1 DEF ScoreOf
<1>9. d.over = cand[c].over => Overridden' = Overridden
  BY <1>1 DEF Overridden
<1> QED BY <1>2, <1>3, <1>4, <1>5, <1>6, <1>7, <1>8, <1>9

LEMMA OnBoard ==
    ASSUME NEW c \in Candidates, NEW j \in Jobs
    PROVE  /\ StatusOf[c] = cand[c].status
           /\ HasRow(c) <=> Board!Present(c)
           /\ Exists(j) <=> j \in LiveJobs
           /\ Applied(c, j) <=> <<c, j>> \in Applications
           /\ cand[c].over <=> c \in Overridden
BY DEF StatusOf, HasRow, Board!Present, LiveJobs, Applied, Applications, Overridden

LEMMA SameApplications ==
    /\ app' = app => Applications' = Applications
    /\ job' = job => LiveJobs' = LiveJobs
BY DEF Applications, LiveJobs, Exists

\* A step after which c also has applications for the jobs J, and nobody another one.
LEMMA MoreApplications ==
    ASSUME NEW c \in Candidates, NEW J \in SUBSET Jobs,
           \A e \in Candidates, k \in Jobs :
             Applied(e, k)' <=> (Applied(e, k) \/ (e = c /\ k \in J))
    PROVE  Applications' = Applications \cup ({c} \X J)
<1> DEFINE P == {c} \X J
<1>1. /\ P \subseteq Candidates \X Jobs
      /\ \A x \in Candidates \X Jobs : x \in P <=> (x[1] = c /\ x[2] \in J)
  OBVIOUS
<1> HIDE DEF P
<1>2. ASSUME NEW x \in Candidates \X Jobs
      PROVE  (app'[x] # Absent) <=> (app[x] # Absent \/ x \in P)
  <2>1. x = <<x[1], x[2]>> /\ x[1] \in Candidates /\ x[2] \in Jobs
    OBVIOUS
  <2> QED BY <2>1, <1>1 DEF Applied
<1>3. Applications' = Applications \cup P
  BY <1>1, <1>2 DEF Applications
<1> QED BY <1>3 DEF P

LEMMA NoMoreApplications ==
    ASSUME \A e \in Candidates, k \in Jobs : Applied(e, k)' <=> Applied(e, k)
    PROVE  Applications' = Applications
<1>1. ASSUME NEW x \in Candidates \X Jobs PROVE (app'[x] # Absent) <=> (app[x] # Absent)
  <2>1. x = <<x[1], x[2]>> /\ x[1] \in Candidates /\ x[2] \in Jobs
    OBVIOUS
  <2> QED BY <2>1 DEF Applied
<1> QED BY <1>1 DEF Applications

\* A step that shows nothing.
LEMMA ShowsNothing ==
    ASSUME UNCHANGED <<StatusOf, JobOf, ScoreOf, Overridden, Applications, LiveJobs>>
    PROVE  UNCHANGED Board!board
BY DEF Board!board

LEMMA SameTablesShowNothing ==
    ASSUME UNCHANGED <<cand, app, job>>
    PROVE  UNCHANGED Board!board
BY ShowsNothing DEF StatusOf, JobOf, ScoreOf, Overridden, Applications, LiveJobs, Exists

\* A write of the status or of the headline score.
LEMMA StatusOnBoard ==
    ASSUME Inv, NEW c \in Candidates, NEW from, NEW to \in CandidateStatus,
           cand[c].status = from, cand' = [cand EXCEPT ![c].status = to],
           app' = app, job' = job
    PROVE  Board!SetStatus(c, from, to)
<1> DEFINE d == [cand[c] EXCEPT !.status = to]
<1>1. /\ d \in CandidateRecord /\ d.status = to /\ d.job = cand[c].job
      /\ d.score = cand[c].score /\ d.over = cand[c].over
  BY DEF Inv, TableInv, TableTypes, CandidateRecord
<1>2. cand' = [cand EXCEPT ![c] = d]
  OBVIOUS
<1> HIDE DEF d
<1> QED BY <1>1, <1>2, Columns, SameApplications
        DEF Inv, TableInv, TableTypes, Board!SetStatus, StatusOf

LEMMA RatingOnBoard ==
    ASSUME Inv, NEW c \in Candidates, NEW v \in {"none", "ai", "manual"}, NEW w \in BOOLEAN,
           HasRow(c), app' = app, job' = job,
           cand' = [cand EXCEPT ![c].score = v, ![c].over = w],
           \/ v = "manual" /\ w
           \/ v \in {cand[c].score, "none"} /\ ~w
           \/ v = "ai" /\ ~cand[c].over /\ ~w
           \/ v = "none" /\ w = cand[c].over
    PROVE  Board!Rate(c)
<1> DEFINE d == [cand[c] EXCEPT !.score = v, !.over = w]
<1>1. /\ d \in CandidateRecord /\ d.status = cand[c].status /\ d.job = cand[c].job
      /\ d.score = v /\ d.over = w
  BY DEF Inv, TableInv, TableTypes, CandidateRecord
<1>2. cand' = [cand EXCEPT ![c] = d]
  BY DEF Inv, TableInv, TableTypes
<1> HIDE DEF d
<1>3. /\ StatusOf' = StatusOf /\ JobOf' = JobOf
      /\ ScoreOf' = [ScoreOf EXCEPT ![c] = v]
      /\ Overridden' = IF w THEN Overridden \cup {c} ELSE Overridden \ {c}
      /\ v = cand[c].score => ScoreOf' = ScoreOf
      /\ w = cand[c].over => Overridden' = Overridden
  BY <1>1, <1>2, Columns DEF Inv, TableInv, TableTypes
<1>4. Board!Override(c) \/ Board!Revert(c) \/ Board!Clear(c) \/ Board!Score(c) \/ Board!Forget(c)
  BY <1>3 DEF Board!Override, Board!Revert, Board!Clear, Board!Score, Board!Forget, Overridden
<1>5. Board!Present(c)
  BY DEF Board!Present, HasRow, StatusOf
<1> QED BY <1>3, <1>4, <1>5, SameApplications DEF Board!Rate

LEMMA BeginsOnBoard ==
    ASSUME Inv, NEW t \in Tasks, Begins(t)
    PROVE  Board!Next \/ UNCHANGED Board!board
<1>1. ASSUME NEW c \in Candidates, RevertScore(t, c) PROVE Board!Rate(c)
  <2>1. HasRow(c) /\ app' = app /\ job' = job /\ cand[c] \in CandidateRecord
    BY <1>1 DEF RevertScore, Inv, TableInv, TableTypes
  <2>2. cand' = [cand EXCEPT ![c].score = cand[c].score, ![c].over = FALSE]
    BY <1>1, <2>1 DEF RevertScore, CandidateRecord, Inv, TableInv, TableTypes
  <2> QED BY <2>1, <2>2, RatingOnBoard DEF CandidateRecord
<1>2. ASSUME NEW c \in Candidates, RevertScore(t, c) PROVE Board!Next
  BY <1>1, <1>2 DEF Board!Next
<1>3. CASE \A c \in Candidates : ~RevertScore(t, c)
  <2>1. UNCHANGED <<cand, app, job>>
    BY <1>3 DEF Begins, MoveToStage, SaveStageSummary, AssessCall, Assign, UpdateCandidate,
                InitialAssignment, CreateCandidate, MatchJobs, Rescore, tables
  <2> QED BY <2>1, SameTablesShowNothing
<1> QED BY <1>2, <1>3

LEMMA AtOnceOnBoard ==
    ASSUME Inv, NEW c \in Candidates, AtOnce(c)
    PROVE  Board!Next
<1>1. CASE RejectCandidate(c)
  BY <1>1, StatusOnBoard
     DEF RejectCandidate, SetStatus, CandidateStatus, Board!Reject, Board!Next
<1>2. CASE UnrejectCandidate(c)
  BY <1>2, StatusOnBoard
     DEF UnrejectCandidate, SetStatus, CandidateStatus, Board!Unreject, Board!Next
<1>3. CASE InsertCandidate(c)
  BY <1>3, StatusOnBoard DEF InsertCandidate, CandidateStatus, Board!Insert, Board!Next
<1>4. CASE OverrideScore(c) \/ ClearScore(c)
  BY <1>4, RatingOnBoard DEF OverrideScore, ClearScore, Board!Next
<1>5. CASE DeleteCandidate(c)
  <2> DEFINE d == [NoCandidate EXCEPT !.status = "gone"]
  <2>1. d \in CandidateRecord /\ d.status = "gone" /\ d.job = None /\ d.score = "none" /\ d.over = FALSE
    BY DEF NoCandidate, CandidateRecord, CandidateStatus
  <2>2. HasRow(c) /\ cand' = [cand EXCEPT ![c] = d] /\ job' = job
    BY <1>5 DEF DeleteCandidate
  <2>3. \A x \in Candidates \X Jobs : (app'[x] # Absent) <=> (app[x] # Absent /\ x[1] # c)
    BY <1>5 DEF DeleteCandidate
  <2>4. Applications' = Applications \ ({c} \X Jobs)
    <3>1. \A x \in Candidates \X Jobs : x \in {c} \X Jobs <=> x[1] = c
      OBVIOUS
    <3> QED BY <2>3, <3>1 DEF Applications
  <2> HIDE DEF d
  <2>5. /\ StatusOf' = [StatusOf EXCEPT ![c] = "gone"] /\ JobOf' = [JobOf EXCEPT ![c] = None]
        /\ ScoreOf' = [ScoreOf EXCEPT ![c] = "none"] /\ Overridden' = Overridden \ {c}
    <3>1. /\ StatusOf' = [StatusOf EXCEPT ![c] = d.status] /\ JobOf' = [JobOf EXCEPT ![c] = d.job]
          /\ ScoreOf' = [ScoreOf EXCEPT ![c] = d.score]
          /\ Overridden' = IF d.over THEN Overridden \cup {c} ELSE Overridden \ {c}
      BY <2>1, <2>2, Columns DEF Inv, TableInv, TableTypes
    <3> QED BY <2>1, <3>1
  <2>6. LiveJobs' = LiveJobs
    BY <2>2, SameApplications
  <2>7. Board!Present(c)
    BY <2>2 DEF Board!Present, HasRow, StatusOf
  <2>8. Board!Delete(c)
    BY <2>4, <2>5, <2>6, <2>7 DEF Board!Delete
  <2> QED BY <2>8 DEF Board!Next
<1> QED BY <1>1, <1>2, <1>3, <1>4, <1>5 DEF AtOnce

\* One transaction that points c at j and upserts applications for J; the score stays or is
\* overridden.
LEMMA AssignOnBoard ==
    ASSUME Inv, NEW c \in Candidates, NEW j \in Jobs, NEW J \in SUBSET Jobs,
           NEW d \in CandidateRecord, HasRow(c),
           \A k \in J \cup {j} : Exists(k),
           Applied(c, j) \/ j \in J,
           cand' = [cand EXCEPT ![c] = d], job' = job,
           d.status = cand[c].status, d.job = j,
           \/ d.score = cand[c].score /\ d.over = cand[c].over
           \/ d.score = "manual" /\ d.over,
           \A e \in Candidates, k \in Jobs :
             Applied(e, k)' <=> (Applied(e, k) \/ (e = c /\ k \in J))
    PROVE  Board!Next
<1>1. Applications' = Applications \cup ({c} \X J)
  BY MoreApplications
<1>2. /\ StatusOf' = StatusOf
      /\ JobOf' = [JobOf EXCEPT ![c] = j]
      /\ d.score = cand[c].score => ScoreOf' = ScoreOf
      /\ d.over = cand[c].over => Overridden' = Overridden
      /\ ScoreOf' = [ScoreOf EXCEPT ![c] = d.score]
      /\ d.over => Overridden' = Overridden \cup {c}
  BY Columns DEF Inv, TableInv, TableTypes
<1>3. LiveJobs' = LiveJobs /\ J \cup {j} \subseteq LiveJobs
  BY SameApplications DEF LiveJobs
<1>4. <<c, j>> \in Applications \cup ({c} \X J)
  BY DEF Applications, Applied
<1>5. \/ UNCHANGED <<ScoreOf, Overridden>>
      \/ ScoreOf' = [ScoreOf EXCEPT ![c] = "manual"] /\ Overridden' = Overridden \cup {c}
  BY <1>2
<1>6. Board!Present(c)
  BY DEF Board!Present, HasRow, StatusOf
<1>7. Board!Assign(c, j, J)
  BY <1>1, <1>2, <1>3, <1>4, <1>5, <1>6 DEF Board!Assign
<1> QED BY <1>7 DEF Board!Next

LEMMA CommitMoveOnBoard ==
    ASSUME Inv, NEW t \in Tasks, CommitMove(t)
    PROVE  UNCHANGED Board!board
<1>1. PICK c, j, s : c = task[t].c /\ j = task[t].job /\ s = task[t].stage
  OBVIOUS
<1>2. /\ task[t].pc = "move" /\ job' = job
      /\ cand' = [cand EXCEPT ![c].stage = s]
      /\ app' = IF Applied(c, j) THEN [app EXCEPT ![<<c, j>>] = s] ELSE app
  BY <1>1 DEF CommitMove
<1>3. c \in Candidates /\ j \in Jobs /\ s \in Stages /\ s # Absent
  BY <1>1, <1>2, BusyTask, NullAssumption
<1>4. \A e \in Candidates, k \in Jobs : Applied(e, k)' <=> Applied(e, k)
  BY <1>2, <1>3 DEF Applied, Inv, TableInv, TableTypes
<1> DEFINE d == [cand[c] EXCEPT !.stage = s]
<1>5. /\ d \in CandidateRecord /\ d.status = cand[c].status /\ d.job = cand[c].job
      /\ d.score = cand[c].score /\ d.over = cand[c].over
  BY <1>3 DEF Inv, TableInv, TableTypes, CandidateRecord
<1>6. cand' = [cand EXCEPT ![c] = d]
  BY <1>2
<1> HIDE DEF d
<1>7. UNCHANGED <<StatusOf, JobOf, ScoreOf, Overridden>>
  BY <1>3, <1>5, <1>6, Columns DEF Inv, TableInv, TableTypes
<1> QED BY <1>2, <1>4, <1>7, NoMoreApplications, SameApplications, ShowsNothing

LEMMA UpsertOnBoard ==
    ASSUME Inv, NEW t \in Tasks, UpsertApplication(t)
    PROVE  Board!Next
<1>1. PICK c, j : c = task[t].c /\ j = task[t].job
  OBVIOUS
<1>2. /\ task[t].pc = "upsert" /\ HasRow(c) /\ Exists(j) /\ UNCHANGED <<cand, job>>
      /\ app' = IF Applied(c, j) THEN app ELSE [app EXCEPT ![<<c, j>>] = None]
  BY <1>1 DEF UpsertApplication
<1>3. c \in Candidates /\ j \in Jobs
  BY <1>1, <1>2, BusyTask
<1>4. PICK J : J \in SUBSET Jobs /\ J = {j}
  BY <1>3
<1>5. \A e \in Candidates, k \in Jobs :
        Applied(e, k)' <=> (Applied(e, k) \/ (e = c /\ k \in J))
  BY <1>2, <1>3, <1>4, NullAssumption DEF Applied, Inv, TableInv, TableTypes
<1>6. Applications' = Applications \cup ({c} \X {j})
  BY <1>3, <1>4, <1>5, MoreApplications
<1>7. {c} \X {j} = {<<c, j>>}
  OBVIOUS
<1>8. UNCHANGED <<StatusOf, JobOf, ScoreOf, Overridden, LiveJobs>>
  BY <1>2 DEF StatusOf, JobOf, ScoreOf, Overridden, LiveJobs, Exists
<1>9. Board!Present(c) /\ j \in LiveJobs
  BY <1>2, <1>3 DEF Board!Present, HasRow, StatusOf, LiveJobs
<1>10. Board!Apply(c, j)
  BY <1>6, <1>7, <1>8, <1>9 DEF Board!Apply
<1> QED BY <1>3, <1>10 DEF Board!Next

LEMMA PointAtJobOnBoard ==
    ASSUME Inv, NEW t \in Tasks, PointAtJob(t)
    PROVE  Board!Next
<1>1. PICK c, j : c = task[t].c /\ j = task[t].job
  OBVIOUS
<1> DEFINE d == [cand[c] EXCEPT !.job = j]
<1>2. /\ task[t].pc = "point" /\ HasRow(c) /\ Exists(j) /\ UNCHANGED <<app, job>>
      /\ cand' = [cand EXCEPT ![c] = d]
  BY <1>1 DEF PointAtJob
<1>3. c \in Candidates /\ j \in Jobs /\ Applied(c, j)
  BY <1>1, <1>2, BusyTask DEF Inv, Fine
<1>4. /\ d \in CandidateRecord /\ d.status = cand[c].status /\ d.job = j
      /\ d.score = cand[c].score /\ d.over = cand[c].over
  BY <1>3 DEF Inv, TableInv, TableTypes, CandidateRecord
<1>5. PICK J : J \in SUBSET Jobs /\ J = {}
  BY <1>3
<1>6. \A e \in Candidates, k \in Jobs :
        Applied(e, k)' <=> (Applied(e, k) \/ (e = c /\ k \in J))
  BY <1>2, <1>5 DEF Applied
<1> HIDE DEF d
<1> QED BY <1>2, <1>3, <1>4, <1>5, <1>6, AssignOnBoard

LEMMA WriteAssignmentOnBoard ==
    ASSUME Inv, NEW t \in Tasks, NEW override \in BOOLEAN,
           CommitUpdate(t, override) \/ CommitAssignment(t, override)
    PROVE  Board!Next
<1>1. PICK c, j, s : c = task[t].c /\ j = task[t].job /\ s = task[t].stage
  OBVIOUS
<1>2. PICK d : d = [cand[c] EXCEPT !.job = j, !.stage = s,
                                   !.score = IF override THEN "manual" ELSE @,
                                   !.over = IF override THEN TRUE ELSE @]
  OBVIOUS
<1>3. /\ task[t].pc \in {"update", "assign"} /\ HasRow(c) /\ StageExists(s) /\ job' = job
      /\ app' = [app EXCEPT ![<<c, j>>] = s]
  BY <1>1 DEF CommitUpdate, CommitAssignment, WriteAssignment
<1>4. /\ c \in Candidates /\ j \in Jobs /\ s \in Stages /\ s.job = j /\ s # Absent
      /\ Exists(j)
  BY <1>1, <1>3, BusyTask, NullAssumption DEF StageExists
<1>5. cand' = [cand EXCEPT ![c] = d] /\ cand[c] \in CandidateRecord
  BY <1>1, <1>2, <1>4 DEF CommitUpdate, CommitAssignment, WriteAssignment, Inv, TableInv,
                         TableTypes, CandidateRecord
<1>6. /\ d \in CandidateRecord /\ d.status = cand[c].status /\ d.job = j
      /\ \/ d.score = cand[c].score /\ d.over = cand[c].over
         \/ d.score = "manual" /\ d.over
  <2>1. CASE override
    <3>1. d = [cand[c] EXCEPT !.job = j, !.stage = s, !.score = "manual", !.over = TRUE]
      BY <1>2, <1>5, <2>1 DEF CandidateRecord
    <3> QED BY <3>1, <1>4, <1>5 DEF CandidateRecord
  <2>2. CASE ~override
    <3>1. d = [cand[c] EXCEPT !.job = j, !.stage = s]
      BY <1>2, <1>5, <2>2 DEF CandidateRecord
    <3> QED BY <3>1, <1>4, <1>5 DEF CandidateRecord
  <2> QED BY <2>1, <2>2
<1>7. PICK J : J \in SUBSET Jobs /\ J = {j}
  BY <1>4
<1>8. \A e \in Candidates, k \in Jobs :
        Applied(e, k)' <=> (Applied(e, k) \/ (e = c /\ k \in J))
  BY <1>3, <1>4, <1>7 DEF Applied, Inv, TableInv, TableTypes
<1>9. j \in J /\ \A k \in J \cup {j} : Exists(k)
  BY <1>4, <1>7
<1> QED BY <1>3, <1>4, <1>5, <1>6, <1>7, <1>8, <1>9, AssignOnBoard

LEMMA EnrichOnBoard ==
    ASSUME Inv, NEW t \in Tasks, Enrich(t)
    PROVE  Board!Next
<1>1. PICK c, j, s, J : /\ c = task[t].c /\ j = task[t].job /\ J = task[t].extra \cup {j}
                        /\ s = MergedStage(c, j, task[t].stage)
  OBVIOUS
<1>2. task[t].pc = "enrich"
  BY DEF Enrich
<1>3. /\ c \in Candidates /\ j \in Jobs /\ s \in Stages \cup {None} /\ J \in SUBSET Jobs
  BY <1>1, <1>2, BusyTask, MergedStageIsStage DEF Inv, TaskRecord
<1>4. Absent \notin Stages \cup {None}
  BY NullAssumption
<1> DEFINE d == [cand[c] EXCEPT !.job = j, !.stage = s]
           upserted(k) == IF k = j /\ s # None THEN s
                          ELSE IF Applied(c, k) THEN app[<<c, k>>] ELSE None
<1>5. /\ HasRow(c) /\ (\A k \in J : Exists(k)) /\ job' = job
      /\ cand' = [cand EXCEPT ![c] = d]
      /\ app' = [x \in Candidates \X Jobs |->
                    IF x[1] = c /\ x[2] \in J THEN upserted(x[2]) ELSE app[x]]
  BY <1>1 DEF Enrich
<1>6. /\ d \in CandidateRecord /\ d.status = cand[c].status /\ d.job = j
      /\ d.score = cand[c].score /\ d.over = cand[c].over
  BY <1>3 DEF Inv, TableInv, TableTypes, CandidateRecord
<1>7. \A k \in Jobs : upserted(k) # Absent
  BY <1>3, <1>4 DEF Applied
<1> HIDE DEF upserted, d
<1>8. \A e \in Candidates, k \in Jobs :
        Applied(e, k)' <=> (Applied(e, k) \/ (e = c /\ k \in J))
  BY <1>5, <1>7 DEF Applied
<1>9. j \in J /\ \A k \in J \cup {j} : Exists(k)
  BY <1>1, <1>5
<1> QED BY <1>3, <1>5, <1>6, <1>8, <1>9, AssignOnBoard

LEMMA CommitCreateOnBoard ==
    ASSUME Inv, NEW t \in Tasks, CommitCreate(t)
    PROVE  Board!Next
<1>1. PICK c, j, s : c = task[t].c /\ j = task[t].job /\ s = task[t].stage
  OBVIOUS
<1> DEFINE d == [NoCandidate EXCEPT !.status = "active", !.job = j, !.stage = s]
<1>2. /\ task[t].pc = "create" /\ cand[c].status = "none" /\ StageExists(s)
      /\ cand' = [cand EXCEPT ![c] = d] /\ app' = [app EXCEPT ![<<c, j>>] = s] /\ job' = job
  BY <1>1 DEF CommitCreate
<1>3. /\ c \in Candidates /\ j \in Jobs /\ s \in Stages /\ s.job = j /\ s # Absent
      /\ Exists(j)
  BY <1>1, <1>2, BusyTask, NullAssumption DEF StageExists
<1>4. /\ d \in CandidateRecord /\ d.status = "active" /\ d.job = j
      /\ d.score = "none" /\ d.over = FALSE
  BY <1>3 DEF NoCandidate, CandidateRecord, CandidateStatus
<1> HIDE DEF d
<1>5. PICK J : J \in SUBSET Jobs /\ J = {j}
  BY <1>3
<1>6. \A e \in Candidates, k \in Jobs :
        Applied(e, k)' <=> (Applied(e, k) \/ (e = c /\ k \in J))
  BY <1>2, <1>3, <1>5 DEF Applied, Inv, TableInv, TableTypes
<1>7. Applications' = Applications \cup ({c} \X {j})
  BY <1>3, <1>5, <1>6, MoreApplications
<1>8. {c} \X {j} = {<<c, j>>}
  OBVIOUS
<1>9. /\ StatusOf' = [StatusOf EXCEPT ![c] = "active"] /\ JobOf' = [JobOf EXCEPT ![c] = j]
      /\ ScoreOf' = [ScoreOf EXCEPT ![c] = "none"] /\ Overridden' = Overridden \ {c}
  <2>1. /\ StatusOf' = [StatusOf EXCEPT ![c] = d.status] /\ JobOf' = [JobOf EXCEPT ![c] = d.job]
        /\ ScoreOf' = [ScoreOf EXCEPT ![c] = d.score]
        /\ Overridden' = IF d.over THEN Overridden \cup {c} ELSE Overridden \ {c}
    BY <1>2, <1>3, <1>4, Columns DEF Inv, TableInv, TableTypes
  <2> QED BY <2>1, <1>4
<1>10. StatusOf[c] = "none" /\ j \in LiveJobs /\ LiveJobs' = LiveJobs
  BY <1>2, <1>3, SameApplications DEF StatusOf, LiveJobs
<1>11. Board!Enter(c, j)
  BY <1>7, <1>8, <1>9, <1>10 DEF Board!Enter
<1> QED BY <1>3, <1>11 DEF Board!Next

\* An arrived score is a model's, or the value a recruiter's override keeps.
LEMMA ScoresOnBoard ==
    ASSUME Inv, NEW t \in Tasks, WriteScore(t) \/ WriteRescore(t) \/ ForgetScore(t)
    PROVE  Board!Next \/ UNCHANGED Board!board
<1>1. PICK c : c = task[t].c
  OBVIOUS
<1>2. /\ task[t].pc \in {"score", "rescore"} /\ HasRow(c) /\ UNCHANGED <<app, job>>
      /\ \/ cand' = [cand EXCEPT ![c].score = Headline(c)]
         \/ cand' = [cand EXCEPT ![c].score = "none"]
  BY <1>1 DEF WriteScore, WriteRescore, ForgetScore
<1>3. c \in Candidates /\ cand[c] \in CandidateRecord
  BY <1>1, <1>2, BusyTask DEF Inv, TableInv, TableTypes
<1>4. ASSUME NEW v, cand' = [cand EXCEPT ![c].score = v]
      PROVE  cand' = [cand EXCEPT ![c].score = v, ![c].over = cand[c].over]
  BY <1>3, <1>4 DEF CandidateRecord, Inv, TableInv, TableTypes
<1>5. CASE cand' = [cand EXCEPT ![c].score = "none"]
  BY <1>2, <1>3, <1>4, <1>5, RatingOnBoard DEF CandidateRecord, Board!Next
<1>6. CASE cand' = [cand EXCEPT ![c].score = Headline(c)] /\ ~cand[c].over
  <2>1. Headline(c) = "ai"
    BY <1>6 DEF Headline
  <2>2. Board!Rate(c)
    BY <1>2, <1>3, <1>4, <1>6, <2>1, RatingOnBoard DEF CandidateRecord
  <2> QED BY <1>3, <2>2 DEF Board!Next
<1>7. CASE cand' = [cand EXCEPT ![c].score = Headline(c)] /\ cand[c].over
  <2>1. Headline(c) = cand[c].score
    BY <1>7 DEF Headline
  <2>2. cand' = cand
    BY <1>3, <1>7, <2>1 DEF CandidateRecord, Inv, TableInv, TableTypes
  <2> QED BY <1>2, <2>2, SameTablesShowNothing
<1> QED BY <1>2, <1>3, <1>5, <1>6, <1>7

LEMMA GoesOnOnBoard ==
    ASSUME Inv, NEW t \in Tasks, GoesOn(t)
    PROVE  Board!Next \/ UNCHANGED Board!board
<1>1. CASE UNCHANGED <<cand, app, job>>
  BY <1>1, SameTablesShowNothing
<1>2. CASE WriteScore(t) \/ WriteRescore(t) \/ ForgetScore(t)
  BY <1>2, ScoresOnBoard
<1>3. CASE \/ UpsertApplication(t) \/ PointAtJob(t) \/ CommitCreate(t) \/ Enrich(t)
           \/ \E override \in BOOLEAN : CommitUpdate(t, override) \/ CommitAssignment(t, override)
  BY <1>3, UpsertOnBoard, PointAtJobOnBoard, CommitCreateOnBoard, EnrichOnBoard,
     WriteAssignmentOnBoard
<1>4. CASE CommitMove(t)
  BY <1>4, CommitMoveOnBoard
<1> QED
  BY <1>1, <1>2, <1>3, <1>4 DEF GoesOn, Advance, CreateSummary, PlaceInitially, Return, Crash,
                                tables

LEMMA DeleteJobOnBoard ==
    ASSUME Inv, NEW j \in Jobs, DeleteJob(j)
    PROVE  UNCHANGED Board!board
<1>1. Exists(j) /\ job' = [job EXCEPT ![j].status = "closed"] /\ UNCHANGED <<cand, app>>
  BY DEF DeleteJob
<1>2. \A k \in Jobs : Exists(k)' <=> Exists(k)
  BY <1>1 DEF Exists, Inv, TableInv, TableTypes, JobRecord
<1>3. LiveJobs' = LiveJobs
  BY <1>2 DEF LiveJobs
<1> QED BY <1>1, <1>3, ShowsNothing DEF StatusOf, JobOf, ScoreOf, Overridden, Applications

LEMMA HardDeleteJobOnBoard ==
    ASSUME Inv, NEW j \in Jobs, HardDeleteJob(j)
    PROVE  Board!Remove(j)
<1>1. /\ Exists(j) /\ job' = [job EXCEPT ![j].status = "gone"]
      /\ cand' = [c \in Candidates |->
            [cand[c] EXCEPT !.job = IF @ = j THEN None ELSE @, !.stage = Nulled(@, j)]]
      /\ app' = [x \in Candidates \X Jobs |-> IF x[2] = j THEN Absent ELSE Nulled(app[x], j)]
  BY DEF HardDeleteJob
<1>2. ASSUME NEW c \in Candidates
      PROVE  /\ cand'[c].job = IF cand[c].job = j THEN None ELSE cand[c].job
             /\ cand'[c].status = cand[c].status
             /\ cand'[c].score = cand[c].score /\ cand'[c].over = cand[c].over
  <2>1. cand[c] \in CandidateRecord
    BY DEF Inv, TableInv, TableTypes
  <2> QED BY <2>1, <1>1 DEF CandidateRecord
<1>3. UNCHANGED <<StatusOf, ScoreOf, Overridden>>
  BY <1>2 DEF StatusOf, ScoreOf, Overridden
<1>4. JobOf' = [c \in Candidates |-> IF JobOf[c] = j THEN None ELSE JobOf[c]]
  BY <1>2 DEF JobOf
<1>5. Applications' = Applications \ (Candidates \X {j})
  <2>1. ASSUME NEW x \in Candidates \X Jobs
        PROVE  (app'[x] # Absent) <=> (app[x] # Absent /\ x[2] # j)
    <3>1. app[x] \in Stages \cup {None, Absent}
      BY DEF Inv, TableInv, TableTypes
    <3>2. app'[x] = IF x[2] = j THEN Absent ELSE Nulled(app[x], j)
      BY <1>1
    <3>3. app[x] # Absent => Nulled(app[x], j) # Absent
      BY <3>1, NullAssumption DEF Nulled
    <3>4. app[x] = Absent => Nulled(app[x], j) = Absent
      BY NullAssumption DEF Nulled
    <3> QED BY <3>2, <3>3, <3>4
  <2> DEFINE P == Candidates \X {j}
  <2>2. \A x \in Candidates \X Jobs : x \in P <=> x[2] = j
    OBVIOUS
  <2> HIDE DEF P
  <2>3. Applications' = Applications \ P
    BY <2>1, <2>2 DEF Applications
  <2> QED BY <2>3 DEF P
<1>6. LiveJobs' = LiveJobs \ {j} /\ j \in LiveJobs
  <2>1. \A k \in Jobs : Exists(k)' <=> (Exists(k) /\ k # j)
    BY <1>1 DEF Exists, Inv, TableInv, TableTypes, JobRecord
  <2> QED BY <1>1, <2>1 DEF LiveJobs
<1> QED BY <1>3, <1>4, <1>5, <1>6 DEF Board!Remove

\* The first stage an edit inserts.
LEMMA InsertedStage ==
    ASSUME TableTypes, NEW j \in Jobs, job[j].gen < MaxEdits
    PROVE  [job |-> j, gen |-> job[j].gen + 1, order |-> 1] \in Stages
<1>1. PICK h, m : h = job[j].gen /\ m = MaxEdits
  OBVIOUS
<1>2. h \in 0 .. m /\ h \in Int /\ m \in Int /\ h < m
  BY <1>1, GenIsInt, BoundsAssumption
<1>3. h + 1 \in 0 .. m /\ 1 \in Orders
  BY <1>2, BoundsAssumption DEF Orders
<1> QED BY <1>1, <1>3 DEF Stages

LEMMA UpdateJobOnBoard ==
    ASSUME Inv, NEW j \in Jobs, NEW status \in {"open", "closed"},
           NEW enabled \in SUBSET Orders, UpdateJob(j, status, enabled)
    PROVE  Board!Edit(j)
<1>1. PICK first : first = [job |-> j, gen |-> job[j].gen + 1, order |-> 1]
  OBVIOUS
<1> DEFINE attached(c) == HasRow(c) /\ cand[c].job \in {None, j} /\ Applied(c, j)
           detached(c) == cand[c].job = j /\ ~Applied(c, j)
<1>2. /\ Exists(j) /\ job[j].gen < MaxEdits
      /\ job' = [job EXCEPT ![j] = [status |-> status, gen |-> job[j].gen + 1,
                                    enabled |-> enabled]]
      /\ cand' = [c \in Candidates |->
                    IF attached(c) THEN [cand[c] EXCEPT !.job = j, !.stage = first]
                    ELSE [cand[c] EXCEPT !.job = IF detached(c) THEN None ELSE @,
                                         !.stage = IF detached(c) THEN None ELSE Nulled(@, j)]]
      /\ app' = [x \in Candidates \X Jobs |->
                    IF x[2] = j /\ app[x] # Absent THEN first ELSE Nulled(app[x], j)]
  BY <1>1 DEF UpdateJob
<1>3. ASSUME NEW c \in Candidates
      PROVE  /\ cand'[c].job = IF cand[c].job = None /\ Applied(c, j) THEN j ELSE cand[c].job
             /\ cand'[c].status = cand[c].status
             /\ cand'[c].score = cand[c].score /\ cand'[c].over = cand[c].over
  <2>1. cand[c] \in CandidateRecord
    BY DEF Inv, TableInv, TableTypes
  <2>2. ~detached(c) /\ (Applied(c, j) => HasRow(c))
    BY NullAssumption DEF Inv, TableInv, References, AssignedHasApplication
  <2> HIDE DEF attached, detached
  <2>3. CASE attached(c)
    <3>1. cand'[c] = [cand[c] EXCEPT !.job = j, !.stage = first]
      BY <1>2, <2>3
    <3>2. Applied(c, j) /\ cand[c].job \in {None, j}
      BY <2>3 DEF attached
    <3> QED BY <2>1, <3>1, <3>2 DEF CandidateRecord
  <2>4. CASE ~attached(c)
    <3>1. cand'[c] = [cand[c] EXCEPT !.job = @, !.stage = Nulled(@, j)]
      BY <1>2, <2>2, <2>4 DEF CandidateRecord
    <3>2. ~(cand[c].job = None /\ Applied(c, j))
      BY <2>2, <2>4 DEF attached
    <3> QED BY <2>1, <3>1, <3>2 DEF CandidateRecord
  <2> QED BY <2>3, <2>4
<1>4. UNCHANGED <<StatusOf, ScoreOf, Overridden>>
  BY <1>3 DEF StatusOf, ScoreOf, Overridden
<1>5. JobOf' = [c \in Candidates |->
                  IF JobOf[c] = None /\ <<c, j>> \in Applications THEN j ELSE JobOf[c]]
  BY <1>3 DEF JobOf, Applications, Applied
<1>6. Applications' = Applications
  <2>1. ASSUME NEW x \in Candidates \X Jobs PROVE (app'[x] # Absent) <=> (app[x] # Absent)
    <3>1. app[x] \in Stages \cup {None, Absent} /\ first # Absent
      BY <1>1, <1>2, NullAssumption, InsertedStage DEF Inv, TableInv, TableTypes
    <3>2. app'[x] = IF x[2] = j /\ app[x] # Absent THEN first ELSE Nulled(app[x], j)
      BY <1>2
    <3>3. app[x] # Absent => Nulled(app[x], j) # Absent
      BY <3>1, NullAssumption DEF Nulled
    <3>4. app[x] = Absent => Nulled(app[x], j) = Absent
      BY NullAssumption DEF Nulled
    <3> QED BY <3>1, <3>2, <3>3, <3>4
  <2> QED BY <2>1 DEF Applications
<1>7. LiveJobs' = LiveJobs /\ j \in LiveJobs
  <2>1. \A k \in Jobs : Exists(k)' <=> Exists(k)
    BY <1>2 DEF Exists, Inv, TableInv, TableTypes, JobRecord
  <2> QED BY <1>2, <2>1 DEF LiveJobs
<1> QED BY <1>4, <1>5, <1>6, <1>7 DEF Board!Edit

LEMMA InitOnBoard == Init => Board!Init
<1> SUFFICES ASSUME Init PROVE Board!Init
  OBVIOUS
<1>1. \A c \in Candidates : cand[c] = NoCandidate
  BY DEF Init
<1>2. /\ StatusOf = [c \in Candidates |-> "none"] /\ JobOf = [c \in Candidates |-> None]
      /\ ScoreOf = [c \in Candidates |-> "none"] /\ Overridden = {}
  BY <1>1 DEF StatusOf, JobOf, ScoreOf, Overridden, NoCandidate
<1>3. Applications = {}
  BY DEF Init, Applications
<1>4. LiveJobs = Jobs
  BY DEF Init, LiveJobs, Exists
<1> QED BY <1>2, <1>3, <1>4 DEF Board!Init

LEMMA NextOnBoard == Inv /\ [Next]_vars => [Board!Next]_(Board!board)
<1> SUFFICES ASSUME Inv, [Next]_vars PROVE Board!Next \/ UNCHANGED Board!board
  OBVIOUS
<1>1. ASSUME NEW t \in Tasks, Begins(t) \/ GoesOn(t)
      PROVE  Board!Next \/ UNCHANGED Board!board
  BY <1>1, BeginsOnBoard, GoesOnOnBoard
<1>2. ASSUME NEW c \in Candidates, AtOnce(c) PROVE Board!Next
  BY <1>2, AtOnceOnBoard
<1>3. ASSUME NEW j \in Jobs, EditsJob(j) PROVE Board!Next \/ UNCHANGED Board!board
  <2>1. CASE DeleteJob(j)
    BY <2>1, DeleteJobOnBoard
  <2>2. CASE HardDeleteJob(j)
    BY <2>2, HardDeleteJobOnBoard DEF Board!Next
  <2>3. CASE \E status \in {"open", "closed"}, enabled \in SUBSET Orders :
                UpdateJob(j, status, enabled)
    BY <2>3, UpdateJobOnBoard DEF Board!Next
  <2> QED BY <1>3, <2>1, <2>2, <2>3 DEF EditsJob
<1>4. CASE UNCHANGED vars
  BY <1>4, SameTablesShowNothing DEF vars, tables
<1> QED BY <1>1, <1>2, <1>3, <1>4 DEF Next

\* Requests and worker jobs that commit what they read long ago, in any interleaving and with
\* any number of candidates, jobs and edits, change what the board shows only by the steps of
\* CandidateBoard: StagePipeline implements it.
THEOREM ImplementsBoard == Spec => KeepsBoard
BY InitOnBoard, NextOnBoard, InvIsInvariant, PTL DEF Spec, Board!Spec, KeepsBoard

==============================================================================
