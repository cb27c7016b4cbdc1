-------------------------- MODULE EmailIntakeProofs --------------------------
(***************************************************************************)
(* What holds of EmailIntake for every number of messages, requests,       *)
(* operators, attempts and faults.                                         *)
(***************************************************************************)
EXTENDS EmailIntake, TLAPS

\* A slot in the middle of a job knows the job and, once Phase 6 is over, the candidate.
SlotKnows(s) ==
    /\ s.pc # "idle" => s.job \in Jobs
    /\ s.seen \in people \cup {None}
    /\ s.pc \in {"match", "place", "score", "complete"} => s.seen \in people
    /\ s.pc = "score" => s.seen \in placed

WorkInv  == \A w \in Workers : SlotKnows(slot[w])
CallInv  == /\ \A q \in Requests : req[q].pc # "idle" => req[q].m \in Messages
            /\ \A a \in Admins : adm[a].pc = "add" => adm[a].m \in Messages
OwnerInv == \A m \in Messages : owner[m] \in people \cup {None}

TypeInv == /\ RowOK /\ CacheOK /\ PeopleOK /\ gate \in BOOLEAN
           /\ QueueOK /\ WorkOK /\ MailOK /\ CallsOK
           /\ WorkInv /\ CallInv /\ OwnerInv

LEMMA ZeroIsAKey == 0 \in JobKeys
BY BoundsAssumption DEF JobKeys

LEMMA TypeInit == Init => TypeInv
<1> SUFFICES ASSUME Init PROVE TypeInv
    OBVIOUS
<1>1. RowOK /\ CacheOK /\ PeopleOK /\ gate \in BOOLEAN /\ OwnerInv
      BY DEF Init, RowOK, CacheOK, PeopleOK, OwnerInv, Status
<1>2. QueueOK
      BY ZeroIsAKey DEF Init, QueueOK, JobRecord, NoJob
<1>3. WorkOK /\ WorkInv
      BY BoundsAssumption DEF Init, WorkOK, WorkInv, SlotKnows, SlotRecord, Free, Phases
<1>4. MailOK
      BY BoundsAssumption DEF Init, MailOK
<1>5. CallsOK /\ CallInv
      BY ZeroIsAKey DEF Init, CallsOK, CallInv, ReqRecord, AdmRecord, IdleReq, IdleAdm
<1>6. QED
      BY <1>1, <1>2, <1>3, <1>4, <1>5 DEF TypeInv

\* A slot that is done with its message keeps the job and the lock, and nothing else.
LEMMA Leaving ==
    ASSUME WorkOK, WorkInv, UNCHANGED <<stops, people, placed>>,
           NEW w \in Workers, slot[w].pc # "idle",
           NEW pc \in {"return", "throw"}, Leave(w, pc)
    PROVE  WorkOK' /\ WorkInv'
<1> DEFINE s == [Free EXCEPT !.pc = pc, !.job = slot[w].job, !.locked = slot[w].locked]
<1>1. s \in SlotRecord /\ SlotKnows(s)
      BY DEF Free, SlotRecord, SlotKnows, Phases, WorkOK, WorkInv
<1>2. slot' = [slot EXCEPT ![w] = s]
      BY DEF Leave
<1>3. WorkOK'
      BY <1>1, <1>2 DEF WorkOK
<1>4. WorkInv'
      BY <1>1, <1>2 DEF WorkInv, WorkOK, SlotKnows
<1>5. QED
      BY <1>3, <1>4

\* A slot that goes on to its next phase keeps everything it knows.
LEMMA Going ==
    ASSUME WorkOK, WorkInv, UNCHANGED <<stops, people, placed>>,
           NEW w \in Workers, slot[w].pc # "idle",
           NEW pc \in RunPhases, Goto(w, pc),
           pc \in {"match", "place", "score", "complete"} => slot[w].seen \in people,
           pc # "score"
    PROVE  WorkOK' /\ WorkInv'
<1> DEFINE s == [slot[w] EXCEPT !.pc = pc]
<1>1. s \in SlotRecord /\ SlotKnows(s)
      BY DEF SlotRecord, SlotKnows, Phases, RunPhases, WorkOK, WorkInv
<1>2. slot' = [slot EXCEPT ![w] = s]
      BY DEF Goto
<1>3. WorkOK'
      BY <1>1, <1>2 DEF WorkOK
<1>4. WorkInv'
      BY <1>1, <1>2 DEF WorkInv, WorkOK, SlotKnows
<1>5. QED
      BY <1>3, <1>4

\* A slot that throws forgets what it knew, but not its job.
LEMMA Throwing ==
    ASSUME WorkOK, WorkInv, UNCHANGED <<stops, people, placed>>,
           NEW w \in Workers, slot[w].pc # "idle",
           NEW kind \in {"upstream", "other"}, Throw(w, kind)
    PROVE  WorkOK' /\ WorkInv'
<1> DEFINE s == [slot[w] EXCEPT !.pc = "catch", !.err = kind, !.seen = None, !.hit = None]
<1>1. s \in SlotRecord /\ SlotKnows(s)
      BY DEF SlotRecord, SlotKnows, Phases, WorkOK, WorkInv
<1>2. slot' = [slot EXCEPT ![w] = s]
      BY DEF Throw
<1>3. WorkOK'
      BY <1>1, <1>2 DEF WorkOK
<1>4. WorkInv'
      BY <1>1, <1>2 DEF WorkInv, WorkOK, SlotKnows
<1>5. QED
      BY <1>3, <1>4

LEMMA TypeStep == TypeInv /\ [Next]_vars => TypeInv'
<1> SUFFICES ASSUME TypeInv, [Next]_vars PROVE TypeInv'
    OBVIOUS
<1> USE DEF TypeInv
<1>1. ASSUME NEW q \in Requests, NEW m \in Messages, Deliver(q, m)
      PROVE  TypeInv'
  <2>1. MailOK'
        BY <1>1, BoundsAssumption DEF Deliver, MayDeliver, Answer200, MailOK, mailVars
  <2>2. CallsOK' /\ CallInv'
    <3>1. PICK r \in ReqRecord : /\ r.pc # "idle" => r.m \in Messages
                                 /\ req' = [req EXCEPT ![q] = r]
          BY <1>1, ZeroIsAKey DEF Deliver, Answer200, ReqRecord, IdleReq
    <3>2. UNCHANGED adm
          BY <1>1 DEF Deliver
    <3>3. QED
          BY <3>1, <3>2 DEF CallsOK, CallInv
  <2>3. QED
        BY <1>1, <2>1, <2>2 DEF Deliver, RowOK, CacheOK, PeopleOK, QueueOK,
              WorkOK, WorkInv, OwnerInv, SlotKnows, rowVars, cacheVars, peopleVars,
              queueVars, workVars
<1>2. ASSUME NEW q \in Requests, CreateRow(q)
      PROVE  TypeInv'
  <2>1. RowOK'
        BY <1>2 DEF CreateRow, Status, RowOK, rowVars
  <2>2. CallsOK'
        BY <1>2 DEF CreateRow, ReqRecord, CallsOK
  <2>3. CallInv'
        BY <1>2 DEF CreateRow, CallsOK, ReqRecord, CallInv
  <2>4. QED
        BY <1>2, <2>1, <2>2, <2>3 DEF CreateRow, CacheOK, PeopleOK, QueueOK, WorkOK,
              MailOK, WorkInv, OwnerInv, SlotKnows, cacheVars, peopleVars, queueVars,
              workVars, mailVars, rowVars
<1>3. ASSUME NEW q \in Requests, EnsureEnqueued(q)
      PROVE  TypeInv'
  <2>1. QueueOK'
        BY <1>3, BoundsAssumption DEF EnsureEnqueued, JobKeys, CallInv, QueueOK,
              queueVars
  <2>2. MailOK'
        BY <1>3 DEF EnsureEnqueued, Answer200, CallInv, MailOK, mailVars
  <2>3. CallsOK'
        BY <1>3, BoundsAssumption DEF EnsureEnqueued, Answer200, ReqRecord, IdleReq,
              JobKeys, QueueOK, CallInv, CallsOK
  <2>4. CallInv'
        BY <1>3 DEF EnsureEnqueued, Answer200, IdleReq, CallsOK, ReqRecord, CallInv
  <2>5. QED
        BY <1>3, <2>1, <2>2, <2>3, <2>4 DEF EnsureEnqueued, RowOK, CacheOK, PeopleOK,
              WorkOK, WorkInv, OwnerInv, SlotKnows, rowVars, cacheVars, peopleVars,
              workVars
<1>4. ASSUME NEW q \in Requests, ActOnQueue(q)
      PROVE  TypeInv'
  <2>1. QueueOK'
        BY <1>4 DEF ActOnQueue, Enqueued, NewJob, NoJob, JobRecord, QueueOK, queueVars
  <2>2. MailOK'
        BY <1>4 DEF ActOnQueue, Answer200, MailOK, mailVars
  <2>3. CallsOK'
        BY <1>4, ZeroIsAKey DEF ActOnQueue, Answer200, ReqRecord, IdleReq, CallsOK
  <2>4. CallInv'
        BY <1>4 DEF ActOnQueue, Answer200, IdleReq, CallsOK, ReqRecord, CallInv
  <2>5. QED
        BY <1>4, <2>1, <2>2, <2>3, <2>4 DEF ActOnQueue, RowOK, CacheOK, PeopleOK,
              WorkOK, WorkInv, OwnerInv, SlotKnows, rowVars, cacheVars, peopleVars,
              workVars
<1>5. ASSUME NEW m \in Messages, RecordRejected(m)
      PROVE  TypeInv'
  <2>1. RowOK'
        BY <1>5 DEF RecordRejected, Status, RowOK, rowVars
  <2>2. MailOK'
        BY <1>5, BoundsAssumption DEF RecordRejected, MayDeliver, MailOK, mailVars
  <2>3. QED
        BY <1>5, <2>1, <2>2 DEF RecordRejected, CacheOK, PeopleOK, QueueOK, WorkOK,
              CallsOK, WorkInv, CallInv, OwnerInv, SlotKnows, cacheVars, peopleVars,
              queueVars, workVars, rowVars
<1>6. ASSUME NEW w \in Workers, NEW j \in Jobs, Take(w, j)
      PROVE  TypeInv'
  <2>1. QueueOK'
        BY <1>6 DEF Take, JobRecord, QueueOK, queueVars
  <2>2. WorkOK'
    <3>1. queue[j].made + 1 \in Nat
          BY DEF QueueOK, JobRecord
    <3>2. PICK s \in SlotRecord : slot' = [slot EXCEPT ![w] = s]
          BY <1>6, <3>1 DEF Take, Free, SlotRecord, Phases, RunPhases
    <3>3. QED
          BY <1>6, <3>2 DEF Take, WorkOK
  <2>3. WorkInv'
        BY <1>6 DEF Take, Free, WorkOK, SlotKnows, WorkInv, workVars, peopleVars
  <2>4. QED
        BY <1>6, <2>1, <2>2, <2>3 DEF Take, RowOK, CacheOK, PeopleOK, MailOK, CallsOK,
              CallInv, OwnerInv, rowVars, cacheVars, peopleVars, mailVars
<1>7. ASSUME NEW w \in Workers, ReadIntake(w)
      PROVE  TypeInv'
  <2>1. Msg(w) \in Messages
        BY <1>7 DEF ReadIntake, WorkInv, SlotKnows, Msg, Jobs
  <2>2. CASE Leave(w, "return")
    <3>1. WorkOK' /\ WorkInv'
          BY <1>7, <2>2, Leaving DEF ReadIntake, peopleVars
    <3>2. QED
          BY <1>7, <3>1 DEF ReadIntake, RowOK, CacheOK, PeopleOK, QueueOK, MailOK, CallsOK,
                CallInv, OwnerInv, rowVars, cacheVars, peopleVars, queueVars, mailVars
  <2>3. CASE slot' = [slot EXCEPT ![w].pc = "mark", ![w].seen = owner[Msg(w)]]
    <3>1. PICK s \in SlotRecord : SlotKnows(s) /\ slot' = [slot EXCEPT ![w] = s]
      <4>1. owner[Msg(w)] \in people \cup {None} /\ owner[Msg(w)] \in Candidates \cup {None}
            BY <2>1 DEF OwnerInv, RowOK
      <4>2. LET s == [slot[w] EXCEPT !.pc = "mark", !.seen = owner[Msg(w)]]
            IN  s \in SlotRecord /\ SlotKnows(s) /\ slot' = [slot EXCEPT ![w] = s]
            BY <1>7, <2>3, <4>1 DEF ReadIntake, WorkOK, WorkInv, SlotRecord, SlotKnows, Phases
      <4>3. QED
            BY <4>2
    <3>2. WorkOK' /\ WorkInv'
          BY <1>7, <3>1 DEF ReadIntake, WorkOK, WorkInv, SlotKnows, peopleVars
    <3>3. QED
          BY <1>7, <3>2 DEF ReadIntake, RowOK, CacheOK, PeopleOK, QueueOK, MailOK, CallsOK,
                CallInv, OwnerInv, rowVars, cacheVars, peopleVars, queueVars, mailVars
  <2>4. QED
        BY <1>7, <2>2, <2>3 DEF ReadIntake
<1>8. ASSUME NEW w \in Workers, MarkProcessing(w)
      PROVE  TypeInv'
  <2>1. Msg(w) \in Messages
        BY <1>8 DEF MarkProcessing, WorkInv, SlotKnows, Msg,
              Jobs
  <2>2. RowOK'
        BY <1>8, <2>1 DEF MarkProcessing, Status, RowOK, rowVars
  <2>3. WorkOK'
        BY <1>8, <2>1 DEF MarkProcessing, Goto, SlotRecord, Phases, RunPhases, WorkOK,
              workVars
  <2>4. WorkInv'
        BY <1>8, <2>1 DEF MarkProcessing, Goto, WorkOK, SlotRecord, SlotKnows, WorkInv,
              workVars, peopleVars
  <2>5. QED
        BY <1>8, <2>2, <2>3, <2>4 DEF MarkProcessing, CacheOK, PeopleOK, QueueOK,
              MailOK, CallsOK, CallInv, OwnerInv, cacheVars, peopleVars, queueVars,
              mailVars, rowVars
<1>9. ASSUME NEW w \in Workers, ReadOrMarkFails(w)
      PROVE  TypeInv'
  <2>1. WorkOK'
        BY <1>9 DEF ReadOrMarkFails, Leave, Free, SlotRecord, Phases, RunPhases, WorkOK,
              workVars
  <2>2. WorkInv'
        BY <1>9 DEF ReadOrMarkFails, Leave, Free, WorkOK, SlotRecord, SlotKnows,
              WorkInv, workVars, peopleVars
  <2>3. QED
        BY <1>9, <2>1, <2>2 DEF ReadOrMarkFails, RowOK, CacheOK, PeopleOK, QueueOK,
              MailOK, CallsOK, CallInv, OwnerInv, rowVars, cacheVars, peopleVars,
              queueVars, mailVars
<1>10. ASSUME NEW w \in Workers, NEW kind \in {"upstream", "other"}, PhaseThrows(w, kind)
      PROVE  TypeInv'
  <2>1. slot[w].pc # "idle" /\ UNCHANGED <<stops, people, placed>>
        BY <1>10 DEF PhaseThrows, RunPhases, peopleVars
  <2>2. WorkOK' /\ WorkInv'
        BY <1>10, <2>1, Throwing DEF PhaseThrows
  <2>3. QED
        BY <1>10, <2>2 DEF PhaseThrows, RowOK, CacheOK, PeopleOK, QueueOK, MailOK,
              CallsOK, CallInv, OwnerInv, rowVars, cacheVars, peopleVars, queueVars,
              mailVars
<1>11. ASSUME NEW w \in Workers, Catch(w)
      PROVE  TypeInv'
  <2>1. Msg(w) \in Messages
        BY <1>11 DEF Catch, WorkInv, SlotKnows, Msg, Jobs
  <2>2. RowOK'
        BY <1>11, <2>1 DEF Catch, WriteOrSwallow, Status, RowOK, rowVars
  <2>3. WorkOK' /\ WorkInv'
    <3>1. slot[w].pc # "idle" /\ UNCHANGED <<stops, people, placed>>
          BY <1>11 DEF Catch, peopleVars
    <3>2. PICK pc \in {"return", "throw"} : Leave(w, pc)
          BY <1>11 DEF Catch
    <3>3. QED
          BY <3>1, <3>2, Leaving
  <2>4. QED
        BY <1>11, <2>2, <2>3 DEF Catch, CacheOK, PeopleOK, QueueOK, MailOK,
              CallsOK, CallInv, OwnerInv, cacheVars, peopleVars, queueVars, mailVars,
              rowVars
<1>12. ASSUME NEW w \in Workers, JobReturns(w)
      PROVE  TypeInv'
  <2>1. QueueOK'
        BY <1>12 DEF JobReturns, JobOf, JobRecord, WorkInv, SlotKnows, QueueOK,
              queueVars
  <2>2. WorkOK'
        BY <1>12 DEF JobReturns, Free, SlotRecord, Phases, RunPhases, WorkOK, workVars
  <2>3. WorkInv'
        BY <1>12 DEF JobReturns, Free, WorkOK, SlotKnows, WorkInv, workVars, peopleVars
  <2>4. QED
        BY <1>12, <2>1, <2>2, <2>3 DEF JobReturns, RowOK, CacheOK, PeopleOK, MailOK,
              CallsOK, CallInv, OwnerInv, rowVars, cacheVars, peopleVars, mailVars
<1>13. ASSUME NEW w \in Workers, JobThrows(w)
      PROVE  TypeInv'
  <2>1. QueueOK'
        BY <1>13 DEF JobThrows, JobOf, JobRecord, WorkInv, SlotKnows, QueueOK, queueVars
  <2>2. WorkOK'
        BY <1>13 DEF JobThrows, Free, SlotRecord, Phases, RunPhases, WorkOK, workVars
  <2>3. WorkInv'
        BY <1>13 DEF JobThrows, Free, WorkOK, SlotKnows, WorkInv, workVars, peopleVars
  <2>4. QED
        BY <1>13, <2>1, <2>2, <2>3 DEF JobThrows, RowOK, CacheOK, PeopleOK, MailOK,
              CallsOK, CallInv, OwnerInv, rowVars, cacheVars, peopleVars, mailVars
<1>14. ASSUME NEW j \in Jobs, StalledCheck(j)
      PROVE  TypeInv'
  <2>1. QueueOK'
        BY <1>14 DEF StalledCheck, JobRecord, QueueOK, queueVars
  <2>2. QED
        BY <1>14, <2>1 DEF StalledCheck, RowOK, CacheOK, PeopleOK, WorkOK, MailOK,
              CallsOK, WorkInv, CallInv, OwnerInv, SlotKnows, rowVars, cacheVars,
              peopleVars, workVars, mailVars
<1>15. ASSUME NEW e \in events, OnFailed(e)
      PROVE  TypeInv'
  <2>1. RowOK'
        BY <1>15 DEF OnFailed, Status, QueueOK, Jobs, RowOK, rowVars
  <2>2. QueueOK'
        BY <1>15 DEF OnFailed, QueueOK, queueVars
  <2>3. QED
        BY <1>15, <2>1, <2>2 DEF OnFailed, CacheOK, PeopleOK, WorkOK, MailOK, CallsOK,
              WorkInv, CallInv, OwnerInv, SlotKnows, cacheVars, peopleVars, workVars,
              mailVars, rowVars
<1>16. ASSUME NEW w \in Workers, LockExpires(w)
      PROVE  TypeInv'
  <2>1. WorkOK'
    <3>1. slot' \in [Workers -> SlotRecord]
          BY <1>16 DEF LockExpires, WorkOK, SlotRecord
    <3>2. stops' \in 0 .. MaxStops
          BY <1>16, BoundsAssumption DEF LockExpires, WorkOK
    <3>3. QED
          BY <3>1, <3>2 DEF WorkOK
  <2>2. WorkInv'
        BY <1>16 DEF LockExpires, WorkOK, SlotRecord, SlotKnows, WorkInv, workVars,
              peopleVars
  <2>3. QED
        BY <1>16, <2>1, <2>2 DEF LockExpires, RowOK, CacheOK, PeopleOK, QueueOK, MailOK,
              CallsOK, CallInv, OwnerInv, rowVars, cacheVars, peopleVars, queueVars,
              mailVars
<1>17. ASSUME WorkerCrash
      PROVE  TypeInv'
  <2>1. QueueOK'
        BY <1>17 DEF WorkerCrash, QueueOK, queueVars
  <2>2. WorkOK'
        BY <1>17, BoundsAssumption DEF WorkerCrash, Free, SlotRecord, Phases, RunPhases,
              WorkOK, workVars
  <2>3. WorkInv'
        BY <1>17 DEF WorkerCrash, Free, SlotKnows, WorkInv, workVars, peopleVars
  <2>4. QED
        BY <1>17, <2>1, <2>2, <2>3 DEF WorkerCrash, RowOK, CacheOK, PeopleOK, MailOK,
              CallsOK, CallInv, OwnerInv, rowVars, cacheVars, peopleVars, mailVars
<1>18. ASSUME NEW w \in Workers, SpamAndGate(w)
      PROVE  TypeInv'
  <2>1. Msg(w) \in Messages
        BY <1>18 DEF SpamAndGate, WorkInv, SlotKnows, Msg, Jobs
  <2>2. RowOK'
        BY <1>18, <2>1 DEF SpamAndGate, Finish, Status, RowOK, rowVars
  <2>3. WorkOK' /\ WorkInv'
    <3>1. slot[w].pc # "idle" /\ UNCHANGED <<stops, people, placed>>
          BY <1>18 DEF SpamAndGate, peopleVars
    <3>2. CASE Leave(w, "return")
          BY <3>1, <3>2, Leaving
    <3>3. ASSUME NEW kind \in {"upstream", "other"}, Throw(w, kind)
          PROVE  WorkOK' /\ WorkInv'
          BY <3>1, <3>3, Throwing
    <3>4. CASE Goto(w, "classify")
          BY <3>1, <3>4, Going DEF RunPhases
    <3>5. QED
          BY <1>18, <3>2, <3>3, <3>4 DEF SpamAndGate, Finish
  <2>5. QED
        BY <1>18, <2>2, <2>3 DEF SpamAndGate, CacheOK, PeopleOK, QueueOK, MailOK,
              CallsOK, CallInv, OwnerInv, cacheVars, peopleVars, queueVars, mailVars,
              rowVars
<1>19. ASSUME NEW w \in Workers, Classify(w)
      PROVE  TypeInv'
  <2>1. Msg(w) \in Messages
        BY <1>19 DEF Classify, WorkInv, SlotKnows, Msg, Jobs
  <2>2. RowOK'
        BY <1>19, <2>1 DEF Classify, Finish, Status, RowOK, rowVars
  <2>3. WorkOK' /\ WorkInv'
    <3>1. slot[w].pc # "idle" /\ UNCHANGED <<stops, people, placed>>
          BY <1>19 DEF Classify, peopleVars
    <3>2. CASE Leave(w, "return")
          BY <3>1, <3>2, Leaving
    <3>3. ASSUME NEW kind \in {"upstream", "other"}, Throw(w, kind)
          PROVE  WorkOK' /\ WorkInv'
          BY <3>1, <3>3, Throwing
    <3>4. CASE Goto(w, "identify")
          BY <3>1, <3>4, Going DEF RunPhases
    <3>5. QED
          BY <1>19, <3>2, <3>3, <3>4 DEF Classify, Finish
  <2>4. CacheOK'
        BY <1>19, <2>1 DEF Classify, Verdicts, CacheOrWarn, CacheOK
  <2>5. QED
        BY <1>19, <2>2, <2>3, <2>4 DEF Classify, CacheOK, PeopleOK, QueueOK, MailOK,
              CallsOK, CallInv, OwnerInv, cacheVars, peopleVars, queueVars, mailVars,
              rowVars
<1>20. ASSUME NEW w \in Workers, Identify(w)
      PROVE  TypeInv'
  <2>1. Msg(w) \in Messages
        BY <1>20 DEF Identify, WorkInv, SlotKnows, Msg, Jobs
  <2>2. RowOK'
        BY <1>20, <2>1 DEF Identify, RowOK, rowVars
  <2>3. PeopleOK'
        BY <1>20, <2>1 DEF Identify, SamePerson, PeopleOK, peopleVars
  <2>4. WorkOK'
        BY <1>20, <2>1 DEF Identify, Goto, SlotRecord, Phases, RunPhases, WorkOK,
              workVars
  <2>5. WorkInv'
        BY <1>20, <2>1 DEF Identify, Goto, SamePerson, WorkOK, SlotRecord, SlotKnows,
              WorkInv, workVars, peopleVars
  <2>6. OwnerInv'
        BY <1>20, <2>1 DEF Identify, SamePerson, RowOK, OwnerInv, rowVars, peopleVars
  <2>7. QED
        BY <1>20, <2>2, <2>3, <2>4, <2>5, <2>6 DEF Identify, CacheOK, QueueOK, MailOK,
              CallsOK, CallInv, cacheVars, queueVars, mailVars
<1>21. ASSUME NEW w \in Workers, Match(w)
      PROVE  TypeInv'
  <2>1. Msg(w) \in Messages
        BY <1>21 DEF Match, WorkInv, SlotKnows, Msg, Jobs
  <2>2. CacheOK'
        BY <1>21, <2>1 DEF Match, Targets, CacheOrWarn, CacheOK, cacheVars
  <2>3. WorkOK'
    <3>1. PICK t \in Targets(Msg(w), slot[w].seen) :
                slot' = [slot EXCEPT ![w] = [slot[w] EXCEPT !.pc = "place", !.hit = t]]
          BY <1>21 DEF Match
    <3>2. t \in {None, "job", "empty"}
          BY <3>1, <2>1 DEF Targets, CacheOK
    <3>3. [slot[w] EXCEPT !.pc = "place", !.hit = t] \in SlotRecord
          BY <3>2 DEF WorkOK, SlotRecord, Phases, RunPhases
    <3>4. QED
          BY <1>21, <3>1, <3>3 DEF Match, WorkOK
  <2>4. WorkInv'
        BY <1>21, <2>1 DEF Match, WorkOK, SlotRecord, SlotKnows, WorkInv, workVars,
              peopleVars
  <2>5. QED
        BY <1>21, <2>2, <2>3, <2>4 DEF Match, RowOK, PeopleOK, QueueOK, MailOK, CallsOK,
              CallInv, OwnerInv, rowVars, peopleVars, queueVars, mailVars
<1>22. ASSUME NEW w \in Workers, Place(w)
      PROVE  TypeInv'
  <2>1. PeopleOK'
        BY <1>22 DEF Place, WorkInv, SlotKnows, PeopleOK, peopleVars
  <2>2. WorkOK'
        BY <1>22 DEF Place, Goto, SlotRecord, Phases, RunPhases, WorkOK, workVars
  <2>3. WorkInv'
        BY <1>22 DEF Place, Goto, WorkOK, SlotRecord, SlotKnows, WorkInv, workVars,
              peopleVars
  <2>4. QED
        BY <1>22, <2>1, <2>2, <2>3 DEF Place, RowOK, CacheOK, QueueOK, MailOK, CallsOK,
              CallInv, OwnerInv, rowVars, cacheVars, queueVars, mailVars, peopleVars
<1>23. ASSUME NEW w \in Workers, Score(w)
      PROVE  TypeInv'
  <2>1. PeopleOK'
        BY <1>23 DEF Score, WorkInv, SlotKnows, PeopleOK, peopleVars
  <2>2. WorkOK'
        BY <1>23 DEF Score, Goto, SlotRecord, Phases, RunPhases, WorkOK, workVars
  <2>3. WorkInv'
        BY <1>23 DEF Score, Goto, WorkOK, SlotRecord, SlotKnows, WorkInv, workVars,
              peopleVars
  <2>4. QED
        BY <1>23, <2>1, <2>2, <2>3 DEF Score, RowOK, CacheOK, QueueOK, MailOK, CallsOK,
              CallInv, OwnerInv, rowVars, cacheVars, queueVars, mailVars, peopleVars
<1>24. ASSUME NEW w \in Workers, Complete(w)
      PROVE  TypeInv'
  <2>1. Msg(w) \in Messages
        BY <1>24 DEF Complete, WorkInv, SlotKnows, Msg, Jobs
  <2>2. RowOK'
        BY <1>24, <2>1 DEF Complete, Finish, Status, RowOK, rowVars
  <2>3. WorkOK' /\ WorkInv'
    <3>1. slot[w].pc # "idle" /\ UNCHANGED <<stops, people, placed>>
          BY <1>24 DEF Complete, peopleVars
    <3>2. CASE Leave(w, "return")
          BY <3>1, <3>2, Leaving
    <3>3. ASSUME NEW kind \in {"upstream", "other"}, Throw(w, kind)
          PROVE  WorkOK' /\ WorkInv'
          BY <3>1, <3>3, Throwing
    <3>5. QED
          BY <1>24, <3>2, <3>3 DEF Complete, Finish
  <2>5. QED
        BY <1>24, <2>2, <2>3 DEF Complete, CacheOK, PeopleOK, QueueOK, MailOK,
              CallsOK, CallInv, OwnerInv, cacheVars, peopleVars, queueVars, mailVars,
              rowVars
<1>25. ASSUME SetEnabled
      PROVE  TypeInv'
  <2>1. (gate \in BOOLEAN)'
        BY <1>25 DEF SetEnabled
  <2>2. QED
        BY <1>25, <2>1 DEF SetEnabled, RowOK, CacheOK, PeopleOK, QueueOK, WorkOK,
              MailOK, CallsOK, WorkInv, CallInv, OwnerInv, SlotKnows, rowVars,
              cacheVars, peopleVars, queueVars, workVars, mailVars
<1>26. ASSUME NEW a \in Admins, ReplayHeld(a)
      PROVE  TypeInv'
  <2>1. CallsOK'
        BY <1>26 DEF ReplayHeld, AdmRecord, CallsOK
  <2>2. CallInv'
        BY <1>26 DEF ReplayHeld, CallsOK, AdmRecord, CallInv
  <2>3. QED
        BY <1>26, <2>1, <2>2 DEF ReplayHeld, RowOK, CacheOK, PeopleOK, QueueOK, WorkOK,
              MailOK, WorkInv, OwnerInv, SlotKnows, rowVars, cacheVars, peopleVars,
              queueVars, workVars, mailVars
<1>27. ASSUME NEW a \in Admins, NEW m \in Messages, ReplayClaim(a, m)
      PROVE  TypeInv'
  <2>1. RowOK'
        BY <1>27 DEF ReplayClaim, Status, RowOK, rowVars
  <2>2. QueueOK'
        BY <1>27, BoundsAssumption DEF ReplayClaim, JobKeys, QueueOK, queueVars
  <2>3. CallsOK'
        BY <1>27, BoundsAssumption DEF ReplayClaim, AdmRecord, JobKeys, QueueOK, CallsOK
  <2>4. CallInv'
        BY <1>27 DEF ReplayClaim, CallsOK, AdmRecord, CallInv
  <2>5. QED
        BY <1>27, <2>1, <2>2, <2>3, <2>4 DEF ReplayClaim, CacheOK, PeopleOK, WorkOK,
              MailOK, WorkInv, OwnerInv, SlotKnows, cacheVars, peopleVars, workVars,
              mailVars, rowVars
<1>28. ASSUME NEW a \in Admins, ReplayAdd(a)
      PROVE  TypeInv'
  <2>1. adm[a].m \in Messages /\ <<adm[a].m, adm[a].key>> \in Jobs
        BY <1>28 DEF ReplayAdd, CallInv, CallsOK, AdmRecord, Jobs
  <2>2. RowOK'
        BY <1>28, <2>1 DEF ReplayAdd, Status, RowOK, rowVars
  <2>3. QueueOK'
    <3>1. Enqueued(<<adm[a].m, adm[a].key>>, "add") \in [Jobs -> JobRecord]
          BY <2>1 DEF Enqueued, NewJob, NoJob, JobRecord, QueueOK
    <3>2. queue' \in [Jobs -> JobRecord]
          BY <1>28, <3>1 DEF ReplayAdd, QueueOK
    <3>3. QED
          BY <1>28, <3>2 DEF ReplayAdd, QueueOK
  <2>4. CallsOK' /\ CallInv'
    <3>1. PICK r \in AdmRecord : r.pc # "add" /\ adm' = [adm EXCEPT ![a] = r]
      <4>1. [adm[a] EXCEPT !.pc = "claim", !.m = None, !.key = 0] \in AdmRecord
            BY ZeroIsAKey DEF AdmRecord, CallsOK
      <4>2. IdleAdm \in AdmRecord
            BY ZeroIsAKey DEF AdmRecord, IdleAdm
      <4>3. CASE adm' = [adm EXCEPT ![a].pc = "claim", ![a].m = None, ![a].key = 0]
            BY <4>1, <4>3 DEF AdmRecord, CallsOK
      <4>4. CASE adm' = [adm EXCEPT ![a] = IdleAdm]
            BY <4>2, <4>4 DEF IdleAdm
      <4>5. QED
            BY <1>28, <4>3, <4>4 DEF ReplayAdd
    <3>2. UNCHANGED req
          BY <1>28 DEF ReplayAdd
    <3>3. QED
          BY <3>1, <3>2 DEF CallsOK, CallInv
  <2>5. QED
        BY <1>28, <2>2, <2>3, <2>4 DEF ReplayAdd, CacheOK, PeopleOK, WorkOK,
              MailOK, WorkInv, OwnerInv, SlotKnows, cacheVars, peopleVars, workVars, mailVars,
              rowVars
<1>29. ASSUME NEW a \in Admins, ReplayDone(a)
      PROVE  TypeInv'
  <2>1. CallsOK'
        BY <1>29, ZeroIsAKey DEF ReplayDone, IdleAdm, AdmRecord, CallsOK
  <2>2. CallInv'
        BY <1>29 DEF ReplayDone, IdleAdm, CallsOK, AdmRecord, CallInv
  <2>3. QED
        BY <1>29, <2>1, <2>2 DEF ReplayDone, RowOK, CacheOK, PeopleOK, QueueOK, WorkOK,
              MailOK, WorkInv, OwnerInv, SlotKnows, rowVars, cacheVars, peopleVars,
              queueVars, workVars, mailVars
<1>30. ASSUME ApiCrash
      PROVE  TypeInv'
  <2>1. CallsOK'
        BY <1>30, ZeroIsAKey DEF ApiCrash, IdleReq, IdleAdm, ReqRecord, AdmRecord,
              CallsOK
  <2>2. CallInv'
        BY <1>30 DEF ApiCrash, IdleReq, IdleAdm, CallInv
  <2>3. QED
        BY <1>30, <2>1, <2>2 DEF ApiCrash, RowOK, CacheOK, PeopleOK, QueueOK, WorkOK,
              MailOK, WorkInv, OwnerInv, SlotKnows, rowVars, cacheVars, peopleVars,
              queueVars, workVars, mailVars
<1>31. ASSUME UNCHANGED vars
      PROVE  TypeInv'
      BY <1>31 DEF vars, RowOK, CacheOK, PeopleOK, QueueOK, WorkOK, MailOK, CallsOK,
              WorkInv, CallInv, OwnerInv, rowVars, cacheVars, peopleVars, queueVars,
              workVars, mailVars, SlotKnows
<1>32. ASSUME SetOpen
      PROVE  TypeInv'
  <2>1. PeopleOK'
        BY <1>32 DEF SetOpen, PeopleOK
  <2>2. QED
        BY <1>32, <2>1 DEF SetOpen, RowOK, CacheOK, QueueOK, WorkOK, MailOK, CallsOK, WorkInv,
              CallInv, OwnerInv, SlotKnows, rowVars, cacheVars, queueVars, workVars, mailVars
<1>33. QED
      BY <1>1, <1>2, <1>3, <1>4, <1>5, <1>6, <1>7, <1>8, <1>9, <1>10, <1>11, <1>12,
         <1>13, <1>14, <1>15, <1>16, <1>17, <1>18, <1>19, <1>20, <1>21, <1>22, <1>23,
         <1>24, <1>25, <1>26, <1>27, <1>28, <1>29, <1>30, <1>31, <1>32
      DEF Next, Api, Run, Worker, Outside

\* Whatever fails and however requests, slots and operators interleave, the shared state
\* stays within its types: in particular placed candidates exist and scored ones are placed.
THEOREM TypeCorrect == Spec => []TypeOK
<1>1. TypeInv => TypeOK
      BY DEF TypeInv, TypeOK
<1>2. QED
      BY <1>1, TypeInit, TypeStep, PTL DEF Spec
------------------------------------------------------------------------------
(* From here on the worker has one slot: INGEST_CONCURRENCY is 1 unless set.  *)
(* Nothing is assumed of faults, of the requests and operators at work, or of *)
(* the number of attempts and replays.                                        *)

SingleSlot == \A v, w \in Workers : v = w

\* What a request, a replay, a job or a slot is about has a row.
KnownInv ==
    /\ \A j \in Jobs : queue[j].st # "none" => row[j[1]] # "none"
    /\ \A w \in Workers : slot[w].pc # "idle" => row[Msg(w)] # "none"
    /\ \A q \in Requests : req[q].pc \in {"ensure", "act"} => row[req[q].m] # "none"
    /\ \A a \in Admins : adm[a].pc = "add" => row[adm[a].m] # "none"

\* What the slot read when it took the job is still true while it runs: the row is not
\* finished, and the candidate is the one the row pointed at.  An error finds the row
\* unfinished too, unless the write that settled it was not acknowledged.
FreshInv ==
    \A w \in Workers :
        /\ slot[w].pc \in RunPhases \cup {"mark"} =>
            row[Msg(w)] \in Unfinished /\ slot[w].seen = owner[Msg(w)]
        /\ slot[w].pc = "catch" /\ "reply" \notin Faults => row[Msg(w)] \in Unfinished

\* A candidate stands for the one message it was inserted for, and that message points
\* at some candidate.
PersonInv ==
    /\ OneCandidatePerMessage
    /\ \A c \in people : owner[c[1]] # None
    /\ \A m \in Messages : row[m] = "completed" => owner[m] # None

SlotInv == TypeInv /\ KnownInv /\ FreshInv /\ PersonInv

(* The five things a step can do to the rows and the candidates.              *)
Quiet ==
    /\ UNCHANGED <<owner, people>>
    /\ row' \in [Messages -> Status]
    /\ \A m \in Messages : \/ row'[m] = row[m]
                           \/ row[m] \in Unfinished /\ row'[m] \in Unfinished

Records(m) ==
    /\ row[m] = "none"
    /\ \E s \in Unfinished : row' = [row EXCEPT ![m] = s]
    /\ UNCHANGED <<owner, people>>

Closes(m) ==
    /\ row[m] \in Unfinished
    /\ \E s \in TERMINAL : /\ row' = [row EXCEPT ![m] = s]
                           /\ s = "completed" => owner[m] # None
    /\ UNCHANGED <<owner, people>>

Attributes(m) ==
    /\ row[m] \in Unfinished
    /\ owner[m] = None
    /\ \E c \in Candidates :
        /\ owner' = [owner EXCEPT ![m] = c]
        /\ \/ c \in people /\ UNCHANGED people
           \/ c[1] = m /\ people' = people \cup {c}
    /\ UNCHANGED row

\* The error path of a run whose settling write was not acknowledged.
Reopens(m) ==
    /\ "reply" \in Faults
    /\ row[m] \in TERMINAL
    /\ \E s \in Unfinished : row' = [row EXCEPT ![m] = s]
    /\ UNCHANGED <<owner, people>>

LedgerStep ==
    Quiet \/ \E m \in Messages : Records(m) \/ Closes(m) \/ Attributes(m) \/ Reopens(m)

\* A step that leaves the slots alone and settles nothing leaves their snapshots fresh.
LEMMA Bystander ==
    ASSUME TypeInv, FreshInv, UNCHANGED slot, Quiet \/ \E m \in Messages : Records(m)
    PROVE  FreshInv'
<1>1. \A w \in Workers : slot[w].pc \in RunPhases \cup {"mark", "catch"} => Msg(w) \in Messages
      BY DEF TypeInv, WorkInv, SlotKnows, Msg, Jobs, RunPhases
<1>2. CASE Quiet
      BY <1>1, <1>2 DEF FreshInv, Quiet, Msg, TypeInv, RowOK
<1>3. ASSUME NEW m \in Messages, Records(m) PROVE FreshInv'
      BY <1>1, <1>3 DEF FreshInv, Records, Msg, TypeInv, RowOK, Unfinished
<1>4. QED
      BY <1>2, <1>3

\* A row that exists goes on existing.
LEMMA RowsStay ==
    ASSUME TypeInv, LedgerStep, NEW m \in Messages, row[m] # "none"
    PROVE  row'[m] # "none"
BY DEF TypeInv, RowOK, LedgerStep, Quiet, Records, Closes, Attributes, Reopens, Unfinished,
       TERMINAL

\* Whatever a ledger step does, every candidate keeps its one message.
LEMMA PersonStep ==
    ASSUME TypeInv, PersonInv, LedgerStep
    PROVE  PersonInv'
<1>1. \A c \in people : c \in Candidates /\ c[1] \in Messages
      BY DEF TypeInv, PeopleOK, Candidates
<1>2. CASE Quiet
      BY <1>1, <1>2 DEF PersonInv, OneCandidatePerMessage, Quiet, Unfinished
<1>3. ASSUME NEW m \in Messages, Records(m) PROVE PersonInv'
      BY <1>1, <1>3 DEF PersonInv, OneCandidatePerMessage, Records, TypeInv, RowOK, Unfinished
<1>4. ASSUME NEW m \in Messages, Closes(m) PROVE PersonInv'
      BY <1>1, <1>4 DEF PersonInv, OneCandidatePerMessage, Closes, TypeInv, RowOK, TERMINAL
<1>5. ASSUME NEW m \in Messages, Attributes(m) PROVE PersonInv'
  <2>1. PICK c \in Candidates :
            /\ owner' = [owner EXCEPT ![m] = c]
            /\ \/ c \in people /\ UNCHANGED people
               \/ c[1] = m /\ people' = people \cup {c}
        BY <1>5 DEF Attributes
  <2>2. c # None
        BY <2>1, NoneAssumption
  <2>3. \A n \in Messages : owner[n] # None => owner'[n] # None
        BY <2>1, <2>2 DEF TypeInv, RowOK
  <2>4. owner'[m] # None
        BY <2>1, <2>2 DEF TypeInv, RowOK
  <2>5. (\A d \in people : owner[d[1]] # None)'
        BY <1>1, <2>1, <2>3, <2>4 DEF PersonInv
  <2>6. OneCandidatePerMessage'
        BY <1>5, <2>1 DEF PersonInv, OneCandidatePerMessage, Attributes
  <2>7. QED
        BY <1>5, <2>3, <2>5, <2>6 DEF PersonInv, Attributes
<1>6. ASSUME NEW m \in Messages, Reopens(m) PROVE PersonInv'
      BY <1>1, <1>6 DEF PersonInv, OneCandidatePerMessage, Reopens, TypeInv, RowOK, Unfinished
<1>7. QED
      BY <1>2, <1>3, <1>4, <1>5, <1>6 DEF LedgerStep

\* Once the run is over nothing it knew matters; its message is still that of its job.
LEMMA LeavingForgets ==
    ASSUME SingleSlot, WorkOK, NEW w \in Workers, NEW pc \in {"return", "throw"}, Leave(w, pc)
    PROVE  FreshInv' /\ Msg(w)' = Msg(w)
<1>1. slot' = [slot EXCEPT ![w] = [Free EXCEPT !.pc = pc, !.job = slot[w].job,
                                                !.locked = slot[w].locked]]
      BY DEF Leave
<1>2. slot'[w].pc = pc /\ slot'[w].job = slot[w].job
      BY <1>1 DEF WorkOK, Free
<1>3. QED
      BY <1>2 DEF SingleSlot, FreshInv, RunPhases, Msg

\* A slot that goes on from one phase to the next works on the same message.
LEMMA GoingKeeps ==
    ASSUME SingleSlot, WorkOK, FreshInv, UNCHANGED <<row, owner>>,
           NEW w \in Workers, NEW pc \in RunPhases, slot[w].pc \in RunPhases, Goto(w, pc)
    PROVE  FreshInv' /\ Msg(w)' = Msg(w)
BY DEF SingleSlot, FreshInv, RunPhases, Msg, Goto, WorkOK, SlotRecord

\* The same holds of a slot that goes into the catch block although its row is settled.
LEMMA ThrowingForgets ==
    ASSUME SingleSlot, WorkOK, "reply" \in Faults, NEW w \in Workers, NEW kind, Throw(w, kind)
    PROVE  FreshInv' /\ Msg(w)' = Msg(w)
<1>1. slot'[w].pc = "catch" /\ slot'[w].job = slot[w].job
      BY DEF Throw, WorkOK, SlotRecord
<1>2. QED
      BY <1>1 DEF SingleSlot, FreshInv, RunPhases, Msg

\* With one slot every step is one of the four, and what the slot knows stays true.
LEMMA StepOfOneSlot ==
    ASSUME SingleSlot, SlotInv, [Next]_vars
    PROVE  LedgerStep /\ KnownInv' /\ FreshInv'
<1> USE DEF SlotInv, TypeInv
<1>1. ASSUME NEW q \in Requests, NEW m \in Messages, Deliver(q, m)
      PROVE  LedgerStep /\ KnownInv' /\ FreshInv'
  <2>1. Quiet
        BY <1>1 DEF Deliver, Quiet, RowOK, rowVars, peopleVars
  <2>2. LedgerStep /\ FreshInv'
        BY <1>1, <2>1, Bystander DEF Deliver, LedgerStep, workVars
  <2>3. KnownInv'
    <3>1. \/ UNCHANGED req
          \/ req' = [req EXCEPT ![q] = [IdleReq EXCEPT !.pc = "create", !.m = m]]
          \/ row[m] # "none" /\ req' = [req EXCEPT ![q] = [IdleReq EXCEPT !.pc = "ensure", !.m = m]]
          \/ req' = [req EXCEPT ![q] = IdleReq]
          BY <1>1 DEF Deliver, Answer200
    <3>2. \A r \in Requests : req'[r].pc \in {"ensure", "act"} => row'[req'[r].m] # "none"
      <4>1. \A r \in Requests : r # q => req'[r] = req[r]
            BY <3>1 DEF CallsOK
      <4>2. req'[q].pc \in {"ensure", "act"} => row[req'[q].m] # "none"
        <5>1. CASE UNCHANGED req
              BY <5>1 DEF KnownInv
        <5>2. CASE req' = [req EXCEPT ![q] = [IdleReq EXCEPT !.pc = "create", !.m = m]]
              BY <5>2 DEF CallsOK, IdleReq
        <5>3. CASE /\ row[m] # "none"
                   /\ req' = [req EXCEPT ![q] = [IdleReq EXCEPT !.pc = "ensure", !.m = m]]
              BY <5>3 DEF CallsOK, IdleReq
        <5>4. CASE req' = [req EXCEPT ![q] = IdleReq]
              BY <5>4 DEF CallsOK, IdleReq
        <5>5. QED
              BY <3>1, <5>1, <5>2, <5>3, <5>4
      <4>3. QED
            BY <1>1, <4>1, <4>2 DEF Deliver, KnownInv, rowVars
    <3>3. QED
          BY <1>1, <3>2 DEF Deliver, KnownInv, Msg, rowVars, queueVars, workVars
  <2>4. QED
        BY <2>2, <2>3
<1>2. ASSUME NEW q \in Requests, CreateRow(q)
      PROVE  LedgerStep /\ KnownInv' /\ FreshInv'
  <2>1. req[q].m \in Messages
        BY <1>2 DEF CreateRow, CallInv
  <2>2. Quiet \/ \E m \in Messages : Records(m)
        BY <1>2, <2>1 DEF CreateRow, Quiet, Records, Unfinished, Status, RowOK, peopleVars
  <2>3. LedgerStep /\ FreshInv'
        BY <1>2, <2>2, Bystander DEF CreateRow, LedgerStep, workVars
  <2>4. KnownInv'
        BY <1>2, <2>1, <2>3, RowsStay DEF CreateRow, KnownInv, WorkInv, SlotKnows, CallInv, Msg,
              Jobs, RowOK, CallsOK, ReqRecord, queueVars, workVars
  <2>5. QED
        BY <2>3, <2>4
<1>3. ASSUME NEW q \in Requests, EnsureEnqueued(q)
      PROVE  LedgerStep /\ KnownInv' /\ FreshInv'
  <2>1. Quiet
        BY <1>3 DEF EnsureEnqueued, Quiet, RowOK, rowVars, peopleVars
  <2>2. LedgerStep /\ FreshInv'
        BY <1>3, <2>1, Bystander DEF EnsureEnqueued, LedgerStep, workVars
  <2>3. KnownInv'
        BY <1>3, <2>2, RowsStay DEF EnsureEnqueued, KnownInv, WorkInv, SlotKnows, CallInv,
              Msg, Jobs, Answer200, IdleReq, CallsOK, ReqRecord, rowVars, workVars
  <2>4. QED
        BY <2>2, <2>3
<1>4. ASSUME NEW q \in Requests, ActOnQueue(q)
      PROVE  LedgerStep /\ KnownInv' /\ FreshInv'
  <2>1. Quiet
        BY <1>4 DEF ActOnQueue, Quiet, RowOK, rowVars, peopleVars
  <2>2. LedgerStep /\ FreshInv'
        BY <1>4, <2>1, Bystander DEF ActOnQueue, LedgerStep, workVars
  <2>3. KnownInv'
    <3>1. DEFINE j == <<req[q].m, req[q].key>>
    <3>2. j \in Jobs /\ row[j[1]] # "none"
          BY <1>4 DEF ActOnQueue, KnownInv, CallInv, CallsOK, ReqRecord, Jobs
    <3>3. \A k \in Jobs : k # j => queue'[k] = queue[k]
          BY <1>4, <3>2 DEF ActOnQueue, Enqueued, QueueOK
    <3>4. \A k \in Jobs : queue'[k].st # "none" => row'[k[1]] # "none"
          BY <1>4, <3>2, <3>3 DEF ActOnQueue, KnownInv, rowVars
    <3>5. \A r \in Requests : req'[r].pc \in {"ensure", "act"} => row'[req'[r].m] # "none"
          BY <1>4 DEF ActOnQueue, Answer200, KnownInv, IdleReq, CallsOK, ReqRecord, rowVars
    <3>6. QED
          BY <1>4, <3>4, <3>5 DEF ActOnQueue, KnownInv, Msg, rowVars, workVars
  <2>4. QED
        BY <2>2, <2>3
<1>5. ASSUME NEW m \in Messages, RecordRejected(m)
      PROVE  LedgerStep /\ KnownInv' /\ FreshInv'
  <2>1. Quiet \/ Records(m)
        BY <1>5 DEF RecordRejected, Quiet, Records, Unfinished, Status, RowOK, CallInv,
              rowVars, peopleVars
  <2>2. LedgerStep /\ FreshInv'
        BY <1>5, <2>1, Bystander DEF RecordRejected, LedgerStep, workVars
  <2>3. KnownInv'
        BY <1>5, <2>2, RowsStay DEF RecordRejected, KnownInv, WorkInv, SlotKnows, CallInv,
              Msg, Jobs, queueVars, workVars
  <2>4. QED
        BY <2>2, <2>3
<1>6. ASSUME NEW j \in Jobs, StalledCheck(j)
      PROVE  LedgerStep /\ KnownInv' /\ FreshInv'
  <2>1. Quiet
        BY <1>6 DEF StalledCheck, Quiet, RowOK, rowVars, peopleVars
  <2>2. LedgerStep /\ FreshInv'
        BY <1>6, <2>1, Bystander DEF StalledCheck, LedgerStep, workVars
  <2>3. KnownInv'
        BY <1>6, <2>2, RowsStay DEF StalledCheck, KnownInv, WorkInv, SlotKnows, CallInv,
              Msg, Jobs, QueueOK, JobRecord, rowVars, workVars
  <2>4. QED
        BY <2>2, <2>3
<1>7. ASSUME NEW e \in events, OnFailed(e)
      PROVE  LedgerStep /\ KnownInv' /\ FreshInv'
  <2>1. Quiet
        BY <1>7 DEF OnFailed, Quiet, RowOK, rowVars, peopleVars, Unfinished, Status,
              QueueOK, Jobs
  <2>2. LedgerStep /\ FreshInv'
        BY <1>7, <2>1, Bystander DEF OnFailed, LedgerStep, workVars
  <2>3. KnownInv'
        BY <1>7, <2>2, RowsStay DEF OnFailed, KnownInv, WorkInv, SlotKnows, CallInv, Msg,
              Jobs, workVars
  <2>4. QED
        BY <2>2, <2>3
<1>8. ASSUME SetEnabled \/ SetOpen
      PROVE  LedgerStep /\ KnownInv' /\ FreshInv'
  <2>1. Quiet
        BY <1>8 DEF SetEnabled, SetOpen, Quiet, RowOK, rowVars, peopleVars
  <2>2. LedgerStep /\ FreshInv'
        BY <1>8, <2>1, Bystander DEF SetEnabled, SetOpen, LedgerStep, workVars
  <2>3. KnownInv'
        BY <1>8, <2>2, RowsStay DEF SetEnabled, SetOpen, KnownInv, WorkInv, SlotKnows, CallInv, Msg,
              Jobs, rowVars, queueVars, workVars
  <2>4. QED
        BY <2>2, <2>3
<1>9. ASSUME NEW a \in Admins, ReplayHeld(a)
      PROVE  LedgerStep /\ KnownInv' /\ FreshInv'
  <2>1. Quiet
        BY <1>9 DEF ReplayHeld, Quiet, RowOK, rowVars, peopleVars
  <2>2. LedgerStep /\ FreshInv'
        BY <1>9, <2>1, Bystander DEF ReplayHeld, LedgerStep, workVars
  <2>3. KnownInv'
        BY <1>9, <2>2, RowsStay DEF ReplayHeld, KnownInv, WorkInv, SlotKnows, CallInv, Msg,
              Jobs, CallsOK, AdmRecord, rowVars, queueVars, workVars
  <2>4. QED
        BY <2>2, <2>3
<1>10. ASSUME NEW a \in Admins, NEW m \in Messages, ReplayClaim(a, m)
      PROVE  LedgerStep /\ KnownInv' /\ FreshInv'
  <2>1. Quiet
        BY <1>10 DEF ReplayClaim, Quiet, RowOK, rowVars, peopleVars, Unfinished, Status
  <2>2. LedgerStep /\ FreshInv'
        BY <1>10, <2>1, Bystander DEF ReplayClaim, LedgerStep, workVars
  <2>3. KnownInv'
        BY <1>10, <2>2, RowsStay DEF ReplayClaim, KnownInv, WorkInv, SlotKnows, CallInv,
              Msg, Jobs, CallsOK, AdmRecord, workVars
  <2>4. QED
        BY <2>2, <2>3
<1>11. ASSUME NEW a \in Admins, ReplayAdd(a)
      PROVE  LedgerStep /\ KnownInv' /\ FreshInv'
  <2>1. adm[a].m \in Messages /\ row[adm[a].m] # "none"
        BY <1>11 DEF ReplayAdd, CallInv, KnownInv
  <2>2. Quiet
        BY <1>11, <2>1 DEF ReplayAdd, Quiet, RowOK, Unfinished, Status, rowVars, peopleVars
  <2>3. LedgerStep /\ FreshInv'
        BY <1>11, <2>2, Bystander DEF ReplayAdd, LedgerStep, workVars
  <2>4. KnownInv'
    <3>1. DEFINE j == <<adm[a].m, adm[a].key>>
    <3>2. j \in Jobs /\ j[1] = adm[a].m
          BY <2>1 DEF CallsOK, AdmRecord, Jobs
    <3>3. \A k \in Jobs : k # j => queue'[k] = queue[k]
          BY <1>11, <3>2 DEF ReplayAdd, Enqueued, QueueOK
    <3>4. \A k \in Jobs : queue'[k].st # "none" => row'[k[1]] # "none"
          BY <2>1, <2>3, <3>2, <3>3, RowsStay DEF KnownInv, Jobs
    <3>5. \A b \in Admins : adm'[b].pc = "add" => row'[adm'[b].m] # "none"
      <4>1. adm'[a].pc # "add" /\ \A b \in Admins : b # a => adm'[b] = adm[b]
            BY <1>11 DEF ReplayAdd, IdleAdm, CallsOK, AdmRecord
      <4>2. QED
            BY <2>3, <4>1, RowsStay DEF KnownInv, CallInv
    <3>6. \A r \in Requests : req'[r].pc \in {"ensure", "act"} => row'[req'[r].m] # "none"
          BY <1>11, <2>3, RowsStay DEF ReplayAdd, KnownInv, CallInv
    <3>7. \A w \in Workers : slot'[w].pc # "idle" => row'[Msg(w)'] # "none"
          BY <1>11, <2>3, RowsStay DEF ReplayAdd, KnownInv, WorkInv, SlotKnows, Msg, Jobs, workVars
    <3>8. QED
          BY <3>4, <3>5, <3>6, <3>7 DEF KnownInv
  <2>5. QED
        BY <2>3, <2>4
<1>12. ASSUME NEW a \in Admins, ReplayDone(a)
      PROVE  LedgerStep /\ KnownInv' /\ FreshInv'
  <2>1. Quiet
        BY <1>12 DEF ReplayDone, Quiet, RowOK, rowVars, peopleVars
  <2>2. LedgerStep /\ FreshInv'
        BY <1>12, <2>1, Bystander DEF ReplayDone, LedgerStep, workVars
  <2>3. KnownInv'
        BY <1>12, <2>2, RowsStay DEF ReplayDone, KnownInv, WorkInv, SlotKnows, CallInv, Msg,
              Jobs, IdleAdm, CallsOK, AdmRecord, rowVars, queueVars, workVars
  <2>4. QED
        BY <2>2, <2>3
<1>13. ASSUME ApiCrash
      PROVE  LedgerStep /\ KnownInv' /\ FreshInv'
  <2>1. Quiet
        BY <1>13 DEF ApiCrash, Quiet, RowOK, rowVars, peopleVars
  <2>2. LedgerStep /\ FreshInv'
        BY <1>13, <2>1, Bystander DEF ApiCrash, LedgerStep, workVars
  <2>3. KnownInv'
        BY <1>13, <2>2, RowsStay DEF ApiCrash, KnownInv, WorkInv, SlotKnows, CallInv, Msg,
              Jobs, IdleReq, IdleAdm, rowVars, queueVars, workVars
  <2>4. QED
        BY <2>2, <2>3
<1>14. ASSUME NEW w \in Workers, NEW j \in Jobs, Take(w, j)
      PROVE  LedgerStep /\ KnownInv' /\ FreshInv'
  <2>1. LedgerStep
        BY <1>14 DEF Take, LedgerStep, Quiet, RowOK, rowVars, peopleVars
  <2>2. FreshInv'
        BY <1>14 DEF Take, SingleSlot, FreshInv, Msg, WorkOK, SlotRecord, RunPhases, Free,
              rowVars
  <2>3. KnownInv'
        BY <1>14, <2>1, RowsStay DEF Take, KnownInv, WorkInv, SlotKnows, CallInv, Msg, Jobs,
              WorkOK, SlotRecord, Free, QueueOK, JobRecord, rowVars
  <2>4. QED
        BY <2>1, <2>2, <2>3
<1>15. ASSUME NEW w \in Workers, ReadIntake(w)
      PROVE  LedgerStep /\ KnownInv' /\ FreshInv'
  <2>0. Msg(w) \in Messages /\ row[Msg(w)] # "none"
        BY <1>15 DEF ReadIntake, WorkInv, SlotKnows, Msg, Jobs, KnownInv
  <2>1. LedgerStep
        BY <1>15 DEF ReadIntake, LedgerStep, Quiet, RowOK, rowVars, peopleVars
  <2>2. FreshInv' /\ Msg(w)' = Msg(w)
    <3>1. CASE Leave(w, "return")
          BY <3>1, LeavingForgets
    <3>2. CASE /\ row[Msg(w)] \notin TERMINAL
               /\ slot' = [slot EXCEPT ![w].pc = "mark", ![w].seen = owner[Msg(w)]]
      <4>1. row[Msg(w)] \in Unfinished
            BY <2>0, <3>2 DEF RowOK, Status, TERMINAL, Unfinished
      <4>2. /\ slot'[w].pc = "mark" /\ slot'[w].job = slot[w].job
            /\ slot'[w].seen = owner[Msg(w)]
            BY <3>2 DEF WorkOK, SlotRecord
      <4>3. QED
            BY <1>15, <4>1, <4>2 DEF ReadIntake, SingleSlot, FreshInv, Msg, RunPhases, rowVars
    <3>3. QED
          BY <1>15, <3>1, <3>2 DEF ReadIntake
  <2>3. KnownInv'
    <3>1. \A v \in Workers : row'[Msg(v)'] # "none"
          BY <1>15, <2>0, <2>1, <2>2, RowsStay DEF ReadIntake, KnownInv, SingleSlot
    <3>2. QED
          BY <1>15, <2>1, <3>1, RowsStay DEF ReadIntake, KnownInv, CallInv, Jobs, queueVars, rowVars
  <2>4. QED
        BY <2>1, <2>2, <2>3
<1>16. ASSUME NEW w \in Workers, MarkProcessing(w)
      PROVE  LedgerStep /\ KnownInv' /\ FreshInv'
  <2>0. Msg(w) \in Messages
        BY <1>16 DEF MarkProcessing, WorkInv, SlotKnows, Msg, Jobs, RunPhases
  <2>1. LedgerStep
        BY <1>16, <2>0 DEF MarkProcessing, LedgerStep, Quiet, RowOK, rowVars, peopleVars,
              FreshInv, Unfinished, Status, TERMINAL
  <2>2. FreshInv'
        BY <1>16, <2>0 DEF MarkProcessing, SingleSlot, FreshInv, Msg, WorkOK, SlotRecord,
              RunPhases, Goto, Unfinished, RowOK, rowVars
  <2>3. KnownInv'
        BY <1>16, <2>0, <2>1, RowsStay DEF MarkProcessing, KnownInv, WorkInv, SlotKnows,
              CallInv, Msg, Jobs, WorkOK, SlotRecord, Goto, queueVars, RowOK
  <2>4. QED
        BY <2>1, <2>2, <2>3
<1>17. ASSUME NEW w \in Workers, ReadOrMarkFails(w)
      PROVE  LedgerStep /\ KnownInv' /\ FreshInv'
  <2>1. LedgerStep
        BY <1>17 DEF ReadOrMarkFails, LedgerStep, Quiet, RowOK, rowVars, peopleVars
  <2>2. FreshInv'
        BY <1>17 DEF ReadOrMarkFails, SingleSlot, FreshInv, Msg, WorkOK, SlotRecord,
              RunPhases, Leave, Free, rowVars
  <2>3. KnownInv'
        BY <1>17, <2>1, RowsStay DEF ReadOrMarkFails, KnownInv, WorkInv, SlotKnows, CallInv,
              Msg, Jobs, WorkOK, SlotRecord, Leave, Free, rowVars, queueVars
  <2>4. QED
        BY <2>1, <2>2, <2>3
<1>18. ASSUME NEW w \in Workers, NEW kind \in {"upstream", "other"}, PhaseThrows(w, kind)
      PROVE  LedgerStep /\ KnownInv' /\ FreshInv'
  <2>1. LedgerStep
        BY <1>18 DEF PhaseThrows, LedgerStep, Quiet, RowOK, rowVars, peopleVars
  <2>2. FreshInv'
        BY <1>18 DEF PhaseThrows, SingleSlot, FreshInv, Msg, WorkOK, SlotRecord, RunPhases,
              Throw, rowVars
  <2>3. KnownInv'
        BY <1>18, <2>1, RowsStay DEF PhaseThrows, KnownInv, WorkInv, SlotKnows, CallInv,
              Msg, Jobs, WorkOK, SlotRecord, Throw, rowVars, queueVars, RunPhases
  <2>4. QED
        BY <2>1, <2>2, <2>3
<1>19. ASSUME NEW w \in Workers, Catch(w)
      PROVE  LedgerStep /\ KnownInv' /\ FreshInv'
  <2>0. Msg(w) \in Messages
        BY <1>19 DEF Catch, WorkInv, SlotKnows, Msg, Jobs
  <2>1. LedgerStep
    <3>1. \/ row[Msg(w)] \in Unfinished
          \/ "reply" \in Faults /\ row[Msg(w)] \in TERMINAL
      <4>1. row[Msg(w)] \in Status /\ row[Msg(w)] # "none"
            BY <1>19, <2>0 DEF Catch, KnownInv, RowOK
      <4>2. "reply" \notin Faults => row[Msg(w)] \in Unfinished
            BY <1>19 DEF Catch, FreshInv
      <4>3. QED
            BY <4>1, <4>2 DEF Status, Unfinished, TERMINAL
    <3>2. \/ UNCHANGED row
          \/ \E s \in Unfinished : row' = [row EXCEPT ![Msg(w)] = s]
          BY <1>19 DEF Catch, WriteOrSwallow, Unfinished
    <3>3. UNCHANGED <<owner, people>>
          BY <1>19 DEF Catch, peopleVars
    <3>4. row' \in [Messages -> Status]
          BY <2>0, <3>2 DEF RowOK, Status, Unfinished
    <3>5. QED
          BY <2>0, <3>1, <3>2, <3>3, <3>4 DEF LedgerStep, Quiet, Reopens, RowOK
  <2>2. FreshInv' /\ Msg(w)' = Msg(w)
    <3>1. PICK pc \in {"return", "throw"} : Leave(w, pc)
          BY <1>19 DEF Catch
    <3>2. QED
          BY <3>1, LeavingForgets
  <2>3. KnownInv'
    <3>1. \A v \in Workers : row'[Msg(v)'] # "none"
          BY <1>19, <2>0, <2>1, <2>2, RowsStay DEF Catch, KnownInv, SingleSlot
    <3>2. QED
          BY <1>19, <2>1, <3>1, RowsStay DEF Catch, KnownInv, CallInv, Jobs, queueVars
  <2>4. QED
        BY <2>1, <2>2, <2>3
<1>20. ASSUME NEW w \in Workers, JobReturns(w)
      PROVE  LedgerStep /\ KnownInv' /\ FreshInv'
  <2>1. LedgerStep
        BY <1>20 DEF JobReturns, LedgerStep, Quiet, RowOK, rowVars, peopleVars
  <2>2. FreshInv'
        BY <1>20 DEF JobReturns, SingleSlot, FreshInv, Msg, WorkOK, SlotRecord, RunPhases,
              Free, rowVars
  <2>3. KnownInv'
        BY <1>20, <2>1, RowsStay DEF JobReturns, KnownInv, WorkInv, SlotKnows, CallInv, Msg,
              Jobs, WorkOK, SlotRecord, JobOf, Free, QueueOK, JobRecord, rowVars
  <2>4. QED
        BY <2>1, <2>2, <2>3
<1>21. ASSUME NEW w \in Workers, JobThrows(w)
      PROVE  LedgerStep /\ KnownInv' /\ FreshInv'
  <2>1. LedgerStep
        BY <1>21 DEF JobThrows, LedgerStep, Quiet, RowOK, rowVars, peopleVars
  <2>2. FreshInv'
        BY <1>21 DEF JobThrows, SingleSlot, FreshInv, Msg, WorkOK, SlotRecord, RunPhases,
              Free, rowVars
  <2>3. KnownInv'
        BY <1>21, <2>1, RowsStay DEF JobThrows, KnownInv, WorkInv, SlotKnows, CallInv, Msg,
              Jobs, WorkOK, SlotRecord, JobOf, Free, QueueOK, JobRecord, rowVars
  <2>4. QED
        BY <2>1, <2>2, <2>3
<1>22. ASSUME NEW w \in Workers, LockExpires(w)
      PROVE  LedgerStep /\ KnownInv' /\ FreshInv'
  <2>1. LedgerStep
        BY <1>22 DEF LockExpires, LedgerStep, Quiet, RowOK, rowVars, peopleVars
  <2>2. FreshInv'
        BY <1>22 DEF LockExpires, SingleSlot, FreshInv, Msg, WorkOK, SlotRecord, RunPhases,
              rowVars
  <2>3. KnownInv'
        BY <1>22, <2>1, RowsStay DEF LockExpires, KnownInv, WorkInv, SlotKnows, CallInv,
              Msg, Jobs, WorkOK, SlotRecord, rowVars, queueVars
  <2>4. QED
        BY <2>1, <2>2, <2>3
<1>23. ASSUME WorkerCrash
      PROVE  LedgerStep /\ KnownInv' /\ FreshInv'
  <2>1. LedgerStep
        BY <1>23 DEF WorkerCrash, LedgerStep, Quiet, RowOK, rowVars, peopleVars
  <2>2. FreshInv'
        BY <1>23 DEF WorkerCrash, SingleSlot, FreshInv, Msg, WorkOK, SlotRecord, RunPhases,
              Free
  <2>3. KnownInv'
        BY <1>23, <2>1, RowsStay DEF WorkerCrash, KnownInv, WorkInv, SlotKnows, CallInv,
              Msg, Jobs, WorkOK, SlotRecord, Free, rowVars
  <2>4. QED
        BY <2>1, <2>2, <2>3
<1>24. ASSUME NEW w \in Workers, SpamAndGate(w)
      PROVE  LedgerStep /\ KnownInv' /\ FreshInv'
  <2>0. Msg(w) \in Messages
        BY <1>24 DEF SpamAndGate, WorkInv, SlotKnows, Msg, Jobs
  <2>1. LedgerStep
        BY <1>24, <2>0 DEF SpamAndGate, LedgerStep, Finish, Quiet, Closes, FreshInv, RunPhases, RowOK,
              Unfinished, TERMINAL, Status, peopleVars
  <2>2. FreshInv' /\ Msg(w)' = Msg(w)
    <3>1. CASE Leave(w, "return")
          BY <3>1, LeavingForgets
    <3>2. CASE Goto(w, "classify") /\ UNCHANGED row
          BY <1>24, <3>2, GoingKeeps DEF SpamAndGate, RunPhases
    <3>3. ASSUME "reply" \in Faults, NEW kind \in {"upstream", "other"}, Throw(w, kind)
          PROVE  FreshInv' /\ Msg(w)' = Msg(w)
          BY <3>3, ThrowingForgets
    <3>4. QED
          BY <1>24, <3>1, <3>2, <3>3 DEF SpamAndGate, Finish
  <2>3. KnownInv'
    <3>1. \A v \in Workers : row'[Msg(v)'] # "none"
          BY <1>24, <2>0, <2>1, <2>2, RowsStay DEF SpamAndGate, KnownInv, SingleSlot
    <3>2. QED
          BY <1>24, <2>1, <3>1, RowsStay DEF SpamAndGate, KnownInv, CallInv, Jobs, queueVars
  <2>4. QED
        BY <2>1, <2>2, <2>3
<1>25. ASSUME NEW w \in Workers, Classify(w)
      PROVE  LedgerStep /\ KnownInv' /\ FreshInv'
  <2>0. Msg(w) \in Messages
        BY <1>25 DEF Classify, WorkInv, SlotKnows, Msg, Jobs
  <2>1. LedgerStep
        BY <1>25, <2>0 DEF Classify, LedgerStep, Finish, Quiet, Closes, FreshInv, RunPhases, RowOK,
              Unfinished, TERMINAL, Status, peopleVars
  <2>2. FreshInv' /\ Msg(w)' = Msg(w)
    <3>1. CASE Leave(w, "return")
          BY <3>1, LeavingForgets
    <3>2. CASE Goto(w, "identify") /\ UNCHANGED row
          BY <1>25, <3>2, GoingKeeps DEF Classify, RunPhases
    <3>3. ASSUME "reply" \in Faults, NEW kind \in {"upstream", "other"}, Throw(w, kind)
          PROVE  FreshInv' /\ Msg(w)' = Msg(w)
          BY <3>3, ThrowingForgets
    <3>4. QED
          BY <1>25, <3>1, <3>2, <3>3 DEF Classify, Finish
  <2>3. KnownInv'
    <3>1. \A v \in Workers : row'[Msg(v)'] # "none"
          BY <1>25, <2>0, <2>1, <2>2, RowsStay DEF Classify, KnownInv, SingleSlot
    <3>2. QED
          BY <1>25, <2>1, <3>1, RowsStay DEF Classify, KnownInv, CallInv, Jobs, queueVars
  <2>4. QED
        BY <2>1, <2>2, <2>3
<1>26. ASSUME NEW w \in Workers, Identify(w)
      PROVE  LedgerStep /\ KnownInv' /\ FreshInv'
  <2>0. Msg(w) \in Messages
        BY <1>26 DEF Identify, WorkInv, SlotKnows, Msg, Jobs, RunPhases
  <2>1. LedgerStep
        BY <1>26, <2>0 DEF Identify, LedgerStep, Quiet, Attributes, SamePerson, FreshInv,
              RunPhases, RowOK
  <2>2. FreshInv'
        BY <1>26, <2>0 DEF Identify, SingleSlot, FreshInv, Msg, WorkOK, SlotRecord,
              RunPhases, Goto, RowOK
  <2>3. KnownInv'
        BY <1>26, <2>0, <2>1, RowsStay DEF Identify, KnownInv, WorkInv, SlotKnows, CallInv,
              Msg, Jobs, WorkOK, SlotRecord, Goto, queueVars, RunPhases
  <2>4. QED
        BY <2>1, <2>2, <2>3
<1>27. ASSUME NEW w \in Workers, Match(w)
      PROVE  LedgerStep /\ KnownInv' /\ FreshInv'
  <2>0. Msg(w) \in Messages
        BY <1>27 DEF Match, WorkInv, SlotKnows, Msg, Jobs, RunPhases
  <2>1. LedgerStep
        BY <1>27, <2>0 DEF Match, LedgerStep, Quiet, RowOK, rowVars, peopleVars
  <2>2. FreshInv'
        BY <1>27, <2>0 DEF Match, SingleSlot, FreshInv, Msg, WorkOK, SlotRecord, RunPhases,
              rowVars
  <2>3. KnownInv'
        BY <1>27, <2>0, <2>1, RowsStay DEF Match, KnownInv, WorkInv, SlotKnows, CallInv,
              Msg, Jobs, WorkOK, SlotRecord, rowVars, queueVars, RunPhases
  <2>4. QED
        BY <2>1, <2>2, <2>3
<1>28. ASSUME NEW w \in Workers, Place(w)
      PROVE  LedgerStep /\ KnownInv' /\ FreshInv'
  <2>1. LedgerStep
        BY <1>28 DEF Place, LedgerStep, Quiet, RowOK, rowVars, peopleVars
  <2>2. FreshInv'
        BY <1>28 DEF Place, SingleSlot, FreshInv, Msg, WorkOK, SlotRecord, RunPhases, Goto,
              rowVars
  <2>3. KnownInv'
        BY <1>28, <2>1, RowsStay DEF Place, KnownInv, WorkInv, SlotKnows, CallInv, Msg,
              Jobs, WorkOK, SlotRecord, Goto, rowVars, queueVars
  <2>4. QED
        BY <2>1, <2>2, <2>3
<1>29. ASSUME NEW w \in Workers, Score(w)
      PROVE  LedgerStep /\ KnownInv' /\ FreshInv'
  <2>1. LedgerStep
        BY <1>29 DEF Score, LedgerStep, Quiet, RowOK, rowVars, peopleVars
  <2>2. FreshInv'
        BY <1>29 DEF Score, SingleSlot, FreshInv, Msg, WorkOK, SlotRecord, RunPhases, Goto,
              rowVars
  <2>3. KnownInv'
        BY <1>29, <2>1, RowsStay DEF Score, KnownInv, WorkInv, SlotKnows, CallInv, Msg,
              Jobs, WorkOK, SlotRecord, Goto, rowVars, queueVars
  <2>4. QED
        BY <2>1, <2>2, <2>3
<1>30. ASSUME NEW w \in Workers, Complete(w)
      PROVE  LedgerStep /\ KnownInv' /\ FreshInv'
  <2>0. Msg(w) \in Messages /\ owner[Msg(w)] # None
        BY <1>30, NoneAssumption DEF Complete, WorkInv, SlotKnows, Msg, Jobs, FreshInv, RunPhases,
              PeopleOK
  <2>1. LedgerStep
        BY <1>30, <2>0 DEF Complete, LedgerStep, Finish, Closes, FreshInv, RunPhases, TERMINAL,
              peopleVars
  <2>2. FreshInv' /\ Msg(w)' = Msg(w)
    <3>1. CASE Leave(w, "return")
          BY <3>1, LeavingForgets
    <3>2. ASSUME "reply" \in Faults, NEW kind \in {"upstream", "other"}, Throw(w, kind)
          PROVE  FreshInv' /\ Msg(w)' = Msg(w)
          BY <3>2, ThrowingForgets
    <3>3. QED
          BY <1>30, <3>1, <3>2 DEF Complete, Finish
  <2>3. KnownInv'
    <3>1. \A v \in Workers : row'[Msg(v)'] # "none"
          BY <1>30, <2>0, <2>1, <2>2, RowsStay DEF Complete, KnownInv, SingleSlot
    <3>2. QED
          BY <1>30, <2>1, <3>1, RowsStay DEF Complete, KnownInv, CallInv, Jobs, queueVars
  <2>4. QED
        BY <2>1, <2>2, <2>3
<1>31. ASSUME UNCHANGED vars
      PROVE  LedgerStep /\ KnownInv' /\ FreshInv'
      BY <1>31 DEF vars, LedgerStep, Quiet, RowOK, KnownInv, FreshInv, Msg, rowVars,
              peopleVars, queueVars, workVars
<1>32. QED
      BY <1>1, <1>2, <1>3, <1>4, <1>5, <1>6, <1>7, <1>8, <1>9, <1>10, <1>11, <1>12, <1>13,
         <1>14, <1>15, <1>16, <1>17, <1>18, <1>19, <1>20, <1>21, <1>22, <1>23, <1>24, <1>25,
         <1>26, <1>27, <1>28, <1>29, <1>30, <1>31
      DEF Next, Api, Run, Worker, Outside

LEMMA SlotInvInit == Init => SlotInv
<1> SUFFICES ASSUME Init PROVE SlotInv
    OBVIOUS
<1>1. KnownInv /\ FreshInv
      BY DEF Init, KnownInv, FreshInv, NoJob, Free, IdleReq, IdleAdm, RunPhases
<1>2. PersonInv
      BY DEF Init, PersonInv, OneCandidatePerMessage
<1>3. QED
      BY <1>1, <1>2, TypeInit DEF SlotInv

LEMMA SlotInvStep == ASSUME SingleSlot PROVE SlotInv /\ [Next]_vars => SlotInv'
<1> SUFFICES ASSUME SlotInv, [Next]_vars PROVE SlotInv'
    OBVIOUS
<1>1. TypeInv'
      BY TypeStep DEF SlotInv
<1>2. LedgerStep /\ KnownInv' /\ FreshInv'
      BY StepOfOneSlot
<1>3. PersonInv'
      BY <1>2, PersonStep DEF SlotInv
<1>4. QED
      BY <1>1, <1>2, <1>3 DEF SlotInv

\* With one slot, no number of redeliveries, retries, replays, stalled re-runs and crashes
\* makes a second candidate out of one message.
THEOREM OneCandidate == ASSUME SingleSlot PROVE Spec => []OneCandidatePerMessage
<1>1. SlotInv => OneCandidatePerMessage
      BY DEF SlotInv, PersonInv
<1>2. QED
      BY <1>1, SlotInvInit, SlotInvStep, PTL DEF Spec

\* With one slot, and as long as the write that settles a row is acknowledged, a settled row
\* is never taken up again, not even by a run whose lock expired long ago.
THEOREM FinishedForGood ==
    ASSUME SingleSlot, "reply" \notin Faults
    PROVE  Spec => FinishedStaysFinished
<1> DEFINE Keeps == \A m \in Messages : row[m] \in TERMINAL => row'[m] = row[m]
<1>1. SlotInv /\ [Next]_vars => [Keeps]_vars
  <2> SUFFICES ASSUME SlotInv, [Next]_vars PROVE Keeps
      OBVIOUS
  <2>1. LedgerStep
        BY StepOfOneSlot
  <2>2. QED
        BY <2>1 DEF SlotInv, TypeInv, RowOK, LedgerStep, Quiet, Records, Closes, Attributes,
              Reopens, Unfinished, TERMINAL
<1>2. QED
      BY <1>1, SlotInvInit, SlotInvStep, PTL DEF Spec, FinishedStaysFinished

\* Under the same two assumptions the whole machinery implements IntakeLedger: a message is
\* recorded once, attributed at most once, settled once, and completed only with a candidate.
THEOREM ImplementsLedger ==
    ASSUME SingleSlot, "reply" \notin Faults
    PROVE  Spec => KeepsLedger
<1>1. Init => Ledger!Init
      BY DEF Init, Ledger!Init, Unfinished
<1>2. SlotInv /\ [Next]_vars => [Ledger!Next]_(Ledger!ledger)
  <2> SUFFICES ASSUME SlotInv, [Next]_vars
               PROVE  Ledger!Next \/ UNCHANGED Ledger!ledger
      OBVIOUS
  <2> DEFINE status == [m \in Messages |-> IF row[m] \in Unfinished THEN "open" ELSE row[m]]
  <2>0. row \in [Messages -> Status] /\ owner \in [Messages -> Candidates \cup {None}]
        BY DEF SlotInv, TypeInv, RowOK
  <2>1. LedgerStep
        BY StepOfOneSlot
  <2>2. CASE Quiet
    <3>1. status' = status
          BY <2>2 DEF Quiet
    <3>2. QED
          BY <2>2, <3>1 DEF Quiet, Ledger!ledger
  <2>3. ASSUME NEW m \in Messages, Records(m) PROVE Ledger!Next
    <3>1. status' = [status EXCEPT ![m] = "open"]
          BY <2>0, <2>3 DEF Records
    <3>2. status[m] = "none"
          BY <2>3 DEF Records, Unfinished
    <3>3. Ledger!Record(m)
          BY <2>3, <3>1, <3>2 DEF Records, Ledger!Record
    <3>4. QED
          BY <3>3 DEF Ledger!Next
  <2>4. ASSUME NEW m \in Messages, Closes(m) PROVE Ledger!Next
    <3>1. PICK s \in TERMINAL : /\ row' = [row EXCEPT ![m] = s]
                                /\ s = "completed" => owner[m] # None
          BY <2>4 DEF Closes
    <3>2. status' = [status EXCEPT ![m] = s]
          BY <2>0, <3>1 DEF TERMINAL, Unfinished
    <3>3. Ledger!Settle(m, s)
          BY <2>4, <3>1, <3>2 DEF Closes, Ledger!Settle
    <3>4. QED
          BY <3>3 DEF Ledger!Next, Ledger!Settled, TERMINAL
  <2>5. ASSUME NEW m \in Messages, Attributes(m) PROVE Ledger!Next
    <3>1. PICK c \in Candidates : owner' = [owner EXCEPT ![m] = c]
          BY <2>5 DEF Attributes
    <3>2. Ledger!Attribute(m, c)
          BY <2>5, <3>1 DEF Attributes, Ledger!Attribute
    <3>3. QED
          BY <3>2 DEF Ledger!Next
  <2>6. QED
        BY <2>1, <2>2, <2>3, <2>4, <2>5 DEF LedgerStep, Reopens
<1>3. QED
      BY <1>1, <1>2, SlotInvInit, SlotInvStep, PTL DEF Spec, KeepsLedger, Ledger!Spec

------------------------------------------------------------------------------
(***************************************************************************)
(* What the caches of the models' answers are for: as long as R2 stores    *)
(* them, no attempt contradicts the one before it.  A message that is      *)
(* turned away has no candidate, and an application without a score has an *)
(* unfinished intake behind it.                                            *)
(***************************************************************************)

\* The phases after the classifier has said "cv".
Admitted == {"identify", "match", "place", "score", "complete"}

\* Two records of a slot that is doing the same thing.
SameWork(s, t) == t.pc = s.pc /\ t.job = s.job /\ t.seen = s.seen /\ t.hit = s.hit

\* A step that asks no model, places and scores nobody and settles no row: slots stay where they
\* are, leave run(), or begin it.
Elsewhere ==
    /\ UNCHANGED <<owner, verdict, target, missed, people, placed, scored>>
    /\ \A m \in Messages : row'[m] = row[m] \/ row'[m] \in Unfinished
    /\ \A w \in Workers : \/ SameWork(slot[w], slot'[w])
                          \/ slot'[w].pc \notin RunPhases \ {"gate"}

PhaseStep(w) ==
    SpamAndGate(w) \/ Classify(w) \/ Identify(w) \/ Match(w) \/ Place(w) \/ Score(w) \/ Complete(w)

\* Every step is a phase of run() or happens elsewhere.
LEMMA StepsElsewhere ==
    ASSUME TypeInv, [Next]_vars
    PROVE  Elsewhere \/ \E w \in Workers : PhaseStep(w)
<1> USE DEF TypeInv
<1>1. ASSUME UNCHANGED <<owner, cacheVars, people, placed, scored, slot>>,
             \A m \in Messages : row'[m] = row[m] \/ row'[m] \in Unfinished
      PROVE  Elsewhere
      BY <1>1 DEF Elsewhere, SameWork, cacheVars
<1>2. ASSUME NEW q \in Requests, NEW m \in Messages, Deliver(q, m) PROVE Elsewhere
      BY <1>1, <1>2 DEF Deliver, rowVars, peopleVars, workVars
<1>3. ASSUME NEW q \in Requests, CreateRow(q) PROVE Elsewhere
      BY <1>1, <1>3 DEF CreateRow, peopleVars, workVars, RowOK, Unfinished
<1>4. ASSUME NEW q \in Requests, EnsureEnqueued(q) \/ ActOnQueue(q) PROVE Elsewhere
      BY <1>1, <1>4 DEF EnsureEnqueued, ActOnQueue, rowVars, peopleVars, workVars
<1>5. ASSUME NEW m \in Messages, RecordRejected(m) PROVE Elsewhere
      BY <1>1, <1>5 DEF RecordRejected, peopleVars, workVars, RowOK, Unfinished
<1>6. ASSUME NEW j \in Jobs, StalledCheck(j) PROVE Elsewhere
      BY <1>1, <1>6 DEF StalledCheck, rowVars, peopleVars, workVars
<1>7. ASSUME NEW e \in events, OnFailed(e) PROVE Elsewhere
      BY <1>1, <1>7 DEF OnFailed, peopleVars, workVars, RowOK, Unfinished
<1>8. ASSUME SetEnabled \/ SetOpen \/ ApiCrash PROVE Elsewhere
      BY <1>1, <1>8 DEF SetEnabled, SetOpen, ApiCrash, rowVars, peopleVars, workVars
<1>9. ASSUME NEW a \in Admins, ReplayHeld(a) \/ ReplayDone(a) PROVE Elsewhere
      BY <1>1, <1>9 DEF ReplayHeld, ReplayDone, rowVars, peopleVars, workVars
<1>10. ASSUME NEW a \in Admins, NEW m \in Messages, ReplayClaim(a, m) PROVE Elsewhere
      BY <1>1, <1>10 DEF ReplayClaim, peopleVars, workVars, RowOK, Unfinished
<1>11. ASSUME NEW a \in Admins, ReplayAdd(a) PROVE Elsewhere
      BY <1>1, <1>11 DEF ReplayAdd, peopleVars, workVars, RowOK, Unfinished
<1>12. ASSUME NEW w \in Workers, NEW j \in Jobs, Take(w, j) PROVE Elsewhere
  <2>1. slot'[w].pc = "read" /\ \A v \in Workers : v # w => slot'[v] = slot[v]
        BY <1>12 DEF Take, WorkOK, Free
  <2>2. QED
        BY <1>12, <2>1 DEF Take, Elsewhere, SameWork, RunPhases, rowVars, cacheVars, peopleVars
<1>13. ASSUME NEW w \in Workers, ReadIntake(w) \/ ReadOrMarkFails(w) PROVE Elsewhere
  <2>1. /\ slot'[w].pc \in {"return", "throw", "mark"}
        /\ \A v \in Workers : v # w => slot'[v] = slot[v]
        BY <1>13 DEF ReadIntake, ReadOrMarkFails, Leave, WorkOK, SlotRecord, Free
  <2>2. QED
        BY <1>13, <2>1 DEF ReadIntake, ReadOrMarkFails, Elsewhere, SameWork, RunPhases, rowVars,
              cacheVars, peopleVars
<1>14. ASSUME NEW w \in Workers, MarkProcessing(w) PROVE Elsewhere
  <2>1. slot'[w].pc = "gate" /\ \A v \in Workers : v # w => slot'[v] = slot[v]
        BY <1>14 DEF MarkProcessing, Goto, WorkOK, SlotRecord
  <2>2. QED
        BY <1>14, <2>1 DEF MarkProcessing, Elsewhere, SameWork, cacheVars, peopleVars, RowOK,
              Unfinished
<1>15. ASSUME NEW w \in Workers, NEW kind \in {"upstream", "other"}, PhaseThrows(w, kind)
      PROVE  Elsewhere
  <2>1. slot'[w].pc = "catch" /\ \A v \in Workers : v # w => slot'[v] = slot[v]
        BY <1>15 DEF PhaseThrows, Throw, WorkOK, SlotRecord
  <2>2. QED
        BY <1>15, <2>1 DEF PhaseThrows, Elsewhere, SameWork, RunPhases, rowVars, cacheVars,
              peopleVars
<1>16. ASSUME NEW w \in Workers, Catch(w) PROVE Elsewhere
  <2>1. slot'[w].pc \in {"return", "throw"} /\ \A v \in Workers : v # w => slot'[v] = slot[v]
        BY <1>16 DEF Catch, Leave, WorkOK, Free
  <2>2. \A m \in Messages : row'[m] = row[m] \/ row'[m] \in Unfinished
        BY <1>16 DEF Catch, WriteOrSwallow, RowOK, Unfinished
  <2>3. QED
        BY <1>16, <2>1, <2>2 DEF Catch, Elsewhere, SameWork, RunPhases, cacheVars, peopleVars
<1>17. ASSUME NEW w \in Workers, JobReturns(w) \/ JobThrows(w) PROVE Elsewhere
  <2>1. slot'[w].pc = "idle" /\ \A v \in Workers : v # w => slot'[v] = slot[v]
        BY <1>17 DEF JobReturns, JobThrows, WorkOK, Free
  <2>2. QED
        BY <1>17, <2>1 DEF JobReturns, JobThrows, Elsewhere, SameWork, RunPhases, rowVars,
              cacheVars, peopleVars
<1>18. ASSUME NEW w \in Workers, LockExpires(w) PROVE Elsewhere
       BY <1>18 DEF LockExpires, Elsewhere, SameWork, WorkOK, SlotRecord, rowVars, cacheVars,
             peopleVars
<1>19. ASSUME WorkerCrash PROVE Elsewhere
       BY <1>19 DEF WorkerCrash, Elsewhere, Free, RunPhases, rowVars, cacheVars, peopleVars
<1>20. ASSUME UNCHANGED vars PROVE Elsewhere
       BY <1>1, <1>20 DEF vars, rowVars, peopleVars, workVars
<1>21. QED
       BY <1>2, <1>3, <1>4, <1>5, <1>6, <1>7, <1>8, <1>9, <1>10, <1>11, <1>12, <1>13, <1>14,
          <1>15, <1>16, <1>17, <1>18, <1>19, <1>20
       DEF Next, Api, Run, Worker, Outside, PhaseStep
------------------------------------------------------------------------------
(***************************************************************************)
(* What holds on any number of slots, under every fault: the insertion     *)
(* looks for the contact under the lock that every other insertion takes.  *)
(***************************************************************************)

\* Every CV names an e-mail address or a telephone.
Identified == \A m \in Messages : Contact[m] # NoContact

\* No two candidates share a contact.
OnePerContact ==
    \A c, d \in people : Contact[c[1]] # NoContact /\ Contact[c[1]] = Contact[d[1]] => c = d

LEMMA OnePerContactStep == TypeInv /\ OnePerContact /\ [Next]_vars => OnePerContact'
<1> SUFFICES ASSUME TypeInv, OnePerContact, [Next]_vars PROVE OnePerContact'
    OBVIOUS
<1>1. CASE UNCHANGED people
      BY <1>1 DEF OnePerContact
<1>2. ASSUME NEW w \in Workers, Identify(w) PROVE OnePerContact'
  <2>1. CASE UNCHANGED people
        BY <2>1 DEF OnePerContact
  <2>2. CASE \E c \in Candidates : /\ SamePerson(Msg(w)) = {} /\ c[1] = Msg(w)
                                   /\ people' = people \cup {c}
    <3>1. PICK c \in Candidates : /\ SamePerson(Msg(w)) = {} /\ c[1] = Msg(w)
                                  /\ people' = people \cup {c}
          BY <2>2
    <3>2. \A d \in people : Contact[c[1]] # NoContact => Contact[d[1]] # Contact[c[1]]
          BY <3>1 DEF SamePerson
    <3>3. QED
          BY <3>1, <3>2 DEF OnePerContact
  <2>3. QED
        BY <1>2, <2>1, <2>2 DEF Identify
<1>3. ASSUME NEW w \in Workers, PhaseStep(w), ~Identify(w) PROVE UNCHANGED people
      BY <1>3 DEF PhaseStep, SpamAndGate, Classify, Match, Place, Score, Complete, peopleVars
<1>4. QED
      BY <1>1, <1>2, <1>3, StepsElsewhere DEF Elsewhere

\* If every CV names its sender, a message gets at most one candidate however many slots run it
\* at once and whatever is lost: the second attempt to insert finds the first one's candidate by
\* its contact.  Only who sends a CV without a contact depends on the row read before (SingleSlot).
THEOREM OneCandidatePerContact ==
    ASSUME Identified
    PROVE  Spec => []OneCandidatePerMessage
<1>1. Init => OnePerContact
      BY DEF Init, OnePerContact
<1>2. TypeInv => \A c \in people : c[1] \in Messages
      BY DEF TypeInv, PeopleOK, Candidates
<1>3. TypeInv /\ OnePerContact => OneCandidatePerMessage
      BY <1>2 DEF OnePerContact, OneCandidatePerMessage, Identified
<1>4. QED
      BY <1>1, <1>3, TypeInit, TypeStep, OnePerContactStep, PTL DEF Spec
------------------------------------------------------------------------------
(* The classification cache.                                                 *)

\* Who is past the spam filter is not spam; who is past the classifier, and who has a
\* candidate, has "cv" in the cache; who was turned away has the reason there.
DecidedInv ==
    /\ \A w \in Workers : slot[w].pc \in RunPhases \ {"gate"} => Msg(w) \notin Spam
    /\ \A w \in Workers : slot[w].pc \in Admitted => verdict[Msg(w)] = "cv"
    /\ \A m \in Messages : owner[m] # None => m \notin Spam /\ verdict[m] = "cv"
    /\ \A m \in Messages : row[m] = "spam" => m \in Spam
    /\ \A m \in Messages : row[m] \in {"not_cv", "needs_review"} => verdict[m] \in {"not_cv", "uncertain"}

LEMMA DecidedInit == Init => DecidedInv
BY DEF Init, DecidedInv, Free, RunPhases, Admitted

\* What the three ways out of a phase do to its slot.
LEMMA WaysOut ==
    ASSUME WorkOK, NEW w \in Workers, NEW x
    PROVE  /\ Leave(w, x) => slot'[w].pc = x /\ slot'[w].job = slot[w].job
           /\ Throw(w, x) => slot'[w].pc = "catch" /\ slot'[w].job = slot[w].job
           /\ Goto(w, x) => slot'[w].pc = x /\ slot'[w].job = slot[w].job
                            /\ slot'[w].seen = slot[w].seen /\ slot'[w].hit = slot[w].hit
           /\ Leave(w, x) \/ Throw(w, x) \/ Goto(w, x) =>
                  \A v \in Workers : v # w => slot'[v] = slot[v]
<1>1. Leave(w, x) => /\ slot'[w].pc = x /\ slot'[w].job = slot[w].job
                     /\ \A v \in Workers : v # w => slot'[v] = slot[v]
      BY DEF Leave, WorkOK, Free
<1>2. Throw(w, x) => /\ slot'[w].pc = "catch" /\ slot'[w].job = slot[w].job
                     /\ \A v \in Workers : v # w => slot'[v] = slot[v]
      BY DEF Throw, WorkOK, SlotRecord
<1>3. Goto(w, x) => /\ slot'[w].pc = x /\ slot'[w].job = slot[w].job
                    /\ slot'[w].seen = slot[w].seen /\ slot'[w].hit = slot[w].hit
                    /\ \A v \in Workers : v # w => slot'[v] = slot[v]
      BY DEF Goto, WorkOK, SlotRecord
<1>4. QED
      BY <1>1, <1>2, <1>3

\* A phase that settles the row is the last of its run.
LEMMA Finishing ==
    ASSUME WorkOK, RowOK, NEW w \in Workers, Msg(w) \in Messages, NEW s, Finish(w, s)
    PROVE  /\ slot'[w].pc \notin RunPhases /\ slot'[w].job = slot[w].job
           /\ \A v \in Workers : v # w => slot'[v] = slot[v]
           /\ row'[Msg(w)] = s /\ \A n \in Messages : n # Msg(w) => row'[n] = row[n]
<1>1. row' = [row EXCEPT ![Msg(w)] = s]
      BY DEF Finish
<1>2. CASE Leave(w, "return")
      BY <1>1, <1>2, WaysOut DEF RowOK, RunPhases
<1>3. ASSUME NEW kind, Throw(w, kind) PROVE slot'[w].pc \notin RunPhases /\ slot'[w].job = slot[w].job
           /\ \A v \in Workers : v # w => slot'[v] = slot[v]
      BY <1>3, WaysOut DEF RunPhases
<1>4. QED
      BY <1>1, <1>2, <1>3 DEF Finish, RowOK

\* Where a phase takes its slot, and that the others stay.
LEMMA PhaseSlots ==
    ASSUME WorkOK, WorkInv, NEW w \in Workers, PhaseStep(w)
    PROVE  /\ Msg(w) \in Messages
           /\ slot'[w].job = slot[w].job
           /\ \A v \in Workers : v # w => slot'[v] = slot[v]
<1>1. slot[w].pc \in RunPhases
      BY DEF PhaseStep, SpamAndGate, Classify, Identify, Match, Place, Score, Complete, RunPhases
<1>2. Msg(w) \in Messages
      BY <1>1 DEF WorkInv, SlotKnows, Msg, Jobs, RunPhases
<1>3. ASSUME NEW pc, Leave(w, pc) \/ Goto(w, pc) \/ Throw(w, pc)
      PROVE  slot'[w].job = slot[w].job /\ \A v \in Workers : v # w => slot'[v] = slot[v]
      BY <1>3, WaysOut
<1>4. CASE SpamAndGate(w) \/ Classify(w) \/ Complete(w)
      BY <1>2, <1>3, <1>4 DEF SpamAndGate, Classify, Complete, Finish
<1>5. CASE Identify(w) \/ Match(w) \/ Place(w) \/ Score(w)
      BY <1>2, <1>5 DEF Identify, Match, Place, Score, Goto, WorkOK, SlotRecord
<1>6. QED
      BY <1>4, <1>5 DEF PhaseStep

\* Somebody else's step decides nothing.
LEMMA DecidedElsewhere == ASSUME TypeInv, DecidedInv, Elsewhere PROVE DecidedInv'
<1>1. \A w \in Workers : slot'[w].pc \in RunPhases \ {"gate"} => SameWork(slot[w], slot'[w])
      BY DEF Elsewhere
<1>2. \A w \in Workers : Admitted \subseteq RunPhases \ {"gate"}
      BY DEF Admitted, RunPhases
<1>3. (\A w \in Workers : /\ slot[w].pc \in RunPhases \ {"gate"} => Msg(w) \notin Spam
                          /\ slot[w].pc \in Admitted => verdict[Msg(w)] = "cv")'
      BY <1>1, <1>2 DEF DecidedInv, Elsewhere, SameWork, Msg
<1>4. QED
      BY <1>3 DEF DecidedInv, Elsewhere, Unfinished

\* Nor does a phase, except for its own message, and then as the cache says.
LEMMA DecidedPhase ==
    ASSUME "verdicts" \notin Faults, TypeInv, DecidedInv, NEW w \in Workers, PhaseStep(w)
    PROVE  DecidedInv'
<1> DEFINE m == Msg(w)
<1>1. /\ m \in Messages
      /\ slot'[w].job = slot[w].job
      /\ \A v \in Workers : v # w => slot'[v] = slot[v]
      BY PhaseSlots DEF TypeInv
<1>2. Msg(w)' = m /\ \A v \in Workers : v # w => Msg(v)' = Msg(v)
      BY <1>1 DEF Msg
<1> HIDE DEF m
<1>3. ASSUME slot'[w].pc \in RunPhases \ {"gate"} => m \notin Spam,
             slot'[w].pc \in Admitted => verdict'[m] = "cv",
             \A n \in Messages : verdict[n] # None => verdict'[n] = verdict[n],
             \A n \in Messages : owner'[n] = owner[n] \/ (n = m /\ m \notin Spam /\ verdict'[m] = "cv"),
             \A n \in Messages : \/ row'[n] = row[n]
                                 \/ row'[n] \in {"held", "completed"}
                                 \/ n = m /\ row'[m] = "spam" /\ m \in Spam
                                 \/ n = m /\ row'[m] \in {"not_cv", "needs_review"}
                                          /\ verdict'[m] \in {"not_cv", "uncertain"}
      PROVE  DecidedInv'
  <2>1. \A n \in Messages : verdict[n] \in {"cv", "not_cv", "uncertain"} => verdict'[n] = verdict[n]
        BY <1>3, NoneAssumption
  <2>2. \A v \in Workers : slot'[v].pc \in RunPhases \ {"gate"} => Msg(v)' \notin Spam
        BY <1>1, <1>2, <1>3 DEF DecidedInv
  <2>3. \A v \in Workers : slot'[v].pc \in Admitted => verdict'[Msg(v)'] = "cv"
    <3>1. \A v \in Workers : slot[v].pc \in Admitted => Msg(v) \in Messages
          BY DEF TypeInv, WorkInv, SlotKnows, Msg, Jobs, Admitted
    <3>2. QED
          BY <1>1, <1>2, <1>3, <2>1, <3>1 DEF DecidedInv
  <2>4. \A n \in Messages : owner'[n] # None => n \notin Spam /\ verdict'[n] = "cv"
        BY <1>3, <2>1 DEF DecidedInv
  <2>5. \A n \in Messages : row'[n] = "spam" => n \in Spam
        BY <1>3 DEF DecidedInv
  <2>6. \A n \in Messages : row'[n] \in {"not_cv", "needs_review"} =>
                                verdict'[n] \in {"not_cv", "uncertain"}
        BY <1>3, <2>1 DEF DecidedInv
  <2>7. QED
        BY <2>2, <2>3, <2>4, <2>5, <2>6 DEF DecidedInv
<1>4. CASE SpamAndGate(w)
  <2>1. \/ slot'[w].pc \notin RunPhases
        \/ slot'[w].pc = "classify" /\ m \notin Spam
        BY <1>1, <1>4, Finishing, WaysOut DEF SpamAndGate, TypeInv, m
  <2>2. \A n \in Messages : \/ row'[n] = row[n]
                            \/ row'[n] = "held"
                            \/ n = m /\ row'[n] = "spam" /\ m \in Spam
        BY <1>1, <1>4 DEF SpamAndGate, Finish, TypeInv, RowOK, m
  <2>3. UNCHANGED <<owner, verdict>>
        BY <1>4 DEF SpamAndGate, cacheVars
  <2>4. QED
        BY <1>3, <2>1, <2>2, <2>3 DEF Admitted, RunPhases
<1>5. CASE Classify(w)
  <2>1. slot[w].pc = "classify" /\ m \notin Spam
        BY <1>5 DEF Classify, DecidedInv, RunPhases, m
  <2>2. PICK v \in Verdicts(m) :
            /\ \E c \in CacheOrWarn("verdicts", verdict[m], v) : verdict' = [verdict EXCEPT ![m] = c]
            /\ \/ v = "cv" /\ Goto(w, "identify") /\ UNCHANGED row
               \/ v = "not_cv" /\ Finish(w, "not_cv")
               \/ v = "uncertain" /\ Finish(w, "needs_review")
        BY <1>5 DEF Classify, m
  <2>3. verdict' = [verdict EXCEPT ![m] = v] /\ (verdict[m] # None => v = verdict[m])
    <3>1. verdict[m] # None => v = verdict[m]
          BY <2>2 DEF Verdicts
    <3>2. CacheOrWarn("verdicts", verdict[m], v) = {v}
          BY <3>1 DEF CacheOrWarn
    <3>3. QED
          BY <2>2, <3>1, <3>2
  <2>4. verdict'[m] = v /\ \A n \in Messages : verdict[n] # None => verdict'[n] = verdict[n]
        BY <1>1, <2>3 DEF TypeInv, CacheOK
  <2>5. \/ slot'[w].pc \notin RunPhases
        \/ slot'[w].pc = "identify" /\ v = "cv"
        BY <1>1, <2>2, Finishing, WaysOut DEF TypeInv, m
  <2>6. \A n \in Messages : \/ row'[n] = row[n]
                            \/ n = m /\ row'[n] \in {"not_cv", "needs_review"}
                                     /\ v \in {"not_cv", "uncertain"}
        BY <1>1, <2>2 DEF Finish, TypeInv, RowOK, m
  <2>7. UNCHANGED owner
        BY <1>5 DEF Classify
  <2>8. QED
        BY <1>3, <2>1, <2>4, <2>5, <2>6, <2>7 DEF Admitted, RunPhases
<1>6. CASE Identify(w) \/ Match(w) \/ Place(w) \/ Score(w)
  <2>1. slot[w].pc \in Admitted /\ m \notin Spam /\ verdict[m] = "cv"
        BY <1>6 DEF Identify, Match, Place, Score, DecidedInv, Admitted, RunPhases, m
  <2>2. UNCHANGED <<row, verdict>>
        BY <1>6 DEF Identify, Match, Place, Score, rowVars, cacheVars
  <2>3. \A n \in Messages : owner'[n] = owner[n] \/ n = m
        BY <1>1, <1>6 DEF Identify, Match, Place, Score, rowVars, TypeInv, RowOK, m
  <2>4. QED
        BY <1>3, <2>1, <2>2, <2>3
<1>7. CASE Complete(w)
  <2>1. slot'[w].pc \notin RunPhases
        BY <1>1, <1>7, Finishing DEF Complete, TypeInv, m
  <2>2. \A n \in Messages : row'[n] \in {row[n], "completed"}
        BY <1>1, <1>7 DEF Complete, Finish, TypeInv, RowOK, m
  <2>3. UNCHANGED <<owner, verdict>>
        BY <1>7 DEF Complete, cacheVars
  <2>4. QED
        BY <1>3, <2>1, <2>2, <2>3 DEF Admitted, RunPhases
<1>8. QED
      BY <1>4, <1>5, <1>6, <1>7 DEF PhaseStep

LEMMA DecidedStep ==
    ASSUME "verdicts" \notin Faults
    PROVE  TypeInv /\ DecidedInv /\ [Next]_vars => DecidedInv'
BY StepsElsewhere, DecidedElsewhere, DecidedPhase

\* As long as the classification cache can be written, nobody who was turned away has a candidate:
\* for any number of slots, retries, replays and redeliveries, an attempt never overrules the
\* classification on which an earlier one acted.
THEOREM TurnedAwayForGood ==
    ASSUME "verdicts" \notin Faults
    PROVE  Spec => []TurnedAwayHasNoCandidate
<1>1. DecidedInv => TurnedAwayHasNoCandidate
      BY DEF DecidedInv, TurnedAwayHasNoCandidate
<1>2. QED
      BY <1>1, TypeInit, TypeStep, DecidedInit, DecidedStep, PTL DEF Spec
------------------------------------------------------------------------------
(* The matching cache.                                                       *)

Waiting(m, c) ==
    owner[m] = c /\ target[m] = "job" /\ (row[m] \notin TERMINAL \/ m \in missed)

\* A run goes on with the answer in the cache, unless it found the cached vacancy closed.
Answered(m, t) == t \in {"job", "empty"} /\ (target[m] = t \/ (t = "empty" /\ m \in missed))

\* A run scores before it is complete when its answer is a job; an application without a score
\* has a message behind it whose cached answer it is, unfinished or found closed.
MatchedInv ==
    /\ \A w \in Workers : slot[w].pc \in {"place", "score", "complete"} => Answered(Msg(w), slot[w].hit)
    /\ \A w \in Workers : slot[w].pc = "score" => slot[w].hit = "job"
    /\ \A w \in Workers : slot[w].pc = "complete" /\ slot[w].hit = "job" => slot[w].seen \in scored
    /\ \A c \in placed \ scored : \E m \in Messages : Waiting(m, c)

LEMMA MatchedInit == Init => MatchedInv
BY DEF Init, MatchedInv, Free

LEMMA MatchedElsewhere == ASSUME TypeInv, MatchedInv, Elsewhere PROVE MatchedInv'
<1>1. \A w \in Workers : slot'[w].pc \in {"place", "score", "complete"} => SameWork(slot[w], slot'[w])
      BY DEF Elsewhere, RunPhases
<1>2. (\A c \in placed \ scored : \E m \in Messages : Waiting(m, c))'
      BY DEF MatchedInv, Elsewhere, Waiting, Unfinished, TERMINAL
<1>3. UNCHANGED <<target, missed, scored>>
      BY DEF Elsewhere
<1>4. \A w \in Workers : slot'[w].pc \in {"place", "score", "complete"} =>
          /\ slot'[w].pc = slot[w].pc /\ slot'[w].hit = slot[w].hit
          /\ slot'[w].seen = slot[w].seen /\ Msg(w)' = Msg(w)
      BY <1>1 DEF SameWork, Msg
<1>5. QED
      BY <1>2, <1>3, <1>4 DEF MatchedInv, Answered

LEMMA MatchedPhase ==
    ASSUME SingleSlot, "matches" \notin Faults, SlotInv, DecidedInv', MatchedInv,
           NEW w \in Workers, PhaseStep(w)
    PROVE  MatchedInv'
<1> USE DEF SlotInv, TypeInv
<1>0. PICK m \in Messages : m = Msg(w)
      BY PhaseSlots
<1>1. slot'[w].job = slot[w].job /\ \A v \in Workers : v = w
      BY PhaseSlots DEF SingleSlot
<1>2. Msg(w)' = m
      BY <1>0, <1>1 DEF Msg
<1>3. slot[w].pc \in RunPhases
      BY DEF PhaseStep, SpamAndGate, Classify, Identify, Match, Place, Score, Complete, RunPhases
<1>4. row[m] \in Unfinished /\ slot[w].seen = owner[m]
      BY <1>0, <1>3 DEF FreshInv
<1>5. \A c \in placed : c # None
      BY NoneAssumption DEF PeopleOK
\* What is enough: the slot's own facts, and that nothing is taken from who waits.
<1>6. ASSUME slot'[w].pc \in {"place", "score", "complete"} =>
                 Answered(m, slot[w].hit)',
             slot'[w].pc = "score" => slot'[w].hit = "job",
             slot'[w].pc = "complete" /\ slot'[w].hit = "job" => slot'[w].seen \in scored',
             \A c \in placed' \ scored' : (c \in placed \ scored) \/ Waiting(m, c)',
             \A n \in Messages, c \in placed \ scored : c \notin scored' /\ Waiting(n, c) => Waiting(n, c)',
             scored \subseteq scored'
      PROVE  MatchedInv'
  <2>1. \A c \in placed' \ scored' : \E n \in Messages : Waiting(n, c)'
    <3> TAKE c \in placed' \ scored'
    <3>1. CASE c \in placed \ scored
          BY <1>6, <3>1 DEF MatchedInv
    <3>2. CASE Waiting(m, c)'
          BY <1>1, <3>2
    <3>3. QED
          BY <1>6, <3>1, <3>2
  <2>2. QED
        BY <1>1, <1>2, <1>6, <2>1 DEF MatchedInv
<1>7. CASE SpamAndGate(w) \/ Classify(w)
  <2>1. UNCHANGED <<owner, target, missed, placed, scored>>
        BY <1>7 DEF SpamAndGate, Classify, cacheVars, peopleVars
  <2>2. slot'[w].pc \notin {"place", "score", "complete"}
        BY <1>0, <1>1, <1>7, Finishing, WaysOut DEF SpamAndGate, Classify, RunPhases
  <2>3. \A n \in Messages : row'[n] \in {row[n], "held", "spam", "not_cv", "needs_review"}
        BY <1>0, <1>1, <1>7, Finishing DEF SpamAndGate, Classify
  <2>4. \A n \in Messages : row'[n] \in {"spam", "not_cv", "needs_review"} => owner'[n] = None
        BY DEF DecidedInv
  <2>5. \A n \in Messages, c \in placed \ scored : Waiting(n, c) => Waiting(n, c)'
        BY <1>5, <2>1, <2>3, <2>4 DEF Waiting, TERMINAL
  <2>6. QED
        BY <1>6, <2>1, <2>2, <2>5
<1>8. CASE Identify(w)
  <2>1. UNCHANGED <<row, target, missed, placed, scored>>
        BY <1>8 DEF Identify, cacheVars
  <2>2. slot'[w].pc = "match"
        BY <1>8 DEF Identify, Goto, WorkOK, SlotRecord
  <2>3. \A n \in Messages : owner'[n] = owner[n] \/ owner[n] = None
        BY <1>0, <1>1, <1>4, <1>8 DEF Identify, RowOK
  <2>4. QED
        BY <1>5, <1>6, <2>1, <2>2, <2>3 DEF Waiting
<1>9. CASE Match(w)
  <2>1. UNCHANGED <<row, owner, placed, scored>>
        BY <1>9 DEF Match, rowVars, peopleVars
  <2>2. PICK t \in Targets(m, slot[w].seen) :
            /\ \E c \in CacheOrWarn("matches", target[m], t) : target' = [target EXCEPT ![m] = c]
            /\ slot' = [slot EXCEPT ![w].pc = "place", ![w].hit = t]
        BY <1>0, <1>9 DEF Match
  <2>3. t \in {"job", "empty"} /\ (target[m] # None => t = target[m] \/ (t = "empty" /\ ~open))
        BY <1>0, <2>2 DEF Targets, CacheOK
  <2>4. slot'[w].pc = "place" /\ slot'[w].hit = t
        BY <2>2 DEF WorkOK, SlotRecord
  <2>5. CASE target[m] = None
    <3>1. target' = [target EXCEPT ![m] = t]
          BY <2>2, <2>5 DEF CacheOrWarn
    <3>2. target'[m] = t /\ \A n \in Messages : target[n] = "job" => target'[n] = "job"
          BY <1>0, <2>5, <3>1, NoneAssumption DEF CacheOK
    <3>3. missed \subseteq missed'
          BY <1>9 DEF Match
    <3>4. QED
          BY <1>6, <2>1, <2>3, <2>4, <3>2, <3>3 DEF Waiting, Answered
  <2>6. CASE target[m] # None
    <3>1. target' = target
          BY <1>0, <2>2, <2>6 DEF CacheOrWarn, CacheOK
    <3>2. missed \subseteq missed' /\ (t # target[m] => m \in missed')
          BY <1>0, <1>9, <2>3, <2>6 DEF Match, CacheOK
    <3>3. QED
          BY <1>6, <2>1, <2>3, <2>4, <2>6, <3>1, <3>2 DEF Waiting, Answered
  <2>7. QED
        BY <2>5, <2>6
<1>10. CASE Place(w)
  <2>1. UNCHANGED <<row, owner, target, missed, scored>>
        BY <1>10 DEF Place, rowVars, cacheVars
  <2>2. Answered(m, slot[w].hit) /\ (slot[w].hit = "job" => target[m] = "job")
        BY <1>0, <1>10 DEF Place, MatchedInv, Answered
  <2>3. slot'[w].hit = slot[w].hit
        BY <1>10, WaysOut DEF Place
  <2>4. CASE slot[w].hit = "job"
    <3>1. slot'[w].pc = "score" /\ placed' = placed \cup {slot[w].seen}
          BY <1>10, <2>4, WaysOut DEF Place
    <3>2. PICK c : c = slot[w].seen
          OBVIOUS
    <3>3. Waiting(m, c)'
          BY <1>4, <2>1, <2>2, <2>4, <3>2 DEF Waiting, Unfinished, TERMINAL
    <3>4. QED
          BY <1>6, <2>1, <2>2, <2>3, <2>4, <3>1, <3>2, <3>3 DEF Waiting, Answered
  <2>5. CASE slot[w].hit = "empty"
    <3>1. slot'[w].pc = "complete" /\ placed' = placed
          BY <1>10, <2>5, WaysOut DEF Place
    <3>2. QED
          BY <1>6, <2>1, <2>2, <2>3, <2>5, <3>1 DEF Waiting, Answered
  <2>6. QED
        BY <1>10, <2>4, <2>5 DEF Place
<1>11. CASE Score(w)
  <2>1. UNCHANGED <<row, owner, target, missed, placed>> /\ scored' = scored \cup {slot[w].seen}
        BY <1>11 DEF Score, rowVars, cacheVars
  <2>2. slot[w].hit = "job" /\ Answered(m, slot[w].hit)
        BY <1>0, <1>11 DEF Score, MatchedInv
  <2>3. slot'[w].pc = "complete" /\ slot'[w].hit = slot[w].hit /\ slot'[w].seen = slot[w].seen
        BY <1>11, WaysOut DEF Score
  <2>4. QED
        BY <1>6, <2>1, <2>2, <2>3 DEF Waiting, Answered
<1>12. CASE Complete(w)
  <2>1. UNCHANGED <<owner, target, missed, placed, scored>>
        BY <1>12 DEF Complete, cacheVars, peopleVars
  <2>2. /\ slot'[w].pc \notin RunPhases
        /\ \A n \in Messages : n # m => row'[n] = row[n]
        BY <1>0, <1>1, <1>12, Finishing DEF Complete
  <2>3. target[m] = "job" => owner[m] \in scored \/ m \in missed
        BY <1>0, <1>4, <1>12 DEF Complete, MatchedInv, Answered
  <2>4. \A n \in Messages, c \in placed \ scored : Waiting(n, c) => Waiting(n, c)'
        BY <2>1, <2>2, <2>3 DEF Waiting
  <2>5. QED
        BY <1>6, <2>1, <2>2, <2>4 DEF RunPhases
<1>13. QED
      BY <1>7, <1>8, <1>9, <1>10, <1>11, <1>12 DEF PhaseStep

AnswersInv == SlotInv /\ DecidedInv /\ MatchedInv

LEMMA AnswersStep ==
    ASSUME SingleSlot, "verdicts" \notin Faults, "matches" \notin Faults
    PROVE  AnswersInv /\ [Next]_vars => AnswersInv'
<1> SUFFICES ASSUME AnswersInv, [Next]_vars PROVE AnswersInv'
    OBVIOUS
<1>1. SlotInv' /\ DecidedInv'
      BY SlotInvStep, DecidedStep DEF AnswersInv, SlotInv
<1>2. MatchedInv'
      BY <1>1, StepsElsewhere, MatchedElsewhere, MatchedPhase DEF AnswersInv, SlotInv
<1>3. QED
      BY <1>1, <1>2 DEF AnswersInv

\* With one slot, and as long as both caches can be written, an application without a score has an
\* unfinished intake behind it, or an attempt of that intake found the vacancy closed meanwhile:
\* however often vacancies close and open, no retry completes, for any other reason, an intake that
\* an earlier attempt placed and did not score.
THEOREM UnscoredKeepsItsIntake ==
    ASSUME SingleSlot, "verdicts" \notin Faults, "matches" \notin Faults
    PROVE  Spec => []UnscoredIsUnfinished
<1>1. Init => AnswersInv
      BY SlotInvInit, DecidedInit, MatchedInit DEF AnswersInv
<1>2. AnswersInv => UnscoredIsUnfinished
      BY DEF AnswersInv, MatchedInv, Waiting, UnscoredIsUnfinished
<1>3. QED
      BY <1>1, <1>2, AnswersStep, PTL DEF Spec
==============================================================================
