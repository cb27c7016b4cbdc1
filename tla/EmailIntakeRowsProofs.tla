----------------------- MODULE EmailIntakeRowsProofs -----------------------
(***************************************************************************)
(* No intake row is forgotten.  Nothing rescans rows that say "pending" or *)
(* "processing", so each of them must have a job, or somebody who is about *)
(* to add one.  This module shows that every step keeps it so, as long as  *)
(* the writes of the error paths succeed, the API process lives and no job *)
(* loses its lock more often than BullMQ re-runs it.                       *)
(***************************************************************************)
EXTENDS EmailIntakeProofs

\* A slot in the middle of process(): its job has not been answered for.
Working == RunPhases \cup {"read", "mark", "catch"}

Waits(j)   == queue[j].st \in {"wait", "active"}
Unheld(j)  == queue[j].st = "active" /\ \A w \in Workers : ~(slot[w].job = j /\ slot[w].locked)
Claimed(m) == \E a \in Admins : adm[a].pc = "add" /\ adm[a].m = m

\* A job stalls only after an expired lock or a crash, and once for each.
StallInv == \A j \in Jobs : /\ queue[j].stalls <= stops
                            /\ Unheld(j) => queue[j].stalls < stops

\* The job of a slot is not finished, even when BullMQ has put it back; the slot knows which
\* attempt it is.
BusyInv ==
    \A w \in Workers :
        /\ slot[w].pc = "idle" => slot[w].job = None
        /\ slot[w].pc # "idle" => slot[w].job \in Jobs /\ Waits(slot[w].job)
        /\ slot[w].pc \in Working => slot[w].attempt = queue[slot[w].job].made + 1

\* A replay id is used once: nobody else holds the one a replay is about to add.
KeyInv ==
    /\ \A m \in Messages, k \in JobKeys : k > used[m] => queue[<<m, k>>].st = "none"
    /\ \A a \in Admins : adm[a].pc = "add" =>
           adm[a].key \in 1 .. used[adm[a].m] /\ queue[<<adm[a].m, adm[a].key>>].st = "none"
    /\ \A q \in Requests : req[q].pc = "act" =>
           /\ req[q].key <= used[req[q].m]
           /\ req[q].act # "replay" => req[q].key = 0
           /\ req[q].act # "add" => queue[Base(req[q].m)].st # "none"
    /\ \A a, b \in Admins : adm[a].pc = "add" /\ adm[b].pc = "add" /\ adm[a].m = adm[b].m
                                /\ adm[a].key = adm[b].key => a = b
    /\ \A a \in Admins, q \in Requests :
           adm[a].pc = "add" /\ req[q].pc = "act" /\ adm[a].m = req[q].m => adm[a].key # req[q].key

MailInv == \A m \in Messages : mail[m] = "acked" => row[m] # "none"

\* An open row has a job, or a replay that is about to add one, or mail that will come again and
\* find that no job was ever added.  A slot whose job is about to end is no help to its row.
Covered(m) ==
    \/ \E k \in JobKeys : Waits(<<m, k>>)
    \/ Claimed(m)
    \/ mail[m] = "owed" /\ queue[Base(m)].st = "none"
CoveredWithout(j) ==
    \/ \E k \in JobKeys : <<j[1], k>> # j /\ Waits(<<j[1], k>>)
    \/ Claimed(j[1])
Ending(w) ==
    \/ slot[w].pc = "return"
    \/ slot[w].pc = "throw" /\ queue[slot[w].job].made + 1 >= Attempts
CoverInv ==
    /\ \A m \in Messages : row[m] = "processing" => \E k \in JobKeys : Waits(<<m, k>>)
    /\ \A m \in Messages : row[m] = "pending" => Covered(m)
    /\ \A w \in Workers : Ending(w) =>
           /\ row[Msg(w)] # "processing"
           /\ row[Msg(w)] = "pending" => CoveredWithout(slot[w].job)

StrandInv == StallInv /\ BusyInv /\ KeyInv /\ MailInv /\ CoverInv

\* The writes of the error paths succeed, the API process lives and mail can be parsed; locks
\* are lost no more often than a job may stall.
Attended == /\ Faults \cap {"write", "read", "api"} = {}
            /\ Unparseable = {}
            /\ MaxStops <= MaxStalled

LEMMA StrandInit == Init => StrandInv
<1> SUFFICES ASSUME Init PROVE StrandInv
    OBVIOUS
<1>1. \A j \in Jobs : queue[j] = NoJob
      BY DEF Init
<1>2. \A m \in Messages, k \in JobKeys : <<m, k>> \in Jobs
      BY DEF Jobs
<1>3. StallInv /\ BusyInv
      BY <1>1 DEF Init, StallInv, BusyInv, Unheld, NoJob, Free, Working, RunPhases
<1>4. KeyInv
      BY <1>1, <1>2 DEF Init, KeyInv, NoJob, IdleAdm, IdleReq
<1>5. MailInv /\ CoverInv
      BY DEF Init, MailInv, CoverInv, Ending, Free
<1>6. QED
      BY <1>3, <1>4, <1>5 DEF StrandInv

\* A job is a message and a key.
LEMMA JobParts ==
    ASSUME NEW j \in Jobs
    PROVE  j[1] \in Messages /\ j[2] \in JobKeys /\ j = <<j[1], j[2]>>
BY DEF Jobs
------------------------------------------------------------------------------
(* Steps within process().                                                   *)

KeepsJob(w) == /\ slot'[w].job = slot[w].job /\ slot'[w].locked = slot[w].locked
               /\ \A v \in Workers : v # w => slot'[v] = slot[v]

\* Slot w goes on, or leaves its row settled or parked, or leaves it to the next attempt.
Inner(w) ==
    /\ UNCHANGED <<queue, used, mail, req, adm, stops>>
    /\ slot[w].pc \in Working
    /\ KeepsJob(w)
    /\ \A n \in Messages : n # Msg(w) => row'[n] = row[n]
    /\ \/ slot'[w].pc \in Working /\ slot'[w].attempt = slot[w].attempt
       \/ slot'[w].pc \in {"return", "throw"} /\ row'[Msg(w)] \notin {"pending", "processing"}
       \/ slot'[w].pc = "throw" /\ slot[w].attempt < Attempts

LEMMA InnerKeeps ==
    ASSUME SingleSlot, TypeInv, StrandInv, NEW w \in Workers, Inner(w)
    PROVE  StallInv' /\ BusyInv' /\ KeyInv' /\ CoverInv'
<1> USE DEF StrandInv
<1>1. PICK j \in Jobs : j = slot[w].job
      BY DEF Inner, BusyInv, Working, RunPhases
<1>2. /\ slot[w].pc # "idle" /\ slot'[w].pc # "idle"
      BY DEF Inner, Working, RunPhases
<1>3. \A v \in Workers : v = w
      BY DEF SingleSlot
<1>4. slot'[w].job = j /\ slot'[w].locked = slot[w].locked /\ queue' = queue /\ stops' = stops
      BY <1>1 DEF Inner, KeepsJob
<1>5. StallInv'
      BY <1>1, <1>3, <1>4 DEF StallInv, Unheld
<1>6. BusyInv'
  <2>1. slot'[w].pc \in Working => slot'[w].attempt = queue'[j].made + 1
        BY <1>1, <1>4 DEF BusyInv, Inner, Working, RunPhases
  <2>2. Waits(j)'
        BY <1>1, <1>2, <1>4 DEF BusyInv, Waits
  <2>3. QED
        BY <1>1, <1>2, <1>3, <1>4, <2>1, <2>2 DEF BusyInv
<1>7. KeyInv'
      BY DEF KeyInv, Inner, Base
<1>8. Waits(j) /\ Msg(w) = j[1] /\ Msg(w)' = j[1]
      BY <1>1, <1>2, <1>4 DEF BusyInv, Msg
<1>9. \A m \in Messages : \/ row'[m] = row[m]
                          \/ m = j[1] /\ \E k \in JobKeys : Waits(<<m, k>>)
      BY <1>8, JobParts DEF Inner
<1>10. UNCHANGED <<queue, mail, adm>>
      BY DEF Inner
<1>11. \A m \in Messages : row'[m] = "processing" => \E k \in JobKeys : Waits(<<m, k>>)'
      BY <1>9, <1>10 DEF CoverInv, Waits
<1>12. \A m \in Messages : row'[m] = "pending" => Covered(m)'
      BY <1>9, <1>10 DEF CoverInv, Covered, Claimed, Waits, Base
<1>13. Ending(w)' => row'[j[1]] \notin {"pending", "processing"}
  <2>1. slot[w].attempt = queue[j].made + 1 /\ queue[j].made \in Nat
        BY <1>1 DEF Inner, BusyInv, TypeInv, QueueOK, JobRecord
  <2>2. slot'[w].pc = "throw" /\ slot[w].attempt < Attempts => ~Ending(w)'
        BY <1>4, <2>1, BoundsAssumption DEF Ending
  <2>3. slot'[w].pc \in Working => ~Ending(w)'
        BY DEF Ending, Working, RunPhases
  <2>4. QED
        BY <1>8, <2>2, <2>3 DEF Inner
<1>14. CoverInv'
      BY <1>3, <1>8, <1>11, <1>12, <1>13 DEF CoverInv
<1>15. QED
      BY <1>5, <1>6, <1>7, <1>14

\* What the three ways out of a phase do to its slot.
LEMMA Moves ==
    ASSUME WorkOK, NEW w \in Workers, NEW x
    PROVE  /\ Leave(w, x) => slot'[w].pc = x /\ KeepsJob(w)
           /\ Throw(w, x) => slot'[w].pc = "catch" /\ slot'[w].attempt = slot[w].attempt /\ KeepsJob(w)
           /\ Goto(w, x) => slot'[w].pc = x /\ slot'[w].attempt = slot[w].attempt /\ KeepsJob(w)
<1>1. Leave(w, x) => slot'[w].pc = x /\ KeepsJob(w)
      BY DEF Leave, WorkOK, Free, KeepsJob
<1>2. Throw(w, x) => slot'[w].pc = "catch" /\ slot'[w].attempt = slot[w].attempt /\ KeepsJob(w)
      BY DEF Throw, WorkOK, SlotRecord, KeepsJob
<1>3. Goto(w, x) => slot'[w].pc = x /\ slot'[w].attempt = slot[w].attempt /\ KeepsJob(w)
      BY DEF Goto, WorkOK, SlotRecord, KeepsJob
<1>4. QED
      BY <1>1, <1>2, <1>3

InnerAction(w) ==
    \/ ReadIntake(w) \/ MarkProcessing(w) \/ Catch(w)
    \/ \E kind \in {"upstream", "other"} : PhaseThrows(w, kind)
    \/ SpamAndGate(w) \/ Classify(w) \/ Identify(w) \/ Match(w) \/ Place(w) \/ Score(w) \/ Complete(w)

LEMMA InnerActions ==
    ASSUME Attended, TypeInv, BusyInv, NEW w \in Workers, InnerAction(w)
    PROVE  Inner(w)
<1> USE DEF TypeInv
<1>1. slot[w].pc \in Working
      BY DEF InnerAction, ReadIntake, MarkProcessing, Catch, PhaseThrows, SpamAndGate, Classify,
             Identify, Match, Place, Score, Complete, Working, RunPhases
<1>2. Msg(w) \in Messages
      BY <1>1 DEF WorkInv, SlotKnows, Working, RunPhases, Msg, Jobs
<1>3. UNCHANGED <<queue, used, mail, req, adm, stops>>
      BY DEF InnerAction, ReadIntake, MarkProcessing, Catch, PhaseThrows, SpamAndGate, Classify,
             Identify, Match, Place, Score, Complete, queueVars, mailVars
<1>4. \A s : row' = [row EXCEPT ![Msg(w)] = s] =>
          row'[Msg(w)] = s /\ \A n \in Messages : n # Msg(w) => row'[n] = row[n]
      BY <1>2 DEF RowOK
<1>5. "write" \notin Faults
      BY DEF Attended
<1>6. ASSUME NEW pc \in Working, Goto(w, pc), row' = row \/ \E s : row' = [row EXCEPT ![Msg(w)] = s]
      PROVE  Inner(w)
      BY <1>1, <1>3, <1>4, <1>6, Moves DEF Inner
<1>7. ASSUME NEW kind, Throw(w, kind), row' = row \/ \E s : row' = [row EXCEPT ![Msg(w)] = s]
      PROVE  Inner(w)
      BY <1>1, <1>3, <1>4, <1>7, Moves DEF Inner, Working
<1>8. ASSUME NEW s \in Status \ {"pending", "processing"}, NEW pc \in {"return", "throw"},
             Leave(w, pc), row' = [row EXCEPT ![Msg(w)] = s]
      PROVE  Inner(w)
      BY <1>1, <1>3, <1>4, <1>8, Moves DEF Inner
<1>9. ASSUME NEW s \in Status \ {"pending", "processing"}, Finish(w, s) PROVE Inner(w)
      BY <1>7, <1>8, <1>9 DEF Finish
<1>10. CASE ReadIntake(w)
  <2>1. CASE row[Msg(w)] \in TERMINAL /\ Leave(w, "return")
        BY <1>1, <1>3, <1>10, <2>1, Moves DEF Inner, ReadIntake, rowVars, TERMINAL
  <2>2. CASE slot' = [slot EXCEPT ![w].pc = "mark", ![w].seen = owner[Msg(w)]]
    <3>1. slot'[w].pc = "mark" /\ slot'[w].attempt = slot[w].attempt /\ KeepsJob(w)
          BY <2>2 DEF WorkOK, SlotRecord, KeepsJob
    <3>2. QED
          BY <1>1, <1>3, <1>10, <3>1 DEF Inner, ReadIntake, rowVars, Working
  <2>3. QED
        BY <1>10, <2>1, <2>2 DEF ReadIntake
<1>11. CASE MarkProcessing(w)
      BY <1>6, <1>11 DEF MarkProcessing, Working, RunPhases
<1>12. CASE Catch(w)
  <2>1. CASE slot[w].attempt >= Attempts
    <3>1. PICK s \in {"held", "failed"}, pc \in {"return", "throw"} :
              row' = [row EXCEPT ![Msg(w)] = s] /\ Leave(w, pc)
          BY <1>5, <1>12, <2>1 DEF Catch, WriteOrSwallow
    <3>2. QED
          BY <1>8, <3>1 DEF Status
  <2>2. CASE ~(slot[w].attempt >= Attempts)
    <3>1. Leave(w, "throw") /\ row' = row
          BY <1>12, <2>2 DEF Catch
    <3>2. slot[w].attempt < Attempts
          BY <2>2, BoundsAssumption DEF WorkOK, SlotRecord
    <3>3. QED
          BY <1>1, <1>3, <3>1, <3>2, Moves DEF Inner
  <2>3. QED
        BY <2>1, <2>2
<1>13. ASSUME NEW kind \in {"upstream", "other"}, PhaseThrows(w, kind) PROVE Inner(w)
      BY <1>7, <1>13 DEF PhaseThrows, rowVars
<1>14. CASE SpamAndGate(w)
      BY <1>6, <1>9, <1>14 DEF SpamAndGate, Status, Working, RunPhases
<1>15. CASE Classify(w)
      BY <1>6, <1>9, <1>15 DEF Classify, Status, Working, RunPhases
<1>16. CASE Identify(w)
  <2>1. row' = row
        BY <1>16 DEF Identify
  <2>2. slot'[w].pc = "match" /\ slot'[w].attempt = slot[w].attempt /\ KeepsJob(w)
    <3>1. CASE Goto(w, "match")
          BY <3>1, Moves
    <3>2. ASSUME NEW c, slot' = [slot EXCEPT ![w].pc = "match", ![w].seen = c]
          PROVE  slot'[w].pc = "match" /\ slot'[w].attempt = slot[w].attempt /\ KeepsJob(w)
          BY <3>2 DEF WorkOK, SlotRecord, KeepsJob
    <3>3. QED
          BY <1>16, <3>1, <3>2 DEF Identify
  <2>3. QED
        BY <1>1, <1>3, <2>1, <2>2 DEF Inner, Working, RunPhases
<1>17. CASE Match(w)
  <2>1. PICK t : slot' = [slot EXCEPT ![w].pc = "place", ![w].hit = t]
        BY <1>17 DEF Match
  <2>2. slot'[w].pc = "place" /\ slot'[w].attempt = slot[w].attempt /\ KeepsJob(w)
        BY <2>1 DEF WorkOK, SlotRecord, KeepsJob
  <2>3. QED
        BY <1>1, <1>3, <1>17, <2>2 DEF Inner, Match, rowVars, Working, RunPhases
<1>18. CASE Place(w) \/ Score(w)
      BY <1>6, <1>18 DEF Place, Score, rowVars, Working, RunPhases
<1>19. CASE Complete(w)
      BY <1>9, <1>19 DEF Complete, Status
<1>20. QED
      BY <1>10, <1>11, <1>12, <1>13, <1>14, <1>15, <1>16, <1>17, <1>18, <1>19 DEF InnerAction
------------------------------------------------------------------------------
(* Steps of the queue: a job is taken, answered for, or found without a lock. *)

\* What a step of the queue leaves to the other parts: no job comes or goes.
QueueOnly == /\ UNCHANGED <<row, used, mail, req, adm>>
             /\ \A j \in Jobs : queue'[j].st = "none" <=> queue[j].st = "none"

LEMMA QueueOnlyKeepsKeys == ASSUME TypeInv, KeyInv, QueueOnly PROVE KeyInv'
<1>1. /\ \A m \in Messages, k \in JobKeys : <<m, k>> \in Jobs
      /\ \A m \in Messages : Base(m) \in Jobs
      BY ZeroIsAKey DEF Jobs, Base
<1>2. \A a \in Admins : adm[a].pc = "add" => adm[a].m \in Messages /\ adm[a].key \in JobKeys
      BY DEF TypeInv, CallInv, CallsOK, AdmRecord
<1>3. \A q \in Requests : req[q].pc = "act" => req[q].m \in Messages
      BY DEF TypeInv, CallInv
<1>4. UNCHANGED <<used, req, adm>>
      BY DEF QueueOnly
<1>5. \A m \in Messages : Base(m)' = Base(m)
      BY DEF Base
<1>6. QED
      BY <1>1, <1>2, <1>3, <1>4, <1>5 DEF KeyInv, QueueOnly

\* As long as every job that waits goes on waiting, and no slot gets nearer to its end, rows are
\* covered as before.
LEMMA QueueOnlyKeepsCover ==
    ASSUME TypeInv, CoverInv, QueueOnly,
           \A j \in Jobs : Waits(j) => Waits(j)',
           \A w \in Workers : Ending(w)' => Ending(w) /\ slot'[w].job = slot[w].job,
           \A w \in Workers : Ending(w) => slot[w].job \in Jobs
    PROVE  CoverInv'
<1>1. /\ \A m \in Messages, k \in JobKeys : <<m, k>> \in Jobs
      /\ \A m \in Messages : Base(m) \in Jobs
      BY ZeroIsAKey DEF Jobs, Base
<1>2. UNCHANGED <<row, mail, adm>>
      BY DEF QueueOnly
<1>3. \A m \in Messages : Claimed(m)' <=> Claimed(m)
      BY <1>2 DEF Claimed
<1>4. \A m \in Messages : Covered(m) => Covered(m)'
      BY <1>1, <1>2, <1>3 DEF Covered, QueueOnly, Base
<1>5. \A j \in Jobs : CoveredWithout(j) => CoveredWithout(j)'
      BY <1>1, <1>3, JobParts DEF CoveredWithout
<1>6. \A m \in Messages : row'[m] = "processing" => \E k \in JobKeys : Waits(<<m, k>>)'
      BY <1>1, <1>2 DEF CoverInv
<1>7. \A m \in Messages : row'[m] = "pending" => Covered(m)'
      BY <1>2, <1>4 DEF CoverInv
<1>8. ASSUME NEW w \in Workers, Ending(w)'
      PROVE  (/\ row[Msg(w)] # "processing"
              /\ row[Msg(w)] = "pending" => CoveredWithout(slot[w].job))'
  <2>1. PICK j \in Jobs : j = slot[w].job /\ slot'[w].job = j
        BY <1>8
  <2>2. row[j[1]] # "processing" /\ (row[j[1]] = "pending" => CoveredWithout(j))
        BY <1>8, <2>1 DEF CoverInv, Msg
  <2>3. row'[j[1]] # "processing" /\ (row'[j[1]] = "pending" => CoveredWithout(j)')
        BY <1>2, <1>5, <2>2
  <2>4. QED
        BY <2>1, <2>3 DEF Msg, CoveredWithout
<1>9. QED
      BY <1>6, <1>7, <1>8 DEF CoverInv

LEMMA EndingHasJob == ASSUME BusyInv, NEW w \in Workers, Ending(w) PROVE slot[w].job \in Jobs
BY DEF BusyInv, Ending

LEMMA TakeKeeps ==
    ASSUME SingleSlot, TypeInv, StrandInv, NEW w \in Workers, NEW j \in Jobs, Take(w, j)
    PROVE  StallInv' /\ BusyInv' /\ KeyInv' /\ CoverInv'
<1> USE DEF StrandInv, TypeInv
<1>1. /\ queue[j].st = "wait" /\ queue'[j].st = "active"
      /\ queue'[j].made = queue[j].made /\ queue'[j].stalls = queue[j].stalls
      /\ \A i \in Jobs : i # j => queue'[i] = queue[i]
      BY DEF Take, QueueOK, JobRecord
<1>2. /\ slot[w].pc = "idle" /\ slot[w].job = None
      /\ slot'[w].pc = "read" /\ slot'[w].job = j /\ slot'[w].locked /\ slot'[w].attempt = queue[j].made + 1
      BY DEF Take, WorkOK, Free, BusyInv
<1>3. \A v \in Workers : v = w
      BY DEF SingleSlot
<1>4. stops' = stops
      BY DEF Take
<1>5. StallInv'
      BY <1>1, <1>2, <1>3, <1>4, NoneAssumption DEF StallInv, Unheld
<1>6. BusyInv'
      BY <1>1, <1>2, <1>3 DEF BusyInv, Waits
<1>7. QueueOnly
      BY <1>1 DEF QueueOnly, Take, mailVars, rowVars
<1>8. CoverInv'
  <2>1. \A v \in Workers : ~Ending(v)'
        BY <1>2, <1>3 DEF Ending
  <2>2. \A i \in Jobs : Waits(i) => Waits(i)'
        BY <1>1 DEF Waits
  <2>3. QED
        BY <1>7, <2>1, <2>2, EndingHasJob, QueueOnlyKeepsCover
<1>9. QED
      BY <1>5, <1>6, <1>7, <1>8, QueueOnlyKeepsKeys

\* The job of a slot ends with its run: its row is settled, or has another job or a claim.
LEMMA EndsKeep ==
    ASSUME SingleSlot, TypeInv, StrandInv, NEW w \in Workers, JobReturns(w) \/ JobThrows(w)
    PROVE  StallInv' /\ BusyInv' /\ KeyInv' /\ CoverInv'
<1> USE DEF StrandInv, TypeInv
<1>1. PICK j \in Jobs : j = slot[w].job /\ Waits(j)
      BY DEF BusyInv, JobReturns, JobThrows
<1>2. slot'[w] = Free
      BY DEF JobReturns, JobThrows, WorkOK
<1>3. \A v \in Workers : v = w
      BY DEF SingleSlot
<1>4. stops' = stops
      BY DEF JobReturns, JobThrows
<1>5. /\ \A i \in Jobs : i # j => queue'[i] = queue[i]
      /\ queue'[j].stalls = queue[j].stalls
      /\ slot[w].locked => queue'[j].st \in {"completed", "failed", "wait"}
      /\ ~slot[w].locked => queue'[j] = queue[j]
      /\ queue'[j].st # "none"
      BY <1>1 DEF JobReturns, JobThrows, JobOf, QueueOK, JobRecord, Waits
<1>6. StallInv'
      BY <1>1, <1>3, <1>4, <1>5 DEF StallInv, Unheld
<1>7. BusyInv'
      BY <1>2, <1>3 DEF BusyInv, Free, Working, RunPhases
<1>8. QueueOnly
      BY <1>1, <1>5 DEF QueueOnly, JobReturns, JobThrows, mailVars, rowVars, Waits
<1>9. CoverInv'
  <2>1. \A v \in Workers : ~Ending(v)'
        BY <1>2, <1>3 DEF Ending, Free
  <2>2. ~Ending(w) => Waits(j)'
        BY <1>1, <1>5 DEF Ending, JobReturns, JobThrows, JobOf, QueueOK, JobRecord, Waits
  <2>3. CASE Waits(j)'
    <3>1. \A i \in Jobs : Waits(i) => Waits(i)'
          BY <1>5, <2>3 DEF Waits
    <3>2. QED
          BY <1>8, <2>1, <3>1, EndingHasJob, QueueOnlyKeepsCover
  <2>4. CASE Ending(w)
    <3>1. /\ row[j[1]] # "processing"
          /\ row[j[1]] = "pending" => CoveredWithout(j)
          BY <1>1, <2>4 DEF CoverInv, Msg
    <3>2. \A i \in Jobs : i # j /\ Waits(i) => Waits(i)'
          BY <1>5 DEF Waits
    <3>3. UNCHANGED <<row, mail, adm>>
          BY <1>8 DEF QueueOnly
    <3>4. \A m \in Messages, k \in JobKeys : <<m, k>> \in Jobs /\ (m # j[1] => <<m, k>> # j)
          BY JobParts DEF Jobs
    <3>5. \A m \in Messages : Claimed(m)' <=> Claimed(m)
          BY <3>3 DEF Claimed
    <3>6. ASSUME NEW m \in Messages, row'[m] = "processing"
          PROVE  \E k \in JobKeys : Waits(<<m, k>>)'
      <4>1. m # j[1] /\ row[m] = "processing"
            BY <3>1, <3>3, <3>6
      <4>2. PICK k \in JobKeys : Waits(<<m, k>>)
            BY <4>1 DEF CoverInv
      <4>3. QED
            BY <3>2, <3>4, <4>1, <4>2
    <3>7. ASSUME NEW m \in Messages, row'[m] = "pending"
          PROVE  Covered(m)'
      <4>1. row[m] = "pending"
            BY <3>3, <3>7
      <4>2. CASE m = j[1]
        <5>1. CoveredWithout(j)
              BY <3>1, <4>1, <4>2
        <5>2. QED
              BY <3>2, <3>4, <3>5, <4>2, <5>1 DEF CoveredWithout, Covered
      <4>3. CASE m # j[1]
        <5>1. Covered(m)
              BY <4>1 DEF CoverInv
        <5>2. Base(m) \in Jobs /\ Base(m)' = Base(m)
              BY ZeroIsAKey DEF Base, Jobs
        <5>3. QED
              BY <1>8, <3>2, <3>3, <3>4, <3>5, <4>3, <5>1, <5>2 DEF Covered, QueueOnly
      <4>4. QED
            BY <4>2, <4>3
    <3>8. QED
          BY <2>1, <3>6, <3>7 DEF CoverInv
  <2>5. QED
        BY <2>2, <2>3, <2>4
<1>10. QED
      BY <1>6, <1>7, <1>8, <1>9, QueueOnlyKeepsKeys

\* A job without a lock has stalls to spare, so BullMQ puts it back.
LEMMA StalledKeeps ==
    ASSUME Attended, TypeInv, StrandInv, NEW j \in Jobs, StalledCheck(j)
    PROVE  StallInv' /\ BusyInv' /\ KeyInv' /\ CoverInv'
<1> USE DEF StrandInv, TypeInv
<1>1. Unheld(j) /\ queue[j].st = "active"
      BY DEF StalledCheck, Unheld
<1>2. queue[j].stalls < stops
      BY <1>1 DEF StallInv
<1>3. /\ queue[j].stalls \in Nat /\ stops \in 0 .. MaxStops
      BY DEF QueueOK, JobRecord, WorkOK
<1>4. ~(queue[j].stalls + 1 > MaxStalled)
      BY <1>2, <1>3, BoundsAssumption DEF Attended
<1>5. /\ queue'[j].st = "wait" /\ queue'[j].stalls = queue[j].stalls + 1
      /\ queue'[j].made = queue[j].made
      /\ \A i \in Jobs : i # j => queue'[i] = queue[i]
      BY <1>4 DEF StalledCheck, QueueOK, JobRecord
<1>6. UNCHANGED <<slot, stops>>
      BY DEF StalledCheck, workVars
<1>7. StallInv'
  <2>1. queue'[j].stalls <= stops
        BY <1>2, <1>3, <1>5, BoundsAssumption
  <2>2. QED
        BY <1>5, <1>6, <2>1 DEF StallInv, Unheld
<1>8. \A i \in Jobs : (Waits(i) => Waits(i)') /\ queue'[i].made = queue[i].made
      BY <1>5 DEF Waits
<1>9. BusyInv'
  <2>1. \A v \in Workers : slot[v].pc \in Working => slot[v].job \in Jobs
        BY DEF BusyInv, Working, RunPhases
  <2>2. QED
        BY <1>6, <1>8, <2>1 DEF BusyInv
<1>10. QueueOnly
      BY <1>1, <1>5 DEF QueueOnly, StalledCheck, mailVars, rowVars
<1>11. CoverInv'
  <2>1. \A v \in Workers : Ending(v)' => Ending(v)
    <3>1. \A v \in Workers : slot[v].pc = "throw" => slot[v].job \in Jobs
          BY DEF BusyInv
    <3>2. QED
          BY <1>6, <1>8, <3>1 DEF Ending
  <2>2. QED
        BY <1>6, <1>8, <1>10, <2>1, EndingHasJob, QueueOnlyKeepsCover
<1>12. QED
      BY <1>7, <1>9, <1>10, <1>11, QueueOnlyKeepsKeys

\* A lock or a worker is lost: from now on each job may stall once more.
LEMMA LossKeeps ==
    ASSUME SingleSlot, TypeInv, StrandInv, (\E w \in Workers : LockExpires(w)) \/ WorkerCrash
    PROVE  StallInv' /\ BusyInv' /\ KeyInv' /\ CoverInv'
<1> USE DEF StrandInv, TypeInv
<1>1. stops' = stops + 1 /\ queue' = queue /\ UNCHANGED <<row, used, mail, req, adm>>
      BY DEF LockExpires, WorkerCrash, queueVars, mailVars, rowVars
<1>2. StallInv'
  <2>1. \A j \in Jobs : queue[j].stalls < stops + 1 /\ queue[j].stalls <= stops + 1
    <3>1. stops \in Nat /\ \A j \in Jobs : queue[j].stalls \in Nat /\ queue[j].stalls <= stops
          BY BoundsAssumption DEF WorkOK, QueueOK, JobRecord, StallInv
    <3>2. QED
          BY <3>1
  <2>2. QED
        BY <1>1, <2>1 DEF StallInv
<1>3. \A v \in Workers : \/ slot'[v] = Free
                         \/ /\ slot'[v].pc = slot[v].pc /\ slot'[v].job = slot[v].job
                            /\ slot'[v].attempt = slot[v].attempt
      BY DEF LockExpires, WorkerCrash, WorkOK, SlotRecord
<1>4. BusyInv'
      BY <1>1, <1>3 DEF BusyInv, Waits, Free, Working, RunPhases
<1>5. QueueOnly
      BY <1>1 DEF QueueOnly
<1>6. CoverInv'
  <2>1. \A v \in Workers : Ending(v)' => Ending(v) /\ slot'[v].job = slot[v].job
        BY <1>1, <1>3 DEF Ending, Free
  <2>2. \A j \in Jobs : Waits(j) => Waits(j)'
        BY <1>1 DEF Waits
  <2>3. QED
        BY <1>5, <2>1, <2>2, EndingHasJob, QueueOnlyKeepsCover
<1>7. QED
      BY <1>2, <1>4, <1>5, <1>6, QueueOnlyKeepsKeys
------------------------------------------------------------------------------
(* Steps of the API process and of the backstop: the slots stand still.      *)

\* Jobs are added or put back, and none that waits is touched.
QueueGrows ==
    \A j \in Jobs : \/ queue'[j] = queue[j]
                    \/ /\ queue[j].st \in {"none", "failed"}
                       /\ queue'[j].st = "wait"
                       /\ queue'[j].stalls <= queue[j].stalls
Beside == UNCHANGED <<slot, stops>> /\ QueueGrows

LEMMA BesideKeepsSlots ==
    ASSUME StallInv, BusyInv, WorkOK, QueueOK, QueueOK', Beside
    PROVE  StallInv' /\ BusyInv'
<1>1. StallInv'
  <2>1. \A j \in Jobs : /\ queue[j].stalls \in Nat /\ stops \in Nat
                        /\ queue'[j].stalls <= queue[j].stalls \/ queue'[j] = queue[j]
        BY BoundsAssumption DEF QueueOK, WorkOK, JobRecord, Beside, QueueGrows
  <2>2. \A j \in Jobs : queue'[j] = queue[j] \/ (queue'[j].stalls <= stops /\ queue'[j].st = "wait")
    <3> TAKE j \in Jobs
    <3>1. CASE queue[j].st \in {"none", "failed"} /\ queue'[j].st = "wait" /\ queue'[j].stalls <= queue[j].stalls
      <4>1. queue[j].stalls <= stops
            BY DEF StallInv
      <4>2. queue'[j].stalls \in Nat
            BY DEF QueueOK, JobRecord
      <4>3. QED
            BY <2>1, <3>1, <4>1, <4>2
    <3>2. QED
          BY <3>1 DEF Beside, QueueGrows
  <2>3. stops' = stops /\ slot' = slot
        BY DEF Beside
  <2>4. QED
        BY <2>2, <2>3 DEF StallInv, Unheld
<1>2. BusyInv'
  <2>1. \A v \in Workers : slot[v].pc # "idle" => queue'[slot[v].job] = queue[slot[v].job]
        BY DEF BusyInv, Waits, Beside, QueueGrows
  <2>2. slot' = slot
        BY DEF Beside
  <2>3. QED
        BY <2>1, <2>2 DEF BusyInv, Waits, Working, RunPhases
<1>3. QED
      BY <1>1, <1>2

\* What such a step must not do to the rows: begin the processing of one, open one without a claim
\* or mail to come, or give up a claim or the last delivery of one that stays open.
LEMMA BesideKeepsCover ==
    ASSUME TypeInv, KnownInv, BusyInv, CoverInv, Beside,
           \A m \in Messages : row'[m] = "processing" => row[m] = "processing",
           \A m \in Messages : row'[m] = "pending" =>
               \/ row[m] = "pending"
               \/ Claimed(m)'
               \/ row[m] = "none" /\ mail'[m] = "owed" /\ queue'[Base(m)].st = "none",
           \A m \in Messages : row'[m] = "pending" /\ Claimed(m) =>
               \/ Claimed(m)'
               \/ \E k \in JobKeys : queue[<<m, k>>].st = "none" /\ Waits(<<m, k>>)',
           \A m \in Messages : row'[m] = "pending" /\ mail[m] = "owed" /\ queue[Base(m)].st = "none" =>
               \/ mail'[m] = "owed" /\ queue'[Base(m)].st = "none"
               \/ Waits(Base(m))'
    PROVE  CoverInv'
<1>1. \A j \in Jobs : Waits(j) => Waits(j)' /\ queue'[j] = queue[j]
      BY DEF Waits, Beside, QueueGrows
<1>2. /\ \A m \in Messages, k \in JobKeys : <<m, k>> \in Jobs
      /\ \A m \in Messages : Base(m) \in Jobs /\ Base(m) = <<m, 0>> /\ Base(m)' = <<m, 0>>
      BY ZeroIsAKey DEF Jobs, Base
<1>3. \A m \in Messages : row'[m] = "processing" => \E k \in JobKeys : Waits(<<m, k>>)'
      BY <1>1, <1>2 DEF CoverInv
<1>4. ASSUME NEW m \in Messages, row'[m] = "pending"
      PROVE  Covered(m)'
  <2>1. CASE row[m] = "pending"
    <3>1. Covered(m)
          BY <2>1 DEF CoverInv
    <3>2. QED
          BY <1>1, <1>2, <1>4, <3>1, ZeroIsAKey DEF Covered
  <2>2. CASE row[m] # "pending"
        BY <1>2, <1>4, <2>2 DEF Covered
  <2>3. QED
        BY <2>1, <2>2
<1>5. ASSUME NEW w \in Workers, Ending(w)'
      PROVE  (/\ row[Msg(w)] # "processing"
              /\ row[Msg(w)] = "pending" => CoveredWithout(slot[w].job))'
  <2>1. slot' = slot /\ slot[w].pc \in {"return", "throw"}
        BY <1>5 DEF Beside, Ending
  <2>2. PICK j \in Jobs : j = slot[w].job /\ slot'[w].job = j /\ Waits(j)
        BY <2>1 DEF BusyInv
  <2>3. Ending(w)
        BY <1>1, <1>5, <2>1, <2>2 DEF Ending
  <2>4. PICK m \in Messages : m = j[1] /\ Msg(w) = m /\ row[m] # "none"
        BY <2>1, <2>2, JobParts DEF Msg, KnownInv
  <2>5. row[m] # "processing" /\ (row[m] = "pending" => CoveredWithout(j))
        BY <2>2, <2>3, <2>4 DEF CoverInv
  <2>6. row'[m] = "pending" => CoveredWithout(j)'
    <3>1. CASE row'[m] = "pending" /\ row[m] = "pending"
      <4>1. CoveredWithout(j)
            BY <2>5, <3>1
      <4>2. ASSUME NEW k \in JobKeys, <<m, k>> # j, Waits(<<m, k>>)
            PROVE  CoveredWithout(j)'
            BY <1>1, <1>2, <2>4, <4>2 DEF CoveredWithout
      <4>3. CASE Claimed(m)
        <5>1. ASSUME NEW k \in JobKeys, queue[<<m, k>>].st = "none", Waits(<<m, k>>)'
              PROVE  CoveredWithout(j)'
              BY <2>2, <2>4, <5>1 DEF CoveredWithout, Waits
        <5>2. CASE Claimed(m)'
              BY <2>4, <5>2 DEF CoveredWithout
        <5>3. QED
              BY <3>1, <4>3, <5>1, <5>2
      <4>4. QED
            BY <2>4, <4>1, <4>2, <4>3 DEF CoveredWithout
    <3>2. CASE row'[m] = "pending" /\ row[m] # "pending"
          BY <2>4, <3>2 DEF CoveredWithout
    <3>3. QED
          BY <3>1, <3>2
  <2>7. row'[m] # "processing"
        BY <2>5
  <2>8. QED
        BY <2>2, <2>4, <2>6, <2>7 DEF Msg, CoveredWithout
<1>6. QED
      BY <1>3, <1>4, <1>5 DEF CoverInv

\* What add() and retry() may do to the queue.
LEMMA Adding ==
    ASSUME QueueOK, NEW j \in Jobs, NEW act,
           act = "retry" => queue[j].st = "failed", queue' = Enqueued(j, act)
    PROVE  /\ QueueGrows
           /\ \A i \in Jobs : i # j => queue'[i] = queue[i]
           /\ queue'[j].st # "none"
           /\ queue[j].st = "none" => Waits(j)'
<1>1. CASE act = "retry"
  <2>1. queue' = [queue EXCEPT ![j].st = "wait"] /\ queue[j].st = "failed"
        BY <1>1 DEF Enqueued
  <2>2. /\ queue'[j].st = "wait" /\ queue'[j].stalls = queue[j].stalls
        /\ \A i \in Jobs : i # j => queue'[i] = queue[i]
        BY <2>1 DEF QueueOK, JobRecord
  <2>3. queue[j].stalls <= queue[j].stalls
        BY DEF QueueOK, JobRecord
  <2>4. QED
        BY <2>1, <2>2, <2>3 DEF QueueGrows
<1>2. CASE act # "retry" /\ queue[j].st = "none"
  <2>1. queue' = [queue EXCEPT ![j] = NewJob]
        BY <1>2 DEF Enqueued
  <2>2. /\ queue'[j].st = "wait" /\ queue'[j].stalls = 0
        /\ \A i \in Jobs : i # j => queue'[i] = queue[i]
        BY <2>1 DEF QueueOK, NewJob, NoJob
  <2>3. 0 <= queue[j].stalls
        BY DEF QueueOK, JobRecord
  <2>4. QED
        BY <1>2, <2>2, <2>3 DEF QueueGrows, Waits
<1>3. CASE act # "retry" /\ queue[j].st # "none"
      BY <1>3 DEF Enqueued, QueueGrows
<1>4. QED
      BY <1>1, <1>2, <1>3

\* Claims and requests in flight name messages and keys.
LEMMA CallTypes ==
    ASSUME TypeInv
    PROVE  /\ \A a \in Admins : adm[a].pc = "add" => adm[a].m \in Messages /\ adm[a].key \in JobKeys
           /\ \A q \in Requests : req[q].pc # "idle" => req[q].m \in Messages
           /\ \A q \in Requests : req[q].key \in JobKeys
           /\ \A m \in Messages : used[m] \in JobKeys
           /\ \A k \in JobKeys : k \in Nat
           /\ \A m \in Messages, k \in JobKeys : <<m, k>> \in Jobs
           /\ \A m \in Messages : Base(m) \in Jobs /\ Base(m) = <<m, 0>>
BY ZeroIsAKey, BoundsAssumption
DEF TypeInv, CallInv, CallsOK, AdmRecord, ReqRecord, QueueOK, JobKeys, Jobs, Base

\* A request or a call that is not about to add leaves the keys alone.
LEMMA FewerCalls ==
    ASSUME KeyInv, UNCHANGED <<queue, used>>,
           \A a \in Admins : adm'[a].pc = "add" => adm'[a] = adm[a],
           \A q \in Requests : req'[q].pc = "act" => req'[q] = req[q]
    PROVE  KeyInv'
<1>1. \A m : Base(m)' = Base(m)
      BY DEF Base
<1>2. (\A m \in Messages, k \in JobKeys : k > used[m] => queue[<<m, k>>].st = "none")'
      BY DEF KeyInv
<1>3. (\A a \in Admins : adm[a].pc = "add" =>
           adm[a].key \in 1 .. used[adm[a].m] /\ queue[<<adm[a].m, adm[a].key>>].st = "none")'
      BY DEF KeyInv
<1>4. (\A q \in Requests : req[q].pc = "act" =>
           /\ req[q].key <= used[req[q].m]
           /\ req[q].act # "replay" => req[q].key = 0
           /\ req[q].act # "add" => queue[Base(req[q].m)].st # "none")'
      BY <1>1 DEF KeyInv, Base
<1>5. (\A a, b \in Admins : adm[a].pc = "add" /\ adm[b].pc = "add" /\ adm[a].m = adm[b].m
                                /\ adm[a].key = adm[b].key => a = b)'
      BY DEF KeyInv
<1>6. (\A a \in Admins, q \in Requests :
           adm[a].pc = "add" /\ req[q].pc = "act" /\ adm[a].m = req[q].m => adm[a].key # req[q].key)'
      BY DEF KeyInv
<1>7. QED
      BY <1>2, <1>3, <1>4, <1>5, <1>6 DEF KeyInv

\* Adding under a key that has been handed out disturbs no claim but one with that key.
LEMMA AddingKeepsKeys ==
    ASSUME TypeInv, KeyInv, UNCHANGED used, NEW m \in Messages, NEW k \in JobKeys,
           k <= used[m], queue'[<<m, k>>].st # "none" \/ queue' = queue,
           \A i \in Jobs : i # <<m, k>> => queue'[i] = queue[i],
           \A a \in Admins : adm'[a].pc = "add" => adm'[a] = adm[a],
           \A a \in Admins : adm'[a].pc = "add" /\ adm'[a].m = m => adm'[a].key # k,
           \A q \in Requests : req'[q].pc = "act" => req'[q] = req[q]
    PROVE  KeyInv'
<1>1. (\A n \in Messages, l \in JobKeys : l > used[n] => queue[<<n, l>>].st = "none")'
  <2> SUFFICES ASSUME NEW n \in Messages, NEW l \in JobKeys, l > used[n]
               PROVE  queue'[<<n, l>>].st = "none"
      OBVIOUS
  <2>1. <<n, l>> # <<m, k>> /\ <<n, l>> \in Jobs
        BY CallTypes
  <2>2. QED
        BY <2>1 DEF KeyInv
<1>2. (\A a \in Admins : adm[a].pc = "add" =>
           adm[a].key \in 1 .. used[adm[a].m] /\ queue[<<adm[a].m, adm[a].key>>].st = "none")'
  <2> SUFFICES ASSUME NEW a \in Admins, adm'[a].pc = "add"
               PROVE  adm'[a].key \in 1 .. used[adm'[a].m] /\ queue'[<<adm'[a].m, adm'[a].key>>].st = "none"
      OBVIOUS
  <2>1. PICK n \in Messages, l \in JobKeys : n = adm[a].m /\ l = adm[a].key /\ adm'[a] = adm[a]
        BY CallTypes
  <2>2. <<n, l>> # <<m, k>> /\ <<n, l>> \in Jobs
        BY <2>1, CallTypes
  <2>3. l \in 1 .. used[n] /\ queue[<<n, l>>].st = "none"
        BY <2>1 DEF KeyInv
  <2>4. QED
        BY <2>1, <2>2, <2>3
<1>3. (\A q \in Requests : req[q].pc = "act" =>
           /\ req[q].key <= used[req[q].m]
           /\ req[q].act # "replay" => req[q].key = 0
           /\ req[q].act # "add" => queue[Base(req[q].m)].st # "none")'
  <2> SUFFICES ASSUME NEW q \in Requests, req'[q].pc = "act"
               PROVE  /\ req'[q].key <= used[req'[q].m]
                      /\ req'[q].act # "replay" => req'[q].key = 0
                      /\ req'[q].act # "add" => queue'[Base(req'[q].m)].st # "none"
      BY DEF Base
  <2>1. PICK n \in Messages : n = req[q].m /\ req'[q] = req[q]
        BY CallTypes
  <2>2. Base(n) \in Jobs
        BY CallTypes
  <2>3. queue[Base(n)].st # "none" => queue'[Base(n)].st # "none"
        BY <2>2
  <2>4. QED
        BY <2>1, <2>3 DEF KeyInv
<1>4. (\A a, b \in Admins : adm[a].pc = "add" /\ adm[b].pc = "add" /\ adm[a].m = adm[b].m
                                /\ adm[a].key = adm[b].key => a = b)'
      BY DEF KeyInv
<1>5. (\A a \in Admins, q \in Requests :
           adm[a].pc = "add" /\ req[q].pc = "act" /\ adm[a].m = req[q].m => adm[a].key # req[q].key)'
      BY DEF KeyInv
<1>6. QED
      BY <1>1, <1>2, <1>3, <1>4, <1>5 DEF KeyInv
------------------------------------------------------------------------------
(* The webhook.                                                              *)

\* Somebody is asked to answer for every open row, whoever else is at work.
Steady == StallInv' /\ BusyInv' /\ KeyInv' /\ CoverInv'

LEMMA DeliverKeeps ==
    ASSUME SlotInv, TypeInv', StrandInv, NEW q \in Requests, NEW m \in Messages, Deliver(q, m)
    PROVE  Steady
<1> USE DEF StrandInv, SlotInv, TypeInv
<1>1. UNCHANGED <<row, queue, used, adm, slot, stops>>
      BY DEF Deliver, rowVars, queueVars, workVars
<1>2. Beside
      BY <1>1 DEF Beside, QueueGrows
<1>3. \A p \in Requests : req'[p].pc = "act" => req'[p] = req[p]
  <2>1. \E pc \in {"create", "ensure"} :
            \/ req' = [req EXCEPT ![q] = [IdleReq EXCEPT !.pc = pc, !.m = m]]
            \/ req' = [req EXCEPT ![q] = IdleReq]
        BY DEF Deliver, Answer200
  <2>2. req'[q].pc # "act" /\ \A p \in Requests : p # q => req'[p] = req[p]
    <3>1. PICK pc \in {"create", "ensure"} :
              \/ req' = [req EXCEPT ![q] = [IdleReq EXCEPT !.pc = pc, !.m = m]]
              \/ req' = [req EXCEPT ![q] = IdleReq]
          BY <2>1
    <3>2. IdleReq.pc = "idle" /\ [IdleReq EXCEPT !.pc = pc, !.m = m].pc = pc
          BY DEF IdleReq
    <3>3. QED
          BY <3>1, <3>2 DEF CallsOK
  <2>3. QED
        BY <2>2
<1>4. KeyInv'
      BY <1>1, <1>3, FewerCalls
<1>5. \A n \in Messages : mail'[n] = mail[n] \/ row[n] \notin {"none", "pending"}
      BY DEF Deliver, Answer200, MailOK
<1>6. \A n \in Messages : Claimed(n)' <=> Claimed(n)
      BY <1>1 DEF Claimed
<1>7. CoverInv'
      BY <1>1, <1>2, <1>5, <1>6, BesideKeepsCover DEF Base
<1>8. QED
      BY <1>2, <1>4, <1>7, BesideKeepsSlots DEF Steady

LEMMA CreateRowKeeps ==
    ASSUME SlotInv, TypeInv', StrandInv, NEW q \in Requests, CreateRow(q)
    PROVE  Steady
<1> USE DEF StrandInv, SlotInv, TypeInv
<1>1. UNCHANGED <<queue, used, mail, adm, slot, stops>>
      BY DEF CreateRow, queueVars, workVars, mailVars
<1>2. Beside
      BY <1>1 DEF Beside, QueueGrows
<1>3. \A p \in Requests : req'[p].pc = "act" => req'[p] = req[p]
      BY DEF CreateRow, CallsOK, ReqRecord
<1>4. KeyInv'
      BY <1>1, <1>3, FewerCalls
<1>5. \A n \in Messages : row'[n] = row[n] \/ (row[n] = "none" /\ row'[n] = "pending")
      BY DEF CreateRow, RowOK
<1>6. \A n \in Messages : row[n] = "none" => mail[n] = "owed" /\ queue[Base(n)].st = "none"
      BY CallTypes DEF MailInv, MailOK, KnownInv
<1>7. \A n \in Messages : (Claimed(n)' <=> Claimed(n)) /\ Base(n)' = Base(n)
      BY <1>1 DEF Claimed, Base
<1>8. CoverInv'
      BY <1>1, <1>2, <1>5, <1>6, <1>7, BesideKeepsCover
<1>9. QED
      BY <1>2, <1>4, <1>8, BesideKeepsSlots DEF Steady

LEMMA EnsureEnqueuedKeeps ==
    ASSUME SlotInv, TypeInv', StrandInv, NEW q \in Requests, EnsureEnqueued(q)
    PROVE  Steady
<1> USE DEF StrandInv, SlotInv, TypeInv
<1>1. UNCHANGED <<row, queue, adm, slot, stops>> /\ req[q].pc = "ensure"
      BY DEF EnsureEnqueued, rowVars, workVars
<1>2. Beside
      BY <1>1 DEF Beside, QueueGrows
<1>3. PICK m \in Messages : m = req[q].m
      BY <1>1, CallTypes
<1>4. Base(m) \in Jobs /\ used[m] \in Nat
      BY CallTypes
<1>5. \/ \* the job is there, and Mailgun gets its answer
         /\ UNCHANGED used /\ Waits(Base(m))
         /\ mail' = [mail EXCEPT ![m] = "acked"]
         /\ req' = [req EXCEPT ![q] = IdleReq]
      \/ \* what to do is decided
         /\ UNCHANGED mail
         /\ \E act \in {"add", "retry", "replay"}, key \in JobKeys :
                /\ req' = [req EXCEPT ![q].pc = "act", ![q].act = act, ![q].key = key]
                /\ act # "add" => queue[Base(m)].st # "none"
                /\ \/ act # "replay" /\ key = 0 /\ used' = used
                   \/ act = "replay" /\ key = used[m] + 1 /\ used' = [used EXCEPT ![m] = @ + 1]
  <2>1. used[m] < MaxReplays + MaxDeliveries => used[m] + 1 \in JobKeys
        BY <1>4, BoundsAssumption DEF JobKeys
  <2>2. QED
        BY <1>3, <2>1, ZeroIsAKey DEF EnsureEnqueued, Answer200, Waits
<1>6. \A n \in Messages : (Claimed(n)' <=> Claimed(n)) /\ Base(n)' = Base(n)
      BY <1>1 DEF Claimed, Base
<1>7. CoverInv'
  <2>1. \A n \in Messages : \/ mail'[n] = mail[n]
                            \/ queue[Base(n)].st # "none"
        BY <1>5 DEF MailOK, Waits
  <2>2. QED
        BY <1>1, <1>2, <1>6, <2>1, BesideKeepsCover
<1>8. KeyInv'
  <2>1. CASE UNCHANGED used /\ req' = [req EXCEPT ![q] = IdleReq]
    <3>1. \A p \in Requests : req'[p].pc = "act" => req'[p] = req[p]
          BY <2>1 DEF IdleReq, CallsOK
    <3>2. QED
          BY <1>1, <2>1, <3>1, FewerCalls
  <2>2. ASSUME NEW act \in {"add", "retry", "replay"}, NEW key \in JobKeys,
               req' = [req EXCEPT ![q].pc = "act", ![q].act = act, ![q].key = key],
               act # "add" => queue[Base(m)].st # "none",
               \/ act # "replay" /\ key = 0 /\ used' = used
               \/ act = "replay" /\ key = used[m] + 1 /\ used' = [used EXCEPT ![m] = @ + 1]
        PROVE  KeyInv'
    <3>1. /\ req'[q].pc = "act" /\ req'[q].act = act /\ req'[q].key = key /\ req'[q].m = m
          /\ \A p \in Requests : p # q => req'[p] = req[p]
          BY <1>3, <2>2 DEF CallsOK, ReqRecord
    <3>2. \A n \in Messages : used'[n] \in Nat /\ used[n] \in Nat /\ used'[n] >= used[n]
          BY <2>2, CallTypes DEF QueueOK
    <3>3. key <= used'[m] /\ (act # "replay" => key = 0)
          BY <1>4, <2>2, <3>2 DEF QueueOK
    <3>4. \A a \in Admins : adm[a].pc = "add" =>
              /\ adm[a].m \in Messages /\ adm[a].key \in 1 .. used[adm[a].m]
              /\ queue[<<adm[a].m, adm[a].key>>].st = "none"
          BY CallTypes DEF KeyInv
    <3>5. (\A n \in Messages, l \in JobKeys : l > used[n] => queue[<<n, l>>].st = "none")'
      <4>1. \A n \in Messages, l \in JobKeys : l > used'[n] => l > used[n]
            BY <3>2, CallTypes
      <4>2. QED
            BY <1>1, <4>1 DEF KeyInv
    <3>6. (\A a \in Admins : adm[a].pc = "add" =>
               adm[a].key \in 1 .. used[adm[a].m] /\ queue[<<adm[a].m, adm[a].key>>].st = "none")'
      <4>1. \A n \in Messages : \A x \in 1 .. used[n] : x \in 1 .. used'[n]
            BY <3>2
      <4>2. QED
            BY <1>1, <3>4, <4>1
    <3>7. (\A p \in Requests : req[p].pc = "act" =>
               /\ req[p].key <= used[req[p].m]
               /\ req[p].act # "replay" => req[p].key = 0
               /\ req[p].act # "add" => queue[Base(req[p].m)].st # "none")'
      <4>1. ASSUME NEW p \in Requests, p # q, req[p].pc = "act"
            PROVE  req[p].key <= used'[req[p].m]
        <5>1. PICK n \in Messages, l \in Nat : n = req[p].m /\ l = req[p].key
              BY <4>1, CallTypes
        <5>2. l <= used[n]
              BY <4>1, <5>1 DEF KeyInv
        <5>3. QED
              BY <3>2, <5>1, <5>2
      <4>2. \A p \in Requests : p # q /\ req'[p].pc = "act" =>
               /\ req'[p].key <= used'[req'[p].m]
               /\ req'[p].act # "replay" => req'[p].key = 0
               /\ req'[p].act # "add" => queue'[Base(req'[p].m)].st # "none"
            BY <1>1, <3>1, <4>1 DEF KeyInv
      <4>3. /\ req'[q].key <= used'[req'[q].m]
            /\ req'[q].act # "replay" => req'[q].key = 0
            /\ req'[q].act # "add" => queue'[Base(req'[q].m)].st # "none"
            BY <1>1, <2>2, <3>1, <3>3
      <4>4. QED
            BY <4>2, <4>3 DEF Base
    <3>8. (\A a, b \in Admins : adm[a].pc = "add" /\ adm[b].pc = "add" /\ adm[a].m = adm[b].m
                                    /\ adm[a].key = adm[b].key => a = b)'
          BY <1>1 DEF KeyInv
    <3>9. (\A a \in Admins, p \in Requests :
               adm[a].pc = "add" /\ req[p].pc = "act" /\ adm[a].m = req[p].m => adm[a].key # req[p].key)'
      <4>1. \A a \in Admins : adm[a].pc = "add" /\ adm[a].m = m => adm[a].key # key
        <5>1. key \notin 1 .. used[m]
              BY ONLY <1>4, <2>2
        <5>2. QED
              BY <3>4, <5>1
      <4>2. QED
            BY <1>1, <3>1, <4>1 DEF KeyInv
    <3>10. QED
          BY <3>5, <3>6, <3>7, <3>8, <3>9 DEF KeyInv
  <2>3. QED
        BY <1>5, <2>1, <2>2
<1>9. QED
      BY <1>2, <1>7, <1>8, BesideKeepsSlots DEF Steady

LEMMA ActOnQueueKeeps ==
    ASSUME SlotInv, TypeInv', StrandInv, NEW q \in Requests, ActOnQueue(q)
    PROVE  Steady
<1> USE DEF StrandInv, SlotInv, TypeInv
<1>1. UNCHANGED <<row, used, adm, slot, stops>> /\ req[q].pc = "act"
      BY DEF ActOnQueue, rowVars, workVars
<1>2. PICK m \in Messages, k \in JobKeys : m = req[q].m /\ k = req[q].key
      BY <1>1, CallTypes
<1>3. PICK j \in Jobs : j = <<m, k>>
      BY CallTypes
<1>4. PICK act : act = req[q].act
      OBVIOUS
<1>5. \/ queue' = Enqueued(j, act) /\ (act = "retry" => queue[j].st = "failed")
             /\ mail' \in {mail, [mail EXCEPT ![m] = "acked"]}
      \/ queue' = queue /\ mail' = mail
      BY <1>2, <1>3, <1>4 DEF ActOnQueue, Answer200
<1>6. \/ /\ QueueGrows
         /\ \A i \in Jobs : i # j => queue'[i] = queue[i]
         /\ queue'[j].st # "none"
         /\ queue[j].st = "none" => Waits(j)'
         /\ \A n \in Messages : n # m => mail'[n] = mail[n]
      \/ queue' = queue /\ mail' = mail
  <2>1. \A n \in Messages : n # m => mail'[n] = mail[n]
        BY <1>5 DEF MailOK
  <2>2. QED
        BY <1>5, <2>1, Adding
<1>7. Beside
      BY <1>1, <1>6 DEF Beside, QueueGrows
<1>8. req' = [req EXCEPT ![q] = IdleReq]
      BY DEF ActOnQueue, Answer200
<1>9. \A p \in Requests : req'[p].pc = "act" => req'[p] = req[p]
      BY <1>8 DEF IdleReq, CallsOK
<1>10. KeyInv'
  <2>1. k <= used[m]
        BY <1>1, <1>2 DEF KeyInv
  <2>2. \A a \in Admins : adm'[a].pc = "add" /\ adm'[a].m = m => adm'[a].key # k
        BY <1>1, <1>2 DEF KeyInv
  <2>3. \A a \in Admins : adm'[a].pc = "add" => adm'[a] = adm[a]
        BY <1>1
  <2>4. QED
        BY <1>1, <1>3, <1>6, <1>9, <2>1, <2>2, <2>3, AddingKeepsKeys
<1>11. CoverInv'
  <2>1. \A n \in Messages : (Claimed(n)' <=> Claimed(n)) /\ Base(n)' = Base(n)
        BY <1>1 DEF Claimed, Base
  <2>2. \A n \in Messages : n # m => Base(n) \in Jobs /\ Base(n) # j
        BY <1>3, CallTypes
  <2>3. queue[Base(m)].st = "none" => Base(m) = j
        BY <1>1, <1>2, <1>3, CallTypes DEF KeyInv
  <2>4. \A n \in Messages : mail[n] = "owed" /\ queue[Base(n)].st = "none" =>
               \/ mail'[n] = "owed" /\ queue'[Base(n)].st = "none"
               \/ Waits(Base(n))'
    <3> TAKE n \in Messages
    <3>1. CASE n # m
          BY <1>6, <2>2, <3>1
    <3>2. CASE n = m
          BY <1>6, <2>1, <2>3, <3>2 DEF Waits
    <3>3. QED
          BY <3>1, <3>2
  <2>5. QED
        BY <1>1, <1>7, <2>1, <2>4, BesideKeepsCover
<1>12. QED
      BY <1>7, <1>10, <1>11, BesideKeepsSlots DEF Steady
------------------------------------------------------------------------------
(* The operator and the backstop.                                            *)

LEMMA ReplayClaimKeeps ==
    ASSUME SlotInv, TypeInv', StrandInv, NEW a \in Admins, NEW m \in Messages, ReplayClaim(a, m)
    PROVE  Steady
<1>0. /\ \A n \in Messages : used[n] \in JobKeys /\ used[n] \in Nat
      /\ \A l \in JobKeys : l \in Nat
      BY CallTypes DEF SlotInv
<1> USE DEF StrandInv, SlotInv, TypeInv
<1>1. UNCHANGED <<queue, mail, req, slot, stops>> /\ adm[a].pc = "claim"
      BY DEF ReplayClaim, workVars, mailVars
<1>2. Beside
      BY <1>1 DEF Beside, QueueGrows
<1>3. \A n \in Messages : Base(n)' = Base(n)
      BY DEF Base
<1>4. CASE row[m] = "held" /\ used[m] < MaxReplays
  <2>1. PICK k \in JobKeys : k = used[m] + 1
        BY <1>4, CallTypes, BoundsAssumption DEF JobKeys
  <2>2. /\ row' = [row EXCEPT ![m] = "pending"]
        /\ used' = [used EXCEPT ![m] = k]
        /\ adm' = [adm EXCEPT ![a] = [pc |-> "add", list |-> adm[a].list \ {m}, m |-> m, key |-> k]]
    <3>1. /\ row' = [row EXCEPT ![m] = "pending"]
          /\ used' = [used EXCEPT ![m] = @ + 1]
          /\ adm' = [adm EXCEPT ![a] = [pc |-> "add", list |-> adm[a].list \ {m}, m |-> m,
                                        key |-> used[m] + 1]]
      <4>1. row[m] = "held" /\ ~(used[m] >= MaxReplays)
            BY <1>0, <1>4, BoundsAssumption
      <4>2. QED
            BY <4>1 DEF ReplayClaim
    <3>2. QED
          BY <2>1, <3>1
  <2>3. /\ adm'[a].pc = "add" /\ adm'[a].m = m /\ adm'[a].key = k
        /\ \A b \in Admins : b # a => adm'[b] = adm[b]
        BY <2>2 DEF CallsOK
  <2>4. CoverInv'
    <3>1. Claimed(m)' /\ \A n \in Messages : Claimed(n) => Claimed(n)'
          BY <1>1, <2>3 DEF Claimed
    <3>2. \A n \in Messages : n # m => row'[n] = row[n]
          BY <2>2 DEF RowOK
    <3>3. row'[m] = "pending"
          BY <2>2 DEF RowOK
    <3>4. QED
          BY <1>1, <1>2, <1>3, <3>1, <3>2, <3>3, BesideKeepsCover
  <2>5. /\ used'[m] = k /\ k \in Nat /\ used[m] \in Nat /\ used[m] < k
        /\ \A n \in Messages : n # m => used'[n] = used[n]
        BY <2>1, <2>2, CallTypes DEF QueueOK
  <2>6. (\A n \in Messages, l \in JobKeys : l > used[n] => queue[<<n, l>>].st = "none")'
    <3>1. \A n \in Messages, l \in JobKeys : l > used'[n] => l > used[n]
      <4> TAKE n \in Messages, l \in JobKeys
      <4>1. CASE n = m
            BY ONLY <1>0, <2>5, <4>1, l \in JobKeys
      <4>2. CASE n # m
            BY ONLY <2>5, <4>2, n \in Messages
      <4>3. QED
            BY <4>1, <4>2
    <3>2. QED
          BY <1>1, <3>1 DEF KeyInv
  <2>7. (\A b \in Admins : adm[b].pc = "add" =>
             adm[b].key \in 1 .. used[adm[b].m] /\ queue[<<adm[b].m, adm[b].key>>].st = "none")'
    <3>1. queue[<<m, k>>].st = "none" /\ k \in 1 .. used'[m]
          BY <2>1, <2>5 DEF KeyInv
    <3>2. ASSUME NEW b \in Admins, b # a, adm[b].pc = "add"
          PROVE  adm[b].key \in 1 .. used'[adm[b].m] /\ queue[<<adm[b].m, adm[b].key>>].st = "none"
      <4>1. PICK n \in Messages : n = adm[b].m
            BY <3>2, CallTypes
      <4>2. adm[b].key \in 1 .. used[n] /\ queue[<<n, adm[b].key>>].st = "none"
            BY <3>2, <4>1 DEF KeyInv
      <4>3. \A x \in 1 .. used[n] : x \in 1 .. used'[n]
        <5>1. used[n] \in Nat /\ used'[n] \in Nat /\ used[n] <= used'[n]
          <6>1. CASE n = m
                BY ONLY <2>5, <6>1
          <6>2. CASE n # m
                BY ONLY <1>0, <2>5, <6>2, n \in Messages
          <6>3. QED
                BY <6>1, <6>2
        <5>2. QED
              BY <5>1
      <4>4. QED
            BY <4>1, <4>2, <4>3
    <3>3. QED
          BY <1>1, <2>3, <3>1, <3>2
  <2>8. (\A q \in Requests : req[q].pc = "act" =>
             /\ req[q].key <= used[req[q].m]
             /\ req[q].act # "replay" => req[q].key = 0
             /\ req[q].act # "add" => queue[Base(req[q].m)].st # "none")'
    <3>1. ASSUME NEW q \in Requests, req[q].pc = "act"
          PROVE  req[q].key <= used'[req[q].m]
      <4>1. PICK n \in Messages, l \in Nat : n = req[q].m /\ l = req[q].key
            BY <3>1, CallTypes
      <4>2. l <= used[n] /\ used[n] \in Nat
            BY <3>1, <4>1, CallTypes DEF KeyInv
      <4>3. QED
            BY <2>5, <4>1, <4>2
    <3>2. QED
          BY <1>1, <3>1 DEF KeyInv, Base
  <2>9. (\A b, c \in Admins : adm[b].pc = "add" /\ adm[c].pc = "add" /\ adm[b].m = adm[c].m
                                  /\ adm[b].key = adm[c].key => b = c)'
    <3>1. \A b \in Admins : b # a /\ adm[b].pc = "add" /\ adm[b].m = m => adm[b].key # k
      <4>1. \A x \in 1 .. used[m] : x # k
            BY <2>5
      <4>2. QED
            BY <4>1 DEF KeyInv
    <3>2. QED
          BY <2>3, <3>1 DEF KeyInv
  <2>10. (\A b \in Admins, q \in Requests :
             adm[b].pc = "add" /\ req[q].pc = "act" /\ adm[b].m = req[q].m => adm[b].key # req[q].key)'
    <3>1. \A q \in Requests : req[q].pc = "act" /\ req[q].m = m => req[q].key # k
          BY <2>5, CallTypes DEF KeyInv
    <3>2. QED
          BY <1>1, <2>3, <3>1 DEF KeyInv
  <2>11. KeyInv'
         BY <2>6, <2>7, <2>8, <2>9, <2>10 DEF KeyInv
  <2>12. QED
         BY <1>2, <2>4, <2>11, BesideKeepsSlots DEF Steady
<1>5. CASE ~(row[m] = "held" /\ used[m] < MaxReplays)
  <2>1. UNCHANGED <<row, used>> /\ adm' = [adm EXCEPT ![a].list = adm[a].list \ {m}]
        BY <1>5 DEF ReplayClaim
  <2>2. adm'[a].pc = "claim" /\ \A b \in Admins : b # a => adm'[b] = adm[b]
        BY <1>1, <2>1 DEF CallsOK, AdmRecord
  <2>3. \A n \in Messages : Claimed(n) => Claimed(n)'
        BY <1>1, <2>2 DEF Claimed
  <2>4. KeyInv'
        BY <1>1, <2>1, <2>2, FewerCalls
  <2>5. CoverInv'
        BY <1>1, <1>2, <1>3, <2>1, <2>3, BesideKeepsCover
  <2>6. QED
        BY <1>2, <2>4, <2>5, BesideKeepsSlots DEF Steady
<1>6. QED
      BY <1>4, <1>5

LEMMA ReplayAddKeeps ==
    ASSUME Attended, SlotInv, TypeInv', StrandInv, NEW a \in Admins, ReplayAdd(a)
    PROVE  Steady
<1> USE DEF StrandInv, SlotInv, TypeInv
<1>1. UNCHANGED <<used, mail, req, slot, stops>> /\ adm[a].pc = "add"
      BY DEF ReplayAdd, workVars, mailVars
<1>2. PICK m \in Messages, k \in JobKeys : m = adm[a].m /\ k = adm[a].key
      BY <1>1, CallTypes
<1>3. PICK j \in Jobs : j = <<m, k>>
      BY CallTypes
<1>4. /\ adm' = [adm EXCEPT ![a].pc = "claim", ![a].m = None, ![a].key = 0]
      /\ \/ queue' = Enqueued(j, "add")
         \/ queue' = queue /\ row' = [row EXCEPT ![m] = IF @ = "pending" THEN "held" ELSE @]
      /\ row' \in {row, [row EXCEPT ![m] = IF @ = "pending" THEN "held" ELSE @]}
      BY <1>2, <1>3 DEF ReplayAdd, Attended
<1>5. adm'[a].pc = "claim" /\ \A b \in Admins : b # a => adm'[b] = adm[b]
      BY <1>4 DEF CallsOK, AdmRecord
<1>6. k \in 1 .. used[m] /\ queue[j].st = "none"
      BY <1>1, <1>2, <1>3 DEF KeyInv
<1>7. \/ /\ QueueGrows
         /\ \A i \in Jobs : i # j => queue'[i] = queue[i]
         /\ queue'[j].st # "none"
         /\ Waits(j)'
      \/ queue' = queue /\ row' = [row EXCEPT ![m] = IF @ = "pending" THEN "held" ELSE @]
      BY <1>4, <1>6, Adding
<1>8. Beside
      BY <1>1, <1>7 DEF Beside, QueueGrows
<1>9. KeyInv'
  <2>1. k <= used[m]
        BY <1>6, CallTypes
  <2>2. \A b \in Admins : adm'[b].pc = "add" /\ adm'[b].m = m => adm'[b].key # k
        BY <1>1, <1>2, <1>5 DEF KeyInv
  <2>3. QED
        BY <1>1, <1>3, <1>5, <1>7, <2>1, <2>2, AddingKeepsKeys
<1>10. CoverInv'
  <2>1. \A n \in Messages : row'[n] = row[n] \/ row'[n] = "held"
        BY <1>4 DEF RowOK
  <2>2. row'[m] = "pending" => Waits(<<m, k>>)' /\ queue[<<m, k>>].st = "none"
        BY <1>3, <1>4, <1>6, <1>7 DEF RowOK
  <2>3. \A n \in Messages : n # m /\ Claimed(n) => Claimed(n)'
        BY <1>2, <1>5 DEF Claimed
  <2>4. \A n \in Messages : Base(n)' = Base(n) /\ Base(n) \in Jobs /\ Base(n) # j
    <3>1. k # 0
          BY <1>6
    <3>2. QED
          BY <1>3, <3>1, CallTypes DEF Base
  <2>5. \A n \in Messages : queue'[Base(n)] = queue[Base(n)]
        BY <1>7, <2>4
  <2>6. QED
        BY <1>1, <1>8, <2>1, <2>2, <2>3, <2>4, <2>5, BesideKeepsCover
<1>11. QED
      BY <1>8, <1>9, <1>10, BesideKeepsSlots DEF Steady

\* Steps that add nothing, claim nothing, and open no row.
LEMMA RestKeeps ==
    ASSUME SlotInv, TypeInv', StrandInv, UNCHANGED <<queue, used, mail, req, slot, stops>>,
           \A n \in Messages : row'[n] = row[n] \/ row'[n] = "failed",
           \A b \in Admins : /\ adm'[b].pc = "add" => adm'[b] = adm[b]
                             /\ adm[b].pc = "add" => adm'[b] = adm[b]
    PROVE  Steady
<1> USE DEF StrandInv, SlotInv, TypeInv
<1>1. Beside
      BY DEF Beside, QueueGrows
<1>2. KeyInv'
      BY FewerCalls
<1>3. \A n \in Messages : (Claimed(n) => Claimed(n)') /\ Base(n)' = Base(n)
      BY DEF Claimed, Base
<1>4. CoverInv'
      BY <1>1, <1>3, BesideKeepsCover
<1>5. QED
      BY <1>1, <1>2, <1>4, BesideKeepsSlots DEF Steady

LEMMA StrandStep ==
    ASSUME SingleSlot, Attended
    PROVE  SlotInv /\ StrandInv /\ [Next]_vars => StrandInv'
<1> SUFFICES ASSUME SlotInv, StrandInv, [Next]_vars PROVE StrandInv'
    OBVIOUS
<1> USE DEF SlotInv
<1>1. TypeInv' /\ LedgerStep
      BY TypeStep, StepOfOneSlot
<1>2. ASSUME NEW w \in Workers, InnerAction(w) PROVE Steady
      BY <1>2, InnerActions, InnerKeeps DEF Steady, StrandInv
<1>3. ASSUME NEW w \in Workers, NEW j \in Jobs, Take(w, j) PROVE Steady
      BY <1>3, TakeKeeps DEF Steady
<1>4. ASSUME NEW w \in Workers, JobReturns(w) \/ JobThrows(w) PROVE Steady
      BY <1>4, EndsKeep DEF Steady
<1>5. ASSUME NEW j \in Jobs, StalledCheck(j) PROVE Steady
      BY <1>5, StalledKeeps DEF Steady
<1>6. ASSUME (\E w \in Workers : LockExpires(w)) \/ WorkerCrash PROVE Steady
      BY <1>6, LossKeeps DEF Steady
<1>7. ASSUME NEW q \in Requests, NEW m \in Messages, Deliver(q, m) PROVE Steady
      BY <1>1, <1>7, DeliverKeeps
<1>8. ASSUME NEW q \in Requests, CreateRow(q) PROVE Steady
      BY <1>1, <1>8, CreateRowKeeps
<1>9. ASSUME NEW q \in Requests, EnsureEnqueued(q) PROVE Steady
      BY <1>1, <1>9, EnsureEnqueuedKeeps
<1>10. ASSUME NEW q \in Requests, ActOnQueue(q) PROVE Steady
      BY <1>1, <1>10, ActOnQueueKeeps
<1>11. ASSUME NEW a \in Admins, NEW m \in Messages, ReplayClaim(a, m) PROVE Steady
      BY <1>1, <1>11, ReplayClaimKeeps
<1>12. ASSUME NEW a \in Admins, ReplayAdd(a) PROVE Steady
      BY <1>1, <1>12, ReplayAddKeeps
<1>13. ASSUME NEW a \in Admins, ReplayHeld(a) \/ ReplayDone(a) PROVE Steady
  <2>1. UNCHANGED <<row, queue, used, mail, req, slot, stops>>
        BY <1>13 DEF ReplayHeld, ReplayDone, rowVars, queueVars, mailVars, workVars
  <2>2. /\ adm[a].pc # "add" /\ adm'[a].pc # "add"
        /\ \A b \in Admins : b # a => adm'[b] = adm[b]
        BY <1>13 DEF ReplayHeld, ReplayDone, TypeInv, CallsOK, AdmRecord, IdleAdm
  <2>3. QED
        BY <1>1, <2>1, <2>2, RestKeeps
<1>14. ASSUME NEW e \in events, OnFailed(e) PROVE Steady
      BY <1>1, <1>14, RestKeeps DEF OnFailed, mailVars, workVars, TypeInv, RowOK
<1>15. ASSUME SetEnabled \/ SetOpen \/ UNCHANGED vars PROVE Steady
      BY <1>1, <1>15, RestKeeps DEF SetEnabled, SetOpen, vars, rowVars, queueVars, mailVars, workVars
<1>16. /\ \A m \in Messages : ~RecordRejected(m)
       /\ \A w \in Workers : ~ReadOrMarkFails(w)
       /\ ~ApiCrash
      BY DEF Attended, RecordRejected, ReadOrMarkFails, ApiCrash
<1>17. Steady
      BY <1>2, <1>3, <1>4, <1>5, <1>6, <1>7, <1>8, <1>9, <1>10, <1>11, <1>12, <1>13, <1>14,
         <1>15, <1>16
      DEF Next, Api, Run, Worker, Outside, InnerAction
<1>18. MailInv'
  <2>1. \A m \in Messages : mail'[m] = mail[m] \/ row[m] # "none"
    <3>1. ASSUME NEW q \in Requests, NEW m \in Messages, Deliver(q, m)
          PROVE  \A n \in Messages : mail'[n] = mail[n] \/ row[n] # "none"
          BY <3>1 DEF Deliver, Answer200, TypeInv, MailOK
    <3>2. ASSUME NEW q \in Requests, EnsureEnqueued(q) \/ ActOnQueue(q)
          PROVE  \A n \in Messages : mail'[n] = mail[n] \/ row[n] # "none"
          BY <3>2 DEF EnsureEnqueued, ActOnQueue, Answer200, TypeInv, MailOK, KnownInv
    <3>3. QED
          BY <1>16, <3>1, <3>2
          DEF Next, Api, Run, Worker, Outside, CreateRow, ReplayClaim, ReplayAdd, ReplayDone,
              ReadIntake, MarkProcessing, Catch, JobReturns, JobThrows, SpamAndGate, Classify,
              Identify, Match, Place, Score, Complete, Take, StalledCheck, OnFailed, ReplayHeld,
              SetEnabled, SetOpen, LockExpires, PhaseThrows, WorkerCrash, vars, mailVars
  <2>2. \A m \in Messages : row[m] # "none" => row'[m] # "none"
        BY <1>1, RowsStay
  <2>3. QED
        BY <2>1, <2>2 DEF StrandInv, MailInv
<1>19. QED
      BY <1>17, <1>18 DEF Steady, StrandInv

\* With one slot, as long as the writes of error paths succeed, the API process lives, mail can be
\* parsed and locks are lost no more often than a job may stall: no row is left saying "pending" or
\* "processing" with nobody to attend to it.  Redis may refuse commands and lose its replies, the
\* caches may refuse, settling writes may go unacknowledged, mail may come twice, and any number of
\* replays may be at work.
THEOREM NoRowIsStranded ==
    ASSUME SingleSlot, Attended
    PROVE  Spec => []NoStrandedRow
<1>1. Init => SlotInv /\ StrandInv
      BY SlotInvInit, StrandInit
<1>2. SlotInv /\ StrandInv /\ [Next]_vars => SlotInv' /\ StrandInv'
      BY SlotInvStep, StrandStep
<1>3. SlotInv /\ StrandInv => NoStrandedRow
  <2> SUFFICES ASSUME StrandInv, NEW m \in Messages, row[m] \in {"pending", "processing"}
               PROVE  \/ \E k \in JobKeys : queue[<<m, k>>].st \in {"wait", "active"}
                      \/ \E a \in Admins : adm[a].m = m
                      \/ mail[m] = "owed"
      BY DEF NoStrandedRow
  <2>1. QED
        BY DEF StrandInv, CoverInv, Covered, Claimed, Waits
<1>4. QED
      BY <1>1, <1>2, <1>3, PTL DEF Spec
==============================================================================
