---------------------- MODULE CandidateIdentityProofs ----------------------
(***************************************************************************)
(* Theorems about CandidateIdentity, for any number of submissions, manual *)
(* requests, candidates and addresses, and for both forms of the index.    *)
(* The invariant Inv has three parts: what every row satisfies by itself   *)
(* (Sound), what two rows and the two advisory locks guarantee (Twins,     *)
(* Locks), and what a script's plan may still rely on (PlanInv).  Two more *)
(* follow from it: which row a submission is filed under (Attributed), and *)
(* which numbers a script is about to clear (NumbersPlanned).              *)
(***************************************************************************)
EXTENDS CandidateIdentity, TLAPS

Blocked(e, p) == Mailbox(e) \in OfficeMail \/ p \in OfficePhones

\* What a row satisfies whatever the others are.
Sound(x) ==
    /\ x.status = "live" /\ x.job # None => x.job \in x.applied
    /\ x.status = "live" /\ x.text \in Files => x.file = x.text
    /\ x.status = "live" /\ Blocked(x.email, x.phone) => x.typed

Twins == MailboxTwinsTyped

Holds(m) == task[m].at \in {"locked", "checked"}

\* The mailbox lock and the phone lock have one holder each.
OneHolder ==
    \A m, n \in Messages : m # n =>
        /\ Holds(m) /\ Holds(n) /\ task[m].email # None =>
               Mailbox(task[m].email) # Mailbox(task[n].email)
        /\ task[m].at = "checked" /\ task[n].at = "checked" /\ task[m].phone # None =>
               task[m].phone # task[n].phone

\* What the check of m found out still holds, but for what a recruiter has typed since.
CheckHolds(m) ==
    /\ task[m].via # "email" /\ task[m].email # None =>
           \A r \in Live : Mail(r) = Mailbox(task[m].email) => cand[r].typed
    /\ task[m].via = "nothing" /\ task[m].phone # None =>
           \A r \in Live : cand[r].phone = task[m].phone /\ ~cand[r].typed =>
               ~Compatible(cand[r].email, task[m].email)
Locks ==
    /\ OneHolder
    /\ \A m \in Messages : task[m].at = "checked" => CheckHolds(m)
    /\ \A m \in Messages : task[m].at = "checked" /\ task[m].via = "email" => task[m].found # None
    /\ \A m \in Messages : ~Blocked(task[m].email, task[m].phone)

LogsLive == \A m \in Messages : log[m] # None => log[m] \in Live

Planned(r) == IF <<r, "email">> \in script.scrub THEN None ELSE Mail(r)
Agree(a, b) == a = None \/ b = None \/ a = b

\* What a plan may rely on: the rows it names exist or are gone for good, and those nobody
\* touched are still one person, or still hold what is to be cleared.
PlanInv ==
    /\ \A r \in Rows : r >= next => cand[r].status = "none"
    /\ \A f \in script.scrub : f[1] < next /\ (f[1] \in Live => cand[f[1]].typed)
    /\ \A f \in script.folds : f[1] < next /\ f[2] < next
    /\ \A f, g \in script.folds : f[1] # g[2]
    /\ \A r \in Rows : <<r, "email">> \in script.scrub /\ r \notin script.touched =>
           Mail(r) \in OfficeMail \cup {None}
    /\ \A f \in script.folds : {f[1], f[2]} \cap script.touched = {} =>
           Agree(Planned(f[1]), Planned(f[2]))
    /\ \A f, g \in script.folds : f[1] = g[1] /\ {f[1], f[2], g[2]} \cap script.touched = {} =>
           Agree(Planned(f[2]), Planned(g[2]))

Inv ==
    /\ TypeOK
    /\ \A r \in Rows : Sound(cand[r])
    /\ Twins
    /\ Locks
    /\ LogsLive
    /\ PlanInv

------------------------------------------------------------------------------
(* Rows.                                                                     *)

LEMMA MailboxNull == \A e \in Emails : Mailbox(e) = None <=> e = None
BY NullAssumption DEF Mailbox, Emails

LEMMA NullUnblocked == ~Blocked(None, None)
BY NullAssumption DEF Blocked, Mailbox

LEMMA UnblockedPair ==
    ASSUME NEW e, NEW p PROVE ~Blocked(Unblocked(e), UnblockedNumber(p))
BY NullAssumption DEF Blocked, Mailbox, Unblocked, UnblockedNumber

LEMMA NoRowSound ==
    /\ NoRow \in CandidateRow /\ [NoRow EXCEPT !.status = "gone"] \in CandidateRow
    /\ Sound(NoRow) /\ Sound([NoRow EXCEPT !.status = "gone"])
BY DEF NoRow, CandidateRow, Sound, Emails, Numbers

LEMMA InsertedSound ==
    ASSUME NEW m \in Messages, NEW t \in TaskRecord, ~Blocked(t.email, t.phone)
    PROVE  Inserted(m, t) \in CandidateRow /\ Sound(Inserted(m, t))
BY DataAssumption DEF Inserted, NoRow, CandidateRow, Sound, TaskRecord, Sources

LEMMA FilledSound ==
    ASSUME TypeOK, NEW r \in Rows, NEW t \in TaskRecord, ~Blocked(t.email, t.phone), Sound(cand[r])
    PROVE  FilledContacts(r, t) \in CandidateRow /\ Sound(FilledContacts(r, t))
<1> DEFINE e == FilledContacts(r, t).email
           p == FilledContacts(r, t).phone
<1>1. cand[r] \in CandidateRow
  BY DEF TypeOK
<1>2. t.email \in Emails /\ t.phone \in Numbers
  BY DEF TaskRecord
<1>3. e \in {cand[r].email, t.email} /\ p \in {cand[r].phone, t.phone}
  BY <1>1 DEF FilledContacts, Or, CandidateRow
<1>4. FilledContacts(r, t) = [cand[r] EXCEPT !.email = e, !.phone = p]
  BY <1>1 DEF FilledContacts, CandidateRow
<1> HIDE DEF e, p
<1>5. FilledContacts(r, t) \in CandidateRow
  BY <1>1, <1>2, <1>3, <1>4 DEF CandidateRow
<1>6. Blocked(e, p) => Blocked(cand[r].email, cand[r].phone)
  BY <1>3 DEF Blocked
<1> QED BY <1>1, <1>4, <1>5, <1>6 DEF CandidateRow, Sound

LEMMA MergedSound ==
    ASSUME NEW x \in CandidateRow, NEW m \in Sources \cup {None}, NEW f \in Sources \cup {None},
           m \in Files => f = m, NEW fromDocument, NEW doc, Sound(x)
    PROVE  Merged(x, m, f, fromDocument, doc) \in CandidateRow
           /\ Sound(Merged(x, m, f, fromDocument, doc))
<1> DEFINE y == Merged(x, m, f, fromDocument, doc)
<1>1. y = [x EXCEPT !.text = y.text, !.file = y.file]
  BY DEF Merged, CandidateRow
<1>2. \/ m # None /\ y.text = m /\ y.file = Or(f, x.file)
      \/ y.text = x.text /\ y.file = Or(x.file, f)
  BY DEF Merged, CandidateRow, Beside
<1> HIDE DEF y
<1>3. None \notin Files
  BY NullAssumption, DataAssumption
<1>4. y \in CandidateRow
  BY <1>1, <1>2 DEF CandidateRow, Or
<1>5. x.status = "live" /\ y.text \in Files => y.file = y.text
  BY <1>2, <1>3 DEF Sound, Or
<1> QED BY <1>1, <1>4, <1>5 DEF CandidateRow, Sound, y

LEMMA PlacedSound ==
    ASSUME NEW x \in CandidateRow, NEW j \in Jobs \cup {None}, Sound(x)
    PROVE  Placed(x, j) \in CandidateRow /\ Sound(Placed(x, j))
BY DEF Placed, CandidateRow, Sound, Or, Blocked

LEMMA FoldedSound ==
    ASSUME TypeOK, NEW s \in Live, NEW r \in Live, Sound(cand[s]), Sound(cand[r])
    PROVE  Folded(s, r) \in CandidateRow /\ Sound(Folded(s, r)) /\ Folded(s, r).status = "live"
<1> DEFINE y == Merged(cand[s], cand[r].text, cand[r].file, TRUE, None)
<1>1. cand[s] \in CandidateRow /\ cand[r] \in CandidateRow /\ cand[r].status = "live"
  BY DEF TypeOK, Live
<1>2. y \in CandidateRow /\ Sound(y)
  <2>1. cand[r].text \in Sources \cup {None} /\ cand[r].file \in Sources \cup {None}
    BY <1>1 DEF CandidateRow
  <2>2. cand[r].text \in Files => cand[r].file = cand[r].text
    BY <1>1 DEF Sound
  <2> QED BY <1>1, <2>1, <2>2, MergedSound
<1>3. y.status = "live" /\ y.applied = cand[s].applied
  BY <1>1 DEF Merged, CandidateRow, Live
<1> HIDE DEF y
<1>4. Folded(s, r) =
        [y EXCEPT !.email = Or(y.email, cand[r].email), !.phone = Or(y.phone, cand[r].phone),
                  !.typed = y.typed \/ cand[r].typed,
                  !.job = Or(y.job, cand[r].job), !.applied = y.applied \cup cand[r].applied]
  BY <1>1, <1>2, <1>3 DEF Folded, Applications, y, CandidateRow
<1>5. Sound(cand[r]) /\ cand[r].status = "live"
  BY <1>1
<1> DEFINE z == Folded(s, r)
<1>6. z \in CandidateRow /\ z.status = "live"
  <2>1. Or(y.email, cand[r].email) \in Emails /\ Or(y.phone, cand[r].phone) \in Numbers
    BY <1>1, <1>2 DEF CandidateRow, Or
  <2>2. Or(y.job, cand[r].job) \in Jobs \cup {None}
    BY <1>1, <1>2 DEF CandidateRow, Or
  <2>3. y.applied \cup cand[r].applied \in SUBSET Jobs /\ (y.typed \/ cand[r].typed) \in BOOLEAN
    BY <1>1, <1>2 DEF CandidateRow
  <2> QED BY <1>2, <1>3, <1>4, <2>1, <2>2, <2>3 DEF CandidateRow
<1>7. z.job # None => z.job \in z.applied
  BY <1>1, <1>2, <1>3, <1>4, <1>5 DEF CandidateRow, Sound, Or
<1>8. z.text \in Files => z.file = z.text
  BY <1>1, <1>2, <1>3, <1>4 DEF CandidateRow, Sound
<1>9. Blocked(z.email, z.phone) => z.typed
  <2>1. z.email \in {y.email, cand[r].email} /\ z.phone \in {y.phone, cand[r].phone}
    BY <1>1, <1>2, <1>4 DEF CandidateRow, Or
  <2>2. z.typed <=> y.typed \/ cand[r].typed
    BY <1>1, <1>2, <1>4 DEF CandidateRow
  <2>3. /\ Blocked(y.email, y.phone) => y.typed
        /\ Blocked(cand[r].email, cand[r].phone) => cand[r].typed
    BY <1>2, <1>3, <1>5 DEF Sound
  <2> QED BY <2>1, <2>2, <2>3 DEF Blocked
<1> QED BY <1>6, <1>7, <1>8, <1>9 DEF Sound

------------------------------------------------------------------------------
(* Types, rows by themselves, and intake logs.                               *)

\* One row is written: what it becomes is all there is to check.
LEMMA RowWritten ==
    ASSUME TypeOK, \A r \in Rows : Sound(cand[r]), NEW r \in Rows, NEW x \in CandidateRow,
           Sound(x), cand' = [cand EXCEPT ![r] = x]
    PROVE  /\ cand' \in [Rows -> CandidateRow]
           /\ \A q \in Rows : Sound(cand'[q])
           /\ x.status = "live" => Live \subseteq Live'
           /\ Live \ {r} \subseteq Live'
BY DEF TypeOK, Live

Basics == TypeOK /\ (\A r \in Rows : Sound(cand[r])) /\ LogsLive

LEMMA LockMailboxBasics ==
    ASSUME Inv, NEW m \in Messages, LockMailbox(m)
    PROVE  Basics' /\ \A n \in Messages : ~Blocked(task'[n].email, task'[n].phone)
<1>1. PICK x \in Extracted[m] :
          task' = [task EXCEPT ![m] =
              [IF task[m].at = "again" THEN task[m] ELSE
               [task[m] EXCEPT !.email = Unblocked(x[1]), !.phone = UnblockedNumber(x[2])]
               EXCEPT !.at = "locked"]]
  BY DEF LockMailbox
<1>2. x \in (Addresses \cup {None}) \X (Phones \cup {None})
  BY DataAssumption
<1>3. task[m] \in TaskRecord
  BY DEF Inv, TypeOK
<1>4. Unblocked(x[1]) \in Emails /\ UnblockedNumber(x[2]) \in Numbers
  BY <1>2 DEF Unblocked, UnblockedNumber, Emails, Numbers
<1>5. task' \in [Messages -> TaskRecord]
  BY <1>1, <1>3, <1>4 DEF Inv, TypeOK, TaskRecord
<1>6. \/ task'[m].email = task[m].email /\ task'[m].phone = task[m].phone
      \/ task'[m].email = Unblocked(x[1]) /\ task'[m].phone = UnblockedNumber(x[2])
  BY <1>1, <1>3 DEF Inv, TypeOK, TaskRecord
<1>7. \A n \in Messages : ~Blocked(task'[n].email, task'[n].phone)
  <2> TAKE n \in Messages
  <2>1. CASE n = m
    BY <1>6, <2>1, UnblockedPair DEF Inv, Locks
  <2>2. CASE n # m
    BY <1>1, <2>2 DEF Inv, Locks, TypeOK
  <2> QED BY <2>1, <2>2
<1> QED BY <1>5, <1>7 DEF Inv, TypeOK, Basics, LockMailbox, LogsLive, Live

LEMMA CheckBasics ==
    ASSUME Inv, NEW m \in Messages, Check(m)
    PROVE  Basics'
<1>1. PICK r \in Rows \cup {None}, via \in {"nothing", "unsure", "email", "phone"} :
          task' = [task EXCEPT ![m] = [task[m] EXCEPT !.at = "checked", !.found = r, !.via = via]]
  BY DEF Check
<1>2. task' \in [Messages -> TaskRecord]
  BY <1>1 DEF Inv, TypeOK, TaskRecord
<1> QED BY <1>2 DEF Inv, TypeOK, Basics, Check, LogsLive, Live

LEMMA TouchTypes ==
    ASSUME TypeOK, Touch PROVE script' \in ScriptRecord
BY DEF TypeOK, Touch, ScriptRecord, Live

LEMMA FileBasics ==
    ASSUME Inv, NEW m \in Messages, File(m)
    PROVE  Basics'
<1> DEFINE t == task[m]
           r == IF t.found = None THEN next ELSE t.found
<1>1. t \in TaskRecord /\ ~Blocked(t.email, t.phone)
  BY DEF Inv, TypeOK, Locks
<1>2. r \in Rows /\ next' \in 1 .. MaxRows + 1
  BY <1>1, BoundsAssumption DEF File, Inv, TypeOK, TaskRecord, Rows, Live
<1>3. PICK x \in CandidateRow : Sound(x) /\ x.status = "live" /\ cand' = [cand EXCEPT ![r] = x]
  <2>1. CASE t.found = None
    BY <1>1, <2>1, InsertedSound, NullAssumption DEF File, Inserted, NoRow
  <2>2. CASE t.found # None
    <3>1. /\ r \in Rows /\ cand[r].status = "live" /\ cand[r] \in CandidateRow /\ Sound(cand[r])
          /\ cand' = [cand EXCEPT ![r] = FilledContacts(r, t)]
      BY <1>1, <1>2, <2>2 DEF File, Inv, Live, TypeOK
    <3>2. FilledContacts(r, t).status = "live"
      BY <3>1 DEF FilledContacts, CandidateRow
    <3> QED BY <1>1, <3>1, <3>2, FilledSound DEF Inv
  <2> QED BY <2>1, <2>2
<1>4. /\ cand' \in [Rows -> CandidateRow] /\ \A q \in Rows : Sound(cand'[q])
      /\ Live \subseteq Live' /\ r \in Live'
  BY <1>2, <1>3, RowWritten DEF Inv, Live, TypeOK
<1>5. log' = [log EXCEPT ![m] = r]
      /\ task' = [task EXCEPT ![m] = [t EXCEPT !.at = "filed", !.found = r, !.via = "nothing"]]
      /\ hand' = hand /\ budget' = budget
  BY DEF File
<1>6. script' \in ScriptRecord
  BY TouchTypes DEF File, Inv
<1> HIDE DEF r
<1>7. task' \in [Messages -> TaskRecord]
  BY <1>1, <1>2, <1>5 DEF Inv, TypeOK, TaskRecord
<1>8. log' \in [Messages -> Rows \cup {None}]
  BY <1>2, <1>5 DEF Inv, TypeOK
<1>9. LogsLive'
  BY <1>4, <1>5 DEF Inv, TypeOK, LogsLive
<1> QED BY <1>2, <1>4, <1>5, <1>6, <1>7, <1>8, <1>9 DEF Inv, TypeOK, Basics

LEMMA FileFailsBasics ==
    ASSUME Inv, NEW m \in Messages, FileFails(m)
    PROVE  Basics'
<1>1. task' \in [Messages -> TaskRecord]
  BY DEF Inv, TypeOK, TaskRecord, FileFails
<1> QED BY <1>1 DEF Inv, TypeOK, Basics, FileFails, LogsLive, Live

LEMMA EnrichBasics ==
    ASSUME Inv, NEW m \in Messages, Enrich(m)
    PROVE  Basics'
<1> DEFINE r == task[m].found
           y == Merged(cand[r], m, IF m \in Files THEN m ELSE None, Document[m] # None, Document[m])
<1>1. r \in Rows /\ cand[r] \in CandidateRow /\ cand[r].status = "live" /\ Sound(cand[r])
  BY DEF Enrich, Inv, TypeOK, Live
<1>2. y \in CandidateRow /\ Sound(y)
  BY <1>1, MergedSound DEF Sources
<1>3. Placed(y, Target[m]) \in CandidateRow /\ Sound(Placed(y, Target[m]))
  BY <1>2, PlacedSound, DataAssumption
<1>4. Placed(y, Target[m]).status = "live"
  BY <1>1, <1>2 DEF Placed, Merged, CandidateRow
<1>5. cand' = [cand EXCEPT ![r] = Placed(y, Target[m])]
  BY DEF Enrich
<1>6. /\ cand' \in [Rows -> CandidateRow] /\ \A q \in Rows : Sound(cand'[q])
      /\ Live \subseteq Live'
  BY <1>1, <1>3, <1>4, <1>5, RowWritten DEF Inv
<1>7. task' \in [Messages -> TaskRecord]
  BY DEF Inv, TypeOK, TaskRecord, Enrich, NewTask, Emails, Numbers
<1>8. LogsLive'
  BY <1>6 DEF Inv, LogsLive, Enrich
<1> QED BY <1>6, <1>7, <1>8 DEF Inv, TypeOK, Basics, Enrich

LEMMA RerunBasics ==
    ASSUME Inv, NEW m \in Messages, Rerun(m)
    PROVE  Basics'
<1>1. task' \in [Messages -> TaskRecord]
  BY DEF Inv, TypeOK, TaskRecord, Rerun
<1> QED BY <1>1 DEF Inv, TypeOK, Basics, Rerun, LogsLive, Live

LEMMA HandBasics ==
    ASSUME Inv, NEW t \in Tasks, HandCheck(t) \/ HandInsert(t)
    PROVE  Basics'
<1>1. CASE HandCheck(t)
  <2>1. PICK x \in Entered :
            hand' = [hand EXCEPT ![t] = [at |-> "checked", email |-> x[1], phone |-> x[2]]]
    BY <1>1 DEF HandCheck
  <2>2. x[1] \in Emails /\ x[2] \in Numbers
    BY DataAssumption DEF Emails, Numbers
  <2>3. hand' \in [Tasks -> HandRecord]
    BY <2>1, <2>2 DEF Inv, TypeOK, HandRecord
  <2> QED BY <1>1, <2>3 DEF HandCheck, Inv, TypeOK, Basics, LogsLive, Live
<1>2. CASE HandInsert(t)
  <2>1. hand' \in [Tasks -> HandRecord]
    BY <1>2 DEF HandInsert, Inv, TypeOK, HandRecord, NoHand, Emails, Numbers
  <2>2. CASE UNCHANGED <<cand, next>>
    BY <1>2, <2>1, <2>2 DEF HandInsert, Inv, TypeOK, Basics, LogsLive, Live
  <2>3. CASE ~UNCHANGED <<cand, next>>
    <3>1. PICK j \in Jobs, f \in {None, Upload} :
            cand' = [cand EXCEPT ![next] =
                     [NoRow EXCEPT !.status = "live", !.email = hand[t].email,
                                   !.phone = hand[t].phone, !.typed = TRUE,
                                   !.job = j, !.applied = {j}, !.file = f]]
      BY <1>2, <2>3 DEF HandInsert
    <3>2. next \in Rows /\ next' \in 1 .. MaxRows + 1
      <4>1. next <= MaxRows /\ next' = next + 1 /\ next \in 1 .. MaxRows + 1
        BY <1>2, <2>3 DEF HandInsert, Inv, TypeOK
      <4> QED BY ONLY <4>1, BoundsAssumption DEF Rows
    <3> DEFINE x == [NoRow EXCEPT !.status = "live", !.email = hand[t].email,
                                  !.phone = hand[t].phone, !.typed = TRUE,
                                  !.job = j, !.applied = {j}, !.file = f]
    <3>3. x \in CandidateRow /\ Sound(x) /\ x.status = "live"
      BY NullAssumption, DataAssumption
      DEF NoRow, CandidateRow, Sound, Inv, TypeOK, HandRecord, Sources, Emails, Numbers
    <3> HIDE DEF x
    <3>4. /\ cand' \in [Rows -> CandidateRow] /\ \A q \in Rows : Sound(cand'[q])
          /\ Live \subseteq Live'
      BY <3>1, <3>2, <3>3, RowWritten DEF Inv, x
    <3> QED BY <1>2, <2>1, <3>2, <3>4 DEF HandInsert, Inv, TypeOK, Basics, LogsLive
  <2> QED BY <2>2, <2>3
<1> QED BY <1>1, <1>2

LEMMA EditsSpent ==
    ASSUME TypeOK, budget.edits < MaxEdits, budget' = [budget EXCEPT !.edits = @ + 1]
    PROVE  budget' \in [edits : 0 .. MaxEdits, scripts : 0 .. MaxScripts]
BY BoundsAssumption DEF TypeOK

LEMMA ByHandBasics ==
    ASSUME Inv, NEW r \in Rows, EditContact(r) \/ UploadCv(r) \/ Delete(r)
    PROVE  Basics'
<1>1. r \in Rows /\ cand[r] \in CandidateRow /\ cand[r].status = "live" /\ Sound(cand[r])
  BY DEF EditContact, UploadCv, Delete, Inv, TypeOK, Live
<1>2. budget' \in [edits : 0 .. MaxEdits, scripts : 0 .. MaxScripts]
  BY EditsSpent DEF EditContact, UploadCv, Delete, Inv
<1>3. CASE EditContact(r)
  <2>1. PICK x \in Entered :
            cand' = [cand EXCEPT ![r].email = x[1], ![r].phone = x[2], ![r].typed = TRUE]
    BY <1>3 DEF EditContact
  <2>2. x[1] \in Emails /\ x[2] \in Numbers
    BY DataAssumption DEF Emails, Numbers
  <2> DEFINE y == [cand[r] EXCEPT !.email = x[1], !.phone = x[2], !.typed = TRUE]
  <2>3. y \in CandidateRow /\ Sound(y) /\ y.status = "live"
    BY <1>1, <2>2 DEF CandidateRow, Sound
  <2>4. cand' = [cand EXCEPT ![r] = y]
    BY <2>1
  <2> HIDE DEF y
  <2>5. /\ cand' \in [Rows -> CandidateRow] /\ \A q \in Rows : Sound(cand'[q])
        /\ Live \subseteq Live'
    BY <1>1, <2>3, <2>4, RowWritten DEF Inv
  <2> QED BY <1>2, <1>3, <2>5, TouchTypes DEF EditContact, Inv, TypeOK, Basics, LogsLive
<1>4. CASE UploadCv(r)
  <2>1. PICK text \in {None, Upload} : cand' = [cand EXCEPT ![r].text = text, ![r].file = Upload]
    BY <1>4 DEF UploadCv
  <2> DEFINE y == [cand[r] EXCEPT !.text = text, !.file = Upload]
  <2>2. y \in CandidateRow /\ Sound(y) /\ y.status = "live"
    BY <1>1, NullAssumption, DataAssumption DEF CandidateRow, Sound, Sources
  <2>3. cand' = [cand EXCEPT ![r] = y]
    BY <2>1
  <2> HIDE DEF y
  <2>4. /\ cand' \in [Rows -> CandidateRow] /\ \A q \in Rows : Sound(cand'[q])
        /\ Live \subseteq Live'
    BY <1>1, <2>2, <2>3, RowWritten DEF Inv
  <2> QED BY <1>2, <1>4, <2>4 DEF UploadCv, Inv, TypeOK, Basics, LogsLive
<1>5. CASE Delete(r)
  <2>1. /\ cand' \in [Rows -> CandidateRow] /\ \A q \in Rows : Sound(cand'[q])
        /\ Live \ {r} \subseteq Live'
    BY <1>1, <1>5, NoRowSound, RowWritten DEF Delete, Inv
  <2>2. log' \in [Messages -> Rows \cup {None}] /\ LogsLive'
    BY <1>5, <2>1 DEF Delete, Inv, TypeOK, LogsLive
  <2> QED BY <1>2, <1>5, <2>1, <2>2 DEF Delete, Inv, TypeOK, Basics
<1> QED BY <1>3, <1>4, <1>5

LEMMA PlanBasics ==
    ASSUME Inv, PlanCleanup \/ PlanCaseMerges
    PROVE  Basics'
<1>1. script' \in ScriptRecord
  <2>1. BlockedContacts \in SUBSET (Rows \X Contacts)
    BY DEF BlockedContacts, Live
  <2>2. PhoneMerges \in SUBSET (Rows \X Rows)
    BY DEF PhoneMerges, Live
  <2>3. CaseMerges \in SUBSET (Rows \X Rows)
    BY DEF CaseMerges, Live
  <2> QED BY <2>1, <2>2, <2>3 DEF PlanCleanup, PlanCaseMerges, Plan, ScriptRecord
<1>2. budget' \in [edits : 0 .. MaxEdits, scripts : 0 .. MaxScripts]
  BY BoundsAssumption DEF PlanCleanup, PlanCaseMerges, Plan, Inv, TypeOK
<1> QED BY <1>1, <1>2 DEF PlanCleanup, PlanCaseMerges, Plan, Inv, TypeOK, Basics, LogsLive, Live

LEMMA ScrubBasics ==
    ASSUME Inv, NEW r \in Rows, Scrub(r)
    PROVE  Basics'
<1>1. r \in Rows /\ cand[r] \in CandidateRow /\ cand[r].status = "live" /\ Sound(cand[r])
  BY DEF Scrub, Inv, TypeOK, Live
<1>2. PICK e \in {cand[r].email, None}, p \in {cand[r].phone, None} :
          cand' = [cand EXCEPT ![r].email = e, ![r].phone = p]
  BY <1>1 DEF Scrub, Inv, TypeOK, CandidateRow
<1> DEFINE y == [cand[r] EXCEPT !.email = e, !.phone = p]
<1>3. Blocked(e, p) => Blocked(cand[r].email, cand[r].phone)
  BY NullUnblocked DEF Blocked
<1>4. y \in CandidateRow /\ Sound(y) /\ y.status = "live"
  BY <1>1, <1>3 DEF CandidateRow, Sound, Emails, Numbers
<1>5. cand' = [cand EXCEPT ![r] = y]
  BY <1>2
<1> HIDE DEF y
<1>6. /\ cand' \in [Rows -> CandidateRow] /\ \A q \in Rows : Sound(cand'[q])
      /\ Live \subseteq Live'
  BY <1>1, <1>4, <1>5, RowWritten DEF Inv
<1>7. script' \in ScriptRecord
  BY DEF Scrub, Inv, TypeOK, ScriptRecord
<1> QED BY <1>6, <1>7 DEF Scrub, Inv, TypeOK, Basics, LogsLive

LEMMA FoldBasics ==
    ASSUME Inv, NEW s \in Rows, NEW r \in Rows, s # r, Fold(s, r)
    PROVE  Basics'
<1>1. s \in Live /\ r \in Live /\ cand[s] \in CandidateRow
  BY DEF Fold, Inv, TypeOK
<1> DEFINE y == Folded(s, r)
           n == [NoRow EXCEPT !.status = "gone"]
<1>2. y \in CandidateRow /\ Sound(y) /\ y.status = "live"
  BY <1>1, FoldedSound DEF Inv
<1>3. n \in CandidateRow /\ Sound(n)
  BY NoRowSound
<1>4. cand' = [cand EXCEPT ![s] = y, ![r] = n]
  BY DEF Fold
<1> HIDE DEF y, n
<1>5. /\ cand' \in [Rows -> CandidateRow] /\ \A q \in Rows : Sound(cand'[q])
      /\ Live \ {r} \subseteq Live'
  BY <1>2, <1>3, <1>4 DEF Inv, TypeOK, Live
<1>6. script' \in ScriptRecord
  BY DEF Fold, Inv, TypeOK, ScriptRecord, NoScript
<1>7. log' \in [Messages -> Rows \cup {None}] /\ LogsLive'
  BY <1>1, <1>5 DEF Fold, Repointed, Inv, TypeOK, LogsLive
<1> QED BY <1>5, <1>6, <1>7 DEF Fold, Inv, TypeOK, Basics

LEMMA ScriptDiesBasics ==
    ASSUME Inv, ScriptDies
    PROVE  Basics'
BY DEF ScriptDies, Inv, TypeOK, Basics, LogsLive, Live, NoScript, ScriptRecord

------------------------------------------------------------------------------
(* The two locks, and what the check relies on.                              *)

\* A row that is live after the step was live before it with the same contacts, or a recruiter
\* has typed on it.
Keeps(r) ==
    r \in Live' => \/ cand'[r].typed
                   \/ /\ r \in Live
                      /\ cand'[r].email = cand[r].email /\ cand'[r].phone = cand[r].phone
                      /\ cand'[r].typed = cand[r].typed

\* A task that keeps its lock keeps what it knows.
Releases(m) ==
    \/ task'[m] = task[m]
    \/ task'[m].at \notin {"locked", "checked"} /\ ~Blocked(task'[m].email, task'[m].phone)

LEMMA RowsKept ==
    ASSUME Twins, Locks, \A r \in Rows : Keeps(r), \A m \in Messages : Releases(m)
    PROVE  Twins' /\ Locks'
<1>1. Twins'
  <2> SUFFICES ASSUME NEW r \in Live', NEW s \in Live', r # s, Mail(r)' # None, Mail(r)' = Mail(s)',
                      ~cand'[r].typed, ~cand'[s].typed
               PROVE  FALSE
    BY DEF Twins, MailboxTwinsTyped
  <2>1. r \in Live /\ Mail(r)' = Mail(r) /\ cand'[r].typed = cand[r].typed
    BY DEF Keeps, Mail, Live
  <2>2. s \in Live /\ Mail(s)' = Mail(s) /\ cand'[s].typed = cand[s].typed
    BY DEF Keeps, Mail, Live
  <2> QED BY <2>1, <2>2 DEF Twins, MailboxTwinsTyped
<1>2. OneHolder'
  BY DEF Locks, OneHolder, Holds, Releases
<1>3. ASSUME NEW m \in Messages, task'[m].at = "checked" PROVE CheckHolds(m)'
  <2>1. task'[m] = task[m] /\ CheckHolds(m)
    BY <1>3 DEF Releases, Locks
  <2>2. ASSUME NEW r \in Live', ~cand'[r].typed
        PROVE  /\ r \in Live /\ ~cand[r].typed
               /\ cand'[r].email = cand[r].email /\ cand'[r].phone = cand[r].phone
               /\ Mail(r)' = Mail(r)
    BY <2>2 DEF Keeps, Live, Mail
  <2> QED BY <2>1, <2>2 DEF CheckHolds
<1>4. \A m \in Messages : ~Blocked(task'[m].email, task'[m].phone)
  BY DEF Releases, Locks
<1>5. ASSUME NEW m \in Messages, task'[m].at = "checked", task'[m].via = "email"
      PROVE  task'[m].found # None
  BY <1>5 DEF Releases, Locks
<1> QED BY <1>1, <1>2, <1>3, <1>4, <1>5 DEF Locks

LEMMA LockMailboxKeeps ==
    ASSUME Inv, NEW m \in Messages, LockMailbox(m)
    PROVE  Twins' /\ Locks'
<1>1. /\ task'[m].at = "locked" /\ MailboxFree(m, task'[m].email)
      /\ \A n \in Messages \ {m} : task'[n] = task[n]
  <2>1. PICK t \in TaskRecord : MailboxFree(m, t.email)
                                /\ task' = [task EXCEPT ![m] = [t EXCEPT !.at = "locked"]]
    <3>1. PICK x \in Extracted[m] :
              LET t == IF task[m].at = "again" THEN task[m] ELSE
                       [task[m] EXCEPT !.email = Unblocked(x[1]), !.phone = UnblockedNumber(x[2])] IN
              /\ MailboxFree(m, t.email)
              /\ task' = [task EXCEPT ![m] = [t EXCEPT !.at = "locked"]]
      BY DEF LockMailbox
    <3>2. x \in (Addresses \cup {None}) \X (Phones \cup {None})
      BY DataAssumption
    <3>3. Unblocked(x[1]) \in Emails /\ UnblockedNumber(x[2]) \in Numbers
      BY <3>2 DEF Unblocked, UnblockedNumber, Emails, Numbers
    <3>4. (IF task[m].at = "again" THEN task[m] ELSE
           [task[m] EXCEPT !.email = Unblocked(x[1]), !.phone = UnblockedNumber(x[2])]) \in TaskRecord
      BY <3>3 DEF Inv, TypeOK, TaskRecord
    <3> QED BY <3>1, <3>4
  <2> QED BY <2>1 DEF Inv, TypeOK, TaskRecord
<1>2. OneHolder'
  <2> SUFFICES ASSUME NEW i \in Messages, NEW j \in Messages, i # j
               PROVE  /\ Holds(i)' /\ Holds(j)' /\ task'[i].email # None =>
                             Mailbox(task'[i].email) # Mailbox(task'[j].email)
                      /\ task'[i].at = "checked" /\ task'[j].at = "checked" /\ task'[i].phone # None =>
                             task'[i].phone # task'[j].phone
    BY DEF OneHolder
  <2>1. CASE i # m /\ j # m
    BY <1>1, <2>1 DEF Inv, Locks, OneHolder, Holds
  <2>2. CASE i = m
    BY <1>1, <2>2 DEF MailboxFree, Holds
  <2>3. CASE j = m
    <3>1. task'[i] = task[i] /\ task'[m].at # "checked" /\ (Holds(i)' => Holds(i))
      BY <1>1, <2>3 DEF Holds
    <3>2. task'[m].email = None => Mailbox(task'[m].email) = None
      BY DEF Mailbox
    <3>3. task[i].email # None => Mailbox(task[i].email) # None
      BY MailboxNull DEF Inv, TypeOK, TaskRecord
    <3> QED BY <1>1, <2>3, <3>1, <3>2, <3>3 DEF MailboxFree, Holds
  <2> QED BY <2>1, <2>2, <2>3
<1>3. cand' = cand
  BY DEF LockMailbox
<1>4. \A n \in Messages : task'[n].at = "checked" => task'[n] = task[n]
  BY <1>1
<1>5. Twins' /\ \A n \in Messages : CheckHolds(n) /\ task'[n] = task[n] => CheckHolds(n)'
  BY <1>3 DEF Inv, Twins, MailboxTwinsTyped, CheckHolds, Live, Mail
<1> QED BY <1>2, <1>4, <1>5, LockMailboxBasics DEF Locks, Inv

LEMMA CheckKeeps ==
    ASSUME Inv, NEW m \in Messages, Check(m)
    PROVE  Twins' /\ Locks'
<1> DEFINE e == task[m].email
           p == task[m].phone
<1>1. PICK r \in Rows \cup {None}, via \in {"nothing", "unsure", "email", "phone"} :
          /\ task' = [task EXCEPT ![m] = [task[m] EXCEPT !.at = "checked", !.found = r, !.via = via]]
          /\ via # "email" => MailRows(e) = {}
          /\ via = "email" => r # None
          /\ via = "nothing" => /\ PersonRows(e, p) = {} /\ PhoneRows(p) = Holders(p)
                                /\ ~(e = None /\ Crowded(p))
  BY NullAssumption DEF Check
<1>2. task[m] \in TaskRecord /\ task[m].at = "locked" /\ PhoneFree(m, p) /\ cand' = cand
  BY DEF Check, Inv, TypeOK
<1>3. /\ task'[m].at = "checked" /\ task'[m].email = e /\ task'[m].phone = p
      /\ task'[m].found = r /\ task'[m].via = via
      /\ \A n \in Messages \ {m} : task'[n] = task[n]
  BY <1>1, <1>2 DEF Inv, TypeOK, TaskRecord
<1> HIDE DEF e, p
<1>4. Twins' /\ Live' = Live /\ \A q \in Rows : Mail(q)' = Mail(q)
  BY <1>2 DEF Inv, Twins, MailboxTwinsTyped, Live, Mail
<1>5. OneHolder'
  <2> SUFFICES ASSUME NEW i \in Messages, NEW j \in Messages, i # j
               PROVE  /\ Holds(i)' /\ Holds(j)' /\ task'[i].email # None =>
                             Mailbox(task'[i].email) # Mailbox(task'[j].email)
                      /\ task'[i].at = "checked" /\ task'[j].at = "checked" /\ task'[i].phone # None =>
                             task'[i].phone # task'[j].phone
    BY DEF OneHolder
  <2>1. (Holds(i)' <=> Holds(i)) /\ (Holds(j)' <=> Holds(j))
    BY <1>2, <1>3 DEF Holds
  <2>2. task'[i].email = task[i].email /\ task'[j].email = task[j].email
    BY <1>2, <1>3 DEF e
  <2>3. task'[i].at = "checked" /\ task'[j].at = "checked" /\ task'[i].phone # None =>
            task'[i].phone # task'[j].phone
    BY <1>2, <1>3 DEF PhoneFree, Inv, Locks, OneHolder
  <2> QED BY <2>1, <2>2, <2>3 DEF Inv, Locks, OneHolder
<1>6. CheckHolds(m)'
  <2>1. via # "email" /\ e # None => ~\E q \in Live : Mail(q) = Mailbox(e)
    BY <1>1 DEF MailRows, HasMailbox
  <2>2. via = "nothing" /\ p # None => ~\E q \in Live : cand[q].phone = p /\ Compatible(cand[q].email, e)
    <3> SUFFICES ASSUME via = "nothing", p # None, NEW q \in Live, cand[q].phone = p,
                        Compatible(cand[q].email, e)
                 PROVE  FALSE
      OBVIOUS
    <3>1. q \in PhoneRows(p)
      BY <1>1 DEF Holders, HasPhone
    <3> QED BY <1>1, <3>1 DEF PersonRows
  <2>3. Live \subseteq Rows
    BY DEF Live
  <2> QED BY <1>2, <1>3, <1>4, <2>1, <2>2, <2>3 DEF CheckHolds
<1>7. ASSUME NEW n \in Messages, n # m, task'[n].at = "checked" PROVE CheckHolds(n)'
  BY <1>2, <1>3, <1>4, <1>7 DEF CheckHolds, Inv, Locks, Live
<1>8. \A n \in Messages : ~Blocked(task'[n].email, task'[n].phone)
  BY <1>3 DEF Inv, Locks, e, p
<1> QED BY <1>1, <1>3, <1>4, <1>5, <1>6, <1>7, <1>8 DEF Locks, Inv

\* The task that files keeps to its locks: no other checked task has its mailbox or its number,
\* and what it knows of the rows holds.
LEMMA OthersApart ==
    ASSUME Inv, NEW m \in Messages, NEW n \in Messages, n # m,
           task[m].at = "checked", task[n].at = "checked"
    PROVE  /\ task[n].email # None => Mailbox(task[m].email) # Mailbox(task[n].email)
           /\ task[n].phone # None => task[m].phone # task[n].phone
BY DEF Inv, Locks, OneHolder, Holds

\* A row is written by the intake, with the contacts of a task that holds their locks.
LEMMA WrittenUnderLocks ==
    ASSUME Inv, NEW m \in Messages, task[m].at = "checked", NEW r \in Rows, NEW x \in CandidateRow,
           cand' = [cand EXCEPT ![r] = x],
           \A n \in Messages : Releases(n), task'[m].at = "filed",
           x.email # None => \/ r \in Live /\ x.email = cand[r].email
                             \/ /\ Mailbox(x.email) = Mailbox(task[m].email)
                                /\ r \in Live => cand[r].email = None
                                /\ \A s \in Live \ {r} : Mail(s) = Mailbox(x.email) =>
                                       x.typed \/ cand[s].typed,
           r \in Live => cand[r].typed = x.typed /\ (cand[r].email # None => x.email = cand[r].email),
           x.phone # None => (r \in Live /\ x.phone = cand[r].phone) \/ x.phone = task[m].phone
    PROVE  Twins' /\ Locks'
<1>1. /\ cand'[r] = x /\ \A q \in Rows \ {r} : cand'[q] = cand[q]
      /\ Live' \ {r} = Live \ {r}
  BY DEF Inv, TypeOK, Live
<1>2. \A q \in Rows \ {r} : Mail(q)' = Mail(q)
  BY <1>1 DEF Mail
<1>3. Mail(r)' = Mailbox(x.email)
  BY <1>1 DEF Mail
<1>4. x.email \in Emails /\ task[m].email \in Emails /\ cand[r].email \in Emails
  BY DEF CandidateRow, Inv, TypeOK, TaskRecord
<1>5. Twins'
  <2>1. ASSUME NEW s \in Live' \ {r}, Mail(r)' # None, Mail(r)' = Mail(s)', r \in Live'
        PROVE  cand'[r].typed \/ cand'[s].typed
    <3>1. x.email # None /\ s \in Live \ {r} /\ Mail(s) = Mailbox(x.email) /\ cand'[s] = cand[s]
      BY <1>1, <1>2, <1>3, <1>4, <2>1, MailboxNull DEF Live
    <3>2. CASE r \in Live /\ x.email = cand[r].email
      BY <1>1, <1>3, <2>1, <3>1, <3>2 DEF Inv, Twins, MailboxTwinsTyped, Mail
    <3>3. CASE ~(r \in Live /\ x.email = cand[r].email)
      BY <1>1, <3>1, <3>3
    <3> QED BY <3>2, <3>3
  <2>2. ASSUME NEW q \in Live' \ {r}, NEW s \in Live' \ {r}, q # s, Mail(q)' # None, Mail(q)' = Mail(s)'
        PROVE  cand'[q].typed \/ cand'[s].typed
    <3>1. q \in Live /\ s \in Live /\ q \in Rows \ {r} /\ s \in Rows \ {r}
      BY <1>1, <2>2 DEF Live
    <3> QED BY <1>1, <1>2, <2>2, <3>1 DEF Inv, Twins, MailboxTwinsTyped
  <2> QED BY <2>1, <2>2 DEF Twins, MailboxTwinsTyped
<1>6. OneHolder' /\ \A n \in Messages : ~Blocked(task'[n].email, task'[n].phone)
  BY DEF Inv, Locks, OneHolder, Holds, Releases
<1>7. ASSUME NEW n \in Messages, task'[n].at = "checked"
      PROVE  CheckHolds(n)' /\ (task'[n].via = "email" => task'[n].found # None)
  <2>1. n # m /\ task'[n] = task[n] /\ CheckHolds(n) /\ (task[n].via = "email" => task[n].found # None)
    BY <1>7 DEF Releases, Inv, Locks
  <2>2. /\ task[n].email # None => Mailbox(task[m].email) # Mailbox(task[n].email)
        /\ task[n].phone # None => task[m].phone # task[n].phone
    BY <1>7, <2>1, OthersApart
  <2>3. task[n].email \in Emails
    BY DEF Inv, TypeOK, TaskRecord
  <2>4. ASSUME task[n].via # "email", task[n].email # None, NEW q \in Live',
               Mail(q)' = Mailbox(task[n].email)
        PROVE  cand'[q].typed
    <3>1. CASE q # r
      BY <1>1, <1>2, <2>1, <2>4, <3>1 DEF CheckHolds, Live
    <3>2. CASE q = r
      <4>1. x.email # None
        BY <1>3, <1>4, <2>3, <2>4, <3>2, MailboxNull
      <4>2. r \in Live /\ x.email = cand[r].email /\ cand[r].typed = x.typed
        BY <1>3, <2>2, <2>4, <3>2, <4>1
      <4> QED BY <1>1, <1>3, <2>1, <2>4, <3>2, <4>2 DEF CheckHolds, Mail
    <3> QED BY <3>1, <3>2
  <2>5. ASSUME task[n].via = "nothing", task[n].phone # None, NEW q \in Live',
               cand'[q].phone = task[n].phone, ~cand'[q].typed
        PROVE  ~Compatible(cand'[q].email, task[n].email)
    <3>1. CASE q # r
      BY <1>1, <2>1, <2>5, <3>1 DEF CheckHolds, Live
    <3>2. CASE q = r
      <4>1. r \in Live /\ x.phone = cand[r].phone /\ cand[r].typed = x.typed
        BY <1>1, <2>2, <2>5, <3>2
      <4>2. ~Compatible(cand[r].email, task[n].email)
        BY <1>1, <2>1, <2>5, <3>2, <4>1 DEF CheckHolds
      <4>3. cand[r].email # None
        BY <4>2 DEF Compatible, Mailbox
      <4> QED BY <1>1, <3>2, <4>1, <4>2, <4>3
    <3> QED BY <3>1, <3>2
  <2> QED BY <2>1, <2>4, <2>5 DEF CheckHolds
<1> QED BY <1>5, <1>6, <1>7 DEF Locks

LEMMA FileKeeps ==
    ASSUME Inv, NEW m \in Messages, File(m)
    PROVE  Twins' /\ Locks'
<1> DEFINE t == task[m]
           r == IF t.found = None THEN next ELSE t.found
<1>1. t \in TaskRecord /\ ~Blocked(t.email, t.phone) /\ t.at = "checked" /\ CheckHolds(m)
  BY DEF File, Inv, TypeOK, Locks
<1>2. r \in Rows /\ Live \subseteq Rows
  BY <1>1, BoundsAssumption DEF File, Inv, TypeOK, TaskRecord, Rows, Live
<1>3. task'[m].at = "filed" /\ \A n \in Messages : Releases(n)
  BY <1>1 DEF File, Releases, Inv, TypeOK, TaskRecord
<1>4. CASE t.found = None
  <2> DEFINE x == Inserted(m, t)
  <2>1. x \in CandidateRow /\ x.email = t.email /\ x.phone = t.phone
        /\ cand' = [cand EXCEPT ![next] = x] /\ next \notin Live
    <3>1. next \in Rows /\ next >= next
      BY <1>2, <1>4 DEF Rows
    <3>2. next \notin Live
      BY <3>1 DEF Inv, PlanInv, Live
    <3> QED BY <1>1, <1>4, <3>2, InsertedSound, NullAssumption DEF File, Inserted, NoRow
  <2>2. t.via # "email"
    BY <1>1, <1>4 DEF Inv, Locks
  <2>3. x.email # None => \A s \in Live \ {next} : Mail(s) = Mailbox(x.email) => cand[s].typed
    BY <1>1, <2>1, <2>2 DEF CheckHolds
  <2> HIDE DEF x
  <2> QED BY <1>1, <1>2, <1>3, <1>4, <2>1, <2>3, WrittenUnderLocks
<1>5. CASE t.found # None
  <2> DEFINE x == FilledContacts(r, t)
  <2>1. /\ r \in Live /\ cand' = [cand EXCEPT ![r] = x] /\ x \in CandidateRow
        /\ cand[r] \in CandidateRow
    BY <1>1, <1>2, <1>5, FilledSound DEF File, Inv, TypeOK
  <2>2. /\ x.typed = cand[r].typed
        /\ x.email = cand[r].email \/ (cand[r].email = None /\ x.email = t.email /\ ~Taken(t.email, r))
        /\ x.phone = cand[r].phone \/ x.phone = t.phone
    BY <2>1 DEF FilledContacts, Or, CandidateRow
  <2>3. ~Taken(t.email, r) /\ t.email # None => \A s \in Live \ {r} : Mail(s) # Mailbox(t.email)
    BY DEF Taken, HasMailbox
  <2> HIDE DEF x, r
  <2> QED BY <1>1, <1>2, <1>3, <2>1, <2>2, <2>3, WrittenUnderLocks
<1> QED BY <1>4, <1>5

\* A merge: the survivor may get the removed row's address or number.
LEMMA FoldKeeps ==
    ASSUME Inv, NEW s \in Rows, NEW r \in Rows, s # r, Fold(s, r)
    PROVE  Twins' /\ Locks'
<1> DEFINE x == Folded(s, r)
<1>1. /\ s \in Live /\ r \in Live /\ cand[s] \in CandidateRow /\ cand[r] \in CandidateRow
      /\ x \in CandidateRow /\ x.status = "live" /\ task' = task /\ Live \subseteq Rows
  BY FoldedSound DEF Fold, Inv, TypeOK, Live
<1>2. /\ x.email = Or(cand[s].email, cand[r].email) /\ x.phone = Or(cand[s].phone, cand[r].phone)
      /\ x.typed <=> cand[s].typed \/ cand[r].typed
  BY <1>1 DEF Folded, Merged, CandidateRow
<1>3. cand' = [cand EXCEPT ![s] = x, ![r] = [NoRow EXCEPT !.status = "gone"]]
  BY DEF Fold
<1> HIDE DEF x
<1>4. /\ cand'[s] = x /\ cand'[r].status = "gone"
      /\ \A q \in Rows \ {s, r} : cand'[q] = cand[q]
  BY <1>1, <1>3 DEF Inv, TypeOK, NoRow
<1>5. Live' = Live \ {r}
  BY <1>1, <1>4 DEF Live
<1>6. \A q \in Rows \ {s, r} : Mail(q)' = Mail(q)
  BY <1>4 DEF Mail
<1>7. Mail(s)' = (IF cand[s].email = None THEN Mail(r) ELSE Mail(s))
  BY <1>1, <1>2, <1>4 DEF Mail, Or
<1>8. Twins'
  <2>1. ASSUME NEW q \in Live' \ {s}, Mail(s)' # None, Mail(s)' = Mail(q)'
        PROVE  cand'[s].typed \/ cand'[q].typed
    <3>1. q \in Live /\ q # r /\ q # s /\ Mail(q)' = Mail(q) /\ cand'[q] = cand[q]
      BY <1>1, <1>4, <1>5, <1>6, <2>1
    <3>2. CASE Mail(s)' = Mail(s)
      BY <1>1, <1>2, <1>4, <2>1, <3>1, <3>2 DEF Inv, Twins, MailboxTwinsTyped
    <3>3. CASE Mail(s)' = Mail(r)
      BY <1>1, <1>2, <1>4, <2>1, <3>1, <3>3 DEF Inv, Twins, MailboxTwinsTyped
    <3> QED BY <1>7, <3>2, <3>3
  <2>2. ASSUME NEW p \in Live' \ {s}, NEW q \in Live' \ {s}, p # q, Mail(p)' # None, Mail(p)' = Mail(q)'
        PROVE  cand'[p].typed \/ cand'[q].typed
    BY <1>1, <1>4, <1>5, <1>6, <2>2 DEF Inv, Twins, MailboxTwinsTyped
  <2> QED BY <2>1, <2>2 DEF Twins, MailboxTwinsTyped
<1>9. ASSUME NEW n \in Messages, task[n].at = "checked" PROVE CheckHolds(n)'
  <2>1. CheckHolds(n) /\ task[n].email \in Emails
    BY <1>9 DEF Inv, Locks, TypeOK, TaskRecord
  <2>2. ASSUME task[n].via # "email", task[n].email # None, NEW q \in Live',
               Mail(q)' = Mailbox(task[n].email)
        PROVE  cand'[q].typed
    <3>1. CASE q # s
      BY <1>1, <1>4, <1>5, <1>6, <2>1, <2>2, <3>1 DEF CheckHolds
    <3>2. CASE q = s /\ Mail(s)' = Mail(s)
      BY <1>1, <1>2, <1>4, <2>1, <2>2, <3>2 DEF CheckHolds
    <3>3. CASE q = s /\ Mail(s)' = Mail(r)
      BY <1>1, <1>2, <1>4, <2>1, <2>2, <3>3 DEF CheckHolds
    <3> QED BY <1>7, <3>1, <3>2, <3>3
  <2>3. ASSUME task[n].via = "nothing", task[n].phone # None, NEW q \in Live',
               cand'[q].phone = task[n].phone, ~cand'[q].typed
        PROVE  ~Compatible(cand'[q].email, task[n].email)
    <3>1. CASE q # s
      BY <1>1, <1>4, <1>5, <2>1, <2>3, <3>1 DEF CheckHolds
    <3>2. CASE q = s /\ cand[s].phone = task[n].phone
      <4>1. ~Compatible(cand[s].email, task[n].email)
        BY <1>1, <1>2, <1>4, <2>1, <2>3, <3>2 DEF CheckHolds
      <4>2. cand[s].email # None
        BY <4>1 DEF Compatible, Mailbox
      <4> QED BY <1>2, <1>4, <3>2, <4>1, <4>2 DEF Or
    <3>3. CASE q = s /\ cand[s].phone # task[n].phone
      <4>1. cand[r].phone = task[n].phone /\ ~cand[r].typed /\ ~cand[s].typed
        BY <1>2, <1>4, <2>3, <3>3 DEF Or
      <4>2. ~Compatible(cand[r].email, task[n].email)
        BY <1>1, <2>1, <2>3, <4>1 DEF CheckHolds
      <4>3. task[n].email # None
        BY <4>2 DEF Compatible, Mailbox
      <4>4. Mail(s) # Mailbox(task[n].email)
        BY <1>1, <2>1, <2>3, <4>1, <4>3 DEF CheckHolds
      <4>5. cand[s].email # None => ~Compatible(cand[s].email, task[n].email)
        BY <1>1, <2>1, <4>3, <4>4, MailboxNull DEF Compatible, Mail, CandidateRow
      <4> QED BY <1>2, <1>4, <3>3, <4>2, <4>5 DEF Or
    <3> QED BY <3>1, <3>2, <3>3
  <2> QED BY <1>1, <2>2, <2>3 DEF CheckHolds
<1> QED BY <1>1, <1>8, <1>9 DEF Inv, Locks, OneHolder, Holds

LEMMA OthersKeep ==
    ASSUME Inv,
           \/ \E m \in Messages : FileFails(m) \/ Enrich(m) \/ Rerun(m)
           \/ \E t \in Tasks : HandCheck(t) \/ HandInsert(t)
           \/ \E r \in Rows : EditContact(r) \/ UploadCv(r) \/ Delete(r) \/ Scrub(r)
           \/ PlanCleanup \/ PlanCaseMerges \/ ScriptDies
    PROVE  Twins' /\ Locks'
<1>0. cand \in [Rows -> CandidateRow] /\ task \in [Messages -> TaskRecord]
  BY DEF Inv, TypeOK
<1>1. ASSUME NEW m \in Messages, FileFails(m) \/ Enrich(m) \/ Rerun(m)
      PROVE  \A n \in Messages : Releases(n)
  <2>1. PICK t \in TaskRecord :
            /\ task' = [task EXCEPT ![m] = t]
            /\ t.at \in {"again", "filed", "done"}
            /\ \/ t.email = task[m].email /\ t.phone = task[m].phone
               \/ t.email = None /\ t.phone = None
    <3>1. CASE FileFails(m)
      <4> DEFINE t == [task[m] EXCEPT !.at = "again", !.found = None, !.via = "nothing"]
      <4>1. /\ t \in TaskRecord /\ task' = [task EXCEPT ![m] = t] /\ t.at = "again"
            /\ t.email = task[m].email /\ t.phone = task[m].phone
        BY <1>0, <3>1 DEF FileFails, TaskRecord
      <4> HIDE DEF t
      <4> QED BY <4>1
    <3>2. CASE Enrich(m)
      <4> DEFINE t == [NewTask EXCEPT !.at = "done"]
      <4>1. /\ t \in TaskRecord /\ task' = [task EXCEPT ![m] = t] /\ t.at = "done"
            /\ t.email = None /\ t.phone = None
        BY <3>2 DEF Enrich, TaskRecord, NewTask, Emails, Numbers
      <4> HIDE DEF t
      <4> QED BY <4>1
    <3>3. CASE Rerun(m) /\ log[m] # None
      <4> DEFINE t == [task[m] EXCEPT !.at = "filed", !.found = log[m], !.via = "nothing"]
      <4>1. /\ t \in TaskRecord /\ task' = [task EXCEPT ![m] = t] /\ t.at = "filed"
            /\ t.email = task[m].email /\ t.phone = task[m].phone
        BY <1>0, <3>3 DEF Rerun, TaskRecord, Inv, TypeOK
      <4> HIDE DEF t
      <4> QED BY <4>1
    <3>4. CASE Rerun(m) /\ log[m] = None
      <4> DEFINE t == [task[m] EXCEPT !.at = "again", !.found = None, !.via = "nothing"]
      <4>1. /\ t \in TaskRecord /\ task' = [task EXCEPT ![m] = t] /\ t.at = "again"
            /\ t.email = task[m].email /\ t.phone = task[m].phone
        BY <1>0, <3>4 DEF Rerun, TaskRecord
      <4> HIDE DEF t
      <4> QED BY <4>1
    <3> QED BY <1>1, <3>1, <3>2, <3>3, <3>4
  <2>2. ~Blocked(t.email, t.phone)
    BY <2>1, NullUnblocked DEF Inv, Locks
  <2> QED BY <1>0, <2>1, <2>2 DEF Releases
<1>2. ASSUME UNCHANGED cand PROVE \A r \in Rows : Keeps(r)
  BY <1>2 DEF Keeps, Live
<1>3. ASSUME NEW m \in Messages, Enrich(m) PROVE \A r \in Rows : Keeps(r)
  <2> DEFINE r == task[m].found
             y == Merged(cand[r], m, IF m \in Files THEN m ELSE None, Document[m] # None, Document[m])
             z == Placed(y, Target[m])
  <2>1. r \in Live /\ cand' = [cand EXCEPT ![r] = z] /\ r \in Rows /\ cand[r] \in CandidateRow
    BY <1>0, <1>3 DEF Enrich, Live
  <2>2. y.email = cand[r].email /\ y.phone = cand[r].phone /\ y.typed = cand[r].typed /\ DOMAIN y = DOMAIN cand[r]
    BY <2>1 DEF Merged, CandidateRow
  <2> HIDE DEF y
  <2>3. /\ z.email = cand[r].email /\ z.phone = cand[r].phone /\ z.typed = cand[r].typed
    BY <2>1, <2>2 DEF Placed, CandidateRow
  <2> HIDE DEF r, z
  <2> QED BY <1>0, <2>1, <2>3 DEF Keeps, Live
<1>4. ASSUME NEW t \in Tasks, HandInsert(t) PROVE \A r \in Rows : Keeps(r)
  <2>1. CASE UNCHANGED cand
    BY <1>2, <2>1
  <2>2. CASE ~UNCHANGED cand
    BY <1>0, <1>4, <2>2 DEF HandInsert, Keeps, Live, NoRow
  <2> QED BY <2>1, <2>2
<1>5. ASSUME NEW r \in Rows, EditContact(r) \/ UploadCv(r) \/ Delete(r)
      PROVE  \A q \in Rows : Keeps(q)
  <2>1. CASE EditContact(r)
    <3>1. cand'[r].typed /\ \A q \in Rows \ {r} : cand'[q] = cand[q]
      BY <1>0, <2>1 DEF EditContact, CandidateRow
    <3> QED BY <3>1 DEF Keeps, Live
  <2>2. CASE UploadCv(r)
    <3>1. PICK text \in {None, Upload} : cand' = [cand EXCEPT ![r].text = text, ![r].file = Upload]
      BY <2>2 DEF UploadCv
    <3>2. /\ cand'[r].email = cand[r].email /\ cand'[r].phone = cand[r].phone
          /\ cand'[r].typed = cand[r].typed /\ cand'[r].status = cand[r].status
          /\ \A q \in Rows \ {r} : cand'[q] = cand[q]
      BY <1>0, <3>1 DEF CandidateRow
    <3> QED BY <3>2 DEF Keeps, Live
  <2>3. CASE Delete(r)
    <3>1. cand'[r].status = "gone" /\ \A q \in Rows \ {r} : cand'[q] = cand[q]
      BY <1>0, <2>3 DEF Delete, NoRow
    <3> QED BY <3>1 DEF Keeps, Live
  <2> QED BY <1>5, <2>1, <2>2, <2>3
<1>6. ASSUME NEW r \in Rows, Scrub(r) PROVE \A q \in Rows : Keeps(q)
  <2>1. r \in Live /\ cand[r].typed
    <3>1. PICK f \in Contacts : <<r, f>> \in script.scrub
      BY <1>6 DEF Scrub, Cleared
    <3> QED BY <1>6, <3>1 DEF Scrub, Inv, PlanInv
  <2>2. cand'[r].typed = cand[r].typed /\ \A q \in Rows \ {r} : cand'[q] = cand[q]
    BY <1>0, <1>6 DEF Scrub, CandidateRow
  <2> QED BY <2>1, <2>2 DEF Keeps, Live
<1>7. \A q \in Rows : Keeps(q)
  BY <1>2, <1>3, <1>4, <1>5, <1>6
  DEF FileFails, Rerun, HandCheck, PlanCleanup, PlanCaseMerges, Plan, ScriptDies
<1>8. ASSUME UNCHANGED task PROVE \A m \in Messages : Releases(m)
  BY <1>8 DEF Releases
<1>9. \A m \in Messages : Releases(m)
  BY <1>1, <1>8 DEF HandCheck, HandInsert, EditContact, UploadCv, Delete, Scrub, PlanCleanup,
                    PlanCaseMerges, Plan, ScriptDies
<1> QED BY <1>7, <1>9, RowsKept DEF Inv

------------------------------------------------------------------------------
(* The plan of a script.                                                     *)

LEMMA PlanRows ==
    ASSUME Inv
    PROVE  /\ \A f \in script.scrub : f = <<f[1], f[2]>> /\ f[1] \in Rows /\ f[2] \in Contacts
           /\ \A f \in script.folds : f = <<f[1], f[2]>> /\ f[1] \in Rows /\ f[2] \in Rows
           /\ \A r \in Live : r \in Rows /\ r < next
<1>1. \A r \in Live : r \in Rows /\ r < next
  BY BoundsAssumption DEF Inv, TypeOK, PlanInv, Live, Rows
<1> QED BY <1>1 DEF Inv, TypeOK, ScriptRecord

\* A step that leaves the plan alone keeps it true when rows only lose an address or are noted
\* as touched.
LEMMA PlanKept ==
    ASSUME Inv, TypeOK', next' >= next,
           script'.scrub = script.scrub, script'.folds = script.folds,
           script.touched \subseteq script'.touched,
           \A r \in Rows : r >= next' => cand'[r].status = "none",
           \A r \in Rows : r < next /\ r \in Live' => r \in Live /\ (cand[r].typed => cand'[r].typed),
           script.scrub # {} \/ script.folds # {} =>
               \A r \in Rows : r < next /\ r \notin script'.touched => Mail(r)' \in {Mail(r), None}
    PROVE  PlanInv'
<1>1. PlanInv
  BY DEF Inv
<1>2. /\ \A f \in script.scrub : f = <<f[1], f[2]>> /\ f[1] \in Rows /\ f[2] \in Contacts
      /\ \A f \in script.folds : f = <<f[1], f[2]>> /\ f[1] \in Rows /\ f[2] \in Rows
  BY PlanRows
<1>3. next \in Nat /\ next' \in Nat /\ \A r \in Rows : r \in Nat
  BY BoundsAssumption DEF Inv, TypeOK, Rows
<1>4. \A f \in script.scrub : f[1] < next' /\ (f[1] \in Live' => cand'[f[1]].typed)
  BY <1>1, <1>2, <1>3 DEF PlanInv
<1>5. /\ \A f \in script.folds : f[1] < next' /\ f[2] < next'
      /\ \A f, g \in script.folds : f[1] # g[2]
  BY <1>1, <1>2, <1>3 DEF PlanInv
<1>6. ASSUME NEW r \in Rows, r < next, r \notin script'.touched,
             script.scrub # {} \/ script.folds # {}
      PROVE  Planned(r)' \in {Planned(r), None}
  BY <1>6 DEF Planned
<1>7. ASSUME NEW r \in Rows, <<r, "email">> \in script.scrub, r \notin script'.touched
      PROVE  Mail(r)' \in OfficeMail \cup {None}
  <2>1. r < next
    BY <1>1, <1>7 DEF PlanInv
  <2> QED BY <1>1, <1>7, <2>1 DEF PlanInv
<1>8. ASSUME NEW f \in script.folds, {f[1], f[2]} \cap script'.touched = {}
      PROVE  Agree(Planned(f[1]), Planned(f[2]))'
  <2>1. Agree(Planned(f[1]), Planned(f[2]))
    BY <1>1, <1>8 DEF PlanInv
  <2>2. Planned(f[1])' \in {Planned(f[1]), None} /\ Planned(f[2])' \in {Planned(f[2]), None}
    BY <1>1, <1>2, <1>6, <1>8 DEF PlanInv
  <2> QED BY <2>1, <2>2 DEF Agree
<1>9. ASSUME NEW f \in script.folds, NEW g \in script.folds, f[1] = g[1],
             {f[1], f[2], g[2]} \cap script'.touched = {}
      PROVE  Agree(Planned(f[2]), Planned(g[2]))'
  <2>1. Agree(Planned(f[2]), Planned(g[2]))
    BY <1>1, <1>9 DEF PlanInv
  <2>2. Planned(f[2])' \in {Planned(f[2]), None} /\ Planned(g[2])' \in {Planned(g[2]), None}
    BY <1>1, <1>2, <1>6, <1>9 DEF PlanInv
  <2> QED BY <2>1, <2>2 DEF Agree
<1> QED BY <1>4, <1>5, <1>7, <1>8, <1>9 DEF PlanInv

LEMMA TouchedRows ==
    ASSUME Inv, Touch
    PROVE  /\ script'.scrub = script.scrub /\ script'.folds = script.folds
           /\ script.touched \subseteq script'.touched
           /\ script.scrub # {} \/ script.folds # {} =>
                \A r \in Live : cand'[r].email # cand[r].email => r \in script'.touched
BY DEF Inv, TypeOK, Touch, ScriptRecord

LEMMA FilePlan ==
    ASSUME Inv, NEW m \in Messages, File(m), TypeOK'
    PROVE  PlanInv'
<1>1. /\ script'.scrub = script.scrub /\ script'.folds = script.folds
      /\ script.touched \subseteq script'.touched
      /\ script.scrub # {} \/ script.folds # {} =>
            \A r \in Live : cand'[r].email # cand[r].email => r \in script'.touched
  BY TouchedRows DEF File
<1>2. PICK r \in Rows, x \in CandidateRow :
          /\ cand' = [cand EXCEPT ![r] = x]
          /\ \/ r = next /\ next' = next + 1
             \/ r \in Live /\ next' = next /\ x.typed = cand[r].typed
  <2>1. task[m] \in TaskRecord /\ ~Blocked(task[m].email, task[m].phone)
    BY DEF Inv, TypeOK, Locks
  <2>2. CASE task[m].found = None
    <3>1. next \in Rows /\ Inserted(m, task[m]) \in CandidateRow
      BY <2>1, <2>2, InsertedSound, BoundsAssumption DEF File, Inv, TypeOK, Rows
    <3> QED BY <2>2, <3>1 DEF File
  <2>3. CASE task[m].found # None
    <3> DEFINE r == task[m].found
    <3>1. r \in Live /\ r \in Rows /\ cand[r] \in CandidateRow /\ Sound(cand[r])
      BY <2>3 DEF File, Inv, TypeOK, Live
    <3>2. FilledContacts(r, task[m]) \in CandidateRow
      BY <2>1, <3>1, FilledSound DEF Inv
    <3>3. FilledContacts(r, task[m]).typed = cand[r].typed
      BY <3>1 DEF FilledContacts, CandidateRow
    <3> QED BY <2>3, <3>1, <3>2, <3>3 DEF File
  <2> QED BY <2>2, <2>3
<1>3. next \in Nat /\ next' \in Nat /\ Rows \subseteq Nat /\ next' >= next
  BY <1>2, BoundsAssumption DEF Inv, TypeOK, Rows
<1>4. cand'[r] = x /\ \A q \in Rows \ {r} : cand'[q] = cand[q]
  BY <1>2 DEF Inv, TypeOK
<1>5. \A q \in Rows : q >= next' => cand'[q].status = "none"
  <2> TAKE q \in Rows
  <2> HAVE q >= next'
  <2>1. q >= next /\ q # r
    BY <1>2, <1>3, PlanRows
  <2> QED BY <1>4, <2>1 DEF Inv, PlanInv
<1>6. \A q \in Rows : q < next /\ q \in Live' => q \in Live /\ (cand[q].typed => cand'[q].typed)
  BY <1>2, <1>3, <1>4 DEF Live
<1>7. script.scrub # {} \/ script.folds # {} =>
          \A q \in Rows : q < next /\ q \notin script'.touched => Mail(q)' \in {Mail(q), None}
  <2> SUFFICES ASSUME script.scrub # {} \/ script.folds # {}, NEW q \in Rows, q < next,
                      q \notin script'.touched
               PROVE  Mail(q)' = Mail(q)
    OBVIOUS
  <2>1. CASE q = r
    BY <1>1, <1>2, <1>3, <2>1 DEF Mail
  <2>2. CASE q # r
    BY <1>4, <2>2 DEF Mail
  <2> QED BY <2>1, <2>2
<1> QED BY <1>1, <1>3, <1>5, <1>6, <1>7, PlanKept

LEMMA HandInsertPlan ==
    ASSUME Inv, NEW t \in Tasks, HandInsert(t), TypeOK'
    PROVE  PlanInv'
<1>1. script' = script
  BY DEF HandInsert
<1>2. CASE UNCHANGED <<cand, next>>
  BY <1>1, <1>2 DEF Inv, PlanInv, Planned, Mail, Live
<1>3. CASE ~UNCHANGED <<cand, next>>
  <2>1. /\ next \in Rows /\ next' = next + 1 /\ \A q \in Rows \ {next} : cand'[q] = cand[q]
    <3>1. next <= MaxRows /\ next' = next + 1 /\ next \in 1 .. MaxRows + 1
      BY <1>3 DEF HandInsert, Inv, TypeOK
    <3>2. next \in Rows
      BY ONLY <3>1, BoundsAssumption DEF Rows
    <3>3. PICK x : cand' = [cand EXCEPT ![next] = x]
      BY <1>3 DEF HandInsert
    <3> QED BY <3>1, <3>2, <3>3 DEF Inv, TypeOK
  <2>2. Rows \subseteq Nat
    BY BoundsAssumption DEF Rows
  <2>3. \A q \in Rows : q >= next' => cand'[q].status = "none"
    <3> TAKE q \in Rows
    <3> HAVE q >= next'
    <3>1. q >= next /\ q # next
      BY <2>1, <2>2
    <3> QED BY <2>1, <3>1 DEF Inv, PlanInv
  <2>4. \A q \in Rows : q < next => cand'[q] = cand[q] /\ Mail(q)' = Mail(q)
    BY <2>1, <2>2 DEF Mail
  <2> QED BY <1>1, <2>1, <2>2, <2>3, <2>4, PlanKept DEF Live
<1> QED BY <1>2, <1>3

\* Every other step of the intake and of the recruiter.
LEMMA QuietPlan ==
    ASSUME Inv, TypeOK',
           \/ \E m \in Messages : LockMailbox(m) \/ Check(m) \/ FileFails(m) \/ Enrich(m) \/ Rerun(m)
           \/ \E t \in Tasks : HandCheck(t)
           \/ \E r \in Rows : EditContact(r) \/ UploadCv(r) \/ Delete(r)
    PROVE  PlanInv'
<1>0. /\ cand \in [Rows -> CandidateRow] /\ cand' \in [Rows -> CandidateRow]
      /\ next \in Nat /\ Rows \subseteq Nat
  BY BoundsAssumption DEF Inv, TypeOK, Rows
<1>1. CASE \/ \E m \in Messages : LockMailbox(m) \/ Check(m) \/ FileFails(m) \/ Rerun(m)
           \/ \E t \in Tasks : HandCheck(t)
  <2>1. UNCHANGED <<cand, next, script>>
    BY <1>1 DEF LockMailbox, Check, FileFails, Rerun, HandCheck
  <2> QED BY <2>1 DEF Inv, PlanInv, Planned, Mail, Live
<1>2. ASSUME NEW r \in Live, UNCHANGED <<next, script>>,
             \A q \in Rows \ {r} : cand'[q] = cand[q],
             cand'[r].status # "live" \/ (cand'[r].email = cand[r].email
                                          /\ cand'[r].typed = cand[r].typed),
             cand'[r].email \in {cand[r].email, None}
      PROVE  PlanInv'
  <2>1. r \in Rows /\ r < next
    BY PlanRows
  <2>2. \A q \in Rows : q >= next' => cand'[q].status = "none"
    BY <1>0, <1>2, <2>1 DEF Inv, PlanInv
  <2>3. \A q \in Rows : q \in Live' => q \in Live /\ (cand[q].typed => cand'[q].typed)
    BY <1>2 DEF Live
  <2>4. \A q \in Rows : Mail(q)' \in {Mail(q), None}
    BY <1>2 DEF Mail, Mailbox
  <2> QED BY <1>0, <1>2, <2>2, <2>3, <2>4, PlanKept
<1>3. ASSUME NEW m \in Messages, Enrich(m) PROVE PlanInv'
  <2> DEFINE r == task[m].found
             y == Merged(cand[r], m, IF m \in Files THEN m ELSE None, Document[m] # None, Document[m])
             z == Placed(y, Target[m])
  <2>1. r \in Live /\ cand' = [cand EXCEPT ![r] = z] /\ r \in Rows /\ cand[r] \in CandidateRow
    BY <1>0, <1>3 DEF Enrich, Live
  <2>2. y.email = cand[r].email /\ y.typed = cand[r].typed /\ DOMAIN y = DOMAIN cand[r]
    BY <2>1 DEF Merged, CandidateRow
  <2> HIDE DEF y
  <2>3. z.email = cand[r].email /\ z.typed = cand[r].typed
    BY <2>1, <2>2 DEF Placed, CandidateRow
  <2> HIDE DEF r, z
  <2>4. cand'[r] = z /\ \A q \in Rows \ {r} : cand'[q] = cand[q]
    BY <1>0, <2>1
  <2> QED BY <1>2, <1>3, <2>1, <2>3, <2>4 DEF Enrich
<1>4. ASSUME NEW r \in Rows, EditContact(r) PROVE PlanInv'
  <2>1. /\ script'.scrub = script.scrub /\ script'.folds = script.folds
        /\ script.touched \subseteq script'.touched
        /\ script.scrub # {} \/ script.folds # {} =>
              \A q \in Live : cand'[q].email # cand[q].email => q \in script'.touched
    BY <1>4, TouchedRows DEF EditContact
  <2>2. /\ r \in Live /\ next' = next /\ cand'[r].typed
        /\ \A q \in Rows \ {r} : cand'[q] = cand[q]
    BY <1>0, <1>4 DEF EditContact, CandidateRow
  <2>3. r < next
    BY <2>2, PlanRows
  <2>4. \A q \in Rows : q >= next' => cand'[q].status = "none"
    BY <1>0, <2>2, <2>3 DEF Inv, PlanInv
  <2>5. \A q \in Rows : q \in Live' => q \in Live /\ (cand[q].typed => cand'[q].typed)
    BY <2>2 DEF Live
  <2>6. script.scrub # {} \/ script.folds # {} =>
            \A q \in Rows : q \notin script'.touched => Mail(q)' \in {Mail(q), None}
    BY <2>1, <2>2 DEF Mail
  <2> QED BY <1>0, <2>1, <2>2, <2>4, <2>5, <2>6, PlanKept
<1>5. ASSUME NEW r \in Rows, UploadCv(r) PROVE PlanInv'
  <2>1. PICK text \in {None, Upload} : cand' = [cand EXCEPT ![r].text = text, ![r].file = Upload]
    BY <1>5 DEF UploadCv
  <2>2. /\ cand'[r].email = cand[r].email /\ cand'[r].typed = cand[r].typed
        /\ \A q \in Rows \ {r} : cand'[q] = cand[q]
    BY <1>0, <2>1 DEF CandidateRow
  <2> QED BY <1>2, <1>5, <2>2 DEF UploadCv
<1>6. ASSUME NEW r \in Rows, Delete(r) PROVE PlanInv'
  <2>1. /\ cand'[r].status = "gone" /\ cand'[r].email = None
        /\ \A q \in Rows \ {r} : cand'[q] = cand[q]
    BY <1>0, <1>6 DEF Delete, NoRow
  <2> QED BY <1>2, <1>6, <2>1 DEF Delete
<1> QED BY <1>1, <1>3, <1>4, <1>5, <1>6

LEMMA ScrubPlan ==
    ASSUME Inv, NEW r \in Rows, Scrub(r), TypeOK'
    PROVE  PlanInv'
<1>0. /\ cand \in [Rows -> CandidateRow] /\ next \in Nat /\ Rows \subseteq Nat /\ PlanInv
  BY BoundsAssumption DEF Inv, TypeOK, Rows
<1>1. /\ r \in Live /\ r < next /\ next' = next /\ script.scrub # {}
      /\ \A q \in Rows \ {r} : cand'[q] = cand[q]
      /\ cand'[r].typed = cand[r].typed
      /\ cand'[r].email = (IF <<r, "email">> \in script.scrub THEN None ELSE cand[r].email)
  <2>1. r \in Live /\ r < next /\ next' = next /\ script.scrub # {}
    BY PlanRows DEF Scrub, Cleared
  <2>2. PICK e, p : /\ cand' = [cand EXCEPT ![r].email = e, ![r].phone = p]
                    /\ e = (IF <<r, "email">> \in script.scrub THEN None ELSE cand[r].email)
    BY <1>0 DEF Scrub, Cleared, Contacts, CandidateRow
  <2> QED BY <1>0, <2>1, <2>2 DEF CandidateRow
<1>2. /\ script'.folds = script.folds /\ script'.touched = script.touched
      /\ script'.scrub = script.scrub \ ({r} \X Contacts)
  BY DEF Scrub, Inv, TypeOK, ScriptRecord
<1>3. \A q \in Rows : <<q, "email">> \in script'.scrub <=> <<q, "email">> \in script.scrub /\ q # r
  BY <1>2 DEF Contacts
<1>4. \A q \in Rows \ {r} : Mail(q)' = Mail(q)
  BY <1>1 DEF Mail
<1>5. Mail(r)' = Planned(r)
  BY <1>1 DEF Planned, Mail, Mailbox
<1>6. \A q \in Rows : Planned(q)' = Planned(q)
  BY <1>3, <1>4, <1>5 DEF Planned
<1>7. \A q \in Rows : q >= next' => cand'[q].status = "none"
  BY <1>0, <1>1 DEF PlanInv
<1>8. \A q \in Rows : q \in Live' => q \in Live /\ (cand[q].typed => cand'[q].typed)
  BY <1>1 DEF Live
<1>9. \A f \in script'.scrub : f[1] < next' /\ (f[1] \in Live' => cand'[f[1]].typed)
  BY <1>1, <1>2, <1>8, PlanRows DEF Inv, PlanInv
<1>10. \A f \in script.folds : f[1] \in Rows /\ f[2] \in Rows
  BY PlanRows
<1>11. /\ \A f \in script'.folds : {f[1], f[2]} \cap script'.touched = {} =>
              Agree(Planned(f[1]), Planned(f[2]))'
       /\ \A f, g \in script'.folds : f[1] = g[1] /\ {f[1], f[2], g[2]} \cap script'.touched = {} =>
              Agree(Planned(f[2]), Planned(g[2]))'
  <2>1. ASSUME NEW f \in script.folds, {f[1], f[2]} \cap script.touched = {}
        PROVE  Agree(Planned(f[1]), Planned(f[2]))'
    <3>1. Agree(Planned(f[1]), Planned(f[2]))
      BY <1>0, <2>1 DEF PlanInv
    <3>2. Planned(f[1])' = Planned(f[1]) /\ Planned(f[2])' = Planned(f[2])
      BY <1>6, <1>10
    <3> QED BY <3>1, <3>2 DEF Agree
  <2>2. ASSUME NEW f \in script.folds, NEW g \in script.folds, f[1] = g[1],
               {f[1], f[2], g[2]} \cap script.touched = {}
        PROVE  Agree(Planned(f[2]), Planned(g[2]))'
    <3>1. Agree(Planned(f[2]), Planned(g[2]))
      BY <1>0, <2>2 DEF PlanInv
    <3>2. Planned(f[2])' = Planned(f[2]) /\ Planned(g[2])' = Planned(g[2])
      BY <1>6, <1>10
    <3> QED BY <3>1, <3>2 DEF Agree
  <2> QED BY <1>2, <2>1, <2>2
<1>12. \A q \in Rows : <<q, "email">> \in script'.scrub /\ q \notin script'.touched =>
           Mail(q)' \in OfficeMail \cup {None}
  BY <1>0, <1>2, <1>3, <1>4 DEF PlanInv
<1> QED BY <1>0, <1>1, <1>2, <1>7, <1>9, <1>11, <1>12 DEF PlanInv

LEMMA FoldPlan ==
    ASSUME Inv, NEW s \in Rows, NEW r \in Rows, s # r, Fold(s, r), TypeOK'
    PROVE  PlanInv'
<1>0. /\ cand \in [Rows -> CandidateRow] /\ next \in Nat /\ Rows \subseteq Nat /\ PlanInv
  BY BoundsAssumption DEF Inv, TypeOK, Rows
<1>1. /\ s \in Live /\ r \in Live /\ s < next /\ r < next /\ next' = next /\ script.scrub = {}
      /\ <<s, r>> \in script.folds
  BY PlanRows DEF Fold
<1>2. /\ cand'[s] = Folded(s, r) /\ cand'[r].email = None
      /\ \A q \in Rows \ {s, r} : cand'[q] = cand[q]
  BY <1>0 DEF Fold, NoRow
<1>3. \A q \in Rows : q >= next' => cand'[q].status = "none"
  BY <1>0, <1>1, <1>2 DEF PlanInv
<1>4. CASE script' = NoScript
  BY <1>3, <1>4 DEF PlanInv, NoScript
<1>5. CASE script' # NoScript
  <2>1. /\ script'.scrub = {}
        /\ script'.folds = script.folds \ {<<s, r>>}
        /\ script'.touched = IF r \in script.touched THEN script.touched \cup {s} ELSE script.touched
    BY <1>1, <1>5 DEF Fold, Inv, TypeOK, ScriptRecord
  <2>2. Mail(s)' \in {Mail(s), Mail(r)} /\ Mail(r)' = None
    <3>1. Folded(s, r).email = Or(cand[s].email, cand[r].email)
      BY <1>0 DEF Folded, Merged, CandidateRow
    <3> QED BY <1>2, <3>1 DEF Mail, Or, Mailbox
  <2>3. \A q \in Rows \ {s, r} : Mail(q)' = Mail(q)
    BY <1>2 DEF Mail
  <2>4. \A q \in Rows : Planned(q)' = Mail(q)' /\ Planned(q) = Mail(q)
    BY <1>1, <2>1 DEF Planned
  <2>5. \A f \in script.folds : f = <<f[1], f[2]>> /\ f[1] \in Rows /\ f[2] \in Rows /\ f[2] # s
    BY <1>0, <1>1, PlanRows DEF PlanInv
  <2>6. ASSUME NEW f \in script'.folds, {f[1], f[2]} \cap script'.touched = {}
        PROVE  Agree(Planned(f[1]), Planned(f[2]))'
    <3>1. f \in script.folds /\ {f[1], f[2]} \cap script.touched = {}
      BY <2>1, <2>6
    <3>2. CASE r \in {f[1], f[2]}
      BY <2>2, <2>4, <2>5, <3>1, <3>2 DEF Agree
    <3>3. CASE r \notin {f[1], f[2]} /\ f[1] # s
      BY <1>0, <2>3, <2>4, <2>5, <3>1, <3>3 DEF PlanInv, Agree
    <3>4. CASE r \notin {f[1], f[2]} /\ f[1] = s
      <4>1. {s, r, f[2]} \cap script.touched = {}
        BY <2>1, <2>6, <3>4
      <4>2. Agree(Mail(s), Mail(f[2]))
        BY <1>0, <2>4, <2>5, <3>1, <3>4, <4>1 DEF PlanInv
      <4>3. Agree(Mail(r), Mail(f[2]))
        <5> DEFINE g == <<s, r>>
        <5>1. g \in script.folds /\ g[1] = s /\ g[2] = r
          BY <1>1
        <5> HIDE DEF g
        <5>2. Agree(Planned(g[2]), Planned(f[2]))
          BY <1>0, <3>1, <3>4, <4>1, <5>1 DEF PlanInv
        <5> QED BY <2>4, <2>5, <3>1, <5>1, <5>2
      <4>4. Planned(f[2])' = Mail(f[2]) /\ Planned(f[1])' \in {Mail(s), Mail(r)}
        BY <2>2, <2>3, <2>4, <2>5, <3>1, <3>4
      <4> QED BY <4>2, <4>3, <4>4 DEF Agree
    <3> QED BY <3>2, <3>3, <3>4
  <2>7. ASSUME NEW f \in script'.folds, NEW g \in script'.folds, f[1] = g[1],
               {f[1], f[2], g[2]} \cap script'.touched = {}
        PROVE  Agree(Planned(f[2]), Planned(g[2]))'
    <3>1. f \in script.folds /\ g \in script.folds /\ {f[1], f[2], g[2]} \cap script.touched = {}
      BY <2>1, <2>7
    <3>2. Agree(Planned(f[2]), Planned(g[2]))
      BY <1>0, <2>7, <3>1 DEF PlanInv
    <3>3. Planned(f[2])' \in {Planned(f[2]), None} /\ Planned(g[2])' \in {Planned(g[2]), None}
      BY <2>2, <2>3, <2>4, <2>5, <3>1
    <3> QED BY <3>2, <3>3 DEF Agree
  <2>8. /\ \A f \in script'.folds : f[1] < next' /\ f[2] < next'
        /\ \A f, g \in script'.folds : f[1] # g[2]
    BY <1>0, <1>1, <2>1 DEF PlanInv
  <2> QED BY <1>3, <2>1, <2>6, <2>7, <2>8 DEF PlanInv
<1> QED BY <1>4, <1>5

LEMMA PhonePlanAgrees ==
    ASSUME Inv, NEW f \in PhoneMerges
    PROVE  /\ CleanMailbox(f[1]) # None /\ CleanMailbox(f[2]) # None =>
                  CleanMailbox(f[1]) = CleanMailbox(f[2])
           /\ \A g \in PhoneMerges : f[1] # g[2]
           /\ \A g \in PhoneMerges : f[1] = g[1] /\ CleanMailbox(f[2]) # None
                                     /\ CleanMailbox(g[2]) # None =>
                  CleanMailbox(f[2]) = CleanMailbox(g[2])
<1>1. Live \subseteq Nat
  BY BoundsAssumption DEF Live, Rows
<1>2. \A S \in SUBSET Live : \A x, y \in FirstNamed(S) : x = y
  BY <1>1 DEF FirstNamed
<1>3. \A g \in PhoneMerges :
          /\ g[1] \in Live /\ g[2] \in Live /\ g[1] # g[2] /\ g[2] \in PhoneGroup(g[1])
          /\ IsOldest(g[1], PhoneGroup(g[1])) /\ SamePerson(g[2], PhoneGroup(g[1]))
  BY DEF PhoneMerges
<1>4. \A a : PhoneGroup(a) \in SUBSET Live
  BY DEF PhoneGroup
<1>5. ASSUME CleanMailbox(f[1]) # None, CleanMailbox(f[2]) # None
      PROVE  CleanMailbox(f[1]) = CleanMailbox(f[2])
  <2> DEFINE S == PhoneGroup(f[1])
  <2>1. f[1] \in FirstNamed(S)
    <3>1. f[1] \in S /\ S \subseteq Nat /\ \A x \in S : f[1] <= x
      BY <1>1, <1>3, <1>4 DEF IsOldest
    <3>2. \A x \in S : ~(x < f[1])
      <4> DEFINE a == f[1]
      <4>1. a \in S
        BY <3>1
      <4>2. \A x \in S : a <= x
        BY <3>1
      <4> HIDE DEF a, S
      <4>3. \A x \in S : ~(x < a)
        BY <3>1, <4>1, <4>2
      <4> QED BY <4>3 DEF a
    <3> QED BY <1>5, <3>1, <3>2 DEF FirstNamed
  <2>2. \E x \in FirstNamed(S) : CleanMailbox(x) = CleanMailbox(f[2])
    BY <1>3, <1>5 DEF SamePerson
  <2> QED BY <1>2, <1>4, <2>1, <2>2
<1>6. ASSUME NEW g \in PhoneMerges, f[1] = g[2] PROVE FALSE
  <2>1. PhoneGroup(f[1]) = PhoneGroup(g[1])
    BY <1>3, <1>6 DEF PhoneGroup
  <2>2. IsOldest(f[1], PhoneGroup(f[1])) /\ IsOldest(g[1], PhoneGroup(f[1]))
    BY <1>3, <2>1
  <2>3. f[1] = g[1]
    <3>1. f[1] <= g[1] /\ g[1] <= f[1]
      BY <2>2 DEF IsOldest
    <3>2. f[1] \in Nat /\ g[1] \in Nat
      BY <1>1, <1>3
    <3> QED BY ONLY <3>1, <3>2
  <2> QED BY <1>3, <1>6, <2>3
<1>7. ASSUME NEW g \in PhoneMerges, f[1] = g[1], CleanMailbox(f[2]) # None, CleanMailbox(g[2]) # None
      PROVE  CleanMailbox(f[2]) = CleanMailbox(g[2])
  <2>1. \E x \in FirstNamed(PhoneGroup(f[1])) : CleanMailbox(x) = CleanMailbox(f[2])
    BY <1>3, <1>7 DEF SamePerson
  <2>2. \E x \in FirstNamed(PhoneGroup(f[1])) : CleanMailbox(x) = CleanMailbox(g[2])
    BY <1>3, <1>7 DEF SamePerson
  <2> QED BY <1>2, <1>4, <2>1, <2>2
<1> QED BY <1>5, <1>6, <1>7

LEMMA CasePlanAgrees ==
    ASSUME Inv, NEW f \in CaseMerges
    PROVE  /\ Mail(f[1]) = Mail(f[2])
           /\ \A g \in CaseMerges : f[1] # g[2]
<1>1. Live \subseteq Nat
  BY BoundsAssumption DEF Live, Rows
<1>2. \A g \in CaseMerges : /\ g[1] \in Live /\ g[2] \in Live /\ g[1] # g[2] /\ Mail(g[1]) = Mail(g[2])
                            /\ \A q \in Live : Mail(q) = Mail(g[2]) => g[1] <= q
  BY DEF CaseMerges, IsOldest
<1>3. ASSUME NEW g \in CaseMerges, f[1] = g[2] PROVE FALSE
  <2>1. f[1] <= g[1] /\ g[1] <= f[1]
    BY <1>2, <1>3
  <2>2. f[1] \in Nat /\ g[1] \in Nat
    BY <1>1, <1>2
  <2>3. f[1] = g[1]
    BY ONLY <2>1, <2>2
  <2> QED BY <1>2, <1>3, <2>3
<1> QED BY <1>2, <1>3

LEMMA PlanPlan ==
    ASSUME Inv, PlanCleanup \/ PlanCaseMerges, TypeOK'
    PROVE  PlanInv'
<1>1. /\ cand' = cand /\ next' = next /\ script'.touched = {}
      /\ \/ script'.scrub = BlockedContacts /\ script'.folds = PhoneMerges
         \/ script'.scrub = {} /\ script'.folds = CaseMerges
  BY DEF PlanCleanup, PlanCaseMerges, Plan
<1>2. Live' = Live /\ \A q \in Rows : Mail(q)' = Mail(q)
  BY <1>1 DEF Live, Mail
<1>3. \A q \in Rows : q >= next' => cand'[q].status = "none"
  BY <1>1 DEF Inv, PlanInv
<1>4. \A q \in Live : q \in Rows /\ q < next
  BY PlanRows
<1>5. CASE script'.scrub = BlockedContacts /\ script'.folds = PhoneMerges
  <2>1. \A f \in BlockedContacts : f[1] \in Live /\ cand[f[1]].typed
    BY DEF BlockedContacts, IsBlocked, Inv, Sound, Blocked, Live, Mail
  <2>2. \A q \in Rows : <<q, "email">> \in BlockedContacts <=> q \in Live /\ Mail(q) \in OfficeMail
    BY DEF BlockedContacts, IsBlocked, Contacts
  <2>3. \A q \in Live : Planned(q)' = CleanMailbox(q)
    BY <1>2, <1>4, <1>5, <2>2 DEF Planned, CleanMailbox
  <2>4. \A f \in PhoneMerges : f[1] \in Live /\ f[2] \in Live
    BY DEF PhoneMerges
  <2>5. \A f \in PhoneMerges : Agree(Planned(f[1]), Planned(f[2]))'
    BY <2>3, <2>4, PhonePlanAgrees DEF Agree
  <2>6. \A f, g \in PhoneMerges : f[1] = g[1] => Agree(Planned(f[2]), Planned(g[2]))'
    BY <2>3, <2>4, PhonePlanAgrees DEF Agree
  <2>7. \A f, g \in PhoneMerges : f[1] # g[2]
    BY PhonePlanAgrees
  <2> QED BY <1>1, <1>2, <1>3, <1>4, <1>5, <2>1, <2>2, <2>4, <2>5, <2>6, <2>7 DEF PlanInv
<1>6. CASE script'.scrub = {} /\ script'.folds = CaseMerges
  <2>1. \A f \in CaseMerges : f[1] \in Live /\ f[2] \in Live /\ f[1] \in Rows /\ f[2] \in Rows
    BY <1>4 DEF CaseMerges
  <2>2. \A q \in Rows : Planned(q)' = Mail(q)
    BY <1>2, <1>6 DEF Planned
  <2>3. \A f \in CaseMerges : Agree(Planned(f[1]), Planned(f[2]))'
    BY <2>1, <2>2, CasePlanAgrees DEF Agree
  <2>4. \A f, g \in CaseMerges : f[1] = g[1] => Agree(Planned(f[2]), Planned(g[2]))'
    BY <2>1, <2>2, CasePlanAgrees DEF Agree
  <2>5. \A f, g \in CaseMerges : f[1] # g[2]
    BY CasePlanAgrees
  <2> QED BY <1>1, <1>3, <1>4, <1>6, <2>1, <2>3, <2>4, <2>5 DEF PlanInv
<1> QED BY <1>1, <1>5, <1>6

------------------------------------------------------------------------------
(* The invariant is inductive.                                               *)

LEMMA InvInit == Init => Inv
<1> SUFFICES ASSUME Init PROVE Inv
  OBVIOUS
<1>1. TypeOK
  <2>1. NewTask \in TaskRecord /\ NoHand \in HandRecord /\ NoScript \in ScriptRecord
    BY DEF NewTask, TaskRecord, NoHand, HandRecord, NoScript, ScriptRecord, Emails, Numbers
  <2> QED BY <2>1, BoundsAssumption, NoRowSound DEF Init, TypeOK
<1>2. Live = {}
  BY DEF Init, Live, NoRow
<1>3. \A r \in Rows : Sound(cand[r])
  BY NoRowSound DEF Init
<1>4. Locks
  BY NullUnblocked DEF Init, Locks, OneHolder, Holds, NewTask
<1>5. PlanInv
  BY DEF Init, PlanInv, NoScript, NoRow
<1> QED BY <1>1, <1>2, <1>3, <1>4, <1>5 DEF Inv, Twins, MailboxTwinsTyped, LogsLive, Init

LEMMA InvStep == Inv /\ [Next]_vars => Inv'
<1> SUFFICES ASSUME Inv, [Next]_vars PROVE Inv'
  OBVIOUS
<1>0. CASE UNCHANGED vars
  BY <1>0 DEF vars, Inv, TypeOK, Twins, MailboxTwinsTyped, Locks, OneHolder, Holds, CheckHolds,
              LogsLive, PlanInv, Planned, Live, Mail
<1>1. ASSUME NEW m \in Messages, LockMailbox(m) PROVE Basics' /\ Twins' /\ Locks' /\ PlanInv'
  BY <1>1, LockMailboxBasics, LockMailboxKeeps, QuietPlan DEF Basics
<1>2. ASSUME NEW m \in Messages, Check(m) PROVE Basics' /\ Twins' /\ Locks' /\ PlanInv'
  BY <1>2, CheckBasics, CheckKeeps, QuietPlan DEF Basics
<1>3. ASSUME NEW m \in Messages, File(m) PROVE Basics' /\ Twins' /\ Locks' /\ PlanInv'
  BY <1>3, FileBasics, FileKeeps, FilePlan DEF Basics
<1>4. ASSUME NEW m \in Messages, FileFails(m) PROVE Basics' /\ Twins' /\ Locks' /\ PlanInv'
  BY <1>4, FileFailsBasics, OthersKeep, QuietPlan DEF Basics
<1>5. ASSUME NEW m \in Messages, Enrich(m) PROVE Basics' /\ Twins' /\ Locks' /\ PlanInv'
  BY <1>5, EnrichBasics, OthersKeep, QuietPlan DEF Basics
<1>6. ASSUME NEW m \in Messages, Rerun(m) PROVE Basics' /\ Twins' /\ Locks' /\ PlanInv'
  BY <1>6, RerunBasics, OthersKeep, QuietPlan DEF Basics
<1>7. ASSUME NEW t \in Tasks, HandCheck(t) PROVE Basics' /\ Twins' /\ Locks' /\ PlanInv'
  BY <1>7, HandBasics, OthersKeep, QuietPlan DEF Basics
<1>8. ASSUME NEW t \in Tasks, HandInsert(t) PROVE Basics' /\ Twins' /\ Locks' /\ PlanInv'
  BY <1>8, HandBasics, OthersKeep, HandInsertPlan DEF Basics
<1>9. ASSUME NEW r \in Rows, EditContact(r) \/ UploadCv(r) \/ Delete(r)
      PROVE  Basics' /\ Twins' /\ Locks' /\ PlanInv'
  BY <1>9, ByHandBasics, OthersKeep, QuietPlan DEF Basics
<1>10. ASSUME NEW r \in Rows, Scrub(r) PROVE Basics' /\ Twins' /\ Locks' /\ PlanInv'
  BY <1>10, ScrubBasics, OthersKeep, ScrubPlan DEF Basics
<1>11. ASSUME PlanCleanup \/ PlanCaseMerges PROVE Basics' /\ Twins' /\ Locks' /\ PlanInv'
  BY <1>11, PlanBasics, OthersKeep, PlanPlan DEF Basics
<1>12. ASSUME NEW s \in Rows, NEW r \in Rows, Fold(s, r) PROVE Basics' /\ Twins' /\ Locks' /\ PlanInv'
  <2>1. s # r
    BY <1>12, PlanRows DEF Fold, Inv, PlanInv
  <2> QED BY <1>12, <2>1, FoldBasics, FoldKeeps, FoldPlan DEF Basics
<1>13. ASSUME ScriptDies PROVE Basics' /\ Twins' /\ Locks' /\ PlanInv'
  <2>1. PlanInv'
    BY <1>13 DEF ScriptDies, NoScript, Inv, PlanInv
  <2> QED BY <1>13, <2>1, ScriptDiesBasics, OthersKeep DEF Basics
<1>14. Next => Basics' /\ Twins' /\ Locks' /\ PlanInv'
  BY <1>1, <1>2, <1>3, <1>4, <1>5, <1>6, <1>7, <1>8, <1>9, <1>10, <1>11, <1>12, <1>13 DEF Next
<1> QED BY <1>0, <1>14 DEF Inv, Basics

LEMMA Invariant == Spec => []Inv
BY InvInit, InvStep, PTL DEF Spec

------------------------------------------------------------------------------
(* Which row a submission is filed under.                                    *)

Unfiled == {"new", "locked", "checked", "again"}

\* Until it is filed a submission has no row in its log; from then on the log names the row whose
\* text it is, and the row its worker holds in memory, unless that is gone.
Attributed ==
    /\ \A r \in Live : cand[r].text \in Messages => log[cand[r].text] = r
    /\ \A m \in Messages : task[m].at \in Unfiled => log[m] = None
    /\ \A m \in Messages : task[m].at = "filed" =>
           /\ task[m].found \in Rows /\ cand[task[m].found].status # "none"
           /\ task[m].found \in Live => log[m] = task[m].found

\* A task does not take a step into or out of a filed state, except to end.
Stays(m) ==
    \/ task'[m] = task[m]
    \/ task[m].at \in Unfiled /\ task'[m].at \in Unfiled
    \/ task'[m].at = "done"

\* A row appears without a submission's text, and keeps the text it has.
KeepsText(r) ==
    /\ r \in Live' => cand'[r].text \notin Messages \/ (r \in Live /\ cand'[r].text = cand[r].text)
    /\ cand[r].status # "none" => cand'[r].status # "none" /\ (r \in Live' => r \in Live)

LEMMA AttributedKept ==
    ASSUME Attributed, log' = log, \A m \in Messages : Stays(m), \A r \in Rows : KeepsText(r)
    PROVE  Attributed'
<1>1. \A r \in Live' : cand'[r].text \in Messages => log'[cand'[r].text] = r
  BY DEF KeepsText, Attributed, Live
<1>2. \A m \in Messages : task'[m].at \in Unfiled => log'[m] = None
  BY DEF Stays, Attributed, Unfiled
<1>3. ASSUME NEW m \in Messages, task'[m].at = "filed"
      PROVE  /\ task'[m].found \in Rows /\ cand'[task'[m].found].status # "none"
             /\ task'[m].found \in Live' => log'[m] = task'[m].found
  BY <1>3 DEF Stays, KeepsText, Attributed, Unfiled
<1> QED BY <1>1, <1>2, <1>3 DEF Attributed

\* One row is written, and has the text it had or none of a submission.
LEMMA TextKept ==
    ASSUME TypeOK, NEW r \in Rows, \A q \in Rows \ {r} : cand'[q] = cand[q], cand'[r].status # "none",
           \/ cand[r].status = "none" /\ cand'[r].text \notin Messages
           \/ r \in Live /\ (cand'[r].text \notin Messages \/ cand'[r].text = cand[r].text)
    PROVE  \A q \in Rows : KeepsText(q)
<1>1. KeepsText(r)
  BY DEF KeepsText, Live
<1>2. \A q \in Rows \ {r} : KeepsText(q)
  BY DEF KeepsText, Live
<1> QED BY <1>1, <1>2

LEMMA AttributedStep ==
    ASSUME Inv, Inv', Attributed, Next
    PROVE  Attributed'
<1>0. /\ cand \in [Rows -> CandidateRow] /\ log \in [Messages -> Rows \cup {None}]
      /\ task \in [Messages -> TaskRecord] /\ TypeOK
      /\ None \notin Rows /\ None \notin Messages /\ Upload \notin Messages
  BY NullAssumption DEF Inv, TypeOK, Sources
<1>1. ASSUME UNCHANGED cand PROVE \A q \in Rows : KeepsText(q)
  BY <1>1 DEF KeepsText, Live
<1>2. ASSUME UNCHANGED task PROVE \A m \in Messages : Stays(m)
  BY <1>2 DEF Stays
<1>3. ASSUME NEW m \in Messages, LockMailbox(m) PROVE Attributed'
  <2>1. task[m].at \in Unfiled /\ task'[m].at \in Unfiled /\ \A n \in Messages \ {m} : task'[n] = task[n]
    <3>1. PICK t : task' = [task EXCEPT ![m] = [t EXCEPT !.at = "locked"]] /\ t \in TaskRecord
      <4>1. PICK x \in Extracted[m] :
                task' = [task EXCEPT ![m] =
                    [IF task[m].at = "again" THEN task[m] ELSE
                     [task[m] EXCEPT !.email = Unblocked(x[1]), !.phone = UnblockedNumber(x[2])]
                     EXCEPT !.at = "locked"]]
        BY <1>3 DEF LockMailbox
      <4>2. x \in (Addresses \cup {None}) \X (Phones \cup {None})
        BY DataAssumption
      <4>3. Unblocked(x[1]) \in Emails /\ UnblockedNumber(x[2]) \in Numbers
        BY <4>2 DEF Unblocked, UnblockedNumber, Emails, Numbers
      <4>4. (IF task[m].at = "again" THEN task[m] ELSE
             [task[m] EXCEPT !.email = Unblocked(x[1]), !.phone = UnblockedNumber(x[2])]) \in TaskRecord
        BY <1>0, <4>3 DEF TaskRecord
      <4> QED BY <4>1, <4>4
    <3> QED BY <1>0, <1>3, <3>1 DEF LockMailbox, TaskRecord, Unfiled
  <2> QED BY <1>1, <1>3, <2>1, AttributedKept DEF LockMailbox, Stays
<1>4. ASSUME NEW m \in Messages, Check(m) \/ FileFails(m) PROVE Attributed'
  <2>1. task[m].at \in Unfiled /\ task'[m].at \in Unfiled /\ \A n \in Messages \ {m} : task'[n] = task[n]
    <3>1. CASE Check(m)
      <4>1. PICK x, via : task' = [task EXCEPT ![m] =
                [task[m] EXCEPT !.at = "checked", !.found = x, !.via = via]]
        BY <3>1 DEF Check
      <4> QED BY <1>0, <3>1, <4>1 DEF Check, TaskRecord, Unfiled
    <3>2. CASE FileFails(m)
      BY <1>0, <3>2 DEF FileFails, TaskRecord, Unfiled
    <3> QED BY <1>4, <3>1, <3>2
  <2> QED BY <1>1, <1>4, <2>1, AttributedKept DEF Check, FileFails, Stays
<1>5. ASSUME NEW m \in Messages, File(m) PROVE Attributed'
  <2> DEFINE r == IF task[m].found = None THEN next ELSE task[m].found
  <2>1. /\ task[m].at = "checked" /\ log[m] = None
        /\ log' = [log EXCEPT ![m] = r]
        /\ task'[m].at = "filed" /\ task'[m].found = r
        /\ \A n \in Messages \ {m} : task'[n] = task[n]
    BY <1>0, <1>5 DEF File, TaskRecord, Attributed, Unfiled
  <2>2. /\ r \in Rows /\ cand'[r].status = "live" /\ cand'[r].text \in {m, cand[r].text}
        /\ \/ cand[r].status = "none" /\ cand'[r].text = m
           \/ r \in Live /\ cand'[r].text = cand[r].text
        /\ \A q \in Rows \ {r} : cand'[q] = cand[q]
    <3>1. CASE task[m].found = None
      <4>1. next \in Rows /\ cand[next].status = "none"
        <5>1. next <= MaxRows /\ next \in 1 .. MaxRows + 1
          BY <1>0, <1>5, <3>1 DEF File, TypeOK
        <5>2. next \in Rows
          BY ONLY <5>1, BoundsAssumption DEF Rows
        <5> QED BY <5>1, <5>2 DEF Inv, PlanInv
      <4>2. cand' = [cand EXCEPT ![next] = Inserted(m, task[m])]
        BY <1>5, <3>1 DEF File
      <4>3. Inserted(m, task[m]).status = "live" /\ Inserted(m, task[m]).text = m
        BY DEF Inserted, NoRow
      <4> QED BY <1>0, <3>1, <4>1, <4>2, <4>3
    <3>2. CASE task[m].found # None
      <4>1. /\ r \in Live /\ r \in Rows
            /\ cand' = [cand EXCEPT ![r] = FilledContacts(r, task[m])]
        BY <1>5, <3>2 DEF File, Live
      <4>2. /\ FilledContacts(r, task[m]).status = cand[r].status
            /\ FilledContacts(r, task[m]).text = cand[r].text
        BY <1>0, <4>1 DEF FilledContacts, CandidateRow
      <4> HIDE DEF r
      <4> QED BY <1>0, <4>1, <4>2 DEF Live
    <3> QED BY <3>1, <3>2
  <2> HIDE DEF r
  <2>3. ASSUME NEW q \in Live', cand'[q].text \in Messages PROVE log'[cand'[q].text] = q
    <3>1. CASE q \in Live /\ cand'[q].text = cand[q].text
      <4>1. log[cand[q].text] = q /\ cand[q].text # m
        BY <1>0, <2>1, <2>3, <3>1 DEF Attributed, Live
      <4> QED BY <1>0, <2>1, <2>3, <3>1, <4>1
    <3>2. CASE q = r /\ cand'[q].text = m
      BY <1>0, <2>1, <3>2
    <3> QED BY <2>2, <2>3, <3>1, <3>2 DEF Live
  <2>4. \A n \in Messages : task'[n].at \in Unfiled => log'[n] = None
    BY <1>0, <2>1 DEF Attributed, Unfiled
  <2>5. ASSUME NEW n \in Messages, task'[n].at = "filed"
        PROVE  /\ task'[n].found \in Rows /\ cand'[task'[n].found].status # "none"
               /\ task'[n].found \in Live' => log'[n] = task'[n].found
    <3>1. CASE n = m
      BY <1>0, <2>1, <2>2, <3>1
    <3>2. CASE n # m
      <4>1. /\ task[n].found \in Rows /\ cand[task[n].found].status # "none"
            /\ task[n].found \in Live => log[n] = task[n].found
        BY <2>1, <2>5, <3>2 DEF Attributed
      <4>2. cand'[task[n].found].status # "none" /\ (task[n].found \in Live' => task[n].found \in Live)
        BY <2>2, <4>1 DEF Live
      <4> QED BY <1>0, <2>1, <3>2, <4>1, <4>2
    <3> QED BY <3>1, <3>2
  <2> QED BY <2>3, <2>4, <2>5 DEF Attributed
<1>6. ASSUME NEW m \in Messages, Enrich(m) PROVE Attributed'
  <2> DEFINE r == task[m].found
             y == Merged(cand[r], m, IF m \in Files THEN m ELSE None, Document[m] # None, Document[m])
             z == Placed(y, Target[m])
  <2>1. r \in Live /\ r \in Rows /\ cand' = [cand EXCEPT ![r] = z] /\ log' = log /\ log[m] = r
    BY <1>6 DEF Enrich, Live, Attributed
  <2>2. y.text \in {m, cand[r].text} /\ y.status = "live" /\ DOMAIN y = DOMAIN cand[r]
    BY <1>0, <2>1 DEF Merged, CandidateRow, Live
  <2>3. z.text \in {m, cand[r].text} /\ z.status = "live"
    <3> HIDE DEF y
    <3> QED BY <1>0, <2>1, <2>2 DEF Placed, CandidateRow
  <2> HIDE DEF r, z
  <2>4. Live' = Live /\ cand'[r].text \in {m, cand[r].text} /\ \A q \in Rows \ {r} : cand'[q] = cand[q]
    BY <1>0, <2>1, <2>3 DEF Live
  <2>5. \A q \in Live' : cand'[q].text \in Messages => log'[cand'[q].text] = q
    BY <2>1, <2>4 DEF Attributed, Live
  <2>6. task'[m].at = "done" /\ \A n \in Messages \ {m} : task'[n] = task[n]
    BY <1>0, <1>6 DEF Enrich, NewTask
  <2>7. \A q \in Rows : cand[q].status # "none" => cand'[q].status # "none"
    BY <2>1, <2>4 DEF Live
  <2> QED BY <2>1, <2>4, <2>5, <2>6, <2>7 DEF Attributed, Unfiled
<1>7. ASSUME NEW m \in Messages, Rerun(m) PROVE Attributed'
  <2>1. /\ \A n \in Messages \ {m} : task'[n] = task[n]
        /\ \/ log[m] # None /\ task'[m].at = "filed" /\ task'[m].found = log[m]
           \/ log[m] = None /\ task'[m].at = "again"
        /\ UNCHANGED <<cand, log>>
    BY <1>0, <1>7 DEF Rerun, TaskRecord
  <2>2. log[m] # None => log[m] \in Rows /\ cand[log[m]].status = "live"
    BY DEF Inv, LogsLive, Live
  <2> QED BY <2>1, <2>2 DEF Attributed, Live, Unfiled
<1>8. ASSUME NEW t \in Tasks, HandCheck(t) PROVE Attributed'
  BY <1>1, <1>2, <1>8, AttributedKept DEF HandCheck
<1>9. ASSUME NEW t \in Tasks, HandInsert(t) PROVE Attributed'
  <2>1. CASE UNCHANGED cand
    BY <1>1, <1>2, <1>9, <2>1, AttributedKept DEF HandInsert
  <2>2. CASE ~UNCHANGED cand
    <3>1. next \in Rows /\ cand[next].status = "none"
      <4>1. next <= MaxRows /\ next \in 1 .. MaxRows + 1
        BY <1>0, <1>9, <2>2 DEF HandInsert, TypeOK
      <4>2. next \in Rows
        BY ONLY <4>1, BoundsAssumption DEF Rows
      <4> QED BY <4>1, <4>2 DEF Inv, PlanInv
    <3>2. cand'[next].status = "live" /\ cand'[next].text = None
          /\ \A q \in Rows \ {next} : cand'[q] = cand[q]
      BY <1>0, <1>9, <2>2, <3>1 DEF HandInsert, NoRow
    <3>3. \A q \in Rows : KeepsText(q)
      BY <1>0, <3>1, <3>2, TextKept
    <3> QED BY <1>2, <1>9, <3>3, AttributedKept DEF HandInsert
  <2> QED BY <2>1, <2>2
<1>10. ASSUME NEW r \in Rows, EditContact(r) \/ UploadCv(r) \/ Scrub(r) PROVE Attributed'
  <2>1. r \in Live /\ UNCHANGED <<log, task>> /\ \A q \in Rows \ {r} : cand'[q] = cand[q]
    BY <1>0, <1>10 DEF EditContact, UploadCv, Scrub
  <2>2. cand'[r].status = "live" /\ (cand'[r].text \notin Messages \/ cand'[r].text = cand[r].text)
    <3>1. CASE EditContact(r)
      BY <1>0, <2>1, <3>1 DEF EditContact, CandidateRow, Live
    <3>2. CASE UploadCv(r)
      BY <1>0, <2>1, <3>2 DEF UploadCv, CandidateRow, Live
    <3>3. CASE Scrub(r)
      BY <1>0, <2>1, <3>3 DEF Scrub, CandidateRow, Live
    <3> QED BY <1>10, <3>1, <3>2, <3>3
  <2>3. \A q \in Rows : KeepsText(q)
    BY <1>0, <2>1, <2>2, TextKept
  <2> QED BY <1>2, <2>1, <2>3, AttributedKept
<1>11. ASSUME NEW r \in Rows, Delete(r) PROVE Attributed'
  <2>1. /\ \A q \in Rows \ {r} : cand'[q] = cand[q]
        /\ cand'[r].status = "gone" /\ task' = task
        /\ log' = [m \in Messages |-> IF log[m] = r THEN None ELSE log[m]]
    BY <1>0, <1>11 DEF Delete, NoRow
  <2> QED BY <1>0, <2>1 DEF Attributed, Live, Unfiled
<1>12. ASSUME NEW s \in Rows, NEW r \in Rows, Fold(s, r) PROVE Attributed'
  <2>1. s # r /\ s \in Live /\ r \in Live
    BY <1>12, PlanRows DEF Fold, Inv, PlanInv
  <2>2. /\ cand'[s] = Folded(s, r) /\ cand'[r].status = "gone" /\ task' = task
        /\ \A q \in Rows \ {s, r} : cand'[q] = cand[q]
        /\ log' = [m \in Messages |-> IF log[m] = r THEN s ELSE log[m]]
    BY <1>0, <1>12, <2>1 DEF Fold, Repointed, NoRow
  <2>3. Folded(s, r).status = "live" /\ Folded(s, r).text \in {cand[s].text, cand[r].text}
    BY <1>0, <2>1 DEF Folded, Merged, CandidateRow, Live
  <2>4. \A q \in Live' : cand'[q].text \in Messages => log'[cand'[q].text] = q
    BY <1>0, <2>1, <2>2, <2>3 DEF Attributed, Live
  <2>5. \A q \in Rows : cand[q].status # "none" => cand'[q].status # "none" /\ (q \in Live' => q \in Live /\ q # r)
    BY <2>1, <2>2, <2>3 DEF Live
  <2>6. \A n \in Messages : task[n].at \in Unfiled => log'[n] = None
    BY <1>0, <2>2 DEF Attributed
  <2> QED BY <1>0, <2>2, <2>4, <2>5, <2>6 DEF Attributed
<1>13. ASSUME PlanCleanup \/ PlanCaseMerges \/ ScriptDies PROVE Attributed'
  BY <1>1, <1>2, <1>13, AttributedKept DEF PlanCleanup, PlanCaseMerges, Plan, ScriptDies
<1> QED BY <1>3, <1>4, <1>5, <1>6, <1>7, <1>8, <1>9, <1>10, <1>11, <1>12, <1>13 DEF Next

------------------------------------------------------------------------------
(* The numbers a script is about to clear.                                   *)

\* A number planned for clearing is still the blocked one, unless the row's contacts changed.
NumbersPlanned ==
    \A r \in Live : <<r, "phone">> \in script.scrub /\ r \notin script.touched =>
        cand[r].phone \in OfficePhones

\* A row still planned has the number it had, or is noted as touched.
LEMMA NumbersKept ==
    ASSUME NumbersPlanned, TypeOK, script'.scrub \subseteq script.scrub,
           script.touched \subseteq script'.touched,
           \A r \in Live' : <<r, "phone">> \in script'.scrub =>
               r \in Live /\ (cand'[r].phone = cand[r].phone \/ r \in script'.touched)
    PROVE  NumbersPlanned'
BY DEF NumbersPlanned

LEMMA NumbersStep ==
    ASSUME Inv, Inv', NumbersPlanned, Next
    PROVE  NumbersPlanned'
<1>0. /\ cand \in [Rows -> CandidateRow] /\ script \in ScriptRecord /\ TypeOK
      /\ next \in Nat /\ Rows \subseteq Nat
      /\ \A r \in Rows : <<r, "phone">> \in script.scrub => r < next
  BY BoundsAssumption DEF Inv, TypeOK, PlanInv, Rows
<1>1. ASSUME Touch, NEW r \in Rows, r \in Live \/ r >= next, \A q \in Rows \ {r} : cand'[q] = cand[q]
      PROVE  NumbersPlanned'
  <2>1. /\ script'.scrub = script.scrub /\ script.touched \subseteq script'.touched
        /\ script.scrub # {} =>
               \A q \in Live : cand'[q].phone # cand[q].phone => q \in script'.touched
    BY <1>0, <1>1 DEF Touch, ScriptRecord
  <2>2. \A q \in Live' : <<q, "phone">> \in script.scrub => q \in Live
    <3>1. \A q \in Rows : ~(q < next /\ q >= next)
      BY <1>0
    <3> QED BY <1>0, <1>1, <3>1 DEF Live
  <2> QED BY <1>0, <2>1, <2>2, NumbersKept
<1>2. ASSUME NEW m \in Messages, File(m) PROVE NumbersPlanned'
  <2>1. CASE task[m].found = None
    <3>1. next <= MaxRows /\ next \in 1 .. MaxRows + 1
      BY <1>0, <1>2, <2>1 DEF File, TypeOK
    <3>2. next \in Rows
      BY ONLY <3>1, BoundsAssumption DEF Rows
    <3>3. Touch /\ \A q \in Rows \ {next} : cand'[q] = cand[q]
      BY <1>0, <1>2, <2>1, <3>2 DEF File
    <3> QED BY <1>0, <1>1, <3>2, <3>3
  <2>2. CASE task[m].found # None
    <3>1. Touch /\ task[m].found \in Live /\ \A q \in Rows \ {task[m].found} : cand'[q] = cand[q]
      BY <1>0, <1>2, <2>2 DEF File, Live
    <3> QED BY <1>1, <3>1 DEF Live
  <2> QED BY <2>1, <2>2
<1>3. ASSUME NEW r \in Rows, EditContact(r) PROVE NumbersPlanned'
  <2>1. Touch /\ r \in Live /\ \A q \in Rows \ {r} : cand'[q] = cand[q]
    BY <1>0, <1>3 DEF EditContact
  <2> QED BY <1>1, <2>1
<1>4. ASSUME NEW t \in Tasks, HandInsert(t) PROVE NumbersPlanned'
  <2>1. CASE UNCHANGED cand
    BY <1>0, <1>4, <2>1, NumbersKept DEF HandInsert, Live
  <2>2. CASE ~UNCHANGED cand
    <3>1. PICK x : cand' = [cand EXCEPT ![next] = x]
      BY <1>4, <2>2 DEF HandInsert
    <3>2. \A q \in Rows : q < next => cand'[q] = cand[q]
      BY <1>0, <3>1
    <3> QED BY <1>0, <1>4, <3>2, NumbersKept DEF HandInsert, Live
  <2> QED BY <2>1, <2>2
<1>5. ASSUME NEW m \in Messages, Enrich(m) PROVE NumbersPlanned'
  <2> DEFINE r == task[m].found
             y == Merged(cand[r], m, IF m \in Files THEN m ELSE None, Document[m] # None, Document[m])
             z == Placed(y, Target[m])
  <2>1. r \in Live /\ r \in Rows /\ cand' = [cand EXCEPT ![r] = z] /\ script' = script
    BY <1>5 DEF Enrich, Live
  <2>2. y.phone = cand[r].phone /\ y.status = "live" /\ DOMAIN y = DOMAIN cand[r]
    BY <1>0, <2>1 DEF Merged, CandidateRow, Live
  <2>3. z.phone = cand[r].phone /\ z.status = "live"
    <3> HIDE DEF y
    <3> QED BY <1>0, <2>1, <2>2 DEF Placed, CandidateRow
  <2> HIDE DEF r, z
  <2>4. \A q \in Rows : cand'[q].phone = cand[q].phone /\ (q \in Live' => q \in Live)
    BY <1>0, <2>1, <2>3 DEF Live
  <2> QED BY <1>0, <2>1, <2>4, NumbersKept DEF Live
<1>6. ASSUME NEW r \in Rows, UploadCv(r) \/ Delete(r) PROVE NumbersPlanned'
  <2>1. /\ script' = script /\ \A q \in Rows \ {r} : cand'[q] = cand[q]
        /\ r \in Live /\ (r \in Live' => cand'[r].phone = cand[r].phone)
    BY <1>0, <1>6 DEF UploadCv, Delete, CandidateRow, NoRow, Live
  <2> QED BY <1>0, <2>1, NumbersKept DEF Live
<1>7. ASSUME NEW r \in Rows, Scrub(r) PROVE NumbersPlanned'
  <2>1. /\ script'.scrub = script.scrub \ ({r} \X Contacts) /\ script'.touched = script.touched
        /\ \A q \in Rows \ {r} : cand'[q] = cand[q]
    BY <1>0, <1>7 DEF Scrub, ScriptRecord
  <2>2. \A q \in Rows : <<q, "phone">> \in script'.scrub => q # r
    BY <2>1 DEF Contacts
  <2> QED BY <1>0, <2>1, <2>2, NumbersKept DEF Live
<1>8. ASSUME PlanCleanup \/ PlanCaseMerges PROVE NumbersPlanned'
  <2>1. cand' = cand /\ (script'.scrub = BlockedContacts \/ script'.scrub = {})
    BY <1>8 DEF PlanCleanup, PlanCaseMerges, Plan
  <2>2. \A r \in Live : <<r, "phone">> \in BlockedContacts => cand[r].phone \in OfficePhones
    BY DEF BlockedContacts, IsBlocked
  <2> QED BY <2>1, <2>2 DEF NumbersPlanned, Live
<1>9. ASSUME (\E s, r \in Rows : Fold(s, r)) \/ ScriptDies PROVE NumbersPlanned'
  <2>1. script'.scrub = {}
    <3>1. ASSUME NEW s \in Rows, NEW r \in Rows, Fold(s, r) PROVE script'.scrub = {}
      BY <1>0, <3>1 DEF Fold, NoScript, ScriptRecord
    <3> QED BY <1>9, <3>1 DEF ScriptDies, NoScript
  <2> QED BY <2>1 DEF NumbersPlanned
<1>10. ASSUME UNCHANGED <<cand, script>> PROVE NumbersPlanned'
  BY <1>10 DEF NumbersPlanned, Live
<1> QED BY <1>2, <1>3, <1>4, <1>5, <1>6, <1>7, <1>8, <1>9, <1>10
        DEF Next, LockMailbox, Check, FileFails, Rerun, HandCheck

LEMMA Attribution == Spec => [](Attributed /\ NumbersPlanned)
<1>1. Init => Attributed /\ NumbersPlanned
  BY DEF Init, Attributed, NumbersPlanned, Unfiled, NewTask, NoRow, NoScript, Live
<1>2. Inv /\ Inv' /\ Attributed /\ NumbersPlanned /\ [Next]_vars => (Attributed /\ NumbersPlanned)'
  <2>1. UNCHANGED vars /\ Attributed /\ NumbersPlanned => (Attributed /\ NumbersPlanned)'
    BY DEF vars, Attributed, NumbersPlanned, Live
  <2> QED BY <2>1, AttributedStep, NumbersStep
<1> QED BY <1>1, <1>2, Invariant, PTL DEF Spec

------------------------------------------------------------------------------
(* The theorems.                                                             *)

\* Every row, lock and plan stays within its type, whatever the bounds.
THEOREM IdentityTypes == Spec => []TypeOK
<1>1. Inv => TypeOK
  BY DEF Inv
<1> QED BY <1>1, Invariant, PTL

\* Intake never makes two candidates of one mailbox: the mailbox lock and the lookup under it
\* do not depend on the unique index, which may tell capitals apart.
THEOREM OneRowPerMailbox == Spec => []MailboxTwinsTyped
<1>1. Inv => MailboxTwinsTyped
  BY DEF Inv, Twins
<1> QED BY <1>1, Invariant, PTL

\* A blocklisted address or number is on a candidate only when a recruiter entered one there.
THEOREM OfficeContactsStayOut == Spec => []OfficeContactsTyped
<1>1. Inv => OfficeContactsTyped
  BY DEF Inv, OfficeContactsTyped, Sound, Blocked, Live, Mail
<1> QED BY <1>1, Invariant, PTL

\* A CV text that came with a file stands next to that file, across intake, uploads and merges.
THEOREM TextKeepsItsFile == Spec => []TextBesideItsFile
<1>1. Inv => TextBesideItsFile
  BY DEF Inv, TextBesideItsFile, Sound, Live
<1> QED BY <1>1, Invariant, PTL

\* The submission a candidate's CV text came from names that candidate in its intake log.
THEOREM PointersAreKept == Spec => []PointersHold
<1>1. Inv /\ Attributed => PointersHold
  BY DEF Inv, Attributed, PointersHold, Sound, Live
<1> QED BY <1>1, Invariant, Attribution, PTL

\* No candidate is assigned to a job it has no application for.
THEOREM ApplicationsAreKept == Spec => []ApplicationsFollow
<1>1. Inv => ApplicationsFollow
  BY DEF Inv, ApplicationsFollow, Sound, Live
<1> QED BY <1>1, Invariant, PTL

\* What the check read is still so at the insert, several steps later: the phone lock keeps the
\* other workers from that number, and every other step only takes contacts away.
THEOREM InsertsOnlyStrangers == Spec => NewRowIsStranger
<1> DEFINE A == \A m \in Messages :
          log[m] = None /\ log'[m] # None /\ task[m].found = None /\ task[m].via = "nothing" =>
              \A s \in Live : HasPhone(s, task[m].phone) /\ ~cand[s].typed =>
                  ~Compatible(cand[s].email, task[m].email)
<1>1. Inv /\ [Next]_vars => [A]_vars
  <2> SUFFICES ASSUME Inv, Next, NEW m \in Messages, log[m] = None, log'[m] # None,
                      task[m].via = "nothing", NEW s \in Live, HasPhone(s, task[m].phone),
                      ~cand[s].typed
               PROVE  ~Compatible(cand[s].email, task[m].email)
    OBVIOUS
  <2>1. log \in [Messages -> Rows \cup {None}] /\ None \notin Rows
    BY NullAssumption DEF Inv, TypeOK
  <2>2. File(m)
    <3>1. ASSUME NEW n \in Messages, n # m, File(n) PROVE FALSE
      BY <2>1, <3>1 DEF File
    <3>2. ASSUME NEW a \in Rows, NEW b \in Rows, Fold(a, b) PROVE FALSE
      BY <2>1, <3>2 DEF Fold, Repointed
    <3>3. ASSUME NEW r \in Rows, Delete(r) PROVE FALSE
      BY <2>1, <3>3 DEF Delete
    <3> QED BY <3>1, <3>2, <3>3 DEF Next, LockMailbox, Check, FileFails, Enrich, Rerun, HandCheck,
                HandInsert, EditContact, UploadCv, Scrub, PlanCleanup, PlanCaseMerges, Plan, ScriptDies
  <2>3. CheckHolds(m)
    BY <2>2 DEF File, Inv, Locks
  <2> QED BY <2>3 DEF CheckHolds, HasPhone
<1> QED BY <1>1, Invariant, PTL DEF Spec, NewRowIsStranger

\* A script's plan is right about every row nobody touched, so only rows that changed after the
\* plan are folded by mistake.
THEOREM FoldsErrOnlyWhenStale == Spec => FoldsOnlyWhenStale
<1> DEFINE A == \A s, r \in Rows :
          <<s, r>> \in script.folds \ script'.folds /\ r \in Live /\ cand'[r].status = "gone" =>
              Compatible(cand[s].email, cand[r].email) \/ {s, r} \cap script.touched # {}
<1>1. Inv /\ [Next]_vars => [A]_vars
  <2> SUFFICES ASSUME Inv, Next PROVE A
    OBVIOUS
  <2>1. ASSUME NEW s \in Rows, NEW r \in Rows,
               <<s, r>> \in script.folds \ script'.folds, r \in Live, cand'[r].status = "gone"
        PROVE  Compatible(cand[s].email, cand[r].email) \/ {s, r} \cap script.touched # {}
    <3>1. script.scrub = {}
      <4>1. ASSUME NEW a \in Rows, NEW b \in Rows, Fold(a, b) PROVE script.scrub = {}
        BY <4>1 DEF Fold
      <4>2. \/ cand'[r] = cand[r]
            \/ script'.folds = script.folds
            \/ \E a, b \in Rows : Fold(a, b)
        <5>1. ASSUME NEW m \in Messages, File(m) PROVE script'.folds = script.folds
          BY <5>1, TouchedRows DEF File
        <5>2. ASSUME NEW q \in Rows, EditContact(q) PROVE script'.folds = script.folds
          BY <5>2, TouchedRows DEF EditContact
        <5>3. ASSUME NEW q \in Rows, Scrub(q) PROVE script'.folds = script.folds
          BY <5>3 DEF Scrub, Inv, TypeOK, ScriptRecord
        <5>4. PlanCleanup \/ PlanCaseMerges \/ ScriptDies => cand' = cand
          BY DEF PlanCleanup, PlanCaseMerges, Plan, ScriptDies
        <5>5. ASSUME NEW m \in Messages, LockMailbox(m) \/ Check(m) \/ FileFails(m) \/ Enrich(m) \/ Rerun(m)
              PROVE  script' = script
          BY <5>5 DEF LockMailbox, Check, FileFails, Enrich, Rerun
        <5>6. ASSUME NEW t \in Tasks, HandCheck(t) \/ HandInsert(t) PROVE script' = script
          BY <5>6 DEF HandCheck, HandInsert
        <5>7. ASSUME NEW q \in Rows, UploadCv(q) \/ Delete(q) PROVE script' = script
          BY <5>7 DEF UploadCv, Delete
        <5> QED BY <5>1, <5>2, <5>3, <5>4, <5>5, <5>6, <5>7 DEF Next
      <4>3. cand'[r] # cand[r]
        BY <2>1 DEF Live
      <4> QED BY <2>1, <4>1, <4>2, <4>3
    <3> DEFINE f == <<s, r>>
    <3>2. f \in script.folds /\ f[1] = s /\ f[2] = r
      BY <2>1
    <3> HIDE DEF f
    <3>3. {s, r} \cap script.touched # {} \/ Agree(Planned(s), Planned(r))
      BY <3>2 DEF Inv, PlanInv
    <3> QED BY <3>1, <3>3 DEF Planned, Agree, Compatible, Mail
  <2> QED BY <2>1
<1> QED BY <1>1, Invariant, PTL DEF Spec, FoldsOnlyWhenStale

\* Nor are addresses and numbers cleared by mistake but on rows that changed after the plan.
THEOREM ClearsErrOnlyWhenStale == Spec => ClearsOnlyWhenStale
<1> DEFINE A == \A r \in Rows, contact \in Contacts :
          script'.scrub # script.scrub /\ cand'[r][contact] # cand[r][contact] =>
              IsBlocked(r, contact) \/ r \in script.touched
<1>1. Inv /\ NumbersPlanned /\ [Next]_vars => [A]_vars
  <2> SUFFICES ASSUME Inv, NumbersPlanned, Next PROVE A
    OBVIOUS
  <2>1. ASSUME NEW r \in Rows, NEW contact \in Contacts,
               script'.scrub # script.scrub, cand'[r][contact] # cand[r][contact]
        PROVE  IsBlocked(r, contact) \/ r \in script.touched
    <3>1. Scrub(r)
      <4>1. ASSUME Touch PROVE script'.scrub = script.scrub
        BY <4>1, TouchedRows
      <4>2. \A q \in Rows : Scrub(q) => q = r
        BY <2>1 DEF Scrub, Inv, TypeOK
      <4>3. \A q \in Rows : ~EditContact(q)
        BY <2>1, <4>1 DEF EditContact
      <4>4. \A m \in Messages : ~File(m)
        BY <2>1, <4>1 DEF File
      <4>5. \A a, b \in Rows : ~Fold(a, b)
        <5>1. ASSUME NEW a \in Rows, NEW b \in Rows, Fold(a, b) PROVE script'.scrub = script.scrub
          BY <5>1 DEF Fold, NoScript, Inv, TypeOK, ScriptRecord
        <5> QED BY <2>1, <5>1
      <4> QED BY <2>1, <4>2, <4>3, <4>4, <4>5
              DEF Next, LockMailbox, Check, FileFails, Enrich, Rerun, HandCheck, HandInsert, UploadCv,
                  Delete, PlanCleanup, PlanCaseMerges, Plan, ScriptDies
    <3>2. /\ cand[r] \in CandidateRow /\ r \in Live
          /\ cand' = [cand EXCEPT ![r].email = IF <<r, "email">> \in script.scrub THEN None ELSE @,
                                  ![r].phone = IF <<r, "phone">> \in script.scrub THEN None ELSE @]
      BY <3>1 DEF Scrub, Cleared, Contacts, Inv, TypeOK
    <3>3. CASE contact = "email"
      <4>1. <<r, "email">> \in script.scrub /\ cand[r].email # None
        BY <2>1, <3>2, <3>3 DEF CandidateRow, Inv, TypeOK
      <4>2. Mail(r) # None
        BY <3>2, <4>1, MailboxNull DEF Mail, CandidateRow
      <4> QED BY <3>3, <4>1, <4>2 DEF Inv, PlanInv, IsBlocked
    <3>4. CASE contact = "phone"
      <4>1. <<r, "phone">> \in script.scrub
        BY <2>1, <3>2, <3>4 DEF CandidateRow, Inv, TypeOK
      <4> QED BY <3>2, <3>4, <4>1 DEF NumbersPlanned, IsBlocked
    <3> QED BY <3>3, <3>4 DEF Contacts
  <2> QED BY <2>1
<1> QED BY <1>1, Invariant, Attribution, PTL DEF Spec, ClearsOnlyWhenStale
==============================================================================
