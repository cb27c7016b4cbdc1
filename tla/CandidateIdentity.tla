------------------------- MODULE CandidateIdentity -------------------------
(***************************************************************************)
(* Which candidate a submission belongs to: the e-mail and phone rules of  *)
(* DedupService under the advisory locks of the intake's phase 6, the      *)
(* recruiter's own entries and edits, which take no lock, and the two      *)
(* one-off scripts that fold duplicates with mergeCandidates().            *)
(*                                                                         *)
(* An address has one mailbox whatever its capitals.  A phone is its       *)
(* digits; fewer than seven are no phone at all, here None.  Rows carry    *)
(* their age: row 1 is the oldest.                                         *)
(***************************************************************************)
EXTENDS Naturals, FiniteSets

CONSTANTS
    Addresses,      \* e-mail addresses as written
    MailboxOf,      \* an address with its case folded: emailIdentity()
    Phones,         \* phone numbers by their digits: phoneDigits()
    OfficeMail,     \* INTAKE_CONTACT_BLOCKLIST: mailboxes of staff and agencies ...
    OfficePhones,   \* ... and their numbers
    Messages,       \* incoming submissions
    Extracted,      \* Extracted[m]: pairs of address and phone the extraction may find in m
    Entered,        \* pairs a recruiter may enter
    Upload,         \* the CV a recruiter uploads, as a source next to Messages
    Document,       \* Document[m]: the readable CV document of a source, or None
    Files,          \* sources with a CV file in R2; not every file is readable
    Target,         \* Target[m]: the job m is matched to, or None
    Jobs,
    Tasks,          \* POST /candidates requests at a time
    None,           \* null
    MaxRows,        \* bound: candidates ever inserted
    MaxEdits,       \* bound: contact edits and deletions by hand
    MaxScripts,     \* bound: runs of a script
    PhoneLimit,     \* rows findCandidatesByPhoneDigits() returns at most
    FoldedIndex     \* whether the unique index on lower(email) could be created

Rows    == 1 .. MaxRows
Sources == Messages \cup {Upload}

ASSUME BoundsAssumption ==
    /\ MaxRows \in Nat
    /\ MaxEdits \in Nat
    /\ MaxScripts \in Nat
    /\ PhoneLimit \in Nat \ {0}
    /\ FoldedIndex \in BOOLEAN
ASSUME DataAssumption ==
    /\ DOMAIN MailboxOf = Addresses
    /\ Target \in [Messages -> Jobs \cup {None}]
    /\ DOMAIN Extracted = Messages
    /\ \A x \in Entered \cup UNION {Extracted[m] : m \in Messages} :
           x \in (Addresses \cup {None}) \X (Phones \cup {None})
    /\ DOMAIN Document = Sources
    /\ Files \subseteq Sources
    /\ Upload \in Files
    /\ \A m \in Sources : Document[m] # None => m \in Files
ASSUME NullAssumption ==
    /\ None \notin Addresses \cup Phones \cup Sources \cup Jobs \cup Rows
    /\ Upload \notin Messages
    /\ None \notin OfficeMail \cup OfficePhones
    /\ \A e \in Addresses : MailboxOf[e] # None

VARIABLES
    cand,       \* cand[r]: the candidates row r
    next,       \* the id the next row gets
    log,        \* log[m]: email_intake_log.candidate_id
    task,       \* task[m]: the worker on m, between two steps of phases 6 and 7
    hand,       \* hand[t]: a manual creation between its checks and its insert
    script,     \* dedup-cleanup or merge-case-duplicate-emails
    budget      \* edits and script runs so far

vars == <<cand, next, log, task, hand, script, budget>>

Emails   == Addresses \cup {None}
Numbers  == Phones \cup {None}
Contacts == {"email", "phone"}

CandidateRow ==
    [status : {"none", "live", "gone"},
     email : Emails, phone : Numbers,
     typed : BOOLEAN,                    \* a recruiter has entered contacts on this row, or on
                                         \* one folded into it (history, read by nobody)
     job : Jobs \cup {None},             \* candidates.job_id
     applied : SUBSET Jobs,              \* applications
     text : Sources \cup {None},         \* where cv_text came from
     file : Sources \cup {None}]         \* where cv_file_url came from
TaskRecord ==
    [at : {"new", "locked", "checked", "filed", "again", "done"},
     email : Emails, phone : Numbers,    \* contacts after the blocklist
     found : Rows \cup {None},           \* dedup's answer, then the candidate id held in memory
     via : {"nothing", "unsure", "email", "phone"}]
HandRecord   == [at : {"idle", "checked"}, email : Emails, phone : Numbers]
ScriptRecord ==
    [scrub : SUBSET (Rows \X Contacts), \* blocked contacts to clear
     folds : SUBSET (Rows \X Rows),      \* planned merges: survivor and removed row
     touched : SUBSET Rows]              \* rows whose contacts somebody changed since the plan

NoRow == [status |-> "none", email |-> None, phone |-> None, typed |-> FALSE, job |-> None,
          applied |-> {}, text |-> None, file |-> None]
NewTask == [at |-> "new", email |-> None, phone |-> None, found |-> None, via |-> "nothing"]
NoHand   == [at |-> "idle", email |-> None, phone |-> None]
NoScript == [scrub |-> {}, folds |-> {}, touched |-> {}]

Init ==
    /\ cand = [r \in Rows |-> NoRow]
    /\ next = 1
    /\ log = [m \in Messages |-> None]
    /\ task = [m \in Messages |-> NewTask]
    /\ hand = [t \in Tasks |-> NoHand]
    /\ script = NoScript
    /\ budget = [edits |-> 0, scripts |-> 0]

------------------------------------------------------------------------------
(* What makes two rows one person.                                           *)

Live == {r \in Rows : cand[r].status = "live"}

\* emailIdentity(): null for no address.
Mailbox(e) == IF e = None THEN None ELSE MailboxOf[e]
Mail(r)    == Mailbox(cand[r].email)

HasMailbox(r, e) == e # None /\ r \in Live /\ Mail(r) = Mailbox(e)
HasPhone(r, p) == p # None /\ r \in Live /\ cand[r].phone = p

IsOldest(r, S) == r \in S /\ \A s \in S : r <= s

\* findCandidatesByPhoneDigits(): the oldest PhoneLimit rows with these digits.
Holders(p)    == {r \in Live : HasPhone(r, p)}
PhoneRows(p)  == {r \in Holders(p) : Cardinality({s \in Holders(p) : s < r}) < PhoneLimit}

\* D1: one phone is two people when both rows have an address and they differ.
Compatible(a, b) == Mailbox(a) = None \/ Mailbox(b) = None \/ Mailbox(a) = Mailbox(b)

\* The number is shared by people known to be different.
Crowded(p) == Cardinality({Mail(r) : r \in PhoneRows(p)} \ {None}) > 1

\* DedupService.check(), the rows that answer it: those with the address, else those on the
\* number an address e does not speak against.  Without an address a crowded number says nothing.
MailRows(e)     == {r \in Live : HasMailbox(r, e)}
PersonRows(e, p) ==
    IF e = None /\ Crowded(p) THEN {} ELSE {r \in PhoneRows(p) : Compatible(cand[r].email, e)}

\* The unique index refuses address e on row r.
Refused(e, r) ==
    /\ e # None
    /\ \E s \in Live \ {r} : IF FoldedIndex THEN HasMailbox(s, e) ELSE cand[s].email = e

\* The lookup fillContactFields() makes before it writes an address.
Taken(e, r) == \E s \in Live \ {r} : HasMailbox(s, e)

\* Broken: the address is compared as written.
BrokenUnblocked(e) == IF e \in OfficeMail THEN None ELSE e

\* Broken: the number is compared as written.
BrokenUnblockedNumber(p) == p

\* applyContactBlocklist() on an address and on a phone.
Unblocked(e) == IF Mailbox(e) \in OfficeMail THEN None ELSE e
UnblockedNumber(p) == IF p \in OfficePhones THEN None ELSE p

Or(a, b) == IF a = None THEN b ELSE a

------------------------------------------------------------------------------
(* Intake: phases 6 and 7 of IngestionProcessor.run().                       *)

\* For a script that has planned: which rows' contacts are no longer those it read.
Touch ==
    script' = IF script.scrub = {} /\ script.folds = {} THEN script ELSE
        [script EXCEPT !.touched = @ \cup {r \in Live : \/ cand'[r].email # cand[r].email
                                                      \/ cand'[r].phone # cand[r].phone}]

\* Broken: the lock is on the address as written.
BrokenMailboxFree(m, e) ==
    e = None \/ \A n \in Messages \ {m} : task[n].at \in {"locked", "checked"} => task[n].email # e

\* pg_advisory_xact_lock(hashtext(..)), held to the end of the transaction; nothing to lock
\* without an address, or a number.
MailboxFree(m, e) ==
    e = None \/ \A n \in Messages \ {m} :
        task[n].at \in {"locked", "checked"} => Mailbox(task[n].email) # Mailbox(e)

\* Broken: the number is not locked.
BrokenPhoneFree(m, p) == TRUE

PhoneFree(m, p) ==
    p = None \/ \A n \in Messages \ {m} : task[n].at = "checked" => task[n].phone # p

\* A worker takes the mailbox's lock with the contacts the extraction found; a re-run starts
\* from the cached extraction, so from the same contacts.
LockMailbox(m) ==
    /\ task[m].at \in {"new", "again"}
    /\ \E x \in Extracted[m] :
           LET t == IF task[m].at = "again" THEN task[m] ELSE
                    [task[m] EXCEPT !.email = Unblocked(x[1]), !.phone = UnblockedNumber(x[2])] IN
           /\ MailboxFree(m, t.email)
           /\ task' = [task EXCEPT ![m] = [t EXCEPT !.at = "locked"]]
    /\ UNCHANGED <<cand, next, log, hand, script, budget>>

\* ... then the phone's lock, and the identity check under both: the oldest row that answers.
\* The check cannot be sure when the number is crowded, or has more rows than it reads.
Check(m) ==
    LET t == task[m]
        unsure == (t.email = None /\ Crowded(t.phone)) \/ PhoneRows(t.phone) # Holders(t.phone)
        Answer(r, via) ==
            task' = [task EXCEPT ![m] = [t EXCEPT !.at = "checked", !.found = r, !.via = via]] IN
    /\ t.at = "locked"
    /\ PhoneFree(m, t.phone)
    /\ \/ \E r \in Rows : IsOldest(r, MailRows(t.email)) /\ Answer(r, "email")
       \/ /\ MailRows(t.email) = {}
          /\ \E r \in Rows : IsOldest(r, PersonRows(t.email, t.phone)) /\ Answer(r, "phone")
       \/ /\ MailRows(t.email) = {}
          /\ PersonRows(t.email, t.phone) = {}
          /\ Answer(None, IF unsure THEN "unsure" ELSE "nothing")
    /\ UNCHANGED <<cand, next, log, hand, script, budget>>

\* fillContactFields(): only blanks are filled, an address only when no other row has it.
FilledContacts(r, t) ==
    [cand[r] EXCEPT !.email = IF @ = None /\ t.email # None /\ ~Taken(t.email, r)
                              THEN t.email ELSE @,
                    !.phone = Or(@, t.phone)]

\* insertCandidate(): a row with what the extraction knows, the CV included, and no job.
Inserted(m, t) ==
    [NoRow EXCEPT !.status = "live", !.email = t.email, !.phone = t.phone,
                  !.text = m, !.file = IF m \in Files THEN m ELSE None]

\* The transaction ends and both locks go: the row is filled or inserted and the intake log
\* points at it ...
File(m) ==
    LET t == task[m]
        r == IF t.found = None THEN next ELSE t.found IN
    /\ t.at = "checked"
    /\ \/ /\ t.found = None
          /\ next <= MaxRows
          /\ ~Refused(t.email, next)
          /\ cand' = [cand EXCEPT ![next] = Inserted(m, t)]
          /\ next' = next + 1
       \/ /\ t.found # None
          /\ t.found \in Live
          /\ cand' = [cand EXCEPT ![t.found] = FilledContacts(t.found, t)]
          /\ next' = next
    /\ log' = [log EXCEPT ![m] = r]
    /\ task' = [task EXCEPT ![m] = [t EXCEPT !.at = "filed", !.found = r, !.via = "nothing"]]
    /\ Touch
    /\ UNCHANGED <<hand, budget>>

\* ... or it rolls back: the row it matched is gone, or the index refuses the address.
FileFails(m) ==
    LET t == task[m] IN
    /\ t.at = "checked"
    /\ IF t.found = None THEN Refused(t.email, next) ELSE t.found \notin Live
    /\ task' = [task EXCEPT ![m] = [t EXCEPT !.at = "again", !.found = None, !.via = "nothing"]]
    /\ UNCHANGED <<cand, next, log, hand, script, budget>>

------------------------------------------------------------------------------
(* mergeEnrichment(): the CV text and its file move together, for a new      *)
(* document or into an empty slot.                                           *)

\* Broken: the file is filled when blank, whatever happens to the text.
BrokenBeside(replaceCv, old, new) == Or(old, new)

\* The file of a row next to its new or its old text.
Beside(replaceCv, old, new) == IF replaceCv THEN Or(new, old) ELSE Or(old, new)

NewDocument(row, doc) == ~(row.text # None /\ doc # None /\ Document[row.text] = doc)

\* row with a submission's text and file, whose document, if it was from one, reads doc.
Merged(row, text, file, fromDocument, doc) ==
    LET replaceCv == text # None /\ (row.text = None \/ (fromDocument /\ NewDocument(row, doc))) IN
    [row EXCEPT !.text = IF replaceCv THEN text ELSE @,
                !.file = Beside(replaceCv, @, file)]

\* Broken: an application is written whether or not a job was matched.
BrokenPlaced(row, j) == [row EXCEPT !.job = Or(j, @), !.applied = @ \cup {j}]

\* The matched job becomes the row's, with an application for it.
Placed(row, j) == [row EXCEPT !.job = Or(j, @), !.applied = @ \cup ({j} \ {None})]

\* Phase 7: the row in memory is locked, enriched and placed, in one transaction.
Enrich(m) ==
    LET r == task[m].found
        row == cand[r]
        new == Merged(row, m, IF m \in Files THEN m ELSE None, Document[m] # None, Document[m]) IN
    /\ task[m].at = "filed"
    /\ r \in Live
    /\ cand' = [cand EXCEPT ![r] = Placed(new, Target[m])]
    /\ task' = [task EXCEPT ![m] = [NewTask EXCEPT !.at = "done"]]
    /\ UNCHANGED <<next, log, hand, script, budget>>

\* A throw, a crash or an expired lock: the worker starts over.  A row that carries a
\* candidate skips phase 6.
Rerun(m) ==
    /\ task[m].at \in {"locked", "checked", "filed", "again"}
    /\ task' = [task EXCEPT ![m] =
           IF log[m] # None
           THEN [@ EXCEPT !.at = "filed", !.found = log[m], !.via = "nothing"]
           ELSE [@ EXCEPT !.at = "again", !.found = None, !.via = "nothing"]]
    /\ task' # task
    /\ UNCHANGED <<cand, next, log, hand, script, budget>>

------------------------------------------------------------------------------
(* The recruiter: CandidatesService.  No lock, and the checks are made       *)
(* outside the transaction that writes.                                      *)

\* createCandidate(), its checks: the address is free, and the number is nobody's.
HandCheck(t) ==
    /\ hand[t].at = "idle"
    /\ \E x \in Entered :
           /\ ~\E r \in Live : HasMailbox(r, x[1]) \/ HasPhone(r, x[2])
           /\ hand' = [hand EXCEPT ![t] = [at |-> "checked", email |-> x[1], phone |-> x[2]]]
    /\ UNCHANGED <<cand, next, log, task, script, budget>>

\* ... and, after the upload and the AI summary, its insert: a row with an application for
\* the job and no CV text, unless the index refuses the address.
HandInsert(t) ==
    /\ hand[t].at = "checked"
    /\ hand' = [hand EXCEPT ![t] = NoHand]
    /\ \/ /\ next <= MaxRows
          /\ ~Refused(hand[t].email, next)
          /\ \E j \in Jobs, f \in {None, Upload} :
                 cand' = [cand EXCEPT ![next] =
                     [NoRow EXCEPT !.status = "live", !.email = hand[t].email,
                                   !.phone = hand[t].phone, !.typed = TRUE,
                                   !.job = j, !.applied = {j}, !.file = f]]
          /\ next' = next + 1
       \/ /\ Refused(hand[t].email, next)
          /\ UNCHANGED <<cand, next>>
    /\ UNCHANGED <<log, task, script, budget>>

\* updateCandidate(): contacts as the form sends them, which only the index may refuse.
EditContact(r) ==
    /\ r \in Live
    /\ budget.edits < MaxEdits
    /\ \E x \in Entered :
           /\ ~Refused(x[1], r)
           /\ cand' = [cand EXCEPT ![r].email = x[1], ![r].phone = x[2], ![r].typed = TRUE]
    /\ budget' = [budget EXCEPT !.edits = @ + 1]
    /\ Touch
    /\ UNCHANGED <<next, log, task, hand>>

\* uploadCv(): a file whose text the extractor may fail to read.
UploadCv(r) ==
    /\ r \in Live
    /\ budget.edits < MaxEdits
    /\ \E text \in {None, Upload} :
           cand' = [cand EXCEPT ![r].text = text, ![r].file = Upload]
    /\ budget' = [budget EXCEPT !.edits = @ + 1]
    /\ UNCHANGED <<next, log, task, hand, script>>

\* deleteCandidate(): applications go with the row, its intake logs forget it.
Delete(r) ==
    /\ r \in Live
    /\ budget.edits < MaxEdits
    /\ cand' = [cand EXCEPT ![r] = [NoRow EXCEPT !.status = "gone"]]
    /\ log' = [m \in Messages |-> IF log[m] = r THEN None ELSE log[m]]
    /\ budget' = [budget EXCEPT !.edits = @ + 1]
    /\ UNCHANGED <<next, task, hand, script>>

------------------------------------------------------------------------------
(* The one-off scripts.  They plan over the rows they read, print the plan,  *)
(* and then apply it row by row, each merge in its own transaction.          *)

\* The address and the number a row has once the blocked ones are cleared.
CleanMailbox(r) == IF Mail(r) \in OfficeMail THEN None ELSE Mail(r)
CleanPhone(r)   == UnblockedNumber(cand[r].phone)

\* planPhoneMerges(): the oldest row of a number survives.  It takes the rows without an
\* address and those with the first address met in order of age.
PhoneGroup(r)  == {s \in Live : CleanPhone(s) # None /\ CleanPhone(s) = CleanPhone(r)}
FirstNamed(S)  == {r \in S : /\ CleanMailbox(r) # None
                             /\ \A x \in S : x < r => CleanMailbox(x) = None}

\* Broken: one number is one person.
BrokenSamePerson(r, S) == TRUE

SamePerson(r, S) ==
    CleanMailbox(r) = None \/ \E x \in FirstNamed(S) : CleanMailbox(x) = CleanMailbox(r)
PhoneMerges ==
    {f \in Live \X Live :
        /\ f[1] # f[2]
        /\ f[2] \in PhoneGroup(f[1])
        /\ IsOldest(f[1], PhoneGroup(f[1]))
        /\ SamePerson(f[2], PhoneGroup(f[1]))}

\* merge-case-duplicate-emails: the oldest row of a mailbox takes the others.
CaseMerges ==
    {f \in Live \X Live :
        /\ f[1] # f[2]
        /\ Mail(f[2]) # None
        /\ IsOldest(f[1], {r \in Live : Mail(r) = Mail(f[2])})}

\* One script at a time, with something to do.
Plan(scrub, folds) ==
    /\ budget.scripts < MaxScripts
    /\ script.scrub = {} /\ script.folds = {}
    /\ scrub # {} \/ folds # {}
    /\ script' = [scrub |-> scrub, folds |-> folds, touched |-> {}]
    /\ budget' = [budget EXCEPT !.scripts = @ + 1]
    /\ UNCHANGED <<cand, next, log, task, hand>>
IsBlocked(r, contact) ==
    IF contact = "email" THEN Mail(r) \in OfficeMail ELSE cand[r].phone \in OfficePhones
BlockedContacts == {f \in Live \X Contacts : IsBlocked(f[1], f[2])}
PlanCleanup    == Plan(BlockedContacts, PhoneMerges)
PlanCaseMerges == Plan({}, CaseMerges)

\* Broken: a row with one blocked contact loses both.
BrokenCleared(r) == {f \in Contacts : \E g \in Contacts : <<r, g>> \in script.scrub}

Cleared(r) == {f \in Contacts : <<r, f>> \in script.scrub}

\* dedup-cleanup clears what was blocked when it planned, whatever the row holds by now.
Scrub(r) ==
    /\ Cleared(r) # {}
    /\ r \in Live
    /\ script' = [script EXCEPT !.scrub = @ \ ({r} \X Contacts)]
    /\ cand' = [cand EXCEPT ![r].email = IF "email" \in Cleared(r) THEN None ELSE @,
                            ![r].phone = IF "phone" \in Cleared(r) THEN None ELSE @]
    /\ UNCHANGED <<next, log, task, hand, budget>>

\* Broken: the applications stay behind, and go with the removed row.
BrokenApplications(s, r) == cand[s].applied

\* The removed row's applications but for those to jobs the survivor has applied to.
Applications(s, r) == cand[s].applied \cup cand[r].applied

\* mergeCandidates(): the survivor with what the removed row had and it lacked.
Folded(s, r) ==
    LET merged == Merged(cand[s], cand[r].text, cand[r].file, TRUE, None) IN
    [merged EXCEPT !.email = Or(@, cand[r].email), !.phone = Or(@, cand[r].phone),
                   !.typed = @ \/ cand[r].typed,
                   !.job = Or(@, cand[r].job), !.applied = Applications(s, r)]

\* Broken: the intake logs stay behind, and the removed row's foreign key empties them.
BrokenRepointed(s, r) == [m \in Messages |-> IF log[m] = r THEN None ELSE log[m]]

Repointed(s, r) == [m \in Messages |-> IF log[m] = r THEN s ELSE log[m]]

\* One planned merge, after the clearing and, for one survivor, in order of age: applications
\* and intake logs are re-pointed and the removed row deleted.
Fold(s, r) ==
    /\ script.scrub = {}
    /\ <<s, r>> \in script.folds
    /\ \A x \in Rows : x < r => <<s, x>> \notin script.folds
    /\ {s, r} \subseteq Live
    /\ cand' = [cand EXCEPT ![s] = Folded(s, r), ![r] = [NoRow EXCEPT !.status = "gone"]]
    /\ log' = Repointed(s, r)
    /\ script' = IF script.folds = {<<s, r>>} THEN NoScript ELSE
                 [script EXCEPT !.folds = @ \ {<<s, r>>},
                                !.touched = IF r \in @ THEN @ \cup {s} ELSE @]
    /\ UNCHANGED <<next, task, hand, budget>>

\* A row of the plan is gone, or the operator stops it: the script dies with the rest.
ScriptDies ==
    /\ script.scrub # {} \/ script.folds # {}
    /\ script' = NoScript
    /\ UNCHANGED <<cand, next, log, task, hand, budget>>

Next ==
    \/ \E m \in Messages : LockMailbox(m) \/ Check(m) \/ File(m) \/ FileFails(m) \/ Enrich(m)
                           \/ Rerun(m)
    \/ \E t \in Tasks : HandCheck(t) \/ HandInsert(t)
    \/ \E r \in Rows : EditContact(r) \/ UploadCv(r) \/ Delete(r) \/ Scrub(r)
    \/ PlanCleanup \/ PlanCaseMerges
    \/ \E s, r \in Rows : Fold(s, r)
    \/ ScriptDies

Spec == Init /\ [][Next]_vars

------------------------------------------------------------------------------
(* What must not go wrong.                                                   *)

TypeOK ==
    /\ cand \in [Rows -> CandidateRow]
    /\ next \in 1 .. MaxRows + 1
    /\ log \in [Messages -> Rows \cup {None}]
    /\ task \in [Messages -> TaskRecord]
    /\ hand \in [Tasks -> HandRecord]
    /\ script \in ScriptRecord
    /\ budget \in [edits : 0 .. MaxEdits, scripts : 0 .. MaxScripts]

\* Two candidates share a mailbox only when a recruiter entered an address on one of them (or
\* on a row folded into it): whatever the interleaving of workers, retries, manual requests and
\* scripts, intake never makes such a pair, even where the index still tells capitals apart.
MailboxTwinsTyped ==
    \A r, s \in Live : r # s /\ Mail(r) # None /\ Mail(r) = Mail(s) =>
        cand[r].typed \/ cand[s].typed

\* A staff or agency contact is on a candidate only when a recruiter put it there: no retry,
\* fill or merge brings one in.
OfficeContactsTyped ==
    \A r \in Live : Mail(r) \in OfficeMail \/ cand[r].phone \in OfficePhones => cand[r].typed

\* The file shown next to a CV text is the file that text came with, whatever order mails,
\* uploads and merges arrive in.  (A text whose source had no file may stand next to another.)
TextBesideItsFile ==
    \A r \in Live : cand[r].text \in Files => cand[r].file = cand[r].text

\* The submission a candidate's CV text came from has that candidate in its intake log, across
\* deletions, merges and re-runs, so that its re-run finds the row instead of inserting another.
PointersHold ==
    \A r \in Live : cand[r].text \in Messages => log[cand[r].text] = r

\* A candidate assigned to a job has an application for it, whoever wrote the pointer, and though
\* a merge takes the one from one row and the other from another.
ApplicationsFollow ==
    \A r \in Live : cand[r].job # None => cand[r].job \in cand[r].applied

\* Intake inserts a row only for a stranger: when the check was able to tell, no row made by
\* intake alone, at the moment of the insert, has the same phone and a compatible address.
NewRowIsStranger ==
    [][\A m \in Messages :
          log[m] = None /\ log'[m] # None /\ task[m].found = None /\ task[m].via = "nothing" =>
              \A s \in Live : HasPhone(s, task[m].phone) /\ ~cand[s].typed =>
                  ~Compatible(cand[s].email, task[m].email)]_vars

\* A script folds two people with different addresses only if the contacts of one of them changed
\* after it planned: the plan is never checked again.
FoldsOnlyWhenStale ==
    [][\A s, r \in Rows :
          <<s, r>> \in script.folds \ script'.folds /\ r \in Live /\ cand'[r].status = "gone" =>
              Compatible(cand[s].email, cand[r].email) \/ {s, r} \cap script.touched # {}]_vars

\* A script clears an address or a number that is not blocked only on a row whose contacts changed
\* after it planned.
ClearsOnlyWhenStale ==
    [][\A r \in Rows, contact \in Contacts :
          script'.scrub # script.scrub /\ cand'[r][contact] # cand[r][contact] =>
              IsBlocked(r, contact) \/ r \in script.touched]_vars

==============================================================================
