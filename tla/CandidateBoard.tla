--------------------------- MODULE CandidateBoard ---------------------------
(***************************************************************************)
(* What a recruiter may rely on about a candidate, without requests in     *)
(* flight, stages, foreign keys or model calls: each change of a           *)
(* candidate's status, job, applications and headline score is one of      *)
(* those below, and touches no other candidate.  An application goes only  *)
(* with its job or its candidate, a rejection is only taken back by an     *)
(* unrejection, and a deleted candidate is gone.                           *)
(***************************************************************************)
CONSTANTS
    Candidates,
    Jobs,
    None        \* no job

VARIABLES
    status,     \* status[c]: "none" before c was entered, "active", "rejected" or "gone"
    at,         \* at[c]: the job c is at
    applied,    \* the applications: candidate and job
    score,      \* score[c]: who the headline score of c came from
    over,       \* candidates whose score a recruiter has overridden
    live        \* jobs that have not been deleted

board == <<status, at, applied, score, over, live>>

Init ==
    /\ status = [c \in Candidates |-> "none"]
    /\ at = [c \in Candidates |-> None]
    /\ applied = {}
    /\ score = [c \in Candidates |-> "none"]
    /\ over = {}
    /\ live = Jobs

Present(c) == status[c] \in {"active", "rejected"}

SetStatus(c, from, to) ==
    /\ status[c] = from
    /\ status' = [status EXCEPT ![c] = to]
    /\ UNCHANGED <<at, applied, score, over, live>>

\* The intake's insert, and a recruiter's: the latter with a job.
Insert(c)   == SetStatus(c, "none", "active")
Reject(c)   == SetStatus(c, "active", "rejected")
Unreject(c) == SetStatus(c, "rejected", "active")

Enter(c, j) ==
    /\ status[c] = "none"
    /\ j \in live
    /\ status' = [status EXCEPT ![c] = "active"]
    /\ at' = [at EXCEPT ![c] = j]
    /\ applied' = applied \cup {<<c, j>>}
    /\ score' = [score EXCEPT ![c] = "none"]
    /\ over' = over \ {c}
    /\ UNCHANGED live

Delete(c) ==
    /\ Present(c)
    /\ status' = [status EXCEPT ![c] = "gone"]
    /\ at' = [at EXCEPT ![c] = None]
    /\ applied' = applied \ ({c} \X Jobs)
    /\ score' = [score EXCEPT ![c] = "none"]
    /\ over' = over \ {c}
    /\ UNCHANGED live

Apply(c, j) ==
    /\ Present(c)
    /\ j \in live
    /\ applied' = applied \cup {<<c, j>>}
    /\ UNCHANGED <<status, at, score, over, live>>

\* At job j, with applications for J; a rejected candidate stays rejected.  The request may
\* override the score.
Assign(c, j, J) ==
    /\ Present(c)
    /\ J \cup {j} \subseteq live
    /\ <<c, j>> \in applied \cup ({c} \X J)
    /\ at' = [at EXCEPT ![c] = j]
    /\ applied' = applied \cup ({c} \X J)
    /\ \/ UNCHANGED <<score, over>>
       \/ score' = [score EXCEPT ![c] = "manual"] /\ over' = over \cup {c}
    /\ UNCHANGED <<status, live>>

\* Overriding the score, taking that back with the value left or cleared, a model's score
\* and what is left of one when the job is gone.
Override(c) == score' = [score EXCEPT ![c] = "manual"] /\ over' = over \cup {c}
Revert(c)   == UNCHANGED score                         /\ over' = over \ {c}
Clear(c)    == score' = [score EXCEPT ![c] = "none"]   /\ over' = over \ {c}
Score(c)    == score' = [score EXCEPT ![c] = "ai"]     /\ UNCHANGED over /\ c \notin over
Forget(c)   == score' = [score EXCEPT ![c] = "none"]   /\ UNCHANGED over

Rate(c) ==
    /\ Present(c)
    /\ Override(c) \/ Revert(c) \/ Clear(c) \/ Score(c) \/ Forget(c)
    /\ UNCHANGED <<status, at, applied, live>>

\* An edit of a job takes in its applicants who are at none, and moves nobody else.
Edit(j) ==
    /\ j \in live
    /\ at' = [c \in Candidates |-> IF at[c] = None /\ <<c, j>> \in applied THEN j ELSE at[c]]
    /\ UNCHANGED <<status, applied, score, over, live>>

Remove(j) ==
    /\ j \in live
    /\ live' = live \ {j}
    /\ at' = [c \in Candidates |-> IF at[c] = j THEN None ELSE at[c]]
    /\ applied' = applied \ (Candidates \X {j})
    /\ UNCHANGED <<status, score, over>>

Next ==
    \/ \E c \in Candidates :
        \/ Insert(c) \/ Reject(c) \/ Unreject(c) \/ Delete(c) \/ Rate(c)
        \/ \E j \in Jobs :
            \/ Enter(c, j) \/ Apply(c, j)
            \/ \E J \in SUBSET Jobs : Assign(c, j, J)
    \/ \E j \in Jobs : Edit(j) \/ Remove(j)

Spec == Init /\ [][Next]_board
=============================================================================
