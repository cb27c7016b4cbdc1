------------------------ MODULE MCCandidateIdentity ------------------------
(***************************************************************************)
(* An instance of CandidateIdentity for TLC: Ana writes her address with   *)
(* and without capitals, Ben has another, and the office has a number and  *)
(* a shared address.                                                       *)
(***************************************************************************)
EXTENDS CandidateIdentity, TLC

CONSTANTS ana, Ana, ben, desk, anas, bens, desks, mobile, office, cv, note, upload, resume, sheet, job1

MCMailboxOf == (ana :> anas) @@ (Ana :> anas) @@ (ben :> bens) @@ (desk :> desks)

\* One submission brings a readable CV and names a job, the other a scan and a note.
MCDocument == (cv :> resume) @@ (note :> None) @@ (upload :> sheet)
MCTarget   == (cv :> job1) @@ (note :> None)

\* cv is Ana's, note hers or Ben's; either may name the office's address or number instead.
MCExtracted == (cv :> {<<ana, mobile>>, <<desk, mobile>>}) @@
               (note :> {<<Ana, mobile>>, <<ben, mobile>>, <<Ana, office>>})
\* What is typed by hand has one contact of the office.
MCEntered == {<<Ana, office>>, <<desk, mobile>>}
=============================================================================
