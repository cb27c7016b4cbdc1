---------------------------- MODULE MCEmailIntake ----------------------------
(***************************************************************************)
(* Instances of EmailIntake for TLC.                                       *)
(***************************************************************************)
EXTENDS EmailIntake, TLC

CONSTANTS m1, m2, m3

\* The slots of one worker process are interchangeable.
Slots == Permutations(Workers)

\* And two mails of one person are, if neither or both name the vacancy.
SlotsAndMails == Slots \cup Permutations({m1, m2})

\* So are the requests of the API process.
Calls == Permutations(Requests)

\* Messages of one person: a re-application, a follow-up mail, something spam-like.
OnePerson == [m \in {m1, m2, m3} |-> "ada"]

\* A CV that carries neither an e-mail address nor a phone number.
Anonymous == [m \in {m1} |-> NoContact]
==============================================================================
