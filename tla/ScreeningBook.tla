--------------------------- MODULE ScreeningBook ---------------------------
(***************************************************************************)
(* What voice screening promises for each call it books, without queue,    *)
(* worker, provider or watchdog.  A call waits to be dialled, the phone    *)
(* rings at most once, and a connected call ends for good.  A call may be  *)
(* put back, or taken up again, only while the phone has not rung for it.  *)
(***************************************************************************)
CONSTANT Calls      \* ids of voice_calls rows

VARIABLES
    phase,          \* phase[c]: "none", "booked", "dialling", "live" or "over"
    rang            \* rang[c]: the candidate's phone has rung for c

book == <<phase, rang>>

Init ==
    /\ phase = [c \in Calls |-> "none"]
    /\ rang = [c \in Calls |-> FALSE]

Move(c, from, to) == phase[c] = from /\ phase' = [phase EXCEPT ![c] = to]

Book(c) == Move(c, "none", "booked") /\ UNCHANGED rang
Dial(c) == Move(c, "booked", "dialling") /\ UNCHANGED rang
PutBack(c) ==
    /\ ~rang[c]
    /\ Move(c, "dialling", "booked") \/ Move(c, "over", "booked")
    /\ UNCHANGED rang

Ring(c) ==
    /\ phase[c] = "dialling" /\ ~rang[c]
    /\ rang' = [rang EXCEPT ![c] = TRUE]
    /\ UNCHANGED phase

Connect(c) == rang[c] /\ Move(c, "dialling", "live") /\ UNCHANGED rang

\* Called off before it rang, or hung up, or given up by the watchdog.
End(c) ==
    /\ \/ Move(c, "booked", "over")
       \/ ~rang[c] /\ Move(c, "dialling", "over")
       \/ Move(c, "live", "over")
    /\ UNCHANGED rang

Next ==
    \E c \in Calls :
        Book(c) \/ Dial(c) \/ PutBack(c) \/ Ring(c) \/ Connect(c) \/ End(c)

Spec == Init /\ [][Next]_book
=============================================================================
