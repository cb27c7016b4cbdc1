----------------------------- MODULE MCScoring -----------------------------
(***************************************************************************)
(* An instance of Scoring: a job with three must-haves, a nice-to-have and  *)
(* a range of years, one with two must-haves and only a minimum, and one   *)
(* whose maximum is below its minimum, which no check refuses.  The first  *)
(* sample is any of many evaluations, the others settle the median.        *)
(***************************************************************************)
EXTENDS Scoring

MCNormal == [a |-> "a", A |-> "a", b |-> "b", c |-> "c", n |-> "n", z |-> "z"]

MCJobs ==
    {[must |-> {"a", "b", "c"}, nice |-> {"n"}, min |-> 2, max |-> 4],
     [must |-> {"a", "b"}, nice |-> {}, min |-> 2, max |-> None],
     [must |-> {"b"}, nice |-> {}, min |-> 4, max |-> 2]}

E(kind, status, strength, exact) ==
    [kind |-> kind, status |-> status, strength |-> strength, exact |-> exact]

Skill(status) == E("skill", status, IF status = "missing" THEN "none" ELSE "demonstrated", FALSE)

\* The last is met without evidence, which the schema lets through.
MCEntries ==
    <<Skill("met"), E("skill", "met", "claimed", FALSE), E("skill", "partial", "claimed", FALSE),
      Skill("missing"), E("tool", "met", "claimed", TRUE), E("credential", "missing", "none", FALSE),
      E("experience", "missing", "none", FALSE), E("skill", "met", "none", FALSE)>>

Say(name, entry) == [name |-> name, entry |-> entry]

\* Every pair of entries, a requirement evaluated twice, and one put in the place of another.
MCMust ==
    {<<Say("a", MCEntries[p[1]]), Say("b", MCEntries[p[2]]), Say("c", Skill("met"))>> :
         p \in {q \in (1 .. 8) \X (1 .. 8) : q[1] <= q[2]}}
    \cup {<<Say("a", Skill("met")), Say("b", MCEntries[i])>> : i \in 1 .. 8}
    \cup {<<Say("A", MCEntries[i]), Say("a", Skill("met")), Say("b", Skill(s))>> :
              i \in 1 .. 8, s \in {"met", "partial", "missing"}}
    \cup {<<Say("b", MCEntries[i]), Say("z", Skill("met"))>> : i \in 1 .. 8}

MCNice == {<<>>} \cup {<<Say("n", Skill(s))>> : s \in {"partial", "met"}}

MCAnswers ==
    LET Plain(status, relevance) ==
            [must |-> <<Say("a", Skill(status))>>, nice |-> <<>>,
             years |-> 3 * Grain, relevance |-> relevance * Grain, informative |-> TRUE] IN
    << [must : MCMust, nice : MCNice,
        years : {None, Grain, 3 * Grain + 1, 6 * Grain},
        relevance : {0, 40 * Grain - 1, 100 * Grain}, informative : BOOLEAN],
       {Plain("partial", 60)}, {Plain("missing", 20)} >>

=============================================================================
