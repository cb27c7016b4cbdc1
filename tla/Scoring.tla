------------------------------ MODULE Scoring ------------------------------
(***************************************************************************)
(* ScoringAgentService.score(): one scoring request asks the model for     *)
(* three evaluations of the same CV at once, each of which may fail on its *)
(* own, and keeps the one with the median score.                           *)
(***************************************************************************)
EXTENDS ScoringPolicy, Sequences, SequencesExt

CONSTANTS
    Jobs,       \* jobs scored against: names of must-haves and nice-to-haves, and year bounds
    Samples,    \* SCORING_SAMPLES
    Answers     \* Answers[s], the evaluations sample s may come back with

\* RequirementEvaluationSchema and EvaluationSchema: what a sample is refused for not being,
\* with numbers out of range brought into it, fractions among them.
Audits     == Seq([name : DOMAIN Normal, entry : Requirement])
Evaluation == [must : Audits, nice : Audits, years : (0 .. 50 * Grain) \cup {None},
               relevance : 0 .. 100 * Grain, informative : BOOLEAN]
ASSUME AnswersAssumption == \A s \in Samples : \A answer \in Answers[s] : answer \in Evaluation

\* Requirements by their normalized names; year bounds as CreateJobSchema takes them.
ASSUME JobsAssumption ==
    \A j \in Jobs : /\ IsFiniteSet(j.must) /\ IsFiniteSet(j.nice)
                    /\ j.min = None \/ j.min \in Nat
                    /\ j.max = None \/ j.max \in Nat
ASSUME SamplesAssumption == IsFiniteSet(Samples) /\ Samples \subseteq Nat

VARIABLES
    job,        \* the job of this request
    sample,     \* what each sample came back with
    outcome     \* what score() returned or threw

vars == <<job, sample, outcome>>

Asked   == [status |-> "asked"]
Failed  == [status |-> "failed"]
Pending == [status |-> "pending"]
Threw   == [status |-> "threw"]

\* What the policy scores: the answer with an entry for every requirement of the job.
Complete(answer, j) ==
    [answer EXCEPT !.must = Completed(@, j.must), !.nice = Completed(@, j.nice)]

\* A year bound in grains.
InGrains(bound) == IF bound = None THEN None ELSE bound * Grain

ScoreOf(answer, j) == ComputeScore(Complete(answer, j), InGrains(j.min), InGrains(j.max))

Init ==
    /\ job \in Jobs
    /\ sample = [s \in Samples |-> Asked]
    /\ outcome = Pending

------------------------------------------------------------------------------
Evaluate(s) ==
    /\ sample[s] = Asked
    /\ \E answer \in Answers[s] :
           sample' = [sample EXCEPT ![s] =
               [status |-> "evaluated", answer |-> answer, score |-> ScoreOf(answer, job)]]
    /\ UNCHANGED <<job, outcome>>

\* Upstream errors after the one retry, the timeout, and an answer that misses the schema.
Fail(s) ==
    /\ sample[s] = Asked
    /\ sample' = [sample EXCEPT ![s] = Failed]
    /\ UNCHANGED <<job, outcome>>

Evaluated == {s \in Samples : sample[s].status = "evaluated"}

\* results.sort(): by score, samples of one score in the order they were asked in.
Before(s) ==
    {t \in Evaluated : \/ sample[t].score < sample[s].score
                       \/ sample[t].score = sample[s].score /\ t < s}

\* Broken: of the results, the one in the middle of the samples asked for.
BrokenMedian(s) == Cardinality(Before(s)) = Least((Cardinality(Samples) - 1) \div 2,
                                                  Cardinality(Evaluated) - 1)

\* The middle result, the lower of two.
Median(s) == Cardinality(Before(s)) = (Cardinality(Evaluated) - 1) \div 2

\* Promise.allSettled() has every sample.
Settle ==
    /\ outcome = Pending
    /\ \A s \in Samples : sample[s] # Asked
    /\ \/ /\ Evaluated = {}
          /\ outcome' = Threw
       \/ \E s \in Evaluated :
              /\ Median(s)
              /\ outcome' = [status |-> "scored", of |-> s, score |-> sample[s].score]
    /\ UNCHANGED <<job, sample>>

Done == outcome # Pending /\ UNCHANGED vars

Next ==
    \/ \E s \in Samples : Evaluate(s) \/ Fail(s)
    \/ Settle
    \/ Done

Spec == Init /\ [][Next]_vars

------------------------------------------------------------------------------
(* Better evidence                                                           *)

\* Evaluations of one requirement that say more for the candidate by one step.  Evidence graded
\* none is not below claimed here: for a requirement that is met the policy has it the other way.
BetterEntries(r) ==
    {[r EXCEPT !.status = t] : t \in {u \in {"partial", "met"} :
                                          <<r.status, u>> \in {<<"missing", "partial">>, <<"partial", "met">>}}}
    \cup {[r EXCEPT !.strength = "demonstrated"], [r EXCEPT !.exact = TRUE]}

BetterLists(list) ==
    UNION {{[list EXCEPT ![i].entry = e] : e \in BetterEntries(list[i].entry)} : i \in DOMAIN list}

\* Answers that differ from this one by one thing, in the candidate's favour.  More years are
\* in their favour up to the job's maximum; that they are stated at all is not.
BetterAnswers(a, j) ==
    {[a EXCEPT !.must = l] : l \in BetterLists(a.must)}
    \cup {[a EXCEPT !.nice = l] : l \in BetterLists(a.nice)}
    \cup {[a EXCEPT !.relevance = Least(100 * Grain, @ + step)] : step \in {1, 10 * Grain}}
    \cup {[a EXCEPT !.informative = TRUE]}
    \cup (IF a.years # None /\ (j.max = None \/ a.years < j.max * Grain)
          THEN {[a EXCEPT !.years = @ + 1]} ELSE {})

\* The same answer with one list shorter by an entry for a requirement of the job that no other
\* entry evaluates.  An absent credential that goes unreported is out: it costs its five points
\* reported, and a place in the average when the average cannot fall any further costs less.
ShorterLists(list, expected) ==
    {RemoveAt(list, i) : i \in {k \in DOMAIN list :
        /\ Normal[list[k].name] \in expected
        /\ \A m \in DOMAIN list \ {k} : Normal[list[m].name] # Normal[list[k].name]
        /\ ~(list[k].entry.kind = "credential" /\ list[k].entry.status = "missing")}}

\* The same list with another entry, as good as can be, for a requirement it already names.
RepeatingLists(list) ==
    {Append(list, [name |-> list[i].name, entry |-> [list[i].entry EXCEPT !.status = "met"]]) :
         i \in DOMAIN list}

QuieterLists(list, expected) == ShorterLists(list, expected) \cup RepeatingLists(list)

QuieterAnswers(a, j) ==
    {[a EXCEPT !.must = l] : l \in QuieterLists(a.must, j.must)}
    \cup {[a EXCEPT !.nice = l] : l \in QuieterLists(a.nice, j.nice)}

------------------------------------------------------------------------------
(* Properties                                                                *)

\* Every score is between 0 and 100, whatever deductions, bonuses and factors made it.
TypeOK ==
    /\ job \in Jobs
    /\ \A s \in Samples :
           \/ sample[s] \in {Asked, Failed}
           \/ sample[s].status = "evaluated" /\ sample[s].answer \in Answers[s] /\ sample[s].score \in 0 .. 100
    /\ \/ outcome \in {Pending, Threw}
       \/ outcome.status = "scored" /\ outcome.of \in Samples /\ outcome.score \in 0 .. 100

\* Of two evaluations the one that says more for the candidate never scores lower: a cap, a
\* bonus or a factor that steps in at some point never takes away more than the step earned.
BetterNeverScoresLower ==
    \A s \in Evaluated : \A a \in BetterAnswers(sample[s].answer, job) :
        ScoreOf(a, job) >= sample[s].score

\* A candidate does not score higher because the model left a requirement of the job out or
\* evaluated it once more (completeEvaluation()).
SilenceNeverHelps ==
    \A s \in Evaluated : \A a \in QuieterAnswers(sample[s].answer, job) :
        ScoreOf(a, job) <= sample[s].score

\* A candidate whose evaluation leaves out a must-have of the job is capped like one who lacks
\* it, whatever else the model evaluated: nothing stands in for it under the cap.  (An entry for
\* something the job does not ask for does stand in for it in the average: coverage rises.)
LeftOutIsCapped ==
    \A s \in Evaluated :
        LET must == sample[s].answer.must IN
        job.must \subseteq {Normal[must[i].name] : i \in DOMAIN must}
            \/ sample[s].score <= SCORING_POLICY.caps.oneMissing

\* The score of a request is that of one of its evaluations: fewer than half score lower and
\* no more than half higher, also when a sample failed; and only if all failed is there none.
MedianOfReal ==
    /\ outcome = Threw => Evaluated = {}
    /\ outcome.status = "scored" =>
           /\ outcome.of \in Evaluated
           /\ outcome.score = sample[outcome.of].score
           /\ 2 * Cardinality({t \in Evaluated : sample[t].score < outcome.score}) < Cardinality(Evaluated)
           /\ 2 * Cardinality({t \in Evaluated : sample[t].score > outcome.score}) <= Cardinality(Evaluated)

=============================================================================
