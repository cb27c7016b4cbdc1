--------------------------- MODULE ScoringPolicy ---------------------------
(***************************************************************************)
(* computeScore() and completeEvaluation(): how the evaluation a model     *)
(* returns for a CV becomes a score from 0 to 100.                         *)
(*                                                                         *)
(* The code computes with doubles.  Here a share is out of One and a score *)
(* is in units of 1 / Unit, and a quotient is rounded down to the next     *)
(* unit: arithmetic is exact if One is divisible by every denominator, as  *)
(* it is in the instances checked.  Years and relevance need not be whole  *)
(* numbers: they are counted in grains, Grain to a year or to a point.     *)
(***************************************************************************)
EXTENDS Integers, FiniteSets, FiniteSetsExt

CONSTANTS
    Normal,     \* a requirement's name trimmed and in lower case, for each spelling of it
    One,        \* the precision of a share
    Grain       \* the precision of years and relevance

ASSUME PrecisionAssumption ==
    One \in Nat \ {0} /\ Grain \in Nat \ {0} /\ One % (100 * Grain) = 0

Percent == One \div 100
Point   == One \div (100 * Grain)     \* the share a grain of relevance is
Unit    == One * One     \* for TLC, 100 * Unit is below 2^31

None == -1          \* null, for years and year bounds
Least(a, b)    == IF a <= b THEN a ELSE b
Greatest(a, b) == IF a >= b THEN a ELSE b

Requirement ==
    [kind : {"skill", "tool", "credential", "experience", "domain", "other"},
     status : {"met", "partial", "missing"},
     strength : {"demonstrated", "claimed", "none"},     \* evidence_strength
     exact : BOOLEAN]                                    \* exact_match
Absent == [kind |-> "other", status |-> "missing", strength |-> "none", exact |-> FALSE]

\* Shares and factors out of One; weights, points and caps out of 100.
SCORING_POLICY ==
    [value       |-> [met |-> One, partial |-> One \div 2, missing |-> 0],
     claimed     |-> (3 * One) \div 4,      \* what a requirement met by a mere claim is worth
     withNice    |-> [core |-> 55, nice |-> 15, relevance |-> 30],
     withoutNice |-> [core |-> 65, nice |-> 0, relevance |-> 35],
     years       |-> [none |-> 60 * Percent, min |-> 80 * Percent, past |-> 92 * Percent,
                      unknown |-> 85 * Percent],
     credential  |-> [each |-> 5, most |-> 10],
     tool        |-> [each |-> 3, most |-> 5],
     caps        |-> [irrelevant |-> 30, twoMissing |-> 45, oneMissing |-> 60,
                      onePartial |-> 88, twoPartial |-> 78, uninformative |-> 50,
                      tooFewYears |-> 45]]

------------------------------------------------------------------------------
(* completeEvaluation()                                                      *)

\* Broken: enough entries are taken for complete, whatever they are about.
BrokenCompleted(entries, expected) ==
    LET name(i) == Normal[entries[i].name] IN
    [n \in {name(i) : i \in DOMAIN entries}
           \cup (IF Cardinality(DOMAIN entries) >= Cardinality(expected) THEN {} ELSE expected) |->
        IF \E i \in DOMAIN entries : name(i) = n
        THEN entries[CHOOSE i \in DOMAIN entries :
                         name(i) = n /\ \A j \in DOMAIN entries : name(j) = n => i <= j].entry
        ELSE Absent]

\* One entry for each name: of several the first, and for a requirement nobody evaluated a
\* missing one.  entries is what the model returned, in its order and spelling.
Completed(entries, expected) ==
    LET name(i)  == Normal[entries[i].name]
        First(n) == CHOOSE i \in DOMAIN entries :
                        name(i) = n /\ \A j \in DOMAIN entries : name(j) = n => i <= j
        named    == {name(i) : i \in DOMAIN entries} IN
    [n \in named \cup expected |-> IF n \in named THEN entries[First(n)].entry ELSE Absent]

------------------------------------------------------------------------------
(* computeScore()                                                            *)

\* A requirement's share of its place.  Met without evidence it has all of it, as if demonstrated.
RequirementValue(r) ==
    IF r.status = "met" /\ r.strength = "claimed" THEN SCORING_POLICY.claimed
    ELSE SCORING_POLICY.value[r.status]

Count(S, P(_)) == Cardinality({n \in S : P(n)})

\* The average over the names S of reqs, which are not empty.
Coverage(reqs, S) ==
    MapThenSumSet(LAMBDA n : RequirementValue(reqs[n]), S) \div Cardinality(S)

\* Credentials and years are priced elsewhere.
Core(must) == {n \in DOMAIN must : must[n].kind \notin {"credential", "experience"}}

\* experienceFactor() of years and bounds in grains: a share, and whether the years are far
\* below the minimum.  The in-range ramp is there only between two different bounds, and both ends meet what is beyond them.
ExperienceFactor(years, min, max) ==
    LET policy   == SCORING_POLICY.years
        interval == min # None /\ max # None /\ max > min
        atMin    == IF interval THEN policy.min ELSE One
        below    == min # None /\ years # None /\ years < min
        above    == max # None /\ years # None /\ years > max IN
    CASE min = None /\ max = None ->
             [factor |-> One, short |-> FALSE]
      [] (min # None \/ max # None) /\ years = None ->
             [factor |-> policy.unknown, short |-> FALSE]
      [] below ->
             [factor |-> atMin - ((atMin - policy.none) * (min - years)) \div min,
              short |-> 2 * (min - years) >= min]
      [] above /\ ~below ->
             [factor |-> One - ((One - policy.past) * Least(years - max, Greatest(max, Grain)))
                                   \div Greatest(max, Grain),
              short |-> FALSE]
      [] OTHER ->
             [factor |-> IF interval
                         THEN atMin + ((One - atMin) * (years - min)) \div (max - min)
                         ELSE One,
              short |-> FALSE]

\* The weighted coverages times the experience factor, in units of 1 / Unit.  A job without
\* nice-to-haves gives their weight to the rest, one without core must-haves scores relevance.
RawScore(ev, factor) ==
    LET relevance == ev.relevance * Point
        core   == IF Core(ev.must) = {} THEN relevance ELSE Coverage(ev.must, Core(ev.must))
        nice   == IF DOMAIN ev.nice = {} THEN 0 ELSE Coverage(ev.nice, DOMAIN ev.nice)
        weight == IF DOMAIN ev.nice = {} THEN SCORING_POLICY.withoutNice ELSE SCORING_POLICY.withNice IN
    factor * (weight.core * core + weight.nice * nice + weight.relevance * relevance)

\* Missing credentials cost five points each, ten at most; a named tool that is exactly the
\* one asked for earns three, five at most.
Adjustment(must) ==
    LET lost   == Count(DOMAIN must, LAMBDA n : must[n].kind = "credential" /\ must[n].status = "missing")
        earned == Count(DOMAIN must, LAMBDA n : /\ must[n].kind = "tool"
                                                /\ must[n].status = "met"
                                                /\ must[n].exact) IN
    Least(SCORING_POLICY.tool.most, SCORING_POLICY.tool.each * earned)
        - Least(SCORING_POLICY.credential.most, SCORING_POLICY.credential.each * lost)

\* Broken: one partly met requirement caps harder than two.
BrokenCoreCap(must) ==
    LET missing == Count(Core(must), LAMBDA n : must[n].status = "missing")
        partial == Count(Core(must), LAMBDA n : must[n].status = "partial") IN
    CASE missing >= 2 -> SCORING_POLICY.caps.twoMissing
      [] missing = 1 -> SCORING_POLICY.caps.oneMissing
      [] missing = 0 /\ partial >= 2 -> SCORING_POLICY.caps.onePartial
      [] missing = 0 /\ partial = 1 -> SCORING_POLICY.caps.twoPartial
      [] OTHER -> 100

\* Only the hardest of the caps for core requirements applies.
CoreCap(must) ==
    LET missing == Count(Core(must), LAMBDA n : must[n].status = "missing")
        partial == Count(Core(must), LAMBDA n : must[n].status = "partial") IN
    CASE missing >= 2 -> SCORING_POLICY.caps.twoMissing
      [] missing = 1 -> SCORING_POLICY.caps.oneMissing
      [] missing = 0 /\ partial >= 2 -> SCORING_POLICY.caps.twoPartial
      [] missing = 0 /\ partial = 1 -> SCORING_POLICY.caps.onePartial
      [] OTHER -> 100

Cap(ev, short) ==
    Min({CoreCap(ev.must)}
        \cup (IF ev.relevance < 40 * Grain THEN {SCORING_POLICY.caps.irrelevant} ELSE {})
        \cup (IF ev.informative THEN {} ELSE {SCORING_POLICY.caps.uninformative})
        \cup (IF short THEN {SCORING_POLICY.caps.tooFewYears} ELSE {}))

\* Broken: nothing keeps a deduction from going below zero.
BrokenRounded(x) == (x + Unit \div 2) \div Unit

\* Math.round() of a score between 0 and 100.
Rounded(x) == (Least(100 * Unit, Greatest(0, x)) + Unit \div 2) \div Unit

ComputeScore(ev, min, max) ==
    LET experience == ExperienceFactor(ev.years, min, max)
        score == RawScore(ev, experience.factor) + Adjustment(ev.must) * Unit IN
    Rounded(Least(score, Cap(ev, experience.short) * Unit))

=============================================================================
