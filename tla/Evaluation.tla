----------------------------- MODULE Evaluation -----------------------------
(***************************************************************************)
(* Scoring transcripts (runtime/evaluation.py, runtime/benchmark.py): pure *)
(* functions of what was said and what was recognised.                     *)
(*                                                                         *)
(* A text is the sequence of its units, each a Han character or a Latin    *)
(* token, as normalize_text() leaves them, and what the command recogniser *)
(* and the router see in it.  Rates are compared in hundredths.            *)
(***************************************************************************)
EXTENDS Supervisor, SequencesExt

(* edit_distance(), one row of the table for each item of the left side.   *)
NextRow(previous, item, right) ==
  FoldLeftDomain(
    LAMBDA current, j :
      Append(current, Min({Last(current) + 1, previous[j + 1] + 1,
                             previous[j] + IF item = right[j] THEN 0 ELSE 1})),
    <<previous[1] + 1>>, right)

EditDistance(left, right) ==
  Last(FoldLeft(LAMBDA row, item : NextRow(row, item, right),
                [j \in 1 .. Len(right) + 1 |-> j - 1], left))

(* The distance defined anew: the cheapest way to pair items in order.     *)
InOrder(pairs) ==
  \A p, q \in pairs : p = q \/ (p[1] < q[1] /\ p[2] < q[2]) \/ (q[1] < p[1] /\ q[2] < p[2])
CheapestPairing(left, right) ==
  Min({ Len(left) + Len(right) - 2 * Cardinality(pairs)
          + Cardinality({p \in pairs : left[p[1]] # right[p[2]]}) :
        pairs \in {s \in SUBSET ((DOMAIN left) \X (DOMAIN right)) : InOrder(s)} })

Language == {"zh", "en", "code-switch"}

(* language_units()                                                        *)
Units(language, text) ==
  SelectSeq(text.units,
            LAMBDA u : \/ language = "code-switch"
                       \/ language = "zh" /\ u.script = "han"
                       \/ language = "en" /\ u.script = "latin")

(* score_asr_case(); a command or a route that is not expected is correct  *)
(* "any".                                                                  *)
Judged(expected, actual) ==
  IF expected = "none" THEN "any" ELSE IF expected = actual THEN "yes" ELSE "no"

Score(case, hypothesis, command, route, terminal) ==
  [ language |-> case.language,
    edits |-> EditDistance(Units(case.language, case.text), Units(case.language, hypothesis)),
    units |-> Len(Units(case.language, case.text)),
    found |-> Cardinality({t \in case.keyTerms : t \in SubSeqs(hypothesis.units)}),
    terms |-> Cardinality(case.keyTerms),
    command |-> Judged(case.command, command),
    route |-> Judged(case.route, route),
    terminal |-> terminal,
    empty |-> hypothesis.units = <<>> ]

(* summarize_group() and the thresholds of evaluate_release_thresholds():  *)
(* a group without units has no errors, one without terms has found all.   *)
Total(scores, field) == FoldLeft(LAMBDA n, s : n + s[field], 0, scores)

ErrorRateAtMost(percent, scores) ==
  LET units == Total(scores, "units")
  IN  units > 0 => 100 * Total(scores, "edits") <= percent * units

TermsAtLeast(percent, scores) ==
  100 * Total(scores, "found") >= percent * Total(scores, "terms")

(* Mutant: most of them right.                                             *)
MostlyRight(answers) ==
  2 * Len(SelectSeq(answers, LAMBDA a : a = "no")) <= Len(answers)

(* An accuracy that is 1.0, or None.                                       *)
AllRight(answers) == ~Contains(answers, "no")

Group(scores, language) == SelectSeq(scores, LAMBDA s : s.language = language)

(* A language without a case raises KeyError.                              *)
ReleaseThresholds(scores) ==
  LET groups == {l \in Language : Group(scores, l) # <<>>} IN
  /\ groups = Language
  /\ ErrorRateAtMost(35, Group(scores, "zh"))
  /\ ErrorRateAtMost(30, Group(scores, "en"))
  /\ ErrorRateAtMost(40, Group(scores, "code-switch"))
  /\ TermsAtLeast(85, scores)
  /\ \A l \in groups : TermsAtLeast(75, Group(scores, l))
  /\ AllRight([i \in DOMAIN scores |-> scores[i].command])
  /\ AllRight([i \in DOMAIN scores |-> scores[i].route])
  /\ \A i \in DOMAIN scores : scores[i].terminal /\ ~scores[i].empty

(* percentile() of values that are not empty, and twice their median.      *)
Ordered(values) == SortSeq(values, <)

Percentile(values, percent) ==
  Ordered(values)[Max({1, (percent * Len(values) + 99) \div 100})]

TwiceMedian(values) ==
  Ordered(values)[(Len(values) + 1) \div 2] + Ordered(values)[(Len(values) + 2) \div 2]

(* At least as many values as asked for do not exceed the percentile, and  *)
(* fewer are below it.                                                     *)
PercentileIsRight(values, percent) ==
  LET p == Percentile(values, percent)
      upTo == Len(SelectSeq(values, LAMBDA v : v <= p))
      below == Len(SelectSeq(values, LAMBDA v : v < p))
  IN  100 * upTo >= percent * Len(values) /\ (below > 0 => 100 * below < percent * Len(values))
=============================================================================
