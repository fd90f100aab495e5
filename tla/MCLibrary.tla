----------------------------- MODULE MCLibrary ------------------------------
(* The modules of the Runtime that serve the others, each on its own: a     *)
(* behaviour is one of the transcript of an utterance, of the escalations   *)
(* of a session, of a log, or of a release evaluation.  The functions that  *)
(* have no state are compared with their definitions on every small input.  *)
EXTENDS Integers, SequencesExt

CONSTANTS
  Letters, Space, Slash, MaxLength, MaxUpdates,
  Escalation, RetryBudget, SessionBudget, FailureThreshold,
  Capacity, Limit, MaxEnqueues,
  Role, Backend, NoTarget, MinTurns, Delay

VARIABLES
  part,
  stable, tentative, previous, revision, updates, over,
  circuit, failures, opened, budget, attempt,
  records, dropped, enqueues, accepted, written, lost, refused,
  stage, turn, reading, wire, events, scores, legal, told

(* What is said, what of it is recognised, and what the corpus expects.     *)
Han(x) == [script |-> "han", id |-> x]
Latin(x) == [script |-> "latin", id |-> x]
Said(command, marks, units) == [command |-> command, marks |-> marks, units |-> units]
Stop == Said("STOP_SPEAKING", {}, <<Han(1), Han(2), Han(3)>>)
HalfStop == Said("none", {}, <<Han(1), Han(2)>>)
Silence == Said("none", {}, <<>>)
ReadDocs == Said("none", {"READ_ONLY", "docs"}, <<Latin(1), Latin(2), Latin(7), Latin(8)>>)
MisreadDocs == Said("none", {"READ_ONLY", "code"}, <<Latin(1), Latin(2), Latin(3), Latin(8)>>)
ChangeCode == Said("none", {"code"}, <<Han(4), Latin(4), Latin(5)>>)
ChangedCode == Said("none", {"code"}, <<Han(4), Latin(4), Latin(6)>>)
Corpus ==
  << [language |-> "zh", text |-> Stop, keyTerms |-> {Stop.units}, command |-> "STOP_SPEAKING",
      route |-> "command", heard |-> {<<>>, <<Stop>>, <<HalfStop>>, <<HalfStop, Stop>>, <<Stop, HalfStop>>,
                                      <<Silence, Stop>>}],
     [language |-> "en", text |-> ReadDocs, keyTerms |-> {<<Latin(2)>>}, command |-> "none",
      route |-> "research", heard |-> {<<ReadDocs>>, <<MisreadDocs>>, <<ReadDocs, MisreadDocs>>}],
     [language |-> "code-switch", text |-> ChangeCode, keyTerms |-> {}, command |-> "none",
      route |-> "coding", heard |-> {<<ChangeCode>>, <<ChangedCode>>}] >>
Prompts == <<Stop, ReadDocs>>

(* What the texts of test-fixtures/v0.2/manifest.json hold.                 *)
Fixture(marks) == Said("none", marks, <<>>)
RouteFixtures ==
  { [text |-> Stop, route |-> "command"],
    [text |-> Said("STATUS", {}, <<>>), route |-> "command"],
    [text |-> Fixture({"READ_ONLY", "docs"}), route |-> "research"],
    [text |-> Fixture({"docs"}), route |-> "research"],
    [text |-> Fixture({"code"}), route |-> "coding"],
    [text |-> Fixture({"browser"}), route |-> "browser"],
    [text |-> Fixture({"READ_ONLY", "files"}), route |-> "filesystem_read"] }
PolicyFixtures ==
  { [text |-> Fixture({"READ_ONLY", "docs"}), decision |-> "ALLOW_READ_ONLY"],
    [text |-> Fixture({"READ_ONLY", "files", "docs"}), decision |-> "ALLOW_READ_ONLY"],
    [text |-> Fixture({"LOCAL_REVERSIBLE"}), decision |-> "ALLOW_LOCAL_REVERSIBLE"],
    [text |-> Fixture({"docs"}), decision |-> "BLOCKED_POLICY"],
    [text |-> Fixture({}), decision |-> "BLOCKED_POLICY"] }
  \cup { [text |-> Fixture({risk}), decision |-> "BLOCKED_POLICY"] :
           risk \in {"EXTERNAL", "PAID", "IRREVERSIBLE", "HIGH_IMPACT"} }

T == INSTANCE Transcript
H == INSTANCE HermesCircuit
L == INSTANCE StructuredLog
R == INSTANCE ReleaseEvaluation

ASSUME BoundsAssumption ==
  /\ Space # Slash /\ {Space, Slash} \cap Letters = {} /\ MaxLength \in Nat
  /\ {RetryBudget, SessionBudget} \subseteq Nat /\ FailureThreshold \in Nat \ {0}
  /\ Capacity \in Nat /\ Capacity >= 10 /\ Limit \in Nat \ {0}

(* reconstruct_job_tree() on every log of three records of three jobs.      *)
ASSUME TreesAreRight ==
  \A log \in SeqOf([job : 0 .. 3, parent : 0 .. 3], 3) : L!TreeIsRight(log)

(* edit_distance() of all short texts, and percentile() of all short lists. *)
ASSUME DistancesAreCheapest ==
  \A left, right \in SeqOf({1, 2}, 3) : R!EditDistance(left, right) = R!CheapestPairing(left, right)

ASSUME PercentilesAreRight ==
  \A values \in SeqOf(1 .. 3, 4) \ {<<>>}, percent \in {0, 1, 25, 50, 95, 99, 100} :
    R!PercentileIsRight(values, percent)

Init ==
  /\ T!Init /\ H!Init /\ L!Init /\ R!Init
  /\ part \in {"transcript", "hermes", "log", "release"}

TVars == <<stable, tentative, previous, revision, updates, over>>
HVars == <<circuit, failures, opened, budget, attempt>>
LVars == <<records, dropped, enqueues, accepted, written, lost, refused>>
RVars == <<stage, turn, reading, wire, events, scores, legal, told>>

Next ==
  \/ part = "transcript" /\ T!Next /\ UNCHANGED <<part, HVars, LVars, RVars>>
  \/ part = "hermes" /\ H!Next /\ UNCHANGED <<part, TVars, LVars, RVars>>
  \/ part = "log" /\ L!Next /\ UNCHANGED <<part, TVars, HVars, RVars>>
  \/ part = "release" /\ R!Next /\ UNCHANGED <<part, TVars, HVars, LVars>>

vars == <<part, TVars, HVars, LVars, RVars>>

Spec == Init /\ [][Next]_vars

(* Committed text stays as it is and grows only by what two hypotheses in a *)
(* row agree on (TranscriptStabilizer).                                     *)
OnlyTheAgreedIsCommitted == [][T!CommitsTheAgreed]_vars

(* The circuit breaker knows of its failures and its probe, however the     *)
(* escalations overlap (HermesEscalationAdapter).                           *)
CircuitKnowsItsCalls == H!CircuitKnowsItsCalls

(* Protected records are drained in order, or wait (BoundedLogBuffer).      *)
NoProtectedRecordIsLost == L!NoProtectedRecordIsLost

(* A release that passes was recognised and answered (evaluate-release.py). *)
PassIsEarned == R!PassIsEarned
=============================================================================
