----------------------------- MODULE Transcript -----------------------------
(***************************************************************************)
(* TranscriptStabilizer (runtime/transcript.py): the text of one utterance *)
(* as successive hypotheses of the recogniser extend and rewrite it.  What *)
(* two of them agree on is committed, up to a word boundary.               *)
(*                                                                         *)
(* A text is a sequence of characters.  Letters are told apart, nothing    *)
(* else of them; a hypothesis is what strip() and the glossary leave of    *)
(* it, so that it does not begin or end with a space.                      *)
(***************************************************************************)
EXTENDS Integers, SequencesExt

CONSTANTS
  Letters, Space, Slash,
  MaxLength,   (* bound: characters of a hypothesis                        *)
  MaxUpdates   (* bound: hypotheses of an utterance                        *)

VARIABLES
  stable, tentative,   (* stable_prefix, tentative_suffix                  *)
  previous,
  revision,            (* revision_id                                      *)
  updates,             (* bound                                            *)
  over                 (* finalize() was called                            *)

vars == <<stable, tentative, previous, revision, updates, over>>

Character == Letters \cup {Space, Slash}
Hypothesis ==
  {h \in SeqOf(Character, MaxLength) : h # <<>> => Head(h) # Space /\ Last(h) # Space}

Init ==
  /\ stable = <<>> /\ tentative = <<>> /\ previous = <<>>
  /\ revision = 0 /\ updates = 0 /\ over = FALSE

(* _common_prefix(): how many characters two texts begin with.             *)
Common(left, right) == Len(LongestCommonPrefix({left, right}))

From(text, n) == SubSeq(text, n + 1, Len(text))

Boundary(text) == SelectLastInSeq(text, LAMBDA c : c \in {Space, Slash})

(* Mutant: one character too many where there is no boundary.              *)
CommitToTheEnd(text, common) ==
  LET boundary == Boundary(SubSeq(text, 1, common)) IN
  CASE common <= 1 -> 0
    [] common > 1 /\ common < Len(text) /\ text[common + 1] = Space -> common + 1
    [] OTHER -> IF boundary > 0 THEN boundary ELSE IF common < Len(text) THEN common + 1 ELSE common

(* _safe_commit_index()                                                    *)
SafeCommitIndex(text, common) ==
  LET boundary == Boundary(SubSeq(text, 1, common)) IN
  CASE common <= 1 -> 0
    [] common > 1 /\ common < Len(text) /\ text[common + 1] = Space -> common + 1
    [] OTHER -> IF boundary > 0 THEN boundary ELSE common - 1

(* update(): a hypothesis that contradicts the stable text only replaces   *)
(* what comes after it.                                                    *)
Update(hypothesis) ==
  LET common == Common(previous, hypothesis)
      rewritten == IF previous # <<>> /\ common < Len(stable) + Len(tentative) THEN 1 ELSE 0
      safe == SafeCommitIndex(hypothesis, common)
      commit == IF safe > Len(stable) THEN safe ELSE Len(stable)
  IN  /\ ~over /\ updates < MaxUpdates
      /\ updates' = updates + 1
      /\ \/ /\ IsPrefix(stable, hypothesis)
            /\ stable' = SubSeq(hypothesis, 1, commit)
            /\ tentative' = From(hypothesis, commit)
            /\ previous' = hypothesis
            /\ revision' = revision + rewritten
         \/ /\ ~IsPrefix(stable, hypothesis)
            /\ tentative' = From(hypothesis, common)
            /\ previous' = stable \o From(hypothesis, common)
            /\ revision' = revision + rewritten + 1
            /\ UNCHANGED stable
      /\ UNCHANGED over

(* finalize()                                                              *)
Finalize(hypothesis) ==
  /\ ~over
  /\ over' = TRUE
  /\ \/ /\ IsPrefix(stable, hypothesis)
        /\ stable' = hypothesis
        /\ UNCHANGED revision
     \/ /\ ~IsPrefix(stable, hypothesis)
        /\ stable' = stable \o From(hypothesis, Common(stable, hypothesis))
        /\ revision' = revision + 1
  /\ tentative' = <<>>
  /\ previous' = stable'
  /\ UNCHANGED updates

(* VoiceSession passes hypotheses that are not empty; a final text may be. *)
Next ==
  \/ \E h \in Hypothesis \ {<<>>} : Update(h)
  \/ \E h \in Hypothesis : Finalize(h)

Spec == Init /\ [][Next]_vars

-----------------------------------------------------------------------------
(* Committed text stays as it is, however the recogniser changes its mind, *)
(* and it grows only by what two hypotheses in a row agree on, or the      *)
(* space after it, until the final one.                                    *)
Agreed(text) ==
  \/ IsPrefix(text, previous)
  \/ Last(text) = Space /\ IsPrefix(Front(text), previous)
CommitsTheAgreed ==
  /\ IsPrefix(stable, stable')
  /\ (stable' # stable /\ ~over') => Agreed(stable')
=============================================================================
