------------------------------- MODULE Policy -------------------------------
(***************************************************************************)
(* The command recogniser and the execution policy (runtime/policy.py):    *)
(* pure functions of a normalised utterance.  All they look for is whether *)
(* the whole of it is a command phrase, and which groups of markers occur  *)
(* in it, so a text is that command and those groups.  Every combination   *)
(* of groups is some text; no command phrase holds a marker.               *)
(***************************************************************************)
EXTENDS Integers, Sequences

CommandType == {"STOP_SPEAKING", "CANCEL_TASK", "CONTINUE", "STATUS", "REPEAT"}

NoCommand == "none"

(* The classes of _TEXT_RISKS in the order they are looked for, and then   *)
(* the two that classify_text() names itself.                              *)
TextRisks ==
  <<"PAID", "HIGH_IMPACT", "IRREVERSIBLE", "EXTERNAL", "READ_ONLY", "LOCAL_REVERSIBLE">>

RiskClass == {TextRisks[i] : i \in DOMAIN TextRisks} \cup {"UNKNOWN"}

BlockedRisks == {"EXTERNAL", "PAID", "IRREVERSIBLE", "HIGH_IMPACT"}

(* A text with these groups of markers; a command phrase has none.         *)
Text(marks) == [command |-> NoCommand, marks |-> marks]

Phrase(command) == [command |-> command, marks |-> {}]

Recognize(text) == text.command

(* The first class of which a marker occurs.                               *)
ClassifyText(text) ==
  LET found == {i \in DOMAIN TextRisks : TextRisks[i] \in text.marks}
  IN  IF found = {} THEN "UNKNOWN"
      ELSE TextRisks[CHOOSE i \in found : \A k \in found : i <= k]

(* Those of the allowlists that a route or a fixture can ask for.          *)
ReadOnlyCapabilities == {"list_files", "research_read", "read_docs"}

LocalReversibleCapabilities == {"edit_workspace", "open_local_url", "format_workspace"}

(* The risk the router declared counts, and the text's own only if it      *)
(* declared none.                                                          *)
Risk(text, declared) == IF declared # "UNKNOWN" THEN declared ELSE ClassifyText(text)

(* evaluate(): the decision.                                               *)
Evaluate(capability, text, declared) ==
  LET risk == Risk(text, declared) IN
  CASE capability \in ReadOnlyCapabilities /\ risk \in {"READ_ONLY", "UNKNOWN"}
         -> "ALLOW_READ_ONLY"
    [] capability \in LocalReversibleCapabilities /\ risk \in {"LOCAL_REVERSIBLE", "UNKNOWN"}
         -> "ALLOW_LOCAL_REVERSIBLE"
    [] OTHER -> "BLOCKED_POLICY"

Allowed(capability, text, declared) ==
  Evaluate(capability, text, declared) # "BLOCKED_POLICY"

(* classify_fixture(): a text that asks for what its own class needs.      *)
ClassifyFixture(text) ==
  LET risk == ClassifyText(text)
      capability == CASE risk = "READ_ONLY" -> "read_docs"
                      [] risk = "LOCAL_REVERSIBLE" -> "format_workspace"
                      [] OTHER -> "unknown"
  IN  Evaluate(capability, text, risk)
=============================================================================
