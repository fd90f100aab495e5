--------------------------- MODULE MCOrchestrator ---------------------------
(* Instances of Orchestrator for TLC: the agents of the registry, each with *)
(* one slot and a queue of one, in a pool of two.                           *)
EXTENDS Orchestrator, TLC

CONSTANTS t1, t2, t3

MCRole == {"research", "coding", SupervisorId}

MCConcurrency == [r \in Role |-> 1]

MCQueueLimit == [r \in Role |-> 1]

(* "read the docs", "change this code", "delete the docs", and commands.    *)
MCTexts ==
  { Text({"READ_ONLY", "docs"}), Text({"code"}), Text({"IRREVERSIBLE", "docs"}),
    Phrase("STATUS"), Phrase("STOP_SPEAKING"), Phrase("CANCEL_TASK") }
=============================================================================
