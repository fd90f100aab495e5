----------------------------- MODULE Supervisor -----------------------------
(***************************************************************************)
(* Routing an utterance to a worker (runtime/supervisor.py): by rules, or  *)
(* by a language model that is only trusted with the name of a route.  A   *)
(* decision is what the orchestrator reads of a RouteDecision; confidence, *)
(* cost and deadline steer nothing.                                        *)
(***************************************************************************)
EXTENDS Policy

CONSTANTS
  Role,      (* agent identifiers of the registry                          *)
  Backend,   (* RUNTIME_SUPERVISOR_BACKEND: "deterministic" or "qwen"      *)
  NoTarget   (* the user addressed no agent                                *)

SupervisorId == "local-supervisor"

Decision(route, risk, role) == [route |-> route, risk |-> risk, role |-> role]

(* from_model_wire(): what a route name that the model returns stands for. *)
ModelDefaults ==
  { Decision("command", "READ_ONLY", SupervisorId),
    Decision("research", "READ_ONLY", "research"),
    Decision("coding", "LOCAL_REVERSIBLE", "coding"),
    Decision("browser", "LOCAL_REVERSIBLE", "browser"),
    Decision("filesystem_read", "READ_ONLY", "filesystem-read"),
    Decision("hermes", "UNKNOWN", "hermes"),
    Decision("blocked", "UNKNOWN", SupervisorId) }

(* validate(): the decisions whose worker the registry knows.              *)
Valid(decisions) == {d \in decisions : d.role \in Role}

RouteOfRole(role) == IF role = "filesystem-read" THEN "filesystem_read" ELSE role

(* The rules in their order: which markers lead to which worker.           *)
Rules ==
  << [mark |-> "code", to |-> Decision("coding", "LOCAL_REVERSIBLE", "coding")],
     [mark |-> "browser", to |-> Decision("browser", "LOCAL_REVERSIBLE", "browser")],
     [mark |-> "files", to |-> Decision("filesystem_read", "READ_ONLY", "filesystem-read")],
     [mark |-> "docs", to |-> Decision("research", "READ_ONLY", "research")] >>

ByRule(text) ==
  LET found == {i \in DOMAIN Rules : Rules[i].mark \in text.marks}
  IN  IF found = {} THEN Decision("hermes", "UNKNOWN", "hermes")
      ELSE Rules[CHOOSE i \in found : \A k \in found : i <= k].to

(* DeterministicSupervisor.route().                                        *)
Deterministic(text, target) ==
  IF Recognize(text) # NoCommand THEN Decision("command", "READ_ONLY", SupervisorId)
  ELSE IF target = NoTarget THEN ByRule(text)
  ELSE IF target \notin Role \/ target = SupervisorId
       THEN Decision("blocked", "UNKNOWN", SupervisorId)
       ELSE Decision(RouteOfRole(target), "UNKNOWN", target)

(* What handle_turn() may get: the model's answer whatever the text says,  *)
(* or, when there is a target, or when the model fails or returns anything *)
(* that does not validate, what the rules say.                             *)
Decisions(text, target) ==
  {Deterministic(text, target)}
    \cup (IF Backend = "qwen" /\ target = NoTarget THEN Valid(ModelDefaults) ELSE {})
=============================================================================
