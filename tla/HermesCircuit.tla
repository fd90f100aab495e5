--------------------------- MODULE HermesCircuit ----------------------------
(***************************************************************************)
(* HermesEscalationAdapter (runtime/hermes.py): escalations of one session *)
(* that share a budget and a circuit breaker.  An escalation awaits its    *)
(* transport, where others begin and end; the clock only matters for the   *)
(* cooldown.                                                               *)
(***************************************************************************)
EXTENDS Integers

CONSTANTS
  Escalation,         (* calls of escalate()                               *)
  RetryBudget, SessionBudget, FailureThreshold

VARIABLES
  circuit,     (* state                                                    *)
  failures,    (* failure_count                                            *)
  opened,      (* opened_ms: never, or recently, or a cooldown ago         *)
  budget,      (* remaining_budget                                         *)
  attempt      (* of each escalation: 0 before it, Over after it           *)

vars == <<circuit, failures, opened, budget, attempt>>

Over == RetryBudget + 2

Init ==
  /\ circuit = "CLOSED" /\ failures = 0 /\ opened = "never"
  /\ budget = SessionBudget
  /\ attempt = [e \in Escalation |-> 0]

Trying(e) == attempt[e] \in 1 .. RetryBudget + 1

(* _allow_call()                                                           *)
AllowCall ==
  \/ circuit # "OPEN" /\ UNCHANGED circuit
  \/ circuit = "OPEN" /\ opened = "past" /\ circuit' = "HALF_OPEN"

Escalate(e) ==
  /\ attempt[e] = 0 /\ budget > 0
  /\ AllowCall
  /\ budget' = budget - 1
  /\ attempt' = [attempt EXCEPT ![e] = 1]
  /\ UNCHANGED <<failures, opened>>

(* Refused: no key, no budget, or an open circuit.                         *)
Degrade(e) ==
  /\ attempt[e] = 0
  /\ attempt' = [attempt EXCEPT ![e] = Over]
  /\ UNCHANGED <<circuit, failures, opened, budget>>

(* Mutant: a success that leaves the count of failures.                    *)
SucceedOnly(e) ==
  /\ Trying(e)
  /\ circuit' = "CLOSED" /\ opened' = "never"
  /\ attempt' = [attempt EXCEPT ![e] = Over]
  /\ UNCHANGED <<failures, budget>>

Succeed(e) ==
  /\ Trying(e)
  /\ circuit' = "CLOSED" /\ failures' = 0 /\ opened' = "never"
  /\ attempt' = [attempt EXCEPT ![e] = Over]
  /\ UNCHANGED budget

(* A timeout, a transient error or an empty answer, with tries left.       *)
Retry(e) ==
  /\ attempt[e] \in 1 .. RetryBudget
  /\ attempt' = [attempt EXCEPT ![e] = @ + 1]
  /\ UNCHANGED <<circuit, failures, opened, budget>>

(* The same without, or any other error.                                   *)
Fail(e) ==
  /\ Trying(e)
  /\ failures' = failures + 1
  /\ IF circuit = "HALF_OPEN" \/ failures' >= FailureThreshold
     THEN circuit' = "OPEN" /\ opened' = "recent"
     ELSE UNCHANGED <<circuit, opened>>
  /\ attempt' = [attempt EXCEPT ![e] = Over]
  /\ UNCHANGED budget

CooldownPasses ==
  /\ opened = "recent"
  /\ opened' = "past"
  /\ UNCHANGED <<circuit, failures, budget, attempt>>

Next ==
  \/ \E e \in Escalation : Escalate(e) \/ Degrade(e) \/ Succeed(e) \/ Retry(e) \/ Fail(e)
  \/ CooldownPasses

Spec == Init /\ [][Next]_vars

-----------------------------------------------------------------------------
(* However the escalations overlap, and however late one ends, a closed    *)
(* circuit has seen fewer failures in a row than would open it, an open    *)
(* one knows since when, or it would never be tried again, and a half-open *)
(* one has its probe on the way.                                           *)
CircuitKnowsItsCalls ==
  /\ circuit = "CLOSED" => failures < FailureThreshold
  /\ circuit = "OPEN" => opened # "never"
  /\ circuit = "HALF_OPEN" => \E e \in Escalation : Trying(e)
=============================================================================
