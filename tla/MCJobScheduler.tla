--------------------------- MODULE MCJobScheduler ---------------------------
(* Instances of JobScheduler for TLC.                                      *)
EXTENDS JobScheduler, TLC

CONSTANTS a1, a2, k1

(* With two slots in the pool, a1's single slot and the pool's both bind.  *)
MCConcurrency == [r \in Role |-> IF r = a1 THEN 1 ELSE 2]

MCQueueLimit == [r \in Role |-> IF r = a1 THEN 1 ELSE 2]

(* Bound on what is submitted: only a1's jobs have a key, and roots declare *)
(* themselves cancellable, which nothing looks at in a root.                *)
FewerInputs ==
  Len(jobs') > Len(jobs) =>
    LET new == jobs'[Len(jobs')]
    IN  /\ new.key # NoKey => new.role = a1
        /\ new.parent = NoJob => new.cancellable
=============================================================================
