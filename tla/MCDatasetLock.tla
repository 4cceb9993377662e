---------------------------- MODULE MCDatasetLock ----------------------------
\* Instances of DatasetLock: one automation that locks and unlocks, or two.
EXTENDS DatasetHistory, TLC

CONSTANTS c1, c2

Both == {"lock", "unlock"}
One  == c1 :> Both
Two  == (c1 :> {"lock"}) @@ (c2 :> {"unlock"})
=============================================================================
