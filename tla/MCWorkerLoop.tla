---------------------------- MODULE MCWorkerLoop ----------------------------
(* Model values and small sets for checking WorkerLoop with TLC.           *)
EXTENDS WorkerLoop, TLC

CONSTANTS j1,           \* a device job
          w1, w2,       \* two workers
          r1            \* the device they share

MCJobSpec ==
    [j \in Job |-> [type |-> "gpu", profile |-> None, scope |-> "exclusive", max |-> 2]]

MCRegistrations == {[type |-> "gpu", profile |-> None, resource |-> r1]}
=============================================================================
