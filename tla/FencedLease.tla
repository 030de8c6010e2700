---------------------------- MODULE FencedLease ----------------------------
(***************************************************************************)
(* What the control plane promises about a leased accelerator, without a   *)
(* word about jobs tables, tokens in requests or reapers:                  *)
(*   - a resource has at most one holder;                                  *)
(*   - every acquisition opens a new epoch (the fencing token), and epochs *)
(*     only ever grow;                                                     *)
(*   - once acquired, a resource is not acquired again before somebody has *)
(*     vouched, for that very epoch, that it is clean.                     *)
(* JobQueue implements this specification.                                 *)
(***************************************************************************)
EXTENDS Naturals

CONSTANTS Resource,   \* the leasable devices
          Holder,     \* whoever may hold one
          None        \* "no holder"

VARIABLE lease        \* lease[r]: [holder, epoch, clean]

LeaseType == [holder : Holder \cup {None}, epoch : Nat, clean : BOOLEAN]

Init == lease = [r \in Resource |-> [holder |-> None, epoch |-> 0, clean |-> TRUE]]

\* A clean, free resource is handed out under a new epoch.
Acquire(r) == /\ lease[r].holder = None
              /\ lease[r].clean
              /\ \E h \in Holder :
                    lease'[r] = [holder |-> h, epoch |-> lease[r].epoch + 1, clean |-> FALSE]

\* The holder lets go, or is thrown out; with proof of cleanliness or without.
Vacate(r) == /\ lease[r].holder # None
             /\ \E b \in BOOLEAN : lease'[r] = [holder |-> None, epoch |-> lease[r].epoch, clean |-> b]

\* Somebody vouches for a vacated resource.
Clean(r) == /\ lease[r].holder = None
            /\ lease'[r] = [holder |-> None, epoch |-> lease[r].epoch, clean |-> TRUE]

\* One transaction may move several resources at once (the reaper does).
Next == /\ lease' \in [Resource -> LeaseType]
        /\ \A r \in Resource : Acquire(r) \/ Vacate(r) \/ Clean(r) \/ lease'[r] = lease[r]

Spec == Init /\ [][Next]_lease
=============================================================================
