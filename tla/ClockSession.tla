---------------------------- MODULE ClockSession ----------------------------
(***************************************************************************)
(* Sessions that change the clock policy of one device, the durable        *)
(* journal of their intents, and the recovery that takes an unresolved     *)
(* operation over (src/src/hcuopt/deployment/bw20_clock_session.py,        *)
(* bw20_auto_clock_session.py, bw20_clock_journal.py,                      *)
(* bw20_clock_recovery.py).                                                *)
(*                                                                         *)
(* A session begins at most one operation, and a recovery claims at most   *)
(* one, so they name them.  A check of ownership and the step it protects  *)
(* are separate wherever the code has something between them, above all    *)
(* the write to the device: a process may be paused there for any time.    *)
(* The lease of the device is the control plane's (JobQueue) and is        *)
(* reduced to who holds it.  The device is in the confirmed default policy *)
(* ("auto"), in the policy of a session ("manual"), or no longer the       *)
(* device that was captured ("changed").                                   *)
(***************************************************************************)
EXTENDS Naturals, FiniteSets

CONSTANTS
  Sessions,   \* clock sessions, each of one job's attempt
  Recoveries, \* recovery attempts an operator may start
  Nobody      \* no session

VARIABLES
  journal,  \* journal[s]: state of the operation of session s
  attempts, \* attempts[r]: row of the recovery attempt r
  sess,     \* sess[s]: program counter of s, and what it believes it wrote
  recov,    \* recov[r]: program counter of r, and the operation it claimed
  device,   \* the policy the device is in
  lease,    \* the control plane: state of the resource and who holds it
  late      \* has a session written after it had lost its control?

cvars == <<journal, attempts, sess, recov, device, lease, late>>

OpenStates ==
  {"mutation_possible", "active", "restoring", "reconciliation_required",
   "recovery_claimed"}
Unresolved == {s \in Sessions : journal[s] \in OpenStates}

\* The transitions a session may ask of the journal.
Allowed ==
  {<<"mutation_possible", "active">>, <<"mutation_possible", "restoring">>,
   <<"mutation_possible", "reconciliation_required">>,
   <<"active", "restoring">>, <<"active", "reconciliation_required">>,
   <<"restoring", "restored">>, <<"restoring", "reconciliation_required">>}

Owned(s) == lease.state = "leased" /\ lease.holder = s
Quarantined == lease.state = "quarantined"

ClockInit ==
  /\ journal = [s \in Sessions |-> "none"]
  /\ attempts = [r \in Recoveries |-> "none"]
  /\ sess = [s \in Sessions |-> [pc |-> "new", wrote |-> "none"]]
  /\ recov = [r \in Recoveries |-> [pc |-> "new", op |-> Nobody]]
  /\ device = "auto"
  /\ lease = [state |-> "available", holder |-> Nobody]
  /\ late = FALSE

-----------------------------------------------------------------------------
(* The control plane and the world around the sessions.                    *)

\* A worker whose guard finds the journal clear claims the device for a job.
Lease(s) ==
  /\ lease.state = "available"
  /\ Unresolved = {}
  /\ sess[s].pc = "new"
  /\ lease' = [state |-> "leased", holder |-> s]
  /\ sess' = [sess EXCEPT ![s].pc = "checking"]
  /\ UNCHANGED <<journal, attempts, recov, device, late>>

\* The lease is lost while the session goes on: heartbeat, reaper or cancel.
LoseLease ==
  /\ lease.state = "leased"
  /\ lease' = [lease EXCEPT !.state = "quarantined"]
  /\ UNCHANGED <<journal, attempts, sess, recov, device, late>>

\* The worker of a session that is over settles the cleanup of the device; its
\* guard keeps the device in quarantine as long as an operation is open.
SettleCleanup ==
  /\ lease.state # "available"
  /\ sess[lease.holder].pc = "over"
  /\ lease' = IF Unresolved = {} THEN [state |-> "available", holder |-> Nobody]
                                 ELSE [lease EXCEPT !.state = "quarantined"]
  /\ UNCHANGED <<journal, attempts, sess, recov, device, late>>

\* The host is rebooted or the device replaced while an operation is open.
ChangeTarget ==
  /\ Unresolved # {}
  /\ device' = "changed"
  /\ UNCHANGED <<journal, attempts, sess, recov, lease, late>>

-----------------------------------------------------------------------------
(* A session.                                                              *)

SessAt(s, pc) == sess[s].pc = pc
SessGo(s, pc) == sess' = [sess EXCEPT ![s].pc = pc]

\* Mutant: the transition does not look at the state in the journal.
Persist_Blind(s, state) ==
  /\ <<sess[s].wrote, state>> \in Allowed
  /\ journal' = [journal EXCEPT ![s] = state]

\* transition: only from the state the session believes its operation is in.
Persist(s, state) ==
  /\ <<sess[s].wrote, state>> \in Allowed
  /\ journal[s] = sess[s].wrote
  /\ journal' = [journal EXCEPT ![s] = state]

\* __enter__ up to the capture of the original policy.
Capture(s) ==
  /\ SessAt(s, "checking")
  /\ Owned(s) /\ Unresolved = {} /\ device = "auto"
  /\ SessGo(s, "captured")
  /\ UNCHANGED <<journal, attempts, recov, device, lease, late>>

\* The intent is durable before the device is written; the unique index of the
\* journal refuses a second open operation.
Begin(s) ==
  /\ SessAt(s, "captured")
  /\ Owned(s) /\ Unresolved = {}
  /\ journal' = [journal EXCEPT ![s] = "mutation_possible"]
  /\ sess' = [sess EXCEPT ![s] = [pc |-> "begun", wrote |-> "mutation_possible"]]
  /\ UNCHANGED <<attempts, recov, device, lease, late>>

\* Before the intent is written a session that may not go on just ends.
GiveUp(s) ==
  /\ sess[s].pc \in {"checking", "captured"}
  /\ SessGo(s, "over")
  /\ UNCHANGED <<journal, attempts, recov, device, lease, late>>

CheckApply(s) ==
  /\ SessAt(s, "begun")
  /\ SessGo(s, IF Owned(s) /\ device = "auto" THEN "applying" ELSE "restore")
  /\ UNCHANGED <<journal, attempts, recov, device, lease, late>>

\* The driver may apply and acknowledge, apply and raise, or raise at once.
Apply(s) ==
  /\ SessAt(s, "applying")
  /\ \E written \in {device, "manual"} :
       /\ device' = IF device = "changed" THEN device ELSE written
       /\ late' = (late \/ (~Owned(s) /\ device' # device))
  /\ \E pc \in {"applied", "restore"} : SessGo(s, pc)
  /\ UNCHANGED <<journal, attempts, recov, lease>>

\* The manual policy is observed and the operation made active; or not.
Activate(s) ==
  /\ SessAt(s, "applied")
  /\ \/ /\ Owned(s) /\ device = "manual"
        /\ Persist(s, "active")
        /\ sess' = [sess EXCEPT ![s] = [pc |-> "active", wrote |-> "active"]]
     \/ SessGo(s, "restore") /\ UNCHANGED journal
  /\ UNCHANGED <<attempts, recov, device, lease, late>>

\* The measurement is over, or it has raised.
Exit(s) ==
  /\ SessAt(s, "active")
  /\ SessGo(s, "restore")
  /\ UNCHANGED <<journal, attempts, recov, device, lease, late>>

BeginRestore(s) ==
  /\ SessAt(s, "restore")
  /\ Owned(s)
  /\ Persist(s, "restoring")
  /\ sess' = [sess EXCEPT ![s] = [pc |-> "restoring", wrote |-> "restoring"]]
  /\ UNCHANGED <<attempts, recov, device, lease, late>>

\* The device is observed; in the automatic policy there is nothing to write.
CheckRestore(s) ==
  /\ SessAt(s, "restoring")
  /\ Owned(s) /\ device \in {"auto", "manual"}
  /\ SessGo(s, IF device = "auto" THEN "restored" ELSE "rewriting")
  /\ UNCHANGED <<journal, attempts, recov, device, lease, late>>

Rewrite(s) ==
  /\ SessAt(s, "rewriting")
  /\ \E written \in {device, "auto"} :
       device' = IF device = "changed" THEN device ELSE written
  /\ \E pc \in {"restored", "unconfirmed"} : SessGo(s, pc)
  /\ UNCHANGED <<journal, attempts, recov, lease, late>>

\* Mutant: the write that restores is not followed by an observation.
Verify_Trusting(s) ==
  /\ SessAt(s, "restored")
  /\ Owned(s)
  /\ SessGo(s, "verified")
  /\ UNCHANGED <<journal, attempts, recov, device, lease, late>>

Verify(s) ==
  /\ SessAt(s, "restored")
  /\ Owned(s) /\ device = "auto"
  /\ SessGo(s, "verified")
  /\ UNCHANGED <<journal, attempts, recov, device, lease, late>>

Resolve(s) ==
  /\ SessAt(s, "verified")
  /\ Owned(s)
  /\ Persist(s, "restored")
  /\ sess' = [sess EXCEPT ![s] = [pc |-> "over", wrote |-> "restored"]]
  /\ UNCHANGED <<attempts, recov, device, lease, late>>

\* Any check or journal write of a restore may raise.
Unconfirm(s) ==
  /\ sess[s].pc \in {"restore", "restoring", "restored", "verified"}
  /\ SessGo(s, "unconfirmed")
  /\ UNCHANGED <<journal, attempts, recov, device, lease, late>>

\* The failure is recorded if the journal lets it; either way the session ends.
Quarantine(s) ==
  /\ SessAt(s, "unconfirmed")
  /\ Persist(s, "reconciliation_required") \/ UNCHANGED journal
  /\ SessGo(s, "over")
  /\ UNCHANGED <<attempts, recov, device, lease, late>>

CrashSession(s) ==
  /\ sess[s].pc \notin {"new", "over"}
  /\ SessGo(s, "over")
  /\ UNCHANGED <<journal, attempts, recov, device, lease, late>>

SessionStep(s) ==
  \/ Capture(s) \/ Begin(s) \/ GiveUp(s) \/ CheckApply(s) \/ Apply(s)
  \/ Activate(s) \/ Exit(s) \/ BeginRestore(s) \/ CheckRestore(s)
  \/ Rewrite(s) \/ Verify(s) \/ Resolve(s) \/ Unconfirm(s) \/ Quarantine(s)

-----------------------------------------------------------------------------
(* A recovery. Each of its checks may fail for reasons of the deployment.  *)

RecAt(r, pc) == recov[r].pc = pc
RecGo(r, pc) == recov' = [recov EXCEPT ![r].pc = pc]

\* The device is in quarantine and is the one of the only open operation.
Inspect(r) ==
  /\ RecAt(r, "new")
  /\ Quarantined /\ Cardinality(Unresolved) = 1 /\ device # "changed"
  /\ RecGo(r, "inspected")
  /\ UNCHANGED <<journal, attempts, sess, device, lease, late>>

\* claim_recovery: one transaction; the operation may have changed since.
ClaimRecovery(r) ==
  /\ RecAt(r, "inspected")
  /\ Quarantined
  /\ \E s \in Unresolved :
       /\ Unresolved = {s}
       /\ journal[s] # "recovery_claimed"
       /\ \A q \in Recoveries : attempts[q] # "claimed"
       /\ journal' = [journal EXCEPT ![s] = "recovery_claimed"]
       /\ recov' = [recov EXCEPT ![r] = [pc |-> "claimed", op |-> s]]
  /\ attempts' = [attempts EXCEPT ![r] = "claimed"]
  /\ UNCHANGED <<sess, device, lease, late>>

Withdraw(r) ==
  /\ RecAt(r, "inspected")
  /\ RecGo(r, "new")
  /\ UNCHANGED <<journal, attempts, sess, device, lease, late>>

Reinspect(r) ==
  /\ RecAt(r, "claimed")
  /\ Quarantined /\ device # "changed"
  /\ RecGo(r, IF device = "manual" THEN "rewriting" ELSE "restored")
  /\ UNCHANGED <<journal, attempts, sess, device, lease, late>>

RecoveryWrite(r) ==
  /\ RecAt(r, "rewriting")
  /\ \E written \in {device, "auto"} :
       device' = IF device = "changed" THEN device ELSE written
  /\ \E pc \in {"restored", "failed"} : RecGo(r, pc)
  /\ UNCHANGED <<journal, attempts, sess, lease, late>>

RecoveryVerify(r) ==
  /\ RecAt(r, "restored")
  /\ Quarantined /\ device = "auto"
  /\ RecGo(r, "verified")
  /\ UNCHANGED <<journal, attempts, sess, device, lease, late>>

RecoveryRaises(r) ==
  /\ recov[r].pc \in {"claimed", "restored", "verified"}
  /\ RecGo(r, "failed")
  /\ UNCHANGED <<journal, attempts, sess, device, lease, late>>

\* Mutant: the operation is settled, the attempt stays claimed.
Finish_ClaimStays(r, attempt, state) ==
  /\ attempts[r] = "claimed"
  /\ journal[recov[r].op] = "recovery_claimed"
  /\ journal' = [journal EXCEPT ![recov[r].op] = state]
  /\ RecGo(r, "over")
  /\ UNCHANGED <<attempts, sess, device, lease, late>>

\* finish_recovery settles the attempt and the operation it has claimed.
Finish(r, attempt, state) ==
  /\ attempts[r] = "claimed"
  /\ journal[recov[r].op] = "recovery_claimed"
  /\ journal' = [journal EXCEPT ![recov[r].op] = state]
  /\ attempts' = [attempts EXCEPT ![r] = attempt]
  /\ RecGo(r, "over")
  /\ UNCHANGED <<sess, device, lease, late>>

FinishRestored(r) ==
  RecAt(r, "verified") /\ Quarantined /\ Finish(r, "restored", "restored")

FinishFailed(r) ==
  RecAt(r, "failed") /\ Finish(r, "failed", "reconciliation_required")

\* A crash, or a settlement that fails: the claim stays and blocks the device.
CrashRecovery(r) ==
  /\ recov[r].pc \notin {"new", "over"}
  /\ RecGo(r, IF RecAt(r, "inspected") THEN "new" ELSE "over")
  /\ UNCHANGED <<journal, attempts, sess, device, lease, late>>

RecoveryStep(r) ==
  \/ Inspect(r) \/ ClaimRecovery(r) \/ Withdraw(r) \/ Reinspect(r)
  \/ RecoveryWrite(r) \/ RecoveryVerify(r) \/ RecoveryRaises(r)
  \/ FinishRestored(r) \/ FinishFailed(r)

ClockNext ==
  \/ LoseLease \/ SettleCleanup \/ ChangeTarget
  \/ \E s \in Sessions : Lease(s) \/ SessionStep(s) \/ CrashSession(s)
  \/ \E r \in Recoveries : RecoveryStep(r) \/ CrashRecovery(r)

ClockSpec == ClockInit /\ [][ClockNext]_cvars

-----------------------------------------------------------------------------
(* Properties.                                                             *)

\* The tables and the programs hold values of their types.
CTypeOK ==
  /\ journal \in [Sessions -> OpenStates \cup {"none", "restored"}]
  /\ attempts \in [Recoveries -> {"none", "claimed", "restored", "failed"}]
  /\ sess \in [Sessions ->
       [pc : {"new", "checking", "captured", "begun", "applying", "applied",
              "active", "restore", "restoring", "rewriting", "restored",
              "verified", "unconfirmed", "over"},
        wrote : {"none", "mutation_possible", "active", "restoring", "restored"}]]
  /\ recov \in [Recoveries ->
       [pc : {"new", "inspected", "claimed", "rewriting", "restored",
              "verified", "failed", "over"},
        op : Sessions \cup {Nobody}]]
  /\ device \in {"auto", "manual", "changed"}
  /\ lease \in [state : {"available", "leased", "quarantined"},
                holder : Sessions \cup {Nobody}]
  /\ late \in BOOLEAN

\* The device is accounted for: wherever sessions and recoveries die, fail or
\* meet, a device in the policy of a session has an open operation in the
\* journal, and so is not leased to a worker that knows nothing of it. The one
\* exception is a session that was paused between its check of ownership and
\* its write to the device and lost the device in between.
DeviceAccounted ==
  device = "manual" /\ ~late => Unresolved # {} /\ lease.state # "available"

\* Exactly one takes an operation over: an operation is claimed if and only if
\* one recovery attempt is, and no session has a say in it any more.
TakenOverOnce ==
  /\ Cardinality({r \in Recoveries : attempts[r] = "claimed"})
       = Cardinality({s \in Sessions : journal[s] = "recovery_claimed"})
  /\ \A r \in Recoveries :
       attempts[r] = "claimed" => journal[recov[r].op] = "recovery_claimed"
  /\ Cardinality(Unresolved) <= 1

\* An operation that a recovery has claimed is settled by that recovery alone,
\* and a restored one is never opened again, whatever its session still tries.
SettledByItsClaimant ==
  [][\A s \in Sessions :
       journal[s] \in {"recovery_claimed", "restored"} /\ journal'[s] # journal[s] =>
         /\ journal[s] = "recovery_claimed"
         /\ \E r \in Recoveries :
              /\ recov[r].op = s /\ attempts[r] = "claimed"
              /\ attempts'[r] = (IF journal'[s] = "restored" THEN "restored" ELSE "failed")
    ]_cvars
=============================================================================
