----------------------------- MODULE ZoneRuntime ----------------------------
(***************************************************************************)
(* The runtime of one managed Gateway zone                                 *)
(* (controller/zone-runtimes/managed-gateway-zone-runtime.ts), the start   *)
(* sequence it drives (gateway/gateway-zone-orchestrator.ts) and the       *)
(* recovery runner that calls it (controller/health/).                     *)
(*                                                                         *)
(* Lifecycle operations are serialized by a promise chain, here a FIFO     *)
(* queue whose head holds the lock.  An operation with a deadline gives    *)
(* the lock up early, when the VM it was creating has been contained; it   *)
(* then runs on beside its successor.  A step is what runs between two     *)
(* awaits that matter.  Each operation starts at most one Gateway VM, and  *)
(* the VM is named by the operation.                                       *)
(*                                                                         *)
(* Left out: the journal of operation records, the Tool VMs below the      *)
(* Gateway (module GatewayOwnership) and the two states the code declares  *)
(* and the start path never produces ('running-degraded', 'owner-unsafe'   *)
(* as a kind of its own).                                                  *)
(***************************************************************************)
EXTENDS Naturals, Sequences

CONSTANTS
  Ops,       \* calls of the zone runtime
  None,      \* no operation, no VM
  Kinds,     \* the calls an operator makes: start, stop, restart, refresh
  Recovers,  \* the automatic recovery runs
  VmsDie     \* a VM process may die by itself

ASSUME ZoneAssumption ==
  /\ None \notin Ops
  /\ Kinds \subseteq {"start", "stop", "restart", "refresh"}
  /\ Recovers \in BOOLEAN /\ VmsDie \in BOOLEAN

VARIABLES
  zone,    \* gateway, staleGatewayPendingClose, lifecycleState, lastError
  gen,     \* lifecycleGeneration
  queue,   \* lifecycleOperation: the operations in the order of their calls
  op,      \* per call: its progress
  proc,    \* per VM: its host process
  epoch    \* per VM: its entry in the ownership coordinator

vars == <<zone, gen, queue, op, proc, epoch>>

\* kind "none" is a call not yet made.  prev is the Gateway a restart found
\* running, target the VM being destroyed, cont the containment of the VM
\* creation: armed by onPendingVmCreation, closing once the deadline has passed.
IdleOp ==
  [kind |-> "none", stage |-> "idle", timed |-> FALSE, preflighted |-> FALSE, prev |-> None,
   target |-> None, gen |-> 0, expired |-> FALSE, cont |-> "none", result |-> "pending"]

Init ==
  /\ zone = [gateway |-> None, stale |-> None, kind |-> "stopped", eligible |-> FALSE,
             code |-> "none", lastError |-> "none"]
  /\ gen = 0
  /\ queue = <<>>
  /\ op = [o \in Ops |-> IdleOp]
  /\ proc = [o \in Ops |-> "none"]
  /\ epoch = [o \in Ops |-> "none"]

-----------------------------------------------------------------------------
(* The lifecycle state.                                                    *)

Failed(z, eligible, code) ==
  [z EXCEPT !.kind = "failed", !.eligible = eligible, !.code = code,
            !.lastError = IF code = "owner-unsafe" THEN "other" ELSE code]

\* What getLifecycleState leaves behind: a Gateway whose process is gone becomes
\* the stale handle, and an error noted while stopped becomes a failed state.
Observed(z) ==
  CASE z.kind = "running" /\ proc[z.gateway] # "up" ->
         [Failed(z, TRUE, "other") EXCEPT !.stale = IF @ = None THEN z.gateway ELSE @,
                                          !.gateway = None]
    [] z.kind = "stopped" /\ z.lastError # "none" -> Failed(z, TRUE, z.lastError)
    [] OTHER -> z

OwnerUnsafe(z) == z.kind = "failed" /\ ~z.eligible /\ z.code = "owner-unsafe"
SuccessorCreationAllowed(z) == ~(z.kind = "failed" /\ ~z.eligible)

-----------------------------------------------------------------------------
(* The lock and the shape of a step.                                       *)

HoldsLock(o) == queue # <<>> /\ Head(queue) = o
Unlocked(o) == IF HoldsLock(o) THEN Tail(queue) ELSE queue
At(o, stage) == op[o].stage = stage

\* The operation settles.  A caller whose deadline has passed was answered then.
Settle(o, result) ==
  /\ queue' = Unlocked(o)
  /\ op' = [op EXCEPT ![o].stage = "done",
                      ![o].result = IF @ = "pending" THEN result ELSE @]

\* The operation goes on and keeps the lock if it has it.
Goto(o, stage) == op' = [op EXCEPT ![o].stage = stage] /\ UNCHANGED queue
GotoTarget(o, stage, v) ==
  op' = [op EXCEPT ![o].stage = stage, ![o].target = v] /\ UNCHANGED queue

\* startNow begins.
EnterStart(o, z) == zone' = [z EXCEPT !.kind = "starting"] /\ Goto(o, "start")

\* stopNow begins: with no Gateway there is nothing to destroy.
EnterStop(o, z) ==
  IF z.gateway # None
  THEN zone' = [z EXCEPT !.kind = "stopping"] /\ GotoTarget(o, "destroy", z.gateway)
  ELSE LET after == [z EXCEPT !.kind = "stopped", !.lastError = "none"] IN
       CASE OwnerUnsafe(Observed(z)) -> zone' = Observed(z) /\ Settle(o, "ok")
         [] ~OwnerUnsafe(Observed(z)) /\ op[o].kind = "stop" -> zone' = after /\ Settle(o, "ok")
         [] OTHER -> EnterStart(o, after)

\* The catch of startNow: an owner-unsafe verdict reached meanwhile stays.
CatchStart(o, z, code) ==
  /\ zone' = IF z.gateway = None /\ OwnerUnsafe(Observed(z)) THEN Observed(z)
             ELSE [Failed(z, TRUE, code) EXCEPT !.gateway = None]
  /\ Settle(o, "error")

\* What a start that fails is classified as.
ErrorCodes == {"secret", "other"}

-----------------------------------------------------------------------------
(* The calls.                                                              *)

NewCall(o, kind, timed) ==
  [IdleOp EXCEPT !.kind = kind, !.timed = timed,
                 !.stage = IF kind = "refresh" THEN "refresh" ELSE "queued"]

\* start, stop, restart, refreshCredentials, and upgrade, which is a restart.
\* The controller starts a zone once.
Call(o, kind) ==
  /\ op[o].kind = "none" /\ kind \in Kinds
  /\ kind = "start" => \A p \in Ops : op[p].kind # "start"
  /\ op' = [op EXCEPT ![o] = NewCall(o, kind, FALSE)]
  /\ queue' = IF kind = "refresh" THEN queue ELSE Append(queue, o)
  /\ UNCHANGED <<zone, gen, proc, epoch>>

\* The recovery runner classifies the state it reads and calls the runtime with
\* a deadline; it leaves an operation in flight and an unsafe zone alone.
Recover(o) ==
  LET z == Observed(zone)
      kind == CASE z.kind = "running" -> "restart"
                [] z.kind = "failed" /\ z.code = "secret" -> "refresh"
                [] z.kind = "stopped"
                   \/ (z.kind = "failed" /\ z.eligible /\ z.code # "secret") -> "coldStart"
                [] OTHER -> "none"
  IN  /\ Recovers /\ op[o].kind = "none" /\ kind # "none"
      /\ zone' = z
      /\ op' = [op EXCEPT ![o] = NewCall(o, kind, TRUE)]
      /\ queue' = IF kind = "refresh" THEN queue ELSE Append(queue, o)
      /\ UNCHANGED <<gen, proc, epoch>>

\* A health probe or a status request reads the state.
Observe ==
  /\ zone' = Observed(zone) /\ zone' # zone
  /\ UNCHANGED <<gen, queue, op, proc, epoch>>

\* refreshCredentials reads the secrets before it asks for the lock, and
\* chooses between restart and cold start there.
RefreshReady(o) ==
  LET z == Observed(zone) IN
  /\ At(o, "refresh")
  /\ zone' = z
  /\ op' = [op EXCEPT ![o].stage = "queued", ![o].preflighted = TRUE,
                      ![o].kind = IF z.kind = "running" THEN "restart" ELSE "coldStart"]
  /\ queue' = Append(queue, o)
  /\ UNCHANGED <<gen, proc, epoch>>

\* The secrets cannot be read: the zone is failed unless it runs.
RefreshFails(o) ==
  LET z == Observed(zone) IN
  /\ At(o, "refresh")
  /\ zone' = IF z.kind = "running" THEN [z EXCEPT !.lastError = "secret"]
             ELSE Failed(z, TRUE, "secret")
  /\ Settle(o, "error")
  /\ UNCHANGED <<gen, proc, epoch>>

\* The deadline of the runner aborts a refresh that has not asked for the lock.
RefreshAborted(o) ==
  /\ At(o, "refresh") /\ op[o].timed
  /\ Settle(o, "timeout")
  /\ UNCHANGED <<zone, gen, proc, epoch>>

\* The lock is obtained.
Begin(o) ==
  LET z == Observed(zone)
      kind == op[o].kind
      running == kind = "restart" /\ z.kind = "running"
  IN  /\ At(o, "queued") /\ HoldsLock(o)
      /\ gen' = IF kind \in {"restart", "coldStart"} THEN gen + 1 ELSE gen
      /\ \/ kind = "stop" /\ EnterStop(o, zone)
         \/ kind # "stop" /\ ~running /\ ~SuccessorCreationAllowed(z)
            /\ zone' = z /\ Settle(o, "error")
         \/ kind = "start" /\ SuccessorCreationAllowed(z) /\ EnterStart(o, z)
         \/ /\ kind \in {"restart", "coldStart"}
            /\ running \/ SuccessorCreationAllowed(z)
            /\ zone' = z
            /\ op' = [op EXCEPT ![o].stage = "preflight", ![o].gen = gen + 1,
                                ![o].prev = IF running THEN z.gateway ELSE None]
            /\ UNCHANGED queue
      /\ UNCHANGED <<proc, epoch>>

PreflightFails(o) ==
  /\ At(o, "preflight") /\ ~op[o].preflighted
  /\ \E code \in ErrorCodes : zone' = [zone EXCEPT !.lastError = code]
  /\ Settle(o, "error")
  /\ UNCHANGED <<gen, proc, epoch>>

StaleGeneration(o) == op[o].kind # "start" /\ op[o].gen # gen

\* abortIfLifecycleGenerationStale gives the zone back to the Gateway found.
AbortStale(o) ==
  /\ zone' = IF op[o].prev # None
             THEN [zone EXCEPT !.gateway = op[o].prev, !.kind = "running", !.lastError = "other"]
             ELSE Failed(zone, TRUE, "other")
  /\ Settle(o, "error")

\* The preflight is done: abort, or destroy the predecessor, or start.
Preflighted(o) ==
  /\ At(o, "preflight")
  /\ \/ StaleGeneration(o) /\ AbortStale(o)
     \/ ~StaleGeneration(o) /\ op[o].prev # None
        /\ EnterStop(o, [zone EXCEPT !.kind = "restarting"])
     \/ ~StaleGeneration(o) /\ op[o].prev = None /\ zone.stale # None
        /\ zone' = [zone EXCEPT !.stale = None] /\ GotoTarget(o, "close-stale", zone.stale)
     \/ ~StaleGeneration(o) /\ op[o].prev = None /\ zone.stale = None
        /\ EnterStart(o, zone)
  /\ UNCHANGED <<gen, proc, epoch>>

-----------------------------------------------------------------------------
(* Destruction.  The transaction of a handle remembers how it ended.       *)

Destroyed(v) ==
  /\ epoch[v] # "unsafe"
  /\ proc' = [proc EXCEPT ![v] = "down"]
  /\ epoch' = [epoch EXCEPT ![v] = "retired"]

Refused(v) ==
  /\ epoch[v] # "retired"
  /\ epoch' = [epoch EXCEPT ![v] = "unsafe"]
  /\ UNCHANGED proc

\* Mutant: a Gateway that could not be destroyed is reported as running again.
StopFailsRunning(o) ==
  /\ At(o, "destroy")
  /\ Refused(op[o].target)
  /\ zone' = [zone EXCEPT !.kind = "running", !.lastError = "other"]
  /\ Settle(o, "error")
  /\ UNCHANGED gen

\* closeGateway of stopNow.
StopFails(o) ==
  /\ At(o, "destroy")
  /\ Refused(op[o].target)
  /\ zone' = Failed(zone, FALSE, "owner-unsafe")
  /\ Settle(o, "error")
  /\ UNCHANGED gen

StopSucceeds(o) ==
  LET after == [zone EXCEPT !.gateway = None, !.kind = "stopped", !.lastError = "none"] IN
  /\ At(o, "destroy")
  /\ Destroyed(op[o].target)
  /\ IF op[o].kind = "stop" THEN zone' = after /\ Settle(o, "ok") ELSE EnterStart(o, after)
  /\ UNCHANGED gen

\* closeStaleGatewayBeforeColdStart.
StaleClosed(o) ==
  /\ At(o, "close-stale")
  /\ Destroyed(op[o].target)
  /\ EnterStart(o, zone)
  /\ UNCHANGED gen

StaleCloseFails(o) ==
  /\ At(o, "close-stale")
  /\ Refused(op[o].target)
  /\ zone' = [Failed(zone, FALSE, "owner-unsafe") EXCEPT !.stale = op[o].target]
  /\ Settle(o, "error")
  /\ UNCHANGED gen

-----------------------------------------------------------------------------
(* The start sequence.                                                     *)

\* A prerequisite fails before the zone is reserved.
StartFailsEarly(o) ==
  /\ At(o, "start")
  /\ \E code \in ErrorCodes : CatchStart(o, zone, code)
  /\ UNCHANGED <<gen, proc, epoch>>

\* Mutant: a zone that another Gateway holds can be reserved.
AlwaysFree == TRUE

ZoneIsFree == \A p \in Ops : epoch[p] \in {"none", "retired"}

\* beginGatewayEpoch, and the creation of the VM under its containment.
ReserveZone(o) ==
  /\ At(o, "start") /\ ZoneIsFree
  /\ epoch' = [epoch EXCEPT ![o] = "seeded"]
  /\ proc' = [proc EXCEPT ![o] = "creating"]
  /\ op' = [op EXCEPT ![o].stage = "create",
                      ![o].cont = CASE ~op[o].timed -> "none"
                                    [] op[o].timed /\ op[o].expired -> "closing"
                                    [] OTHER -> "armed"]
  /\ UNCHANGED <<zone, gen, queue>>

ReserveFails(o) ==
  /\ At(o, "start") /\ ~ZoneIsFree
  /\ CatchStart(o, zone, "other")
  /\ UNCHANGED <<gen, proc, epoch>>

Created(o) ==
  /\ At(o, "create") /\ proc[o] = "creating"
  /\ proc' = [proc EXCEPT ![o] = "up"]
  /\ IF op[o].cont = "closing"
     THEN UNCHANGED <<op, queue, epoch>>          \* the containment closes it
     ELSE Goto(o, "boot") /\ epoch' = [epoch EXCEPT ![o] = "admitting"]
  /\ UNCHANGED <<zone, gen>>

\* A creation that fails under containment makes the containment fail too.
CreateFails(o) ==
  /\ At(o, "create") /\ proc[o] = "creating"
  /\ proc' = [proc EXCEPT ![o] = "down"]
  /\ IF op[o].cont = "closing"
     THEN /\ zone' = Failed(zone, FALSE, "owner-unsafe")
          /\ queue' = Unlocked(o)
          /\ op' = [op EXCEPT ![o].stage = "done", ![o].cont = "done"]
          /\ UNCHANGED epoch
     ELSE /\ epoch' = [epoch EXCEPT ![o] = "retired"]
          /\ CatchStart(o, zone, "other")
  /\ UNCHANGED gen

\* Mutant: a start that finishes after its deadline is published.
PublishAnyway(o) ==
  /\ At(o, "boot") /\ proc[o] = "up"
  /\ zone' = [zone EXCEPT !.gateway = o, !.kind = "running", !.lastError = "none"]
  /\ Settle(o, "ok")
  /\ UNCHANGED <<gen, proc, epoch>>

\* The Gateway is ready; a start of an old generation is closed.
Booted(o) ==
  /\ At(o, "boot") /\ proc[o] = "up"
  /\ IF StaleGeneration(o)
     THEN GotoTarget(o, "close-started", o) /\ UNCHANGED zone
     ELSE /\ zone' = [zone EXCEPT !.gateway = o, !.kind = "running", !.lastError = "none"]
          /\ Settle(o, "ok")
  /\ UNCHANGED <<gen, proc, epoch>>

BootFails(o) ==
  /\ At(o, "boot")
  /\ GotoTarget(o, "unboot", o)
  /\ UNCHANGED <<zone, gen, proc, epoch>>

\* The start sequence destroys the VM it cannot boot; the epoch retires before
\* the files of the zone are deleted and the start rejects.
Unbooted(o) ==
  /\ At(o, "unboot")
  /\ Destroyed(o)
  /\ Goto(o, "clean-up")
  /\ UNCHANGED <<zone, gen>>

UnbootRefused(o) ==
  /\ At(o, "unboot")
  /\ Refused(o)
  /\ CatchStart(o, zone, "other")
  /\ UNCHANGED gen

CleanedUp(o) ==
  /\ At(o, "clean-up")
  /\ CatchStart(o, zone, "other")
  /\ UNCHANGED <<gen, proc, epoch>>

\* closeGateway of a start of an old generation.  The epoch retires inside it;
\* the zone is failed some awaits later, whatever a successor made of it meanwhile.
StartedClosed(o) ==
  /\ At(o, "close-started")
  /\ Destroyed(o)
  /\ Goto(o, "record-closure")
  /\ UNCHANGED <<zone, gen>>

ClosureRecorded(o) ==
  /\ At(o, "record-closure")
  /\ zone' = Failed(zone, TRUE, "other")
  /\ Settle(o, "error")
  /\ UNCHANGED <<gen, proc, epoch>>

StartedCloseFails(o) ==
  /\ At(o, "close-started")
  /\ Refused(o)
  /\ zone' = Failed(zone, TRUE, "other")
  /\ Settle(o, "error")
  /\ UNCHANGED gen

-----------------------------------------------------------------------------
(* Deadlines.                                                              *)

\* withLifecycleTimeout: the caller is answered, and the VM creation contained.
Timeout(o) ==
  /\ op[o].timed /\ ~op[o].expired /\ op[o].stage \notin {"idle", "refresh", "queued", "done"}
  /\ gen' = gen + 1
  /\ op' = [op EXCEPT ![o].expired = TRUE, ![o].result = "timeout",
                      ![o].cont = IF @ = "armed" THEN "closing" ELSE @]
  /\ UNCHANGED <<zone, queue, proc, epoch>>

\* Mutant: the containment keeps the lock.
ContainedLocked(o) ==
  /\ op[o].cont = "closing" /\ proc[o] # "creating"
  /\ proc' = [proc EXCEPT ![o] = "down"]
  /\ IF At(o, "create")
     THEN /\ epoch' = [epoch EXCEPT ![o] = "retired"]
          /\ zone' = [Failed(zone, TRUE, "other") EXCEPT !.gateway = None]
          /\ op' = [op EXCEPT ![o].cont = "done", ![o].stage = "done"]
     ELSE op' = [op EXCEPT ![o].cont = "done"] /\ UNCHANGED <<zone, epoch>>
  /\ UNCHANGED <<gen, queue>>

\* The containment has closed the VM and gives the lock up.  A start that
\* waited for it abandons its seed and fails; one that is booting finds out later.
Contained(o) ==
  /\ op[o].cont = "closing" /\ proc[o] # "creating"
  /\ proc' = [proc EXCEPT ![o] = "down"]
  /\ queue' = Unlocked(o)
  /\ IF At(o, "create")
     THEN /\ epoch' = [epoch EXCEPT ![o] = "retired"]
          /\ zone' = IF zone.gateway = None /\ OwnerUnsafe(zone) THEN zone
                     ELSE [Failed(zone, TRUE, "other") EXCEPT !.gateway = None]
          /\ op' = [op EXCEPT ![o].cont = "done", ![o].stage = "done"]
     ELSE op' = [op EXCEPT ![o].cont = "done"] /\ UNCHANGED <<zone, epoch>>
  /\ UNCHANGED gen

\* The raw close fails: nobody may start a successor.
ContainmentFails(o) ==
  /\ op[o].cont = "closing" /\ proc[o] # "creating"
  /\ queue' = Unlocked(o)
  /\ zone' = Failed(zone, FALSE, "owner-unsafe")
  /\ op' = [op EXCEPT ![o].cont = "done", ![o].stage = IF @ = "create" THEN "done" ELSE @]
  /\ UNCHANGED <<gen, proc, epoch>>

VmDies(o) ==
  /\ VmsDie /\ proc[o] = "up" /\ epoch[o] = "admitting"
  /\ proc' = [proc EXCEPT ![o] = "down"]
  /\ UNCHANGED <<zone, gen, queue, op, epoch>>

-----------------------------------------------------------------------------
Progress(o) ==
  \/ RefreshReady(o) \/ RefreshFails(o) \/ RefreshAborted(o)
  \/ Begin(o) \/ PreflightFails(o) \/ Preflighted(o)
  \/ StopFails(o) \/ StopSucceeds(o) \/ StaleClosed(o) \/ StaleCloseFails(o)
  \/ StartFailsEarly(o) \/ ReserveZone(o) \/ ReserveFails(o)
  \/ Booted(o) \/ BootFails(o) \/ Unbooted(o) \/ UnbootRefused(o) \/ CleanedUp(o)
  \/ StartedClosed(o) \/ ClosureRecorded(o) \/ StartedCloseFails(o)

Creation(o) == Created(o) \/ CreateFails(o)
Containment(o) == Contained(o) \/ ContainmentFails(o)

Next ==
  \/ \E o \in Ops : \/ \E kind \in Kinds : Call(o, kind)
                    \/ Recover(o) \/ Progress(o) \/ Creation(o) \/ Containment(o)
                    \/ Timeout(o) \/ VmDies(o)
  \/ Observe

Spec == Init /\ [][Next]_vars

-----------------------------------------------------------------------------
(* Properties.                                                             *)

Stages ==
  {"idle", "refresh", "queued", "preflight", "destroy", "close-stale", "start", "create",
   "boot", "unboot", "clean-up", "close-started", "record-closure",
   "done"}

\* The variables have their types, and a zone is running with a handle.
TypeOK ==
  /\ zone.gateway \in Ops \cup {None} /\ zone.stale \in Ops \cup {None}
  /\ zone.kind \in {"stopped", "starting", "running", "stopping", "restarting", "failed"}
  /\ zone.code \in ErrorCodes \cup {"none", "owner-unsafe"}
  /\ zone.eligible \in BOOLEAN /\ zone.lastError \in ErrorCodes \cup {"none"}
  /\ zone.kind = "running" => zone.gateway # None
  /\ gen \in Nat /\ queue \in Seq(Ops)
  /\ \A o \in Ops :
       /\ op[o].stage \in Stages
       /\ op[o].cont \in {"none", "armed", "closing", "done"}
       /\ op[o].result \in {"pending", "ok", "error", "timeout"}
       /\ proc[o] \in {"none", "creating", "up", "down"}
       /\ epoch[o] \in {"none", "seeded", "admitting", "unsafe", "retired"}

\* Two Gateway VMs of a zone never exist side by side, whatever the operations
\* that overlap after a deadline, the starts that fail and the handles that are lost.
OneGatewayProcess ==
  \A a, b \in Ops : proc[a] \in {"creating", "up"} /\ proc[b] \in {"creating", "up"} => a = b

\* A zone reported as running has a Gateway nobody has begun to destroy, and
\* every other Gateway it ever had is proven gone.
RunningGatewayServesAlone ==
  zone.kind = "running" =>
    /\ epoch[zone.gateway] = "admitting"
    /\ \A o \in Ops \ {zone.gateway} : epoch[o] \in {"none", "retired"}

\* A start whose caller was told that it timed out is never published as the
\* Gateway of the zone, however late its VM comes up.
ExpiredStartIsNotPublished ==
  \A o \in Ops : op[o].expired => zone.gateway # o

\* Every call is answered: with or without a deadline, behind operations that
\* time out and starts that fail, the lock is obtained.  While a call is
\* unanswered a step of some operation can be taken, and each takes finitely many.
NoCallIsStuck ==
  (\E o \in Ops : op[o].kind # "none" /\ op[o].result = "pending") =>
    \E o \in Ops : ENABLED (Progress(o) \/ Containment(o) \/ Creation(o) \/ Timeout(o))

\* The zone has one Gateway at most, and its state says which.
ZoneIsServedOnce == TypeOK /\ OneGatewayProcess /\ RunningGatewayServesAlone
=============================================================================
