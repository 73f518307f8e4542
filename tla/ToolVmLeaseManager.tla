-------------------------- MODULE ToolVmLeaseManager ------------------------
(***************************************************************************)
(* The Tool VM lease manager (controller/leases/lease-manager.ts) with the *)
(* destruction runtime under it (tool-vm-lease-authority-runtime.ts), the  *)
(* TCP slot pool and the per-agent operation lock, composed with the       *)
(* Gateway ownership of GatewayOwnership.                                  *)
(*                                                                         *)
(* The controller is one event loop: a step of this module is what runs    *)
(* between two awaits.  op[a] is the operation that holds the lock of      *)
(* agent a, at the await it has reached; a leaf in destruction makes       *)
(* progress of its own, since a release gives the lock back once access is *)
(* fenced and leaves the cleanup running.                                  *)
(*                                                                         *)
(* Abstractions.  Time is left out: an idle lease may have expired or not, *)
(* a gap of observation may end or not.  The uses of a leaf are one value, *)
(* the worst of them.  The authority's parent is sealed in the tick in     *)
(* which the Gateway is, so gateway.state stands for both.  A call to the  *)
(* VM adapter, the record store or ps settles or fails: either may happen. *)
(***************************************************************************)
EXTENDS Naturals

CONSTANTS
  Agents,      \* agent ids of the zone
  Leaves,      \* leaf generations, each used once, in this order
  NoLeaf,      \* no leaf
  MaxEpochs,   \* bound of the number of Gateway epochs
  PoolSize     \* TCP slots of the controller

ASSUME ManagerAssumption ==
  /\ NoLeaf \notin Leaves \cup Agents
  /\ Leaves \subseteq Nat
  /\ MaxEpochs \in Nat \ {0}
  /\ PoolSize \in Nat

VARIABLES
  epoch, gateway, lifecycle, gatewayVm,  \* as in GatewayOwnership
  lease,       \* per leaf: authority, retained resource and cleanup context
  op,          \* per agent: the operation that holds its lock
  pool,        \* the TCP pool
  sweep        \* destroyGatewayOwnedLeases

ownershipVars == <<epoch, gateway, lifecycle, gatewayVm>>
vars == <<epoch, gateway, lifecycle, gatewayVm, lease, op, pool, sweep>>

\* A VM counts as running from its attachment until its access is fenced.
ToolVmOf ==
  [g \in Leaves |-> IF lease[g].vm \in {"none", "gone"} THEN lease[g].vm ELSE "running"]

Ownership == INSTANCE GatewayOwnership WITH toolVm <- ToolVmOf

-----------------------------------------------------------------------------
(* State.                                                                  *)

Slots == 0..(PoolSize - 1)

LeafKinds == {"absent", "provisioning", "current", "quarantined", "destroying",
              "owner-unsafe", "retiring", "destroyed"}

\* target: the recorded process identity; record: the durable runtime record;
\* committed: the lease was handed out; cleaning: a cleanup is in flight.
AbsentLease ==
  [kind |-> "absent", agentId |-> NoLeaf, slot |-> PoolSize, vm |-> "none",
   target |-> FALSE, record |-> FALSE, ssh |-> FALSE, committed |-> FALSE,
   work |-> "none", cleaning |-> FALSE]

Lease ==
  [kind : LeafKinds, agentId : Agents \cup {NoLeaf}, slot : 0..PoolSize,
   vm : {"none", "created", "running", "exited", "gone"},
   target : BOOLEAN, record : BOOLEAN, ssh : BOOLEAN, committed : BOOLEAN,
   work : {"none", "running", "gap", "ambiguous"}, cleaning : BOOLEAN]

IdleOp == [stage |-> "idle", leaf |-> NoLeaf, pred |-> NoLeaf]

CreationStages == {"create", "start", "record", "write", "barrier", "ssh"}

\* leaf: the leaf the operation works on; pred: the leaf whose access fence it
\* has to see settled.
Operation ==
  [stage : CreationStages \cup {"idle", "reuse-probe", "evict-probe", "fallback",
                                "cleanup", "settle", "sweep"},
   leaf : Leaves \cup {NoLeaf}, pred : Leaves \cup {NoLeaf}]

\* todo: the agents of the cohort that are not done with; snapshot: per agent, the
\* leaves that are left of the list its task goes through.
Sweep ==
  [phase : {"none", "running", "returned", "failed"}, todo : SUBSET Agents,
   failed : BOOLEAN, snapshot : [Agents -> SUBSET Leaves]]

NoSnapshots == [a \in Agents |-> {}]
NoSweep == [phase |-> "none", todo |-> {}, failed |-> FALSE, snapshot |-> NoSnapshots]

Idle(a) == op[a].stage = "idle"
Live(g) == lease[g].kind \notin {"absent", "destroyed"}
OwnedLeaves(a) == {g \in Leaves : Live(g) /\ lease[g].agentId = a}
Oldest(g, leaves) == g \in leaves /\ \A h \in leaves : g <= h
InFlight(l, g) == l[g].kind = "destroying" \/ l[g].cleaning
IsCurrent(a, g) == lease[g].agentId = a /\ lease[g].kind = "current"

\* The agent index of the authority names a leaf of the agent.
AgentIndexed(l, a) ==
  \E g \in Leaves : l[g].agentId = a /\ l[g].kind \in {"provisioning", "current", "quarantined"}

FreeSlots == Slots \ (pool.allocated \cup pool.quarantined)
LowestFreeSlot == CHOOSE s \in FreeSlots : \A t \in FreeSlots : s <= t
Allocate(p, slot) == [p EXCEPT !.allocated = @ \cup {slot}]
QuarantineSlot(p, slot) ==
  [allocated |-> p.allocated \ {slot}, quarantined |-> p.quarantined \cup {slot}]
ReleaseSlot(p, slot) ==
  [allocated |-> p.allocated \ {slot}, quarantined |-> p.quarantined \ {slot}]

Init ==
  /\ lease = [g \in Leaves |-> AbsentLease]
  /\ Ownership!Init
  /\ op = [a \in Agents |-> IdleOp]
  /\ pool = [allocated |-> {}, quarantined |-> {}]
  /\ sweep = NoSweep

-----------------------------------------------------------------------------
(* Destruction of a leaf.                                                  *)

\* Work that is not over when its leaf is given up has an unknown outcome.
RolloverWork(work) == IF work \in {"running", "gap"} THEN "ambiguous" ELSE work

\* startExactDestruction: a destruction in flight is joined, a retiring leaf
\* goes on with its cleanup, and any other leaf gets a fence first.
RetiredLeaf(l, g) ==
  CASE InFlight(l, g) -> l
    [] ~InFlight(l, g) /\ l[g].kind = "retiring" -> [l EXCEPT ![g].cleaning = TRUE]
    [] OTHER -> [l EXCEPT ![g].kind = "destroying", ![g].work = RolloverWork(@)]

\* Mutant: the coordinator is told of the destruction only once it is fenced.
RetiredMembershipLater(m, g) == m

\* fenceToolVmAccess up to its first await.
RetiredMembership(m, g) ==
  IF m.children[g].state \in {"provisional", "current", "owner-unsafe"}
    THEN Ownership!BeginDestroying(m, g) ELSE m

\* Mutant: the fence does not wait for the termination.
FenceSucceedsUnterminated(g) ==
  /\ lease[g].kind = "destroying"
  /\ lease[g].vm = "running" => lease[g].target
  /\ lease' = [lease EXCEPT ![g].kind = "retiring", ![g].cleaning = TRUE]
  /\ gateway' = IF Ownership!Admitted(gateway, g)
                  THEN Ownership!RecordAccessFenced(gateway, g) ELSE gateway
  /\ UNCHANGED <<epoch, lifecycle, gatewayVm, op, pool, sweep>>

\* The fence has proved that no process of the leaf is left: there was no VM,
\* or it has no process, or the recorded process was terminated.
FenceSucceeds(g) ==
  /\ lease[g].kind = "destroying"
  /\ lease[g].vm = "running" => lease[g].target
  /\ lease' = [lease EXCEPT ![g].kind = "retiring", ![g].cleaning = TRUE,
                            ![g].vm = IF @ = "none" THEN "none" ELSE "gone"]
  /\ gateway' = IF Ownership!Admitted(gateway, g)
                  THEN Ownership!RecordAccessFenced(gateway, g) ELSE gateway
  /\ UNCHANGED <<epoch, lifecycle, gatewayVm, op, pool, sweep>>

\* Mutant: the slot of a leaf whose process may live on is given back.
FenceFailsReleasingSlot(g) ==
  /\ lease[g].kind = "destroying"
  /\ lease[g].target \/ lease[g].vm = "running"
  /\ lease' = [lease EXCEPT ![g].kind = "owner-unsafe"]
  /\ gateway' = Ownership!RecordUnavailable(gateway, g)
  /\ pool' = ReleaseSlot(pool, lease[g].slot)
  /\ UNCHANGED <<epoch, lifecycle, gatewayVm, op, sweep>>

\* Mutant: the coordinator is not told that the leaf is unavailable.
FenceFailsUnreported(g) ==
  /\ lease[g].kind = "destroying"
  /\ lease[g].target \/ lease[g].vm = "running"
  /\ lease' = [lease EXCEPT ![g].kind = "owner-unsafe"]
  /\ pool' = QuarantineSlot(pool, lease[g].slot)
  /\ UNCHANGED <<ownershipVars, op, sweep>>

\* The termination fails, or there is a process and nothing recorded of it.
FenceFails(g) ==
  /\ lease[g].kind = "destroying"
  /\ lease[g].target \/ lease[g].vm = "running"
  /\ lease' = [lease EXCEPT ![g].kind = "owner-unsafe"]
  /\ gateway' = Ownership!RecordUnavailable(gateway, g)
  /\ pool' = QuarantineSlot(pool, lease[g].slot)
  /\ UNCHANGED <<epoch, lifecycle, gatewayVm, op, sweep>>

\* completeToolVmResourceCleanup, the tombstone and the release of the slot.
CleanupSucceeds(g) ==
  /\ lease[g].cleaning
  /\ lease' = [lease EXCEPT ![g].kind = "destroyed", ![g].cleaning = FALSE,
                            ![g].ssh = FALSE, ![g].record = FALSE]
  /\ gateway' = IF gateway.children[g].state = "retiring"
                  THEN Ownership!RecordDestroyed(gateway, g) ELSE gateway
  /\ pool' = ReleaseSlot(pool, lease[g].slot)
  /\ UNCHANGED <<epoch, lifecycle, gatewayVm, op, sweep>>

\* A step of the cleanup throws, before or after the SSH access is closed.
CleanupFails(g) ==
  /\ lease[g].cleaning
  /\ \E closed \in BOOLEAN :
       lease' = [lease EXCEPT ![g].cleaning = FALSE, ![g].ssh = @ /\ ~closed]
  /\ pool' = QuarantineSlot(pool, lease[g].slot)
  /\ UNCHANGED <<ownershipVars, op, sweep>>

-----------------------------------------------------------------------------
(* Creation: createLease, reacquireLease, createLeaseWhileLocked and       *)
(* createReplacementLeaseWhileLocked.                                      *)

\* Requests name an epoch that was attached.
Requested == gateway.state \in {"admitting", "sealed", "owner-unsafe"}

\* The bound of the leaves: when all are used, the pool is taken to be used up.
OutOfLeaves == \A g \in Leaves : lease[g].kind # "absent"

\* The authority has a new leaf g for agent a, with the lowest free slot.
LeafAppears(l, a, g, kind, stage, h) ==
  /\ Oldest(g, {n \in Leaves : l[n].kind = "absent"})
  /\ lease' = [l EXCEPT ![g] = [AbsentLease EXCEPT !.kind = kind, !.agentId = a,
                                                  !.slot = LowestFreeSlot]]
  /\ pool' = Allocate(pool, LowestFreeSlot)
  /\ op' = [op EXCEPT ![a] = [stage |-> stage, leaf |-> g, pred |-> h]]

\* Slot, beginProvisioning and admission, in one tick, in the state l and m that
\* the retirement of the predecessor h (or NoLeaf) has left.  Refused by the
\* pool or the authority, nothing is kept; refused by the membership, the leaf
\* the authority has is destroyed again.
AdmitLease(l, m, a, h) ==
  IF FreeSlots = {} \/ OutOfLeaves \/ m.state # "admitting" \/ AgentIndexed(l, a)
    THEN /\ lease' = l
         /\ gateway' = m
         /\ op' = IF h = NoLeaf THEN op
                  ELSE [op EXCEPT ![a] = [stage |-> "settle", leaf |-> NoLeaf, pred |-> h]]
         /\ UNCHANGED pool
    ELSE \E g \in Leaves :
           \/ /\ Ownership!CanAdmitProvisionalToolVm(m, a, g)
              /\ gateway' = Ownership!AdmitProvisionalToolVm(m, a, g)
              /\ LeafAppears(l, a, g, "provisioning", "create", h)
           \/ /\ ~Ownership!CanAdmitProvisionalToolVm(m, a, g)
              /\ gateway' = m
              /\ LeafAppears(l, a, g, "destroying", "cleanup", h)

CreateLease(a) ==
  /\ Requested
  /\ Idle(a)
  /\ ~\E g \in Leaves : IsCurrent(a, g)
  /\ AdmitLease(lease, gateway, a, NoLeaf)
  /\ UNCHANGED <<epoch, lifecycle, gatewayVm, sweep>>

\* The current lease suits the request: it is returned if its VM answers.
ReuseLease(a, g) ==
  /\ gateway.state = "admitting"
  /\ Idle(a)
  /\ IsCurrent(a, g)
  /\ op' = [op EXCEPT ![a] = [stage |-> "reuse-probe", leaf |-> g, pred |-> NoLeaf]]
  /\ UNCHANGED <<ownershipVars, lease, pool, sweep>>

\* The current lease g is given up for a successor: it has expired, belongs to
\* another profile, is reacquired, or its VM does not answer.
ReplaceLease(a, g) ==
  /\ Requested
  /\ \/ Idle(a) /\ IsCurrent(a, g)
     \/ op[a].stage = "reuse-probe" /\ op[a].leaf = g
  /\ AdmitLease(RetiredLeaf(lease, g), RetiredMembership(gateway, g), a, g)
  /\ UNCHANGED <<epoch, lifecycle, gatewayVm, sweep>>

\* renewLease and reapDeadIdleLeases ask the VM first; only the reaper looks at
\* the uses, and it does so before the await.
ProbeLease(a, g) ==
  /\ gateway.state = "admitting" \/ lease[g].work = "none"
  /\ Idle(a)
  /\ IsCurrent(a, g)
  /\ op' = [op EXCEPT ![a] = [stage |-> "evict-probe", leaf |-> g, pred |-> NoLeaf]]
  /\ UNCHANGED <<ownershipVars, lease, pool, sweep>>

\* The VM answers.  touchLease renews the lease, or throws if it was quarantined
\* in the meantime.
ProbeAnswered(a) ==
  /\ op[a].stage \in {"reuse-probe", "evict-probe"}
  /\ lease[op[a].leaf].vm = "running"
  /\ op' = [op EXCEPT ![a] = IdleOp]
  /\ UNCHANGED <<ownershipVars, lease, pool, sweep>>

\* Retire leaf g and hold the lock of a until its access fence has settled.
RetireUntilFenced(a, g) ==
  /\ lease' = RetiredLeaf(lease, g)
  /\ gateway' = RetiredMembership(gateway, g)
  /\ op' = [op EXCEPT ![a] = [stage |-> "settle", leaf |-> NoLeaf, pred |-> g]]
  /\ UNCHANGED <<epoch, lifecycle, gatewayVm, pool, sweep>>

\* evictLease after a probe that was not answered, whatever started meanwhile.
EvictLease(a) ==
  /\ op[a].stage = "evict-probe"
  /\ RetireUntilFenced(a, op[a].leaf)

\* releaseLease, and the eviction of an expired lease, which is idle.
ReleaseLease(a, g) ==
  /\ Idle(a)
  /\ g \in OwnedLeaves(a)
  /\ lease[g].committed
  /\ lease[g].work = "none" \/ InFlight(lease, g)
  /\ RetireUntilFenced(a, g)

\* The creation of leaf g moves to another await.
CreationMoves(a, stage, changed) ==
  /\ lease' = [lease EXCEPT ![op[a].leaf] = changed]
  /\ op' = [op EXCEPT ![a].stage = stage]
  /\ UNCHANGED <<epoch, lifecycle, gatewayVm, pool, sweep>>

VmCreated(a) ==
  LET g == op[a].leaf
  IN /\ op[a].stage = "create"
     /\ CreationMoves(a, "start", [lease[g] EXCEPT !.vm = "created"])
     /\ gateway' = Ownership!AttachToolVm(gateway, g)

VmStarted(a) ==
  LET g == op[a].leaf
  IN /\ op[a].stage = "start"
     /\ CreationMoves(a, "record", [lease[g] EXCEPT !.vm = "running"])
     /\ UNCHANGED gateway

\* buildToolVmRuntimeRecord reads the identity of the process.
RecordBuilt(a) ==
  LET g == op[a].leaf
  IN /\ op[a].stage = "record"
     /\ lease[g].vm = "running"
     /\ CreationMoves(a, "write", [lease[g] EXCEPT !.target = TRUE])
     /\ UNCHANGED gateway

\* Mutant: SSH access is enabled before the record of the process is written.
RecordWrittenLater(a) ==
  LET g == op[a].leaf
  IN /\ op[a].stage = "write"
     /\ CreationMoves(a, IF op[a].pred = NoLeaf THEN "ssh" ELSE "barrier", lease[g])
     /\ UNCHANGED gateway

RecordWritten(a) ==
  LET g == op[a].leaf
  IN /\ op[a].stage = "write"
     /\ CreationMoves(a, IF op[a].pred = NoLeaf THEN "ssh" ELSE "barrier",
                      [lease[g] EXCEPT !.record = TRUE])
     /\ UNCHANGED gateway

\* Mutant: the successor does not wait for the fence of its predecessor.
BarrierIgnored(a) ==
  /\ op[a].stage = "barrier"
  /\ CreationMoves(a, "ssh", lease[op[a].leaf])
  /\ UNCHANGED gateway

\* The admission barrier: the access of the predecessor is fenced.
BarrierPassed(a) ==
  /\ op[a].stage = "barrier"
  /\ lease[op[a].pred].kind \in {"retiring", "destroyed"}
  /\ CreationMoves(a, "ssh", lease[op[a].leaf])
  /\ UNCHANGED gateway

\* The catch block of a creation, in which leaf g has become l[g].  A process
\* without a recorded identity is recorded first, so that it can be fenced.
CreationAborts(a, l) ==
  LET g == op[a].leaf
  IN /\ IF l[g].vm = "running" /\ ~l[g].target
          THEN /\ lease' = l
               /\ op' = [op EXCEPT ![a].stage = "fallback"]
               /\ UNCHANGED gateway
          ELSE /\ lease' = RetiredLeaf(l, g)
               /\ gateway' = RetiredMembership(gateway, g)
               /\ op' = [op EXCEPT ![a].stage = "cleanup"]
     /\ UNCHANGED <<epoch, lifecycle, gatewayVm, pool, sweep>>

\* vm.start() throws, with or without a process left behind.
VmStartFails(a) ==
  /\ op[a].stage = "start"
  /\ \E left \in {"created", "running"} :
       CreationAborts(a, [lease EXCEPT ![op[a].leaf].vm = left])

\* Any other step of the creation throws.
CreationFails(a) ==
  /\ op[a].stage \in {"create", "record", "write", "ssh"}
  /\ CreationAborts(a, lease)

\* The fence of the predecessor fails, and the admission barrier with it.
BarrierRejected(a) ==
  /\ op[a].stage = "barrier"
  /\ lease[op[a].pred].kind = "owner-unsafe"
  /\ CreationAborts(a, lease)

\* SSH access is enabled, and in the same tick the lease is committed, or the
\* creation fails with the access still open.
SshEnabled(a) ==
  LET g == op[a].leaf
  IN /\ op[a].stage = "ssh"
     /\ IF Ownership!CanCommitCurrent(gateway, g)
          THEN /\ lease' = [lease EXCEPT ![g].ssh = TRUE, ![g].kind = "current",
                                         ![g].committed = TRUE]
               /\ gateway' = Ownership!CommitCurrent(gateway, g)
               /\ op' = [op EXCEPT ![a] = IdleOp]
               /\ UNCHANGED <<epoch, lifecycle, gatewayVm, pool, sweep>>
          ELSE CreationAborts(a, [lease EXCEPT ![g].ssh = TRUE])

FallbackRecorded(a) ==
  LET g == op[a].leaf
  IN /\ op[a].stage = "fallback"
     /\ lease[g].vm = "running"
     /\ CreationAborts(a, [lease EXCEPT ![g].target = TRUE, ![g].record = TRUE])

\* The fallback record fails too: the leaf is left as it is, provisioning.
FallbackFails(a) ==
  /\ op[a].stage = "fallback"
  /\ op' = [op EXCEPT ![a].stage = "settle"]
  /\ UNCHANGED <<ownershipVars, lease, pool, sweep>>

\* Mutant: a failed creation holds the lock until its leaf is gone.
OperationSettlesOnSuccess(a) ==
  /\ op[a].stage \in {"settle", "cleanup"}
  /\ op[a].stage = "cleanup" => ~Live(op[a].leaf)
  /\ op[a].pred # NoLeaf => lease[op[a].pred].kind # "destroying"
  /\ op' = [op EXCEPT ![a] = IdleOp]
  /\ UNCHANGED <<ownershipVars, lease, pool, sweep>>

\* The lock is given back: the destruction of a failed creation has settled, and
\* so has the fence of the retired leaf.
OperationSettles(a) ==
  /\ op[a].stage \in {"settle", "cleanup"}
  /\ op[a].stage = "cleanup" => ~InFlight(lease, op[a].leaf)
  /\ op[a].pred # NoLeaf => lease[op[a].pred].kind # "destroying"
  /\ op' = [op EXCEPT ![a] = IdleOp]
  /\ UNCHANGED <<ownershipVars, lease, pool, sweep>>

-----------------------------------------------------------------------------
(* destroyGatewayOwnedLeases and the lifecycle steps around it.  The agents *)
(* of a cohort are swept side by side: the code runs up to four at a time. *)

Cohort == {a \in Agents : ~Idle(a) \/ OwnedLeaves(a) # {}}

\* destroyLive seals the Gateway and the authority, and forms the first cohort.
DestroyLive ==
  /\ UNCHANGED <<lease, op, pool>>
  /\ Ownership!DestroyLive
  /\ sweep' = [NoSweep EXCEPT !.phase = "running", !.todo = Cohort]

\* With the lock of its agent, the sweep lists the leaves, destroys them one after
\* the other, the oldest first, and lists again until there is none.
SweepLists(a) ==
  IF sweep.snapshot[a] = {} THEN OwnedLeaves(a) ELSE sweep.snapshot[a]

SweepGoesOn(a) ==
  /\ sweep.phase = "running" /\ a \in sweep.todo
  /\ \/ Idle(a)
     \/ op[a].stage = "sweep" /\ ~Live(op[a].leaf)

SweepLeaf(a, g) ==
  /\ SweepGoesOn(a)
  /\ Oldest(g, SweepLists(a))
  /\ g \in OwnedLeaves(a)
  /\ lease' = RetiredLeaf(lease, g)
  /\ gateway' = RetiredMembership(gateway, g)
  /\ op' = [op EXCEPT ![a] = [stage |-> "sweep", leaf |-> g, pred |-> NoLeaf]]
  /\ sweep' = [sweep EXCEPT !.snapshot[a] = SweepLists(a) \ {g}]
  /\ UNCHANGED <<epoch, lifecycle, gatewayVm, pool>>

AgentSwept(a) ==
  /\ SweepGoesOn(a)
  /\ SweepLists(a) = {}
  /\ op' = [op EXCEPT ![a] = IdleOp]
  /\ sweep' = [sweep EXCEPT !.todo = @ \ {a}]
  /\ UNCHANGED <<ownershipVars, lease, pool>>

\* The sweep gives up on the agent.
SweepGivesUp(a) ==
  /\ op' = [op EXCEPT ![a] = IdleOp]
  /\ sweep' = [sweep EXCEPT !.todo = @ \ {a}, !.failed = TRUE, !.snapshot[a] = {}]
  /\ UNCHANGED <<ownershipVars, lease>>

\* A destruction fails.
AgentNotSwept(a) ==
  LET g == op[a].leaf
  IN /\ op[a].stage = "sweep"
     /\ Live(g)
     /\ ~InFlight(lease, g)
     /\ pool' = QuarantineSlot(pool, lease[g].slot)
     /\ SweepGivesUp(a)

\* The next leaf of the list was in background cleanup and is gone by now:
\* destroyProvisionalAuthority finds no cleanup context and throws.
ListedLeafGone(a) ==
  /\ SweepGoesOn(a)
  /\ \E g \in sweep.snapshot[a] : Oldest(g, sweep.snapshot[a]) /\ ~Live(g)
  /\ SweepGivesUp(a)
  /\ UNCHANGED pool

\* Mutant: one cohort is all there is.
FirstCohortSettled ==
  /\ sweep.phase = "running" /\ sweep.todo = {}
  /\ sweep' = [sweep EXCEPT !.phase = "returned"]
  /\ UNCHANGED <<ownershipVars, lease, op, pool>>

\* Mutant: what a cohort could not destroy is tried again.
CohortSettledRetrying ==
  /\ sweep.phase = "running" /\ sweep.todo = {}
  /\ sweep' = IF Cohort = {} THEN [sweep EXCEPT !.phase = "returned"]
              ELSE [sweep EXCEPT !.todo = Cohort]
  /\ UNCHANGED <<ownershipVars, lease, op, pool>>

\* The cohort has settled.  Without a failure the next one is formed, until
\* there is none; a cohort formed after the deadline is aborted.
CohortSettled ==
  /\ sweep.phase = "running" /\ sweep.todo = {}
  /\ sweep' = IF sweep.failed \/ (Cohort # {} /\ lifecycle.expired)
                THEN [sweep EXCEPT !.phase = "failed"]
              ELSE IF Cohort = {} THEN [sweep EXCEPT !.phase = "returned"]
              ELSE [sweep EXCEPT !.todo = Cohort]
  /\ UNCHANGED <<ownershipVars, lease, op, pool>>

\* A Gateway epoch without a lease of its own yet.
BeginGatewayEpoch ==
  /\ UNCHANGED <<lease, op, pool>>
  /\ Ownership!BeginGatewayEpoch
  /\ sweep' = NoSweep

\* The lifecycle steps that wait for the sweep: throwIfExpired is reached only
\* once the sweep has returned or the barrier has settled.
SweepAnswered ==
  \/ sweep.phase = "returned" /\ Ownership!LeasesReturned
  \/ sweep.phase = "failed" /\ Ownership!LeasesFailed
  \/ /\ lifecycle.step = "leases" => sweep.phase = "returned"
     /\ lifecycle.step = "barrier" => Ownership!BarrierFulfilled(gateway)
     /\ Ownership!ExpiredOperationStops

OtherLifecycleStep ==
  \/ Ownership!ContainPendingCreate
  \/ Ownership!AttachGatewayVm
  \/ \E closed \in BOOLEAN : Ownership!CloseLateCreatedVm(closed)
  \/ Ownership!GatewayVmCreationFails
  \/ Ownership!PassBarrier
  \/ Ownership!BarrierRejects
  \/ Ownership!DestroyGatewayVm
  \/ Ownership!GatewayVmDestructionFails
  \/ Ownership!SubtreeTimeout

LifecycleStep ==
  /\ UNCHANGED <<lease, op, pool, sweep>>
  /\ SweepAnswered \/ OtherLifecycleStep

-----------------------------------------------------------------------------
(* The uses of a lease, and the machine under it.                          *)

WorkMoves(g, from, to) ==
  /\ lease[g].kind = "current"
  /\ lease[g].work \in from
  /\ lease' = [lease EXCEPT ![g].work = to]
  /\ UNCHANGED <<ownershipVars, op, pool, sweep>>

StartActiveUse(g) == gateway.state = "admitting" /\ WorkMoves(g, {"none"}, "running")
EndActiveUse(g) == gateway.state = "admitting" /\ WorkMoves(g, {"running", "gap"}, "none")
ResumeActiveUse(g) == gateway.state = "admitting" /\ WorkMoves(g, {"gap"}, "running")
SessionDisconnected(g) == WorkMoves(g, {"running"}, "gap")

\* reapExpiredActiveUses: the leaf is quarantined and stays the agent's leaf.
ExpireObservationGap(g) ==
  /\ lease[g].kind = "current"
  /\ lease[g].work = "gap"
  /\ lease' = [lease EXCEPT ![g].kind = "quarantined", ![g].work = "ambiguous"]
  /\ UNCHANGED <<ownershipVars, op, pool, sweep>>

\* The process of a Tool VM ends by itself.
VmExits(g) ==
  /\ lease[g].vm = "running"
  /\ lease' = [lease EXCEPT ![g].vm = "exited"]
  /\ UNCHANGED <<ownershipVars, op, pool, sweep>>

-----------------------------------------------------------------------------
\* The operation of agent a reaches its next await.
OperationStep(a) ==
  \/ ProbeAnswered(a)
  \/ op[a].stage = "reuse-probe" /\ ReplaceLease(a, op[a].leaf)
  \/ EvictLease(a)
  \/ VmCreated(a)
  \/ VmStarted(a)
  \/ RecordBuilt(a)
  \/ RecordWritten(a)
  \/ BarrierPassed(a)
  \/ VmStartFails(a)
  \/ CreationFails(a)
  \/ BarrierRejected(a)
  \/ SshEnabled(a)
  \/ FallbackRecorded(a)
  \/ FallbackFails(a)
  \/ OperationSettles(a)

RequestStep(a) ==
  \/ CreateLease(a)
  \/ \E g \in Leaves : ReuseLease(a, g)
  \/ \E g \in Leaves : Idle(a) /\ ReplaceLease(a, g)
  \/ \E g \in Leaves : ProbeLease(a, g)
  \/ \E g \in Leaves : ReleaseLease(a, g)

SweepStep(a) ==
  \/ \E g \in Leaves : SweepLeaf(a, g)
  \/ AgentSwept(a)
  \/ AgentNotSwept(a)
  \/ ListedLeafGone(a)

DestructionStep(g) ==
  \/ FenceSucceeds(g)
  \/ FenceFails(g)
  \/ CleanupSucceeds(g)
  \/ CleanupFails(g)

UseStep(g) ==
  \/ StartActiveUse(g)
  \/ EndActiveUse(g)
  \/ ResumeActiveUse(g)
  \/ SessionDisconnected(g)
  \/ ExpireObservationGap(g)
  \/ VmExits(g)

Next ==
  \/ \E a \in Agents : OperationStep(a) \/ RequestStep(a) \/ SweepStep(a)
  \/ \E g \in Leaves : DestructionStep(g) \/ UseStep(g)
  \/ BeginGatewayEpoch
  \/ DestroyLive
  \/ CohortSettled
  \/ LifecycleStep

Spec == Init /\ [][Next]_vars

\* Every call that an operation, a destruction or the sweep awaits settles, and
\* the lock of an agent is handed on in the order of the requests.
FairSpec ==
  /\ Spec
  /\ \A a \in Agents : WF_vars(OperationStep(a)) /\ SF_vars(SweepStep(a))
  /\ \A g \in Leaves : WF_vars(DestructionStep(g))
  /\ WF_vars(CohortSettled)

\* Besides, the Gateway goes on asking for a lease and giving leases back.
RequestingSpec ==
  /\ FairSpec
  /\ \A a \in Agents : /\ SF_vars(CreateLease(a))
                       /\ SF_vars(\E g \in Leaves : ReleaseLease(a, g))

-----------------------------------------------------------------------------
(* Properties.                                                             *)

\* The leases, the operations, the pool and the sweep hold values of their kinds.
TypeOK ==
  /\ lease \in [Leaves -> Lease]
  /\ op \in [Agents -> Operation]
  /\ pool \in [allocated : SUBSET Slots, quarantined : SUBSET Slots]
  /\ sweep \in Sweep

Reachable(g) == lease[g].ssh /\ lease[g].vm = "running"

\* One VM serves an agent, in whatever state a replacement, a failed fence or a
\* failed commit leaves the others: an agent never has two Tool VMs it could reach
\* over SSH, and while a lease serves it no process of another Tool VM of the
\* agent is left, not of a predecessor in retirement, nor of a failed creation.
OneVmServesAgent ==
  \A g, h \in Leaves :
    g # h /\ lease[g].agentId = lease[h].agentId =>
      /\ ~(Reachable(g) /\ Reachable(h))
      /\ lease[g].kind = "current" => lease[h].vm # "running"

\* The slots that are taken are those of the live leaves, one for each: a port is
\* never handed out while an earlier VM may hold it, and none is lost for good
\* when creations, fences and cleanups fail.
SlotsFollowLeaves ==
  LET live == {g \in Leaves : Live(g)}
  IN /\ pool.allocated \cup pool.quarantined = {lease[g].slot : g \in live}
     /\ \A g, h \in live : g # h => lease[g].slot # lease[h].slot

\* A Tool VM that can be reached has a durable record, by which a restarted
\* controller can find its process.
ReachableVmIsRecorded == \A g \in Leaves : Reachable(g) => lease[g].record

StateOfKind(kind) ==
  CASE kind = "provisioning" -> "provisional"
    [] kind = "quarantined" -> "current"
    [] OTHER -> kind

\* The lease authority and the ownership coordinator agree on every child of the
\* epoch between two ticks; a leaf that only the authority knows has no VM.
MembershipAgrees ==
  \A g \in Leaves :
    IF Ownership!Admitted(gateway, g)
      THEN gateway.children[g].state = StateOfKind(lease[g].kind)
      ELSE Live(g) => lease[g].vm = "none"

\* A retired Gateway leaves nothing behind: no leaf, no process, no slot.
RetiredGatewayLeavesNothing ==
  gateway.state = "retired" =>
    /\ \A g \in Leaves : ~Live(g) /\ lease[g].vm \in {"none", "gone"}
    /\ pool.allocated \cup pool.quarantined = {}

\* The lease authority, the coordinator and the slots of the controller tell one
\* story at every await, with every failure, to the end of the Gateway.
RegistriesAgree ==
  TypeOK /\ MembershipAgrees /\ SlotsFollowLeaves /\ RetiredGatewayLeavesNothing

\* The lease manager uses the coordinator as GatewayOwnership allows, so that
\* what is shown there of the Gateway holds of this system.
OwnershipImplemented == Ownership!Spec

\* The lock of an agent is always given back, and the sweep of a sealed Gateway
\* comes to an end with the requests queued for the same locks: replacement,
\* failed creation, fence, cleanup and sweep never wait for each other in a circle.
LocksAreReleased ==
  /\ \A a \in Agents : ~Idle(a) ~> Idle(a)
  /\ sweep.phase = "running" ~> sweep.phase # "running"

\* docs/specs/2026-08-03-tool-vm-retirement-authority: a rotation of the control
\* connection does not poison the later requests of the agent for good.
AgentIsNotPoisoned ==
  \A a \in Agents :
    LET poisoned == \E g \in Leaves : lease[g].agentId = a /\ lease[g].kind = "quarantined"
    IN poisoned ~> ~poisoned
=============================================================================
