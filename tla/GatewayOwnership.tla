-------------------------- MODULE GatewayOwnership --------------------------
(***************************************************************************)
(* Ownership of the VMs of one zone: the Gateway ownership coordinator     *)
(* (controller/vm-ownership/gateway-ownership-coordinator.ts) and the      *)
(* lifecycle authority that seals, empties and destroys a Gateway epoch    *)
(* (gateway-vm-lifecycle-authority.ts, gateway-destruction-budget.ts).     *)
(*                                                                         *)
(* The membership of an epoch is one value, and every method of the        *)
(* coordinator is an operator on it, so that a caller can apply several    *)
(* methods in the tick in which the code applies them.                     *)
(*                                                                         *)
(* The lease manager is the environment of this module: it may call the    *)
(* methods of a child's handle in any order, as long as it reports a fence *)
(* or a destruction only for a Tool VM whose process is gone, and          *)
(* destroyGatewayOwnedLeases may return, fail or hang in any state of the  *)
(* children.  gatewayVm and toolVm are the machines themselves, which no   *)
(* code reads: the properties compare what is recorded with them.          *)
(*                                                                         *)
(* Abstractions.  Identities that a call has to repeat are the ones it was *)
(* given, so a mismatch can only come from a handle of an earlier epoch;   *)
(* such a call is refused and changes nothing.                             *)
(***************************************************************************)
EXTENDS Naturals

CONSTANTS
  Agents,      \* agent ids of the zone
  Leaves,      \* leaf ids, each admitted at most once
  NoLeaf,      \* absent map entry
  MaxEpochs    \* bound of the number of Gateway epochs of the zone

ASSUME OwnershipAssumption ==
  /\ NoLeaf \notin Leaves \cup Agents
  /\ MaxEpochs \in Nat \ {0}

VARIABLES
  epoch,       \* the current Gateway epoch of the zone, 0 before the first
  gateway,     \* currentGatewayByZone: the membership of the current epoch
  lifecycle,   \* the lifecycle authority of the current epoch
  gatewayVm,   \* the Gateway VM of each epoch
  toolVm       \* the Tool VM of each leaf

vars == <<epoch, gateway, lifecycle, gatewayVm, toolVm>>

-----------------------------------------------------------------------------
(* The coordinator.                                                        *)

Epochs == 1..MaxEpochs

GatewayStates == {"seeded", "admitting", "sealed", "owner-unsafe", "retired"}
ChildStates == {"absent", "provisional", "current", "destroying", "retiring",
                "owner-unsafe", "destroyed"}
CompletionStates == {"none", "pending", "complete", "incomplete"}

AbsentChild == [state |-> "absent", agentId |-> NoLeaf, attached |-> FALSE, completion |-> "none"]

Child ==
  [state : ChildStates, agentId : Agents \cup {NoLeaf}, attached : BOOLEAN,
   completion : CompletionStates]

\* barrier[g] is the completion of child g that the seal waits for.
Membership ==
  [state : GatewayStates, children : [Leaves -> Child],
   leafIdByAgentId : [Agents -> Leaves \cup {NoLeaf}],
   barrier : [Leaves -> CompletionStates]]

SeededGateway ==
  [state |-> "seeded", children |-> [g \in Leaves |-> AbsentChild],
   leafIdByAgentId |-> [a \in Agents |-> NoLeaf],
   barrier |-> [g \in Leaves |-> "none"]]

Admitted(m, g) == m.children[g].state # "absent"

\* Mutant: the mapping of the agent is deleted whichever leaf it names.
ClearAgentMapping(m, g) == [m EXCEPT !.leafIdByAgentId[m.children[g].agentId] = NoLeaf]

ClearCurrentLeafMapping(m, g) ==
  LET a == m.children[g].agentId
  IN IF m.leafIdByAgentId[a] = g THEN [m EXCEPT !.leafIdByAgentId[a] = NoLeaf] ELSE m

\* Mutant: an owner-unsafe predecessor no longer blocks its successor.
BlockedByDestroyingPredecessor(m, g) ==
  \E h \in Leaves \ {g} : /\ m.children[h].agentId = m.children[g].agentId
                          /\ m.children[h].state = "destroying"

BlockingSameAgentPredecessor(m, g) ==
  \E h \in Leaves \ {g} : /\ m.children[h].agentId = m.children[g].agentId
                          /\ m.children[h].state \in {"destroying", "owner-unsafe"}

AgentOwnerUnsafe(m, a) ==
  \E g \in Leaves : m.children[g].agentId = a /\ m.children[g].state = "owner-unsafe"

\* admitProvisionalToolVm.
CanAdmitProvisionalToolVm(m, a, g) ==
  /\ m.state = "admitting"
  /\ m.leafIdByAgentId[a] = NoLeaf
  /\ ~AgentOwnerUnsafe(m, a)
  /\ ~Admitted(m, g)

AdmitProvisionalToolVm(m, a, g) ==
  [m EXCEPT !.children[g] = [state |-> "provisional", agentId |-> a, attached |-> FALSE,
                             completion |-> "pending"],
            !.leafIdByAgentId[a] = g]

AttachToolVm(m, g) == [m EXCEPT !.children[g].attached = TRUE]

\* A promise settles once: the first result is the one the barrier sees.
ResolveCompletion(m, g, result) ==
  [m EXCEPT !.children[g].completion = IF @ = "pending" THEN result ELSE @,
            !.barrier[g] = IF @ = "pending" THEN result ELSE @]

\* beginDestroying.  A child that was owner-unsafe gets a completion of its own
\* again; the barrier of an earlier seal keeps the one it was given.
BeginDestroying(m, g) ==
  CASE m.children[g].state = "retiring" -> m
    [] m.children[g].state = "owner-unsafe" ->
         ClearCurrentLeafMapping([m EXCEPT !.children[g].state = "destroying",
                                           !.children[g].completion = "pending"], g)
    [] OTHER -> ClearCurrentLeafMapping([m EXCEPT !.children[g].state = "destroying"], g)

\* Mutant: a child is committed without a look at its Gateway.
CanCommitInAnyGateway(m, g) ==
  /\ m.children[g].attached
  /\ m.children[g].state = "provisional"
  /\ ~BlockingSameAgentPredecessor(m, g)

CanCommitCurrent(m, g) ==
  /\ m.state = "admitting"
  /\ m.children[g].attached
  /\ m.children[g].state = "provisional"
  /\ ~BlockingSameAgentPredecessor(m, g)

CommitCurrent(m, g) == [m EXCEPT !.children[g].state = "current"]

RecordAccessFenced(m, g) ==
  ClearCurrentLeafMapping([m EXCEPT !.children[g].state = "retiring"], g)

RecordDestroyed(m, g) ==
  ClearCurrentLeafMapping(
    ResolveCompletion([m EXCEPT !.children[g].state = "destroyed"], g, "complete"), g)

\* recordUnavailable: a retiring child is fenced and stays retiring.
RecordUnavailable(m, g) ==
  IF m.children[g].state = "retiring" THEN m
  ELSE ResolveCompletion([m EXCEPT !.children[g].state = "owner-unsafe"], g, "incomplete")

\* sealGatewayEpoch, the first time: the barrier is over the children that are
\* not destroyed yet, each with the completion it has now.
SealGatewayEpoch(m) ==
  [m EXCEPT !.state = "sealed",
            !.barrier = [g \in Leaves |->
               IF m.children[g].state \notin {"absent", "destroyed"}
                 THEN m.children[g].completion ELSE "none"]]

BarrierPending(m) == \E g \in Leaves : m.barrier[g] = "pending"
BarrierRejected(m) == ~BarrierPending(m) /\ \E g \in Leaves : m.barrier[g] = "incomplete"
BarrierFulfilled(m) == ~BarrierPending(m) /\ ~BarrierRejected(m)

\* Mutant: the Gateway is given a state of its children.
RecordGatewayDestroying(m) == [m EXCEPT !.state = "destroying"]

\* recordGatewayDestroyUnavailable.
RecordGatewayDestroyUnavailable(m) == [m EXCEPT !.state = "owner-unsafe"]

-----------------------------------------------------------------------------
(* The lifecycle authority of an epoch.                                    *)

\* attempt: what the caller of destroyLive sees.  step: where its operation is,
\* which goes on after the budget of the attempt has expired.
NewLifecycle ==
  [contained |-> FALSE, abandonment |-> "none", attempt |-> "none", step |-> "none",
   expired |-> FALSE]

Lifecycle ==
  [contained : BOOLEAN, abandonment : {"none", "requested", "done"},
   attempt : {"none", "running", "destroyed", "failed"},
   step : {"none", "leases", "barrier", "vm", "ended"}, expired : BOOLEAN]

Init ==
  /\ epoch = 0
  /\ gateway = [SeededGateway EXCEPT !.state = "retired"]
  /\ lifecycle = NewLifecycle
  /\ gatewayVm = [e \in Epochs |-> "none"]
  /\ toolVm = [g \in Leaves |-> "none"]

\* createGatewayVmLifecycleAuthority and the start of the Gateway VM creation.
\* Leaf ids are unique, so a later epoch has the leaves not used before.
BeginGatewayEpoch ==
  /\ gateway.state = "retired"
  /\ epoch < MaxEpochs
  /\ epoch' = epoch + 1
  /\ gateway' = SeededGateway
  /\ lifecycle' = NewLifecycle
  /\ gatewayVm' = [gatewayVm EXCEPT ![epoch'] = "creating"]
  /\ UNCHANGED toolVm

Creating == epoch > 0 /\ gatewayVm[epoch] = "creating"

\* The startup deadline passes while the creation is pending: a VM that is
\* created after all will be closed.
ContainPendingCreate ==
  /\ Creating
  /\ ~lifecycle.contained
  /\ lifecycle' = [lifecycle EXCEPT !.contained = TRUE]
  /\ UNCHANGED <<epoch, gateway, gatewayVm, toolVm>>

\* The created VM is attached, unless its creation was contained.
AttachGatewayVm ==
  /\ Creating
  /\ ~lifecycle.contained
  /\ gatewayVm' = [gatewayVm EXCEPT ![epoch] = "running"]
  /\ gateway' = [gateway EXCEPT !.state = "admitting"]
  /\ UNCHANGED <<epoch, lifecycle, toolVm>>

\* Mutant: the seed is given up before the late VM is closed.
AbandonBeforeClosing(closed) ==
  /\ Creating
  /\ lifecycle.contained
  /\ gatewayVm' = [gatewayVm EXCEPT ![epoch] = IF closed THEN "gone" ELSE "running"]
  /\ lifecycle' = [lifecycle EXCEPT !.abandonment = "done"]
  /\ gateway' = [gateway EXCEPT !.state = "retired"]
  /\ UNCHANGED <<epoch, toolVm>>

\* A contained VM is closed and its seed abandoned; when the close fails, the
\* abandonment fails with it and the seed stays.
CloseLateCreatedVm(closed) ==
  /\ Creating
  /\ lifecycle.contained
  /\ gatewayVm' = [gatewayVm EXCEPT ![epoch] = IF closed THEN "gone" ELSE "running"]
  /\ lifecycle' = [lifecycle EXCEPT !.abandonment = IF closed THEN "done" ELSE "requested"]
  /\ gateway' = IF closed THEN [gateway EXCEPT !.state = "retired"] ELSE gateway
  /\ UNCHANGED <<epoch, toolVm>>

\* The creation fails.  The abandonment first waits for the containment, which
\* fails with the creation it waits for.
GatewayVmCreationFails ==
  /\ Creating
  /\ gatewayVm' = [gatewayVm EXCEPT ![epoch] = "gone"]
  /\ lifecycle' = [lifecycle EXCEPT !.abandonment =
                     IF lifecycle.contained THEN "requested" ELSE "done"]
  /\ gateway' = IF lifecycle.contained THEN gateway ELSE [gateway EXCEPT !.state = "retired"]
  /\ UNCHANGED <<epoch, toolVm>>

\* destroyLive, up to its first wait: the Gateway is sealed.  The destruction
\* transaction of the zone calls it once, and repeats its failure.
DestroyLive ==
  /\ gateway.state = "admitting"
  /\ lifecycle.attempt = "none"
  /\ gateway' = SealGatewayEpoch(gateway)
  /\ lifecycle' = [lifecycle EXCEPT !.attempt = "running", !.step = "leases"]
  /\ UNCHANGED <<epoch, gatewayVm, toolVm>>

\* The operation of the attempt throws.
AttemptFails ==
  /\ lifecycle' = [lifecycle EXCEPT !.attempt = "failed", !.step = "ended"]
  /\ gateway' = RecordGatewayDestroyUnavailable(gateway)
  /\ UNCHANGED <<epoch, gatewayVm, toolVm>>

\* destroyGatewayOwnedLeases returns; throwIfExpired comes before the barrier.
LeasesReturned ==
  /\ lifecycle.step = "leases"
  /\ ~lifecycle.expired
  /\ lifecycle' = [lifecycle EXCEPT !.step = "barrier"]
  /\ UNCHANGED <<epoch, gateway, gatewayVm, toolVm>>

LeasesFailed ==
  /\ lifecycle.step = "leases"
  /\ AttemptFails

\* Mutant: the Gateway VM is destroyed once the barrier has settled.
PassBarrierWhenSettled ==
  /\ lifecycle.step = "barrier"
  /\ ~BarrierPending(gateway)
  /\ ~lifecycle.expired
  /\ lifecycle' = [lifecycle EXCEPT !.step = "vm"]
  /\ UNCHANGED <<epoch, gateway, gatewayVm, toolVm>>

PassBarrier ==
  /\ lifecycle.step = "barrier"
  /\ BarrierFulfilled(gateway)
  /\ ~lifecycle.expired
  /\ lifecycle' = [lifecycle EXCEPT !.step = "vm"]
  /\ UNCHANGED <<epoch, gateway, gatewayVm, toolVm>>

BarrierRejects ==
  /\ lifecycle.step = "barrier"
  /\ BarrierRejected(gateway)
  /\ AttemptFails

\* throwIfExpired, in an operation whose attempt was given up before.
ExpiredOperationStops ==
  /\ lifecycle.step \in {"leases", "barrier"}
  /\ lifecycle.expired
  /\ AttemptFails

\* Mutant: retireGateway does not look at the state it finds.
DestroyGatewayVmRetiringAnyway ==
  /\ lifecycle.step = "vm"
  /\ gatewayVm' = [gatewayVm EXCEPT ![epoch] = "gone"]
  /\ gateway' = [gateway EXCEPT !.state = "retired"]
  /\ lifecycle' = [lifecycle EXCEPT !.step = "ended", !.attempt = "destroyed"]
  /\ UNCHANGED <<epoch, toolVm>>

\* The Gateway VM is destroyed and retireGateway follows.  It refuses a Gateway
\* that the expired attempt has made owner-unsafe.
DestroyGatewayVm ==
  /\ lifecycle.step = "vm"
  /\ gatewayVm' = [gatewayVm EXCEPT ![epoch] = "gone"]
  /\ IF gateway.state = "sealed"
       THEN /\ gateway' = [gateway EXCEPT !.state = "retired"]
            /\ lifecycle' = [lifecycle EXCEPT !.step = "ended", !.attempt = "destroyed"]
       ELSE /\ lifecycle' = [lifecycle EXCEPT !.step = "ended"]
            /\ UNCHANGED gateway
  /\ UNCHANGED <<epoch, toolVm>>

\* The destruction of the Gateway VM fails, or its own deadline passes.
GatewayVmDestructionFails ==
  /\ lifecycle.step = "vm"
  /\ AttemptFails

\* Mutant: the subtree deadline only covers the leases.
SubtreeTimeoutDuringLeases ==
  /\ lifecycle.attempt = "running"
  /\ lifecycle.step = "leases"
  /\ lifecycle' = [lifecycle EXCEPT !.attempt = "failed", !.expired = TRUE]
  /\ gateway' = RecordGatewayDestroyUnavailable(gateway)
  /\ UNCHANGED <<epoch, gatewayVm, toolVm>>

\* The subtree deadline passes.  The attempt is over for its caller; the
\* operation it was waiting for is not.
SubtreeTimeout ==
  /\ lifecycle.attempt = "running"
  /\ lifecycle' = [lifecycle EXCEPT !.attempt = "failed", !.expired = TRUE]
  /\ gateway' = RecordGatewayDestroyUnavailable(gateway)
  /\ UNCHANGED <<epoch, gatewayVm, toolVm>>

-----------------------------------------------------------------------------
(* The lease manager, as far as the coordinator sees it.                   *)

ToolVmAdmitted(a, g) ==
  /\ toolVm[g] = "none"
  /\ CanAdmitProvisionalToolVm(gateway, a, g)
  /\ gateway' = AdmitProvisionalToolVm(gateway, a, g)
  /\ UNCHANGED <<epoch, lifecycle, gatewayVm, toolVm>>

\* The creation of the VM holds the lock of its agent: the child is provisional.
ToolVmAttached(g) ==
  /\ gateway.children[g].state = "provisional"
  /\ ~gateway.children[g].attached
  /\ gateway' = AttachToolVm(gateway, g)
  /\ toolVm' = [toolVm EXCEPT ![g] = "running"]
  /\ UNCHANGED <<epoch, lifecycle, gatewayVm>>

ToolVmCommitted(g) ==
  /\ CanCommitCurrent(gateway, g)
  /\ gateway' = CommitCurrent(gateway, g)
  /\ UNCHANGED <<epoch, lifecycle, gatewayVm, toolVm>>

ToolVmDestroying(g) ==
  /\ gateway.children[g].state \in {"provisional", "current", "owner-unsafe"}
  /\ gateway' = BeginDestroying(gateway, g)
  /\ UNCHANGED <<epoch, lifecycle, gatewayVm, toolVm>>

\* A replacement: the predecessor's destruction begins and its successor is
\* admitted in the same tick.
ToolVmReplaced(h, g) ==
  LET m == BeginDestroying(gateway, h)
      a == gateway.children[h].agentId
  IN /\ gateway.children[h].state = "current"
     /\ toolVm[g] = "none"
     /\ CanAdmitProvisionalToolVm(m, a, g)
     /\ gateway' = AdmitProvisionalToolVm(m, a, g)
     /\ UNCHANGED <<epoch, lifecycle, gatewayVm, toolVm>>

\* The process of the Tool VM is terminated, or it never had one.
ToolVmAccessFenced(g) ==
  /\ gateway.children[g].state = "destroying"
  /\ toolVm' = [toolVm EXCEPT ![g] = IF @ = "none" THEN "none" ELSE "gone"]
  /\ gateway' = RecordAccessFenced(gateway, g)
  /\ UNCHANGED <<epoch, lifecycle, gatewayVm>>

ToolVmDestroyed(g) ==
  /\ gateway.children[g].state = "retiring"
  /\ gateway' = RecordDestroyed(gateway, g)
  /\ UNCHANGED <<epoch, lifecycle, gatewayVm, toolVm>>

ToolVmUnavailable(g) ==
  /\ gateway.children[g].state \in {"provisional", "current", "destroying"}
  /\ gateway' = RecordUnavailable(gateway, g)
  /\ UNCHANGED <<epoch, lifecycle, gatewayVm, toolVm>>

-----------------------------------------------------------------------------
LifecycleStep ==
  \/ BeginGatewayEpoch
  \/ ContainPendingCreate
  \/ AttachGatewayVm
  \/ \E closed \in BOOLEAN : CloseLateCreatedVm(closed)
  \/ GatewayVmCreationFails
  \/ DestroyLive
  \/ LeasesReturned
  \/ LeasesFailed
  \/ PassBarrier
  \/ BarrierRejects
  \/ ExpiredOperationStops
  \/ DestroyGatewayVm
  \/ GatewayVmDestructionFails
  \/ SubtreeTimeout

ToolVmStep(g) ==
  \/ \E a \in Agents : ToolVmAdmitted(a, g)
  \/ ToolVmAttached(g)
  \/ ToolVmCommitted(g)
  \/ ToolVmDestroying(g)
  \/ \E h \in Leaves : ToolVmReplaced(h, g)
  \/ ToolVmAccessFenced(g)
  \/ ToolVmDestroyed(g)
  \/ ToolVmUnavailable(g)

Next == LifecycleStep \/ \E g \in Leaves : ToolVmStep(g)

Spec == Init /\ [][Next]_vars

\* The subtree deadline is a timer of the process, so it passes eventually.
\* Nothing is assumed of the lease manager or of the machines.
FairSpec == Spec /\ WF_vars(SubtreeTimeout)

-----------------------------------------------------------------------------
(* Properties.                                                             *)

\* The membership, the lifecycle and the machines hold values of their kinds.
TypeOK ==
  /\ epoch \in 0..MaxEpochs
  /\ gateway \in Membership
  /\ lifecycle \in Lifecycle
  /\ gatewayVm \in [Epochs -> {"none", "creating", "running", "gone"}]
  /\ toolVm \in [Leaves -> {"none", "running", "gone"}]

\* A Gateway VM that was admitting is destroyed only after every Tool VM of its
\* epoch is, whatever the lease manager returned: a Tool VM never outlives the
\* Gateway that is to account for it.
GatewayVmOutlivesChildren ==
  epoch > 0 /\ gatewayVm[epoch] = "gone" =>
    \A g \in Leaves : gateway.children[g].state \in {"absent", "destroyed"} /\ toolVm[g] # "running"

\* A zone has one living epoch: when a successor begins, neither the Gateway VM
\* nor a Tool VM of an earlier epoch is still running.
SuccessorOwnsZoneAlone ==
  /\ \A e \in 1..epoch : e < epoch => gatewayVm[e] = "gone"
  /\ \A g \in Leaves : toolVm[g] = "running" => Admitted(gateway, g)

\* Machines end from the leaves up: no Tool VM outlives the Gateway VM of its
\* epoch, and no machine of an epoch outlives the beginning of its successor.
NothingOutlivesItsGateway == GatewayVmOutlivesChildren /\ SuccessorOwnsZoneAlone

\* A child that may serve an agent never coexists with a predecessor of that
\* agent whose access has not been fenced.
CurrentChildServesAlone ==
  \A g, h \in Leaves :
    /\ g # h
    /\ gateway.children[g].state = "current"
    /\ gateway.children[h].agentId = gateway.children[g].agentId
    => gateway.children[h].state \in {"retiring", "destroyed"}

\* The agent mapping names the child that is admitted for the agent: no
\* admission of a second one can go through while the first is.
AgentMappingAgrees ==
  \A g \in Leaves :
    gateway.children[g].state \in {"provisional", "current"} =>
      gateway.leafIdByAgentId[gateway.children[g].agentId] = g

\* The membership is one an admission may be decided from: the mapping and the
\* children of the coordinator agree and no agent is served twice.
MembershipIsSound == TypeOK /\ CurrentChildServesAlone /\ AgentMappingAgrees

\* What cannot be proved destroyed stays contained: an owner-unsafe Gateway is
\* never retired, sealed or admitting again, not even by an operation of its
\* destruction that finishes after the attempt was given up; and neither it nor
\* a sealed Gateway admits or commits a child.
ContainmentIsKept ==
  [][/\ gateway.state = "owner-unsafe" => gateway'.state = "owner-unsafe" /\ epoch' = epoch
     /\ gateway.state \in {"sealed", "owner-unsafe"} =>
          \A g \in Leaves :
            /\ Admitted(gateway, g)' => Admitted(gateway, g)
            /\ gateway'.children[g].state = "current" => gateway.children[g].state = "current"]_vars

\* The caller of destroyLive gets an answer, even if the lease manager, a child
\* or the Gateway VM never settles.
DestructionIsAnswered == lifecycle.attempt = "running" ~> lifecycle.attempt # "running"
=============================================================================
