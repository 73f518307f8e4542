---------------------- MODULE ToolVmLeaseManagerProofs ----------------------
(***************************************************************************)
(* Theorems about the Tool VM lease manager, for every set of agents and   *)
(* leaves, every number of Gateway epochs and every size of the TCP pool:  *)
(* its registries agree, one VM serves an agent, a reachable VM is         *)
(* recorded, and it uses the coordinator as GatewayOwnership allows.       *)
(*                                                                         *)
(* What is proved of the coordinator in GatewayOwnershipProofs is taken    *)
(* over by instantiation: a step of the manager is a step of the ownership *)
(* of the zone or leaves it as it is, so its invariant is kept.            *)
(***************************************************************************)
EXTENDS ToolVmLeaseManager, WellFoundedInduction, TLAPS

Owner == INSTANCE GatewayOwnershipProofs WITH toolVm <- ToolVmOf

-----------------------------------------------------------------------------
(* The inductive invariant.                                                *)

\* The kinds of the agent index, of leaves that were given up, and of leaves whose
\* access is fenced.
Indexed == {"provisioning", "current", "quarantined"}
GivenUp == {"destroying", "retiring", "owner-unsafe", "destroyed"}
Fenced == {"retiring", "destroyed"}

\* What a leaf has follows from how far it got: no process is left once its access
\* is fenced, and SSH access comes with a record.
LeafIsConsistent(g) ==
  LET l == lease[g] IN
  /\ l.kind = "absent" => l = AbsentLease
  /\ l.kind # "absent" => l.agentId \in Agents /\ l.slot \in Slots
  /\ l.kind \in Fenced => l.vm \in {"none", "gone"}
  /\ l.vm = "gone" => l.kind \in Fenced
  /\ l.cleaning => l.kind = "retiring"
  /\ l.target => l.vm # "none"
  /\ l.ssh => l.record

\* The authority and the coordinator agree on a leaf; one that only the authority
\* knows was refused, and is on its way out without a VM.
LeafIsOwned(g) ==
  LET l == lease[g]
      c == gateway.children[g]
  IN IF c.state # "absent"
       THEN /\ c.state = StateOfKind(l.kind)
            /\ c.agentId = l.agentId
            /\ c.attached <=> l.vm # "none"
       ELSE /\ l.kind \in {"absent", "destroying", "retiring", "destroyed"}
            /\ Live(g) => l.vm = "none"

\* What the operation that holds the lock of agent a finds at each await.
OperationIsConsistent(a) ==
  LET o == op[a]
      l == lease[o.leaf]
  IN /\ o.stage = "idle" => o.leaf = NoLeaf /\ o.pred = NoLeaf
     /\ o.leaf # NoLeaf => l.agentId = a
     /\ o.pred # NoLeaf => lease[o.pred].agentId = a /\ lease[o.pred].kind \in GivenUp
     /\ o.stage \in CreationStages \cup {"fallback"} => o.leaf # NoLeaf /\ l.kind = "provisioning"
     /\ o.stage \in {"reuse-probe", "evict-probe"} =>
          o.leaf # NoLeaf /\ l.kind \in {"current", "quarantined"}
     /\ o.stage \in {"reuse-probe", "evict-probe", "sweep"} => o.pred = NoLeaf
     /\ o.stage \in {"cleanup", "sweep"} => o.leaf # NoLeaf /\ l.kind \in GivenUp
     /\ o.stage = "create" => l.vm = "none"
     /\ o.stage = "start" => l.vm = "created"
     /\ o.stage \in CreationStages => ~l.ssh
     /\ o.stage \in {"write", "barrier", "ssh"} => l.target
     /\ o.stage \in {"barrier", "ssh"} => l.record
     /\ o.stage = "barrier" => o.pred # NoLeaf
     /\ o.stage = "ssh" /\ o.pred # NoLeaf => lease[o.pred].kind \in Fenced

\* A lease is created when its agent has no other leaf that is not fenced, but for
\* the predecessor it replaces.
CreationIsAlone(a) ==
  op[a].stage \in CreationStages =>
    \A h \in Leaves :
      lease[h].agentId = a /\ h # op[a].leaf => lease[h].kind \in Fenced \/ h = op[a].pred

\* The lock of an agent is held as long as the access to one of its leaves is being
\* fenced.
FenceIsAwaited(a) ==
  \A g \in Leaves :
    lease[g].agentId = a /\ lease[g].kind = "destroying" =>
      op[a].pred = g \/ (op[a].stage \in {"cleanup", "sweep"} /\ op[a].leaf = g)

OneIsReachable(a) ==
  \A g, h \in Leaves :
    g # h /\ lease[g].agentId = a /\ lease[h].agentId = a => ~(Reachable(g) /\ Reachable(h))

LeafInv(g) == LeafIsConsistent(g) /\ LeafIsOwned(g)
AgentInv(a) ==
  OperationIsConsistent(a) /\ CreationIsAlone(a) /\ FenceIsAwaited(a) /\ OneIsReachable(a)

\* Nothing is left to do when the sweep has returned, and before the Gateway admits.
QuietWhenClosed ==
  /\ \/ gateway.state \in {"seeded", "retired"}
     \/ lifecycle.step \in {"barrier", "vm"}
     \/ sweep.phase = "returned"
     => (\A a \in Agents : Idle(a)) /\ (\A g \in Leaves : ~Live(g))
  /\ gateway.state \in {"seeded", "admitting"} => sweep.phase = "none"

ManagerInv ==
  /\ TypeOK
  /\ Owner!OwnershipInv
  /\ \A g \in Leaves : LeafInv(g)
  /\ \A a \in Agents : AgentInv(a)
  /\ SlotsFollowLeaves
  /\ QuietWhenClosed

-----------------------------------------------------------------------------
(* The lowest free slot.                                                   *)

\* A set of numbers that is not empty has a least one.
LEMMA LeastNumber ==
  ASSUME NEW S \in SUBSET Nat, S # {}
  PROVE  \E s \in S : \A t \in S : s <= t
<1> DEFINE R == OpToRel(<, Nat)
<1>1. \A s, t \in Nat : s < t => <<s, t>> \in R
  BY DEF OpToRel
<1>2. IsWellFoundedOn(R, Nat)
  BY NatLessThanWellFounded
<1> HIDE DEF R
<1>3. PICK x \in S : \A y \in S : ~(<<y, x>> \in R)
  BY <1>2, WFMin
<1>4. \A y \in S : x <= y
  <2> TAKE y \in S
  <2>1. x \in Nat /\ y \in Nat
    OBVIOUS
  <2>2. ~(y < x)
    BY <1>1, <1>3, <2>1
  <2> QED BY <2>1, <2>2
<1> QED BY <1>4

\* The pool hands out a slot that is free.
LEMMA SlotIsFree ==
  ASSUME FreeSlots # {}
  PROVE  LowestFreeSlot \in FreeSlots
<1>1. FreeSlots \in SUBSET Nat
  BY ManagerAssumption DEF FreeSlots, Slots
<1>2. \E s \in FreeSlots : \A t \in FreeSlots : s <= t
  BY <1>1, LeastNumber
<1> QED BY <1>2 DEF LowestFreeSlot

-----------------------------------------------------------------------------
(* The coordinator, as the manager uses it.                                *)

LEMMA OwnerAssumption == Owner!OwnershipAssumption
BY ManagerAssumption DEF Owner!OwnershipAssumption

\* The two instances of the coordinator are the same.
LEMMA SameMethods ==
  /\ \A m, g : Ownership!Admitted(m, g) <=> m.children[g].state # "absent"
  /\ \A m, g : Ownership!BeginDestroying(m, g) = Owner!BeginDestroying(m, g)
  /\ \A m, g : Ownership!RecordAccessFenced(m, g) = Owner!RecordAccessFenced(m, g)
  /\ \A m, g : Ownership!RecordDestroyed(m, g) = Owner!RecordDestroyed(m, g)
  /\ \A m, g : Ownership!RecordUnavailable(m, g) = Owner!RecordUnavailable(m, g)
  /\ \A m, g : Ownership!AttachToolVm(m, g) = Owner!AttachToolVm(m, g)
  /\ \A m, g : Ownership!CommitCurrent(m, g) = Owner!CommitCurrent(m, g)
  /\ \A m, g : Ownership!CanCommitCurrent(m, g) <=> Owner!CanCommitCurrent(m, g)
  /\ \A m, a, g : Ownership!AdmitProvisionalToolVm(m, a, g) = Owner!AdmitProvisionalToolVm(m, a, g)
  /\ \A m, a, g : Ownership!CanAdmitProvisionalToolVm(m, a, g) <=> Owner!CanAdmitProvisionalToolVm(m, a, g)
BY DEF Ownership!Admitted, Ownership!BeginDestroying, Owner!BeginDestroying,
   Ownership!RecordAccessFenced, Owner!RecordAccessFenced, Ownership!RecordDestroyed, Owner!RecordDestroyed,
   Ownership!RecordUnavailable, Owner!RecordUnavailable, Ownership!AttachToolVm, Owner!AttachToolVm,
   Ownership!CommitCurrent, Owner!CommitCurrent, Ownership!CanCommitCurrent, Owner!CanCommitCurrent,
   Ownership!AdmitProvisionalToolVm, Owner!AdmitProvisionalToolVm,
   Ownership!CanAdmitProvisionalToolVm, Owner!CanAdmitProvisionalToolVm,
   Ownership!AgentOwnerUnsafe, Owner!AgentOwnerUnsafe, Owner!Admitted,
   Ownership!BlockingSameAgentPredecessor, Owner!BlockingSameAgentPredecessor,
   Ownership!ClearCurrentLeafMapping, Owner!ClearCurrentLeafMapping,
   Ownership!ResolveCompletion, Owner!ResolveCompletion

\* From m to n, child g moves to state s; the rest of what the manager sees is kept.
ChildMoves(m, n, g, s) ==
  /\ n \in Owner!Membership
  /\ n.state = m.state
  /\ \A h \in Leaves : h # g => n.children[h] = m.children[h]
  /\ n.children[g].state = s
  /\ n.children[g].agentId = m.children[g].agentId
  /\ n.children[g].attached = m.children[g].attached

ChildIsAttached(m, n, g) ==
  /\ n \in Owner!Membership
  /\ n.state = m.state
  /\ \A h \in Leaves : h # g => n.children[h] = m.children[h]
  /\ n.children[g].state = m.children[g].state
  /\ n.children[g].agentId = m.children[g].agentId
  /\ n.children[g].attached

LEMMA MethodsMoveTheChild ==
  ASSUME NEW m \in Owner!Membership, NEW g \in Leaves, m.children[g].agentId \in Agents
  PROVE  /\ m.children[g].state # "retiring" =>
              /\ ChildMoves(m, Owner!BeginDestroying(m, g), g, "destroying")
              /\ ChildMoves(m, Owner!RecordUnavailable(m, g), g, "owner-unsafe")
         /\ ChildMoves(m, Owner!RecordAccessFenced(m, g), g, "retiring")
         /\ ChildMoves(m, Owner!RecordDestroyed(m, g), g, "destroyed")
         /\ ChildMoves(m, Owner!CommitCurrent(m, g), g, "current")
         /\ ChildIsAttached(m, Owner!AttachToolVm(m, g), g)
<1> DEFINE At(s) == [m EXCEPT !.children[g].state = s]
<1>1. \A s \in Owner!ChildStates :
        /\ ChildMoves(m, At(s), g, s)
        /\ At(s).children[g].agentId \in Agents
  BY OwnerAssumption, Owner!MovedChild DEF ChildMoves
<1>2. /\ {"current", "destroying", "retiring", "destroyed", "owner-unsafe"} \subseteq Owner!ChildStates
      /\ {"complete", "incomplete"} \subseteq Owner!CompletionStates
  BY DEF Owner!ChildStates, Owner!CompletionStates
<1>3. ASSUME NEW n \in Owner!Membership, NEW s \in Owner!ChildStates, n.children[g].agentId \in Agents,
             ChildMoves(m, n, g, s)
      PROVE  ChildMoves(m, Owner!ClearCurrentLeafMapping(n, g), g, s)
  BY <1>3, OwnerAssumption, Owner!ClearedMapping DEF ChildMoves
<1>4. ASSUME NEW n \in Owner!Membership, NEW s \in Owner!ChildStates,
             NEW k \in Owner!CompletionStates, ChildMoves(m, n, g, s)
      PROVE  /\ Owner!ResolveCompletion(n, g, k) \in Owner!Membership
             /\ ChildMoves(m, Owner!ResolveCompletion(n, g, k), g, s)
  BY <1>4, OwnerAssumption, Owner!ResolvedCompletion DEF ChildMoves
<1>5. ASSUME m.children[g].state # "retiring"
      PROVE  ChildMoves(m, Owner!BeginDestroying(m, g), g, "destroying")
  <2>1. CASE m.children[g].state = "owner-unsafe"
    <3> DEFINE c == [m.children[g] EXCEPT !.state = "destroying", !.completion = "pending"]
               n == [m EXCEPT !.children[g].state = "destroying", !.children[g].completion = "pending"]
    <3>1. n \in Owner!Membership /\ ChildMoves(m, n, g, "destroying")
          /\ n.children[g].agentId \in Agents
      <4>1. /\ c \in Owner!Child /\ c.state = "destroying" /\ c.agentId = m.children[g].agentId
            /\ c.attached = m.children[g].attached
        <5>1. m.children[g] \in Owner!Child
          BY DEF Owner!Membership
        <5> QED BY <5>1 DEF Owner!Child, Owner!ChildStates, Owner!CompletionStates
      <4>2. n = [m EXCEPT !.children = [m.children EXCEPT ![g] = c]]
        BY DEF Owner!Membership, Owner!Child
      <4> HIDE DEF n, c
      <4>3. /\ n \in Owner!Membership /\ n.state = m.state
            /\ n.children[g] = c /\ \A h \in Leaves : h # g => n.children[h] = m.children[h]
        BY <4>1, <4>2 DEF Owner!Membership
      <4> QED BY <4>1, <4>3 DEF ChildMoves
    <3> HIDE DEF n
    <3>2. ChildMoves(m, Owner!ClearCurrentLeafMapping(n, g), g, "destroying")
      BY <1>2, <1>3, <3>1
    <3> QED BY <2>1, <3>2 DEF Owner!BeginDestroying, n
  <2>2. CASE m.children[g].state # "owner-unsafe"
    <3>1. ChildMoves(m, Owner!ClearCurrentLeafMapping(At("destroying"), g), g, "destroying")
      BY <1>1, <1>2, <1>3 DEF ChildMoves
    <3> QED BY <1>5, <2>2, <3>1 DEF Owner!BeginDestroying
  <2> QED BY <2>1, <2>2
<1>6. ASSUME m.children[g].state # "retiring"
      PROVE  ChildMoves(m, Owner!RecordUnavailable(m, g), g, "owner-unsafe")
  <2> DEFINE n == At("owner-unsafe")
  <2>1. n \in Owner!Membership /\ ChildMoves(m, n, g, "owner-unsafe")
    BY <1>1, <1>2 DEF ChildMoves
  <2> HIDE DEF n
  <2>2. ChildMoves(m, Owner!ResolveCompletion(n, g, "incomplete"), g, "owner-unsafe")
    BY <1>2, <1>4, <2>1
  <2> QED BY <1>6, <2>2 DEF Owner!RecordUnavailable, n
<1>7. ChildMoves(m, Owner!RecordAccessFenced(m, g), g, "retiring")
  BY <1>1, <1>2, <1>3 DEF Owner!RecordAccessFenced, ChildMoves
<1>8. ChildMoves(m, Owner!RecordDestroyed(m, g), g, "destroyed")
  <2> DEFINE d == At("destroyed")
             n == Owner!ResolveCompletion(d, g, "complete")
  <2>1. d \in Owner!Membership /\ ChildMoves(m, d, g, "destroyed")
    BY <1>1, <1>2 DEF ChildMoves
  <2> HIDE DEF d
  <2>2. n \in Owner!Membership /\ ChildMoves(m, n, g, "destroyed")
    BY <1>2, <1>4, <2>1
  <2> HIDE DEF n
  <2>3. n.children[g].agentId \in Agents
    BY <2>2 DEF ChildMoves
  <2>4. ChildMoves(m, Owner!ClearCurrentLeafMapping(n, g), g, "destroyed")
    BY <1>2, <1>3, <2>2, <2>3
  <2> QED BY <2>4 DEF d, n, Owner!RecordDestroyed
<1>9. ChildMoves(m, Owner!CommitCurrent(m, g), g, "current")
  BY <1>1, <1>2 DEF Owner!CommitCurrent
<1>10. ChildIsAttached(m, Owner!AttachToolVm(m, g), g)
  BY DEF Owner!AttachToolVm, Owner!Membership, Owner!Child, ChildIsAttached
<1> QED BY <1>5, <1>6, <1>7, <1>8, <1>9, <1>10

-----------------------------------------------------------------------------
(* What every step has in common.                                          *)

\* A step of the ownership of the zone, or none.
OwnerStep == [Owner!Next]_(Owner!vars)

LEMMA InvFacts ==
  ASSUME ManagerInv
  PROVE  /\ sweep \in Sweep
         /\ lease \in [Leaves -> Lease] /\ op \in [Agents -> Operation]
         /\ pool \in [allocated : SUBSET Slots, quarantined : SUBSET Slots]
         /\ gateway \in Owner!Membership /\ gateway.children \in [Leaves -> Owner!Child]
         /\ \A g \in Leaves : gateway.children[g].state # "absent" => gateway.children[g].agentId \in Agents
         /\ NoLeaf \notin Leaves /\ NoLeaf \notin Agents
<1>1. TypeOK /\ Owner!TypeOK /\ Owner!ChildrenAreConsistent
  BY DEF ManagerInv, Owner!OwnershipInv
<1>2. gateway \in Owner!Membership /\ gateway.children \in [Leaves -> Owner!Child]
  BY <1>1 DEF Owner!TypeOK, Owner!Membership
<1>3. \A g \in Leaves : gateway.children[g].state # "absent" => gateway.children[g].agentId \in Agents
  BY <1>1, <1>2 DEF Owner!ChildrenAreConsistent, Owner!Child
<1> QED BY <1>1, <1>2, <1>3, ManagerAssumption DEF TypeOK

LEMMA InvAssembled ==
  ASSUME ManagerInv, TypeOK', OwnerStep, \A g \in Leaves : LeafInv(g)', \A a \in Agents : AgentInv(a)',
         SlotsFollowLeaves', QuietWhenClosed'
  PROVE  ManagerInv'
<1>1. Owner!OwnershipInv'
  BY OwnerAssumption, Owner!OwnershipStep DEF ManagerInv, OwnerStep
<1> QED BY <1>1 DEF ManagerInv

LEMMA SameVms ==
  ASSUME \A h \in Leaves : \/ lease'[h].vm = lease[h].vm
                           \/ lease'[h].vm \notin {"none", "gone"} /\ lease[h].vm \notin {"none", "gone"}
  PROVE  ToolVmOf' = ToolVmOf
BY DEF ToolVmOf

LEMMA OwnershipKept ==
  ASSUME UNCHANGED ownershipVars, ToolVmOf' = ToolVmOf
  PROVE  OwnerStep
BY DEF OwnerStep, Owner!vars, ownershipVars

LEMMA HandleStep ==
  ASSUME NEW g \in Leaves, Owner!ToolVmStep(g)
  PROVE  OwnerStep
BY DEF OwnerStep, Owner!Next

LEMMA LeafKept ==
  ASSUME NEW h \in Leaves, LeafInv(h), lease'[h] = lease[h], gateway'.children[h] = gateway.children[h]
  PROVE  LeafInv(h)'
BY DEF LeafInv, LeafIsConsistent, LeafIsOwned, Live

LEMMA SlotsKept ==
  ASSUME SlotsFollowLeaves,
         \A h \in Leaves : (Live(h)' <=> Live(h)) /\ lease'[h].slot = lease[h].slot,
         pool'.allocated \cup pool'.quarantined = pool.allocated \cup pool.quarantined
  PROVE  SlotsFollowLeaves'
BY DEF SlotsFollowLeaves

\* Who acts is not quiet.
LEMMA QuietKept ==
  ASSUME QuietWhenClosed, gateway'.state = gateway.state, UNCHANGED lifecycle, sweep'.phase = sweep.phase,
         \/ \E a \in Agents : ~Idle(a)
         \/ \E g \in Leaves : Live(g)
  PROVE  QuietWhenClosed'
BY DEF QuietWhenClosed

\* The leaves and the operation of agent a change: the other agents see nothing of it.
LEMMA OtherAgentsKept ==
  ASSUME ManagerInv, NEW a \in Agents,
         \A b \in Agents : b # a => op'[b] = op[b],
         \A h \in Leaves : \/ lease'[h] = lease[h]
                           \/ lease[h].agentId \in {a, NoLeaf} /\ lease'[h].agentId = a
  PROVE  \A b \in Agents : b # a => AgentInv(b)'
<1> SUFFICES ASSUME NEW b \in Agents, b # a PROVE AgentInv(b)'
  OBVIOUS
<1>1. op'[b] = op[b] /\ AgentInv(b)
  BY DEF ManagerInv
<1>2. b # NoLeaf /\ op[b].leaf \in Leaves \cup {NoLeaf} /\ op[b].pred \in Leaves \cup {NoLeaf}
  BY InvFacts DEF Operation
<1>3. \A h \in Leaves : lease[h].agentId = b \/ lease'[h].agentId = b => lease'[h] = lease[h]
  BY <1>2
<1>4. OperationIsConsistent(b)'
  <2>1. /\ op[b].leaf # NoLeaf => lease'[op[b].leaf] = lease[op[b].leaf]
        /\ op[b].pred # NoLeaf => lease'[op[b].pred] = lease[op[b].pred]
    BY <1>1, <1>2, <1>3 DEF AgentInv, OperationIsConsistent
  <2> QED BY <1>1, <2>1 DEF AgentInv, OperationIsConsistent, CreationStages
<1>5. CreationIsAlone(b)'
  BY <1>1, <1>3 DEF AgentInv, CreationIsAlone
<1>6. FenceIsAwaited(b)' /\ OneIsReachable(b)'
  BY <1>1, <1>3 DEF AgentInv, FenceIsAwaited, OneIsReachable, Reachable
<1> QED BY <1>4, <1>5, <1>6 DEF AgentInv

LEMMA StutterKept ==
  ASSUME ManagerInv, UNCHANGED vars
  PROVE  OwnerStep /\ ManagerInv'
<1>1. OwnerStep
  BY DEF vars, OwnerStep, Owner!vars, ToolVmOf
<1>2. TypeOK' /\ SlotsFollowLeaves' /\ QuietWhenClosed'
  BY DEF ManagerInv, vars, TypeOK, SlotsFollowLeaves, QuietWhenClosed, Live, Idle
<1>3. \A g \in Leaves : LeafInv(g)'
  BY LeafKept DEF ManagerInv, vars
<1>4. \A a \in Agents : AgentInv(a)'
  <2> TAKE a \in Agents
  <2>1. AgentInv(a)
    BY DEF ManagerInv
  <2> QED BY <2>1 DEF vars, AgentInv, OperationIsConsistent, CreationIsAlone, FenceIsAwaited,
             OneIsReachable, Reachable
<1> QED BY <1>1, <1>2, <1>3, <1>4, InvAssembled

-----------------------------------------------------------------------------
(* Steps of a leaf: its destruction, its uses and its machine.             *)

\* A leaf moves on beside the operation of its agent.
LeafMoves(g) ==
  /\ lease' \in [Leaves -> Lease]
  /\ \A h \in Leaves : h # g => lease'[h] = lease[h]
  /\ lease'[g].agentId = lease[g].agentId /\ lease'[g].slot = lease[g].slot
  /\ \/ lease'[g].kind = lease[g].kind
     \/ lease[g].kind = "current" /\ lease'[g].kind = "quarantined"
     \/ /\ lease[g].kind \in GivenUp /\ lease'[g].kind \in GivenUp \ {"destroying"}
        /\ lease[g].kind \in Fenced => lease'[g].kind \in Fenced
  /\ lease'[g].vm = lease[g].vm \/ lease[g].vm \notin {"none", "created"}
       \/ lease[g].kind # "provisioning"
  /\ lease'[g].target = lease[g].target
  /\ lease'[g].record = lease[g].record \/ lease[g].kind # "provisioning"
  /\ lease'[g].ssh => lease[g].ssh
  /\ Reachable(g)' => Reachable(g)

LEMMA AgentsKept ==
  ASSUME ManagerInv, NEW g \in Leaves, lease[g].agentId \in Agents, LeafMoves(g), UNCHANGED op
  PROVE  \A b \in Agents : AgentInv(b)'
<1> PICK a \in Agents : a = lease[g].agentId
  OBVIOUS
<1>1. \A b \in Agents : b # a => AgentInv(b)'
  BY OtherAgentsKept DEF LeafMoves
<1>2. AgentInv(a) /\ op[a] \in Operation
  BY InvFacts DEF ManagerInv
<1>3. \A h \in Leaves : h # g => lease'[h] = lease[h]
  BY DEF LeafMoves
<1>4. OperationIsConsistent(a)'
  <2> DEFINE o == op[a]
  <2>1. op'[a] = o /\ o.leaf \in Leaves \cup {NoLeaf} /\ o.pred \in Leaves \cup {NoLeaf}
    BY <1>2 DEF Operation
  <2>2. o.pred # NoLeaf => /\ lease'[o.pred].agentId = a /\ lease'[o.pred].kind \in GivenUp
                           /\ lease[o.pred].kind \in Fenced => lease'[o.pred].kind \in Fenced
    BY <1>2, <1>3, <2>1 DEF AgentInv, OperationIsConsistent, LeafMoves, GivenUp, Fenced
  <2>3. CASE o.leaf # g
    <3>1. o.leaf # NoLeaf => lease'[o.leaf] = lease[o.leaf]
      BY <1>3, <2>1, <2>3
    <3> QED BY <1>2, <2>1, <2>2, <3>1 DEF AgentInv, OperationIsConsistent, CreationStages
  <2>4. CASE o.leaf = g
    <3>1. /\ o.leaf # NoLeaf /\ lease'[g].agentId = a
          /\ lease[g].kind \in GivenUp => lease'[g].kind \in GivenUp
          /\ lease[g].kind = "provisioning" => lease'[g].kind = "provisioning"
          /\ lease[g].kind \in {"current", "quarantined"} => lease'[g].kind \in {"current", "quarantined"}
      BY <2>1, <2>4, InvFacts DEF LeafMoves, GivenUp
    <3>2. /\ o.stage \in CreationStages \cup {"fallback"} => lease[g].kind = "provisioning"
          /\ o.stage = "create" => lease[g].vm = "none"
          /\ o.stage = "start" => lease[g].vm = "created"
          /\ o.stage \in CreationStages => ~lease[g].ssh
          /\ o.stage \in {"write", "barrier", "ssh"} => lease[g].target
          /\ o.stage \in {"barrier", "ssh"} => lease[g].record
      BY <1>2, <2>4 DEF AgentInv, OperationIsConsistent
    <3>3. /\ o.stage = "create" => lease'[g].vm = "none"
          /\ o.stage = "start" => lease'[g].vm = "created"
          /\ o.stage \in CreationStages => ~lease'[g].ssh
          /\ o.stage \in {"write", "barrier", "ssh"} => lease'[g].target
          /\ o.stage \in {"barrier", "ssh"} => lease'[g].record
      BY <3>2 DEF LeafMoves, CreationStages
    <3> QED BY <1>2, <2>1, <2>2, <2>4, <3>1, <3>3 DEF AgentInv, OperationIsConsistent, CreationStages
  <2> QED BY <2>3, <2>4
<1>5. CreationIsAlone(a)'
  <2> SUFFICES ASSUME op'[a].stage \in CreationStages, NEW h \in Leaves, lease'[h].agentId = a,
                      h # op'[a].leaf
               PROVE  lease'[h].kind \in Fenced \/ h = op'[a].pred
    BY DEF CreationIsAlone
  <2>1. lease[h].kind \in Fenced \/ h = op[a].pred
    BY <1>2, <1>3 DEF AgentInv, CreationIsAlone, LeafMoves
  <2> QED BY <1>3, <2>1 DEF LeafMoves, GivenUp, Fenced
<1>6. FenceIsAwaited(a)'
  <2> SUFFICES ASSUME NEW h \in Leaves, lease'[h].agentId = a, lease'[h].kind = "destroying"
               PROVE  op[a].pred = h \/ (op[a].stage \in {"cleanup", "sweep"} /\ op[a].leaf = h)
    BY DEF FenceIsAwaited
  <2>1. lease[h].agentId = a /\ lease[h].kind = "destroying"
    BY <1>3 DEF LeafMoves
  <2> QED BY <1>2, <2>1 DEF AgentInv, FenceIsAwaited
<1>7. OneIsReachable(a)'
  <2>1. \A h \in Leaves : Reachable(h)' => Reachable(h)
    BY <1>3 DEF LeafMoves, Reachable
  <2> QED BY <1>2, <1>3, <2>1 DEF AgentInv, OneIsReachable, LeafMoves
<1> QED BY <1>1, <1>4, <1>5, <1>6, <1>7 DEF AgentInv

\* A leaf stays live and keeps its slot, and the coordinator follows.
LEMMA LeafStep ==
  ASSUME ManagerInv, NEW g \in Leaves, LeafMoves(g), Live(g), UNCHANGED <<op, sweep, lifecycle>>,
         gateway'.state = gateway.state, OwnerStep, LeafInv(g)',
         \A h \in Leaves : h # g => gateway'.children[h] = gateway.children[h],
         pool' \in [allocated : SUBSET Slots, quarantined : SUBSET Slots],
         SlotsFollowLeaves'
  PROVE  ManagerInv'
<1>1. TypeOK'
  BY DEF ManagerInv, TypeOK, LeafMoves
<1>2. \A h \in Leaves : LeafInv(h)'
  BY LeafKept DEF ManagerInv, LeafMoves
<1>3. lease[g].agentId \in Agents
  BY DEF ManagerInv, LeafInv, LeafIsConsistent, Live
<1>4. \A a \in Agents : AgentInv(a)'
  BY <1>3, AgentsKept
<1>5. QuietWhenClosed'
  BY QuietKept DEF ManagerInv
<1> QED BY <1>1, <1>2, <1>4, <1>5, InvAssembled

LEMMA UseStepKept ==
  ASSUME ManagerInv, NEW g \in Leaves, UseStep(g)
  PROVE  OwnerStep /\ ManagerInv'
<1>1. lease \in [Leaves -> Lease] /\ lease[g] \in Lease /\ LeafInv(g)
  BY InvFacts DEF ManagerInv
<1>2. UNCHANGED ownershipVars /\ UNCHANGED <<op, pool, sweep>>
  BY DEF UseStep, StartActiveUse, EndActiveUse, ResumeActiveUse, SessionDisconnected, WorkMoves,
     ExpireObservationGap, VmExits
<1>3. \/ \E w \in {"none", "running", "gap"} :
           lease[g].kind = "current" /\ lease' = [lease EXCEPT ![g].work = w]
      \/ /\ lease[g].kind = "current"
         /\ lease' = [lease EXCEPT ![g].kind = "quarantined", ![g].work = "ambiguous"]
      \/ lease[g].vm = "running" /\ lease' = [lease EXCEPT ![g].vm = "exited"]
  BY DEF UseStep, StartActiveUse, EndActiveUse, ResumeActiveUse, SessionDisconnected, WorkMoves,
     ExpireObservationGap, VmExits
<1>4. /\ lease' \in [Leaves -> Lease] /\ \A h \in Leaves : h # g => lease'[h] = lease[h]
      /\ \/ lease'[g].kind = lease[g].kind
         \/ lease[g].kind = "current" /\ lease'[g].kind = "quarantined"
      /\ lease'[g].vm = lease[g].vm \/ (lease[g].vm = "running" /\ lease'[g].vm = "exited")
      /\ lease'[g].agentId = lease[g].agentId /\ lease'[g].slot = lease[g].slot
      /\ lease'[g].target = lease[g].target /\ lease'[g].record = lease[g].record
      /\ lease'[g].ssh = lease[g].ssh /\ lease'[g].cleaning = lease[g].cleaning
  <2>1. CASE \E w \in {"none", "running", "gap"} : lease' = [lease EXCEPT ![g].work = w]
    BY <1>1, <2>1 DEF Lease
  <2>2. CASE /\ lease[g].kind = "current"
             /\ lease' = [lease EXCEPT ![g].kind = "quarantined", ![g].work = "ambiguous"]
    BY <1>1, <2>2 DEF Lease, LeafKinds
  <2>3. CASE lease[g].vm = "running" /\ lease' = [lease EXCEPT ![g].vm = "exited"]
    BY <1>1, <2>3 DEF Lease
  <2> QED BY <1>3, <2>1, <2>2, <2>3
<1>5. Live(g)
  BY <1>1, <1>3 DEF Live, LeafInv, LeafIsConsistent, AbsentLease, Fenced
<1>6. LeafMoves(g)
  BY <1>4 DEF LeafMoves, Reachable
<1>7. LeafInv(g)'
  <2>1. gateway' = gateway
    BY <1>2 DEF ownershipVars
  <2>2. LeafIsConsistent(g)'
    BY <1>1, <1>4, <1>5 DEF LeafInv, LeafIsConsistent, Live, Fenced
  <2>3. LeafIsOwned(g)'
    BY <1>1, <1>4, <1>5, <2>1 DEF LeafInv, LeafIsOwned, Live, StateOfKind
  <2> QED BY <2>2, <2>3 DEF LeafInv
<1>8. OwnerStep
  <2>1. ToolVmOf' = ToolVmOf
    BY <1>4, SameVms
  <2> QED BY <1>2, <2>1, OwnershipKept
<1>9. SlotsFollowLeaves'
  <2>1. \A h \in Leaves : (Live(h)' <=> Live(h)) /\ lease'[h].slot = lease[h].slot
    BY <1>4 DEF Live
  <2> QED BY <1>2, <2>1, SlotsKept DEF ManagerInv
<1>10. /\ gateway'.state = gateway.state /\ UNCHANGED lifecycle
       /\ \A h \in Leaves : h # g => gateway'.children[h] = gateway.children[h]
       /\ pool' \in [allocated : SUBSET Slots, quarantined : SUBSET Slots]
  BY <1>2, InvFacts DEF ownershipVars
<1> QED BY <1>2, <1>5, <1>6, <1>7, <1>8, <1>9, <1>10, LeafStep

\* The pool, when a slot that is taken is quarantined or released.
LEMMA SlotMoves ==
  ASSUME pool \in [allocated : SUBSET Slots, quarantined : SUBSET Slots], NEW s \in Slots,
         NEW p, p = QuarantineSlot(pool, s) \/ p = ReleaseSlot(pool, s)
  PROVE  /\ p \in [allocated : SUBSET Slots, quarantined : SUBSET Slots]
         /\ p = QuarantineSlot(pool, s) /\ s \in pool.allocated \cup pool.quarantined =>
              p.allocated \cup p.quarantined = pool.allocated \cup pool.quarantined
         /\ p = ReleaseSlot(pool, s) =>
              p.allocated \cup p.quarantined = (pool.allocated \cup pool.quarantined) \ {s}
BY DEF QuarantineSlot, ReleaseSlot

\* The slot of a live leaf is quarantined.
LEMMA SlotQuarantined ==
  ASSUME ManagerInv, NEW g \in Leaves, Live(g), pool' = QuarantineSlot(pool, lease[g].slot),
         \A h \in Leaves : (Live(h)' <=> Live(h)) /\ lease'[h].slot = lease[h].slot
  PROVE  /\ SlotsFollowLeaves'
         /\ pool' \in [allocated : SUBSET Slots, quarantined : SUBSET Slots]
<1>1. lease[g].slot \in Slots
  BY DEF ManagerInv, LeafInv, LeafIsConsistent, Live
<1>2. lease[g].slot \in pool.allocated \cup pool.quarantined
  BY DEF ManagerInv, SlotsFollowLeaves
<1> QED BY <1>1, <1>2, InvFacts, SlotMoves, SlotsKept DEF ManagerInv

\* The slot of a leaf that is destroyed is released.
LEMMA SlotReleased ==
  ASSUME ManagerInv, NEW g \in Leaves, Live(g), pool' = ReleaseSlot(pool, lease[g].slot), ~Live(g)',
         \A h \in Leaves : lease'[h].slot = lease[h].slot,
         \A h \in Leaves : h # g => lease'[h] = lease[h]
  PROVE  /\ SlotsFollowLeaves'
         /\ pool' \in [allocated : SUBSET Slots, quarantined : SUBSET Slots]
<1>1. lease[g].slot \in Slots
  BY DEF ManagerInv, LeafInv, LeafIsConsistent, Live
<1>2. /\ pool' \in [allocated : SUBSET Slots, quarantined : SUBSET Slots]
      /\ pool'.allocated \cup pool'.quarantined = (pool.allocated \cup pool.quarantined) \ {lease[g].slot}
  BY <1>1, InvFacts, SlotMoves
<1>3. \A h \in Leaves : Live(h)' <=> Live(h) /\ h # g
  BY DEF Live
<1> QED BY <1>2, <1>3 DEF ManagerInv, SlotsFollowLeaves

LEMMA FenceSucceedsKept ==
  ASSUME ManagerInv, NEW g \in Leaves, FenceSucceeds(g)
  PROVE  OwnerStep /\ ManagerInv'
<1> DEFINE c == gateway.children[g]
<1>1. /\ lease \in [Leaves -> Lease] /\ lease[g] \in Lease /\ LeafInv(g) /\ c \in Owner!Child
      /\ gateway \in Owner!Membership
      /\ c.state # "absent" => c.agentId \in Agents
  BY InvFacts DEF ManagerInv
<1>2. /\ lease[g].kind = "destroying" /\ UNCHANGED <<epoch, lifecycle, gatewayVm, op, pool, sweep>>
      /\ lease' = [lease EXCEPT ![g].kind = "retiring", ![g].cleaning = TRUE,
                                ![g].vm = IF @ = "none" THEN "none" ELSE "gone"]
      /\ gateway' = IF c.state # "absent" THEN Owner!RecordAccessFenced(gateway, g) ELSE gateway
  BY SameMethods DEF FenceSucceeds
<1>3. /\ lease' \in [Leaves -> Lease] /\ \A h \in Leaves : h # g => lease'[h] = lease[h]
      /\ lease'[g].kind = "retiring" /\ lease'[g].cleaning
      /\ lease'[g].vm = IF lease[g].vm = "none" THEN "none" ELSE "gone"
      /\ lease'[g].agentId = lease[g].agentId /\ lease'[g].slot = lease[g].slot
      /\ lease'[g].target = lease[g].target /\ lease'[g].record = lease[g].record
      /\ lease'[g].ssh = lease[g].ssh
  BY <1>1, <1>2 DEF Lease, LeafKinds
<1>4. /\ c.state = IF c.state # "absent" THEN "destroying" ELSE "absent"
      /\ c.state # "absent" => c.agentId = lease[g].agentId /\ (c.attached <=> lease[g].vm # "none")
      /\ c.state = "absent" => lease[g].vm = "none"
  BY <1>1, <1>2 DEF LeafInv, LeafIsOwned, StateOfKind, Live
<1>5. /\ gateway' \in Owner!Membership /\ gateway'.state = gateway.state
      /\ \A h \in Leaves : h # g => gateway'.children[h] = gateway.children[h]
      /\ c.state # "absent" => ChildMoves(gateway, gateway', g, "retiring")
  BY <1>1, <1>2, <1>4, MethodsMoveTheChild DEF ChildMoves
<1>6. Live(g) /\ LeafMoves(g)
  BY <1>2, <1>3 DEF Live, LeafMoves, Reachable, GivenUp, Fenced
<1>7. LeafInv(g)'
  <2>1. LeafIsConsistent(g)'
    BY <1>1, <1>2, <1>3 DEF LeafInv, LeafIsConsistent, Fenced
  <2>2. LeafIsOwned(g)'
    BY <1>2, <1>3, <1>4, <1>5 DEF LeafIsOwned, ChildMoves, StateOfKind, Live
  <2> QED BY <2>1, <2>2 DEF LeafInv
<1>8. OwnerStep
  <2>1. CASE c.state # "absent"
    <3>1. ToolVmOf' = [ToolVmOf EXCEPT ![g] = IF @ = "none" THEN "none" ELSE "gone"]
      BY <1>3 DEF ToolVmOf
    <3>2. Owner!ToolVmAccessFenced(g)
      BY <1>2, <1>4, <2>1, <3>1 DEF Owner!ToolVmAccessFenced
    <3> QED BY <3>2, HandleStep DEF Owner!ToolVmStep
  <2>2. CASE c.state = "absent"
    <3>1. ToolVmOf' = ToolVmOf
      BY <1>3, <1>4, <2>2, SameVms
    <3> QED BY <1>2, <2>2, <3>1, OwnershipKept DEF ownershipVars
  <2> QED BY <2>1, <2>2
<1>9. SlotsFollowLeaves' /\ pool' \in [allocated : SUBSET Slots, quarantined : SUBSET Slots]
  <2>1. \A h \in Leaves : (Live(h)' <=> Live(h)) /\ lease'[h].slot = lease[h].slot
    BY <1>2, <1>3 DEF Live
  <2> QED BY <1>2, <2>1, SlotsKept, InvFacts DEF ManagerInv
<1> QED BY <1>2, <1>5, <1>6, <1>7, <1>8, <1>9, LeafStep

LEMMA FenceFailsKept ==
  ASSUME ManagerInv, NEW g \in Leaves, FenceFails(g)
  PROVE  OwnerStep /\ ManagerInv'
<1> DEFINE c == gateway.children[g]
<1>1. /\ lease \in [Leaves -> Lease] /\ lease[g] \in Lease /\ LeafInv(g) /\ c \in Owner!Child
      /\ gateway \in Owner!Membership
      /\ c.state # "absent" => c.agentId \in Agents
  BY InvFacts DEF ManagerInv
<1>2. /\ lease[g].kind = "destroying" /\ UNCHANGED <<epoch, lifecycle, gatewayVm, op, sweep>>
      /\ lease[g].target \/ lease[g].vm = "running"
      /\ lease' = [lease EXCEPT ![g].kind = "owner-unsafe"]
      /\ gateway' = Owner!RecordUnavailable(gateway, g)
      /\ pool' = QuarantineSlot(pool, lease[g].slot)
  BY SameMethods DEF FenceFails
<1>3. /\ lease' \in [Leaves -> Lease] /\ \A h \in Leaves : h # g => lease'[h] = lease[h]
      /\ lease'[g].kind = "owner-unsafe" /\ lease'[g].cleaning = lease[g].cleaning
      /\ lease'[g].vm = lease[g].vm
      /\ lease'[g].agentId = lease[g].agentId /\ lease'[g].slot = lease[g].slot
      /\ lease'[g].target = lease[g].target /\ lease'[g].record = lease[g].record
      /\ lease'[g].ssh = lease[g].ssh
  BY <1>1, <1>2 DEF Lease, LeafKinds
<1>4. /\ c.state = "destroying" /\ c.agentId = lease[g].agentId
      /\ c.attached <=> lease[g].vm # "none"
  BY <1>1, <1>2 DEF LeafInv, LeafIsOwned, LeafIsConsistent, StateOfKind, Live
<1>5. ChildMoves(gateway, gateway', g, "owner-unsafe")
  BY <1>1, <1>2, <1>4, MethodsMoveTheChild
<1>6. Live(g) /\ LeafMoves(g)
  BY <1>2, <1>3 DEF Live, LeafMoves, Reachable, GivenUp, Fenced
<1>7. LeafInv(g)'
  <2>1. LeafIsConsistent(g)'
    BY <1>1, <1>2, <1>3 DEF LeafInv, LeafIsConsistent, Fenced
  <2>2. LeafIsOwned(g)'
    BY <1>2, <1>3, <1>4, <1>5 DEF LeafIsOwned, ChildMoves, StateOfKind, Live
  <2> QED BY <2>1, <2>2 DEF LeafInv
<1>8. OwnerStep
  <2>1. ToolVmOf' = ToolVmOf
    BY <1>3, SameVms
  <2>2. Owner!ToolVmUnavailable(g)
    BY <1>2, <1>4, <2>1 DEF Owner!ToolVmUnavailable
  <2> QED BY <2>2, HandleStep DEF Owner!ToolVmStep
<1>9. SlotsFollowLeaves' /\ pool' \in [allocated : SUBSET Slots, quarantined : SUBSET Slots]
  <2>1. \A h \in Leaves : (Live(h)' <=> Live(h)) /\ lease'[h].slot = lease[h].slot
    BY <1>2, <1>3 DEF Live
  <2> QED BY <1>2, <1>6, <2>1, SlotQuarantined
<1> QED BY <1>2, <1>5, <1>6, <1>7, <1>8, <1>9, LeafStep DEF ChildMoves

LEMMA CleanupSucceedsKept ==
  ASSUME ManagerInv, NEW g \in Leaves, CleanupSucceeds(g)
  PROVE  OwnerStep /\ ManagerInv'
<1> DEFINE c == gateway.children[g]
<1>1. /\ lease \in [Leaves -> Lease] /\ lease[g] \in Lease /\ LeafInv(g) /\ c \in Owner!Child
      /\ gateway \in Owner!Membership
      /\ c.state # "absent" => c.agentId \in Agents
  BY InvFacts DEF ManagerInv
<1>2. /\ lease[g].kind = "retiring" /\ UNCHANGED <<epoch, lifecycle, gatewayVm, op, sweep>>
      /\ lease' = [lease EXCEPT ![g].kind = "destroyed", ![g].cleaning = FALSE,
                                ![g].ssh = FALSE, ![g].record = FALSE]
      /\ gateway' = IF c.state = "retiring" THEN Owner!RecordDestroyed(gateway, g) ELSE gateway
      /\ pool' = ReleaseSlot(pool, lease[g].slot)
  BY <1>1, SameMethods DEF CleanupSucceeds, LeafInv, LeafIsConsistent
<1>3. /\ lease' \in [Leaves -> Lease] /\ \A h \in Leaves : h # g => lease'[h] = lease[h]
      /\ lease'[g].kind = "destroyed" /\ ~lease'[g].cleaning /\ ~lease'[g].ssh
      /\ lease'[g].vm = lease[g].vm
      /\ lease'[g].agentId = lease[g].agentId /\ lease'[g].slot = lease[g].slot
      /\ lease'[g].target = lease[g].target
  BY <1>1, <1>2 DEF Lease, LeafKinds
<1>4. /\ c.state \in {"retiring", "absent"}
      /\ c.state # "absent" => c.agentId = lease[g].agentId /\ (c.attached <=> lease[g].vm # "none")
  BY <1>1, <1>2 DEF LeafInv, LeafIsOwned, StateOfKind
<1>5. /\ gateway' \in Owner!Membership /\ gateway'.state = gateway.state
      /\ \A h \in Leaves : h # g => gateway'.children[h] = gateway.children[h]
      /\ c.state # "absent" => ChildMoves(gateway, gateway', g, "destroyed")
  BY <1>1, <1>2, <1>4, MethodsMoveTheChild DEF ChildMoves
<1>6. Live(g) /\ LeafMoves(g)
  BY <1>2, <1>3 DEF Live, LeafMoves, Reachable, GivenUp, Fenced
<1>7. LeafInv(g)'
  <2>1. LeafIsConsistent(g)'
    BY <1>1, <1>2, <1>3 DEF LeafInv, LeafIsConsistent, Fenced
  <2>2. LeafIsOwned(g)'
    BY <1>2, <1>3, <1>4, <1>5 DEF LeafIsOwned, ChildMoves, StateOfKind, Live
  <2> QED BY <2>1, <2>2 DEF LeafInv
<1>8. OwnerStep
  <2>1. ToolVmOf' = ToolVmOf
    BY <1>3, SameVms
  <2>2. CASE c.state # "absent"
    <3>1. Owner!ToolVmDestroyed(g)
      BY <1>2, <1>4, <2>1, <2>2 DEF Owner!ToolVmDestroyed
    <3> QED BY <3>1, HandleStep DEF Owner!ToolVmStep
  <2>3. CASE c.state = "absent"
    BY <1>2, <2>1, <2>3, OwnershipKept DEF ownershipVars
  <2> QED BY <2>2, <2>3
<1>9. SlotsFollowLeaves' /\ pool' \in [allocated : SUBSET Slots, quarantined : SUBSET Slots]
  <2>1. ~Live(g)' /\ \A h \in Leaves : lease'[h].slot = lease[h].slot
    BY <1>3 DEF Live
  <2> QED BY <1>2, <1>3, <1>6, <2>1, SlotReleased
<1> QED BY <1>2, <1>5, <1>6, <1>7, <1>8, <1>9, LeafStep

LEMMA CleanupFailsKept ==
  ASSUME ManagerInv, NEW g \in Leaves, CleanupFails(g)
  PROVE  OwnerStep /\ ManagerInv'
<1>1. lease \in [Leaves -> Lease] /\ lease[g] \in Lease /\ LeafInv(g)
  BY InvFacts DEF ManagerInv
<1>2. /\ lease[g].kind = "retiring" /\ UNCHANGED ownershipVars /\ UNCHANGED <<op, sweep>>
      /\ pool' = QuarantineSlot(pool, lease[g].slot)
  BY <1>1 DEF CleanupFails, LeafInv, LeafIsConsistent
<1>3. PICK closed \in BOOLEAN : lease' = [lease EXCEPT ![g].cleaning = FALSE, ![g].ssh = @ /\ ~closed]
  BY DEF CleanupFails
<1>4. /\ lease' \in [Leaves -> Lease] /\ \A h \in Leaves : h # g => lease'[h] = lease[h]
      /\ lease'[g].kind = lease[g].kind /\ ~lease'[g].cleaning /\ (lease'[g].ssh => lease[g].ssh)
      /\ lease'[g].vm = lease[g].vm
      /\ lease'[g].agentId = lease[g].agentId /\ lease'[g].slot = lease[g].slot
      /\ lease'[g].target = lease[g].target /\ lease'[g].record = lease[g].record
  BY <1>1, <1>3 DEF Lease
<1>5. Live(g) /\ LeafMoves(g)
  BY <1>2, <1>4 DEF Live, LeafMoves, Reachable
<1>6. LeafInv(g)'
  <2>1. gateway' = gateway
    BY <1>2 DEF ownershipVars
  <2>2. LeafIsConsistent(g)'
    BY <1>1, <1>2, <1>4 DEF LeafInv, LeafIsConsistent
  <2>3. LeafIsOwned(g)'
    BY <1>1, <1>4, <2>1 DEF LeafInv, LeafIsOwned, Live
  <2> QED BY <2>2, <2>3 DEF LeafInv
<1>7. OwnerStep
  <2>1. ToolVmOf' = ToolVmOf
    BY <1>4, SameVms
  <2> QED BY <1>2, <2>1, OwnershipKept
<1>8. SlotsFollowLeaves' /\ pool' \in [allocated : SUBSET Slots, quarantined : SUBSET Slots]
  <2>1. \A h \in Leaves : (Live(h)' <=> Live(h)) /\ lease'[h].slot = lease[h].slot
    BY <1>4 DEF Live
  <2> QED BY <1>2, <1>5, <2>1, SlotQuarantined
<1>9. /\ gateway'.state = gateway.state /\ UNCHANGED lifecycle
      /\ \A h \in Leaves : h # g => gateway'.children[h] = gateway.children[h]
  BY <1>2 DEF ownershipVars
<1> QED BY <1>2, <1>5, <1>6, <1>7, <1>8, <1>9, LeafStep

LEMMA DestructionStepKept ==
  ASSUME ManagerInv, NEW g \in Leaves, DestructionStep(g)
  PROVE  OwnerStep /\ ManagerInv'
BY FenceSucceedsKept, FenceFailsKept, CleanupSucceedsKept, CleanupFailsKept DEF DestructionStep

-----------------------------------------------------------------------------
(* Steps of an operation that leave the leaves alone.                      *)

LEMMA OperationMoves ==
  ASSUME ManagerInv, NEW a \in Agents, NEW o \in Operation, op' = [op EXCEPT ![a] = o],
         UNCHANGED ownershipVars, UNCHANGED lease,
         SlotsFollowLeaves', pool' \in [allocated : SUBSET Slots, quarantined : SUBSET Slots],
         sweep' \in Sweep,
         sweep'.phase = sweep.phase,
         o = IdleOp \/ ~Idle(a) \/ \E g \in Leaves : Live(g),
         OperationIsConsistent(a)', CreationIsAlone(a)', FenceIsAwaited(a)'
  PROVE  OwnerStep /\ ManagerInv'
<1>1. /\ op \in [Agents -> Operation] /\ op' \in [Agents -> Operation]
      /\ \A b \in Agents : b # a => op'[b] = op[b]
      /\ op'[a] = o
  BY InvFacts
<1>2. gateway' = gateway /\ lifecycle' = lifecycle
  BY DEF ownershipVars
<1>3. TypeOK'
  BY <1>1 DEF ManagerInv, TypeOK
<1>4. OwnerStep
  BY OwnershipKept DEF ToolVmOf
<1>5. \A g \in Leaves : LeafInv(g)'
  BY <1>2, LeafKept DEF ManagerInv
<1>6. \A b \in Agents : AgentInv(b)'
  <2>1. \A b \in Agents : b # a => AgentInv(b)'
    BY <1>1, OtherAgentsKept
  <2>2. OneIsReachable(a)'
    BY DEF ManagerInv, AgentInv, OneIsReachable, Reachable
  <2> QED BY <2>1, <2>2 DEF AgentInv
<1>7. QuietWhenClosed'
  <2>1. CASE o = IdleOp
    <3>1. \A b \in Agents : Idle(b) => Idle(b)'
      BY <1>1, <2>1 DEF Idle, IdleOp
    <3>2. \A g \in Leaves : ~Live(g) => ~Live(g)'
      BY DEF Live
    <3> QED BY <1>2, <3>1, <3>2 DEF ManagerInv, QuietWhenClosed
  <2>2. CASE ~Idle(a) \/ \E g \in Leaves : Live(g)
    BY <1>2, <2>2, QuietKept DEF ManagerInv
  <2> QED BY <2>1, <2>2
<1> QED BY <1>3, <1>4, <1>5, <1>6, <1>7, InvAssembled

\* The operation ends, when no fence of a leaf of its agent is under way.
LEMMA OperationEnds ==
  ASSUME ManagerInv, NEW a \in Agents, op' = [op EXCEPT ![a] = IdleOp],
         UNCHANGED ownershipVars, UNCHANGED lease,
         SlotsFollowLeaves', pool' \in [allocated : SUBSET Slots, quarantined : SUBSET Slots],
         sweep' \in Sweep,
         sweep'.phase = sweep.phase,
         \A g \in Leaves : lease[g].agentId = a => lease[g].kind # "destroying"
  PROVE  OwnerStep /\ ManagerInv'
<1>1. IdleOp \in Operation /\ op'[a] = IdleOp
  BY InvFacts DEF IdleOp, Operation
<1>2. OperationIsConsistent(a)' /\ CreationIsAlone(a)'
  BY <1>1 DEF OperationIsConsistent, CreationIsAlone, IdleOp, CreationStages
<1>3. FenceIsAwaited(a)'
  BY DEF FenceIsAwaited
<1> QED BY <1>1, <1>2, <1>3, OperationMoves

LEMMA ProbeBegins ==
  ASSUME ManagerInv, NEW a \in Agents, NEW g \in Leaves, ReuseLease(a, g) \/ ProbeLease(a, g)
  PROVE  OwnerStep /\ ManagerInv'
<1>1. PICK s \in {"reuse-probe", "evict-probe"} :
        op' = [op EXCEPT ![a] = [stage |-> s, leaf |-> g, pred |-> NoLeaf]]
  BY DEF ReuseLease, ProbeLease
<1>2. /\ Idle(a) /\ IsCurrent(a, g) /\ UNCHANGED ownershipVars /\ UNCHANGED <<lease, pool, sweep>>
  BY DEF ReuseLease, ProbeLease
<1> DEFINE o == [stage |-> s, leaf |-> g, pred |-> NoLeaf]
<1>3. o \in Operation /\ op'[a] = o
  BY <1>1, InvFacts DEF Operation
<1>4. OperationIsConsistent(a)' /\ CreationIsAlone(a)'
  BY <1>2, <1>3, InvFacts DEF OperationIsConsistent, CreationIsAlone, IsCurrent, CreationStages
<1>5. FenceIsAwaited(a)'
  BY <1>2, InvFacts DEF ManagerInv, AgentInv, FenceIsAwaited, OperationIsConsistent, Idle
<1>6. Live(g)
  BY <1>2 DEF IsCurrent, Live
<1>7. /\ SlotsFollowLeaves' /\ pool' \in [allocated : SUBSET Slots, quarantined : SUBSET Slots]
      /\ sweep' \in Sweep
  BY <1>2, InvFacts DEF ManagerInv, TypeOK, SlotsFollowLeaves, Live
<1> QED BY <1>1, <1>2, <1>3, <1>4, <1>5, <1>6, <1>7, OperationMoves

LEMMA ProbeAnsweredKept ==
  ASSUME ManagerInv, NEW a \in Agents, ProbeAnswered(a)
  PROVE  OwnerStep /\ ManagerInv'
<1>1. /\ op[a].stage \in {"reuse-probe", "evict-probe"} /\ op' = [op EXCEPT ![a] = IdleOp]
      /\ UNCHANGED ownershipVars /\ UNCHANGED <<lease, pool, sweep>>
  BY DEF ProbeAnswered
<1>2. \A g \in Leaves : lease[g].agentId = a => lease[g].kind # "destroying"
  BY <1>1, InvFacts DEF ManagerInv, AgentInv, FenceIsAwaited, OperationIsConsistent
<1>3. /\ SlotsFollowLeaves' /\ pool' \in [allocated : SUBSET Slots, quarantined : SUBSET Slots]
      /\ sweep' \in Sweep
  BY <1>1, InvFacts DEF ManagerInv, TypeOK, SlotsFollowLeaves, Live
<1> QED BY <1>1, <1>2, <1>3, OperationEnds

LEMMA OperationSettlesKept ==
  ASSUME ManagerInv, NEW a \in Agents, OperationSettles(a)
  PROVE  OwnerStep /\ ManagerInv'
<1>1. /\ op[a].stage \in {"settle", "cleanup"} /\ op' = [op EXCEPT ![a] = IdleOp]
      /\ op[a].stage = "cleanup" => lease[op[a].leaf].kind # "destroying"
      /\ op[a].pred # NoLeaf => lease[op[a].pred].kind # "destroying"
      /\ UNCHANGED ownershipVars /\ UNCHANGED <<lease, pool, sweep>>
  BY DEF OperationSettles, InFlight
<1>2. \A g \in Leaves : lease[g].agentId = a => lease[g].kind # "destroying"
  BY <1>1, InvFacts DEF ManagerInv, AgentInv, FenceIsAwaited
<1>3. /\ SlotsFollowLeaves' /\ pool' \in [allocated : SUBSET Slots, quarantined : SUBSET Slots]
      /\ sweep' \in Sweep
  BY <1>1, InvFacts DEF ManagerInv, TypeOK, SlotsFollowLeaves, Live
<1> QED BY <1>1, <1>2, <1>3, OperationEnds

LEMMA FallbackFailsKept ==
  ASSUME ManagerInv, NEW a \in Agents, FallbackFails(a)
  PROVE  OwnerStep /\ ManagerInv'
<1> DEFINE o == [op[a] EXCEPT !.stage = "settle"]
<1>1. /\ op[a].stage = "fallback" /\ op' = [op EXCEPT ![a] = o]
      /\ UNCHANGED ownershipVars /\ UNCHANGED <<lease, pool, sweep>>
  BY DEF FallbackFails
<1>2. /\ o \in Operation /\ op'[a] = o /\ o.stage = "settle" /\ o.leaf = op[a].leaf /\ o.pred = op[a].pred
  BY <1>1, InvFacts DEF Operation
<1> HIDE DEF o
<1>3. AgentInv(a) /\ ~Idle(a)
  BY <1>1 DEF ManagerInv, Idle
<1>4. OperationIsConsistent(a)' /\ CreationIsAlone(a)'
  BY <1>1, <1>2, <1>3 DEF AgentInv, OperationIsConsistent, CreationIsAlone, CreationStages
<1>5. FenceIsAwaited(a)'
  BY <1>1, <1>2, <1>3 DEF AgentInv, FenceIsAwaited
<1>6. /\ SlotsFollowLeaves' /\ pool' \in [allocated : SUBSET Slots, quarantined : SUBSET Slots]
      /\ sweep' \in Sweep
  BY <1>1, InvFacts DEF ManagerInv, TypeOK, SlotsFollowLeaves, Live
<1> QED BY <1>1, <1>2, <1>3, <1>4, <1>5, <1>6, OperationMoves

\* The sweep has no leaf of the agent under way.
LEMMA NothingIsFenced ==
  ASSUME ManagerInv, NEW a \in Agents,
         Idle(a) \/ (op[a].stage = "sweep" /\ ~Live(op[a].leaf))
  PROVE  \A g \in Leaves : lease[g].agentId = a => lease[g].kind # "destroying"
<1> SUFFICES ASSUME NEW g \in Leaves, lease[g].agentId = a, lease[g].kind = "destroying" PROVE FALSE
  OBVIOUS
<1>1. AgentInv(a) /\ NoLeaf \notin Leaves
  BY InvFacts DEF ManagerInv
<1>2. op[a].pred = NoLeaf
  BY <1>1 DEF AgentInv, OperationIsConsistent, Idle
<1>3. op[a].stage = "sweep" /\ op[a].leaf = g
  BY <1>1, <1>2 DEF AgentInv, FenceIsAwaited, Idle
<1> QED BY <1>3 DEF Live, Idle

LEMMA AgentSweptKept ==
  ASSUME ManagerInv, NEW a \in Agents, AgentSwept(a)
  PROVE  OwnerStep /\ ManagerInv'
<1>1. /\ op' = [op EXCEPT ![a] = IdleOp]
      /\ Idle(a) \/ (op[a].stage = "sweep" /\ ~Live(op[a].leaf))
      /\ UNCHANGED ownershipVars /\ UNCHANGED <<lease, pool>>
      /\ sweep' = [sweep EXCEPT !.todo = @ \ {a}]
  BY DEF AgentSwept, SweepGoesOn
<1>2. \A g \in Leaves : lease[g].agentId = a => lease[g].kind # "destroying"
  BY <1>1, NothingIsFenced
<1>3. SlotsFollowLeaves' /\ pool' \in [allocated : SUBSET Slots, quarantined : SUBSET Slots]
  BY <1>1, InvFacts DEF ManagerInv, SlotsFollowLeaves, Live
<1>4. /\ sweep' \in Sweep
      /\ sweep'.phase = sweep.phase
  BY <1>1 DEF ManagerInv, TypeOK, Sweep
<1> QED BY <1>1, <1>2, <1>3, <1>4, OperationEnds

LEMMA SweepGivesUpKept ==
  ASSUME ManagerInv, NEW a \in Agents, AgentNotSwept(a) \/ ListedLeafGone(a)
  PROVE  OwnerStep /\ ManagerInv'
<1> DEFINE g == op[a].leaf
<1>1. /\ op' = [op EXCEPT ![a] = IdleOp]
      /\ UNCHANGED ownershipVars /\ UNCHANGED lease
      /\ sweep' = [sweep EXCEPT !.todo = @ \ {a}, !.failed = TRUE, !.snapshot[a] = {}]
  BY DEF AgentNotSwept, ListedLeafGone, SweepGivesUp
<1>2. /\ \A h \in Leaves : lease[h].agentId = a => lease[h].kind # "destroying"
      /\ SlotsFollowLeaves' /\ pool' \in [allocated : SUBSET Slots, quarantined : SUBSET Slots]
  <2>1. CASE AgentNotSwept(a)
    <3>1. /\ op[a].stage = "sweep" /\ Live(g) /\ lease[g].kind # "destroying"
          /\ pool' = QuarantineSlot(pool, lease[g].slot)
      BY <2>1 DEF AgentNotSwept, InFlight
    <3>2. AgentInv(a) /\ g \in Leaves /\ op[a].pred = NoLeaf
      BY <3>1, InvFacts, ZenonT(60) DEF ManagerInv, AgentInv, OperationIsConsistent, Operation
    <3>3. \A h \in Leaves : lease[h].agentId = a => lease[h].kind # "destroying"
      BY <3>1, <3>2, InvFacts DEF AgentInv, FenceIsAwaited
    <3> HIDE DEF g
    <3>4. SlotsFollowLeaves' /\ pool' \in [allocated : SUBSET Slots, quarantined : SUBSET Slots]
      BY <1>1, <3>1, <3>2, SlotQuarantined DEF Live
    <3> QED BY <3>3, <3>4
  <2>2. CASE ListedLeafGone(a)
    <3>1. pool' = pool /\ (Idle(a) \/ (op[a].stage = "sweep" /\ ~Live(op[a].leaf)))
      BY <2>2 DEF ListedLeafGone, SweepGoesOn
    <3>2. SlotsFollowLeaves' /\ pool' \in [allocated : SUBSET Slots, quarantined : SUBSET Slots]
      BY <1>1, <3>1, InvFacts DEF ManagerInv, SlotsFollowLeaves, Live
    <3> QED BY <3>1, <3>2, NothingIsFenced
  <2> QED BY <2>1, <2>2
<1>3. /\ sweep' \in Sweep
      /\ sweep'.phase = sweep.phase
  BY <1>1 DEF ManagerInv, TypeOK, Sweep
<1> QED BY <1>1, <1>2, <1>3, OperationEnds

-----------------------------------------------------------------------------
(* Steps of an operation and its leaf.                                     *)

\* The operation of agent a moves, and with it leaf g of the agent.
OperationMovesLeaf(a, g) ==
  /\ lease[g].agentId = a /\ lease'[g].agentId = a /\ lease'[g].slot = lease[g].slot
  /\ Live(g) /\ Live(g)'
  /\ lease' \in [Leaves -> Lease] /\ op' \in [Agents -> Operation]
  /\ \A h \in Leaves : h # g => lease'[h] = lease[h]
  /\ \A b \in Agents : b # a => op'[b] = op[b]
  /\ UNCHANGED <<lifecycle, pool>>
  /\ sweep' \in Sweep /\ sweep'.phase = sweep.phase
  /\ gateway'.state = gateway.state
  /\ \A h \in Leaves : h # g => gateway'.children[h] = gateway.children[h]

LEMMA OperationMovesLeafKept ==
  ASSUME ManagerInv, NEW a \in Agents, NEW g \in Leaves, OperationMovesLeaf(a, g),
         OwnerStep, LeafInv(g)', AgentInv(a)'
  PROVE  ManagerInv'
<1> USE DEF OperationMovesLeaf
<1>1. TypeOK'
  BY DEF ManagerInv, TypeOK
<1>2. \A h \in Leaves : LeafInv(h)'
  BY LeafKept DEF ManagerInv
<1>3. \A b \in Agents : AgentInv(b)'
  BY OtherAgentsKept
<1>4. SlotsFollowLeaves'
  <2>1. \A h \in Leaves : (Live(h)' <=> Live(h)) /\ lease'[h].slot = lease[h].slot
    BY DEF Live
  <2> QED BY <2>1, SlotsKept DEF ManagerInv
<1>5. QuietWhenClosed'
  BY QuietKept DEF ManagerInv
<1> QED BY <1>1, <1>2, <1>3, <1>4, <1>5, InvAssembled

LEMMA CreationFacts ==
  ASSUME ManagerInv, NEW a \in Agents, op[a].stage \in CreationStages \cup {"fallback"},
         NEW g, g = op[a].leaf
  PROVE  /\ g \in Leaves /\ lease[g] \in Lease /\ LeafInv(g) /\ AgentInv(a) /\ Live(g)
         /\ lease[g].kind = "provisioning" /\ lease[g].agentId = a
         /\ op[a] \in Operation /\ op[a].pred # g /\ op[a].pred \in Leaves \cup {NoLeaf}
         /\ gateway.children[g] \in Owner!Child
         /\ gateway.children[g].state = "provisional" /\ gateway.children[g].agentId = a
         /\ gateway.children[g].attached <=> lease[g].vm # "none"
<1>1. /\ g \in Leaves /\ lease[g] \in Lease /\ op[a] \in Operation
      /\ LeafInv(g) /\ AgentInv(a) /\ lease[g].kind = "provisioning" /\ lease[g].agentId = a
  BY InvFacts DEF ManagerInv, AgentInv, OperationIsConsistent, Operation
<1>2. op[a].pred # g /\ op[a].pred \in Leaves \cup {NoLeaf} /\ Live(g)
  BY <1>1, InvFacts DEF AgentInv, OperationIsConsistent, Operation, GivenUp, Live
<1>3. /\ gateway.children[g].state = "provisional" /\ gateway.children[g].agentId = a
      /\ gateway.children[g].attached <=> lease[g].vm # "none"
  BY <1>1 DEF LeafInv, LeafIsOwned, StateOfKind
<1> QED BY <1>1, <1>2, <1>3, InvFacts

\* The creation of a lease gets to its next await.
LEMMA CreationMovesKept ==
  ASSUME ManagerInv, NEW a \in Agents, NEW g, g = op[a].leaf, NEW s \in CreationStages, NEW l \in Lease,
         op[a].stage \in CreationStages, CreationMoves(a, s, l),
         l.kind = "provisioning", l.agentId = a, l.slot = lease[g].slot, ~l.ssh,
         l.cleaning = lease[g].cleaning, l.target => l.vm # "none", l.vm # "gone",
         s = "create" => l.vm = "none",
         s = "start" => l.vm = "created",
         s \in {"write", "barrier", "ssh"} => l.target,
         s \in {"barrier", "ssh"} => l.record,
         s = "barrier" => op[a].pred # NoLeaf,
         s = "ssh" /\ op[a].pred # NoLeaf => lease[op[a].pred].kind \in Fenced,
         OwnerStep, ChildMoves(gateway, gateway', g, "provisional") \/ ChildIsAttached(gateway, gateway', g),
         gateway'.children[g].attached <=> l.vm # "none"
  PROVE  ManagerInv'
<1>1. /\ g \in Leaves /\ lease[g] \in Lease /\ LeafInv(g) /\ AgentInv(a) /\ Live(g)
      /\ lease[g].kind = "provisioning" /\ lease[g].agentId = a /\ ~lease[g].ssh
      /\ op[a] \in Operation /\ op[a].pred # g /\ op[a].pred \in Leaves \cup {NoLeaf}
      /\ gateway.children[g].state = "provisional" /\ gateway.children[g].agentId = a
  BY CreationFacts DEF AgentInv, OperationIsConsistent
<1>2. /\ lease' = [lease EXCEPT ![g] = l] /\ op' = [op EXCEPT ![a].stage = s]
      /\ UNCHANGED <<epoch, lifecycle, gatewayVm, pool, sweep>>
  BY DEF CreationMoves
<1>3. /\ lease' \in [Leaves -> Lease] /\ lease'[g] = l /\ \A h \in Leaves : h # g => lease'[h] = lease[h]
  BY <1>1, <1>2, InvFacts
<1>4. /\ op' \in [Agents -> Operation] /\ \A b \in Agents : b # a => op'[b] = op[b]
  BY <1>1, <1>2, InvFacts DEF Operation
<1>5. op'[a].stage = s /\ op'[a].leaf = g /\ op'[a].pred = op[a].pred
  BY <1>1, <1>2, InvFacts DEF Operation
<1>6. /\ gateway'.state = gateway.state
      /\ \A h \in Leaves : h # g => gateway'.children[h] = gateway.children[h]
      /\ gateway'.children[g].state = "provisional" /\ gateway'.children[g].agentId = a
  BY <1>1 DEF ChildMoves, ChildIsAttached
<1>7. OperationMovesLeaf(a, g)
  BY InvFacts, <1>1, <1>2, <1>3, <1>4, <1>6 DEF OperationMovesLeaf, Live
<1>8. LeafInv(g)'
  <2>1. LeafIsConsistent(g)'
    BY <1>1, <1>3 DEF LeafInv, LeafIsConsistent, Fenced
  <2>2. LeafIsOwned(g)'
    BY <1>3, <1>6 DEF LeafIsOwned, StateOfKind
  <2> QED BY <2>1, <2>2 DEF LeafInv
<1>9. AgentInv(a)'
  <2>1. OperationIsConsistent(a)'
    <3>1. op[a].pred # NoLeaf => lease'[op[a].pred] = lease[op[a].pred]
      BY <1>1, <1>3
    <3>2. g # NoLeaf
      BY <1>1, InvFacts
    <3> QED BY <1>1, <1>3, <1>5, <3>1, <3>2 DEF AgentInv, OperationIsConsistent, CreationStages
  <2>2. CreationIsAlone(a)'
    BY <1>1, <1>3, <1>5 DEF AgentInv, CreationIsAlone
  <2>3. FenceIsAwaited(a)'
    BY <1>1, <1>3, <1>5 DEF AgentInv, FenceIsAwaited, CreationStages
  <2>4. OneIsReachable(a)'
    <3>1. ~Reachable(g)'
      BY <1>3 DEF Reachable
    <3>2. \A h \in Leaves : h # g => (Reachable(h)' <=> Reachable(h))
      BY <1>3 DEF Reachable
    <3> QED BY <1>1, <1>3, <3>1, <3>2 DEF AgentInv, OneIsReachable
  <2> QED BY <2>1, <2>2, <2>3, <2>4 DEF AgentInv
<1> QED BY <1>1, <1>7, <1>8, <1>9, OperationMovesLeafKept

LEMMA VmCreatedKept ==
  ASSUME ManagerInv, NEW a \in Agents, VmCreated(a)
  PROVE  OwnerStep /\ ManagerInv'
<1> DEFINE g == op[a].leaf
           l == [lease[g] EXCEPT !.vm = "created"]
<1>1. op[a].stage = "create" /\ "start" \in CreationStages /\ op[a].stage \in CreationStages
  BY DEF VmCreated, CreationStages
<1>2. /\ g \in Leaves /\ lease[g] \in Lease /\ AgentInv(a) /\ lease[g].kind = "provisioning"
      /\ lease[g].agentId = a /\ lease[g].vm = "none" /\ ~lease[g].ssh
      /\ gateway.children[g].state = "provisional" /\ gateway.children[g].agentId = a
      /\ gateway.children[g].attached <=> lease[g].vm # "none"
  BY <1>1, CreationFacts DEF AgentInv, OperationIsConsistent
<1>3. /\ CreationMoves(a, "start", l) /\ gateway' = Owner!AttachToolVm(gateway, g)
  BY SameMethods DEF VmCreated
<1>4. /\ l \in Lease /\ l.vm = "created" /\ l.kind = lease[g].kind /\ l.agentId = lease[g].agentId
      /\ l.slot = lease[g].slot /\ l.ssh = lease[g].ssh /\ l.cleaning = lease[g].cleaning
  BY <1>2 DEF Lease
<1> HIDE DEF g, l
<1>5. ChildIsAttached(gateway, gateway', g)
  BY <1>2, <1>3, MethodsMoveTheChild, InvFacts
<1>6. /\ UNCHANGED <<epoch, lifecycle, gatewayVm>> /\ lease' = [lease EXCEPT ![g] = l]
  BY <1>3 DEF CreationMoves, g
<1>7. OwnerStep
  <2>1. ToolVmOf' = [ToolVmOf EXCEPT ![g] = "running"]
    BY <1>2, <1>4, <1>6, InvFacts DEF ToolVmOf
  <2>2. Owner!ToolVmAttached(g)
    BY <1>2, <1>3, <1>6, <2>1 DEF Owner!ToolVmAttached
  <2> QED BY <1>2, <2>2, HandleStep DEF Owner!ToolVmStep
<1>8. ManagerInv'
  BY <1>1, <1>2, <1>3, <1>4, <1>5, <1>7, CreationMovesKept, SMTT(60) DEF g, ChildIsAttached
<1> QED BY <1>7, <1>8

\* The creation moves on and the coordinator is not told.
LEMMA CreationMovesAlone ==
  ASSUME ManagerInv, NEW a \in Agents, NEW g, g = op[a].leaf, NEW s \in CreationStages, NEW l \in Lease,
         op[a].stage \in CreationStages, CreationMoves(a, s, l), UNCHANGED gateway,
         l.kind = "provisioning", l.agentId = a, l.slot = lease[g].slot, ~l.ssh,
         l.cleaning = lease[g].cleaning,
         lease[g].vm # "none", l.vm \notin {"none", "gone"}, l.vm = lease[g].vm \/ lease[g].vm # "gone",
         s \notin {"create", "start"},
         s \in {"write", "barrier", "ssh"} => l.target,
         s \in {"barrier", "ssh"} => l.record,
         s = "barrier" => op[a].pred # NoLeaf,
         s = "ssh" /\ op[a].pred # NoLeaf => lease[op[a].pred].kind \in Fenced
  PROVE  OwnerStep /\ ManagerInv'
<1>1. /\ g \in Leaves /\ gateway.children[g].state = "provisional"
      /\ gateway.children[g].attached <=> lease[g].vm # "none"
  BY CreationFacts
<1>2. /\ UNCHANGED <<epoch, lifecycle, gatewayVm>> /\ lease' = [lease EXCEPT ![g] = l]
  BY DEF CreationMoves
<1>3. OwnerStep
  <2>1. ToolVmOf' = ToolVmOf
    BY <1>1, <1>2, InvFacts, SameVms
  <2> QED BY <1>2, <2>1, OwnershipKept DEF ownershipVars
<1>4. ChildMoves(gateway, gateway', g, "provisional")
  BY <1>1, InvFacts DEF ChildMoves
<1>5. ManagerInv'
  BY <1>1, <1>3, <1>4, CreationMovesKept
<1> QED BY <1>3, <1>5

LEMMA CreationStepKept ==
  ASSUME ManagerInv, NEW a \in Agents,
         VmStarted(a) \/ RecordBuilt(a) \/ RecordWritten(a) \/ BarrierPassed(a)
  PROVE  OwnerStep /\ ManagerInv'
<1> DEFINE g == op[a].leaf
<1>1. op[a].stage \in {"start", "record", "write", "barrier"} /\ op[a].stage \in CreationStages
      /\ {"record", "write", "barrier", "ssh"} \subseteq CreationStages
  BY DEF VmStarted, RecordBuilt, RecordWritten, BarrierPassed, CreationStages
<1>2. /\ g \in Leaves /\ lease[g] \in Lease /\ LeafIsConsistent(g)
      /\ lease[g].kind = "provisioning"
      /\ lease[g].agentId = a /\ op[a].pred \in Leaves \cup {NoLeaf}
  BY <1>1, CreationFacts DEF LeafInv
<1>3. /\ ~lease[g].ssh
      /\ op[a].stage = "start" => lease[g].vm = "created"
      /\ op[a].stage \in {"write", "barrier"} => lease[g].target
      /\ op[a].stage = "barrier" => lease[g].record /\ op[a].pred # NoLeaf
  BY <1>1 DEF ManagerInv, AgentInv, OperationIsConsistent
<1>4. lease[g].target => lease[g].vm # "none"
  BY <1>2 DEF LeafIsConsistent
<1> HIDE DEF g
<1>5. CASE VmStarted(a)
  <2> DEFINE l == [lease[g] EXCEPT !.vm = "running"]
  <2>1. /\ l \in Lease /\ l.vm = "running" /\ l.kind = lease[g].kind /\ l.agentId = lease[g].agentId
        /\ l.slot = lease[g].slot /\ l.ssh = lease[g].ssh /\ l.cleaning = lease[g].cleaning
    BY <1>2 DEF Lease
  <2>2. op[a].stage = "start" /\ CreationMoves(a, "record", l) /\ UNCHANGED gateway
    BY <1>5 DEF VmStarted, g
  <2> HIDE DEF l
  <2> QED BY <1>1, <1>2, <1>3, <2>1, <2>2, CreationMovesAlone DEF g
<1>6. CASE RecordBuilt(a)
  <2> DEFINE l == [lease[g] EXCEPT !.target = TRUE]
  <2>1. /\ l \in Lease /\ l.target /\ l.kind = lease[g].kind /\ l.agentId = lease[g].agentId
        /\ l.slot = lease[g].slot /\ l.ssh = lease[g].ssh /\ l.cleaning = lease[g].cleaning
        /\ l.vm = lease[g].vm
    BY <1>2 DEF Lease
  <2>2. lease[g].vm = "running" /\ CreationMoves(a, "write", l) /\ UNCHANGED gateway
    BY <1>6 DEF RecordBuilt, g
  <2> HIDE DEF l
  <2> QED BY <1>1, <1>2, <1>3, <2>1, <2>2, CreationMovesAlone DEF g
<1>7. CASE RecordWritten(a)
  <2> DEFINE l == [lease[g] EXCEPT !.record = TRUE]
             s == IF op[a].pred = NoLeaf THEN "ssh" ELSE "barrier"
  <2>1. /\ l \in Lease /\ l.record /\ l.kind = lease[g].kind /\ l.agentId = lease[g].agentId
        /\ l.slot = lease[g].slot /\ l.ssh = lease[g].ssh /\ l.cleaning = lease[g].cleaning
        /\ l.vm = lease[g].vm /\ l.target = lease[g].target
    BY <1>2 DEF Lease
  <2>2. op[a].stage = "write" /\ CreationMoves(a, s, l) /\ UNCHANGED gateway
    BY <1>7 DEF RecordWritten, g
  <2>3. s \in CreationStages /\ s \in {"ssh", "barrier"} /\ (s = "ssh" <=> op[a].pred = NoLeaf)
    BY <1>1
  <2>4. lease[g].vm \notin {"none", "gone"}
    <3>1. lease[g].vm # "gone"
      BY <1>2 DEF LeafIsConsistent, Fenced
    <3> QED BY <1>3, <1>4, <2>2, <3>1
  <2> HIDE DEF l, s
  <2> QED BY <1>1, <1>2, <1>3, <2>1, <2>2, <2>3, <2>4, CreationMovesAlone DEF g
<1>8. CASE BarrierPassed(a)
  <2>1. /\ op[a].stage = "barrier" /\ lease[op[a].pred].kind \in Fenced
        /\ CreationMoves(a, "ssh", lease[g]) /\ UNCHANGED gateway
    BY <1>8 DEF BarrierPassed, g, Fenced
  <2>2. lease[g].vm \notin {"none", "gone"}
    <3>1. lease[g].vm # "gone"
      BY <1>2 DEF LeafIsConsistent, Fenced
    <3> QED BY <1>3, <1>4, <2>1, <3>1
  <2> QED BY <1>1, <1>2, <1>3, <2>1, <2>2, CreationMovesAlone DEF g
<1> QED BY <1>5, <1>6, <1>7, <1>8

-----------------------------------------------------------------------------
(* Retirement of a leaf.                                                   *)

\* startExactDestruction: the leaf gets a fence, or what it has goes on.
LEMMA RetiredLeafIs ==
  ASSUME NEW l \in [Leaves -> Lease], NEW g \in Leaves, l[g].cleaning => l[g].kind = "retiring"
  PROVE  LET n == RetiredLeaf(l, g) IN
         /\ n \in [Leaves -> Lease] /\ \A h \in Leaves : h # g => n[h] = l[h]
         /\ n[g].kind = IF l[g].kind = "retiring" THEN "retiring" ELSE "destroying"
         /\ n[g].agentId = l[g].agentId /\ n[g].slot = l[g].slot /\ n[g].vm = l[g].vm
         /\ n[g].target = l[g].target /\ n[g].record = l[g].record /\ n[g].ssh = l[g].ssh
         /\ n[g].cleaning => n[g].kind = "retiring"
<1> DEFINE n == RetiredLeaf(l, g)
<1>1. l[g] \in Lease
  OBVIOUS
<1>2. CASE InFlight(l, g)
  <2>1. n = l
    BY <1>2 DEF RetiredLeaf
  <2> HIDE DEF n
  <2>2. CASE l[g].kind = "destroying"
    BY <2>1, <2>2 DEF n
  <2>3. CASE l[g].cleaning
    BY <2>1, <2>3 DEF n
  <2> QED BY <1>2, <2>2, <2>3 DEF InFlight
<1>3. CASE ~InFlight(l, g) /\ l[g].kind = "retiring"
  <2>1. n = [l EXCEPT ![g].cleaning = TRUE]
    BY <1>3 DEF RetiredLeaf
  <2> HIDE DEF n
  <2>2. /\ n \in [Leaves -> Lease] /\ \A h \in Leaves : h # g => n[h] = l[h]
        /\ n[g].kind = "retiring"
        /\ n[g].agentId = l[g].agentId /\ n[g].slot = l[g].slot /\ n[g].vm = l[g].vm
        /\ n[g].target = l[g].target /\ n[g].record = l[g].record /\ n[g].ssh = l[g].ssh
    BY <1>1, <1>3, <2>1 DEF Lease
  <2> QED BY <1>3, <2>2 DEF n
<1>4. CASE ~InFlight(l, g) /\ l[g].kind # "retiring"
  <2>1. n = [l EXCEPT ![g].kind = "destroying", ![g].work = RolloverWork(@)]
    BY <1>4 DEF RetiredLeaf
  <2>2. RolloverWork(l[g].work) \in {"none", "running", "gap", "ambiguous"}
    BY <1>1 DEF RolloverWork, Lease
  <2> HIDE DEF n
  <2>3. /\ n \in [Leaves -> Lease] /\ \A h \in Leaves : h # g => n[h] = l[h]
        /\ n[g].kind = "destroying"
        /\ n[g].agentId = l[g].agentId /\ n[g].slot = l[g].slot /\ n[g].vm = l[g].vm
        /\ n[g].target = l[g].target /\ n[g].record = l[g].record /\ n[g].ssh = l[g].ssh
        /\ n[g].cleaning = l[g].cleaning
    BY <1>1, <2>1, <2>2 DEF Lease, LeafKinds
  <2> QED BY <1>4, <2>3 DEF n
<1> QED BY <1>2, <1>3, <1>4

\* The coordinator is told of it before the first await.
LEMMA RetiredMembershipIs ==
  ASSUME ManagerInv, NEW g \in Leaves, Live(g)
  PROVE  LET c == gateway.children[g]
             m == RetiredMembership(gateway, g)
         IN /\ m \in Owner!Membership /\ m.state = gateway.state
            /\ \A h \in Leaves : h # g => m.children[h] = gateway.children[h]
            /\ \/ /\ c.state \in {"provisional", "current", "owner-unsafe"}
                  /\ lease[g].kind # "retiring"
                  /\ m = Owner!BeginDestroying(gateway, g)
                  /\ ChildMoves(gateway, m, g, "destroying")
               \/ /\ c.state \in {"destroying", "retiring"} /\ m = gateway
                  /\ c.state = lease[g].kind
               \/ c.state = "absent" /\ m = gateway
<1> DEFINE c == gateway.children[g]
           m == RetiredMembership(gateway, g)
<1>1. /\ gateway \in Owner!Membership /\ LeafInv(g) /\ lease[g].kind \in LeafKinds
      /\ c.state # "absent" => c.agentId \in Agents
  BY InvFacts DEF ManagerInv, Lease
<1>2. c.state # "absent" => /\ c.state = StateOfKind(lease[g].kind)
                            /\ c.state \in {"provisional", "current", "owner-unsafe", "destroying", "retiring"}
  BY <1>1 DEF LeafInv, LeafIsOwned, StateOfKind, Live, LeafKinds
<1>3. CASE c.state \in {"provisional", "current", "owner-unsafe"}
  <2>1. m = Owner!BeginDestroying(gateway, g)
    BY <1>3, SameMethods DEF RetiredMembership
  <2>2. ChildMoves(gateway, Owner!BeginDestroying(gateway, g), g, "destroying")
    BY <1>1, <1>3, MethodsMoveTheChild
  <2>3. lease[g].kind # "retiring"
    BY <1>2, <1>3 DEF StateOfKind
  <2> HIDE DEF m
  <2> QED BY <1>3, <2>1, <2>2, <2>3 DEF ChildMoves, m
<1>4. CASE c.state \notin {"provisional", "current", "owner-unsafe"}
  <2>1. m = gateway
    BY <1>4 DEF RetiredMembership
  <2>2. c.state # "absent" => c.state \in {"destroying", "retiring"} /\ c.state = lease[g].kind
    BY <1>2, <1>4 DEF StateOfKind
  <2> QED BY <1>1, <2>1, <2>2
<1> QED BY <1>3, <1>4

\* An operation of agent a leaves leaf g as l[g], live and as the agent's.
LeafLeftAs(a, g, l) ==
  /\ Live(g) /\ lease[g].agentId = a
  /\ l \in [Leaves -> Lease] /\ \A h \in Leaves : h # g => l[h] = lease[h]
  /\ l[g].kind = lease[g].kind /\ l[g].agentId = a /\ l[g].slot = lease[g].slot
  /\ l[g].cleaning => lease[g].cleaning
  /\ l[g].vm = lease[g].vm \/ (l[g].vm \notin {"none", "gone"} /\ lease[g].vm \notin {"none", "gone"})
  /\ l[g].target => l[g].vm # "none"
  /\ l[g].ssh => l[g].record
  /\ \/ l[g].ssh /\ l[g].vm = "running" => Reachable(g)
     \/ \A h \in Leaves : h # g /\ lease[h].agentId = a => ~Reachable(h)

\* Operation o waits for leaf g, and for every other fence of agent a.
WaitsFor(a, g, o) ==
  /\ o \in Operation
  /\ o.stage \in {"settle", "cleanup", "sweep"} /\ o.leaf \in {NoLeaf, g}
  /\ o.stage \in {"cleanup", "sweep"} => o.leaf = g
  /\ o.stage = "settle" => o.pred = g
  /\ o.stage = "sweep" => o.pred = NoLeaf
  /\ o.pred \in {NoLeaf, g, op[a].pred}
  /\ \A h \in Leaves : h # g /\ lease[h].agentId = a /\ lease[h].kind = "destroying" => o.pred = h

\* Leaf g of agent a is retired, in the state l in which its operation leaves it.
LEMMA LeafRetired ==
  ASSUME ManagerInv, NEW a \in Agents, NEW g \in Leaves, NEW l, LeafLeftAs(a, g, l),
         lease' = RetiredLeaf(l, g), gateway' = RetiredMembership(gateway, g),
         UNCHANGED <<epoch, lifecycle, gatewayVm, pool>>,
         sweep' \in Sweep, sweep'.phase = sweep.phase,
         NEW o, WaitsFor(a, g, o), op' = [op EXCEPT ![a] = o]
  PROVE  OwnerStep /\ ManagerInv'
<1> USE DEF LeafLeftAs, WaitsFor
<1> DEFINE c == gateway.children[g]
<1>1. /\ lease \in [Leaves -> Lease] /\ lease[g] \in Lease /\ LeafInv(g) /\ AgentInv(a) /\ NoLeaf \notin Leaves
      /\ op \in [Agents -> Operation] /\ op[a].pred \in Leaves \cup {NoLeaf}
  BY InvFacts DEF ManagerInv, Operation
<1>2. /\ lease[g].kind \notin Fenced => l[g].vm # "gone"
      /\ lease[g].kind \in Fenced => l[g].vm \in {"none", "gone"}
      /\ l[g].cleaning => l[g].kind = "retiring"
      /\ lease[g].kind \notin {"absent", "destroyed"}
      /\ lease[g].slot \in Slots
      /\ l[g].vm = "none" <=> lease[g].vm = "none"
  BY <1>1 DEF LeafInv, LeafIsConsistent, Live
<1>3. /\ lease' \in [Leaves -> Lease] /\ \A h \in Leaves : h # g => lease'[h] = lease[h]
      /\ lease'[g].kind = IF lease[g].kind = "retiring" THEN "retiring" ELSE "destroying"
      /\ lease'[g].agentId = a /\ lease'[g].slot = lease[g].slot /\ lease'[g].vm = l[g].vm
      /\ lease'[g].target = l[g].target /\ lease'[g].record = l[g].record /\ lease'[g].ssh = l[g].ssh
      /\ lease'[g].cleaning => lease'[g].kind = "retiring"
  <2> DEFINE n == RetiredLeaf(l, g)
  <2>1. /\ n \in [Leaves -> Lease] /\ \A h \in Leaves : h # g => n[h] = l[h]
        /\ n[g].kind = IF l[g].kind = "retiring" THEN "retiring" ELSE "destroying"
        /\ n[g].agentId = l[g].agentId /\ n[g].slot = l[g].slot /\ n[g].vm = l[g].vm
        /\ n[g].target = l[g].target /\ n[g].record = l[g].record /\ n[g].ssh = l[g].ssh
        /\ n[g].cleaning => n[g].kind = "retiring"
    BY <1>2, RetiredLeafIs
  <2>2. lease' = n
    OBVIOUS
  <2> HIDE DEF n
  <2> QED BY <2>1, <2>2
<1>4. /\ gateway' \in Owner!Membership /\ gateway'.state = gateway.state
      /\ \A h \in Leaves : h # g => gateway'.children[h] = gateway.children[h]
      /\ \/ /\ c.state \in {"provisional", "current", "owner-unsafe"}
            /\ lease[g].kind # "retiring"
            /\ gateway' = Owner!BeginDestroying(gateway, g)
            /\ ChildMoves(gateway, gateway', g, "destroying")
         \/ /\ c.state \in {"destroying", "retiring"} /\ gateway' = gateway
            /\ c.state = lease[g].kind
         \/ c.state = "absent" /\ gateway' = gateway
  BY RetiredMembershipIs
<1>5. /\ op' \in [Agents -> Operation] /\ op'[a] = o /\ \A b \in Agents : b # a => op'[b] = op[b]
  BY <1>1
<1>6. OperationMovesLeaf(a, g)
  BY <1>2, <1>3, <1>4, <1>5 DEF OperationMovesLeaf, Live
<1>7. LeafInv(g)'
  <2>1. LeafIsConsistent(g)'
    BY <1>2, <1>3 DEF LeafIsConsistent, Fenced
  <2>2. LeafIsOwned(g)'
    <3>1. /\ c.state # "absent" => c.agentId = a /\ (c.attached <=> lease[g].vm # "none")
          /\ c.state = "absent" => lease[g].kind \in {"destroying", "retiring"} /\ lease[g].vm = "none"
      BY <1>1, <1>2 DEF LeafInv, LeafIsOwned, Live
    <3>2. CASE ChildMoves(gateway, gateway', g, "destroying") /\ lease[g].kind # "retiring"
               /\ c.state # "absent"
      BY <1>2, <1>3, <3>1, <3>2 DEF LeafIsOwned, ChildMoves, StateOfKind
    <3>3. CASE c.state \in {"destroying", "retiring"} /\ gateway' = gateway /\ c.state = lease[g].kind
      BY <1>2, <1>3, <3>1, <3>3 DEF LeafIsOwned, StateOfKind
    <3>4. CASE c.state = "absent" /\ gateway' = gateway
      BY <1>2, <1>3, <3>1, <3>4 DEF LeafIsOwned, Live
    <3> QED BY <1>4, <3>2, <3>3, <3>4
  <2> QED BY <2>1, <2>2 DEF LeafInv
<1>8. OwnerStep
  <2>1. ToolVmOf' = ToolVmOf
    BY <1>3, SameVms
  <2>2. CASE c.state \in {"provisional", "current", "owner-unsafe"}
    <3>1. Owner!ToolVmDestroying(g)
      BY <1>4, <2>1, <2>2 DEF Owner!ToolVmDestroying
    <3> QED BY <3>1, HandleStep DEF Owner!ToolVmStep
  <2>3. CASE gateway' = gateway
    BY <2>1, <2>3, OwnershipKept DEF ownershipVars
  <2> QED BY <1>4, <2>2, <2>3
<1>9. AgentInv(a)'
  <2>1. OperationIsConsistent(a)'
    <3>1. o.pred # NoLeaf => lease'[o.pred].agentId = a /\ lease'[o.pred].kind \in GivenUp
      <4>1. lease'[g].agentId = a /\ lease'[g].kind \in GivenUp
        BY <1>3 DEF GivenUp
      <4>2. op[a].pred # NoLeaf => lease[op[a].pred].agentId = a /\ lease[op[a].pred].kind \in GivenUp
        BY <1>1 DEF AgentInv, OperationIsConsistent
      <4> QED BY <1>1, <1>3, <4>1, <4>2
    <3>2. o.leaf # NoLeaf => lease'[o.leaf].agentId = a /\ lease'[o.leaf].kind \in GivenUp
      BY <1>3 DEF GivenUp
    <3> QED BY <1>1, <1>5, <3>1, <3>2 DEF OperationIsConsistent, CreationStages
  <2>2. CreationIsAlone(a)'
    BY <1>5 DEF CreationIsAlone, CreationStages
  <2>3. FenceIsAwaited(a)'
    BY <1>3, <1>5 DEF FenceIsAwaited
  <2>4. OneIsReachable(a)'
    <3>1. \A h \in Leaves : h # g => (Reachable(h)' <=> Reachable(h))
      BY <1>3 DEF Reachable
    <3>2. Reachable(g)' <=> l[g].ssh /\ l[g].vm = "running"
      BY <1>3 DEF Reachable
    <3> QED BY <1>1, <1>3, <3>1, <3>2 DEF AgentInv, OneIsReachable
  <2> QED BY <2>1, <2>2, <2>3, <2>4 DEF AgentInv
<1> QED BY <1>6, <1>7, <1>8, <1>9, OperationMovesLeafKept

\* The lock is held for a leaf that is given up as it is.
LEMMA LeafGivenUp ==
  ASSUME ManagerInv, NEW a \in Agents, NEW g \in Leaves,
         \/ EvictLease(a) /\ g = op[a].leaf
         \/ ReleaseLease(a, g)
         \/ SweepLeaf(a, g)
  PROVE  OwnerStep /\ ManagerInv'
<1>1. /\ lease \in [Leaves -> Lease] /\ LeafInv(g) /\ AgentInv(a) /\ NoLeaf \notin Leaves
  BY InvFacts DEF ManagerInv
<1>2. PICK o \in Operation :
        /\ op' = [op EXCEPT ![a] = o]
        /\ \/ o.stage = "settle" /\ o.leaf = NoLeaf /\ o.pred = g
           \/ o.stage = "sweep" /\ o.leaf = g /\ o.pred = NoLeaf
  <2>1. /\ [stage |-> "settle", leaf |-> NoLeaf, pred |-> g] \in Operation
        /\ [stage |-> "sweep", leaf |-> g, pred |-> NoLeaf] \in Operation
    BY DEF Operation
  <2> QED BY <2>1 DEF EvictLease, ReleaseLease, RetireUntilFenced, SweepLeaf
<1>3. /\ lease' = RetiredLeaf(lease, g) /\ gateway' = RetiredMembership(gateway, g)
      /\ UNCHANGED <<epoch, lifecycle, gatewayVm, pool>>
      /\ sweep' = sweep \/ sweep' = [sweep EXCEPT !.snapshot[a] = SweepLists(a) \ {g}]
  BY DEF EvictLease, ReleaseLease, RetireUntilFenced, SweepLeaf
<1>4. Live(g) /\ lease[g].agentId = a
  <2>1. CASE EvictLease(a) /\ g = op[a].leaf
    BY <1>1, <2>1 DEF EvictLease, AgentInv, OperationIsConsistent, Live
  <2>2. CASE ReleaseLease(a, g) \/ SweepLeaf(a, g)
    BY <2>2 DEF ReleaseLease, SweepLeaf, OwnedLeaves
  <2> QED BY <2>1, <2>2
<1>5. \A h \in Leaves : lease[h].agentId = a => lease[h].kind # "destroying"
  <2> SUFFICES ASSUME NEW h \in Leaves, lease[h].agentId = a, lease[h].kind = "destroying" PROVE FALSE
    OBVIOUS
  <2>1. op[a].pred = h \/ (op[a].stage \in {"cleanup", "sweep"} /\ op[a].leaf = h)
    BY <1>1 DEF AgentInv, FenceIsAwaited
  <2>2. Live(h)
    BY DEF Live
  <2>3. op[a].stage \in {"idle", "evict-probe"} \/ (op[a].stage = "sweep" /\ ~Live(op[a].leaf))
    BY DEF EvictLease, ReleaseLease, SweepLeaf, SweepGoesOn, Idle
  <2>4. op[a].pred = NoLeaf
    BY <1>1, <2>3 DEF AgentInv, OperationIsConsistent
  <2> QED BY <1>1, <2>1, <2>2, <2>3, <2>4
<1>6. /\ lease[g].target => lease[g].vm # "none"
      /\ lease[g].ssh => lease[g].record
  BY <1>1 DEF LeafInv, LeafIsConsistent
<1>7. LeafLeftAs(a, g, lease)
  BY <1>1, <1>4, <1>6 DEF LeafLeftAs, Reachable
<1>8. WaitsFor(a, g, o)
  BY <1>2, <1>5 DEF WaitsFor
<1>9. sweep' \in Sweep /\ sweep'.phase = sweep.phase
  <2>1. sweep \in Sweep
    BY DEF ManagerInv, TypeOK
  <2>2. SweepLists(a) \ {g} \in SUBSET Leaves
    BY <2>1 DEF SweepLists, OwnedLeaves, Sweep
  <2> QED BY <1>3, <2>1, <2>2 DEF Sweep
<1> QED BY <1>2, <1>3, <1>7, <1>8, <1>9, LeafRetired

\* A creation fails: its leaf is retired, or recorded first.
LEMMA CreationAbortsKept ==
  ASSUME ManagerInv, NEW a \in Agents, op[a].stage \in CreationStages \cup {"fallback"},
         NEW g, g = op[a].leaf, NEW l, LeafLeftAs(a, g, l), CreationAborts(a, l)
  PROVE  OwnerStep /\ ManagerInv'
<1> DEFINE c == gateway.children[g]
<1>1. /\ g \in Leaves /\ lease[g] \in Lease /\ LeafInv(g) /\ AgentInv(a) /\ Live(g)
      /\ lease[g].kind = "provisioning" /\ lease[g].agentId = a
      /\ op[a] \in Operation /\ op[a].pred # g /\ op[a].pred \in Leaves \cup {NoLeaf}
      /\ c.state = "provisional" /\ c.agentId = a
      /\ c.attached <=> lease[g].vm # "none"
  BY CreationFacts
<1>2. lease \in [Leaves -> Lease] /\ op \in [Agents -> Operation] /\ NoLeaf \notin Leaves
  BY InvFacts
<1>3. \A h \in Leaves : lease[h].agentId = a /\ lease[h].kind = "destroying" => op[a].pred = h
  BY <1>1 DEF AgentInv, FenceIsAwaited, CreationStages
<1>4. UNCHANGED <<epoch, lifecycle, gatewayVm, pool, sweep>>
  BY DEF CreationAborts
<1>5. CASE ~(l[g].vm = "running" /\ ~l[g].target)
  <2> DEFINE o == [op[a] EXCEPT !.stage = "cleanup"]
  <2>1. /\ lease' = RetiredLeaf(l, g) /\ gateway' = RetiredMembership(gateway, g)
        /\ op' = [op EXCEPT ![a] = o]
    BY <1>5 DEF CreationAborts
  <2>2. o \in Operation /\ o.stage = "cleanup" /\ o.leaf = g /\ o.pred = op[a].pred
    BY <1>1 DEF Operation
  <2> HIDE DEF o
  <2>3. WaitsFor(a, g, o)
    BY <1>3, <2>2 DEF WaitsFor
  <2> QED BY <1>1, <1>4, <2>1, <2>3, LeafRetired, InvFacts
<1>6. CASE l[g].vm = "running" /\ ~l[g].target
  <2> USE DEF LeafLeftAs
  <2> DEFINE o == [op[a] EXCEPT !.stage = "fallback"]
  <2>1. lease' = l /\ op' = [op EXCEPT ![a] = o] /\ UNCHANGED gateway
    BY <1>6 DEF CreationAborts
  <2>2. o \in Operation /\ o.stage = "fallback" /\ o.leaf = g /\ o.pred = op[a].pred
    BY <1>1 DEF Operation
  <2> HIDE DEF o
  <2>3. op' \in [Agents -> Operation] /\ op'[a] = o /\ \A b \in Agents : b # a => op'[b] = op[b]
    BY <1>2, <2>1, <2>2
  <2>4. OperationMovesLeaf(a, g)
    BY InvFacts, <1>1, <1>2, <1>4, <2>1, <2>3 DEF OperationMovesLeaf, Live
  <2>5. LeafInv(g)'
    <3>1. LeafIsConsistent(g)'
      BY <1>1, <1>6, <2>1 DEF LeafInv, LeafIsConsistent, Fenced
    <3>2. LeafIsOwned(g)'
      BY <1>1, <1>6, <2>1 DEF LeafIsOwned, StateOfKind
    <3> QED BY <3>1, <3>2 DEF LeafInv
  <2>6. OwnerStep
    <3>1. ToolVmOf' = ToolVmOf
      BY <2>1, SameVms
    <3> QED BY <1>4, <2>1, <3>1, OwnershipKept DEF ownershipVars
  <2>7. AgentInv(a)'
    <3>1. OperationIsConsistent(a)'
      <4>1. op[a].pred # NoLeaf => lease'[op[a].pred].agentId = a /\ lease'[op[a].pred].kind \in GivenUp
        BY <1>1, <2>1 DEF AgentInv, OperationIsConsistent
      <4> QED BY <1>1, <1>2, <2>1, <2>2, <2>3, <4>1 DEF OperationIsConsistent, CreationStages
    <3>2. CreationIsAlone(a)'
      BY <2>2, <2>3 DEF CreationIsAlone, CreationStages
    <3>3. FenceIsAwaited(a)'
      BY <1>1, <1>3, <2>1, <2>2, <2>3 DEF FenceIsAwaited
    <3>4. OneIsReachable(a)'
      <4>1. \A h \in Leaves : h # g => (Reachable(h)' <=> Reachable(h))
        BY <2>1 DEF Reachable
      <4>2. Reachable(g)' <=> l[g].ssh /\ l[g].vm = "running"
        BY <2>1 DEF Reachable
      <4> QED BY <1>1, <2>1, <4>1, <4>2 DEF AgentInv, OneIsReachable
    <3> QED BY <3>1, <3>2, <3>3, <3>4 DEF AgentInv
  <2> QED BY <1>1, <2>4, <2>5, <2>6, <2>7, OperationMovesLeafKept
<1> QED BY <1>5, <1>6

LEMMA CreationFailureKept ==
  ASSUME ManagerInv, NEW a \in Agents,
         VmStartFails(a) \/ CreationFails(a) \/ BarrierRejected(a) \/ FallbackRecorded(a)
  PROVE  OwnerStep /\ ManagerInv'
<1> DEFINE g == op[a].leaf
<1>1. op[a].stage \in CreationStages \cup {"fallback"}
  BY DEF VmStartFails, CreationFails, BarrierRejected, FallbackRecorded, CreationStages
<1>2. /\ g \in Leaves /\ lease[g] \in Lease /\ LeafInv(g) /\ AgentInv(a) /\ Live(g)
      /\ lease[g].kind = "provisioning" /\ lease[g].agentId = a
  BY <1>1, CreationFacts
<1>3. /\ lease \in [Leaves -> Lease]
      /\ lease[g].target => lease[g].vm # "none"
      /\ lease[g].ssh => lease[g].record
      /\ op[a].stage = "start" => lease[g].vm = "created" /\ ~lease[g].ssh
  BY <1>2, InvFacts DEF LeafInv, LeafIsConsistent, AgentInv, OperationIsConsistent, CreationStages
<1>4. CASE VmStartFails(a)
  <2>1. PICK left \in {"created", "running"} : CreationAborts(a, [lease EXCEPT ![g].vm = left])
    BY <1>4 DEF VmStartFails
  <2> DEFINE l == [lease EXCEPT ![g].vm = left]
  <2>2. op[a].stage = "start"
    BY <1>4 DEF VmStartFails
  <2>3. /\ l \in [Leaves -> Lease] /\ \A h \in Leaves : h # g => l[h] = lease[h]
        /\ l[g].kind = lease[g].kind /\ l[g].agentId = a /\ l[g].slot = lease[g].slot
        /\ l[g].cleaning = lease[g].cleaning /\ l[g].vm = left /\ l[g].ssh = lease[g].ssh
    BY <1>2, <1>3 DEF Lease
  <2> HIDE DEF l, g
  <2>4. LeafLeftAs(a, g, l)
    BY <1>2, <1>3, <2>2, <2>3 DEF LeafLeftAs
  <2> QED BY <1>1, <2>1, <2>4, CreationAbortsKept DEF l, g
<1>5. CASE CreationFails(a) \/ BarrierRejected(a)
  <2>1. CreationAborts(a, lease)
    BY <1>5 DEF CreationFails, BarrierRejected
  <2>2. LeafLeftAs(a, g, lease)
    BY <1>2, <1>3 DEF LeafLeftAs, Reachable
  <2> QED BY <1>1, <2>1, <2>2, CreationAbortsKept
<1>6. CASE FallbackRecorded(a)
  <2> DEFINE l == [lease EXCEPT ![g].target = TRUE, ![g].record = TRUE]
  <2>1. CreationAborts(a, l) /\ lease[g].vm = "running"
    BY <1>6 DEF FallbackRecorded
  <2>2. /\ l \in [Leaves -> Lease] /\ \A h \in Leaves : h # g => l[h] = lease[h]
        /\ l[g].kind = lease[g].kind /\ l[g].agentId = a /\ l[g].slot = lease[g].slot
        /\ l[g].cleaning = lease[g].cleaning /\ l[g].vm = lease[g].vm /\ l[g].ssh = lease[g].ssh
        /\ l[g].record
    BY <1>2, <1>3 DEF Lease
  <2> HIDE DEF l, g
  <2>3. LeafLeftAs(a, g, l)
    BY <1>2, <2>1, <2>2 DEF LeafLeftAs, Reachable
  <2> QED BY <1>1, <2>1, <2>3, CreationAbortsKept DEF g
<1> QED BY <1>4, <1>5, <1>6

\* The commit.  The barrier has seen to it that no other VM of the agent is left.
LEMMA SshEnabledKept ==
  ASSUME ManagerInv, NEW a \in Agents, SshEnabled(a), NEW g, g = op[a].leaf
  PROVE  OwnerStep /\ ManagerInv'
<1> DEFINE c == gateway.children[g]
<1>1. op[a].stage = "ssh" /\ op[a].stage \in CreationStages
  BY DEF SshEnabled, CreationStages
<1>2. /\ g \in Leaves /\ lease[g] \in Lease /\ LeafInv(g) /\ AgentInv(a) /\ Live(g)
      /\ lease[g].kind = "provisioning" /\ lease[g].agentId = a
      /\ c \in Owner!Child /\ c.state = "provisional" /\ c.agentId = a
      /\ c.attached <=> lease[g].vm # "none"
  BY <1>1, CreationFacts
<1>3. /\ lease \in [Leaves -> Lease] /\ op \in [Agents -> Operation] /\ NoLeaf \notin Leaves
      /\ gateway \in Owner!Membership
  BY InvFacts
<1>4. /\ lease[g].target => lease[g].vm # "none"
      /\ lease[g].record
      /\ lease[g].vm # "gone" /\ ~lease[g].cleaning /\ lease[g].slot \in Slots
  BY <1>1, <1>2 DEF LeafInv, LeafIsConsistent, AgentInv, OperationIsConsistent, Fenced
<1>5. \A h \in Leaves : h # g /\ lease[h].agentId = a =>
        lease[h].kind \in Fenced /\ lease[h].vm \in {"none", "gone"}
  <2> SUFFICES ASSUME NEW h \in Leaves, h # g, lease[h].agentId = a
               PROVE  lease[h].kind \in Fenced /\ lease[h].vm \in {"none", "gone"}
    OBVIOUS
  <2>1. lease[h].kind \in Fenced \/ h = op[a].pred
    BY <1>1, <1>2 DEF AgentInv, CreationIsAlone
  <2>2. lease[h].kind \in Fenced
    BY <1>1, <1>2, <1>3, <2>1 DEF AgentInv, OperationIsConsistent
  <2> QED BY <2>2 DEF ManagerInv, LeafInv, LeafIsConsistent
<1>6. CASE Owner!CanCommitCurrent(gateway, g)
  <2>1. /\ lease' = [lease EXCEPT ![g].ssh = TRUE, ![g].kind = "current", ![g].committed = TRUE]
        /\ gateway' = Owner!CommitCurrent(gateway, g)
        /\ op' = [op EXCEPT ![a] = IdleOp]
        /\ UNCHANGED <<epoch, lifecycle, gatewayVm, pool, sweep>>
    BY <1>6, SameMethods DEF SshEnabled
  <2>2. /\ lease' \in [Leaves -> Lease] /\ \A h \in Leaves : h # g => lease'[h] = lease[h]
        /\ lease'[g].kind = "current" /\ lease'[g].agentId = a /\ lease'[g].slot = lease[g].slot
        /\ lease'[g].cleaning = lease[g].cleaning /\ lease'[g].vm = lease[g].vm
        /\ lease'[g].target = lease[g].target /\ lease'[g].record = lease[g].record
    BY <1>2, <1>3, <2>1, ZenonT(60) DEF Lease, LeafKinds
  <2>3. op' \in [Agents -> Operation] /\ op'[a] = IdleOp /\ \A b \in Agents : b # a => op'[b] = op[b]
    BY <1>3, <2>1 DEF IdleOp, Operation
  <2>4. ChildMoves(gateway, gateway', g, "current")
    BY <1>2, <1>3, <2>1, MethodsMoveTheChild
  <2>5. OperationMovesLeaf(a, g)
    BY InvFacts, <1>2, <2>1, <2>2, <2>3, <2>4 DEF OperationMovesLeaf, ChildMoves, Live
  <2>6. LeafInv(g)'
    <3>1. LeafIsConsistent(g)'
      BY <1>4, <2>2 DEF LeafIsConsistent, Fenced
    <3>2. LeafIsOwned(g)'
      BY <1>2, <2>2, <2>4 DEF LeafIsOwned, ChildMoves, StateOfKind
    <3> QED BY <3>1, <3>2 DEF LeafInv
  <2>7. OwnerStep
    <3>1. ToolVmOf' = ToolVmOf
      BY <2>2, SameVms
    <3>2. Owner!ToolVmCommitted(g)
      BY <1>6, <2>1, <3>1 DEF Owner!ToolVmCommitted
    <3> QED BY <1>2, <3>2, HandleStep DEF Owner!ToolVmStep
  <2>8. AgentInv(a)'
    <3>1. OperationIsConsistent(a)' /\ CreationIsAlone(a)'
      BY <2>3 DEF OperationIsConsistent, CreationIsAlone, IdleOp, CreationStages
    <3>2. FenceIsAwaited(a)'
      BY <1>5, <2>2 DEF FenceIsAwaited, Fenced
    <3>3. OneIsReachable(a)'
      BY <1>5, <2>2 DEF OneIsReachable, Reachable
    <3> QED BY <3>1, <3>2, <3>3 DEF AgentInv
  <2> QED BY <1>2, <2>5, <2>6, <2>7, <2>8, OperationMovesLeafKept
<1>7. CASE ~Owner!CanCommitCurrent(gateway, g)
  <2> DEFINE l == [lease EXCEPT ![g].ssh = TRUE]
  <2>1. CreationAborts(a, l)
    BY <1>7, SameMethods DEF SshEnabled
  <2>2. /\ l \in [Leaves -> Lease] /\ \A h \in Leaves : h # g => l[h] = lease[h]
        /\ l[g].kind = lease[g].kind /\ l[g].agentId = a /\ l[g].slot = lease[g].slot
        /\ l[g].cleaning = lease[g].cleaning /\ l[g].vm = lease[g].vm
        /\ l[g].target = lease[g].target /\ l[g].record = lease[g].record
    BY <1>2, <1>3 DEF Lease
  <2> HIDE DEF l
  <2>3. \A h \in Leaves : h # g /\ lease[h].agentId = a => ~Reachable(h)
    BY <1>5 DEF Reachable
  <2>4. LeafLeftAs(a, g, l)
    BY <1>2, <1>4, <2>2, <2>3 DEF LeafLeftAs
  <2> QED BY <1>1, <2>1, <2>4, CreationAbortsKept
<1> QED BY <1>6, <1>7

-----------------------------------------------------------------------------
(* Admission of a leaf.                                                    *)

\* What the retirement of the predecessor h, if there is one, leaves.
PredecessorLeft(a, h, l, m) ==
  /\ l \in [Leaves -> Lease] /\ m \in Owner!Membership /\ m.state = gateway.state
  /\ h \in Leaves \cup {NoLeaf}
  /\ \A k \in Leaves : k # h => l[k] = lease[k] /\ m.children[k] = gateway.children[k]
  /\ h = NoLeaf => m = gateway
  /\ h # NoLeaf =>
       /\ lease[h].kind \in {"current", "quarantined"} /\ lease[h].agentId = a
       /\ l[h].kind = "destroying" /\ l[h].agentId = a /\ l[h].slot = lease[h].slot
       /\ l[h].vm = lease[h].vm /\ l[h].target = lease[h].target /\ l[h].record = lease[h].record
       /\ l[h].ssh = lease[h].ssh /\ ~l[h].cleaning
       /\ gateway.children[h].state = "current" /\ gateway.children[h].agentId = a
       /\ m = Owner!BeginDestroying(gateway, h)
       /\ ChildMoves(gateway, m, h, "destroying")

LEMMA PredecessorRetired ==
  ASSUME ManagerInv, NEW a \in Agents, NEW h \in Leaves, lease[h].agentId = a,
         lease[h].kind \in {"current", "quarantined"}
  PROVE  PredecessorLeft(a, h, RetiredLeaf(lease, h), RetiredMembership(gateway, h))
<1> DEFINE l == RetiredLeaf(lease, h)
           m == RetiredMembership(gateway, h)
<1>1. /\ lease \in [Leaves -> Lease] /\ NoLeaf \notin Leaves /\ LeafInv(h) /\ Live(h)
      /\ gateway \in Owner!Membership
  BY InvFacts DEF ManagerInv, Live
<1>2. lease[h].cleaning => lease[h].kind = "retiring"
  BY <1>1 DEF LeafInv, LeafIsConsistent
<1>3. gateway.children[h].state = "current" /\ gateway.children[h].agentId = a
  BY <1>1 DEF LeafInv, LeafIsOwned, StateOfKind
<1>4. /\ l \in [Leaves -> Lease] /\ \A k \in Leaves : k # h => l[k] = lease[k]
      /\ l[h].kind = "destroying" /\ l[h].agentId = a /\ l[h].slot = lease[h].slot
      /\ l[h].vm = lease[h].vm /\ l[h].target = lease[h].target /\ l[h].record = lease[h].record
      /\ l[h].ssh = lease[h].ssh
      /\ l[h].cleaning => l[h].kind = "retiring"
  BY <1>1, <1>2, RetiredLeafIs
<1>5. /\ m \in Owner!Membership /\ m.state = gateway.state
      /\ \A k \in Leaves : k # h => m.children[k] = gateway.children[k]
      /\ m = Owner!BeginDestroying(gateway, h) /\ ChildMoves(gateway, m, h, "destroying")
  BY <1>1, <1>3, RetiredMembershipIs
<1> HIDE DEF l, m
<1> QED BY <1>1, <1>3, <1>4, <1>5 DEF PredecessorLeft, l, m

\* A leaf is added, as a child of the Gateway or refused by it.
LEMMA LeafAdded ==
  ASSUME ManagerInv, NEW a \in Agents, NEW g \in Leaves, NEW h, NEW l, NEW m, PredecessorLeft(a, h, l, m),
         op[a].stage \in {"idle", "reuse-probe"}, FreeSlots # {}, m.state = "admitting",
         ~AgentIndexed(l, a), l[g].kind = "absent",
         NEW k \in {"provisioning", "destroying"},
         lease' = [l EXCEPT ![g] = [AbsentLease EXCEPT !.kind = k, !.agentId = a, !.slot = LowestFreeSlot]],
         k = "provisioning" => /\ Owner!CanAdmitProvisionalToolVm(m, a, g)
                               /\ gateway' = Owner!AdmitProvisionalToolVm(m, a, g),
         k = "destroying" => gateway' = m,
         pool' = Allocate(pool, LowestFreeSlot),
         op' = [op EXCEPT ![a] = [stage |-> IF k = "provisioning" THEN "create" ELSE "cleanup",
                                  leaf |-> g, pred |-> h]],
         UNCHANGED <<epoch, lifecycle, gatewayVm, sweep>>
  PROVE  OwnerStep /\ ManagerInv'
<1> DEFINE s == LowestFreeSlot
<1>1. /\ lease \in [Leaves -> Lease] /\ op \in [Agents -> Operation] /\ NoLeaf \notin Leaves /\ a # NoLeaf
      /\ gateway \in Owner!Membership /\ AgentInv(a)
      /\ pool \in [allocated : SUBSET Slots, quarantined : SUBSET Slots]
  BY InvFacts DEF ManagerInv
<1>2. /\ l \in [Leaves -> Lease] /\ m \in Owner!Membership /\ m.state = gateway.state
      /\ h \in Leaves \cup {NoLeaf} /\ h # g
      /\ \A j \in Leaves : j # h => l[j] = lease[j] /\ m.children[j] = gateway.children[j]
  BY <1>1 DEF PredecessorLeft
<1>3. /\ lease[g] = AbsentLease /\ gateway.children[g].state = "absent"
  BY <1>2 DEF ManagerInv, LeafInv, LeafIsConsistent, LeafIsOwned, StateOfKind
<1>4. s \in Slots /\ s \notin pool.allocated \cup pool.quarantined /\ s \in 0..PoolSize
  BY SlotIsFree, ManagerAssumption DEF FreeSlots, Slots
<1> HIDE DEF s
<1>5. /\ lease' \in [Leaves -> Lease] /\ \A j \in Leaves : j # g => lease'[j] = l[j]
      /\ lease'[g].kind = k /\ lease'[g].agentId = a /\ lease'[g].slot = s /\ lease'[g].vm = "none"
      /\ ~lease'[g].target /\ ~lease'[g].record /\ ~lease'[g].ssh /\ ~lease'[g].cleaning
  <2> DEFINE n == [AbsentLease EXCEPT !.kind = k, !.agentId = a, !.slot = s]
  <2>1. /\ n \in Lease /\ n.kind = k /\ n.agentId = a /\ n.slot = s /\ n.vm = "none"
        /\ ~n.target /\ ~n.record /\ ~n.ssh /\ ~n.cleaning
    BY <1>4 DEF AbsentLease, Lease, LeafKinds
  <2>2. lease' = [l EXCEPT ![g] = n]
    BY DEF s
  <2> HIDE DEF n
  <2> QED BY <1>2, <2>1, <2>2
<1>6. /\ op' \in [Agents -> Operation] /\ \A b \in Agents : b # a => op'[b] = op[b]
      /\ op'[a].stage = IF k = "provisioning" THEN "create" ELSE "cleanup"
      /\ op'[a].leaf = g /\ op'[a].pred = h
  BY <1>1, <1>2 DEF Operation, CreationStages
<1>7. /\ gateway'.state = "admitting"
      /\ \A j \in Leaves : j # g => gateway'.children[j] = m.children[j]
      /\ k = "provisioning" => /\ gateway'.children[g].state = "provisional"
                               /\ gateway'.children[g].agentId = a /\ ~gateway'.children[g].attached
      /\ k = "destroying" => gateway'.children[g].state = "absent"
  <2>1. CASE k = "provisioning"
    <3>1. gateway' = Owner!AdmitProvisionalToolVm(m, a, g)
      BY <2>1
    <3>2. /\ Owner!AdmitProvisionalToolVm(m, a, g).state = m.state
          /\ Owner!AdmitProvisionalToolVm(m, a, g).children =
               [m.children EXCEPT ![g] = [state |-> "provisional", agentId |-> a,
                                          attached |-> FALSE, completion |-> "pending"]]
      BY <1>2 DEF Owner!AdmitProvisionalToolVm, Owner!Membership
    <3>3. m.children \in [Leaves -> Owner!Child]
      BY <1>2 DEF Owner!Membership
    <3> QED BY <2>1, <3>1, <3>2, <3>3
  <2>2. CASE k = "destroying"
    BY <1>2, <1>3, <2>2
  <2> QED BY <2>1, <2>2
<1>8. \A j \in Leaves : j # g /\ j # h =>
        lease'[j] = lease[j] /\ gateway'.children[j] = gateway.children[j]
  BY <1>2, <1>5, <1>7
<1>9. h # NoLeaf =>
        /\ lease[h].kind \in {"current", "quarantined"} /\ lease[h].agentId = a
        /\ lease'[h].kind = "destroying" /\ lease'[h].agentId = a /\ lease'[h].slot = lease[h].slot
        /\ lease'[h].vm = lease[h].vm /\ lease'[h].target = lease[h].target
        /\ lease'[h].record = lease[h].record
        /\ lease'[h].ssh = lease[h].ssh /\ ~lease'[h].cleaning
        /\ gateway.children[h].state = "current" /\ gateway.children[h].agentId = a
        /\ m = Owner!BeginDestroying(gateway, h)
        /\ gateway'.children[h].state = "destroying" /\ gateway'.children[h].agentId = a
        /\ gateway'.children[h].attached = gateway.children[h].attached
  BY <1>2, <1>5, <1>7 DEF PredecessorLeft, ChildMoves
<1>10. \A j \in Leaves : Live(j)' <=> Live(j) \/ j = g
  BY <1>1, <1>2, <1>5, <1>8, <1>9 DEF Live
<1>11. \A j \in Leaves : j # g => lease'[j].slot = lease[j].slot /\ lease'[j].vm = lease[j].vm
  BY <1>1, <1>2, <1>8, <1>9
<1>12. TypeOK' /\ SlotsFollowLeaves'
  <2>1. /\ pool' \in [allocated : SUBSET Slots, quarantined : SUBSET Slots]
        /\ pool'.allocated \cup pool'.quarantined = (pool.allocated \cup pool.quarantined) \cup {s}
    BY <1>1, <1>4 DEF Allocate, s
  <2>2. TypeOK'
    BY <1>5, <1>6, <2>1 DEF ManagerInv, TypeOK
  <2>3. /\ \A i \in Leaves : Live(i) => lease[i].slot # s
        /\ ~Live(g)
    BY <1>3, <1>4 DEF ManagerInv, SlotsFollowLeaves, Live, AbsentLease
  <2>4. SlotsFollowLeaves'
    BY <1>5, <1>10, <1>11, <2>1, <2>3 DEF ManagerInv, SlotsFollowLeaves
  <2> QED BY <2>2, <2>4
<1>13. \A j \in Leaves : LeafInv(j)'
  <2>1. LeafInv(g)'
    <3>1. LeafIsConsistent(g)'
      BY <1>4, <1>5 DEF LeafIsConsistent, Fenced
    <3>2. LeafIsOwned(g)'
      BY <1>5, <1>7 DEF LeafIsOwned, StateOfKind, Live
    <3> QED BY <3>1, <3>2 DEF LeafInv
  <2>2. ASSUME h # NoLeaf PROVE LeafInv(h)'
    <3>1. h \in Leaves /\ LeafInv(h)
      BY <1>2, <2>2 DEF ManagerInv
    <3>2. LeafIsConsistent(h)'
      BY <1>9, <2>2, <3>1 DEF LeafInv, LeafIsConsistent, Fenced
    <3>3. LeafIsOwned(h)'
      BY <1>9, <2>2, <3>1 DEF LeafInv, LeafIsOwned, StateOfKind
    <3> QED BY <3>2, <3>3 DEF LeafInv
  <2>3. ASSUME NEW j \in Leaves, j # g, j # h PROVE LeafInv(j)'
    BY <1>8, <2>3, LeafKept DEF ManagerInv
  <2> QED BY <1>1, <1>2, <2>1, <2>2, <2>3
<1>14. \A b \in Agents : AgentInv(b)'
  <2>1. \A b \in Agents : b # a => AgentInv(b)'
    <3>1. \A j \in Leaves : \/ lease'[j] = lease[j]
                            \/ lease[j].agentId \in {a, NoLeaf} /\ lease'[j].agentId = a
      <4>1. lease[g].agentId = NoLeaf
        BY <1>3 DEF AbsentLease
      <4>2. lease'[g].agentId = a
        BY <1>5
      <4>3. \A j \in Leaves : j = h => lease[j].agentId = a /\ lease'[j].agentId = a
        BY <1>1, <1>9
      <4> QED BY <1>8, <4>1, <4>2, <4>3
    <3> QED BY <1>6, <3>1, OtherAgentsKept
  <2>2. \A j \in Leaves : lease[j].agentId = a => lease[j].kind # "destroying"
    BY <1>1 DEF AgentInv, FenceIsAwaited, OperationIsConsistent
  <2>3. OperationIsConsistent(a)'
    <3>1. h # NoLeaf => lease'[h].agentId = a /\ lease'[h].kind \in GivenUp
      BY <1>9 DEF GivenUp
    <3> QED BY <1>1, <1>5, <1>6, <3>1 DEF OperationIsConsistent, CreationStages, GivenUp
  <2>4. CreationIsAlone(a)'
    <3> SUFFICES ASSUME k = "provisioning", NEW j \in Leaves, lease'[j].agentId = a, j # g, j # h
                 PROVE  lease'[j].kind \in Fenced
      BY <1>6 DEF CreationIsAlone, CreationStages
    <3>1. /\ lease[j].agentId = a /\ lease[j] \in Lease /\ LeafInv(j)
          /\ lease'[j] = lease[j] /\ l[j] = lease[j] /\ m.children[j] = gateway.children[j]
      BY <1>1, <1>2, <1>8 DEF ManagerInv
    <3>2. lease[j].kind \notin {"provisioning", "current", "quarantined"}
      BY <3>1 DEF AgentIndexed
    <3>3. lease[j].kind # "owner-unsafe"
      <4>1. ~Owner!AgentOwnerUnsafe(m, a)
        BY DEF Owner!CanAdmitProvisionalToolVm
      <4>2. ~(gateway.children[j].agentId = a /\ gateway.children[j].state = "owner-unsafe")
        BY <3>1, <4>1 DEF Owner!AgentOwnerUnsafe
      <4> QED BY <3>1, <4>2 DEF LeafInv, LeafIsOwned, StateOfKind
    <3>4. lease[j].kind # "absent"
      BY <1>1, <3>1 DEF LeafInv, LeafIsConsistent, AbsentLease
    <3> QED BY <2>2, <3>1, <3>2, <3>3, <3>4 DEF Lease, LeafKinds, Fenced
  <2>5. FenceIsAwaited(a)'
    <3> SUFFICES ASSUME NEW j \in Leaves, lease'[j].agentId = a, lease'[j].kind = "destroying"
                 PROVE  op'[a].pred = j \/ (op'[a].stage \in {"cleanup", "sweep"} /\ op'[a].leaf = j)
      BY DEF FenceIsAwaited
    <3>1. j = g => k = "destroying"
      BY <1>5
    <3> QED BY <1>6, <1>8, <2>2, <3>1
  <2>6. OneIsReachable(a)'
    <3>1. ~Reachable(g)' /\ \A j \in Leaves : Reachable(j)' => Reachable(j)
      BY <1>1, <1>5, <1>8, <1>9 DEF Reachable
    <3>2. \A j \in Leaves : j # g => lease'[j].agentId = lease[j].agentId
      BY <1>1, <1>8, <1>9
    <3> QED BY <1>1, <3>1, <3>2 DEF AgentInv, OneIsReachable
  <2> QED BY <2>1, <2>3, <2>4, <2>5, <2>6 DEF AgentInv
<1>15. QuietWhenClosed'
  <2>1. lifecycle.step = "none" /\ sweep.phase = "none"
    BY <1>2 DEF ManagerInv, QuietWhenClosed, Owner!OwnershipInv, Owner!PhasesAgree
  <2> QED BY <1>7, <2>1 DEF QuietWhenClosed
<1>16. OwnerStep
  <2>1. ToolVmOf' = ToolVmOf
    <3>1. lease'[g].vm = lease[g].vm
      BY <1>3, <1>5 DEF AbsentLease
    <3> QED BY <1>11, <3>1, SameVms
  <2>2. ToolVmOf[g] = "none"
    BY <1>3 DEF ToolVmOf, AbsentLease
  <2>3. CASE k = "provisioning" /\ h = NoLeaf
    <3>1. Owner!ToolVmAdmitted(a, g)
      BY <2>1, <2>2, <2>3 DEF PredecessorLeft, Owner!ToolVmAdmitted
    <3> QED BY <3>1, HandleStep DEF Owner!ToolVmStep
  <2>4. CASE k = "provisioning" /\ h # NoLeaf
    <3>1. h \in Leaves /\ Owner!ToolVmReplaced(h, g)
      BY <1>2, <1>9, <2>1, <2>2, <2>4 DEF Owner!ToolVmReplaced
    <3> QED BY <3>1, HandleStep DEF Owner!ToolVmStep
  <2>5. CASE k = "destroying" /\ h = NoLeaf
    BY <2>1, <2>5, OwnershipKept DEF PredecessorLeft, ownershipVars
  <2>6. CASE k = "destroying" /\ h # NoLeaf
    <3>1. h \in Leaves /\ Owner!ToolVmDestroying(h)
      BY <1>2, <1>9, <2>1, <2>6 DEF Owner!ToolVmDestroying
    <3> QED BY <3>1, HandleStep DEF Owner!ToolVmStep
  <2> QED BY <2>3, <2>4, <2>5, <2>6
<1> QED BY <1>12, <1>13, <1>14, <1>15, <1>16, InvAssembled

LEMMA AdmitLeaseKept ==
  ASSUME ManagerInv, NEW a \in Agents, NEW h, NEW l, NEW m, PredecessorLeft(a, h, l, m),
         op[a].stage \in {"idle", "reuse-probe"}, AdmitLease(l, m, a, h),
         UNCHANGED <<epoch, lifecycle, gatewayVm, sweep>>,
         h = NoLeaf => l = lease,
         h # NoLeaf => l = RetiredLeaf(lease, h) /\ m = RetiredMembership(gateway, h)
  PROVE  OwnerStep /\ ManagerInv'
<1> DEFINE refused == FreeSlots = {} \/ OutOfLeaves \/ m.state # "admitting" \/ AgentIndexed(l, a)
<1>1. CASE refused /\ h = NoLeaf
  <2>1. m = gateway
    BY <1>1 DEF PredecessorLeft
  <2>2. UNCHANGED vars
    BY <1>1, <2>1 DEF AdmitLease, vars
  <2> QED BY <2>2, StutterKept
<1>2. CASE refused /\ h # NoLeaf
  <2> DEFINE o == [stage |-> "settle", leaf |-> NoLeaf, pred |-> h]
  <2>1. /\ lease' = l /\ gateway' = m /\ UNCHANGED pool /\ op' = [op EXCEPT ![a] = o]
    BY <1>2 DEF AdmitLease
  <2>2. /\ lease \in [Leaves -> Lease] /\ h \in Leaves /\ LeafInv(h) /\ AgentInv(a) /\ NoLeaf \notin Leaves
        /\ lease[h].kind \in {"current", "quarantined"} /\ lease[h].agentId = a
    BY <1>2, InvFacts DEF ManagerInv, PredecessorLeft
  <2>3. LeafLeftAs(a, h, lease)
    <3>1. /\ lease[h].target => lease[h].vm # "none"
          /\ lease[h].ssh => lease[h].record
      BY <2>2 DEF LeafInv, LeafIsConsistent
    <3> QED BY <2>2, <3>1 DEF LeafLeftAs, Reachable, Live
  <2>4. WaitsFor(a, h, o)
    <3>1. \A j \in Leaves : lease[j].agentId = a => lease[j].kind # "destroying"
      BY <2>2 DEF AgentInv, FenceIsAwaited, OperationIsConsistent
    <3> QED BY <2>2, <3>1 DEF WaitsFor, Operation
  <2> HIDE DEF o
  <2> QED BY <1>2, <2>1, <2>2, <2>3, <2>4, LeafRetired, InvFacts
<1>3. CASE ~refused
  <2>1. PICK g \in Leaves :
          \/ /\ Owner!CanAdmitProvisionalToolVm(m, a, g)
             /\ gateway' = Owner!AdmitProvisionalToolVm(m, a, g)
             /\ LeafAppears(l, a, g, "provisioning", "create", h)
          \/ gateway' = m /\ LeafAppears(l, a, g, "destroying", "cleanup", h)
    BY <1>3, SameMethods DEF AdmitLease
  <2>2. CASE /\ Owner!CanAdmitProvisionalToolVm(m, a, g)
             /\ gateway' = Owner!AdmitProvisionalToolVm(m, a, g)
             /\ LeafAppears(l, a, g, "provisioning", "create", h)
    BY <1>3, <2>2, LeafAdded DEF LeafAppears, Oldest
  <2>3. CASE gateway' = m /\ LeafAppears(l, a, g, "destroying", "cleanup", h)
    BY <1>3, <2>3, LeafAdded DEF LeafAppears, Oldest
  <2> QED BY <2>1, <2>2, <2>3
<1> QED BY <1>1, <1>2, <1>3

LEMMA CreateLeaseKept ==
  ASSUME ManagerInv, NEW a \in Agents, CreateLease(a)
  PROVE  OwnerStep /\ ManagerInv'
<1>1. /\ op[a].stage = "idle" /\ AdmitLease(lease, gateway, a, NoLeaf)
      /\ UNCHANGED <<epoch, lifecycle, gatewayVm, sweep>>
  BY DEF CreateLease, Idle
<1>2. PredecessorLeft(a, NoLeaf, lease, gateway)
  BY InvFacts DEF PredecessorLeft
<1> QED BY <1>1, <1>2, AdmitLeaseKept

LEMMA ReplaceLeaseKept ==
  ASSUME ManagerInv, NEW a \in Agents, NEW h \in Leaves, ReplaceLease(a, h)
  PROVE  OwnerStep /\ ManagerInv'
<1> DEFINE l == RetiredLeaf(lease, h)
           m == RetiredMembership(gateway, h)
<1>1. /\ op[a].stage \in {"idle", "reuse-probe"} /\ AdmitLease(l, m, a, h)
      /\ UNCHANGED <<epoch, lifecycle, gatewayVm, sweep>>
      /\ \/ IsCurrent(a, h)
         \/ op[a].stage = "reuse-probe" /\ op[a].leaf = h
  BY DEF ReplaceLease, Idle
<1>2. lease[h].agentId = a /\ lease[h].kind \in {"current", "quarantined"} /\ h # NoLeaf
  BY <1>1, InvFacts DEF ManagerInv, AgentInv, OperationIsConsistent, IsCurrent
<1>3. PredecessorLeft(a, h, l, m)
  BY <1>2, PredecessorRetired
<1> QED BY <1>1, <1>2, <1>3, AdmitLeaseKept

-----------------------------------------------------------------------------
(* The Gateway around the leases.                                          *)

\* The ownership the manager is composed with and the one the theorems are about.
LEMMA SameSystem ==
  /\ Ownership!Init <=> Owner!Init
  /\ Ownership!Next <=> Owner!Next
  /\ Ownership!vars = Owner!vars
<1>1. (Ownership!Init <=> Owner!Init) /\ Ownership!vars = Owner!vars
  BY DEF Ownership!Init, Owner!Init, Ownership!vars, Owner!vars, Ownership!SeededGateway, Owner!SeededGateway,
     Ownership!AbsentChild, Owner!AbsentChild, Ownership!NewLifecycle, Owner!NewLifecycle,
     Ownership!Epochs, Owner!Epochs
<1>2. Ownership!LifecycleStep <=> Owner!LifecycleStep
  BY DEF Ownership!LifecycleStep, Owner!LifecycleStep, Ownership!BeginGatewayEpoch, Owner!BeginGatewayEpoch,
     Ownership!ContainPendingCreate, Owner!ContainPendingCreate, Ownership!Creating, Owner!Creating,
     Ownership!AttachGatewayVm, Owner!AttachGatewayVm, Ownership!CloseLateCreatedVm, Owner!CloseLateCreatedVm,
     Ownership!GatewayVmCreationFails, Owner!GatewayVmCreationFails, Ownership!DestroyLive, Owner!DestroyLive,
     Ownership!SealGatewayEpoch, Owner!SealGatewayEpoch, Ownership!LeasesReturned, Owner!LeasesReturned,
     Ownership!LeasesFailed, Owner!LeasesFailed, Ownership!AttemptFails, Owner!AttemptFails,
     Ownership!RecordGatewayDestroyUnavailable, Owner!RecordGatewayDestroyUnavailable,
     Ownership!PassBarrier, Owner!PassBarrier, Ownership!BarrierPending, Owner!BarrierPending,
     Ownership!BarrierFulfilled, Owner!BarrierFulfilled, Ownership!BarrierRejected, Owner!BarrierRejected,
     Ownership!BarrierRejects, Owner!BarrierRejects, Ownership!ExpiredOperationStops, Owner!ExpiredOperationStops,
     Ownership!DestroyGatewayVm, Owner!DestroyGatewayVm, Ownership!SubtreeTimeout, Owner!SubtreeTimeout,
     Ownership!GatewayVmDestructionFails, Owner!GatewayVmDestructionFails,
     Ownership!SeededGateway, Owner!SeededGateway, Ownership!AbsentChild, Owner!AbsentChild,
     Ownership!NewLifecycle, Owner!NewLifecycle
<1>3. \A g \in Leaves : Ownership!ToolVmStep(g) <=> Owner!ToolVmStep(g)
  BY SameMethods
     DEF Ownership!ToolVmStep, Owner!ToolVmStep, Ownership!ToolVmAdmitted, Owner!ToolVmAdmitted,
     Ownership!ToolVmAttached, Owner!ToolVmAttached, Ownership!ToolVmCommitted, Owner!ToolVmCommitted,
     Ownership!ToolVmDestroying, Owner!ToolVmDestroying, Ownership!ToolVmReplaced, Owner!ToolVmReplaced,
     Ownership!ToolVmAccessFenced, Owner!ToolVmAccessFenced, Ownership!ToolVmDestroyed, Owner!ToolVmDestroyed,
     Ownership!ToolVmUnavailable, Owner!ToolVmUnavailable
<1>4. Ownership!Next <=> Owner!Next
  BY <1>2, <1>3 DEF Ownership!Next, Owner!Next
<1> QED BY <1>1, <1>4

LEMMA GatewayStep ==
  ASSUME Ownership!LifecycleStep
  PROVE  OwnerStep
BY SameSystem DEF OwnerStep, Ownership!Next

\* The Gateway moves and the manager does not.
LEMMA GatewayMoves ==
  ASSUME ManagerInv, UNCHANGED <<lease, op, pool>>, OwnerStep,
         sweep' \in Sweep,
         \A g \in Leaves : LeafInv(g)', QuietWhenClosed'
  PROVE  ManagerInv'
<1>1. TypeOK' /\ SlotsFollowLeaves'
  BY DEF ManagerInv, TypeOK, SlotsFollowLeaves, Live
<1>2. \A a \in Agents : AgentInv(a)'
  <2> TAKE a \in Agents
  <2>1. AgentInv(a)
    BY DEF ManagerInv
  <2> QED BY <2>1 DEF AgentInv, OperationIsConsistent, CreationIsAlone, FenceIsAwaited,
             OneIsReachable, Reachable
<1> QED BY <1>1, <1>2, InvAssembled

\* There is nothing left to do: no lock is held, and no leaf is live.
Quiet == (\A a \in Agents : Idle(a)) /\ (\A g \in Leaves : ~Live(g))

LEMMA StaysQuiet ==
  ASSUME UNCHANGED <<lease, op>>, Quiet
  PROVE  Quiet'
BY DEF Quiet, Idle, Live

LEMMA BeginGatewayEpochKept ==
  ASSUME ManagerInv, BeginGatewayEpoch
  PROVE  OwnerStep /\ ManagerInv'
<1>1. /\ UNCHANGED <<lease, op, pool>> /\ Ownership!BeginGatewayEpoch /\ sweep' = NoSweep
  BY DEF BeginGatewayEpoch
<1>2. gateway.state = "retired" /\ gateway'.state = "seeded"
      /\ \A g \in Leaves : gateway'.children[g].state = "absent"
  BY <1>1 DEF Ownership!BeginGatewayEpoch, Ownership!SeededGateway, Ownership!AbsentChild
<1>3. Quiet
  BY <1>2 DEF ManagerInv, QuietWhenClosed, Quiet
<1>4. OwnerStep
  BY <1>1, GatewayStep DEF Ownership!LifecycleStep
<1>5. \A g \in Leaves : LeafInv(g)'
  <2> TAKE g \in Leaves
  <2>1. LeafInv(g) /\ ~Live(g)
    BY <1>3 DEF ManagerInv, Quiet
  <2>2. LeafIsConsistent(g)'
    BY <1>1, <2>1 DEF LeafInv, LeafIsConsistent
  <2>3. LeafIsOwned(g)'
    BY <1>1, <1>2, <2>1 DEF LeafIsOwned, Live
  <2> QED BY <2>2, <2>3 DEF LeafInv
<1>6. QuietWhenClosed'
  BY <1>1, <1>3, StaysQuiet DEF QuietWhenClosed, Quiet, NoSweep
<1>7. sweep' \in Sweep
  BY <1>1 DEF NoSweep, NoSnapshots, Sweep
<1> QED BY <1>1, <1>4, <1>5, <1>6, <1>7, GatewayMoves

LEMMA DestroyLiveKept ==
  ASSUME ManagerInv, DestroyLive
  PROVE  OwnerStep /\ ManagerInv'
<1>1. /\ UNCHANGED <<lease, op, pool>> /\ Ownership!DestroyLive
      /\ sweep' = [NoSweep EXCEPT !.phase = "running", !.todo = Cohort]
  BY DEF DestroyLive
<1>2. /\ gateway' = [gateway EXCEPT !.state = "sealed", !.barrier = gateway'.barrier]
      /\ lifecycle' = [lifecycle EXCEPT !.attempt = "running", !.step = "leases"]
  BY <1>1, InvFacts DEF Ownership!DestroyLive, Ownership!SealGatewayEpoch, Owner!Membership
<1>3. gateway'.state = "sealed" /\ gateway'.children = gateway.children /\ lifecycle'.step = "leases"
  <2>1. lifecycle \in Owner!Lifecycle /\ gateway \in Owner!Membership
    BY DEF ManagerInv, Owner!OwnershipInv, Owner!TypeOK
  <2> QED BY <1>2, <2>1 DEF Owner!Lifecycle, Owner!Membership
<1>4. OwnerStep
  BY <1>1, GatewayStep DEF Ownership!LifecycleStep
<1>5. \A g \in Leaves : LeafInv(g)'
  BY <1>1, <1>3, LeafKept DEF ManagerInv
<1>6. QuietWhenClosed'
  BY <1>1, <1>3 DEF QuietWhenClosed, NoSweep
<1>7. sweep' \in Sweep
  BY <1>1 DEF Cohort, NoSweep, NoSnapshots, Sweep
<1> QED BY <1>1, <1>4, <1>5, <1>6, <1>7, GatewayMoves

LEMMA CohortSettledKept ==
  ASSUME ManagerInv, CohortSettled
  PROVE  OwnerStep /\ ManagerInv'
<1>1. /\ UNCHANGED ownershipVars /\ UNCHANGED <<lease, op, pool>> /\ sweep.phase = "running"
      /\ \/ sweep' = [sweep EXCEPT !.phase = "failed"]
         \/ Cohort = {} /\ sweep' = [sweep EXCEPT !.phase = "returned"]
         \/ sweep' = [sweep EXCEPT !.todo = Cohort]
  BY DEF CohortSettled
<1>2. sweep' \in Sweep
  BY <1>1 DEF ManagerInv, TypeOK, Cohort, Sweep
<1>3. sweep'.phase = "returned" => Cohort = {}
  BY <1>1 DEF ManagerInv, TypeOK, Sweep
<1>4. Cohort = {} => Quiet
  <2> SUFFICES ASSUME Cohort = {} PROVE Quiet
    OBVIOUS
  <2>1. \A a \in Agents : Idle(a) /\ OwnedLeaves(a) = {}
    BY DEF Cohort
  <2>2. \A g \in Leaves : Live(g) => lease[g].agentId \in Agents
    BY DEF ManagerInv, LeafInv, LeafIsConsistent, Live
  <2> QED BY <2>1, <2>2 DEF Quiet, OwnedLeaves
<1>5. gateway' = gateway /\ lifecycle' = lifecycle
  BY <1>1 DEF ownershipVars
<1>6. OwnerStep
  BY <1>1, OwnershipKept DEF ToolVmOf
<1>7. \A g \in Leaves : LeafInv(g)'
  BY <1>1, <1>5, LeafKept DEF ManagerInv
<1>8. QuietWhenClosed'
  <2>1. gateway.state \in {"seeded", "retired"} \/ lifecycle.step \in {"barrier", "vm"} => Quiet
    BY DEF ManagerInv, QuietWhenClosed, Quiet
  <2>2. gateway.state \notin {"seeded", "admitting"}
    BY <1>1 DEF ManagerInv, QuietWhenClosed
  <2> QED BY <1>1, <1>3, <1>4, <1>5, <2>1, <2>2, StaysQuiet DEF QuietWhenClosed, Quiet
<1> QED BY <1>1, <1>2, <1>6, <1>7, <1>8, GatewayMoves

\* What a lifecycle step finds: it is one of the ownership, it leaves the children
\* alone, and it comes to a stage without leases only when there are none.
LEMMA LifecycleStepIs ==
  ASSUME ManagerInv, SweepAnswered \/ OtherLifecycleStep
  PROVE  /\ Ownership!LifecycleStep
         /\ gateway'.children = gateway.children
         /\ \/ gateway.state \in {"seeded", "retired"}
            \/ lifecycle.step \in {"barrier", "vm"}
            \/ sweep.phase = "returned"
            \/ /\ gateway'.state \notin {"seeded", "retired"}
               /\ lifecycle'.step \notin {"barrier", "vm"}
         /\ gateway'.state \in {"seeded", "admitting"} => gateway.state \in {"seeded", "admitting"}
<1>1. /\ gateway \in Owner!Membership /\ lifecycle \in Owner!Lifecycle
      /\ epoch > 0 /\ gatewayVm[epoch] = "creating" => gateway.state = "seeded"
      /\ lifecycle.attempt = "running" => gateway.state = "sealed"
      /\ lifecycle.step \in {"leases", "barrier", "vm"} => gateway.state \in {"sealed", "owner-unsafe"}
  BY DEF ManagerInv, Owner!OwnershipInv, Owner!TypeOK, Owner!PhasesAgree, Owner!Sealing
<1>2. \A s : /\ [gateway EXCEPT !.state = s].children = gateway.children
             /\ [gateway EXCEPT !.state = s].state = s
  BY <1>1 DEF Owner!Membership
<1>3. CASE Ownership!ContainPendingCreate \/ Ownership!AttachGatewayVm
            \/ (\E closed \in BOOLEAN : Ownership!CloseLateCreatedVm(closed))
            \/ Ownership!GatewayVmCreationFails
  <2>1. gateway.state = "seeded" /\ Ownership!LifecycleStep
    BY <1>1, <1>3 DEF Ownership!ContainPendingCreate, Ownership!AttachGatewayVm, Ownership!Creating,
       Ownership!CloseLateCreatedVm, Ownership!GatewayVmCreationFails, Ownership!LifecycleStep
  <2>2. gateway' = gateway \/ \E s : gateway' = [gateway EXCEPT !.state = s]
    BY <1>3 DEF Ownership!ContainPendingCreate, Ownership!AttachGatewayVm, Ownership!CloseLateCreatedVm,
       Ownership!GatewayVmCreationFails
  <2> QED BY <1>2, <2>1, <2>2
<1>4. CASE /\ sweep.phase = "returned" \/ Ownership!PassBarrier
           /\ Ownership!LeasesReturned \/ Ownership!PassBarrier
  <2>1. /\ gateway' = gateway /\ Ownership!LifecycleStep
        /\ sweep.phase = "returned" \/ lifecycle.step = "barrier"
    BY <1>4 DEF Ownership!LeasesReturned, Ownership!PassBarrier, Ownership!LifecycleStep
  <2> QED BY <2>1
<1>5. CASE \/ Ownership!LeasesFailed \/ Ownership!ExpiredOperationStops \/ Ownership!BarrierRejects
           \/ Ownership!GatewayVmDestructionFails
  <2>1. /\ gateway' = [gateway EXCEPT !.state = "owner-unsafe"] /\ Ownership!LifecycleStep
        /\ lifecycle' = [lifecycle EXCEPT !.attempt = "failed", !.step = "ended"]
    BY <1>5 DEF Ownership!LeasesFailed, Ownership!ExpiredOperationStops, Ownership!BarrierRejects,
       Ownership!GatewayVmDestructionFails, Ownership!AttemptFails,
       Ownership!RecordGatewayDestroyUnavailable, Ownership!LifecycleStep
  <2>2. lifecycle'.step = "ended"
    BY <1>1, <2>1 DEF Owner!Lifecycle
  <2> QED BY <1>2, <2>1, <2>2
<1>6. CASE Ownership!SubtreeTimeout
  <2>1. /\ gateway' = [gateway EXCEPT !.state = "owner-unsafe"] /\ Ownership!LifecycleStep
        /\ lifecycle' = [lifecycle EXCEPT !.attempt = "failed", !.expired = TRUE]
    BY <1>6 DEF Ownership!SubtreeTimeout, Ownership!RecordGatewayDestroyUnavailable, Ownership!LifecycleStep
  <2>2. lifecycle'.step = lifecycle.step
    BY <1>1, <2>1 DEF Owner!Lifecycle
  <2> QED BY <1>2, <2>1, <2>2
<1>7. CASE Ownership!DestroyGatewayVm
  <2>1. /\ lifecycle.step = "vm" /\ Ownership!LifecycleStep
        /\ gateway' = gateway \/ gateway' = [gateway EXCEPT !.state = "retired"]
    BY <1>7 DEF Ownership!DestroyGatewayVm, Ownership!LifecycleStep
  <2> QED BY <1>2, <2>1
<1> QED BY <1>3, <1>4, <1>5, <1>6, <1>7 DEF SweepAnswered, OtherLifecycleStep

LEMMA LifecycleStepKept ==
  ASSUME ManagerInv, LifecycleStep
  PROVE  OwnerStep /\ ManagerInv'
<1>1. UNCHANGED <<lease, op, pool, sweep>> /\ (SweepAnswered \/ OtherLifecycleStep)
  BY DEF LifecycleStep
<1>2. OwnerStep
  BY <1>1, LifecycleStepIs, GatewayStep
<1>3. \A g \in Leaves : LeafInv(g)'
  BY <1>1, LifecycleStepIs, LeafKept DEF ManagerInv
<1>4. QuietWhenClosed'
  <2>1. \/ gateway.state \in {"seeded", "retired"}
        \/ lifecycle.step \in {"barrier", "vm"}
        \/ sweep.phase = "returned"
        => Quiet
    BY DEF ManagerInv, QuietWhenClosed, Quiet
  <2>2. \/ gateway'.state \in {"seeded", "retired"}
        \/ lifecycle'.step \in {"barrier", "vm"}
        \/ sweep'.phase = "returned"
        => Quiet
    BY <1>1, <2>1, LifecycleStepIs
  <2>3. gateway'.state \in {"seeded", "admitting"} => sweep'.phase = "none"
    BY <1>1, LifecycleStepIs DEF ManagerInv, QuietWhenClosed
  <2> QED BY <1>1, <2>2, <2>3, StaysQuiet DEF QuietWhenClosed, Quiet
<1>5. sweep' \in Sweep
  BY <1>1 DEF ManagerInv, TypeOK
<1> QED BY <1>1, <1>2, <1>3, <1>4, <1>5, GatewayMoves

-----------------------------------------------------------------------------
(* The theorems.                                                           *)

LEMMA ManagerStep ==
  ASSUME ManagerInv, [Next]_vars
  PROVE  OwnerStep /\ ManagerInv'
<1>1. CASE \E a \in Agents : OperationStep(a) \/ RequestStep(a) \/ SweepStep(a)
  <2> PICK a \in Agents : OperationStep(a) \/ RequestStep(a) \/ SweepStep(a)
    BY <1>1
  <2>1. CASE OperationStep(a)
    <3>1. CASE op[a].stage = "reuse-probe" /\ ReplaceLease(a, op[a].leaf)
      <4>1. op[a].leaf \in Leaves
        BY <3>1, InvFacts DEF ManagerInv, AgentInv, OperationIsConsistent, Operation
      <4> QED BY <3>1, <4>1, ReplaceLeaseKept
    <3>2. CASE EvictLease(a)
      <4>1. op[a].leaf \in Leaves
        BY <3>2, InvFacts DEF EvictLease, ManagerInv, AgentInv, OperationIsConsistent, Operation
      <4> QED BY <3>2, <4>1, LeafGivenUp
    <3>3. CASE VmStarted(a) \/ RecordBuilt(a) \/ RecordWritten(a) \/ BarrierPassed(a)
      BY <3>3, CreationStepKept
    <3>4. CASE VmStartFails(a) \/ CreationFails(a) \/ BarrierRejected(a) \/ FallbackRecorded(a)
      BY <3>4, CreationFailureKept
    <3>5. CASE SshEnabled(a)
      BY <3>5, SshEnabledKept
    <3> QED BY <2>1, <3>1, <3>2, <3>3, <3>4, <3>5, ProbeAnsweredKept, VmCreatedKept, FallbackFailsKept,
               OperationSettlesKept DEF OperationStep
  <2>2. CASE RequestStep(a)
    <3>1. CASE \E g \in Leaves : ReuseLease(a, g) \/ ProbeLease(a, g)
      BY <3>1, ProbeBegins
    <3>2. CASE \E g \in Leaves : ReplaceLease(a, g)
      BY <3>2, ReplaceLeaseKept
    <3>3. CASE \E g \in Leaves : ReleaseLease(a, g)
      BY <3>3, LeafGivenUp
    <3> QED BY <2>2, <3>1, <3>2, <3>3, CreateLeaseKept DEF RequestStep
  <2>3. CASE SweepStep(a)
    <3>1. CASE \E g \in Leaves : SweepLeaf(a, g)
      BY <3>1, LeafGivenUp
    <3> QED BY <2>3, <3>1, AgentSweptKept, SweepGivesUpKept DEF SweepStep
  <2> QED BY <2>1, <2>2, <2>3
<1>2. CASE \E g \in Leaves : DestructionStep(g) \/ UseStep(g)
  BY <1>2, DestructionStepKept, UseStepKept
<1>3. CASE BeginGatewayEpoch \/ DestroyLive \/ CohortSettled \/ LifecycleStep
  BY <1>3, BeginGatewayEpochKept, DestroyLiveKept, CohortSettledKept, LifecycleStepKept
<1>4. CASE UNCHANGED vars
  BY <1>4, StutterKept
<1> QED BY <1>1, <1>2, <1>3, <1>4 DEF Next

LEMMA ManagerStarts == Init => ManagerInv
<1> SUFFICES ASSUME Init PROVE ManagerInv
  OBVIOUS
<1>1. /\ lease = [g \in Leaves |-> AbsentLease] /\ op = [a \in Agents |-> IdleOp]
      /\ pool = [allocated |-> {}, quarantined |-> {}] /\ sweep = NoSweep /\ Ownership!Init
  BY DEF Init
<1>2. AbsentLease \in Lease /\ IdleOp \in Operation
  BY ManagerAssumption DEF AbsentLease, Lease, LeafKinds, IdleOp, Operation
<1>3. TypeOK
  BY <1>1, <1>2 DEF TypeOK, NoSweep, NoSnapshots, Sweep
<1>4. Owner!OwnershipInv
  BY <1>1, SameSystem, OwnerAssumption, Owner!OwnershipStarts
<1>5. gateway.state = "retired" /\ \A g \in Leaves : gateway.children[g].state = "absent"
  BY <1>1 DEF Ownership!Init, Ownership!SeededGateway, Ownership!AbsentChild
<1>6. \A g \in Leaves : LeafInv(g)
  <2> TAKE g \in Leaves
  <2>1. lease[g] = AbsentLease
    BY <1>1
  <2> QED BY <1>5, <2>1 DEF LeafInv, LeafIsConsistent, LeafIsOwned, AbsentLease, Fenced, Live
<1>7. \A a \in Agents : AgentInv(a)
  <2> SUFFICES ASSUME NEW a \in Agents PROVE AgentInv(a)
    BY Zenon
  <2>1. op[a] = IdleOp /\ \A g \in Leaves : lease[g].agentId # a
    BY <1>1, ManagerAssumption DEF AbsentLease
  <2> QED BY <2>1 DEF AgentInv, OperationIsConsistent, CreationIsAlone, FenceIsAwaited, OneIsReachable,
             IdleOp, CreationStages
<1>8. \A g \in Leaves : ~Live(g)
  BY <1>1 DEF Live, AbsentLease
<1>9. SlotsFollowLeaves
  BY <1>1, <1>8 DEF SlotsFollowLeaves
<1>10. QuietWhenClosed
  BY <1>1, <1>5, <1>8 DEF QuietWhenClosed, Idle, IdleOp, NoSweep
<1> QED BY <1>3, <1>4, <1>6, <1>7, <1>9, <1>10 DEF ManagerInv

\* The inductive invariant of the lease manager: what a leaf has follows from how
\* far it got, the coordinator knows of it, an operation finds at each await what it
\* left there, a lock is held as long as a fence it waits for is under way, and
\* nothing is left when the sweep of the Gateway has returned.
THEOREM ManagerCorrect == Spec => []ManagerInv
<1>1. ManagerInv /\ [Next]_vars => ManagerInv'
  BY ManagerStep
<1> QED BY <1>1, ManagerStarts, PTL DEF Spec

\* The lease authority, the ownership coordinator and the TCP pool agree at every
\* await of createLease, releaseLease, evictLease and destroyGatewayOwnedLeases, and
\* a retired Gateway leaves no leaf, no process and no slot behind.
THEOREM RegistriesCorrect == Spec => []RegistriesAgree
<1>1. ManagerInv => RegistriesAgree
  <2> SUFFICES ASSUME ManagerInv PROVE RegistriesAgree
    OBVIOUS
  <2>1. TypeOK /\ SlotsFollowLeaves /\ \A g \in Leaves : LeafInv(g)
    BY DEF ManagerInv
  <2>2. MembershipAgrees
    BY <2>1, SameMethods DEF MembershipAgrees, LeafInv, LeafIsOwned
  <2>3. RetiredGatewayLeavesNothing
    <3> SUFFICES ASSUME gateway.state = "retired"
                 PROVE  /\ \A g \in Leaves : ~Live(g) /\ lease[g].vm \in {"none", "gone"}
                        /\ pool.allocated \cup pool.quarantined = {}
      BY DEF RetiredGatewayLeavesNothing
    <3>1. \A g \in Leaves : ~Live(g)
      BY DEF ManagerInv, QuietWhenClosed
    <3>2. \A g \in Leaves : lease[g].vm \in {"none", "gone"}
      BY <2>1, <3>1 DEF LeafInv, LeafIsConsistent, Live, Fenced, AbsentLease
    <3>3. pool.allocated \cup pool.quarantined = {}
      BY <2>1, <3>1 DEF SlotsFollowLeaves
    <3> QED BY <3>1, <3>2, <3>3
  <2> QED BY <2>1, <2>2, <2>3 DEF RegistriesAgree
<1> QED BY <1>1, ManagerCorrect, PTL

\* One VM serves an agent: the admission barrier of a replacement, the fence of a
\* failed creation and the commit see to it, whatever fails on the way.
THEOREM OneVmCorrect == Spec => []OneVmServesAgent
<1>1. ManagerInv => OneVmServesAgent
  <2> SUFFICES ASSUME ManagerInv, NEW g \in Leaves, NEW h \in Leaves, g # h,
                      lease[g].agentId = lease[h].agentId
               PROVE  /\ ~(Reachable(g) /\ Reachable(h))
                      /\ lease[g].kind = "current" => lease[h].vm # "running"
    BY DEF OneVmServesAgent
  <2>1. LeafInv(g) /\ LeafInv(h) /\ NoLeaf \notin Agents
    BY InvFacts DEF ManagerInv
  <2>2. ~(Reachable(g) /\ Reachable(h))
    <3>1. CASE lease[g].kind = "absent"
      BY <2>1, <3>1 DEF LeafInv, LeafIsConsistent, AbsentLease, Reachable
    <3>2. CASE lease[g].kind # "absent"
      <4> PICK a \in Agents : a = lease[g].agentId
        BY <2>1, <3>2 DEF LeafInv, LeafIsConsistent
      <4> QED BY DEF ManagerInv, AgentInv, OneIsReachable
    <3> QED BY <3>1, <3>2
  <2>3. ASSUME lease[g].kind = "current" PROVE lease[h].vm # "running"
    <3> DEFINE c == gateway.children[g]
               d == gateway.children[h]
    <3>1. c.state = "current" /\ c.agentId = lease[g].agentId
      BY <2>1, <2>3 DEF LeafInv, LeafIsOwned, StateOfKind
    <3>2. CASE d.state = "absent"
      BY <2>1, <3>2 DEF LeafInv, LeafIsOwned, LeafIsConsistent, Live, AbsentLease, Fenced
    <3>3. CASE d.state # "absent"
      <4>1. d.state = StateOfKind(lease[h].kind) /\ d.agentId = c.agentId
        BY <2>1, <3>1, <3>3 DEF LeafInv, LeafIsOwned
      <4>2. d.state \in {"retiring", "destroyed"}
        BY <3>1, <4>1 DEF ManagerInv, Owner!OwnershipInv, Owner!CurrentChildServesAlone
      <4>3. lease[h].kind \in Fenced
        BY <4>1, <4>2 DEF StateOfKind, Fenced
      <4> QED BY <2>1, <4>3 DEF LeafInv, LeafIsConsistent
    <3> QED BY <3>2, <3>3
  <2> QED BY <2>2, <2>3
<1> QED BY <1>1, ManagerCorrect, PTL

\* A Tool VM that can be reached over SSH has a durable record, whichever step of a
\* creation fails and whichever cleanup is given up half way.
THEOREM ReachableRecorded == Spec => []ReachableVmIsRecorded
<1>1. ManagerInv => ReachableVmIsRecorded
  BY DEF ManagerInv, LeafInv, LeafIsConsistent, ReachableVmIsRecorded, Reachable
<1> QED BY <1>1, ManagerCorrect, PTL

\* The lease manager implements the ownership of the zone: every step of an
\* operation, a destruction or the sweep is one call of the coordinator or none.
THEOREM ManagerImplementsOwnership == Spec => OwnershipImplemented
<1>1. Init => Ownership!Init
  BY DEF Init
<1>2. ManagerInv /\ [Next]_vars => [Ownership!Next]_(Ownership!vars)
  BY ManagerStep, SameSystem DEF OwnerStep, Ownership!vars, Owner!vars
<1> QED BY <1>1, <1>2, ManagerCorrect, PTL DEF Spec, OwnershipImplemented, Ownership!Spec

\* So what the coordinator promises holds of the machines the manager runs: no Tool
\* VM outlives its Gateway VM, and what cannot be proved destroyed stays contained.
THEOREM OwnershipInherited == Spec => []Owner!NothingOutlivesItsGateway /\ Owner!ContainmentIsKept
<1>1. Init => Owner!Init
  BY SameSystem DEF Init
<1>2. ManagerInv /\ [Next]_vars => [Owner!Next]_(Owner!vars)
  BY ManagerStep DEF OwnerStep
<1>3. Spec => Owner!Spec
  BY <1>1, <1>2, ManagerCorrect, PTL DEF Spec, Owner!Spec
<1>4. Owner!Spec => []Owner!NothingOutlivesItsGateway
  BY OwnerAssumption, Owner!MachinesEndInOrder
<1>5. Owner!Spec => Owner!ContainmentIsKept
  BY OwnerAssumption, Owner!ContainmentCorrect
<1> QED BY <1>3, <1>4, <1>5
=============================================================================
