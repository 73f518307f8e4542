----------------------- MODULE GatewayOwnershipProofs -----------------------
(***************************************************************************)
(* Theorems about the ownership of a zone's VMs, for every set of agents   *)
(* and leaves and every number of Gateway epochs.                          *)
(***************************************************************************)
EXTENDS GatewayOwnership, TLAPS

-----------------------------------------------------------------------------
(* The inductive invariant.                                                *)

Emptied == {"absent", "destroyed"}
Sealing == {"leases", "barrier", "vm"}

\* A child is of an agent from its admission on; its completion is open until
\* it is destroyed or given up.
ChildrenAreConsistent ==
  \A g \in Leaves :
    LET c == gateway.children[g] IN
    /\ c.state = "absent" <=> c.agentId = NoLeaf
    /\ c.state \in {"provisional", "current", "destroying", "retiring"} => c.completion = "pending"
    /\ c.state = "owner-unsafe" => c.completion = "incomplete"

\* What the barrier of a seal does not wait for any more is destroyed, or its
\* child was given up.
BarrierIsHonest ==
  gateway.state \in {"sealed", "owner-unsafe"} =>
    \A g \in Leaves :
      gateway.barrier[g] \in {"none", "complete"} => gateway.children[g].state \in Emptied

\* A Tool VM runs only under a child whose access is not fenced.
RunningVmIsOwned ==
  \A g \in Leaves :
    toolVm[g] = "running" => gateway.children[g].state \notin {"absent", "retiring", "destroyed"}

\* A Gateway has no children before it admits and when it has been retired.
EmptyWhenClosed ==
  /\ gateway.state = "seeded" => \A g \in Leaves : gateway.children[g].state = "absent"
  /\ gateway.state = "retired" \/ lifecycle.step = "vm" =>
       \A g \in Leaves : gateway.children[g].state \in Emptied

\* Where the Gateway, the operation of its destruction and its VM are.
PhasesAgree ==
  /\ gateway.state = "seeded" => lifecycle.step = "none" /\ epoch > 0
  /\ gateway.state = "admitting" => /\ lifecycle.step = "none"
                                    /\ epoch > 0 /\ gatewayVm[epoch] = "running"
  /\ gateway.state = "sealed" => lifecycle.attempt = "running"
  /\ gateway.state = "owner-unsafe" => lifecycle.attempt = "failed" /\ epoch > 0
  /\ gateway.state = "retired" => /\ lifecycle.step \in {"none", "ended"}
                                  /\ epoch > 0 => gatewayVm[epoch] = "gone"
  /\ lifecycle.attempt = "running" => gateway.state = "sealed" /\ lifecycle.step \in Sealing
  /\ lifecycle.attempt = "none" <=> lifecycle.step = "none"
  /\ lifecycle.step \in Sealing => /\ epoch > 0 /\ gatewayVm[epoch] = "running"
                                   /\ gateway.state \in {"sealed", "owner-unsafe"}
  /\ epoch > 0 /\ gatewayVm[epoch] = "creating" => gateway.state = "seeded"

OwnershipInv ==
  /\ TypeOK
  /\ ChildrenAreConsistent
  /\ BarrierIsHonest
  /\ RunningVmIsOwned
  /\ EmptyWhenClosed
  /\ PhasesAgree
  /\ NothingOutlivesItsGateway
  /\ CurrentChildServesAlone
  /\ AgentMappingAgrees

-----------------------------------------------------------------------------
(* What the methods of the coordinator change.                             *)

\* beginDestroying of a child that is not fenced, recordAccessFenced and
\* recordDestroyed change the child, and take its agent's mapping from it.
LEMMA ClearedMapping ==
  ASSUME NEW m \in Membership, NEW g \in Leaves, m.children[g].agentId \in Agents
  PROVE  /\ ClearCurrentLeafMapping(m, g) \in Membership
         /\ ClearCurrentLeafMapping(m, g).state = m.state
         /\ ClearCurrentLeafMapping(m, g).children = m.children
         /\ ClearCurrentLeafMapping(m, g).barrier = m.barrier
         /\ \A a \in Agents : ClearCurrentLeafMapping(m, g).leafIdByAgentId[a] =
              IF a = m.children[g].agentId /\ m.leafIdByAgentId[a] = g THEN NoLeaf
              ELSE m.leafIdByAgentId[a]
BY DEF ClearCurrentLeafMapping, Membership

\* A child moved to another state.
LEMMA MovedChild ==
  ASSUME NEW m \in Membership, NEW g \in Leaves, NEW s \in ChildStates
  PROVE  LET n == [m EXCEPT !.children[g].state = s]
         IN  /\ n \in Membership
             /\ n.state = m.state /\ n.barrier = m.barrier /\ n.leafIdByAgentId = m.leafIdByAgentId
             /\ \A h \in Leaves : h # g => n.children[h] = m.children[h]
             /\ n.children[g].state = s
             /\ n.children[g].agentId = m.children[g].agentId
             /\ n.children[g].attached = m.children[g].attached
             /\ n.children[g].completion = m.children[g].completion
BY DEF Membership, Child

\* A completion settles once, for the child and for the barrier.
LEMMA ResolvedCompletion ==
  ASSUME NEW m \in Membership, NEW g \in Leaves, NEW k \in CompletionStates,
         NEW n, n = ResolveCompletion(m, g, k)
  PROVE  /\ n \in Membership
         /\ n.state = m.state /\ n.leafIdByAgentId = m.leafIdByAgentId
         /\ \A h \in Leaves : h # g => n.children[h] = m.children[h] /\ n.barrier[h] = m.barrier[h]
         /\ n.children[g].state = m.children[g].state
         /\ n.children[g].agentId = m.children[g].agentId
         /\ n.children[g].attached = m.children[g].attached
         /\ n.children[g].completion =
              IF m.children[g].completion = "pending" THEN k ELSE m.children[g].completion
         /\ n.barrier[g] = IF m.barrier[g] = "pending" THEN k ELSE m.barrier[g]
BY ZenonT(60) DEF ResolveCompletion, Membership, Child

\* admitProvisionalToolVm.
LEMMA AdmittedChild ==
  ASSUME NEW m \in Membership, NEW g \in Leaves, NEW a \in Agents
  PROVE  /\ AdmitProvisionalToolVm(m, a, g) \in Membership
         /\ AdmitProvisionalToolVm(m, a, g).state = m.state
         /\ AdmitProvisionalToolVm(m, a, g).barrier = m.barrier
         /\ AdmitProvisionalToolVm(m, a, g).leafIdByAgentId = [m.leafIdByAgentId EXCEPT ![a] = g]
         /\ AdmitProvisionalToolVm(m, a, g).children =
              [m.children EXCEPT ![g] = [state |-> "provisional", agentId |-> a,
                                         attached |-> FALSE, completion |-> "pending"]]
BY DEF AdmitProvisionalToolVm, Membership, Child, ChildStates, CompletionStates

-----------------------------------------------------------------------------
(* The steps of the lease manager.                                         *)

Fenced == {"retiring", "destroyed"}
Mapped == {"provisional", "current"}

\* One child of the Gateway changes: what the methods of its handle have in
\* common, and what the invariant needs of them.
OneChildChanged(g) ==
  /\ gateway' \in Membership
  /\ toolVm' \in [Leaves -> {"none", "running", "gone"}]
  /\ UNCHANGED <<epoch, lifecycle, gatewayVm>>
  /\ gateway'.state = gateway.state
  /\ \A h \in Leaves : h # g => /\ gateway'.children[h] = gateway.children[h]
                                /\ gateway'.barrier[h] = gateway.barrier[h]
                                /\ toolVm'[h] = toolVm[h]
  /\ gateway.children[g].state \notin Emptied
  /\ gateway'.children[g].state # "absent"
  /\ gateway'.children[g].agentId = gateway.children[g].agentId
  /\ gateway'.children[g].state \in {"provisional", "current", "destroying", "retiring"} =>
       gateway'.children[g].completion = "pending"
  /\ gateway'.children[g].state = "owner-unsafe" => gateway'.children[g].completion = "incomplete"
  /\ gateway'.barrier[g] \in {"none", "complete"} =>
       gateway'.barrier[g] = gateway.barrier[g] \/ gateway'.children[g].state = "destroyed"
  /\ toolVm'[g] = "running" => gateway'.children[g].state \notin Fenced
  /\ gateway'.children[g].state \in Mapped => gateway.children[g].state \in Mapped
  /\ gateway.children[g].state \in Fenced => gateway'.children[g].state \in Fenced
  /\ gateway'.children[g].state = "current" /\ gateway.children[g].state # "current" =>
       gateway.state = "admitting" /\ ~BlockingSameAgentPredecessor(gateway, g)
  /\ \A a \in Agents : \/ gateway'.leafIdByAgentId[a] = gateway.leafIdByAgentId[a]
                       \/ /\ gateway.leafIdByAgentId[a] = g
                          /\ gateway'.children[g].state \notin Mapped

\* A step that changes one child so keeps the invariant.
LEMMA ChildChanged ==
  ASSUME OwnershipInv, NEW g \in Leaves, OneChildChanged(g)
  PROVE  OwnershipInv'
<1> USE DEF OwnershipInv, OneChildChanged
<1> DEFINE old == gateway.children
           new == gateway'.children
<1>1. /\ old \in [Leaves -> Child] /\ new \in [Leaves -> Child]
      /\ gateway.leafIdByAgentId \in [Agents -> Leaves \cup {NoLeaf}]
  BY DEF TypeOK, Membership
<1>2. \A h \in Leaves : /\ old[h].state \in ChildStates /\ new[h].state \in ChildStates
                        /\ old[h].agentId \in Agents \cup {NoLeaf}
                        /\ new[h].agentId = old[h].agentId
  BY <1>1 DEF Child
<1>3. /\ gateway.state \notin {"seeded", "retired"} /\ lifecycle.step # "vm"
      /\ ~(epoch > 0 /\ gatewayVm[epoch] = "gone")
  BY DEF EmptyWhenClosed, NothingOutlivesItsGateway, GatewayVmOutlivesChildren, Emptied
<1>4. TypeOK'
  BY DEF TypeOK
<1>5. ChildrenAreConsistent'
  BY <1>2 DEF ChildrenAreConsistent, Emptied
<1>6. BarrierIsHonest'
  <2> SUFFICES ASSUME gateway.state \in {"sealed", "owner-unsafe"}, NEW h \in Leaves,
                      gateway'.barrier[h] \in {"none", "complete"}
               PROVE  new[h].state \in Emptied
    BY DEF BarrierIsHonest
  <2> QED BY DEF BarrierIsHonest, Emptied
<1>7. RunningVmIsOwned'
  BY DEF RunningVmIsOwned, Fenced
<1>8. EmptyWhenClosed' /\ PhasesAgree'
  BY <1>3 DEF EmptyWhenClosed, PhasesAgree
<1>9. NothingOutlivesItsGateway'
  <2>1. GatewayVmOutlivesChildren'
    BY <1>3 DEF GatewayVmOutlivesChildren
  <2>2. SuccessorOwnsZoneAlone'
    BY <1>7 DEF NothingOutlivesItsGateway, SuccessorOwnsZoneAlone, RunningVmIsOwned, Admitted
  <2> QED BY <2>1, <2>2 DEF NothingOutlivesItsGateway
<1>10. AgentMappingAgrees'
  <2> SUFFICES ASSUME NEW h \in Leaves, new[h].state \in Mapped
               PROVE  gateway'.leafIdByAgentId[new[h].agentId] = h
    BY DEF AgentMappingAgrees, Mapped
  <2>1. old[h].state \in Mapped /\ new[h].agentId = old[h].agentId
    BY <1>2
  <2>2. old[h].agentId \in Agents /\ gateway.leafIdByAgentId[old[h].agentId] = h
    BY <1>2, <2>1 DEF ChildrenAreConsistent, AgentMappingAgrees, Mapped
  <2> QED BY <2>1, <2>2
<1>11. CurrentChildServesAlone'
  <2> SUFFICES ASSUME NEW h \in Leaves, NEW k \in Leaves, h # k, new[h].state = "current",
                      new[k].agentId = new[h].agentId
               PROVE  new[k].state \in Fenced
    BY DEF CurrentChildServesAlone, Fenced
  <2>1. old[k].agentId = old[h].agentId
    BY <1>2
  <2>2. CASE old[h].state = "current"
    BY <2>1, <2>2 DEF CurrentChildServesAlone, Fenced
  <2>3. CASE old[h].state # "current"
    <3>1. h = g /\ new[k] = old[k] /\ old[h].state \in Mapped
      BY <2>3 DEF Mapped
    <3>2. old[k].state \notin {"destroying", "owner-unsafe"}
      BY <2>1, <2>3, <3>1 DEF BlockingSameAgentPredecessor
    <3>3. old[k].state \notin Mapped
      BY <2>1, <3>1 DEF AgentMappingAgrees, Mapped
    <3>4. old[k].state # "absent"
      BY <2>1, <3>1 DEF ChildrenAreConsistent, Mapped
    <3> QED BY <1>2, <3>1, <3>2, <3>3, <3>4 DEF ChildStates, Mapped, Fenced
  <2> QED BY <2>2, <2>3
<1> QED BY <1>4, <1>5, <1>6, <1>7, <1>8, <1>9, <1>10, <1>11

\* The methods of a child's handle change that child only.
LEMMA HandleChange ==
  ASSUME OwnershipInv, NEW g \in Leaves,
         \/ ToolVmAttached(g) \/ ToolVmCommitted(g) \/ ToolVmDestroying(g)
         \/ ToolVmAccessFenced(g) \/ ToolVmDestroyed(g) \/ ToolVmUnavailable(g)
  PROVE  OneChildChanged(g)
<1> DEFINE c == gateway.children[g]
<1>1. /\ gateway \in Membership /\ c \in Child /\ toolVm \in [Leaves -> {"none", "running", "gone"}]
      /\ c.state # "absent" => c.agentId \in Agents
  BY DEF OwnershipInv, TypeOK, Membership, Child, ChildrenAreConsistent
<1>2. /\ c.state \in {"provisional", "current", "destroying", "retiring"} => c.completion = "pending"
      /\ toolVm[g] = "running" => c.state \notin {"absent", "retiring", "destroyed"}
  BY DEF OwnershipInv, ChildrenAreConsistent, RunningVmIsOwned
<1>3. /\ "current" \in ChildStates /\ "destroying" \in ChildStates /\ "retiring" \in ChildStates
      /\ "destroyed" \in ChildStates /\ "owner-unsafe" \in ChildStates
      /\ "pending" \in CompletionStates /\ "complete" \in CompletionStates
      /\ "incomplete" \in CompletionStates
  BY DEF ChildStates, CompletionStates
<1>4. CASE ToolVmAttached(g)
  <2>1. /\ gateway' \in Membership
        /\ gateway'.state = gateway.state /\ gateway'.barrier = gateway.barrier
        /\ gateway'.leafIdByAgentId = gateway.leafIdByAgentId
        /\ \A h \in Leaves : h # g => gateway'.children[h] = gateway.children[h]
        /\ gateway'.children[g].state = c.state /\ gateway'.children[g].agentId = c.agentId
        /\ gateway'.children[g].completion = c.completion
    BY <1>1, <1>4 DEF ToolVmAttached, AttachToolVm, Membership, Child
  <2>2. /\ c.state = "provisional" /\ toolVm' \in [Leaves -> {"none", "running", "gone"}]
        /\ \A h \in Leaves : h # g => toolVm'[h] = toolVm[h]
        /\ UNCHANGED <<epoch, lifecycle, gatewayVm>>
    BY <1>1, <1>4 DEF ToolVmAttached
  <2> QED BY <1>2, <2>1, <2>2 DEF OneChildChanged, Emptied, Fenced, Mapped
<1>5. CASE ToolVmCommitted(g)
  <2>1. /\ gateway' = [gateway EXCEPT !.children[g].state = "current"]
        /\ c.state = "provisional" /\ gateway.state = "admitting"
        /\ ~BlockingSameAgentPredecessor(gateway, g)
        /\ UNCHANGED <<epoch, lifecycle, gatewayVm, toolVm>>
    BY <1>5 DEF ToolVmCommitted, CommitCurrent, CanCommitCurrent
  <2>2. /\ gateway' \in Membership
        /\ gateway'.state = gateway.state /\ gateway'.barrier = gateway.barrier
        /\ gateway'.leafIdByAgentId = gateway.leafIdByAgentId
        /\ \A h \in Leaves : h # g => gateway'.children[h] = gateway.children[h]
        /\ gateway'.children[g].state = "current" /\ gateway'.children[g].agentId = c.agentId
        /\ gateway'.children[g].completion = c.completion
    BY <1>1, <1>3, <2>1, MovedChild
  <2> QED BY <1>1, <1>2, <2>1, <2>2 DEF OneChildChanged, Emptied, Fenced, Mapped
<1>6. CASE ToolVmDestroying(g)
  <2> DEFINE m == IF c.state = "owner-unsafe"
                    THEN [gateway EXCEPT !.children[g].state = "destroying",
                                         !.children[g].completion = "pending"]
                    ELSE [gateway EXCEPT !.children[g].state = "destroying"]
  <2>1. /\ c.state \in {"provisional", "current", "owner-unsafe"}
        /\ gateway' = ClearCurrentLeafMapping(m, g)
        /\ UNCHANGED <<epoch, lifecycle, gatewayVm, toolVm>>
    BY <1>6 DEF ToolVmDestroying, BeginDestroying
  <2>2. /\ m \in Membership
        /\ m.state = gateway.state /\ m.barrier = gateway.barrier
        /\ m.leafIdByAgentId = gateway.leafIdByAgentId
        /\ \A h \in Leaves : h # g => m.children[h] = gateway.children[h]
        /\ m.children[g].state = "destroying" /\ m.children[g].agentId = c.agentId
        /\ m.children[g].completion = "pending"
    <3>1. CASE c.state = "owner-unsafe"
      BY <1>1, <1>3, <3>1 DEF Membership, Child
    <3>2. CASE c.state # "owner-unsafe"
      BY <1>1, <1>2, <1>3, <2>1, <3>2, MovedChild
    <3> QED BY <3>1, <3>2
  <2> HIDE DEF m
  <2>3. /\ gateway' \in Membership /\ gateway'.state = gateway.state
        /\ gateway'.children = m.children /\ gateway'.barrier = gateway.barrier
        /\ \A a \in Agents : gateway'.leafIdByAgentId[a] =
             IF a = c.agentId /\ gateway.leafIdByAgentId[a] = g THEN NoLeaf
             ELSE gateway.leafIdByAgentId[a]
    BY <1>1, <2>1, <2>2, ClearedMapping
  <2> QED BY <1>1, <1>2, <2>1, <2>2, <2>3 DEF OneChildChanged, Emptied, Fenced, Mapped
<1>7. CASE ToolVmAccessFenced(g)
  <2> DEFINE m == [gateway EXCEPT !.children[g].state = "retiring"]
  <2>1. /\ c.state = "destroying" /\ gateway' = ClearCurrentLeafMapping(m, g)
        /\ toolVm' \in [Leaves -> {"none", "running", "gone"}] /\ toolVm'[g] # "running"
        /\ \A h \in Leaves : h # g => toolVm'[h] = toolVm[h]
        /\ UNCHANGED <<epoch, lifecycle, gatewayVm>>
    BY <1>1, <1>7 DEF ToolVmAccessFenced, RecordAccessFenced
  <2>2. /\ m \in Membership
        /\ m.state = gateway.state /\ m.barrier = gateway.barrier
        /\ m.leafIdByAgentId = gateway.leafIdByAgentId
        /\ \A h \in Leaves : h # g => m.children[h] = gateway.children[h]
        /\ m.children[g].state = "retiring" /\ m.children[g].agentId = c.agentId
        /\ m.children[g].completion = "pending"
    BY <1>1, <1>2, <1>3, <2>1, MovedChild
  <2> HIDE DEF m
  <2>3. /\ gateway' \in Membership /\ gateway'.state = gateway.state
        /\ gateway'.children = m.children /\ gateway'.barrier = gateway.barrier
        /\ \A a \in Agents : gateway'.leafIdByAgentId[a] =
             IF a = c.agentId /\ gateway.leafIdByAgentId[a] = g THEN NoLeaf
             ELSE gateway.leafIdByAgentId[a]
    BY <1>1, <2>1, <2>2, ClearedMapping
  <2> QED BY <1>1, <2>1, <2>2, <2>3 DEF OneChildChanged, Emptied, Fenced, Mapped
<1>8. CASE ToolVmDestroyed(g)
  <2> DEFINE m == [gateway EXCEPT !.children[g].state = "destroyed"]
             n == ResolveCompletion(m, g, "complete")
  <2>1. /\ c.state = "retiring" /\ gateway' = ClearCurrentLeafMapping(n, g)
        /\ UNCHANGED <<epoch, lifecycle, gatewayVm, toolVm>>
    BY <1>8 DEF ToolVmDestroyed, RecordDestroyed
  <2>2. /\ m \in Membership
        /\ m.state = gateway.state /\ m.barrier = gateway.barrier
        /\ m.leafIdByAgentId = gateway.leafIdByAgentId
        /\ \A h \in Leaves : h # g => m.children[h] = gateway.children[h]
        /\ m.children[g].state = "destroyed" /\ m.children[g].agentId = c.agentId
    BY <1>1, <1>3, MovedChild
  <2> HIDE DEF m
  <2>3. /\ n \in Membership
        /\ n.state = gateway.state /\ n.leafIdByAgentId = gateway.leafIdByAgentId
        /\ \A h \in Leaves : h # g => /\ n.children[h] = gateway.children[h]
                                      /\ n.barrier[h] = gateway.barrier[h]
        /\ n.children[g].state = "destroyed" /\ n.children[g].agentId = c.agentId
    <3>0. m \in Membership /\ "complete" \in CompletionStates
      BY <1>3, <2>2
    <3>1. /\ n \in Membership /\ n.state = m.state /\ n.leafIdByAgentId = m.leafIdByAgentId
          /\ \A h \in Leaves : h # g => n.children[h] = m.children[h] /\ n.barrier[h] = m.barrier[h]
          /\ n.children[g].state = m.children[g].state
          /\ n.children[g].agentId = m.children[g].agentId
      BY <3>0, ResolvedCompletion
    <3> QED BY <2>2, <3>1
  <2> HIDE DEF n
  <2>4. /\ gateway' \in Membership /\ gateway'.state = gateway.state
        /\ gateway'.children = n.children /\ gateway'.barrier = n.barrier
        /\ \A a \in Agents : gateway'.leafIdByAgentId[a] =
             IF a = c.agentId /\ gateway.leafIdByAgentId[a] = g THEN NoLeaf
             ELSE gateway.leafIdByAgentId[a]
    BY <1>1, <2>1, <2>3, ClearedMapping
  <2> QED BY <1>1, <1>2, <2>1, <2>3, <2>4 DEF OneChildChanged, Emptied, Fenced, Mapped
<1>9. CASE ToolVmUnavailable(g)
  <2> DEFINE m == [gateway EXCEPT !.children[g].state = "owner-unsafe"]
  <2>1. /\ c.state \in {"provisional", "current", "destroying"}
        /\ gateway' = ResolveCompletion(m, g, "incomplete")
        /\ UNCHANGED <<epoch, lifecycle, gatewayVm, toolVm>>
    BY <1>9 DEF ToolVmUnavailable, RecordUnavailable
  <2>2. /\ m \in Membership
        /\ m.state = gateway.state /\ m.barrier = gateway.barrier
        /\ m.leafIdByAgentId = gateway.leafIdByAgentId
        /\ \A h \in Leaves : h # g => m.children[h] = gateway.children[h]
        /\ m.children[g].state = "owner-unsafe" /\ m.children[g].agentId = c.agentId
        /\ m.children[g].completion = "pending"
    BY <1>1, <1>2, <1>3, <2>1, MovedChild
  <2> HIDE DEF m
  <2>3. /\ gateway' \in Membership
        /\ gateway'.state = gateway.state /\ gateway'.leafIdByAgentId = gateway.leafIdByAgentId
        /\ \A h \in Leaves : h # g => /\ gateway'.children[h] = gateway.children[h]
                                      /\ gateway'.barrier[h] = gateway.barrier[h]
        /\ gateway'.children[g].state = "owner-unsafe" /\ gateway'.children[g].agentId = c.agentId
        /\ gateway'.children[g].completion = "incomplete"
        /\ gateway'.barrier[g] =
             IF gateway.barrier[g] = "pending" THEN "incomplete" ELSE gateway.barrier[g]
    <3>0. m \in Membership /\ "incomplete" \in CompletionStates
      BY <1>3, <2>2
    <3>1. /\ gateway' \in Membership /\ gateway'.state = m.state
          /\ gateway'.leafIdByAgentId = m.leafIdByAgentId
          /\ \A h \in Leaves : h # g => /\ gateway'.children[h] = m.children[h]
                                        /\ gateway'.barrier[h] = m.barrier[h]
          /\ gateway'.children[g].state = m.children[g].state
          /\ gateway'.children[g].agentId = m.children[g].agentId
          /\ gateway'.children[g].completion =
               IF m.children[g].completion = "pending" THEN "incomplete" ELSE m.children[g].completion
          /\ gateway'.barrier[g] = IF m.barrier[g] = "pending" THEN "incomplete" ELSE m.barrier[g]
      BY <2>1, <3>0, ResolvedCompletion
    <3> QED BY <2>2, <3>1
  <2> QED BY <1>1, <1>2, <2>1, <2>3 DEF OneChildChanged, Emptied, Fenced, Mapped
<1> QED BY <1>4, <1>5, <1>6, <1>7, <1>8, <1>9

\* A child is admitted for an agent that has no other one mapped, or whose
\* current one is given up in the same step.
LEMMA ChildAdmitted ==
  ASSUME OwnershipInv, NEW a \in Agents, NEW g \in Leaves,
         gateway' \in Membership,
         UNCHANGED <<epoch, lifecycle, gatewayVm, toolVm>>,
         gateway.state = "admitting",
         gateway'.state = gateway.state, gateway'.barrier = gateway.barrier,
         gateway.children[g].state = "absent",
         gateway'.children[g].state = "provisional",
         gateway'.children[g].agentId = a,
         gateway'.children[g].completion = "pending",
         \A x \in Leaves : x # g =>
           \/ gateway'.children[x] = gateway.children[x]
           \/ /\ gateway.children[x].state = "current"
              /\ gateway'.children[x].state = "destroying"
              /\ gateway'.children[x].agentId = gateway.children[x].agentId
              /\ gateway'.children[x].completion = gateway.children[x].completion,
         \A x \in Leaves : x # g /\ gateway'.children[x].state \in Mapped =>
           gateway'.children[x].agentId # a,
         \A b \in Agents : gateway'.leafIdByAgentId[b] = IF b = a THEN g ELSE gateway.leafIdByAgentId[b]
  PROVE  OwnershipInv'
<1> USE DEF OwnershipInv
<1> DEFINE old == gateway.children
           new == gateway'.children
<1>1. /\ old \in [Leaves -> Child] /\ new \in [Leaves -> Child]
      /\ \A h \in Leaves : old[h].agentId \in Agents \cup {NoLeaf} /\ new[h].agentId \in Agents \cup {NoLeaf}
  BY DEF TypeOK, Membership, Child
<1>2. lifecycle.step = "none" /\ ~(epoch > 0 /\ gatewayVm[epoch] = "gone")
  BY DEF PhasesAgree
<1>3. TypeOK'
  BY DEF TypeOK
<1>4. ChildrenAreConsistent'
  BY OwnershipAssumption DEF ChildrenAreConsistent
<1>5. BarrierIsHonest' /\ EmptyWhenClosed' /\ PhasesAgree'
  BY <1>2 DEF BarrierIsHonest, EmptyWhenClosed, PhasesAgree
<1>6. RunningVmIsOwned'
  BY DEF RunningVmIsOwned
<1>7. NothingOutlivesItsGateway'
  BY <1>2, <1>6 DEF NothingOutlivesItsGateway, GatewayVmOutlivesChildren, SuccessorOwnsZoneAlone,
                    RunningVmIsOwned, Admitted
<1>8. AgentMappingAgrees'
  <2> SUFFICES ASSUME NEW h \in Leaves, new[h].state \in Mapped, h # g
               PROVE  gateway'.leafIdByAgentId[new[h].agentId] = h
    BY DEF AgentMappingAgrees, Mapped
  <2>1. new[h] = old[h] /\ new[h].agentId # a
    BY DEF Mapped
  <2>2. old[h].agentId \in Agents /\ gateway.leafIdByAgentId[old[h].agentId] = h
    BY <1>1, <2>1 DEF ChildrenAreConsistent, AgentMappingAgrees, Mapped
  <2> QED BY <2>1, <2>2
<1>9. CurrentChildServesAlone'
  <2> SUFFICES ASSUME NEW h \in Leaves, NEW k \in Leaves, h # k, new[h].state = "current",
                      new[k].agentId = new[h].agentId
               PROVE  new[k].state \in Fenced
    BY DEF CurrentChildServesAlone, Fenced
  <2>1. h # g /\ new[h] = old[h] /\ new[h].agentId # a
    BY DEF Mapped
  <2>2. k # g
    BY <2>1
  <2>3. old[k].agentId = old[h].agentId
    BY <2>1, <2>2
  <2>4. old[k].state \in Fenced
    BY <2>1, <2>3 DEF CurrentChildServesAlone, Fenced
  <2> QED BY <2>2, <2>4 DEF Fenced
<1> QED BY <1>3, <1>4, <1>5, <1>6, <1>7, <1>8, <1>9

LEMMA AdmissionStep ==
  ASSUME OwnershipInv, NEW a \in Agents, NEW g \in Leaves, ToolVmAdmitted(a, g)
  PROVE  OwnershipInv'
<1>1. /\ gateway \in Membership /\ gateway' = AdmitProvisionalToolVm(gateway, a, g)
      /\ gateway.state = "admitting" /\ gateway.leafIdByAgentId[a] = NoLeaf
      /\ gateway.children[g].state = "absent"
      /\ UNCHANGED <<epoch, lifecycle, gatewayVm, toolVm>>
  BY DEF OwnershipInv, TypeOK, ToolVmAdmitted, CanAdmitProvisionalToolVm, Admitted
<1>2. /\ gateway' \in Membership /\ gateway'.state = gateway.state /\ gateway'.barrier = gateway.barrier
      /\ gateway'.leafIdByAgentId = [gateway.leafIdByAgentId EXCEPT ![a] = g]
      /\ gateway'.children = [gateway.children EXCEPT ![g] =
           [state |-> "provisional", agentId |-> a, attached |-> FALSE, completion |-> "pending"]]
  BY <1>1, AdmittedChild
<1>3. /\ gateway.children \in [Leaves -> Child]
      /\ gateway.leafIdByAgentId \in [Agents -> Leaves \cup {NoLeaf}]
  BY <1>1 DEF Membership
<1>4. \A x \in Leaves : x # g => gateway'.children[x] = gateway.children[x]
  BY <1>2, <1>3
<1>5. \A x \in Leaves : x # g /\ gateway.children[x].state \in Mapped => gateway.children[x].agentId # a
  BY <1>1, OwnershipAssumption DEF OwnershipInv, AgentMappingAgrees, Mapped
<1>6. /\ gateway'.children[g].state = "provisional" /\ gateway'.children[g].agentId = a
      /\ gateway'.children[g].completion = "pending"
  BY <1>2, <1>3
<1>7. \A b \in Agents : gateway'.leafIdByAgentId[b] = IF b = a THEN g ELSE gateway.leafIdByAgentId[b]
  BY <1>2, <1>3
<1> QED BY <1>1, <1>2, <1>4, <1>5, <1>6, <1>7, ChildAdmitted

LEMMA ReplacementStep ==
  ASSUME OwnershipInv, NEW h \in Leaves, NEW g \in Leaves, ToolVmReplaced(h, g)
  PROVE  OwnershipInv'
<1> DEFINE a == gateway.children[h].agentId
           d == [gateway EXCEPT !.children[h].state = "destroying"]
           m == ClearCurrentLeafMapping(d, h)
<1>1. /\ gateway \in Membership /\ gateway.children[h].state = "current" /\ a \in Agents
      /\ "destroying" \in ChildStates
  BY DEF OwnershipInv, TypeOK, ToolVmReplaced, ChildrenAreConsistent, Membership, Child, ChildStates
<1>2. /\ gateway' = AdmitProvisionalToolVm(m, a, g) /\ CanAdmitProvisionalToolVm(m, a, g)
      /\ UNCHANGED <<epoch, lifecycle, gatewayVm, toolVm>>
  BY <1>1 DEF ToolVmReplaced, BeginDestroying
<1>3. /\ d \in Membership
      /\ d.state = gateway.state /\ d.barrier = gateway.barrier
      /\ d.leafIdByAgentId = gateway.leafIdByAgentId
      /\ \A x \in Leaves : x # h => d.children[x] = gateway.children[x]
      /\ d.children[h].state = "destroying" /\ d.children[h].agentId = a
      /\ d.children[h].completion = gateway.children[h].completion
  BY <1>1, MovedChild
<1> HIDE DEF d
<1>4. /\ m \in Membership /\ m.state = gateway.state
      /\ m.children = d.children /\ m.barrier = gateway.barrier
      /\ \A b \in Agents : m.leafIdByAgentId[b] =
           IF b = a /\ gateway.leafIdByAgentId[b] = h THEN NoLeaf ELSE gateway.leafIdByAgentId[b]
  BY <1>1, <1>3, ClearedMapping
<1> HIDE DEF m
<1>5. m.state = "admitting" /\ m.children[g].state = "absent"
  BY <1>2 DEF CanAdmitProvisionalToolVm, Admitted
<1>6. g # h /\ gateway.children[g].state = "absent"
  BY <1>3, <1>4, <1>5
<1>7. /\ gateway' \in Membership /\ gateway'.state = gateway.state /\ gateway'.barrier = gateway.barrier
      /\ gateway'.leafIdByAgentId = [m.leafIdByAgentId EXCEPT ![a] = g]
      /\ gateway'.children = [m.children EXCEPT ![g] =
           [state |-> "provisional", agentId |-> a, attached |-> FALSE, completion |-> "pending"]]
  <2> HIDE DEF a
  <2> QED BY <1>1, <1>2, <1>4, AdmittedChild
<1>8. m.children \in [Leaves -> Child] /\ m.leafIdByAgentId \in [Agents -> Leaves \cup {NoLeaf}]
  BY <1>4 DEF Membership
<1>9. \A x \in Leaves : x # g => gateway'.children[x] = m.children[x]
  BY <1>7, <1>8
<1>10. \A x \in Leaves : x # g /\ m.children[x].state \in Mapped => m.children[x].agentId # a
  <2> SUFFICES ASSUME NEW x \in Leaves, x # g, m.children[x].state \in Mapped, m.children[x].agentId = a
               PROVE  FALSE
    OBVIOUS
  <2>1. x # h /\ m.children[x] = gateway.children[x]
    BY <1>3, <1>4 DEF Mapped
  <2> QED BY <1>1, <2>1 DEF OwnershipInv, AgentMappingAgrees, Mapped
<1>11. /\ gateway'.children[g].state = "provisional" /\ gateway'.children[g].agentId = a
       /\ gateway'.children[g].completion = "pending"
  BY <1>7, <1>8
<1>12. \A b \in Agents : gateway'.leafIdByAgentId[b] = IF b = a THEN g ELSE gateway.leafIdByAgentId[b]
  BY <1>4, <1>7, <1>8
<1>13. \A x \in Leaves : x # g =>
           \/ gateway'.children[x] = gateway.children[x]
           \/ /\ gateway.children[x].state = "current"
              /\ gateway'.children[x].state = "destroying"
              /\ gateway'.children[x].agentId = gateway.children[x].agentId
              /\ gateway'.children[x].completion = gateway.children[x].completion
  BY <1>1, <1>3, <1>4, <1>9
<1>14. \A x \in Leaves : x # g /\ gateway'.children[x].state \in Mapped => gateway'.children[x].agentId # a
  BY <1>9, <1>10
<1> HIDE DEF a
<1>15. gateway.state = "admitting"
  BY <1>4, <1>5
<1> QED BY <1>1, <1>2, <1>6, <1>7, <1>11, <1>12, <1>13, <1>14, <1>15, ChildAdmitted

-----------------------------------------------------------------------------
(* The steps of the lifecycle authority.                                   *)

\* A step of the lifecycle authority leaves the children, their mapping and the
\* Tool VMs alone: the invariant asks only for the phases and the barrier.
LEMMA PhaseMoved ==
  ASSUME OwnershipInv,
         UNCHANGED <<epoch, toolVm>>,
         gateway' \in Membership, lifecycle' \in Lifecycle,
         gatewayVm' \in [Epochs -> {"none", "creating", "running", "gone"}],
         gateway'.children = gateway.children,
         gateway'.leafIdByAgentId = gateway.leafIdByAgentId,
         BarrierIsHonest', PhasesAgree',
         gateway'.state = "seeded" => gateway.state = "seeded",
         (gateway'.state = "retired" \/ lifecycle'.step = "vm"
            \/ (epoch > 0 /\ gatewayVm'[epoch] = "gone")) =>
           \A g \in Leaves : gateway.children[g].state \in Emptied,
         \A e \in Epochs : e # epoch => gatewayVm'[e] = gatewayVm[e]
  PROVE  OwnershipInv'
<1> USE DEF OwnershipInv
<1>1. TypeOK'
  BY DEF TypeOK
<1>2. ChildrenAreConsistent' /\ RunningVmIsOwned' /\ CurrentChildServesAlone' /\ AgentMappingAgrees'
  BY DEF ChildrenAreConsistent, RunningVmIsOwned, CurrentChildServesAlone, AgentMappingAgrees
<1>3. EmptyWhenClosed'
  BY DEF EmptyWhenClosed
<1>4. GatewayVmOutlivesChildren'
  BY DEF GatewayVmOutlivesChildren, RunningVmIsOwned, Emptied
<1>5. SuccessorOwnsZoneAlone'
  <2>1. \A e \in 1..epoch : e < epoch => e \in Epochs /\ e # epoch /\ gatewayVm[e] = "gone"
    BY OwnershipAssumption DEF TypeOK, Epochs, NothingOutlivesItsGateway, SuccessorOwnsZoneAlone
  <2> QED BY <2>1 DEF NothingOutlivesItsGateway, SuccessorOwnsZoneAlone, Admitted
<1> QED BY <1>1, <1>2, <1>3, <1>4, <1>5 DEF NothingOutlivesItsGateway

\* A Gateway that only changes its own state.
LEMMA MovedGateway ==
  ASSUME NEW m \in Membership, NEW s \in GatewayStates
  PROVE  /\ [m EXCEPT !.state = s] \in Membership
         /\ [m EXCEPT !.state = s].state = s
         /\ [m EXCEPT !.state = s].children = m.children
         /\ [m EXCEPT !.state = s].leafIdByAgentId = m.leafIdByAgentId
         /\ [m EXCEPT !.state = s].barrier = m.barrier
BY DEF Membership

\* createGatewayVmLifecycleAuthority: the predecessor has been retired, and has
\* left nothing behind.
LEMMA BeginEpochStep ==
  ASSUME OwnershipInv, BeginGatewayEpoch
  PROVE  OwnershipInv'
<1> USE DEF OwnershipInv
<1>1. /\ epoch \in Nat /\ epoch' = epoch + 1 /\ epoch' \in Epochs /\ epoch' > 0
      /\ gateway.state = "retired"
      /\ gateway' = SeededGateway /\ lifecycle' = NewLifecycle
      /\ gatewayVm' = [gatewayVm EXCEPT ![epoch'] = "creating"] /\ UNCHANGED toolVm
  BY OwnershipAssumption DEF BeginGatewayEpoch, TypeOK, Epochs
<1>2. /\ gateway'.state = "seeded"
      /\ \A g \in Leaves : gateway'.children[g] = AbsentChild /\ gateway'.barrier[g] = "none"
      /\ gateway' \in Membership
  BY <1>1 DEF SeededGateway, Membership, AbsentChild, Child, ChildStates, CompletionStates, GatewayStates
<1>3. /\ lifecycle'.step = "none" /\ lifecycle'.attempt = "none" /\ lifecycle' \in Lifecycle
  BY <1>1 DEF NewLifecycle, Lifecycle
<1>4. /\ gatewayVm'[epoch'] = "creating"
      /\ \A e \in Epochs : e # epoch' => gatewayVm'[e] = gatewayVm[e]
  BY <1>1 DEF TypeOK
<1>5. \A g \in Leaves : toolVm[g] # "running"
  BY <1>1 DEF EmptyWhenClosed, RunningVmIsOwned, Emptied
<1>6. TypeOK'
  BY <1>1, <1>2, <1>3 DEF TypeOK, Epochs
<1>7. ChildrenAreConsistent' /\ CurrentChildServesAlone' /\ AgentMappingAgrees'
  BY <1>2 DEF ChildrenAreConsistent, CurrentChildServesAlone, AgentMappingAgrees, AbsentChild
<1>8. BarrierIsHonest' /\ RunningVmIsOwned' /\ EmptyWhenClosed'
  BY <1>1, <1>2, <1>3, <1>5 DEF BarrierIsHonest, RunningVmIsOwned, EmptyWhenClosed, AbsentChild
<1>9. PhasesAgree'
  BY <1>1, <1>2, <1>3 DEF PhasesAgree, Sealing
<1>10. GatewayVmOutlivesChildren'
  BY <1>4 DEF GatewayVmOutlivesChildren
<1>11. SuccessorOwnsZoneAlone'
  <2> SUFFICES ASSUME NEW e \in 1..epoch', e < epoch' PROVE gatewayVm[e] = "gone" /\ e \in Epochs
    BY <1>1, <1>4, <1>5 DEF SuccessorOwnsZoneAlone
  <2>1. e \in Epochs /\ e \in 1..epoch
    BY <1>1, OwnershipAssumption DEF Epochs
  <2>2. CASE e = epoch
    BY <1>1, <2>1, <2>2 DEF PhasesAgree
  <2>3. CASE e # epoch
    BY <1>1, <2>1, <2>3 DEF NothingOutlivesItsGateway, SuccessorOwnsZoneAlone
  <2> QED BY <2>1, <2>2, <2>3
<1> QED BY <1>6, <1>7, <1>8, <1>9, <1>10, <1>11 DEF NothingOutlivesItsGateway

\* The creation of the Gateway VM: it is contained, attached, closed late or fails.
LEMMA CreationStep ==
  ASSUME OwnershipInv,
         \/ ContainPendingCreate \/ AttachGatewayVm \/ GatewayVmCreationFails
         \/ \E closed \in BOOLEAN : CloseLateCreatedVm(closed)
  PROVE  OwnershipInv'
<1>1. /\ gateway \in Membership /\ lifecycle \in Lifecycle
      /\ gatewayVm \in [Epochs -> {"none", "creating", "running", "gone"}]
      /\ BarrierIsHonest /\ PhasesAgree /\ EmptyWhenClosed
  BY DEF OwnershipInv, TypeOK
<1>2. /\ epoch \in Epochs /\ epoch > 0 /\ gatewayVm[epoch] = "creating" /\ gateway.state = "seeded"
  BY OwnershipAssumption DEF Creating, ContainPendingCreate, AttachGatewayVm, GatewayVmCreationFails,
     CloseLateCreatedVm, OwnershipInv, PhasesAgree, TypeOK, Epochs
<1>3. /\ lifecycle.step = "none" /\ lifecycle.attempt = "none"
      /\ \A g \in Leaves : gateway.children[g].state = "absent"
  BY <1>1, <1>2 DEF PhasesAgree, EmptyWhenClosed
<1>4. "admitting" \in GatewayStates /\ "retired" \in GatewayStates
  BY DEF GatewayStates
<1>5. /\ gateway' \in Membership
      /\ gateway'.children = gateway.children /\ gateway'.leafIdByAgentId = gateway.leafIdByAgentId
      /\ gateway'.barrier = gateway.barrier
      /\ gateway'.state \in {"seeded", "admitting", "retired"}
      /\ UNCHANGED <<epoch, toolVm>>
  <2>1. /\ \/ gateway' = gateway
           \/ gateway' = [gateway EXCEPT !.state = "admitting"]
           \/ gateway' = [gateway EXCEPT !.state = "retired"]
        /\ UNCHANGED <<epoch, toolVm>>
    BY DEF ContainPendingCreate, AttachGatewayVm, GatewayVmCreationFails, CloseLateCreatedVm
  <2>2. CASE gateway' = gateway
    BY <1>1, <1>2, <2>1, <2>2
  <2>3. CASE gateway' = [gateway EXCEPT !.state = "admitting"]
    BY <1>1, <1>4, <2>1, <2>3, MovedGateway
  <2>4. CASE gateway' = [gateway EXCEPT !.state = "retired"]
    BY <1>1, <1>4, <2>1, <2>4, MovedGateway
  <2> QED BY <2>1, <2>2, <2>3, <2>4
<1>6. /\ lifecycle' \in Lifecycle /\ lifecycle'.step = "none" /\ lifecycle'.attempt = "none"
  BY <1>1, <1>3 DEF ContainPendingCreate, AttachGatewayVm, GatewayVmCreationFails,
     CloseLateCreatedVm, Lifecycle
<1>7. /\ gatewayVm' \in [Epochs -> {"none", "creating", "running", "gone"}]
      /\ \A e \in Epochs : e # epoch => gatewayVm'[e] = gatewayVm[e]
  BY <1>1 DEF ContainPendingCreate, AttachGatewayVm, GatewayVmCreationFails, CloseLateCreatedVm
<1>8. /\ gateway'.state = "admitting" => gatewayVm'[epoch] = "running"
      /\ gateway'.state = "retired" => gatewayVm'[epoch] = "gone"
      /\ gatewayVm'[epoch] = "creating" => gateway'.state = "seeded"
  <2>1. CASE ContainPendingCreate
    BY <1>2, <2>1 DEF ContainPendingCreate
  <2>2. CASE AttachGatewayVm
    BY <1>1, <1>2, <1>4, <2>2, MovedGateway DEF AttachGatewayVm
  <2>3. CASE GatewayVmCreationFails
    BY <1>1, <1>2, <1>4, <2>3, MovedGateway DEF GatewayVmCreationFails
  <2>4. ASSUME NEW closed \in BOOLEAN, CloseLateCreatedVm(closed)
        PROVE  /\ gateway'.state = "admitting" => gatewayVm'[epoch] = "running"
               /\ gateway'.state = "retired" => gatewayVm'[epoch] = "gone"
               /\ gatewayVm'[epoch] = "creating" => gateway'.state = "seeded"
    BY <1>1, <1>2, <1>4, <2>4, MovedGateway DEF CloseLateCreatedVm
  <2> QED BY <2>1, <2>2, <2>3, <2>4
<1>9. PhasesAgree' /\ BarrierIsHonest'
  BY <1>2, <1>5, <1>6, <1>8 DEF PhasesAgree, BarrierIsHonest, Sealing
<1> QED BY <1>2, <1>3, <1>5, <1>6, <1>7, <1>9, PhaseMoved DEF Emptied

\* The Gateway is sealed (destroyLive): the barrier is over the children of now.
LEMMA SealStep ==
  ASSUME OwnershipInv, DestroyLive
  PROVE  OwnershipInv'
<1>1. /\ gateway \in Membership /\ lifecycle \in Lifecycle
      /\ gatewayVm \in [Epochs -> {"none", "creating", "running", "gone"}]
      /\ PhasesAgree /\ ChildrenAreConsistent
  BY DEF OwnershipInv, TypeOK
<1>2. /\ gateway.state = "admitting" /\ gateway' = SealGatewayEpoch(gateway)
      /\ UNCHANGED <<epoch, gatewayVm, toolVm>>
      /\ epoch > 0 /\ gatewayVm[epoch] = "running"
  BY <1>1 DEF DestroyLive, PhasesAgree
<1>3. /\ gateway' \in Membership /\ gateway'.state = "sealed"
      /\ gateway'.children = gateway.children /\ gateway'.leafIdByAgentId = gateway.leafIdByAgentId
      /\ \A g \in Leaves : gateway'.barrier[g] =
           IF gateway.children[g].state \notin {"absent", "destroyed"}
             THEN gateway.children[g].completion ELSE "none"
  BY <1>1, <1>2 DEF SealGatewayEpoch, Membership, Child, GatewayStates, CompletionStates
<1>4. lifecycle' \in Lifecycle /\ lifecycle'.step = "leases" /\ lifecycle'.attempt = "running"
  BY <1>1 DEF DestroyLive, Lifecycle
<1>5. BarrierIsHonest'
  <2> SUFFICES ASSUME NEW g \in Leaves, gateway'.barrier[g] \in {"none", "complete"}
               PROVE  gateway.children[g].state \in Emptied
    BY <1>3 DEF BarrierIsHonest
  <2> QED BY <1>1, <1>3 DEF ChildrenAreConsistent, Emptied, Membership, Child, ChildStates
<1>6. PhasesAgree'
  BY <1>2, <1>3, <1>4 DEF PhasesAgree, Sealing
<1> QED BY <1>1, <1>2, <1>3, <1>4, <1>5, <1>6, PhaseMoved

\* The operation of the destruction goes on or ends, or its attempt is given up.
LEMMA DestructionStep ==
  ASSUME OwnershipInv,
         \/ LeasesReturned \/ LeasesFailed \/ PassBarrier \/ BarrierRejects \/ ExpiredOperationStops
         \/ DestroyGatewayVm \/ GatewayVmDestructionFails \/ SubtreeTimeout
  PROVE  OwnershipInv'
<1>1. /\ gateway \in Membership /\ lifecycle \in Lifecycle
      /\ gatewayVm \in [Epochs -> {"none", "creating", "running", "gone"}]
      /\ BarrierIsHonest /\ PhasesAgree /\ EmptyWhenClosed
  BY DEF OwnershipInv, TypeOK
<1>2. lifecycle.step \in Sealing
  BY <1>1 DEF PhasesAgree, Sealing, LeasesReturned, LeasesFailed, PassBarrier, BarrierRejects,
     ExpiredOperationStops, DestroyGatewayVm, GatewayVmDestructionFails, SubtreeTimeout
<1>3. /\ epoch \in Epochs /\ epoch > 0 /\ gatewayVm[epoch] = "running"
      /\ gateway.state \in {"sealed", "owner-unsafe"}
      /\ lifecycle.attempt \in {"running", "failed"}
      /\ gateway.state = "sealed" <=> lifecycle.attempt = "running"
  BY <1>1, <1>2, OwnershipAssumption DEF PhasesAgree, Sealing, OwnershipInv, TypeOK, Epochs
<1>4. "owner-unsafe" \in GatewayStates /\ "retired" \in GatewayStates
  BY DEF GatewayStates
<1>5. CASE LeasesReturned \/ PassBarrier
  <2>1. UNCHANGED <<epoch, gateway, gatewayVm, toolVm>>
    BY <1>5 DEF LeasesReturned, PassBarrier
  <2>2. /\ lifecycle' \in Lifecycle /\ lifecycle'.attempt = lifecycle.attempt
        /\ lifecycle'.step \in {"barrier", "vm"}
    BY <1>1, <1>5 DEF LeasesReturned, PassBarrier, Lifecycle
  <2>3. lifecycle'.step = "vm" => \A g \in Leaves : gateway.children[g].state \in Emptied
    <3>1. CASE LeasesReturned
      BY <1>1, <3>1 DEF LeasesReturned, Lifecycle
    <3>2. CASE PassBarrier
      <4> SUFFICES ASSUME NEW g \in Leaves PROVE gateway.barrier[g] \in {"none", "complete"}
        BY <1>1, <1>3 DEF BarrierIsHonest
      <4>1. gateway.barrier[g] \in CompletionStates
        BY <1>1 DEF Membership
      <4> QED BY <3>2, <4>1 DEF PassBarrier, BarrierFulfilled, BarrierRejected, BarrierPending,
                                CompletionStates
    <3> QED BY <1>5, <3>1, <3>2
  <2>4. PhasesAgree' /\ BarrierIsHonest'
    BY <1>1, <1>2, <1>3, <2>1, <2>2 DEF PhasesAgree, BarrierIsHonest, Sealing
  <2> QED BY <1>1, <1>3, <2>1, <2>2, <2>3, <2>4, PhaseMoved
<1>6. CASE LeasesFailed \/ BarrierRejects \/ ExpiredOperationStops \/ GatewayVmDestructionFails \/ SubtreeTimeout
  <2>1. /\ UNCHANGED <<epoch, gatewayVm, toolVm>>
        /\ gateway' = [gateway EXCEPT !.state = "owner-unsafe"]
    BY <1>6 DEF LeasesFailed, BarrierRejects, ExpiredOperationStops, GatewayVmDestructionFails,
       SubtreeTimeout, AttemptFails, RecordGatewayDestroyUnavailable
  <2>2. /\ lifecycle' \in Lifecycle /\ lifecycle'.attempt = "failed"
        /\ lifecycle'.step = "ended" \/ lifecycle'.step = lifecycle.step
    BY <1>1, <1>6 DEF LeasesFailed, BarrierRejects, ExpiredOperationStops, GatewayVmDestructionFails,
       SubtreeTimeout, AttemptFails, Lifecycle
  <2>3. /\ gateway' \in Membership /\ gateway'.state = "owner-unsafe"
        /\ gateway'.children = gateway.children /\ gateway'.barrier = gateway.barrier
        /\ gateway'.leafIdByAgentId = gateway.leafIdByAgentId
    BY <1>1, <1>4, <2>1, MovedGateway
  <2>4. PhasesAgree' /\ BarrierIsHonest'
    BY <1>1, <1>2, <1>3, <2>1, <2>2, <2>3 DEF PhasesAgree, BarrierIsHonest, Sealing
  <2>5. lifecycle'.step = "vm" => \A g \in Leaves : gateway.children[g].state \in Emptied
    BY <1>1, <2>2 DEF EmptyWhenClosed
  <2> QED BY <1>1, <1>3, <2>1, <2>2, <2>3, <2>4, <2>5, PhaseMoved
<1>7. CASE DestroyGatewayVm
  <2>1. /\ UNCHANGED <<epoch, toolVm>> /\ lifecycle.step = "vm"
        /\ gatewayVm' = [gatewayVm EXCEPT ![epoch] = "gone"]
        /\ gateway' = IF gateway.state = "sealed" THEN [gateway EXCEPT !.state = "retired"] ELSE gateway
    BY <1>7 DEF DestroyGatewayVm
  <2>2. /\ lifecycle' \in Lifecycle /\ lifecycle'.step = "ended"
        /\ lifecycle'.attempt = IF gateway.state = "sealed" THEN "destroyed" ELSE lifecycle.attempt
    BY <1>1, <1>7 DEF DestroyGatewayVm, Lifecycle
  <2>3. /\ gateway' \in Membership
        /\ gateway'.state = IF gateway.state = "sealed" THEN "retired" ELSE gateway.state
        /\ gateway'.children = gateway.children /\ gateway'.barrier = gateway.barrier
        /\ gateway'.leafIdByAgentId = gateway.leafIdByAgentId
    BY <1>1, <1>4, <2>1, MovedGateway
  <2>4. /\ gatewayVm' \in [Epochs -> {"none", "creating", "running", "gone"}]
        /\ gatewayVm'[epoch] = "gone" /\ \A e \in Epochs : e # epoch => gatewayVm'[e] = gatewayVm[e]
    BY <1>1, <1>3, <2>1
  <2>5. PhasesAgree' /\ BarrierIsHonest'
    BY <1>1, <1>3, <2>1, <2>2, <2>3, <2>4 DEF PhasesAgree, BarrierIsHonest, Sealing
  <2>6. \A g \in Leaves : gateway.children[g].state \in Emptied
    BY <1>1, <2>1 DEF EmptyWhenClosed
  <2> QED BY <1>3, <2>1, <2>2, <2>3, <2>4, <2>5, <2>6, PhaseMoved
<1> QED BY <1>5, <1>6, <1>7

-----------------------------------------------------------------------------
(* The theorems.                                                           *)

LEMMA OwnershipStep == OwnershipInv /\ [Next]_vars => OwnershipInv'
<1> SUFFICES ASSUME OwnershipInv, [Next]_vars PROVE OwnershipInv'
  OBVIOUS
<1>1. CASE LifecycleStep
  BY <1>1, BeginEpochStep, CreationStep, SealStep, DestructionStep DEF LifecycleStep
<1>2. ASSUME NEW g \in Leaves, ToolVmStep(g) PROVE OwnershipInv'
  BY <1>2, HandleChange, ChildChanged, AdmissionStep, ReplacementStep DEF ToolVmStep
<1>3. CASE UNCHANGED vars
  BY <1>3 DEF vars, OwnershipInv, TypeOK, ChildrenAreConsistent, BarrierIsHonest, RunningVmIsOwned,
     EmptyWhenClosed, PhasesAgree, NothingOutlivesItsGateway, GatewayVmOutlivesChildren,
     SuccessorOwnsZoneAlone, Admitted, CurrentChildServesAlone, AgentMappingAgrees
<1> QED BY <1>1, <1>2, <1>3 DEF Next

LEMMA OwnershipStarts == Init => OwnershipInv
<1> SUFFICES ASSUME Init PROVE OwnershipInv
  OBVIOUS
<1>1. /\ epoch = 0 /\ gateway = [SeededGateway EXCEPT !.state = "retired"]
      /\ lifecycle = NewLifecycle
      /\ gatewayVm = [e \in Epochs |-> "none"] /\ toolVm = [g \in Leaves |-> "none"]
  BY DEF Init
<1>2. /\ gateway \in Membership /\ gateway.state = "retired"
      /\ \A g \in Leaves : gateway.children[g] = AbsentChild
  BY <1>1 DEF SeededGateway, Membership, AbsentChild, Child, ChildStates, CompletionStates, GatewayStates
<1>3. lifecycle \in Lifecycle /\ lifecycle.step = "none" /\ lifecycle.attempt = "none"
  BY <1>1 DEF NewLifecycle, Lifecycle
<1>4. TypeOK
  BY <1>1, <1>2, <1>3, OwnershipAssumption DEF TypeOK
<1>5. ChildrenAreConsistent /\ CurrentChildServesAlone /\ AgentMappingAgrees
  BY <1>2 DEF ChildrenAreConsistent, CurrentChildServesAlone, AgentMappingAgrees, AbsentChild
<1>6. BarrierIsHonest /\ RunningVmIsOwned /\ EmptyWhenClosed
  BY <1>1, <1>2 DEF BarrierIsHonest, RunningVmIsOwned, EmptyWhenClosed, AbsentChild, Emptied
<1>7. PhasesAgree /\ NothingOutlivesItsGateway
  BY <1>1, <1>2, <1>3 DEF PhasesAgree, Sealing, NothingOutlivesItsGateway, GatewayVmOutlivesChildren,
     SuccessorOwnsZoneAlone
<1> QED BY <1>4, <1>5, <1>6, <1>7 DEF OwnershipInv

\* The inductive invariant of the ownership of a zone: the phases of the Gateway,
\* of its VM and of its destruction agree, a seal waits for every child that is not
\* destroyed, and children, mapping and Tool VMs agree.
THEOREM OwnershipCorrect == Spec => []OwnershipInv
BY OwnershipStarts, OwnershipStep, PTL DEF Spec

\* No Tool VM outlives the Gateway VM of its epoch, and no machine of an epoch the
\* beginning of the next one (destroyLive, retireGateway, beginGatewayEpoch).
THEOREM MachinesEndInOrder == Spec => []NothingOutlivesItsGateway
<1>1. OwnershipInv => NothingOutlivesItsGateway
  BY DEF OwnershipInv
<1> QED BY <1>1, OwnershipCorrect, PTL

\* The children and the agent mapping of the coordinator agree, and no agent is
\* served by a child while a predecessor may still be reached (commitCurrent).
THEOREM MembershipCorrect == Spec => []MembershipIsSound
<1>1. OwnershipInv => MembershipIsSound
  BY DEF OwnershipInv, MembershipIsSound
<1> QED BY <1>1, OwnershipCorrect, PTL

\* What cannot be proved destroyed stays contained, and a Gateway that is sealed
\* admits and commits nothing (recordGatewayDestroyUnavailable, sealGatewayEpoch).
THEOREM ContainmentCorrect == Spec => ContainmentIsKept
<1> DEFINE Closed == gateway.state \in {"sealed", "owner-unsafe"}
           Kept == /\ gateway.state = "owner-unsafe" =>
                        gateway'.state = "owner-unsafe" /\ epoch' = epoch
                   /\ Closed =>
                        \A g \in Leaves :
                          /\ Admitted(gateway, g)' => Admitted(gateway, g)
                          /\ gateway'.children[g].state = "current" =>
                               gateway.children[g].state = "current"
<1>1. OwnershipInv /\ [Next]_vars => [Kept]_vars
  <2> SUFFICES ASSUME OwnershipInv, Next, Closed PROVE Kept
    BY DEF vars
  <2>1. gateway \in Membership /\ gateway.children \in [Leaves -> Child] /\ PhasesAgree /\ ChildrenAreConsistent
    BY DEF OwnershipInv, TypeOK, Membership
  <2>2. /\ ~BeginGatewayEpoch /\ ~DestroyLive /\ ~Creating
        /\ \A a \in Agents, g \in Leaves : ~ToolVmAdmitted(a, g)
    BY <2>1 DEF BeginGatewayEpoch, DestroyLive, Creating, PhasesAgree, ToolVmAdmitted,
       CanAdmitProvisionalToolVm
  <2>3. CASE \/ LeasesReturned \/ LeasesFailed \/ PassBarrier \/ BarrierRejects \/ ExpiredOperationStops
             \/ DestroyGatewayVm \/ GatewayVmDestructionFails \/ SubtreeTimeout
    <3>1. /\ \/ gateway' \in {gateway, [gateway EXCEPT !.state = "owner-unsafe"]}
             \/ gateway.state = "sealed" /\ gateway' = [gateway EXCEPT !.state = "retired"]
          /\ UNCHANGED epoch
      BY <2>3 DEF LeasesReturned, LeasesFailed, PassBarrier, BarrierRejects, ExpiredOperationStops,
         DestroyGatewayVm, GatewayVmDestructionFails, SubtreeTimeout, AttemptFails,
         RecordGatewayDestroyUnavailable
    <3>2. "owner-unsafe" \in GatewayStates /\ "retired" \in GatewayStates
      BY DEF GatewayStates
    <3>3. /\ gateway'.children = gateway.children
          /\ gateway.state = "owner-unsafe" => gateway'.state = "owner-unsafe"
      <4>1. CASE gateway' = gateway
        BY <4>1
      <4>2. CASE gateway' = [gateway EXCEPT !.state = "owner-unsafe"]
        BY <2>1, <3>2, <4>2, MovedGateway
      <4>3. CASE gateway.state = "sealed" /\ gateway' = [gateway EXCEPT !.state = "retired"]
        BY <2>1, <3>2, <4>3, MovedGateway
      <4> QED BY <3>1, <4>1, <4>2, <4>3
    <3> QED BY <3>1, <3>3 DEF Admitted
  <2>4. ASSUME NEW g \in Leaves, ToolVmStep(g)
        PROVE  Kept
    <3>1. \A h \in Leaves : ~ToolVmReplaced(h, g)
      <4> SUFFICES ASSUME NEW h \in Leaves, ToolVmReplaced(h, g) PROVE FALSE
        OBVIOUS
      <4> DEFINE d == [gateway EXCEPT !.children[h].state = "destroying"]
      <4>1. gateway.children[h].state = "current" /\ "destroying" \in ChildStates
        BY DEF ToolVmReplaced, ChildStates
      <4>2. d \in Membership /\ d.state = gateway.state /\ d.children[h].agentId \in Agents
        BY <2>1, <4>1, MovedChild DEF ChildrenAreConsistent, Child
      <4> HIDE DEF d
      <4>3. ClearCurrentLeafMapping(d, h).state = gateway.state
        BY <4>2, ClearedMapping
      <4> QED BY <4>1, <4>3 DEF ToolVmReplaced, CanAdmitProvisionalToolVm, BeginDestroying, d
    <3>2. OneChildChanged(g)
      BY <2>2, <2>4, <3>1, HandleChange DEF ToolVmStep
    <3> QED BY <3>2 DEF OneChildChanged, Admitted, Emptied
  <2> QED BY <2>2, <2>3, <2>4 DEF Next, LifecycleStep, ContainPendingCreate, AttachGatewayVm,
             CloseLateCreatedVm, GatewayVmCreationFails
<1> QED BY <1>1, OwnershipCorrect, PTL DEF Spec, ContainmentIsKept
=============================================================================
