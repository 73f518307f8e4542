------------------------ MODULE ToolVmLeaseAuthority ------------------------
(***************************************************************************)
(* The Tool VM lease authority of one Gateway epoch: the reducer           *)
(* reduceToolVmLeaseAuthorityState of                                      *)
(* controller/leases/tool-vm-lease-authority-state.ts and its helpers.     *)
(*                                                                         *)
(* One action per command of the reducer.  A command that the reducer      *)
(* refuses (transitionError) or answers with the state it was given leaves *)
(* the state alone, so it is a stuttering step and has no action here: the *)
(* guards are the conditions under which the reducer returns a new state.  *)
(*                                                                         *)
(* The five maps of the reducer are kept apart, as in the code: a leaf is  *)
(* a record stored in one map or another, and that it is never in two of   *)
(* them, or lost between them, is something to check.                      *)
(*                                                                         *)
(* Abstractions.  A lease id is issued together with its leaf generation   *)
(* and is represented by it.  Runtime and SSH bindings, compatibility,     *)
(* reports, correlation, start and heartbeat times, payload digests and    *)
(* the wording of errors are left out: none of them is read by a           *)
(* transition that the properties below tell apart.                        *)
(***************************************************************************)
EXTENDS Integers, FiniteSets

CONSTANTS
  Agents,                    \* agent ids
  Principals,                \* stable principal keys: an agent with one profile assignment revision
  AgentOf,                   \* the agentId of a principal
  LeafGenerations,           \* leaf generations randomUUID can issue
  UseIds,                    \* active-use ids
  ProcessEpochs,             \* Gateway process epochs
  SessionAttachments,        \* control-session attachment generations
  IdleTtl,                   \* effectiveIdleTtlMs
  ObservationGapGrace,       \* retentionPolicy.observationGapGraceMs
  LeafTombstoneTtl,          \* retentionPolicy.leafTombstoneTtlMs
  TerminalUseTombstoneTtl,   \* retentionPolicy.terminalUseTombstoneTtlMs
  MaxLeafTombstones,         \* retentionPolicy.maxLeafTombstones
  MaxTerminalUseTombstones,  \* retentionPolicy.maxTerminalUseTombstones
  MaxTime                    \* bound of the clock

ASSUME PrincipalAssumption ==
  /\ AgentOf \in [Principals -> Agents]
  /\ "absent-principal" \notin Principals
  /\ SessionAttachments \subseteq Nat

\* validateRetentionPolicy: every retention value is a positive integer.
ASSUME RetentionAssumption ==
  /\ IdleTtl \in Nat \ {0}
  /\ ObservationGapGrace \in Nat \ {0}
  /\ LeafTombstoneTtl \in Nat \ {0}
  /\ TerminalUseTombstoneTtl \in Nat \ {0}
  /\ MaxLeafTombstones \in Nat \ {0}
  /\ MaxTerminalUseTombstones \in Nat \ {0}
  /\ MaxTime \in Nat

VARIABLES
  parent,                           \* state.parent.kind
  leavesByPrincipal,                \* state.leavesByPrincipal
  currentPrincipalKeyByAgentId,     \* state.currentPrincipalKeyByAgentId
  accessFencingLeavesByGeneration,  \* state.accessFencingLeavesByGeneration
  retiringLeavesByGeneration,       \* state.retiringLeavesByGeneration
  tombstonesByGeneration,           \* destroyedAtMs of each leaf tombstone
  terminalUseTombstones,            \* endedAtMs of each terminal-use tombstone, by agent and use
  issuedGenerations,                \* the generations randomUUID has handed out
  now                               \* the clock the commands carry

leafMaps == <<leavesByPrincipal, currentPrincipalKeyByAgentId,
              accessFencingLeavesByGeneration, retiringLeavesByGeneration>>
tombstoneMaps == <<tombstonesByGeneration, terminalUseTombstones>>
vars == <<parent, leafMaps, tombstoneMaps, issuedGenerations, now>>

-----------------------------------------------------------------------------
(* Values.  An absent map entry is a record or value of its own, so that   *)
(* every map is a total function.                                          *)

AbsentLeaf == [kind |-> "absent"]
AbsentUse == [kind |-> "absent"]
AbsentTime == -1
AbsentPrincipal == "absent-principal"

LiveUseKinds == {"running", "observation-gap"}
AmbiguityReasons == {"leaf-rollover", "observation-gap-expired", "process-epoch-lost"}

RunningUse(e, s) ==
  [kind |-> "running", processEpoch |-> e, sessionAttachmentGeneration |-> s,
   resumeDeadline |-> AbsentTime, reason |-> "none"]

GapUse(use, t) ==
  [use EXCEPT !.kind = "observation-gap", !.resumeDeadline = t + ObservationGapGrace]

AmbiguousUse(use, why) ==
  [kind |-> "ambiguous", processEpoch |-> use.processEpoch,
   sessionAttachmentGeneration |-> AbsentTime, resumeDeadline |-> AbsentTime,
   reason |-> why]

ActiveUse ==
  [kind : {"running", "observation-gap", "ambiguous"}, processEpoch : ProcessEpochs,
   sessionAttachmentGeneration : SessionAttachments \cup {AbsentTime},
   resumeDeadline : Nat \cup {AbsentTime}, reason : AmbiguityReasons \cup {"none"}]

ActiveUses == [UseIds -> ActiveUse \cup {AbsentUse}]

NoActiveUses == [u \in UseIds |-> AbsentUse]

AdmissionKinds == {"provisioning", "current", "suspect", "quarantined"}
AccessFencingKinds == {"destroying", "owner-unsafe"}

LeafOfKind(kinds) ==
  [kind : kinds, leafGeneration : LeafGenerations, principal : Principals,
   idleExpiresAt : Nat, activeUses : ActiveUses]

Leaf == LeafOfKind(AdmissionKinds \cup AccessFencingKinds \cup {"retiring"})

Present(leaf) == leaf.kind # "absent"

-----------------------------------------------------------------------------
(* Helpers of tool-vm-lease-authority-state-helpers.ts.                    *)

\* requireExactParent: the commands of this module all name its own Gateway.
ExactParent == parent # "unregistered"

\* requireAdmittingParent.
AdmittingParent == parent = "registered"

\* requireLiveLeaf: a tombstone, an access-fencing and a retiring leaf of the
\* generation are looked up before the principal's leaf, and the principal of
\* the reference has to be the one of the leaf found.
LiveLeaf(p, g) ==
  LET fencing == accessFencingLeavesByGeneration[g]
      retiring == retiringLeavesByGeneration[g]
      admitted == leavesByPrincipal[p]
      ofPrincipal(leaf) == IF leaf.principal = p THEN leaf ELSE AbsentLeaf
  IN IF tombstonesByGeneration[g] # AbsentTime THEN AbsentLeaf
     ELSE IF Present(fencing) THEN ofPrincipal(fencing)
     ELSE IF Present(retiring) THEN ofPrincipal(retiring)
     ELSE IF Present(admitted) /\ admitted.leafGeneration = g THEN admitted
     ELSE AbsentLeaf

\* nonTerminalActiveUseExists: a terminal use is never stored in a leaf.
NonTerminalActiveUseExists(leaf) ==
  \E u \in UseIds : leaf.activeUses[u].kind # "absent"

\* Mutant: the agent index keeps its entry when the leaf is removed.
RemoveAdmittedLeafKeepingIndex(leaf) ==
  LET p == leaf.principal
  IN /\ leavesByPrincipal' =
          IF /\ Present(leavesByPrincipal[p])
             /\ leavesByPrincipal[p].leafGeneration = leaf.leafGeneration
            THEN [leavesByPrincipal EXCEPT ![p] = AbsentLeaf]
            ELSE leavesByPrincipal
     /\ UNCHANGED currentPrincipalKeyByAgentId

\* The removal shared by replaceLeaf, access-fenced and destruction-completed:
\* a generation leaves the principal map, and the agent index with it.
RemoveAdmittedLeaf(leaf) ==
  LET p == leaf.principal
      a == AgentOf[p]
      removesCurrentLeaf == /\ Present(leavesByPrincipal[p])
                            /\ leavesByPrincipal[p].leafGeneration = leaf.leafGeneration
  IN /\ leavesByPrincipal' =
          IF removesCurrentLeaf THEN [leavesByPrincipal EXCEPT ![p] = AbsentLeaf]
                                ELSE leavesByPrincipal
     /\ currentPrincipalKeyByAgentId' =
          IF removesCurrentLeaf /\ currentPrincipalKeyByAgentId[a] = p
            THEN [currentPrincipalKeyByAgentId EXCEPT ![a] = AbsentPrincipal]
            ELSE currentPrincipalKeyByAgentId

\* replaceLeaf: a retiring leaf stays retiring, an access-fencing leaf stays
\* fenced, every other leaf is the admitted leaf of its principal and agent.
ReplaceLeaf(leaf) ==
  LET g == leaf.leafGeneration
      isRetiring == leaf.kind = "retiring" \/ Present(retiringLeavesByGeneration[g])
      isFencing == \/ leaf.kind \in AccessFencingKinds
                   \/ Present(accessFencingLeavesByGeneration[g])
  IN \/ /\ isRetiring
        /\ leaf.kind = "retiring"
        /\ retiringLeavesByGeneration' = [retiringLeavesByGeneration EXCEPT ![g] = leaf]
        /\ UNCHANGED <<leavesByPrincipal, currentPrincipalKeyByAgentId,
                       accessFencingLeavesByGeneration>>
     \/ /\ ~isRetiring /\ isFencing
        /\ leaf.kind \in AccessFencingKinds
        /\ accessFencingLeavesByGeneration' =
             [accessFencingLeavesByGeneration EXCEPT ![g] = leaf]
        /\ RemoveAdmittedLeaf(leaf)
        /\ UNCHANGED retiringLeavesByGeneration
     \/ /\ ~isRetiring /\ ~isFencing
        /\ leavesByPrincipal' = [leavesByPrincipal EXCEPT ![leaf.principal] = leaf]
        /\ currentPrincipalKeyByAgentId' =
             [currentPrincipalKeyByAgentId EXCEPT ![AgentOf[leaf.principal]] = leaf.principal]
        /\ UNCHANGED <<accessFencingLeavesByGeneration, retiringLeavesByGeneration>>

-----------------------------------------------------------------------------
(* Parent commands.                                                        *)

Init ==
  /\ parent = "unregistered"
  /\ leavesByPrincipal = [p \in Principals |-> AbsentLeaf]
  /\ currentPrincipalKeyByAgentId = [a \in Agents |-> AbsentPrincipal]
  /\ accessFencingLeavesByGeneration = [g \in LeafGenerations |-> AbsentLeaf]
  /\ retiringLeavesByGeneration = [g \in LeafGenerations |-> AbsentLeaf]
  /\ tombstonesByGeneration = [g \in LeafGenerations |-> AbsentTime]
  /\ terminalUseTombstones = [k \in Agents \X UseIds |-> AbsentTime]
  /\ issuedGenerations = {}
  /\ now = 0

RegisterParent ==
  /\ parent = "unregistered"
  /\ parent' = "registered"
  /\ UNCHANGED <<leafMaps, tombstoneMaps, issuedGenerations, now>>

SealParent ==
  /\ parent = "registered"
  /\ parent' = "sealed"
  /\ UNCHANGED <<leafMaps, tombstoneMaps, issuedGenerations, now>>

\* Mutant: the leaves that are still being cleaned up are not counted.
RetireParentIgnoringRetiring ==
  /\ parent = "sealed"
  /\ \A p \in Principals : ~Present(leavesByPrincipal[p])
  /\ \A g \in LeafGenerations : ~Present(accessFencingLeavesByGeneration[g])
  /\ parent' = "retired"
  /\ UNCHANGED <<leafMaps, tombstoneMaps, issuedGenerations, now>>

RetireParent ==
  /\ parent = "sealed"
  /\ \A p \in Principals : ~Present(leavesByPrincipal[p])
  /\ \A g \in LeafGenerations :
       /\ ~Present(accessFencingLeavesByGeneration[g])
       /\ ~Present(retiringLeavesByGeneration[g])
  /\ parent' = "retired"
  /\ UNCHANGED <<leafMaps, tombstoneMaps, issuedGenerations, now>>

-----------------------------------------------------------------------------
(* Leaf commands.                                                          *)

\* Mutant: the agent index is not consulted.
BeginProvisioningWithoutIndex(p, g) ==
  /\ AdmittingParent
  /\ g \notin issuedGenerations
  /\ issuedGenerations' = issuedGenerations \cup {g}
  /\ ReplaceLeaf([kind |-> "provisioning", leafGeneration |-> g, principal |-> p,
                  idleExpiresAt |-> now + IdleTtl, activeUses |-> NoActiveUses])
  /\ UNCHANGED <<parent, tombstoneMaps, now>>

BeginProvisioning(p, g) ==
  /\ AdmittingParent
  /\ g \notin issuedGenerations
  /\ currentPrincipalKeyByAgentId[AgentOf[p]] = AbsentPrincipal
  /\ tombstonesByGeneration[g] = AbsentTime
  /\ ~Present(accessFencingLeavesByGeneration[g])
  /\ ~Present(retiringLeavesByGeneration[g])
  /\ \A q \in Principals :
       Present(leavesByPrincipal[q]) => leavesByPrincipal[q].leafGeneration # g
  /\ issuedGenerations' = issuedGenerations \cup {g}
  /\ ReplaceLeaf([kind |-> "provisioning", leafGeneration |-> g, principal |-> p,
                  idleExpiresAt |-> now + IdleTtl, activeUses |-> NoActiveUses])
  /\ UNCHANGED <<parent, tombstoneMaps, now>>

\* Mutant: a predecessor whose access is not fenced does not block the commit.
CommitCurrentUnfenced(p, g) ==
  LET leaf == LiveLeaf(p, g)
  IN /\ ExactParent
     /\ leaf.kind = "provisioning"
     /\ ReplaceLeaf([leaf EXCEPT !.kind = "current"])
     /\ UNCHANGED <<parent, tombstoneMaps, issuedGenerations, now>>

\* A sealed parent still accepts the commit of a leaf it admitted before.
CommitCurrent(p, g) ==
  LET leaf == LiveLeaf(p, g)
  IN /\ ExactParent
     /\ leaf.kind = "provisioning"
     /\ \A h \in LeafGenerations :
          Present(accessFencingLeavesByGeneration[h]) =>
            AgentOf[accessFencingLeavesByGeneration[h].principal] # AgentOf[p]
     /\ ReplaceLeaf([leaf EXCEPT !.kind = "current"])
     /\ UNCHANGED <<parent, tombstoneMaps, issuedGenerations, now>>

RenewIdleExpiry(p, g) ==
  LET leaf == LiveLeaf(p, g)
  IN /\ AdmittingParent
     /\ leaf.kind = "current"
     /\ now < leaf.idleExpiresAt \/ NonTerminalActiveUseExists(leaf)
     /\ now + IdleTtl > leaf.idleExpiresAt
     /\ ReplaceLeaf([leaf EXCEPT !.idleExpiresAt = now + IdleTtl])
     /\ UNCHANGED <<parent, tombstoneMaps, issuedGenerations, now>>

MarkSuspect(p, g) ==
  LET leaf == LiveLeaf(p, g)
  IN /\ AdmittingParent
     /\ leaf.kind = "current"
     /\ ReplaceLeaf([leaf EXCEPT !.kind = "suspect"])
     /\ UNCHANGED <<parent, tombstoneMaps, issuedGenerations, now>>

RestoreCurrent(p, g) ==
  LET leaf == LiveLeaf(p, g)
  IN /\ AdmittingParent
     /\ leaf.kind = "suspect"
     /\ ReplaceLeaf([leaf EXCEPT !.kind = "current"])
     /\ UNCHANGED <<parent, tombstoneMaps, issuedGenerations, now>>

Quarantine(p, g) ==
  LET leaf == LiveLeaf(p, g)
  IN /\ ExactParent
     /\ leaf.kind \in AdmissionKinds
     /\ ReplaceLeaf([leaf EXCEPT !.kind = "quarantined"])
     /\ UNCHANGED <<parent, tombstoneMaps, issuedGenerations, now>>

-----------------------------------------------------------------------------
(* Active-use commands.                                                    *)

\* The work of a predecessor that its rollover left undecided.
RetainedByRetiringPredecessor(a, u) ==
  \E h \in LeafGenerations :
    /\ Present(retiringLeavesByGeneration[h])
    /\ AgentOf[retiringLeavesByGeneration[h].principal] = a
    /\ retiringLeavesByGeneration[h].activeUses[u].kind = "ambiguous"
    /\ retiringLeavesByGeneration[h].activeUses[u].reason = "leaf-rollover"

\* Mutant: the evidence retained for the agent's earlier leaves is not consulted.
StartActiveUseWithoutEvidence(p, g, u, e, s) ==
  LET leaf == LiveLeaf(p, g)
  IN /\ AdmittingParent
     /\ leaf.kind = "current"
     /\ terminalUseTombstones[<<AgentOf[p], u>>] = AbsentTime
     /\ leaf.activeUses[u] = AbsentUse
     /\ \A v \in UseIds :
          leaf.activeUses[v].kind # "absent" =>
            /\ leaf.activeUses[v].kind = "running"
            /\ leaf.activeUses[v].processEpoch = e
            /\ leaf.activeUses[v].sessionAttachmentGeneration = s
     /\ ReplaceLeaf([leaf EXCEPT !.activeUses = [@ EXCEPT ![u] = RunningUse(e, s)]])
     /\ UNCHANGED <<parent, tombstoneMaps, issuedGenerations, now>>

\* Mutant: only the attachment of the other uses is compared, not their process.
StartActiveUseAcrossProcesses(p, g, u, e, s) ==
  LET leaf == LiveLeaf(p, g)
  IN /\ AdmittingParent
     /\ leaf.kind = "current"
     /\ terminalUseTombstones[<<AgentOf[p], u>>] = AbsentTime
     /\ ~RetainedByRetiringPredecessor(AgentOf[p], u)
     /\ leaf.activeUses[u] = AbsentUse
     /\ \A v \in UseIds :
          leaf.activeUses[v].kind # "absent" =>
            /\ leaf.activeUses[v].kind = "running"
            /\ leaf.activeUses[v].sessionAttachmentGeneration = s
     /\ ReplaceLeaf([leaf EXCEPT !.activeUses = [@ EXCEPT ![u] = RunningUse(e, s)]])
     /\ UNCHANGED <<parent, tombstoneMaps, issuedGenerations, now>>

\* A retry of a running use with the same identity returns the state it was
\* given; every other existing use is a conflict.
StartActiveUse(p, g, u, e, s) ==
  LET leaf == LiveLeaf(p, g)
  IN /\ AdmittingParent
     /\ leaf.kind = "current"
     /\ terminalUseTombstones[<<AgentOf[p], u>>] = AbsentTime
     /\ ~RetainedByRetiringPredecessor(AgentOf[p], u)
     /\ leaf.activeUses[u] = AbsentUse
     /\ \A v \in UseIds :
          leaf.activeUses[v].kind # "absent" =>
            /\ leaf.activeUses[v].kind = "running"
            /\ leaf.activeUses[v].processEpoch = e
            /\ leaf.activeUses[v].sessionAttachmentGeneration = s
     /\ ReplaceLeaf([leaf EXCEPT !.activeUses = [@ EXCEPT ![u] = RunningUse(e, s)]])
     /\ UNCHANGED <<parent, tombstoneMaps, issuedGenerations, now>>

\* The running uses of one process and attachment are no longer observed.
UnobservedUses(uses, e, s, t) ==
  [u \in UseIds |-> IF /\ uses[u].kind = "running"
                       /\ uses[u].processEpoch = e
                       /\ uses[u].sessionAttachmentGeneration = s
                      THEN GapUse(uses[u], t) ELSE uses[u]]

\* Only a current or suspect leaf can hold running work.
SessionDisconnected(e, s) ==
  /\ ExactParent
  /\ leavesByPrincipal' =
       [p \in Principals |->
          IF leavesByPrincipal[p].kind \in {"current", "suspect"}
            THEN [leavesByPrincipal[p] EXCEPT
                    !.activeUses = UnobservedUses(leavesByPrincipal[p].activeUses, e, s, now)]
            ELSE leavesByPrincipal[p]]
  /\ UNCHANGED <<parent, currentPrincipalKeyByAgentId, accessFencingLeavesByGeneration,
                 retiringLeavesByGeneration, tombstoneMaps, issuedGenerations, now>>

\* Mutant: a sealed parent still lets work resume.
ResumeActiveUseWhenSealed(p, g, u, e, s) ==
  LET leaf == LiveLeaf(p, g)
      use == leaf.activeUses[u]
  IN /\ ExactParent
     /\ leaf.kind = "current"
     /\ use.kind = "observation-gap"
     /\ use.processEpoch = e
     /\ now < use.resumeDeadline
     /\ s > use.sessionAttachmentGeneration
     /\ ReplaceLeaf([leaf EXCEPT !.activeUses = [@ EXCEPT ![u] = RunningUse(e, s)]])
     /\ UNCHANGED <<parent, tombstoneMaps, issuedGenerations, now>>

ResumeActiveUse(p, g, u, e, s) ==
  LET leaf == LiveLeaf(p, g)
      use == leaf.activeUses[u]
  IN /\ AdmittingParent
     /\ leaf.kind = "current"
     /\ use.kind = "observation-gap"
     /\ use.processEpoch = e
     /\ now < use.resumeDeadline
     /\ s > use.sessionAttachmentGeneration
     /\ ReplaceLeaf([leaf EXCEPT !.activeUses = [@ EXCEPT ![u] = RunningUse(e, s)]])
     /\ UNCHANGED <<parent, tombstoneMaps, issuedGenerations, now>>

EndActiveUse(p, g, u, e, s) ==
  LET leaf == LiveLeaf(p, g)
      use == leaf.activeUses[u]
      key == <<AgentOf[p], u>>
      retained == {k \in Agents \X UseIds : terminalUseTombstones[k] # AbsentTime}
  IN /\ AdmittingParent
     /\ leaf.kind \in {"current", "suspect"}
     /\ use.kind \in LiveUseKinds
     /\ use.processEpoch = e
     /\ \/ use.kind = "running" /\ s = use.sessionAttachmentGeneration
        \/ use.kind = "observation-gap" /\ s > use.sessionAttachmentGeneration
     /\ key \in retained \/ Cardinality(retained) < MaxTerminalUseTombstones
     /\ terminalUseTombstones' = [terminalUseTombstones EXCEPT ![key] = now]
     /\ ReplaceLeaf([leaf EXCEPT !.activeUses = [@ EXCEPT ![u] = AbsentUse]])
     /\ UNCHANGED <<parent, tombstonesByGeneration, issuedGenerations, now>>

ExpireObservationGap(p, g, u) ==
  LET leaf == LiveLeaf(p, g)
      use == leaf.activeUses[u]
  IN /\ ExactParent
     /\ leaf.kind \in {"current", "suspect"}
     /\ use.kind = "observation-gap"
     /\ now >= use.resumeDeadline
     /\ ReplaceLeaf([leaf EXCEPT !.kind = "quarantined",
                                 !.activeUses = [@ EXCEPT ![u] =
                                    AmbiguousUse(use, "observation-gap-expired")]])
     /\ UNCHANGED <<parent, tombstoneMaps, issuedGenerations, now>>

LostUse(use, e) == use.kind \in LiveUseKinds /\ use.processEpoch = e

LostUses(uses, e) ==
  [u \in UseIds |-> IF LostUse(uses[u], e)
                      THEN AmbiguousUse(uses[u], "process-epoch-lost") ELSE uses[u]]

\* Every leaf with work of the lost process is quarantined.
ProcessEpochLost(e) ==
  LET affected(leaf) == /\ leaf.kind \in {"current", "suspect"}
                        /\ \E u \in UseIds : LostUse(leaf.activeUses[u], e)
  IN /\ ExactParent
     /\ leavesByPrincipal' =
          [p \in Principals |->
             IF affected(leavesByPrincipal[p])
               THEN [leavesByPrincipal[p] EXCEPT
                       !.kind = "quarantined",
                       !.activeUses = LostUses(leavesByPrincipal[p].activeUses, e)]
               ELSE leavesByPrincipal[p]]
     /\ UNCHANGED <<parent, currentPrincipalKeyByAgentId, accessFencingLeavesByGeneration,
                    retiringLeavesByGeneration, tombstoneMaps, issuedGenerations, now>>

-----------------------------------------------------------------------------
(* Destruction commands.                                                   *)

\* Mutant: work that is in an observation gap is carried over as it is.
RolloverRunningUsesOnly(uses) ==
  [u \in UseIds |-> IF uses[u].kind = "running"
                      THEN AmbiguousUse(uses[u], "leaf-rollover") ELSE uses[u]]

\* leafRolloverAmbiguity, applied to every use of the leaf.
RolloverUses(uses) ==
  [u \in UseIds |-> IF uses[u].kind \in LiveUseKinds
                      THEN AmbiguousUse(uses[u], "leaf-rollover") ELSE uses[u]]

\* replaceLeaf refuses a retiring leaf.
BeginDestruction(p, g) ==
  LET leaf == LiveLeaf(p, g)
  IN /\ ExactParent
     /\ leaf.kind \notin AccessFencingKinds \cup {"absent"}
     /\ ReplaceLeaf([leaf EXCEPT !.kind = "destroying",
                                 !.activeUses = RolloverUses(leaf.activeUses)])
     /\ UNCHANGED <<parent, tombstoneMaps, issuedGenerations, now>>

\* Mutant: the leaf stays in the access-fencing map too.
AccessFencedInBothMaps(p, g) ==
  LET leaf == LiveLeaf(p, g)
  IN /\ ExactParent
     /\ leaf.kind = "destroying"
     /\ RemoveAdmittedLeaf(leaf)
     /\ retiringLeavesByGeneration' =
          [retiringLeavesByGeneration EXCEPT ![g] = [leaf EXCEPT !.kind = "retiring"]]
     /\ UNCHANGED <<accessFencingLeavesByGeneration, parent, tombstoneMaps,
                    issuedGenerations, now>>

AccessFenced(p, g) ==
  LET leaf == LiveLeaf(p, g)
  IN /\ ExactParent
     /\ leaf.kind = "destroying"
     /\ RemoveAdmittedLeaf(leaf)
     /\ retiringLeavesByGeneration' =
          [retiringLeavesByGeneration EXCEPT ![g] = [leaf EXCEPT !.kind = "retiring"]]
     /\ accessFencingLeavesByGeneration' =
          [accessFencingLeavesByGeneration EXCEPT ![g] = AbsentLeaf]
     /\ UNCHANGED <<parent, tombstoneMaps, issuedGenerations, now>>

\* Mutant: a retiring leaf whose cleanup fails becomes owner-unsafe as well.
DestructionIncompleteUnretiring(p, g) ==
  LET leaf == LiveLeaf(p, g)
  IN /\ ExactParent
     /\ leaf.kind \in {"destroying", "retiring"}
     /\ RemoveAdmittedLeaf(leaf)
     /\ retiringLeavesByGeneration' = [retiringLeavesByGeneration EXCEPT ![g] = AbsentLeaf]
     /\ accessFencingLeavesByGeneration' = [accessFencingLeavesByGeneration EXCEPT
                                              ![g] = [leaf EXCEPT !.kind = "owner-unsafe"]]
     /\ UNCHANGED <<parent, tombstoneMaps, issuedGenerations, now>>

\* A retiring leaf keeps its disposition and only records the reason.
DestructionIncomplete(p, g) ==
  LET leaf == LiveLeaf(p, g)
  IN /\ ExactParent
     /\ leaf.kind = "destroying"
     /\ ReplaceLeaf([leaf EXCEPT !.kind = "owner-unsafe"])
     /\ UNCHANGED <<parent, tombstoneMaps, issuedGenerations, now>>

RetryDestruction(p, g) ==
  LET leaf == LiveLeaf(p, g)
  IN /\ ExactParent
     /\ leaf.kind = "owner-unsafe"
     /\ ReplaceLeaf([leaf EXCEPT !.kind = "destroying"])
     /\ UNCHANGED <<parent, tombstoneMaps, issuedGenerations, now>>

\* retainRolloverAmbiguityWithoutBlockingDestruction, over the rollover uses of
\* a leaf: drop what has expired, then make room by evicting the oldest entries.
\* Entries of the same age are ordered by their key text in the code: here the
\* choice between them is left open.  The last entry written always stays.
RetainRolloverAmbiguity(a, uses, t) ==
  LET retained == {k \in Agents \X UseIds :
                     /\ terminalUseTombstones[k] # AbsentTime
                     /\ terminalUseTombstones[k] + TerminalUseTombstoneTtl > t}
      added == {a} \X uses
      candidates == retained \cup added
      endedAt(k) == IF k \in added THEN t ELSE terminalUseTombstones[k]
  IN \E kept \in SUBSET candidates, last \in added :
       /\ last \in kept
       /\ Cardinality(kept) = IF Cardinality(candidates) <= MaxTerminalUseTombstones
                                THEN Cardinality(candidates)
                                ELSE MaxTerminalUseTombstones
       /\ \A k \in candidates \ kept, j \in kept \ {last} : endedAt(k) <= endedAt(j)
       /\ terminalUseTombstones' =
            [k \in Agents \X UseIds |-> IF k \in kept THEN endedAt(k) ELSE AbsentTime]

\* destroyedAtMs is read when the destruction is admitted, so it may lie before
\* the time at which the completion is recorded.
DestructionCompleted(p, g, t) ==
  LET leaf == LiveLeaf(p, g)
      rollovers == {u \in UseIds : /\ leaf.activeUses[u].kind = "ambiguous"
                                   /\ leaf.activeUses[u].reason = "leaf-rollover"}
  IN /\ ExactParent
     /\ leaf.kind \in {"destroying", "retiring"}
     /\ Cardinality({h \in LeafGenerations : tombstonesByGeneration[h] # AbsentTime})
          < MaxLeafTombstones
     /\ RemoveAdmittedLeaf(leaf)
     /\ retiringLeavesByGeneration' = [retiringLeavesByGeneration EXCEPT ![g] = AbsentLeaf]
     /\ accessFencingLeavesByGeneration' =
          [accessFencingLeavesByGeneration EXCEPT ![g] = AbsentLeaf]
     /\ \/ rollovers = {} /\ UNCHANGED terminalUseTombstones
        \/ rollovers # {} /\ RetainRolloverAmbiguity(AgentOf[p], rollovers, t)
     /\ tombstonesByGeneration' = [tombstonesByGeneration EXCEPT ![g] = t]
     /\ UNCHANGED <<parent, issuedGenerations, now>>

PruneTombstones ==
  /\ tombstonesByGeneration' =
       [g \in LeafGenerations |->
          IF tombstonesByGeneration[g] + LeafTombstoneTtl > now
            THEN tombstonesByGeneration[g] ELSE AbsentTime]
  /\ terminalUseTombstones' =
       [k \in Agents \X UseIds |->
          IF terminalUseTombstones[k] + TerminalUseTombstoneTtl > now
            THEN terminalUseTombstones[k] ELSE AbsentTime]
  /\ UNCHANGED <<parent, leafMaps, issuedGenerations, now>>

\* The clock the commands carry, up to the bound MaxTime.
Tick ==
  /\ now < MaxTime
  /\ now' = now + 1
  /\ UNCHANGED <<parent, leafMaps, tombstoneMaps, issuedGenerations>>

-----------------------------------------------------------------------------
LeafCommand(p, g) ==
  \/ BeginProvisioning(p, g)
  \/ CommitCurrent(p, g)
  \/ RenewIdleExpiry(p, g)
  \/ MarkSuspect(p, g)
  \/ RestoreCurrent(p, g)
  \/ Quarantine(p, g)
  \/ BeginDestruction(p, g)
  \/ AccessFenced(p, g)
  \/ DestructionIncomplete(p, g)
  \/ RetryDestruction(p, g)
  \/ \E t \in 0..now : DestructionCompleted(p, g, t)

UseCommand(p, g, u) ==
  \/ ExpireObservationGap(p, g, u)
  \/ \E e \in ProcessEpochs, s \in SessionAttachments :
       \/ StartActiveUse(p, g, u, e, s)
       \/ ResumeActiveUse(p, g, u, e, s)
       \/ EndActiveUse(p, g, u, e, s)

Next ==
  \/ RegisterParent
  \/ SealParent
  \/ RetireParent
  \/ \E p \in Principals, g \in LeafGenerations : LeafCommand(p, g)
  \/ \E p \in Principals, g \in LeafGenerations, u \in UseIds : UseCommand(p, g, u)
  \/ \E e \in ProcessEpochs, s \in SessionAttachments : SessionDisconnected(e, s)
  \/ \E e \in ProcessEpochs : ProcessEpochLost(e)
  \/ PruneTombstones
  \/ Tick

Spec == Init /\ [][Next]_vars
-----------------------------------------------------------------------------
(* Properties.                                                             *)

\* Every map of the authority state holds values of its kind: the principal map
\* holds admission leaves, the fencing map destroying and owner-unsafe ones.
TypeOK ==
  /\ parent \in {"unregistered", "registered", "sealed", "retired"}
  /\ leavesByPrincipal \in [Principals -> LeafOfKind(AdmissionKinds) \cup {AbsentLeaf}]
  /\ currentPrincipalKeyByAgentId \in [Agents -> Principals \cup {AbsentPrincipal}]
  /\ accessFencingLeavesByGeneration \in
       [LeafGenerations -> LeafOfKind(AccessFencingKinds) \cup {AbsentLeaf}]
  /\ retiringLeavesByGeneration \in [LeafGenerations -> LeafOfKind({"retiring"}) \cup {AbsentLeaf}]
  /\ tombstonesByGeneration \in [LeafGenerations -> Nat \cup {AbsentTime}]
  /\ terminalUseTombstones \in [Agents \X UseIds -> Nat \cup {AbsentTime}]
  /\ issuedGenerations \subseteq LeafGenerations
  /\ now \in Nat

\* The agent index and the principal map name the same leaves: an agent has at
\* most one admitted leaf, whatever profile revisions its principals carry.
\* begin-provisioning refuses on the index alone, and authorityForCurrentAgent
\* reads one map through the other.
AgentIndexAgrees ==
  /\ \A p \in Principals :
       Present(leavesByPrincipal[p]) =>
         /\ leavesByPrincipal[p].principal = p
         /\ currentPrincipalKeyByAgentId[AgentOf[p]] = p
  /\ \A a \in Agents :
       currentPrincipalKeyByAgentId[a] # AbsentPrincipal =>
         /\ AgentOf[currentPrincipalKeyByAgentId[a]] = a
         /\ Present(leavesByPrincipal[currentPrincipalKeyByAgentId[a]])

AdmittedAt(p, g) ==
  Present(leavesByPrincipal[p]) /\ leavesByPrincipal[p].leafGeneration = g

\* A generation has one disposition: it is in the principal map of one
\* principal, or access-fencing, or retiring, or destroyed.  requireLiveLeaf
\* looks the maps up in a fixed order and would hide the others.
OneDisposition ==
  \A g \in LeafGenerations :
    /\ Present(accessFencingLeavesByGeneration[g]) =>
         /\ accessFencingLeavesByGeneration[g].leafGeneration = g
         /\ ~Present(retiringLeavesByGeneration[g])
    /\ Present(retiringLeavesByGeneration[g]) =>
         retiringLeavesByGeneration[g].leafGeneration = g
    /\ tombstonesByGeneration[g] # AbsentTime =>
         /\ ~Present(accessFencingLeavesByGeneration[g])
         /\ ~Present(retiringLeavesByGeneration[g])
    /\ \A p \in Principals :
         AdmittedAt(p, g) =>
           /\ ~Present(accessFencingLeavesByGeneration[g])
           /\ ~Present(retiringLeavesByGeneration[g])
           /\ tombstonesByGeneration[g] = AbsentTime
           /\ \A q \in Principals : AdmittedAt(q, g) => q = p

\* The leaf that may serve work (current or suspect; one still being provisioned
\* may not) and a predecessor of the same agent whose access is not fenced yet
\* never coexist: two Tool VMs of one agent would both be
\* reachable over the agent's workspace.
PredecessorAccessFenced ==
  \A p \in Principals, g \in LeafGenerations :
    /\ leavesByPrincipal[p].kind \in {"current", "suspect"}
    /\ Present(accessFencingLeavesByGeneration[g])
    => AgentOf[accessFencingLeavesByGeneration[g].principal] # AgentOf[p]

\* Two Tool VMs of one agent are never both reachable, and a generation is never
\* owned twice.  The four facts are inductive only together: a destruction takes
\* the access of an agent's one admitted leaf (AgentIndexAgrees) under the
\* generation its map entry names (OneDisposition), and that is why no other leaf
\* of the agent is left serving (PredecessorAccessFenced).
Ownership ==
  /\ TypeOK
  /\ AgentIndexAgrees
  /\ OneDisposition
  /\ PredecessorAccessFenced

\* A leaf that left admission holds no work that still counts as observed: every
\* running or unobserved use became ambiguous when the destruction began.
FencedWorkIsAmbiguous ==
  \A g \in LeafGenerations, u \in UseIds :
    /\ Present(accessFencingLeavesByGeneration[g]) =>
         accessFencingLeavesByGeneration[g].activeUses[u].kind \notin LiveUseKinds
    /\ Present(retiringLeavesByGeneration[g]) =>
         retiringLeavesByGeneration[g].activeUses[u].kind \notin LiveUseKinds

\* The uses retained by one leaf belong to one Gateway process: work of two
\* processes is never mixed on a Tool VM.
OneProcessPerLeaf ==
  LET oneProcess(leaf) ==
        \A u, v \in UseIds :
          (leaf.activeUses[u].kind # "absent" /\ leaf.activeUses[v].kind # "absent") =>
            leaf.activeUses[u].processEpoch = leaf.activeUses[v].processEpoch
  IN /\ \A p \in Principals :
          Present(leavesByPrincipal[p]) => oneProcess(leavesByPrincipal[p])
     /\ \A g \in LeafGenerations :
          /\ Present(accessFencingLeavesByGeneration[g]) =>
               oneProcess(accessFencingLeavesByGeneration[g])
          /\ Present(retiringLeavesByGeneration[g]) =>
               oneProcess(retiringLeavesByGeneration[g])

\* Work that has been reported terminal, or that a rollover left undecided, is
\* not running for the same agent under another lease: while the evidence is
\* retained, start-active-use refuses the id.
NoResurrectedWork ==
  \A p \in Principals, u \in UseIds :
    (/\ leavesByPrincipal[p].kind \in {"current", "suspect"}
     /\ leavesByPrincipal[p].activeUses[u].kind \in LiveUseKinds) =>
       /\ terminalUseTombstones[<<AgentOf[p], u>>] = AbsentTime
       /\ ~RetainedByRetiringPredecessor(AgentOf[p], u)

\* A retired parent owns nothing: no leaf is admitted, fencing or retiring.
RetiredParentOwnsNothing ==
  parent = "retired" =>
    /\ \A p \in Principals : ~Present(leavesByPrincipal[p])
    /\ \A g \in LeafGenerations : /\ ~Present(accessFencingLeavesByGeneration[g])
                                  /\ ~Present(retiringLeavesByGeneration[g])

\* Work stays attributable across disconnects, lost processes and rollovers, and
\* a parent retires only when nothing of it is left: the reducer decides each
\* from a map the other commands rewrite.
WorkIsAttributable ==
  /\ FencedWorkIsAmbiguous
  /\ OneProcessPerLeaf
  /\ NoResurrectedWork
  /\ RetiredParentOwnsNothing

LiveGeneration(g) ==
  \/ \E p \in Principals : AdmittedAt(p, g)
  \/ Present(accessFencingLeavesByGeneration[g])
  \/ Present(retiringLeavesByGeneration[g])

\* A Tool VM is answered for from its admission to its proved destruction: a leaf
\* the authority owns stays live until its destruction is in a tombstone.  And
\* access that was withdrawn is never given back: a generation that is fencing,
\* retiring or destroyed is not admitted again, and one whose access fence was
\* proved does not return to fencing.
LeavesAreHeldUntilDestroyed ==
  [][\A g \in LeafGenerations :
       /\ LiveGeneration(g) => LiveGeneration(g)' \/ tombstonesByGeneration'[g] # AbsentTime
       /\ (~\E p \in Principals : AdmittedAt(p, g)) /\ g \in issuedGenerations =>
            ~\E p \in Principals : AdmittedAt(p, g)'
       /\ Present(retiringLeavesByGeneration[g]) =>
            ~Present(accessFencingLeavesByGeneration[g])']_vars

\* A sealed parent admits no leaf and no work: the admitted generations only
\* shrink, and no use starts or resumes.
SealedParentAdmitsNothing ==
  [][parent # "registered" =>
       \A p \in Principals, g \in LeafGenerations :
         AdmittedAt(p, g)' =>
           /\ AdmittedAt(p, g)
           /\ \A u \in UseIds :
                leavesByPrincipal'[p].activeUses[u].kind = "running" =>
                  leavesByPrincipal[p].activeUses[u].kind = "running"]_vars
=============================================================================
