--------------------- MODULE ToolVmLeaseAuthorityProofs ---------------------
(***************************************************************************)
(* Theorems about the Tool VM lease authority, for every set of agents,    *)
(* principals, generations, uses, processes and attachments, every         *)
(* retention policy and every bound of the clock.                          *)
(***************************************************************************)
EXTENDS ToolVmLeaseAuthority, TLAPS

-----------------------------------------------------------------------------
(* The values the maps hold.                                               *)

AnyKinds == AdmissionKinds \cup AccessFencingKinds \cup {"retiring"}

\* A leaf found by requireLiveLeaf is an entry of one of the three live maps,
\* under the principal and the generation of the reference.
LEMMA LiveLeafFound ==
  ASSUME TypeOK, NEW p \in Principals, NEW g \in LeafGenerations,
         LiveLeaf(p, g).kind # "absent"
  PROVE  /\ LiveLeaf(p, g) \in LeafOfKind(AnyKinds)
         /\ tombstonesByGeneration[g] = AbsentTime
         /\ \/ /\ LiveLeaf(p, g) = accessFencingLeavesByGeneration[g]
               /\ LiveLeaf(p, g).principal = p
               /\ LiveLeaf(p, g).kind \in AccessFencingKinds
            \/ /\ LiveLeaf(p, g) = retiringLeavesByGeneration[g]
               /\ LiveLeaf(p, g).principal = p
               /\ LiveLeaf(p, g).kind = "retiring"
               /\ ~Present(accessFencingLeavesByGeneration[g])
            \/ /\ LiveLeaf(p, g) = leavesByPrincipal[p]
               /\ LiveLeaf(p, g).leafGeneration = g
               /\ LiveLeaf(p, g).kind \in AdmissionKinds
               /\ ~Present(accessFencingLeavesByGeneration[g])
               /\ ~Present(retiringLeavesByGeneration[g])
<1> DEFINE fencing == accessFencingLeavesByGeneration[g]
           retiring == retiringLeavesByGeneration[g]
           admitted == leavesByPrincipal[p]
<1>1. /\ fencing \in LeafOfKind(AccessFencingKinds) \cup {AbsentLeaf}
      /\ retiring \in LeafOfKind({"retiring"}) \cup {AbsentLeaf}
      /\ admitted \in LeafOfKind(AdmissionKinds) \cup {AbsentLeaf}
  BY DEF TypeOK
<1>2. AbsentLeaf.kind = "absent"
  BY DEF AbsentLeaf
<1>3. CASE tombstonesByGeneration[g] # AbsentTime
  BY <1>2, <1>3 DEF LiveLeaf
<1>4. CASE tombstonesByGeneration[g] = AbsentTime /\ Present(fencing)
  <2>1. LiveLeaf(p, g) = IF fencing.principal = p THEN fencing ELSE AbsentLeaf
    BY <1>4 DEF LiveLeaf
  <2> QED BY <2>1, <1>1, <1>2, <1>4 DEF LeafOfKind, AnyKinds, Present
<1>5. CASE tombstonesByGeneration[g] = AbsentTime /\ ~Present(fencing) /\ Present(retiring)
  <2>1. LiveLeaf(p, g) = IF retiring.principal = p THEN retiring ELSE AbsentLeaf
    BY <1>5 DEF LiveLeaf
  <2> QED BY <2>1, <1>1, <1>2, <1>5 DEF LeafOfKind, AnyKinds, Present
<1>6. CASE tombstonesByGeneration[g] = AbsentTime /\ ~Present(fencing) /\ ~Present(retiring)
  <2>1. LiveLeaf(p, g) = IF Present(admitted) /\ admitted.leafGeneration = g
                           THEN admitted ELSE AbsentLeaf
    BY <1>6 DEF LiveLeaf
  <2> QED BY <2>1, <1>1, <1>2, <1>6 DEF LeafOfKind, AnyKinds, Present
<1> QED BY <1>3, <1>4, <1>5, <1>6

\* The edits the commands make to a leaf keep it a leaf, of the same generation
\* and principal.
LEMMA EditedLeaf ==
  ASSUME NEW leaf \in LeafOfKind(AnyKinds), NEW k \in AnyKinds,
         NEW uses \in ActiveUses, NEW t \in Nat
  PROVE  /\ [leaf EXCEPT !.kind = k] \in LeafOfKind(AnyKinds)
         /\ [leaf EXCEPT !.kind = k].leafGeneration = leaf.leafGeneration
         /\ [leaf EXCEPT !.kind = k].principal = leaf.principal
         /\ [leaf EXCEPT !.kind = k].kind = k
         /\ [leaf EXCEPT !.kind = k].activeUses = leaf.activeUses
         /\ [leaf EXCEPT !.idleExpiresAt = t] \in LeafOfKind(AnyKinds)
         /\ [leaf EXCEPT !.idleExpiresAt = t].leafGeneration = leaf.leafGeneration
         /\ [leaf EXCEPT !.idleExpiresAt = t].principal = leaf.principal
         /\ [leaf EXCEPT !.idleExpiresAt = t].kind = leaf.kind
         /\ [leaf EXCEPT !.idleExpiresAt = t].activeUses = leaf.activeUses
         /\ [leaf EXCEPT !.activeUses = uses] \in LeafOfKind(AnyKinds)
         /\ [leaf EXCEPT !.activeUses = uses].leafGeneration = leaf.leafGeneration
         /\ [leaf EXCEPT !.activeUses = uses].principal = leaf.principal
         /\ [leaf EXCEPT !.activeUses = uses].kind = leaf.kind
         /\ [leaf EXCEPT !.activeUses = uses].activeUses = uses
         /\ [leaf EXCEPT !.kind = k, !.activeUses = uses] \in LeafOfKind(AnyKinds)
         /\ [leaf EXCEPT !.kind = k, !.activeUses = uses].leafGeneration = leaf.leafGeneration
         /\ [leaf EXCEPT !.kind = k, !.activeUses = uses].principal = leaf.principal
         /\ [leaf EXCEPT !.kind = k, !.activeUses = uses].kind = k
         /\ [leaf EXCEPT !.kind = k, !.activeUses = uses].activeUses = uses
BY DEF LeafOfKind

\* The edits the commands make to the uses of a leaf.
LEMMA EditedUses ==
  ASSUME NEW uses \in ActiveUses, NEW u \in UseIds
  PROVE  /\ \A x \in ActiveUse \cup {AbsentUse} : [uses EXCEPT ![u] = x] \in ActiveUses
         /\ uses[u].kind # "absent" => uses[u] \in ActiveUse
         /\ \A e \in ProcessEpochs, a \in SessionAttachments : RunningUse(e, a) \in ActiveUse
         /\ \A x \in ActiveUse, why \in AmbiguityReasons : AmbiguousUse(x, why) \in ActiveUse
         /\ \A x \in ActiveUse, t \in Nat : GapUse(x, t) \in ActiveUse
         /\ RolloverUses(uses) \in ActiveUses
         /\ \A e, a : \A t \in Nat : UnobservedUses(uses, e, a, t) \in ActiveUses
         /\ \A e : LostUses(uses, e) \in ActiveUses
<1>1. \A x \in ActiveUse \cup {AbsentUse} : [uses EXCEPT ![u] = x] \in ActiveUses
  BY DEF ActiveUses
<1>2. \A v \in UseIds : uses[v].kind # "absent" => uses[v] \in ActiveUse
  BY DEF ActiveUses, AbsentUse
<1>3. \A e \in ProcessEpochs, a \in SessionAttachments : RunningUse(e, a) \in ActiveUse
  BY DEF RunningUse, ActiveUse, AbsentTime
<1>4. \A x \in ActiveUse, why \in AmbiguityReasons : AmbiguousUse(x, why) \in ActiveUse
  BY DEF AmbiguousUse, ActiveUse, AbsentTime
<1>5. \A x \in ActiveUse, t \in Nat : GapUse(x, t) \in ActiveUse
  <2> SUFFICES ASSUME NEW x \in ActiveUse, NEW t \in Nat PROVE GapUse(x, t) \in ActiveUse
    OBVIOUS
  <2>1. t + ObservationGapGrace \in Nat
    BY RetentionAssumption
  <2> QED BY <2>1 DEF GapUse, ActiveUse
<1>v. \A v \in UseIds : uses[v] \in ActiveUse \cup {AbsentUse}
  BY DEF ActiveUses
<1>7. ASSUME NEW e, NEW a, NEW t \in Nat PROVE UnobservedUses(uses, e, a, t) \in ActiveUses
  BY <1>2, <1>5, <1>v DEF UnobservedUses, ActiveUses
<1>8. ASSUME NEW e PROVE LostUses(uses, e) \in ActiveUses
  BY <1>2, <1>4, <1>v DEF LostUses, LostUse, LiveUseKinds, AmbiguityReasons, ActiveUses
<1>9. RolloverUses(uses) \in ActiveUses
  <2>1. \A v \in UseIds : uses[v].kind \in LiveUseKinds =>
          AmbiguousUse(uses[v], "leaf-rollover") \in ActiveUse
    BY <1>2, <1>4 DEF LiveUseKinds, AmbiguityReasons
  <2> QED BY <2>1, <1>v DEF RolloverUses, ActiveUses
<1> QED BY <1>1, <1>2, <1>3, <1>4, <1>5, <1>7, <1>8, <1>9

-----------------------------------------------------------------------------
(* Type correctness.                                                       *)

LeafMapsTyped ==
  /\ leavesByPrincipal \in [Principals -> LeafOfKind(AdmissionKinds) \cup {AbsentLeaf}]
  /\ currentPrincipalKeyByAgentId \in [Agents -> Principals \cup {AbsentPrincipal}]
  /\ accessFencingLeavesByGeneration \in
       [LeafGenerations -> LeafOfKind(AccessFencingKinds) \cup {AbsentLeaf}]
  /\ retiringLeavesByGeneration \in [LeafGenerations -> LeafOfKind({"retiring"}) \cup {AbsentLeaf}]

\* Removing an admitted leaf keeps the principal map and the agent index typed.
LEMMA RemoveAdmittedLeafTyped ==
  ASSUME TypeOK, NEW leaf \in LeafOfKind(AnyKinds), RemoveAdmittedLeaf(leaf)
  PROVE  /\ leavesByPrincipal' \in [Principals -> LeafOfKind(AdmissionKinds) \cup {AbsentLeaf}]
         /\ currentPrincipalKeyByAgentId' \in [Agents -> Principals \cup {AbsentPrincipal}]
<1>1. leaf.principal \in Principals
  BY DEF LeafOfKind
<1> QED BY <1>1 DEF RemoveAdmittedLeaf, TypeOK

\* replaceLeaf keeps the four maps typed: a leaf goes to the map of its kind.
LEMMA ReplaceLeafTyped ==
  ASSUME TypeOK, NEW leaf \in LeafOfKind(AnyKinds), ReplaceLeaf(leaf)
  PROVE  LeafMapsTyped'
<1> DEFINE g == leaf.leafGeneration
           isRetiring == leaf.kind = "retiring" \/ Present(retiringLeavesByGeneration[g])
           isFencing == \/ leaf.kind \in AccessFencingKinds
                        \/ Present(accessFencingLeavesByGeneration[g])
<1>1. /\ g \in LeafGenerations
      /\ leaf.principal \in Principals
      /\ AgentOf[leaf.principal] \in Agents
  BY PrincipalAssumption DEF LeafOfKind
<1>2. CASE isRetiring /\ leaf.kind = "retiring"
  <2>1. leaf \in LeafOfKind({"retiring"})
    BY <1>2 DEF LeafOfKind
  <2> QED BY <1>1, <1>2, <2>1 DEF ReplaceLeaf, TypeOK, LeafMapsTyped, AccessFencingKinds
<1>3. CASE ~isRetiring /\ isFencing
  <2>1. leaf.kind \in AccessFencingKinds /\ RemoveAdmittedLeaf(leaf)
    BY <1>3 DEF ReplaceLeaf
  <2>2. leaf \in LeafOfKind(AccessFencingKinds)
    BY <2>1 DEF LeafOfKind
  <2>3. /\ accessFencingLeavesByGeneration' = [accessFencingLeavesByGeneration EXCEPT ![g] = leaf]
        /\ UNCHANGED retiringLeavesByGeneration
    BY <1>3 DEF ReplaceLeaf
  <2> QED BY <1>1, <2>1, <2>2, <2>3, RemoveAdmittedLeafTyped DEF TypeOK, LeafMapsTyped
<1>4. CASE ~isRetiring /\ ~isFencing
  <2>1. leaf \in LeafOfKind(AdmissionKinds)
    BY <1>4 DEF LeafOfKind, AnyKinds
  <2>2. /\ leavesByPrincipal' = [leavesByPrincipal EXCEPT ![leaf.principal] = leaf]
        /\ currentPrincipalKeyByAgentId' =
             [currentPrincipalKeyByAgentId EXCEPT ![AgentOf[leaf.principal]] = leaf.principal]
        /\ UNCHANGED <<accessFencingLeavesByGeneration, retiringLeavesByGeneration>>
    BY <1>4 DEF ReplaceLeaf
  <2> QED BY <1>1, <2>1, <2>2 DEF TypeOK, LeafMapsTyped
<1> QED BY <1>2, <1>3, <1>4 DEF ReplaceLeaf

\* A step keeps every map of the authority state typed.
LEMMA TypeStep == TypeOK /\ [Next]_vars => TypeOK'
<1> SUFFICES ASSUME TypeOK, [Next]_vars PROVE TypeOK'
  OBVIOUS
<1> USE PrincipalAssumption, RetentionAssumption
<1> DEFINE tombstonesTyped ==
             /\ tombstonesByGeneration \in [LeafGenerations -> Nat \cup {AbsentTime}]
             /\ terminalUseTombstones \in [Agents \X UseIds -> Nat \cup {AbsentTime}]
           restTyped == /\ parent \in {"unregistered", "registered", "sealed", "retired"}
                        /\ issuedGenerations \subseteq LeafGenerations
                        /\ now \in Nat
<1>typed. LeafMapsTyped /\ tombstonesTyped /\ restTyped
  BY DEF TypeOK, LeafMapsTyped
<1>parts. LeafMapsTyped' /\ tombstonesTyped' /\ restTyped' => TypeOK'
  BY DEF TypeOK, LeafMapsTyped
<1>same. UNCHANGED leafMaps => LeafMapsTyped'
  BY <1>typed DEF leafMaps, LeafMapsTyped
<1>1. CASE UNCHANGED vars
  BY <1>1, <1>same, <1>parts, <1>typed DEF vars, tombstoneMaps
<1>2. CASE RegisterParent \/ SealParent \/ RetireParent
  BY <1>2, <1>same, <1>parts, <1>typed
     DEF RegisterParent, SealParent, RetireParent, tombstoneMaps
<1>3. ASSUME NEW p \in Principals, NEW g \in LeafGenerations, LeafCommand(p, g)
      PROVE TypeOK'
  <2> DEFINE leaf == LiveLeaf(p, g)
  <2>1. leaf.kind # "absent" => leaf \in LeafOfKind(AnyKinds)
    BY LiveLeafFound
  <2>2. leaf.kind # "absent" => RolloverUses(leaf.activeUses) \in ActiveUses \/ UseIds = {}
    <3>1. leaf.kind # "absent" => leaf.activeUses \in ActiveUses
      BY <2>1 DEF LeafOfKind
    <3> QED BY <3>1, EditedUses
  <2>3. UseIds = {} => \A uses : RolloverUses(uses) \in ActiveUses
    BY DEF RolloverUses, ActiveUses
  <2>4. CASE BeginProvisioning(p, g)
    <3> DEFINE new == [kind |-> "provisioning", leafGeneration |-> g, principal |-> p,
                       idleExpiresAt |-> now + IdleTtl, activeUses |-> NoActiveUses]
    <3>1. new \in LeafOfKind(AnyKinds)
      BY DEF LeafOfKind, AnyKinds, AdmissionKinds, NoActiveUses, ActiveUses, TypeOK
    <3>2. ReplaceLeaf(new) /\ restTyped' /\ UNCHANGED tombstoneMaps
      BY <2>4, <1>typed DEF BeginProvisioning
    <3> QED BY <3>1, <3>2, ReplaceLeafTyped, <1>parts, <1>typed DEF tombstoneMaps
  <2>5. CASE \/ CommitCurrent(p, g) \/ MarkSuspect(p, g) \/ RestoreCurrent(p, g)
             \/ Quarantine(p, g) \/ DestructionIncomplete(p, g) \/ RetryDestruction(p, g)
    <3>1. PICK k \in AnyKinds : /\ leaf.kind # "absent"
                                /\ ReplaceLeaf([leaf EXCEPT !.kind = k])
                                /\ UNCHANGED <<parent, tombstoneMaps, issuedGenerations, now>>
      BY <2>5 DEF CommitCurrent, MarkSuspect, RestoreCurrent, Quarantine,
                  DestructionIncomplete, RetryDestruction, AnyKinds, AdmissionKinds,
                  AccessFencingKinds
    <3>2. [leaf EXCEPT !.kind = k] \in LeafOfKind(AnyKinds)
      BY <3>1, <2>1 DEF LeafOfKind
    <3> QED BY <3>1, <3>2, ReplaceLeafTyped, <1>parts, <1>typed DEF tombstoneMaps
  <2>6. CASE RenewIdleExpiry(p, g)
    <3>1. /\ leaf.kind # "absent"
          /\ ReplaceLeaf([leaf EXCEPT !.idleExpiresAt = now + IdleTtl])
          /\ UNCHANGED <<parent, tombstoneMaps, issuedGenerations, now>>
      BY <2>6 DEF RenewIdleExpiry
    <3>2. now + IdleTtl \in Nat
      BY <1>typed
    <3>3. [leaf EXCEPT !.idleExpiresAt = now + IdleTtl] \in LeafOfKind(AnyKinds)
      BY <3>1, <3>2, <2>1 DEF LeafOfKind
    <3> QED BY <3>1, <3>3, ReplaceLeafTyped, <1>parts, <1>typed DEF tombstoneMaps
  <2>7. CASE BeginDestruction(p, g)
    <3>1. /\ leaf.kind # "absent"
          /\ ReplaceLeaf([leaf EXCEPT !.kind = "destroying",
                                      !.activeUses = RolloverUses(leaf.activeUses)])
          /\ UNCHANGED <<parent, tombstoneMaps, issuedGenerations, now>>
      BY <2>7 DEF BeginDestruction
    <3>2. [leaf EXCEPT !.kind = "destroying", !.activeUses = RolloverUses(leaf.activeUses)]
            \in LeafOfKind(AnyKinds)
      <4> HIDE DEF leaf
      <4> QED BY <3>1, <2>1, <2>2, <2>3 DEF LeafOfKind, AnyKinds, AccessFencingKinds
    <3> QED BY <3>1, <3>2, ReplaceLeafTyped, <1>parts, <1>typed DEF tombstoneMaps
  <2>8. CASE AccessFenced(p, g)
    <3>1. /\ leaf.kind # "absent"
          /\ RemoveAdmittedLeaf(leaf)
          /\ retiringLeavesByGeneration' =
               [retiringLeavesByGeneration EXCEPT ![g] = [leaf EXCEPT !.kind = "retiring"]]
          /\ accessFencingLeavesByGeneration' =
               [accessFencingLeavesByGeneration EXCEPT ![g] = AbsentLeaf]
          /\ UNCHANGED <<parent, tombstoneMaps, issuedGenerations, now>>
      BY <2>8 DEF AccessFenced
    <3>2. [leaf EXCEPT !.kind = "retiring"] \in LeafOfKind({"retiring"})
      BY <3>1, <2>1 DEF LeafOfKind
    <3>3. LeafMapsTyped'
      BY <3>1, <3>2, <2>1, RemoveAdmittedLeafTyped, <1>typed DEF LeafMapsTyped
    <3> QED BY <3>1, <3>3, <1>parts, <1>typed DEF tombstoneMaps
  <2>9. ASSUME NEW t \in 0..now, DestructionCompleted(p, g, t) PROVE TypeOK'
    <3>1. /\ leaf.kind # "absent"
          /\ RemoveAdmittedLeaf(leaf)
          /\ retiringLeavesByGeneration' =
               [retiringLeavesByGeneration EXCEPT ![g] = AbsentLeaf]
          /\ accessFencingLeavesByGeneration' =
               [accessFencingLeavesByGeneration EXCEPT ![g] = AbsentLeaf]
          /\ tombstonesByGeneration' = [tombstonesByGeneration EXCEPT ![g] = t]
          /\ UNCHANGED <<parent, issuedGenerations, now>>
      BY <2>9 DEF DestructionCompleted
    <3>2. LeafMapsTyped'
      BY <3>1, <2>1, RemoveAdmittedLeafTyped, <1>typed DEF LeafMapsTyped
    <3>3. t \in Nat
      BY <1>typed
    <3>4. ASSUME NEW uses \in SUBSET UseIds, RetainRolloverAmbiguity(AgentOf[p], uses, t)
          PROVE  terminalUseTombstones' \in [Agents \X UseIds -> Nat \cup {AbsentTime}]
      BY <3>3, <3>4, <1>typed DEF RetainRolloverAmbiguity
    <3>5. terminalUseTombstones' \in [Agents \X UseIds -> Nat \cup {AbsentTime}]
      BY <3>4, <2>9, <1>typed DEF DestructionCompleted
    <3> QED BY <3>1, <3>2, <3>3, <3>5, <1>parts, <1>typed
  <2> QED BY <1>3, <2>4, <2>5, <2>6, <2>7, <2>8, <2>9 DEF LeafCommand
<1>4. ASSUME NEW p \in Principals, NEW g \in LeafGenerations, NEW u \in UseIds,
             UseCommand(p, g, u)
      PROVE TypeOK'
  <2> DEFINE leaf == LiveLeaf(p, g)
  <2>1. leaf.kind # "absent" => leaf \in LeafOfKind(AnyKinds)
    BY LiveLeafFound
  <2>2. ASSUME NEW x \in ActiveUse \cup {AbsentUse}, NEW k \in AnyKinds, leaf.kind # "absent"
        PROVE  /\ [leaf EXCEPT !.activeUses = [leaf.activeUses EXCEPT ![u] = x]]
                    \in LeafOfKind(AnyKinds)
               /\ [leaf EXCEPT !.kind = k,
                               !.activeUses = [leaf.activeUses EXCEPT ![u] = x]]
                    \in LeafOfKind(AnyKinds)
    <3> HIDE DEF leaf
    <3>1. leaf \in LeafOfKind(AnyKinds)
      BY <2>1, <2>2
    <3>2. [leaf.activeUses EXCEPT ![u] = x] \in ActiveUses
      BY <3>1, EditedUses DEF LeafOfKind
    <3> QED BY <3>1, <3>2, EditedLeaf, 0 \in Nat
  <2>3. \A e \in ProcessEpochs, s \in SessionAttachments : RunningUse(e, s) \in ActiveUse
    BY DEF RunningUse, ActiveUse, AbsentTime
  <2>4. ASSUME NEW e \in ProcessEpochs, NEW s \in SessionAttachments,
               StartActiveUse(p, g, u, e, s) \/ ResumeActiveUse(p, g, u, e, s)
        PROVE  TypeOK'
    <3>1. /\ leaf.kind # "absent"
          /\ ReplaceLeaf([leaf EXCEPT !.activeUses =
                            [leaf.activeUses EXCEPT ![u] = RunningUse(e, s)]])
          /\ UNCHANGED <<parent, tombstoneMaps, issuedGenerations, now>>
      BY <2>4 DEF StartActiveUse, ResumeActiveUse
    <3> HIDE DEF leaf
    <3>2. [leaf EXCEPT !.activeUses = [leaf.activeUses EXCEPT ![u] = RunningUse(e, s)]]
            \in LeafOfKind(AnyKinds)
      BY <3>1, <2>2, <2>3, "current" \in AnyKinds DEF AnyKinds, AdmissionKinds
    <3> QED BY <3>1, <3>2, ReplaceLeafTyped, <1>parts, <1>typed DEF tombstoneMaps
  <2>5. ASSUME NEW e \in ProcessEpochs, NEW s \in SessionAttachments,
               EndActiveUse(p, g, u, e, s)
        PROVE  TypeOK'
    <3>1. /\ leaf.kind # "absent"
          /\ ReplaceLeaf([leaf EXCEPT !.activeUses = [leaf.activeUses EXCEPT ![u] = AbsentUse]])
          /\ terminalUseTombstones' = [terminalUseTombstones EXCEPT ![<<AgentOf[p], u>>] = now]
          /\ UNCHANGED <<parent, tombstonesByGeneration, issuedGenerations, now>>
      BY <2>5 DEF EndActiveUse
    <3> HIDE DEF leaf
    <3>2. [leaf EXCEPT !.activeUses = [leaf.activeUses EXCEPT ![u] = AbsentUse]]
            \in LeafOfKind(AnyKinds)
      BY <3>1, <2>2, "current" \in AnyKinds DEF AnyKinds, AdmissionKinds
    <3> QED BY <3>1, <3>2, ReplaceLeafTyped, <1>parts, <1>typed
  <2>6. CASE ExpireObservationGap(p, g, u)
    <3> DEFINE x == AmbiguousUse(leaf.activeUses[u], "observation-gap-expired")
    <3>1. /\ leaf.kind # "absent"
          /\ leaf.activeUses[u].kind = "observation-gap"
          /\ ReplaceLeaf([leaf EXCEPT !.kind = "quarantined",
                                      !.activeUses = [leaf.activeUses EXCEPT ![u] = x]])
          /\ UNCHANGED <<parent, tombstoneMaps, issuedGenerations, now>>
      BY <2>6 DEF ExpireObservationGap
    <3> HIDE DEF leaf
    <3>2. leaf.activeUses \in ActiveUses
      BY <3>1, <2>1 DEF LeafOfKind
    <3>3. leaf.activeUses[u] \in ActiveUse
      BY <3>1, <3>2, EditedUses
    <3>4. x \in ActiveUse
      BY <3>2, <3>3, EditedUses DEF AmbiguityReasons
    <3>5. "quarantined" \in AnyKinds
      BY DEF AnyKinds, AdmissionKinds
    <3> HIDE DEF x
    <3>6. [leaf EXCEPT !.kind = "quarantined", !.activeUses = [leaf.activeUses EXCEPT ![u] = x]]
            \in LeafOfKind(AnyKinds)
      BY <3>1, <3>4, <3>5, <2>2
    <3> QED BY <3>1, <3>6, ReplaceLeafTyped, <1>parts, <1>typed DEF tombstoneMaps
  <2> QED BY <1>4, <2>4, <2>5, <2>6 DEF UseCommand
<1>5. ASSUME NEW e \in ProcessEpochs,
             \/ ProcessEpochLost(e)
             \/ \E s \in SessionAttachments : SessionDisconnected(e, s)
      PROVE TypeOK'
  <2>1. ASSUME NEW p \in Principals
        PROVE  leavesByPrincipal'[p] \in LeafOfKind(AdmissionKinds) \cup {AbsentLeaf}
    <3> DEFINE leaf == leavesByPrincipal[p]
    <3>1. leaf \in LeafOfKind(AdmissionKinds) \cup {AbsentLeaf}
      BY <1>typed DEF LeafMapsTyped
    <3>2. \/ leavesByPrincipal'[p] = leaf
          \/ /\ leaf.kind # "absent"
             /\ \/ \E s : leavesByPrincipal'[p] =
                     [leaf EXCEPT !.activeUses = UnobservedUses(leaf.activeUses, e, s, now)]
                \/ leavesByPrincipal'[p] =
                     [leaf EXCEPT !.kind = "quarantined",
                                  !.activeUses = LostUses(leaf.activeUses, e)]
      BY <1>5 DEF ProcessEpochLost, SessionDisconnected
    <3> HIDE DEF leaf
    <3>3. CASE leavesByPrincipal'[p] = leaf
      BY <3>1, <3>3
    <3>4. CASE leavesByPrincipal'[p] # leaf
      <4>1. leaf \in LeafOfKind(AdmissionKinds) /\ leaf.activeUses \in ActiveUses
        BY <3>1, <3>2, <3>4 DEF LeafOfKind, AbsentLeaf
      <4>2. PICK uses \in ActiveUses :
              \/ leavesByPrincipal'[p] = [leaf EXCEPT !.activeUses = uses]
              \/ leavesByPrincipal'[p] = [leaf EXCEPT !.kind = "quarantined", !.activeUses = uses]
        <5>2. /\ \A s : UnobservedUses(leaf.activeUses, e, s, now) \in ActiveUses
              /\ LostUses(leaf.activeUses, e) \in ActiveUses
          <6>1. CASE UseIds = {}
            BY <6>1 DEF UnobservedUses, LostUses, ActiveUses
          <6>2. CASE UseIds # {}
            BY <6>2, <4>1, <1>typed, EditedUses
          <6> QED BY <6>1, <6>2
        <5> QED BY <5>2, <3>2, <3>4
      <4> QED BY <4>1, <4>2 DEF LeafOfKind, AdmissionKinds
    <3> QED BY <3>3, <3>4
  <2>2. /\ leavesByPrincipal' = [p \in Principals |-> leavesByPrincipal'[p]]
        /\ UNCHANGED <<parent, currentPrincipalKeyByAgentId, accessFencingLeavesByGeneration,
                       retiringLeavesByGeneration, tombstoneMaps, issuedGenerations, now>>
    BY <1>5 DEF ProcessEpochLost, SessionDisconnected
  <2>3. LeafMapsTyped'
    BY <2>1, <2>2, <1>typed DEF LeafMapsTyped
  <2> QED BY <2>2, <2>3, <1>parts, <1>typed DEF tombstoneMaps
<1>6. CASE PruneTombstones
  <2>1. tombstonesTyped'
    BY <1>6, <1>typed DEF PruneTombstones
  <2> QED BY <1>6, <2>1, <1>same, <1>parts, <1>typed DEF PruneTombstones
<1>7. CASE Tick
  BY <1>7, <1>same, <1>parts, <1>typed DEF Tick, tombstoneMaps
<1> QED BY <1>1, <1>2, <1>3, <1>4, <1>5, <1>6, <1>7 DEF Next

\* Every reachable state of the authority is well typed.  In particular the
\* principal map only ever holds admission leaves: no command can store a leaf
\* under destruction where requests for the agent are answered from.
THEOREM TypeCorrect == Spec => []TypeOK
<1>1. Init => TypeOK
  <2>1. AbsentTime \in {AbsentTime} /\ 0 \in Nat
    OBVIOUS
  <2> QED BY <2>1 DEF Init, TypeOK
<1> QED BY <1>1, TypeStep, PTL DEF Spec

-----------------------------------------------------------------------------
(* Ownership of the leaves.                                                *)

\* A leaf found by requireLiveLeaf carries the identity it was asked for.
LEMMA LiveLeafIdentity ==
  ASSUME Ownership, NEW p \in Principals, NEW g \in LeafGenerations,
         LiveLeaf(p, g).kind # "absent"
  PROVE  LiveLeaf(p, g).principal = p /\ LiveLeaf(p, g).leafGeneration = g
BY LiveLeafFound DEF Ownership, AgentIndexAgrees, OneDisposition, Present

\* The effect of removing a leaf from the principal map: the generation is
\* admitted nowhere, every other admitted leaf stays, and the index follows.
LEMMA RemoveAdmittedLeafSafe ==
  ASSUME Ownership, NEW leaf \in LeafOfKind(AnyKinds), RemoveAdmittedLeaf(leaf)
  PROVE  /\ AgentIndexAgrees'
         /\ ~Present(leavesByPrincipal'[leaf.principal])
              \/ leavesByPrincipal'[leaf.principal].leafGeneration # leaf.leafGeneration
         /\ \A q \in Principals :
              \/ leavesByPrincipal'[q] = leavesByPrincipal[q]
              \/ leavesByPrincipal'[q] = AbsentLeaf
<1> DEFINE p == leaf.principal
           g == leaf.leafGeneration
           removes == Present(leavesByPrincipal[p]) /\ leavesByPrincipal[p].leafGeneration = g
<1>1. p \in Principals /\ AgentOf[p] \in Agents
  BY PrincipalAssumption DEF LeafOfKind
<1>2. ~Present(AbsentLeaf)
  BY DEF Present, AbsentLeaf
<1>3. /\ leavesByPrincipal \in [Principals -> LeafOfKind(AdmissionKinds) \cup {AbsentLeaf}]
      /\ currentPrincipalKeyByAgentId \in [Agents -> Principals \cup {AbsentPrincipal}]
  BY DEF Ownership, TypeOK
<1>4. CASE ~removes
  <2>1. UNCHANGED <<leavesByPrincipal, currentPrincipalKeyByAgentId>>
    BY <1>4 DEF RemoveAdmittedLeaf
  <2> QED BY <2>1, <1>4 DEF Ownership, AgentIndexAgrees
<1>5. CASE removes
  <2>1. currentPrincipalKeyByAgentId[AgentOf[p]] = p
    BY <1>1, <1>5 DEF Ownership, AgentIndexAgrees
  <2>2. /\ leavesByPrincipal' = [leavesByPrincipal EXCEPT ![p] = AbsentLeaf]
        /\ currentPrincipalKeyByAgentId' =
             [currentPrincipalKeyByAgentId EXCEPT ![AgentOf[p]] = AbsentPrincipal]
    BY <1>5, <2>1 DEF RemoveAdmittedLeaf
  <2> HIDE DEF p
  <2>3. AgentIndexAgrees'
    BY <1>1, <1>2, <1>3, <2>1, <2>2, PrincipalAssumption
       DEF Ownership, AgentIndexAgrees, AbsentPrincipal
  <2>4. leavesByPrincipal'[p] = AbsentLeaf
    BY <1>1, <1>3, <2>2
  <2> QED BY <1>1, <1>2, <1>3, <2>2, <2>3, <2>4 DEF p
<1> QED BY <1>4, <1>5

Fresh(p, g) ==
  /\ currentPrincipalKeyByAgentId[AgentOf[p]] = AbsentPrincipal
  /\ tombstonesByGeneration[g] = AbsentTime
  /\ ~Present(accessFencingLeavesByGeneration[g])
  /\ ~Present(retiringLeavesByGeneration[g])
  /\ \A q \in Principals : ~AdmittedAt(q, g)

\* replaceLeaf keeps the ownership facts, for a new leaf of a fresh generation
\* and for an edit of a leaf that is not retiring, provided a leaf that becomes
\* able to serve has no unfenced predecessor.
LEMMA ReplaceLeafSafe ==
  ASSUME Ownership, TypeOK',
         NEW p \in Principals, NEW g \in LeafGenerations, NEW leaf \in LeafOfKind(AnyKinds),
         leaf.principal = p, leaf.leafGeneration = g, leaf.kind # "retiring",
         Fresh(p, g) \/ LiveLeaf(p, g).kind # "absent",
         leaf.kind \in {"current", "suspect"} =>
           \A h \in LeafGenerations :
             Present(accessFencingLeavesByGeneration[h]) =>
               AgentOf[accessFencingLeavesByGeneration[h].principal] # AgentOf[p],
         ReplaceLeaf(leaf), UNCHANGED tombstonesByGeneration
  PROVE  Ownership'
<1> DEFINE fencing == accessFencingLeavesByGeneration
           retiring == retiringLeavesByGeneration
           admitted == leavesByPrincipal
           index == currentPrincipalKeyByAgentId
           isFencing == leaf.kind \in AccessFencingKinds \/ Present(fencing[g])
<1>1. AgentOf[p] \in Agents
  BY PrincipalAssumption
<1>2. ~Present(AbsentLeaf) /\ Present(leaf)
  BY DEF Present, AbsentLeaf, LeafOfKind, AnyKinds, AdmissionKinds, AccessFencingKinds
<1>3. /\ admitted \in [Principals -> LeafOfKind(AdmissionKinds) \cup {AbsentLeaf}]
      /\ index \in [Agents -> Principals \cup {AbsentPrincipal}]
      /\ fencing \in [LeafGenerations -> LeafOfKind(AccessFencingKinds) \cup {AbsentLeaf}]
      /\ retiring \in [LeafGenerations -> LeafOfKind({"retiring"}) \cup {AbsentLeaf}]
  BY DEF Ownership, TypeOK
<1>4. ~Present(retiring[g])
  BY DEF ReplaceLeaf
<1>5. /\ tombstonesByGeneration[g] = AbsentTime
      /\ \/ Fresh(p, g)
         \/ Present(fencing[g]) /\ fencing[g].principal = p
         \/ AdmittedAt(p, g) /\ ~Present(fencing[g])
  BY <1>4, LiveLeafFound DEF Ownership, Fresh, AdmittedAt, Present, AccessFencingKinds,
                             AdmissionKinds
<1>6. CASE isFencing
  <2>1. /\ leaf.kind \in AccessFencingKinds
        /\ fencing' = [fencing EXCEPT ![g] = leaf]
        /\ RemoveAdmittedLeaf(leaf)
        /\ UNCHANGED retiring
    BY <1>4, <1>6 DEF ReplaceLeaf
  <2>2. /\ AgentIndexAgrees'
        /\ ~AdmittedAt(p, g)'
        /\ \A q \in Principals : admitted'[q] = admitted[q] \/ admitted'[q] = AbsentLeaf
    BY <2>1, RemoveAdmittedLeafSafe DEF AdmittedAt
  <2>3. \A q \in Principals, h \in LeafGenerations : AdmittedAt(q, h)' => AdmittedAt(q, h)
    BY <1>2, <2>2 DEF AdmittedAt
  <2>4. \A q \in Principals : ~AdmittedAt(q, g)'
    BY <1>5, <2>2, <2>3 DEF Ownership, OneDisposition, Fresh
  <2>5. OneDisposition'
    <3> SUFFICES ASSUME NEW h \in LeafGenerations
                 PROVE  /\ Present(fencing'[h]) => /\ fencing'[h].leafGeneration = h
                                                  /\ ~Present(retiring'[h])
                        /\ Present(retiring'[h]) => retiring'[h].leafGeneration = h
                        /\ tombstonesByGeneration'[h] # AbsentTime =>
                             ~Present(fencing'[h]) /\ ~Present(retiring'[h])
                        /\ \A q \in Principals :
                             AdmittedAt(q, h)' =>
                               /\ ~Present(fencing'[h]) /\ ~Present(retiring'[h])
                               /\ tombstonesByGeneration'[h] = AbsentTime
                               /\ \A r \in Principals : AdmittedAt(r, h)' => r = q
      BY DEF OneDisposition
    <3>1. CASE h = g
      BY <3>1, <1>3, <1>4, <1>5, <2>1, <2>4
    <3>2. CASE h # g
      BY <3>2, <1>3, <2>1, <2>3 DEF Ownership, OneDisposition
    <3> QED BY <3>1, <3>2
  <2>6. ASSUME NEW q \in Principals, NEW h \in LeafGenerations,
               admitted'[q].kind \in {"current", "suspect"}, Present(fencing'[h])
        PROVE  AgentOf[fencing'[h].principal] # AgentOf[q]
    <3>1. admitted'[q] = admitted[q] /\ Present(admitted[q])
      BY <2>2, <2>6 DEF AbsentLeaf, Present
    <3>2. CASE h # g
      BY <1>3, <2>1, <2>6, <3>1, <3>2 DEF Ownership, PredecessorAccessFenced
    <3>3. CASE h = g /\ Present(fencing[g]) /\ fencing[g].principal = p
      BY <1>3, <2>1, <2>6, <3>1, <3>3 DEF Ownership, PredecessorAccessFenced
    <3>4. CASE h = g /\ Fresh(p, g)
      BY <1>1, <1>3, <2>1, <3>1, <3>4, PrincipalAssumption
         DEF Ownership, AgentIndexAgrees, Fresh, AbsentPrincipal
    <3>5. CASE h = g /\ AdmittedAt(p, g)
      <4>1. index[AgentOf[p]] = p /\ index[AgentOf[q]] = q
        BY <3>1, <3>5 DEF Ownership, AgentIndexAgrees, AdmittedAt
      <4>2. q # p
        BY <2>2, <2>6, <3>1, <3>5 DEF AdmittedAt
      <4> QED BY <1>3, <2>1, <3>5, <4>1, <4>2
    <3> QED BY <1>5, <3>2, <3>3, <3>4, <3>5
  <2> QED BY <2>2, <2>5, <2>6 DEF Ownership, PredecessorAccessFenced
<1>7. CASE ~isFencing
  <2>1. /\ admitted' = [admitted EXCEPT ![p] = leaf]
        /\ index' = [index EXCEPT ![AgentOf[p]] = p]
        /\ UNCHANGED <<fencing, retiring>>
    BY <1>4, <1>7 DEF ReplaceLeaf
  <2>2. AdmittedAt(p, g) \/ Fresh(p, g)
    BY <1>5, <1>7
  <2>3. \A q \in Principals : q # p /\ Present(admitted[q]) => AgentOf[q] # AgentOf[p]
    BY <2>2, PrincipalAssumption
       DEF Ownership, AgentIndexAgrees, AdmittedAt, Fresh, AbsentPrincipal
  <2>4. /\ admitted'[p] = leaf
        /\ \A q \in Principals : q # p => admitted'[q] = admitted[q]
    BY <1>3, <2>1
  <2>5. AgentIndexAgrees'
    BY <1>1, <1>2, <1>3, <2>1, <2>3, <2>4, PrincipalAssumption
       DEF Ownership, AgentIndexAgrees
  <2>6. \A q \in Principals : AdmittedAt(q, g) => q = p
    BY <2>2 DEF Ownership, OneDisposition, Fresh
  <2>7. \A q \in Principals, h \in LeafGenerations :
          AdmittedAt(q, h)' => (q = p /\ h = g) \/ (h # g /\ AdmittedAt(q, h))
    BY <2>4, <2>6 DEF AdmittedAt
  <2>8. OneDisposition'
    BY <1>4, <1>5, <1>7, <2>1, <2>7 DEF Ownership, OneDisposition
  <2>9. PredecessorAccessFenced'
    BY <2>1, <2>4 DEF Ownership, PredecessorAccessFenced
  <2> QED BY <2>5, <2>8, <2>9 DEF Ownership
<1> QED BY <1>6, <1>7

\* An active-use command edits one use of a leaf that serves work, and at most
\* quarantines the leaf.
LEMMA UseCommandEdit ==
  ASSUME Ownership, NEW p \in Principals, NEW g \in LeafGenerations, NEW u \in UseIds,
         UseCommand(p, g, u)
  PROVE  /\ LiveLeaf(p, g).kind \in {"current", "suspect"}
         /\ UNCHANGED tombstonesByGeneration
         /\ \E new \in LeafOfKind(AnyKinds) :
              /\ new.principal = p /\ new.leafGeneration = g
              /\ new.kind \in {LiveLeaf(p, g).kind, "quarantined"}
              /\ ReplaceLeaf(new)
<1> DEFINE leaf == LiveLeaf(p, g)
           edit(k, x) ==
             [leaf EXCEPT !.kind = k, !.activeUses = [leaf.activeUses EXCEPT ![u] = x]]
<1>1. PICK k \in AnyKinds, x \in ActiveUse \cup {AbsentUse} :
        /\ leaf.kind \in {"current", "suspect"}
        /\ k \in {leaf.kind, "quarantined"}
        /\ ReplaceLeaf(edit(k, x))
        /\ UNCHANGED tombstonesByGeneration
  <2>1. leaf.kind \in {"current", "suspect"}
    BY DEF UseCommand, StartActiveUse, ResumeActiveUse, EndActiveUse, ExpireObservationGap
  <2>2. leaf \in LeafOfKind(AnyKinds)
    BY <2>1, LiveLeafFound DEF Ownership
  <2>3. leaf.activeUses \in ActiveUses /\ leaf.kind \in AnyKinds
    BY <2>2 DEF LeafOfKind
  <2>4. leaf.activeUses[u].kind # "absent" =>
          AmbiguousUse(leaf.activeUses[u], "observation-gap-expired") \in ActiveUse
    BY <2>3, EditedUses DEF AmbiguityReasons
  <2>5. \A x : [leaf EXCEPT !.activeUses = [leaf.activeUses EXCEPT ![u] = x]] = edit(leaf.kind, x)
    <3> HIDE DEF leaf
    <3> QED BY <2>2 DEF LeafOfKind
  <2>6. CASE ExpireObservationGap(p, g, u)
    <3>1. /\ ReplaceLeaf(edit("quarantined",
                             AmbiguousUse(leaf.activeUses[u], "observation-gap-expired")))
          /\ leaf.activeUses[u].kind # "absent"
          /\ UNCHANGED tombstonesByGeneration
      BY <2>6 DEF ExpireObservationGap, tombstoneMaps
    <3>2. "quarantined" \in AnyKinds
      BY DEF AnyKinds, AdmissionKinds
    <3> HIDE DEF leaf, edit
    <3> QED BY <2>1, <2>4, <3>1, <3>2
  <2>7. ASSUME NEW e \in ProcessEpochs, NEW s \in SessionAttachments,
               \/ StartActiveUse(p, g, u, e, s) \/ ResumeActiveUse(p, g, u, e, s)
               \/ EndActiveUse(p, g, u, e, s)
        PROVE \E x \in ActiveUse \cup {AbsentUse} :
                ReplaceLeaf(edit(leaf.kind, x)) /\ UNCHANGED tombstonesByGeneration
    <3>1. \E x \in {RunningUse(e, s), AbsentUse} :
            /\ ReplaceLeaf([leaf EXCEPT !.activeUses = [leaf.activeUses EXCEPT ![u] = x]])
            /\ UNCHANGED tombstonesByGeneration
      BY <2>7 DEF StartActiveUse, ResumeActiveUse, EndActiveUse, tombstoneMaps
    <3>2. RunningUse(e, s) \in ActiveUse
      BY <2>3, EditedUses
    <3> HIDE DEF leaf, edit
    <3> QED BY <2>5, <3>1, <3>2
  <2>8. CASE \E x \in ActiveUse \cup {AbsentUse} :
               ReplaceLeaf(edit(leaf.kind, x)) /\ UNCHANGED tombstonesByGeneration
    <3> HIDE DEF leaf, edit
    <3> QED BY <2>1, <2>3, <2>8
  <2> HIDE DEF leaf, edit
  <2> QED BY <2>6, <2>7, <2>8 DEF UseCommand
<1> DEFINE new == edit(k, x)
<1>2. leaf \in LeafOfKind(AnyKinds) /\ leaf.principal = p /\ leaf.leafGeneration = g
  BY <1>1, LiveLeafFound, LiveLeafIdentity DEF Ownership
<1>3. /\ new \in LeafOfKind(AnyKinds) /\ new.principal = p /\ new.leafGeneration = g
      /\ new.kind = k
  <2>1. [leaf.activeUses EXCEPT ![u] = x] \in ActiveUses
    BY <1>1, <1>2, EditedUses DEF LeafOfKind
  <2> HIDE DEF leaf
  <2> QED BY <1>2, <2>1 DEF LeafOfKind
<1>4. ReplaceLeaf(new)
  BY <1>1
<1> HIDE DEF new
<1> QED BY <1>1, <1>3, <1>4

\* A lost process or session changes no more of a leaf that serves work than its
\* kind, to quarantined, and what its uses say of being observed.
LEMMA LossEdit ==
  ASSUME TypeOK, NEW e \in ProcessEpochs,
         ProcessEpochLost(e) \/ \E s \in SessionAttachments : SessionDisconnected(e, s),
         NEW p \in Principals, leavesByPrincipal'[p] # leavesByPrincipal[p]
  PROVE  /\ leavesByPrincipal[p].kind \in {"current", "suspect"}
         /\ leavesByPrincipal'[p].kind \in {leavesByPrincipal[p].kind, "quarantined"}
         /\ leavesByPrincipal'[p].principal = leavesByPrincipal[p].principal
         /\ leavesByPrincipal'[p].leafGeneration = leavesByPrincipal[p].leafGeneration
         /\ \A u \in UseIds :
              /\ leavesByPrincipal'[p].activeUses[u].kind # "absent" =>
                   /\ leavesByPrincipal[p].activeUses[u].kind # "absent"
                   /\ leavesByPrincipal'[p].activeUses[u].processEpoch =
                        leavesByPrincipal[p].activeUses[u].processEpoch
              /\ leavesByPrincipal'[p].activeUses[u].kind \in LiveUseKinds =>
                   leavesByPrincipal[p].activeUses[u].kind \in LiveUseKinds
              /\ leavesByPrincipal'[p].activeUses[u].kind = "running" =>
                   leavesByPrincipal[p].activeUses[u].kind = "running"
<1> DEFINE leaf == leavesByPrincipal[p]
<1>1. /\ leaf.kind \in {"current", "suspect"}
      /\ \/ \E s : leavesByPrincipal'[p] =
               [leaf EXCEPT !.activeUses = UnobservedUses(leaf.activeUses, e, s, now)]
         \/ leavesByPrincipal'[p] =
               [leaf EXCEPT !.kind = "quarantined", !.activeUses = LostUses(leaf.activeUses, e)]
  BY DEF ProcessEpochLost, SessionDisconnected
<1>2. leaf \in LeafOfKind(AdmissionKinds)
  BY <1>1 DEF TypeOK, AbsentLeaf
<1>3. leaf.activeUses \in ActiveUses
  BY <1>2 DEF LeafOfKind
<1>4. \A u \in UseIds : leaf.activeUses[u].kind # "absent" => leaf.activeUses[u] \in ActiveUse
  BY <1>3 DEF ActiveUses, AbsentUse
<1>5. /\ leavesByPrincipal'[p].principal = leaf.principal
      /\ leavesByPrincipal'[p].leafGeneration = leaf.leafGeneration
      /\ leavesByPrincipal'[p].kind \in {leaf.kind, "quarantined"}
      /\ \/ \E s : leavesByPrincipal'[p].activeUses = UnobservedUses(leaf.activeUses, e, s, now)
         \/ leavesByPrincipal'[p].activeUses = LostUses(leaf.activeUses, e)
  <2> HIDE DEF leaf
  <2> QED BY <1>1, <1>2 DEF LeafOfKind
<1>6. ASSUME NEW u \in UseIds, NEW s, NEW uses \in
               {UnobservedUses(leaf.activeUses, e, s, now), LostUses(leaf.activeUses, e)}
      PROVE  /\ uses[u].kind = "running" => leaf.activeUses[u].kind = "running"
             /\ uses[u].kind # "absent" =>
                  /\ leaf.activeUses[u].kind # "absent"
                  /\ uses[u].processEpoch = leaf.activeUses[u].processEpoch
             /\ uses[u].kind \in LiveUseKinds => leaf.activeUses[u].kind \in LiveUseKinds
  <2> DEFINE use == leaf.activeUses[u]
  <2>1. \/ uses[u] = use
        \/ use.kind = "running" /\ uses[u] = GapUse(use, now)
        \/ use.kind \in LiveUseKinds /\ uses[u] = AmbiguousUse(use, "process-epoch-lost")
    BY <1>6 DEF UnobservedUses, LostUses, LostUse
  <2>2. use.kind # "absent" => use \in ActiveUse
    BY <1>4
  <2> HIDE DEF use
  <2>3. /\ use.kind = "running" => /\ GapUse(use, now).processEpoch = use.processEpoch
                                   /\ GapUse(use, now).kind = "observation-gap"
        /\ AmbiguousUse(use, "process-epoch-lost").processEpoch = use.processEpoch
        /\ AmbiguousUse(use, "process-epoch-lost").kind = "ambiguous"
    BY <2>2 DEF GapUse, AmbiguousUse, ActiveUse
  <2> QED BY <2>1, <2>3 DEF LiveUseKinds, use
<1> HIDE DEF leaf
<1> QED BY <1>1, <1>5, <1>6 DEF leaf

\* A step keeps the ownership facts.
LEMMA OwnershipStep == Ownership /\ [Next]_vars => Ownership'
<1> SUFFICES ASSUME Ownership, [Next]_vars PROVE Ownership'
  OBVIOUS
<1>typed. TypeOK'
  BY TypeStep DEF Ownership
<1>absent. ~Present(AbsentLeaf)
  BY DEF Present, AbsentLeaf
<1>maps. /\ leavesByPrincipal \in [Principals -> LeafOfKind(AdmissionKinds) \cup {AbsentLeaf}]
         /\ accessFencingLeavesByGeneration \in
              [LeafGenerations -> LeafOfKind(AccessFencingKinds) \cup {AbsentLeaf}]
         /\ retiringLeavesByGeneration \in
              [LeafGenerations -> LeafOfKind({"retiring"}) \cup {AbsentLeaf}]
         /\ tombstonesByGeneration \in [LeafGenerations -> Nat \cup {AbsentTime}]
         /\ now \in Nat
  BY DEF Ownership, TypeOK
<1>same. ASSUME UNCHANGED leafMaps,
                \A g \in LeafGenerations : tombstonesByGeneration'[g] # AbsentTime =>
                                              tombstonesByGeneration[g] # AbsentTime
         PROVE  Ownership'
  BY <1>typed, <1>same
     DEF Ownership, AgentIndexAgrees, OneDisposition, PredecessorAccessFenced, AdmittedAt, leafMaps
<1>1. CASE UNCHANGED vars
  BY <1>1, <1>same DEF vars, tombstoneMaps
<1>2. CASE RegisterParent \/ SealParent \/ RetireParent \/ Tick
  BY <1>2, <1>same DEF RegisterParent, SealParent, RetireParent, Tick, tombstoneMaps
<1>3. CASE PruneTombstones
  BY <1>3, <1>same, <1>maps DEF PruneTombstones
<1>4. ASSUME NEW p \in Principals, NEW g \in LeafGenerations, LeafCommand(p, g)
      PROVE Ownership'
  <2> DEFINE leaf == LiveLeaf(p, g)
             edited(k) == [leaf EXCEPT !.kind = k]
  <2>1. leaf.kind # "absent" => /\ leaf \in LeafOfKind(AnyKinds)
                                /\ leaf.principal = p
                                /\ leaf.leafGeneration = g
    BY LiveLeafFound, LiveLeafIdentity DEF Ownership
  <2>2. ASSUME NEW k \in AnyKinds, leaf.kind # "absent"
        PROVE  /\ edited(k) \in LeafOfKind(AnyKinds)
               /\ edited(k).principal = p
               /\ edited(k).leafGeneration = g
               /\ edited(k).kind = k
    <3> HIDE DEF leaf
    <3> QED BY <2>1, <2>2 DEF LeafOfKind
  <2>3. CASE BeginProvisioning(p, g)
    <3> DEFINE new == [kind |-> "provisioning", leafGeneration |-> g, principal |-> p,
                       idleExpiresAt |-> now + IdleTtl, activeUses |-> NoActiveUses]
    <3>1. new \in LeafOfKind(AnyKinds)
      BY <1>maps, RetentionAssumption
         DEF LeafOfKind, AnyKinds, AdmissionKinds, NoActiveUses, ActiveUses
    <3>2. Fresh(p, g) /\ ReplaceLeaf(new) /\ UNCHANGED tombstonesByGeneration
      BY <2>3 DEF BeginProvisioning, Fresh, AdmittedAt, tombstoneMaps
    <3>3. /\ new.principal = p /\ new.leafGeneration = g
          /\ new.kind \notin {"retiring", "current", "suspect"}
      OBVIOUS
    <3> HIDE DEF new
    <3> QED BY <1>typed, <3>1, <3>2, <3>3, ReplaceLeafSafe
  <2>4. CASE CommitCurrent(p, g)
    <3>1. /\ leaf.kind # "absent"
          /\ ReplaceLeaf(edited("current"))
          /\ UNCHANGED tombstonesByGeneration
          /\ \A h \in LeafGenerations :
               Present(accessFencingLeavesByGeneration[h]) =>
                 AgentOf[accessFencingLeavesByGeneration[h].principal] # AgentOf[p]
      BY <2>4 DEF CommitCurrent, tombstoneMaps
    <3>2. "current" \in AnyKinds
      BY DEF AnyKinds, AdmissionKinds
    <3> QED BY <1>typed, <2>2, <3>1, <3>2, ReplaceLeafSafe
  <2>5. CASE RenewIdleExpiry(p, g) \/ MarkSuspect(p, g) \/ RestoreCurrent(p, g)
    <3>1. PICK new : /\ leaf.kind \in {"current", "suspect"}
                     /\ ReplaceLeaf(new)
                     /\ UNCHANGED tombstonesByGeneration
                     /\ \/ new = edited("current") \/ new = edited("suspect")
                        \/ new = [leaf EXCEPT !.idleExpiresAt = now + IdleTtl]
      BY <2>5 DEF RenewIdleExpiry, MarkSuspect, RestoreCurrent, tombstoneMaps
    <3>2. leaf = leavesByPrincipal[p]
      BY <3>1, LiveLeafFound DEF Ownership, AccessFencingKinds
    <3>3. \A h \in LeafGenerations :
            Present(accessFencingLeavesByGeneration[h]) =>
              AgentOf[accessFencingLeavesByGeneration[h].principal] # AgentOf[p]
      BY <3>1, <3>2 DEF Ownership, PredecessorAccessFenced
    <3>4. /\ new \in LeafOfKind(AnyKinds) /\ new.principal = p /\ new.leafGeneration = g
          /\ new.kind # "retiring"
      <4>1. {"current", "suspect"} \subseteq AnyKinds /\ now + IdleTtl \in Nat
        BY <1>maps, RetentionAssumption DEF AnyKinds, AdmissionKinds
      <4> HIDE DEF leaf
      <4> QED BY <2>1, <3>1, <4>1 DEF LeafOfKind
    <3> QED BY <1>typed, <3>1, <3>3, <3>4, ReplaceLeafSafe
  <2>6. CASE Quarantine(p, g) \/ DestructionIncomplete(p, g) \/ RetryDestruction(p, g)
    <3>1. PICK k \in {"quarantined", "owner-unsafe", "destroying"} :
            /\ leaf.kind # "absent"
            /\ ReplaceLeaf(edited(k))
            /\ UNCHANGED tombstonesByGeneration
      BY <2>6 DEF Quarantine, DestructionIncomplete, RetryDestruction, tombstoneMaps,
                  AdmissionKinds
    <3>2. k \in AnyKinds
      BY DEF AnyKinds, AdmissionKinds, AccessFencingKinds
    <3> QED BY <1>typed, <2>2, <3>1, <3>2, ReplaceLeafSafe
  <2>7. CASE BeginDestruction(p, g)
    <3> DEFINE new == [leaf EXCEPT !.kind = "destroying",
                                   !.activeUses = RolloverUses(leaf.activeUses)]
    <3>1. leaf.kind # "absent" /\ ReplaceLeaf(new) /\ UNCHANGED tombstonesByGeneration
      BY <2>7 DEF BeginDestruction, tombstoneMaps
    <3>2. RolloverUses(leaf.activeUses) \in ActiveUses
      <4>1. CASE UseIds = {}
        BY <4>1 DEF RolloverUses, ActiveUses
      <4>2. CASE UseIds # {}
        <5>1. leaf.activeUses \in ActiveUses
          BY <2>1, <3>1 DEF LeafOfKind
        <5> QED BY <4>2, <5>1, EditedUses
      <4> QED BY <4>1, <4>2
    <3>3. /\ new \in LeafOfKind(AnyKinds) /\ new.principal = p /\ new.leafGeneration = g
          /\ new.kind = "destroying"
      <4> HIDE DEF leaf
      <4> QED BY <2>1, <3>1, <3>2 DEF LeafOfKind, AnyKinds, AccessFencingKinds
    <3> HIDE DEF new
    <3> QED BY <1>typed, <3>1, <3>3, ReplaceLeafSafe
  <2>8. ASSUME leaf.kind # "absent", RemoveAdmittedLeaf(leaf),
               accessFencingLeavesByGeneration' =
                 [accessFencingLeavesByGeneration EXCEPT ![g] = AbsentLeaf],
               NEW new \in LeafOfKind({"retiring"}) \cup {AbsentLeaf},
               Present(new) => new.leafGeneration = g,
               retiringLeavesByGeneration' = [retiringLeavesByGeneration EXCEPT ![g] = new],
               \A h \in LeafGenerations :
                 h # g => tombstonesByGeneration'[h] = tombstonesByGeneration[h],
               tombstonesByGeneration'[g] # AbsentTime => ~Present(new)
        PROVE  Ownership'
    <3>1. /\ AgentIndexAgrees'
          /\ ~AdmittedAt(p, g)'
          /\ \A q \in Principals : \/ leavesByPrincipal'[q] = leavesByPrincipal[q]
                                   \/ leavesByPrincipal'[q] = AbsentLeaf
      BY <2>1, <2>8, RemoveAdmittedLeafSafe DEF AdmittedAt
    <3>2. \A q \in Principals, h \in LeafGenerations : AdmittedAt(q, h)' => AdmittedAt(q, h)
      BY <1>absent, <3>1 DEF AdmittedAt
    <3>3. \A q \in Principals : ~AdmittedAt(q, g)'
      BY <2>8, <3>1, <3>2, LiveLeafFound DEF Ownership, OneDisposition, AdmittedAt, Present,
         AdmissionKinds, AccessFencingKinds
    <3>4. OneDisposition'
      BY <1>absent, <1>maps, <2>8, <3>2, <3>3 DEF Ownership, OneDisposition
    <3>5. PredecessorAccessFenced'
      BY <1>absent, <1>maps, <2>8, <3>1
         DEF Ownership, PredecessorAccessFenced, Present, AbsentLeaf
    <3> QED BY <1>typed, <3>1, <3>4, <3>5 DEF Ownership
  <2>9. CASE AccessFenced(p, g)
    <3>1. /\ leaf.kind # "absent"
          /\ edited("retiring") \in LeafOfKind({"retiring"})
          /\ edited("retiring").leafGeneration = g
      <4>1. leaf.kind # "absent"
        BY <2>9 DEF AccessFenced
      <4> HIDE DEF leaf
      <4> QED BY <2>1, <4>1 DEF LeafOfKind
    <3>2. tombstonesByGeneration[g] = AbsentTime
      BY <3>1, LiveLeafFound DEF Ownership
    <3> QED BY <2>8, <2>9, <3>1, <3>2 DEF AccessFenced, tombstoneMaps
  <2>10. ASSUME NEW t \in 0..now, DestructionCompleted(p, g, t) PROVE Ownership'
    <3>1. leaf.kind # "absent"
      BY <2>10 DEF DestructionCompleted
    <3> QED BY <1>absent, <1>maps, <2>8, <2>10, <3>1 DEF DestructionCompleted
  <2> QED BY <1>4, <2>3, <2>4, <2>5, <2>6, <2>7, <2>9, <2>10 DEF LeafCommand
<1>5. ASSUME NEW p \in Principals, NEW g \in LeafGenerations, NEW u \in UseIds,
             UseCommand(p, g, u)
      PROVE Ownership'
  <2> DEFINE leaf == LiveLeaf(p, g)
  <2>1. PICK new \in LeafOfKind(AnyKinds) :
          /\ new.principal = p /\ new.leafGeneration = g
          /\ new.kind \in {leaf.kind, "quarantined"}
          /\ ReplaceLeaf(new)
    BY <1>5, UseCommandEdit
  <2>2. leaf.kind \in {"current", "suspect"} /\ UNCHANGED tombstonesByGeneration
    BY <1>5, UseCommandEdit
  <2>3. leaf = leavesByPrincipal[p]
    BY <2>2, LiveLeafFound DEF Ownership, AccessFencingKinds
  <2>4. \A h \in LeafGenerations :
          Present(accessFencingLeavesByGeneration[h]) =>
            AgentOf[accessFencingLeavesByGeneration[h].principal] # AgentOf[p]
    BY <2>2, <2>3 DEF Ownership, PredecessorAccessFenced
  <2>5. LiveLeaf(p, g).kind # "absent" /\ new.kind # "retiring"
    BY <2>1, <2>2
  <2> HIDE DEF leaf
  <2> QED BY <1>typed, <2>1, <2>2, <2>4, <2>5, ReplaceLeafSafe
<1>6. ASSUME NEW e \in ProcessEpochs,
             \/ ProcessEpochLost(e)
             \/ \E s \in SessionAttachments : SessionDisconnected(e, s)
      PROVE Ownership'
  <2>1. /\ UNCHANGED <<currentPrincipalKeyByAgentId, accessFencingLeavesByGeneration,
                       retiringLeavesByGeneration, tombstonesByGeneration>>
    BY <1>6 DEF ProcessEpochLost, SessionDisconnected, tombstoneMaps
  <2>2. \A p \in Principals :
          /\ Present(leavesByPrincipal'[p]) <=> Present(leavesByPrincipal[p])
          /\ Present(leavesByPrincipal[p]) =>
               /\ leavesByPrincipal'[p].principal = leavesByPrincipal[p].principal
               /\ leavesByPrincipal'[p].leafGeneration = leavesByPrincipal[p].leafGeneration
          /\ leavesByPrincipal'[p].kind \in {"current", "suspect"} =>
               leavesByPrincipal[p].kind \in {"current", "suspect"}
    BY <1>6, LossEdit DEF Ownership, Present
  <2>3. AgentIndexAgrees'
    BY <2>1, <2>2 DEF Ownership, AgentIndexAgrees, TypeOK
  <2>4. OneDisposition'
    BY <2>1, <2>2 DEF Ownership, OneDisposition, AdmittedAt
  <2>5. PredecessorAccessFenced'
    BY <2>1, <2>2 DEF Ownership, PredecessorAccessFenced
  <2> QED BY <1>typed, <2>3, <2>4, <2>5 DEF Ownership
<1> QED BY <1>1, <1>2, <1>3, <1>4, <1>5, <1>6 DEF Next

\* In every reachable state the agent index and the principal map agree, every
\* generation has one disposition, and no leaf serves work while a predecessor
\* of its agent is still unfenced.
THEOREM OwnershipCorrect == Spec => []Ownership
<1>1. Init => Ownership
  <2>1. Init => TypeOK
    BY DEF Init, TypeOK
  <2>2. ~Present(AbsentLeaf) /\ AbsentLeaf.kind = "absent"
    BY DEF Present, AbsentLeaf
  <2> QED BY <2>1, <2>2 DEF Init, Ownership, AgentIndexAgrees, OneDisposition,
                            PredecessorAccessFenced, AdmittedAt
<1> QED BY <1>1, OwnershipStep, PTL DEF Spec

\* The agent index and the principal map agree: an agent has at most one
\* admitted leaf, whatever profile revisions its principals carry.
THEOREM AgentIndexCorrect == Spec => []AgentIndexAgrees
<1>1. Ownership => AgentIndexAgrees
  BY DEF Ownership
<1> QED BY <1>1, OwnershipCorrect, PTL

\* A generation is in one of the maps of the authority at most.
THEOREM DispositionCorrect == Spec => []OneDisposition
<1>1. Ownership => OneDisposition
  BY DEF Ownership
<1> QED BY <1>1, OwnershipCorrect, PTL

\* A current or suspect leaf never coexists with a predecessor of its agent whose
\* access is not fenced: commit-current is the only command that gives access, and
\* begin-destruction takes it from the agent's one admitted leaf.  A successor that
\* is still being provisioned may stand beside an unfenced predecessor, by design.
THEOREM RolloverCorrect == Spec => []PredecessorAccessFenced
<1>1. Ownership => PredecessorAccessFenced
  BY DEF Ownership
<1> QED BY <1>1, OwnershipCorrect, PTL

-----------------------------------------------------------------------------
(* The work of the leaves.                                                 *)

OneProcess(uses) ==
  \A u, v \in UseIds :
    uses[u].kind # "absent" /\ uses[v].kind # "absent" => uses[u].processEpoch = uses[v].processEpoch

NoLiveUse(uses) == \A u \in UseIds : uses[u].kind \notin LiveUseKinds

\* A Tool VM that is not committed has no work, so that its commit brings none back.
ProvisioningIsUnused ==
  \A p \in Principals : leavesByPrincipal[p].kind = "provisioning" =>
    \A u \in UseIds : leavesByPrincipal[p].activeUses[u].kind = "absent"

\* The inductive invariant: what the leaves hold, beside who owns them.
WorkInv == Ownership /\ WorkIsAttributable /\ ProvisioningIsUnused

\* The uses of the leaves in the three maps, in one place.
LEMMA WorkFacts ==
  /\ OneProcessPerLeaf <=>
       /\ \A p \in Principals :
            Present(leavesByPrincipal[p]) => OneProcess(leavesByPrincipal[p].activeUses)
       /\ \A g \in LeafGenerations :
            /\ Present(accessFencingLeavesByGeneration[g]) =>
                 OneProcess(accessFencingLeavesByGeneration[g].activeUses)
            /\ Present(retiringLeavesByGeneration[g]) =>
                 OneProcess(retiringLeavesByGeneration[g].activeUses)
  /\ FencedWorkIsAmbiguous <=>
       \A g \in LeafGenerations :
         /\ Present(accessFencingLeavesByGeneration[g]) =>
              NoLiveUse(accessFencingLeavesByGeneration[g].activeUses)
         /\ Present(retiringLeavesByGeneration[g]) =>
              NoLiveUse(retiringLeavesByGeneration[g].activeUses)
<1>1. OneProcessPerLeaf <=>
       /\ \A p \in Principals :
            Present(leavesByPrincipal[p]) => OneProcess(leavesByPrincipal[p].activeUses)
       /\ \A g \in LeafGenerations :
            /\ Present(accessFencingLeavesByGeneration[g]) =>
                 OneProcess(accessFencingLeavesByGeneration[g].activeUses)
            /\ Present(retiringLeavesByGeneration[g]) =>
                 OneProcess(retiringLeavesByGeneration[g].activeUses)
  BY Zenon DEF OneProcessPerLeaf, OneProcess
<1>2. FencedWorkIsAmbiguous <=>
       \A g \in LeafGenerations :
         /\ Present(accessFencingLeavesByGeneration[g]) =>
              NoLiveUse(accessFencingLeavesByGeneration[g].activeUses)
         /\ Present(retiringLeavesByGeneration[g]) =>
              NoLiveUse(retiringLeavesByGeneration[g].activeUses)
  BY Zenon DEF FencedWorkIsAmbiguous, NoLiveUse
<1> QED BY <1>1, <1>2

\* Only the leaf of the generation leaves the principal map.
LEMMA RemovedIsOfTheGeneration ==
  ASSUME TypeOK, NEW leaf, leaf.principal \in Principals, RemoveAdmittedLeaf(leaf)
  PROVE  \A q \in Principals :
           \/ leavesByPrincipal'[q] = leavesByPrincipal[q]
           \/ leavesByPrincipal'[q] = AbsentLeaf /\ AdmittedAt(q, leaf.leafGeneration)
BY DEF TypeOK, RemoveAdmittedLeaf, AdmittedAt

\* What replaceLeaf does with a leaf it was given by requireLiveLeaf: an admitted
\* leaf is edited in place, or a leaf that was admitted or fencing is fencing now.
LEMMA ReplaceLeafEffect ==
  ASSUME Ownership, NEW p \in Principals, NEW g \in LeafGenerations, NEW new \in LeafOfKind(AnyKinds),
         new.principal = p, new.leafGeneration = g, new.kind # "retiring",
         LiveLeaf(p, g).kind # "absent", ReplaceLeaf(new)
  PROVE  /\ UNCHANGED retiringLeavesByGeneration
         /\ \/ /\ new.kind \in AdmissionKinds /\ LiveLeaf(p, g) = leavesByPrincipal[p]
               /\ LiveLeaf(p, g).kind \in AdmissionKinds
               /\ leavesByPrincipal' = [leavesByPrincipal EXCEPT ![p] = new]
               /\ UNCHANGED accessFencingLeavesByGeneration
            \/ /\ new.kind \in AccessFencingKinds
               /\ LiveLeaf(p, g) \in {leavesByPrincipal[p], accessFencingLeavesByGeneration[g]}
               /\ accessFencingLeavesByGeneration' = [accessFencingLeavesByGeneration EXCEPT ![g] = new]
               /\ \A q \in Principals : \/ leavesByPrincipal'[q] = leavesByPrincipal[q]
                                        \/ leavesByPrincipal'[q] = AbsentLeaf /\ AdmittedAt(q, g)
<1> DEFINE old == LiveLeaf(p, g)
<1>1. TypeOK
  BY DEF Ownership
<1>2. ~(new.kind = "retiring" \/ Present(retiringLeavesByGeneration[g]))
  BY DEF ReplaceLeaf
<1>3. \/ old = accessFencingLeavesByGeneration[g] /\ old.kind \in AccessFencingKinds
      \/ /\ old = leavesByPrincipal[p] /\ old.kind \in AdmissionKinds
         /\ ~Present(accessFencingLeavesByGeneration[g])
  BY <1>1, <1>2, LiveLeafFound DEF Present
<1>4. CASE new.kind \in AccessFencingKinds \/ Present(accessFencingLeavesByGeneration[g])
  <2>1. /\ new.kind \in AccessFencingKinds /\ RemoveAdmittedLeaf(new)
        /\ accessFencingLeavesByGeneration' = [accessFencingLeavesByGeneration EXCEPT ![g] = new]
        /\ UNCHANGED retiringLeavesByGeneration
    BY <1>2, <1>4 DEF ReplaceLeaf
  <2>2. \A q \in Principals : \/ leavesByPrincipal'[q] = leavesByPrincipal[q]
                              \/ leavesByPrincipal'[q] = AbsentLeaf /\ AdmittedAt(q, g)
    BY <1>1, <2>1, RemovedIsOfTheGeneration
  <2> QED BY <1>3, <2>1, <2>2
<1>5. CASE ~(new.kind \in AccessFencingKinds \/ Present(accessFencingLeavesByGeneration[g]))
  <2>1. /\ leavesByPrincipal' = [leavesByPrincipal EXCEPT ![p] = new]
        /\ UNCHANGED <<accessFencingLeavesByGeneration, retiringLeavesByGeneration>>
    BY <1>2, <1>5 DEF ReplaceLeaf
  <2>2. new.kind \in AdmissionKinds
    BY <1>2, <1>5 DEF LeafOfKind, AnyKinds
  <2>3. old = leavesByPrincipal[p] /\ old.kind \in AdmissionKinds
    BY <1>3, <1>5 DEF Present, AccessFencingKinds
  <2> QED BY <2>1, <2>2, <2>3
<1> QED BY <1>4, <1>5

\* Evidence of terminal or undecided work stays apart from the work that is live:
\* no live work is new, and what the evidence gains is of agents without any.
LEMMA EvidenceStays ==
  ASSUME NoResurrectedWork,
         \A q \in Principals, u \in UseIds :
           /\ leavesByPrincipal'[q].kind \in {"current", "suspect"}
           /\ leavesByPrincipal'[q].activeUses[u].kind \in LiveUseKinds
           => /\ leavesByPrincipal[q].kind \in {"current", "suspect"}
              /\ leavesByPrincipal[q].activeUses[u].kind \in LiveUseKinds
              /\ terminalUseTombstones'[<<AgentOf[q], u>>] \in
                   {terminalUseTombstones[<<AgentOf[q], u>>], AbsentTime}
              /\ \A h \in LeafGenerations :
                   /\ Present(retiringLeavesByGeneration'[h])
                   /\ AgentOf[retiringLeavesByGeneration'[h].principal] = AgentOf[q]
                   => retiringLeavesByGeneration'[h] = retiringLeavesByGeneration[h]
  PROVE  NoResurrectedWork'
<1> SUFFICES ASSUME NEW q \in Principals, NEW u \in UseIds,
                    leavesByPrincipal'[q].kind \in {"current", "suspect"},
                    leavesByPrincipal'[q].activeUses[u].kind \in LiveUseKinds
             PROVE  /\ terminalUseTombstones'[<<AgentOf[q], u>>] = AbsentTime
                    /\ ~RetainedByRetiringPredecessor(AgentOf[q], u)'
  BY DEF NoResurrectedWork
<1>1. /\ terminalUseTombstones[<<AgentOf[q], u>>] = AbsentTime
      /\ ~RetainedByRetiringPredecessor(AgentOf[q], u)
  BY DEF NoResurrectedWork
<1>2. terminalUseTombstones'[<<AgentOf[q], u>>] = AbsentTime
  BY <1>1
<1>3. ASSUME RetainedByRetiringPredecessor(AgentOf[q], u)' PROVE FALSE
  <2>1. PICK h \in LeafGenerations :
          /\ Present(retiringLeavesByGeneration'[h])
          /\ AgentOf[retiringLeavesByGeneration'[h].principal] = AgentOf[q]
          /\ retiringLeavesByGeneration'[h].activeUses[u].kind = "ambiguous"
          /\ retiringLeavesByGeneration'[h].activeUses[u].reason = "leaf-rollover"
    BY <1>3 DEF RetainedByRetiringPredecessor, Present
  <2>2. retiringLeavesByGeneration'[h] = retiringLeavesByGeneration[h]
    BY <2>1
  <2> QED BY <1>1, <2>1, <2>2 DEF RetainedByRetiringPredecessor
<1> QED BY <1>2, <1>3

\* The leaf of one principal is admitted or edited in place.
LEMMA AdmittedWork ==
  ASSUME WorkInv, Ownership', NEW p \in Principals, NEW new \in LeafOfKind(AdmissionKinds),
         leavesByPrincipal' = [leavesByPrincipal EXCEPT ![p] = new],
         UNCHANGED <<parent, accessFencingLeavesByGeneration, retiringLeavesByGeneration>>,
         parent # "retired", OneProcess(new.activeUses),
         new.kind = "provisioning" => \A u \in UseIds : new.activeUses[u].kind = "absent",
         \A u \in UseIds :
           new.kind \in {"current", "suspect"} /\ new.activeUses[u].kind \in LiveUseKinds =>
             /\ terminalUseTombstones'[<<AgentOf[p], u>>] = AbsentTime
             /\ ~RetainedByRetiringPredecessor(AgentOf[p], u),
         \A q \in Principals, u \in UseIds :
           AgentOf[q] # AgentOf[p] =>
             terminalUseTombstones'[<<AgentOf[q], u>>] = terminalUseTombstones[<<AgentOf[q], u>>]
  PROVE  WorkInv'
<1>1. /\ Ownership /\ FencedWorkIsAmbiguous /\ OneProcessPerLeaf /\ NoResurrectedWork
      /\ ProvisioningIsUnused
  BY DEF WorkInv, WorkIsAttributable
<1>2. leavesByPrincipal'[p] = new /\ \A q \in Principals : q # p => leavesByPrincipal'[q] = leavesByPrincipal[q]
  BY <1>1 DEF Ownership, TypeOK
<1>3. FencedWorkIsAmbiguous'
  BY <1>1 DEF FencedWorkIsAmbiguous
<1>4. OneProcessPerLeaf'
  <2>1. \A q \in Principals : Present(leavesByPrincipal'[q]) => OneProcess(leavesByPrincipal'[q].activeUses)
    BY <1>1, <1>2, WorkFacts
  <2> QED BY <1>1, <2>1, WorkFacts DEF OneProcessPerLeaf, OneProcess
<1>5. NoResurrectedWork'
  <2> SUFFICES ASSUME NEW q \in Principals, NEW u \in UseIds,
                      leavesByPrincipal'[q].kind \in {"current", "suspect"},
                      leavesByPrincipal'[q].activeUses[u].kind \in LiveUseKinds
               PROVE  /\ terminalUseTombstones'[<<AgentOf[q], u>>] = AbsentTime
                      /\ ~RetainedByRetiringPredecessor(AgentOf[q], u)
    BY DEF NoResurrectedWork, RetainedByRetiringPredecessor
  <2>1. CASE q = p
    BY <1>2, <2>1
  <2>2. CASE q # p
    <3>1. /\ terminalUseTombstones[<<AgentOf[q], u>>] = AbsentTime
          /\ ~RetainedByRetiringPredecessor(AgentOf[q], u)
      BY <1>1, <1>2, <2>2 DEF NoResurrectedWork
    <3>2. Present(leavesByPrincipal'[q]) /\ Present(leavesByPrincipal'[p])
      BY <1>2 DEF Present, LeafOfKind, AdmissionKinds
    <3>3. AgentOf[q] # AgentOf[p]
      BY <2>2, <3>2 DEF Ownership, AgentIndexAgrees, Present
    <3> QED BY <3>1, <3>3
  <2> QED BY <2>1, <2>2
<1>6. RetiredParentOwnsNothing'
  BY DEF RetiredParentOwnsNothing
<1>7. ProvisioningIsUnused'
  BY <1>1, <1>2 DEF ProvisioningIsUnused
<1> QED BY <1>3, <1>4, <1>5, <1>6, <1>7 DEF WorkInv, WorkIsAttributable

\* Leaves leave the principal map, and the fencing and retiring maps hold work that
\* is no longer live: a fence, its proof, and the end of a destruction.
LEMMA FencedWork ==
  ASSUME WorkInv, Ownership', UNCHANGED parent, parent # "retired",
         \A q \in Principals : leavesByPrincipal'[q] \in {leavesByPrincipal[q], AbsentLeaf},
         \A h \in LeafGenerations :
           /\ Present(accessFencingLeavesByGeneration'[h]) =>
                \/ accessFencingLeavesByGeneration'[h] = accessFencingLeavesByGeneration[h]
                \/ /\ OneProcess(accessFencingLeavesByGeneration'[h].activeUses)
                   /\ NoLiveUse(accessFencingLeavesByGeneration'[h].activeUses)
           /\ Present(retiringLeavesByGeneration'[h]) =>
                \/ retiringLeavesByGeneration'[h] = retiringLeavesByGeneration[h]
                \/ /\ OneProcess(retiringLeavesByGeneration'[h].activeUses)
                   /\ NoLiveUse(retiringLeavesByGeneration'[h].activeUses)
                   /\ \A q \in Principals :
                        leavesByPrincipal[q].kind \in {"current", "suspect"} =>
                          AgentOf[q] # AgentOf[retiringLeavesByGeneration'[h].principal],
         \A q \in Principals, u \in UseIds :
           /\ leavesByPrincipal[q].kind \in {"current", "suspect"}
           /\ leavesByPrincipal[q].activeUses[u].kind \in LiveUseKinds
           => terminalUseTombstones'[<<AgentOf[q], u>>] \in
                {terminalUseTombstones[<<AgentOf[q], u>>], AbsentTime}
  PROVE  WorkInv'
<1>1. /\ Ownership /\ FencedWorkIsAmbiguous /\ OneProcessPerLeaf /\ NoResurrectedWork
      /\ ProvisioningIsUnused
  BY DEF WorkInv, WorkIsAttributable
<1>2. AbsentLeaf.kind = "absent"
  BY DEF AbsentLeaf
<1>3. FencedWorkIsAmbiguous'
  <2>1. \A h \in LeafGenerations :
          /\ Present(accessFencingLeavesByGeneration'[h]) =>
               NoLiveUse(accessFencingLeavesByGeneration'[h].activeUses)
          /\ Present(retiringLeavesByGeneration'[h]) =>
               NoLiveUse(retiringLeavesByGeneration'[h].activeUses)
    BY <1>1, WorkFacts
  <2> QED BY <2>1 DEF FencedWorkIsAmbiguous, NoLiveUse, Present
<1>4. OneProcessPerLeaf'
  <2>1. \A h \in LeafGenerations :
          /\ Present(accessFencingLeavesByGeneration'[h]) =>
               OneProcess(accessFencingLeavesByGeneration'[h].activeUses)
          /\ Present(retiringLeavesByGeneration'[h]) =>
               OneProcess(retiringLeavesByGeneration'[h].activeUses)
    BY <1>1, WorkFacts
  <2>2. \A q \in Principals : Present(leavesByPrincipal'[q]) => OneProcess(leavesByPrincipal'[q].activeUses)
    BY <1>1, <1>2, WorkFacts DEF Present
  <2> QED BY <2>1, <2>2 DEF OneProcessPerLeaf, OneProcess, Present
<1>5. NoResurrectedWork'
  BY <1>1, <1>2, EvidenceStays DEF Present
<1>6. RetiredParentOwnsNothing'
  BY DEF RetiredParentOwnsNothing
<1>7. ProvisioningIsUnused'
  BY <1>1, <1>2 DEF ProvisioningIsUnused
<1> QED BY <1>3, <1>4, <1>5, <1>6, <1>7 DEF WorkInv, WorkIsAttributable

\* What is known of a leaf that requireLiveLeaf finds.
LEMMA LiveLeafWork ==
  ASSUME WorkInv, NEW p \in Principals, NEW g \in LeafGenerations, LiveLeaf(p, g).kind # "absent"
  PROVE  /\ parent # "retired" /\ LiveLeaf(p, g) \in LeafOfKind(AnyKinds)
         /\ LiveLeaf(p, g).principal = p /\ LiveLeaf(p, g).leafGeneration = g
         /\ LiveLeaf(p, g).activeUses \in ActiveUses
         /\ OneProcess(LiveLeaf(p, g).activeUses)
         /\ LiveLeaf(p, g).kind \notin AdmissionKinds => NoLiveUse(LiveLeaf(p, g).activeUses)
         /\ LiveLeaf(p, g).kind \in AdmissionKinds => LiveLeaf(p, g) = leavesByPrincipal[p]
         /\ LiveLeaf(p, g).kind \in AccessFencingKinds =>
              /\ LiveLeaf(p, g) = accessFencingLeavesByGeneration[g]
              /\ Present(accessFencingLeavesByGeneration[g])
         /\ LiveLeaf(p, g).kind = "retiring" => LiveLeaf(p, g) = retiringLeavesByGeneration[g]
<1> DEFINE leaf == LiveLeaf(p, g)
<1>1. /\ Ownership /\ FencedWorkIsAmbiguous /\ OneProcessPerLeaf /\ TypeOK /\ RetiredParentOwnsNothing
  BY DEF WorkInv, WorkIsAttributable, Ownership
<1>2. leaf \in LeafOfKind(AnyKinds) /\ leaf.principal = p /\ leaf.leafGeneration = g
  BY <1>1, LiveLeafFound, LiveLeafIdentity
<1>3. leaf.activeUses \in ActiveUses
  BY <1>2 DEF LeafOfKind
<1>4. \/ /\ leaf = accessFencingLeavesByGeneration[g] /\ leaf.kind \in AccessFencingKinds
         /\ Present(accessFencingLeavesByGeneration[g])
      \/ leaf = retiringLeavesByGeneration[g] /\ leaf.kind = "retiring" /\ Present(retiringLeavesByGeneration[g])
      \/ leaf = leavesByPrincipal[p] /\ leaf.kind \in AdmissionKinds /\ Present(leavesByPrincipal[p])
  BY <1>1, LiveLeafFound DEF Present
<1>5. parent # "retired" /\ OneProcess(leaf.activeUses)
  BY <1>1, <1>4, WorkFacts DEF RetiredParentOwnsNothing
<1>6. leaf.kind \notin AdmissionKinds => NoLiveUse(leaf.activeUses)
  BY <1>1, <1>4, WorkFacts
<1> QED BY <1>2, <1>3, <1>4, <1>5, <1>6 DEF AdmissionKinds, AccessFencingKinds

\* An edit of a live leaf through replaceLeaf that adds no work and no process.
LEMMA EditedLeafWork ==
  ASSUME WorkInv, Ownership', NEW p \in Principals, NEW g \in LeafGenerations,
         NEW new \in LeafOfKind(AnyKinds), new.principal = p, new.leafGeneration = g,
         new.kind # "retiring", LiveLeaf(p, g).kind # "absent", ReplaceLeaf(new),
         UNCHANGED <<parent, terminalUseTombstones>>,
         new.kind = "provisioning" => \A u \in UseIds : new.activeUses[u].kind = "absent",
         OneProcess(new.activeUses), new.kind \in AccessFencingKinds => NoLiveUse(new.activeUses),
         \A u \in UseIds :
           new.kind \in {"current", "suspect"} /\ new.activeUses[u].kind \in LiveUseKinds =>
             /\ LiveLeaf(p, g).kind \in {"current", "suspect"}
             /\ LiveLeaf(p, g).activeUses[u].kind \in LiveUseKinds
  PROVE  WorkInv'
<1>1. Ownership /\ parent # "retired" /\ NoResurrectedWork
  BY LiveLeafWork DEF WorkInv, WorkIsAttributable
<1>2. UNCHANGED retiringLeavesByGeneration
  BY <1>1, ReplaceLeafEffect
<1>3. CASE /\ new.kind \in AdmissionKinds /\ LiveLeaf(p, g) = leavesByPrincipal[p]
           /\ leavesByPrincipal' = [leavesByPrincipal EXCEPT ![p] = new]
           /\ UNCHANGED accessFencingLeavesByGeneration
  <2>1. new \in LeafOfKind(AdmissionKinds)
    BY <1>3 DEF LeafOfKind
  <2>2. \A u \in UseIds :
          new.kind \in {"current", "suspect"} /\ new.activeUses[u].kind \in LiveUseKinds =>
            /\ terminalUseTombstones'[<<AgentOf[p], u>>] = AbsentTime
            /\ ~RetainedByRetiringPredecessor(AgentOf[p], u)
    BY <1>1, <1>3 DEF NoResurrectedWork
  <2> QED BY <1>1, <1>2, <1>3, <2>1, <2>2, AdmittedWork
<1>4. CASE /\ new.kind \in AccessFencingKinds
           /\ accessFencingLeavesByGeneration' = [accessFencingLeavesByGeneration EXCEPT ![g] = new]
           /\ \A q \in Principals : leavesByPrincipal'[q] \in {leavesByPrincipal[q], AbsentLeaf}
  <2>1. \A h \in LeafGenerations :
          \/ accessFencingLeavesByGeneration'[h] = accessFencingLeavesByGeneration[h]
          \/ h = g /\ accessFencingLeavesByGeneration'[h] = new
    BY <1>1, <1>4 DEF Ownership, TypeOK
  <2> QED BY <1>1, <1>2, <1>4, <2>1, FencedWork
<1> QED BY <1>1, <1>3, <1>4, ReplaceLeafEffect

LEMMA LeafCommandWork ==
  ASSUME WorkInv, Ownership', NEW p \in Principals, NEW g \in LeafGenerations, LeafCommand(p, g)
  PROVE  WorkInv'
<1> DEFINE leaf == LiveLeaf(p, g)
<1>1. Ownership /\ TypeOK /\ NoResurrectedWork /\ ProvisioningIsUnused /\ AbsentLeaf.kind = "absent"
  BY DEF WorkInv, WorkIsAttributable, Ownership, AbsentLeaf
<1>2. leaf.kind # "absent" =>
        /\ parent # "retired" /\ leaf \in LeafOfKind(AnyKinds) /\ leaf.activeUses \in ActiveUses
        /\ leaf.principal = p /\ leaf.leafGeneration = g /\ OneProcess(leaf.activeUses)
        /\ leaf.kind \notin AdmissionKinds => NoLiveUse(leaf.activeUses)
        /\ leaf.kind \in AdmissionKinds => leaf = leavesByPrincipal[p]
  BY LiveLeafWork
<1>3. CASE BeginProvisioning(p, g)
  <2> DEFINE new == [kind |-> "provisioning", leafGeneration |-> g, principal |-> p,
                     idleExpiresAt |-> now + IdleTtl, activeUses |-> NoActiveUses]
  <2>1. new \in LeafOfKind(AdmissionKinds)
    BY <1>1, RetentionAssumption DEF LeafOfKind, AdmissionKinds, NoActiveUses, ActiveUses, TypeOK
  <2>2. /\ ReplaceLeaf(new) /\ UNCHANGED <<parent, terminalUseTombstones>> /\ parent = "registered"
        /\ ~Present(accessFencingLeavesByGeneration[g]) /\ ~Present(retiringLeavesByGeneration[g])
    BY <1>3 DEF BeginProvisioning, AdmittingParent, tombstoneMaps
  <2>3. /\ new.kind = "provisioning" /\ new.leafGeneration = g /\ new.principal = p
        /\ \A u \in UseIds : new.activeUses[u].kind = "absent"
    BY DEF NoActiveUses, AbsentUse
  <2> HIDE DEF new
  <2>4. /\ leavesByPrincipal' = [leavesByPrincipal EXCEPT ![p] = new]
        /\ UNCHANGED <<accessFencingLeavesByGeneration, retiringLeavesByGeneration>>
    BY <2>2, <2>3 DEF ReplaceLeaf, AccessFencingKinds
  <2>5. OneProcess(new.activeUses)
    BY <2>3 DEF OneProcess
  <2> QED BY <2>1, <2>2, <2>3, <2>4, <2>5, AdmittedWork
<1>4. ASSUME NEW k \in AnyKinds \ {"retiring", "provisioning"}, leaf.kind # "absent",
             ReplaceLeaf([leaf EXCEPT !.kind = k]), UNCHANGED <<parent, terminalUseTombstones>>,
             \/ leaf.kind \in {"current", "suspect"} /\ k \notin AccessFencingKinds
             \/ leaf.kind = "provisioning" /\ k \notin AccessFencingKinds
             \/ k = "quarantined"
             \/ leaf.kind \in AccessFencingKinds /\ k \in AccessFencingKinds
      PROVE  WorkInv'
  <2> DEFINE new == [leaf EXCEPT !.kind = k]
  <2>1. /\ new \in LeafOfKind(AnyKinds) /\ new.principal = p /\ new.leafGeneration = g
        /\ new.kind = k /\ new.activeUses = leaf.activeUses
    <3> HIDE DEF leaf
    <3> QED BY <1>2, <1>4 DEF LeafOfKind
  <2>2. leaf.kind = "provisioning" => \A u \in UseIds : leaf.activeUses[u].kind = "absent"
    BY <1>1, <1>2 DEF ProvisioningIsUnused, AdmissionKinds
  <2>3. k \in AccessFencingKinds => NoLiveUse(leaf.activeUses)
    BY <1>2, <1>4 DEF AccessFencingKinds, AdmissionKinds
  <2>4. \A u \in UseIds :
          k \in {"current", "suspect"} /\ leaf.activeUses[u].kind \in LiveUseKinds =>
            leaf.kind \in {"current", "suspect"}
    BY <1>4, <2>2 DEF LiveUseKinds, AccessFencingKinds
  <2>5. OneProcess(leaf.activeUses)
    BY <1>2, <1>4
  <2>6. ReplaceLeaf(new)
    BY <1>4
  <2> HIDE DEF new, leaf
  <2> QED BY <1>4, <2>1, <2>3, <2>4, <2>5, <2>6, EditedLeafWork DEF leaf
<1>5. CASE CommitCurrent(p, g) \/ MarkSuspect(p, g) \/ RestoreCurrent(p, g)
           \/ Quarantine(p, g) \/ DestructionIncomplete(p, g) \/ RetryDestruction(p, g)
  <2> HIDE DEF leaf
  <2>1. CASE CommitCurrent(p, g)
    BY <1>4, <2>1 DEF CommitCurrent, leaf, AnyKinds, AdmissionKinds, AccessFencingKinds, tombstoneMaps
  <2>2. CASE MarkSuspect(p, g)
    BY <1>4, <2>2 DEF MarkSuspect, leaf, AnyKinds, AdmissionKinds, AccessFencingKinds, tombstoneMaps
  <2>3. CASE RestoreCurrent(p, g)
    BY <1>4, <2>3 DEF RestoreCurrent, leaf, AnyKinds, AdmissionKinds, AccessFencingKinds, tombstoneMaps
  <2>4. CASE Quarantine(p, g)
    BY <1>4, <2>4 DEF Quarantine, leaf, AnyKinds, AdmissionKinds, AccessFencingKinds, tombstoneMaps
  <2>5. CASE DestructionIncomplete(p, g)
    BY <1>4, <2>5 DEF DestructionIncomplete, leaf, AnyKinds, AdmissionKinds, AccessFencingKinds, tombstoneMaps
  <2>6. CASE RetryDestruction(p, g)
    BY <1>4, <2>6 DEF RetryDestruction, leaf, AnyKinds, AdmissionKinds, AccessFencingKinds, tombstoneMaps
  <2> QED BY <1>5, <2>1, <2>2, <2>3, <2>4, <2>5, <2>6
<1>6. CASE RenewIdleExpiry(p, g)
  <2> DEFINE new == [leaf EXCEPT !.idleExpiresAt = now + IdleTtl]
  <2>1. /\ leaf.kind = "current" /\ ReplaceLeaf(new) /\ UNCHANGED <<parent, terminalUseTombstones>>
        /\ now + IdleTtl \in Nat
    BY <1>1, <1>6, RetentionAssumption DEF RenewIdleExpiry, TypeOK, tombstoneMaps
  <2>2. /\ new \in LeafOfKind(AnyKinds) /\ new.principal = p /\ new.leafGeneration = g
        /\ new.kind = "current" /\ new.activeUses = leaf.activeUses
    <3> HIDE DEF leaf
    <3> QED BY <1>2, <2>1 DEF LeafOfKind
  <2>3. OneProcess(leaf.activeUses)
    BY <1>2, <2>1
  <2> HIDE DEF new, leaf
  <2> QED BY <2>1, <2>2, <2>3, EditedLeafWork DEF leaf, AccessFencingKinds
<1>7. CASE BeginDestruction(p, g)
  <2> DEFINE new == [leaf EXCEPT !.kind = "destroying", !.activeUses = RolloverUses(leaf.activeUses)]
  <2>1. leaf.kind # "absent" /\ ReplaceLeaf(new) /\ UNCHANGED <<parent, terminalUseTombstones>>
    BY <1>7 DEF BeginDestruction, tombstoneMaps
  <2>2. RolloverUses(leaf.activeUses) \in ActiveUses
    <3>1. CASE UseIds = {}
      BY <3>1 DEF RolloverUses, ActiveUses
    <3>2. CASE UseIds # {}
      BY <1>2, <2>1, <3>2, EditedUses
    <3> QED BY <3>1, <3>2
  <2>3. /\ new \in LeafOfKind(AnyKinds) /\ new.principal = p /\ new.leafGeneration = g
        /\ new.kind = "destroying" /\ new.activeUses = RolloverUses(leaf.activeUses)
    <3> HIDE DEF leaf
    <3> QED BY <1>2, <2>1, <2>2 DEF LeafOfKind, AnyKinds, AccessFencingKinds
  <2>4. NoLiveUse(RolloverUses(leaf.activeUses)) /\ OneProcess(RolloverUses(leaf.activeUses))
    <3>1. \A u \in UseIds :
            /\ RolloverUses(leaf.activeUses)[u].kind \notin LiveUseKinds
            /\ RolloverUses(leaf.activeUses)[u].kind # "absent" =>
                 /\ leaf.activeUses[u].kind # "absent"
                 /\ RolloverUses(leaf.activeUses)[u].processEpoch = leaf.activeUses[u].processEpoch
      BY DEF RolloverUses, AmbiguousUse, LiveUseKinds
    <3> QED BY <1>2, <2>1, <3>1 DEF NoLiveUse, OneProcess
  <2> HIDE DEF new, leaf
  <2> QED BY <2>1, <2>3, <2>4, EditedLeafWork DEF leaf
<1>8. ASSUME leaf.kind = "destroying", NEW q \in Principals,
             leavesByPrincipal[q].kind \in {"current", "suspect"}
      PROVE  AgentOf[q] # AgentOf[p]
  <2>1. accessFencingLeavesByGeneration[g].principal = p /\ Present(accessFencingLeavesByGeneration[g])
    BY <1>8, LiveLeafWork DEF AccessFencingKinds
  <2> QED BY <1>1, <1>8, <2>1 DEF Ownership, PredecessorAccessFenced
<1>9. CASE AccessFenced(p, g)
  <2> DEFINE new == [leaf EXCEPT !.kind = "retiring"]
  <2>1. /\ leaf.kind = "destroying" /\ RemoveAdmittedLeaf(leaf) /\ UNCHANGED <<parent, terminalUseTombstones>>
        /\ retiringLeavesByGeneration' = [retiringLeavesByGeneration EXCEPT ![g] = new]
        /\ accessFencingLeavesByGeneration' = [accessFencingLeavesByGeneration EXCEPT ![g] = AbsentLeaf]
    BY <1>9 DEF AccessFenced, tombstoneMaps
  <2>2. new.principal = p /\ new.activeUses = leaf.activeUses
    <3> HIDE DEF leaf
    <3> QED BY <1>2, <2>1 DEF LeafOfKind
  <2>3. OneProcess(leaf.activeUses) /\ NoLiveUse(leaf.activeUses) /\ parent # "retired"
    BY <1>2, <2>1 DEF AdmissionKinds
  <2>4. \A q \in Principals : leavesByPrincipal'[q] \in {leavesByPrincipal[q], AbsentLeaf}
    BY <1>1, <1>2, <2>1, RemoveAdmittedLeafSafe
  <2>5. \A q \in Principals : leavesByPrincipal[q].kind \in {"current", "suspect"} => AgentOf[q] # AgentOf[p]
    BY <1>8, <2>1
  <2>6. \A h \in LeafGenerations :
          /\ \/ accessFencingLeavesByGeneration'[h] = accessFencingLeavesByGeneration[h]
             \/ ~Present(accessFencingLeavesByGeneration'[h])
          /\ \/ retiringLeavesByGeneration'[h] = retiringLeavesByGeneration[h]
             \/ retiringLeavesByGeneration'[h] = new
    <3> HIDE DEF new
    <3> QED BY <1>1, <2>1 DEF TypeOK, Present
  <2> HIDE DEF new, leaf
  <2> QED BY <2>1, <2>2, <2>3, <2>4, <2>5, <2>6, FencedWork
<1>10. ASSUME NEW t \in 0..now, DestructionCompleted(p, g, t) PROVE WorkInv'
  <2> DEFINE rollovers == {u \in UseIds : /\ leaf.activeUses[u].kind = "ambiguous"
                                          /\ leaf.activeUses[u].reason = "leaf-rollover"}
  <2>1. /\ leaf.kind \in {"destroying", "retiring"} /\ RemoveAdmittedLeaf(leaf) /\ UNCHANGED parent
        /\ retiringLeavesByGeneration' = [retiringLeavesByGeneration EXCEPT ![g] = AbsentLeaf]
        /\ accessFencingLeavesByGeneration' = [accessFencingLeavesByGeneration EXCEPT ![g] = AbsentLeaf]
        /\ \/ UNCHANGED terminalUseTombstones
           \/ RetainRolloverAmbiguity(AgentOf[p], rollovers, t)
    BY <1>10 DEF DestructionCompleted
  <2>2. parent # "retired"
    BY <1>2, <2>1
  <2>3. \A q \in Principals : leavesByPrincipal'[q] \in {leavesByPrincipal[q], AbsentLeaf}
    BY <1>1, <1>2, <2>1, RemoveAdmittedLeafSafe
  <2>4. \A h \in LeafGenerations :
          /\ \/ accessFencingLeavesByGeneration'[h] = accessFencingLeavesByGeneration[h]
             \/ ~Present(accessFencingLeavesByGeneration'[h])
          /\ \/ retiringLeavesByGeneration'[h] = retiringLeavesByGeneration[h]
             \/ ~Present(retiringLeavesByGeneration'[h])
    BY <1>1, <2>1 DEF TypeOK, Present
  <2>5. ASSUME NEW q \in Principals, NEW u \in UseIds,
               leavesByPrincipal[q].kind \in {"current", "suspect"},
               leavesByPrincipal[q].activeUses[u].kind \in LiveUseKinds
        PROVE  terminalUseTombstones'[<<AgentOf[q], u>>] \in
                 {terminalUseTombstones[<<AgentOf[q], u>>], AbsentTime}
    <3>1. CASE UNCHANGED terminalUseTombstones
      BY <3>1
    <3>2. CASE RetainRolloverAmbiguity(AgentOf[p], rollovers, t)
      <4>1. ~(AgentOf[q] = AgentOf[p] /\ u \in rollovers)
        <5>1. CASE leaf.kind = "destroying"
          BY <1>8, <2>5, <5>1
        <5>2. CASE leaf.kind = "retiring"
          <6>1. leaf = retiringLeavesByGeneration[g] /\ Present(retiringLeavesByGeneration[g])
            BY <5>2, LiveLeafWork DEF Present
          <6>2. ~RetainedByRetiringPredecessor(AgentOf[q], u)
            BY <1>1, <2>5 DEF NoResurrectedWork
          <6>3. leaf.principal = p
            BY <1>2, <2>1
          <6> HIDE DEF leaf
          <6> QED BY <6>1, <6>2, <6>3 DEF RetainedByRetiringPredecessor
        <5> QED BY <2>1, <5>1, <5>2
      <4> DEFINE k == <<AgentOf[q], u>>
      <4>2. k \in Agents \X UseIds /\ k \notin {AgentOf[p]} \X rollovers
        BY <4>1, PrincipalAssumption
      <4> HIDE DEF k, rollovers
      <4>3. \/ terminalUseTombstones'[k] = terminalUseTombstones[k]
            \/ terminalUseTombstones'[k] = AbsentTime
        BY <3>2, <4>2 DEF RetainRolloverAmbiguity
      <4> QED BY <4>3 DEF k
    <3> QED BY <2>1, <3>1, <3>2
  <2> HIDE DEF leaf, rollovers
  <2> QED BY <2>1, <2>2, <2>3, <2>4, <2>5, FencedWork
<1> QED BY <1>3, <1>5, <1>6, <1>7, <1>9, <1>10 DEF LeafCommand

LEMMA UseCommandWork ==
  ASSUME WorkInv, Ownership', NEW p \in Principals, NEW g \in LeafGenerations, NEW u \in UseIds,
         UseCommand(p, g, u)
  PROVE  WorkInv'
<1> DEFINE leaf == LiveLeaf(p, g)
           edit(x) == [leaf EXCEPT !.activeUses = [leaf.activeUses EXCEPT ![u] = x]]
<1>1. Ownership /\ TypeOK /\ NoResurrectedWork
  BY DEF WorkInv, WorkIsAttributable, Ownership
<1>2. leaf.kind \in {"current", "suspect"}
  BY DEF UseCommand, StartActiveUse, ResumeActiveUse, EndActiveUse, ExpireObservationGap
<1>3. /\ parent # "retired" /\ leaf \in LeafOfKind(AdmissionKinds) /\ leaf.activeUses \in ActiveUses
      /\ leaf.principal = p /\ leaf.leafGeneration = g /\ OneProcess(leaf.activeUses)
      /\ leaf = leavesByPrincipal[p]
  <2>1. leaf.kind # "absent" /\ leaf.kind \in AdmissionKinds
    BY <1>2 DEF AdmissionKinds
  <2> QED BY <2>1, LiveLeafWork DEF LeafOfKind
\* An edit of one use of the leaf.
<1>4. ASSUME NEW x \in ActiveUse \cup {AbsentUse}, ReplaceLeaf(edit(x)), UNCHANGED parent,
             \A v \in UseIds : v # u /\ x.kind # "absent" /\ leaf.activeUses[v].kind # "absent" =>
               leaf.activeUses[v].processEpoch = x.processEpoch,
             x.kind \in LiveUseKinds =>
               /\ terminalUseTombstones'[<<AgentOf[p], u>>] = AbsentTime
               /\ ~RetainedByRetiringPredecessor(AgentOf[p], u),
             \A k \in Agents \X UseIds : k # <<AgentOf[p], u>> =>
               terminalUseTombstones'[k] = terminalUseTombstones[k]
      PROVE  WorkInv'
  <2> DEFINE new == edit(x)
  <2>1. /\ new \in LeafOfKind(AdmissionKinds) /\ new.principal = p /\ new.leafGeneration = g
        /\ new.kind = leaf.kind /\ new.activeUses = [leaf.activeUses EXCEPT ![u] = x]
    <3>1. [leaf.activeUses EXCEPT ![u] = x] \in ActiveUses
      BY <1>3, <1>4, EditedUses
    <3> HIDE DEF leaf
    <3> QED BY <1>3, <3>1 DEF LeafOfKind
  <2>2. /\ new.activeUses[u] = x
        /\ \A v \in UseIds : v # u => new.activeUses[v] = leaf.activeUses[v]
    <3> HIDE DEF new, leaf
    <3> QED BY <1>3, <2>1 DEF ActiveUses
  <2>3. OneProcess(new.activeUses)
    <3> HIDE DEF new, leaf
    <3> QED BY <1>3, <1>4, <2>2 DEF OneProcess
  <2>4. /\ leavesByPrincipal' = [leavesByPrincipal EXCEPT ![p] = new]
        /\ UNCHANGED <<accessFencingLeavesByGeneration, retiringLeavesByGeneration>>
    <3>1. new \in LeafOfKind(AnyKinds) /\ new.kind \notin AccessFencingKinds /\ new.kind # "retiring"
      <4> HIDE DEF new, leaf
      <4> QED BY <1>2, <2>1 DEF LeafOfKind, AnyKinds, AccessFencingKinds
    <3>2. LiveLeaf(p, g).kind # "absent" /\ ReplaceLeaf(new)
      BY <1>2, <1>4
    <3> HIDE DEF new, leaf
    <3> QED BY <1>1, <2>1, <3>1, <3>2, ReplaceLeafEffect
  <2>5. \A v \in UseIds :
          new.kind \in {"current", "suspect"} /\ new.activeUses[v].kind \in LiveUseKinds =>
            /\ terminalUseTombstones'[<<AgentOf[p], v>>] = AbsentTime
            /\ ~RetainedByRetiringPredecessor(AgentOf[p], v)
    <3> SUFFICES ASSUME NEW v \in UseIds, new.activeUses[v].kind \in LiveUseKinds
                 PROVE  /\ terminalUseTombstones'[<<AgentOf[p], v>>] = AbsentTime
                        /\ ~RetainedByRetiringPredecessor(AgentOf[p], v)
      OBVIOUS
    <3>1. CASE v = u
      <4> HIDE DEF new, leaf
      <4> QED BY <1>4, <2>2, <3>1
    <3>2. CASE v # u
      <4>1. leavesByPrincipal[p].activeUses[v].kind \in LiveUseKinds
        BY <1>3, <2>2, <3>2
      <4>2. leavesByPrincipal[p].kind \in {"current", "suspect"}
        BY <1>2, <1>3
      <4>3. /\ terminalUseTombstones[<<AgentOf[p], v>>] = AbsentTime
            /\ ~RetainedByRetiringPredecessor(AgentOf[p], v)
        BY <1>1, <4>1, <4>2 DEF NoResurrectedWork
      <4>4. <<AgentOf[p], v>> \in Agents \X UseIds /\ <<AgentOf[p], v>> # <<AgentOf[p], u>>
        BY <3>2, PrincipalAssumption
      <4> QED BY <1>4, <4>3, <4>4
    <3> QED BY <3>1, <3>2
  <2>6. \A q \in Principals, v \in UseIds :
          AgentOf[q] # AgentOf[p] =>
            terminalUseTombstones'[<<AgentOf[q], v>>] = terminalUseTombstones[<<AgentOf[q], v>>]
    BY <1>4, PrincipalAssumption
  <2>7. new.kind # "provisioning" /\ parent # "retired"
    BY <1>2, <1>3, <2>1
  <2> HIDE DEF new, leaf
  <2> QED BY <1>4, <2>1, <2>3, <2>4, <2>5, <2>6, <2>7, AdmittedWork
<1>5. \A e \in ProcessEpochs, s \in SessionAttachments :
        /\ RunningUse(e, s) \in ActiveUse /\ RunningUse(e, s).kind = "running"
        /\ RunningUse(e, s).processEpoch = e
  BY <1>3, EditedUses DEF RunningUse
<1>6. ASSUME NEW e \in ProcessEpochs, NEW s \in SessionAttachments, StartActiveUse(p, g, u, e, s)
      PROVE  WorkInv'
  <2>1. /\ ReplaceLeaf(edit(RunningUse(e, s))) /\ UNCHANGED <<parent, terminalUseTombstones>>
        /\ terminalUseTombstones[<<AgentOf[p], u>>] = AbsentTime
        /\ ~RetainedByRetiringPredecessor(AgentOf[p], u)
        /\ \A v \in UseIds : leaf.activeUses[v].kind # "absent" => leaf.activeUses[v].processEpoch = e
    BY <1>6 DEF StartActiveUse, tombstoneMaps
  <2> HIDE DEF leaf, edit
  <2> QED BY <1>4, <1>5, <2>1
<1>7. ASSUME NEW e \in ProcessEpochs, NEW s \in SessionAttachments, ResumeActiveUse(p, g, u, e, s)
      PROVE  WorkInv'
  <2>1. /\ ReplaceLeaf(edit(RunningUse(e, s))) /\ UNCHANGED <<parent, terminalUseTombstones>>
        /\ leaf.activeUses[u].kind = "observation-gap" /\ leaf.activeUses[u].processEpoch = e
    BY <1>7 DEF ResumeActiveUse, tombstoneMaps
  <2>2. \A v \in UseIds : leaf.activeUses[v].kind # "absent" => leaf.activeUses[v].processEpoch = e
    <3> HIDE DEF leaf
    <3> QED BY <1>3, <2>1 DEF OneProcess
  <2>3. /\ terminalUseTombstones[<<AgentOf[p], u>>] = AbsentTime
        /\ ~RetainedByRetiringPredecessor(AgentOf[p], u)
    <3> HIDE DEF leaf
    <3> QED BY <1>1, <1>2, <1>3, <2>1 DEF NoResurrectedWork, LiveUseKinds
  <2> HIDE DEF leaf, edit
  <2> QED BY <1>4, <1>5, <2>1, <2>2, <2>3
<1>8. ASSUME NEW e \in ProcessEpochs, NEW s \in SessionAttachments, EndActiveUse(p, g, u, e, s)
      PROVE  WorkInv'
  <2>1. /\ ReplaceLeaf(edit(AbsentUse)) /\ UNCHANGED parent
        /\ terminalUseTombstones' = [terminalUseTombstones EXCEPT ![<<AgentOf[p], u>>] = now]
    BY <1>8 DEF EndActiveUse
  <2>2. AbsentUse.kind = "absent"
    BY DEF AbsentUse
  <2>3. \A k \in Agents \X UseIds : k # <<AgentOf[p], u>> =>
          terminalUseTombstones'[k] = terminalUseTombstones[k]
    BY <1>1, <2>1 DEF TypeOK
  <2> HIDE DEF leaf, edit
  <2> QED BY <1>4, <2>1, <2>2, <2>3 DEF LiveUseKinds
<1>9. CASE ExpireObservationGap(p, g, u)
  <2> DEFINE x == AmbiguousUse(leaf.activeUses[u], "observation-gap-expired")
             uses == [leaf.activeUses EXCEPT ![u] = x]
             new == [leaf EXCEPT !.kind = "quarantined", !.activeUses = uses]
  <2>1. /\ ReplaceLeaf(new) /\ UNCHANGED <<parent, terminalUseTombstones>>
        /\ leaf.activeUses[u].kind = "observation-gap"
    BY <1>9 DEF ExpireObservationGap, tombstoneMaps
  <2>2. x \in ActiveUse /\ x.processEpoch = leaf.activeUses[u].processEpoch
    <3>1. leaf.activeUses[u] \in ActiveUse
      BY <1>3, <2>1, EditedUses
    <3> HIDE DEF leaf
    <3> QED BY <1>3, <3>1, EditedUses DEF AmbiguityReasons, AmbiguousUse
  <2>3. uses \in ActiveUses /\ uses[u] = x /\ \A v \in UseIds : v # u => uses[v] = leaf.activeUses[v]
    <3> HIDE DEF leaf, x
    <3> QED BY <1>3, <2>2 DEF ActiveUses
  <2>4. OneProcess(uses)
    <3> HIDE DEF leaf, x, uses
    <3> QED BY <1>3, <2>1, <2>2, <2>3 DEF OneProcess
  <2>5. /\ new \in LeafOfKind(AnyKinds) /\ new.principal = p /\ new.leafGeneration = g
        /\ new.kind = "quarantined" /\ new.activeUses = uses
    <3> HIDE DEF leaf, uses
    <3> QED BY <1>3, <2>3 DEF LeafOfKind, AnyKinds, AdmissionKinds
  <2>6. LiveLeaf(p, g).kind # "absent"
    BY <1>2
  <2> HIDE DEF new, leaf, uses
  <2> QED BY <2>1, <2>4, <2>5, <2>6, EditedLeafWork DEF AccessFencingKinds
<1> QED BY <1>6, <1>7, <1>8, <1>9 DEF UseCommand

\* A disconnected session or a lost process edits the leaves with its work.
LEMMA LossWork ==
  ASSUME WorkInv, Ownership', NEW e \in ProcessEpochs,
         ProcessEpochLost(e) \/ \E s \in SessionAttachments : SessionDisconnected(e, s)
  PROVE  WorkInv'
<1>1. /\ Ownership /\ TypeOK /\ FencedWorkIsAmbiguous /\ OneProcessPerLeaf /\ NoResurrectedWork
      /\ RetiredParentOwnsNothing /\ ProvisioningIsUnused
  BY DEF WorkInv, WorkIsAttributable, Ownership
<1>2. UNCHANGED <<parent, accessFencingLeavesByGeneration, retiringLeavesByGeneration,
                  terminalUseTombstones>>
  BY DEF ProcessEpochLost, SessionDisconnected, tombstoneMaps
<1>3. ASSUME NEW p \in Principals, leavesByPrincipal'[p] # leavesByPrincipal[p]
      PROVE  /\ leavesByPrincipal[p].kind \in {"current", "suspect"}
             /\ leavesByPrincipal'[p].kind \in {leavesByPrincipal[p].kind, "quarantined"}
             /\ \A u \in UseIds :
                  /\ leavesByPrincipal'[p].activeUses[u].kind # "absent" =>
                       /\ leavesByPrincipal[p].activeUses[u].kind # "absent"
                       /\ leavesByPrincipal'[p].activeUses[u].processEpoch =
                            leavesByPrincipal[p].activeUses[u].processEpoch
                  /\ leavesByPrincipal'[p].activeUses[u].kind \in LiveUseKinds =>
                       leavesByPrincipal[p].activeUses[u].kind \in LiveUseKinds
  BY <1>1, <1>3, LossEdit
<1>4. FencedWorkIsAmbiguous'
  BY <1>1, <1>2 DEF FencedWorkIsAmbiguous
<1>5. OneProcessPerLeaf'
  <2>1. \A p \in Principals :
          Present(leavesByPrincipal'[p]) => OneProcess(leavesByPrincipal'[p].activeUses)
    <3> SUFFICES ASSUME NEW p \in Principals, Present(leavesByPrincipal'[p])
                 PROVE  OneProcess(leavesByPrincipal'[p].activeUses)
      OBVIOUS
    <3>1. Present(leavesByPrincipal[p])
      BY <1>3 DEF Present
    <3>2. OneProcess(leavesByPrincipal[p].activeUses)
      BY <1>1, <3>1, WorkFacts
    <3>3. CASE leavesByPrincipal'[p] # leavesByPrincipal[p]
      BY <1>3, <3>2, <3>3 DEF OneProcess
    <3> QED BY <3>2, <3>3
  <2> QED BY <1>1, <1>2, <2>1, WorkFacts DEF OneProcessPerLeaf, OneProcess
<1>6. NoResurrectedWork'
  BY <1>1, <1>2, <1>3, EvidenceStays
<1>7. RetiredParentOwnsNothing'
  BY <1>1, <1>2, <1>3 DEF RetiredParentOwnsNothing, Present
<1>8. ProvisioningIsUnused'
  BY <1>1, <1>3 DEF ProvisioningIsUnused
<1> QED BY <1>4, <1>5, <1>6, <1>7, <1>8 DEF WorkInv, WorkIsAttributable

LEMMA WorkStep == WorkInv /\ [Next]_vars => WorkInv'
<1> SUFFICES ASSUME WorkInv, [Next]_vars PROVE WorkInv'
  OBVIOUS
<1>1. Ownership'
  BY OwnershipStep DEF WorkInv
<1>2. /\ Ownership /\ TypeOK /\ FencedWorkIsAmbiguous /\ OneProcessPerLeaf /\ NoResurrectedWork
      /\ RetiredParentOwnsNothing /\ ProvisioningIsUnused
  BY DEF WorkInv, WorkIsAttributable, Ownership
<1>3. ASSUME UNCHANGED leafMaps,
             \A k \in Agents \X UseIds :
               terminalUseTombstones'[k] \in {terminalUseTombstones[k], AbsentTime},
             parent' = "retired" => parent = "retired" \/ RetireParent
      PROVE  WorkInv'
  <2>1. UNCHANGED <<leavesByPrincipal, accessFencingLeavesByGeneration, retiringLeavesByGeneration>>
    BY <1>3 DEF leafMaps
  <2>2. FencedWorkIsAmbiguous' /\ OneProcessPerLeaf' /\ ProvisioningIsUnused'
    BY <1>2, <2>1 DEF FencedWorkIsAmbiguous, OneProcessPerLeaf, ProvisioningIsUnused
  <2>3. NoResurrectedWork'
    <3>1. \A q \in Principals, u \in UseIds : <<AgentOf[q], u>> \in Agents \X UseIds
      BY PrincipalAssumption
    <3> QED BY <1>2, <1>3, <2>1, <3>1, EvidenceStays
  <2>4. RetiredParentOwnsNothing'
    BY <1>2, <1>3, <2>1 DEF RetiredParentOwnsNothing, RetireParent, Present
  <2> QED BY <1>1, <2>2, <2>3, <2>4 DEF WorkInv, WorkIsAttributable
<1>4. CASE UNCHANGED vars
  BY <1>3, <1>4 DEF vars, tombstoneMaps
<1>5. CASE RegisterParent \/ SealParent \/ RetireParent \/ Tick
  BY <1>3, <1>5 DEF RegisterParent, SealParent, RetireParent, Tick, tombstoneMaps
<1>6. CASE PruneTombstones
  BY <1>2, <1>3, <1>6 DEF PruneTombstones
<1>7. ASSUME NEW p \in Principals, NEW g \in LeafGenerations, LeafCommand(p, g) PROVE WorkInv'
  BY <1>1, <1>7, LeafCommandWork
<1>8. ASSUME NEW p \in Principals, NEW g \in LeafGenerations, NEW u \in UseIds, UseCommand(p, g, u)
      PROVE  WorkInv'
  BY <1>1, <1>8, UseCommandWork
<1>9. ASSUME NEW e \in ProcessEpochs,
             ProcessEpochLost(e) \/ \E s \in SessionAttachments : SessionDisconnected(e, s)
      PROVE  WorkInv'
  BY <1>1, <1>9, LossWork
<1> QED BY <1>4, <1>5, <1>6, <1>7, <1>8, <1>9 DEF Next

\* Work stays attributable: a leaf that left admission holds nothing that counts as
\* observed, a leaf holds the work of one Gateway process, work that was terminal or
\* left undecided by a rollover does not run again while the evidence is retained,
\* and a retired parent owns nothing.
THEOREM WorkCorrect == Spec => []WorkIsAttributable
<1>1. Init => WorkInv
  <2> SUFFICES ASSUME Init PROVE WorkInv
    OBVIOUS
  <2>1. ~Present(AbsentLeaf) /\ AbsentLeaf.kind = "absent"
    BY DEF Present, AbsentLeaf
  <2>2. TypeOK
    BY DEF Init, TypeOK
  <2>3. /\ \A p \in Principals : leavesByPrincipal[p] = AbsentLeaf
        /\ \A a \in Agents : currentPrincipalKeyByAgentId[a] = AbsentPrincipal
        /\ \A g \in LeafGenerations : /\ accessFencingLeavesByGeneration[g] = AbsentLeaf
                                      /\ retiringLeavesByGeneration[g] = AbsentLeaf
                                      /\ tombstonesByGeneration[g] = AbsentTime
    BY DEF Init
  <2>4. Ownership
    BY <2>1, <2>2, <2>3
       DEF Ownership, AgentIndexAgrees, OneDisposition, PredecessorAccessFenced, AdmittedAt
  <2>5. FencedWorkIsAmbiguous /\ OneProcessPerLeaf
    BY <2>1, <2>3, WorkFacts
  <2>6. NoResurrectedWork /\ ProvisioningIsUnused /\ RetiredParentOwnsNothing
    BY <2>1, <2>3 DEF NoResurrectedWork, ProvisioningIsUnused, RetiredParentOwnsNothing
  <2> QED BY <2>4, <2>5, <2>6 DEF WorkInv, WorkIsAttributable
<1>2. WorkInv => WorkIsAttributable
  BY DEF WorkInv
<1> QED BY <1>1, <1>2, WorkStep, PTL DEF Spec

-----------------------------------------------------------------------------
(* What a step may never do.                                               *)

\* A generation of the principal map after a step, seen from before it: the entry of
\* a principal is as it was, removed with the generation the command is about, or of
\* that generation, which had it before or has never been issued.
OnlyMoves(g) ==
  /\ \A q \in Principals :
       \/ leavesByPrincipal'[q] = leavesByPrincipal[q]
       \/ leavesByPrincipal'[q] = AbsentLeaf /\ AdmittedAt(q, g)
       \/ /\ AdmittedAt(q, g)'
          /\ AdmittedAt(q, g) \/ (g \notin issuedGenerations /\ ~Present(leavesByPrincipal[q]))
  /\ \A h \in LeafGenerations : h # g =>
       /\ accessFencingLeavesByGeneration'[h] = accessFencingLeavesByGeneration[h]
       /\ retiringLeavesByGeneration'[h] = retiringLeavesByGeneration[h]
  /\ LiveGeneration(g)' \/ tombstonesByGeneration'[g] # AbsentTime
  /\ Present(retiringLeavesByGeneration[g]) => ~Present(accessFencingLeavesByGeneration'[g])

\* The step of LeavesAreHeldUntilDestroyed.
HeldStep ==
  \A g \in LeafGenerations :
    /\ LiveGeneration(g) => LiveGeneration(g)' \/ tombstonesByGeneration'[g] # AbsentTime
    /\ (~\E p \in Principals : AdmittedAt(p, g)) /\ g \in issuedGenerations =>
         ~\E p \in Principals : AdmittedAt(p, g)'
    /\ Present(retiringLeavesByGeneration[g]) => ~Present(accessFencingLeavesByGeneration[g])'

LEMMA MovesHold ==
  ASSUME Ownership, NEW g \in LeafGenerations, OnlyMoves(g)
  PROVE  HeldStep
<1> SUFFICES ASSUME NEW h \in LeafGenerations
             PROVE  /\ LiveGeneration(h) => LiveGeneration(h)' \/ tombstonesByGeneration'[h] # AbsentTime
                    /\ (~\E p \in Principals : AdmittedAt(p, h)) /\ h \in issuedGenerations =>
                         ~\E p \in Principals : AdmittedAt(p, h)'
                    /\ Present(retiringLeavesByGeneration[h]) =>
                         ~Present(accessFencingLeavesByGeneration'[h])
  BY DEF HeldStep, Present
<1>1. ~Present(AbsentLeaf)
  BY DEF Present, AbsentLeaf
<1>2. CASE h = g
  <2>1. (~\E p \in Principals : AdmittedAt(p, g)) /\ g \in issuedGenerations =>
          ~\E p \in Principals : AdmittedAt(p, g)'
    BY <1>1 DEF OnlyMoves, AdmittedAt, Present
  <2> QED BY <1>2, <2>1 DEF OnlyMoves
<1>3. CASE h # g
  <2>1. \A q \in Principals : AdmittedAt(q, h)' <=> AdmittedAt(q, h)
    BY <1>1, <1>3 DEF OnlyMoves, AdmittedAt, Present
  <2>2. /\ accessFencingLeavesByGeneration'[h] = accessFencingLeavesByGeneration[h]
        /\ retiringLeavesByGeneration'[h] = retiringLeavesByGeneration[h]
    BY <1>3 DEF OnlyMoves
  <2>3. LiveGeneration(h) => LiveGeneration(h)'
    BY <2>1, <2>2 DEF LiveGeneration, Present
  <2>4. Present(retiringLeavesByGeneration[h]) => ~Present(accessFencingLeavesByGeneration[h])
    BY DEF Ownership, OneDisposition
  <2> QED BY <2>1, <2>2, <2>3, <2>4
<1> QED BY <1>2, <1>3

\* The leaf maps stay, or only the contents of the admitted leaves change.
LEMMA SameLeavesHold ==
  ASSUME Ownership,
         \A q \in Principals :
           /\ Present(leavesByPrincipal'[q]) <=> Present(leavesByPrincipal[q])
           /\ Present(leavesByPrincipal[q]) =>
                leavesByPrincipal'[q].leafGeneration = leavesByPrincipal[q].leafGeneration,
         UNCHANGED <<accessFencingLeavesByGeneration, retiringLeavesByGeneration>>
  PROVE  HeldStep
<1>1. \A q \in Principals, h \in LeafGenerations : AdmittedAt(q, h)' <=> AdmittedAt(q, h)
  BY DEF AdmittedAt
<1>2. \A h \in LeafGenerations : LiveGeneration(h) => LiveGeneration(h)'
  BY <1>1 DEF LiveGeneration
<1> QED BY <1>1, <1>2 DEF HeldStep, Ownership, OneDisposition, Present

\* An edit through replaceLeaf of a leaf that is live.
LEMMA EditMoves ==
  ASSUME Ownership, NEW p \in Principals, NEW g \in LeafGenerations, NEW new \in LeafOfKind(AnyKinds),
         new.principal = p, new.leafGeneration = g, new.kind # "retiring",
         LiveLeaf(p, g).kind # "absent", ReplaceLeaf(new)
  PROVE  OnlyMoves(g)
<1>1. TypeOK /\ LiveLeaf(p, g).leafGeneration = g /\ Present(new)
  BY LiveLeafIdentity DEF Ownership, LeafOfKind, AnyKinds, AdmissionKinds, AccessFencingKinds, Present
<1>2. Present(retiringLeavesByGeneration[g]) => FALSE
  BY DEF ReplaceLeaf
<1>3. UNCHANGED retiringLeavesByGeneration
  BY ReplaceLeafEffect
<1>4. CASE /\ LiveLeaf(p, g) = leavesByPrincipal[p]
           /\ leavesByPrincipal' = [leavesByPrincipal EXCEPT ![p] = new]
           /\ UNCHANGED accessFencingLeavesByGeneration
  <2>1. leavesByPrincipal'[p] = new /\ \A q \in Principals : q # p => leavesByPrincipal'[q] = leavesByPrincipal[q]
    BY <1>1, <1>4 DEF TypeOK
  <2>2. AdmittedAt(p, g) /\ AdmittedAt(p, g)'
    BY <1>1, <1>4, <2>1 DEF AdmittedAt, Present
  <2> QED BY <1>2, <1>3, <1>4, <2>1, <2>2 DEF OnlyMoves, LiveGeneration
<1>5. CASE /\ accessFencingLeavesByGeneration' = [accessFencingLeavesByGeneration EXCEPT ![g] = new]
           /\ \A q \in Principals : \/ leavesByPrincipal'[q] = leavesByPrincipal[q]
                                    \/ leavesByPrincipal'[q] = AbsentLeaf /\ AdmittedAt(q, g)
  <2>1. /\ accessFencingLeavesByGeneration'[g] = new
        /\ \A h \in LeafGenerations : h # g =>
             accessFencingLeavesByGeneration'[h] = accessFencingLeavesByGeneration[h]
    BY <1>1, <1>5 DEF TypeOK
  <2> QED BY <1>1, <1>2, <1>3, <1>5, <2>1 DEF OnlyMoves, LiveGeneration
<1> QED BY <1>4, <1>5, ReplaceLeafEffect

LEMMA LeafCommandHolds ==
  ASSUME Ownership, NEW p \in Principals, NEW g \in LeafGenerations, LeafCommand(p, g)
  PROVE  HeldStep
<1> DEFINE leaf == LiveLeaf(p, g)
<1>1. TypeOK /\ ~Present(AbsentLeaf)
  BY DEF Ownership, Present, AbsentLeaf
<1>2. leaf.kind # "absent" =>
        leaf \in LeafOfKind(AnyKinds) /\ leaf.principal = p /\ leaf.leafGeneration = g
  BY <1>1, LiveLeafFound, LiveLeafIdentity
<1>3. CASE BeginProvisioning(p, g)
  <2> DEFINE new == [kind |-> "provisioning", leafGeneration |-> g, principal |-> p,
                     idleExpiresAt |-> now + IdleTtl, activeUses |-> NoActiveUses]
  <2>1. /\ ReplaceLeaf(new) /\ g \notin issuedGenerations
        /\ currentPrincipalKeyByAgentId[AgentOf[p]] = AbsentPrincipal
        /\ ~Present(accessFencingLeavesByGeneration[g]) /\ ~Present(retiringLeavesByGeneration[g])
    BY <1>3 DEF BeginProvisioning
  <2>2. new.kind = "provisioning" /\ new.leafGeneration = g /\ new.principal = p
    OBVIOUS
  <2> HIDE DEF new
  <2>3. /\ leavesByPrincipal' = [leavesByPrincipal EXCEPT ![p] = new]
        /\ UNCHANGED <<accessFencingLeavesByGeneration, retiringLeavesByGeneration>>
    BY <2>1, <2>2 DEF ReplaceLeaf, AccessFencingKinds
  <2>4. ~Present(leavesByPrincipal[p])
    BY <2>1, PrincipalAssumption DEF Ownership, AgentIndexAgrees, AbsentPrincipal
  <2>5. leavesByPrincipal'[p] = new /\ \A q \in Principals : q # p => leavesByPrincipal'[q] = leavesByPrincipal[q]
    BY <1>1, <2>3 DEF TypeOK
  <2>6. AdmittedAt(p, g)'
    BY <2>2, <2>5 DEF AdmittedAt, Present
  <2>7. OnlyMoves(g)
    BY <2>1, <2>3, <2>4, <2>5, <2>6 DEF OnlyMoves, LiveGeneration
  <2> QED BY <2>7, MovesHold
<1>4. ASSUME NEW k \in AnyKinds \ {"retiring"}, leaf.kind # "absent", ReplaceLeaf([leaf EXCEPT !.kind = k])
      PROVE  HeldStep
  <2> DEFINE new == [leaf EXCEPT !.kind = k]
  <2>1. /\ new \in LeafOfKind(AnyKinds) /\ new.principal = p /\ new.leafGeneration = g
        /\ new.kind # "retiring"
    <3> HIDE DEF leaf
    <3> QED BY <1>2, <1>4 DEF LeafOfKind
  <2>2. ReplaceLeaf(new)
    BY <1>4
  <2> HIDE DEF new
  <2>3. OnlyMoves(g)
    BY <1>4, <2>1, <2>2, EditMoves
  <2> QED BY <2>3, MovesHold
<1>5. CASE CommitCurrent(p, g) \/ MarkSuspect(p, g) \/ RestoreCurrent(p, g)
           \/ Quarantine(p, g) \/ DestructionIncomplete(p, g) \/ RetryDestruction(p, g)
  <2> HIDE DEF leaf
  <2> QED
    BY <1>4, <1>5 DEF CommitCurrent, MarkSuspect, RestoreCurrent, Quarantine, DestructionIncomplete,
       RetryDestruction, leaf, AnyKinds, AdmissionKinds, AccessFencingKinds
<1>6. CASE RenewIdleExpiry(p, g) \/ BeginDestruction(p, g)
  <2>1. leaf.kind # "absent" /\ leaf.kind # "retiring"
    <3>1. CASE RenewIdleExpiry(p, g)
      BY <3>1 DEF RenewIdleExpiry
    <3>2. CASE BeginDestruction(p, g)
      <4>1. leaf.kind # "absent" /\ ReplaceLeaf([leaf EXCEPT !.kind = "destroying",
                                                   !.activeUses = RolloverUses(leaf.activeUses)])
        BY <3>2 DEF BeginDestruction
      <4>2. /\ [leaf EXCEPT !.kind = "destroying", !.activeUses = RolloverUses(leaf.activeUses)].kind
                 = "destroying"
            /\ [leaf EXCEPT !.kind = "destroying", !.activeUses = RolloverUses(leaf.activeUses)].leafGeneration
                 = g
        <5> HIDE DEF leaf
        <5> QED BY <1>2, <4>1 DEF LeafOfKind
      <4>3. ~Present(retiringLeavesByGeneration[g])
        BY <4>1, <4>2 DEF ReplaceLeaf
      <4> QED BY <1>1, <4>1, <4>3, LiveLeafFound DEF Present, AdmissionKinds, AccessFencingKinds
    <3> QED BY <1>6, <3>1, <3>2
  <2>2. RolloverUses(leaf.activeUses) \in ActiveUses /\ now + IdleTtl \in Nat
    <3>1. leaf.activeUses \in ActiveUses
      BY <1>2, <2>1 DEF LeafOfKind
    <3>2. CASE UseIds = {}
      BY <1>1, <3>2, RetentionAssumption DEF RolloverUses, ActiveUses, TypeOK
    <3>3. CASE UseIds # {}
      BY <1>1, <3>1, <3>3, EditedUses, RetentionAssumption DEF TypeOK
    <3> QED BY <3>2, <3>3
  <2>3. \E new \in LeafOfKind(AnyKinds) : /\ new.principal = p /\ new.leafGeneration = g
                                          /\ new.kind # "retiring" /\ ReplaceLeaf(new)
    <3> DEFINE renewed == [leaf EXCEPT !.idleExpiresAt = now + IdleTtl]
               ended == [leaf EXCEPT !.kind = "destroying", !.activeUses = RolloverUses(leaf.activeUses)]
    <3>1. ReplaceLeaf(renewed) \/ ReplaceLeaf(ended)
      BY <1>6 DEF RenewIdleExpiry, BeginDestruction
    <3>2. /\ renewed \in LeafOfKind(AnyKinds) /\ renewed.principal = p
          /\ renewed.leafGeneration = g /\ renewed.kind # "retiring"
      <4> HIDE DEF leaf
      <4> QED BY <1>2, <2>1, <2>2 DEF LeafOfKind
    <3>3. /\ ended \in LeafOfKind(AnyKinds) /\ ended.principal = p
          /\ ended.leafGeneration = g /\ ended.kind # "retiring"
      <4> HIDE DEF leaf
      <4> QED BY <1>2, <2>1, <2>2 DEF LeafOfKind, AnyKinds, AccessFencingKinds
    <3> HIDE DEF renewed, ended
    <3> QED BY <3>1, <3>2, <3>3
  <2>4. OnlyMoves(g)
    BY <2>1, <2>3, EditMoves
  <2> QED BY <2>4, MovesHold
<1>7. ASSUME leaf.kind \in {"destroying", "retiring"}, RemoveAdmittedLeaf(leaf),
             accessFencingLeavesByGeneration' = [accessFencingLeavesByGeneration EXCEPT ![g] = AbsentLeaf],
             NEW new, retiringLeavesByGeneration' = [retiringLeavesByGeneration EXCEPT ![g] = new],
             Present(new) \/ tombstonesByGeneration'[g] # AbsentTime
      PROVE  HeldStep
  <2>1. \A q \in Principals : \/ leavesByPrincipal'[q] = leavesByPrincipal[q]
                              \/ leavesByPrincipal'[q] = AbsentLeaf /\ AdmittedAt(q, g)
    BY <1>1, <1>2, <1>7, RemovedIsOfTheGeneration
  <2>2. /\ accessFencingLeavesByGeneration'[g] = AbsentLeaf /\ retiringLeavesByGeneration'[g] = new
        /\ \A h \in LeafGenerations : h # g =>
             /\ accessFencingLeavesByGeneration'[h] = accessFencingLeavesByGeneration[h]
             /\ retiringLeavesByGeneration'[h] = retiringLeavesByGeneration[h]
    BY <1>1, <1>7 DEF TypeOK
  <2>3. OnlyMoves(g)
    BY <1>1, <1>7, <2>1, <2>2 DEF OnlyMoves, LiveGeneration, Present
  <2> QED BY <2>3, MovesHold
<1>8. CASE AccessFenced(p, g)
  <2> DEFINE new == [leaf EXCEPT !.kind = "retiring"]
  <2>1. leaf.kind = "destroying"
    BY <1>8 DEF AccessFenced
  <2>2. Present(new)
    <3> HIDE DEF leaf
    <3> QED BY <1>2, <2>1 DEF LeafOfKind, Present
  <2> HIDE DEF new
  <2> QED BY <1>7, <1>8, <2>2 DEF AccessFenced, new
<1>9. ASSUME NEW t \in 0..now, DestructionCompleted(p, g, t) PROVE HeldStep
  <2>1. tombstonesByGeneration' = [tombstonesByGeneration EXCEPT ![g] = t]
    BY <1>9 DEF DestructionCompleted
  <2>2. tombstonesByGeneration'[g] # AbsentTime
    BY <1>1, <2>1 DEF TypeOK, AbsentTime
  <2> QED BY <1>7, <1>9, <2>2 DEF DestructionCompleted
<1> QED BY <1>3, <1>5, <1>6, <1>8, <1>9 DEF LeafCommand

\* Every step keeps the leaves held.
LEMMA StepHolds == Ownership /\ [Next]_vars => HeldStep \/ UNCHANGED vars
<1> SUFFICES ASSUME Ownership, Next PROVE HeldStep
  OBVIOUS
<1>1. TypeOK
  BY DEF Ownership
<1>2. CASE RegisterParent \/ SealParent \/ RetireParent \/ PruneTombstones \/ Tick
  BY <1>2, SameLeavesHold DEF RegisterParent, SealParent, RetireParent, PruneTombstones, Tick, leafMaps
<1>3. ASSUME NEW p \in Principals, NEW g \in LeafGenerations, LeafCommand(p, g) PROVE HeldStep
  BY <1>3, LeafCommandHolds
<1>4. ASSUME NEW p \in Principals, NEW g \in LeafGenerations, NEW u \in UseIds, UseCommand(p, g, u)
      PROVE  HeldStep
  <2>1. LiveLeaf(p, g).kind \in {"current", "suspect"}
    BY <1>4, UseCommandEdit
  <2>2. \E new \in LeafOfKind(AnyKinds) :
          /\ new.principal = p /\ new.leafGeneration = g
          /\ new.kind \in {LiveLeaf(p, g).kind, "quarantined"}
          /\ ReplaceLeaf(new)
    BY <1>4, UseCommandEdit
  <2>3. OnlyMoves(g)
    BY <2>1, <2>2, EditMoves
  <2> QED BY <2>3, MovesHold
<1>5. ASSUME NEW e \in ProcessEpochs,
             ProcessEpochLost(e) \/ \E s \in SessionAttachments : SessionDisconnected(e, s)
      PROVE  HeldStep
  <2>1. UNCHANGED <<accessFencingLeavesByGeneration, retiringLeavesByGeneration>>
    BY <1>5 DEF ProcessEpochLost, SessionDisconnected
  <2>2. \A q \in Principals :
          /\ Present(leavesByPrincipal'[q]) <=> Present(leavesByPrincipal[q])
          /\ Present(leavesByPrincipal[q]) =>
               leavesByPrincipal'[q].leafGeneration = leavesByPrincipal[q].leafGeneration
    BY <1>1, <1>5, LossEdit DEF Present
  <2> QED BY <2>1, <2>2, SameLeavesHold
<1> QED BY <1>2, <1>3, <1>4, <1>5 DEF Next

\* A leaf the authority owns is held until its destruction is in a tombstone, and
\* access that was withdrawn is not given back: whatever the sequence of commands,
\* lost processes and disconnects.
THEOREM LeavesHeld == Spec => LeavesAreHeldUntilDestroyed
<1>1. Ownership /\ [Next]_vars =>
        [\A g \in LeafGenerations :
           /\ LiveGeneration(g) => LiveGeneration(g)' \/ tombstonesByGeneration'[g] # AbsentTime
           /\ (~\E p \in Principals : AdmittedAt(p, g)) /\ g \in issuedGenerations =>
                ~\E p \in Principals : AdmittedAt(p, g)'
           /\ Present(retiringLeavesByGeneration[g]) =>
                ~Present(accessFencingLeavesByGeneration[g])']_vars
  BY StepHolds DEF HeldStep
<1> QED BY <1>1, OwnershipCorrect, PTL DEF Spec, LeavesAreHeldUntilDestroyed

-----------------------------------------------------------------------------
(* What a sealed parent admits.                                            *)

\* The entry of a principal after a step: it is as it was, gone, or of the same
\* generation with no work running that was not.
OnlyShrinks(q) ==
  \/ leavesByPrincipal'[q] = leavesByPrincipal[q]
  \/ ~Present(leavesByPrincipal'[q])
  \/ /\ Present(leavesByPrincipal[q])
     /\ leavesByPrincipal'[q].leafGeneration = leavesByPrincipal[q].leafGeneration
     /\ \A u \in UseIds : leavesByPrincipal'[q].activeUses[u].kind = "running" =>
                            leavesByPrincipal[q].activeUses[u].kind = "running"

LEMMA EditShrinks ==
  ASSUME Ownership, NEW p \in Principals, NEW g \in LeafGenerations, NEW new \in LeafOfKind(AnyKinds),
         new.principal = p, new.leafGeneration = g, new.kind # "retiring",
         LiveLeaf(p, g).kind # "absent", ReplaceLeaf(new),
         \A u \in UseIds : new.activeUses[u].kind = "running" =>
                             LiveLeaf(p, g).activeUses[u].kind = "running"
  PROVE  \A q \in Principals : OnlyShrinks(q)
<1>1. TypeOK /\ LiveLeaf(p, g).leafGeneration = g /\ ~Present(AbsentLeaf)
  BY LiveLeafIdentity DEF Ownership, Present, AbsentLeaf
<1>2. CASE /\ LiveLeaf(p, g) = leavesByPrincipal[p]
           /\ leavesByPrincipal' = [leavesByPrincipal EXCEPT ![p] = new]
  <2>1. leavesByPrincipal'[p] = new /\ \A q \in Principals : q # p => leavesByPrincipal'[q] = leavesByPrincipal[q]
    BY <1>1, <1>2 DEF TypeOK
  <2>2. OnlyShrinks(p)
    BY <1>1, <1>2, <2>1 DEF OnlyShrinks, Present
  <2> QED BY <2>1, <2>2 DEF OnlyShrinks
<1>3. CASE \A q \in Principals : \/ leavesByPrincipal'[q] = leavesByPrincipal[q]
                                 \/ leavesByPrincipal'[q] = AbsentLeaf /\ AdmittedAt(q, g)
  BY <1>1, <1>3 DEF OnlyShrinks
<1> QED BY <1>2, <1>3, ReplaceLeafEffect

\* The commands a parent that is not registered lets through only shrink the
\* admitted leaves.
LEMMA SealedStep ==
  ASSUME Ownership, [Next]_vars, parent # "registered"
  PROVE  \A q \in Principals : OnlyShrinks(q)
<1>1. TypeOK /\ ~Present(AbsentLeaf) /\ ~AdmittingParent
  BY DEF Ownership, Present, AbsentLeaf, AdmittingParent
<1>2. CASE \/ UNCHANGED vars \/ RegisterParent \/ SealParent \/ RetireParent \/ PruneTombstones \/ Tick
  BY <1>2 DEF RegisterParent, SealParent, RetireParent, PruneTombstones, Tick, leafMaps, vars, OnlyShrinks
<1>3. ASSUME NEW p \in Principals, NEW g \in LeafGenerations, LeafCommand(p, g)
      PROVE  \A q \in Principals : OnlyShrinks(q)
  <2> DEFINE leaf == LiveLeaf(p, g)
  <2>1. leaf.kind # "absent" =>
          leaf \in LeafOfKind(AnyKinds) /\ leaf.principal = p /\ leaf.leafGeneration = g
    BY <1>1, LiveLeafFound, LiveLeafIdentity
  <2>2. ASSUME NEW k \in AnyKinds \ {"retiring"}, leaf.kind # "absent",
               ReplaceLeaf([leaf EXCEPT !.kind = k])
        PROVE  \A q \in Principals : OnlyShrinks(q)
    <3> DEFINE new == [leaf EXCEPT !.kind = k]
    <3>1. /\ new \in LeafOfKind(AnyKinds) /\ new.principal = p /\ new.leafGeneration = g
          /\ new.kind # "retiring" /\ new.activeUses = leaf.activeUses
      <4> HIDE DEF leaf
      <4> QED BY <2>1, <2>2 DEF LeafOfKind
    <3>2. ReplaceLeaf(new)
      BY <2>2
    <3> HIDE DEF new
    <3> QED BY <2>2, <3>1, <3>2, EditShrinks
  <2>3. CASE CommitCurrent(p, g) \/ Quarantine(p, g) \/ DestructionIncomplete(p, g)
             \/ RetryDestruction(p, g)
    <3> HIDE DEF leaf
    <3> QED BY <2>2, <2>3 DEF CommitCurrent, Quarantine, DestructionIncomplete,
               RetryDestruction, leaf, AnyKinds, AdmissionKinds, AccessFencingKinds
  <2>4. CASE BeginDestruction(p, g)
    <3> DEFINE new == [leaf EXCEPT !.kind = "destroying", !.activeUses = RolloverUses(leaf.activeUses)]
    <3>1. leaf.kind # "absent" /\ ReplaceLeaf(new)
      BY <2>4 DEF BeginDestruction
    <3>2. leaf \in LeafOfKind(AnyKinds) /\ leaf.activeUses \in ActiveUses
      BY <2>1, <3>1 DEF LeafOfKind
    <3>3. RolloverUses(leaf.activeUses) \in ActiveUses
      <4>1. CASE UseIds = {}
        BY <4>1 DEF RolloverUses, ActiveUses
      <4>2. CASE UseIds # {}
        BY <3>2, <4>2, EditedUses
      <4> QED BY <4>1, <4>2
    <3>4. /\ new \in LeafOfKind(AnyKinds) /\ new.principal = p /\ new.leafGeneration = g
          /\ new.kind # "retiring" /\ new.activeUses = RolloverUses(leaf.activeUses)
      <4> HIDE DEF leaf
      <4> QED BY <2>1, <3>1, <3>2, <3>3 DEF LeafOfKind, AnyKinds, AccessFencingKinds
    <3>5. \A u \in UseIds : new.activeUses[u].kind # "running"
      <4> HIDE DEF new, leaf
      <4> QED BY <3>4 DEF RolloverUses, AmbiguousUse, LiveUseKinds
    <3> HIDE DEF new
    <3> QED BY <3>1, <3>4, <3>5, EditShrinks
  <2>5. CASE AccessFenced(p, g) \/ \E t \in 0..now : DestructionCompleted(p, g, t)
    <3>1. leaf.kind # "absent" /\ RemoveAdmittedLeaf(leaf)
      BY <2>5 DEF AccessFenced, DestructionCompleted
    <3> QED BY <1>1, <2>1, <3>1, RemovedIsOfTheGeneration DEF OnlyShrinks
  <2> QED BY <1>1, <1>3, <2>3, <2>4, <2>5
          DEF LeafCommand, BeginProvisioning, RenewIdleExpiry, MarkSuspect, RestoreCurrent
<1>4. ASSUME NEW p \in Principals, NEW g \in LeafGenerations, NEW u \in UseIds, UseCommand(p, g, u)
      PROVE  \A q \in Principals : OnlyShrinks(q)
  <2> DEFINE leaf == LiveLeaf(p, g)
             use == AmbiguousUse(leaf.activeUses[u], "observation-gap-expired")
             uses == [leaf.activeUses EXCEPT ![u] = use]
             new == [leaf EXCEPT !.kind = "quarantined", !.activeUses = uses]
  <2>1. ExpireObservationGap(p, g, u)
    BY <1>1, <1>4 DEF UseCommand, StartActiveUse, ResumeActiveUse, EndActiveUse
  <2>2. leaf.kind # "absent" /\ ReplaceLeaf(new) /\ leaf.activeUses[u].kind # "absent"
    BY <2>1 DEF ExpireObservationGap
  <2>3. leaf \in LeafOfKind(AnyKinds) /\ leaf.principal = p /\ leaf.leafGeneration = g
    BY <1>1, <2>2, LiveLeafFound, LiveLeafIdentity
  <2>4. leaf.activeUses \in ActiveUses
    BY <2>3 DEF LeafOfKind
  <2>5. use \in ActiveUse /\ use.kind = "ambiguous"
    BY <2>2, <2>4, EditedUses DEF AmbiguityReasons, AmbiguousUse
  <2>6. /\ uses \in ActiveUses
        /\ \A v \in UseIds : uses[v].kind = "running" => leaf.activeUses[v].kind = "running"
    <3> HIDE DEF leaf, use
    <3> QED BY <2>4, <2>5 DEF ActiveUses
  <2>7. /\ new \in LeafOfKind(AnyKinds) /\ new.principal = p /\ new.leafGeneration = g
        /\ new.kind # "retiring" /\ new.activeUses = uses
    <3> HIDE DEF leaf, uses
    <3> QED BY <2>3, <2>6 DEF LeafOfKind, AnyKinds, AdmissionKinds
  <2> HIDE DEF new, uses
  <2> QED BY <2>2, <2>6, <2>7, EditShrinks
<1>5. ASSUME NEW e \in ProcessEpochs,
             ProcessEpochLost(e) \/ \E s \in SessionAttachments : SessionDisconnected(e, s)
      PROVE  \A q \in Principals : OnlyShrinks(q)
  BY <1>1, <1>5, LossEdit DEF OnlyShrinks, Present
<1> QED BY <1>2, <1>3, <1>4, <1>5 DEF Next

\* While the Gateway's parent is not registered, before it was or after it was
\* sealed, no command admits a leaf and none starts or resumes work.
THEOREM SealedCorrect == Spec => SealedParentAdmitsNothing
<1>1. Ownership /\ [Next]_vars =>
        [parent # "registered" =>
           \A p \in Principals, g \in LeafGenerations :
             AdmittedAt(p, g)' =>
               /\ AdmittedAt(p, g)
               /\ \A u \in UseIds :
                    leavesByPrincipal'[p].activeUses[u].kind = "running" =>
                      leavesByPrincipal[p].activeUses[u].kind = "running"]_vars
  <2> SUFFICES ASSUME Ownership, [Next]_vars, parent # "registered",
                      NEW p \in Principals, NEW g \in LeafGenerations, AdmittedAt(p, g)'
               PROVE  /\ AdmittedAt(p, g)
                      /\ \A u \in UseIds :
                           leavesByPrincipal'[p].activeUses[u].kind = "running" =>
                             leavesByPrincipal[p].activeUses[u].kind = "running"
    OBVIOUS
  <2>1. OnlyShrinks(p)
    BY SealedStep
  <2> QED BY <2>1 DEF OnlyShrinks, AdmittedAt
<1> QED BY <1>1, OwnershipCorrect, PTL DEF Spec, SealedParentAdmitsNothing
=============================================================================
