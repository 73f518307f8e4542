-------------------------- MODULE OAuthAuthorization --------------------------
(***************************************************************************)
(* One agent's authorization for one account and application: the stored   *)
(* record (oauth-catalog-repositories.ts) that ceremonies enrol, replace   *)
(* and disconnect (oauth-transaction-store.ts, google-oauth-broker-service *)
(* .ts, google-authorization-commit.ts, google-authorization-disconnect    *)
(* .ts), that commands read and refresh (google-runtime-credential-policy  *)
(* .ts, google-credential-refresh-coordinator.ts), and that a restarted    *)
(* controller settles (controller-oauth-runtime.ts).                       *)
(*                                                                         *)
(* Abstractions.  The credentialed runtime is the one of                   *)
(* CredentialedRuntime with one agent: an acquisition holds its lock from  *)
(* the resolution of the credential to the final authorization, an         *)
(* invalidation waits for that lock and for the command that runs.  A      *)
(* ceremony is about one application; owners, browsers and scopes agree.   *)
(* A credential has the generation of its record for a name, its material  *)
(* the revision that stored it, a transition the revision that began it.   *)
(* That a ceremony, its transaction or its session has expired is one flag *)
(* that becomes true.                                                      *)
(***************************************************************************)
EXTENDS Integers

CONSTANTS
  Ceremonies,
  MaxRevision   \* bounds the record's revisions

ASSUME RevisionAssumption == MaxRevision \in Nat

VARIABLES
  auth,       \* the row of oauth_agent_authorizations
  ceremony,
  runtime,    \* the acquisition under way, and the material in the VM
  broker      \* "open", "stopping" or "down"

vars == <<auth, ceremony, runtime, broker>>

NoCeremony == [at |-> "none", kind |-> "none", target |-> 0, expired |-> FALSE, gone |-> FALSE,
               seen |-> 0, through |-> 0, told |-> "no", commits |-> 0]
NoSnapshot == [generation |-> 0, revision |-> 0, material |-> 0]

\* of is the generation whose credential the stored material and state came from;
\* vm the generation of the material in the VM, 0 for none.
Init ==
  /\ auth = [state |-> "none", generation |-> 0, revision |-> 0, transition |-> 0,
             life |-> "active", material |-> 0, of |-> 0]
  /\ ceremony = [r \in Ceremonies |-> NoCeremony]
  /\ runtime = [stage |-> "free", snap |-> NoSnapshot, vm |-> 0, unsafe |-> FALSE]
  /\ broker = "open"

IsOpen == broker = "open"
CanWrite == auth.revision < MaxRevision

Ended(r, told) == [ceremony EXCEPT ![r].at = "done", ![r].told = told]

-----------------------------------------------------------------------------
(* Ceremonies, up to the claim                                             *)

MayBegin(kind) ==
  CASE kind = "enroll" -> TRUE
    [] kind = "reauthorize" -> auth.state = "connected"
    [] kind = "disconnect" -> auth.state \in {"connected", "replacing"}

Begin(r, kind) ==
  /\ IsOpen /\ ceremony[r].at = "none" /\ MayBegin(kind)
  /\ ceremony' = [ceremony EXCEPT ![r] = [NoCeremony EXCEPT !.at = "selecting", !.kind = kind,
                                            !.target = IF kind = "enroll" THEN 0 ELSE auth.generation]]
  /\ UNCHANGED <<auth, runtime, broker>>

\* submitPermissions
Submit(r) ==
  /\ IsOpen /\ ceremony[r].at = "selecting" /\ ~ceremony[r].expired
  /\ ceremony[r].kind # "disconnect"
  /\ ceremony' = [ceremony EXCEPT ![r].at = "authorizing"]
  /\ UNCHANGED <<auth, runtime, broker>>

\* contextFailure: whether the ceremony is still about what it began with.
Stands(r) ==
  /\ IsOpen /\ ~ceremony[r].expired
  /\ ceremony[r].kind = "reauthorize" =>
       auth.state = "connected" /\ auth.generation = ceremony[r].target

\* handleGoogleCallback, up to the exchange of the code.
Callback(r) ==
  /\ IsOpen /\ ceremony[r].at = "authorizing" /\ ~ceremony[r].expired
  /\ ceremony' = IF Stands(r) THEN [ceremony EXCEPT ![r].at = "consuming"] ELSE Ended(r, "failed")
  /\ UNCHANGED <<auth, runtime, broker>>

Enrollable == auth.state \in {"none", "disconnected"}

\* The exchange is over: what happened meanwhile wins, a failed exchange is tried
\* again with another transaction, a candidate waits for its owner.
ExchangeEnds(r, ok) ==
  /\ ceremony[r].at = "consuming"
  /\ ceremony' =
       CASE ~Stands(r) \/ ceremony[r].gone -> Ended(r, IF IsOpen THEN "failed" ELSE ceremony[r].told)
         [] OTHER -> IF ~ok THEN [ceremony EXCEPT ![r].at = "authorizing"]
                     ELSE IF ceremony[r].kind = "enroll" /\ ~Enrollable THEN Ended(r, "failed")
                     ELSE [ceremony EXCEPT ![r].at = "awaiting"]
  /\ UNCHANGED <<auth, runtime, broker>>

-----------------------------------------------------------------------------
(* Cancellation and expiry                                                 *)

\* Mutant: a ceremony that is being committed can be cancelled too.
CancelInCommit(r) ==
  /\ IsOpen /\ ceremony[r].at \in {"selecting", "authorizing", "awaiting", "committing"}
  /\ ceremony' = IF ceremony[r].at = "committing" THEN [ceremony EXCEPT ![r].told = "cancelled"]
                 ELSE Ended(r, "cancelled")
  /\ UNCHANGED <<auth, runtime, broker>>

\* cancelPendingTransaction and the browser's cancellation of one ceremony: while
\* it is in the store and neither exchanged nor committed.
Cancel(r) ==
  /\ IsOpen /\ ceremony[r].at \in {"selecting", "authorizing", "awaiting"}
  /\ ceremony' = Ended(r, "cancelled")
  /\ UNCHANGED <<auth, runtime, broker>>

\* cancelBrowserCeremonies also takes the transaction of an exchange that goes on.
CancelAll ==
  /\ IsOpen
  /\ ceremony' = [r \in Ceremonies |->
       IF ceremony[r].at \in {"selecting", "authorizing", "awaiting"} THEN Ended(r, "cancelled")[r]
       ELSE IF ceremony[r].at = "consuming" /\ ~ceremony[r].gone
            THEN [ceremony[r] EXCEPT !.gone = TRUE, !.told = "cancelled"]
       ELSE ceremony[r]]
  /\ ceremony' # ceremony
  /\ UNCHANGED <<auth, runtime, broker>>

Expire(r) ==
  /\ ceremony[r].at \notin {"none", "done"} /\ ~ceremony[r].expired
  /\ ceremony' = [ceremony EXCEPT ![r].expired = TRUE]
  /\ UNCHANGED <<auth, runtime, broker>>

\* reap: what has expired and is not being committed or exchanged is dropped; its
\* status is not known any more.
Reap(r) ==
  /\ ceremony[r].expired /\ ceremony[r].at \in {"selecting", "authorizing", "awaiting"}
  /\ ceremony' = [ceremony EXCEPT ![r] = NoCeremony]
  /\ UNCHANGED <<auth, runtime, broker>>

Forget(r) ==
  /\ ceremony[r].at = "done"
  /\ ceremony' = [ceremony EXCEPT ![r] = NoCeremony]
  /\ UNCHANGED <<auth, runtime, broker>>

-----------------------------------------------------------------------------
(* The claim, the commit, the containment and the settlement               *)

\* confirmAccount and confirmDisconnect: the claim is followed by the reading of
\* the record; then the commit waits for the publication lock.
Confirm(r) ==
  /\ IsOpen /\ ~ceremony[r].expired
  /\ ceremony[r].at = (IF ceremony[r].kind = "disconnect" THEN "selecting" ELSE "awaiting")
  /\ LET fits == CASE ceremony[r].kind = "enroll" -> Enrollable
                   [] ceremony[r].kind = "reauthorize" -> Stands(r)
                   [] ceremony[r].kind = "disconnect" -> auth.generation = ceremony[r].target
     IN  ceremony' = IF fits THEN [ceremony EXCEPT ![r].at = "committing", ![r].seen = auth.revision]
                     ELSE Ended(r, "failed")
  /\ UNCHANGED <<auth, runtime, broker>>

\* What the transaction of the commit checks.
Commits(r) ==
  /\ auth.revision = ceremony[r].seen
  /\ CASE ceremony[r].kind = "enroll" -> Enrollable
       [] ceremony[r].kind = "reauthorize" -> auth.state = "connected"
       [] ceremony[r].kind = "disconnect" -> auth.state \in {"connected", "replacing"}

\* commitEnrollmentGrant, replaceAuthorization and disconnectAuthorization.
Written(kind) ==
  LET n == auth.revision + 1
      g == auth.generation + 1
  IN  [state |-> CASE kind = "enroll" -> "connected"
                   [] kind = "reauthorize" -> "replacing"
                   [] kind = "disconnect" -> "disconnecting",
       generation |-> g, revision |-> n, transition |-> n,
       life |-> IF kind = "disconnect" THEN auth.life ELSE "active",
       material |-> IF kind = "disconnect" THEN 0 ELSE n, of |-> g]

Commit(r) ==
  /\ ceremony[r].at = "committing" /\ CanWrite
  /\ IF IsOpen /\ ~ceremony[r].expired /\ Commits(r)
     THEN /\ auth' = Written(ceremony[r].kind)
          /\ ceremony' = IF ceremony[r].kind = "enroll"
               THEN [Ended(r, "completed") EXCEPT ![r].commits = @ + 1]
               ELSE [ceremony EXCEPT ![r].at = "containing", ![r].commits = @ + 1,
                                     ![r].seen = auth'.revision, ![r].through = auth.generation]
     ELSE UNCHANGED auth /\ ceremony' = Ended(r, IF IsOpen THEN "failed" ELSE ceremony[r].told)
  /\ UNCHANGED <<runtime, broker>>

\* Mutant: only the generation that was replaced last is contained.
ContainsOne(v, g) == v = g

\* invalidateMaterial of an authorization, through a generation.
Contains(v, g) == v # 0 /\ v <= g

\* containAuthorizationMaterial: it has the lock of the runtime.  A runtime whose
\* ownership is unsafe cannot be contained before a restart.
Contain(r, ok) ==
  /\ ceremony[r].at = "containing" /\ runtime.stage = "free"
  /\ LET concerned == Contains(runtime.vm, ceremony[r].through)
         done == ~runtime.unsafe /\ (concerned => ok)
     IN  /\ runtime' = [runtime EXCEPT !.vm = IF concerned /\ done THEN 0 ELSE @,
                                       !.unsafe = @ \/ ~done]
         /\ ceremony' = IF done THEN [ceremony EXCEPT ![r].at = "settling"]
                        ELSE Ended(r, IF IsOpen THEN "containment-failed" ELSE ceremony[r].told)
  /\ UNCHANGED <<auth, broker>>

Settled == [auth EXCEPT !.state = IF @ = "replacing" THEN "connected" ELSE "disconnected",
                        !.revision = @ + 1]

\* settleAuthorizationTransition: the revision, the transition and the state.
Settles(r) ==
  /\ auth.revision = ceremony[r].seen /\ auth.transition = ceremony[r].seen
  /\ auth.state \in {"replacing", "disconnecting"}

Settle(r) ==
  /\ ceremony[r].at = "settling" /\ CanWrite
  /\ IF IsOpen /\ Settles(r)
     THEN auth' = Settled /\ ceremony' = Ended(r, "completed")
     ELSE /\ UNCHANGED auth
          /\ ceremony' = Ended(r, CASE ~IsOpen -> ceremony[r].told
                                    [] IsOpen /\ ceremony[r].kind = "disconnect" -> "disconnecting"
                                    [] OTHER -> "failed")
  /\ UNCHANGED <<runtime, broker>>

-----------------------------------------------------------------------------
(* Commands: resolveRuntimeCredential, the refresh and the authorization   *)

\* Mutant: the credential of a record that is being replaced can be read.
ReadableEarly == auth.state \in {"connected", "replacing"}

\* connectedGrant
Readable == auth.state = "connected"

Snapshot == [generation |-> auth.generation, revision |-> auth.revision, material |-> auth.material]

\* An acquisition reads the grant: its token is still good, and goes into the VM,
\* or it has to be refreshed first.
Resolve(good) ==
  /\ IsOpen /\ runtime.stage = "free" /\ ~runtime.unsafe
  /\ Readable /\ auth.life # "reauthorize"
  /\ good => auth.life = "active"
  /\ runtime' = [runtime EXCEPT !.stage = IF good THEN "authorizing" ELSE "refreshing",
                                !.snap = Snapshot,
                                !.vm = IF good THEN auth.generation ELSE @]
  /\ UNCHANGED <<auth, ceremony, broker>>

\* Mutant: the record is found by its account, not by the credential and revision.
StoresByAccount(s) == auth.state \in {"connected", "replacing"}

\* replaceGrantEnvelope: the credential, still connected, at the revision read.
Stores(s) == Readable /\ auth.generation = s.generation /\ auth.revision = s.revision

Free == [runtime EXCEPT !.stage = "free", !.snap = NoSnapshot]

\* refreshAuthorization is over.  Material that was refreshed goes into the VM when
\* the record still has it; a refusal and a failure are stored as well.
RefreshEnds(life) ==
  /\ runtime.stage = "refreshing" /\ CanWrite
  /\ IF IsOpen /\ Stores(runtime.snap)
     THEN LET n == auth.revision + 1 IN
          /\ auth' = [auth EXCEPT !.revision = n, !.life = life, !.of = runtime.snap.generation,
                                  !.material = IF life = "active" THEN n ELSE @]
          /\ runtime' = IF life # "active" THEN Free
                        ELSE [runtime EXCEPT !.stage = "authorizing", !.vm = runtime.snap.generation,
                               !.snap = [@ EXCEPT !.revision = n, !.material = n]]
     ELSE UNCHANGED auth /\ runtime' = Free
  /\ UNCHANGED <<ceremony, broker>>

\* validateRuntimeCredentialSnapshot
StillCurrent(s) ==
  /\ IsOpen /\ Readable /\ auth.life = "active"
  /\ auth.generation = s.generation /\ auth.material = s.material

\* finalMaterialAuthorization; a VM whose material is not authorized is contained.
Authorize(ok) ==
  /\ runtime.stage = "authorizing"
  /\ LET use == StillCurrent(runtime.snap)
     IN  runtime' = [Free EXCEPT !.vm = IF use \/ ~ok THEN @ ELSE 0, !.unsafe = @ \/ (~use /\ ~ok)]
  /\ UNCHANGED <<auth, ceremony, broker>>

\* The runtime is retired for reasons of its own.
Retire ==
  /\ runtime.stage = "free" /\ runtime.vm # 0 /\ ~runtime.unsafe
  /\ runtime' = [runtime EXCEPT !.vm = 0]
  /\ UNCHANGED <<auth, ceremony, broker>>

-----------------------------------------------------------------------------
(* Shutdown, crash and restart                                             *)

\* stopAdmission: only what is in flight goes on.
StopAdmission ==
  /\ broker = "open" /\ broker' = "stopping"
  /\ ceremony' = [r \in Ceremonies |->
       IF ceremony[r].at \in {"consuming", "committing", "containing", "settling"} THEN ceremony[r]
       ELSE NoCeremony]
  /\ UNCHANGED <<auth, runtime>>

Crash ==
  /\ broker # "down" /\ broker' = "down"
  /\ ceremony' = [r \in Ceremonies |-> NoCeremony]
  /\ runtime' = [Free EXCEPT !.unsafe = FALSE]
  /\ UNCHANGED auth

\* Mutant: the record is settled without the old runtime being contained.
RecoversEarly == runtime

\* recoverZone, which must contain what the last process has left.
Recovered == [runtime EXCEPT !.vm = 0]

\* Startup: recoverZone, then activateAfterRuntimeCleanup settles a transition that
\* the last process began.
Restart ==
  /\ broker = "down" /\ CanWrite /\ broker' = "open"
  /\ runtime' = Recovered
  /\ auth' = IF auth.state \in {"replacing", "disconnecting"} THEN Settled ELSE auth
  /\ UNCHANGED ceremony

Next ==
  \/ \E r \in Ceremonies :
       \/ \E kind \in {"enroll", "reauthorize", "disconnect"} : Begin(r, kind)
       \/ \E ok \in BOOLEAN : ExchangeEnds(r, ok) \/ Contain(r, ok)
       \/ Submit(r) \/ Callback(r) \/ Cancel(r) \/ Expire(r) \/ Reap(r) \/ Forget(r)
       \/ Confirm(r) \/ Commit(r) \/ Settle(r)
  \/ \E good \in BOOLEAN : Resolve(good) \/ Authorize(good)
  \/ \E life \in {"active", "degraded", "reauthorize"} : RefreshEnds(life)
  \/ CancelAll \/ Retire \/ StopAdmission \/ Crash \/ Restart

Spec == Init /\ [][Next]_vars

-----------------------------------------------------------------------------
(* Properties                                                              *)

\* The record, the ceremonies and the runtime have their types; a ceremony commits
\* at most once.
TypeOK ==
  /\ auth \in [state : {"none", "connected", "replacing", "disconnecting", "disconnected"},
               generation : 0 .. MaxRevision, revision : 0 .. MaxRevision,
               transition : 0 .. MaxRevision, life : {"active", "degraded", "reauthorize"},
               material : 0 .. MaxRevision, of : 0 .. MaxRevision]
  /\ ceremony \in [Ceremonies ->
       [at : {"none", "selecting", "authorizing", "consuming", "awaiting", "committing",
              "containing", "settling", "done"},
        kind : {"none", "enroll", "reauthorize", "disconnect"}, target : 0 .. MaxRevision,
        expired : BOOLEAN, gone : BOOLEAN, seen : 0 .. MaxRevision, through : 0 .. MaxRevision,
        told : {"no", "failed", "cancelled", "completed", "containment-failed", "disconnecting"},
        commits : 0 .. 1]]
  /\ runtime \in [stage : {"free", "refreshing", "authorizing"}, vm : 0 .. MaxRevision,
                  snap : [generation : 0 .. MaxRevision, revision : 0 .. MaxRevision,
                          material : 0 .. MaxRevision], unsafe : BOOLEAN]
  /\ broker \in {"open", "stopping", "down"}

\* While an authorization is connected or disconnected, nothing runs with an older
\* credential of it: a replacement or a disconnection is settled only after the
\* material of every earlier generation is gone, by the ceremony that began it or by
\* the restart, whatever was acquired, replaced or disconnected in between.
SettledMeansContained ==
  /\ auth.state = "connected" => runtime.vm \in {0, auth.generation}
  /\ auth.state \in {"none", "disconnected"} => runtime.vm = 0

\* A ceremony whose owner or agent was told that it is cancelled changes nothing
\* afterwards, and the one that commits does so once.
CancelledNeverCommits ==
  \A r \in Ceremonies : ceremony[r].told = "cancelled" => ceremony[r].commits = 0

\* What is stored came from the credential that the record names, and a refresh
\* under way for a record that is still connected will be stored: the material the
\* provider hands out is neither put into another grant nor thrown away for one
\* that has not changed.
RefreshIsOfTheRecord ==
  /\ auth.material # 0 => auth.of = auth.generation
  /\ runtime.stage = "refreshing" /\ Readable /\ auth.generation = runtime.snap.generation =>
       auth.revision = runtime.snap.revision

\* A settled authorization has nothing running with an older credential, and what
\* is stored of it, or will be, came from the credential it names.
AuthorizationIsContained ==
  /\ TypeOK
  /\ SettledMeansContained
  /\ RefreshIsOfTheRecord
=============================================================================
