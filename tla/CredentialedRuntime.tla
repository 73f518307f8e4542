-------------------------- MODULE CredentialedRuntime -----------------------
(***************************************************************************)
(* The credentialed runtime manager of one zone                            *)
(* (controller/credentialed-runtime/): at most one VM per agent holds the  *)
(* agent's credentials and runs one configured command at a time.          *)
(*                                                                         *)
(* A task is one call of the manager: a command (acquireCommand, then exec *)
(* and complete of the handle it got) or an administrative call (retire,   *)
(* invalidateMaterial, closeZone, reapExpired).  A step of a task is what  *)
(* runs between two awaits; the keyed lock is the FIFO queue of an agent,  *)
(* whose head holds it.  A VM is named by the command that created it.     *)
(*                                                                         *)
(* Abstractions.  material stands for what makes a live VM compatible: the *)
(* runtime revision, the OAuth authorization and the owner identity.  Time *)
(* is left out: an idle VM may have expired or not.  A write of the record *)
(* store that fails may have taken effect.                                 *)
(***************************************************************************)
EXTENDS Naturals, Sequences

CONSTANTS
  Agents,       \* agents of the zone; each is a runtime key
  Commands,     \* operation ids of acquireCommand
  Admins,       \* administrative calls
  AdminKinds,   \* the kinds of administrative calls that are made
  None,         \* no agent, no command, no VM
  MaxMaterial,  \* bound of the number of credential changes
  MaxCrashes    \* bound of the number of controller crashes

ASSUME RuntimeAssumption ==
  /\ Commands \cap Admins = {}
  /\ None \notin Agents \cup Commands \cup Admins
  /\ AdminKinds \subseteq {"retire", "force-retire", "invalidate", "close", "reap"}
  /\ MaxMaterial \in Nat /\ MaxCrashes \in Nat

VARIABLES
  up,           \* the controller serves
  crashes,
  recovering,   \* agents whose record recoverZone has still to settle
  closed,       \* the zone is in closedZoneIds
  reserved,     \* reservedAcquisitionKeys
  known,        \* runtimeKeysByZoneId
  unsafe,       \* ownerUnsafeKeys
  live,         \* liveByKey: the VM and its active command
  retireAfter,  \* the VMs with a retireAfterActiveReason
  finished,     \* the commands whose finished promise is resolved
  queue,        \* the keyed lock: per agent the tasks that asked for it
  task,         \* per call: its progress
  vm,           \* per VM: its process
  record,       \* per agent: the durable record
  material      \* the current credential material

memory == <<reserved, known, unsafe, live, retireAfter, finished>>
vars == <<up, crashes, recovering, closed, memory, queue, task, vm, record, material>>

Tasks == Commands \cup Admins
NoLive == [vm |-> None, active |-> None]
NoVm == [state |-> "none", agent |-> None, material |-> 0]
NoRecord == [kind |-> "absent", vm |-> None, identity |-> FALSE]

\* A task of kind acquire becomes one of kind complete with the call of complete.
\* then: where a proven retirement leads; wait: the command waited for; todo:
\* the agents closeZone has still to drain; ok: no containment was unproven.
IdleTask ==
  [kind |-> "acquire", stage |-> "idle", agent |-> None, vm |-> None, then |-> "done",
   wait |-> None, material |-> 0, exec |-> "none", todo |-> {}, ok |-> TRUE]

NamesIdentity == {"identity-published", "current-active", "current-idle", "retiring"}

Init ==
  /\ up = TRUE /\ crashes = 0 /\ recovering = {} /\ closed = FALSE
  /\ reserved = {} /\ known = {} /\ unsafe = {}
  /\ live = [a \in Agents |-> NoLive]
  /\ retireAfter = {} /\ finished = {}
  /\ queue = [a \in Agents |-> <<>>]
  /\ task = [t \in Tasks |-> IdleTask]
  /\ vm = [v \in Commands |-> NoVm]
  /\ record = [a \in Agents |-> NoRecord]
  /\ material = 0

-----------------------------------------------------------------------------
(* The lock and the record store.                                          *)

Holds(t) ==
  LET a == task[t].agent
  IN  a \in Agents /\ queue[a] # <<>> /\ Head(queue[a]) = t

\* t holds the lock of its agent and has reached the await s.
At(t, s) == up /\ task[t].stage = s /\ Holds(t)

Joined(t, a) == [queue EXCEPT ![a] = Append(@, t)]
Left(t) == [queue EXCEPT ![task[t].agent] = Tail(@)]
Staged(t, s) == [task EXCEPT ![t].stage = s]

\* Mutant: the end of a command is not announced.
EndSilently(t, ok) ==
  /\ queue' = Left(t)
  /\ reserved' = IF task[t].kind = "acquire" THEN reserved \ {task[t].agent} ELSE reserved
  /\ finished' = finished
  /\ task' = [task EXCEPT ![t].stage = IF task[t].kind = "close" THEN "next" ELSE "done",
                          ![t].ok = @ /\ ok]

\* The lock section of t ends; ok is FALSE when the key is owner-unsafe.  The
\* acquisition gives its reservation up, and the end of a command is announced.
End(t, ok) ==
  LET kind == task[t].kind IN
  /\ queue' = Left(t)
  /\ reserved' = IF kind = "acquire" THEN reserved \ {task[t].agent} ELSE reserved
  /\ finished' = IF t \in Commands THEN finished \cup {t} ELSE finished
  /\ task' = [task EXCEPT ![t].stage = IF kind = "close" THEN "next" ELSE "done",
                          ![t].ok = @ /\ ok]

Stay == UNCHANGED <<queue, reserved, finished>>

RecordOf(t, kind) ==
  [kind |-> kind,
   vm |-> IF kind \in {"reserved", "creation-started"} THEN None ELSE task[t].vm,
   identity |-> kind \in NamesIdentity]

Written(t, kind) == [record EXCEPT ![task[t].agent] = RecordOf(t, kind)]
Deleted(a) == [record EXCEPT ![a] = NoRecord]

-----------------------------------------------------------------------------
(* retireLiveUnderLock and containUnstartedCreation.                       *)

\* The record says retiring before the VM is terminated, and a failure of that
\* write does not keep the VM alive.
WriteRetiring(t) ==
  /\ At(t, "retiring")
  /\ record' \in {record, Written(t, "retiring")}
  /\ task' = Staged(t, "terminating")
  /\ Stay
  /\ UNCHANGED <<up, crashes, recovering, closed, known, unsafe, live, retireAfter, vm, material>>

\* The exact process is gone, and with it the entry of liveByKey.
Terminated(t) ==
  /\ At(t, "terminating")
  /\ vm' = [vm EXCEPT ![task[t].vm].state = "gone"]
  /\ live' = [live EXCEPT ![task[t].agent] = NoLive]
  /\ task' = Staged(t, "clearing")
  /\ Stay
  /\ UNCHANGED <<up, crashes, recovering, closed, known, unsafe, retireAfter, record, material>>

\* Termination could not be proven, or the producer's staging could not be
\* retired after it: the key is fenced, in memory even when the record is not.
NotTerminated(t) ==
  /\ At(t, "terminating")
  /\ vm' \in {vm, [vm EXCEPT ![task[t].vm].state = "gone"]}
  /\ live' = [live EXCEPT ![task[t].agent] = NoLive]
  /\ unsafe' = unsafe \cup {task[t].agent}
  /\ record' \in {record, [Written(t, "owner-unsafe") EXCEPT ![task[t].agent].identity = TRUE]}
  /\ End(t, FALSE)
  /\ UNCHANGED <<up, crashes, recovering, closed, known, retireAfter, material>>

\* The VM that has no recorded identity is closed: its process is gone.
Closed(t) ==
  /\ At(t, "containing")
  /\ vm' = [vm EXCEPT ![task[t].vm].state = "gone"]
  /\ \/ task' = Staged(t, "clearing") /\ Stay
     \/ End(t, TRUE)   \* retireProducer threw: the acquisition rejects
  /\ UNCHANGED <<up, crashes, recovering, closed, known, unsafe, live, retireAfter, record,
                 material>>

NotClosed(t) ==
  /\ At(t, "containing")
  /\ unsafe' = unsafe \cup {task[t].agent}
  /\ record' \in {record, Written(t, "owner-unsafe")}
  /\ End(t, FALSE)
  /\ UNCHANGED <<up, crashes, recovering, closed, known, live, retireAfter, vm, material>>

\* contained-terminal is written and the record deleted.
Cleared(t) ==
  /\ At(t, "clearing")
  /\ record' = Deleted(task[t].agent)
  /\ IF task[t].then = "reserving"
       THEN task' = [task EXCEPT ![t].stage = "reserving", ![t].then = "done"] /\ Stay
       ELSE End(t, TRUE)
  /\ UNCHANGED <<up, crashes, recovering, closed, known, unsafe, live, retireAfter, vm, material>>

NotCleared(t) ==
  /\ At(t, "clearing")
  /\ record' \in {record, Written(t, "contained-terminal"), Deleted(task[t].agent)}
  /\ unsafe' = unsafe \cup {task[t].agent}
  /\ End(t, FALSE)
  /\ UNCHANGED <<up, crashes, recovering, closed, known, live, retireAfter, vm, material>>

-----------------------------------------------------------------------------
(* acquireCommand.  A call that is refused at once changes nothing.        *)

\* Mutant: the reservation of another acquisition is not looked at.
SlotFreeUnreserved(a) == live[a].active = None

SlotFree(a) == a \notin reserved /\ live[a].active = None

Acquire(c, a) ==
  /\ up /\ task[c].stage = "idle"
  /\ ~closed /\ SlotFree(a)
  /\ reserved' = reserved \cup {a}
  /\ known' = known \cup {a}
  /\ queue' = Joined(c, a)
  /\ task' = [task EXCEPT ![c].stage = "entered", ![c].agent = a]
  /\ UNCHANGED <<up, crashes, recovering, closed, unsafe, live, retireAfter, finished, vm, record,
                 material>>

RefusedUnderLock(c) == closed \/ task[c].agent \in unsafe

\* The checks are made again under the lock, and the credential is materialized.
Materialize(c) ==
  /\ At(c, "entered")
  /\ \/ ~RefusedUnderLock(c)
        /\ task' = [task EXCEPT ![c].stage = "probing", ![c].material = material]
        /\ Stay
     \/ End(c, TRUE)   \* refused, or the materialization failed
  /\ UNCHANGED <<up, crashes, recovering, closed, known, unsafe, live, retireAfter, vm, record,
                 material>>

Compatible(c, v) == vm[v].material = task[c].material

\* The process of a live VM is identified.  An incompatible or expired VM, or
\* one whose process is not the recorded one, makes room for a new one.
Probe(c) ==
  LET v == live[task[c].agent].vm IN
  /\ At(c, "probing")
  /\ \/ v = None /\ task' = Staged(c, "reserving")
     \/ v # None /\ vm[v].state = "running" /\ Compatible(c, v)
        /\ task' = [task EXCEPT ![c].stage = "authorizing", ![c].vm = v]
     \/ v # None
        /\ task' = [task EXCEPT ![c].stage = "retiring", ![c].vm = v, ![c].then = "reserving"]
  /\ Stay
  /\ UNCHANGED <<up, crashes, recovering, closed, known, unsafe, live, retireAfter, vm, record,
                 material>>

\* The records reserved and creation-started precede the VM.
WriteIntent(c) ==
  /\ \E step \in {<<"reserving", "reserved", "intending">>,
                  <<"intending", "creation-started", "creating">>} :
       /\ At(c, step[1])
       /\ \/ record' = Written(c, step[2]) /\ task' = Staged(c, step[3]) /\ Stay
          \/ record' \in {record, Written(c, step[2])} /\ End(c, TRUE)
  /\ UNCHANGED <<up, crashes, recovering, closed, known, unsafe, live, retireAfter, vm, material>>

\* createUnstartedCredentialedManagedVm: a VM without a process, or a failure
\* after which the record is deleted.
Create(c) ==
  /\ At(c, "creating")
  /\ \/ /\ vm' = [vm EXCEPT ![c] = [state |-> "created", agent |-> task[c].agent,
                                    material |-> task[c].material]]
        /\ task' = [task EXCEPT ![c].stage = "created", ![c].vm = c]
        /\ Stay /\ UNCHANGED record
     \/ record' \in {record, Deleted(task[c].agent)} /\ End(c, TRUE) /\ UNCHANGED vm
  /\ UNCHANGED <<up, crashes, recovering, closed, known, unsafe, live, retireAfter, material>>

\* Mutant: the VM starts although the record vm-created was not written.
WriteCreatedIgnored(c) ==
  /\ At(c, "created")
  /\ record' \in {record, Written(c, "vm-created")}
  /\ task' = Staged(c, "starting")
  /\ Stay
  /\ UNCHANGED <<up, crashes, recovering, closed, known, unsafe, live, retireAfter, vm, material>>

WriteCreated(c) ==
  /\ At(c, "created")
  /\ \/ record' = Written(c, "vm-created") /\ task' = Staged(c, "starting")
     \/ record' \in {record, Written(c, "vm-created")} /\ task' = Staged(c, "containing")
  /\ Stay
  /\ UNCHANGED <<up, crashes, recovering, closed, known, unsafe, live, retireAfter, vm, material>>

\* The VM is finalized and started; a failed start may leave a process.
Start(c) ==
  /\ At(c, "starting")
  /\ \/ task' = Staged(c, "identifying") /\ vm' = [vm EXCEPT ![c].state = "running"]
     \/ task' = Staged(c, "containing") /\ vm' \in {vm, [vm EXCEPT ![c].state = "running"]}
  /\ Stay
  /\ UNCHANGED <<up, crashes, recovering, closed, known, unsafe, live, retireAfter, record,
                 material>>

\* The host process is identified, or the VM is contained without identity.
Identify(c) ==
  /\ At(c, "identifying")
  /\ task' \in {Staged(c, s) : s \in {"containing"} \cup
                  (IF vm[c].state = "running" THEN {"publishing"} ELSE {})}
  /\ Stay
  /\ UNCHANGED <<up, crashes, recovering, closed, known, unsafe, live, retireAfter, vm, record,
                 material>>

WriteIdentity(c) ==
  /\ At(c, "publishing")
  /\ \/ record' = Written(c, "identity-published") /\ task' = Staged(c, "authorizing")
     \/ record' \in {record, Written(c, "identity-published")} /\ task' = Staged(c, "retiring")
  /\ Stay
  /\ UNCHANGED <<up, crashes, recovering, closed, known, unsafe, live, retireAfter, vm, material>>

\* finalMaterialAuthorization, after finalAuthorization.
StillAuthorized(c) == ~closed /\ task[c].material = material

\* The final authorization: the VM becomes the live one and gets its command,
\* or it is retired.
Authorize(c) ==
  LET a == task[c].agent
      v == task[c].vm
  IN
  /\ At(c, "authorizing")
  /\ \/ /\ StillAuthorized(c)
        /\ live' = [live EXCEPT ![a] = [vm |-> v, active |-> c]]
        /\ task' = Staged(c, "activating")
     \/ /\ live' = [live EXCEPT ![a] = [vm |-> v, active |-> None]]
        /\ task' = Staged(c, "retiring")
  /\ Stay
  /\ UNCHANGED <<up, crashes, recovering, closed, known, unsafe, retireAfter, vm, record, material>>

\* current-active is written; the handle is returned unless the zone was closed
\* or the admission was withdrawn while it was written.
WriteActive(c) ==
  LET a == task[c].agent IN
  /\ At(c, "activating")
  /\ \/ /\ ~closed
        /\ record' = Written(c, "current-active")
        /\ task' = Staged(c, "held")
        /\ queue' = Left(c)
        /\ reserved' = reserved \ {a}
        /\ UNCHANGED <<live, finished>>
     \/ /\ record' \in {record, Written(c, "current-active")}
        /\ live' = [live EXCEPT ![a].active = None]
        /\ finished' = finished \cup {c}
        /\ task' = Staged(c, "retiring")
        /\ UNCHANGED <<queue, reserved>>
  /\ UNCHANGED <<up, crashes, recovering, closed, known, unsafe, retireAfter, vm, material>>

-----------------------------------------------------------------------------
(* The handle: exec and complete.                                          *)

Exec(c) ==
  /\ up /\ task[c].stage = "held" /\ task[c].exec = "none"
  /\ StillAuthorized(c) /\ task[c].vm \notin retireAfter
  /\ task' = [task EXCEPT ![c].exec = "running"]
  /\ UNCHANGED <<up, crashes, recovering, closed, memory, queue, vm, record, material>>

ExecSettles(c) ==
  /\ up /\ task[c].exec = "running"
  /\ task' = [task EXCEPT ![c].exec = "settled"]
  /\ UNCHANGED <<up, crashes, recovering, closed, memory, queue, vm, record, material>>

\* The caller completes the command in a finally, whether or not it ran.
Complete(c) ==
  /\ up /\ task[c].stage = "held" /\ task[c].exec # "running"
  /\ task' = [task EXCEPT ![c].stage = "completing", ![c].kind = "complete"]
  /\ queue' = Joined(c, task[c].agent)
  /\ UNCHANGED <<up, crashes, recovering, closed, memory, vm, record, material>>

\* Under the lock the slot is freed, and the VM retired when the outcome, a
\* reason recorded meanwhile, or else a failed record asks for it.
Completing(c) ==
  LET a == task[c].agent IN
  /\ At(c, "completing")
  /\ \/ live[a].active # c /\ End(c, TRUE) /\ UNCHANGED live
     \/ /\ live[a].active = c
        /\ live' = [live EXCEPT ![a].active = None]
        /\ task' \in {Staged(c, s) : s \in {"retiring"} \cup
                        (IF live[a].vm \in retireAfter THEN {} ELSE {"idling"})}
        /\ Stay
  /\ UNCHANGED <<up, crashes, recovering, closed, known, unsafe, retireAfter, vm, record, material>>

WriteIdle(c) ==
  /\ At(c, "idling")
  /\ \/ record' = Written(c, "current-idle") /\ End(c, TRUE)
     \/ record' \in {record, Written(c, "current-idle")} /\ task' = Staged(c, "retiring") /\ Stay
  /\ UNCHANGED <<up, crashes, recovering, closed, known, unsafe, live, retireAfter, vm, material>>

-----------------------------------------------------------------------------
(* retire, invalidateMaterial, closeZone, openZone and reapExpired.        *)

\* invalidateMaterial names the material that was replaced.
BeginAdmin(t, kind, a) ==
  /\ up /\ task[t].stage = "idle"
  /\ kind \in AdminKinds \ {"close"}
  /\ kind = "invalidate" => material > 0
  /\ kind = "reap" => live[a].vm # None /\ live[a].active = None
  /\ task' = [task EXCEPT ![t] = [@ EXCEPT !.kind = kind, !.stage = "first", !.agent = a,
                                           !.material = material]]
  /\ queue' = Joined(t, a)
  /\ UNCHANGED <<up, crashes, recovering, closed, memory, vm, record, material>>

\* Mutant: only the keys with a live VM are drained.
BeginCloseOfLive(t) ==
  /\ up /\ task[t].stage = "idle" /\ "close" \in AdminKinds
  /\ \A u \in Admins : task[u].kind = "close" => task[u].stage = "done"
  /\ closed' = TRUE
  /\ task' = [task EXCEPT ![t].kind = "close", ![t].stage = "next",
                          ![t].todo = {a \in known : live[a].vm # None}]
  /\ UNCHANGED <<up, crashes, recovering, memory, queue, vm, record, material>>

\* closeZone: new calls are refused from here on, and the keys known now drained.
BeginClose(t) ==
  /\ up /\ task[t].stage = "idle" /\ "close" \in AdminKinds
  /\ \A u \in Admins : task[u].kind = "close" => task[u].stage = "done"
  /\ closed' = TRUE
  /\ task' = [task EXCEPT ![t].kind = "close", ![t].stage = "next", ![t].todo = known]
  /\ UNCHANGED <<up, crashes, recovering, memory, queue, vm, record, material>>

CloseNext(t) ==
  /\ up /\ task[t].kind = "close" /\ task[t].stage = "next"
  /\ \/ /\ task[t].todo = {}
        /\ task' = Staged(t, "done")
        /\ UNCHANGED queue
     \/ \E a \in task[t].todo :
          /\ task' = [task EXCEPT ![t].stage = "first", ![t].agent = a, ![t].todo = @ \ {a}]
          /\ queue' = Joined(t, a)
  /\ UNCHANGED <<up, crashes, recovering, closed, memory, vm, record, material>>

\* openZone: the next Gateway of the zone has started.
OpenZone ==
  /\ up /\ closed
  /\ \A t \in Admins : task[t].kind = "close" => task[t].stage = "done"
  /\ closed' = FALSE
  /\ UNCHANGED <<up, crashes, recovering, memory, queue, task, vm, record, material>>

\* Mutant: the newest of the replaced material is spared too.
ConcernsOlder(t, v) ==
  v # None /\ (task[t].kind = "invalidate" => vm[v].material + 1 < task[t].material)

\* The live VM is one the call is about: invalidation spares newer material.
Concerns(t, v) ==
  v # None /\ (task[t].kind = "invalidate" => vm[v].material < task[t].material)

\* The first lock section: without a VM of its concern the call is over, an
\* active command is waited for, and an idle VM is retired at once.
First(t) ==
  LET a == task[t].agent
      v == live[a].vm
      c == live[a].active
      kind == task[t].kind
  IN
  /\ At(t, "first")
  /\ \/ /\ kind # "close"
        /\ (a \in unsafe /\ kind # "reap") \/ ~Concerns(t, v)
             \/ (c # None /\ kind \in {"retire", "reap"})
        /\ End(t, ~(a \in unsafe))
        /\ UNCHANGED retireAfter
     \/ /\ kind \in {"force-retire", "invalidate", "close"}
        /\ Concerns(t, v) /\ c # None /\ (kind = "close" \/ a \notin unsafe)
        /\ retireAfter' = retireAfter \cup {v}
        /\ task' = [task EXCEPT ![t].stage = "waiting", ![t].wait = c]
        /\ queue' = Left(t)
        /\ UNCHANGED <<reserved, finished>>
     \/ /\ kind # "close"
        /\ Concerns(t, v) /\ c = None /\ (kind = "reap" \/ a \notin unsafe)
        /\ task' = [task EXCEPT ![t].stage = "retiring", ![t].vm = v]
        /\ Stay /\ UNCHANGED retireAfter
     \/ /\ kind = "close" /\ c = None
        /\ task' = [task EXCEPT ![t].stage = "waiting", ![t].wait = None]
        /\ queue' = Left(t)
        /\ UNCHANGED <<reserved, finished, retireAfter>>
  /\ UNCHANGED <<up, crashes, recovering, closed, known, unsafe, live, vm, record, material>>

\* Mutant: the call does not wait for the command that holds the VM.
AwaitNothing(t) ==
  /\ up /\ task[t].stage = "waiting"
  /\ task' = Staged(t, "second")
  /\ queue' = Joined(t, task[t].agent)
  /\ UNCHANGED <<up, crashes, recovering, closed, memory, vm, record, material>>

AwaitFinished(t) ==
  /\ up /\ task[t].stage = "waiting" /\ task[t].wait \in finished \cup {None}
  /\ task' = Staged(t, "second")
  /\ queue' = Joined(t, task[t].agent)
  /\ UNCHANGED <<up, crashes, recovering, closed, memory, vm, record, material>>

\* The second lock section retires the VM that is live by now, active or not.
Second(t) ==
  LET a == task[t].agent
      v == live[a].vm
  IN
  /\ At(t, "second")
  /\ IF a \in unsafe \/ ~Concerns(t, v)
       THEN End(t, a \notin unsafe)
       ELSE task' = [task EXCEPT ![t].stage = "retiring", ![t].vm = v] /\ Stay
  /\ UNCHANGED <<up, crashes, recovering, closed, known, unsafe, live, retireAfter, vm, record,
                 material>>

-----------------------------------------------------------------------------
(* The world: credentials change, processes exit, the controller crashes.  *)

ChangeMaterial ==
  /\ material < MaxMaterial
  /\ material' = material + 1
  /\ UNCHANGED <<up, crashes, recovering, closed, memory, queue, task, vm, record>>

VmExits(v) ==
  /\ vm[v].state = "running"
  /\ vm' = [vm EXCEPT ![v].state = "exited"]
  /\ UNCHANGED <<up, crashes, recovering, closed, memory, queue, task, record, material>>

\* Memory is lost, and with it a VM that has no process.
Crash ==
  /\ crashes < MaxCrashes
  /\ crashes' = crashes + 1
  /\ up' = FALSE
  /\ recovering' = {a \in Agents : record[a].kind # "absent"}
  /\ closed' = FALSE
  /\ reserved' = {} /\ known' = {} /\ unsafe' = {}
  /\ live' = [a \in Agents |-> NoLive]
  /\ retireAfter' = {} /\ finished' = {}
  /\ queue' = [a \in Agents |-> <<>>]
  /\ task' = [t \in Tasks |->
       IF task[t].stage \in {"idle", "done"} THEN task[t]
       ELSE [task[t] EXCEPT !.stage = "done", !.exec = "settled", !.ok = FALSE]]
  /\ vm' = [v \in Commands |-> IF vm[v].state = "created" THEN [vm[v] EXCEPT !.state = "gone"]
                               ELSE vm[v]]
  /\ UNCHANGED <<record, material>>

\* containCredentialedRuntimeRecords deletes the record of a VM that never
\* started or was contained.
Forgettable(r) == r.kind \in {"reserved", "creation-started", "contained-terminal"}

\* containCredentialedRuntimeRecords, one record; a failed write fails the start,
\* which begins again.
RecoverRecord(a) ==
  LET r == record[a] IN
  /\ ~up /\ a \in recovering
  /\ recovering' = recovering \ {a}
  /\ \/ Forgettable(r) /\ record' = Deleted(a) /\ UNCHANGED <<unsafe, vm>>
     \/ /\ ~Forgettable(r) /\ r.kind # "owner-unsafe" /\ r.identity
        /\ record' = Deleted(a)
        /\ vm' = [vm EXCEPT ![r.vm].state = "gone"]
        /\ UNCHANGED unsafe
     \/ /\ ~Forgettable(r)
        /\ record' = [record EXCEPT ![a].kind = "owner-unsafe"]
        /\ unsafe' = unsafe \cup {a}
        /\ UNCHANGED vm
  /\ UNCHANGED <<up, crashes, closed, reserved, known, live, retireAfter, finished, queue, task,
                 material>>

\* recoverZone has settled every record: the zones start.
Recovered ==
  /\ ~up /\ recovering = {}
  /\ up' = TRUE
  /\ known' = unsafe
  /\ UNCHANGED <<crashes, recovering, closed, reserved, unsafe, live, retireAfter, finished, queue,
                 task, vm, record, material>>

-----------------------------------------------------------------------------

TaskStep(t) ==
  \/ WriteRetiring(t) \/ Terminated(t) \/ NotTerminated(t) \/ Closed(t) \/ NotClosed(t)
  \/ Cleared(t) \/ NotCleared(t)
  \/ t \in Commands /\
       (\/ Materialize(t) \/ Probe(t) \/ WriteIntent(t) \/ Create(t) \/ WriteCreated(t)
        \/ Start(t) \/ Identify(t) \/ WriteIdentity(t) \/ Authorize(t) \/ WriteActive(t)
        \/ ExecSettles(t) \/ Complete(t) \/ Completing(t) \/ WriteIdle(t))
  \/ t \in Admins /\ (CloseNext(t) \/ First(t) \/ AwaitFinished(t) \/ Second(t))

Next ==
  \/ \E t \in Tasks : TaskStep(t)
  \/ \E c \in Commands : Exec(c) \/ VmExits(c) \/ \E a \in Agents : Acquire(c, a)
  \/ \E t \in Admins : BeginClose(t) \/ \E a \in Agents, kind \in AdminKinds : BeginAdmin(t, kind, a)
  \/ OpenZone \/ ChangeMaterial \/ Crash \/ Recovered
  \/ \E a \in Agents : RecoverRecord(a)

Spec == Init /\ [][Next]_vars

-----------------------------------------------------------------------------
(* Properties.                                                             *)

VmStates == {"none", "created", "running", "exited", "gone"}
RecordKinds == {"absent", "reserved", "creation-started", "vm-created", "contained-terminal",
                "owner-unsafe"} \cup NamesIdentity
Stages == {"idle", "entered", "probing", "reserving", "intending", "creating", "created",
           "starting", "identifying", "publishing", "authorizing", "activating", "held",
           "completing", "idling", "retiring", "terminating", "containing", "clearing",
           "next", "first", "waiting", "second", "done"}

\* The state of the manager, its calls, its VMs and its records has its type.
TypeOK ==
  /\ up \in BOOLEAN /\ crashes \in 0..MaxCrashes /\ closed \in BOOLEAN
  /\ recovering \subseteq Agents /\ reserved \subseteq Agents
  /\ known \subseteq Agents /\ unsafe \subseteq Agents
  /\ live \in [Agents -> [vm : Commands \cup {None}, active : Commands \cup {None}]]
  /\ retireAfter \subseteq Commands /\ finished \subseteq Commands
  /\ queue \in [Agents -> Seq(Tasks)]
  /\ \A t \in Tasks : task[t].stage \in Stages /\ task[t].agent \in Agents \cup {None}
  /\ \A v \in Commands : vm[v].state \in VmStates /\ vm[v].material \in 0..MaxMaterial
  /\ \A a \in Agents : record[a].kind \in RecordKinds /\ record[a].vm \in Commands \cup {None}
  /\ material \in 0..MaxMaterial

\* Whatever step the controller stops at, recoverZone finds a record that makes
\* it terminate or fence a VM that still runs: no record of an earlier or later
\* state of the VM's life is on disk while its process is.  An agent has one
\* record, so that this also gives it at most one running VM, over failed
\* terminations, failed records, crashes and recoveries.
RunningVmIsRecorded ==
  \A v \in Commands :
    vm[v].state = "running" =>
      /\ record[vm[v].agent].vm = v
      /\ ~Forgettable(record[vm[v].agent])

\* Once closeZone has resolved, and until openZone, no VM of the zone runs and
\* none is live: calls in flight when the zone was closed have been drained too,
\* although the keys were listed when it was.
ClosedZoneRunsNothing ==
  closed /\ (\E t \in Admins : task[t].kind = "close")
         /\ (\A t \in Admins : task[t].kind = "close" => task[t].stage = "done" /\ task[t].ok)
    => /\ \A v \in Commands : vm[v].state # "running"
       /\ \A a \in Agents : live[a] = NoLive

\* Once invalidateMaterial has answered without owner-unsafe, no VM of the agent
\* holds the material it named, also when an acquisition that had materialized
\* it was in flight.
InvalidatedMaterialIsGone ==
  \A t \in Admins :
    task[t].kind = "invalidate" /\ task[t].stage = "done" /\ task[t].ok =>
      \A v \in Commands :
        vm[v].agent = task[t].agent /\ vm[v].material < task[t].material =>
          vm[v].state # "running"

\* The reservation and the lock leave an acquisition alone with the agent's
\* runtime: the slot it is about to fill is not taken by another command.
AcquisitionOwnsTheSlot ==
  \A c \in Commands :
    task[c].kind = "acquire" /\ Holds(c) => live[task[c].agent].active \in {None, c}

Executing(v) == {c \in Commands : task[c].exec = "running" /\ task[c].vm = v}

\* A VM is terminated under a running command only by the forced retirement of
\* an operator: the reaper, an invalidation, another command or the close of the
\* zone wait until the command has ended.
OnlyForceInterruptsCommands ==
  [][\A v \in Commands :
       Executing(v) # {} /\ vm[v].state = "running" /\ vm'[v].state = "gone" =>
         \E t \in Admins : task[t].kind = "force-retire" /\ task[t].stage = "terminating"
                             /\ task[t].vm = v]_vars

\* No call of the manager waits for ever, whatever fails and whoever waits for
\* whom: closeZone and the retirements wait for commands that need the lock to
\* end.  While a call is unfinished some call can go on, and each has an end.
NoCallIsStuck ==
  (\E t \in Tasks : task[t].stage \notin {"idle", "done"}) => \E t \in Tasks : ENABLED TaskStep(t)

\* The lock and the closing of the zone are respected by calls already under way:
\* an acquisition is alone with its slot, and a closed zone runs nothing.
LockAndCloseHold == TypeOK /\ AcquisitionOwnsTheSlot /\ ClosedZoneRunsNothing
=============================================================================
