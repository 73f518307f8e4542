# A formal model of the agent-vm controller

agent-vm runs coding agents inside virtual machines. One *controller* process on
the host owns everything: per *zone* a *Gateway VM*, in which the agent
framework runs, and per agent a *Tool VM*, leased to the Gateway over SSH, in
which the agent's commands run. The Gateway talks to the controller over a
control socket; the controller decides who may have a VM, what may run, what
was approved, and what has to be destroyed before something new may begin.

The controller is a single event loop. Its difficulty is not parallel threads
but *await points*: every operation is cut into ticks, other operations run
between them, every awaited call (the VM adapter, `ps`, a file) may fail or
hang, timers end what is still running, and the process or the machine may stop
between any two ticks. The modules in this directory model the parts of the
controller that keep authority over VMs and commands under these conditions.

Paths below are relative to `src/packages/agent-vm/src/controller/` unless they
begin with a package's name or with `docs/`.

## Inventory

| Component | State | Operations | Interacts with |
|---|---|---|---|
| Tool VM lease authority (`leases/tool-vm-lease-authority-state.ts`) | parent, leaves by principal, agent index, fencing and retiring leaves, tombstones of leaves and of uses | a pure reducer of some twenty commands | the runtime (`tool-vm-lease-authority-runtime.ts`) applies it |
| Lease manager (`leases/lease-manager.ts`) | per leaf a clean-up context and a retained resource, per agent a FIFO lock, the TCP pool, creations under way | create, reuse, replace, release, evict, renew, uses, sweep of a Gateway | authority, coordinator, TCP pool, VM adapter, runtime records |
| Gateway ownership (`vm-ownership/`) | per zone a Gateway epoch with its children, seal barrier, destruction budget | begin epoch, contain, attach, admit/commit/fence/destroy a child, seal, retire, destroyLive | zone runtime above, lease manager below |
| Semantic result ledger (`control-session/gateway-semantic-result-ledger.ts`) | active entries with their promise, tombstones, order counter | execute (join, refuse, run), prune, evict | control RPC handlers run commands through it |
| Approval ledger (`approval/controller-approval-ledger.ts`) | one durable record per intent and controller epoch | request, approve, deny, revoke, arm | durable record store, policy service |
| Crash-durable record store (`durable-state/`) | record files, a queue of mutations per record | mutateRecord: load, write, rename, sync | approval ledger, credentialed runtime |
| Control session (`control-session/`, `packages/gateway-control-contracts`) | the client's attempts, timers and evidence of loss; queues, accounts and pump of the admission; zones and sessions of the process; cache of command results | dial, hello, heartbeat, lose, close; enqueue, take, complete, cancel; register, replace; dispatch | ledgers, lease RPC, health monitor |
| Credentialed runtime manager (`credentialed-runtime/`) | durable runtime records, live runtimes, reservations, a lock per agent | acquire, execute, complete, retire, invalidate, reap, close, recover at start-up | record store, VM adapter, OAuth |
| Zone runtime (`zone-runtimes/`, `../gateway/gateway-zone-orchestrator.ts`) | handle, state and generation of a zone, a FIFO lock | start, stop, restart, refresh, cold start, recover | Gateway ownership |
| Health and recovery (`health/`) | latest events, strikes, budgets, stabilization, grace of a dead session | tick, probe, decide, recover, stop | zone runtime, control session |
| OAuth authorizations (`packages/oauth-broker`, `oauth/`) | a record with revision, generation and transition; ceremonies; credential material | enrol, reauthorize, disconnect, cancel, refresh, contain, settle at restart | credentialed runtime |
| Ownership lock (`vm-ownership/controller-ownership-lock.ts`) | an SQLite transaction | acquire, release | start-up |
| Files, runners, git, HTTP | staging directories, registries, sessions | file copies, subprocesses, routes | the parts above |
| Other packages | gateway runtime, portals, adapters, schemas | in-guest processes, schemas, protocol adaptation | the controller's APIs |

What is hard, and what makes each part correct:

* **Lease authority.** Commands arrive late, repeated, and across rollovers of a
  leaf. A leaf must be in exactly one map, never be dropped before its
  destruction was proved, never get access back; an agent has one admitted
  leaf; work whose end was not observed must not be started again.
* **Lease manager.** Between two awaits of a creation or a replacement the VM may
  exit, the Gateway may be sealed, the predecessor's fence may fail. One VM
  serves an agent, slots are neither shared nor lost, a reachable VM has a
  durable record, a retired Gateway leaves nothing, nobody waits in a circle.
* **Gateway ownership.** destroyLive races its own deadline and everything below
  it. A Gateway VM goes after its children, a successor begins when nothing of
  its predecessor runs, what cannot be proved destroyed stays contained.
* **Semantic ledger.** Tables are bounded, handlers are slow, and a retry may find
  its entry pending, done, evicted, or gone. A command is run once.
* **Approval ledger.** Two callers, policy saves during I/O, failing writes and
  restarts. One grant per approval, from current authority, and no answer lost.
* **Credentialed runtime.** Five records are written around one VM creation, the
  controller may stop between any two, and an invalidation, a retirement or the
  close of the zone may come at any await. A running VM is named by a record that
  makes the restart end it; invalidated material runs nowhere.
* **Zone runtime and recovery.** A deadline ends an operation whose VM creation
  goes on, and the next operation starts beside it. One Gateway serves a zone, a
  start that timed out is never published, every call is answered. Recoveries do
  not overlap, are decided on evidence of the present Gateway, and a dead Gateway
  is recovered or reported.
* **Control session.** Sockets, hellos, timers and results of replaced attempts
  arrive late; accounts are kept on several paths. Nothing is counted twice or
  forgotten, a caller is told one thing, a loss is reported, a client never stops
  dialling.
* **OAuth authorizations.** A commit, a refresh, a disconnection and a command's
  acquisition all read the record before an await. A settled record means that no
  older credential is in a VM, and a cancelled ceremony changes nothing.

`PROJECT.json` lists the hazards line by line with the properties that cover
them.

## Modules

```
ToolVmLeaseAuthority      the reducer                        ToolVmLeaseAuthorityProofs
GatewayOwnership          coordinator, lifecycle, deadline   GatewayOwnershipProofs
   ^ refined by
ToolVmLeaseManager        lease manager, runtime, pool,      ToolVmLeaseManagerProofs
                          composed with GatewayOwnership
SemanticResultLedger      at-most-once execution             SemanticResultLedgerProofs
ControllerApprovalLedger  approvals over the record store    ControllerApprovalLedgerProofs
CredentialedRuntime       credentialed VMs, crash, recovery  CredentialedRuntimeProofs
ZoneRuntime               operations of a zone, its recovery \ ZoneRuntimeProofs
GatewayRecovery           health monitor and recovery policy /
ControlAdmissionExecutor  admission of one attachment   \
ControlProcessAdmission   admission of the process       |
ControlSessionDispatcher  results of delivered commands  | ControllerParts
DisposableControlClient   the reconnecting client        | ControllerPartsProofs
OAuthAuthorization        authorizations of an account  /
RoundRobin                the rounds of both admissions
MC*                       instances for TLC
```

**ToolVmLeaseAuthority** keeps the reducer's maps as variables of the same
names. An action is a command under the conditions in which the reducer returns
a new state; a refused command is a stutter. A lease id is represented by its
leaf generation. Bindings, reports and digests are payload.

**GatewayOwnership** holds the membership of the zone's current epoch as one
record, and each coordinator method is an operator on it (`Admit`,
`CommitCurrent`, `SealGatewayEpoch`, ...), so that the composition can apply
two methods in the tick in which the code does. `gatewayVm` and `toolVm` are the
machines, which no code reads: properties compare records with them. The lease
manager is an unconstrained environment here, save that it reports a fence only
of a process that is gone.

**ToolVmLeaseManager** is the lease manager tick by tick: `op[a]` is the
operation holding agent a's lock and the await it has reached; `lease[g]` joins
the authority's view of a leaf, its retained resource and clean-up context;
`sweep` is destroyGatewayOwnedLeases; per agent it walks a list of leaves read
before its awaits (`sweep.snapshot`, oldest leaf first), and a listed leaf that a
background clean-up has ended meanwhile makes the sweep fail although nothing of it
is left (`ListedLeafGone`). Leaves are numbers in the order in which they are used,
which is the order of the list. The module shares the Gateway variables with
GatewayOwnership, applies its operators, and is checked to implement it through
`toolVm <- ToolVmOf`. Uses of a leaf are one value (the worst of them); time is
nondeterministic.

**SemanticResultLedger** numbers the runs of handlers by the code's `order`
counter. `ledger` holds both tables; `run` and `verdict` are history: when a
run started, for which command, and what any caller was told of it.

**ControllerApprovalLedger** follows one intent. Its record id contains the
controller epoch, so there is one record per process. `visible` is the
directory as the process sees it, `durable` what survives the machine; a call
stops at the record lock, before the rename, before the directory's sync and
before its answer. `handedOut` and `grants` are history of the answers.

**CredentialedRuntime** has a task for each call of the manager: a command, from
acquireCommand over exec to complete, or an administrative call. A stage is an
await, `queue[a]` is the FIFO of the keyed lock, and `record[a]` is the durable
record, whose write may fail and still have taken effect. `Crash` loses the
memory, `recovering` is recoverZone's work. A VM is named by the command that
created it.

**ZoneRuntime** follows the operations of one zone. `queue` is the promise chain
of the lifecycle lock; an operation whose deadline passed leaves it when its
pending VM creation is contained, and runs on. A start that finds itself overtaken
closes its Gateway, and the zone is recorded as failed some awaits after that Gateway is
retired (`StartedClosed`, `ClosureRecorded`), also over a successor that was published
in between. `zone` is what the runtime keeps,
`proc` and `epoch` what the host and the ownership coordinator have. The recovery
runner is an operation of kind `recover` with a deadline.

**GatewayRecovery** is one zone's monitor and tracker. Time is kept as ages that
stop where no comparison tells them apart, so the module is finite without a bound
of the clock. A Gateway's identity is reused when nothing remembers it. One report
may be older than the monitor (`event.early`): the code attributes it to the
Gateway that runs at the first tick, and `EvidenceIsOfThisGateway` excepts it.

**ControlAdmissionExecutor** and **ControlProcessAdmission** are the two levels of
admission. The first has the queues by class and principal with their cursors, the
accounts, the pump and close; the second has zones, sessions that replace each
other, tokens and the account of the whole process, with the first taken by its
answers. All frames have one size, so the byte limits follow the message limits.
**RoundRobin** has what the code repeats for classes, principals and zones: a cursor in
a list, the first element from there with work, and the cursor after a splice.

**ControlSessionDispatcher** is dispatch around its two awaits: the preparation of
a mutation, which goes to SemanticResultLedger, and the execution of a command,
whose result is cached. The cache is a set of entries, numbered in the order in which
they were inserted.

**DisposableControlClient** keeps the client's variables in one record, on which
its inner functions (`Evidence`, the loss of an attempt, the scheduling of a dial)
are operators, because one callback runs several of them. A command waits twice: for
its turn in the process, which outlives the attachment (`HandOn` answers it then, or
the close of the client does), and in the executor of the attachment, which answers
it in the step that destroys the attempt.

**OAuthAuthorization** is the record of one agent, account and application with
several ceremonies on it, the acquisition of a credential by a command and the
restart. Two mechanisms protect a commit and a refresh, the comparison of revisions
in the catalog's transaction and the lock of the runtime. `of`, `told` and
`commits` are history.

**ControllerParts** joins the last five. They share no state, so a variable `part`
chooses which of them a behaviour is about and the others rest: the state space of
MCControllerParts is the sum of theirs, not the product.

## Runs

| Run | Instance | Checks |
|---|---|---|
| authority | 1 agent with 2 profile revisions, 2 generations, 2 uses, 2 processes, 2 attachments | Ownership, WorkIsAttributable, LeavesAreHeldUntilDestroyed, SealedParentAdmitsNothing |
| ownership | 2 agents, 3 leaves, 2 epochs, the deadline fair | NothingOutlivesItsGateway, MembershipIsSound, ContainmentIsKept, DestructionIsAnswered |
| manager_safety | 1 agent, 3 leaves, 2 slots | OneVmServesAgent, ReachableVmIsRecorded, RegistriesAgree |
| manager_progress | 2 leaves, 2 Gateway epochs, fair | OwnershipImplemented (refinement of GatewayOwnership), LocksAreReleased |
| manager_poisoned | fair, requesting | AgentIsNotPoisoned, **violated** (see Findings) |
| semantic | 3 keys, 2 meanings, 2 entries, 1 tombstone, clock to 5, 3 runs | AtMostOnce, RunsAreSpaced, TablesAreSound, UnknownIsFinal |
| approval | 2 callers, 2 controller epochs, a challenge that expires | OneGrant, AnsweredIsKept, NoCallIsStuck, GrantFromCurrentAuthority |
| credentialed | 1 agent, 2 commands, an administrative call of any kind, a change of credentials, a crash | LockAndCloseHold, RunningVmIsRecorded, InvalidatedMaterialIsGone, NoCallIsStuck, OnlyForceInterruptsCommands |
| zone | 3 calls of any kind, recoveries, VMs that die | ZoneIsServedOnce, ExpiredStartIsNotPublished, NoCallIsStuck |
| recovery_accounts | 2 Gateways, every source of decisions, a stop | RecoveriesAreAccounted, EvidenceIsOfThisGateway, LiveSessionKeepsTheGateway |
| recovery_dead | 2 Gateways, ticks, fair | DeadGatewayIsRecovered, **violated** (see Findings) |
| controller_parts | executor: 5 messages of 2 classes and 2 principals; process: 2 zones, 2 sessions, 4 messages; dispatcher: 3 deliveries, 2 sessions, window of 1; client: 3 generations, 1 command, 2 attempts; authorization: 2 ceremonies, 4 revisions | AdmissionIsAccounted, CallersAreToldOnce, DispatchesOnceInItsSession, AttachmentIsSound, LossIsReported, AttachmentIsReplaced, AuthorizationIsContained, CancelledNeverCommits |

A property of a run is often the conjunction of named parts, each with its own
comment in the module; the type invariant of a module is one of them.

Bounds. Three leaves let a predecessor, its replacement and a further creation
exist at once, which is the longest chain the code allows before a clean-up must
end; two Gateway epochs give a successor a predecessor. Three keys over two
entries and one tombstone make every eviction and both capacity refusals happen,
with refreshes of a key between; windows are two ticks so that the tick before,
at and after a deadline differ. Two callers and two epochs give every race
between two calls and a restart at every await. Two commands and one
administrative call meet at every await of an acquisition, and the crash comes
between any two records. Three calls of a zone are one that timed out, its
successor and the call that waits for both. A third Gateway would add nothing to
the recovery, which remembers one source beside the present one. In the admission
one principal has two messages over a limit of one and a report replaces another;
one active session and two zones make every registration wait. Two attempts reach
the end of the first connection's budget, three generations are the current one
and two whose late hellos are still out. Four revisions are an enrolment, its
replacement, its disconnection and the settlement of both. A larger instance
that passed and is not kept for its length has the authorizations with five revisions.

Where generations, keys, calls or callers are only compared for equality, safety
runs use symmetry; liveness runs do not, nor do those of the lease manager, whose
leaves have an order. Deadlock checking is off where the system
may stop: all leaves, calls or epochs of the instance are used up, or a Gateway is
retired or unsafe for good.

Each property of a passing run has a mutant in `PROJECT.json`: a definition
replaced by a plausible bug (a dropped guard, a missing reset, an
early answer), under which TLC finds the property violated.

### Fairness

* `GatewayOwnership!FairSpec`: only `WF(SubtreeTimeout)`, a timer of the process.
  Nothing is assumed of the lease manager or of any VM.
* `ToolVmLeaseManager!FairSpec`: awaited calls settle (`WF` of an operation's and
  a destruction's steps and of the sweep's end). An agent's lock is a promise
  chain in FIFO order, so a sweep waiting for a lock that others keep taking
  gets it: `SF(SweepStep)`. The runs therefore say what happens if the adapter
  calls settle; that destroyLive answers even if they do not is
  `DestructionIsAnswered`.
* `ToolVmLeaseManager!RequestingSpec` also lets the Gateway go on asking, so that
  the violation is not merely a Gateway that stopped.
* `DisposableControlClient!Fairness`: timers fire and dials end. `GatewayAnswers`
  adds a Gateway that answers a hello if it is asked again and again;
  `AttachmentIsReplaced` is about such a Gateway.
* `GatewayRecovery!LiveSpec`: the interval ticks, probes and recoveries end (the
  runner has a deadline) and time passes.

`NoCallIsStuck` of the approval ledger, the credentialed runtime and the zone says
what liveness would under fair steps, as an invariant: while a call is unfinished,
a step of some call is possible. Every call there takes finitely many steps, so
nobody waits for ever once awaited calls settle, and the runs can use symmetry.

## Proofs

Checked by TLAPS for all values of the constants that satisfy the modules'
assumptions.

**ToolVmLeaseAuthorityProofs.** `Ownership`, an invariant of the run `authority`, is the conjunction of `TypeOK`,
`AgentIndexAgrees`, `OneDisposition` and `PredecessorAccessFenced`. The parts
need each other: a command that moves a leaf from one map to another keeps
`OneDisposition` only if the index named the right leaf, the index is kept only
if the generation was in no other map, and the fence only if the agent has one
admitted leaf. One lemma per command shows that it preserves the conjunction;
`OwnershipCorrect` combines them and `TypeCorrect`, `AgentIndexCorrect`,
`DispositionCorrect` and `RolloverCorrect` are its parts. On top of `Ownership`,
`WorkCorrect` (`WorkIsAttributable`) follows the uses of a leaf through every map it
may be in, and the action properties `LeavesHeld` (`LeavesAreHeldUntilDestroyed`) and
`SealedCorrect` (`SealedParentAdmitsNothing`) say, command by command, where a leaf
may go. Assumptions:
`PrincipalAssumption` (a principal has an agent) and `RetentionAssumption`
(the retention policy's positive integers, which the code validates).

**SemanticResultLedgerProofs.** `AtMostOnce` speaks of the history of runs, which
the code does not keep: it is true because every run leaves a *record*, an
entry or a tombstone, that lasts at least a tombstone's lifetime. `LedgerInv`
says so: `TypeOK`, `RunsRecorded`, `RunsAreSpaced`, `FutureUnjudged`, and
`Recorded(ledger)`, by which every run that a new run could repeat is still
remembered, no key is in both tables, and what was reported unknown is not
completed. The core lemma is that every operation on the tables *keeps* each
key's record: it leaves it, lets it expire when due, or turns an entry into a
tombstone (`Keeps`). From `LedgerCorrect` follow `SpacedRuns`, `AtMostOneRun`,
`OwnHandlerCompletes`, `UnknownStaysUnknown` (an action property) and
`LedgerTypeCorrect`. `TablesCorrect` (`TablesAreSound`) adds the capacities: a table
grows by one key at a time, after room was made for it. `LedgerAssumption` asks for finitely many keys and a
tombstone lifetime not shorter than the active window; the defaults in
production are one hour and ten minutes. The clock is monotone, although the
code reads `Date.now`.

**ControllerApprovalLedgerProofs.** `OneGrant` counts answers, of which the code
keeps no trace but the record. `ApprovalInv` ties the two together: the record's
queue admits one mutation at a time (`LockExclusive`), what is written follows
from what it replaces along the order `Later` (`WritesFollow`), a renamed record
stays in place until its call has ended and, if it arms a dispatch, was not
granted before (`RenamedInPlace`), and an answered grant is armed in the visible
and in the durable file (`GrantIsArmed`). The last part is what carries the
argument over a machine restart, which may bring back the durable file. There is
one lemma per step of a call and one for the restarts. `AtMostOneGrant`,
`AnswersAreDurable` and `ApprovalTypeCorrect` are parts of the invariant;
`GrantsAreCurrent` is an action property that needs `CallsAreCurrent`.
`ApprovalAssumption` asks for a positive challenge TTL, which the code validates.

**GatewayOwnershipProofs.** A Gateway may be declared destroyed because the barrier
of its seal is empty, and the barrier is a copy of the children made when it was
sealed. `OwnershipInv` says what makes the copy good: `BarrierIsHonest` (what the
barrier no longer waits for is destroyed or was given up), `RunningVmIsOwned` (a
running Tool VM has a child that is not fenced), `EmptyWhenClosed` and `PhasesAgree`
(where the coordinator, the operation of the destruction and the Gateway VM are),
with the three statements to prove. One lemma per action; `MachinesEndInOrder`
(`NothingOutlivesItsGateway`) and `MembershipCorrect` (`MembershipIsSound`) are
parts of it and `ContainmentCorrect` (`ContainmentIsKept`) is an action property.
The module asks that `NoLeaf`, the absent entry of the agent mapping, is neither a
leaf nor an agent.

**ToolVmLeaseManagerProofs.** The manager composes the lease authority, the
coordinator and the pool, and every await leaves them between two states. `ManagerInv`
says what holds there:

* `LeafInv`: what a leaf has follows from how far it got (`LeafIsConsistent`: no
  process once its access is fenced, SSH only with a record), and the authority and
  the coordinator give one account of it (`LeafIsOwned`), or only the authority knows
  it, because the membership was refused, and it is on its way out without a VM.
* `AgentInv`: what the holder of the agent's lock finds at each await
  (`OperationIsConsistent`), that a creation is alone with the agent but for a
  predecessor that was given up (`CreationIsAlone`), that the lock is held while an
  access is being fenced (`FenceIsAwaited`), and that one VM is reachable.
* `SlotsFollowLeaves`: the slots taken or quarantined are those of live leaves, each of
  one leaf.
* `QuietWhenClosed`: when the sweep has returned no lock is held and no leaf is live.
* `OwnershipInv` of GatewayOwnershipProofs, instantiated with the machines the manager
  has (`ToolVmOf`). A step of the manager is a step of the coordinator's specification or
  leaves it alone, so this part is kept by the lemmas proved there; it is what the rest
  needs to know of barriers and of a Gateway that was closed.

There is one lemma per action, and one for each change of a leaf that several actions
make (a child moves, a creation moves on, a retirement). From `ManagerCorrect` follow
`RegistriesCorrect` (`RegistriesAgree`), `OneVmCorrect` (`OneVmServesAgent`),
`ReachableRecorded` (`ReachableVmIsRecorded`), the refinement
`ManagerImplementsOwnership` (`OwnershipImplemented`) and, through it,
`OwnershipInherited`: under the manager no Tool VM outlives its Gateway VM and
containment is kept. `ManagerAssumption` asks that `NoLeaf` is neither a leaf nor an
agent, that leaves are natural numbers, and that the size of the pool and the bound of epochs are natural numbers, the
latter not 0.

**ZoneRuntimeProofs.** The lifecycle lock does not suffice for one Gateway per zone,
since an operation whose deadline has passed gives the lock up while its VM is still
being created. `ZoneInv` rests on the ownership coordinator instead: at most one
operation has an epoch that is neither free nor retired (`OneOwned`) and a process
needs one (`ProcessIsOwned`). `HandlesAreKept` and `EpochsAreTheirs` say whose epoch
the lock's holder may end; `GenerationsAdvance` says that an expired operation is of
an old generation, which is what the publication checks. From `ZoneCorrect` follow
`ZoneServesOnce` (`ZoneIsServedOnce`) and `ExpiredStartsStayOut`
(`ExpiredStartIsNotPublished`).

The second part of the module is about GatewayRecovery. `RecoveryInv` adds two facts
to `RecoveriesAreAccounted`. `InFlightIsKnown`: the tracker's flag is set exactly while
some caller, a tick, the channel provider or a terminal loss, awaits a recovery; the
flag is all that a decision looks at, so this excludes the second recovery.
`EvidenceIsAttributed`: whose report the latest event is, and that a session's death is
due only of the Gateway the monitor knows (`t.key = frontier`) and not while the latest
event is quarantined; a Gateway may be replaced between any two ticks, and this is what
the next tick finds. The operators of the tracker are pure, so one
lemma for each says what it leaves alone, and the actions follow from those. From
`RecoveryCorrect` follow `RecoveriesAccounted` (`RecoveriesAreAccounted`, whose part on
suspensions is the reason why `told` is in the invariant), `EvidenceCorrect`
(`EvidenceIsOfThisGateway`) and `LiveSessionCorrect` (`LiveSessionKeepsTheGateway`, an
action property).
`RecoveryAssumption` asks for what the configuration's schema validates: natural numbers,
of which the thresholds, the budget and the deadline are positive.

**ControllerPartsProofs.** The five parts of ControllerParts have an invariant each,
over their own variables, with one lemma per action. The last section joins
them: in a step of the parts one of them takes a step and the others rest
(`PartsMove`), so `PartsCorrect` follows, and from it the five theorems about the run
controller_parts.

* *Authorizations.* `AuthorizationIsContained` speaks of settled records;
  what makes it inductive is what is known of a record in transition
  (`RecordOk`: the material in the VM, and the credential being refreshed, are of an
  earlier generation) and of a ceremony under way (`CeremonyOk`: the record is at the
  revision the ceremony wrote only while nothing was written since, so the transition
  it is about to settle is the record's, and what it has contained stays so).
  `ContainmentCorrect` and `CancellationCorrect` (`CancelledNeverCommits`) follow from
  `AuthorizationCorrect`, and `AuthorizationInherited` takes them to the parts.
  `RevisionAssumption` (the bound of revisions is a natural number) is a bound of the
  model, not of the code.
* *The client* (`ClientInv`). One callback runs several inner functions on the client's
  record, so the invariant is a predicate of such a record, and each inner function has
  a lemma about what it makes of a record that is sound: `AttemptIsSound` (one socket,
  its hello, no gap reported of it yet), `EpisodeIsSound` (a gap is open unless an
  attachment is accepted, and the evidence of a lost attachment is current),
  `CommandsAreSound` (a command waits on its attachment, or for its turn in the process
  of a client that is not closed), and `Busy`, which fails inside a callback and holds again at its
  end: a loss fences the attempt first and schedules the next dial last.
  `AttachmentCorrect` (`AttachmentIsSound`) and `LossCorrect` (`LossIsReported`).
* *The dispatcher* (`DispatcherInv`). `DispatchesOnce` looks back at executions that the
  code forgot. `WindowIsComplete` is what it remembers: an execution that keeps its
  command from being executed again still has an entry, and was not followed by
  another. To show that an entry pruned for the size of the cache was crowded out one must
  know that the entries newer than it are of executions of as many other commands, none
  of them older (`CacheIsSound`: numbers and times agree, and an entry is of the last
  execution of its command). `DispatchCorrect` (`DispatchesOnceInItsSession`).
* *The executor of an attachment* (`ExecutorInv`). An account is the cardinality of a
  set, of the messages of a class, or of a principal, that wait or execute
  (`ClassAccounts`, `PrincipalAccounts`). A message enters, leaves or changes its place in
  that set one at a time, but for a close, which empties what waits. `QueuesAreExact`
  (a queue holds each waiting message once) and `OrderIsExact` (the order of principals is
  without repetitions and exactly those with something held, and the cursor is a
  place of it) give that a class that may run finds a message to start, so
  the pump is off only when none may (`NoneMayRun`).
* *The admission of the process* (`ProcessInv`). The same with sessions: `WorkIsOwned`
  (work has the session it was submitted in until the answer that releases it),
  `RetiredAreOwners` (a session that was replaced is kept as long as, and only if, work is
  owned by it) and `ZonesAreOrdered` (a zone has a place if and only if it has a session or
  work). The last work of a retired session and the last work of a zone are not the same
  thing; a zone goes exactly when no other work of it is queued or handed on.
  `AdmissionCorrect` (`AdmissionIsAccounted`) and `CallersCorrect`
  (`CallersAreToldOnce`) are about both levels.

The lemmas about lists and rounds at the beginning (`Elements` and `Distinct` under
appending, removal and `Kept`; that a round finds an element if there is one and serves
the first) carry the two admissions. Assumptions: finitely many messages,
deliveries and commands, each message of a known class or zone and, if it is a
command, of a known principal; a service cycle that serves every class; reports
are not safety messages; natural numbers as limits; a client that tries at least once;
and 0, which stands for "no attachment", is none.

**CredentialedRuntimeProofs.** The invariant `RuntimeInv` has three layers, each
proved with the help of the ones below it.

1. `CallsInv`: the keyed lock is a queue without repetitions that holds exactly the
   calls in or before their lock section; a call past the first check of its section
   heads it; an acquisition has the reservation of its agent alone.
2. `MachinesInv`: what `liveByKey`, the durable record and the processes say of each
   other at every stage of the lock's holder (`WorkOk`), and that somebody answers for
   every running VM (`Owned`): the fence of its agent, the slot, the lock's holder or,
   while the controller is down, the recovery. It contains `RunningVmIsRecorded`.
   No two calls work on one agent (`HolderIsAlone`), so a step of one keeps what
   the others rely on, and a step of an agent's holder need only be compared with its
   own next stage.
3. `EffectsInv`: what calls *outside* the lock rely on. `CloseOk`: while the zone
   is closed, every agent is clean or closeZone has still to answer for it, or has
   failed to; an agent unknown when closeZone listed the keys is clean (`KnownOk`) and
   stays so, since an acquisition checks `closed` again under the lock. `WaitOk`: the
   command that a close or an invalidation finds active in its second section is the one
   it waited for, whose end was announced (`FinishedOk`), so there is none. `GoneOk`:
   after an invalidation neither a VM nor an acquisition under way has the old
   material. `HeldOk`: the VM of a handle is the live one, fenced, or not running.

A step is first reduced to what other calls see of it (`CallStep`, `LockStep`,
`CommandStep`, `AdminStep`), so that each layer's parts are proved once for all
commands and once for all administrative calls. From `RuntimeCorrect` follow
`RunningVmsRecorded`, `LockAndCloseCorrect` (`LockAndCloseHold`),
`InvalidationCorrect` (`InvalidatedMaterialIsGone`) and `CommandsUninterrupted`
(`OnlyForceInterruptsCommands`, an action property). `RuntimeAssumption` asks that
commands, administrative calls and agents are told apart from `None` and each other
and that the bounds of the model are natural numbers. The proof exempts the forced
retirement from `WaitOk`, for the reason given under Findings.

Only model-checked, and why:

* Liveness (`DestructionIsAnswered`, `LocksAreReleased`, `AttachmentIsReplaced`, and
  `AgentIsNotPoisoned` and `DeadGatewayIsRecovered` of the runs that show a violation)
  and the three `NoCallIsStuck`, which use ENABLED: out of the prover's reach.

Every other property of a passing run is stated by a theorem.

## Findings

`manager_poisoned`. `docs/specs/2026-08-03-tool-vm-retirement-authority/2026-08-03-tool-vm-retirement-authority.md:100`
says that, among others, a "control connection rotation ... MUST NOT poison later
requests permanently." When the observation gap of a use ends before its
connection is back, `reapExpiredActiveUses` (`leases/lease-manager.ts:1706`)
quarantines the leaf. It stays in the agent's index, so no lease can be
provisioned; it is not current, so none can be reused; its ambiguous use blocks
`releaseLease`, and no production caller forces it. The agent is served again
only after its Gateway is destroyed.

`recovery_dead`. `docs/subsystems/controller.md:267` says that "A stopped or
cold-start-eligible failed Gateway is cold-started". After a successful recovery
the tracker answers every decision with 'stabilizing'
(`health/gateway-vm-recovery-policy.ts:313`) until healthy observations of the
recovered Gateway have been counted. If that Gateway dies first, none can be
counted any more, nothing else clears `stabilizingRecovery`, and the zone is
neither recovered nor reported until the controller restarts.

Other differences met while modelling. The modules follow the code; no run is kept
for them:

* A forced retirement waits for the command it aborted and then retires whatever
  VM the agent has, also one with a newer running command
  (`credentialed-runtime/credentialed-runtime-manager.ts:797`); the program design in
  `docs/specs/2026-08-25-credentialed-runtime-lifecycle` (line 488) has it wait "for the command
  disposition". `OnlyForceInterruptsCommands` states what holds.
* A start that fails with an unproven destruction is recorded as
  `coldStartEligible` (`zone-runtimes/managed-gateway-zone-runtime.ts:1122`), while
  `docs/subsystems/controller.md:269` says that "An owner-unsafe or ambiguous failed
  runtime requires operator action". The coordinator still refuses the cold start.
* A cold start that fails behind a start that succeeded clears the handle of the
  running Gateway (same file, line 1118).
* Suspension is kept per class of recovery, restart and cold start
  (`health/gateway-vm-recovery-policy.ts:319`); `controller.md:271` speaks of the zone.
* The recovery for a channel provider passes no `sourceKey`
  (`health/gateway-service-health-monitor.ts:860`), so the runner refuses it for a
  running Gateway (`health/gateway-vm-recovery-runner.ts:198`); `controller.md:244`
  counts policy-enabled channel-provider degradation among what is recovered.
* A principal that leaves the order shifts the cursor past the next one
  (`gateway-control-contracts/src/gateway-control-admission.ts:334`); a unit test is
  named "round-robins authority principals".
* An expired entry of the result cache is deleted and answered with an error, so
  the replay after it executes again
  (`control-session/control-session-dispatcher.ts:294`), and an execution that fails
  late takes the cache entry of its replacement (line 309). `DispatchesOnce` names both
  exceptions. Mutations do not depend on it.
* The callback of a ceremony that ends after its cancellation overwrites the result
  "cancelled" by "failed" (`oauth-broker/src/google/google-oauth-broker-service.ts:169`).
  Nothing is committed.

## Hazards without a property

* Two gap uses of one leaf expire in the same pass: the command for the second
  throws and the pass skips the leases after it (`leases/lease-manager.ts:1708`).
  One pass handles one lease in the model; the next pass meets the others again.
* A failed writeRuntimeRecord followed by a failed fence leaves a process that no
  record names (`leases/lease-manager.ts:1043`); it needs a restart over the Tool VM
  records. The process was never reachable (`ReachableVmIsRecorded`).
* A replacement needs a slot while its predecessor holds one
  (`leases/lease-manager.ts:950`); no document promises more than the refusal.
* The ledgers read `Date.now`; a clock that jumps breaks their windows, and the code
  does not claim otherwise.
* A command is aborted, or the controller stops, between the provider's answer to a
  refresh and the write of the record
  (`oauth-broker/src/google/google-credential-refresh-coordinator.ts:173`): a rotated
  refresh token is lost. What the provider keeps is outside the repository; the
  code answers with a new authorization.
* `release` of the ownership lock marks it released before COMMIT
  (`vm-ownership/controller-ownership-lock.ts:113`); what remains is SQLite's.

## Not modelled

`PROJECT.json` names every component left out with the reason. In short: host
I/O, subprocesses and formatting; schemas and contracts; in-guest packages,
portals and adapters, which keep little shared state; HTTP routes, the CLI, the
build and the configuration, which are sequential; tests and fixtures. They are
most of the repository's lines. The modules cover the controller's parts that keep
authority across awaits, and it is for those that a model says more than a test.

In the modelled parts: lease listeners, ssh key material, queries, the iteration
of a reaping pass over several leases, `beginProcessEpochLoss` (it has no
production caller), record files that do not parse, the start-up recovery of Tool
VM records, clocks that jump, the journal of lifecycle operations, the retention of
health events, session material and binding publication, wire frames and byte
limits apart from message limits, ceremonies over several applications, the policy
editor and the encryption of OAuth records.

## Plan

1. Done: the modules above, and proofs of every safety and action property that
   their runs check, with the refinement of GatewayOwnership by the lease manager.
2. Next modules: Tool VM records and their recovery; shared files (producer
   retirement and retention); an abstract zone, of which ZoneRuntime over
   GatewayOwnership is an implementation.
