-------------------------- MODULE ZoneRuntimeProofs --------------------------
(***************************************************************************)
(* Theorems about the runtime of a managed Gateway zone, for every set of  *)
(* calls, with and without recovery and VMs that die; and about the        *)
(* automatic recovery that asks it to replace the Gateway, for every set   *)
(* of Gateways, threshold, budget, grace and deadline.                     *)
(***************************************************************************)
EXTENDS ZoneRuntime, GatewayRecovery, TLAPS

-----------------------------------------------------------------------------
(* The inductive invariant.                                                *)

OrNone == Ops \cup {None}

ZoneStates ==
  [gateway : OrNone, stale : OrNone,
   kind : {"stopped", "starting", "running", "stopping", "restarting", "failed"},
   eligible : BOOLEAN, code : ErrorCodes \cup {"none", "owner-unsafe"},
   lastError : ErrorCodes \cup {"none"}]

OpStates ==
  [kind : {"none", "start", "stop", "restart", "refresh", "coldStart"}, stage : Stages,
   timed : BOOLEAN, preflighted : BOOLEAN, prev : OrNone, target : OrNone, gen : Nat,
   expired : BOOLEAN, cont : {"none", "armed", "closing", "done"},
   result : {"pending", "ok", "error", "timeout"}]

Typed ==
  /\ zone \in ZoneStates
  /\ gen \in Nat /\ queue \in Seq(Ops)
  /\ op \in [Ops -> OpStates]
  /\ proc \in [Ops -> {"none", "creating", "up", "down"}]
  /\ epoch \in [Ops -> {"none", "seeded", "admitting", "unsafe", "retired"}]

\* The stages in which an operation has the lock, whatever its deadline.
LockedStages == {"preflight", "destroy", "close-stale", "start"}

\* The stages before the VM is created and its containment armed.
EarlyStages == {"idle", "refresh", "queued"} \cup LockedStages

LockIsHeld ==
  \A o \in Ops : /\ op[o].stage \in LockedStages => HoldsLock(o)
                 /\ op[o].stage \in EarlyStages => op[o].cont = "none"

\* A VM whose entry in the ownership coordinator is neither free nor retired.
Owned(o) == epoch[o] \notin {"none", "retired"}

OneOwned == \A a, b \in Ops : Owned(a) /\ Owned(b) => a = b
ProcessIsOwned == \A o \in Ops : proc[o] \in {"creating", "up"} => Owned(o)

\* A handle is of an operation that has ended in time and had an epoch.
Handle(v) == v # None => op[v].stage = "done" /\ ~op[v].expired /\ epoch[v] # "none"

HandlesAreKept ==
  /\ Handle(zone.gateway) /\ Handle(zone.stale)
  /\ \A o \in Ops :
       /\ op[o].stage = "preflight" => Handle(op[o].prev)
       /\ op[o].stage \in {"destroy", "close-stale"} => op[o].target # None /\ Handle(op[o].target)

\* An epoch is changed only by the operation that began it, until its Gateway is
\* handed to the zone, and by the one that holds the lock after that.
EpochsAreTheirs ==
  /\ \A o \in Ops :
       /\ op[o].stage \in {"boot", "unboot", "close-started"} => epoch[o] = "admitting"
       /\ op[o].stage = "preflight" /\ op[o].prev # None => epoch[op[o].prev] = "admitting"
  /\ zone.kind = "running" => zone.gateway # None /\ epoch[zone.gateway] = "admitting"

\* An operation whose deadline has passed is of an old generation.
GenerationsAdvance ==
  \A o \in Ops :
    /\ op[o].gen <= gen
    /\ op[o].timed => op[o].kind # "start"
    /\ op[o].expired => op[o].timed /\ op[o].gen < gen
    /\ op[o].stage \in {"idle", "refresh", "queued"} => ~op[o].expired
    /\ op[o].kind = "none" => op[o].stage = "idle"

ZoneInv ==
  /\ Typed /\ LockIsHeld /\ OneOwned /\ ProcessIsOwned
  /\ HandlesAreKept /\ EpochsAreTheirs /\ GenerationsAdvance

-----------------------------------------------------------------------------
(* A step of one operation.                                                *)

\* An epoch changes only at the hands of its own operation, before that has ended,
\* or of the operation that destroys the Gateway it was given.
MayChangeEpoch(o, x) ==
  \/ x = o /\ op[o].stage # "done"
  \/ op[o].stage \in {"destroy", "close-stale"} /\ x = op[o].target

OpPart(o) ==
  /\ \A p \in Ops : p # o => op'[p] = op[p]
  /\ \A p \in Ops : p # o /\ HoldsLock(p) => HoldsLock(p)'
  /\ op'[o].stage \in LockedStages => HoldsLock(o)'
  /\ op'[o].stage \in EarlyStages => op'[o].cont = "none"
  /\ op[o].stage = "done" => op'[o].stage = "done" /\ op'[o].expired = op[o].expired

EpochPart(o) ==
  /\ OneOwned' /\ ProcessIsOwned'
  /\ \A x \in Ops : /\ epoch[x] # "none" => epoch'[x] # "none"
                    /\ epoch'[x] # epoch[x] => MayChangeEpoch(o, x)
  /\ op'[o].stage \in {"boot", "unboot", "close-started"} => epoch'[o] = "admitting"

HandlePart(o) ==
  /\ \/ zone'.gateway \in {None, zone.gateway}
     \/ op[o].stage = "preflight" /\ zone'.gateway = op[o].prev
     \/ /\ zone'.gateway = o /\ op'[o].stage = "done" /\ ~op'[o].expired /\ epoch'[o] = "admitting"
  /\ \/ zone'.stale \in {None, zone.stale, zone.gateway}
     \/ op[o].stage = "close-stale" /\ zone'.stale = op[o].target
  /\ op'[o].stage = "preflight" =>
       /\ epoch' = epoch
       /\ \/ op[o].stage = "preflight" /\ op'[o].prev = op[o].prev
          \/ op'[o].prev = None
          \/ zone.kind = "running" /\ op'[o].prev = zone.gateway
  /\ op'[o].stage \in {"destroy", "close-stale"} =>
       /\ op'[o].target # None
       /\ \/ op[o].stage = op'[o].stage /\ op'[o].target = op[o].target
          \/ op'[o].target \in {zone.gateway, zone.stale}
  /\ zone'.kind = "running" =>
       \/ /\ zone.kind = "running" /\ zone'.gateway = zone.gateway
          /\ \A x \in Ops : epoch'[x] # epoch[x] => x = o /\ op[o].stage # "done"
       \/ zone'.gateway = o /\ epoch'[o] = "admitting"
       \/ /\ op[o].stage = "preflight" /\ op[o].prev # None /\ zone'.gateway = op[o].prev
          /\ epoch' = epoch

GenPart(o) ==
  /\ gen <= gen'
  /\ op'[o].gen <= gen'
  /\ op'[o].timed => op'[o].kind # "start"
  /\ op'[o].expired => op'[o].timed /\ op'[o].gen < gen'
  /\ op'[o].stage \in {"idle", "refresh", "queued"} => ~op'[o].expired
  /\ op'[o].kind = "none" => op'[o].stage = "idle"

\* A handle after the step.
Kept(v) == v # None => op'[v].stage = "done" /\ ~op'[v].expired /\ epoch'[v] # "none"

\* Such a step keeps the invariant.
LEMMA OperationStep ==
  ASSUME ZoneInv, Typed', NEW o \in Ops, OpPart(o), EpochPart(o), HandlePart(o), GenPart(o)
  PROVE  ZoneInv'
<1>1. /\ Typed /\ LockIsHeld /\ HandlesAreKept /\ EpochsAreTheirs /\ GenerationsAdvance
      /\ None \notin Ops
  BY ZoneAssumption DEF ZoneInv
<1>2. /\ \A x \in Ops : op[x].stage \in Stages /\ op[x].prev \in OrNone /\ op[x].target \in OrNone
                        /\ op[x].gen \in Nat
      /\ \A x \in Ops : op'[x].stage \in Stages /\ op'[x].prev \in OrNone /\ op'[x].target \in OrNone
                        /\ op'[x].gen \in Nat
      /\ zone.gateway \in OrNone /\ zone.stale \in OrNone /\ gen \in Nat /\ gen' \in Nat
      /\ zone'.gateway \in OrNone /\ zone'.stale \in OrNone
  BY <1>1 DEF Typed, OpStates, ZoneStates
<1>3. LockIsHeld'
  BY <1>1 DEF LockIsHeld, OpPart
<1>4. OneOwned' /\ ProcessIsOwned'
  BY DEF EpochPart
<1>5. GenerationsAdvance'
  BY <1>1, <1>2 DEF GenerationsAdvance, GenPart, OpPart
<1>6. ASSUME NEW v \in OrNone, Handle(v)
      PROVE  Kept(v)
  <2>1. CASE v = None
    BY <2>1 DEF Kept
  <2>2. CASE v \in Ops
    <3>1. op[v].stage = "done" /\ ~op[v].expired /\ epoch[v] # "none"
      BY <1>1, <1>6, <2>2 DEF Handle
    <3> QED BY <2>2, <3>1 DEF OpPart, EpochPart, Kept
  <2> QED BY <2>1, <2>2 DEF OrNone
<1>7. \A p, q \in Ops : op[p].stage \in LockedStages /\ op[q].stage \in LockedStages => p = q
  BY <1>1 DEF LockIsHeld, HoldsLock
<1>8. HandlesAreKept'
  <2>1. Handle(zone.gateway) /\ Handle(zone.stale) /\ Handle(None)
    BY <1>1 DEF HandlesAreKept, Handle
  <2>2. Kept(zone'.gateway)
    <3>1. CASE zone'.gateway \in {None, zone.gateway}
      BY <1>2, <1>6, <2>1, <3>1 DEF OrNone
    <3>2. CASE op[o].stage = "preflight" /\ zone'.gateway = op[o].prev
      BY <1>1, <1>2, <1>6, <3>2 DEF HandlesAreKept
    <3>3. CASE /\ zone'.gateway = o /\ op'[o].stage = "done" /\ ~op'[o].expired
               /\ epoch'[o] = "admitting"
      BY <3>3 DEF Kept
    <3> QED BY <3>1, <3>2, <3>3 DEF HandlePart
  <2>3. Kept(zone'.stale)
    <3>1. CASE zone'.stale \in {None, zone.stale, zone.gateway}
      BY <1>2, <1>6, <2>1, <3>1 DEF OrNone
    <3>2. CASE op[o].stage = "close-stale" /\ zone'.stale = op[o].target
      BY <1>1, <1>2, <1>6, <3>2 DEF HandlesAreKept
    <3> QED BY <3>1, <3>2 DEF HandlePart
  <2>4. ASSUME NEW p \in Ops, op'[p].stage = "preflight"
        PROVE  Kept(op'[p].prev)
    <3>1. Handle(op'[p].prev)
      <4>1. CASE p # o
        BY <1>1, <2>4, <4>1 DEF HandlesAreKept, OpPart
      <4>2. CASE p = o
        BY <1>1, <2>1, <2>4, <4>2 DEF HandlesAreKept, HandlePart
      <4> QED BY <4>1, <4>2
    <3> QED BY <1>2, <1>6, <3>1
  <2>5. ASSUME NEW p \in Ops, op'[p].stage \in {"destroy", "close-stale"}
        PROVE  op'[p].target # None /\ Kept(op'[p].target)
    <3>1. op'[p].target # None /\ Handle(op'[p].target)
      <4>1. CASE p # o
        BY <1>1, <2>5, <4>1 DEF HandlesAreKept, OpPart
      <4>2. CASE p = o
        BY <1>1, <2>1, <2>5, <4>2 DEF HandlesAreKept, HandlePart
      <4> QED BY <4>1, <4>2
    <3> QED BY <1>2, <1>6, <3>1
  <2> QED BY <2>2, <2>3, <2>4, <2>5 DEF HandlesAreKept, Handle, Kept
<1>9. EpochsAreTheirs'
  <2>1. ASSUME NEW p \in Ops, op'[p].stage \in {"boot", "unboot", "close-started"}
        PROVE  epoch'[p] = "admitting"
    <3>1. CASE p = o
      BY <2>1, <3>1 DEF EpochPart
    <3>2. CASE p # o
      <4>1. op[p].stage \in {"boot", "unboot", "close-started"} /\ epoch[p] = "admitting"
        BY <1>1, <2>1, <3>2 DEF OpPart, EpochsAreTheirs
      <4>2. ~(op[o].stage \in {"destroy", "close-stale"} /\ p = op[o].target)
        BY <1>1, <4>1 DEF HandlesAreKept, Handle
      <4> QED BY <3>2, <4>1, <4>2 DEF EpochPart, MayChangeEpoch
    <3> QED BY <3>1, <3>2
  <2>2. ASSUME NEW p \in Ops, op'[p].stage = "preflight", op'[p].prev # None
        PROVE  epoch'[op'[p].prev] = "admitting"
    <3>1. CASE p = o
      BY <1>1, <2>2, <3>1 DEF HandlePart, EpochsAreTheirs
    <3>2. CASE p # o
      <4> DEFINE v == op[p].prev
      <4>1. op'[p] = op[p] /\ v \in Ops /\ epoch[v] = "admitting" /\ op[v].stage = "done"
        BY <1>1, <1>2, <2>2, <3>2 DEF OpPart, EpochsAreTheirs, HandlesAreKept, Handle, OrNone
      <4>2. op[o].stage \notin {"destroy", "close-stale"}
        BY <1>7, <2>2, <3>2, <4>1 DEF LockedStages
      <4> QED BY <4>1, <4>2 DEF EpochPart, MayChangeEpoch
    <3> QED BY <3>1, <3>2
  <2>3. ASSUME zone'.kind = "running"
        PROVE  zone'.gateway # None /\ epoch'[zone'.gateway] = "admitting"
    <3>1. CASE /\ zone.kind = "running" /\ zone'.gateway = zone.gateway
               /\ \A x \in Ops : epoch'[x] # epoch[x] => x = o /\ op[o].stage # "done"
      <4>1. zone.gateway \in Ops /\ epoch[zone.gateway] = "admitting" /\ op[zone.gateway].stage = "done"
        BY <1>1, <1>2, <3>1 DEF EpochsAreTheirs, HandlesAreKept, Handle, OrNone
      <4> QED BY <1>1, <3>1, <4>1
    <3>2. CASE zone'.gateway = o /\ epoch'[o] = "admitting"
      BY <1>1, <3>2
    <3>3. CASE /\ op[o].stage = "preflight" /\ op[o].prev # None /\ zone'.gateway = op[o].prev
               /\ epoch' = epoch
      BY <1>1, <3>3 DEF EpochsAreTheirs
    <3> QED BY <2>3, <3>1, <3>2, <3>3 DEF HandlePart
  <2> QED BY <2>1, <2>2, <2>3 DEF EpochsAreTheirs
<1> QED BY <1>3, <1>4, <1>5, <1>8, <1>9 DEF ZoneInv


-----------------------------------------------------------------------------
(* What the operators of the steps do.                                     *)

\* Operation o goes to stage s: its own lock and nobody else's may be given up,
\* and of the operation only the target, the containment and the result change.
Moves(o, s) ==
  /\ queue' \in Seq(Ops) /\ op' \in [Ops -> OpStates]
  /\ \A p \in Ops : p # o => op'[p] = op[p]
  /\ \A p \in Ops : p # o /\ HoldsLock(p) => HoldsLock(p)'
  /\ s # "done" => (HoldsLock(o) => HoldsLock(o)')
  /\ op'[o].stage = s
  /\ op'[o].kind = op[o].kind /\ op'[o].timed = op[o].timed /\ op'[o].gen = op[o].gen
  /\ op'[o].expired = op[o].expired
  /\ s \in EarlyStages => op'[o].cont = op[o].cont

LEMMA SettleMoves ==
  ASSUME Typed, NEW o \in Ops, NEW result \in {"ok", "error", "timeout"}, Settle(o, result)
  PROVE  Moves(o, "done")
<1>1. queue' \in Seq(Ops)
  BY DEF Typed, Settle, Unlocked, HoldsLock
<1>2. /\ op[o] \in OpStates
      /\ op' = [op EXCEPT ![o] = [op[o] EXCEPT !.stage = "done",
                  !.result = IF op[o].result = "pending" THEN result ELSE op[o].result]]
  BY DEF Typed, Settle
<1>3. op' \in [Ops -> OpStates]
  BY <1>2, ZenonT(60) DEF Typed, OpStates, Stages
<1>4. \A p \in Ops : p # o /\ HoldsLock(p) => HoldsLock(p)'
  BY DEF Settle, Unlocked, HoldsLock
<1>5. /\ op'[o].stage = "done" /\ op'[o].kind = op[o].kind /\ op'[o].timed = op[o].timed
      /\ op'[o].gen = op[o].gen /\ op'[o].expired = op[o].expired
  BY <1>2 DEF Typed, OpStates
<1>6. \A p \in Ops : p # o => op'[p] = op[p]
  BY <1>2 DEF Typed
<1> QED BY <1>1, <1>3, <1>4, <1>5, <1>6 DEF Moves, EarlyStages, LockedStages

LEMMA GotoMoves ==
  ASSUME Typed, NEW o \in Ops, NEW s \in Stages, Goto(o, s)
  PROVE  Moves(o, s)
<1>1. op[o] \in OpStates /\ op' = [op EXCEPT ![o] = [op[o] EXCEPT !.stage = s]] /\ queue' = queue
  BY DEF Typed, Goto
<1>2. queue' \in Seq(Ops) /\ op' \in [Ops -> OpStates] /\ \A p \in Ops : p # o => op'[p] = op[p]
  BY <1>1 DEF Typed, OpStates
<1>3. /\ op'[o].stage = s /\ op'[o].kind = op[o].kind /\ op'[o].timed = op[o].timed
      /\ op'[o].gen = op[o].gen /\ op'[o].expired = op[o].expired /\ op'[o].cont = op[o].cont
  BY <1>1 DEF Typed, OpStates
<1> QED BY <1>1, <1>2, <1>3 DEF Moves, HoldsLock

LEMMA GotoTargetMoves ==
  ASSUME Typed, NEW o \in Ops, NEW s \in Stages, NEW v \in OrNone, GotoTarget(o, s, v)
  PROVE  Moves(o, s) /\ op'[o].target = v
<1>1. /\ op[o] \in OpStates /\ queue' = queue
      /\ op' = [op EXCEPT ![o] = [op[o] EXCEPT !.stage = s, !.target = v]]
  BY DEF Typed, GotoTarget
<1>2. queue' \in Seq(Ops) /\ op' \in [Ops -> OpStates] /\ \A p \in Ops : p # o => op'[p] = op[p]
  BY <1>1 DEF Typed, OpStates
<1>3. /\ op'[o].stage = s /\ op'[o].kind = op[o].kind /\ op'[o].timed = op[o].timed
      /\ op'[o].gen = op[o].gen /\ op'[o].expired = op[o].expired /\ op'[o].cont = op[o].cont
      /\ op'[o].target = v
  BY <1>1 DEF Typed, OpStates
<1> QED BY <1>1, <1>2, <1>3 DEF Moves, HoldsLock

\* z has the handles of y or fewer, and does not run unless y does.
Keeps(z, y) ==
  /\ z \in ZoneStates
  /\ z.gateway \in {None, y.gateway} /\ z.stale \in {None, y.stale, y.gateway}
  /\ z.kind = "running" => y.kind = "running" /\ z.gateway = y.gateway

LEMMA FailedKeeps ==
  ASSUME NEW z \in ZoneStates, NEW eligible \in BOOLEAN, NEW code \in ErrorCodes \cup {"owner-unsafe"}
  PROVE  /\ Keeps(Failed(z, eligible, code), z) /\ Failed(z, eligible, code).kind = "failed"
         /\ Failed(z, eligible, code).gateway = z.gateway
         /\ Failed(z, eligible, code).stale = z.stale
BY DEF Failed, Keeps, ZoneStates, ErrorCodes

LEMMA ObservedKeeps ==
  ASSUME NEW z \in ZoneStates
  PROVE  Keeps(Observed(z), z)
<1>1. CASE z.kind = "running" /\ proc[z.gateway] # "up"
  BY <1>1 DEF Observed, Failed, Keeps, ZoneStates, ErrorCodes, OrNone
<1>2. CASE z.kind = "stopped" /\ z.lastError # "none"
  <2>1. z.lastError \in ErrorCodes
    BY <1>2 DEF ZoneStates
  <2> QED BY <1>2, <2>1, FailedKeeps DEF Observed
<1>3. CASE /\ ~(z.kind = "running" /\ proc[z.gateway] # "up")
           /\ ~(z.kind = "stopped" /\ z.lastError # "none")
  <2>1. Observed(z) = z
    BY <1>3 DEF Observed
  <2> QED BY <2>1 DEF Keeps
<1> QED BY <1>1, <1>2, <1>3

LEMMA KeepsChain ==
  ASSUME NEW x, NEW y, NEW z, Keeps(z, y), Keeps(y, x)
  PROVE  Keeps(z, x)
BY DEF Keeps

-----------------------------------------------------------------------------
(* The steps of an operation that neither publishes nor restores a Gateway. *)

\* A step that leaves every VM alone.
LEMMA SameEpochs ==
  ASSUME ZoneInv, NEW o \in Ops, UNCHANGED <<proc, epoch>>,
         op'[o].stage \in {"boot", "unboot", "close-started"} => epoch[o] = "admitting"
  PROVE  EpochPart(o)
<1>1. OneOwned' /\ ProcessIsOwned'
  BY DEF ZoneInv, OneOwned, ProcessIsOwned, Owned
<1> QED BY <1>1 DEF EpochPart

\* A VM is destroyed by the operation that may.
LEMMA DestroyedEpochs ==
  ASSUME ZoneInv, NEW o \in Ops, NEW v \in Ops, Destroyed(v), MayChangeEpoch(o, v),
         op'[o].stage \notin {"boot", "unboot", "close-started"}
  PROVE  /\ EpochPart(o)
         /\ proc' \in [Ops -> {"none", "creating", "up", "down"}]
         /\ epoch' \in [Ops -> {"none", "seeded", "admitting", "unsafe", "retired"}]
         /\ \A x \in Ops : epoch'[x] # epoch[x] => x = v
<1>1. /\ \A x \in Ops : x # v => epoch'[x] = epoch[x] /\ proc'[x] = proc[x]
      /\ epoch'[v] = "retired" /\ proc'[v] = "down"
  BY DEF ZoneInv, Typed, Destroyed
<1>2. OneOwned'
  BY <1>1 DEF ZoneInv, OneOwned, Owned
<1>3. ProcessIsOwned'
  BY <1>1 DEF ZoneInv, ProcessIsOwned, Owned
<1>4. /\ proc' \in [Ops -> {"none", "creating", "up", "down"}]
      /\ epoch' \in [Ops -> {"none", "seeded", "admitting", "unsafe", "retired"}]
  BY DEF ZoneInv, Typed, Destroyed
<1> QED BY <1>1, <1>2, <1>3, <1>4 DEF EpochPart

\* A VM is found not to be destroyable.
LEMMA RefusedEpochs ==
  ASSUME ZoneInv, NEW o \in Ops, NEW v \in Ops, Refused(v), MayChangeEpoch(o, v),
         epoch[v] # "none", op'[o].stage \notin {"boot", "unboot", "close-started"}
  PROVE  /\ EpochPart(o)
         /\ proc' \in [Ops -> {"none", "creating", "up", "down"}]
         /\ epoch' \in [Ops -> {"none", "seeded", "admitting", "unsafe", "retired"}]
         /\ \A x \in Ops : epoch'[x] # epoch[x] => x = v
<1>1. /\ \A x \in Ops : x # v => epoch'[x] = epoch[x]
      /\ epoch'[v] = "unsafe" /\ proc' = proc /\ epoch[v] \notin {"none", "retired"}
  BY DEF ZoneInv, Typed, Refused
<1>2. OneOwned'
  BY <1>1 DEF ZoneInv, OneOwned, Owned
<1>3. ProcessIsOwned'
  BY <1>1 DEF ZoneInv, ProcessIsOwned, Owned
<1>4. /\ proc' \in [Ops -> {"none", "creating", "up", "down"}]
      /\ epoch' \in [Ops -> {"none", "seeded", "admitting", "unsafe", "retired"}]
  BY <1>1 DEF ZoneInv, Typed, Refused
<1> QED BY <1>1, <1>2, <1>3, <1>4 DEF EpochPart

\* An operation under way moves on, and the zone keeps its handles or fewer.
LEMMA PlainStep ==
  ASSUME ZoneInv, NEW o \in Ops, NEW s \in Stages \ {"idle", "refresh", "queued", "preflight"},
         Moves(o, s), EpochPart(o), Keeps(zone', zone),
         op[o].stage \notin {"idle", "done"},
         s \in LockedStages => HoldsLock(o) /\ op[o].stage \in EarlyStages,
         s \in {"destroy", "close-stale"} =>
           op'[o].target # None /\ op'[o].target \in {zone.gateway, zone.stale},
         zone'.kind = "running" => \A x \in Ops : epoch'[x] # epoch[x] => x = o,
         gen' \in Nat, gen <= gen',
         proc' \in [Ops -> {"none", "creating", "up", "down"}],
         epoch' \in [Ops -> {"none", "seeded", "admitting", "unsafe", "retired"}]
  PROVE  ZoneInv'
<1>1. Typed'
  BY DEF Typed, Moves, Keeps
<1>2. OpPart(o)
  <2>1. s \in EarlyStages => s \in LockedStages
    BY DEF EarlyStages
  <2>2. op'[o].stage \in EarlyStages => op'[o].cont = "none"
    BY <2>1 DEF Moves, ZoneInv, LockIsHeld
  <2>3. op'[o].stage \in LockedStages => HoldsLock(o)'
    BY DEF Moves, LockedStages
  <2> QED BY <2>2, <2>3 DEF OpPart, Moves
<1>3. GenPart(o)
  <2>1. op[o].gen \in Nat /\ gen \in Nat
    BY DEF ZoneInv, Typed, OpStates
  <2>2. /\ op[o].gen <= gen /\ op[o].kind # "none"
        /\ op[o].timed => op[o].kind # "start"
        /\ op[o].expired => op[o].timed /\ op[o].gen < gen
    BY DEF ZoneInv, GenerationsAdvance
  <2> QED BY <2>1, <2>2 DEF GenPart, Moves
<1>4. HandlePart(o)
  <2>1. /\ zone'.gateway \in {None, zone.gateway}
        /\ zone'.stale \in {None, zone.stale, zone.gateway}
        /\ zone'.kind = "running" => zone.kind = "running" /\ zone'.gateway = zone.gateway
    BY DEF Keeps
  <2> QED BY <2>1 DEF HandlePart, Moves
<1> QED BY <1>1, <1>2, <1>3, <1>4, OperationStep

\* startNow, stopNow and the catch of startNow, from a zone state z that keeps the
\* handles of the zone.
LEMMA EnterStartKeeps ==
  ASSUME Typed, NEW o \in Ops, NEW z, Keeps(z, zone), EnterStart(o, z)
  PROVE  Moves(o, "start") /\ Keeps(zone', zone) /\ zone'.kind # "running"
<1>1. Moves(o, "start")
  BY GotoMoves DEF EnterStart, Stages
<1> QED BY <1>1 DEF EnterStart, Keeps, ZoneStates

LEMMA CatchStartKeeps ==
  ASSUME Typed, NEW o \in Ops, NEW code \in ErrorCodes, CatchStart(o, zone, code)
  PROVE  Moves(o, "done") /\ Keeps(zone', zone) /\ zone'.kind # "running"
<1>1. Moves(o, "done")
  BY SettleMoves DEF CatchStart
<1>2. CASE zone' = Observed(zone) /\ OwnerUnsafe(Observed(zone))
  BY <1>1, <1>2, ObservedKeeps DEF Typed, OwnerUnsafe
<1>3. CASE zone' = [Failed(zone, TRUE, code) EXCEPT !.gateway = None]
  BY <1>1, <1>3 DEF Typed, Failed, Keeps, ZoneStates, ErrorCodes, OrNone
<1> QED BY <1>2, <1>3 DEF CatchStart

LEMMA EnterStopKeeps ==
  ASSUME Typed, NEW o \in Ops, NEW z, Keeps(z, zone), EnterStop(o, z)
  PROVE  /\ Keeps(zone', zone) /\ zone'.kind # "running"
         /\ \/ Moves(o, "done") \/ Moves(o, "start")
            \/ Moves(o, "destroy") /\ op'[o].target # None /\ op'[o].target = zone.gateway
<1>1. z \in ZoneStates /\ z.gateway \in OrNone
  BY DEF Keeps, ZoneStates
<1>2. CASE z.gateway # None
  <2>1. zone' = [z EXCEPT !.kind = "stopping"] /\ GotoTarget(o, "destroy", z.gateway)
    BY <1>2 DEF EnterStop
  <2>2. Moves(o, "destroy") /\ op'[o].target = z.gateway
    BY <1>1, <2>1, GotoTargetMoves DEF Stages
  <2>3. Keeps(zone', zone) /\ zone'.kind # "running"
    BY <1>1, <2>1 DEF Keeps, ZoneStates
  <2> QED BY <1>2, <2>2, <2>3 DEF Keeps
<1>3. CASE z.gateway = None
  <2> DEFINE after == [z EXCEPT !.kind = "stopped", !.lastError = "none"]
  <2>1. Keeps(after, zone)
    BY <1>1 DEF Keeps, ZoneStates
  <2>2. \/ zone' = Observed(z) /\ OwnerUnsafe(Observed(z)) /\ Settle(o, "ok")
        \/ zone' = after /\ Settle(o, "ok")
        \/ EnterStart(o, after)
    BY <1>3 DEF EnterStop
  <2>3. CASE zone' = Observed(z) /\ OwnerUnsafe(Observed(z)) /\ Settle(o, "ok")
    <3>1. Keeps(Observed(z), zone)
      BY <1>1, ObservedKeeps, KeepsChain
    <3> QED BY <2>3, <3>1, SettleMoves DEF OwnerUnsafe
  <2>4. CASE zone' = after /\ Settle(o, "ok")
    BY <1>1, <2>1, <2>4, SettleMoves DEF ZoneStates
  <2>5. CASE EnterStart(o, after)
    BY <2>1, <2>5, EnterStartKeeps
  <2> QED BY <2>2, <2>3, <2>4, <2>5
<1> QED BY <1>2, <1>3

-----------------------------------------------------------------------------
(* The actions.                                                            *)

\* The facts about one operation that the steps below use.
LEMMA OperationFacts ==
  ASSUME ZoneInv, NEW o \in Ops
  PROVE  /\ Typed /\ zone \in ZoneStates /\ gen \in Nat /\ op[o] \in OpStates /\ None \notin Ops
         /\ Keeps(zone, zone)
         /\ op[o].stage \in LockedStages => HoldsLock(o) /\ op[o].stage \in EarlyStages
         /\ op[o].stage \in {"destroy", "close-stale"} =>
              /\ op[o].target \in Ops /\ epoch[op[o].target] # "none"
              /\ MayChangeEpoch(o, op[o].target)
         /\ op[o].stage \in {"boot", "unboot", "close-started"} => epoch[o] = "admitting"
         /\ proc \in [Ops -> {"none", "creating", "up", "down"}]
         /\ epoch \in [Ops -> {"none", "seeded", "admitting", "unsafe", "retired"}]
<1>1. /\ Typed /\ zone \in ZoneStates /\ gen \in Nat /\ op[o] \in OpStates /\ None \notin Ops
      /\ proc \in [Ops -> {"none", "creating", "up", "down"}]
      /\ epoch \in [Ops -> {"none", "seeded", "admitting", "unsafe", "retired"}]
  BY ZoneAssumption DEF ZoneInv, Typed
<1>2. op[o].target \in OrNone
  BY <1>1 DEF OpStates
<1> QED
  BY <1>1, <1>2 DEF ZoneInv, Keeps, LockIsHeld, EarlyStages, HandlesAreKept, Handle,
     MayChangeEpoch, EpochsAreTheirs, OrNone

\* A call joins the queue or begins to read the secrets.
LEMMA NewCallStep ==
  ASSUME ZoneInv, NEW o \in Ops, NEW kind \in {"start", "stop", "restart", "refresh", "coldStart"},
         NEW timed \in BOOLEAN, timed => kind # "start", op[o].kind = "none",
         op' = [op EXCEPT ![o] = NewCall(o, kind, timed)],
         queue' = IF kind = "refresh" THEN queue ELSE Append(queue, o),
         Keeps(zone', zone), UNCHANGED <<gen, proc, epoch>>
  PROVE  ZoneInv'
<1>1. /\ Typed /\ op \in [Ops -> OpStates] /\ queue \in Seq(Ops) /\ gen \in Nat
      /\ op[o].stage = "idle"
  BY DEF ZoneInv, Typed, GenerationsAdvance
<1>2. NewCall(o, kind, timed) \in OpStates
  BY DEF NewCall, IdleOp, OpStates, OrNone, Stages
<1>3. /\ op' \in [Ops -> OpStates] /\ queue' \in Seq(Ops)
      /\ \A p \in Ops : p # o => op'[p] = op[p]
      /\ op'[o].kind = kind /\ op'[o].timed = timed /\ op'[o].gen = 0 /\ ~op'[o].expired
      /\ op'[o].stage \in {"refresh", "queued"} /\ op'[o].cont = "none"
  <2>1. op' \in [Ops -> OpStates] /\ queue' \in Seq(Ops)
    BY <1>1, <1>2
  <2>2. op'[o] = NewCall(o, kind, timed) /\ \A p \in Ops : p # o => op'[p] = op[p]
    BY <1>1
  <2> QED BY <2>1, <2>2 DEF NewCall, IdleOp
<1>4. Typed'
  BY <1>1, <1>3 DEF Typed, Keeps
<1>5. \A p \in Ops : HoldsLock(p) => HoldsLock(p)'
  <2>1. CASE queue' = queue
    BY <2>1 DEF HoldsLock
  <2>2. CASE queue' = Append(queue, o)
    BY <1>1, <2>2 DEF HoldsLock
  <2> QED BY <2>1, <2>2
<1>6. OpPart(o)
  BY <1>1, <1>3, <1>5 DEF OpPart, LockedStages
<1>7. EpochPart(o)
  BY <1>3, SameEpochs
<1>8. HandlePart(o)
  <2>1. /\ zone'.gateway \in {None, zone.gateway}
        /\ zone'.stale \in {None, zone.stale, zone.gateway}
        /\ zone'.kind = "running" => zone.kind = "running" /\ zone'.gateway = zone.gateway
    BY DEF Keeps
  <2> QED BY <1>3, <2>1 DEF HandlePart
<1>9. GenPart(o)
  BY <1>1, <1>3 DEF GenPart
<1> QED BY <1>4, <1>6, <1>7, <1>8, <1>9, OperationStep

LEMMA CallStep ==
  ASSUME ZoneInv, NEW o \in Ops, NEW kind \in Kinds, Call(o, kind)
  PROVE  ZoneInv'
<1>1. Keeps(zone', zone)
  BY OperationFacts DEF Call
<1> QED BY <1>1, NewCallStep, ZoneAssumption DEF Call

LEMMA RecoverStep ==
  ASSUME ZoneInv, NEW o \in Ops, Recover(o)
  PROVE  ZoneInv'
<1>1. Keeps(Observed(zone), zone)
  BY OperationFacts, ObservedKeeps
<1> DEFINE z == Observed(zone)
           kind == CASE z.kind = "running" -> "restart"
                     [] z.kind = "failed" /\ z.code = "secret" -> "refresh"
                     [] z.kind = "stopped" \/ (z.kind = "failed" /\ z.eligible) -> "coldStart"
                     [] OTHER -> "none"
<1>2. /\ op[o].kind = "none" /\ kind # "none" /\ zone' = Observed(zone)
      /\ op' = [op EXCEPT ![o] = NewCall(o, kind, TRUE)]
      /\ queue' = IF kind = "refresh" THEN queue ELSE Append(queue, o)
      /\ UNCHANGED <<gen, proc, epoch>>
  BY DEF Recover
<1>3. kind \in {"restart", "refresh", "coldStart"}
  BY <1>2
<1> HIDE DEF kind
<1> QED BY <1>1, <1>2, <1>3, NewCallStep

\* The secrets are read, and the call joins the queue.
LEMMA RefreshReadyStep ==
  ASSUME ZoneInv, NEW o \in Ops, RefreshReady(o)
  PROVE  ZoneInv'
<1>1. /\ Typed /\ op \in [Ops -> OpStates] /\ queue \in Seq(Ops) /\ op[o] \in OpStates /\ gen \in Nat
      /\ op[o].gen \in Nat /\ op[o].stage = "refresh" /\ zone \in ZoneStates
  BY DEF ZoneInv, Typed, RefreshReady, At, OpStates
<1>2. Keeps(zone', zone)
  BY <1>1, ObservedKeeps DEF RefreshReady
<1> DEFINE kind == IF Observed(zone).kind = "running" THEN "restart" ELSE "coldStart"
<1>0. /\ op' = [op EXCEPT ![o].stage = "queued", ![o].preflighted = TRUE, ![o].kind = kind]
      /\ kind \in {"restart", "coldStart"}
  <2>1. op' = [op EXCEPT ![o].stage = "queued", ![o].preflighted = TRUE, ![o].kind = kind]
    BY Zenon DEF RefreshReady
  <2>2. kind \in {"restart", "coldStart"}
    OBVIOUS
  <2> HIDE DEF kind
  <2> QED BY <2>1, <2>2
<1> HIDE DEF kind
<1>3. op' = [op EXCEPT ![o] = [op[o] EXCEPT !.stage = "queued", !.preflighted = TRUE, !.kind = kind]]
  BY <1>0, <1>1
<1>4. op' \in [Ops -> OpStates] /\ queue' \in Seq(Ops)
  <2>1. queue' = Append(queue, o)
    BY DEF RefreshReady
  <2>2. "queued" \in Stages /\ TRUE \in BOOLEAN
        /\ kind \in {"none", "start", "stop", "restart", "refresh", "coldStart"}
    BY <1>0 DEF Stages
  <2>3. op' \in [Ops -> OpStates]
    BY <1>1, <1>3, <2>2, ZenonT(60) DEF OpStates
  <2> QED BY <1>1, <2>1, <2>3
<1>5. /\ \A p \in Ops : p # o => op'[p] = op[p]
      /\ op'[o].kind = kind /\ op'[o].timed = op[o].timed /\ op'[o].gen = op[o].gen
      /\ op'[o].expired = op[o].expired /\ op'[o].stage = "queued" /\ op'[o].cont = op[o].cont
  BY <1>1, <1>3 DEF OpStates
<1>6. Typed'
  BY <1>1, <1>2, <1>4 DEF Typed, Keeps, RefreshReady
<1>7. \A p \in Ops : HoldsLock(p) => HoldsLock(p)'
  BY <1>1 DEF HoldsLock, RefreshReady
<1>8. op[o].gen <= gen /\ ~op[o].expired /\ op[o].cont = "none"
  BY <1>1 DEF ZoneInv, GenerationsAdvance, LockIsHeld, EarlyStages
<1>9. OpPart(o)
  BY <1>1, <1>5, <1>7, <1>8 DEF OpPart, LockedStages
<1>10. EpochPart(o)
  BY <1>5, SameEpochs DEF RefreshReady
<1>11. HandlePart(o)
  BY <1>2, <1>5 DEF HandlePart, Keeps, RefreshReady
<1>12. GenPart(o)
  BY <1>0, <1>1, <1>5, <1>8 DEF GenPart, RefreshReady
<1> QED BY <1>6, <1>9, <1>10, <1>11, <1>12, OperationStep

\* The lock is obtained, and a restart or a cold start reads its generation.
LEMMA PreflightStep ==
  ASSUME ZoneInv, NEW o \in Ops, At(o, "queued"), HoldsLock(o), Keeps(zone', zone),
         NEW v \in OrNone, v = None \/ (zone.kind = "running" /\ v = zone.gateway), gen' = gen + 1,
         op' = [op EXCEPT ![o].stage = "preflight", ![o].gen = gen + 1, ![o].prev = v],
         UNCHANGED <<queue, proc, epoch>>
  PROVE  ZoneInv'
<1>1. /\ Typed /\ op \in [Ops -> OpStates] /\ op[o] \in OpStates /\ gen \in Nat
      /\ op[o].stage = "queued"
  BY DEF ZoneInv, Typed, At
<1>2. op' = [op EXCEPT ![o] = [op[o] EXCEPT !.stage = "preflight", !.gen = gen + 1, !.prev = v]]
  BY <1>1
<1>3. op' \in [Ops -> OpStates]
  BY <1>1, <1>2 DEF OpStates, Stages
<1>4. /\ \A p \in Ops : p # o => op'[p] = op[p]
      /\ op'[o].kind = op[o].kind /\ op'[o].timed = op[o].timed /\ op'[o].gen = gen + 1
      /\ op'[o].expired = op[o].expired /\ op'[o].stage = "preflight" /\ op'[o].cont = op[o].cont
      /\ op'[o].prev = v
  BY <1>1, <1>2 DEF OpStates
<1>5. Typed'
  BY <1>1, <1>3 DEF Typed, Keeps
<1>6. /\ ~op[o].expired /\ op[o].cont = "none" /\ op[o].kind # "none"
      /\ op[o].timed => op[o].kind # "start"
  BY <1>1 DEF ZoneInv, GenerationsAdvance, LockIsHeld, EarlyStages
<1>7. OpPart(o)
  BY <1>1, <1>4, <1>6 DEF OpPart, LockedStages, HoldsLock
<1>8. EpochPart(o)
  BY <1>4, SameEpochs
<1>9. HandlePart(o)
  BY <1>4 DEF HandlePart, Keeps
<1>10. GenPart(o)
  BY <1>1, <1>4, <1>6 DEF GenPart
<1> QED BY <1>5, <1>7, <1>8, <1>9, <1>10, OperationStep

LEMMA BeginStep ==
  ASSUME ZoneInv, NEW o \in Ops, Begin(o)
  PROVE  ZoneInv'
<1>1. /\ Typed /\ gen \in Nat /\ zone \in ZoneStates /\ op[o].stage = "queued" /\ HoldsLock(o)
      /\ UNCHANGED <<proc, epoch>>
      /\ gen' = IF op[o].kind \in {"restart", "coldStart"} THEN gen + 1 ELSE gen
  BY DEF ZoneInv, Typed, Begin, At
<1>2. Keeps(Observed(zone), zone) /\ Keeps(zone, zone) /\ gen' \in Nat /\ gen <= gen'
  BY <1>1, ObservedKeeps DEF Keeps
<1>3. /\ proc' \in [Ops -> {"none", "creating", "up", "down"}]
      /\ epoch' \in [Ops -> {"none", "seeded", "admitting", "unsafe", "retired"}]
  BY <1>1 DEF Typed
<1>4. ASSUME Keeps(zone', zone),
             \/ Moves(o, "done") \/ Moves(o, "start")
             \/ Moves(o, "destroy") /\ op'[o].target # None /\ op'[o].target = zone.gateway
      PROVE  ZoneInv'
  <2>1. EpochPart(o)
    BY <1>1, <1>4, SameEpochs DEF Moves
  <2>2. op[o].stage \in EarlyStages
    BY <1>1 DEF EarlyStages
  <2>3. CASE Moves(o, "done")
    BY <1>1, <1>2, <1>3, <1>4, <2>1, <2>3, PlainStep DEF LockedStages, Stages
  <2>4. CASE Moves(o, "start")
    BY <1>1, <1>2, <1>3, <1>4, <2>1, <2>2, <2>4, PlainStep DEF LockedStages, Stages
  <2>5. CASE Moves(o, "destroy") /\ op'[o].target # None /\ op'[o].target = zone.gateway
    BY <1>1, <1>2, <1>3, <1>4, <2>1, <2>2, <2>5, PlainStep DEF LockedStages, Stages
  <2> QED BY <1>4, <2>3, <2>4, <2>5
<1>5. CASE EnterStop(o, zone)
  BY <1>1, <1>2, <1>4, <1>5, EnterStopKeeps
<1>6. CASE zone' = Observed(zone) /\ Settle(o, "error")
  BY <1>1, <1>2, <1>4, <1>6, SettleMoves
<1>7. CASE EnterStart(o, Observed(zone))
  BY <1>1, <1>2, <1>4, <1>7, EnterStartKeeps
<1> DEFINE v == IF op[o].kind = "restart" /\ Observed(zone).kind = "running"
                THEN Observed(zone).gateway ELSE None
<1>8. CASE /\ op[o].kind \in {"restart", "coldStart"} /\ zone' = Observed(zone) /\ UNCHANGED queue
           /\ op' = [op EXCEPT ![o].stage = "preflight", ![o].gen = gen + 1, ![o].prev = v]
  <2>1. v \in OrNone /\ (v = None \/ (zone.kind = "running" /\ v = zone.gateway))
    BY <1>2 DEF Keeps, ZoneStates, OrNone
  <2>2. gen' = gen + 1 /\ UNCHANGED <<queue, proc, epoch>> /\ At(o, "queued") /\ Keeps(zone', zone)
    BY <1>1, <1>2, <1>8 DEF At
  <2> HIDE DEF v
  <2> QED BY <1>1, <1>8, <2>1, <2>2, PreflightStep
<1> QED BY <1>5, <1>6, <1>7, <1>8 DEF Begin

\* The preflight is over.
LEMMA PreflightedStep ==
  ASSUME ZoneInv, NEW o \in Ops, PreflightFails(o) \/ Preflighted(o)
  PROVE  ZoneInv'
<1>1. /\ Typed /\ gen \in Nat /\ zone \in ZoneStates /\ op[o].stage = "preflight" /\ HoldsLock(o)
      /\ op[o].stage \in EarlyStages /\ UNCHANGED <<gen, proc, epoch>> /\ Keeps(zone, zone)
  BY OperationFacts DEF PreflightFails, Preflighted, At, LockedStages
<1>2. gen' \in Nat /\ gen <= gen'
  BY <1>1
<1>3. /\ proc' \in [Ops -> {"none", "creating", "up", "down"}]
      /\ epoch' \in [Ops -> {"none", "seeded", "admitting", "unsafe", "retired"}]
  BY <1>1 DEF Typed
<1>4. ASSUME Keeps(zone', zone),
             \/ Moves(o, "done") \/ Moves(o, "start")
             \/ Moves(o, "destroy") /\ op'[o].target # None /\ op'[o].target = zone.gateway
             \/ Moves(o, "close-stale") /\ op'[o].target # None /\ op'[o].target = zone.stale
      PROVE  ZoneInv'
  <2>1. EpochPart(o)
    BY <1>1, <1>4, SameEpochs DEF Moves
  <2>2. CASE Moves(o, "done")
    BY <1>1, <1>2, <1>3, <1>4, <2>1, <2>2, PlainStep DEF LockedStages, Stages
  <2>3. CASE Moves(o, "start")
    BY <1>1, <1>2, <1>3, <1>4, <2>1, <2>3, PlainStep DEF LockedStages, Stages
  <2>4. CASE Moves(o, "destroy") /\ op'[o].target # None /\ op'[o].target = zone.gateway
    BY <1>1, <1>2, <1>3, <1>4, <2>1, <2>4, PlainStep DEF LockedStages, Stages
  <2>5. CASE Moves(o, "close-stale") /\ op'[o].target # None /\ op'[o].target = zone.stale
    BY <1>1, <1>2, <1>3, <1>4, <2>1, <2>5, PlainStep DEF LockedStages, Stages
  <2> QED BY <1>4, <2>2, <2>3, <2>4, <2>5
<1>5. CASE PreflightFails(o)
  <2>1. Keeps(zone', zone)
    BY <1>1, <1>5 DEF PreflightFails, Keeps, ZoneStates
  <2> QED BY <1>1, <1>4, <1>5, <2>1, SettleMoves DEF PreflightFails
<1>6. CASE Settle(o, "error") /\ zone' = Failed(zone, TRUE, "other")
  <2>1. Keeps(zone', zone)
    BY <1>1, <1>6, FailedKeeps DEF ErrorCodes
  <2> QED BY <1>1, <1>4, <1>6, <2>1, SettleMoves
<1>7. CASE /\ Settle(o, "error") /\ op[o].prev # None
           /\ zone' = [zone EXCEPT !.gateway = op[o].prev, !.kind = "running", !.lastError = "other"]
  <2>1. /\ Moves(o, "done") /\ op[o].prev \in OrNone /\ op[o].gen \in Nat
        /\ op[o].gen <= gen /\ op[o].kind # "none"
        /\ op[o].timed => op[o].kind # "start"
        /\ op[o].expired => op[o].timed /\ op[o].gen < gen
    BY <1>1, <1>7, SettleMoves DEF Typed, OpStates, ZoneInv, GenerationsAdvance
  <2>2. /\ zone' \in ZoneStates /\ zone'.gateway = op[o].prev /\ zone'.stale = zone.stale
    BY <1>1, <1>7, <2>1 DEF ZoneStates, ErrorCodes
  <2>3. Typed'
    BY <1>2, <1>3, <2>1, <2>2 DEF Typed, Moves
  <2>4. OpPart(o)
    BY <1>1, <2>1 DEF OpPart, Moves, EarlyStages, LockedStages
  <2>5. EpochPart(o)
    BY <1>1, <2>1, SameEpochs DEF Moves
  <2>6. GenPart(o)
    BY <1>1, <2>1 DEF GenPart, Moves
  <2>7. HandlePart(o)
    BY <1>1, <1>7, <2>1, <2>2 DEF HandlePart, Moves
  <2> QED BY <2>3, <2>4, <2>5, <2>6, <2>7, OperationStep
<1>8. CASE EnterStop(o, [zone EXCEPT !.kind = "restarting"])
  <2>1. Keeps([zone EXCEPT !.kind = "restarting"], zone)
    BY <1>1 DEF Keeps, ZoneStates
  <2> QED BY <1>1, <1>4, <1>8, <2>1, EnterStopKeeps
<1>9. CASE /\ zone.stale # None /\ zone' = [zone EXCEPT !.stale = None]
           /\ GotoTarget(o, "close-stale", zone.stale)
  <2>1. zone.stale \in OrNone /\ Keeps(zone', zone)
    BY <1>1, <1>9 DEF Keeps, ZoneStates, OrNone
  <2>2. Moves(o, "close-stale") /\ op'[o].target = zone.stale
    BY <1>1, <1>9, <2>1, GotoTargetMoves DEF Stages
  <2> QED BY <1>4, <1>9, <2>1, <2>2
<1>10. CASE EnterStart(o, zone)
  BY <1>1, <1>4, <1>10, EnterStartKeeps
<1> QED BY <1>5, <1>6, <1>7, <1>8, <1>9, <1>10 DEF Preflighted, AbortStale

\* The refresh of the secrets fails or is aborted.
LEMMA RefreshEndStep ==
  ASSUME ZoneInv, NEW o \in Ops, RefreshFails(o) \/ RefreshAborted(o)
  PROVE  ZoneInv'
<1>1. /\ Typed /\ gen \in Nat /\ zone \in ZoneStates /\ op[o].stage = "refresh"
      /\ UNCHANGED <<gen, proc, epoch>> /\ Keeps(zone, zone)
  BY OperationFacts DEF RefreshFails, RefreshAborted, At
<1>2. Moves(o, "done")
  BY <1>1, SettleMoves DEF RefreshFails, RefreshAborted
<1>3. Keeps(zone', zone)
  <2> DEFINE z == Observed(zone)
  <2>1. z \in ZoneStates /\ Keeps(z, zone)
    BY <1>1, ObservedKeeps DEF Keeps
  <2>2. \/ zone' = zone \/ zone' = [z EXCEPT !.lastError = "secret"]
        \/ zone' = Failed(z, TRUE, "secret")
    BY DEF RefreshFails, RefreshAborted
  <2> HIDE DEF z
  <2>3. CASE zone' = [z EXCEPT !.lastError = "secret"]
    BY <2>1, <2>3 DEF Keeps, ZoneStates, ErrorCodes
  <2>4. CASE zone' = Failed(z, TRUE, "secret")
    BY <2>1, <2>4, FailedKeeps, KeepsChain DEF ErrorCodes
  <2> QED BY <1>1, <2>2, <2>3, <2>4
<1>4. EpochPart(o)
  BY <1>1, <1>2, SameEpochs DEF Moves
<1>5. /\ proc' \in [Ops -> {"none", "creating", "up", "down"}]
      /\ epoch' \in [Ops -> {"none", "seeded", "admitting", "unsafe", "retired"}]
      /\ gen' \in Nat /\ gen <= gen'
  BY <1>1 DEF Typed
<1> QED BY <1>1, <1>2, <1>3, <1>4, <1>5, PlainStep DEF LockedStages, Stages

\* A Gateway or a stale handle is destroyed, or refuses to be.
LEMMA DestroyStep ==
  ASSUME ZoneInv, NEW o \in Ops, StopFails(o) \/ StopSucceeds(o) \/ StaleClosed(o)
  PROVE  ZoneInv'
<1> DEFINE v == op[o].target
<1>1. /\ Typed /\ gen \in Nat /\ zone \in ZoneStates /\ op[o].stage \in {"destroy", "close-stale"}
      /\ HoldsLock(o) /\ op[o].stage \in EarlyStages /\ gen' = gen /\ Keeps(zone, zone)
      /\ v \in Ops /\ epoch[v] # "none" /\ MayChangeEpoch(o, v) /\ (Destroyed(v) \/ Refused(v))
  BY OperationFacts DEF StopFails, StopSucceeds, StaleClosed, At, LockedStages
<1>2. gen' \in Nat /\ gen <= gen'
  BY <1>1
<1>3. /\ Keeps(zone', zone) /\ zone'.kind # "running"
      /\ Moves(o, "done") \/ Moves(o, "start")
  <2>1. CASE StopFails(o)
    BY <1>1, <2>1, SettleMoves, FailedKeeps DEF StopFails
  <2>2. CASE StopSucceeds(o)
    <3> DEFINE after == [zone EXCEPT !.gateway = None, !.kind = "stopped", !.lastError = "none"]
    <3>1. Keeps(after, zone) /\ after.kind # "running"
      BY <1>1 DEF Keeps, ZoneStates, OrNone
    <3>2. (zone' = after /\ Settle(o, "ok")) \/ EnterStart(o, after)
      BY <2>2 DEF StopSucceeds
    <3> HIDE DEF after
    <3> QED BY <1>1, <3>1, <3>2, SettleMoves, EnterStartKeeps
  <2>3. CASE StaleClosed(o)
    BY <1>1, <2>3, EnterStartKeeps DEF StaleClosed
  <2> QED BY <2>1, <2>2, <2>3
<1>4. op'[o].stage \notin {"boot", "unboot", "close-started"}
  BY <1>3 DEF Moves
<1>5. /\ EpochPart(o)
      /\ proc' \in [Ops -> {"none", "creating", "up", "down"}]
      /\ epoch' \in [Ops -> {"none", "seeded", "admitting", "unsafe", "retired"}]
  BY <1>1, <1>4, DestroyedEpochs, RefusedEpochs
<1>6. CASE Moves(o, "done")
  BY <1>1, <1>2, <1>3, <1>5, <1>6, PlainStep DEF LockedStages, Stages
<1>7. CASE Moves(o, "start")
  BY <1>1, <1>2, <1>3, <1>5, <1>7, PlainStep DEF LockedStages, Stages
<1> QED BY <1>3, <1>6, <1>7

\* A stale handle that cannot be destroyed is kept.
LEMMA StaleCloseFailsStep ==
  ASSUME ZoneInv, NEW o \in Ops, StaleCloseFails(o)
  PROVE  ZoneInv'
<1> DEFINE v == op[o].target
<1>1. /\ Typed /\ gen \in Nat /\ zone \in ZoneStates /\ op[o].stage = "close-stale" /\ gen' = gen
      /\ v \in Ops /\ epoch[v] # "none" /\ MayChangeEpoch(o, v) /\ Refused(v)
  BY OperationFacts DEF StaleCloseFails, At
<1>2. Moves(o, "done")
  BY <1>1, SettleMoves DEF StaleCloseFails
<1>3. /\ EpochPart(o)
      /\ proc' \in [Ops -> {"none", "creating", "up", "down"}]
      /\ epoch' \in [Ops -> {"none", "seeded", "admitting", "unsafe", "retired"}]
  BY <1>1, <1>2, RefusedEpochs DEF Moves
<1>4. /\ zone' \in ZoneStates /\ zone'.gateway = zone.gateway /\ zone'.stale = v
      /\ zone'.kind = "failed"
  <2>1. zone' = [Failed(zone, FALSE, "owner-unsafe") EXCEPT !.stale = v]
    BY DEF StaleCloseFails
  <2> QED BY <1>1, <2>1 DEF Failed, ZoneStates, ErrorCodes, OrNone
<1>5. /\ op[o].gen \in Nat /\ op[o].gen <= gen /\ op[o].kind # "none"
      /\ op[o].timed => op[o].kind # "start"
      /\ op[o].expired => op[o].timed /\ op[o].gen < gen
  BY <1>1 DEF Typed, OpStates, ZoneInv, GenerationsAdvance
<1>6. Typed'
  BY <1>1, <1>2, <1>3, <1>4 DEF Typed, Moves
<1>7. OpPart(o)
  BY <1>1, <1>2 DEF OpPart, Moves, EarlyStages, LockedStages
<1>8. GenPart(o)
  BY <1>1, <1>2, <1>5 DEF GenPart, Moves
<1>9. HandlePart(o)
  BY <1>1, <1>2, <1>4 DEF HandlePart, Moves
<1> QED BY <1>3, <1>6, <1>7, <1>8, <1>9, OperationStep

\* A start fails before a VM of its own exists, or after it was destroyed.
LEMMA StartEndStep ==
  ASSUME ZoneInv, NEW o \in Ops,
         StartFailsEarly(o) \/ ReserveFails(o) \/ CleanedUp(o) \/ ClosureRecorded(o)
  PROVE  ZoneInv'
<1>1. /\ Typed /\ gen \in Nat /\ op[o].stage \in {"start", "clean-up", "record-closure"}
      /\ zone \in ZoneStates /\ Keeps(zone, zone) /\ UNCHANGED <<gen, proc, epoch>>
  BY OperationFacts DEF StartFailsEarly, ReserveFails, CleanedUp, ClosureRecorded, At
<1>2. Moves(o, "done") /\ Keeps(zone', zone) /\ zone'.kind # "running"
  <2>1. CASE ClosureRecorded(o)
    BY <1>1, <2>1, SettleMoves, FailedKeeps DEF ClosureRecorded, ErrorCodes
  <2>2. CASE StartFailsEarly(o) \/ ReserveFails(o) \/ CleanedUp(o)
    BY <1>1, <2>2, CatchStartKeeps DEF StartFailsEarly, ReserveFails, CleanedUp, ErrorCodes
  <2> QED BY <2>1, <2>2
<1>3. EpochPart(o)
  BY <1>1, <1>2, SameEpochs DEF Moves
<1>4. /\ proc' \in [Ops -> {"none", "creating", "up", "down"}]
      /\ epoch' \in [Ops -> {"none", "seeded", "admitting", "unsafe", "retired"}]
      /\ gen' \in Nat /\ gen <= gen'
  BY <1>1 DEF Typed
<1> QED BY <1>1, <1>2, <1>3, <1>4, PlainStep DEF LockedStages, Stages

\* A start that ends the life of its own VM.
LEMMA OwnVmEndStep ==
  ASSUME ZoneInv, NEW o \in Ops,
         Unbooted(o) \/ UnbootRefused(o) \/ StartedClosed(o) \/ StartedCloseFails(o)
  PROVE  ZoneInv'
<1>1. /\ Typed /\ gen \in Nat /\ op[o].stage \in {"unboot", "close-started"} /\ gen' = gen
      /\ epoch[o] = "admitting" /\ MayChangeEpoch(o, o) /\ (Destroyed(o) \/ Refused(o))
      /\ zone \in ZoneStates /\ Keeps(zone, zone)
  BY OperationFacts DEF Unbooted, UnbootRefused, StartedClosed, StartedCloseFails, At, MayChangeEpoch
<1>2. /\ Keeps(zone', zone)
      /\ Moves(o, "done") \/ Moves(o, "clean-up") \/ Moves(o, "record-closure")
  <2>1. CASE Unbooted(o) \/ StartedClosed(o)
    BY <1>1, <2>1, GotoMoves DEF Unbooted, StartedClosed, Stages
  <2>2. CASE UnbootRefused(o)
    BY <1>1, <2>2, CatchStartKeeps DEF UnbootRefused, ErrorCodes
  <2>3. CASE StartedCloseFails(o)
    BY <1>1, <2>3, SettleMoves, FailedKeeps DEF StartedCloseFails, ErrorCodes
  <2> QED BY <2>1, <2>2, <2>3
<1>3. op'[o].stage \notin {"boot", "unboot", "close-started"}
  BY <1>2 DEF Moves
<1>4. /\ EpochPart(o) /\ gen' \in Nat /\ gen <= gen'
      /\ proc' \in [Ops -> {"none", "creating", "up", "down"}]
      /\ epoch' \in [Ops -> {"none", "seeded", "admitting", "unsafe", "retired"}]
      /\ \A x \in Ops : epoch'[x] # epoch[x] => x = o
  BY <1>1, <1>3, DestroyedEpochs, RefusedEpochs
<1>5. CASE Moves(o, "done")
  BY <1>1, <1>2, <1>4, <1>5, PlainStep DEF LockedStages, Stages
<1>6. CASE Moves(o, "clean-up")
  BY <1>1, <1>2, <1>4, <1>6, PlainStep DEF LockedStages, Stages
<1>7. CASE Moves(o, "record-closure")
  BY <1>1, <1>2, <1>4, <1>7, PlainStep DEF LockedStages, Stages
<1> QED BY <1>2, <1>5, <1>6, <1>7

\* The zone is reserved only while no other VM of it has an epoch.
LEMMA ReserveStep ==
  ASSUME ZoneInv, NEW o \in Ops, ReserveZone(o)
  PROVE  ZoneInv'
<1>1. /\ Typed /\ gen \in Nat /\ op[o].stage = "start" /\ UNCHANGED <<zone, gen, queue>>
      /\ zone \in ZoneStates /\ Keeps(zone, zone) /\ op[o] \in OpStates
  BY OperationFacts DEF ReserveZone, At
<1> DEFINE cont == CASE ~op[o].timed -> "none" [] op[o].expired -> "closing" [] OTHER -> "armed"
<1>2. op' = [op EXCEPT ![o].stage = "create", ![o].cont = cont]
  BY DEF ReserveZone
<1>0. cont \in {"none", "armed", "closing"}
  OBVIOUS
<1> HIDE DEF cont
<1>3. op' = [op EXCEPT ![o] = [op[o] EXCEPT !.stage = "create", !.cont = cont]]
  BY <1>1, <1>2 DEF Typed
<1>4. op' \in [Ops -> OpStates] /\ \A p \in Ops : p # o => op'[p] = op[p]
  BY <1>0, <1>1, <1>3 DEF Typed, OpStates, Stages
<1>5. /\ op'[o].stage = "create" /\ op'[o].kind = op[o].kind /\ op'[o].timed = op[o].timed
      /\ op'[o].gen = op[o].gen /\ op'[o].expired = op[o].expired
  BY <1>1, <1>3 DEF Typed, OpStates
<1>6. Moves(o, "create")
  BY <1>1, <1>4, <1>5 DEF Moves, HoldsLock, Typed, EarlyStages, LockedStages
<1>7. /\ \A x \in Ops : epoch[x] \in {"none", "retired"}
      /\ \A x \in Ops : x # o => epoch'[x] = epoch[x] /\ proc'[x] = proc[x]
      /\ epoch'[o] = "seeded" /\ proc'[o] = "creating"
      /\ proc' \in [Ops -> {"none", "creating", "up", "down"}]
      /\ epoch' \in [Ops -> {"none", "seeded", "admitting", "unsafe", "retired"}]
  BY <1>1 DEF ReserveZone, ZoneIsFree, Typed
<1>8. OneOwned'
  BY <1>7 DEF OneOwned, Owned
<1>9. ProcessIsOwned'
  BY <1>7 DEF ZoneInv, ProcessIsOwned, Owned
<1>10. EpochPart(o) /\ \A x \in Ops : epoch'[x] # epoch[x] => x = o
  BY <1>1, <1>5, <1>7, <1>8, <1>9 DEF EpochPart, MayChangeEpoch
<1>11. gen' \in Nat /\ gen <= gen' /\ Keeps(zone', zone)
  BY <1>1
<1> QED BY <1>1, <1>6, <1>7, <1>10, <1>11, PlainStep DEF LockedStages, Stages

\* A step that leaves every operation and its lock alone.
LEMMA RestStep ==
  ASSUME ZoneInv, NEW o \in Ops, EpochPart(o), Keeps(zone', zone), UNCHANGED <<gen, queue, op>>,
         zone'.kind = "running" => epoch' = epoch,
         op[o].stage = "preflight" => epoch' = epoch,
         proc' \in [Ops -> {"none", "creating", "up", "down"}],
         epoch' \in [Ops -> {"none", "seeded", "admitting", "unsafe", "retired"}]
  PROVE  ZoneInv'
<1>1. Typed'
  BY DEF ZoneInv, Typed, Keeps
<1>2. /\ op[o].target \in OrNone /\ op[o].gen \in Nat /\ gen \in Nat
  BY DEF ZoneInv, Typed, OpStates
<1>3. OpPart(o)
  BY DEF ZoneInv, LockIsHeld, OpPart, HoldsLock
<1>4. GenPart(o)
  BY <1>2 DEF ZoneInv, GenerationsAdvance, GenPart
<1>5. HandlePart(o)
  <2>1. /\ zone'.gateway \in {None, zone.gateway}
        /\ zone'.stale \in {None, zone.stale, zone.gateway}
        /\ zone'.kind = "running" => zone.kind = "running" /\ zone'.gateway = zone.gateway
    BY DEF Keeps
  <2>2. op[o].stage \in {"destroy", "close-stale"} => op[o].target # None
    BY DEF ZoneInv, HandlesAreKept
  <2>3. op' = op
    OBVIOUS
  <2> QED BY <2>1, <2>2, <2>3 DEF HandlePart
<1> QED BY <1>1, <1>3, <1>4, <1>5, OperationStep

\* The creation of the VM ends.
LEMMA CreatedStep ==
  ASSUME ZoneInv, NEW o \in Ops, Created(o)
  PROVE  ZoneInv'
<1>1. /\ Typed /\ gen \in Nat /\ op[o].stage = "create" /\ UNCHANGED <<zone, gen>>
      /\ Keeps(zone', zone) /\ proc[o] = "creating" /\ Owned(o) /\ MayChangeEpoch(o, o)
      /\ epoch \in [Ops -> {"none", "seeded", "admitting", "unsafe", "retired"}]
      /\ gen' \in Nat /\ gen <= gen'
  BY OperationFacts DEF Created, At, ZoneInv, ProcessIsOwned, MayChangeEpoch
<1>2. /\ \A x \in Ops : x # o => proc'[x] = proc[x]
      /\ proc'[o] = "up" /\ proc' \in [Ops -> {"none", "creating", "up", "down"}]
  BY <1>1 DEF Created, Typed
<1>3. CASE op[o].cont = "closing"
  <2>1. UNCHANGED <<op, queue, epoch>>
    BY <1>3 DEF Created
  <2>2. OneOwned' /\ ProcessIsOwned'
    BY <1>1, <1>2, <2>1 DEF ZoneInv, OneOwned, ProcessIsOwned, Owned
  <2>3. EpochPart(o)
    BY <1>1, <2>1, <2>2 DEF EpochPart
  <2> QED BY <1>1, <1>2, <2>1, <2>3, RestStep
<1>4. CASE op[o].cont # "closing"
  <2>1. Goto(o, "boot") /\ epoch' = [epoch EXCEPT ![o] = "admitting"]
    BY <1>4 DEF Created
  <2>2. Moves(o, "boot")
    BY <1>1, <2>1, GotoMoves DEF Stages
  <2>3. /\ \A x \in Ops : x # o => epoch'[x] = epoch[x]
        /\ epoch'[o] = "admitting"
        /\ epoch' \in [Ops -> {"none", "seeded", "admitting", "unsafe", "retired"}]
    BY <1>1, <2>1
  <2>4. OneOwned' /\ ProcessIsOwned'
    BY <1>1, <1>2, <2>3 DEF ZoneInv, OneOwned, ProcessIsOwned, Owned
  <2>5. EpochPart(o)
    BY <1>1, <2>3, <2>4 DEF EpochPart
  <2> QED BY <1>1, <1>2, <2>2, <2>3, <2>5, PlainStep DEF LockedStages, Stages
<1> QED BY <1>3, <1>4

LEMMA CreateFailsStep ==
  ASSUME ZoneInv, NEW o \in Ops, CreateFails(o)
  PROVE  ZoneInv'
<1>1. /\ Typed /\ gen \in Nat /\ op[o].stage = "create" /\ zone \in ZoneStates
      /\ MayChangeEpoch(o, o) /\ op[o] \in OpStates
      /\ epoch \in [Ops -> {"none", "seeded", "admitting", "unsafe", "retired"}]
      /\ gen' = gen /\ gen' \in Nat /\ gen <= gen'
  BY OperationFacts DEF CreateFails, At, MayChangeEpoch
<1>2. /\ \A x \in Ops : x # o => proc'[x] = proc[x]
      /\ proc'[o] = "down" /\ proc' \in [Ops -> {"none", "creating", "up", "down"}]
  BY <1>1 DEF CreateFails, Typed
<1>3. CASE op[o].cont = "closing"
  <2>1. /\ zone' = Failed(zone, FALSE, "owner-unsafe") /\ queue' = Unlocked(o) /\ epoch' = epoch
        /\ op' = [op EXCEPT ![o].stage = "done", ![o].cont = "done"]
    BY <1>3 DEF CreateFails
  <2>2. op' = [op EXCEPT ![o] = [op[o] EXCEPT !.stage = "done", !.cont = "done"]]
    BY <1>1, <2>1 DEF Typed
  <2>3. op' \in [Ops -> OpStates] /\ \A p \in Ops : p # o => op'[p] = op[p]
    BY <1>1, <2>2 DEF Typed, OpStates, Stages
  <2>4. /\ op'[o].stage = "done" /\ op'[o].kind = op[o].kind /\ op'[o].timed = op[o].timed
        /\ op'[o].gen = op[o].gen /\ op'[o].expired = op[o].expired
    BY <1>1, <2>2 DEF Typed, OpStates
  <2>5. queue' \in Seq(Ops) /\ \A p \in Ops : p # o /\ HoldsLock(p) => HoldsLock(p)'
    BY <1>1, <2>1 DEF Unlocked, HoldsLock, Typed
  <2>6. Moves(o, "done")
    BY <2>3, <2>4, <2>5 DEF Moves, EarlyStages, LockedStages
  <2>7. OneOwned' /\ ProcessIsOwned'
    BY <1>1, <1>2, <2>1 DEF ZoneInv, OneOwned, ProcessIsOwned, Owned
  <2>8. EpochPart(o)
    BY <2>1, <2>4, <2>7 DEF EpochPart
  <2>9. Keeps(zone', zone)
    BY <1>1, <2>1, FailedKeeps
  <2> QED BY <1>1, <1>2, <2>1, <2>6, <2>8, <2>9, PlainStep DEF LockedStages, Stages
<1>4. CASE op[o].cont # "closing"
  <2>1. epoch' = [epoch EXCEPT ![o] = "retired"] /\ CatchStart(o, zone, "other")
    BY <1>4 DEF CreateFails
  <2>2. Moves(o, "done") /\ Keeps(zone', zone) /\ zone'.kind # "running"
    BY <1>1, <2>1, CatchStartKeeps DEF ErrorCodes
  <2>3. /\ \A x \in Ops : x # o => epoch'[x] = epoch[x]
        /\ epoch'[o] = "retired"
        /\ epoch' \in [Ops -> {"none", "seeded", "admitting", "unsafe", "retired"}]
    BY <1>1, <2>1
  <2>4. OneOwned' /\ ProcessIsOwned'
    BY <1>1, <1>2, <2>3 DEF ZoneInv, OneOwned, ProcessIsOwned, Owned
  <2>5. EpochPart(o)
    BY <1>1, <2>2, <2>3, <2>4 DEF EpochPart, Moves
  <2> QED BY <1>1, <1>2, <2>2, <2>3, <2>5, PlainStep DEF LockedStages, Stages
<1> QED BY <1>3, <1>4

\* The Gateway is ready.  One whose deadline has passed is of an old generation,
\* so what is published is in time.
LEMMA BootedStep ==
  ASSUME ZoneInv, NEW o \in Ops, Booted(o) \/ BootFails(o)
  PROVE  ZoneInv'
<1>1. /\ Typed /\ gen \in Nat /\ op[o].stage = "boot" /\ zone \in ZoneStates /\ Keeps(zone, zone)
      /\ epoch[o] = "admitting" /\ UNCHANGED <<gen, proc, epoch>> /\ None \notin Ops
  BY OperationFacts DEF Booted, BootFails, At
<1>2. /\ proc' \in [Ops -> {"none", "creating", "up", "down"}]
      /\ epoch' \in [Ops -> {"none", "seeded", "admitting", "unsafe", "retired"}]
      /\ gen' \in Nat /\ gen <= gen'
  BY <1>1 DEF Typed
<1>3. EpochPart(o)
  BY <1>1, SameEpochs
<1>4. CASE GotoTarget(o, "close-started", o) /\ zone' = zone
  <2>1. Moves(o, "close-started")
    BY <1>1, <1>4, GotoTargetMoves DEF Stages, OrNone
  <2> QED BY <1>1, <1>2, <1>3, <1>4, <2>1, PlainStep DEF LockedStages, Stages
<1>5. CASE GotoTarget(o, "unboot", o) /\ zone' = zone
  <2>1. Moves(o, "unboot")
    BY <1>1, <1>5, GotoTargetMoves DEF Stages, OrNone
  <2> QED BY <1>1, <1>2, <1>3, <1>5, <2>1, PlainStep DEF LockedStages, Stages
<1>6. CASE /\ ~StaleGeneration(o) /\ Settle(o, "ok")
           /\ zone' = [zone EXCEPT !.gateway = o, !.kind = "running", !.lastError = "none"]
  <2>1. Moves(o, "done")
    BY <1>1, <1>6, SettleMoves
  <2>2. /\ zone' \in ZoneStates /\ zone'.gateway = o /\ zone'.stale = zone.stale
    BY <1>1, <1>6 DEF ZoneStates, OrNone
  <2>3. /\ op[o].gen \in Nat /\ op[o].gen <= gen /\ op[o].kind # "none"
        /\ op[o].timed => op[o].kind # "start"
        /\ op[o].expired => op[o].timed /\ op[o].gen < gen
    BY <1>1 DEF Typed, OpStates, ZoneInv, GenerationsAdvance
  <2>4. ~op[o].expired
    BY <1>1, <1>6, <2>3 DEF StaleGeneration
  <2>5. Typed'
    BY <1>2, <2>1, <2>2 DEF Typed, Moves
  <2>6. OpPart(o)
    BY <1>1, <2>1 DEF OpPart, Moves, EarlyStages, LockedStages
  <2>7. GenPart(o)
    BY <1>1, <2>1, <2>3 DEF GenPart, Moves
  <2>8. HandlePart(o)
    <3>1. op'[o].stage = "done" /\ ~op'[o].expired /\ epoch'[o] = "admitting"
      BY <1>1, <2>1, <2>4 DEF Moves
    <3> QED BY <2>2, <3>1 DEF HandlePart
  <2> QED BY <1>3, <2>5, <2>6, <2>7, <2>8, OperationStep
<1> QED BY <1>4, <1>5, <1>6 DEF Booted, BootFails

\* The deadline passes: the generation advances.
LEMMA TimeoutStep ==
  ASSUME ZoneInv, NEW o \in Ops, Timeout(o)
  PROVE  ZoneInv'
<1>1. /\ Typed /\ gen \in Nat /\ zone \in ZoneStates /\ op[o] \in OpStates /\ op[o].timed
      /\ op[o].stage \notin {"idle", "refresh", "queued", "done"} /\ gen' = gen + 1
      /\ UNCHANGED <<zone, queue, proc, epoch>>
  BY OperationFacts DEF Timeout
<1> DEFINE cont == IF op[o].cont = "armed" THEN "closing" ELSE op[o].cont
<1>2. op' = [op EXCEPT ![o] = [op[o] EXCEPT !.expired = TRUE, !.result = "timeout", !.cont = cont]]
  BY <1>1 DEF Timeout, Typed
<1>3. cont \in {"none", "armed", "closing", "done"} /\ (op[o].cont = "none" => cont = "none")
  BY <1>1 DEF OpStates
<1> HIDE DEF cont
<1>4. op' \in [Ops -> OpStates] /\ \A p \in Ops : p # o => op'[p] = op[p]
  BY <1>1, <1>2, <1>3 DEF Typed, OpStates
<1>5. /\ op'[o].stage = op[o].stage /\ op'[o].kind = op[o].kind /\ op'[o].timed = op[o].timed
      /\ op'[o].gen = op[o].gen /\ op'[o].prev = op[o].prev /\ op'[o].target = op[o].target
      /\ op'[o].cont = cont
  BY <1>1, <1>2 DEF Typed, OpStates
<1>6. /\ op[o].gen \in Nat /\ op[o].gen <= gen /\ op[o].kind # "none"
      /\ op[o].timed => op[o].kind # "start"
  BY <1>1 DEF OpStates, ZoneInv, GenerationsAdvance
<1>7. Typed'
  BY <1>1, <1>4 DEF Typed
<1>8. OpPart(o)
  BY <1>1, <1>3, <1>4, <1>5 DEF OpPart, ZoneInv, LockIsHeld, HoldsLock
<1>9. EpochPart(o)
  BY <1>1, <1>5, SameEpochs DEF ZoneInv, EpochsAreTheirs
<1>10. GenPart(o)
  BY <1>1, <1>5, <1>6 DEF GenPart
<1>11. HandlePart(o)
  <2>1. op[o].stage \in {"destroy", "close-stale"} => op[o].target # None
    BY DEF ZoneInv, HandlesAreKept
  <2> QED BY <1>1, <1>5, <2>1 DEF HandlePart
<1> QED BY <1>7, <1>8, <1>9, <1>10, <1>11, OperationStep

\* The containment of the VM creation ends, one way or the other.
LEMMA ContainmentStep ==
  ASSUME ZoneInv, NEW o \in Ops, Containment(o)
  PROVE  ZoneInv'
<1>1. /\ Typed /\ gen \in Nat /\ zone \in ZoneStates /\ op[o] \in OpStates
      /\ op[o].cont = "closing" /\ gen' = gen /\ queue' = Unlocked(o) /\ Keeps(zone, zone)
  BY OperationFacts DEF Containment, Contained, ContainmentFails
<1>2. op[o].stage \notin EarlyStages
  BY <1>1 DEF ZoneInv, LockIsHeld
<1> DEFINE s == IF op[o].stage = "create" THEN "done" ELSE op[o].stage
<1>3. op' = [op EXCEPT ![o] = [op[o] EXCEPT !.cont = "done", !.stage = s]]
  <2>1. CASE Contained(o) /\ op[o].stage = "create"
    BY <1>1, <2>1 DEF Contained, At, Typed
  <2>2. CASE Contained(o) /\ op[o].stage # "create"
    <3>1. op' = [op EXCEPT ![o] = [op[o] EXCEPT !.cont = "done"]]
      BY <1>1, <2>2 DEF Contained, At, Typed
    <3>2. [op[o] EXCEPT !.cont = "done"] = [op[o] EXCEPT !.cont = "done", !.stage = s]
      BY <1>1, <2>2 DEF OpStates
    <3> QED BY <3>1, <3>2
  <2>3. CASE ContainmentFails(o)
    BY <1>1, <2>3 DEF ContainmentFails, Typed
  <2> QED BY <2>1, <2>2, <2>3 DEF Containment
<1>4. s \in Stages /\ s \notin EarlyStages /\ (op[o].stage # "create" => s = op[o].stage)
      /\ (op[o].stage = "create" => s = "done")
  BY <1>1, <1>2 DEF OpStates, Stages, EarlyStages, LockedStages
<1> HIDE DEF s
<1>5. op' \in [Ops -> OpStates] /\ \A p \in Ops : p # o => op'[p] = op[p]
  BY <1>1, <1>3, <1>4 DEF Typed, OpStates
<1>6. /\ op'[o].stage = s /\ op'[o].kind = op[o].kind /\ op'[o].timed = op[o].timed
      /\ op'[o].gen = op[o].gen /\ op'[o].expired = op[o].expired
  BY <1>1, <1>3 DEF Typed, OpStates
<1>7. queue' \in Seq(Ops) /\ \A p \in Ops : p # o /\ HoldsLock(p) => HoldsLock(p)'
  BY <1>1 DEF Unlocked, HoldsLock, Typed
<1>8. Keeps(zone', zone)
  <2>1. Keeps([Failed(zone, TRUE, "other") EXCEPT !.gateway = None], zone)
    BY <1>1 DEF Failed, Keeps, ZoneStates, ErrorCodes, OrNone
  <2>2. Keeps(Failed(zone, FALSE, "owner-unsafe"), zone)
    BY <1>1, FailedKeeps
  <2> QED BY <1>1, <2>1, <2>2 DEF Containment, Contained, ContainmentFails
<1>9. /\ proc' \in [Ops -> {"none", "creating", "up", "down"}]
      /\ \A x \in Ops : proc'[x] = proc[x] \/ proc'[x] = "down"
      /\ epoch' \in [Ops -> {"none", "seeded", "admitting", "unsafe", "retired"}]
      /\ \/ epoch' = epoch
         \/ /\ op[o].stage = "create" /\ epoch'[o] = "retired" /\ proc'[o] = "down"
            /\ \A x \in Ops : x # o => epoch'[x] = epoch[x]
  BY <1>1 DEF Containment, Contained, ContainmentFails, At, Typed
<1>10. EpochPart(o) /\ \A x \in Ops : epoch'[x] # epoch[x] => x = o /\ op[o].stage = "create"
  <2>1. OneOwned'
    BY <1>9 DEF ZoneInv, OneOwned, Owned
  <2>2. ProcessIsOwned'
    BY <1>9 DEF ZoneInv, ProcessIsOwned, Owned
  <2>3. op'[o].stage \in {"boot", "unboot", "close-started"} => epoch'[o] = "admitting"
    BY <1>4, <1>6, <1>9 DEF ZoneInv, EpochsAreTheirs
  <2> QED BY <1>9, <2>1, <2>2, <2>3 DEF EpochPart, MayChangeEpoch
<1>11. Typed'
  BY <1>1, <1>5, <1>7, <1>8, <1>9 DEF Typed, Keeps
<1>12. OpPart(o)
  BY <1>4, <1>5, <1>6, <1>7 DEF OpPart, EarlyStages
<1>13. GenPart(o)
  <2>1. /\ op[o].gen \in Nat /\ op[o].gen <= gen /\ op[o].kind # "none"
        /\ op[o].timed => op[o].kind # "start"
        /\ op[o].expired => op[o].timed /\ op[o].gen < gen
    BY <1>1, <1>2 DEF OpStates, ZoneInv, GenerationsAdvance, EarlyStages
  <2> QED BY <1>1, <1>4, <1>6, <2>1 DEF GenPart, EarlyStages
<1>14. HandlePart(o)
  <2>1. /\ zone'.gateway \in {None, zone.gateway}
        /\ zone'.stale \in {None, zone.stale, zone.gateway}
        /\ zone'.kind = "running" => zone.kind = "running" /\ zone'.gateway = zone.gateway
    BY <1>8 DEF Keeps
  <2>2. op'[o].stage \notin {"preflight", "destroy", "close-stale"}
    BY <1>4, <1>6 DEF EarlyStages, LockedStages
  <2> QED BY <1>10, <2>1, <2>2 DEF HandlePart
<1> QED BY <1>10, <1>11, <1>12, <1>13, <1>14, OperationStep

LEMMA VmDiesStep ==
  ASSUME ZoneInv, NEW o \in Ops, VmDies(o)
  PROVE  ZoneInv'
<1>1. /\ Typed /\ Keeps(zone', zone) /\ UNCHANGED <<zone, gen, queue, op, epoch>>
      /\ epoch' \in [Ops -> {"none", "seeded", "admitting", "unsafe", "retired"}]
  BY OperationFacts DEF VmDies
<1>2. /\ \A x \in Ops : x # o => proc'[x] = proc[x]
      /\ proc'[o] = "down" /\ proc' \in [Ops -> {"none", "creating", "up", "down"}]
  BY <1>1 DEF VmDies, Typed
<1>3. OneOwned' /\ ProcessIsOwned'
  BY <1>1, <1>2 DEF ZoneInv, OneOwned, ProcessIsOwned, Owned
<1>4. EpochPart(o)
  BY <1>1, <1>3 DEF EpochPart, ZoneInv, EpochsAreTheirs
<1> QED BY <1>1, <1>2, <1>4, RestStep

\* A reader of the state may find that the Gateway is gone.
LEMMA ObserveStep ==
  ASSUME ZoneInv, Observe
  PROVE  ZoneInv'
<1>1. /\ Typed /\ Keeps(zone', zone) /\ UNCHANGED <<gen, queue, op, proc, epoch>>
      /\ proc' \in [Ops -> {"none", "creating", "up", "down"}]
      /\ epoch' \in [Ops -> {"none", "seeded", "admitting", "unsafe", "retired"}]
  BY ObservedKeeps DEF ZoneInv, Typed, Observe
<1>2. CASE Ops = {}
  <2>1. Typed'
    BY <1>1 DEF Typed, Keeps
  <2>2. zone'.gateway = None /\ zone'.stale = None /\ zone'.kind # "running"
    BY <1>1, <1>2 DEF Keeps, ZoneStates, OrNone, ZoneInv, EpochsAreTheirs
  <2> QED
    BY <1>2, <2>1, <2>2 DEF ZoneInv, LockIsHeld, OneOwned, ProcessIsOwned, HandlesAreKept, Handle,
       EpochsAreTheirs, GenerationsAdvance
<1>3. CASE Ops # {}
  <2>1. PICK o \in Ops : TRUE
    BY <1>3
  <2>2. EpochPart(o)
    BY <1>1, SameEpochs DEF ZoneInv, EpochsAreTheirs
  <2> QED BY <1>1, <2>2, RestStep
<1> QED BY <1>2, <1>3

-----------------------------------------------------------------------------
(* The theorems.                                                           *)

LEMMA ZoneInit == Init => ZoneInv
<1> SUFFICES ASSUME Init PROVE ZoneInv
  OBVIOUS
<1>1. zone \in ZoneStates /\ zone.gateway = None /\ zone.stale = None /\ zone.kind # "running"
  BY DEF Init, ZoneStates, OrNone, ErrorCodes
<1>2. op \in [Ops -> OpStates] /\ \A o \in Ops : op[o] = IdleOp
  <2>1. IdleOp \in OpStates
    BY DEF IdleOp, OpStates, OrNone, Stages
  <2> QED BY <2>1 DEF Init
<1>3. /\ gen = 0 /\ queue = <<>> /\ \A o \in Ops : epoch[o] = "none" /\ proc[o] = "none"
      /\ proc \in [Ops -> {"none", "creating", "up", "down"}]
      /\ epoch \in [Ops -> {"none", "seeded", "admitting", "unsafe", "retired"}]
  BY DEF Init
<1>4. Typed
  BY <1>1, <1>2, <1>3 DEF Typed
<1>5. \A o \in Ops : /\ op[o].stage = "idle" /\ op[o].cont = "none" /\ op[o].gen = 0
                     /\ op[o].timed = FALSE /\ op[o].expired = FALSE
  <2>1. IdleOp.stage = "idle" /\ IdleOp.cont = "none" /\ IdleOp.gen = 0
    BY DEF IdleOp
  <2>2. IdleOp.timed = FALSE /\ IdleOp.expired = FALSE
    BY Zenon DEF IdleOp
  <2> QED BY <1>2, <2>1, <2>2
<1>6. LockIsHeld /\ GenerationsAdvance
  BY <1>3, <1>5 DEF LockIsHeld, LockedStages, EarlyStages, GenerationsAdvance
<1>7. OneOwned /\ ProcessIsOwned
  BY <1>3 DEF OneOwned, ProcessIsOwned, Owned
<1>8. HandlesAreKept /\ EpochsAreTheirs
  BY <1>1, <1>5 DEF HandlesAreKept, Handle, EpochsAreTheirs
<1> QED BY <1>4, <1>6, <1>7, <1>8 DEF ZoneInv

LEMMA ZoneNext == ZoneInv /\ [Next]_vars => ZoneInv'
<1> SUFFICES ASSUME ZoneInv, [Next]_vars PROVE ZoneInv'
  OBVIOUS
<1>1. ASSUME NEW o \in Ops, NEW kind \in Kinds, Call(o, kind) PROVE ZoneInv'
  BY <1>1, CallStep
<1>2. ASSUME NEW o \in Ops, Recover(o) PROVE ZoneInv'
  BY <1>2, RecoverStep
<1>3. ASSUME NEW o \in Ops, Progress(o) PROVE ZoneInv'
  <2>1. CASE RefreshReady(o)
    BY <2>1, RefreshReadyStep
  <2>2. CASE RefreshFails(o) \/ RefreshAborted(o)
    BY <2>2, RefreshEndStep
  <2>3. CASE Begin(o)
    BY <2>3, BeginStep
  <2>4. CASE PreflightFails(o) \/ Preflighted(o)
    BY <2>4, PreflightedStep
  <2>5. CASE StopFails(o) \/ StopSucceeds(o) \/ StaleClosed(o)
    BY <2>5, DestroyStep
  <2>6. CASE StaleCloseFails(o)
    BY <2>6, StaleCloseFailsStep
  <2>7. CASE StartFailsEarly(o) \/ ReserveFails(o) \/ CleanedUp(o) \/ ClosureRecorded(o)
    BY <2>7, StartEndStep
  <2>8. CASE ReserveZone(o)
    BY <2>8, ReserveStep
  <2>9. CASE Booted(o) \/ BootFails(o)
    BY <2>9, BootedStep
  <2>10. CASE Unbooted(o) \/ UnbootRefused(o) \/ StartedClosed(o) \/ StartedCloseFails(o)
    BY <2>10, OwnVmEndStep
  <2> QED BY <1>3, <2>1, <2>2, <2>3, <2>4, <2>5, <2>6, <2>7, <2>8, <2>9, <2>10 DEF Progress
<1>4. ASSUME NEW o \in Ops, Creation(o) PROVE ZoneInv'
  BY <1>4, CreatedStep, CreateFailsStep DEF Creation
<1>5. ASSUME NEW o \in Ops, Containment(o) PROVE ZoneInv'
  BY <1>5, ContainmentStep
<1>6. ASSUME NEW o \in Ops, Timeout(o) \/ VmDies(o) PROVE ZoneInv'
  BY <1>6, TimeoutStep, VmDiesStep
<1>7. CASE Observe
  BY <1>7, ObserveStep
<1>8. CASE UNCHANGED vars
  BY <1>8 DEF vars, ZoneInv, Typed, LockIsHeld, HoldsLock, OneOwned, ProcessIsOwned, Owned,
     HandlesAreKept, Handle, EpochsAreTheirs, GenerationsAdvance
<1> QED BY <1>1, <1>2, <1>3, <1>4, <1>5, <1>6, <1>7, <1>8 DEF Next

\* The invariant that the theorems below follow from holds in every behaviour of
\* the zone runtime: the lock, the epochs, the handles and the generations agree.
THEOREM ZoneCorrect == Spec => []ZoneInv
<1>1. Init => ZoneInv
  BY ZoneInit
<1>2. ZoneInv /\ [Next]_vars => ZoneInv'
  BY ZoneNext
<1> QED BY <1>1, <1>2, PTL DEF Spec

\* However operations overlap after their deadlines, start and stop fail and VMs die,
\* a zone has one Gateway VM at most, and the one it reports as running is neither
\* being destroyed nor beside another that is not proven gone.
THEOREM ZoneServesOnce == Spec => []ZoneIsServedOnce
<1>1. ASSUME ZoneInv PROVE ZoneIsServedOnce
  <2>1. TypeOK
    <3>1. \A o \in Ops : op[o] \in OpStates
      BY <1>1 DEF ZoneInv, Typed
    <3> QED
      BY <1>1, <3>1 DEF ZoneInv, Typed, TypeOK, ZoneStates, OpStates, OrNone, EpochsAreTheirs
  <2>2. OneGatewayProcess
    BY <1>1 DEF ZoneInv, OneOwned, ProcessIsOwned, OneGatewayProcess
  <2>3. RunningGatewayServesAlone
    <3>1. zone.gateway \in OrNone
      BY <1>1 DEF ZoneInv, Typed, ZoneStates
    <3> QED
      BY <1>1, <3>1 DEF ZoneInv, OneOwned, Owned, EpochsAreTheirs, RunningGatewayServesAlone, OrNone
  <2> QED BY <2>1, <2>2, <2>3 DEF ZoneIsServedOnce
<1> QED BY <1>1, ZoneCorrect, PTL

\* A start whose caller was told that it timed out is never the Gateway of the zone.
THEOREM ExpiredStartsStayOut == Spec => []ExpiredStartIsNotPublished
<1>1. ASSUME ZoneInv PROVE ExpiredStartIsNotPublished
  BY <1>1, ZoneAssumption DEF ZoneInv, HandlesAreKept, Handle, ExpiredStartIsNotPublished
<1> QED BY <1>1, ZoneCorrect, PTL

-----------------------------------------------------------------------------
(* The automatic recovery: its inductive invariant.                        *)

Budget == [failed : 0 .. MaxFailed, age : 0 .. Oldest, escalated : BOOLEAN]

Stabilization ==
  [on : BOOLEAN, class : Classes, bound : Keys, ctl : 0 .. Stability, svc : 0 .. Stability,
   age : 0 .. Deadline]

Tracker ==
  [ctl : 0 .. Threshold, due : BOOLEAN, dueAge : 0 .. Deadline + 1, key : Keys,
   svc : 0 .. Threshold, svcAge : 0 .. Deadline + 1, channel : 0 .. Threshold, inFlight : BOOLEAN,
   stab : Stabilization, budget : [Classes -> Budget]]

Caller == [stage : {"idle", "probing", "recovering"}, class : Classes, key : Keys, channel : BOOLEAN]

\* The tracker knows of a recovery exactly while one is under way.
InFlightIsKnown == t.inFlight <=> \E w \in Callers : caller[w].stage = "recovering"

\* Whose report the latest event is, as far as the monitor relies on it; and what
\* the tracker holds against a Gateway is of the Gateway the monitor knows.
EvidenceIsAttributed ==
  /\ frontier = 0 /\ event.src # 0 => event.early
  /\ frontier # 0 /\ source = frontier /\ event.src # 0 /\ ~quarantined =>
       event.src = source \/ event.early
  /\ t.due => t.key # 0 /\ t.key = frontier /\ ~quarantined /\ event.src # 0

RecoveryInv == RecoveriesAreAccounted /\ InFlightIsKnown /\ EvidenceIsAttributed

-----------------------------------------------------------------------------
(* The operators of the tracker.                                           *)

Decision == [t : Tracker, says : {"none", "restart", "escalate", "suspended"}]

\* What every decision leaves alone: a recovery under way, and suspensions, but
\* for one that it reports.
Decides(s, class, d) ==
  /\ d \in Decision
  /\ d.t.inFlight = s.inFlight
  /\ d.says = "restart" => ~s.inFlight
  /\ \A c \in Classes : d.t.budget[c].escalated =>
       s.budget[c].escalated \/ (c = class /\ d.says = "escalate")

\* What the tracker knows of the Gateway, its control session and its service.
SameEvidence(s, r) == r.ctl = s.ctl /\ r.due = s.due /\ r.key = s.key /\ r.svc = s.svc

\* A suspension in force: no decision of the same tick lifts it.
Suspended(s, class) ==
  LET b == s.budget[class] IN b.failed >= MaxFailed /\ b.age < Reset /\ b.escalated

LEMMA CapIsBounded ==
  ASSUME NEW n \in Nat, NEW max \in Nat
  PROVE  CapAt(n, max) \in 0 .. max
BY DEF CapAt

LEMMA RecoveryParameters ==
  /\ 0 \notin Sources
  /\ Threshold \in Nat /\ Threshold > 0 /\ MaxFailed \in Nat /\ MaxFailed > 0
  /\ Deadline \in Nat /\ Deadline > 0 /\ Stability \in Nat /\ Stability > 0
  /\ Cooldown \in Nat /\ Reset \in Nat /\ Grace \in Nat /\ StaleAfter \in Nat /\ Oldest \in Nat
BY RecoveryAssumption DEF Oldest

\* Edits of a budget.
LEMMA Unsuspended ==
  ASSUME NEW b \in Budget, NEW r, r = [b EXCEPT !.failed = 0, !.escalated = FALSE]
  PROVE  r \in Budget /\ r.failed = 0 /\ r.age = b.age /\ ~r.escalated
<1>1. 0 \in 0 .. MaxFailed
  BY RecoveryParameters
<1> QED BY <1>1, Zenon DEF Budget

LEMMA Escalated ==
  ASSUME NEW b \in Budget, NEW r, r = [b EXCEPT !.escalated = TRUE]
  PROVE  /\ r \in Budget /\ r.failed = b.failed /\ r.age = b.age /\ r.escalated
         /\ b.escalated => r = b
<1>1. r \in Budget /\ r.failed = b.failed /\ r.age = b.age /\ r.escalated
  BY Zenon DEF Budget
<1>2. b.escalated \in BOOLEAN
  BY DEF Budget
<1>3. ASSUME b.escalated PROVE r = b
  <2>1. b.escalated = TRUE
    BY <1>2, <1>3
  <2> QED BY <2>1, <1>1 DEF Budget
<1> QED BY <1>1, <1>3

LEMMA LiftedBudget ==
  ASSUME NEW b \in Budget
  PROVE  /\ Lifted(b) \in Budget
         /\ Lifted(b).escalated => b.escalated
         /\ Lifted(b).failed >= MaxFailed => Lifted(b) = b /\ b.failed >= MaxFailed /\ b.age < Reset
<1>1. b.failed \in Nat /\ b.age \in Nat /\ b.escalated \in BOOLEAN /\ MaxFailed \in Nat /\ MaxFailed > 0
      /\ Reset \in Nat
  BY RecoveryParameters DEF Budget
<1>2. CASE b.failed >= MaxFailed /\ b.age >= Reset
  <2> DEFINE r == [b EXCEPT !.failed = 0, !.escalated = FALSE]
  <2>1. Lifted(b) = r
    BY <1>2 DEF Lifted
  <2>2. r \in Budget /\ r.failed = 0 /\ ~r.escalated
    BY Unsuspended
  <2> QED BY <1>1, <2>1, <2>2
<1>3. CASE ~(b.failed >= MaxFailed /\ b.age >= Reset)
  BY <1>1, <1>3 DEF Lifted
<1> QED BY <1>2, <1>3

\* Replacing a budget.
WithBudget(s, class, b) == [s EXCEPT !.budget[class] = b]

LEMMA BudgetReplaced ==
  ASSUME NEW s \in Tracker, NEW class \in Classes, NEW b \in Budget,
         NEW r, r = WithBudget(s, class, b)
  PROVE  /\ r \in Tracker /\ SameEvidence(s, r)
         /\ r.inFlight = s.inFlight /\ r.svc = s.svc /\ r.stab = s.stab
         /\ r.budget[class] = b /\ \A c \in Classes : c # class => r.budget[c] = s.budget[c]
<1>1. /\ s.budget \in [Classes -> Budget] /\ r.budget = [s.budget EXCEPT ![class] = b]
  BY DEF Tracker, WithBudget
<1>2. r.budget \in [Classes -> Budget]
  BY <1>1
<1>3. r \in Tracker
  BY <1>2, Zenon DEF Tracker, WithBudget
<1> QED BY <1>1, <1>3 DEF Tracker, SameEvidence, WithBudget

LEMMA DecideDecides ==
  ASSUME NEW s \in Tracker, NEW class \in Classes, NEW failures \in Nat, NEW d,
         d = Decide(s, class, failures)
  PROVE  /\ Decides(s, class, d) /\ SameEvidence(s, d.t)
         /\ d.says = "none" => d.t = s
         /\ d.says = "restart" => failures >= Threshold
         /\ d.says \in {"escalate", "suspended"} => Suspended(d.t, class) /\ ~s.stab.on
         /\ d.says = "suspended" => Suspended(s, class)
         /\ Suspended(s, class) => d.t.budget = s.budget /\ d.says \in {"none", "suspended"}
<1> DEFINE b == Lifted(s.budget[class])
<1>1. s.budget[class] \in Budget /\ b \in Budget
  BY LiftedBudget DEF Tracker
<1>2. CASE \/ s.inFlight \/ s.stab.on \/ failures < Threshold \/ s.budget[class].age < Cooldown
  <2>1. d = Says(s, "none")
    <3>1. s.budget[class].age \in Nat
      BY <1>1 DEF Budget
    <3> QED BY <1>2, <3>1, RecoveryParameters DEF Decide
  <2>2. d.t = s /\ d.says = "none" /\ d \in Decision
    BY <2>1 DEF Says, Decision
  <2> QED BY <2>2, Zenon DEF Decides, SameEvidence
<1>3. CASE /\ ~s.inFlight /\ ~s.stab.on /\ failures >= Threshold /\ s.budget[class].age >= Cooldown
           /\ b.failed >= MaxFailed
  <2> DEFINE r == [s EXCEPT !.budget[class] = [b EXCEPT !.escalated = TRUE]]
  <2>1. d = Says(r, IF b.escalated THEN "suspended" ELSE "escalate")
    BY <1>3, RecoveryParameters, <1>1 DEF Decide, Tracker, Budget
  <2> DEFINE e == [b EXCEPT !.escalated = TRUE]
  <2>2. /\ e \in Budget /\ e.failed = b.failed /\ e.age = b.age /\ e.escalated
        /\ b.escalated => e = b
    BY <1>1, Escalated
  <2>3. /\ r \in Tracker /\ SameEvidence(s, r) /\ r.inFlight = s.inFlight
        /\ r.budget[class] = e
        /\ \A c \in Classes : c # class => r.budget[c] = s.budget[c]
    <3>1. r = WithBudget(s, class, e)
      BY DEF WithBudget
    <3> HIDE DEF r, e
    <3> QED BY <2>2, <3>1, BudgetReplaced
  <2>4. b = s.budget[class] /\ b.failed >= MaxFailed /\ b.age < Reset
    BY <1>1, <1>3, LiftedBudget
  <2>5. b.escalated => r.budget = s.budget
    <3>1. b.escalated => e = b
      BY <2>2
    <3>2. r.budget \in [Classes -> Budget] /\ s.budget \in [Classes -> Budget]
      BY <2>3 DEF Tracker
    <3> HIDE DEF r, e
    <3> QED BY <2>3, <2>4, <3>1, <3>2
  <2>6. d.t = r /\ d.says = (IF b.escalated THEN "suspended" ELSE "escalate") /\ d \in Decision
    BY <2>1, <2>3 DEF Says, Decision
  <2> HIDE DEF r
  <2>7. Decides(s, class, d)
    BY <1>1, <1>3, <2>3, <2>4, <2>6 DEF Decides, Budget
  <2>8. Suspended(d.t, class) /\ (b.escalated => Suspended(s, class))
    BY <2>2, <2>3, <2>4, <2>6 DEF Suspended
  <2> QED BY <1>3, <2>3, <2>4, <2>5, <2>6, <2>7, <2>8 DEF Suspended
<1>4. CASE /\ ~(\/ s.inFlight \/ s.stab.on \/ failures < Threshold \/ s.budget[class].age < Cooldown)
           /\ ~(b.failed >= MaxFailed)
  <2> DEFINE r == [s EXCEPT !.budget[class] = b]
  <2>1. d = Says(r, "restart")
    BY <1>4 DEF Decide
  <2>2. /\ r \in Tracker /\ SameEvidence(s, r) /\ r.inFlight = s.inFlight
        /\ r.budget[class] = b /\ \A c \in Classes : c # class => r.budget[c] = s.budget[c]
    <3>1. r = WithBudget(s, class, b)
      BY DEF WithBudget
    <3> HIDE DEF r, b
    <3> QED BY <1>1, <3>1, BudgetReplaced
  <2>3. d.t = r /\ d.says = "restart" /\ d \in Decision
    BY <2>1, <2>2 DEF Says, Decision
  <2>4. ~Suspended(s, class)
    <3>1. s.budget[class].failed \in Nat /\ s.budget[class].age \in Nat
      BY <1>1 DEF Budget
    <3> QED BY <1>4, <3>1, RecoveryParameters DEF Suspended, Lifted
  <2>5. failures >= Threshold
    BY <1>4, RecoveryParameters
  <2> HIDE DEF r
  <2>6. Lifted(s.budget[class]).escalated => s.budget[class].escalated
    BY <1>1, LiftedBudget
  <2>7. Decides(s, class, d)
    BY <1>4, <2>2, <2>3, <2>6 DEF Decides
  <2> QED BY <2>2, <2>3, <2>4, <2>5, <2>7
<1>5. /\ failures >= Threshold <=> ~(failures < Threshold)
      /\ s.budget[class].age >= Cooldown <=> ~(s.budget[class].age < Cooldown)
  BY <1>1, RecoveryParameters DEF Budget
<1> HIDE DEF b
<1> QED BY <1>2, <1>3, <1>4, <1>5

\* What the tracker does beside its decisions: no recovery begins or ends, and no
\* suspension begins.
Leaves(s, r) ==
  /\ r \in Tracker
  /\ r.inFlight = s.inFlight
  /\ \A c \in Classes : r.budget[c].escalated => s.budget[c].escalated

LEMMA ForgottenIs ==
  ASSUME NEW s \in Tracker, NEW r, r = ControlForgotten(s)
  PROVE  /\ r \in Tracker /\ r.inFlight = s.inFlight /\ r.budget = s.budget /\ r.svc = s.svc
         /\ r.key = s.key /\ r.stab = s.stab /\ r.due = FALSE /\ r.ctl = 0
<1>1. 0 \in 0 .. Threshold /\ 0 \in 0 .. Deadline + 1 /\ FALSE \in BOOLEAN
  BY RecoveryParameters
<1>2. r \in Tracker
  BY <1>1, Zenon DEF Tracker, ControlForgotten
<1> QED BY <1>2 DEF Tracker, ControlForgotten

\* The tracker holds nothing against another Gateway than k.
Knows(s, k) == s.key \in {0, k}

LEMMA SourcedIs ==
  ASSUME NEW s \in Tracker, NEW k \in Sources, NEW r, r = Sourced(s, k)
  PROVE  /\ Leaves(s, r) /\ r.budget = s.budget /\ r.svc = s.svc /\ r.key = k
         /\ r.stab.on = s.stab.on
         /\ Knows(s, k) => r.ctl = s.ctl /\ r.due = s.due
         /\ ~Knows(s, k) => r.ctl = 0 /\ ~r.due
<1> DEFINE fresh == IF s.key \notin {0, k} THEN ControlForgotten(s) ELSE s
           bound == IF s.stab.on /\ fresh.stab.bound = 0 THEN k ELSE fresh.stab.bound
<1>1. /\ fresh \in Tracker /\ fresh.inFlight = s.inFlight /\ fresh.budget = s.budget
      /\ fresh.svc = s.svc /\ fresh.stab = s.stab
      /\ s.key \in {0, k} => fresh.ctl = s.ctl /\ fresh.due = s.due
      /\ s.key \notin {0, k} => fresh.ctl = 0 /\ fresh.due = FALSE
  BY ForgottenIs
<1>2. r = [fresh EXCEPT !.key = k, !.stab.bound = bound]
  BY DEF Sourced
<1> HIDE DEF fresh
<1>3. k \in Keys /\ fresh.stab \in Stabilization /\ bound \in Keys
  BY <1>1 DEF Keys, Tracker, Stabilization
<1> HIDE DEF bound
<1>4. [fresh.stab EXCEPT !.bound = bound] \in Stabilization
  BY <1>3 DEF Stabilization
<1>5. r \in Tracker
  BY <1>1, <1>2, <1>3, <1>4, Zenon DEF Tracker
<1>6. /\ r.inFlight = fresh.inFlight /\ r.budget = fresh.budget /\ r.svc = fresh.svc /\ r.key = k
      /\ r.stab.on = fresh.stab.on /\ r.ctl = fresh.ctl /\ r.due = fresh.due
  BY <1>1, <1>2, <1>3 DEF Tracker, Stabilization
<1> QED BY <1>1, <1>5, <1>6 DEF Leaves, Knows

LEMMA StabilizedIs ==
  ASSUME NEW s \in Tracker, NEW r, r = Stabilized(s)
  PROVE  Leaves(s, r) /\ SameEvidence(s, r) /\ r.svc = s.svc
<1> DEFINE b == [failed |-> 0, age |-> 0, escalated |-> FALSE]
           x == WithBudget(s, s.stab.class, b)
           y == [x EXCEPT !.stab = NoStabilization]
<1>1. CASE r = s
  BY <1>1 DEF Leaves, SameEvidence
<1>2. CASE r = y
  <2>1. s.stab.class \in Classes /\ b \in Budget /\ NoStabilization \in Stabilization
    BY RecoveryParameters DEF Tracker, Stabilization, Budget, NoStabilization, Classes, Keys
  <2>2. /\ x \in Tracker /\ SameEvidence(s, x) /\ x.inFlight = s.inFlight /\ x.svc = s.svc
        /\ x.budget[s.stab.class] = b
        /\ \A c \in Classes : c # s.stab.class => x.budget[c] = s.budget[c]
    BY <2>1, BudgetReplaced
  <2> HIDE DEF x
  <2>3. y \in Tracker
    BY <2>1, <2>2, Zenon DEF Tracker
  <2>4. SameEvidence(x, y) /\ y.inFlight = x.inFlight /\ y.svc = x.svc /\ y.budget = x.budget
    BY <2>2 DEF Tracker, SameEvidence
  <2>5. ~b.escalated
    OBVIOUS
  <2> HIDE DEF y, b
  <2> QED BY <1>2, <2>2, <2>3, <2>4, <2>5 DEF Leaves, SameEvidence
<1>3. r = s \/ r = y
  BY DEF Stabilized, WithBudget
<1> QED BY <1>1, <1>2, <1>3

LEMMA CorroboratedIs ==
  ASSUME NEW s \in Tracker, NEW class \in Classes, NEW d, d = Corroborated(s, class)
  PROVE  /\ Decides(s, class, d) /\ SameEvidence(s, d.t)
         /\ d.says # "none" /\ class = "restart" => s.due /\ s.svc >= Threshold
         /\ d.says \in {"escalate", "suspended"} => Suspended(d.t, class)
         /\ d.says = "suspended" => Suspended(s, class)
         /\ Suspended(s, class) => d.t.budget = s.budget
<1>1. s.svc \in Nat /\ Threshold \in Nat
  BY RecoveryParameters DEF Tracker
<1>2. CASE \E failures \in Nat : d = Decide(s, class, failures)
  <2>1. PICK failures \in Nat : d = Decide(s, class, failures)
    BY <1>2
  <2>2. /\ Decides(s, class, d) /\ SameEvidence(s, d.t)
        /\ d.says \in {"escalate", "suspended"} => Suspended(d.t, class)
        /\ d.says = "suspended" => Suspended(s, class)
        /\ Suspended(s, class) => d.t.budget = s.budget
    BY <2>1, DecideDecides
  <2>3. class = "restart" /\ d.says # "none" => s.due /\ s.svc >= Threshold
    <3>1. class = "restart" => \/ s.due /\ s.svc >= Threshold
                               \/ d = Says(s, "none")
      BY DEF Corroborated
    <3> QED BY <3>1 DEF Says
  <2> QED BY <2>2, <2>3
<1>3. CASE d = Says(s, "none")
  <2>1. d.t = s /\ d.says = "none" /\ d \in Decision
    BY <1>3 DEF Says, Decision
  <2> QED BY <2>1, Zenon DEF Decides, SameEvidence
<1> QED BY <1>1, <1>2, <1>3 DEF Corroborated

\* Edits of the counters.
LEMMA StabilityCounted ==
  ASSUME NEW s \in Tracker, NEW n \in 0 .. Stability, NEW r,
         r = [s EXCEPT !.stab.ctl = n] \/ r = [s EXCEPT !.stab.svc = n]
  PROVE  /\ r \in Tracker /\ SameEvidence(s, r)
         /\ r.inFlight = s.inFlight /\ r.budget = s.budget
<1>1. s.stab \in Stabilization
  BY DEF Tracker
<1>2. [s.stab EXCEPT !.ctl = n] \in Stabilization /\ [s.stab EXCEPT !.svc = n] \in Stabilization
  BY <1>1 DEF Stabilization
<1>3. r \in Tracker
  BY <1>2, Zenon DEF Tracker
<1> QED BY <1>3 DEF Tracker, SameEvidence

WithFailure(s, due) == [s EXCEPT !.ctl = CapAt(@ + 1, Threshold), !.due = due, !.dueAge = 0]

LEMMA FailureCounted ==
  ASSUME NEW s \in Tracker, NEW due \in BOOLEAN, NEW r,
         r = WithFailure(s, due)
  PROVE  /\ r \in Tracker /\ r.due = due /\ r.key = s.key /\ r.svc = s.svc
         /\ r.inFlight = s.inFlight /\ r.budget = s.budget
<1>1. s.ctl + 1 \in Nat /\ Threshold \in Nat /\ 0 \in 0 .. Deadline + 1
  BY RecoveryParameters DEF Tracker
<1>2. CapAt(s.ctl + 1, Threshold) \in 0 .. Threshold
  BY <1>1, CapIsBounded
<1>3. r \in Tracker
  BY <1>1, <1>2, Zenon DEF Tracker, WithFailure
<1> QED BY <1>3 DEF Tracker, WithFailure

WithProbe(s, n) == [s EXCEPT !.svc = n, !.svcAge = 0]

LEMMA ProbeRecorded ==
  ASSUME NEW s \in Tracker, NEW n \in 0 .. Threshold, NEW r,
         r = WithProbe(s, n)
  PROVE  /\ r \in Tracker /\ r.ctl = s.ctl /\ r.due = s.due /\ r.key = s.key /\ r.svc = n
         /\ r.inFlight = s.inFlight /\ r.budget = s.budget
<1>1. 0 \in 0 .. Deadline + 1
  BY RecoveryParameters
<1>2. r \in Tracker
  BY <1>1, Zenon DEF Tracker, WithProbe
<1> QED BY <1>2 DEF Tracker, WithProbe

LEMMA LeavesDecides ==
  ASSUME NEW s, NEW class, NEW d, NEW r, d = Says(r, "none"), Leaves(s, r)
  PROVE  Decides(s, class, d) /\ d.t = r /\ d.says = "none"
<1>1. d.t = r /\ d.says = "none"
  BY DEF Says
<1>2. d \in Decision
  BY DEF Leaves, Says, Decision
<1> QED BY <1>1, <1>2, Zenon DEF Decides, Leaves

\* What a look at the control session of the Gateway k decides.
ControlDecides(s, class, ok, k, d) ==
  /\ Decides(s, class, d) /\ d.t.key = k /\ d.t.svc = s.svc
  /\ ok => d.says = "none" /\ d.t.due = FALSE
  /\ class = "restart" /\ s.svc < Threshold => d.says = "none"
  /\ d.says \in {"escalate", "suspended"} => Suspended(d.t, class)
  /\ d.says = "suspended" => Suspended(s, class)
  /\ ~ok /\ Suspended(s, class) => d.t.budget = s.budget

LEMMA ControlObservedIs ==
  ASSUME NEW s \in Tracker, NEW class \in Classes, NEW ok \in BOOLEAN, NEW due \in BOOLEAN,
         NEW k \in Sources, NEW d, d = ControlObserved(s, class, ok, due, k)
  PROVE  ControlDecides(s, class, ok, k, d)
<1> USE DEF ControlDecides
<1>1. CASE ok
  <2> DEFINE f == ControlForgotten(s)
             s1 == Sourced(f, k)
             s2 == [s1 EXCEPT !.stab.ctl = CapAt(@ + 1, Stability)]
             r == IF CountsForStability(s1) THEN Stabilized(s2) ELSE s1
  <2>1. /\ f \in Tracker /\ f.inFlight = s.inFlight /\ f.budget = s.budget /\ f.svc = s.svc
        /\ f.due = FALSE
    BY ForgottenIs
  <2> HIDE DEF f
  <2>2. /\ Leaves(f, s1) /\ s1.budget = f.budget /\ s1.svc = f.svc /\ s1.key = k
        /\ s1.due = FALSE
    BY <2>1, SourcedIs
  <2> HIDE DEF s1
  <2>3. s1 \in Tracker
    BY <2>2 DEF Leaves
  <2>4. CapAt(s1.stab.ctl + 1, Stability) \in 0 .. Stability
    <3>1. s1.stab.ctl + 1 \in Nat
      BY <2>3 DEF Tracker, Stabilization
    <3> QED BY <3>1, CapIsBounded, RecoveryParameters
  <2>5. s2 \in Tracker /\ SameEvidence(s1, s2) /\ s2.inFlight = s1.inFlight /\ s2.budget = s1.budget
    <3> DEFINE n == CapAt(s1.stab.ctl + 1, Stability)
    <3>1. n \in 0 .. Stability /\ s2 = [s1 EXCEPT !.stab.ctl = n]
      BY <2>4
    <3> HIDE DEF n, s2
    <3> QED BY <2>3, <3>1, StabilityCounted
  <2> HIDE DEF s2
  <2>6. Leaves(s2, Stabilized(s2)) /\ SameEvidence(s2, Stabilized(s2))
    BY <2>5, StabilizedIs
  <2>7. Leaves(s, r) /\ r.key = k /\ r.svc = s.svc /\ r.due = FALSE
    <3>1. CASE CountsForStability(s1)
      <4>1. r = Stabilized(s2)
        BY <3>1
      <4> HIDE DEF r
      <4> QED BY <2>1, <2>2, <2>3, <2>5, <2>6, <4>1 DEF Leaves, SameEvidence
    <3>2. CASE ~CountsForStability(s1)
      <4>1. r = s1
        BY <3>2
      <4> HIDE DEF r
      <4> QED BY <2>1, <2>2, <4>1 DEF Leaves
    <3> QED BY <3>1, <3>2
  <2>8. d = Says(r, "none")
    BY <1>1 DEF ControlObserved, f, s1, s2
  <2> HIDE DEF r
  <2>9. Decides(s, class, d) /\ d.t = r /\ d.says = "none"
    BY <2>7, <2>8, LeavesDecides
  <2> QED BY <1>1, <2>7, <2>9
<1>2. CASE ~ok
  <2> DEFINE s0 == [s EXCEPT !.stab.ctl = 0]
             s1 == Sourced(s0, k)
             s2 == WithFailure(s1, due)
  <2>1. s0 \in Tracker /\ SameEvidence(s, s0) /\ s0.inFlight = s.inFlight /\ s0.budget = s.budget
    <3>1. 0 \in 0 .. Stability
      BY RecoveryParameters
    <3> QED BY <3>1, StabilityCounted
  <2> HIDE DEF s0
  <2>2. /\ Leaves(s0, s1) /\ s1.budget = s0.budget /\ s1.svc = s0.svc /\ s1.key = k
    BY <2>1, SourcedIs
  <2> HIDE DEF s1
  <2>3. /\ s2 \in Tracker /\ s2.key = s1.key /\ s2.svc = s1.svc
        /\ s2.inFlight = s1.inFlight /\ s2.budget = s1.budget
    <3>1. s1 \in Tracker
      BY <2>2 DEF Leaves
    <3> QED BY <3>1, FailureCounted
  <2> HIDE DEF s2
  <2>4. /\ s2 \in Tracker /\ s2.key = k /\ s2.svc = s.svc /\ s2.inFlight = s.inFlight
        /\ s2.budget = s.budget
    BY <2>1, <2>2, <2>3 DEF Leaves, SameEvidence
  <2>5. Suspended(s2, class) <=> Suspended(s, class)
    BY <2>4 DEF Suspended
  <2>6. d = IF due THEN Corroborated(s2, class) ELSE Says(s2, "none")
    BY <1>2 DEF ControlObserved, WithFailure, s0, s1, s2
  <2>7. CASE due
    <3>1. /\ Decides(s2, class, d) /\ SameEvidence(s2, d.t)
          /\ d.says # "none" /\ class = "restart" => s2.svc >= Threshold
          /\ d.says \in {"escalate", "suspended"} => Suspended(d.t, class)
          /\ d.says = "suspended" => Suspended(s2, class)
          /\ Suspended(s2, class) => d.t.budget = s2.budget
      BY <2>4, <2>6, <2>7, CorroboratedIs
    <3>2. Decides(s, class, d)
      BY <2>4, <3>1 DEF Decides
    <3>3. s.svc \in Nat /\ Threshold \in Nat
      BY RecoveryParameters DEF Tracker
    <3>4. d.t.key = k /\ d.t.svc = s.svc
      BY <2>4, <3>1 DEF SameEvidence
    <3>5. class = "restart" /\ s.svc < Threshold => d.says = "none"
      BY <2>4, <3>1, <3>3
    <3> QED BY <1>2, <2>4, <2>5, <3>1, <3>2, <3>4, <3>5
  <2>8. CASE ~due
    <3>1. Leaves(s, s2)
      BY <2>4 DEF Leaves
    <3>2. Decides(s, class, d) /\ d.t = s2 /\ d.says = "none"
      BY <2>6, <2>8, <3>1, LeavesDecides
    <3> QED BY <1>2, <2>4, <3>2
  <2> QED BY <2>7, <2>8
<1> QED BY <1>1, <1>2

\* What a probe of the service decides.
LEMMA ServiceObservedIs ==
  ASSUME NEW s \in Tracker, NEW class \in Classes, NEW ok \in BOOLEAN,
         NEW k \in Keys, NEW d, d = ServiceObserved(s, class, ok, k)
  PROVE  /\ Decides(s, class, d)
         /\ d.t.key = (IF ok /\ k # 0 THEN k ELSE s.key)
         /\ d.t.due => s.due /\ s.key \in {0, d.t.key}
         /\ d.t.ctl <= s.ctl
         /\ ok => d.says = "none" /\ d.t.svc = 0
         /\ d.says # "none" /\ class = "restart" => s.due
         /\ d.says \in {"escalate", "suspended"} => Suspended(d.t, class)
<1>0. /\ s.ctl \in Nat /\ s.svc + 1 \in Nat
      /\ 0 \in 0 .. Threshold /\ 0 \in 0 .. Stability /\ Threshold \in Nat
  BY RecoveryParameters DEF Tracker
<1>1. CASE ok
  <2> DEFINE s0 == WithProbe(s, 0)
             s1 == IF k # 0 THEN Sourced(s0, k) ELSE s0
             s2 == [s1 EXCEPT !.stab.svc = CapAt(@ + 1, Stability)]
             r == IF CountsForStability(s1) THEN Stabilized(s2) ELSE s1
  <2>1. /\ s0 \in Tracker /\ s0.ctl = s.ctl /\ s0.due = s.due /\ s0.key = s.key /\ s0.svc = 0
        /\ s0.inFlight = s.inFlight /\ s0.budget = s.budget
    BY <1>0, ProbeRecorded
  <2> HIDE DEF s0
  <2>2. /\ Leaves(s0, s1) /\ s1.svc = 0 /\ s1.key = IF k # 0 THEN k ELSE s.key
        /\ s1.due => s.due /\ s.key \in {0, s1.key}
        /\ s1.ctl <= s.ctl
    <3>1. CASE k # 0
      <4>1. k \in Sources /\ s1 = Sourced(s0, k)
        BY <3>1 DEF Keys
      <4> HIDE DEF s1
      <4>2. /\ Leaves(s0, s1) /\ s1.svc = s0.svc /\ s1.key = k
            /\ Knows(s0, k) => s1.ctl = s0.ctl /\ s1.due = s0.due
            /\ ~Knows(s0, k) => s1.ctl = 0 /\ ~s1.due
        BY <2>1, <4>1, SourcedIs
      <4> QED BY <1>0, <2>1, <3>1, <4>2 DEF Knows
    <3>2. CASE k = 0
      <4>1. s1 = s0
        BY <3>2
      <4> HIDE DEF s1
      <4> QED BY <1>0, <2>1, <3>2, <4>1 DEF Leaves
    <3> QED BY <3>1, <3>2
  <2> HIDE DEF s1
  <2>3. s1 \in Tracker
    BY <2>2 DEF Leaves
  <2>4. CapAt(s1.stab.svc + 1, Stability) \in 0 .. Stability
    <3>1. s1.stab.svc + 1 \in Nat
      BY <2>3 DEF Tracker, Stabilization
    <3> QED BY <3>1, CapIsBounded, RecoveryParameters
  <2>5. s2 \in Tracker /\ SameEvidence(s1, s2) /\ s2.inFlight = s1.inFlight /\ s2.budget = s1.budget
    <3> DEFINE n == CapAt(s1.stab.svc + 1, Stability)
    <3>1. n \in 0 .. Stability /\ s2 = [s1 EXCEPT !.stab.svc = n]
      BY <2>4
    <3> HIDE DEF n, s2
    <3> QED BY <2>3, <3>1, StabilityCounted
  <2> HIDE DEF s2
  <2>6. Leaves(s2, Stabilized(s2)) /\ SameEvidence(s2, Stabilized(s2))
    BY <2>5, StabilizedIs
  <2>7. Leaves(s, r) /\ SameEvidence(s1, r)
    <3>1. CASE CountsForStability(s1)
      <4>1. r = Stabilized(s2)
        BY <3>1
      <4> HIDE DEF r
      <4> QED BY <2>1, <2>2, <2>3, <2>5, <2>6, <4>1 DEF Leaves, SameEvidence
    <3>2. CASE ~CountsForStability(s1)
      <4>1. r = s1
        BY <3>2
      <4> HIDE DEF r
      <4> QED BY <2>1, <2>2, <4>1 DEF Leaves, SameEvidence
    <3> QED BY <3>1, <3>2
  <2>8. d = Says(r, "none")
    BY <1>1 DEF ServiceObserved, WithProbe, s0, s1, s2
  <2> HIDE DEF r
  <2>9. Decides(s, class, d) /\ d.t = r /\ d.says = "none"
    BY <2>7, <2>8, LeavesDecides
  <2> QED BY <1>1, <2>2, <2>7, <2>9 DEF SameEvidence
<1>2. CASE ~ok
  <2> DEFINE n == CapAt(s.svc + 1, Threshold)
             s0 == [s EXCEPT !.stab.svc = 0]
             s1 == WithProbe(s0, n)
  <2>1. s0 \in Tracker /\ SameEvidence(s, s0) /\ s0.inFlight = s.inFlight /\ s0.budget = s.budget
    BY <1>0, StabilityCounted
  <2>2. n \in 0 .. Threshold
    BY <1>0, CapIsBounded
  <2>3. d = Corroborated(s1, class)
    BY <1>2 DEF ServiceObserved, WithProbe, s0, s1, n
  <2> HIDE DEF s0, n
  <2>4. /\ s1 \in Tracker /\ s1.ctl = s0.ctl /\ s1.due = s0.due /\ s1.key = s0.key
        /\ s1.inFlight = s0.inFlight /\ s1.budget = s0.budget
    BY <2>1, <2>2, ProbeRecorded
  <2> HIDE DEF s1
  <2>5. /\ Decides(s1, class, d) /\ SameEvidence(s1, d.t)
        /\ d.says # "none" /\ class = "restart" => s1.due
        /\ d.says \in {"escalate", "suspended"} => Suspended(d.t, class)
    BY <2>3, <2>4, CorroboratedIs
  <2>6. Decides(s, class, d)
    BY <2>1, <2>4, <2>5 DEF Decides
  <2> QED BY <1>0, <1>2, <2>1, <2>4, <2>5, <2>6 DEF SameEvidence
<1> QED BY <1>1, <1>2

\* What a look at the channel provider decides.
LEMMA ChannelObservedIs ==
  ASSUME NEW s \in Tracker, NEW class \in Classes, NEW ok \in BOOLEAN,
         NEW d, d = ChannelObserved(s, class, ok)
  PROVE  /\ Decides(s, class, d) /\ SameEvidence(s, d.t)
         /\ d.says = "escalate" => Suspended(d.t, class)
         /\ Suspended(s, class) => d.t.budget = s.budget
<1>0. s.channel + 1 \in Nat /\ 0 \in 0 .. Threshold /\ Threshold \in Nat
  BY RecoveryParameters DEF Tracker
<1> DEFINE n == IF ok THEN 0 ELSE CapAt(s.channel + 1, Threshold)
           r == [s EXCEPT !.channel = n]
<1>1. n \in 0 .. Threshold
  BY <1>0, CapIsBounded
<1>2. d = IF ok THEN Says(r, "none") ELSE Decide(r, class, r.channel)
  BY DEF ChannelObserved
<1> HIDE DEF n
<1>3. r \in Tracker
  BY <1>1, Zenon DEF Tracker
<1>4. SameEvidence(s, r) /\ r.inFlight = s.inFlight /\ r.budget = s.budget /\ r.channel \in Nat
  BY <1>0, <1>1, <1>3 DEF Tracker, SameEvidence
<1> HIDE DEF r
<1>5. Suspended(r, class) <=> Suspended(s, class)
  BY <1>4 DEF Suspended
<1>6. CASE ok
  <2>1. Leaves(s, r)
    BY <1>3, <1>4 DEF Leaves
  <2>2. Decides(s, class, d) /\ d.t = r /\ d.says = "none"
    BY <1>2, <1>6, <2>1, LeavesDecides
  <2> QED BY <1>4, <2>2
<1>7. CASE ~ok
  <2>1. d = Decide(r, class, r.channel)
    BY <1>2, <1>7
  <2>2. /\ Decides(r, class, d) /\ SameEvidence(r, d.t)
        /\ d.says \in {"escalate", "suspended"} => Suspended(d.t, class)
        /\ Suspended(r, class) => d.t.budget = r.budget
    BY <1>3, <1>4, <2>1, DecideDecides
  <2> QED BY <1>4, <1>5, <2>2 DEF Decides, SameEvidence
<1> QED BY <1>6, <1>7

-----------------------------------------------------------------------------
(* A tick: its looks at the control session, the service, the control      *)
(* session again and the channel provider.                                 *)

SawEvent == Attribution = "current" /\ event.src # 0

ControlLook(s) ==
  IF SawEvent THEN ControlObserved(s, ClassNow, EventOk, GraceDue, source) ELSE Says(s, "none")

TickBase == IF Attribution = "source-changed" THEN Sourced(t, source) ELSE t

FirstLook == ControlLook(TickBase)

ServiceLook(ok) ==
  IF FirstLook.says \in {"escalate", "suspended"} THEN FirstLook
  ELSE ServiceObserved(FirstLook.t, ClassNow, ok, source)

ChannelLook(s) ==
  IF ChannelPolicy /\ ~channel.handled THEN ChannelObserved(s, ClassNow, channel.ok)
  ELSE Says(s, "none")

TickDecision(ok) ==
  IF ok THEN TickSays(ServiceLook(ok), ChannelLook(ControlLook(ServiceLook(ok).t).t))
  ELSE ServiceLook(ok)

\* Whose report the monitor takes the latest event for.
LEMMA AttributionIs ==
  /\ SawEvent => source # 0 /\ frontier \in {0, source} /\ ~quarantined /\ event.src # 0
  /\ Attribution = "source-changed" <=> source # 0 /\ frontier \notin {0, source}
  /\ ~SawEvent /\ source # 0 => frontier \notin {0, source} \/ quarantined \/ event.src = 0
<1>1. CASE source = 0
  BY <1>1 DEF Attribution, SawEvent
<1>2. CASE source # 0 /\ frontier \notin {0, source}
  BY <1>2 DEF Attribution, SawEvent
<1>3. CASE source # 0 /\ frontier \in {0, source} /\ quarantined
  <2>1. Attribution = "unattributed"
    BY <1>3 DEF Attribution
  <2> QED BY <1>3, <2>1 DEF SawEvent
<1>4. CASE source # 0 /\ frontier \in {0, source} /\ ~quarantined
  <2>1. Attribution = "current"
    BY <1>4 DEF Attribution
  <2> QED BY <1>4, <2>1 DEF SawEvent
<1> QED BY <1>1, <1>2, <1>3, <1>4

LEMMA TrackerTyped ==
  ASSUME RecoveryTypeOK
  PROVE  /\ t \in Tracker /\ source \in Keys /\ ClassNow \in Classes
         /\ EventOk \in BOOLEAN /\ GraceDue \in BOOLEAN /\ channel.ok \in BOOLEAN
<1>1. t \in Tracker
  BY Zenon DEF RecoveryTypeOK, Tracker, Stabilization, Budget
<1> QED BY <1>1 DEF RecoveryTypeOK, ClassNow, Classes, EventOk, GraceDue

LEMMA NothingDecided ==
  ASSUME NEW s \in Tracker, NEW class, NEW d, d = Says(s, "none")
  PROVE  Decides(s, class, d) /\ d.t = s /\ d.says = "none"
<1>1. Leaves(s, s)
  BY DEF Leaves
<1> QED BY <1>1, LeavesDecides

LEMMA ControlLookIs ==
  ASSUME RecoveryTypeOK, NEW s \in Tracker, NEW d, d = ControlLook(s)
  PROVE  /\ Decides(s, ClassNow, d)
         /\ ~SawEvent => d.t = s /\ d.says = "none"
         /\ SawEvent => d.t.key = source /\ d.t.svc = s.svc
         /\ SawEvent /\ EventOk => d.says = "none" /\ ~d.t.due
         /\ ClassNow = "restart" /\ s.svc < Threshold => d.says = "none"
         /\ d.says \in {"escalate", "suspended"} => Suspended(d.t, ClassNow)
         /\ d.says = "suspended" => Suspended(s, ClassNow)
         /\ ~EventOk /\ Suspended(s, ClassNow) => d.t.budget = s.budget
<1>0. ClassNow \in Classes /\ EventOk \in BOOLEAN /\ GraceDue \in BOOLEAN /\ source \in Keys
  BY TrackerTyped
<1>1. CASE SawEvent
  <2>1. source \in Sources
    BY <1>0, <1>1, AttributionIs DEF Keys
  <2>2. d = ControlObserved(s, ClassNow, EventOk, GraceDue, source)
    BY <1>1 DEF ControlLook
  <2>3. ControlDecides(s, ClassNow, EventOk, source, d)
    BY <1>0, <2>1, <2>2, ControlObservedIs
  <2> QED BY <1>1, <2>3 DEF ControlDecides
<1>2. CASE ~SawEvent
  <2>1. d = Says(s, "none")
    BY <1>2 DEF ControlLook
  <2>2. Decides(s, ClassNow, d) /\ d.t = s /\ d.says = "none"
    BY <2>1, NothingDecided
  <2> QED BY <1>2, <2>2
<1> QED BY <1>1, <1>2

LEMMA ChannelLookIs ==
  ASSUME RecoveryTypeOK, NEW s \in Tracker, NEW d, d = ChannelLook(s)
  PROVE  /\ Decides(s, ClassNow, d) /\ SameEvidence(s, d.t)
         /\ d.says = "escalate" => Suspended(d.t, ClassNow)
         /\ Suspended(s, ClassNow) => d.t.budget = s.budget
<1>0. ClassNow \in Classes /\ channel.ok \in BOOLEAN
  BY TrackerTyped
<1>1. CASE d = ChannelObserved(s, ClassNow, channel.ok)
  BY <1>0, <1>1, ChannelObservedIs
<1>2. CASE d = Says(s, "none")
  <2>1. Decides(s, ClassNow, d) /\ d.t = s /\ d.says = "none"
    BY <1>2, NothingDecided
  <2> QED BY <2>1 DEF SameEvidence
<1> QED BY <1>1, <1>2 DEF ChannelLook

LEMMA TickBaseIs ==
  ASSUME RecoveryTypeOK, EvidenceIsAttributed
  PROVE  /\ Leaves(t, TickBase) /\ TickBase.budget = t.budget /\ TickBase.ctl <= t.ctl
         /\ ~SawEvent /\ source # 0 => ~TickBase.due
         /\ source = 0 => TickBase = t
<1>0. t \in Tracker /\ source \in Keys /\ t.ctl \in Nat
  BY TrackerTyped DEF Tracker
<1>1. CASE Attribution = "source-changed"
  <2>1. source \in Sources /\ source # 0 /\ frontier \notin {0, source}
    BY <1>0, <1>1, AttributionIs DEF Keys
  <2>2. TickBase = Sourced(t, source)
    BY <1>1 DEF TickBase
  <2>3. /\ Leaves(t, TickBase) /\ TickBase.budget = t.budget
        /\ Knows(t, source) => TickBase.ctl = t.ctl /\ TickBase.due = t.due
        /\ ~Knows(t, source) => TickBase.ctl = 0 /\ ~TickBase.due
    BY <1>0, <2>1, <2>2, SourcedIs
  <2>4. t.due => ~Knows(t, source)
    BY <2>1 DEF EvidenceIsAttributed, Knows
  <2> QED BY <1>0, <2>1, <2>3, <2>4
<1>2. CASE Attribution # "source-changed"
  <2>1. TickBase = t
    BY <1>2 DEF TickBase
  <2>2. ~SawEvent /\ source # 0 => ~t.due
    BY <1>2, AttributionIs DEF EvidenceIsAttributed
  <2> QED BY <1>0, <2>1, <2>2 DEF Leaves
<1> QED BY <1>1, <1>2

\* The decision of a tick: no report of a suspension is lost on the way, what counts
\* against the Gateway was observed, and a live session keeps the Gateway.
LEMMA TickDecides ==
  ASSUME RecoveryTypeOK, EvidenceIsAttributed, NEW ok \in BOOLEAN, ok => source # 0,
         NEW d, d = TickDecision(ok)
  PROVE  /\ Decides(t, ClassNow, d)
         /\ d.says = "escalate" => d.t.budget[ClassNow].escalated
         /\ ~SawEvent => d.t.ctl <= t.ctl /\ (d.t.due => t.due /\ source = 0 /\ d.t.key = t.key)
         /\ SawEvent => d.t.key = source
         /\ ~ok /\ d.says = "restart" /\ ClassNow = "restart" => ~EventOk
<1> DEFINE d1 == FirstLook
           d2 == ServiceLook(ok)
           d3 == ControlLook(d2.t)
           d4 == ChannelLook(d3.t)
<1>0. t \in Tracker /\ source \in Keys /\ ClassNow \in Classes
  BY TrackerTyped
<1>1. /\ Leaves(t, TickBase) /\ TickBase.budget = t.budget /\ TickBase.ctl <= t.ctl
      /\ ~SawEvent /\ source # 0 => ~TickBase.due
      /\ source = 0 => TickBase = t
  BY TickBaseIs
<1>2. TickBase \in Tracker
  BY <1>1 DEF Leaves
<1>3. /\ Decides(TickBase, ClassNow, d1)
      /\ ~SawEvent => d1.t = TickBase /\ d1.says = "none"
      /\ SawEvent => d1.t.key = source
      /\ SawEvent /\ EventOk => d1.says = "none" /\ ~d1.t.due
      /\ d1.says \in {"escalate", "suspended"} => Suspended(d1.t, ClassNow)
  BY <1>2, ControlLookIs DEF FirstLook
<1>4. d1.t \in Tracker /\ d1.says \in {"none", "restart", "escalate", "suspended"}
  BY <1>3 DEF Decides, Decision
<1>5. CASE d1.says \in {"escalate", "suspended"}
  <2>1. d2 = d1
    BY <1>5 DEF ServiceLook
  <2>2. SawEvent /\ ~EventOk
    BY <1>3, <1>5
  <2> HIDE DEF d1, d2, d3, d4
  <2>3. /\ Decides(d2.t, ClassNow, d3) /\ d3.t.key = source
        /\ d3.t.budget = d2.t.budget
    BY <1>3, <1>4, <1>5, <2>1, <2>2, ControlLookIs DEF d3
  <2>4. d3.t \in Tracker
    BY <2>3 DEF Decides, Decision
  <2>5. /\ Decides(d3.t, ClassNow, d4) /\ SameEvidence(d3.t, d4.t)
        /\ d4.t.budget = d3.t.budget
    <3>1. Suspended(d3.t, ClassNow)
      BY <1>3, <1>5, <2>1, <2>3 DEF Suspended
    <3> QED BY <2>4, <3>1, ChannelLookIs DEF d4
  <2>6. d1.t.budget[ClassNow].escalated
    BY <1>3, <1>5 DEF Suspended
  <2>7. CASE ok
    <3>1. d = IF d1.says = "escalate" THEN [d4 EXCEPT !.says = "escalate"] ELSE d4
      BY <2>1, <2>7 DEF TickDecision, TickSays, d1, d2, d3, d4
    <3>2. d4 \in Decision
      BY <2>5 DEF Decides
    <3>3. d.t = d4.t /\ d.says = (IF d1.says = "escalate" THEN "escalate" ELSE d4.says)
          /\ d \in Decision
      BY <3>1, <3>2 DEF Decision
    <3>4. d.t.inFlight = t.inFlight /\ (d.says = "restart" => ~t.inFlight)
      BY <1>1, <1>3, <2>1, <2>3, <2>5, <3>3 DEF Decides, Leaves
    <3>5. \A c \in Classes : d.t.budget[c].escalated =>
            t.budget[c].escalated \/ (c = ClassNow /\ d.says = "escalate")
      BY <1>1, <1>3, <2>1, <2>3, <2>5, <3>3 DEF Decides, Leaves
    <3>6. Decides(t, ClassNow, d)
      BY <3>3, <3>4, <3>5 DEF Decides
    <3>7. d.t.budget[ClassNow].escalated
      BY <2>1, <2>3, <2>5, <2>6, <3>3
    <3>8. d.t.key = source
      BY <2>3, <2>5, <3>3 DEF SameEvidence
    <3> QED BY <2>2, <2>7, <3>6, <3>7, <3>8
  <2>8. CASE ~ok
    <3>1. d = d1
      BY <2>1, <2>8 DEF TickDecision, d2
    <3>2. Decides(t, ClassNow, d)
      BY <1>1, <1>3, <3>1 DEF Decides, Leaves
    <3> QED BY <1>3, <2>2, <2>6, <3>1, <3>2
  <2> QED BY <2>7, <2>8
<1>6. CASE d1.says \notin {"escalate", "suspended"}
  <2>1. d2 = ServiceObserved(d1.t, ClassNow, ok, source)
    BY <1>6 DEF ServiceLook
  <2> HIDE DEF d1, d2, d3, d4
  <2>2. /\ Decides(d1.t, ClassNow, d2)
        /\ d2.t.key = (IF ok /\ source # 0 THEN source ELSE d1.t.key)
        /\ d2.t.due => d1.t.due /\ d1.t.key \in {0, d2.t.key}
        /\ d2.t.ctl <= d1.t.ctl
        /\ ok => d2.says = "none" /\ d2.t.svc = 0
        /\ d2.says # "none" /\ ClassNow = "restart" => d1.t.due
        /\ d2.says \in {"escalate", "suspended"} => Suspended(d2.t, ClassNow)
    BY <1>0, <1>4, <2>1, ServiceObservedIs
  <2>3. Decides(t, ClassNow, d2)
    BY <1>1, <1>3, <1>6, <2>2 DEF Decides, Leaves
  <2>4. ~SawEvent => /\ d2.t.ctl <= t.ctl
                     /\ d2.t.due => t.due /\ source = 0 /\ d2.t.key = t.key
    <3>1. SUFFICES ASSUME ~SawEvent
                   PROVE  /\ d2.t.ctl <= t.ctl
                          /\ d2.t.due => t.due /\ source = 0 /\ d2.t.key = t.key
      OBVIOUS
    <3>2. d1.t = TickBase
      BY <1>3, <3>1
    <3>3. d2.t \in Tracker
      BY <2>2 DEF Decides, Decision
    <3>4. d2.t.ctl \in Nat /\ TickBase.ctl \in Nat /\ t.ctl \in Nat
      BY <1>0, <1>2, <3>3 DEF Tracker
    <3>5. d2.t.ctl <= t.ctl
      BY <1>1, <2>2, <3>2, <3>4
    <3>6. d2.t.due => source = 0
      BY <1>1, <2>2, <3>1, <3>2
    <3>7. source = 0 => TickBase = t /\ d2.t.key = t.key
      BY <1>1, <2>2, <3>2
    <3> QED BY <2>2, <3>2, <3>5, <3>6, <3>7
  <2>5. SawEvent => d2.t.key = source
    BY <1>3, <2>2
  <2>6. CASE ok
    <3>1. ClassNow = "restart"
      BY <2>6 DEF ClassNow
    <3>2. d2.t \in Tracker
      BY <2>2 DEF Decides, Decision
    <3>3. d2.t.svc < Threshold
      BY <2>2, <2>6, RecoveryParameters
    <3>4. /\ Decides(d2.t, ClassNow, d3) /\ d3.says = "none"
          /\ ~SawEvent => d3.t = d2.t
          /\ SawEvent => d3.t.key = source
      BY <3>1, <3>2, <3>3, ControlLookIs DEF d3
    <3>5. d3.t \in Tracker
      BY <3>4 DEF Decides, Decision
    <3>6. /\ Decides(d3.t, ClassNow, d4) /\ SameEvidence(d3.t, d4.t)
          /\ d4.says = "escalate" => Suspended(d4.t, ClassNow)
      BY <3>5, ChannelLookIs DEF d4
    <3>7. d = d4
      <4>1. d2.says # "escalate"
        BY <2>2, <2>6
      <4> QED BY <2>6, <4>1 DEF TickDecision, TickSays, d2, d3, d4
    <3>8. Decides(t, ClassNow, d)
      BY <2>2, <2>3, <2>6, <3>4, <3>6, <3>7 DEF Decides
    <3>9. d.says = "escalate" => d.t.budget[ClassNow].escalated
      BY <3>6, <3>7 DEF Suspended
    <3>10. ~SawEvent => d.t.ctl <= t.ctl /\ (d.t.due => t.due /\ source = 0 /\ d.t.key = t.key)
      BY <2>4, <3>4, <3>6, <3>7 DEF SameEvidence
    <3>11. SawEvent => d.t.key = source
      BY <3>4, <3>6, <3>7 DEF SameEvidence
    <3> QED BY <2>6, <3>8, <3>9, <3>10, <3>11
  <2>7. CASE ~ok
    <3>1. d = d2
      BY <2>7 DEF TickDecision, d2
    <3>2. d.says = "escalate" => d.t.budget[ClassNow].escalated
      BY <2>2, <3>1 DEF Suspended
    <3>3. d.says = "restart" /\ ClassNow = "restart" => ~EventOk
      <4>1. SUFFICES ASSUME d.says = "restart", ClassNow = "restart", EventOk PROVE FALSE
        OBVIOUS
      <4>2. d1.t.due
        BY <2>2, <3>1, <4>1
      <4>3. ~SawEvent /\ d1.t = TickBase
        BY <1>3, <4>1, <4>2
      <4>4. source # 0
        BY <4>1 DEF ClassNow
      <4> QED BY <1>1, <4>2, <4>3, <4>4
    <3> QED BY <2>3, <2>4, <2>5, <3>1, <3>2, <3>3
  <2> QED BY <2>6, <2>7
<1> QED BY <1>5, <1>6

-----------------------------------------------------------------------------
(* Carrying out a decision.                                                *)

WithFlight(s, b) == [s EXCEPT !.inFlight = b]

LEMMA FlightRecorded ==
  ASSUME NEW s \in Tracker, NEW b \in BOOLEAN, NEW r, r = WithFlight(s, b)
  PROVE  /\ r \in Tracker /\ SameEvidence(s, r) /\ r.inFlight = b /\ r.budget = s.budget
         /\ r.stab = s.stab
<1>1. r \in Tracker
  BY Zenon DEF Tracker, WithFlight
<1> QED BY <1>1 DEF Tracker, WithFlight, SameEvidence

RecoveryStarts(d) == d.says = "restart" /\ MayStart

LEMMA CallersTyped ==
  ASSUME RecoveryTypeOK
  PROVE  caller \in [Callers -> Caller] /\ IdleCaller \in Caller /\ 0 \in Keys
<1>1. caller \in [Callers -> Caller]
  BY Zenon DEF RecoveryTypeOK, Caller
<1> QED BY <1>1 DEF IdleCaller, Caller, Classes, Keys

\* What every step that decides keeps of the invariant.
Accounted ==
  /\ t \in Tracker /\ caller \in [Callers -> Caller] /\ told \subseteq Classes
  /\ NoOverlappingRecoveries /\ EscalationsAreReported /\ StopLeavesNothingInFlight
  /\ InFlightIsKnown

LEMMA ExecuteIs ==
  ASSUME RecoveryInv, NEW w \in Callers, NEW d, NEW class \in Classes, NEW k \in Keys,
         NEW fromChannel \in BOOLEAN,
         Decides(t, class, d), d.says = "escalate" => d.t.budget[class].escalated,
         caller[w].stage # "recovering", stop' = stop,
         Execute(w, d, class, k, fromChannel)
  PROVE  /\ Accounted' /\ SameEvidence(d.t, t')
         /\ caller'[w].stage = "recovering" =>
              /\ d.says = "restart" /\ caller'[w].class = class
              /\ caller'[w].channel = fromChannel
         /\ \A v \in Callers : v # w => caller'[v] = caller[v]
<1> DEFINE starts == RecoveryStarts(d)
           request == [stage |-> "recovering", class |-> class, key |-> k, channel |-> fromChannel]
           next == IF starts THEN request ELSE IdleCaller
<1>0. /\ RecoveryTypeOK /\ NoOverlappingRecoveries /\ EscalationsAreReported
      /\ StopLeavesNothingInFlight /\ InFlightIsKnown
  BY DEF RecoveryInv, RecoveriesAreAccounted
<1>1. /\ d.t \in Tracker /\ d.t.inFlight = t.inFlight /\ t.inFlight \in BOOLEAN
      /\ starts => ~t.inFlight
      /\ \A c \in Classes : d.t.budget[c].escalated =>
           t.budget[c].escalated \/ (c = class /\ d.says = "escalate")
  <2>1. t \in Tracker
    BY <1>0, TrackerTyped
  <2>2. t.inFlight \in BOOLEAN
    BY <2>1 DEF Tracker
  <2> QED BY <2>2 DEF Decides, Decision, RecoveryStarts
<1>2. /\ caller \in [Callers -> Caller] /\ IdleCaller \in Caller
  BY <1>0, CallersTyped
<1>3. /\ t' = [d.t EXCEPT !.inFlight = (d.t.inFlight \/ starts)]
      /\ told' = {c \in told : d.t.budget[c].escalated} \cup {c \in {class} : d.says = "escalate"}
      /\ caller' = [caller EXCEPT ![w] = next]
  BY DEF Execute, RecoveryStarts
<1> HIDE DEF starts
<1>4. /\ t' \in Tracker /\ SameEvidence(d.t, t') /\ t'.inFlight = (d.t.inFlight \/ starts)
      /\ t'.budget = d.t.budget
  <2> DEFINE flying == d.t.inFlight \/ starts
  <2>1. flying \in BOOLEAN /\ t' = WithFlight(d.t, flying)
    BY <1>3 DEF WithFlight
  <2> HIDE DEF flying
  <2>2. t' \in Tracker /\ SameEvidence(d.t, t') /\ t'.inFlight = flying /\ t'.budget = d.t.budget
    BY <1>1, <2>1, FlightRecorded
  <2> QED BY <2>2 DEF flying
<1>5. next \in Caller /\ next.stage = (IF starts THEN "recovering" ELSE "idle")
  BY <1>2 DEF Caller, IdleCaller
<1>6. /\ caller' \in [Callers -> Caller] /\ caller'[w] = next
      /\ \A v \in Callers : v # w => caller'[v] = caller[v]
  <2> HIDE DEF next
  <2> QED BY <1>2, <1>3, <1>5
<1>7. \A v \in Callers : caller[v].stage = "recovering" => t.inFlight
  BY <1>0 DEF InFlightIsKnown
<1>8. NoOverlappingRecoveries'
  BY <1>1, <1>5, <1>6, <1>7, <1>0 DEF NoOverlappingRecoveries
<1>9. InFlightIsKnown'
  <2>1. t'.inFlight <=> (t.inFlight \/ starts)
    BY <1>1, <1>4
  <2>2. CASE starts
    <3>1. caller'[w].stage = "recovering"
      BY <1>5, <1>6, <2>2
    <3> QED BY <2>1, <2>2, <3>1 DEF InFlightIsKnown
  <2>3. CASE ~starts
    <3>1. caller'[w].stage = "idle"
      BY <1>5, <1>6, <2>3
    <3>2. \A v \in Callers : caller'[v].stage = "recovering" <=> caller[v].stage = "recovering"
      BY <1>6, <3>1
    <3>3. t.inFlight <=> \E v \in Callers : caller[v].stage = "recovering"
      BY <1>0 DEF InFlightIsKnown
    <3>4. t'.inFlight <=> \E v \in Callers : caller'[v].stage = "recovering"
      BY <2>1, <2>3, <3>2, <3>3
    <3> QED BY <3>4 DEF InFlightIsKnown
  <2> QED BY <2>2, <2>3
<1>10. StopLeavesNothingInFlight'
  <2>1. stop = "returned" => ~starts
    BY DEF starts, RecoveryStarts, MayStart
  <2> QED BY <1>0, <1>5, <1>6, <2>1 DEF StopLeavesNothingInFlight
<1>11. EscalationsAreReported' /\ told' \subseteq Classes
  <2>1. told = {c \in Classes : t.budget[c].escalated}
    BY <1>0 DEF EscalationsAreReported
  <2>2. \A c \in Classes : c \in told' <=> d.t.budget[c].escalated
    BY <1>1, <1>3, <2>1
  <2>3. told' \subseteq Classes
    BY <1>3, <2>1
  <2>4. told' = {c \in Classes : d.t.budget[c].escalated}
    BY <2>2, <2>3
  <2> QED BY <1>4, <2>3, <2>4 DEF EscalationsAreReported
<1>12. caller'[w].stage = "recovering" =>
         d.says = "restart" /\ caller'[w].class = class /\ caller'[w].channel = fromChannel
  <2>1. caller'[w].stage = "recovering" => starts /\ caller'[w] = request
    BY <1>5, <1>6
  <2> QED BY <2>1 DEF starts, RecoveryStarts
<1> QED BY <1>4, <1>6, <1>8, <1>9, <1>10, <1>11, <1>12 DEF Accounted

MonitorTyped ==
  /\ source \in Keys /\ frontier \in Keys /\ quarantined \in BOOLEAN
  /\ event \in [src : Keys, ok : BOOLEAN, age : 0 .. StaleAfter + 1, early : BOOLEAN]
  /\ grace \in [down : BOOLEAN, age : 0 .. Grace]
  /\ channel \in [ok : BOOLEAN, handled : BOOLEAN]
  /\ stop \in {"no", "waiting", "returned"}

LEMMA InvParts == RecoveryInv <=> MonitorTyped /\ Accounted /\ EvidenceIsAttributed
<1>1. RecoveryTypeOK <=> /\ MonitorTyped /\ t \in Tracker /\ told \subseteq Classes
                         /\ caller \in [Callers -> Caller]
  BY Zenon DEF RecoveryTypeOK, MonitorTyped, Tracker, Stabilization, Budget, Caller
<1> QED BY <1>1, Zenon DEF RecoveryInv, RecoveriesAreAccounted, Accounted

LEMMA InvPartsNext ==
  ASSUME MonitorTyped', Accounted', EvidenceIsAttributed'
  PROVE  RecoveryInv'
<1>1. RecoveryTypeOK'
  BY Zenon DEF RecoveryTypeOK, MonitorTyped, Tracker, Stabilization, Budget, Caller, Accounted
<1> QED BY <1>1, Zenon DEF RecoveryInv, RecoveriesAreAccounted, Accounted

LEMMA InvGives ==
  ASSUME RecoveryInv
  PROVE  /\ RecoveryTypeOK /\ MonitorTyped /\ Accounted /\ EvidenceIsAttributed
         /\ t \in Tracker /\ caller \in [Callers -> Caller]
BY InvParts DEF RecoveryInv, RecoveriesAreAccounted, Accounted

\* Stage changes that neither begin nor end a recovery.
LEMMA CallersMove ==
  ASSUME Accounted, caller' \in [Callers -> Caller],
         \A w \in Callers : caller'[w].stage = "recovering" <=> caller[w].stage = "recovering",
         stop' = "returned" => \A w \in Callers : caller'[w].stage = "idle",
         t' = t, told' = told
  PROVE  Accounted'
<1>1. InFlightIsKnown'
  <2>1. t.inFlight <=> \E w \in Callers : caller[w].stage = "recovering"
    BY DEF Accounted, InFlightIsKnown
  <2>2. t'.inFlight <=> \E w \in Callers : caller'[w].stage = "recovering"
    BY <2>1
  <2> QED BY <2>2 DEF InFlightIsKnown
<1>2. NoOverlappingRecoveries' /\ EscalationsAreReported' /\ StopLeavesNothingInFlight'
  BY DEF Accounted, NoOverlappingRecoveries, EscalationsAreReported, StopLeavesNothingInFlight
<1> QED BY <1>1, <1>2 DEF Accounted

LEMMA InitRecovery ==
  ASSUME RecoveryInit
  PROVE  RecoveryInv
<1>0. t.stab = NoStabilization /\ NoStabilization \in Stabilization
  BY RecoveryParameters DEF RecoveryInit, NoStabilization, Stabilization, Classes, Keys
<1>1. t.budget = [c \in Classes |-> [failed |-> 0, age |-> Oldest, escalated |-> FALSE]]
  BY DEF RecoveryInit
<1>2. t.budget \in [Classes -> Budget] /\ \A c \in Classes : ~t.budget[c].escalated
  BY <1>1, RecoveryParameters DEF Budget
<1>3. t \in Tracker /\ ~t.inFlight /\ ~t.due
  <2>1. t = [ctl |-> 0, due |-> FALSE, dueAge |-> 0, key |-> 0, svc |-> 0, svcAge |-> 0,
             channel |-> 0, inFlight |-> FALSE, stab |-> t.stab, budget |-> t.budget]
    BY DEF RecoveryInit
  <2>2. /\ 0 \in 0 .. Threshold /\ 0 \in 0 .. Deadline + 1 /\ 0 \in Keys /\ FALSE \in BOOLEAN
        /\ t.stab \in Stabilization
    BY <1>0, RecoveryParameters DEF Keys
  <2> DEFINE st == t.stab
             bu == t.budget
  <2>3. st \in Stabilization /\ bu \in [Classes -> Budget]
    BY <1>2, <2>2
  <2> HIDE DEF st, bu
  <2>4. t = [ctl |-> 0, due |-> FALSE, dueAge |-> 0, key |-> 0, svc |-> 0, svcAge |-> 0,
             channel |-> 0, inFlight |-> FALSE, stab |-> st, budget |-> bu]
    BY <2>1 DEF st, bu
  <2>5. t \in Tracker
    BY <2>2, <2>3, <2>4, Zenon DEF Tracker
  <2> QED BY <2>4, <2>5
<1>4. caller = [w \in Callers |-> IdleCaller] /\ IdleCaller \in Caller
      /\ IdleCaller.stage = "idle"
  BY DEF RecoveryInit, IdleCaller, Caller, Classes, Keys
<1>5. caller \in [Callers -> Caller] /\ \A w \in Callers : caller[w].stage = "idle"
  BY <1>4
<1>6. MonitorTyped
  <2>1. 0 \in Keys /\ source \in Keys /\ 0 \in 0 .. StaleAfter + 1 /\ 0 \in 0 .. Grace
    BY RecoveryParameters DEF RecoveryInit, Keys
  <2> QED BY <2>1, Zenon DEF RecoveryInit, MonitorTyped
<1>7. Accounted
  <2>1. told = {}
    BY DEF RecoveryInit
  <2>2. EscalationsAreReported /\ told \subseteq Classes
    BY <1>2, <2>1 DEF EscalationsAreReported
  <2> QED BY <1>3, <1>5, <2>2
        DEF Accounted, NoOverlappingRecoveries, StopLeavesNothingInFlight, InFlightIsKnown
<1>8. EvidenceIsAttributed
  BY <1>3, RecoveryParameters DEF RecoveryInit, EvidenceIsAttributed
<1> QED BY <1>6, <1>7, <1>8, InvParts

LEMMA TickStartsKeeps ==
  ASSUME RecoveryInv, TickStarts
  PROVE  RecoveryInv'
<1>1. /\ MonitorTyped /\ Accounted /\ EvidenceIsAttributed /\ caller \in [Callers -> Caller]
  BY InvGives
<1>2. "tick" \in Callers /\ caller' = [caller EXCEPT !["tick"].stage = "probing"]
  BY DEF TickStarts, Callers
<1>3. [caller["tick"] EXCEPT !.stage = "probing"] \in Caller
  BY <1>1, <1>2 DEF Caller
<1>4. caller' \in [Callers -> Caller]
  BY <1>1, <1>2, <1>3
<1>5. /\ caller'["tick"].stage = "probing"
      /\ \A w \in Callers : w # "tick" => caller'[w] = caller[w]
  BY <1>1, <1>2 DEF Caller
<1>6. Accounted'
  <2>1. t' = t /\ told' = told /\ stop' # "returned" /\ caller["tick"].stage = "idle"
    BY DEF TickStarts
  <2> QED BY <1>1, <1>4, <1>5, <2>1, CallersMove
<1>7. MonitorTyped' /\ EvidenceIsAttributed'
  BY <1>1 DEF TickStarts, MonitorTyped, EvidenceIsAttributed
<1> QED BY <1>6, <1>7, InvPartsNext

LEMMA StopKeeps ==
  ASSUME RecoveryInv, StopMonitor \/ StopReturns
  PROVE  RecoveryInv'
<1>1. /\ MonitorTyped /\ Accounted /\ EvidenceIsAttributed /\ caller \in [Callers -> Caller]
  BY InvGives
<1>2. /\ UNCHANGED <<source, event, frontier, quarantined, grace, t, caller, channel, told>>
      /\ stop' \in {"waiting", "returned"}
      /\ stop' = "returned" => \A w \in Callers : caller[w].stage = "idle"
  BY DEF StopMonitor, StopReturns
<1>3. Accounted'
  BY <1>1, <1>2, CallersMove
<1>4. MonitorTyped' /\ EvidenceIsAttributed'
  BY <1>1, <1>2 DEF MonitorTyped, EvidenceIsAttributed
<1> QED BY <1>3, <1>4, InvPartsNext

\* Steps outside the monitor leave what it accounts for.
LEMMA OutsideKeeps ==
  ASSUME Accounted, UNCHANGED <<t, caller, told, stop>>
  PROVE  Accounted'
BY DEF Accounted, NoOverlappingRecoveries, EscalationsAreReported, StopLeavesNothingInFlight,
       InFlightIsKnown

LEMMA ControlEventKeeps ==
  ASSUME RecoveryInv, NEW ok \in BOOLEAN, ControlEvent(ok)
  PROVE  RecoveryInv'
<1>1. MonitorTyped /\ Accounted /\ EvidenceIsAttributed /\ RecoveryTypeOK
  BY InvGives
<1>2. /\ UNCHANGED <<source, frontier, grace, t, caller, channel, told, stop>>
      /\ event' = [src |-> source, ok |-> ok, age |-> 0, early |-> frontier = 0]
      /\ quarantined' = FALSE /\ source # 0
  BY DEF ControlEvent
<1>3. Accounted'
  BY <1>1, <1>2, OutsideKeeps
<1>4. MonitorTyped'
  <2>1. 0 \in 0 .. StaleAfter + 1 /\ (frontier = 0) \in BOOLEAN
    BY RecoveryParameters
  <2>2. event' \in [src : Keys, ok : BOOLEAN, age : 0 .. StaleAfter + 1, early : BOOLEAN]
    <3> DEFINE e == frontier = 0
    <3>1. e \in BOOLEAN /\ source \in Keys /\ event' = [src |-> source, ok |-> ok, age |-> 0, early |-> e]
      BY <1>1, <1>2 DEF MonitorTyped
    <3> HIDE DEF e
    <3> QED BY <2>1, <3>1, Zenon
  <2> QED BY <1>1, <1>2, <2>2 DEF MonitorTyped
<1>5. event'.src = source /\ (frontier = 0 => event'.early)
  BY <1>2
<1>6. EvidenceIsAttributed'
  BY <1>1, <1>2, <1>5 DEF EvidenceIsAttributed
<1> QED BY <1>3, <1>4, <1>6, InvPartsNext

LEMMA ChannelEventKeeps ==
  ASSUME RecoveryInv, NEW ok \in BOOLEAN, ChannelEvent(ok)
  PROVE  RecoveryInv'
<1>1. MonitorTyped /\ Accounted /\ EvidenceIsAttributed
  BY InvGives
<1>2. /\ UNCHANGED <<source, event, frontier, quarantined, grace, t, caller, told, stop>>
      /\ channel' = [ok |-> ok, handled |-> FALSE]
  BY DEF ChannelEvent
<1>3. Accounted'
  BY <1>1, <1>2, OutsideKeeps
<1>4. MonitorTyped' /\ EvidenceIsAttributed'
  BY <1>1, <1>2 DEF MonitorTyped, EvidenceIsAttributed
<1> QED BY <1>3, <1>4, InvPartsNext

\* A new Gateway is one that nothing remembers.
LEMMA NewSourceAttributed ==
  ASSUME RecoveryInv, source' \in {0, source} \cup NewSources, t'.due = t.due, t'.key = t.key,
         UNCHANGED <<event, frontier, quarantined>>
  PROVE  EvidenceIsAttributed' /\ source' \in Keys
<1>1. EvidenceIsAttributed /\ RecoveryTypeOK
  BY InvGives
<1>2. source' \in Keys /\ (source' = frontier /\ frontier # 0 => source' = source)
  BY <1>1 DEF RecoveryTypeOK, Keys, NewSources
<1> QED BY <1>1, <1>2 DEF EvidenceIsAttributed

LEMMA GatewayChangesKeeps ==
  ASSUME RecoveryInv, GatewayChanges
  PROVE  RecoveryInv'
<1>1. MonitorTyped /\ Accounted
  BY InvGives
<1>2. /\ UNCHANGED <<event, frontier, quarantined, grace, t, caller, channel, told, stop>>
      /\ source' \in {0, source} \cup NewSources
  BY DEF GatewayChanges
<1>3. Accounted'
  BY <1>1, <1>2, OutsideKeeps
<1>4. EvidenceIsAttributed' /\ source' \in Keys
  BY <1>2, NewSourceAttributed
<1>5. MonitorTyped'
  BY <1>1, <1>2, <1>4 DEF MonitorTyped
<1> QED BY <1>3, <1>4, <1>5, InvPartsNext

\* A recovery that is over: the evidence and the suspensions stay.
Finishes(s, r) ==
  /\ r \in Tracker /\ SameEvidence(s, r) /\ ~r.inFlight
  /\ \A c \in Classes : r.budget[c].escalated = s.budget[c].escalated

LEMMA FinishedIs ==
  ASSUME NEW s \in Tracker, NEW class \in Classes, NEW result \in {"ok", "failed", "refused"},
         NEW r, r = RecoveryFinished(s, class, result)
  PROVE  Finishes(s, r)
<1> USE DEF Finishes
<1> DEFINE s1 == WithFlight(s, FALSE)
<1>1. s1 \in Tracker /\ SameEvidence(s, s1) /\ s1.inFlight = FALSE /\ s1.budget = s.budget
  BY FlightRecorded
<1>2. CASE result = "ok"
  <2> DEFINE st == [NoStabilization EXCEPT !.on = TRUE, !.class = class]
  <2>1. r = [s1 EXCEPT !.stab = st]
    BY <1>2 DEF RecoveryFinished, WithFlight
  <2> HIDE DEF s1
  <2>2. NoStabilization \in Stabilization
    BY RecoveryParameters DEF NoStabilization, Stabilization, Classes, Keys
  <2>3. st \in Stabilization
    BY <2>2, Zenon DEF Stabilization
  <2> HIDE DEF st
  <2>4. r \in Tracker
    BY <1>1, <2>1, <2>3, Zenon DEF Tracker
  <2>5. SameEvidence(s1, r) /\ r.inFlight = s1.inFlight /\ r.budget = s1.budget
    BY <1>1, <2>1 DEF Tracker, SameEvidence
  <2> QED BY <1>1, <2>4, <2>5 DEF SameEvidence
<1>3. CASE result = "failed"
  <2> DEFINE n == CapAt(s.budget[class].failed + 1, MaxFailed)
             b == [s.budget[class] EXCEPT !.failed = n, !.age = 0]
             x == WithBudget(s1, class, b)
  <2>1. s.budget[class] \in Budget /\ s.budget \in [Classes -> Budget]
    BY DEF Tracker
  <2>2. n \in 0 .. MaxFailed
    <3>1. s.budget[class].failed + 1 \in Nat
      BY <2>1 DEF Budget
    <3> QED BY <3>1, CapIsBounded, RecoveryParameters
  <2>3. r = x
    <3>1. r = [[s1 EXCEPT !.budget[class].failed = CapAt(@ + 1, MaxFailed)]
                  EXCEPT !.budget[class].age = 0]
      BY <1>3 DEF RecoveryFinished, WithFlight
    <3> HIDE DEF s1
    <3>2. s1.budget[class].failed = s.budget[class].failed
      BY <1>1
    <3> DEFINE b1 == [s1.budget[class] EXCEPT !.failed = n]
               m1 == [s1.budget EXCEPT ![class] = b1]
               y == [s1 EXCEPT !.budget = m1]
    <3>3. r = [y EXCEPT !.budget[class].age = 0]
      BY <3>1, <3>2
    <3> HIDE DEF n
    <3>4. y.budget = m1 /\ m1[class] = b1
      BY <1>1, <2>1 DEF Tracker
    <3>5. r = [s1 EXCEPT !.budget = [m1 EXCEPT ![class] = [b1 EXCEPT !.age = 0]]]
      BY <1>1, <3>3, <3>4 DEF Tracker
    <3>6. [b1 EXCEPT !.age = 0] = b
      BY <1>1, <2>1 DEF Budget
    <3> HIDE DEF b, b1
    <3>7. [m1 EXCEPT ![class] = b] = [s1.budget EXCEPT ![class] = b]
      BY <1>1, <2>1
    <3> HIDE DEF m1
    <3> QED BY <3>5, <3>6, <3>7 DEF WithBudget
  <2> HIDE DEF n
  <2>4. b \in Budget /\ b.escalated = s.budget[class].escalated
    <3>1. 0 \in 0 .. Oldest
      BY RecoveryParameters
    <3>2. b \in Budget
      BY <2>1, <2>2, <3>1, Zenon DEF Budget
    <3> QED BY <2>1, <3>2 DEF Budget
  <2> HIDE DEF b, s1
  <2>5. /\ x \in Tracker /\ SameEvidence(s1, x) /\ x.inFlight = s1.inFlight
        /\ x.budget[class] = b /\ \A c \in Classes : c # class => x.budget[c] = s1.budget[c]
    BY <1>1, <2>4, BudgetReplaced
  <2> HIDE DEF x
  <2>6. \A c \in Classes : x.budget[c].escalated = s.budget[c].escalated
    BY <1>1, <2>4, <2>5
  <2> QED BY <1>1, <2>3, <2>5, <2>6 DEF SameEvidence
<1>4. CASE result = "refused"
  <2>1. r = s1
    BY <1>4 DEF RecoveryFinished, WithFlight
  <2> QED BY <1>1, <2>1
<1> QED BY <1>2, <1>3, <1>4

LEMMA RecoveryEndsKeeps ==
  ASSUME RecoveryInv, NEW w \in Callers, NEW result \in {"ok", "failed", "refused"},
         RecoveryEnds(w, result)
  PROVE  RecoveryInv' /\ SameEvidence(t, t') /\ \A v \in Callers : ~Starts(v)
<1>1. /\ MonitorTyped /\ Accounted /\ EvidenceIsAttributed /\ RecoveryTypeOK
      /\ t \in Tracker /\ caller \in [Callers -> Caller] /\ IdleCaller \in Caller
  BY InvGives, CallersTyped
<1>2. caller[w].class \in Classes
  BY <1>1 DEF Caller
<1>3. /\ t' \in Tracker /\ SameEvidence(t, t') /\ ~t'.inFlight
      /\ \A c \in Classes : t'.budget[c].escalated = t.budget[c].escalated
  <2>1. t' = RecoveryFinished(t, caller[w].class, result)
    BY DEF RecoveryEnds
  <2>2. Finishes(t, t')
    BY <1>1, <1>2, <2>1, FinishedIs
  <2> QED BY <2>2 DEF Finishes
<1>4. caller' = [caller EXCEPT ![w] = IdleCaller] /\ caller[w].stage = "recovering"
      /\ told' = told /\ stop' = stop
  BY DEF RecoveryEnds
<1>5. /\ caller' \in [Callers -> Caller] /\ caller'[w] = IdleCaller
      /\ \A v \in Callers : v # w => caller'[v] = caller[v]
  BY <1>1, <1>4
<1>6. \A v \in Callers : caller'[v].stage # "recovering"
  <2>1. \A v \in Callers : v # w => caller[v].stage # "recovering"
    BY <1>1, <1>4 DEF Accounted, NoOverlappingRecoveries
  <2>2. IdleCaller.stage = "idle"
    BY DEF IdleCaller
  <2> QED BY <1>5, <2>1, <2>2
<1>7. Accounted'
  <2>1. NoOverlappingRecoveries' /\ InFlightIsKnown'
    BY <1>3, <1>6 DEF NoOverlappingRecoveries, InFlightIsKnown
  <2>2. StopLeavesNothingInFlight'
    BY <1>1, <1>4 DEF Accounted, StopLeavesNothingInFlight
  <2>3. EscalationsAreReported' /\ told' \subseteq Classes
    <3>1. told = {c \in Classes : t.budget[c].escalated}
      BY <1>1 DEF Accounted, EscalationsAreReported
    <3> QED BY <1>3, <1>4, <3>1 DEF EscalationsAreReported
  <2> QED BY <1>3, <1>5, <2>1, <2>2, <2>3 DEF Accounted
<1>8. EvidenceIsAttributed' /\ source' \in Keys
  <2>1. source' \in {0, source} \cup NewSources
    <3>1. CASE result = "ok"
      BY <3>1 DEF RecoveryEnds
    <3>2. CASE result = "failed"
      BY <3>2 DEF RecoveryEnds
    <3>3. CASE result = "refused"
      BY <3>3 DEF RecoveryEnds
    <3> QED BY <3>1, <3>2, <3>3
  <2>2. t'.due = t.due /\ t'.key = t.key /\ UNCHANGED <<event, frontier, quarantined>>
    BY <1>3 DEF SameEvidence, RecoveryEnds
  <2> QED BY <2>1, <2>2, NewSourceAttributed
<1>9. MonitorTyped'
  <2>1. channel' \in [ok : BOOLEAN, handled : BOOLEAN]
    <3>1. channel' = channel \/ channel' = [channel EXCEPT !.handled = TRUE]
      BY DEF RecoveryEnds
    <3> QED BY <1>1, <3>1, Zenon DEF MonitorTyped
  <2> QED BY <1>1, <1>8, <2>1 DEF MonitorTyped, RecoveryEnds
<1>10. \A v \in Callers : ~Starts(v)
  BY <1>6 DEF Starts
<1> QED BY <1>3, <1>7, <1>8, <1>9, <1>10, InvPartsNext

LEMMA TerminalLossKeeps ==
  ASSUME RecoveryInv, TerminalLoss
  PROVE  /\ RecoveryInv' /\ t'.ctl <= t.ctl /\ (t'.due => t.due)
         /\ ~Starts("tick")
<1>1. /\ MonitorTyped /\ Accounted /\ EvidenceIsAttributed /\ RecoveryTypeOK /\ t \in Tracker
      /\ "terminal" \in Callers /\ "tick" \in Callers /\ "restart" \in Classes
  BY InvGives DEF Callers, Classes
<1> DEFINE s == Sourced(t, source)
           d == Decide(s, "restart", Threshold)
<1>2. source \in Sources /\ source \in Keys /\ source # 0
  BY <1>1 DEF TerminalLoss, MonitorTyped, Keys
<1>3. /\ Leaves(t, s) /\ s.budget = t.budget /\ s.key = source
      /\ Knows(t, source) => s.ctl = t.ctl /\ s.due = t.due
      /\ ~Knows(t, source) => s.ctl = 0 /\ ~s.due
  BY <1>1, <1>2, SourcedIs
<1>4. /\ Execute("terminal", d, "restart", source, FALSE) /\ stop' = stop
      /\ caller["terminal"].stage # "recovering"
      /\ UNCHANGED <<source, event, frontier, quarantined, grace, channel>>
  BY DEF TerminalLoss
<1> HIDE DEF s
<1>5. /\ Decides(s, "restart", d) /\ SameEvidence(s, d.t)
      /\ d.says \in {"escalate", "suspended"} => Suspended(d.t, "restart")
  <2>1. s \in Tracker /\ Threshold \in Nat
    BY <1>3, RecoveryParameters DEF Leaves
  <2> QED BY <1>1, <2>1, DecideDecides
<1> HIDE DEF d
<1>6. Decides(t, "restart", d) /\ (d.says = "escalate" => d.t.budget["restart"].escalated)
  BY <1>3, <1>5 DEF Decides, Leaves, Suspended
<1>7. /\ Accounted' /\ SameEvidence(d.t, t')
      /\ \A v \in Callers : v # "terminal" => caller'[v] = caller[v]
  BY <1>1, <1>2, <1>4, <1>6, ExecuteIs
<1>8. t'.ctl = s.ctl /\ t'.due = s.due /\ t'.key = source
  BY <1>3, <1>5, <1>7 DEF SameEvidence
<1>9. t.ctl \in Nat
  BY <1>1 DEF Tracker
<1>10. t'.ctl <= t.ctl /\ (t'.due => t.due /\ Knows(t, source))
  BY <1>3, <1>8, <1>9
<1>11. EvidenceIsAttributed'
  <2>1. t'.due => t.key = source
    BY <1>1, <1>10 DEF EvidenceIsAttributed, Knows
  <2> QED BY <1>1, <1>4, <1>8, <1>10, <2>1 DEF EvidenceIsAttributed
<1>12. MonitorTyped'
  BY <1>1, <1>4 DEF MonitorTyped
<1>13. ~Starts("tick")
  BY <1>1, <1>7 DEF Starts
<1> QED BY <1>7, <1>10, <1>11, <1>12, <1>13, InvPartsNext

LEMMA AgedIs ==
  ASSUME NEW max \in Nat, NEW n \in 0 .. max
  PROVE  Aged(n, max) \in 0 .. max
BY DEF Aged, CapAt

LEMMA ElapseKeeps ==
  ASSUME RecoveryInv, Elapse
  PROVE  RecoveryInv' /\ SameEvidence(t, t')
<1>1. /\ MonitorTyped /\ Accounted /\ EvidenceIsAttributed /\ RecoveryTypeOK /\ t \in Tracker
  BY InvGives
<1> DEFINE dueAge == IF t.due THEN Aged(t.dueAge, Deadline + 1) ELSE 0
           svcAge == IF t.svc >= Threshold THEN Aged(t.svcAge, Deadline + 1) ELSE 0
           stabAge == IF t.stab.on THEN Aged(t.stab.age, Deadline) ELSE 0
           stab == [t.stab EXCEPT !.age = stabAge]
           budget == [c \in Classes |-> [t.budget[c] EXCEPT !.age = Aged(@, Oldest)]]
<1>2. t' = [t EXCEPT !.dueAge = dueAge, !.svcAge = svcAge, !.stab = stab, !.budget = budget]
  BY DEF Elapse
<1>3. dueAge \in 0 .. Deadline + 1 /\ svcAge \in 0 .. Deadline + 1 /\ stabAge \in 0 .. Deadline
  <2>1. /\ t.dueAge \in 0 .. Deadline + 1 /\ t.svcAge \in 0 .. Deadline + 1
        /\ t.stab.age \in 0 .. Deadline /\ Deadline \in Nat /\ Deadline + 1 \in Nat
    BY <1>1, RecoveryParameters DEF Tracker, Stabilization
  <2>2. /\ Aged(t.dueAge, Deadline + 1) \in 0 .. Deadline + 1
        /\ Aged(t.svcAge, Deadline + 1) \in 0 .. Deadline + 1
        /\ Aged(t.stab.age, Deadline) \in 0 .. Deadline
    BY <2>1, AgedIs
  <2> QED BY <2>1, <2>2
<1>4. /\ budget \in [Classes -> Budget]
      /\ \A c \in Classes : budget[c].escalated = t.budget[c].escalated
  <2>1. SUFFICES ASSUME NEW c \in Classes
                 PROVE  /\ [t.budget[c] EXCEPT !.age = Aged(@, Oldest)] \in Budget
                        /\ [t.budget[c] EXCEPT !.age = Aged(@, Oldest)].escalated
                             = t.budget[c].escalated
    OBVIOUS
  <2> DEFINE n == Aged(t.budget[c].age, Oldest)
  <2>2. t.budget[c] \in Budget
    BY <1>1 DEF Tracker
  <2>3. n \in 0 .. Oldest
    BY <2>2, AgedIs, RecoveryParameters DEF Budget
  <2> HIDE DEF n
  <2>4. [t.budget[c] EXCEPT !.age = n] \in Budget
    BY <2>2, <2>3, Zenon DEF Budget
  <2>5. [t.budget[c] EXCEPT !.age = n].escalated = t.budget[c].escalated
    BY <2>2 DEF Budget
  <2> QED BY <2>4, <2>5 DEF n
<1>5. stab \in Stabilization
  <2> HIDE DEF stabAge
  <2>1. t.stab \in Stabilization
    BY <1>1 DEF Tracker
  <2> QED BY <1>3, <2>1, Zenon DEF Stabilization
<1> HIDE DEF dueAge, svcAge, stabAge, stab, budget
<1>6. t' \in Tracker
  BY <1>1, <1>2, <1>3, <1>4, <1>5, Zenon DEF Tracker
<1>7. SameEvidence(t, t') /\ t'.inFlight = t.inFlight /\ t'.budget = budget
  BY <1>1, <1>2 DEF Tracker, SameEvidence
<1>8. UNCHANGED <<source, frontier, quarantined, caller, channel, told, stop>>
  BY DEF Elapse
<1>9. Accounted'
  <2>1. NoOverlappingRecoveries' /\ InFlightIsKnown' /\ StopLeavesNothingInFlight'
    BY <1>1, <1>7, <1>8
       DEF Accounted, NoOverlappingRecoveries, InFlightIsKnown, StopLeavesNothingInFlight
  <2>2. EscalationsAreReported'
    <3>1. told = {c \in Classes : t.budget[c].escalated}
      BY <1>1 DEF Accounted, EscalationsAreReported
    <3> QED BY <1>4, <1>7, <1>8, <3>1 DEF EscalationsAreReported
  <2> QED BY <1>1, <1>6, <1>8, <2>1, <2>2 DEF Accounted
<1>10. /\ event' \in [src : Keys, ok : BOOLEAN, age : 0 .. StaleAfter + 1, early : BOOLEAN]
       /\ event'.src = event.src /\ event'.early = event.early
  <2> DEFINE n == Aged(event.age, StaleAfter + 1)
  <2>1. event \in [src : Keys, ok : BOOLEAN, age : 0 .. StaleAfter + 1, early : BOOLEAN]
    BY <1>1 DEF MonitorTyped
  <2>2. n \in 0 .. StaleAfter + 1
    BY <2>1, AgedIs, RecoveryParameters
  <2>3. event' = event \/ event' = [event EXCEPT !.age = n]
    BY DEF Elapse
  <2> HIDE DEF n
  <2>4. event' \in [src : Keys, ok : BOOLEAN, age : 0 .. StaleAfter + 1, early : BOOLEAN]
    BY <2>1, <2>2, <2>3, Zenon
  <2> QED BY <2>1, <2>3, <2>4
<1>11. grace' \in [down : BOOLEAN, age : 0 .. Grace]
  <2> DEFINE n == Aged(grace.age, Grace)
  <2>1. grace \in [down : BOOLEAN, age : 0 .. Grace]
    BY <1>1 DEF MonitorTyped
  <2>2. n \in 0 .. Grace
    BY <2>1, AgedIs, RecoveryParameters
  <2>3. grace' = grace \/ grace' = [grace EXCEPT !.age = n]
    BY DEF Elapse
  <2> HIDE DEF n
  <2> QED BY <2>1, <2>2, <2>3, Zenon
<1>12. MonitorTyped'
  BY <1>1, <1>8, <1>10, <1>11 DEF MonitorTyped
<1>13. EvidenceIsAttributed'
  BY <1>1, <1>7, <1>8, <1>10 DEF EvidenceIsAttributed, SameEvidence
<1> QED BY <1>7, <1>9, <1>12, <1>13, InvPartsNext

LEMMA ProbedIs ==
  ASSUME NEW ok \in BOOLEAN, Probed(ok)
  PROVE  /\ caller["tick"].stage = "probing" /\ (ok => source # 0)
         /\ source = 0 => UNCHANGED <<frontier, quarantined>>
         /\ source # 0 => /\ frontier' = source
                          /\ quarantined' = IF Attribution = "source-changed" THEN event.src # 0
                                            ELSE quarantined
         /\ grace' \in {grace, [down |-> FALSE, age |-> 0], [down |-> TRUE, age |-> 0]}
         /\ Execute("tick", TickDecision(ok), ClassNow, IF ok THEN 0 ELSE source, ok)
         /\ UNCHANGED <<source, event, channel, stop>>
<1>1. /\ caller["tick"].stage = "probing" /\ (ok => source # 0)
      /\ source = 0 => UNCHANGED <<frontier, quarantined>>
      /\ source # 0 => /\ frontier' = source
                       /\ quarantined' = IF Attribution = "source-changed" THEN event.src # 0
                                         ELSE quarantined
      /\ UNCHANGED <<source, event, channel, stop>>
  BY DEF Probed
<1>2. grace' \in {grace, [down |-> FALSE, age |-> 0], [down |-> TRUE, age |-> 0]}
  BY DEF Probed, GraceAfter
<1>3. CASE ok
  <2>1. Execute("tick", TickSays(ServiceLook(ok), ChannelLook(ControlLook(ServiceLook(ok).t).t)),
                ClassNow, 0, TRUE)
    BY <1>3 DEF Probed, ServiceLook, ChannelLook, ControlLook, FirstLook, TickBase, SawEvent
  <2>2. TickDecision(ok) = TickSays(ServiceLook(ok), ChannelLook(ControlLook(ServiceLook(ok).t).t))
    BY <1>3 DEF TickDecision
  <2>3. ok = TRUE
    BY <1>3
  <2> QED BY <1>1, <1>2, <2>1, <2>2, <2>3
<1>4. CASE ~ok
  <2>1. Execute("tick", ServiceLook(ok), ClassNow, source, FALSE)
    BY <1>4 DEF Probed, ServiceLook, ControlLook, FirstLook, TickBase, SawEvent
  <2>2. TickDecision(ok) = ServiceLook(ok)
    BY <1>4 DEF TickDecision
  <2>3. ok = FALSE
    BY <1>4
  <2> QED BY <1>1, <1>2, <2>1, <2>2, <2>3
<1> QED BY <1>3, <1>4

LEMMA ProbedKeeps ==
  ASSUME RecoveryInv, NEW ok \in BOOLEAN, Probed(ok)
  PROVE  /\ RecoveryInv'
         /\ t'.ctl > t.ctl \/ (~t.due /\ t'.due) => event.src = t'.key \/ event.early
         /\ /\ caller'["tick"].stage = "recovering" /\ caller'["tick"].class = "restart"
            /\ ~caller'["tick"].channel
            => ~EventOk
<1> DEFINE d == TickDecision(ok)
           k == IF ok THEN 0 ELSE source
<1>1. /\ MonitorTyped /\ Accounted /\ EvidenceIsAttributed /\ RecoveryTypeOK /\ t \in Tracker
      /\ "tick" \in Callers /\ ClassNow \in Classes /\ k \in Keys
  <2>1. "tick" \in Callers /\ ClassNow \in Classes
    BY DEF Callers, Classes, ClassNow
  <2>2. source \in Keys /\ 0 \in Keys
    BY InvGives DEF MonitorTyped, Keys
  <2> QED BY <2>1, <2>2, InvGives
<1>2. /\ caller["tick"].stage = "probing" /\ (ok => source # 0)
      /\ source = 0 => UNCHANGED <<frontier, quarantined>>
      /\ source # 0 => /\ frontier' = source
                       /\ quarantined' = IF Attribution = "source-changed" THEN event.src # 0
                                         ELSE quarantined
      /\ grace' \in {grace, [down |-> FALSE, age |-> 0], [down |-> TRUE, age |-> 0]}
      /\ Execute("tick", d, ClassNow, k, ok)
      /\ UNCHANGED <<source, event, channel, stop>>
  BY ProbedIs
<1> HIDE DEF k
<1>3. /\ Decides(t, ClassNow, d)
      /\ d.says = "escalate" => d.t.budget[ClassNow].escalated
      /\ ~SawEvent => d.t.ctl <= t.ctl /\ (d.t.due => t.due /\ source = 0 /\ d.t.key = t.key)
      /\ SawEvent => d.t.key = source
      /\ ~ok /\ d.says = "restart" /\ ClassNow = "restart" => ~EventOk
  BY <1>1, <1>2, TickDecides
<1> HIDE DEF d
<1>4. /\ Accounted' /\ SameEvidence(d.t, t')
      /\ caller'["tick"].stage = "recovering" =>
           d.says = "restart" /\ caller'["tick"].class = ClassNow /\ caller'["tick"].channel = ok
  BY <1>1, <1>2, <1>3, ExecuteIs
<1>5. t'.ctl = d.t.ctl /\ t'.due = d.t.due /\ t'.key = d.t.key
  BY <1>4 DEF SameEvidence
<1>6. MonitorTyped'
  <2>1. frontier' \in Keys /\ quarantined' \in BOOLEAN
    BY <1>1, <1>2 DEF MonitorTyped
  <2>2. grace' \in [down : BOOLEAN, age : 0 .. Grace]
    <3>1. 0 \in 0 .. Grace /\ grace \in [down : BOOLEAN, age : 0 .. Grace]
      BY <1>1, RecoveryParameters DEF MonitorTyped
    <3>2. /\ [down |-> FALSE, age |-> 0] \in [down : BOOLEAN, age : 0 .. Grace]
          /\ [down |-> TRUE, age |-> 0] \in [down : BOOLEAN, age : 0 .. Grace]
      BY <3>1, Zenon
    <3>3. \/ grace' = grace \/ grace' = [down |-> FALSE, age |-> 0]
          \/ grace' = [down |-> TRUE, age |-> 0]
      BY <1>2
    <3> QED BY <3>1, <3>2, <3>3, Zenon
  <2> QED BY <1>1, <1>2, <2>1, <2>2 DEF MonitorTyped
<1>7. SawEvent => /\ source # 0 /\ frontier \in {0, source} /\ ~quarantined /\ event.src # 0
                  /\ event.src = source \/ event.early
  BY <1>1, AttributionIs DEF EvidenceIsAttributed
<1>8. EvidenceIsAttributed'
  <2>1. Attribution = "source-changed" <=> source # 0 /\ frontier \notin {0, source}
    BY AttributionIs
  <2>2. frontier' = 0 /\ event'.src # 0 => event'.early
    BY <1>1, <1>2 DEF EvidenceIsAttributed
  <2>3. /\ frontier' # 0 /\ source' = frontier' /\ event'.src # 0 /\ ~quarantined'
        => event'.src = source' \/ event'.early
    BY <1>1, <1>2, <2>1 DEF EvidenceIsAttributed
  <2>4. t'.due => t'.key # 0 /\ t'.key = frontier' /\ ~quarantined' /\ event'.src # 0
    <3>1. CASE SawEvent
      BY <1>2, <1>3, <1>5, <1>7, <2>1, <3>1
    <3>2. CASE ~SawEvent
      BY <1>1, <1>2, <1>3, <1>5, <3>2 DEF EvidenceIsAttributed
    <3> QED BY <3>1, <3>2
  <2> QED BY <2>2, <2>3, <2>4 DEF EvidenceIsAttributed
<1>9. t'.ctl > t.ctl \/ (~t.due /\ t'.due) => event.src = t'.key \/ event.early
  <2>1. CASE SawEvent
    BY <1>3, <1>5, <1>7, <2>1
  <2>2. CASE ~SawEvent
    <3>1. t.ctl \in Nat /\ d.t.ctl \in Nat
      BY <1>1, <1>3 DEF Tracker, Decides, Decision
    <3> QED BY <1>3, <1>5, <2>2, <3>1
  <2> QED BY <2>1, <2>2
<1>10. /\ caller'["tick"].stage = "recovering" /\ caller'["tick"].class = "restart"
       /\ ~caller'["tick"].channel
       => ~EventOk
  BY <1>3, <1>4
<1> QED BY <1>4, <1>6, <1>8, <1>9, <1>10, InvPartsNext

LEMMA RecoveryStuttersKeep ==
  ASSUME RecoveryInv, UNCHANGED recoveryVars
  PROVE  RecoveryInv'
<1>1. MonitorTyped /\ Accounted /\ EvidenceIsAttributed
  BY InvGives
<1>2. UNCHANGED <<source, event, frontier, quarantined, grace, t, caller, channel, told, stop>>
  BY DEF recoveryVars
<1>3. Accounted'
  BY <1>1, <1>2, OutsideKeeps
<1>4. MonitorTyped' /\ EvidenceIsAttributed'
  BY <1>1, <1>2 DEF MonitorTyped, EvidenceIsAttributed
<1> QED BY <1>3, <1>4, InvPartsNext

\* Every step keeps the invariant, counts as evidence only what the Gateway that
\* runs reported, and lets a tick replace a Gateway only without a live session.
LEMMA RecoveryStep ==
  ASSUME RecoveryInv, [RecoveryNext]_recoveryVars
  PROVE  /\ RecoveryInv'
         /\ t'.ctl > t.ctl \/ (~t.due /\ t'.due) => event.src = t'.key \/ event.early
         /\ /\ Starts("tick") /\ caller'["tick"].class = "restart" /\ ~caller'["tick"].channel
            => ~EventOk
<1>0. t \in Tracker /\ t.ctl \in Nat /\ "tick" \in Callers /\ caller \in [Callers -> Caller]
  BY InvGives DEF Tracker, Callers
<1>1. CASE TickStarts
  <2>1. t' = t
    BY <1>1 DEF TickStarts
  <2>2. caller'["tick"].stage = "probing"
    BY <1>0, <1>1 DEF TickStarts, Caller
  <2> QED BY <1>0, <1>1, <2>1, <2>2, TickStartsKeeps DEF Starts
<1>2. ASSUME NEW ok \in BOOLEAN, Probed(ok)
      PROVE  /\ RecoveryInv'
             /\ t'.ctl > t.ctl \/ (~t.due /\ t'.due) => event.src = t'.key \/ event.early
             /\ Starts("tick") /\ caller'["tick"].class = "restart" /\ ~caller'["tick"].channel
                => ~EventOk
  BY <1>2, ProbedKeeps DEF Starts
<1>3. CASE TerminalLoss
  <2>1. /\ RecoveryInv' /\ t'.ctl <= t.ctl /\ (t'.due => t.due) /\ ~Starts("tick")
    BY <1>3, TerminalLossKeeps
  <2>2. t'.ctl \in Nat
    <3>1. t' \in Tracker
      BY <2>1 DEF RecoveryInv, RecoveriesAreAccounted, RecoveryTypeOK, Tracker, Stabilization, Budget
    <3> QED BY <3>1 DEF Tracker
  <2> QED BY <1>0, <2>1, <2>2
<1>4. ASSUME NEW w \in Callers, NEW result \in {"ok", "failed", "refused"}, RecoveryEnds(w, result)
      PROVE  RecoveryInv' /\ SameEvidence(t, t') /\ ~Starts("tick")
  BY <1>0, <1>4, RecoveryEndsKeeps
<1>5. CASE StopMonitor \/ StopReturns
  <2>1. t' = t /\ caller' = caller
    BY <1>5 DEF StopMonitor, StopReturns
  <2> QED BY <1>0, <1>5, <2>1, StopKeeps DEF Starts
<1>6. ASSUME NEW ok \in BOOLEAN, ControlEvent(ok) \/ ChannelEvent(ok)
      PROVE  RecoveryInv' /\ t' = t /\ caller' = caller
  <2>1. t' = t /\ caller' = caller
    BY <1>6 DEF ControlEvent, ChannelEvent
  <2> QED BY <1>6, <2>1, ControlEventKeeps, ChannelEventKeeps
<1>7. CASE GatewayChanges
  <2>1. t' = t /\ caller' = caller
    BY <1>7 DEF GatewayChanges
  <2> QED BY <1>0, <1>7, <2>1, GatewayChangesKeeps DEF Starts
<1>8. CASE Elapse
  <2>1. caller' = caller
    BY <1>8 DEF Elapse
  <2> QED BY <1>0, <1>8, <2>1, ElapseKeeps DEF Starts, SameEvidence
<1>9. CASE UNCHANGED recoveryVars
  <2>1. t' = t /\ caller' = caller
    BY <1>9 DEF recoveryVars
  <2> QED BY <1>0, <1>9, <2>1, RecoveryStuttersKeep DEF Starts
<1>10. CASE \E w \in Callers, result \in {"ok", "failed", "refused"} : RecoveryEnds(w, result)
  BY <1>0, <1>4, <1>10 DEF SameEvidence
<1>11. CASE \E ok \in BOOLEAN : ControlEvent(ok) \/ ChannelEvent(ok)
  BY <1>0, <1>6, <1>11 DEF Starts
<1> QED BY <1>1, <1>2, <1>3, <1>5, <1>7, <1>8, <1>9, <1>10, <1>11 DEF RecoveryNext

\* The invariant of the automatic recovery.
THEOREM RecoveryCorrect == RecoverySpec => []RecoveryInv
<1>1. RecoveryInit => RecoveryInv
  BY InitRecovery
<1>2. RecoveryInv /\ [RecoveryNext]_recoveryVars => RecoveryInv'
  BY RecoveryStep
<1> QED BY <1>1, <1>2, PTL DEF RecoverySpec

\* The recoveries of a zone are accounted for.
THEOREM RecoveriesAccounted == RecoverySpec => []RecoveriesAreAccounted
<1>1. RecoveryInv => RecoveriesAreAccounted
  BY DEF RecoveryInv
<1> QED BY <1>1, RecoveryCorrect, PTL

\* What counts against the control session was reported by the Gateway it is held against.
THEOREM EvidenceCorrect == RecoverySpec => EvidenceIsOfThisGateway
<1>1. RecoveryInv /\ [RecoveryNext]_recoveryVars =>
        [t'.ctl > t.ctl \/ (~t.due /\ t'.due) => event.src = t'.key \/ event.early]_recoveryVars
  BY RecoveryStep
<1> QED BY <1>1, RecoveryCorrect, PTL DEF RecoverySpec, EvidenceIsOfThisGateway

\* A tick restarts a running Gateway only when its last report is bad or old.
THEOREM LiveSessionCorrect == RecoverySpec => LiveSessionKeepsTheGateway
<1>1. RecoveryInv /\ [RecoveryNext]_recoveryVars =>
        [Starts("tick") /\ caller'["tick"].class = "restart" /\ ~caller'["tick"].channel
           => ~EventOk]_recoveryVars
  BY RecoveryStep
<1> QED BY <1>1, RecoveryCorrect, PTL DEF RecoverySpec, LiveSessionKeepsTheGateway
=============================================================================
