---------------------- MODULE ControllerApprovalLedger ----------------------
(***************************************************************************)
(* The approval ledger of the controller                                   *)
(* (controller/approval/controller-approval-ledger.ts) over the            *)
(* crash-durable record store                                              *)
(* (controller/durable-state/crash-durable-record-store.ts).               *)
(*                                                                         *)
(* The id of a record is derived from the intent and the authority         *)
(* context, which holds the epoch of the controller process.  The model    *)
(* follows one intent: it has one record per controller epoch.  Calls      *)
(* interleave at every await: at the record lock, before the rename,       *)
(* before the sync of the directory and before the answer; a policy may be *)
(* saved, the process or the machine may fail at each of them.             *)
(*                                                                         *)
(* A call leaves the record as it is or moves it to another kind; the      *)
(* answer of an accepted call hands out what the new kind stands for.      *)
(* Reservation and grant ids are generated once per record and identify    *)
(* it.  The operator is the principal of the intent.  A file that does not *)
(* parse fails the call and is not modelled.                               *)
(***************************************************************************)
EXTENDS Naturals

CONSTANTS
  Callers,       \* calls that may be under way at once
  NoKind,        \* the record file does not exist
  ChallengeTtl,  \* challengeTtlMs
  MaxEpochs,     \* bound of the number of controller processes
  MaxTime        \* bound of the clock

Kinds == {"pending", "approved", "denied", "revoked", "consumed-not-dispatched",
          "dispatch-armed"}

\* The ledger refuses a TTL that is not a positive integer; a missing file is
\* none of the kinds of a record.
ASSUME ApprovalAssumption ==
  /\ NoKind \notin Kinds
  /\ ChallengeTtl \in Nat \ {0}
  /\ MaxEpochs \in Nat \ {0}
  /\ MaxTime \in Nat

VARIABLES
  now,        \* now()
  epoch,      \* currentControllerEpoch
  authority,  \* what validateIntent says of the intent
  visible,    \* the record files as the process reads them
  durable,    \* the record files as they survive a failure of the machine
  call,       \* the calls under way
  handedOut,  \* the kinds whose recording was answered to a caller
  grants      \* the grants answered to a caller

vars == <<now, epoch, authority, visible, durable, call, handedOut, grants>>

-----------------------------------------------------------------------------
Epochs == 1..MaxEpochs
Operations == {"request", "approve", "deny", "revoke", "arm"}
Record == [kind : Kinds \cup {NoKind}, expiresAt : Nat]
NoRecord == [kind |-> NoKind, expiresAt |-> 0]

IdleCall == [stage |-> "idle", op |-> "request", at |-> 1, next |-> NoRecord, accepted |-> FALSE]
Call ==
  [stage : {"idle", "waiting", "writing", "renamed"}, op : Operations, at : Epochs,
   next : Record, accepted : BOOLEAN]

Expired(record) == record.expiresAt <= now

\* The mutate callback of requestApproval: the kind to which it moves a record.
\* current says that the input authority and the intent were found current.
RequestedKind(record, current) ==
  CASE record.kind = NoKind /\ current -> "pending"
    [] record.kind = "approved" /\ current /\ ~Expired(record) -> "consumed-not-dispatched"
    [] OTHER -> record.kind

\* The mutate callback of armDispatch.
ArmedKind(record, current) ==
  IF record.kind = "consumed-not-dispatched" /\ current /\ ~Expired(record)
    THEN "dispatch-armed" ELSE record.kind

\* The mutate callback of decide, for either decision.
DecidedKind(record, current, decision) ==
  IF record.kind = "pending" /\ current /\ ~Expired(record) THEN decision ELSE record.kind

\* The mutate callback of revoke, which does not ask whether the intent is current.
RevokedKind(record) ==
  IF record.kind \in {"pending", "approved"} /\ ~Expired(record) THEN "revoked" ELSE record.kind

KindAfter(op, record, current) ==
  CASE op = "request" -> RequestedKind(record, current)
    [] op = "arm" -> ArmedKind(record, current)
    [] op = "approve" -> DecidedKind(record, current, "approved")
    [] op = "deny" -> DecidedKind(record, current, "denied")
    [] op = "revoke" -> RevokedKind(record)

\* The record that a call writes; a challenge gets its expiry when it is made.
Mutated(op, record, current) ==
  [kind |-> KindAfter(op, record, current),
   expiresAt |-> IF record.kind = NoKind /\ KindAfter(op, record, current) # NoKind
                 THEN now + ChallengeTtl ELSE record.expiresAt]

\* Mutant: a repeated armDispatch gets the grant that was recorded.
MovesOrRepeats(op, record, next, current) ==
  next.kind # record.kind \/ (op = "arm" /\ next.kind = "dispatch-armed")

\* The answer of a call hands something out if the call moved the record, or if
\* it is a request that finds its challenge pending.
Accepted(op, record, next, current) ==
  \/ next.kind # record.kind
  \/ op = "request" /\ record.kind = "pending" /\ current /\ ~Expired(record)

-----------------------------------------------------------------------------
Init ==
  /\ now = 0
  /\ epoch = 1
  /\ authority = TRUE
  /\ visible = [e \in Epochs |-> NoRecord]
  /\ durable = [e \in Epochs |-> NoRecord]
  /\ call = [c \in Callers |-> IdleCall]
  /\ handedOut = [e \in Epochs |-> {}]
  /\ grants = [e \in Epochs |-> 0]

\* authorityContext.controllerEpoch !== currentControllerEpoch is refused.
CurrentContext(e) == e = epoch

\* A caller asks.  Only the caller that was handed the reservation can arm it.
Ask(c, op, e) ==
  /\ call[c].stage = "idle"
  /\ CurrentContext(e)
  /\ op = "arm" => "consumed-not-dispatched" \in handedOut[e]
  /\ call' = [call EXCEPT ![c] = [IdleCall EXCEPT !.stage = "waiting", !.op = op, !.at = e]]
  /\ UNCHANGED <<now, epoch, authority, visible, durable, handedOut, grants>>

\* Mutant: the mutations of a record are not queued.
NeverLocked(e) == FALSE

\* Mutant: a mutation waits for the tail of the queue, which it has joined.
LockedByWaiting(e) == \E d \in Callers : call[d].stage # "idle" /\ call[d].at = e

\* runWithRecordLock: a mutation of the record is between its load and its end.
RecordLocked(e) == \E d \in Callers : call[d].stage \in {"writing", "renamed"} /\ call[d].at = e

\* The record is loaded and mutated.  validateInputAuthority is asked for and
\* may refuse; no record is written where there is none and none is made.
Mutate(c) ==
  LET op == call[c].op
      record == visible[call[c].at]
  IN /\ call[c].stage = "waiting"
     /\ ~RecordLocked(call[c].at)
     /\ \E inputCurrent \in BOOLEAN :
          LET current == authority /\ inputCurrent
              next == Mutated(op, record, current)
          IN call' = [call EXCEPT ![c] =
                        IF next.kind = NoKind THEN IdleCall
                        ELSE [@ EXCEPT !.stage = "writing", !.next = next,
                                       !.accepted = Accepted(op, record, next, current)]]
     /\ UNCHANGED <<now, epoch, authority, visible, durable, handedOut, grants>>

\* The temporary file is written, synced and renamed over the record.
RenameRecord(c) ==
  /\ call[c].stage = "writing"
  /\ visible' = [visible EXCEPT ![call[c].at] = call[c].next]
  /\ call' = [call EXCEPT ![c].stage = "renamed"]
  /\ UNCHANGED <<now, epoch, authority, durable, handedOut, grants>>

\* Writing or renaming the temporary file fails, and so does the call.
WriteFails(c) ==
  /\ call[c].stage = "writing"
  /\ call' = [call EXCEPT ![c] = IdleCall]
  /\ UNCHANGED <<now, epoch, authority, visible, durable, handedOut, grants>>

\* Syncing the directory fails: the call fails and the record is in place.
SyncFails(c) ==
  /\ call[c].stage = "renamed"
  /\ call' = [call EXCEPT ![c] = IdleCall]
  /\ UNCHANGED <<now, epoch, authority, visible, durable, handedOut, grants>>

\* Mutant: a grant is answered without another look at the intent.
HandsOutRecorded(c) == call[c].accepted

\* The last check of a call that was accepted: its answer is withheld if the
\* intent is no longer current, except for a revocation.
HandsOut(c) == call[c].accepted /\ (authority \/ call[c].op = "revoke")

Answered(c) ==
  /\ handedOut' = [handedOut EXCEPT ![call[c].at] =
                     IF HandsOut(c) THEN @ \cup {call[c].next.kind} ELSE @]
  /\ grants' = [grants EXCEPT ![call[c].at] =
                  IF HandsOut(c) /\ call[c].op = "arm" THEN @ + 1 ELSE @]
  /\ call' = [call EXCEPT ![c] = IdleCall]

\* Mutant: the answer does not wait for the directory.
AnswerUnsynced(c) ==
  /\ call[c].stage = "renamed"
  /\ Answered(c)
  /\ UNCHANGED <<now, epoch, authority, visible, durable>>

\* The directory is synced, with every rename in it, and the call answers.
SyncAndAnswer(c) ==
  /\ call[c].stage = "renamed"
  /\ durable' = visible
  /\ Answered(c)
  /\ UNCHANGED <<now, epoch, authority, visible>>

-----------------------------------------------------------------------------
\* A policy save changes what validateIntent says.
PolicySaved ==
  /\ authority' = ~authority
  /\ UNCHANGED <<now, epoch, visible, durable, call, handedOut, grants>>

\* The controller process ends and another one starts over the same directory.
ProcessRestarts ==
  /\ epoch < MaxEpochs
  /\ epoch' = epoch + 1
  /\ call' = [c \in Callers |-> IdleCall]
  /\ UNCHANGED <<now, authority, visible, durable, handedOut, grants>>

\* The machine fails: of a rename that was not synced, either file may be left.
MachineRestarts ==
  /\ epoch < MaxEpochs
  /\ epoch' = epoch + 1
  /\ call' = [c \in Callers |-> IdleCall]
  /\ \E lost \in SUBSET Epochs :
       visible' = [e \in Epochs |-> IF e \in lost THEN durable[e] ELSE visible[e]]
  /\ durable' = visible'
  /\ UNCHANGED <<now, authority, handedOut, grants>>

Tick ==
  /\ now < MaxTime
  /\ now' = now + 1
  /\ UNCHANGED <<epoch, authority, visible, durable, call, handedOut, grants>>

CallStep(c) == Mutate(c) \/ RenameRecord(c) \/ WriteFails(c) \/ SyncFails(c) \/ SyncAndAnswer(c)

Next ==
  \/ \E c \in Callers : CallStep(c)
  \/ \E c \in Callers, op \in Operations, e \in Epochs : Ask(c, op, e)
  \/ PolicySaved
  \/ ProcessRestarts
  \/ MachineRestarts
  \/ Tick

Spec == Init /\ [][Next]_vars

-----------------------------------------------------------------------------
(* Properties.                                                             *)

\* Type correctness of the records, the calls and the history of answers.
TypeOK ==
  /\ now \in Nat
  /\ epoch \in Epochs
  /\ authority \in BOOLEAN
  /\ visible \in [Epochs -> Record]
  /\ durable \in [Epochs -> Record]
  /\ call \in [Callers -> Call]
  /\ handedOut \in [Epochs -> SUBSET Kinds]
  /\ grants \in [Epochs -> Nat]

\* An approval lets at most one dispatch go, whatever calls are retried, fail
\* half-way or are cut off by a failure (armDispatch).
OneGrant == \A e \in Epochs : grants[e] <= 1

\* A grant leaves the ledger only while the intent is current and for the
\* authority of the running controller: what was found before the durable I/O
\* is looked at again after it (armDispatch).
GrantFromCurrentAuthority ==
  [][\A e \in Epochs : grants'[e] > grants[e] => authority /\ e = epoch]_vars

\* The kinds a record of kind k may have later.
Later(k) ==
  CASE k = "pending" -> Kinds
    [] k = "approved" -> {"approved", "revoked", "consumed-not-dispatched", "dispatch-armed"}
    [] k = "consumed-not-dispatched" -> {"consumed-not-dispatched", "dispatch-armed"}
    [] OTHER -> {k}

\* What a caller was told is recorded is still recorded, or was built upon,
\* whatever call ran beside it and after any failure of the process or of the
\* machine; so an approval that was acknowledged as denied or revoked is never
\* granted, and one that was granted is never revoked (mutateRecord).
AnsweredIsKept ==
  \A e \in Epochs : \A k \in handedOut[e] :
    visible[e].kind \in Later(k) /\ durable[e].kind \in Later(k)

\* No call waits for a record that nobody works on, whatever failed before it: a
\* call that has not ended, or the one ahead of it, can always go on, and every
\* step takes a call nearer its end (runWithRecordLock).
NoCallIsStuck ==
  \A c \in Callers :
    call[c].stage # "idle" => \E d \in Callers : call[d].at = call[c].at /\ ENABLED CallStep(d)
=============================================================================
