------------------- MODULE ControllerApprovalLedgerProofs -------------------
(***************************************************************************)
(* Proofs about ControllerApprovalLedger, for any number of callers,       *)
(* controller processes and ticks.                                         *)
(*                                                                         *)
(* A record moves along Later, one mutation at a time, and a grant is      *)
(* answered only when the armed record is on the disk: so a second grant   *)
(* would need a record that went back, and none does.                      *)
(***************************************************************************)
EXTENDS ControllerApprovalLedger, TLAPS

InFlight(c) == call[c].stage \in {"writing", "renamed"}

\* The queue of a record lets one mutation at a time through.
LockExclusive ==
  \A c, d \in Callers : InFlight(c) /\ InFlight(d) /\ call[c].at = call[d].at => c = d

\* No call outlives the process that made it.
CallsAreCurrent == \A c \in Callers : call[c].stage # "idle" => call[c].at = epoch

Arms(c) == call[c].op = "arm" /\ call[c].accepted

\* What is about to be written follows from the record it replaces.
WritesFollow ==
  \A c \in Callers : call[c].stage = "writing" =>
    LET kind == visible[call[c].at].kind
    IN /\ call[c].next.kind \in Kinds
       /\ kind # NoKind => call[c].next.kind \in Later(kind)
       /\ Arms(c) => kind = "consumed-not-dispatched" /\ call[c].next.kind = "dispatch-armed"

\* A record that was renamed is in place until its call has ended, and one that
\* arms a dispatch was not granted before.
RenamedInPlace ==
  \A c \in Callers : call[c].stage = "renamed" =>
    /\ call[c].next.kind \in Kinds
    /\ visible[call[c].at] = call[c].next
    /\ Arms(c) => call[c].next.kind = "dispatch-armed" /\ grants[call[c].at] = 0

\* A grant that was answered is recorded, on the disk too.
GrantIsArmed ==
  \A e \in Epochs : grants[e] > 0 =>
    visible[e].kind = "dispatch-armed" /\ durable[e].kind = "dispatch-armed"

ApprovalInv ==
  /\ TypeOK
  /\ LockExclusive
  /\ CallsAreCurrent
  /\ WritesFollow
  /\ RenamedInPlace
  /\ GrantIsArmed
  /\ OneGrant
  /\ AnsweredIsKept

-----------------------------------------------------------------------------
(* The kinds of a record.                                                  *)

\* Later is an order on the kinds, and no file is later than a record.
LEMMA LaterIsAnOrder ==
  /\ \A k \in Kinds : Later(k) \subseteq Kinds /\ k \in Later(k) /\ NoKind \notin Later(k)
  /\ \A k, l, m \in Kinds : l \in Later(k) /\ m \in Later(l) => m \in Later(k)
<1>1. \A k \in Kinds : Later(k) \subseteq Kinds /\ k \in Later(k)
  BY DEF Later, Kinds
<1>2. \A k, l, m \in Kinds : l \in Later(k) /\ m \in Later(l) => m \in Later(k)
  BY DEF Later, Kinds
<1> QED
  BY <1>1, <1>2, ApprovalAssumption

\* A mutate callback moves a record to a later kind, or makes one where there is
\* none, and only an approval that was consumed can be armed (armDispatch).
LEMMA KindStep ==
  ASSUME NEW op \in Operations, NEW record \in Record, NEW current \in BOOLEAN
  PROVE  /\ KindAfter(op, record, current) \in Kinds \cup {NoKind}
         /\ record.kind # NoKind => KindAfter(op, record, current) \in Later(record.kind)
         /\ op = "arm" /\ KindAfter(op, record, current) # record.kind =>
              /\ record.kind = "consumed-not-dispatched"
              /\ KindAfter(op, record, current) = "dispatch-armed"
<1> USE DEF Record, Kinds
<1>1. CASE op = "request"
  BY <1>1 DEF KindAfter, RequestedKind, Later
<1>2. CASE op = "arm"
  BY <1>2 DEF KindAfter, ArmedKind, Later
<1>3. CASE op = "approve"
  BY <1>3 DEF KindAfter, DecidedKind, Later
<1>4. CASE op = "deny"
  BY <1>4 DEF KindAfter, DecidedKind, Later
<1>5. CASE op = "revoke"
  BY <1>5 DEF KindAfter, RevokedKind, Later
<1> QED
  BY <1>1, <1>2, <1>3, <1>4, <1>5 DEF Operations

\* The record a call writes is of the kind its callback chose.
LEMMA MutatedType ==
  ASSUME NEW op \in Operations, NEW record \in Record, NEW current \in BOOLEAN,
         now \in Nat
  PROVE  /\ Mutated(op, record, current) \in Record
         /\ Mutated(op, record, current).kind = KindAfter(op, record, current)
<1>1. KindAfter(op, record, current) \in Kinds \cup {NoKind}
  BY KindStep
<1> HIDE DEF KindAfter
<1> QED
  BY <1>1, ApprovalAssumption DEF Mutated, Record

-----------------------------------------------------------------------------
(* Types.                                                                  *)

\* A call keeps its type through each of the changes a step makes to it.
LEMMA IdleCallType == IdleCall \in Call /\ NoRecord \in Record
BY ApprovalAssumption DEF IdleCall, Call, NoRecord, Record, Epochs, Operations, Kinds

\* Every step keeps the records, the calls and the answers well typed.
LEMMA TypeStep ==
  ASSUME TypeOK, RenamedInPlace, [Next]_vars
  PROVE  TypeOK'
<1> USE ApprovalAssumption DEF TypeOK
<1>1. ASSUME NEW c \in Callers, NEW op \in Operations, NEW e \in Epochs, Ask(c, op, e)
      PROVE  TypeOK'
  <2>1. [IdleCall EXCEPT !.stage = "waiting", !.op = op, !.at = e] \in Call
    BY IdleCallType DEF Call
  <2> QED BY <1>1, <2>1 DEF Ask
<1>2. ASSUME NEW c \in Callers, Mutate(c)
      PROVE  TypeOK'
  <2> DEFINE op == call[c].op
             record == visible[call[c].at]
  <2>1. call[c] \in Call /\ op \in Operations /\ record \in Record
    BY DEF Call
  <2>2. PICK inputCurrent \in BOOLEAN :
          LET current == authority /\ inputCurrent
              next == Mutated(op, record, current)
          IN call' = [call EXCEPT ![c] =
                        IF next.kind = NoKind THEN IdleCall
                        ELSE [@ EXCEPT !.stage = "writing", !.next = next,
                                       !.accepted = Accepted(op, record, next, current)]]
    BY <1>2 DEF Mutate
  <2> DEFINE current == authority /\ inputCurrent
             next == Mutated(op, record, current)
             accepted == Accepted(op, record, next, current)
  <2>3. next \in Record
    BY <2>1, MutatedType
  <2>4. accepted \in BOOLEAN
    BY DEF Accepted
  <2> HIDE DEF next, accepted
  <2>5. [call[c] EXCEPT !.stage = "writing", !.next = next, !.accepted = accepted] \in Call
    BY <2>1, <2>3, <2>4 DEF Call
  <2>6. call' \in [Callers -> Call]
    BY <2>2, <2>5, IdleCallType DEF next, accepted
  <2> QED BY <1>2, <2>6 DEF Mutate
<1>3. ASSUME NEW c \in Callers, RenameRecord(c)
      PROVE  TypeOK'
  <2>1. call[c] \in Call /\ [call[c] EXCEPT !.stage = "renamed"] \in Call /\ call[c].next \in Record
    BY DEF Call
  <2> QED BY <1>3, <2>1 DEF RenameRecord
<1>4. ASSUME NEW c \in Callers, WriteFails(c) \/ SyncFails(c)
      PROVE  TypeOK'
  BY <1>4, IdleCallType DEF WriteFails, SyncFails
<1>5. ASSUME NEW c \in Callers, SyncAndAnswer(c)
      PROVE  TypeOK'
  <2>1. call[c].at \in Epochs /\ call[c].next.kind \in Kinds \cup {NoKind}
    BY DEF Call, Record
  <2>2. handedOut' \in [Epochs -> SUBSET Kinds]
    <3>1. call[c].next.kind \in Kinds
      BY <1>5 DEF RenamedInPlace, SyncAndAnswer
    <3> QED BY <1>5, <2>1, <3>1 DEF SyncAndAnswer, Answered
  <2>3. grants' \in [Epochs -> Nat]
    BY <1>5, <2>1 DEF SyncAndAnswer, Answered
  <2> QED BY <1>5, <2>2, <2>3, IdleCallType DEF SyncAndAnswer, Answered
<1>6. CASE PolicySaved
  BY <1>6 DEF PolicySaved
<1>7. CASE ProcessRestarts
  BY <1>7, IdleCallType DEF ProcessRestarts, Epochs
<1>8. CASE MachineRestarts
  BY <1>8, IdleCallType DEF MachineRestarts, Epochs
<1>9. CASE Tick
  BY <1>9 DEF Tick
<1>10. CASE UNCHANGED vars
  BY <1>10 DEF vars
<1> QED
  BY <1>1, <1>2, <1>3, <1>4, <1>5, <1>6, <1>7, <1>8, <1>9, <1>10 DEF Next, CallStep

-----------------------------------------------------------------------------
(* The steps of a call.                                                    *)

\* Taking a call, or ending one without an answer, leaves the records and the
\* answers alone and puts no further call in flight (Ask, WriteFails, SyncFails).
LEMMA QuietCall ==
  ASSUME ApprovalInv, TypeOK', NEW c \in Callers, NEW new \in Call,
         new.stage \in {"idle", "waiting"}, new.stage = "waiting" => new.at = epoch,
         call' = [call EXCEPT ![c] = new],
         UNCHANGED <<epoch, visible, durable, handedOut, grants>>
  PROVE  ApprovalInv'
<1> USE DEF ApprovalInv
<1>1. call'[c] = new /\ \A d \in Callers : d # c => call'[d] = call[d]
  BY DEF TypeOK
<1>2. \A d \in Callers : InFlight(d)' => d # c /\ InFlight(d) /\ call'[d] = call[d]
  BY <1>1 DEF InFlight
<1>3. LockExclusive'
  BY <1>2 DEF LockExclusive
<1>4. CallsAreCurrent'
  BY <1>1 DEF CallsAreCurrent
<1>5. WritesFollow'
  BY <1>1 DEF WritesFollow, Arms
<1>6. RenamedInPlace'
  BY <1>1 DEF RenamedInPlace, Arms
<1>7. GrantIsArmed' /\ OneGrant' /\ AnsweredIsKept'
  BY DEF GrantIsArmed, OneGrant, AnsweredIsKept
<1> QED BY <1>3, <1>4, <1>5, <1>6, <1>7

\* A mutation that gets its turn writes what follows from the record, and no
\* other call is at the record (Mutate).
LEMMA MutateStep ==
  ASSUME ApprovalInv, TypeOK', NEW c \in Callers, Mutate(c)
  PROVE  ApprovalInv'
<1> USE DEF ApprovalInv
<1> DEFINE op == call[c].op
           record == visible[call[c].at]
<1>1. call[c] \in Call /\ op \in Operations /\ record \in Record /\ now \in Nat
  BY DEF TypeOK, Call
<1>2. PICK inputCurrent \in BOOLEAN :
        LET current == authority /\ inputCurrent
            next == Mutated(op, record, current)
        IN call' = [call EXCEPT ![c] =
                      IF next.kind = NoKind THEN IdleCall
                      ELSE [@ EXCEPT !.stage = "writing", !.next = next,
                                     !.accepted = Accepted(op, record, next, current)]]
  BY DEF Mutate
<1> DEFINE current == authority /\ inputCurrent
           next == Mutated(op, record, current)
           accepted == Accepted(op, record, next, current)
           new == [call[c] EXCEPT !.stage = "writing", !.next = next, !.accepted = accepted]
<1>3. /\ next \in Record
      /\ next.kind \in Kinds \cup {NoKind}
      /\ record.kind # NoKind => next.kind \in Later(record.kind)
      /\ op = "arm" /\ next.kind # record.kind =>
           record.kind = "consumed-not-dispatched" /\ next.kind = "dispatch-armed"
  <2>1. current \in BOOLEAN
    OBVIOUS
  <2> HIDE DEF current
  <2> QED BY <1>1, <2>1, KindStep, MutatedType
<1>4. op = "arm" /\ accepted => next.kind # record.kind
  BY DEF Accepted
<1> HIDE DEF next, accepted
<1>5. UNCHANGED <<epoch, visible, durable, handedOut, grants>> /\ call[c].stage = "waiting"
  BY DEF Mutate
<1>6. CASE next.kind = NoKind
  <2>1. call' = [call EXCEPT ![c] = IdleCall]
    BY <1>2, <1>6 DEF next
  <2>2. IdleCall.stage = "idle"
    BY DEF IdleCall
  <2> QED BY <1>5, <2>1, <2>2, IdleCallType, QuietCall
<1>7. CASE next.kind # NoKind
  <2>1. call' = [call EXCEPT ![c] = new]
    BY <1>2, <1>7 DEF next, accepted
  <2>2. /\ new.stage = "writing" /\ new.next = next /\ new.accepted = accepted
        /\ new.op = op /\ new.at = call[c].at
    BY <1>1 DEF Call
  <2> HIDE DEF new
  <2>3. call'[c] = new /\ \A d \in Callers : d # c => call'[d] = call[d]
    BY <2>1 DEF TypeOK
  <2>4. \A d \in Callers : InFlight(d) => call[d].at # call[c].at
    BY DEF Mutate, RecordLocked, InFlight
  <2>5. LockExclusive'
    BY <2>2, <2>3, <2>4 DEF LockExclusive, InFlight
  <2>6. CallsAreCurrent'
    BY <1>5, <2>2, <2>3 DEF CallsAreCurrent
  <2>7. WritesFollow'
    <3>1. next.kind \in Kinds
      BY <1>3, <1>7
    <3>2. op = "arm" /\ accepted =>
            record.kind = "consumed-not-dispatched" /\ next.kind = "dispatch-armed"
      BY <1>3, <1>4
    <3> QED BY <1>3, <1>5, <2>2, <2>3, <3>1, <3>2 DEF WritesFollow, Arms
  <2>8. RenamedInPlace'
    BY <1>5, <2>2, <2>3 DEF RenamedInPlace, Arms
  <2>9. GrantIsArmed' /\ OneGrant' /\ AnsweredIsKept'
    BY <1>5 DEF GrantIsArmed, OneGrant, AnsweredIsKept
  <2> QED BY <2>5, <2>6, <2>7, <2>8, <2>9
<1> QED BY <1>6, <1>7

\* A rename moves the record forward and meets no other call at it: what was
\* answered before it is still recorded (RenameRecord).
LEMMA RenameStep ==
  ASSUME ApprovalInv, TypeOK', NEW c \in Callers, RenameRecord(c)
  PROVE  ApprovalInv'
<1> USE DEF ApprovalInv
<1> DEFINE at == call[c].at
           next == call[c].next
<1>1. call[c] \in Call /\ at \in Epochs /\ visible[at].kind \in Kinds \cup {NoKind}
  BY DEF TypeOK, Call, Record
<1>2. /\ call' = [call EXCEPT ![c].stage = "renamed"]
      /\ visible' = [visible EXCEPT ![at] = next]
      /\ call[c].stage = "writing"
      /\ UNCHANGED <<epoch, durable, handedOut, grants>>
  BY DEF RenameRecord
<1>3. /\ call'[c].stage = "renamed" /\ call'[c].at = at /\ call'[c].next = next
      /\ call'[c].op = call[c].op /\ call'[c].accepted = call[c].accepted
      /\ \A d \in Callers : d # c => call'[d] = call[d]
  BY <1>1, <1>2 DEF TypeOK, Call
<1>4. visible'[at] = next /\ \A e \in Epochs : e # at => visible'[e] = visible[e]
  BY <1>1, <1>2 DEF TypeOK
<1>5. \A d \in Callers : InFlight(d) /\ d # c => call[d].at # at
  BY <1>2 DEF LockExclusive, InFlight
<1>6. /\ next.kind \in Kinds
      /\ visible[at].kind # NoKind => next.kind \in Later(visible[at].kind)
      /\ Arms(c) => visible[at].kind = "consumed-not-dispatched" /\ next.kind = "dispatch-armed"
  BY <1>2 DEF WritesFollow
<1>7. LockExclusive'
  BY <1>2, <1>3 DEF LockExclusive, InFlight
<1>8. CallsAreCurrent'
  BY <1>2, <1>3 DEF CallsAreCurrent
<1>9. WritesFollow'
  <2> SUFFICES ASSUME NEW d \in Callers, call'[d].stage = "writing"
               PROVE  d # c /\ call'[d] = call[d] /\ visible'[call[d].at] = visible[call[d].at]
    BY DEF WritesFollow, Arms
  <2>1. d # c /\ call'[d] = call[d] /\ call[d].at \in Epochs
    BY <1>3 DEF TypeOK, Call
  <2> QED BY <1>4, <1>5, <2>1 DEF InFlight
<1>10. RenamedInPlace'
  <2> SUFFICES ASSUME NEW d \in Callers, call'[d].stage = "renamed"
               PROVE  /\ call'[d].next.kind \in Kinds
                      /\ visible'[call'[d].at] = call'[d].next
                      /\ Arms(d)' => /\ call'[d].next.kind = "dispatch-armed"
                                     /\ grants'[call'[d].at] = 0
    BY DEF RenamedInPlace
  <2>1. CASE d = c
    <3>1. Arms(c)' => Arms(c)
      BY <1>3 DEF Arms
    <3>2. Arms(c) => ~(grants[at] > 0)
      BY <1>1, <1>6 DEF GrantIsArmed
    <3>3. grants[at] \in Nat
      BY <1>1 DEF TypeOK
    <3> QED BY <1>2, <1>3, <1>4, <1>6, <2>1, <3>1, <3>2, <3>3
  <2>2. CASE d # c
    <3>1. call'[d] = call[d] /\ call[d].at \in Epochs /\ call[d].stage = "renamed"
      BY <1>3, <2>2 DEF TypeOK, Call
    <3>2. visible'[call[d].at] = visible[call[d].at]
      BY <1>4, <1>5, <2>2, <3>1 DEF InFlight
    <3> QED BY <1>2, <3>1, <3>2 DEF RenamedInPlace, Arms
  <2> QED BY <2>1, <2>2
<1>11. GrantIsArmed'
  <2>1. Later("dispatch-armed") = {"dispatch-armed"} /\ "dispatch-armed" \in Kinds
    BY DEF Later, Kinds
  <2>2. grants[at] > 0 => next.kind = "dispatch-armed"
    BY <1>1, <1>6, <2>1, ApprovalAssumption DEF GrantIsArmed
  <2> QED BY <1>2, <1>4, <2>2 DEF GrantIsArmed
<1>12. OneGrant'
  BY <1>2 DEF OneGrant
<1>13. AnsweredIsKept'
  <2> SUFFICES ASSUME NEW e \in Epochs, NEW k \in handedOut[e]
               PROVE  visible'[e].kind \in Later(k) /\ durable'[e].kind \in Later(k)
    BY <1>2 DEF AnsweredIsKept
  <2>1. visible[e].kind \in Later(k) /\ durable[e].kind \in Later(k) /\ k \in Kinds
    BY DEF AnsweredIsKept, TypeOK
  <2>2. CASE e = at
    <3>1. visible[at].kind \in Kinds /\ visible[at].kind # NoKind
      BY <2>1, <2>2, LaterIsAnOrder
    <3>2. next.kind \in Later(k)
      BY <1>6, <2>1, <2>2, <3>1, LaterIsAnOrder
    <3> QED BY <1>2, <1>4, <2>1, <2>2, <3>2
  <2>3. CASE e # at
    BY <1>2, <1>4, <2>1, <2>3
  <2> QED BY <2>2, <2>3
<1> QED BY <1>7, <1>8, <1>9, <1>10, <1>11, <1>12, <1>13

\* An answer is of what is recorded in both places, and an armed record that was
\* just written was not granted before (SyncAndAnswer).
LEMMA AnswerStep ==
  ASSUME ApprovalInv, TypeOK', NEW c \in Callers, SyncAndAnswer(c)
  PROVE  ApprovalInv'
<1> USE DEF ApprovalInv
<1> DEFINE at == call[c].at
           next == call[c].next
<1>1. /\ call' = [call EXCEPT ![c] = IdleCall]
      /\ durable' = visible
      /\ call[c].stage = "renamed"
      /\ UNCHANGED <<epoch, visible>>
  BY DEF SyncAndAnswer, Answered
<1>2. call'[c].stage = "idle" /\ \A d \in Callers : d # c => call'[d] = call[d]
  BY <1>1 DEF TypeOK, IdleCall
<1>3. at \in Epochs /\ next.kind \in Kinds /\ visible[at] = next
  BY <1>1 DEF TypeOK, Call, RenamedInPlace
<1>4. /\ \A e \in Epochs : e # at => handedOut'[e] = handedOut[e] /\ grants'[e] = grants[e]
      /\ handedOut'[at] \subseteq handedOut[at] \cup {next.kind}
  BY <1>3 DEF SyncAndAnswer, Answered, TypeOK
<1>5. grants'[at] = grants[at] \/ (Arms(c) /\ grants'[at] = grants[at] + 1)
  BY <1>3 DEF SyncAndAnswer, Answered, TypeOK, HandsOut, Arms
<1>6. Arms(c) => next.kind = "dispatch-armed" /\ grants[at] = 0
  BY <1>1 DEF RenamedInPlace
<1>7. \A d \in Callers : InFlight(d) /\ d # c => call[d].at # at
  BY <1>1 DEF LockExclusive, InFlight
<1>8. \A d \in Callers : InFlight(d)' => d # c /\ InFlight(d) /\ call'[d] = call[d]
  BY <1>2 DEF InFlight
<1>9. LockExclusive'
  BY <1>8 DEF LockExclusive
<1>10. CallsAreCurrent'
  BY <1>1, <1>2 DEF CallsAreCurrent
<1>11. WritesFollow'
  BY <1>1, <1>2 DEF WritesFollow, Arms
<1>12. RenamedInPlace'
  <2> SUFFICES ASSUME NEW d \in Callers, call'[d].stage = "renamed"
               PROVE  /\ call'[d] = call[d]
                      /\ grants'[call[d].at] = grants[call[d].at]
    BY <1>1 DEF RenamedInPlace, Arms
  <2>1. d # c /\ call'[d] = call[d] /\ call[d].at # at /\ call[d].at \in Epochs
    BY <1>7, <1>8 DEF InFlight, TypeOK, Call
  <2> QED BY <1>4, <2>1
<1>13. GrantIsArmed'
  <2> SUFFICES ASSUME NEW e \in Epochs, grants'[e] > 0
               PROVE  visible[e].kind = "dispatch-armed"
    BY <1>1 DEF GrantIsArmed
  <2> QED BY <1>3, <1>4, <1>5, <1>6 DEF GrantIsArmed
<1>14. OneGrant'
  BY <1>3, <1>4, <1>5, <1>6 DEF OneGrant, TypeOK
<1>15. AnsweredIsKept'
  <2> SUFFICES ASSUME NEW e \in Epochs, NEW k \in handedOut'[e]
               PROVE  visible[e].kind \in Later(k)
    BY <1>1 DEF AnsweredIsKept
  <2>1. CASE k \in handedOut[e]
    BY <2>1 DEF AnsweredIsKept
  <2>2. CASE k \notin handedOut[e]
    BY <1>3, <1>4, <2>2, LaterIsAnOrder
  <2> QED BY <2>1, <2>2
<1> QED BY <1>9, <1>10, <1>11, <1>12, <1>13, <1>14, <1>15

\* A restart ends every call; of each record it leaves the file that was visible
\* or the one that was durable (ProcessRestarts, MachineRestarts).
LEMMA RestartStep ==
  ASSUME ApprovalInv, TypeOK', ProcessRestarts \/ MachineRestarts
  PROVE  ApprovalInv'
<1> USE DEF ApprovalInv
<1>1. \A c \in Callers : call'[c].stage = "idle"
  BY DEF ProcessRestarts, MachineRestarts, IdleCall
<1>2. UNCHANGED <<handedOut, grants>>
  BY DEF ProcessRestarts, MachineRestarts
<1>3. \A e \in Epochs : /\ visible'[e] \in {visible[e], durable[e]}
                       /\ durable'[e] \in {visible[e], durable[e]}
  BY DEF ProcessRestarts, MachineRestarts
<1>4. LockExclusive' /\ CallsAreCurrent' /\ WritesFollow' /\ RenamedInPlace'
  BY <1>1 DEF LockExclusive, CallsAreCurrent, WritesFollow, RenamedInPlace, InFlight
<1>5. GrantIsArmed'
  BY <1>2, <1>3 DEF GrantIsArmed
<1>6. OneGrant'
  BY <1>2 DEF OneGrant
<1>7. AnsweredIsKept'
  BY <1>2, <1>3 DEF AnsweredIsKept
<1> QED BY <1>4, <1>5, <1>6, <1>7

-----------------------------------------------------------------------------
(* The theorems.                                                           *)

\* The inductive invariant of the approval ledger: calls at a record exclude each
\* other, records only move on, and a grant is on the disk before it is answered.
THEOREM ApprovalCorrect == Spec => []ApprovalInv
<1>1. Init => ApprovalInv
  <2> SUFFICES ASSUME Init PROVE ApprovalInv
    OBVIOUS
  <2>1. TypeOK
    BY IdleCallType, ApprovalAssumption DEF Init, TypeOK, Epochs
  <2>2. \A c \in Callers : call[c].stage = "idle"
    BY DEF Init, IdleCall
  <2>3. LockExclusive /\ CallsAreCurrent /\ WritesFollow /\ RenamedInPlace
    BY <2>2 DEF LockExclusive, CallsAreCurrent, WritesFollow, RenamedInPlace, InFlight
  <2>4. GrantIsArmed /\ OneGrant /\ AnsweredIsKept
    BY DEF Init, GrantIsArmed, OneGrant, AnsweredIsKept
  <2> QED BY <2>1, <2>3, <2>4 DEF ApprovalInv
<1>2. ApprovalInv /\ [Next]_vars => ApprovalInv'
  <2> SUFFICES ASSUME ApprovalInv, [Next]_vars PROVE ApprovalInv'
    OBVIOUS
  <2>1. TypeOK'
    BY TypeStep DEF ApprovalInv
  <2>2. ASSUME NEW c \in Callers, NEW op \in Operations, NEW e \in Epochs, Ask(c, op, e)
        PROVE  ApprovalInv'
    <3> DEFINE new == [IdleCall EXCEPT !.stage = "waiting", !.op = op, !.at = e]
    <3>1. new \in Call /\ new.stage = "waiting" /\ new.at = e
      BY IdleCallType DEF Call
    <3>2. /\ call' = [call EXCEPT ![c] = new] /\ e = epoch
          /\ UNCHANGED <<epoch, visible, durable, handedOut, grants>>
      BY <2>2 DEF Ask, CurrentContext
    <3> HIDE DEF new
    <3> QED BY <2>1, <3>1, <3>2, QuietCall
  <2>3. ASSUME NEW c \in Callers, WriteFails(c) \/ SyncFails(c)
        PROVE  ApprovalInv'
    <3>1. /\ call' = [call EXCEPT ![c] = IdleCall]
          /\ UNCHANGED <<epoch, visible, durable, handedOut, grants>>
      BY <2>3 DEF WriteFails, SyncFails
    <3>2. IdleCall.stage = "idle"
      BY DEF IdleCall
    <3> QED BY <2>1, <3>1, <3>2, IdleCallType, QuietCall
  <2>4. ASSUME NEW c \in Callers, CallStep(c)
        PROVE  ApprovalInv'
    BY <2>1, <2>3, <2>4, MutateStep, RenameStep, AnswerStep DEF CallStep
  <2>5. CASE ProcessRestarts \/ MachineRestarts
    BY <2>1, <2>5, RestartStep
  <2>6. CASE PolicySaved \/ Tick \/ UNCHANGED vars
    <3>1. UNCHANGED <<epoch, visible, durable, call, handedOut, grants>>
      BY <2>6 DEF PolicySaved, Tick, vars
    <3> QED BY <2>1, <3>1 DEF ApprovalInv, LockExclusive, InFlight, CallsAreCurrent, WritesFollow,
                   RenamedInPlace, Arms, GrantIsArmed, OneGrant, AnsweredIsKept
  <2> QED BY <2>2, <2>4, <2>5, <2>6 DEF Next
<1> QED BY <1>1, <1>2, PTL DEF Spec

\* Type correctness of the approval ledger.
THEOREM ApprovalTypeCorrect == Spec => []TypeOK
<1>1. ApprovalInv => TypeOK
  BY DEF ApprovalInv
<1> QED BY <1>1, ApprovalCorrect, PTL

\* An approval lets at most one dispatch go (armDispatch).
THEOREM AtMostOneGrant == Spec => []OneGrant
<1>1. ApprovalInv => OneGrant
  BY DEF ApprovalInv
<1> QED BY <1>1, ApprovalCorrect, PTL

\* What a caller was told is recorded stays recorded or is built upon, through
\* every restart (mutateRecord).
THEOREM AnswersAreDurable == Spec => []AnsweredIsKept
<1>1. ApprovalInv => AnsweredIsKept
  BY DEF ApprovalInv
<1> QED BY <1>1, ApprovalCorrect, PTL

\* A grant leaves the ledger only while the intent is current, and only in the
\* process whose authority it carries (armDispatch).
THEOREM GrantsAreCurrent == Spec => GrantFromCurrentAuthority
<1> DEFINE Granting == \A e \in Epochs : grants'[e] > grants[e] => authority /\ e = epoch
<1>1. ApprovalInv /\ [Next]_vars => [Granting]_vars
  <2> SUFFICES ASSUME ApprovalInv, Next PROVE Granting
    BY DEF vars
  <2>1. grants \in [Epochs -> Nat]
    BY DEF ApprovalInv, TypeOK
  <2>2. ASSUME NEW c \in Callers, SyncAndAnswer(c)
        PROVE  Granting
    <3>1. call[c].at = epoch
      BY <2>2 DEF ApprovalInv, CallsAreCurrent, SyncAndAnswer
    <3>2. \A e \in Epochs : grants'[e] # grants[e] => e = call[c].at /\ HandsOut(c) /\ call[c].op = "arm"
      BY <2>1, <2>2 DEF SyncAndAnswer, Answered
    <3>3. HandsOut(c) /\ call[c].op = "arm" => authority
      BY DEF HandsOut
    <3> QED BY <2>1, <3>1, <3>2, <3>3
  <2>3. CASE UNCHANGED grants
    BY <2>1, <2>3
  <2> QED
    BY <2>2, <2>3 DEF Next, CallStep, Ask, Mutate, RenameRecord, WriteFails, SyncFails,
                      PolicySaved, ProcessRestarts, MachineRestarts, Tick
<1> QED BY <1>1, ApprovalCorrect, PTL DEF Spec, GrantFromCurrentAuthority
=============================================================================
