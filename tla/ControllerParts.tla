-------------------------- MODULE ControllerParts --------------------------
(***************************************************************************)
(* Parts of the controller that share no state: the four of a control      *)
(* session, each of which takes the others by their answers, and the       *)
(* authorizations of accounts.  part says which of them a behaviour is     *)
(* about; the others rest.  The authorizations are extended, the other     *)
(* parts are instances.                                                    *)
(***************************************************************************)
EXTENDS OAuthAuthorization, Sequences, FiniteSets

VARIABLE part

-----------------------------------------------------------------------------
(* ControlAdmissionExecutor: the messages of one attachment.               *)
CONSTANTS Messages, Principals, ClassOf, PrincipalOf, Reports, Cycle,
          MaxHeld, MaxPerPrincipal, MaxActive, Closes
VARIABLES queue, perPrincipal, order, turn, cursor, held, heldBy, active, work, pump, closed

Executor == INSTANCE ControlAdmissionExecutor WITH Works <- Messages, KeyOf <- Reports

-----------------------------------------------------------------------------
(* ControlProcessAdmission: the messages of all zones.                     *)
CONSTANTS Zones, ZoneMessages, ZoneOf, Safety, ZoneReports, Retained, Attachments, Epochs,
          MaxActiveSessions, MaxNonSafety
VARIABLES session, retired, zoneOrder, zoneTurn, nonSafety, tokens, zoneWork, zonePump

Process == INSTANCE ControlProcessAdmission WITH
  Works <- ZoneMessages, KeyOf <- ZoneReports, Generations <- Attachments,
  order <- zoneOrder, turn <- zoneTurn, work <- zoneWork, pump <- zonePump

-----------------------------------------------------------------------------
(* ControlSessionDispatcher: the commands that are delivered, and delivered *)
(* again.                                                                   *)
CONSTANTS Deliveries, Delivered, Mutations, SessionIds, Ttl, MaxCached, MaxTime
VARIABLES now, accepted, cache, delivery, run

Dispatcher == INSTANCE ControlSessionDispatcher WITH Commands <- Delivered, Sessions <- SessionIds

-----------------------------------------------------------------------------
(* DisposableControlClient: the attachments of the client and its commands. *)
CONSTANTS Generations, Commands, MaxAttempts, StableBeats
VARIABLE client

Client == INSTANCE DisposableControlClient

-----------------------------------------------------------------------------
(* What the parts need of their parameters: finitely many messages and     *)
(* commands at a time, each message of a known class or zone, numbers for  *)
(* the limits, a round of classes that serves each of them, reports that   *)
(* are not safety messages, and 0 for no attachment.                       *)

ASSUME ExecutorAssumption ==
  /\ IsFiniteSet(Messages) /\ ClassOf \in [Messages -> Executor!Classes]
  /\ \A w \in Messages : ClassOf[w] = "authority" => PrincipalOf[w] \in Principals
  /\ Cycle \in Seq(Executor!Classes)
  /\ \A c \in Executor!Classes : \E i \in 1 .. Len(Cycle) : Cycle[i] = c
  /\ MaxActive \in [Executor!Classes -> Nat]

ASSUME ProcessAssumption ==
  /\ IsFiniteSet(ZoneMessages) /\ ZoneOf \in [ZoneMessages -> Zones]
  /\ \A w \in ZoneMessages \cap Safety : ZoneReports[w] = "none"
  /\ 0 \notin Attachments /\ MaxActiveSessions \in Nat /\ MaxNonSafety \in Nat

ASSUME DispatcherAssumption ==
  /\ IsFiniteSet(Deliveries) /\ IsFiniteSet(Delivered)
  /\ Ttl \in Nat /\ MaxCached \in Nat /\ MaxTime \in Nat

ASSUME ClientAssumption ==
  0 \notin Generations /\ MaxAttempts \in Nat \ {0} /\ StableBeats \in Nat

-----------------------------------------------------------------------------
executor == <<queue, perPrincipal, order, turn, cursor, held, heldBy, active, work, pump, closed>>
process == <<session, retired, zoneOrder, zoneTurn, nonSafety, tokens, zoneWork, zonePump>>
dispatcher == <<now, accepted, cache, delivery, run>>

PartsInit ==
  /\ part \in {"executor", "process", "dispatcher", "client", "authorization"}
  /\ Executor!Init /\ Process!Init /\ Dispatcher!Init /\ Client!Init /\ Init

PartsNext ==
  /\ UNCHANGED part
  /\ \/ /\ part = "executor" /\ Executor!Next
        /\ UNCHANGED <<process, dispatcher, client, vars>>
     \/ /\ part = "process" /\ Process!Next
        /\ UNCHANGED <<executor, dispatcher, client, vars>>
     \/ /\ part = "dispatcher" /\ Dispatcher!Next
        /\ UNCHANGED <<executor, process, client, vars>>
     \/ /\ part = "client" /\ Client!Next
        /\ UNCHANGED <<executor, process, dispatcher, vars>>
     \/ /\ part = "authorization" /\ Next
        /\ UNCHANGED <<executor, process, dispatcher, client>>

PartsSpec == PartsInit /\ [][PartsNext]_<<part, executor, process, dispatcher, client, vars>>

\* The client's timers fire and its dials end, and its Gateway answers some time.
FairSpec == PartsSpec /\ (part = "client" => Client!Fairness /\ Client!GatewayAnswers)

-----------------------------------------------------------------------------
(* Properties                                                              *)

\* The accounts of the admission, of one attachment and of the whole process, are
\* exactly what waits or executes; the limits hold; a zone keeps its place as long
\* as its work lasts; and nothing that could be started waits without the pump.
AdmissionIsAccounted ==
  /\ part = "executor" => /\ Executor!TypeOK /\ Executor!AccountsAgree
                           /\ Executor!LimitsHold /\ Executor!NothingWaitsIdly
  /\ part = "process" => /\ Process!TypeOK /\ Process!AccountsAgree
                          /\ Process!PlacesFollowWork /\ Process!NothingWaitsIdly

\* What a caller was told is true for good: a result of an attachment's executor is
\* not replaced by a later one, and what the process said is closed, replaced or
\* cancelled before it was handed on never starts.
CallersAreToldOnce ==
  [][Executor!TellsOnce /\ Process!LeavesToldWork]_<<executor, process>>

\* The dispatcher executes a duplicate again only outside the window of results,
\* and hands mutations to the ledger only for the session that is accepted then.
DispatchesOnceInItsSession == [][Dispatcher!DispatchesOnce]_dispatcher

\* The client always dials or has an attachment, with one socket; its evidence of a
\* lost attachment is current; and no command waits on an attachment that is gone.
AttachmentIsSound ==
  /\ part = "dispatcher" => Dispatcher!TypeOK
  /\ part = "client" => /\ Client!TypeOK /\ Client!NeverIdle /\ Client!OneSocket
                         /\ Client!EvidenceFollowsAttachment /\ Client!NoCommandIsStranded

\* Every loss of an accepted attachment is reported to the owner of the leases.
LossIsReported == [][Client!ReportsLoss]_client

\* With a Gateway that answers, a lost attachment is replaced.
AttachmentIsReplaced == part = "client" => Client!LostAttachmentIsReplaced
=============================================================================
