----------------------- MODULE ControlProcessAdmission -----------------------
(***************************************************************************)
(* The admission of all zones' control messages in one controller process  *)
(* (gateway-control-process-admission-coordinator.ts over                  *)
(* createGatewayControlProcessAdmission): sessions of a zone replace each  *)
(* other while their work is still queued or executing, a zone keeps its   *)
(* place among the active ones until its last work is gone, and one        *)
(* account bounds the work of all of them that is not safety work.         *)
(*                                                                         *)
(* Abstractions.  A zone's scheduler is the one of                         *)
(* ControlAdmissionExecutor: here it takes any queued message of the zone  *)
(* and may refuse one.  The attachment's executor that work is handed to   *)
(* (ControlAdmissionExecutor again) answers each submission and cleans it  *)
(* up, in either order.  All frames have one size.  A submission that is   *)
(* refused, for want of a session or of room, changes nothing and is not   *)
(* an action.  The pump, a loop without an await, is taken step by step    *)
(* with nothing between its steps.                                         *)
(***************************************************************************)
EXTENDS RoundRobin, SequencesExt

CONSTANTS
  Zones, Works,
  ZoneOf,         \* the zone of each message
  Safety,         \* the safety messages
  KeyOf,          \* the coalescing key of a message, "none" for most
  Retained,       \* cancellable work: holds its admission until it is cleaned up
  Generations,    \* 1 .. n, the attachment generations of registrations
  Epochs,         \* Gateway epochs
  MaxActiveSessions, MaxNonSafety

VARIABLES
  session,    \* sessionsByZone: generation and epoch, or NoSession
  retired,    \* retiredSessionsByZone
  order,      \* zoneOrder, the registered zones
  turn,       \* zoneCursor, from 0
  nonSafety,  \* nonSafetyMessages
  tokens,     \* inFlightMessages
  work,       \* each message
  pump

vars == <<session, retired, order, turn, nonSafety, tokens, work, pump>>

NoSession == [generation |-> 0, epoch |-> "none"]
Sessions == [generation : Generations, epoch : Epochs]

\* at is where the message is: queued in its zone's scheduler, handed to the
\* executor of its attachment, or released; owner the session it came with, told
\* what its caller knows, due what the executor has still to say.
NoWork == [at |-> "out", owner |-> NoSession, told |-> "no", aborted |-> FALSE, due |-> {}]

Init ==
  /\ session = [z \in Zones |-> NoSession] /\ retired = [z \in Zones |-> {}]
  /\ order = << >> /\ turn = 0 /\ nonSafety = 0 /\ tokens = {}
  /\ work = [w \in Works |-> NoWork]
  /\ pump = "off"

Held == {"queued", "handed"}
Registered(z) == z \in ToSet(order)
IsCurrent(w) == work[w].owner = session[ZoneOf[w]]
Scheduled == IF pump = "off" THEN "scheduled" ELSE pump
Counted(ws) == Cardinality(ws \ Safety)

\* settleProcessWork, rejectProcessWork
Settled(r, what) == IF r.told = "no" THEN [r EXCEPT !.told = what] ELSE r

\* The work that a session still has.
WorkOf(z, s) == {w \in Works : ZoneOf[w] = z /\ work[w].owner = s /\ work[w].at \in Held}

-----------------------------------------------------------------------------
(* The end of work, of a session and of a zone                             *)

\* unregisterZone, with the cursor at t.
Unregistered(z, t) ==
  /\ order' = Kept(order, Zones \ {z})
  /\ turn' = Clamped(t, Len(order'))

\* Mutant: the work of earlier sessions does not keep the zone.
UnregistersEarly(z, rest, s) == s = NoSession

\* Whether nothing keeps zone z: no session and no earlier one with work.
MayUnregister(z, rest, s) == s = NoSession /\ rest = {}

\* complete and releaseWork, with the cursor at t: w leaves the accounts, its session the retired ones
\* when it was the last, and the zone its place when nothing else keeps it.
Release(w, t) ==
  LET z == ZoneOf[w]
      owner == work[w].owner
      rest == IF WorkOf(z, owner) \subseteq {w} THEN retired[z] \ {owner} ELSE retired[z]
      gone == MayUnregister(z, rest, session[z])
  IN  /\ retired' = [retired EXCEPT ![z] = rest]
      /\ IF gone THEN Unregistered(z, t) ELSE UNCHANGED order /\ turn' = t
      /\ LET lost == IF gone THEN {v \in tokens : ZoneOf[v] = z} ELSE {}
             dropped == IF gone THEN {v \in Works : ZoneOf[v] = z /\ work[v].at = "queued"} ELSE {}
         IN  /\ tokens' = tokens \ (lost \cup {w})
             /\ nonSafety' = nonSafety - Counted(lost \cup dropped \cup {w})

\* closeSession: the callers of the session's work are told at once.
Closed(z) ==
  LET mine == WorkOf(z, session[z])
  IN  /\ work' = [w \in Works |-> IF w \in mine
                    THEN [Settled(work[w], "closed") EXCEPT !.aborted = @ \/ w \in Retained]
                    ELSE work[w]]
      /\ retired' = [retired EXCEPT ![z] = IF mine = {} THEN @ ELSE @ \cup {session[z]}]

\* unregisterSession
Unregister(z) ==
  /\ session[z] # NoSession /\ pump # "running"
  /\ Closed(z)
  /\ session' = [session EXCEPT ![z] = NoSession]
  /\ IF MayUnregister(z, retired'[z], NoSession) THEN Unregistered(z, turn)
     ELSE UNCHANGED <<order, turn>>
  /\ UNCHANGED <<nonSafety, tokens, pump>>

\* A registration is an object of its own: none that work still refers to.
Fresh(z, s) == \A w \in Works : ZoneOf[w] = z => work[w].owner # s

\* registerSession for a zone without one.
Register(z, s) ==
  /\ session[z] = NoSession /\ pump # "running"
  /\ Fresh(z, s)
  /\ Registered(z) \/ Len(order) < MaxActiveSessions
  /\ session' = [session EXCEPT ![z] = s]
  /\ order' = IF Registered(z) THEN order ELSE Append(order, z)
  /\ UNCHANGED <<retired, turn, nonSafety, tokens, work, pump>>

\* registerSession with a later attachment of the same Gateway.
Supersede(z, s) ==
  /\ session[z] # NoSession /\ pump # "running"
  /\ Fresh(z, s)
  /\ s.epoch = session[z].epoch /\ s.generation > session[z].generation
  /\ Closed(z)
  /\ session' = [session EXCEPT ![z] = s]
  /\ IF MayUnregister(z, retired'[z], NoSession)
     THEN /\ order' = Append(Kept(order, Zones \ {z}), z)
          /\ turn' = Clamped(turn, Len(order) - 1)
     ELSE UNCHANGED <<order, turn>>
  /\ UNCHANGED <<nonSafety, tokens, pump>>

-----------------------------------------------------------------------------
(* submit and cancelOperation                                              *)

\* The queued message that w takes the place of; it may be of an earlier session.
Prior(w) == {v \in Works : /\ KeyOf[w] # "none" /\ KeyOf[v] = KeyOf[w]
                           /\ ZoneOf[v] = ZoneOf[w] /\ work[v].at = "queued"}

\* Mutant: the last place is given twice.
HasRoomTwice(w) == w \in Safety \/ Prior(w) # {} \/ nonSafety <= MaxNonSafety

HasRoom(w) == w \in Safety \/ Prior(w) # {} \/ nonSafety < MaxNonSafety

Submitted(w) == [NoWork EXCEPT !.at = "queued", !.owner = session[ZoneOf[w]]]

Admit(w) ==
  /\ work[w].at = "out" /\ pump # "running"
  /\ session[ZoneOf[w]] # NoSession /\ HasRoom(w) /\ Prior(w) = {}
  /\ work' = [work EXCEPT ![w] = Submitted(w)]
  /\ nonSafety' = nonSafety + Counted({w})
  /\ pump' = Scheduled
  /\ UNCHANGED <<session, retired, order, turn, tokens>>

\* The message replaced is released without its token: it never had one.
Replace(w) ==
  /\ work[w].at = "out" /\ pump # "running"
  /\ session[ZoneOf[w]] # NoSession
  /\ \E v \in Prior(w) :
       LET z == ZoneOf[v]
           owner == work[v].owner
       IN  /\ work' = [work EXCEPT ![w] = Submitted(w),
                                   ![v] = [Settled(@, "replaced") EXCEPT !.at = "released", !.owner = NoSession]]
           /\ retired' = [retired EXCEPT ![z] = IF WorkOf(z, owner) \subseteq {v} THEN @ \ {owner} ELSE @]
  /\ pump' = Scheduled
  /\ UNCHANGED <<session, order, turn, nonSafety, tokens>>

\* Work that was not handed on is told at once and left to the pump to release.
Cancel(w) ==
  /\ w \in Retained /\ work[w].at \in Held /\ IsCurrent(w) /\ pump # "running"
  /\ ~work[w].aborted /\ work[w].told = "no"
  /\ work' = [work EXCEPT ![w] = [(IF @.at = "queued" THEN Settled(@, "closed") ELSE @)
                                  EXCEPT !.aborted = TRUE]]
  /\ pump' = IF work[w].at = "queued" THEN Scheduled ELSE pump
  /\ UNCHANGED <<session, retired, order, turn, nonSafety, tokens>>

-----------------------------------------------------------------------------
(* The pump, and what the executors of the attachments answer              *)

PumpStarts ==
  /\ pump = "scheduled" /\ pump' = "running"
  /\ UNCHANGED <<session, retired, order, turn, nonSafety, tokens, work>>

Queued(z) == {w \in Works : ZoneOf[w] = z /\ work[w].at = "queued"}
WithWork == {z \in Zones : Queued(z) # {}}
HasQueued == \E i \in 1 .. Len(order) : order[i] \in WithWork

\* dequeue
Takes(w) == HasQueued /\ w \in Queued(Served(order, turn, WithWork))
AfterTurn == NextTurn(order, turn, WithWork)

\* Mutant: work is handed on although its caller was told that it was cancelled.
StartsCurrent(w) == IsCurrent(w)

\* executeProcessWork: neither settled nor of a session that is not current.
MayStart(w) == work[w].told = "no" /\ IsCurrent(w)

\* Work is handed to the executor of its attachment; a submission that throws
\* ends at once.
HandOn(w) ==
  /\ pump = "running" /\ Takes(w) /\ MayStart(w)
  /\ turn' = AfterTurn
  /\ work' = [work EXCEPT ![w].at = "handed", ![w].due = {"completion", "cleanup"}]
  /\ tokens' = tokens \cup {w}
  /\ UNCHANGED <<session, retired, order, nonSafety, pump>>

HandOnThrows(w) ==
  /\ pump = "running" /\ Takes(w) /\ MayStart(w)
  /\ work' = [work EXCEPT ![w] = [Settled(@, "answered") EXCEPT !.at = "released", !.owner = NoSession]]
  /\ Release(w, AfterTurn)
  /\ UNCHANGED <<session, pump>>

\* Work that was settled, or whose session is gone, is released unstarted; the
\* cursor moves on before the zone may leave the order.
Drop(w) ==
  /\ pump = "running" /\ Takes(w) /\ ~MayStart(w)
  /\ work' = [work EXCEPT ![w].at = "released", ![w].owner = NoSession]
  /\ Release(w, AfterTurn)
  /\ UNCHANGED <<session, pump>>

PumpEnds ==
  /\ pump = "running" /\ ~HasQueued
  /\ pump' = "off"
  /\ UNCHANGED <<session, retired, order, turn, nonSafety, tokens, work>>

\* The executor's completion, or its clean-up; the one that counts for this work
\* releases it.
Answered(w, what) ==
  /\ work[w].at \in {"handed", "released"} /\ what \in work[w].due /\ pump # "running"
  /\ LET releases == (what = "cleanup") <=> (w \in Retained)
         said == IF what = "completion" THEN Settled(work[w], "answered") ELSE work[w]
     IN  /\ work' = [work EXCEPT ![w] = [said EXCEPT !.due = @ \ {what},
                                            !.at = IF releases THEN "released" ELSE @,
                                            !.owner = IF releases THEN NoSession ELSE @]]
         /\ IF releases THEN Release(w, turn) /\ pump' = Scheduled
            ELSE UNCHANGED <<retired, order, turn, nonSafety, tokens, pump>>
  /\ UNCHANGED session

\* The caller has its answer; the message's name is free for another one.
Forget(w) ==
  /\ work[w].at = "released" /\ work[w].due = {} /\ pump # "running"
  /\ work' = [work EXCEPT ![w] = NoWork]
  /\ UNCHANGED <<session, retired, order, turn, nonSafety, tokens, pump>>

Answers(w) == \E what \in {"completion", "cleanup"} : Answered(w, what)

Next ==
  \/ \E z \in Zones : Unregister(z) \/ \E s \in Sessions : Register(z, s) \/ Supersede(z, s)
  \/ \E w \in Works : Admit(w) \/ Replace(w) \/ Cancel(w) \/ Forget(w)
  \/ \E w \in Works : HandOn(w) \/ HandOnThrows(w) \/ Drop(w) \/ Answers(w)
  \/ PumpStarts \/ PumpEnds

Spec == Init /\ [][Next]_vars

-----------------------------------------------------------------------------
(* Properties                                                              *)

\* The sessions, the tokens and the progress of each message have their types.
TypeOK ==
  /\ session \in [Zones -> Sessions \cup {NoSession}] /\ retired \in [Zones -> SUBSET Sessions]
  /\ order \in Seq(Zones) /\ IsInjective(order) /\ Len(order) <= MaxActiveSessions
  /\ turn \in Nat /\ nonSafety \in Nat /\ tokens \subseteq Works
  /\ work \in [Works -> [at : {"out", "queued", "handed", "released"},
                         owner : Sessions \cup {NoSession},
                         told : {"no", "answered", "closed", "replaced"},
                         aborted : BOOLEAN, due : SUBSET {"completion", "cleanup"}]]
  /\ pump \in {"off", "scheduled", "running"}

Outstanding == {w \in Works : work[w].at \in Held}

\* The account of the process is what all zones have queued or executing, never
\* above its limit; the retired sessions are those with work left, and the work
\* that was handed on still has the token it will be completed with.
AccountsAgree ==
  /\ nonSafety = Counted(Outstanding) /\ nonSafety <= MaxNonSafety
  /\ \A z \in Zones : retired[z] = {work[w].owner : w \in {v \in Outstanding : ZoneOf[v] = z}} \ {session[z]}
  /\ tokens = {w \in Works : work[w].at = "handed"}

\* A zone holds one of the active places exactly as long as it has a session or
\* work left of an earlier one: work never outlives the scheduler it is completed
\* in, and a place is not kept by a zone that is gone.
PlacesFollowWork ==
  \A z \in Zones : Registered(z) <=> session[z] # NoSession \/ \E w \in Outstanding : ZoneOf[w] = z

\* Work whose caller was told that it was closed, replaced or cancelled before it
\* was handed on is never handed on later.
LeavesToldWork ==
  \A w \in Works : work[w].at = "queued" /\ work[w].told # "no" => work'[w].at # "handed"

\* The pump is off only when no zone has anything queued: what is queued is handed
\* on or dropped, be its session replaced or gone meanwhile.
NothingWaitsIdly == pump = "off" => ~HasQueued
=============================================================================
