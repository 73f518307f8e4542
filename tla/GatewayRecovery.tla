--------------------------- MODULE GatewayRecovery --------------------------
(***************************************************************************)
(* Automatic recovery of the Gateway of one zone (controller/health/): the *)
(* health monitor ticks, attributes what it sees to the current Gateway,   *)
(* and asks the recovery tracker whether to replace it.  A terminal        *)
(* attachment loss asks the tracker beside the ticks.                      *)
(*                                                                         *)
(* Abstractions.  Time is counted in units that stand for the monitor's    *)
(* interval, as ages that stop where no comparison tells them apart; the   *)
(* clock does not go back.                                                 *)
(* Failure counters stop at the value they are compared with.  A Gateway   *)
(* is one of Sources, reused once nothing remembers it.  One channel       *)
(* provider, whose report is as old as the tick that reads it.  A zone     *)
(* without a running Gateway may be cold-started.  The recovery runner is  *)
(* taken by its result; what it does to the Gateway is the subject of      *)
(* module ZoneRuntime.  The reconnection of a dead control session beside  *)
(* a healthy service only makes a control event possible.                  *)
(***************************************************************************)
EXTENDS Naturals

CONSTANTS
  Sources,       \* Gateway source keys
  Threshold,     \* consecutiveFailureThreshold
  MaxFailed,     \* maxConsecutiveFailedRecoveries
  Cooldown,      \* cooldownMs
  Reset,         \* failedRecoveryResetMs
  Deadline,      \* restartTimeoutMs
  Grace,         \* controlSessionDeathGraceMs
  StaleAfter,    \* staleAfterMs
  Stability,     \* GATEWAY_VM_RECOVERY_STABILITY_OBSERVATIONS
  ChannelPolicy, \* restartGatewayOnRecoverable
  Terminals,     \* terminal attachment losses are reported
  Stops          \* the monitor may be stopped

ASSUME RecoveryAssumption ==
  /\ 0 \notin Sources
  /\ {Threshold, MaxFailed, Deadline, Stability} \subseteq Nat \ {0}
  /\ {Cooldown, Reset, Grace, StaleAfter} \subseteq Nat

VARIABLES
  source,    \* the running Gateway, 0 when none runs
  event,     \* the latest control-session event of the health event store
  frontier,  \* controlSessionSourceFrontierByZoneId: the source the monitor knows
  quarantined, \* the latest event is the quarantined one
  grace,     \* controlSessionDeathGraceByZoneId
  t,         \* the recovery tracker
  caller,    \* the tick and the terminal recovery: what each awaits
  channel,   \* the latest event of the channel provider
  told,      \* history: the suspensions in force that were recorded as events
  stop       \* the progress of stop()

recoveryVars == <<source, event, frontier, quarantined, grace, t, caller, channel, told, stop>>

Classes == {"restart", "cold-start"}
Callers == {"tick", "terminal"}

NoStabilization == [on |-> FALSE, class |-> "restart", bound |-> 0, ctl |-> 0, svc |-> 0, age |-> 0]
IdleCaller == [stage |-> "idle", class |-> "restart", key |-> 0, channel |-> FALSE]

\* Where the age of an attempt stops: nothing tells it from a greater one.
Oldest == IF Cooldown < Reset THEN Reset ELSE Cooldown

RecoveryInit ==
  /\ source \in Sources
  /\ event = [src |-> 0, ok |-> TRUE, age |-> 0, early |-> TRUE]
  /\ frontier = 0 /\ quarantined = FALSE
  /\ grace = [down |-> FALSE, age |-> 0]
  /\ t = [ctl |-> 0, due |-> FALSE, dueAge |-> 0, key |-> 0, svc |-> 0, svcAge |-> 0,
          channel |-> 0, inFlight |-> FALSE, stab |-> NoStabilization,
          budget |-> [c \in Classes |-> [failed |-> 0, age |-> Oldest, escalated |-> FALSE]]]
  /\ caller = [w \in Callers |-> IdleCaller]
  /\ channel = [ok |-> TRUE, handled |-> FALSE]
  /\ told = {}
  /\ stop = "no"

CapAt(n, max) == IF n < max THEN n ELSE max

-----------------------------------------------------------------------------
(* The recovery tracker (gateway-vm-recovery-policy.ts).  A decision is    *)
(* the tracker after it, and what it says.                                 *)

Says(s, what) == [t |-> s, says |-> what]

\* A suspension that has lasted is lifted.
Lifted(b) ==
  IF b.failed >= MaxFailed /\ b.age >= Reset
  THEN [b EXCEPT !.failed = 0, !.escalated = FALSE] ELSE b

\* Mutant: a recovery in flight does not keep another from starting.
DecideOverlapping(s, class, failures) ==
  LET b == Lifted(s.budget[class]) IN
  CASE s.stab.on \/ failures < Threshold \/ s.budget[class].age < Cooldown -> Says(s, "none")
    [] b.failed >= MaxFailed -> Says([s EXCEPT !.budget[class] = [b EXCEPT !.escalated = TRUE]],
                                     IF b.escalated THEN "suspended" ELSE "escalate")
    [] OTHER -> Says([s EXCEPT !.budget[class] = b], "restart")

\* decideRecovery
Decide(s, class, failures) ==
  LET b == Lifted(s.budget[class]) IN
  CASE \/ s.inFlight \/ s.stab.on \/ failures < Threshold
       \/ s.budget[class].age < Cooldown -> Says(s, "none")
    [] ~s.inFlight /\ ~s.stab.on /\ failures >= Threshold /\ s.budget[class].age >= Cooldown
       /\ b.failed >= MaxFailed ->
         Says([s EXCEPT !.budget[class] = [b EXCEPT !.escalated = TRUE]],
              IF b.escalated THEN "suspended" ELSE "escalate")
    [] OTHER -> Says([s EXCEPT !.budget[class] = b], "restart")

\* decideCorroboratedGatewayRecovery: a Gateway that runs is replaced only on
\* fresh evidence from the control session and from the service.
Corroborated(s, class) ==
  IF class = "cold-start" THEN Decide(s, class, s.svc)
  ELSE IF /\ s.key # 0
          /\ s.due /\ s.dueAge <= Deadline
          /\ s.svc >= Threshold /\ s.svcAge <= Deadline
       THEN Decide(s, class, Threshold)
       ELSE Says(s, "none")

\* Mutant: a session that is back leaves the recovery due.
StillDue(s) == [s EXCEPT !.ctl = 0]

\* The evidence of the control session is dropped.
ControlForgotten(s) == [s EXCEPT !.ctl = 0, !.due = FALSE, !.dueAge = 0]

\* recordGatewayRecoverySource
Sourced(s, k) ==
  LET fresh == IF s.key \notin {0, k} THEN ControlForgotten(s) ELSE s
  IN  [fresh EXCEPT !.key = k, !.stab.bound = IF s.stab.on /\ @ = 0 THEN k ELSE @]

\* maybeFinishGatewayRecoveryStabilization
Stabilized(s) ==
  IF /\ s.stab.bound # 0 /\ s.stab.ctl >= Stability /\ s.stab.svc >= Stability
     /\ s.stab.age >= Deadline
  THEN [s EXCEPT !.budget[s.stab.class] = [failed |-> 0, age |-> 0, escalated |-> FALSE],
                 !.stab = NoStabilization]
  ELSE s

CountsForStability(s) == s.stab.on /\ s.stab.bound = s.key

\* recordGatewayControlSessionObservation of the Gateway k.
ControlObserved(s, class, ok, graceDue, k) ==
  IF ok
  THEN LET s1 == Sourced(ControlForgotten(s), k) IN
       Says(IF CountsForStability(s1)
            THEN Stabilized([s1 EXCEPT !.stab.ctl = CapAt(@ + 1, Stability)]) ELSE s1, "none")
  ELSE LET s1 == Sourced([s EXCEPT !.stab.ctl = 0], k)
           s2 == [s1 EXCEPT !.ctl = CapAt(@ + 1, Threshold), !.due = graceDue, !.dueAge = 0]
       IN  IF graceDue THEN Corroborated(s2, class) ELSE Says(s2, "none")

\* recordGatewayServiceProbe
ServiceObserved(s, class, ok, k) ==
  IF ok
  THEN LET s0 == [s EXCEPT !.svc = 0, !.svcAge = 0]
           s1 == IF k # 0 THEN Sourced(s0, k) ELSE s0
       IN  Says(IF CountsForStability(s1)
                THEN Stabilized([s1 EXCEPT !.stab.svc = CapAt(@ + 1, Stability)]) ELSE s1, "none")
  ELSE Corroborated([s EXCEPT !.stab.svc = 0, !.svc = CapAt(@ + 1, Threshold), !.svcAge = 0], class)

\* recordAgentChannelProviderObservation
ChannelObserved(s, class, ok) ==
  IF ok THEN Says([s EXCEPT !.channel = 0], "none")
  ELSE LET s1 == [s EXCEPT !.channel = CapAt(@ + 1, Threshold)] IN Decide(s1, class, s1.channel)

\* markRecoveryFinished
RecoveryFinished(s, class, result) ==
  LET s1 == [s EXCEPT !.inFlight = FALSE] IN
  CASE result = "ok" -> [s1 EXCEPT !.stab = [NoStabilization EXCEPT !.on = TRUE, !.class = class]]
    [] result = "failed" -> [s1 EXCEPT !.budget[class].failed = CapAt(@ + 1, MaxFailed),
                                       !.budget[class].age = 0]
    [] OTHER -> s1

-----------------------------------------------------------------------------
(* The health monitor (gateway-service-health-monitor.ts).                 *)

ClassNow == IF source = 0 THEN "cold-start" ELSE "restart"

\* Mutant: the last event of the old Gateway is not quarantined.
NoQuarantine == "current"

\* controlSessionEventBelongsToCurrentSource
Attribution ==
  CASE source = 0 -> "unattributed"
    [] source # 0 /\ frontier \notin {0, source} -> "source-changed"
    [] source # 0 /\ frontier \in {0, source} /\ quarantined -> "unattributed"
    [] OTHER -> "current"

EventOk == event.ok /\ event.age <= StaleAfter

\* The death grace starts with the first observation of a dead session.
GraceAfter == IF EventOk THEN [down |-> FALSE, age |-> 0]
              ELSE IF grace.down THEN grace ELSE [down |-> TRUE, age |-> 0]
GraceDue == GraceAfter.down /\ GraceAfter.age >= Grace

\* Mutant: a stopped monitor still starts the recovery it has decided.
MayStartAlways == TRUE

MayStart == stop = "no"

\* executeGatewayRecoveryDecision: the request names the source, or nothing when
\* a channel provider is the reason.
Execute(w, d, class, key, fromChannel) ==
  LET starts == d.says = "restart" /\ MayStart IN
  /\ t' = [d.t EXCEPT !.inFlight = @ \/ starts]
  /\ told' = {c \in told : d.t.budget[c].escalated}
             \cup {c \in {class} : d.says = "escalate"}
  /\ caller' = [caller EXCEPT ![w] = IF starts
                  THEN [stage |-> "recovering", class |-> class, key |-> key,
                        channel |-> fromChannel]
                  ELSE IdleCaller]

\* Mutant: what the channel provider decides hides the escalation.
LastSays(first, last) == last

\* What a tick with a healthy probe carries out: the escalation of its first
\* look, and what the channel provider calls for.
TickSays(first, last) == IF first.says = "escalate" THEN [last EXCEPT !.says = "escalate"] ELSE last

TickStarts ==
  /\ caller["tick"].stage = "idle" /\ stop = "no"
  /\ caller' = [caller EXCEPT !["tick"].stage = "probing"]
  /\ UNCHANGED <<source, event, frontier, quarantined, grace, t, channel, told, stop>>

\* The probe has answered: the tick up to the recovery it starts, if any.  An
\* answer that is healthy is followed by a second look at the control session
\* and by the channel provider.
Probed(ok) ==
  LET seen == Attribution
      observed == seen = "current" /\ event.src # 0
      t0 == IF seen = "source-changed" THEN Sourced(t, source) ELSE t
      control(s) == IF observed THEN ControlObserved(s, ClassNow, EventOk, GraceDue, source)
                    ELSE Says(s, "none")
      d1 == control(t0)
      d2 == IF d1.says \in {"escalate", "suspended"} THEN d1
            ELSE ServiceObserved(d1.t, ClassNow, ok, source)
      d3 == control(d2.t)
      d4 == IF ChannelPolicy /\ ~channel.handled
            THEN ChannelObserved(d3.t, ClassNow, channel.ok) ELSE Says(d3.t, "none")
  IN  /\ caller["tick"].stage = "probing"
      /\ ok => source # 0
      /\ IF source = 0 THEN UNCHANGED <<frontier, quarantined>>
         ELSE /\ frontier' = source
              /\ quarantined' = IF seen = "source-changed" THEN event.src # 0 ELSE quarantined
      /\ grace' = IF seen = "source-changed" THEN [down |-> FALSE, age |-> 0]
                  ELSE IF observed THEN GraceAfter ELSE grace
      /\ IF ok THEN Execute("tick", TickSays(d2, d4), ClassNow, 0, TRUE)
         ELSE Execute("tick", d2, ClassNow, source, FALSE)
      /\ UNCHANGED <<source, event, channel, stop>>

\* recoverFromTerminalAttachmentLoss of the Gateway that runs.
TerminalLoss ==
  /\ Terminals /\ source # 0 /\ caller["terminal"].stage = "idle"
  /\ Execute("terminal", Decide(Sourced(t, source), "restart", Threshold), "restart", source, FALSE)
  /\ UNCHANGED <<source, event, frontier, quarantined, grace, channel, stop>>

\* The Gateways nothing remembers.
NewSources == Sources \ {source, event.src, frontier, t.key, t.stab.bound,
                         caller["tick"].key, caller["terminal"].key}

\* The recovery runner refuses a request that does not name the Gateway that
\* runs; a request it carries out replaces the Gateway, or fails.
RefusesRequest(w) == source # 0 /\ caller[w].key # source

\* runRecovery returns: ok, failed (its deadline included), or, for a request
\* the runner does not carry out, neither.
RecoveryEnds(w, result) ==
  /\ caller[w].stage = "recovering"
  /\ result = "refused" \/ (~RefusesRequest(w) /\ result \in {"ok", "failed"})
  /\ source' \in CASE result = "ok" -> NewSources
                   [] result = "failed" -> {0, source}
                   [] OTHER -> {source}
  /\ t' = RecoveryFinished(t, caller[w].class, result)
  /\ channel' = IF caller[w].channel /\ result = "ok" THEN [channel EXCEPT !.handled = TRUE]
                ELSE channel
  /\ caller' = [caller EXCEPT ![w] = IdleCaller]
  /\ UNCHANGED <<event, frontier, quarantined, grace, told, stop>>

\* stop(): no more ticks; it waits for the tick and the recovery under way.
StopMonitor ==
  /\ Stops /\ stop = "no"
  /\ stop' = "waiting"
  /\ UNCHANGED <<source, event, frontier, quarantined, grace, t, caller, channel, told>>

StopReturns ==
  /\ stop = "waiting" /\ \A w \in Callers : caller[w].stage = "idle"
  /\ stop' = "returned"
  /\ UNCHANGED <<source, event, frontier, quarantined, grace, t, caller, channel, told>>

-----------------------------------------------------------------------------
(* The Gateway and time.                                                   *)

\* The zone runtime records an event of the current Gateway only.
ControlEvent(ok) ==
  /\ source # 0
  /\ event' = [src |-> source, ok |-> ok, age |-> 0, early |-> frontier = 0]
  /\ quarantined' = FALSE
  /\ UNCHANGED <<source, frontier, grace, t, caller, channel, told, stop>>

ChannelEvent(ok) ==
  /\ ChannelPolicy /\ source # 0
  /\ channel' = [ok |-> ok, handled |-> FALSE]
  /\ UNCHANGED <<source, event, frontier, quarantined, grace, t, caller, told, stop>>

\* The Gateway dies, or an operator replaces it.
GatewayChanges ==
  /\ source' \in {0} \cup NewSources /\ source' # source
  /\ UNCHANGED <<event, frontier, quarantined, grace, t, caller, channel, told, stop>>

Aged(n, max) == CapAt(n + 1, max)

Elapse ==
  /\ event' = IF event.src = 0 THEN event ELSE [event EXCEPT !.age = Aged(@, StaleAfter + 1)]
  /\ grace' = IF grace.down THEN [grace EXCEPT !.age = Aged(@, Grace)] ELSE grace
  /\ t' = [t EXCEPT !.dueAge = IF t.due THEN Aged(@, Deadline + 1) ELSE 0,
                    !.svcAge = IF t.svc >= Threshold THEN Aged(@, Deadline + 1) ELSE 0,
                    !.stab.age = IF t.stab.on THEN Aged(@, Deadline) ELSE 0,
                    !.budget = [c \in Classes |-> [t.budget[c] EXCEPT !.age = Aged(@, Oldest)]]]
  /\ UNCHANGED <<source, frontier, quarantined, caller, channel, told, stop>>

RecoveryNext ==
  \/ TickStarts \/ (\E ok \in BOOLEAN : Probed(ok)) \/ TerminalLoss
  \/ \E w \in Callers, result \in {"ok", "failed", "refused"} : RecoveryEnds(w, result)
  \/ StopMonitor \/ StopReturns
  \/ (\E ok \in BOOLEAN : ControlEvent(ok)) \/ (\E ok \in BOOLEAN : ChannelEvent(ok))
  \/ GatewayChanges \/ Elapse

RecoverySpec == RecoveryInit /\ [][RecoveryNext]_recoveryVars

\* The timer ticks, probes and recoveries end, time passes.
Fairness ==
  /\ WF_recoveryVars(TickStarts) /\ WF_recoveryVars(\E ok \in BOOLEAN : Probed(ok)) /\ WF_recoveryVars(Elapse)
  /\ \A w \in Callers :
       WF_recoveryVars(\E result \in {"ok", "failed", "refused"} : RecoveryEnds(w, result))
  /\ WF_recoveryVars(StopReturns)

LiveSpec == RecoverySpec /\ Fairness

-----------------------------------------------------------------------------
(* Properties.                                                             *)

Keys == Sources \cup {0}

\* The tracker, the monitor and what they remember have their types; the ages and
\* counters stay within the values the policy compares them with.
RecoveryTypeOK ==
  /\ source \in Keys /\ frontier \in Keys
  /\ quarantined \in BOOLEAN /\ told \subseteq Classes
  /\ event \in [src : Keys, ok : BOOLEAN, age : 0 .. StaleAfter + 1, early : BOOLEAN]
  /\ grace \in [down : BOOLEAN, age : 0 .. Grace]
  /\ t \in [ctl : 0 .. Threshold, due : BOOLEAN, dueAge : 0 .. Deadline + 1, key : Keys,
            svc : 0 .. Threshold, svcAge : 0 .. Deadline + 1, channel : 0 .. Threshold, inFlight : BOOLEAN,
            stab : [on : BOOLEAN, class : Classes, bound : Keys, ctl : 0 .. Stability,
                    svc : 0 .. Stability, age : 0 .. Deadline],
            budget : [Classes -> [failed : 0 .. MaxFailed, age : 0 .. Oldest, escalated : BOOLEAN]]]
  /\ caller \in [Callers -> [stage : {"idle", "probing", "recovering"}, class : Classes,
                             key : Keys, channel : BOOLEAN]]
  /\ channel \in [ok : BOOLEAN, handled : BOOLEAN]
  /\ stop \in {"no", "waiting", "returned"}

\* A zone has one recovery at a time, whoever asks for it: a tick that decides
\* while a terminal loss is being recovered, or the other way round, starts none.
NoOverlappingRecoveries ==
  \A v, w \in Callers : caller[v].stage = "recovering" /\ caller[w].stage = "recovering" => v = w

\* A Gateway that was replaced leaves no evidence against its successor: what
\* counts as a failure of the control session was reported by the Gateway the
\* tracker knows.  (A report older than the monitor's first look is attributed
\* to the Gateway that runs then.)
EvidenceIsOfThisGateway ==
  [][t'.ctl > t.ctl \/ (~t.due /\ t'.due) => event.src = t'.key \/ event.early]_recoveryVars

Starts(w) == caller[w].stage # "recovering" /\ caller'[w].stage = "recovering"

\* A failing service probe does not replace a Gateway whose control session is
\* alive: a tick restarts a running Gateway only when its last report is bad or
\* old.
LiveSessionKeepsTheGateway ==
  [][Starts("tick") /\ caller'["tick"].class = "restart" /\ ~caller'["tick"].channel
       => ~EventOk]_recoveryVars

\* Every suspension is reported to the operator: a budget is marked escalated by
\* the step that records the event, whichever of a tick's looks found it.
EscalationsAreReported == told = {c \in Classes : t.budget[c].escalated}

\* Once stop() has returned, no recovery runs or starts.
StopLeavesNothingInFlight ==
  stop = "returned" => \A w \in Callers : caller[w].stage = "idle"

\* The recoveries of a zone are accounted for: one at a time, every suspension
\* reported, and none left when the monitor is stopped.
RecoveriesAreAccounted ==
  RecoveryTypeOK /\ NoOverlappingRecoveries /\ EscalationsAreReported /\ StopLeavesNothingInFlight

\* docs/subsystems/controller.md: a stopped Gateway is cold-started.  While no
\* Gateway runs, a recovery is tried or the operator is told.
DeadGatewayIsRecovered ==
  source = 0 ~> \/ source # 0
                \/ \E w \in Callers : caller[w].stage = "recovering"
                \/ t.budget["cold-start"].escalated
=============================================================================
