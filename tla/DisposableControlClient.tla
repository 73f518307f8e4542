----------------------- MODULE DisposableControlClient -----------------------
(***************************************************************************)
(* The controller's end of the control session with one Gateway            *)
(* (gateway-disposable-control-session-client.ts): one attachment at a     *)
(* time, dialled again whenever it is lost, within a budget until the      *)
(* first one was accepted and without end afterwards; the commands sent    *)
(* through it; and the evidence of a lost attachment that the health       *)
(* monitor (GatewayRecovery) decides on.                                   *)
(*                                                                         *)
(* Abstractions.  Attachment generations are identities and are used again *)
(* when nothing refers to them.  What makes a client fence an accepted     *)
(* attachment (a disconnect, a frame out of sequence, a message that does  *)
(* not belong to it, a failed answer) is one action.  The deadline of the  *)
(* first connection and the time an attachment must be stable are flags    *)
(* that become true.  Frames and their admission are those of              *)
(* ControlAdmissionExecutor.                                               *)
(***************************************************************************)
EXTENDS Integers, FiniteSets

CONSTANTS
  Generations,   \* attachment generations
  Commands,
  MaxAttempts,   \* GATEWAY_CONTROL_RECONNECT_MAX_ATTEMPTS
  StableBeats,   \* GATEWAY_CONTROL_RECONNECT_STABILITY_HEARTBEATS
  Closes         \* the client may be closed from outside

VARIABLE client

\* cur is the generation of the current attempt, 0 for none, and phase how far it
\* is; open has the sockets that are not disconnected, hellos the generations whose
\* hello is unanswered, headers the acquisition that a dialling attempt awaits;
\* gap is reconnectGapStartedAtMs, had hasAcceptedSession, beats the heartbeats of
\* the attachment that is becoming stable, -1 for none; window the reconnect
\* evidence, fresh that it began with the latest loss; reported the gaps reported of
\* each generation.  A command is queued in the process, handed to the attachment via
\* (0 when it is gone), sent, and answered: result, error, or nothing.
Init ==
  client = [cur |-> 0, phase |-> "none", open |-> {}, hellos |-> {},
            headers |-> "asked", acquired |-> FALSE, timer |-> FALSE, attempts |-> 1,
            gap |-> TRUE, late |-> FALSE, had |-> FALSE, closed |-> FALSE, ready |-> "no",
            beats |-> -1, steady |-> FALSE, window |-> "none", fresh |-> FALSE,
            reported |-> [g \in Generations |-> 0],
            command |-> [m \in Commands |-> [at |-> "idle", via |-> 0]]]

-----------------------------------------------------------------------------
(* The client's own steps, as functions of its state                       *)

\* recordReconnectEvidence: an event opens the window, a terminal one closes it.
Evidence(c, terminal) ==
  IF ~c.had \/ c.window = "none" THEN c
  ELSE [c EXCEPT !.window = IF terminal THEN "closed" ELSE "open"]

\* Mutant: the commands that wait for a result are left waiting.
LeavesWaiting(c, g) ==
  [c EXCEPT !.cur = IF @ = g THEN 0 ELSE @, !.phase = IF c.cur = g THEN "none" ELSE @,
            !.open = @ \ {g}]

\* destroyAttempt: the socket is disconnected, the executors of the attachment
\* answer its commands, and the results that are waited for are rejected.  A command
\* that waits for its turn in the process has lost its attachment and goes on waiting.
Destroyed(c, g) ==
  [c EXCEPT !.cur = IF @ = g THEN 0 ELSE @, !.phase = IF c.cur = g THEN "none" ELSE @,
            !.open = @ \ {g},
            !.command = [m \in Commands |->
              CASE @[m].at \in {"handed", "sent"} /\ @[m].via = g -> [at |-> "nothing", via |-> 0]
                [] @[m].at = "sent" /\ @[m].via # g -> [at |-> "error", via |-> 0]
                [] @[m].at = "queued" /\ @[m].via = g -> [at |-> "queued", via |-> 0]
                [] OTHER -> @[m]]]

\* unregisterSession: the process answers the commands that wait for their turn.
Unregistered(c) ==
  [c EXCEPT !.command = [m \in Commands |->
     IF @[m].at = "queued" THEN [at |-> "nothing", via |-> 0] ELSE @[m]]]

\* closeClient
Closed(c) ==
  IF c.closed THEN c
  ELSE [Unregistered(IF c.cur = 0 THEN c ELSE Destroyed(c, c.cur)) EXCEPT
          !.closed = TRUE, !.headers = IF @ = "asked" THEN "abandoned" ELSE @,
          !.ready = IF @ = "no" THEN "rejected" ELSE @, !.timer = FALSE,
          !.window = IF @ = "open" THEN "closed" ELSE @]

\* reconnectExhaustionReason, reconnectBudgetAvailable
Exhausted(c) == ~c.closed /\ ~c.had /\ c.gap /\ (c.attempts >= MaxAttempts \/ c.late)
HasBudget(c) == ~c.closed /\ c.gap /\ ~Exhausted(c)

\* scheduleReconnect, with exhaustInitialBudget
Scheduled(c) ==
  IF c.timer \/ c.cur # 0 \/ ~HasBudget(c)
  THEN IF Exhausted(c) THEN Closed(c) ELSE c
  ELSE Evidence([c EXCEPT !.timer = TRUE], FALSE)

\* A window of its own for the loss of an accepted attachment.
Opened(c) == [c EXCEPT !.window = "open", !.fresh = TRUE]

\* Mutant: the loss of an attachment that was not stable yet is not reported.
FencedQuietly(c, g) ==
  IF c.cur # g THEN c
  ELSE LET was == c.phase = "accepted"
           d == [Destroyed(c, g) EXCEPT !.beats = -1, !.gap = TRUE,
                                        !.reported[g] = IF was /\ ~c.gap THEN @ + 1 ELSE @]
       IN  Scheduled(IF was THEN Opened(d) ELSE d)

\* Mutant: a loss while the attachment was becoming stable belongs to the old window.
FencedInOldWindow(c, g) ==
  IF c.cur # g THEN c
  ELSE LET was == c.phase = "accepted"
           d == [Destroyed(c, g) EXCEPT !.beats = -1, !.reported[g] = IF was THEN @ + 1 ELSE @]
       IN  Scheduled([(IF was /\ ~d.gap THEN Opened(d) ELSE d) EXCEPT !.gap = TRUE])

\* Mutant: the owner of the leases is told twice.
FencedTwice(c, g) ==
  IF c.cur # g THEN c
  ELSE LET was == c.phase = "accepted"
           d == [Destroyed(c, g) EXCEPT !.beats = -1, !.gap = TRUE,
                                        !.reported[g] = IF was THEN @ + 2 ELSE @]
       IN  Scheduled(IF was THEN Opened(d) ELSE d)

\* fenceAttempt: the loss of an accepted attachment has a window of its own, be it
\* that the last window was closed or that no gap was under way.
Fenced(c, g) ==
  IF c.cur # g THEN c
  ELSE LET was == c.phase = "accepted"
           d == [Destroyed(c, g) EXCEPT !.beats = -1, !.gap = TRUE,
                                        !.reported[g] = IF was THEN @ + 1 ELSE @]
       IN  Scheduled(IF was /\ (c.window = "closed" \/ ~c.gap) THEN Opened(d) ELSE d)

\* resetReconnectRecoveryEpisode
Reset(c) == [c EXCEPT !.attempts = 0, !.gap = FALSE, !.beats = -1]

\* startAttempt, up to the await; attempts are counted up to the limit.
Started(c) ==
  LET d == [c EXCEPT !.gap = TRUE] IN
  IF ~HasBudget(d) \/ d.cur # 0 \/ d.headers = "asked" THEN Scheduled(d)
  ELSE Evidence([d EXCEPT !.headers = "asked",
                          !.attempts = IF @ < MaxAttempts THEN @ + 1 ELSE @], FALSE)

\* Mutant: what happened during the await is not looked at.
DialsAlways(c) == TRUE

\* startAttempt, after the await.
StillWanted(c) == c.headers = "asked" /\ ~c.closed /\ c.cur = 0

\* A socket of a generation of its own.
Dialled(c, g) == [c EXCEPT !.headers = "none", !.acquired = TRUE, !.cur = g, !.phase = "dialing",
                           !.open = @ \cup {g}, !.reported[g] = 0]

-----------------------------------------------------------------------------
(* Dialling                                                                *)

TimerFires ==
  /\ client.timer
  /\ client' = Started([client EXCEPT !.timer = FALSE])

\* The headers arrive; those of a client closed meanwhile are of no use.
HeadersArrive(g) ==
  /\ client.headers # "none" /\ StillWanted(client)
  /\ g \in Generations \ (client.open \cup client.hellos)
  /\ client' = Dialled(client, g)

HeadersAbandoned ==
  /\ client.headers # "none" /\ ~StillWanted(client)
  /\ client' = [client EXCEPT !.headers = "none"]

\* Mutant: headers that could not be refreshed end the dialling.
GivesUp(c) == Evidence([c EXCEPT !.headers = "none"], FALSE)

\* The headers of a later attempt cannot be refreshed, or the first ones are not
\* available yet: another attempt.
Retried(c) == Scheduled(Evidence([c EXCEPT !.headers = "none"], FALSE))

HeadersUnavailable ==
  /\ client.headers = "asked"
  /\ client' = Retried(client)

\* The first headers cannot be had: failInitialReady.
HeadersFail ==
  /\ client.headers = "asked" /\ ~client.acquired
  /\ client' = Closed([client EXCEPT !.headers = "none", !.ready = "rejected"])

ConnectFails ==
  /\ client.phase = "dialing"
  /\ client' = Fenced(Evidence(client, FALSE), client.cur)

\* Mutant: only the first attachment says hello.
ConnectsSilently ==
  /\ client.phase = "dialing"
  /\ client' = [client EXCEPT !.phase = "hello",
                              !.hellos = IF client.had THEN @ ELSE @ \cup {client.cur}]

Connects ==
  /\ client.phase = "dialing"
  /\ client' = [client EXCEPT !.phase = "hello", !.hellos = @ \cup {client.cur}]

CurrentHello(g) == client.cur = g

HelloAccepted(g) ==
  /\ g \in client.hellos /\ CurrentHello(g)
  /\ LET c == [client EXCEPT !.hellos = @ \ {g}, !.phase = "accepted", !.fresh = FALSE,
                             !.ready = IF @ = "no" THEN "resolved" ELSE @]
     IN  client' = IF c.had /\ c.gap
                   THEN Evidence([c EXCEPT !.beats = 0, !.steady = FALSE], TRUE)
                   ELSE Reset([c EXCEPT !.had = TRUE])

\* Rejected, of another generation or controller, or no answer in time.
HelloRefused(g) ==
  /\ g \in client.hellos /\ CurrentHello(g)
  /\ client' = Fenced(Evidence([client EXCEPT !.hellos = @ \ {g}], FALSE), g)

HelloIgnored(g) ==
  /\ g \in client.hellos /\ ~CurrentHello(g)
  /\ client' = [client EXCEPT !.hellos = @ \ {g}]

-----------------------------------------------------------------------------
(* An attachment in use                                                    *)

AttachmentLost ==
  /\ client.phase \in {"hello", "accepted"}
  /\ client' = Fenced(client, client.cur)

\* recordStabilizingHeartbeat
Heartbeat ==
  /\ client.phase = "accepted" /\ client.beats >= 0
  /\ LET n == IF client.beats < StableBeats THEN client.beats + 1 ELSE client.beats
     IN  client' = IF n >= StableBeats /\ client.steady
                   THEN Reset([client EXCEPT !.window = "none"])
                   ELSE [client EXCEPT !.beats = n]

Emit(m) ==
  /\ client.phase = "accepted" /\ client.command[m].at = "idle"
  /\ client' = [client EXCEPT !.command[m] = [at |-> "queued", via |-> client.cur]]

\* The process grants the command its turn; the executor of an attachment that is
\* gone answers it at once.
HandOn(m) ==
  /\ client.command[m].at = "queued"
  /\ client' = [client EXCEPT !.command[m] =
       IF @.via = 0 THEN [at |-> "nothing", via |-> 0] ELSE [@ EXCEPT !.at = "handed"]]

Send(m) ==
  /\ client.command[m].at = "handed" /\ client.command[m].via = client.cur
  /\ client' = [client EXCEPT !.command[m].at = "sent"]

Answer(m) ==
  /\ client.command[m].at = "sent" /\ client.command[m].via = client.cur
  /\ client' = [client EXCEPT !.command[m] = [at |-> "result", via |-> 0]]

\* A command without receipt or result in time takes its attachment with it.
TimesOut(m) ==
  /\ client.command[m].at = "sent"
  /\ client' = Fenced([client EXCEPT !.command[m] = [at |-> "error", via |-> 0]],
                      client.command[m].via)

\* The caller goes on; the message's name is free for another command.
Forget(m) ==
  /\ client.command[m].at \in {"result", "error", "nothing"}
  /\ client' = [client EXCEPT !.command[m] = [at |-> "idle", via |-> 0]]

Close ==
  /\ Closes /\ ~client.closed
  /\ client' = Closed(client)

\* The deadline of the first connection; the time of stability.
Elapse ==
  \/ ~client.had /\ ~client.late /\ client' = [client EXCEPT !.late = TRUE]
  \/ client.beats >= 0 /\ ~client.steady /\ client' = [client EXCEPT !.steady = TRUE]

Next ==
  \/ TimerFires \/ HeadersAbandoned \/ HeadersUnavailable \/ HeadersFail
  \/ ConnectFails \/ Connects \/ AttachmentLost \/ Heartbeat \/ Close \/ Elapse
  \/ \E g \in Generations : HeadersArrive(g) \/ HelloAccepted(g) \/ HelloRefused(g) \/ HelloIgnored(g)
  \/ \E m \in Commands : Emit(m) \/ HandOn(m) \/ Send(m) \/ Answer(m) \/ TimesOut(m) \/ Forget(m)

Spec == Init /\ [][Next]_client

\* Timers fire, a socket connects or fails, a hello is answered or times out, and
\* headers come in or do not.
Fairness ==
  /\ WF_client(TimerFires)
  /\ WF_client(HeadersAbandoned \/ HeadersUnavailable \/ \E g \in Generations : HeadersArrive(g))
  /\ WF_client(Connects \/ ConnectFails)
  /\ WF_client(\E g \in Generations : HelloAccepted(g) \/ HelloRefused(g) \/ HelloIgnored(g))

\* A Gateway that is there: what is tried often enough succeeds some time.
GatewayAnswers ==
  /\ SF_client(\E g \in Generations : HeadersArrive(g)) /\ SF_client(Connects)
  /\ SF_client(\E g \in Generations : HelloAccepted(g))

-----------------------------------------------------------------------------
(* Properties                                                              *)

\* The attempts, timers, evidence and commands of the client have their types.
TypeOK ==
  client \in [cur : Generations \cup {0}, phase : {"none", "dialing", "hello", "accepted"},
              open : SUBSET Generations, hellos : SUBSET Generations,
              headers : {"none", "asked", "abandoned"}, acquired : BOOLEAN, timer : BOOLEAN,
              attempts : 0 .. MaxAttempts, gap : BOOLEAN, late : BOOLEAN, had : BOOLEAN,
              closed : BOOLEAN, ready : {"no", "resolved", "rejected"},
              beats : -1 .. StableBeats, steady : BOOLEAN, window : {"none", "open", "closed"},
              fresh : BOOLEAN,
              reported : [Generations -> 0 .. 1],
              command : [Commands -> [at : {"idle", "queued", "handed", "sent", "result", "error",
                                            "nothing"},
                                      via : Generations \cup {0}]]]

\* A client that is not closed has an attempt, awaits headers or has a timer set:
\* the watchdog's ensureDialing never finds one that has stopped dialling.
NeverIdle == ~client.closed => client.cur # 0 \/ client.timer \/ client.headers = "asked"

\* The socket of the current attempt is the only one that is open, and a closed
\* client has none and dials no more, whatever was being awaited when it was closed.
OneSocket ==
  /\ client.open = {client.cur} \ {0}
  /\ client.closed => client.open = {} /\ ~client.timer

\* The evidence window is open exactly while a client that once had an attachment
\* is without one, and began with that loss: the health monitor is told neither of
\* a loss that is over nor left without one that is not, a loss while the
\* attachment was becoming stable included.
EvidenceFollowsAttachment ==
  /\ client.window = "open" => client.fresh
  /\ client.window = "open" <=> client.had /\ ~client.closed /\ client.phase # "accepted"

\* Every accepted attachment that a client loses before it is closed is reported
\* to the owner of the leases, in the step that loses it.
ReportsLoss ==
  client.phase = "accepted" /\ client'.phase # "accepted" /\ ~client'.closed
    => client'.reported[client.cur] = client.reported[client.cur] + 1

\* A command waits on the attachment it was emitted on, and on no other; only its
\* turn in the process is waited for without it, and not by a client that is closed.
NoCommandIsStranded ==
  \A m \in Commands : LET k == client.command[m] IN
     /\ k.at \in {"handed", "sent"} => client.phase = "accepted" /\ k.via = client.cur
     /\ k.at = "queued" => ~client.closed /\ k.via \in {0, client.cur}
                             /\ (k.via # 0 => client.phase = "accepted")

\* With a Gateway that answers, a lost attachment is replaced unless the client is
\* closed.
LostAttachmentIsReplaced ==
  [](client.had /\ client.phase # "accepted" => <>(client.phase = "accepted" \/ client.closed))
=============================================================================
