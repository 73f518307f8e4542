---------------------- MODULE ControlAdmissionExecutor ----------------------
(***************************************************************************)
(* The admission of one direction of one control attachment                *)
(* (gateway-control-admission.ts, the scheduler, and                       *)
(* gateway-control-admission-executor.ts): messages wait by class and, for *)
(* the authority class, by principal; a pump starts as many executions as  *)
(* the limits of the classes allow; close() answers everything at once     *)
(* while executions go on.                                                 *)
(*                                                                         *)
(* Abstractions.  All frames have one size, so that the byte limits follow *)
(* the message limits.  A message is one of Works, used again once its     *)
(* submission has been answered and cleaned up.  The pump, a loop without  *)
(* an await, is taken step by step with nothing between its steps.         *)
(***************************************************************************)
EXTENDS RoundRobin, SequencesExt

CONSTANTS
  Works,         \* messages
  Principals,
  ClassOf,       \* the class of each message
  PrincipalOf,   \* the principal of each authority message
  KeyOf,         \* the coalescing key of each liveness or diagnostic message
  Cycle,         \* serviceCycle
  MaxHeld,       \* GATEWAY_CONTROL_ADMISSION_LIMITS, by class
  MaxPerPrincipal,
  MaxActive,     \* executionLimits, by class
  Closes         \* close() may be called

Classes == {"safety", "authority", "liveness", "diagnostic"}
Coalesced == {"liveness", "diagnostic"}

VARIABLES
  queue,     \* the waiting messages of the classes that have one queue
  perPrincipal, \* authorityByPrincipal: the waiting messages of each principal
  order,     \* authorityPrincipalOrder
  turn,      \* authorityPrincipalCursor, from 0
  cursor,    \* serviceCursor, from 0
  held,      \* messages accounted for, by class: waiting or executing
  heldBy,    \* the same for the principals
  active,    \* activeByClass
  work,      \* each message: where it is, what its caller was told, its clean-up
  pump,      \* whether the pump is scheduled or runs
  closed

queues == <<queue, perPrincipal, order, turn, cursor>>
accounts == <<held, heldBy, active>>
vars == <<queues, accounts, work, pump, closed>>

NoWork == [at |-> "out", told |-> "no", clean |-> FALSE]

Init ==
  /\ queue = [c \in Classes |-> << >>] /\ perPrincipal = [p \in Principals |-> << >>]
  /\ order = << >> /\ turn = 0 /\ cursor = 0
  /\ held = [c \in Classes |-> 0] /\ heldBy = [p \in Principals |-> 0]
  /\ active = [c \in Classes |-> 0]
  /\ work = [w \in Works |-> NoWork]
  /\ pump = "off" /\ closed = FALSE

IsAuthority(w) == ClassOf[w] = "authority"

Told(ws, what, at, clean) ==
  [w \in Works |-> IF w \in ws THEN [at |-> at, told |-> IF work[w].told = "no" THEN what
                                                         ELSE work[w].told, clean |-> clean]
                   ELSE work[w]]

-----------------------------------------------------------------------------
(* submit                                                                  *)

\* The waiting message that w takes the place of.
Prior(w) == {v \in Works : /\ ClassOf[w] \in Coalesced /\ ClassOf[v] = ClassOf[w]
                           /\ KeyOf[v] = KeyOf[w] /\ work[v].at = "waiting"}

HasRoom(w) ==
  IF Prior(w) # {} THEN TRUE
  ELSE /\ held[ClassOf[w]] < MaxHeld[ClassOf[w]]
       /\ IsAuthority(w) => heldBy[PrincipalOf[w]] < MaxPerPrincipal

\* Mutant: the pump is scheduled only for an attachment that was idle.
ScheduledWhenIdle == IF pump = "off" /\ ~closed /\ \A c \in Classes : active[c] = 0 THEN "scheduled" ELSE pump

\* schedulePump
Scheduled == IF pump = "off" /\ ~closed THEN "scheduled" ELSE pump

SubmitAnswered(w) ==
  /\ work[w].at = "out" /\ pump # "running"
  /\ closed \/ ~HasRoom(w)
  /\ work' = Told({w}, IF closed THEN "closed" ELSE "refused", "ended", TRUE)
  /\ UNCHANGED <<queues, accounts, pump, closed>>

Admit(w) ==
  /\ work[w].at = "out" /\ pump # "running"
  /\ ~closed /\ HasRoom(w) /\ Prior(w) = {}
  /\ work' = [work EXCEPT ![w].at = "waiting"]
  /\ IF IsAuthority(w)
     THEN LET p == PrincipalOf[w] IN
          /\ perPrincipal' = [perPrincipal EXCEPT ![p] = Append(@, w)]
          /\ order' = IF heldBy[p] = 0 THEN Append(order, p) ELSE order
          /\ heldBy' = [heldBy EXCEPT ![p] = @ + 1]
          /\ UNCHANGED queue
     ELSE /\ queue' = [queue EXCEPT ![ClassOf[w]] = Append(@, w)]
          /\ UNCHANGED <<perPrincipal, order, heldBy>>
  /\ held' = [held EXCEPT ![ClassOf[w]] = @ + 1]
  /\ pump' = Scheduled
  /\ UNCHANGED <<turn, cursor, active, closed>>

\* A message with the key of one that waits takes its place in the queue.
Replace(w) ==
  /\ work[w].at = "out" /\ pump # "running"
  /\ ~closed /\ Prior(w) # {}
  /\ \E v \in Prior(w) :
       /\ queue' = [queue EXCEPT ![ClassOf[w]] = [i \in DOMAIN @ |-> IF @[i] = v THEN w ELSE @[i]]]
       /\ work' = [Told({v}, "replaced", "ended", TRUE) EXCEPT ![w].at = "waiting"]
  /\ pump' = Scheduled
  /\ UNCHANGED <<perPrincipal, order, turn, cursor, accounts, closed>>

-----------------------------------------------------------------------------
(* The pump                                                                *)

PumpStarts ==
  /\ pump = "scheduled"
  /\ pump' = IF closed THEN "off" ELSE "running"
  /\ UNCHANGED <<queues, accounts, work, closed>>

WaitingOf(c) == IF c = "authority" THEN UNION {ToSet(perPrincipal[p]) : p \in Principals}
                ELSE ToSet(queue[c])

\* Mutant: the limit of a class is not looked at.
Unlimited(c) == WaitingOf(c) # {}

Ready(c) == active[c] < MaxActive[c] /\ WaitingOf(c) # {}

\* The classes, and the principals, whose turn it may be.
Eligible == {c \in Classes : Ready(c)}
WithWork == {p \in Principals : perPrincipal[p] # << >>}

Started(w) ==
  /\ work' = [work EXCEPT ![w].at = "executing"]
  /\ active' = [active EXCEPT ![ClassOf[w]] = @ + 1]

Dequeue ==
  /\ pump = "running" /\ Eligible # {}
  /\ cursor' = NextTurn(Cycle, cursor, Eligible)
  /\ LET c == Served(Cycle, cursor, Eligible)
         p == Served(order, turn, WithWork)
     IN  IF c = "authority"
         THEN /\ Started(Head(perPrincipal[p]))
              /\ perPrincipal' = [perPrincipal EXCEPT ![p] = Tail(@)]
              /\ turn' = NextTurn(order, turn, WithWork)
              /\ UNCHANGED queue
         ELSE /\ Started(Head(queue[c]))
              /\ queue' = [queue EXCEPT ![c] = Tail(@)]
              /\ UNCHANGED <<perPrincipal, turn>>
  /\ UNCHANGED <<order, held, heldBy, pump, closed>>

PumpEnds ==
  /\ pump = "running" /\ Eligible = {}
  /\ pump' = "off"
  /\ UNCHANGED <<queues, accounts, work, closed>>

-----------------------------------------------------------------------------
(* The end of an execution, and close                                      *)

\* Mutant: the end of an execution keeps the principal's account.
KeepsPrincipal(w) == heldBy

PrincipalReleased(w) == [heldBy EXCEPT ![PrincipalOf[w]] = @ - 1]

\* Mutant: the result of an execution is told after close() has answered.
TellsLate(w, result) == [Told({w}, result, "ended", TRUE) EXCEPT ![w].told = result]

TellsEnd(w, result) == Told({w}, result, "ended", TRUE)

ExecutionEnds(w, result) ==
  /\ work[w].at = "executing" /\ pump # "running"
  /\ work' = TellsEnd(w, result)
  /\ held' = [held EXCEPT ![ClassOf[w]] = @ - 1]
  /\ active' = [active EXCEPT ![ClassOf[w]] = @ - 1]
  /\ IF IsAuthority(w)
     THEN LET p == PrincipalOf[w]
              gone == heldBy[p] = 1
          IN  /\ heldBy' = PrincipalReleased(w)
              /\ order' = IF gone THEN Kept(order, Principals \ {p}) ELSE order
              /\ turn' = IF gone THEN Clamped(turn, Len(order')) ELSE turn
     ELSE UNCHANGED <<heldBy, order, turn>>
  /\ pump' = Scheduled
  /\ UNCHANGED <<queue, perPrincipal, cursor, closed>>

Close ==
  /\ Closes /\ ~closed /\ pump # "running"
  /\ closed' = TRUE
  /\ LET waiting == {w \in Works : work[w].at = "waiting"}
         running == {w \in Works : work[w].at = "executing"}
     IN  /\ work' = [w \in Works |-> IF w \in waiting THEN Told(waiting, "closed", "ended", TRUE)[w]
                                     ELSE Told(running, "closed", "executing", FALSE)[w]]
         /\ held' = [c \in Classes |-> held[c] - Cardinality(WaitingOf(c))]
         /\ heldBy' = [p \in Principals |-> heldBy[p] - Len(perPrincipal[p])]
  /\ queue' = [c \in Classes |-> << >>]
  /\ perPrincipal' = [p \in Principals |-> << >>]
  /\ order' = Kept(order, {p \in Principals : heldBy'[p] > 0})
  /\ turn' = Clamped(turn, Len(order'))
  /\ UNCHANGED <<cursor, active, pump>>

\* The caller has its answer; the message's name is free for another one.
Forget(w) ==
  /\ work[w].at = "ended" /\ pump # "running"
  /\ work' = [work EXCEPT ![w] = NoWork]
  /\ UNCHANGED <<queues, accounts, pump, closed>>

Next ==
  \/ \E w \in Works : SubmitAnswered(w) \/ Admit(w) \/ Replace(w) \/ Forget(w)
  \/ \E w \in Works, result \in {"executed", "failed"} : ExecutionEnds(w, result)
  \/ PumpStarts \/ Dequeue \/ PumpEnds \/ Close

Spec == Init /\ [][Next]_vars

-----------------------------------------------------------------------------
(* Properties                                                              *)

\* The queues, the accounts and the progress of each message have their types.
TypeOK ==
  /\ queue \in [Classes -> Seq(Works)] /\ perPrincipal \in [Principals -> Seq(Works)]
  /\ order \in Seq(Principals) /\ turn \in Nat /\ cursor \in 0 .. Len(Cycle) - 1
  /\ held \in [Classes -> Nat] /\ heldBy \in [Principals -> Nat] /\ active \in [Classes -> Nat]
  /\ work \in [Works -> [at : {"out", "waiting", "executing", "ended"},
                         told : {"no", "executed", "failed", "closed", "replaced", "refused"},
                         clean : BOOLEAN]]
  /\ pump \in {"off", "scheduled", "running"} /\ closed \in BOOLEAN

In(c, places) == {w \in Works : ClassOf[w] = c /\ work[w].at \in places}

\* The accounts of the classes and of the principals say exactly what waits or
\* executes, a principal is in the order, once, as long as it has an account, and
\* its turn is a place in the order: capacity is neither lost nor lent twice
\* through refusals, replacements, failures and close().
AccountsAgree ==
  /\ \A c \in Classes : /\ held[c] = Cardinality(In(c, {"waiting", "executing"}))
                        /\ active[c] = Cardinality(In(c, {"executing"}))
                        /\ In(c, {"waiting"}) = WaitingOf(c)
  /\ \A p \in Principals :
       heldBy[p] = Cardinality({w \in In("authority", {"waiting", "executing"}) : PrincipalOf[w] = p})
  /\ ToSet(order) = {p \in Principals : heldBy[p] > 0} /\ IsInjective(order)
  /\ turn < Len(order) \/ (order = << >> /\ turn = 0)

\* No class has more executions than its limit, whatever waits elsewhere.
LimitsHold == \A c \in Classes : Cardinality(In(c, {"executing"})) <= MaxActive[c]

\* A caller is told one result: what close(), a replacement or a refusal said is
\* not changed by the execution that ends later.
TellsOnce ==
  \A w \in Works : work[w].told # "no" => work'[w].told = work[w].told \/ work'[w].at = "out"

\* Whatever could be started is started: the pump is off only when nothing that
\* waits may run, after a refusal, a replacement, a failure or the end of the
\* execution that took the last place.
NothingWaitsIdly == pump = "off" /\ ~closed => Eligible = {}
=============================================================================
