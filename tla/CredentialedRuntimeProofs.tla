----------------------- MODULE CredentialedRuntimeProofs --------------------
(***************************************************************************)
(* What the credentialed runtime manager of a zone guarantees for any      *)
(* number of agents, commands and administrative calls.                    *)
(*                                                                         *)
(* The inductive invariant comes in three layers, each proved with the     *)
(* help of the ones below it.  CallsInv: the keyed lock is a queue, a call *)
(* that works on an agent's runtime heads it, and an acquisition holds the *)
(* agent's reservation.  MachinesInv: what liveByKey, the durable record   *)
(* and the processes say of each other at every stage of the lock's        *)
(* holder.  EffectsInv: what calls outside the lock may rely on.           *)
(***************************************************************************)
EXTENDS CredentialedRuntime, TLAPS

Entry == {"entered", "completing", "first", "second"}
Free == {"idle", "held", "next", "waiting", "done"}
Working == {"probing", "reserving", "intending", "creating", "created", "starting", "identifying",
            "publishing", "authorizing", "activating", "idling", "retiring", "terminating",
            "containing", "clearing"}
InLock == Entry \cup Working

Kinds == {"acquire", "complete", "retire", "force-retire", "invalidate", "close", "reap"}
TaskType ==
  [kind : Kinds, stage : Stages, agent : Agents \cup {None}, vm : Commands \cup {None},
   then : {"done", "reserving"}, wait : Commands \cup {None}, material : 0..MaxMaterial,
   exec : {"none", "running", "settled"}, todo : SUBSET Agents, ok : BOOLEAN]
LiveType == [vm : Commands \cup {None}, active : Commands \cup {None}]
VmType == [state : VmStates, agent : Agents \cup {None}, material : 0..MaxMaterial]
RecordType == [kind : RecordKinds, vm : Commands \cup {None}, identity : BOOLEAN]

Typed ==
  /\ up \in BOOLEAN /\ crashes \in 0..MaxCrashes /\ closed \in BOOLEAN
  /\ recovering \subseteq Agents /\ reserved \subseteq Agents
  /\ known \subseteq Agents /\ unsafe \subseteq Agents
  /\ live \in [Agents -> LiveType]
  /\ retireAfter \subseteq Commands /\ finished \subseteq Commands
  /\ queue \in [Agents -> Seq(Tasks)]
  /\ task \in [Tasks -> TaskType]
  /\ vm \in [Commands -> VmType]
  /\ record \in [Agents -> RecordType]
  /\ material \in 0..MaxMaterial

InQueue(q, t) == \E i \in 1..Len(q) : q[i] = t
NoTwice(q) == \A i, j \in 1..Len(q) : q[i] = q[j] => i = j

\* The queue of an agent holds the calls that are in its lock section or asked for it.
Queues ==
  \A a \in Agents :
    /\ NoTwice(queue[a])
    /\ \A t \in Tasks : InQueue(queue[a], t) <=> task[t].agent = a /\ task[t].stage \in InLock

WorkersHold == \A t \in Tasks : task[t].stage \in Working => Holds(t)

DownIsIdle ==
  ~up => /\ \A t \in Tasks : task[t].stage \in {"idle", "done"}
         /\ ~closed /\ known = {}
         /\ \A a \in Agents : live[a] = NoLive

CallShape(t) ==
  LET T == task[t] IN
  /\ T.stage = "idle" => T = IdleTask
  /\ t \in Commands =>
       /\ T.kind \in {"acquire", "complete"}
       /\ T.stage \notin {"next", "first", "waiting", "second"}
       /\ T.kind = "acquire" => T.stage \notin {"completing", "idling"}
       /\ T.kind = "complete" => T.stage \in {"completing", "idling", "retiring", "terminating",
                                              "clearing", "done"}
  /\ t \in Admins =>
       /\ T.stage \in {"idle", "next", "first", "waiting", "second", "retiring", "terminating",
                       "clearing", "done"}
       /\ T.stage # "idle" => T.kind \notin {"acquire", "complete"}
       /\ T.kind \in {"retire", "reap"} => T.stage \notin {"waiting", "second"}
       /\ T.kind # "close" => T.stage # "next"
       /\ T.then = "done"
  /\ T.stage \in InLock \cup {"held", "waiting"} => T.agent \in Agents
  /\ T.exec = "running" => T.stage = "held"
  /\ T.then = "reserving" => /\ T.stage \in {"retiring", "terminating", "clearing", "done"}
                             /\ T.kind = "acquire"

Acquiring(c) == task[c].kind = "acquire" /\ task[c].stage \in InLock

Reservations ==
  \A c \in Commands : Acquiring(c) =>
    /\ task[c].agent \in reserved
    /\ \A d \in Commands : Acquiring(d) /\ task[d].agent = task[c].agent => d = c

CallsInv ==
  /\ Typed /\ Queues /\ WorkersHold /\ DownIsIdle
  /\ \A t \in Tasks : CallShape(t)
  /\ Reservations

-----------------------------------------------------------------------------
(* Edits of one call.                                                      *)

Turned(t) ==
  /\ task' \in [Tasks -> TaskType]
  /\ \A u \in Tasks \ {t} : task'[u] = task[u]

LEMMA EditStage ==
  ASSUME task \in [Tasks -> TaskType], NEW t \in Tasks, NEW s \in Stages,
         task' = [task EXCEPT ![t].stage = s]
  PROVE  /\ Turned(t)
         /\ task'[t].kind = task[t].kind /\ task'[t].stage = s /\ task'[t].agent = task[t].agent
         /\ task'[t].vm = task[t].vm /\ task'[t].then = task[t].then /\ task'[t].wait = task[t].wait
         /\ task'[t].material = task[t].material /\ task'[t].exec = task[t].exec /\ task'[t].todo = task[t].todo
         /\ task'[t].ok = task[t].ok
<1> DEFINE T == [task[t] EXCEPT !.stage = s]
<1>1. T \in TaskType
  BY Zenon DEF TaskType
<1>2. task' = [task EXCEPT ![t] = T]
  OBVIOUS
<1>3. /\ task' \in [Tasks -> TaskType] /\ task'[t] = T
      /\ \A u \in Tasks \ {t} : task'[u] = task[u]
  <2> HIDE DEF T
  <2> QED BY <1>1, <1>2
<1>4. task[t] \in TaskType
  OBVIOUS
<1> QED BY <1>3, <1>4 DEF Turned, TaskType

LEMMA EditEnded ==
  ASSUME task \in [Tasks -> TaskType], NEW t \in Tasks, NEW s \in Stages, NEW o \in BOOLEAN,
         task' = [task EXCEPT ![t].stage = s, ![t].ok = o]
  PROVE  /\ Turned(t)
         /\ task'[t].kind = task[t].kind /\ task'[t].stage = s /\ task'[t].agent = task[t].agent
         /\ task'[t].vm = task[t].vm /\ task'[t].then = task[t].then /\ task'[t].wait = task[t].wait
         /\ task'[t].material = task[t].material /\ task'[t].exec = task[t].exec /\ task'[t].todo = task[t].todo
         /\ task'[t].ok = o
<1> DEFINE T == [task[t] EXCEPT !.stage = s, !.ok = o]
<1>1. T \in TaskType
  BY Zenon DEF TaskType
<1>2. task' = [task EXCEPT ![t] = T]
  OBVIOUS
<1>3. /\ task' \in [Tasks -> TaskType] /\ task'[t] = T
      /\ \A u \in Tasks \ {t} : task'[u] = task[u]
  <2> HIDE DEF T
  <2> QED BY <1>1, <1>2
<1>4. task[t] \in TaskType
  OBVIOUS
<1> QED BY <1>3, <1>4 DEF Turned, TaskType

LEMMA EditThen ==
  ASSUME task \in [Tasks -> TaskType], NEW t \in Tasks, NEW s \in Stages, NEW n \in {"done", "reserving"},
         task' = [task EXCEPT ![t].stage = s, ![t].then = n]
  PROVE  /\ Turned(t)
         /\ task'[t].kind = task[t].kind /\ task'[t].stage = s /\ task'[t].agent = task[t].agent
         /\ task'[t].vm = task[t].vm /\ task'[t].then = n /\ task'[t].wait = task[t].wait
         /\ task'[t].material = task[t].material /\ task'[t].exec = task[t].exec /\ task'[t].todo = task[t].todo
         /\ task'[t].ok = task[t].ok
<1> DEFINE T == [task[t] EXCEPT !.stage = s, !.then = n]
<1>1. T \in TaskType
  BY Zenon DEF TaskType
<1>2. task' = [task EXCEPT ![t] = T]
  OBVIOUS
<1>3. /\ task' \in [Tasks -> TaskType] /\ task'[t] = T
      /\ \A u \in Tasks \ {t} : task'[u] = task[u]
  <2> HIDE DEF T
  <2> QED BY <1>1, <1>2
<1>4. task[t] \in TaskType
  OBVIOUS
<1> QED BY <1>3, <1>4 DEF Turned, TaskType

LEMMA EditAgent ==
  ASSUME task \in [Tasks -> TaskType], NEW t \in Tasks, NEW s \in Stages, NEW a \in Agents,
         task' = [task EXCEPT ![t].stage = s, ![t].agent = a]
  PROVE  /\ Turned(t)
         /\ task'[t].kind = task[t].kind /\ task'[t].stage = s /\ task'[t].agent = a
         /\ task'[t].vm = task[t].vm /\ task'[t].then = task[t].then /\ task'[t].wait = task[t].wait
         /\ task'[t].material = task[t].material /\ task'[t].exec = task[t].exec /\ task'[t].todo = task[t].todo
         /\ task'[t].ok = task[t].ok
<1> DEFINE T == [task[t] EXCEPT !.stage = s, !.agent = a]
<1>1. T \in TaskType
  BY Zenon DEF TaskType
<1>2. task' = [task EXCEPT ![t] = T]
  OBVIOUS
<1>3. /\ task' \in [Tasks -> TaskType] /\ task'[t] = T
      /\ \A u \in Tasks \ {t} : task'[u] = task[u]
  <2> HIDE DEF T
  <2> QED BY <1>1, <1>2
<1>4. task[t] \in TaskType
  OBVIOUS
<1> QED BY <1>3, <1>4 DEF Turned, TaskType

LEMMA EditMaterial ==
  ASSUME task \in [Tasks -> TaskType], NEW t \in Tasks, NEW s \in Stages, NEW m \in 0..MaxMaterial,
         task' = [task EXCEPT ![t].stage = s, ![t].material = m]
  PROVE  /\ Turned(t)
         /\ task'[t].kind = task[t].kind /\ task'[t].stage = s /\ task'[t].agent = task[t].agent
         /\ task'[t].vm = task[t].vm /\ task'[t].then = task[t].then /\ task'[t].wait = task[t].wait
         /\ task'[t].material = m /\ task'[t].exec = task[t].exec /\ task'[t].todo = task[t].todo
         /\ task'[t].ok = task[t].ok
<1> DEFINE T == [task[t] EXCEPT !.stage = s, !.material = m]
<1>1. T \in TaskType
  BY Zenon DEF TaskType
<1>2. task' = [task EXCEPT ![t] = T]
  OBVIOUS
<1>3. /\ task' \in [Tasks -> TaskType] /\ task'[t] = T
      /\ \A u \in Tasks \ {t} : task'[u] = task[u]
  <2> HIDE DEF T
  <2> QED BY <1>1, <1>2
<1>4. task[t] \in TaskType
  OBVIOUS
<1> QED BY <1>3, <1>4 DEF Turned, TaskType

LEMMA EditVm ==
  ASSUME task \in [Tasks -> TaskType], NEW t \in Tasks, NEW s \in Stages, NEW x \in Commands \cup {None},
         task' = [task EXCEPT ![t].stage = s, ![t].vm = x]
  PROVE  /\ Turned(t)
         /\ task'[t].kind = task[t].kind /\ task'[t].stage = s /\ task'[t].agent = task[t].agent
         /\ task'[t].vm = x /\ task'[t].then = task[t].then /\ task'[t].wait = task[t].wait
         /\ task'[t].material = task[t].material /\ task'[t].exec = task[t].exec /\ task'[t].todo = task[t].todo
         /\ task'[t].ok = task[t].ok
<1> DEFINE T == [task[t] EXCEPT !.stage = s, !.vm = x]
<1>1. T \in TaskType
  BY Zenon DEF TaskType
<1>2. task' = [task EXCEPT ![t] = T]
  OBVIOUS
<1>3. /\ task' \in [Tasks -> TaskType] /\ task'[t] = T
      /\ \A u \in Tasks \ {t} : task'[u] = task[u]
  <2> HIDE DEF T
  <2> QED BY <1>1, <1>2
<1>4. task[t] \in TaskType
  OBVIOUS
<1> QED BY <1>3, <1>4 DEF Turned, TaskType

\* The same edits as opaque terms, for the provers to match.
VmEdit(t, s, x) == [task EXCEPT ![t].stage = s, ![t].vm = x]
VmThenEdit(t, s, x, n) == [task EXCEPT ![t].stage = s, ![t].vm = x, ![t].then = n]

LEMMA VmEditIs ==
  ASSUME task \in [Tasks -> TaskType], NEW t \in Tasks, NEW s \in Stages,
         NEW x \in Commands \cup {None}, task' = VmEdit(t, s, x)
  PROVE  /\ Turned(t)
         /\ task'[t].kind = task[t].kind /\ task'[t].stage = s /\ task'[t].agent = task[t].agent
         /\ task'[t].vm = x /\ task'[t].then = task[t].then /\ task'[t].wait = task[t].wait
         /\ task'[t].material = task[t].material /\ task'[t].exec = task[t].exec /\ task'[t].todo = task[t].todo
         /\ task'[t].ok = task[t].ok
BY EditVm DEF VmEdit

LEMMA VmThenEditIs ==
  ASSUME task \in [Tasks -> TaskType], NEW t \in Tasks, NEW s \in Stages,
         NEW x \in Commands \cup {None}, NEW n \in {"done", "reserving"},
         task' = VmThenEdit(t, s, x, n)
  PROVE  /\ Turned(t)
         /\ task'[t].kind = task[t].kind /\ task'[t].stage = s /\ task'[t].agent = task[t].agent
         /\ task'[t].vm = x /\ task'[t].then = n /\ task'[t].wait = task[t].wait
         /\ task'[t].material = task[t].material /\ task'[t].exec = task[t].exec /\ task'[t].todo = task[t].todo
         /\ task'[t].ok = task[t].ok
<1> DEFINE T == [task[t] EXCEPT !.stage = s, !.vm = x, !.then = n]
<1>1. T \in TaskType
  BY ZenonT(40) DEF TaskType
<1>2. task' = [task EXCEPT ![t] = T]
  BY DEF VmThenEdit
<1>3. /\ task' \in [Tasks -> TaskType] /\ task'[t] = T
      /\ \A u \in Tasks \ {t} : task'[u] = task[u]
  <2> HIDE DEF T
  <2> QED BY <1>1, <1>2
<1>4. task[t] \in TaskType
  OBVIOUS
<1> QED BY <1>3, <1>4 DEF Turned, TaskType

LEMMA EditExec ==
  ASSUME task \in [Tasks -> TaskType], NEW t \in Tasks, NEW e \in {"none", "running", "settled"},
         task' = [task EXCEPT ![t].exec = e]
  PROVE  /\ Turned(t)
         /\ task'[t].kind = task[t].kind /\ task'[t].stage = task[t].stage /\ task'[t].agent = task[t].agent
         /\ task'[t].vm = task[t].vm /\ task'[t].then = task[t].then /\ task'[t].wait = task[t].wait
         /\ task'[t].material = task[t].material /\ task'[t].exec = e /\ task'[t].todo = task[t].todo
         /\ task'[t].ok = task[t].ok
<1> DEFINE T == [task[t] EXCEPT !.exec = e]
<1>1. T \in TaskType
  BY Zenon DEF TaskType
<1>2. task' = [task EXCEPT ![t] = T]
  OBVIOUS
<1>3. /\ task' \in [Tasks -> TaskType] /\ task'[t] = T
      /\ \A u \in Tasks \ {t} : task'[u] = task[u]
  <2> HIDE DEF T
  <2> QED BY <1>1, <1>2
<1>4. task[t] \in TaskType
  OBVIOUS
<1> QED BY <1>3, <1>4 DEF Turned, TaskType

LEMMA EditKind ==
  ASSUME task \in [Tasks -> TaskType], NEW t \in Tasks, NEW s \in Stages, NEW k \in Kinds,
         task' = [task EXCEPT ![t].stage = s, ![t].kind = k]
  PROVE  /\ Turned(t)
         /\ task'[t].kind = k /\ task'[t].stage = s /\ task'[t].agent = task[t].agent
         /\ task'[t].vm = task[t].vm /\ task'[t].then = task[t].then /\ task'[t].wait = task[t].wait
         /\ task'[t].material = task[t].material /\ task'[t].exec = task[t].exec /\ task'[t].todo = task[t].todo
         /\ task'[t].ok = task[t].ok
<1> DEFINE T == [task[t] EXCEPT !.stage = s, !.kind = k]
<1>1. T \in TaskType
  BY Zenon DEF TaskType
<1>2. task' = [task EXCEPT ![t] = T]
  OBVIOUS
<1>3. /\ task' \in [Tasks -> TaskType] /\ task'[t] = T
      /\ \A u \in Tasks \ {t} : task'[u] = task[u]
  <2> HIDE DEF T
  <2> QED BY <1>1, <1>2
<1>4. task[t] \in TaskType
  OBVIOUS
<1> QED BY <1>3, <1>4 DEF Turned, TaskType

LEMMA EditAdmin ==
  ASSUME Typed, NEW t \in Tasks, NEW a \in Agents, NEW kind \in AdminKinds, BeginAdmin(t, kind, a)
  PROVE  /\ Turned(t)
         /\ task'[t].kind = kind /\ task'[t].stage = "first" /\ task'[t].agent = a
         /\ task'[t].vm = task[t].vm /\ task'[t].then = task[t].then /\ task'[t].wait = task[t].wait
         /\ task'[t].material = material /\ task'[t].exec = task[t].exec /\ task'[t].todo = task[t].todo
         /\ task'[t].ok = task[t].ok
<1> DEFINE T == [task[t] EXCEPT !.kind = kind, !.stage = "first", !.agent = a, !.material = material]
<1>1. T \in TaskType
  <2>1. /\ kind \in Kinds /\ "first" \in Stages /\ task[t] \in TaskType
        /\ material \in 0..MaxMaterial
    BY RuntimeAssumption DEF Typed, Kinds, Stages
  <2> QED BY <2>1, Zenon DEF TaskType
<1>2. task' = [task EXCEPT ![t] = T]
  BY DEF BeginAdmin
<1>3. /\ task' \in [Tasks -> TaskType] /\ task'[t] = T
      /\ \A u \in Tasks \ {t} : task'[u] = task[u]
  <2>1. task \in [Tasks -> TaskType]
    BY DEF Typed
  <2> HIDE DEF T
  <2> QED BY <1>1, <1>2, <2>1
<1>4. task[t] \in TaskType
  BY DEF Typed
<1> QED BY <1>3, <1>4 DEF Turned, TaskType

LEMMA EditClose ==
  ASSUME Typed, NEW t \in Tasks, BeginClose(t)
  PROVE  /\ Turned(t)
         /\ task'[t].kind = "close" /\ task'[t].stage = "next" /\ task'[t].agent = task[t].agent
         /\ task'[t].vm = task[t].vm /\ task'[t].then = task[t].then /\ task'[t].wait = task[t].wait
         /\ task'[t].material = task[t].material /\ task'[t].exec = task[t].exec /\ task'[t].todo = known
         /\ task'[t].ok = task[t].ok
<1> DEFINE T == [task[t] EXCEPT !.kind = "close", !.stage = "next", !.todo = known]
<1>1. T \in TaskType
  <2>1. known \in SUBSET Agents /\ "close" \in Kinds /\ "next" \in Stages /\ task[t] \in TaskType
    BY DEF Typed, Kinds, Stages
  <2> QED BY <2>1, Zenon DEF TaskType
<1>2. task' = [task EXCEPT ![t] = T]
  BY DEF BeginClose
<1>3. /\ task' \in [Tasks -> TaskType] /\ task'[t] = T
      /\ \A u \in Tasks \ {t} : task'[u] = task[u]
  <2>1. task \in [Tasks -> TaskType]
    BY DEF Typed
  <2> HIDE DEF T
  <2> QED BY <1>1, <1>2, <2>1
<1>4. task[t] \in TaskType
  BY DEF Typed
<1> QED BY <1>3, <1>4 DEF Turned, TaskType

LEMMA EditTodo ==
  ASSUME Typed, NEW t \in Tasks, NEW a \in task[t].todo,
         task' = [task EXCEPT ![t].stage = "first", ![t].agent = a, ![t].todo = @ \ {a}]
  PROVE  /\ Turned(t)
         /\ task'[t].kind = task[t].kind /\ task'[t].stage = "first" /\ task'[t].agent = a
         /\ task'[t].vm = task[t].vm /\ task'[t].then = task[t].then /\ task'[t].wait = task[t].wait
         /\ task'[t].material = task[t].material /\ task'[t].exec = task[t].exec /\ task'[t].todo = task[t].todo \ {a}
         /\ task'[t].ok = task[t].ok
<1> DEFINE T == [task[t] EXCEPT !.stage = "first", !.agent = a, !.todo = task[t].todo \ {a}]
<1>1. T \in TaskType
  <2>1. /\ a \in Agents /\ "first" \in Stages /\ task[t] \in TaskType
        /\ task[t].todo \ {a} \in SUBSET Agents
    BY DEF Typed, TaskType, Stages
  <2> QED BY <2>1, Zenon DEF TaskType
<1>2. task' = [task EXCEPT ![t] = T]
  OBVIOUS
<1>3. /\ task' \in [Tasks -> TaskType] /\ task'[t] = T
      /\ \A u \in Tasks \ {t} : task'[u] = task[u]
  <2>1. task \in [Tasks -> TaskType]
    BY DEF Typed
  <2> HIDE DEF T
  <2> QED BY <1>1, <1>2, <2>1
<1>4. task[t] \in TaskType
  BY DEF Typed
<1> QED BY <1>3, <1>4 DEF Turned, TaskType

LEMMA EditWait ==
  ASSUME task \in [Tasks -> TaskType], NEW t \in Tasks, NEW s \in Stages, NEW w \in Commands \cup {None},
         task' = [task EXCEPT ![t].stage = s, ![t].wait = w]
  PROVE  /\ Turned(t)
         /\ task'[t].kind = task[t].kind /\ task'[t].stage = s /\ task'[t].agent = task[t].agent
         /\ task'[t].vm = task[t].vm /\ task'[t].then = task[t].then /\ task'[t].wait = w
         /\ task'[t].material = task[t].material /\ task'[t].exec = task[t].exec /\ task'[t].todo = task[t].todo
         /\ task'[t].ok = task[t].ok
<1> DEFINE T == [task[t] EXCEPT !.stage = s, !.wait = w]
<1>1. T \in TaskType
  BY Zenon DEF TaskType
<1>2. task' = [task EXCEPT ![t] = T]
  OBVIOUS
<1>3. /\ task' \in [Tasks -> TaskType] /\ task'[t] = T
      /\ \A u \in Tasks \ {t} : task'[u] = task[u]
  <2> HIDE DEF T
  <2> QED BY <1>1, <1>2
<1>4. task[t] \in TaskType
  OBVIOUS
<1> QED BY <1>3, <1>4 DEF Turned, TaskType

WaitEdit(t, s, w) == [task EXCEPT ![t].stage = s, ![t].wait = w]

LEMMA WaitEditIs ==
  ASSUME task \in [Tasks -> TaskType], NEW t \in Tasks, NEW s \in Stages,
         NEW w \in Commands \cup {None}, task' = WaitEdit(t, s, w)
  PROVE  /\ Turned(t)
         /\ task'[t].kind = task[t].kind /\ task'[t].stage = s /\ task'[t].agent = task[t].agent
         /\ task'[t].vm = task[t].vm /\ task'[t].then = task[t].then /\ task'[t].wait = w
         /\ task'[t].material = task[t].material /\ task'[t].exec = task[t].exec /\ task'[t].todo = task[t].todo
         /\ task'[t].ok = task[t].ok
BY EditWait, ZenonT(40) DEF WaitEdit

-----------------------------------------------------------------------------
(* The keyed lock.                                                         *)

LEMMA SequenceFacts ==
  ASSUME NEW S, NEW q \in Seq(S), NEW e \in S
  PROVE  /\ Append(q, e) \in Seq(S) /\ Append(q, e) # <<>>
         /\ \A u : InQueue(Append(q, e), u) <=> InQueue(q, u) \/ u = e
         /\ ~InQueue(q, e) /\ NoTwice(q) => NoTwice(Append(q, e))
         /\ q # <<>> => Head(Append(q, e)) = Head(q) /\ InQueue(q, Head(q)) /\ Head(q) \in S
         /\ q # <<>> => Tail(q) \in Seq(S)
         /\ q # <<>> /\ NoTwice(q) =>
              /\ NoTwice(Tail(q))
              /\ \A u : InQueue(Tail(q), u) <=> InQueue(q, u) /\ u # Head(q)
<1>1. /\ Append(q, e) \in Seq(S) /\ Append(q, e) # <<>> /\ Len(Append(q, e)) = Len(q) + 1
      /\ Append(q, e)[Len(q) + 1] = e /\ Len(q) \in Nat
      /\ \A i \in 1..Len(q) : Append(q, e)[i] = q[i]
  OBVIOUS
<1>2. \A u : InQueue(Append(q, e), u) <=> InQueue(q, u) \/ u = e
  BY <1>1 DEF InQueue
<1>3. ~InQueue(q, e) /\ NoTwice(q) => NoTwice(Append(q, e))
  BY <1>1 DEF InQueue, NoTwice
<1>4. q # <<>> => Head(Append(q, e)) = Head(q) /\ InQueue(q, Head(q)) /\ Head(q) \in S
  BY <1>1 DEF InQueue
<1>5. ASSUME q # <<>>
      PROVE  /\ Tail(q) \in Seq(S) /\ Len(Tail(q)) = Len(q) - 1 /\ Len(q) >= 1
             /\ \A i \in 1..(Len(q) - 1) : Tail(q)[i] = q[i + 1]
             /\ Head(q) = q[1]
  BY <1>5
<1>6. ASSUME q # <<>>, NoTwice(q)
      PROVE  /\ NoTwice(Tail(q))
             /\ \A u : InQueue(Tail(q), u) <=> InQueue(q, u) /\ u # Head(q)
  <2>1. NoTwice(Tail(q))
    BY <1>1, <1>5, <1>6 DEF NoTwice
  <2>2. ASSUME NEW u, InQueue(Tail(q), u)
        PROVE  InQueue(q, u) /\ u # Head(q)
    BY <1>1, <1>5, <1>6, <2>2 DEF NoTwice, InQueue
  <2>3. ASSUME NEW u, InQueue(q, u), u # Head(q)
        PROVE  InQueue(Tail(q), u)
    <3>1. PICK i \in 1..Len(q) : q[i] = u
      BY <2>3 DEF InQueue
    <3>2. i - 1 \in 1..(Len(q) - 1) /\ (i - 1) + 1 = i
      BY <1>1, <1>5, <1>6, <2>3, <3>1
    <3> QED BY <1>5, <1>6, <3>1, <3>2 DEF InQueue
  <2> QED BY <2>1, <2>2, <2>3
<1> QED BY <1>1, <1>2, <1>3, <1>4, <1>5, <1>6

Join(t, a) ==
  /\ task[t].stage \notin InLock /\ task'[t].stage \in Entry /\ task'[t].agent = a
  /\ queue' = Joined(t, a)

Move(t) ==
  /\ Holds(t) /\ task[t].stage \in InLock /\ task'[t].stage \in Working
  /\ task'[t].agent = task[t].agent /\ UNCHANGED queue

Leave(t) ==
  /\ Holds(t) /\ task[t].stage \in InLock /\ task'[t].stage \in Free
  /\ task'[t].agent = task[t].agent /\ queue' = Left(t)

Quiet(t) == task[t].stage \in Free /\ task'[t].stage \in Free /\ UNCHANGED queue

LockKept == /\ queue' \in [Agents -> Seq(Tasks)]
            /\ Queues' /\ WorkersHold'

LEMMA JoinKeeps ==
  ASSUME Typed, Queues, WorkersHold, NEW t \in Tasks, NEW a \in Agents, Turned(t), Join(t, a)
  PROVE  LockKept
<1>1. /\ queue[a] \in Seq(Tasks) /\ queue \in [Agents -> Seq(Tasks)]
      /\ queue' = [queue EXCEPT ![a] = Append(queue[a], t)]
  BY DEF Typed, Join, Joined
<1> DEFINE q == Append(queue[a], t)
<1>2. /\ q \in Seq(Tasks) /\ q # <<>>
      /\ \A u : InQueue(q, u) <=> InQueue(queue[a], u) \/ u = t
      /\ ~InQueue(queue[a], t) /\ NoTwice(queue[a]) => NoTwice(q)
      /\ queue[a] # <<>> => Head(q) = Head(queue[a])
  BY <1>1, SequenceFacts
<1> HIDE DEF q
<1>3. /\ queue' \in [Agents -> Seq(Tasks)] /\ queue'[a] = q
      /\ \A b \in Agents \ {a} : queue'[b] = queue[b]
  BY <1>1, <1>2 DEF q
<1>4. ~InQueue(queue[a], t) /\ NoTwice(queue[a])
  BY DEF Queues, Join
<1>5. Queues'
  BY <1>2, <1>3, <1>4 DEF Queues, Join, Turned, InLock
<1>6. WorkersHold'
  <2> SUFFICES ASSUME NEW u \in Tasks, task'[u].stage \in Working
               PROVE  Holds(u)'
    BY DEF WorkersHold
  <2>1. u # t
    BY DEF Join, Entry, Working
  <2>2. task'[u] = task[u] /\ Holds(u)
    BY <2>1 DEF Turned, WorkersHold
  <2> QED BY <1>2, <1>3, <2>2 DEF Holds
<1> QED BY <1>3, <1>5, <1>6 DEF LockKept

LEMMA MoveKeeps ==
  ASSUME Typed, Queues, WorkersHold, NEW t \in Tasks, Turned(t), Move(t)
  PROVE  LockKept
<1>1. queue' \in [Agents -> Seq(Tasks)]
  BY DEF Typed, Move
<1>2. Queues'
  BY DEF Queues, Move, Turned, InLock
<1>3. WorkersHold'
  BY DEF WorkersHold, Holds, Move, Turned
<1> QED BY <1>1, <1>2, <1>3 DEF LockKept

LEMMA LeaveKeeps ==
  ASSUME Typed, Queues, WorkersHold, NEW t \in Tasks, Turned(t), Leave(t)
  PROVE  LockKept
<1> DEFINE a == task[t].agent
           q == Tail(queue[a])
<1>1. /\ a \in Agents /\ queue[a] # <<>> /\ Head(queue[a]) = t /\ queue[a] \in Seq(Tasks)
      /\ queue \in [Agents -> Seq(Tasks)] /\ queue' = [queue EXCEPT ![a] = q]
  BY DEF Typed, Leave, Left, Holds
<1>2. NoTwice(queue[a])
  BY <1>1 DEF Queues
<1>3. /\ q \in Seq(Tasks) /\ NoTwice(q)
      /\ \A u : InQueue(q, u) <=> InQueue(queue[a], u) /\ u # t
  BY <1>1, <1>2, SequenceFacts
<1> HIDE DEF q
<1>4. /\ queue' \in [Agents -> Seq(Tasks)] /\ queue'[a] = q
      /\ \A b \in Agents \ {a} : queue'[b] = queue[b]
  BY <1>1, <1>3
<1>5. Queues'
  <2> SUFFICES ASSUME NEW b \in Agents
               PROVE  /\ NoTwice(queue'[b])
                      /\ \A u \in Tasks : InQueue(queue'[b], u) <=>
                           task'[u].agent = b /\ task'[u].stage \in InLock
    BY DEF Queues
  <2>1. NoTwice(queue'[b])
    BY <1>3, <1>4 DEF Queues
  <2>2. /\ task'[t].stage \notin InLock
        /\ \A u \in Tasks \ {t} : task'[u] = task[u]
        /\ \A u \in Tasks : InQueue(queue[b], u) <=> task[u].agent = b /\ task[u].stage \in InLock
    BY DEF Queues, Leave, Turned, InLock, Free, Entry, Working
  <2>3. \A u \in Tasks : InQueue(queue'[b], u) <=> InQueue(queue[b], u) /\ u # t
    BY <1>1, <1>3, <1>4, <2>2
  <2> QED BY <2>1, <2>2, <2>3
<1>6. WorkersHold'
  <2> SUFFICES ASSUME NEW u \in Tasks, task'[u].stage \in Working
               PROVE  Holds(u)'
    BY DEF WorkersHold
  <2>1. u # t
    BY DEF Leave, Free, Working
  <2>2. task'[u] = task[u] /\ Holds(u)
    BY <2>1 DEF Turned, WorkersHold
  <2> QED BY <1>1, <1>4, <2>1, <2>2 DEF Holds
<1> QED BY <1>4, <1>5, <1>6 DEF LockKept

LEMMA QuietKeeps ==
  ASSUME Typed, Queues, WorkersHold, NEW t \in Tasks, Turned(t), Quiet(t)
  PROVE  LockKept
<1>1. queue' \in [Agents -> Seq(Tasks)]
  BY DEF Typed, Quiet
<1>2. Queues'
  BY DEF Queues, Quiet, Turned, InLock, Free, Entry, Working
<1>3. WorkersHold'
  BY DEF WorkersHold, Holds, Quiet, Turned, Free, Working
<1> QED BY <1>1, <1>2, <1>3 DEF LockKept
-----------------------------------------------------------------------------
(* What the steps do to calls, slots, VMs and records.                     *)

\* Nothing but the stage of t changes.
ToStage(t, s) ==
  /\ Turned(t) /\ task'[t].stage = s
  /\ task'[t].kind = task[t].kind /\ task'[t].agent = task[t].agent /\ task'[t].vm = task[t].vm
  /\ task'[t].then = task[t].then /\ task'[t].wait = task[t].wait
  /\ task'[t].material = task[t].material /\ task'[t].exec = task[t].exec
  /\ task'[t].todo = task[t].todo /\ task'[t].ok = task[t].ok

\* The lock section of t ends.
Ends(t, ok) ==
  /\ Turned(t)
  /\ task'[t].stage = IF task[t].kind = "close" THEN "next" ELSE "done"
  /\ task'[t].ok = (task[t].ok /\ ok)
  /\ task'[t].kind = task[t].kind /\ task'[t].agent = task[t].agent /\ task'[t].vm = task[t].vm
  /\ task'[t].then = task[t].then /\ task'[t].wait = task[t].wait
  /\ task'[t].material = task[t].material /\ task'[t].exec = task[t].exec
  /\ task'[t].todo = task[t].todo
  /\ queue' = Left(t)
  /\ reserved' = IF task[t].kind = "acquire" THEN reserved \ {task[t].agent} ELSE reserved
  /\ finished' = IF t \in Commands THEN finished \cup {t} ELSE finished

SlotBecomes(a, l) ==
  /\ live' \in [Agents -> LiveType] /\ live'[a] = l
  /\ \A b \in Agents \ {a} : live'[b] = live[b]

RecordBecomes(a, r) ==
  /\ record' \in [Agents -> RecordType] /\ record'[a] = r
  /\ \A b \in Agents \ {a} : record'[b] = record[b]

VmBecomes(v, s) ==
  /\ vm' \in [Commands -> VmType]
  /\ \A w \in Commands \ {v} : vm'[w] = vm[w]
  /\ vm'[v].state = s /\ vm'[v].agent = vm[v].agent /\ vm'[v].material = vm[v].material

LEMMA StagedIs ==
  ASSUME Typed, NEW t \in Tasks, NEW s \in Stages, task' = Staged(t, s)
  PROVE  ToStage(t, s)
BY EditStage DEF ToStage, Staged, Typed

LEMMA EndIs ==
  ASSUME Typed, NEW t \in Tasks, NEW ok \in BOOLEAN, End(t, ok)
  PROVE  Ends(t, ok)
<1> DEFINE s == IF task[t].kind = "close" THEN "next" ELSE "done"
           o == task[t].ok /\ ok
<1>1. s \in Stages /\ o \in BOOLEAN /\ task \in [Tasks -> TaskType]
  BY DEF Stages, Typed
<1>2. task' = [task EXCEPT ![t].stage = s, ![t].ok = o]
  BY DEF End
<1> HIDE DEF s, o
<1>3. /\ Turned(t) /\ task'[t].stage = s /\ task'[t].ok = o
      /\ task'[t].kind = task[t].kind /\ task'[t].agent = task[t].agent /\ task'[t].vm = task[t].vm
      /\ task'[t].then = task[t].then /\ task'[t].wait = task[t].wait
      /\ task'[t].material = task[t].material /\ task'[t].exec = task[t].exec
      /\ task'[t].todo = task[t].todo
  BY <1>1, <1>2, EditEnded
<1> QED BY <1>3, Zenon DEF s, o, Ends, End

LEMMA SlotSet ==
  ASSUME Typed, NEW a \in Agents, NEW l \in LiveType, live' = [live EXCEPT ![a] = l]
  PROVE  SlotBecomes(a, l)
BY DEF Typed, SlotBecomes

LEMMA NoLiveIs == NoLive \in LiveType /\ NoLive.vm = None /\ NoLive.active = None
BY DEF NoLive, LiveType

LEMMA WrittenIs ==
  ASSUME Typed, NEW t \in Tasks, task[t].agent \in Agents, NEW kind \in RecordKinds,
         record' = Written(t, kind)
  PROVE  RecordBecomes(task[t].agent, RecordOf(t, kind))
<1>1. RecordOf(t, kind) \in RecordType
  <2>1. task[t].vm \in Commands \cup {None}
    BY DEF Typed, TaskType
  <2>2. (kind \in NamesIdentity) \in BOOLEAN
    OBVIOUS
  <2> QED BY <2>1, <2>2 DEF RecordOf, RecordType
<1> DEFINE r == RecordOf(t, kind)
<1>2. record \in [Agents -> RecordType] /\ record' = [record EXCEPT ![task[t].agent] = r]
  BY DEF Typed, Written
<1> HIDE DEF r
<1> QED BY <1>1, <1>2 DEF RecordBecomes, r

LEMMA DeletedIs ==
  ASSUME Typed, NEW a \in Agents, record' = Deleted(a)
  PROVE  RecordBecomes(a, NoRecord)
<1>1. NoRecord \in RecordType
  BY DEF NoRecord, RecordType, RecordKinds
<1> QED BY <1>1 DEF RecordBecomes, Deleted, Typed

LEMMA RecordOfIs ==
  ASSUME NEW t, NEW kind
  PROVE  /\ RecordOf(t, kind).kind = kind
         /\ RecordOf(t, kind).vm = IF kind \in {"reserved", "creation-started"} THEN None
                                   ELSE task[t].vm
BY DEF RecordOf

LEMMA VmStateIs ==
  ASSUME Typed, NEW v \in Commands, NEW s \in VmStates, vm' = [vm EXCEPT ![v].state = s]
  PROVE  VmBecomes(v, s)
<1> DEFINE m == [vm[v] EXCEPT !.state = s]
<1>1. /\ m \in VmType /\ m.state = s /\ m.agent = vm[v].agent /\ m.material = vm[v].material
  BY DEF Typed, VmType
<1>2. vm' = [vm EXCEPT ![v] = m] /\ vm \in [Commands -> VmType]
  BY DEF Typed
<1> HIDE DEF m
<1> QED BY <1>1, <1>2 DEF VmBecomes

\* Fencing an agent whose VM could not be terminated writes a record by hand.
LEMMA FencedIs ==
  ASSUME Typed, NEW t \in Tasks, task[t].agent \in Agents,
         record' = [Written(t, "owner-unsafe") EXCEPT ![task[t].agent].identity = TRUE]
  PROVE  \E r \in RecordType : /\ RecordBecomes(task[t].agent, r)
                               /\ r.kind = "owner-unsafe" /\ r.vm = task[t].vm
<1> DEFINE a == task[t].agent
           r == [RecordOf(t, "owner-unsafe") EXCEPT !.identity = TRUE]
<1>1. r \in RecordType /\ r.kind = "owner-unsafe" /\ r.vm = task[t].vm
  <2>1. task[t].vm \in Commands \cup {None}
    BY DEF Typed, TaskType
  <2> QED BY <2>1 DEF RecordOf, RecordType, RecordKinds
<1>2. record' = [record EXCEPT ![a] = r] /\ record \in [Agents -> RecordType]
  BY DEF Written, Typed
<1> HIDE DEF r
<1>3. RecordBecomes(a, r)
  BY <1>1, <1>2 DEF RecordBecomes
<1> QED BY <1>1, <1>3
-----------------------------------------------------------------------------
(* The first layer: calls, the lock and the reservations.                  *)

\* The type of everything that is not a call or a queue.
Others ==
  /\ up \in BOOLEAN /\ crashes \in 0..MaxCrashes /\ closed \in BOOLEAN
  /\ recovering \subseteq Agents /\ reserved \subseteq Agents
  /\ known \subseteq Agents /\ unsafe \subseteq Agents
  /\ live \in [Agents -> LiveType]
  /\ retireAfter \subseteq Commands /\ finished \subseteq Commands
  /\ vm \in [Commands -> VmType]
  /\ record \in [Agents -> RecordType]
  /\ material \in 0..MaxMaterial

\* A step of the call t, as the lock and the reservations see it.
CallStep(t) ==
  /\ up /\ up' /\ Turned(t) /\ CallShape(t)'
  /\ (\E a \in Agents : Join(t, a)) \/ Move(t) \/ Leave(t) \/ Quiet(t)
  /\ \/ /\ reserved' = reserved
        /\ Acquiring(t)' => Acquiring(t) /\ task'[t].agent = task[t].agent
     \/ /\ Acquiring(t) /\ ~Acquiring(t)'
        /\ reserved' = reserved \ {task[t].agent}
     \/ /\ task'[t].agent \notin reserved
        /\ reserved' = reserved \cup {task'[t].agent}

LEMMA TaskIsEither == /\ \A t \in Tasks : t \in Commands \/ t \in Admins
                      /\ \A t \in Commands : t \in Tasks /\ t \notin Admins
                      /\ \A t \in Admins : t \in Tasks /\ t \notin Commands
                      /\ None \notin Agents /\ None \notin Commands
BY RuntimeAssumption DEF Tasks

LEMMA CallStepKeeps ==
  ASSUME CallsInv, NEW t \in Tasks, CallStep(t), Others'
  PROVE  CallsInv'
<1>1. LockKept
  <2>1. Typed /\ Queues /\ WorkersHold /\ Turned(t)
    BY DEF CallsInv, CallStep
  <2>2. CASE \E a \in Agents : Join(t, a)
    BY <2>1, <2>2, JoinKeeps
  <2>3. CASE Move(t)
    BY <2>1, <2>3, MoveKeeps
  <2>4. CASE Leave(t)
    BY <2>1, <2>4, LeaveKeeps
  <2>5. CASE Quiet(t)
    BY <2>1, <2>5, QuietKeeps
  <2> QED BY <2>2, <2>3, <2>4, <2>5 DEF CallStep
<1>2. Typed'
  BY <1>1 DEF Typed, Others, CallStep, Turned, LockKept
<1>3. DownIsIdle'
  BY DEF DownIsIdle, CallStep
<1>4. \A u \in Tasks : CallShape(u)'
  <2> SUFFICES ASSUME NEW u \in Tasks, u # t
               PROVE  CallShape(u)'
    BY DEF CallStep
  <2>1. task'[u] = task[u] /\ CallShape(u)
    BY DEF CallStep, Turned, CallsInv
  <2> QED BY <2>1 DEF CallShape
<1>5. Reservations'
  <2>1. \A c \in Commands : c # t => (Acquiring(c)' <=> Acquiring(c)) /\ task'[c] = task[c]
    BY TaskIsEither DEF CallStep, Turned, Acquiring
  <2>2. Reservations
    BY DEF CallsInv
  <2>3. CASE /\ reserved' = reserved
             /\ Acquiring(t)' => Acquiring(t) /\ task'[t].agent = task[t].agent
    BY <2>1, <2>2, <2>3 DEF Reservations
  <2>4. CASE /\ Acquiring(t) /\ ~Acquiring(t)'
             /\ reserved' = reserved \ {task[t].agent}
    <3>1. t \in Commands
      BY <2>4, TaskIsEither DEF CallsInv, CallShape, Acquiring, InLock, Entry, Working
    <3> QED BY <2>1, <2>2, <2>4, <3>1 DEF Reservations
  <2>5. CASE /\ task'[t].agent \notin reserved
             /\ reserved' = reserved \cup {task'[t].agent}
    BY <2>1, <2>2, <2>5 DEF Reservations
  <2> QED BY <2>3, <2>4, <2>5 DEF CallStep
<1> QED BY <1>1, <1>2, <1>3, <1>4, <1>5 DEF CallsInv, LockKept

LEMMA HolderMoves ==
  ASSUME CallsInv, NEW t \in Tasks, NEW s0 \in InLock, At(t, s0), NEW s \in Working,
         ToStage(t, s), UNCHANGED <<up, queue, reserved>>,
         t \in Commands => /\ task[t].kind = "acquire" => s # "idling"
                           /\ task[t].kind = "complete" =>
                                s \in {"idling", "retiring", "terminating", "clearing"},
         t \in Admins => s \in {"retiring", "terminating", "clearing"},
         task[t].then = "reserving" => s \in {"retiring", "terminating", "clearing"}
  PROVE  CallStep(t)
<1>1. /\ up /\ up' /\ Turned(t) /\ Move(t) /\ task[t].stage = s0 /\ CallShape(t)
      /\ task[t].agent \in Agents
  BY DEF At, ToStage, Move, CallsInv, Holds
<1>2. CallShape(t)'
  BY <1>1, TaskIsEither DEF CallShape, ToStage, InLock, Entry, Working
<1>3. Acquiring(t)' => Acquiring(t) /\ task'[t].agent = task[t].agent
  BY <1>1 DEF Acquiring, ToStage
<1> QED BY <1>1, <1>2, <1>3 DEF CallStep

LEMMA HolderEnds ==
  ASSUME CallsInv, NEW t \in Tasks, NEW s0 \in InLock, At(t, s0), NEW ok, Ends(t, ok),
         UNCHANGED up
  PROVE  CallStep(t)
<1>1. /\ up /\ up' /\ Turned(t) /\ task[t].stage = s0 /\ CallShape(t) /\ Holds(t)
      /\ task'[t].stage \in {"next", "done"}
  BY DEF At, Ends, CallsInv
<1>2. Leave(t)
  BY <1>1 DEF Leave, Ends, Free
<1>3. CallShape(t)'
  BY <1>1, TaskIsEither DEF CallShape, Ends, InLock, Entry, Working
<1>4. ~Acquiring(t)' /\ (Acquiring(t) <=> task[t].kind = "acquire")
  BY <1>1 DEF Acquiring, InLock, Entry, Working
<1> QED BY <1>1, <1>2, <1>3, <1>4 DEF CallStep, Ends
LEMMA HolderFacts ==
  ASSUME CallsInv, NEW t \in Tasks, NEW s, At(t, s)
  PROVE  /\ up /\ task[t].stage = s /\ Holds(t) /\ task[t].agent \in Agents
         /\ Typed /\ CallShape(t)
BY DEF At, Holds, CallsInv

LEMMA EndsTyped ==
  ASSUME Typed, NEW t \in Tasks, NEW ok, Ends(t, ok)
  PROVE  reserved' \subseteq Agents /\ finished' \subseteq Commands
BY DEF Ends, Typed

LEMMA RecordKindsAre ==
  /\ {"retiring", "owner-unsafe", "contained-terminal", "reserved", "creation-started", "vm-created",
      "identity-published", "current-active", "current-idle", "absent"} = RecordKinds
  /\ {"none", "created", "running", "exited", "gone"} = VmStates
BY DEF RecordKinds, NamesIdentity, VmStates

\* The steps of a retirement.
LEMMA RetirementCalls ==
  ASSUME CallsInv, NEW t \in Tasks,
         \/ WriteRetiring(t) \/ Terminated(t) \/ NotTerminated(t) \/ Closed(t) \/ NotClosed(t)
         \/ Cleared(t) \/ NotCleared(t)
  PROVE  CallStep(t) /\ Others'
<1>1. Typed /\ CallShape(t) /\ Others
  BY DEF CallsInv, Typed, Others
<1>2. CASE WriteRetiring(t)
  <2>1. /\ At(t, "retiring") /\ ToStage(t, "terminating") /\ UNCHANGED <<queue, reserved, up>>
        /\ task[t].agent \in Agents
    BY <1>1, <1>2, StagedIs, HolderFacts DEF WriteRetiring, Stay, Stages
  <2>2. CallStep(t)
    BY <2>1, HolderMoves DEF InLock, Working
  <2>3. record' \in [Agents -> RecordType]
    BY <1>1, <1>2, <2>1, WrittenIs, RecordKindsAre DEF WriteRetiring, RecordBecomes, Typed
  <2> QED BY <1>1, <1>2, <2>2, <2>3 DEF WriteRetiring, Stay, Others
<1>3. CASE Terminated(t)
  <2>1. /\ At(t, "terminating") /\ ToStage(t, "clearing") /\ UNCHANGED <<queue, reserved, up>>
        /\ task[t].agent \in Agents
    BY <1>1, <1>3, StagedIs, HolderFacts DEF Terminated, Stay, Stages
  <2>2. CallStep(t)
    BY <2>1, HolderMoves DEF InLock, Working
  <2>3. live' \in [Agents -> LiveType]
    BY <1>1, <1>3, <2>1, NoLiveIs DEF Terminated, Typed
  <2>4. vm' \in [Commands -> VmType]
    <3>1. CASE task[t].vm \in Commands
      BY <1>1, <1>3, <3>1, VmStateIs, RecordKindsAre DEF Terminated, VmBecomes
    <3>2. CASE task[t].vm \notin Commands
      BY <1>1, <1>3, <3>2 DEF Terminated, Typed
    <3> QED BY <3>1, <3>2
  <2> QED BY <1>1, <1>3, <2>2, <2>3, <2>4 DEF Terminated, Stay, Others
<1>4. CASE NotTerminated(t)
  <2>1. At(t, "terminating") /\ Ends(t, FALSE) /\ UNCHANGED up /\ task[t].agent \in Agents
    BY <1>1, <1>4, EndIs, HolderFacts DEF NotTerminated
  <2>2. CallStep(t)
    BY <2>1, HolderEnds DEF InLock, Working
  <2>3. live' \in [Agents -> LiveType]
    BY <1>1, <1>4, <2>1, NoLiveIs DEF NotTerminated, Typed
  <2>4. vm' \in [Commands -> VmType]
    <3>1. CASE task[t].vm \in Commands
      BY <1>1, <1>4, <3>1, VmStateIs, RecordKindsAre DEF NotTerminated, VmBecomes, Typed
    <3>2. CASE task[t].vm \notin Commands
      BY <1>1, <1>4, <3>2 DEF NotTerminated, Typed
    <3> QED BY <3>1, <3>2
  <2>5. record' \in [Agents -> RecordType]
    BY <1>1, <1>4, <2>1, FencedIs DEF NotTerminated, RecordBecomes, Typed
  <2>6. unsafe' \subseteq Agents
    BY <1>1, <1>4, <2>1 DEF NotTerminated, Typed
  <2> QED BY <1>1, <1>4, <2>1, <2>2, <2>3, <2>4, <2>5, <2>6, EndsTyped DEF NotTerminated, Others
<1>5. CASE Closed(t)
  <2>1. /\ At(t, "containing") /\ UNCHANGED up /\ task[t].agent \in Agents /\ t \in Commands
        /\ task[t].kind = "acquire" /\ task[t].then = "done"
    BY <1>1, <1>5, HolderFacts, TaskIsEither DEF Closed, CallShape, Typed, TaskType
  <2>2. CallStep(t) /\ reserved' \subseteq Agents /\ finished' \subseteq Commands
    <3>1. CASE task' = Staged(t, "clearing") /\ Stay
      <4>1. ToStage(t, "clearing") /\ UNCHANGED <<queue, reserved, up>>
        BY <1>1, <1>5, <3>1, StagedIs DEF Closed, Stay, Stages
      <4> QED BY <1>1, <2>1, <3>1, <4>1, HolderMoves, TaskIsEither DEF InLock, Working, Stay, Typed
    <3>2. CASE End(t, TRUE)
      <4>1. Ends(t, TRUE)
        BY <1>1, <3>2, EndIs
      <4> QED BY <1>1, <2>1, <4>1, HolderEnds, EndsTyped DEF InLock, Working
    <3> QED BY <1>5, <3>1, <3>2 DEF Closed
  <2>3. vm' \in [Commands -> VmType]
    <3>1. CASE task[t].vm \in Commands
      BY <1>1, <1>5, <3>1, VmStateIs, RecordKindsAre DEF Closed, VmBecomes
    <3>2. CASE task[t].vm \notin Commands
      BY <1>1, <1>5, <3>2 DEF Closed, Typed
    <3> QED BY <3>1, <3>2
  <2> QED BY <1>1, <1>5, <2>2, <2>3 DEF Closed, Others
<1>6. CASE NotClosed(t)
  <2>1. At(t, "containing") /\ Ends(t, FALSE) /\ UNCHANGED up /\ task[t].agent \in Agents
    BY <1>1, <1>6, EndIs, HolderFacts DEF NotClosed
  <2>2. CallStep(t)
    BY <2>1, HolderEnds DEF InLock, Working
  <2>3. record' \in [Agents -> RecordType]
    BY <1>1, <1>6, <2>1, WrittenIs, RecordKindsAre DEF NotClosed, RecordBecomes, Typed
  <2>4. unsafe' \subseteq Agents
    BY <1>1, <1>6, <2>1 DEF NotClosed, Typed
  <2> QED BY <1>1, <1>6, <2>1, <2>2, <2>3, <2>4, EndsTyped DEF NotClosed, Others
<1>7. CASE Cleared(t)
  <2>1. At(t, "clearing") /\ UNCHANGED up /\ task[t].agent \in Agents
    BY <1>1, <1>7, HolderFacts DEF Cleared
  <2>2. CallStep(t) /\ reserved' \subseteq Agents /\ finished' \subseteq Commands
    <3>1. CASE task[t].then = "reserving"
      <4>1. /\ UNCHANGED <<queue, reserved, finished>>
            /\ task' = [task EXCEPT ![t].stage = "reserving", ![t].then = "done"]
        BY <1>7, <3>1 DEF Cleared, Stay
      <4>2. /\ Turned(t) /\ task'[t].stage = "reserving" /\ task'[t].then = "done"
            /\ task'[t].kind = task[t].kind /\ task'[t].agent = task[t].agent
            /\ task'[t].exec = task[t].exec
        BY <1>1, <4>1, EditThen DEF Typed, Stages
      <4>3. t \in Commands /\ task[t].kind = "acquire" /\ task[t].stage = "clearing" /\ Holds(t) /\ up
        BY <1>1, <2>1, <3>1, TaskIsEither, HolderFacts DEF CallShape
      <4>4. CallShape(t)' /\ Move(t) /\ (Acquiring(t)' => Acquiring(t))
        BY <1>1, <2>1, <4>1, <4>2, <4>3, TaskIsEither
        DEF CallShape, Move, Acquiring, InLock, Entry, Working
      <4> QED BY <1>1, <2>1, <4>1, <4>2, <4>3, <4>4 DEF CallStep, Typed
    <3>2. CASE task[t].then # "reserving"
      <4>1. Ends(t, TRUE)
        BY <1>1, <1>7, <3>2, EndIs DEF Cleared
      <4> QED BY <1>1, <2>1, <4>1, HolderEnds, EndsTyped DEF InLock, Working
    <3> QED BY <3>1, <3>2
  <2>3. record' \in [Agents -> RecordType]
    BY <1>1, <1>7, <2>1, DeletedIs DEF Cleared, RecordBecomes
  <2> QED BY <1>1, <1>7, <2>2, <2>3 DEF Cleared, Others
<1>8. CASE NotCleared(t)
  <2>1. At(t, "clearing") /\ Ends(t, FALSE) /\ UNCHANGED up /\ task[t].agent \in Agents
    BY <1>1, <1>8, EndIs, HolderFacts DEF NotCleared
  <2>2. CallStep(t)
    BY <2>1, HolderEnds DEF InLock, Working
  <2>3. record' \in [Agents -> RecordType]
    BY <1>1, <1>8, <2>1, WrittenIs, DeletedIs, RecordKindsAre DEF NotCleared, RecordBecomes, Typed
  <2>4. unsafe' \subseteq Agents
    BY <1>1, <1>8, <2>1 DEF NotCleared, Typed
  <2> QED BY <1>1, <1>8, <2>1, <2>2, <2>3, <2>4, EndsTyped DEF NotCleared, Others
<1> QED BY <1>2, <1>3, <1>4, <1>5, <1>6, <1>7, <1>8
\* An edit of the holder's call that is more than a change of stage.
LEMMA HolderEdits ==
  ASSUME CallsInv, NEW t \in Tasks, NEW s0 \in InLock, At(t, s0), Turned(t),
         task'[t].stage \in Working, task'[t].kind = task[t].kind,
         task'[t].agent = task[t].agent, CallShape(t)', UNCHANGED <<up, queue, reserved>>
  PROVE  CallStep(t)
<1>1. up /\ up' /\ Move(t)
  BY DEF At, Move
<1>2. Acquiring(t)' => Acquiring(t)
  BY DEF Acquiring, At
<1> QED BY <1>1, <1>2 DEF CallStep

\* The steps of an acquisition.
LEMMA AcquireCalls ==
  ASSUME CallsInv, NEW c \in Commands, NEW a \in Agents, Acquire(c, a)
  PROVE  CallStep(c) /\ Others'
<1>1. Typed /\ CallShape(c) /\ Others /\ c \in Tasks
  BY TaskIsEither DEF CallsInv, Typed, Others
<1>2. /\ Turned(c) /\ task'[c].stage = "entered" /\ task'[c].agent = a
      /\ task'[c].kind = task[c].kind /\ task'[c].then = task[c].then
      /\ task'[c].exec = task[c].exec
  <2>1. /\ task' = [task EXCEPT ![c].stage = "entered", ![c].agent = a]
        /\ task \in [Tasks -> TaskType] /\ "entered" \in Stages
    BY <1>1 DEF Acquire, Typed, Stages
  <2> QED BY <1>1, <2>1, EditAgent
<1>3. CallShape(c)' /\ Join(c, a) /\ up /\ up'
  BY <1>1, <1>2, TaskIsEither DEF Acquire, CallShape, Join, InLock, Entry, Working, IdleTask
<1> QED BY <1>1, <1>2, <1>3 DEF CallStep, Acquire, SlotFree, Others

LEMMA AcquisitionCalls ==
  ASSUME CallsInv, NEW c \in Commands,
         \/ Materialize(c) \/ Probe(c) \/ WriteIntent(c) \/ Create(c) \/ WriteCreated(c)
         \/ Start(c) \/ Identify(c) \/ WriteIdentity(c) \/ Authorize(c) \/ WriteActive(c)
  PROVE  CallStep(c) /\ Others'
<1>1. Typed /\ CallShape(c) /\ Others /\ c \in Tasks /\ c \notin Admins
  BY TaskIsEither DEF CallsInv, Typed, Others
<1>2. CASE Materialize(c)
  <2>1. At(c, "entered") /\ UNCHANGED up
    BY <1>2 DEF Materialize
  <2>2. CallStep(c) /\ reserved' \subseteq Agents /\ finished' \subseteq Commands
    <3>1. CASE Stay /\ task' = [task EXCEPT ![c].stage = "probing", ![c].material = material]
      <4>1. /\ Turned(c) /\ task'[c].stage = "probing" /\ task'[c].kind = task[c].kind
            /\ task'[c].agent = task[c].agent /\ task'[c].then = task[c].then
            /\ task'[c].exec = task[c].exec
        BY <1>1, <3>1, EditMaterial, ZenonT(60) DEF Typed, Stages
      <4>2. CallShape(c)'
        BY <1>1, <2>1, <4>1, HolderFacts DEF CallShape, InLock, Entry, Working
      <4> QED BY <1>1, <2>1, <3>1, <4>1, <4>2, HolderEdits DEF InLock, Entry, Working, Stay, Typed
    <3>2. CASE End(c, TRUE)
      <4>1. Ends(c, TRUE)
        BY <1>1, <3>2, EndIs
      <4> QED BY <1>1, <2>1, <4>1, HolderEnds, EndsTyped DEF InLock, Entry
    <3> QED BY <1>2, <3>1, <3>2 DEF Materialize
  <2> QED BY <1>1, <1>2, <2>2 DEF Materialize, Others
<1>3. CASE Probe(c)
  <2> DEFINE v == live[task[c].agent].vm
  <2>1. /\ At(c, "probing") /\ UNCHANGED <<up, queue, reserved>> /\ task[c].agent \in Agents
        /\ v \in Commands \cup {None}
    BY <1>1, <1>3, HolderFacts DEF Probe, Stay, Typed, LiveType
  <2>2. CallStep(c)
    <3>1. CASE task' = Staged(c, "reserving")
      <4>1. ToStage(c, "reserving")
        BY <1>1, <3>1, StagedIs DEF Stages
      <4> QED BY <1>1, <2>1, <4>1, HolderMoves, HolderFacts DEF InLock, Working, CallShape
    <3>2. CASE task' = [task EXCEPT ![c].stage = "authorizing", ![c].vm = v]
      <4>1. /\ Turned(c) /\ task'[c].stage = "authorizing" /\ task'[c].kind = task[c].kind
            /\ task'[c].agent = task[c].agent /\ task'[c].then = task[c].then
            /\ task'[c].exec = task[c].exec
        <5>1. task \in [Tasks -> TaskType] /\ "authorizing" \in Stages
          BY <1>1 DEF Typed, Stages
        <5> HIDE DEF v
        <5> QED BY <1>1, <2>1, <3>2, <5>1, EditVm
      <4>2. CallShape(c)'
        BY <1>1, <2>1, <4>1, HolderFacts DEF CallShape, InLock, Entry, Working
      <4> QED BY <1>1, <2>1, <4>1, <4>2, HolderEdits DEF InLock, Entry, Working
    <3>3. CASE task' = [task EXCEPT ![c].stage = "retiring", ![c].vm = v, ![c].then = "reserving"]
      <4>1. /\ Turned(c) /\ task'[c].stage = "retiring" /\ task'[c].kind = task[c].kind
            /\ task'[c].agent = task[c].agent /\ task'[c].then = "reserving"
            /\ task'[c].exec = task[c].exec
        <5>1. task \in [Tasks -> TaskType] /\ "retiring" \in Stages
          BY <1>1 DEF Typed, Stages
        <5>2. task' = VmThenEdit(c, "retiring", v, "reserving")
          BY <3>3 DEF VmThenEdit
        <5> HIDE DEF v
        <5> QED BY <1>1, <2>1, <5>1, <5>2, VmThenEditIs
      <4>2. CallShape(c)'
        BY <1>1, <2>1, <4>1, HolderFacts DEF CallShape, InLock, Entry, Working
      <4> QED BY <1>1, <2>1, <4>1, <4>2, HolderEdits DEF InLock, Entry, Working
    <3> QED BY <1>3, <3>1, <3>2, <3>3 DEF Probe
  <2> QED BY <1>1, <1>3, <2>2 DEF Probe, Stay, Others
<1>4. CASE WriteIntent(c)
  <2>1. PICK step \in {<<"reserving", "reserved", "intending">>,
                       <<"intending", "creation-started", "creating">>} :
          /\ At(c, step[1])
          /\ \/ record' = Written(c, step[2]) /\ task' = Staged(c, step[3]) /\ Stay
             \/ record' \in {record, Written(c, step[2])} /\ End(c, TRUE)
    BY <1>4 DEF WriteIntent
  <2>2. /\ step[1] \in {"reserving", "intending"} /\ step[3] \in {"intending", "creating"}
        /\ step[2] \in RecordKinds
    BY <2>1, RecordKindsAre
  <2>3. /\ task[c].agent \in Agents /\ task[c].kind = "acquire" /\ task[c].then = "done"
        /\ task[c].stage = step[1] /\ UNCHANGED up
    BY <1>1, <1>4, <2>1, <2>2, HolderFacts DEF WriteIntent, CallShape, Typed, TaskType
  <2>4. CallStep(c) /\ reserved' \subseteq Agents /\ finished' \subseteq Commands
    <3>1. CASE task' = Staged(c, step[3]) /\ Stay
      <4>1. ToStage(c, step[3])
        BY <1>1, <2>2, <3>1, StagedIs DEF Stages
      <4>2. step[1] \in InLock /\ step[3] \in Working /\ step[3] # "idling"
        BY <2>2 DEF InLock, Working
      <4>3. UNCHANGED <<up, queue, reserved>>
        BY <2>3, <3>1 DEF Stay
      <4>4. CallStep(c)
        BY <1>1, <2>1, <2>3, <4>1, <4>2, <4>3, HolderMoves
      <4> QED BY <1>1, <3>1, <4>4 DEF Stay, Typed
    <3>2. CASE End(c, TRUE)
      <4>1. Ends(c, TRUE)
        BY <1>1, <3>2, EndIs
      <4>2. step[1] \in InLock
        BY <2>2 DEF InLock, Working
      <4> QED BY <1>1, <2>1, <2>3, <4>1, <4>2, HolderEnds, EndsTyped
    <3> QED BY <2>1, <3>1, <3>2
  <2>5. record' \in [Agents -> RecordType]
    BY <1>1, <2>1, <2>2, <2>3, WrittenIs DEF RecordBecomes, Typed
  <2> QED BY <1>1, <1>4, <2>4, <2>5 DEF WriteIntent, Others
<1>5. CASE Create(c)
  <2>1. At(c, "creating") /\ UNCHANGED up /\ task[c].agent \in Agents /\ task[c].then = "done"
    BY <1>1, <1>5, HolderFacts DEF Create, CallShape, Typed, TaskType
  <2>2. CASE /\ vm' = [vm EXCEPT ![c] = [state |-> "created", agent |-> task[c].agent,
                                         material |-> task[c].material]]
             /\ task' = [task EXCEPT ![c].stage = "created", ![c].vm = c]
             /\ Stay /\ UNCHANGED record
    <3>1. /\ Turned(c) /\ task'[c].stage = "created" /\ task'[c].kind = task[c].kind
          /\ task'[c].agent = task[c].agent /\ task'[c].then = task[c].then
          /\ task'[c].exec = task[c].exec
      BY <1>1, <2>2, EditVm, ZenonT(60) DEF Typed, Stages
    <3>2. CallShape(c)'
      BY <1>1, <2>1, <3>1, HolderFacts DEF CallShape, InLock, Entry, Working
    <3>3. CallStep(c)
      BY <1>1, <2>1, <2>2, <3>1, <3>2, HolderEdits DEF InLock, Entry, Working, Stay
    <3>4. vm' \in [Commands -> VmType]
      <4>1. task[c].material \in 0..MaxMaterial
        BY <1>1 DEF Typed, TaskType
      <4> QED BY <1>1, <2>1, <2>2, <4>1, RecordKindsAre DEF VmType, Typed
    <3> QED BY <1>1, <1>5, <2>2, <3>3, <3>4 DEF Create, Others, Stay
  <2>3. CASE record' \in {record, Deleted(task[c].agent)} /\ End(c, TRUE) /\ UNCHANGED vm
    <3>1. Ends(c, TRUE)
      BY <1>1, <2>3, EndIs
    <3>2. CallStep(c)
      BY <1>1, <2>1, <3>1, HolderEnds DEF InLock, Working
    <3>3. record' \in [Agents -> RecordType]
      BY <1>1, <2>1, <2>3, DeletedIs DEF RecordBecomes, Typed
    <3> QED BY <1>1, <1>5, <2>3, <3>1, <3>2, <3>3, EndsTyped DEF Create, Others
  <2> QED BY <1>5, <2>2, <2>3 DEF Create
<1>6. CASE WriteCreated(c)
  <2>1. /\ At(c, "created") /\ UNCHANGED <<up, queue, reserved>> /\ task[c].agent \in Agents
        /\ \E s \in {"starting", "containing"} : ToStage(c, s)
    BY <1>1, <1>6, HolderFacts, StagedIs DEF WriteCreated, Stay, Stages
  <2>2. CallStep(c)
    BY <1>1, <2>1, HolderMoves, HolderFacts DEF InLock, Working, CallShape
  <2>3. record' \in [Agents -> RecordType]
    BY <1>1, <1>6, <2>1, WrittenIs, RecordKindsAre DEF WriteCreated, RecordBecomes, Typed
  <2> QED BY <1>1, <1>6, <2>2, <2>3 DEF WriteCreated, Stay, Others
<1>7. CASE Start(c)
  <2>1. /\ At(c, "starting") /\ UNCHANGED <<up, queue, reserved>>
        /\ \E s \in {"identifying", "containing"} : ToStage(c, s)
    BY <1>1, <1>7, StagedIs DEF Start, Stay, Stages
  <2>2. CallStep(c)
    BY <1>1, <2>1, HolderMoves, HolderFacts DEF InLock, Working, CallShape
  <2>3. vm' \in [Commands -> VmType]
    BY <1>1, <1>7, VmStateIs, RecordKindsAre DEF Start, VmBecomes, Typed
  <2> QED BY <1>1, <1>7, <2>2, <2>3 DEF Start, Stay, Others
<1>8. CASE Identify(c)
  <2>1. /\ At(c, "identifying") /\ UNCHANGED <<up, queue, reserved>>
        /\ \E s \in {"publishing", "containing"} : ToStage(c, s)
    BY <1>1, <1>8, StagedIs DEF Identify, Stay, Stages
  <2>2. CallStep(c)
    BY <1>1, <2>1, HolderMoves, HolderFacts DEF InLock, Working, CallShape
  <2> QED BY <1>1, <1>8, <2>2 DEF Identify, Stay, Others
<1>9. CASE WriteIdentity(c)
  <2>1. /\ At(c, "publishing") /\ UNCHANGED <<up, queue, reserved>> /\ task[c].agent \in Agents
        /\ \E s \in {"authorizing", "retiring"} : ToStage(c, s)
    BY <1>1, <1>9, HolderFacts, StagedIs DEF WriteIdentity, Stay, Stages
  <2>2. CallStep(c)
    BY <1>1, <2>1, HolderMoves, HolderFacts DEF InLock, Working, CallShape
  <2>3. record' \in [Agents -> RecordType]
    BY <1>1, <1>9, <2>1, WrittenIs, RecordKindsAre DEF WriteIdentity, RecordBecomes, Typed
  <2> QED BY <1>1, <1>9, <2>2, <2>3 DEF WriteIdentity, Stay, Others
<1>10. CASE Authorize(c)
  <2>1. /\ At(c, "authorizing") /\ UNCHANGED <<up, queue, reserved>> /\ task[c].agent \in Agents
        /\ \E s \in {"activating", "retiring"} : ToStage(c, s)
    BY <1>1, <1>10, HolderFacts, StagedIs DEF Authorize, Stay, Stages
  <2>2. CallStep(c)
    BY <1>1, <2>1, HolderMoves, HolderFacts DEF InLock, Working, CallShape
  <2>3. \E l \in LiveType : live' = [live EXCEPT ![task[c].agent] = l]
    <3>1. /\ [vm |-> task[c].vm, active |-> c] \in LiveType
          /\ [vm |-> task[c].vm, active |-> None] \in LiveType
      BY <1>1 DEF LiveType, Typed, TaskType
    <3> QED BY <1>10, <3>1 DEF Authorize
  <2>4. live' \in [Agents -> LiveType]
    BY <1>1, <2>1, <2>3 DEF Typed
  <2> QED BY <1>1, <1>10, <2>2, <2>4 DEF Authorize, Stay, Others
<1>11. CASE WriteActive(c)
  <2>1. At(c, "activating") /\ UNCHANGED up /\ task[c].agent \in Agents
    BY <1>1, <1>11, HolderFacts DEF WriteActive
  <2>2. record' \in [Agents -> RecordType]
    BY <1>1, <1>11, <2>1, WrittenIs, RecordKindsAre DEF WriteActive, RecordBecomes, Typed
  <2>3. CASE /\ task' = Staged(c, "held") /\ queue' = Left(c)
             /\ reserved' = reserved \ {task[c].agent} /\ UNCHANGED <<live, finished>>
    <3>1. ToStage(c, "held")
      BY <1>1, <2>3, StagedIs DEF Stages
    <3>2. Leave(c) /\ CallShape(c)' /\ Acquiring(c) /\ ~Acquiring(c)' /\ up /\ up'
      BY <1>1, <2>1, <2>3, <3>1, HolderFacts
      DEF Leave, CallShape, Acquiring, ToStage, InLock, Entry, Working, Free
    <3> QED BY <1>1, <1>11, <2>2, <2>3, <3>1, <3>2 DEF CallStep, Others, WriteActive, ToStage
  <2>4. CASE /\ live' = [live EXCEPT ![task[c].agent].active = None]
             /\ finished' = finished \cup {c} /\ task' = Staged(c, "retiring")
             /\ UNCHANGED <<queue, reserved>>
    <3>1. ToStage(c, "retiring")
      BY <1>1, <2>4, StagedIs DEF Stages
    <3>2. CallStep(c)
      BY <1>1, <2>1, <2>4, <3>1, HolderMoves, HolderFacts DEF InLock, Working, CallShape
    <3>3. live' \in [Agents -> LiveType]
      BY <1>1, <2>1, <2>4 DEF Typed, LiveType
    <3> QED BY <1>1, <1>11, <2>2, <2>4, <3>2, <3>3 DEF Others, WriteActive
  <2> QED BY <1>11, <2>3, <2>4 DEF WriteActive
<1> QED BY <1>2, <1>3, <1>4, <1>5, <1>6, <1>7, <1>8, <1>9, <1>10, <1>11
\* The handle of a command.
LEMMA HandleCalls ==
  ASSUME CallsInv, NEW c \in Commands,
         Exec(c) \/ ExecSettles(c) \/ Complete(c) \/ Completing(c) \/ WriteIdle(c)
  PROVE  CallStep(c) /\ Others'
<1>1. Typed /\ CallShape(c) /\ Others /\ c \in Tasks /\ c \notin Admins
  BY TaskIsEither DEF CallsInv, Typed, Others
<1>2. CASE Exec(c) \/ ExecSettles(c)
  <2>1. /\ up /\ task[c].stage = "held" /\ UNCHANGED <<up, queue, reserved>>
        /\ \E e \in {"running", "settled"} : task' = [task EXCEPT ![c].exec = e]
    BY <1>1, <1>2 DEF Exec, ExecSettles, CallShape, memory
  <2>2. PICK e \in {"running", "settled"} : task' = [task EXCEPT ![c].exec = e]
    BY <2>1
  <2>3. /\ Turned(c) /\ task'[c].stage = task[c].stage /\ task'[c].kind = task[c].kind
        /\ task'[c].agent = task[c].agent /\ task'[c].then = task[c].then
        /\ task'[c].exec = e
    BY <1>1, <2>2, EditExec DEF Typed
  <2>4. CallShape(c)' /\ Quiet(c) /\ ~Acquiring(c)'
    BY <1>1, <2>1, <2>3 DEF CallShape, Quiet, Free, Acquiring, InLock, Entry, Working
  <2> QED BY <1>1, <1>2, <2>1, <2>3, <2>4 DEF CallStep, Others, Exec, ExecSettles, memory
<1>3. CASE Complete(c)
  <2>1. /\ up /\ task[c].stage = "held" /\ UNCHANGED <<up, reserved>>
        /\ task' = [task EXCEPT ![c].stage = "completing", ![c].kind = "complete"]
        /\ queue' = Joined(c, task[c].agent) /\ task[c].agent \in Agents
        /\ task[c].kind = "acquire" /\ task[c].then = "done" /\ task[c].exec # "running"
    BY <1>1, <1>3 DEF Complete, CallShape, memory, Typed, TaskType
  <2>2. /\ Turned(c) /\ task'[c].stage = "completing" /\ task'[c].kind = "complete"
        /\ task'[c].agent = task[c].agent /\ task'[c].then = task[c].then
        /\ task'[c].exec = task[c].exec
    <3>1. task \in [Tasks -> TaskType] /\ "completing" \in Stages /\ "complete" \in Kinds
      BY <1>1 DEF Typed, Stages, Kinds
    <3> QED BY <1>1, <2>1, <3>1, EditKind, ZenonT(60)
  <2>3. CallShape(c)' /\ Join(c, task[c].agent) /\ ~Acquiring(c)'
    BY <1>1, <2>1, <2>2 DEF CallShape, Join, Acquiring, InLock, Entry, Working
  <2> QED BY <1>1, <1>3, <2>1, <2>2, <2>3 DEF CallStep, Others, Complete, memory
<1>4. CASE Completing(c)
  <2>1. /\ At(c, "completing") /\ UNCHANGED up /\ task[c].agent \in Agents
        /\ task[c].kind = "complete" /\ task[c].then = "done"
    BY <1>1, <1>4, HolderFacts DEF Completing, CallShape, Typed, TaskType
  <2>2. CASE End(c, TRUE) /\ UNCHANGED live
    <3>1. Ends(c, TRUE)
      BY <1>1, <2>2, EndIs
    <3>2. CallStep(c)
      BY <1>1, <2>1, <3>1, HolderEnds DEF InLock, Entry
    <3> QED BY <1>1, <1>4, <2>2, <3>1, <3>2, EndsTyped DEF Completing, Others
  <2>3. CASE /\ live' = [live EXCEPT ![task[c].agent].active = None]
             /\ \E s \in {"retiring", "idling"} : task' = Staged(c, s)
             /\ Stay
    <3>1. \E s \in {"retiring", "idling"} : ToStage(c, s)
      BY <1>1, <2>3, StagedIs DEF Stages
    <3>2. CallStep(c)
      BY <1>1, <2>1, <2>3, <3>1, HolderMoves DEF InLock, Entry, Working, Stay
    <3>3. live' \in [Agents -> LiveType]
      BY <1>1, <2>1, <2>3 DEF Typed, LiveType
    <3> QED BY <1>1, <1>4, <2>3, <3>2, <3>3 DEF Others, Completing, Stay
  <2> QED BY <1>4, <2>2, <2>3 DEF Completing
<1>5. CASE WriteIdle(c)
  <2>1. /\ At(c, "idling") /\ UNCHANGED up /\ task[c].agent \in Agents
        /\ task[c].kind = "complete" /\ task[c].then = "done"
    BY <1>1, <1>5, HolderFacts DEF WriteIdle, CallShape, Typed, TaskType
  <2>2. record' \in [Agents -> RecordType]
    BY <1>1, <1>5, <2>1, WrittenIs, RecordKindsAre DEF WriteIdle, RecordBecomes, Typed
  <2>3. CASE End(c, TRUE)
    <3>1. Ends(c, TRUE)
      BY <1>1, <2>3, EndIs
    <3>2. CallStep(c)
      BY <1>1, <2>1, <3>1, HolderEnds DEF InLock, Working
    <3> QED BY <1>1, <1>5, <2>2, <3>1, <3>2, EndsTyped DEF WriteIdle, Others
  <2>4. CASE task' = Staged(c, "retiring") /\ Stay
    <3>1. ToStage(c, "retiring")
      BY <1>1, <2>4, StagedIs DEF Stages
    <3>2. CallStep(c)
      BY <1>1, <2>1, <2>4, <3>1, HolderMoves DEF InLock, Working, Stay
    <3> QED BY <1>1, <1>5, <2>2, <2>4, <3>2 DEF WriteIdle, Others, Stay
  <2> QED BY <1>5, <2>3, <2>4 DEF WriteIdle
<1> QED BY <1>2, <1>3, <1>4, <1>5

\* The administrative calls.
LEMMA AdminKindsAre ==
  ASSUME NEW kind \in AdminKinds
  PROVE  kind \in Kinds /\ kind \notin {"acquire", "complete"}
BY RuntimeAssumption DEF Kinds

LEMMA BeginCalls ==
  ASSUME CallsInv, NEW t \in Admins,
         \/ BeginClose(t) \/ \E a \in Agents, kind \in AdminKinds : BeginAdmin(t, kind, a)
  PROVE  CallStep(t) /\ Others'
<1>1. Typed /\ CallShape(t) /\ Others /\ t \in Tasks /\ t \notin Commands
  BY TaskIsEither DEF CallsInv, Typed, Others
<1>2. CASE BeginClose(t)
  <2>1. /\ up /\ task[t].stage = "idle" /\ UNCHANGED <<up, queue, reserved>>
        /\ task' = [task EXCEPT ![t].kind = "close", ![t].stage = "next", ![t].todo = known]
        /\ task[t] = IdleTask
    BY <1>1, <1>2 DEF BeginClose, memory, CallShape
  <2>2. /\ Turned(t) /\ task'[t].stage = "next" /\ task'[t].kind = "close"
        /\ task'[t].agent = task[t].agent /\ task'[t].then = task[t].then
        /\ task'[t].exec = task[t].exec
    BY <1>1, <1>2, EditClose
  <2>3. CallShape(t)' /\ Quiet(t) /\ ~Acquiring(t)'
    BY <1>1, <2>1, <2>2 DEF CallShape, Quiet, Free, Acquiring, InLock, Entry, Working, IdleTask
  <2> QED BY <1>1, <1>2, <2>1, <2>2, <2>3 DEF CallStep, Others, BeginClose, memory
<1>3. ASSUME NEW a \in Agents, NEW kind \in AdminKinds, BeginAdmin(t, kind, a)
      PROVE  CallStep(t) /\ Others'
  <2>1. /\ up /\ task[t].stage = "idle" /\ UNCHANGED <<up, reserved>> /\ kind # "close"
        /\ task' = [task EXCEPT ![t] = [@ EXCEPT !.kind = kind, !.stage = "first", !.agent = a,
                                                 !.material = material]]
        /\ task[t] = IdleTask /\ queue' = Joined(t, a)
    BY <1>1, <1>3 DEF BeginAdmin, memory, CallShape
  <2>2. /\ Turned(t) /\ task'[t].stage = "first" /\ task'[t].kind = kind
        /\ task'[t].agent = a /\ task'[t].then = task[t].then
        /\ task'[t].exec = task[t].exec
    BY <1>1, <1>3, EditAdmin
  <2>3. CallShape(t)' /\ Join(t, a) /\ ~Acquiring(t)'
    BY <1>1, <2>1, <2>2, AdminKindsAre
    DEF CallShape, Join, Acquiring, InLock, Entry, Working, IdleTask
  <2>4. CallStep(t)
    BY <2>1, <2>2, <2>3 DEF CallStep
  <2>5. Others'
    BY <1>1, <1>3 DEF Others, BeginAdmin, memory
  <2> QED BY <2>4, <2>5
<1> QED BY <1>2, <1>3

LEMMA AdminCalls ==
  ASSUME CallsInv, NEW t \in Admins, CloseNext(t) \/ First(t) \/ AwaitFinished(t) \/ Second(t)
  PROVE  CallStep(t) /\ Others'
<1>1. /\ Typed /\ CallShape(t) /\ Others /\ t \in Tasks /\ t \notin Commands
      /\ task \in [Tasks -> TaskType] /\ task[t] \in TaskType
  BY TaskIsEither DEF CallsInv, Typed, Others
<1>2. CASE CloseNext(t)
  <2>1. up /\ task[t].kind = "close" /\ task[t].stage = "next" /\ UNCHANGED <<up, reserved>>
    BY <1>2 DEF CloseNext, memory
  <2>2. CASE task' = Staged(t, "done") /\ UNCHANGED queue
    <3>1. ToStage(t, "done")
      BY <1>1, <2>2, StagedIs DEF Stages
    <3>2. CallShape(t)' /\ Quiet(t) /\ ~Acquiring(t)' /\ Turned(t)
      BY <1>1, <2>1, <2>2, <3>1
      DEF ToStage, CallShape, Quiet, Free, Acquiring, InLock, Entry, Working
    <3>3. CallStep(t)
      BY <2>1, <3>2 DEF CallStep
    <3>4. Others'
      BY <1>1, <1>2 DEF Others, CloseNext, memory
    <3> QED BY <3>3, <3>4
  <2>3. ASSUME NEW a \in task[t].todo,
               task' = [task EXCEPT ![t].stage = "first", ![t].agent = a, ![t].todo = @ \ {a}],
               queue' = Joined(t, a)
        PROVE  CallStep(t) /\ Others'
    <3>1. a \in Agents /\ task[t].todo \ {a} \in SUBSET Agents /\ "first" \in Stages
      BY <1>1 DEF TaskType, Stages
    <3>2. /\ Turned(t) /\ task'[t].stage = "first" /\ task'[t].kind = task[t].kind
          /\ task'[t].agent = a /\ task'[t].then = task[t].then /\ task'[t].exec = task[t].exec
      BY <1>1, <2>3, EditTodo
    <3>3. CallShape(t)' /\ Join(t, a) /\ ~Acquiring(t)'
      BY <1>1, <2>1, <2>3, <3>1, <3>2 DEF CallShape, Join, Acquiring, InLock, Entry, Working
    <3>4. CallStep(t)
      BY <2>1, <3>1, <3>2, <3>3 DEF CallStep
    <3>5. Others'
      BY <1>1, <1>2 DEF Others, CloseNext, memory
    <3> QED BY <3>4, <3>5
  <2> QED BY <1>2, <2>2, <2>3 DEF CloseNext
<1>3. CASE AwaitFinished(t)
  <2>1. /\ up /\ task[t].stage = "waiting" /\ UNCHANGED <<up, reserved>>
        /\ queue' = Joined(t, task[t].agent) /\ ToStage(t, "second") /\ task[t].agent \in Agents
    BY <1>1, <1>3, StagedIs DEF AwaitFinished, memory, Stages, CallShape
  <2>2. CallShape(t)' /\ Join(t, task[t].agent) /\ ~Acquiring(t)' /\ Turned(t)
    BY <1>1, <2>1 DEF ToStage, CallShape, Join, Acquiring, InLock, Entry, Working
  <2> QED BY <1>1, <1>3, <2>1, <2>2 DEF CallStep, Others, AwaitFinished, memory
<1>4. CASE First(t)
  <2> DEFINE a == task[t].agent
             v == live[a].vm
             c == live[a].active
  <2>1. /\ At(t, "first") /\ UNCHANGED up /\ a \in Agents
        /\ v \in Commands \cup {None} /\ c \in Commands \cup {None}
        /\ task[t].kind \notin {"acquire", "complete"}
    BY <1>1, <1>4, HolderFacts, ZenonT(60) DEF First, Typed, LiveType, CallShape
  <2>2. retireAfter' \subseteq Commands
    BY <1>1, <1>4, <2>1 DEF First, Concerns, Typed
  <2>3. CASE End(t, ~(a \in unsafe))
    <3>1. Ends(t, ~(a \in unsafe))
      BY <1>1, <2>3, EndIs
    <3>2. CallStep(t)
      BY <1>1, <2>1, <3>1, HolderEnds DEF InLock, Entry
    <3> QED BY <1>1, <1>4, <2>2, <3>1, <3>2, EndsTyped DEF First, Others
  <2>4. ASSUME NEW w \in {c, None}, task[t].kind \in {"force-retire", "invalidate", "close"},
               task' = [task EXCEPT ![t].stage = "waiting", ![t].wait = w],
               queue' = Left(t), UNCHANGED <<reserved, finished>>
        PROVE  CallStep(t) /\ Others'
    <3>1. /\ Turned(t) /\ task'[t].stage = "waiting" /\ task'[t].kind = task[t].kind
          /\ task'[t].agent = task[t].agent /\ task'[t].then = task[t].then
          /\ task'[t].exec = task[t].exec
      <4>1. w \in Commands \cup {None} /\ "waiting" \in Stages
        BY <2>1 DEF Stages
      <4> QED BY <1>1, <2>4, <4>1, EditWait
    <3>2. CallShape(t)' /\ Leave(t) /\ ~Acquiring(t)' /\ up /\ up'
      BY <1>1, <2>1, <2>4, <3>1, HolderFacts
      DEF CallShape, Leave, Acquiring, InLock, Entry, Working, Free
    <3> QED BY <1>1, <1>4, <2>2, <2>4, <3>1, <3>2 DEF CallStep, Others, First
  <2>5. CASE task' = [task EXCEPT ![t].stage = "retiring", ![t].vm = v] /\ Stay
    <3>1. /\ Turned(t) /\ task'[t].stage = "retiring" /\ task'[t].kind = task[t].kind
          /\ task'[t].agent = task[t].agent /\ task'[t].then = task[t].then
          /\ task'[t].exec = task[t].exec
      <4>1. "retiring" \in Stages
        BY DEF Stages
      <4> HIDE DEF v
      <4> QED BY <1>1, <2>1, <2>5, <4>1, EditVm
    <3>2. CallShape(t)'
      BY <1>1, <2>1, <3>1, HolderFacts DEF CallShape, InLock, Entry, Working
    <3>3. CallStep(t)
      BY <1>1, <2>1, <2>5, <3>1, <3>2, HolderEdits DEF InLock, Entry, Working, Stay
    <3> QED BY <1>1, <1>4, <2>2, <2>5, <3>3 DEF Others, First, Stay
  <2> QED BY <1>4, <2>3, <2>4, <2>5 DEF First
<1>5. CASE Second(t)
  <2> DEFINE a == task[t].agent
             v == live[a].vm
  <2>1. At(t, "second") /\ UNCHANGED up /\ a \in Agents /\ v \in Commands \cup {None}
    BY <1>1, <1>5, HolderFacts DEF Second, Typed, LiveType
  <2>2. CASE End(t, a \notin unsafe)
    <3>1. Ends(t, a \notin unsafe)
      BY <1>1, <2>2, EndIs
    <3>2. CallStep(t)
      BY <1>1, <2>1, <3>1, HolderEnds DEF InLock, Entry
    <3> QED BY <1>1, <1>5, <3>1, <3>2, EndsTyped DEF Second, Others
  <2>3. CASE task' = [task EXCEPT ![t].stage = "retiring", ![t].vm = v] /\ Stay
    <3>1. /\ Turned(t) /\ task'[t].stage = "retiring" /\ task'[t].kind = task[t].kind
          /\ task'[t].agent = task[t].agent /\ task'[t].then = task[t].then
          /\ task'[t].exec = task[t].exec
      <4>1. "retiring" \in Stages
        BY DEF Stages
      <4> HIDE DEF v
      <4> QED BY <1>1, <2>1, <2>3, <4>1, EditVm
    <3>2. CallShape(t)'
      BY <1>1, <2>1, <3>1, HolderFacts DEF CallShape, InLock, Entry, Working
    <3>3. CallStep(t)
      BY <1>1, <2>1, <2>3, <3>1, <3>2, HolderEdits DEF InLock, Entry, Working, Stay
    <3> QED BY <1>1, <1>5, <2>3, <3>3 DEF Others, Second, Stay
  <2> QED BY <1>5, <2>2, <2>3 DEF Second
<1> QED BY <1>2, <1>3, <1>4, <1>5
\* The steps of the world leave the calls alone, or end them all.
LEMMA CallsAlone ==
  ASSUME CallsInv, UNCHANGED <<task, queue, reserved>>, Others',
         ~up' => ~up /\ closed' = closed /\ known' = known /\ live' = live
  PROVE  CallsInv'
<1>1. Typed'
  BY DEF CallsInv, Typed, Others
<1>2. Queues' /\ WorkersHold'
  BY DEF CallsInv, Queues, WorkersHold, Holds
<1>3. DownIsIdle'
  BY DEF CallsInv, DownIsIdle
<1>4. \A t \in Tasks : CallShape(t)'
  BY DEF CallsInv, CallShape
<1>5. Reservations'
  BY DEF CallsInv, Reservations, Acquiring
<1> QED BY <1>1, <1>2, <1>3, <1>4, <1>5 DEF CallsInv

LEMMA CrashTask ==
  ASSUME CallsInv, Crash, NEW t \in Tasks
  PROVE  /\ task'[t] \in TaskType
         /\ task'[t].stage = IF task[t].stage = "idle" THEN "idle" ELSE "done"
         /\ task[t].stage \in {"idle", "done"} => task'[t] = task[t]
         /\ task[t].stage \notin {"idle", "done"} => task'[t].ok = FALSE
         /\ task'[t].kind = task[t].kind /\ task'[t].agent = task[t].agent
         /\ task'[t].then = task[t].then /\ task'[t].vm = task[t].vm
         /\ task'[t].material = task[t].material /\ task'[t].exec # "running"
         /\ task'[t].todo = task[t].todo /\ task'[t].wait = task[t].wait
<1> DEFINE T == task[t]
<1>1. task'[t] = IF T.stage \in {"idle", "done"} THEN T
                 ELSE [T EXCEPT !.stage = "done", !.exec = "settled", !.ok = FALSE]
  BY DEF Crash
<1>2. T \in TaskType /\ (T.exec = "running" => T.stage = "held")
  BY DEF CallsInv, Typed, CallShape
<1> HIDE DEF T
<1>3. [T EXCEPT !.stage = "done", !.exec = "settled", !.ok = FALSE] \in TaskType
  BY <1>2, ZenonT(60) DEF TaskType, Stages
<1>4. CASE T.stage \in {"idle", "done"}
  BY <1>1, <1>2, <1>4 DEF T
<1>5. CASE T.stage \notin {"idle", "done"}
  <2>1. task'[t] = [T EXCEPT !.stage = "done", !.exec = "settled", !.ok = FALSE]
    BY <1>1, <1>5
  <2> QED BY <1>2, <1>3, <1>5, <2>1 DEF T, TaskType
<1> QED BY <1>4, <1>5

LEMMA CrashVms ==
  ASSUME CallsInv, Crash
  PROVE  /\ vm' \in [Commands -> VmType]
         /\ \A v \in Commands :
              /\ vm'[v].agent = vm[v].agent /\ vm'[v].material = vm[v].material
              /\ vm'[v].state = IF vm[v].state = "created" THEN "gone" ELSE vm[v].state
<1>1. vm \in [Commands -> VmType]
  BY DEF CallsInv, Typed
<1>2. \A v \in Commands :
        vm'[v] = IF vm[v].state = "created" THEN [vm[v] EXCEPT !.state = "gone"] ELSE vm[v]
  BY DEF Crash
<1>3. \A m \in VmType : /\ [m EXCEPT !.state = "gone"] \in VmType
                        /\ [m EXCEPT !.state = "gone"].agent = m.agent
                        /\ [m EXCEPT !.state = "gone"].material = m.material
                        /\ [m EXCEPT !.state = "gone"].state = "gone"
  BY DEF VmType, VmStates
<1>4. vm' = [v \in Commands |-> vm'[v]]
  BY DEF Crash
<1>5. \A v \in Commands : vm'[v] \in VmType
  BY <1>1, <1>2, <1>3
<1>6. vm' \in [Commands -> VmType]
  BY <1>4, <1>5
<1>7. ASSUME NEW v \in Commands
      PROVE  /\ vm'[v].agent = vm[v].agent /\ vm'[v].material = vm[v].material
             /\ vm'[v].state = IF vm[v].state = "created" THEN "gone" ELSE vm[v].state
  <2>1. vm[v] \in VmType
    BY <1>1
  <2>2. CASE vm[v].state = "created"
    <3>1. vm'[v] = [vm[v] EXCEPT !.state = "gone"]
      BY <1>2, <2>2
    <3> QED BY <1>3, <2>1, <2>2, <3>1
  <2>3. CASE vm[v].state # "created"
    <3>1. vm'[v] = vm[v]
      BY <1>2, <2>3
    <3> QED BY <2>3, <3>1
  <2> QED BY <2>2, <2>3
<1> QED BY <1>6, <1>7

LEMMA CrashCalls ==
  ASSUME CallsInv, Crash
  PROVE  CallsInv'
<1>1. \A t \in Tasks : /\ task'[t] \in TaskType
                       /\ task'[t].stage \in {"idle", "done"}
  BY CrashTask
<1>2. task' \in [Tasks -> TaskType]
  <2>1. task' = [t \in Tasks |-> task'[t]]
    BY DEF Crash
  <2> QED BY <1>1, <2>1
<1>3. queue' \in [Agents -> Seq(Tasks)] /\ \A a \in Agents : queue'[a] = << >>
  <2>1. << >> \in Seq(Tasks)
    OBVIOUS
  <2> QED BY <2>1 DEF Crash
<1>4. Typed'
  <2>1. /\ crashes' \in 0..MaxCrashes /\ recovering' \subseteq Agents
        /\ record' \in [Agents -> RecordType] /\ material' \in 0..MaxMaterial
    <3>1. crashes \in 0..MaxCrashes /\ crashes < MaxCrashes /\ crashes' = crashes + 1
      BY DEF Crash, CallsInv, Typed
    <3>2. crashes' \in 0..MaxCrashes
      BY <3>1, RuntimeAssumption
    <3> QED BY <3>2 DEF Crash, CallsInv, Typed
  <2>2. live' \in [Agents -> LiveType]
    BY NoLiveIs DEF Crash
  <2> QED BY <1>2, <1>3, <2>1, <2>2, CrashVms DEF Typed, Crash
<1>5. Queues'
  <2>1. NoTwice(<< >>) /\ \A t : ~InQueue(<< >>, t)
    BY DEF NoTwice, InQueue
  <2> QED BY <1>1, <1>3, <2>1 DEF Queues, InLock, Entry, Working
<1>6. WorkersHold'
  BY <1>1 DEF WorkersHold, Working
<1>7. DownIsIdle'
  BY <1>1 DEF DownIsIdle, Crash
<1>8. \A t \in Tasks : CallShape(t)'
  <2> SUFFICES ASSUME NEW t \in Tasks
               PROVE  CallShape(t)'
    OBVIOUS
  <2>1. CallShape(t)
    BY DEF CallsInv
  <2>2. CASE task[t].stage \in {"idle", "done"}
    BY <2>1, <2>2, CrashTask DEF CallShape
  <2>3. CASE task[t].stage \notin {"idle", "done"}
    BY <2>1, <2>3, CrashTask, ZenonT(60) DEF CallShape, InLock, Entry, Working
  <2> QED BY <2>2, <2>3
<1>9. Reservations'
  BY <1>1, TaskIsEither DEF Reservations, Acquiring, InLock, Entry, Working
<1> QED BY <1>4, <1>5, <1>6, <1>7, <1>8, <1>9 DEF CallsInv

LEMMA WorldCalls ==
  ASSUME CallsInv,
         \/ OpenZone \/ ChangeMaterial \/ Recovered \/ (\E v \in Commands : VmExits(v))
         \/ \E a \in Agents : RecoverRecord(a)
  PROVE  CallsInv'
<1>1. Typed /\ Others
  BY DEF CallsInv, Typed, Others
<1>2. CASE OpenZone
  BY <1>1, <1>2, CallsAlone DEF OpenZone, memory, Others
<1>3. CASE ChangeMaterial
  <2>1. material' \in 0..MaxMaterial
    BY <1>1, <1>3, RuntimeAssumption DEF ChangeMaterial, Typed
  <2>2. Others'
    BY <1>1, <1>3, <2>1 DEF ChangeMaterial, memory, Others
  <2> QED BY <1>3, <2>2, CallsAlone DEF ChangeMaterial, memory
<1>4. CASE Recovered
  BY <1>1, <1>4, CallsAlone DEF Recovered, Others
<1>5. ASSUME NEW v \in Commands, VmExits(v)
      PROVE  CallsInv'
  <2>1. vm' \in [Commands -> VmType]
    BY <1>1, <1>5, VmStateIs, RecordKindsAre DEF VmExits, VmBecomes
  <2> QED BY <1>1, <1>5, <2>1, CallsAlone DEF VmExits, memory, Others
<1>6. ASSUME NEW a \in Agents, RecoverRecord(a)
      PROVE  CallsInv'
  <2>1. /\ \/ record' = Deleted(a)
           \/ record' = [record EXCEPT ![a].kind = "owner-unsafe"]
        /\ UNCHANGED vm \/ vm' = [vm EXCEPT ![record[a].vm].state = "gone"]
        /\ unsafe' \in {unsafe, unsafe \cup {a}} /\ recovering' = recovering \ {a}
    BY <1>6 DEF RecoverRecord
  <2>2. record' \in [Agents -> RecordType]
    <3>1. CASE record' = Deleted(a)
      BY <1>1, <3>1, DeletedIs DEF RecordBecomes
    <3>2. CASE record' = [record EXCEPT ![a].kind = "owner-unsafe"]
      <4>1. [record[a] EXCEPT !.kind = "owner-unsafe"] \in RecordType
        <5>1. record[a] \in RecordType /\ "owner-unsafe" \in RecordKinds
          BY <1>1 DEF Typed, RecordKinds
        <5> QED BY <5>1, Zenon DEF RecordType
      <4> QED BY <1>1, <3>2, <4>1 DEF Typed
    <3> QED BY <2>1, <3>1, <3>2
  <2>3. vm' \in [Commands -> VmType]
    <3>1. CASE record[a].vm \in Commands
      BY <1>1, <2>1, <3>1, VmStateIs, RecordKindsAre DEF VmBecomes, Typed
    <3>2. CASE record[a].vm \notin Commands
      BY <1>1, <2>1, <3>2 DEF Typed
    <3> QED BY <3>1, <3>2
  <2>4. unsafe' \subseteq Agents /\ recovering' \subseteq Agents
    BY <1>1, <2>1 DEF Typed
  <2>5. Others'
    BY <1>1, <1>6, <2>2, <2>3, <2>4 DEF RecoverRecord, Others
  <2> QED BY <1>6, <2>5, CallsAlone DEF RecoverRecord
<1> QED BY <1>2, <1>3, <1>4, <1>5, <1>6

LEMMA CallsStep ==
  ASSUME CallsInv, [Next]_vars
  PROVE  CallsInv'
<1>1. ASSUME NEW t \in Tasks, TaskStep(t)
      PROVE  CallsInv'
  <2>1. CASE \/ WriteRetiring(t) \/ Terminated(t) \/ NotTerminated(t) \/ Closed(t) \/ NotClosed(t)
             \/ Cleared(t) \/ NotCleared(t)
    BY <2>1, RetirementCalls, CallStepKeeps
  <2>2. CASE /\ t \in Commands
             /\ \/ Materialize(t) \/ Probe(t) \/ WriteIntent(t) \/ Create(t) \/ WriteCreated(t)
                \/ Start(t) \/ Identify(t) \/ WriteIdentity(t) \/ Authorize(t) \/ WriteActive(t)
    BY <2>2, AcquisitionCalls, CallStepKeeps
  <2>3. CASE t \in Commands /\ (ExecSettles(t) \/ Complete(t) \/ Completing(t) \/ WriteIdle(t))
    BY <2>3, HandleCalls, CallStepKeeps
  <2>4. CASE t \in Admins /\ (CloseNext(t) \/ First(t) \/ AwaitFinished(t) \/ Second(t))
    BY <2>4, AdminCalls, CallStepKeeps
  <2> QED BY <1>1, <2>1, <2>2, <2>3, <2>4 DEF TaskStep
<1>2. ASSUME NEW c \in Commands, Exec(c) \/ VmExits(c) \/ \E a \in Agents : Acquire(c, a)
      PROVE  CallsInv'
  BY <1>2, HandleCalls, AcquireCalls, WorldCalls, CallStepKeeps, TaskIsEither
<1>3. ASSUME NEW t \in Admins,
             \/ BeginClose(t) \/ \E a \in Agents, kind \in AdminKinds : BeginAdmin(t, kind, a)
      PROVE  CallsInv'
  BY <1>3, BeginCalls, CallStepKeeps, TaskIsEither
<1>4. CASE OpenZone \/ ChangeMaterial \/ Recovered \/ \E a \in Agents : RecoverRecord(a)
  BY <1>4, WorldCalls
<1>5. CASE UNCHANGED vars
  BY <1>5, CallsAlone DEF vars, memory, CallsInv, Typed, Others
<1> QED BY <1>1, <1>2, <1>3, <1>4, <1>5, CrashCalls DEF Next

LEMMA CallsStart ==
  ASSUME Init
  PROVE  CallsInv
<1>1. IdleTask \in TaskType
  BY RuntimeAssumption DEF IdleTask, TaskType, Kinds, Stages
<1>2. Typed
  <2>1. /\ NoLive \in LiveType /\ NoVm \in VmType /\ NoRecord \in RecordType
        /\ 0 \in 0..MaxMaterial /\ 0 \in 0..MaxCrashes
    BY NoLiveIs, RuntimeAssumption
    DEF NoVm, VmType, VmStates, NoRecord, RecordType, RecordKinds
  <2>2. << >> \in Seq(Tasks)
    OBVIOUS
  <2>3. /\ queue \in [Agents -> Seq(Tasks)] /\ task \in [Tasks -> TaskType]
        /\ live \in [Agents -> LiveType] /\ vm \in [Commands -> VmType]
        /\ record \in [Agents -> RecordType]
    BY <1>1, <2>1, <2>2 DEF Init
  <2> QED BY <2>1, <2>3 DEF Init, Typed
<1>3. Queues
  <2>1. NoTwice(<< >>) /\ \A t : ~InQueue(<< >>, t)
    BY DEF NoTwice, InQueue
  <2> QED BY <2>1 DEF Init, Queues, IdleTask, InLock, Entry, Working
<1>4. WorkersHold /\ DownIsIdle
  BY DEF Init, WorkersHold, DownIsIdle, IdleTask, Working
<1>5. \A t \in Tasks : CallShape(t)
  BY DEF Init, CallShape, IdleTask, InLock, Entry, Working
<1>6. Reservations
  BY TaskIsEither DEF Init, Reservations, Acquiring, IdleTask, InLock, Entry, Working
<1> QED BY <1>2, <1>3, <1>4, <1>5, <1>6 DEF CallsInv
-----------------------------------------------------------------------------
(* The second layer: slots, processes and records.                         *)

\* A VM that has not ended is the one its command created, with the material of that command.
MachineOk(v) ==
  /\ vm[v].state \in {"created", "running", "exited"} =>
       /\ vm[v].agent = task[v].agent /\ vm[v].agent \in Agents
       /\ vm[v].material = task[v].material
  /\ \/ task[v].stage \in {"idle", "entered", "probing", "reserving", "intending", "creating"}
     \/ task[v].then = "reserving" /\ task[v].stage \in Working
     => vm[v].state \notin {"created", "running", "exited"}

\* The entry of liveByKey is a VM of the agent and the command it serves.
SlotOk(a) ==
  LET l == live[a] IN
  /\ l.vm = None => l.active = None
  /\ l.vm # None => vm[l.vm].agent = a /\ vm[l.vm].state \in {"running", "exited"}
  /\ l.active # None => /\ task[l.active].agent = a /\ task[l.active].vm = l.vm
                        /\ task[l.active].stage \in {"activating", "held", "completing"}
  /\ a \in unsafe => l.vm = None

InCharge == {"identifying", "publishing", "authorizing", "containing", "retiring", "terminating"}

\* Somebody answers for a running VM: the fence of its agent, liveByKey, or the
\* holder of the agent's lock; while the controller is down, the recovery.
Owned(v) ==
  LET a == vm[v].agent IN
  IF up THEN \/ a \in unsafe \/ live[a].vm = v
             \/ \E t \in Tasks : /\ task[t].agent = a /\ task[t].stage \in InCharge
                                 /\ task[t].vm = v
        ELSE a \in recovering \cup unsafe

RunsOwned == \A v \in Commands : vm[v].state = "running" => Owned(v)
AbsentIsEmpty == \A a \in Agents : record[a].kind = "absent" => record[a].vm = None

\* What the holder of a lock relies on at each of its stages.
WorkOk(t) ==
  LET T == task[t]
      l == live[T.agent]
  IN
  T.stage \in Working =>
    /\ T.agent \notin unsafe
    /\ T.kind = "complete" => l.active = None
    /\ T.stage = "probing" => l.active = None
    /\ T.stage \in {"reserving", "intending", "creating", "created", "starting", "identifying",
                    "publishing", "containing", "clearing"} => l.vm = None
    /\ T.stage \in {"created", "starting"} => vm[t].state = "created"
    /\ T.stage \in {"starting", "identifying", "publishing"} =>
         record[T.agent].vm = t /\ record[T.agent].kind = "vm-created"
    /\ T.stage \in {"created", "starting", "identifying", "publishing", "containing"} => T.vm = t
    /\ T.stage \in {"identifying", "publishing"} => vm[t].state \in {"running", "exited"}
    /\ T.stage = "containing" => vm[t].state \in {"created", "running", "exited"}
    /\ T.stage \in {"authorizing", "activating", "idling", "retiring", "terminating"} =>
         /\ T.vm \in Commands /\ vm[T.vm].agent = T.agent
         /\ vm[T.vm].state \in {"running", "exited"}
    /\ T.stage \in {"authorizing", "retiring", "terminating"} => l.vm \in {None, T.vm}
    /\ T.stage = "authorizing" => l.active = None /\ vm[T.vm].material = T.material
    /\ T.stage = "activating" => l.vm = T.vm /\ l.active = t
    /\ T.stage = "idling" => l.vm = T.vm

AcquiresAlone ==
  \A c \in Commands : Acquiring(c) => live[task[c].agent].active \in {None, c}

MachinesInv ==
  /\ RunningVmIsRecorded /\ AbsentIsEmpty /\ RunsOwned /\ AcquiresAlone
  /\ \A v \in Commands : MachineOk(v)
  /\ \A a \in Agents : SlotOk(a)
  /\ \A t \in Tasks : WorkOk(t)

\* What a lock section of t may touch of the machines.
LockStep(t) ==
  LET a == task[t].agent IN
  /\ up /\ up' /\ Holds(t) /\ Turned(t)
  /\ task'[t].agent = a /\ task'[t].kind = task[t].kind
  /\ \A b \in Agents \ {a} : /\ live'[b] = live[b] /\ record'[b] = record[b]
                             /\ b \in unsafe' <=> b \in unsafe
  /\ \A v \in Commands \ {t} :
       \/ vm'[v] = vm[v]
       \/ /\ vm[v].agent = a /\ vm[v].state \in {"created", "running", "exited"}
          /\ vm'[v].agent = a /\ vm'[v].material = vm[v].material
  /\ live'[a].active \in {None, live[a].active} \/ (Acquiring(t) /\ live'[a].active = t)

LEMMA HolderIsAlone ==
  ASSUME CallsInv, NEW t \in Tasks, Holds(t)
  PROVE  /\ task[t].stage \in InLock /\ task[t].agent \in Agents
         /\ \A u \in Tasks : task[u].stage \in Working /\ task[u].agent = task[t].agent => u = t
<1> DEFINE a == task[t].agent
<1>1. a \in Agents /\ queue[a] # << >> /\ Head(queue[a]) = t /\ queue[a] \in Seq(Tasks)
  BY DEF Holds, CallsInv, Typed
<1>2. InQueue(queue[a], t)
  BY <1>1, SequenceFacts
<1>3. task[t].stage \in InLock
  BY <1>1, <1>2 DEF CallsInv, Queues
<1>4. \A u \in Tasks : task[u].stage \in Working /\ task[u].agent = a => u = t
  BY <1>1 DEF CallsInv, WorkersHold, Holds
<1> QED BY <1>1, <1>3, <1>4

LEMMA MachinesLock ==
  ASSUME CallsInv, MachinesInv, CallsInv', NEW t \in Tasks, LockStep(t),
         NEW a \in Agents, a = task[t].agent,
         SlotOk(a)', WorkOk(t)', t \in Commands => MachineOk(t)',
         record'[a].kind = "absent" => record'[a].vm = None,
         \A v \in Commands :
           vm'[v].state = "running" /\ vm'[v].agent = a =>
             record'[a].vm = v /\ ~Forgettable(record'[a]) /\ Owned(v)'
  PROVE  MachinesInv'
<1>1. /\ a \in Agents /\ task[t].stage \in InLock
      /\ \A u \in Tasks : task[u].stage \in Working /\ task[u].agent = a => u = t
      /\ \A u \in Tasks \ {t} : task'[u] = task[u]
      /\ task'[t].agent = a /\ up /\ up'
  BY HolderIsAlone DEF LockStep, Turned
<1>2. \A v \in Commands :
        vm[v].state \in {"created", "running", "exited"} =>
          vm[v].agent = task[v].agent /\ vm[v].agent \in Agents
  BY DEF MachinesInv, MachineOk
<1>3. ASSUME NEW v \in Commands, vm[v].state \in {"created", "running", "exited"}, vm[v].agent # a
      PROVE  vm'[v] = vm[v] /\ v # t /\ task'[v] = task[v] /\ vm[v].agent \in Agents \ {a}
  <2>1. v # t /\ v \in Tasks /\ vm[v].agent \in Agents \ {a}
    BY <1>2, <1>3, TaskIsEither
  <2> QED BY <1>1, <1>3, <2>1 DEF LockStep
<1>4. ASSUME NEW v \in Commands, vm'[v].state \in {"created", "running", "exited"}, vm'[v].agent # a
      PROVE  vm'[v] = vm[v] /\ v # t /\ vm[v].agent \in Agents \ {a}
  <2>1. v # t
    BY <1>1, <1>4 DEF MachineOk
  <2>2. vm'[v] = vm[v]
    BY <1>4, <2>1 DEF LockStep
  <2> QED BY <1>2, <1>4, <2>1, <2>2
<1>5. RunningVmIsRecorded'
  <2> SUFFICES ASSUME NEW v \in Commands, vm'[v].state = "running", vm'[v].agent # a
               PROVE  /\ record'[vm'[v].agent].vm = v
                      /\ ~Forgettable(record'[vm'[v].agent])
    BY DEF RunningVmIsRecorded
  <2>1. vm'[v] = vm[v] /\ vm[v].agent \in Agents \ {a}
    BY <1>4
  <2>2. record'[vm[v].agent] = record[vm[v].agent]
    BY <2>1 DEF LockStep
  <2> QED BY <2>1, <2>2 DEF MachinesInv, RunningVmIsRecorded
<1>6. AbsentIsEmpty'
  BY DEF AbsentIsEmpty, MachinesInv, LockStep
<1>7. RunsOwned'
  <2> SUFFICES ASSUME NEW v \in Commands, vm'[v].state = "running", vm'[v].agent # a
               PROVE  Owned(v)'
    BY DEF RunsOwned
  <2>1. vm'[v] = vm[v] /\ vm[v].agent \in Agents \ {a} /\ vm[v].state = "running"
    BY <1>4
  <2>2. /\ live'[vm[v].agent] = live[vm[v].agent]
        /\ vm[v].agent \in unsafe' <=> vm[v].agent \in unsafe
    BY <2>1 DEF LockStep
  <2>3. \A u \in Tasks : task[u].agent = vm[v].agent => task'[u] = task[u]
    BY <1>1, <2>1
  <2>4. Owned(v)
    BY <2>1 DEF MachinesInv, RunsOwned
  <2> QED BY <1>1, <2>1, <2>2, <2>3, <2>4 DEF Owned
<1>8. AcquiresAlone'
  <2> SUFFICES ASSUME NEW c \in Commands, Acquiring(c)'
               PROVE  live'[task'[c].agent].active \in {None, c}
    BY DEF AcquiresAlone
  <2>1. c \in Tasks /\ Acquiring(c) /\ task'[c].agent = task[c].agent
    BY <1>1, TaskIsEither DEF Acquiring, LockStep
  <2>2. live[task[c].agent].active \in {None, c} /\ task[c].agent \in Agents
    BY <2>1 DEF MachinesInv, AcquiresAlone, CallsInv, CallShape, Acquiring
  <2>3. CASE task[c].agent # a
    BY <2>1, <2>2, <2>3 DEF LockStep
  <2>4. CASE task[c].agent = a
    <3>1. Acquiring(t) => t = c
      BY <2>1, <2>4, TaskIsEither
      DEF CallsInv, Reservations, CallShape, Acquiring, InLock, Entry, Working
    <3> QED BY <2>1, <2>2, <2>4, <3>1 DEF LockStep
  <2> QED BY <2>3, <2>4
<1>9. \A v \in Commands : MachineOk(v)'
  <2>1. ASSUME NEW v \in Commands, v # t
        PROVE  MachineOk(v)'
    <3>1. task'[v] = task[v] /\ MachineOk(v)
      BY <1>1, <2>1, TaskIsEither DEF MachinesInv
    <3>2. \/ vm'[v] = vm[v]
          \/ /\ vm[v].agent = a /\ vm[v].state \in {"created", "running", "exited"}
             /\ vm'[v].agent = a /\ vm'[v].material = vm[v].material
      BY <2>1 DEF LockStep
    <3> QED BY <3>1, <3>2 DEF MachineOk
  <2> QED BY <2>1
<1>10. \A b \in Agents : SlotOk(b)'
  <2> SUFFICES ASSUME NEW b \in Agents, b # a
               PROVE  SlotOk(b)'
    OBVIOUS
  <2>1. live'[b] = live[b] /\ SlotOk(b) /\ (b \in unsafe' <=> b \in unsafe) /\ live[b] \in LiveType
    BY DEF LockStep, MachinesInv, CallsInv, Typed
  <2>2. ASSUME live[b].vm # None
        PROVE  vm'[live[b].vm] = vm[live[b].vm]
    BY <1>3, <2>1, <2>2 DEF SlotOk, LiveType
  <2>3. ASSUME live[b].active # None
        PROVE  task'[live[b].active] = task[live[b].active]
    BY <1>1, <2>1, <2>3, TaskIsEither DEF SlotOk, LiveType
  <2> QED BY <2>1, <2>2, <2>3 DEF SlotOk
<1>11. \A u \in Tasks : WorkOk(u)'
  <2> SUFFICES ASSUME NEW u \in Tasks, u # t, task'[u].stage \in Working
               PROVE  WorkOk(u)'
    BY DEF WorkOk
  <2> DEFINE b == task[u].agent
  <2>1. task'[u] = task[u] /\ WorkOk(u) /\ CallShape(u)
    BY <1>1 DEF MachinesInv, CallsInv
  <2>2. b \in Agents \ {a}
    BY <1>1, <2>1 DEF CallShape, InLock
  <2>3. live'[b] = live[b] /\ record'[b] = record[b] /\ (b \in unsafe' <=> b \in unsafe)
    BY <2>2 DEF LockStep
  <2>4. ASSUME u \in Commands, vm[u].state \in {"created", "running", "exited"}
        PROVE  vm'[u] = vm[u]
    BY <1>2, <1>3, <2>2, <2>4
  <2>5. ASSUME task[u].stage \in {"authorizing", "activating", "idling", "retiring", "terminating"}
        PROVE  vm'[task[u].vm] = vm[task[u].vm]
    <3>1. /\ task[u].vm \in Commands /\ vm[task[u].vm].agent = b
          /\ vm[task[u].vm].state \in {"created", "running", "exited"}
      BY <2>1, <2>5 DEF WorkOk, Working
    <3> QED BY <1>3, <2>2, <3>1
  <2>6. u \in Commands \/ task[u].stage \in {"retiring", "terminating", "clearing"}
    BY <2>1, TaskIsEither DEF CallShape, Working
  <2> QED BY <2>1, <2>2, <2>3, <2>4, <2>5, <2>6 DEF WorkOk
<1> QED BY <1>5, <1>6, <1>7, <1>8, <1>9, <1>10, <1>11 DEF MachinesInv
LEMMA RunningUnderLock ==
  ASSUME CallsInv, MachinesInv, NEW t \in Tasks, Holds(t), up,
         NEW v \in Commands, vm[v].state = "running", vm[v].agent = task[t].agent
  PROVE  /\ record[task[t].agent].vm = v /\ ~Forgettable(record[task[t].agent])
         /\ task[t].stage \notin {"reserving", "intending", "creating", "created", "starting",
                                  "clearing"}
         /\ task[t].stage \in {"identifying", "publishing", "containing", "authorizing",
                               "activating", "idling", "retiring", "terminating"} => v = task[t].vm
         /\ task[t].stage \notin InCharge => \/ task[t].agent \in unsafe
                                             \/ live[task[t].agent].vm = v
<1> DEFINE a == task[t].agent
<1>1. Owned(v) /\ record[a].vm = v /\ ~Forgettable(record[a])
  BY DEF MachinesInv, RunsOwned, RunningVmIsRecorded
<1>2. \A u \in Tasks : task[u].stage \in InCharge /\ task[u].agent = a => u = t
  BY HolderIsAlone DEF InCharge, Working
<1>3. \/ a \in unsafe \/ live[a].vm = v
      \/ task[t].stage \in InCharge /\ task[t].vm = v
  BY <1>1, <1>2 DEF Owned
<1>4. WorkOk(t) /\ v # None
  BY TaskIsEither DEF MachinesInv
<1> QED BY <1>1, <1>3, <1>4 DEF WorkOk, InCharge, Working

LEMMA SlotKept ==
  ASSUME CallsInv, MachinesInv, NEW t \in Tasks, Turned(t), NEW a \in Agents,
         live'[a] = live[a], a \in unsafe' => a \in unsafe,
         live[a].vm # None => vm'[live[a].vm] = vm[live[a].vm],
         task[t].stage \notin {"activating", "held", "completing"} \/ live[a].active # t
  PROVE  SlotOk(a)'
<1>1. SlotOk(a) /\ live[a] \in LiveType
  BY DEF MachinesInv, CallsInv, Typed
<1>2. live[a].active # None => task'[live[a].active] = task[live[a].active]
  BY <1>1, TaskIsEither DEF SlotOk, LiveType, Turned
<1> QED BY <1>1, <1>2 DEF SlotOk

LEMMA EmptySlot ==
  ASSUME NEW a, live'[a].vm = None, live'[a].active = None
  PROVE  SlotOk(a)'
BY DEF SlotOk

LEMMA ContainingIs ==
  ASSUME CallsInv, NEW t \in Tasks, At(t, "containing")
  PROVE  t \in Commands /\ task[t].kind = "acquire" /\ task[t].then = "done"
<1>1. CallShape(t) /\ task[t].stage = "containing" /\ task[t] \in TaskType
  BY DEF CallsInv, At, Typed
<1> QED BY <1>1, TaskIsEither DEF CallShape, TaskType

\* The steps of a retirement.
LEMMA WriteRetiringMachines ==
  ASSUME CallsInv, MachinesInv, CallsInv', NEW t \in Tasks, WriteRetiring(t)
  PROVE  MachinesInv'
<1>0. PICK a \in Agents : a = task[t].agent
  BY HolderFacts DEF WriteRetiring
<1>1. /\ Typed /\ At(t, "retiring") /\ up /\ Holds(t) /\ task[t].stage = "retiring" /\ a \in Agents
      /\ WorkOk(t) /\ ToStage(t, "terminating")
      /\ UNCHANGED <<up, unsafe, live, vm>>
  BY <1>0, HolderFacts, StagedIs DEF WriteRetiring, MachinesInv, Stages
<1>2. \/ record' = record
      \/ RecordBecomes(a, RecordOf(t, "retiring"))
  BY <1>0, <1>1, WrittenIs, RecordKindsAre DEF WriteRetiring
<1>3. LockStep(t)
  BY <1>0, <1>1, <1>2 DEF LockStep, ToStage, RecordBecomes
<1>4. SlotOk(a)'
  BY <1>0, <1>1, SlotKept DEF ToStage
<1>5. WorkOk(t)'
  BY <1>0, <1>1 DEF WorkOk, ToStage, Working
<1>6. t \in Commands => MachineOk(t)'
  BY <1>0, <1>1 DEF MachinesInv, MachineOk, ToStage, Working
<1>7. record'[a].kind = "absent" => record'[a].vm = None
  BY <1>0, <1>1, <1>2, RecordOfIs DEF RecordBecomes, MachinesInv, AbsentIsEmpty
<1>8. ASSUME NEW v \in Commands, vm'[v].state = "running", vm'[v].agent = a
      PROVE  record'[a].vm = v /\ ~Forgettable(record'[a]) /\ Owned(v)'
  <2>1. v = task[t].vm /\ record[a].vm = v /\ ~Forgettable(record[a])
    BY <1>0, <1>1, <1>8, RunningUnderLock
  <2>2. record'[a].vm = v /\ ~Forgettable(record'[a])
    BY <1>2, <2>1, RecordOfIs DEF RecordBecomes, Forgettable
  <2>3. Owned(v)'
    BY <1>0, <1>1, <1>8, <2>1 DEF Owned, ToStage, InCharge
  <2> QED BY <2>2, <2>3
<1> QED BY <1>0, <1>1, <1>3, <1>4, <1>5, <1>6, <1>7, <1>8, MachinesLock

LEMMA TerminatedMachines ==
  ASSUME CallsInv, MachinesInv, CallsInv', NEW t \in Tasks, Terminated(t)
  PROVE  MachinesInv'
<1>0. PICK a \in Agents : a = task[t].agent
  BY HolderFacts DEF Terminated
<1> DEFINE x == task[t].vm
<1>1. /\ Typed /\ At(t, "terminating") /\ up /\ Holds(t) /\ task[t].stage = "terminating"
      /\ a \in Agents /\ WorkOk(t) /\ ToStage(t, "clearing")
      /\ UNCHANGED <<up, unsafe, record>>
  BY <1>0, HolderFacts, StagedIs DEF Terminated, MachinesInv, Stages
<1>2. /\ x \in Commands /\ vm[x].agent = a /\ vm[x].state \in {"running", "exited"}
      /\ a \notin unsafe
  BY <1>0, <1>1 DEF WorkOk, Working
<1>3. SlotBecomes(a, NoLive) /\ VmBecomes(x, "gone")
  BY <1>0, <1>1, <1>2, SlotSet, NoLiveIs, VmStateIs, RecordKindsAre DEF Terminated
<1>4. live'[a].vm = None /\ live'[a].active = None
  BY <1>3, NoLiveIs DEF SlotBecomes
<1>5. LockStep(t)
  BY <1>0, <1>1, <1>2, <1>3, <1>4 DEF LockStep, ToStage, SlotBecomes, VmBecomes
<1>6. SlotOk(a)'
  BY <1>4, EmptySlot
<1>7. WorkOk(t)'
  BY <1>0, <1>1, <1>2, <1>4 DEF WorkOk, ToStage, Working
<1>8. t \in Commands => MachineOk(t)'
  BY <1>0, <1>1, <1>2, <1>3 DEF MachinesInv, MachineOk, ToStage, Working, VmBecomes
<1>9. ASSUME NEW v \in Commands, vm'[v].state = "running", vm'[v].agent = a
      PROVE  FALSE
  <2>1. v # x /\ vm'[v] = vm[v]
    BY <1>3, <1>9 DEF VmBecomes
  <2> QED BY <1>0, <1>1, <1>9, <2>1, RunningUnderLock
<1>10. record'[a].kind = "absent" => record'[a].vm = None
  BY <1>0, <1>1 DEF MachinesInv, AbsentIsEmpty
<1> QED BY <1>0, <1>1, <1>5, <1>6, <1>7, <1>8, <1>9, <1>10, MachinesLock

LEMMA NotTerminatedMachines ==
  ASSUME CallsInv, MachinesInv, CallsInv', NEW t \in Tasks, NotTerminated(t)
  PROVE  MachinesInv'
<1>0. PICK a \in Agents : a = task[t].agent
  BY HolderFacts DEF NotTerminated
<1> DEFINE x == task[t].vm
<1>1. /\ Typed /\ At(t, "terminating") /\ up /\ Holds(t) /\ task[t].stage = "terminating"
      /\ a \in Agents /\ WorkOk(t) /\ Ends(t, FALSE) /\ unsafe' = unsafe \cup {a}
      /\ UNCHANGED up
  BY <1>0, HolderFacts, EndIs DEF NotTerminated, MachinesInv
<1>2. /\ x \in Commands /\ vm[x].agent = a /\ vm[x].state \in {"running", "exited"}
  BY <1>0, <1>1 DEF WorkOk, Working
<1>3. SlotBecomes(a, NoLive) /\ (vm' = vm \/ VmBecomes(x, "gone"))
  BY <1>0, <1>1, <1>2, SlotSet, NoLiveIs, VmStateIs, RecordKindsAre DEF NotTerminated
<1>4. live'[a].vm = None /\ live'[a].active = None
  BY <1>3, NoLiveIs DEF SlotBecomes
<1>5. /\ record'[a] = record[a] \/ (record'[a].kind = "owner-unsafe" /\ record'[a].vm = x)
      /\ \A b \in Agents \ {a} : record'[b] = record[b]
  BY <1>0, <1>1, FencedIs DEF NotTerminated, RecordBecomes
<1>6. LockStep(t)
  BY <1>0, <1>1, <1>2, <1>3, <1>4, <1>5 DEF LockStep, Ends, SlotBecomes, VmBecomes
<1>7. SlotOk(a)'
  BY <1>4, EmptySlot
<1>8. WorkOk(t)'
  BY <1>0, <1>1 DEF WorkOk, Ends, Working
<1>9. t \in Commands => MachineOk(t)'
  BY <1>0, <1>1, <1>2, <1>3 DEF MachinesInv, MachineOk, Ends, Working, VmBecomes
<1>10. ASSUME NEW v \in Commands, vm'[v].state = "running", vm'[v].agent = a
       PROVE  record'[a].vm = v /\ ~Forgettable(record'[a]) /\ Owned(v)'
  <2>1. vm[v].state = "running" /\ vm[v].agent = a
    BY <1>0, <1>2, <1>3, <1>10 DEF VmBecomes
  <2>2. v = x /\ record[a].vm = v /\ ~Forgettable(record[a])
    BY <1>0, <1>1, <2>1, RunningUnderLock
  <2>3. Owned(v)'
    BY <1>0, <1>1, <1>10 DEF Owned
  <2> QED BY <1>5, <2>2, <2>3 DEF Forgettable
<1>11. record'[a].kind = "absent" => record'[a].vm = None
  BY <1>0, <1>1, <1>5 DEF MachinesInv, AbsentIsEmpty
<1> QED BY <1>0, <1>1, <1>6, <1>7, <1>8, <1>9, <1>10, <1>11, MachinesLock

LEMMA ClosedMachines ==
  ASSUME CallsInv, MachinesInv, CallsInv', NEW t \in Tasks, Closed(t)
  PROVE  MachinesInv'
<1>0. PICK a \in Agents : a = task[t].agent
  BY HolderFacts DEF Closed
<1>1. /\ Typed /\ At(t, "containing") /\ up /\ Holds(t) /\ task[t].stage = "containing"
      /\ a \in Agents /\ WorkOk(t) /\ t \in Commands /\ MachineOk(t) /\ task[t].then = "done"
      /\ UNCHANGED <<up, unsafe, live, record>>
  BY <1>0, HolderFacts, ContainingIs DEF Closed, MachinesInv
<1>2. ToStage(t, "clearing") \/ Ends(t, TRUE)
  BY <1>0, <1>1, StagedIs, EndIs DEF Closed, Stages
<1>3. /\ Turned(t) /\ task'[t].agent = a /\ task'[t].kind = task[t].kind
      /\ task'[t].stage \in {"clearing", "next", "done"} /\ task'[t].material = task[t].material
      /\ task'[t].then = "done"
  BY <1>0, <1>1, <1>2 DEF ToStage, Ends
<1>4. /\ task[t].vm = t /\ vm[t].state \in {"created", "running", "exited"} /\ a \notin unsafe
      /\ live[a].vm = None /\ live[a].active = None /\ vm[t].agent = a
  BY <1>0, <1>1 DEF WorkOk, Working, MachineOk, MachinesInv, SlotOk
<1>5. VmBecomes(t, "gone")
  BY <1>0, <1>1, <1>4, VmStateIs, RecordKindsAre DEF Closed
<1>6. LockStep(t)
  BY <1>0, <1>1, <1>3, <1>5 DEF LockStep, VmBecomes
<1>7. SlotOk(a)'
  BY <1>0, <1>1, <1>4, EmptySlot
<1>8. WorkOk(t)'
  BY <1>0, <1>1, <1>3, <1>4 DEF WorkOk, Working
<1>9. MachineOk(t)'
  BY <1>0, <1>1, <1>3, <1>4, <1>5 DEF MachineOk, Working, VmBecomes
<1>10. ASSUME NEW v \in Commands, vm'[v].state = "running", vm'[v].agent = a
       PROVE  FALSE
  <2>1. v # t /\ vm'[v] = vm[v]
    BY <1>5, <1>10 DEF VmBecomes
  <2> QED BY <1>0, <1>1, <1>4, <1>10, <2>1, RunningUnderLock
<1>11. record'[a].kind = "absent" => record'[a].vm = None
  BY <1>0, <1>1 DEF MachinesInv, AbsentIsEmpty
<1> QED BY <1>0, <1>1, <1>6, <1>7, <1>8, <1>9, <1>10, <1>11, MachinesLock

LEMMA NotClosedMachines ==
  ASSUME CallsInv, MachinesInv, CallsInv', NEW t \in Tasks, NotClosed(t)
  PROVE  MachinesInv'
<1>0. PICK a \in Agents : a = task[t].agent
  BY HolderFacts DEF NotClosed
<1>1. /\ Typed /\ At(t, "containing") /\ up /\ Holds(t) /\ task[t].stage = "containing"
      /\ a \in Agents /\ WorkOk(t) /\ Ends(t, FALSE) /\ t \in Commands /\ MachineOk(t)
      /\ task[t].then = "done" /\ unsafe' = unsafe \cup {a} /\ UNCHANGED <<up, live, vm>>
  BY <1>0, HolderFacts, EndIs, ContainingIs DEF NotClosed, MachinesInv
<1>2. live[a].vm = None /\ live[a].active = None /\ task[t].vm = t
  BY <1>0, <1>1 DEF WorkOk, Working, MachinesInv, SlotOk
<1>3. record' = record \/ RecordBecomes(a, RecordOf(t, "owner-unsafe"))
  BY <1>0, <1>1, WrittenIs, RecordKindsAre DEF NotClosed
<1>4. LockStep(t)
  BY <1>0, <1>1, <1>3 DEF LockStep, Ends, RecordBecomes
<1>5. SlotOk(a)'
  BY <1>0, <1>1, <1>2, EmptySlot
<1>6. WorkOk(t)'
  BY <1>0, <1>1 DEF WorkOk, Ends, Working
<1>7. MachineOk(t)'
  BY <1>0, <1>1 DEF MachineOk, Ends, Working
<1>8. ASSUME NEW v \in Commands, vm'[v].state = "running", vm'[v].agent = a
      PROVE  record'[a].vm = v /\ ~Forgettable(record'[a]) /\ Owned(v)'
  <2>1. v = t /\ record[a].vm = v /\ ~Forgettable(record[a])
    BY <1>0, <1>1, <1>2, <1>8, RunningUnderLock
  <2>2. Owned(v)'
    BY <1>0, <1>1, <1>8 DEF Owned
  <2>3. record'[a].vm = v /\ ~Forgettable(record'[a])
    BY <1>2, <1>3, <2>1, RecordOfIs DEF Forgettable, RecordBecomes
  <2> QED BY <2>2, <2>3
<1>9. record'[a].kind = "absent" => record'[a].vm = None
  BY <1>0, <1>1, <1>3, RecordOfIs DEF RecordBecomes, MachinesInv, AbsentIsEmpty
<1> QED BY <1>0, <1>1, <1>4, <1>5, <1>6, <1>7, <1>8, <1>9, MachinesLock

LEMMA ClearedMachines ==
  ASSUME CallsInv, MachinesInv, CallsInv', NEW t \in Tasks, Cleared(t) \/ NotCleared(t)
  PROVE  MachinesInv'
<1>0. PICK a \in Agents : a = task[t].agent
  BY HolderFacts DEF Cleared, NotCleared
<1>1. /\ Typed /\ At(t, "clearing") /\ up /\ Holds(t) /\ task[t].stage = "clearing"
      /\ a \in Agents /\ WorkOk(t) /\ CallShape(t) /\ UNCHANGED <<up, live, vm>>
      /\ t \in Commands => MachineOk(t)
  BY <1>0, HolderFacts DEF Cleared, NotCleared, MachinesInv
<1>2. live[a].vm = None /\ live[a].active = None /\ a \notin unsafe
  BY <1>0, <1>1 DEF WorkOk, Working, MachinesInv, SlotOk
<1>3. /\ Turned(t) /\ task'[t].agent = a /\ task'[t].kind = task[t].kind
      /\ task'[t].material = task[t].material
      /\ \/ task'[t].stage \in {"next", "done"} /\ task'[t].then = task[t].then
         \/ /\ task'[t].stage = "reserving" /\ task[t].then = "reserving" /\ unsafe' = unsafe
            /\ t \in Commands
  <2>1. CASE End(t, TRUE) \/ End(t, FALSE)
    <3>1. Ends(t, TRUE) \/ Ends(t, FALSE)
      BY <1>0, <1>1, <2>1, EndIs
    <3> QED BY <1>0, <3>1 DEF Ends
  <2>2. CASE /\ task[t].then = "reserving" /\ unsafe' = unsafe
             /\ task' = [task EXCEPT ![t].stage = "reserving", ![t].then = "done"]
    <3>1. /\ Turned(t) /\ task'[t].stage = "reserving" /\ task'[t].agent = a
          /\ task'[t].kind = task[t].kind /\ task'[t].material = task[t].material
      BY <1>0, <1>1, <2>2, EditThen DEF Typed, Stages
    <3>2. t \in Commands
      BY <1>0, <1>1, <2>2, TaskIsEither DEF CallShape
    <3> QED BY <2>2, <3>1, <3>2
  <2> QED BY <2>1, <2>2 DEF Cleared, NotCleared
<1>4. /\ record'[a] \in {record[a], NoRecord, RecordOf(t, "contained-terminal")}
      /\ \A b \in Agents \ {a} : record'[b] = record[b]
      /\ \A b \in Agents \ {a} : b \in unsafe' <=> b \in unsafe
  BY <1>0, <1>1, WrittenIs, DeletedIs, RecordKindsAre DEF Cleared, NotCleared, RecordBecomes
<1>5. LockStep(t)
  BY <1>0, <1>1, <1>3, <1>4 DEF LockStep
<1>6. SlotOk(a)'
  BY <1>0, <1>1, <1>2, EmptySlot
<1>7. WorkOk(t)'
  <2>1. CallShape(t)'
    BY DEF CallsInv
  <2> QED BY <1>0, <1>1, <1>2, <1>3, <2>1 DEF WorkOk, Working, CallShape
<1>8. t \in Commands => MachineOk(t)'
  BY <1>0, <1>1, <1>3 DEF MachineOk, Working
<1>9. ASSUME NEW v \in Commands, vm'[v].state = "running", vm'[v].agent = a
      PROVE  FALSE
  BY <1>0, <1>1, <1>9, RunningUnderLock
<1>10. record'[a].kind = "absent" => record'[a].vm = None
  BY <1>0, <1>1, <1>4, RecordOfIs DEF MachinesInv, AbsentIsEmpty, NoRecord
<1> QED BY <1>0, <1>1, <1>5, <1>6, <1>7, <1>8, <1>9, <1>10, MachinesLock
\* A lock section that leaves the machines alone.
LEMMA MachinesSame ==
  ASSUME CallsInv, MachinesInv, CallsInv', NEW t \in Tasks, Holds(t), up, up', Turned(t),
         task'[t].agent = task[t].agent, task'[t].kind = task[t].kind,
         UNCHANGED <<live, record, vm, unsafe>>,
         \/ task[t].stage \notin {"activating", "held", "completing"}
         \/ live[task[t].agent].active # t,
         task[t].stage \in InCharge => task'[t].stage \in InCharge /\ task'[t].vm = task[t].vm,
         WorkOk(t)', t \in Commands => MachineOk(t)'
  PROVE  MachinesInv'
<1>1. PICK a \in Agents : a = task[t].agent
  BY DEF Holds
<1>2. LockStep(t)
  BY DEF LockStep
<1>3. SlotOk(a)'
  BY <1>1, SlotKept
<1>4. ASSUME NEW v \in Commands, vm'[v].state = "running", vm'[v].agent = a
      PROVE  record'[a].vm = v /\ ~Forgettable(record'[a]) /\ Owned(v)'
  <2>1. vm[v].state = "running" /\ vm[v].agent = a
    BY <1>4
  <2>2. /\ record[a].vm = v /\ ~Forgettable(record[a])
        /\ task[t].stage \in InCharge => v = task[t].vm
        /\ task[t].stage \notin InCharge => a \in unsafe \/ live[a].vm = v
    BY <1>1, <2>1, RunningUnderLock DEF InCharge
  <2>3. Owned(v)'
    BY <1>1, <1>4, <2>2 DEF Owned
  <2> QED BY <2>2, <2>3
<1>5. record'[a].kind = "absent" => record'[a].vm = None
  BY DEF MachinesInv, AbsentIsEmpty
<1> QED BY <1>1, <1>2, <1>3, <1>4, <1>5, MachinesLock

Building == {"entered", "probing", "reserving", "intending", "creating", "created", "starting",
             "identifying", "publishing", "authorizing", "activating"}

LEMMA BuilderFacts ==
  ASSUME CallsInv, MachinesInv, NEW c \in Commands, NEW s \in Building, At(c, s)
  PROVE  /\ c \in Tasks /\ Typed /\ up /\ Holds(c) /\ task[c].stage = s /\ task[c].agent \in Agents
         /\ task[c].kind = "acquire" /\ task[c].then = "done" /\ task[c] \in TaskType
         /\ WorkOk(c) /\ MachineOk(c) /\ SlotOk(task[c].agent)
         /\ live[task[c].agent] \in LiveType /\ Acquiring(c)
         /\ live[task[c].agent].active \in {None, c}
<1>1. /\ c \in Tasks /\ Typed /\ up /\ Holds(c) /\ task[c].stage = s /\ task[c].agent \in Agents
      /\ CallShape(c) /\ task[c] \in TaskType
  BY HolderFacts, TaskIsEither DEF Typed
<1>2. task[c].kind = "acquire" /\ task[c].then = "done" /\ Acquiring(c)
  BY <1>1 DEF CallShape, TaskType, Building, Acquiring, InLock, Entry, Working
<1> QED BY <1>1, <1>2 DEF MachinesInv, AcquiresAlone, Typed

LEMMA MaterializeMachines ==
  ASSUME CallsInv, MachinesInv, CallsInv', NEW c \in Commands, Materialize(c)
  PROVE  MachinesInv'
<1> DEFINE a == task[c].agent
<1>1. /\ c \in Tasks /\ Typed /\ up /\ Holds(c) /\ task[c].stage = "entered" /\ a \in Agents
      /\ task[c].kind = "acquire" /\ task[c].then = "done"
      /\ MachineOk(c) /\ SlotOk(a) /\ live[a].active \in {None, c}
      /\ up' /\ UNCHANGED <<live, record, vm, unsafe>>
  BY BuilderFacts DEF Materialize, Building
<1>2. live[a].active = None
  BY <1>1, TaskIsEither DEF SlotOk
<1>3. CASE /\ ~RefusedUnderLock(c)
           /\ task' = [task EXCEPT ![c].stage = "probing", ![c].material = material]
  <2>1. /\ Turned(c) /\ task'[c].stage = "probing" /\ task'[c].agent = a
        /\ task'[c].kind = task[c].kind /\ task'[c].then = task[c].then
    BY <1>1, <1>3, EditMaterial DEF Typed, Stages
  <2>2. WorkOk(c)'
    BY <1>1, <1>2, <1>3, <2>1 DEF WorkOk, RefusedUnderLock
  <2>3. MachineOk(c)'
    BY <1>1, <2>1 DEF MachineOk
  <2> QED BY <1>1, <2>1, <2>2, <2>3, MachinesSame DEF InCharge
<1>4. CASE End(c, TRUE)
  <2>1. Ends(c, TRUE)
    BY <1>1, <1>4, EndIs
  <2>2. WorkOk(c)'
    BY <2>1 DEF WorkOk, Ends, Working
  <2>3. MachineOk(c)'
    BY <1>1, <2>1 DEF MachineOk, Ends
  <2> QED BY <1>1, <2>1, <2>2, <2>3, MachinesSame DEF InCharge, Ends
<1> QED BY <1>3, <1>4 DEF Materialize

LEMMA ProbeMachines ==
  ASSUME CallsInv, MachinesInv, CallsInv', NEW c \in Commands, Probe(c)
  PROVE  MachinesInv'
<1> DEFINE a == task[c].agent
           v == live[a].vm
<1>1. /\ c \in Tasks /\ Typed /\ up /\ Holds(c) /\ task[c].stage = "probing" /\ a \in Agents
      /\ task[c].kind = "acquire" /\ task[c].then = "done"
      /\ MachineOk(c) /\ SlotOk(a) /\ WorkOk(c) /\ v \in Commands \cup {None}
      /\ up' /\ UNCHANGED <<live, record, vm, unsafe>>
  BY BuilderFacts DEF Probe, Building, LiveType
<1>2. /\ live[a].active = None /\ a \notin unsafe
      /\ vm[c].state \notin {"created", "running", "exited"}
      /\ v # None => vm[v].agent = a /\ vm[v].state \in {"running", "exited"}
  BY <1>1 DEF WorkOk, MachineOk, SlotOk, Working
<1>3. CASE v = None /\ task' = Staged(c, "reserving")
  <2>1. ToStage(c, "reserving")
    BY <1>1, <1>3, StagedIs DEF Stages
  <2>2. WorkOk(c)' /\ MachineOk(c)'
    BY <1>1, <1>2, <1>3, <2>1 DEF WorkOk, MachineOk, ToStage
  <2> QED BY <1>1, <2>1, <2>2, MachinesSame DEF InCharge, ToStage
<1>4. CASE /\ v # None /\ vm[v].state = "running" /\ Compatible(c, v)
           /\ task' = [task EXCEPT ![c].stage = "authorizing", ![c].vm = v]
  <2>1. /\ Turned(c) /\ task'[c].stage = "authorizing" /\ task'[c].agent = a
        /\ task'[c].kind = task[c].kind /\ task'[c].then = task[c].then /\ task'[c].vm = v
        /\ task'[c].material = task[c].material
    <3>1. task \in [Tasks -> TaskType] /\ "authorizing" \in Stages
      BY <1>1 DEF Typed, Stages
    <3> HIDE DEF v
    <3> QED BY <1>1, <1>4, <3>1, EditVm, ZenonT(60)
  <2>2. WorkOk(c)'
    <3>1. /\ task'[c].agent \notin unsafe' /\ task'[c].kind = "acquire"
          /\ task'[c].vm \in Commands /\ vm'[task'[c].vm].agent = task'[c].agent
          /\ vm'[task'[c].vm].state = "running"
      BY <1>1, <1>2, <1>4, <2>1
    <3>2. live'[task'[c].agent].vm = task'[c].vm /\ live'[task'[c].agent].active = None
      BY <1>1, <1>2, <2>1
    <3>3. vm'[task'[c].vm].material = task'[c].material
      BY <1>1, <1>4, <2>1 DEF Compatible
    <3> QED BY <2>1, <3>1, <3>2, <3>3 DEF WorkOk
  <2>3. MachineOk(c)'
    BY <1>1, <1>2, <2>1 DEF MachineOk
  <2> QED BY <1>1, <2>1, <2>2, <2>3, MachinesSame DEF InCharge
<1>5. CASE /\ v # None
           /\ task' = [task EXCEPT ![c].stage = "retiring", ![c].vm = v, ![c].then = "reserving"]
  <2>1. /\ Turned(c) /\ task'[c].stage = "retiring" /\ task'[c].agent = a
        /\ task'[c].kind = task[c].kind /\ task'[c].vm = v
    <3>1. task \in [Tasks -> TaskType] /\ "retiring" \in Stages /\ c \in Tasks
      BY <1>1 DEF Typed, Stages
    <3>2. PICK w \in Commands \cup {None} : w = v
      BY <1>1
    <3>3. task' = VmThenEdit(c, "retiring", w, "reserving")
      BY <1>5, <3>2, Zenon DEF VmThenEdit
    <3>4. /\ Turned(c) /\ task'[c].stage = "retiring" /\ task'[c].agent = task[c].agent
          /\ task'[c].kind = task[c].kind /\ task'[c].vm = w /\ task'[c].then = "reserving"
      BY <3>1, <3>3, VmThenEditIs
    <3> QED BY <3>2, <3>4
  <2>2. WorkOk(c)'
    <3>1. /\ task'[c].agent \notin unsafe' /\ task'[c].kind = "acquire"
          /\ task'[c].vm \in Commands /\ vm'[task'[c].vm].agent = task'[c].agent
          /\ vm'[task'[c].vm].state \in {"running", "exited"}
      BY <1>1, <1>2, <1>5, <2>1
    <3>2. live'[task'[c].agent].vm = task'[c].vm /\ live'[task'[c].agent].active = None
      BY <1>1, <1>2, <2>1
    <3> QED BY <2>1, <3>1, <3>2 DEF WorkOk
  <2>3. MachineOk(c)'
    BY <1>1, <1>2, <2>1 DEF MachineOk
  <2> QED BY <1>1, <2>1, <2>2, <2>3, MachinesSame DEF InCharge
<1> QED BY <1>3, <1>4, <1>5 DEF Probe

\* While the VM does not run yet, no VM of the agent does.
LEMMA WriteIntentMachines ==
  ASSUME CallsInv, MachinesInv, CallsInv', NEW c \in Commands, WriteIntent(c)
  PROVE  MachinesInv'
<1>1. PICK step \in {<<"reserving", "reserved", "intending">>,
                     <<"intending", "creation-started", "creating">>} :
        /\ At(c, step[1])
        /\ \/ record' = Written(c, step[2]) /\ task' = Staged(c, step[3])
           \/ record' \in {record, Written(c, step[2])} /\ End(c, TRUE)
  BY DEF WriteIntent
<1>2. /\ step[1] \in {"reserving", "intending"} /\ step[3] \in {"intending", "creating"}
      /\ step[2] \in RecordKinds /\ step[2] # "absent"
  BY <1>1, RecordKindsAre
<1>3. PICK a \in Agents : a = task[c].agent
  BY <1>1, HolderFacts, TaskIsEither
<1>4. /\ c \in Tasks /\ Typed /\ up /\ Holds(c) /\ task[c].stage = step[1]
      /\ task[c].kind = "acquire" /\ task[c].then = "done"
      /\ MachineOk(c) /\ SlotOk(a) /\ WorkOk(c)
      /\ up' /\ UNCHANGED <<live, vm, unsafe>>
  BY <1>1, <1>2, <1>3, BuilderFacts DEF WriteIntent, Building
<1>5. /\ live[a].active = None /\ live[a].vm = None /\ a \notin unsafe
      /\ vm[c].state \notin {"created", "running", "exited"}
  BY <1>2, <1>3, <1>4 DEF WorkOk, MachineOk, SlotOk, Working
<1>6. ToStage(c, step[3]) \/ Ends(c, TRUE)
  BY <1>1, <1>2, <1>4, StagedIs, EndIs DEF Stages
<1>7. /\ Turned(c) /\ task'[c].agent = a /\ task'[c].kind = task[c].kind
      /\ task'[c].stage \in {"intending", "creating", "done", "next"} /\ task'[c].then = "done"
  BY <1>2, <1>3, <1>4, <1>6 DEF ToStage, Ends
<1>8. record' = record \/ RecordBecomes(a, RecordOf(c, step[2]))
  BY <1>1, <1>2, <1>3, <1>4, WrittenIs
<1>9. LockStep(c)
  BY <1>3, <1>4, <1>7, <1>8 DEF LockStep, RecordBecomes
<1>10. SlotOk(a)'
  BY <1>4, <1>5, EmptySlot
<1>11. WorkOk(c)' /\ MachineOk(c)'
  BY <1>3, <1>4, <1>5, <1>7 DEF WorkOk, MachineOk, Working
<1>12. ASSUME NEW v \in Commands, vm'[v].state = "running", vm'[v].agent = a
       PROVE  FALSE
  BY <1>2, <1>3, <1>4, <1>12, RunningUnderLock
<1>13. record'[a].kind = "absent" => record'[a].vm = None
  BY <1>2, <1>8, RecordOfIs DEF RecordBecomes, MachinesInv, AbsentIsEmpty
<1> QED BY <1>3, <1>4, <1>9, <1>10, <1>11, <1>12, <1>13, MachinesLock

LEMMA CreateMachines ==
  ASSUME CallsInv, MachinesInv, CallsInv', NEW c \in Commands, Create(c)
  PROVE  MachinesInv'
<1>1. PICK a \in Agents : a = task[c].agent
  BY HolderFacts, TaskIsEither DEF Create
<1>2. /\ c \in Tasks /\ Typed /\ up /\ Holds(c) /\ task[c].stage = "creating"
      /\ task[c].kind = "acquire" /\ task[c].then = "done"
      /\ MachineOk(c) /\ SlotOk(a) /\ WorkOk(c)
      /\ up' /\ UNCHANGED <<live, unsafe>>
  BY <1>1, BuilderFacts DEF Create, Building
<1>3. /\ live[a].active = None /\ live[a].vm = None /\ a \notin unsafe
      /\ vm[c].state \notin {"created", "running", "exited"}
  BY <1>1, <1>2 DEF WorkOk, MachineOk, SlotOk, Working
<1>4. SlotOk(a)'
  BY <1>2, <1>3, EmptySlot
<1>5. CASE /\ vm' = [vm EXCEPT ![c] = [state |-> "created", agent |-> task[c].agent,
                                       material |-> task[c].material]]
           /\ task' = [task EXCEPT ![c].stage = "created", ![c].vm = c]
           /\ UNCHANGED record
  <2>1. /\ Turned(c) /\ task'[c].stage = "created" /\ task'[c].agent = a /\ task'[c].vm = c
        /\ task'[c].kind = task[c].kind /\ task'[c].then = task[c].then
        /\ task'[c].material = task[c].material
    BY <1>1, <1>2, <1>5, EditVm, ZenonT(60) DEF Typed, Stages
  <2>2. /\ vm'[c].state = "created" /\ vm'[c].agent = a /\ vm'[c].material = task[c].material
        /\ \A w \in Commands \ {c} : vm'[w] = vm[w]
    BY <1>1, <1>2, <1>5 DEF Typed
  <2>3. LockStep(c)
    BY <1>1, <1>2, <1>5, <2>1, <2>2 DEF LockStep
  <2>4. WorkOk(c)' /\ MachineOk(c)'
    BY <1>1, <1>2, <1>3, <2>1, <2>2 DEF WorkOk, MachineOk
  <2>5. ASSUME NEW v \in Commands, vm'[v].state = "running", vm'[v].agent = a
        PROVE  FALSE
    BY <1>1, <1>2, <2>2, <2>5, RunningUnderLock
  <2>6. record'[a].kind = "absent" => record'[a].vm = None
    BY <1>5 DEF MachinesInv, AbsentIsEmpty
  <2> QED BY <1>1, <1>2, <1>4, <2>3, <2>4, <2>5, <2>6, MachinesLock
<1>6. CASE record' \in {record, Deleted(task[c].agent)} /\ End(c, TRUE) /\ UNCHANGED vm
  <2>1. Ends(c, TRUE)
    BY <1>2, <1>6, EndIs
  <2>2. record' = record \/ RecordBecomes(a, NoRecord)
    BY <1>1, <1>2, <1>6, DeletedIs
  <2>3. LockStep(c)
    BY <1>1, <1>2, <1>6, <2>1, <2>2 DEF LockStep, Ends, RecordBecomes
  <2>4. WorkOk(c)' /\ MachineOk(c)'
    BY <1>1, <1>2, <1>3, <1>6, <2>1 DEF WorkOk, MachineOk, Ends, Working
  <2>5. ASSUME NEW v \in Commands, vm'[v].state = "running", vm'[v].agent = a
        PROVE  FALSE
    BY <1>1, <1>2, <1>6, <2>5, RunningUnderLock
  <2>6. record'[a].kind = "absent" => record'[a].vm = None
    BY <2>2 DEF MachinesInv, AbsentIsEmpty, RecordBecomes, NoRecord
  <2> QED BY <1>1, <1>2, <1>4, <2>3, <2>4, <2>5, <2>6, MachinesLock
<1> QED BY <1>5, <1>6 DEF Create

LEMMA WriteCreatedMachines ==
  ASSUME CallsInv, MachinesInv, CallsInv', NEW c \in Commands, WriteCreated(c)
  PROVE  MachinesInv'
<1>1. PICK a \in Agents : a = task[c].agent
  BY HolderFacts, TaskIsEither DEF WriteCreated
<1>2. /\ c \in Tasks /\ Typed /\ up /\ Holds(c) /\ task[c].stage = "created"
      /\ task[c].kind = "acquire" /\ task[c].then = "done"
      /\ MachineOk(c) /\ SlotOk(a) /\ WorkOk(c)
      /\ up' /\ UNCHANGED <<live, vm, unsafe>>
  BY <1>1, BuilderFacts DEF WriteCreated, Building
<1>3. /\ live[a].active = None /\ live[a].vm = None /\ a \notin unsafe
      /\ vm[c].state = "created" /\ task[c].vm = c
  BY <1>1, <1>2 DEF WorkOk, SlotOk, Working
<1>4. \/ RecordBecomes(a, RecordOf(c, "vm-created")) /\ ToStage(c, "starting")
      \/ /\ record' = record \/ RecordBecomes(a, RecordOf(c, "vm-created"))
         /\ ToStage(c, "containing")
  BY <1>1, <1>2, WrittenIs, StagedIs, RecordKindsAre DEF WriteCreated, Stages
<1>5. LockStep(c)
  BY <1>1, <1>2, <1>4 DEF LockStep, RecordBecomes, ToStage
<1>6. SlotOk(a)'
  BY <1>2, <1>3, EmptySlot
<1>7. WorkOk(c)'
  BY <1>1, <1>2, <1>3, <1>4, RecordOfIs DEF WorkOk, RecordBecomes, ToStage
<1>8. MachineOk(c)'
  BY <1>1, <1>2, <1>4 DEF MachineOk, ToStage
<1>9. ASSUME NEW v \in Commands, vm'[v].state = "running", vm'[v].agent = a
      PROVE  FALSE
  BY <1>1, <1>2, <1>9, RunningUnderLock
<1>10. record'[a].kind = "absent" => record'[a].vm = None
  BY <1>4, RecordOfIs DEF RecordBecomes, MachinesInv, AbsentIsEmpty
<1> QED BY <1>1, <1>2, <1>5, <1>6, <1>7, <1>8, <1>9, <1>10, MachinesLock

LEMMA StartMachines ==
  ASSUME CallsInv, MachinesInv, CallsInv', NEW c \in Commands, Start(c)
  PROVE  MachinesInv'
<1>1. PICK a \in Agents : a = task[c].agent
  BY HolderFacts, TaskIsEither DEF Start
<1>2. /\ c \in Tasks /\ Typed /\ up /\ Holds(c) /\ task[c].stage = "starting"
      /\ task[c].kind = "acquire" /\ task[c].then = "done"
      /\ MachineOk(c) /\ SlotOk(a) /\ WorkOk(c)
      /\ up' /\ UNCHANGED <<live, record, unsafe>>
  BY <1>1, BuilderFacts DEF Start, Building
<1>3. /\ live[a].active = None /\ live[a].vm = None /\ a \notin unsafe
      /\ vm[c].state = "created" /\ task[c].vm = c /\ vm[c].agent = a
      /\ record[a].vm = c /\ record[a].kind = "vm-created"
  BY <1>1, <1>2 DEF WorkOk, SlotOk, MachineOk, Working
<1>4. \/ VmBecomes(c, "running") /\ ToStage(c, "identifying")
      \/ (vm' = vm \/ VmBecomes(c, "running")) /\ ToStage(c, "containing")
  BY <1>2, VmStateIs, StagedIs, RecordKindsAre DEF Start, Stages
<1>5. LockStep(c)
  BY <1>1, <1>2, <1>4 DEF LockStep, VmBecomes, ToStage
<1>6. SlotOk(a)'
  BY <1>2, <1>3, EmptySlot
<1>7. WorkOk(c)'
  BY <1>1, <1>2, <1>3, <1>4 DEF WorkOk, VmBecomes, ToStage
<1>8. MachineOk(c)'
  BY <1>1, <1>2, <1>3, <1>4 DEF MachineOk, ToStage, VmBecomes
<1>9. ASSUME NEW v \in Commands, vm'[v].state = "running", vm'[v].agent = a
      PROVE  record'[a].vm = v /\ ~Forgettable(record'[a]) /\ Owned(v)'
  <2>1. v = c
    BY <1>1, <1>2, <1>4, <1>9, RunningUnderLock DEF VmBecomes
  <2>2. Owned(v)'
    BY <1>1, <1>2, <1>3, <1>4, <1>9, <2>1 DEF Owned, ToStage, InCharge
  <2> QED BY <1>2, <1>3, <2>1, <2>2 DEF Forgettable
<1>10. record'[a].kind = "absent" => record'[a].vm = None
  BY <1>2, <1>3
<1> QED BY <1>1, <1>2, <1>5, <1>6, <1>7, <1>8, <1>9, <1>10, MachinesLock

LEMMA IdentifyMachines ==
  ASSUME CallsInv, MachinesInv, CallsInv', NEW c \in Commands, Identify(c)
  PROVE  MachinesInv'
<1> DEFINE a == task[c].agent
<1>1. /\ c \in Tasks /\ Typed /\ up /\ Holds(c) /\ task[c].stage = "identifying" /\ a \in Agents
      /\ task[c].kind = "acquire" /\ task[c].then = "done"
      /\ MachineOk(c) /\ WorkOk(c) /\ up' /\ UNCHANGED <<live, record, vm, unsafe>>
  BY BuilderFacts DEF Identify, Building
<1>2. ToStage(c, "publishing") \/ ToStage(c, "containing")
  BY <1>1, StagedIs DEF Identify, Stages
<1>3. WorkOk(c)' /\ MachineOk(c)'
  BY <1>1, <1>2 DEF WorkOk, MachineOk, ToStage, Working
<1> QED BY <1>1, <1>2, <1>3, MachinesSame DEF InCharge, ToStage

LEMMA WriteIdentityMachines ==
  ASSUME CallsInv, MachinesInv, CallsInv', NEW c \in Commands, WriteIdentity(c)
  PROVE  MachinesInv'
<1>1. PICK a \in Agents : a = task[c].agent
  BY HolderFacts, TaskIsEither DEF WriteIdentity
<1>2. /\ c \in Tasks /\ Typed /\ up /\ Holds(c) /\ task[c].stage = "publishing"
      /\ task[c].kind = "acquire" /\ task[c].then = "done"
      /\ MachineOk(c) /\ SlotOk(a) /\ WorkOk(c)
      /\ up' /\ UNCHANGED <<live, vm, unsafe>>
  BY <1>1, BuilderFacts DEF WriteIdentity, Building
<1>3. /\ live[a].active = None /\ live[a].vm = None /\ a \notin unsafe
      /\ vm[c].state \in {"running", "exited"} /\ task[c].vm = c /\ vm[c].agent = a
      /\ vm[c].material = task[c].material
  BY <1>1, <1>2 DEF WorkOk, SlotOk, MachineOk, Working
<1>4. /\ ToStage(c, "authorizing") \/ ToStage(c, "retiring")
      /\ record' = record \/ RecordBecomes(a, RecordOf(c, "identity-published"))
  BY <1>1, <1>2, WrittenIs, StagedIs, RecordKindsAre DEF WriteIdentity, Stages
<1>5. LockStep(c)
  BY <1>1, <1>2, <1>4 DEF LockStep, RecordBecomes, ToStage
<1>6. SlotOk(a)'
  BY <1>2, <1>3, EmptySlot
<1>7. WorkOk(c)' /\ MachineOk(c)'
  BY <1>1, <1>2, <1>3, <1>4 DEF WorkOk, MachineOk, ToStage
<1>8. ASSUME NEW v \in Commands, vm'[v].state = "running", vm'[v].agent = a
      PROVE  record'[a].vm = v /\ ~Forgettable(record'[a]) /\ Owned(v)'
  <2>1. v = c /\ record[a].vm = v /\ ~Forgettable(record[a])
    BY <1>1, <1>2, <1>3, <1>8, RunningUnderLock
  <2>2. Owned(v)'
    BY <1>1, <1>2, <1>3, <1>4, <1>8, <2>1 DEF Owned, ToStage, InCharge
  <2>3. record'[a].vm = v /\ ~Forgettable(record'[a])
    BY <1>3, <1>4, <2>1, RecordOfIs DEF Forgettable, RecordBecomes
  <2> QED BY <2>2, <2>3
<1>9. record'[a].kind = "absent" => record'[a].vm = None
  BY <1>4, RecordOfIs DEF RecordBecomes, MachinesInv, AbsentIsEmpty
<1> QED BY <1>1, <1>2, <1>5, <1>6, <1>7, <1>8, <1>9, MachinesLock

LEMMA AuthorizeMachines ==
  ASSUME CallsInv, MachinesInv, CallsInv', NEW c \in Commands, Authorize(c)
  PROVE  MachinesInv'
<1>1. PICK a \in Agents : a = task[c].agent
  BY HolderFacts, TaskIsEither DEF Authorize
<1> DEFINE x == task[c].vm
<1>2. /\ c \in Tasks /\ Typed /\ up /\ Holds(c) /\ task[c].stage = "authorizing"
      /\ task[c].kind = "acquire" /\ task[c].then = "done" /\ Acquiring(c)
      /\ MachineOk(c) /\ SlotOk(a) /\ WorkOk(c)
      /\ up' /\ UNCHANGED <<record, vm, unsafe>>
  BY <1>1, BuilderFacts DEF Authorize, Building
<1>3. /\ x \in Commands /\ vm[x].agent = a /\ vm[x].state \in {"running", "exited"}
      /\ a \notin unsafe /\ x # None /\ c # None
  BY <1>1, <1>2, TaskIsEither DEF WorkOk, Working
<1>4. /\ \/ ToStage(c, "activating") /\ live'[a].active = c
         \/ ToStage(c, "retiring") /\ live'[a].active = None
      /\ live'[a].vm = x
      /\ \A b \in Agents \ {a} : live'[b] = live[b]
  <2>1. \/ /\ live' = [live EXCEPT ![a] = [vm |-> x, active |-> c]]
           /\ ToStage(c, "activating")
        \/ /\ live' = [live EXCEPT ![a] = [vm |-> x, active |-> None]]
           /\ ToStage(c, "retiring")
    BY <1>1, <1>2, StagedIs DEF Authorize, Stages
  <2> QED BY <1>2, <2>1 DEF Typed
<1>5. LockStep(c)
  BY <1>1, <1>2, <1>4 DEF LockStep, ToStage
<1>6. SlotOk(a)'
  BY <1>1, <1>2, <1>3, <1>4 DEF SlotOk, ToStage
<1>7. WorkOk(c)' /\ MachineOk(c)'
  BY <1>1, <1>2, <1>3, <1>4 DEF WorkOk, MachineOk, ToStage
<1>8. ASSUME NEW v \in Commands, vm'[v].state = "running", vm'[v].agent = a
      PROVE  record'[a].vm = v /\ ~Forgettable(record'[a]) /\ Owned(v)'
  <2>1. v = x /\ record[a].vm = v /\ ~Forgettable(record[a])
    BY <1>1, <1>2, <1>8, RunningUnderLock
  <2>2. Owned(v)'
    BY <1>2, <1>4, <1>8, <2>1 DEF Owned
  <2> QED BY <1>2, <2>1, <2>2
<1>9. record'[a].kind = "absent" => record'[a].vm = None
  BY <1>2 DEF MachinesInv, AbsentIsEmpty
<1> QED BY <1>1, <1>2, <1>5, <1>6, <1>7, <1>8, <1>9, MachinesLock

LEMMA WriteActiveMachines ==
  ASSUME CallsInv, MachinesInv, CallsInv', NEW c \in Commands, WriteActive(c)
  PROVE  MachinesInv'
<1>1. PICK a \in Agents : a = task[c].agent
  BY HolderFacts, TaskIsEither DEF WriteActive
<1> DEFINE x == task[c].vm
<1>2. /\ c \in Tasks /\ Typed /\ up /\ Holds(c) /\ task[c].stage = "activating"
      /\ task[c].kind = "acquire" /\ task[c].then = "done" /\ Acquiring(c)
      /\ MachineOk(c) /\ SlotOk(a) /\ WorkOk(c)
      /\ up' /\ UNCHANGED <<vm, unsafe>>
  BY <1>1, BuilderFacts DEF WriteActive, Building
<1>3. /\ x \in Commands /\ vm[x].agent = a /\ vm[x].state \in {"running", "exited"}
      /\ a \notin unsafe /\ x # None /\ c # None /\ live[a].vm = x /\ live[a].active = c
  BY <1>1, <1>2, TaskIsEither DEF WorkOk, Working
<1>4. /\ \/ ToStage(c, "held") /\ live'[a].active = c
         \/ ToStage(c, "retiring") /\ live'[a].active = None
      /\ live'[a].vm = x
      /\ \A b \in Agents \ {a} : live'[b] = live[b]
      /\ record' = record \/ RecordBecomes(a, RecordOf(c, "current-active"))
  <2>1. \/ /\ live' = live /\ ToStage(c, "held")
        \/ /\ live' = [live EXCEPT ![a].active = None] /\ ToStage(c, "retiring")
    BY <1>1, <1>2, StagedIs DEF WriteActive, Stages
  <2>2. record' = record \/ RecordBecomes(a, RecordOf(c, "current-active"))
    BY <1>1, <1>2, WrittenIs, RecordKindsAre DEF WriteActive
  <2>3. live \in [Agents -> LiveType]
    BY <1>2 DEF Typed
  <2> QED BY <1>3, <2>1, <2>2, <2>3 DEF LiveType
<1>5. LockStep(c)
  BY <1>1, <1>2, <1>3, <1>4 DEF LockStep, ToStage, RecordBecomes
<1>6. SlotOk(a)'
  BY <1>1, <1>2, <1>3, <1>4 DEF SlotOk, ToStage
<1>7. WorkOk(c)' /\ MachineOk(c)'
  BY <1>1, <1>2, <1>3, <1>4 DEF WorkOk, MachineOk, ToStage, Working
<1>8. ASSUME NEW v \in Commands, vm'[v].state = "running", vm'[v].agent = a
      PROVE  record'[a].vm = v /\ ~Forgettable(record'[a]) /\ Owned(v)'
  <2>1. v = x /\ record[a].vm = v /\ ~Forgettable(record[a])
    BY <1>1, <1>2, <1>8, RunningUnderLock
  <2>2. Owned(v)'
    BY <1>2, <1>4, <1>8, <2>1 DEF Owned
  <2>3. record'[a].vm = v /\ ~Forgettable(record'[a])
    BY <1>4, <2>1, RecordOfIs DEF Forgettable, RecordBecomes
  <2> QED BY <2>2, <2>3
<1>9. record'[a].kind = "absent" => record'[a].vm = None
  BY <1>4, RecordOfIs DEF RecordBecomes, MachinesInv, AbsentIsEmpty
<1> QED BY <1>1, <1>2, <1>5, <1>6, <1>7, <1>8, <1>9, MachinesLock

\* The handle of a command.
LEMMA CompletingMachines ==
  ASSUME CallsInv, MachinesInv, CallsInv', NEW c \in Commands, Completing(c)
  PROVE  MachinesInv'
<1>1. PICK a \in Agents : a = task[c].agent
  BY HolderFacts, TaskIsEither DEF Completing
<1>2. /\ c \in Tasks /\ Typed /\ up /\ Holds(c) /\ task[c].stage = "completing" /\ CallShape(c)
      /\ up' /\ UNCHANGED <<record, vm, unsafe>>
  BY HolderFacts, TaskIsEither DEF Completing
<1>3. /\ MachineOk(c) /\ SlotOk(a) /\ WorkOk(c) /\ live[a] \in LiveType /\ c # None
      /\ task[c].kind = "complete" /\ task[c].then = "done"
  BY <1>2, TaskIsEither DEF MachinesInv, Typed, CallShape, TaskType
<1>4. CASE live[a].active # c /\ End(c, TRUE) /\ UNCHANGED live
  <2>1. Ends(c, TRUE)
    BY <1>2, <1>4, EndIs
  <2>2. WorkOk(c)' /\ MachineOk(c)'
    BY <1>2, <1>3, <2>1 DEF WorkOk, MachineOk, Ends, Working
  <2> QED BY <1>1, <1>2, <1>4, <2>1, <2>2, MachinesSame DEF InCharge, Ends
<1>5. CASE /\ live[a].active = c
           /\ live' = [live EXCEPT ![a].active = None]
           /\ \E s \in {"retiring", "idling"} : task' = Staged(c, s)
  <2> DEFINE x == task[c].vm
  <2>1. /\ x \in Commands /\ vm[x].agent = a /\ vm[x].state \in {"running", "exited"}
        /\ a \notin unsafe /\ live[a].vm = x
    BY <1>2, <1>3, <1>5 DEF SlotOk, LiveType
  <2>2. ToStage(c, "retiring") \/ ToStage(c, "idling")
    BY <1>2, <1>5, StagedIs DEF Stages
  <2>3. /\ live'[a].vm = x /\ live'[a].active = None
        /\ \A b \in Agents \ {a} : live'[b] = live[b]
    <3>1. live \in [Agents -> LiveType]
      BY <1>2 DEF Typed
    <3> QED BY <1>5, <2>1, <3>1 DEF LiveType
  <2>4. LockStep(c)
    BY <1>1, <1>2, <2>2, <2>3 DEF LockStep, ToStage
  <2>5. SlotOk(a)'
    BY <1>2, <2>1, <2>3 DEF SlotOk
  <2>6. WorkOk(c)' /\ MachineOk(c)'
    BY <1>1, <1>2, <1>3, <2>1, <2>2, <2>3 DEF WorkOk, MachineOk, ToStage
  <2>7. ASSUME NEW v \in Commands, vm'[v].state = "running", vm'[v].agent = a
        PROVE  record'[a].vm = v /\ ~Forgettable(record'[a]) /\ Owned(v)'
    <3>1. v = x /\ record[a].vm = v /\ ~Forgettable(record[a])
      BY <1>1, <1>2, <2>1, <2>7, RunningUnderLock DEF InCharge
    <3>2. Owned(v)'
      BY <1>2, <2>3, <2>7, <3>1 DEF Owned
    <3> QED BY <1>2, <3>1, <3>2
  <2>8. record'[a].kind = "absent" => record'[a].vm = None
    BY <1>2 DEF MachinesInv, AbsentIsEmpty
  <2> QED BY <1>1, <1>2, <2>4, <2>5, <2>6, <2>7, <2>8, MachinesLock
<1> QED BY <1>1, <1>4, <1>5 DEF Completing

LEMMA WriteIdleMachines ==
  ASSUME CallsInv, MachinesInv, CallsInv', NEW c \in Commands, WriteIdle(c)
  PROVE  MachinesInv'
<1>1. PICK a \in Agents : a = task[c].agent
  BY HolderFacts, TaskIsEither DEF WriteIdle
<1> DEFINE x == task[c].vm
<1>2. /\ c \in Tasks /\ Typed /\ up /\ Holds(c) /\ task[c].stage = "idling" /\ CallShape(c)
      /\ up' /\ UNCHANGED <<live, vm, unsafe>>
  BY HolderFacts, TaskIsEither DEF WriteIdle
<1>3. /\ MachineOk(c) /\ SlotOk(a) /\ WorkOk(c) /\ live[a] \in LiveType /\ c # None
      /\ task[c].kind = "complete" /\ task[c].then = "done"
  BY <1>2, TaskIsEither DEF MachinesInv, Typed, CallShape, TaskType
<1>4. /\ x \in Commands /\ vm[x].agent = a /\ vm[x].state \in {"running", "exited"}
      /\ a \notin unsafe /\ live[a].vm = x /\ live[a].active = None
  BY <1>1, <1>2, <1>3 DEF WorkOk, Working
<1>5. /\ ToStage(c, "retiring") \/ Ends(c, TRUE)
      /\ record' = record \/ RecordBecomes(a, RecordOf(c, "current-idle"))
  BY <1>1, <1>2, StagedIs, EndIs, WrittenIs, RecordKindsAre DEF WriteIdle, Stages
<1>6. LockStep(c)
  BY <1>1, <1>2, <1>5 DEF LockStep, ToStage, Ends, RecordBecomes
<1>7. SlotOk(a)'
  BY <1>2, <1>4 DEF SlotOk
<1>8. WorkOk(c)' /\ MachineOk(c)'
  BY <1>1, <1>2, <1>3, <1>4, <1>5 DEF WorkOk, MachineOk, ToStage, Ends, Working
<1>9. ASSUME NEW v \in Commands, vm'[v].state = "running", vm'[v].agent = a
      PROVE  record'[a].vm = v /\ ~Forgettable(record'[a]) /\ Owned(v)'
  <2>1. v = x /\ record[a].vm = v /\ ~Forgettable(record[a])
    BY <1>1, <1>2, <1>9, RunningUnderLock
  <2>2. Owned(v)'
    BY <1>2, <1>4, <1>9, <2>1 DEF Owned
  <2>3. record'[a].vm = v /\ ~Forgettable(record'[a])
    BY <1>5, <2>1, RecordOfIs DEF Forgettable, RecordBecomes
  <2> QED BY <2>2, <2>3
<1>10. record'[a].kind = "absent" => record'[a].vm = None
  BY <1>5, RecordOfIs DEF RecordBecomes, MachinesInv, AbsentIsEmpty
<1> QED BY <1>1, <1>2, <1>6, <1>7, <1>8, <1>9, <1>10, MachinesLock

\* The lock sections of the administrative calls: they end, wait, or retire the
\* VM that is live.
LEMMA SectionMachines ==
  ASSUME CallsInv, MachinesInv, CallsInv', NEW t \in Admins, First(t) \/ Second(t)
  PROVE  MachinesInv'
<1>1. PICK a \in Agents : a = task[t].agent
  BY HolderFacts, TaskIsEither DEF First, Second
<1> DEFINE x == live[a].vm
<1>2. /\ t \in Tasks /\ t \notin Commands /\ Typed /\ up /\ Holds(t) /\ CallShape(t)
      /\ task[t].stage \in {"first", "second"} /\ up' /\ UNCHANGED <<live, record, vm, unsafe>>
  BY HolderFacts, TaskIsEither DEF First, Second
<1>3. /\ SlotOk(a) /\ live[a] \in LiveType /\ task \in [Tasks -> TaskType]
      /\ task[t].kind \notin {"acquire", "complete"}
  BY <1>2, TaskIsEither DEF MachinesInv, Typed, CallShape
<1>4. ASSUME NEW ok \in BOOLEAN, End(t, ok)
      PROVE  MachinesInv'
  <2>1. Ends(t, ok)
    BY <1>2, <1>4, EndIs
  <2>2. WorkOk(t)'
    BY <2>1 DEF WorkOk, Ends, Working
  <2> QED BY <1>2, <2>1, <2>2, MachinesSame DEF InCharge, Ends
<1>5. ASSUME NEW w \in {live[a].active, None},
             task' = [task EXCEPT ![t].stage = "waiting", ![t].wait = w]
      PROVE  MachinesInv'
  <2>1. w \in Commands \cup {None} /\ "waiting" \in Stages
    BY <1>3 DEF Stages, LiveType
  <2>2. /\ Turned(t) /\ task'[t].stage = "waiting" /\ task'[t].kind = task[t].kind
        /\ task'[t].agent = task[t].agent
    BY <1>2, <1>3, <1>5, <2>1, EditWait
  <2>3. WorkOk(t)'
    BY <2>2 DEF WorkOk, Working
  <2> QED BY <1>2, <2>2, <2>3, MachinesSame DEF InCharge
<1>6. CASE /\ x # None /\ (a \in unsafe => task[t].kind = "reap")
           /\ task' = [task EXCEPT ![t].stage = "retiring", ![t].vm = x]
  <2>1. /\ "retiring" \in Stages /\ x \in Commands /\ x \in Commands \cup {None}
        /\ vm[x].agent = a /\ a \notin unsafe /\ vm[x].state \in {"running", "exited"}
    BY <1>3, <1>6 DEF Stages, LiveType, SlotOk
  <2>2. PICK w \in Commands \cup {None} : w = x
    BY <2>1
  <2>3. /\ Turned(t) /\ task'[t].stage = "retiring" /\ task'[t].kind = task[t].kind
        /\ task'[t].agent = task[t].agent /\ task'[t].vm = x
    <3>1. task' = VmEdit(t, "retiring", w)
      BY <1>6, <2>2, Zenon DEF VmEdit
    <3>2. /\ Turned(t) /\ task'[t].stage = "retiring" /\ task'[t].kind = task[t].kind
          /\ task'[t].agent = task[t].agent /\ task'[t].vm = w
      BY <1>2, <1>3, <2>1, <3>1, VmEditIs
    <3> QED BY <2>2, <3>2
  <2>4. WorkOk(t)'
    BY <1>1, <1>2, <1>3, <2>1, <2>3 DEF WorkOk
  <2>5. task[t].stage \notin InCharge \cup {"activating", "held", "completing"}
    BY <1>2 DEF InCharge
  <2> HIDE DEF x
  <2> QED BY <1>2, <2>3, <2>4, <2>5, MachinesSame
<1>7. CASE First(t)
  <2>1. \/ End(t, ~(a \in unsafe))
        \/ task' = [task EXCEPT ![t].stage = "waiting", ![t].wait = live[a].active]
        \/ task' = [task EXCEPT ![t].stage = "waiting", ![t].wait = None]
        \/ /\ x # None /\ (a \in unsafe => task[t].kind = "reap")
           /\ task' = [task EXCEPT ![t].stage = "retiring", ![t].vm = x]
    BY <1>1, <1>7, Zenon DEF First, Concerns
  <2> HIDE DEF x
  <2> QED BY <1>4, <1>5, <1>6, <2>1
<1>8. CASE Second(t)
  <2>1. \/ End(t, a \notin unsafe)
        \/ /\ x # None /\ (a \in unsafe => task[t].kind = "reap")
           /\ task' = [task EXCEPT ![t].stage = "retiring", ![t].vm = x]
    BY <1>1, <1>8, Zenon DEF Second, Concerns
  <2> HIDE DEF x
  <2> QED BY <1>4, <1>6, <2>1
<1> QED BY <1>7, <1>8

\* A step of a call outside the lock leaves the machines alone.
LEMMA MachinesQuiet ==
  ASSUME CallsInv, MachinesInv, NEW t \in Tasks, up, up', Turned(t),
         UNCHANGED <<live, record, vm, unsafe>>,
         task[t].stage \notin Working, task'[t].stage \notin Working,
         task[t].stage \in {"held", "completing"} =>
           /\ task'[t].agent = task[t].agent /\ task'[t].vm = task[t].vm
           /\ task'[t].stage \in {"held", "completing"},
         t \in Commands => MachineOk(t)',
         t \in Commands /\ Acquiring(t)' => live[task'[t].agent].active \in {None, t}
  PROVE  MachinesInv'
<1>1. /\ \A u \in Tasks \ {t} : task'[u] = task[u]
      /\ \A c \in Commands : c \in Tasks
      /\ Typed
  BY TaskIsEither DEF Turned, CallsInv
<1>2. RunningVmIsRecorded' /\ AbsentIsEmpty'
  BY DEF MachinesInv, RunningVmIsRecorded, AbsentIsEmpty
<1>3. RunsOwned'
  <2> SUFFICES ASSUME NEW v \in Commands, vm'[v].state = "running"
               PROVE  Owned(v)'
    BY DEF RunsOwned
  <2>1. Owned(v)
    BY DEF MachinesInv, RunsOwned
  <2>2. \A u \in Tasks : task[u].stage \in InCharge => task'[u] = task[u]
    BY <1>1 DEF InCharge, Working
  <2> QED BY <2>1, <2>2 DEF Owned
<1>4. AcquiresAlone'
  BY <1>1 DEF AcquiresAlone, MachinesInv, Acquiring
<1>5. \A v \in Commands : MachineOk(v)'
  <2> SUFFICES ASSUME NEW v \in Commands, v # t
               PROVE  MachineOk(v)'
    OBVIOUS
  <2>1. MachineOk(v) /\ task'[v] = task[v]
    BY <1>1 DEF MachinesInv
  <2> QED BY <2>1 DEF MachineOk
<1>6. \A a \in Agents : SlotOk(a)'
  <2> SUFFICES ASSUME NEW a \in Agents
               PROVE  SlotOk(a)'
    OBVIOUS
  <2>1. SlotOk(a) /\ live[a] \in LiveType
    BY <1>1 DEF MachinesInv, Typed
  <2>2. live[a].active # None /\ live[a].active # t
          => task'[live[a].active] = task[live[a].active]
    BY <1>1, <2>1 DEF LiveType
  <2>3. live[a].active # None /\ live[a].active = t
          => task[t].stage \in {"held", "completing"}
    BY <2>1 DEF SlotOk, Working
  <2> QED BY <2>1, <2>2, <2>3 DEF SlotOk
<1>7. \A u \in Tasks : WorkOk(u)'
  <2> SUFFICES ASSUME NEW u \in Tasks, u # t
               PROVE  WorkOk(u)'
    BY DEF WorkOk
  <2>1. WorkOk(u) /\ task'[u] = task[u]
    BY <1>1 DEF MachinesInv
  <2> QED BY <2>1 DEF WorkOk
<1> QED BY <1>2, <1>3, <1>4, <1>5, <1>6, <1>7 DEF MachinesInv

LEMMA CommandMachines ==
  ASSUME CallsInv, MachinesInv, NEW c \in Commands,
         \/ \E a \in Agents : Acquire(c, a)
         \/ Exec(c) \/ ExecSettles(c) \/ Complete(c)
  PROVE  MachinesInv'
<1>1. /\ Typed /\ CallShape(c) /\ c \in Tasks /\ MachineOk(c) /\ task \in [Tasks -> TaskType]
      /\ c # None
  BY TaskIsEither DEF CallsInv, MachinesInv, Typed
<1>2. ASSUME NEW a \in Agents, Acquire(c, a)
      PROVE  MachinesInv'
  <2>1. /\ up /\ up' /\ task[c].stage = "idle" /\ live[a].active = None
        /\ task' = [task EXCEPT ![c].stage = "entered", ![c].agent = a]
        /\ UNCHANGED <<live, record, vm, unsafe>>
    BY <1>2 DEF Acquire, SlotFree
  <2>2. Turned(c) /\ task'[c].stage = "entered" /\ task'[c].agent = a
    <3>1. "entered" \in Stages
      BY DEF Stages
    <3> QED BY <1>1, <2>1, <3>1, EditAgent
  <2>3. MachineOk(c)'
    BY <1>1, <2>1, <2>2 DEF MachineOk
  <2> QED BY <1>1, <2>1, <2>2, <2>3, MachinesQuiet DEF Working
<1>3. CASE Exec(c) \/ ExecSettles(c)
  <2>1. /\ up /\ up' /\ task[c].stage = "held" /\ UNCHANGED <<live, record, vm, unsafe>>
        /\ \E e \in {"running", "settled"} : task' = [task EXCEPT ![c].exec = e]
    BY <1>1, <1>3 DEF Exec, ExecSettles, CallShape, memory
  <2>2. PICK e \in {"running", "settled"} : task' = [task EXCEPT ![c].exec = e]
    BY <2>1
  <2>3. /\ Turned(c) /\ task'[c].stage = "held" /\ task'[c].agent = task[c].agent
        /\ task'[c].vm = task[c].vm /\ task'[c].material = task[c].material
    BY <1>1, <2>1, <2>2, EditExec
  <2>4. MachineOk(c)'
    BY <1>1, <2>1, <2>3 DEF MachineOk, Working
  <2>5. ~Acquiring(c)'
    BY <2>3 DEF Acquiring, InLock, Entry, Working
  <2> QED BY <1>1, <2>1, <2>3, <2>4, <2>5, MachinesQuiet DEF Working
<1>4. CASE Complete(c)
  <2>1. /\ up /\ up' /\ task[c].stage = "held" /\ UNCHANGED <<live, record, vm, unsafe>>
        /\ task' = [task EXCEPT ![c].stage = "completing", ![c].kind = "complete"]
    BY <1>4 DEF Complete, memory
  <2>2. /\ Turned(c) /\ task'[c].stage = "completing" /\ task'[c].agent = task[c].agent
        /\ task'[c].vm = task[c].vm /\ task'[c].material = task[c].material
        /\ task'[c].kind = "complete"
    <3>1. "completing" \in Stages /\ "complete" \in Kinds
      BY DEF Stages, Kinds
    <3> QED BY <1>1, <2>1, <3>1, EditKind, ZenonT(60)
  <2>3. MachineOk(c)' /\ ~Acquiring(c)'
    BY <1>1, <2>1, <2>2 DEF MachineOk, Acquiring, Working
  <2> QED BY <1>1, <2>1, <2>2, <2>3, MachinesQuiet DEF Working
<1> QED BY <1>2, <1>3, <1>4

LEMMA AdminMachines ==
  ASSUME CallsInv, MachinesInv, NEW t \in Admins,
         \/ BeginClose(t) \/ CloseNext(t) \/ AwaitFinished(t)
         \/ \E a \in Agents, kind \in AdminKinds : BeginAdmin(t, kind, a)
  PROVE  MachinesInv'
<1>1. /\ Typed /\ CallShape(t) /\ t \in Tasks /\ t \notin Commands /\ task \in [Tasks -> TaskType]
  BY TaskIsEither DEF CallsInv, Typed
<1>2. /\ up /\ up' /\ task[t].stage \in {"idle", "next", "waiting"}
      /\ UNCHANGED <<live, record, vm, unsafe>>
  <2>1. CASE BeginClose(t)
    BY <2>1 DEF BeginClose, memory
  <2>2. CASE CloseNext(t)
    BY <2>2 DEF CloseNext, memory
  <2>3. CASE AwaitFinished(t)
    BY <2>3 DEF AwaitFinished, memory
  <2>4. ASSUME NEW a \in Agents, NEW kind \in AdminKinds, BeginAdmin(t, kind, a)
        PROVE  /\ up /\ up' /\ task[t].stage = "idle"
               /\ UNCHANGED <<live, record, vm, unsafe>>
    <3>1. /\ up /\ task[t].stage = "idle"
          /\ UNCHANGED <<up, crashes, recovering, closed, memory, vm, record, material>>
      BY <2>4 DEF BeginAdmin
    <3> QED BY <3>1 DEF memory
  <2> QED BY <2>1, <2>2, <2>3, <2>4
<1>3. Turned(t) /\ task'[t].stage \in {"next", "done", "first", "second"}
  <2>1. CASE BeginClose(t)
    BY <1>1, <2>1, EditClose
  <2>2. CASE CloseNext(t)
    <3>1. CASE task' = Staged(t, "done")
      BY <1>1, <3>1, StagedIs DEF ToStage, Stages
    <3>2. ASSUME NEW a \in task[t].todo,
                 task' = [task EXCEPT ![t].stage = "first", ![t].agent = a, ![t].todo = @ \ {a}]
          PROVE  Turned(t) /\ task'[t].stage = "first"
      BY <1>1, <3>2, EditTodo
    <3> QED BY <2>2, <3>1, <3>2 DEF CloseNext
  <2>3. CASE AwaitFinished(t)
    BY <1>1, <2>3, StagedIs DEF ToStage, Stages, AwaitFinished
  <2>4. ASSUME NEW a \in Agents, NEW kind \in AdminKinds, BeginAdmin(t, kind, a)
        PROVE  Turned(t) /\ task'[t].stage = "first"
    BY <1>1, <2>4, EditAdmin
  <2> QED BY <2>1, <2>2, <2>3, <2>4
<1> QED BY <1>1, <1>2, <1>3, MachinesQuiet DEF Working

\* The steps of the world.
LEMMA ExitMachines ==
  ASSUME CallsInv, MachinesInv, NEW v \in Commands, VmExits(v)
  PROVE  MachinesInv'
<1>1. /\ Typed /\ vm[v].state = "running"
      /\ UNCHANGED <<up, recovering, unsafe, live, task, record>>
  BY DEF CallsInv, VmExits, memory
<1>2. VmBecomes(v, "exited")
  BY <1>1, VmStateIs, RecordKindsAre DEF VmExits
<1>3. \A w \in Commands : /\ vm'[w].agent = vm[w].agent /\ vm'[w].material = vm[w].material
                          /\ vm'[w] = vm[w] \/ (vm[w].state = "running" /\ vm'[w].state = "exited")
  BY <1>1, <1>2 DEF VmBecomes
<1>4. RunningVmIsRecorded' /\ AbsentIsEmpty'
  BY <1>1, <1>3 DEF MachinesInv, RunningVmIsRecorded, AbsentIsEmpty
<1>5. RunsOwned'
  BY <1>1, <1>3 DEF MachinesInv, RunsOwned, Owned
<1>6. AcquiresAlone'
  BY <1>1 DEF MachinesInv, AcquiresAlone, Acquiring
<1>7. \A w \in Commands : MachineOk(w)'
  <2> SUFFICES ASSUME NEW w \in Commands
               PROVE  MachineOk(w)'
    OBVIOUS
  <2>1. MachineOk(w)
    BY DEF MachinesInv
  <2> QED BY <1>1, <1>3, <2>1 DEF MachineOk
<1>8. \A a \in Agents : SlotOk(a)'
  <2> SUFFICES ASSUME NEW a \in Agents
               PROVE  SlotOk(a)'
    OBVIOUS
  <2>1. SlotOk(a) /\ live[a] \in LiveType
    BY <1>1 DEF MachinesInv, Typed
  <2> QED BY <1>1, <1>3, <2>1 DEF SlotOk, LiveType
<1>9. \A t \in Tasks : WorkOk(t)'
  <2> SUFFICES ASSUME NEW t \in Tasks, task[t].stage \in Working
               PROVE  WorkOk(t)'
    BY <1>1 DEF WorkOk
  <2>1. /\ WorkOk(t)
        /\ t \in Commands \/ task[t].stage \in {"retiring", "terminating", "clearing"}
    BY TaskIsEither DEF MachinesInv, CallsInv, CallShape, Working
  <2> QED BY <1>1, <1>3, <2>1 DEF WorkOk
<1> QED BY <1>4, <1>5, <1>6, <1>7, <1>8, <1>9 DEF MachinesInv

LEMMA MachinesAlone ==
  ASSUME MachinesInv, UNCHANGED <<up, recovering, unsafe, live, task, vm, record>>
  PROVE  MachinesInv'
<1>1. /\ RunningVmIsRecorded' /\ AbsentIsEmpty' /\ RunsOwned' /\ AcquiresAlone'
  BY DEF MachinesInv, RunningVmIsRecorded, AbsentIsEmpty, RunsOwned, Owned, AcquiresAlone, Acquiring
<1>2. /\ \A v \in Commands : MachineOk(v)'
      /\ \A a \in Agents : SlotOk(a)'
      /\ \A t \in Tasks : WorkOk(t)'
  BY DEF MachinesInv, MachineOk, SlotOk, WorkOk
<1> QED BY <1>1, <1>2 DEF MachinesInv

\* The memory is lost: the recovery answers for what still runs.
LEMMA CrashMachines ==
  ASSUME CallsInv, MachinesInv, CallsInv', Crash
  PROVE  MachinesInv'
<1>1. /\ ~up' /\ recovering' = {a \in Agents : record[a].kind # "absent"} /\ unsafe' = {}
      /\ live' = [a \in Agents |-> NoLive] /\ record' = record
  BY DEF Crash
<1>2. \A t \in Tasks : /\ task'[t].stage \in {"idle", "done"}
                       /\ task'[t].stage = "idle" => task[t].stage = "idle"
                       /\ task'[t].agent = task[t].agent /\ task'[t].material = task[t].material
  BY CrashTask
<1>3. \A v \in Commands :
        /\ vm'[v].agent = vm[v].agent /\ vm'[v].material = vm[v].material
        /\ vm'[v].state = IF vm[v].state = "created" THEN "gone" ELSE vm[v].state
  BY CrashVms
<1>4. \A a \in Agents : live'[a].vm = None /\ live'[a].active = None
  BY <1>1, NoLiveIs
<1>5. RunningVmIsRecorded' /\ AbsentIsEmpty'
  BY <1>1, <1>3 DEF MachinesInv, RunningVmIsRecorded, AbsentIsEmpty
<1>6. RunsOwned'
  <2> SUFFICES ASSUME NEW v \in Commands, vm'[v].state = "running"
               PROVE  Owned(v)'
    BY DEF RunsOwned
  <2>1. vm[v].state = "running" /\ vm'[v].agent = vm[v].agent
    BY <1>3
  <2>2. /\ vm[v].agent \in Agents /\ record[vm[v].agent].vm = v
        /\ record[vm[v].agent].kind # "absent"
    BY <2>1, TaskIsEither
    DEF MachinesInv, MachineOk, RunningVmIsRecorded, AbsentIsEmpty
  <2> QED BY <1>1, <2>1, <2>2 DEF Owned
<1>7. AcquiresAlone' /\ \A t \in Tasks : WorkOk(t)'
  BY <1>2, TaskIsEither DEF AcquiresAlone, Acquiring, WorkOk, InLock, Entry, Working
<1>8. \A v \in Commands : MachineOk(v)'
  <2> SUFFICES ASSUME NEW v \in Commands
               PROVE  MachineOk(v)'
    OBVIOUS
  <2>1. MachineOk(v) /\ v \in Tasks
    BY TaskIsEither DEF MachinesInv
  <2> QED BY <1>2, <1>3, <2>1 DEF MachineOk, Working
<1>9. \A a \in Agents : SlotOk(a)'
  BY <1>4, EmptySlot
<1> QED BY <1>5, <1>6, <1>7, <1>8, <1>9 DEF MachinesInv

\* The recovery settles one record: nothing is live and nobody works.
LEMMA RecoverMachines ==
  ASSUME CallsInv, MachinesInv, NEW a \in Agents, RecoverRecord(a)
  PROVE  MachinesInv'
<1>1. /\ Typed /\ ~up /\ a \in recovering /\ recovering' = recovering \ {a}
      /\ UNCHANGED <<up, live, task>>
      /\ \A t \in Tasks : task[t].stage \in {"idle", "done"}
      /\ \A b \in Agents : live[b] = NoLive
  BY DEF CallsInv, RecoverRecord, DownIsIdle
<1>2. ASSUME NEW v \in Commands, vm[v].state \in {"created", "running", "exited"}
      PROVE  vm[v].agent \in Agents
  BY <1>2 DEF MachinesInv, MachineOk
<1>3. ASSUME NEW v \in Commands, vm[v].state = "running"
      PROVE  /\ vm[v].agent \in Agents /\ vm[v].agent \in recovering \cup unsafe
             /\ record[vm[v].agent].vm = v /\ ~Forgettable(record[vm[v].agent])
  BY <1>1, <1>2, <1>3 DEF MachinesInv, RunsOwned, Owned, RunningVmIsRecorded
<1>4. /\ \A b \in Agents \ {a} : record'[b] = record[b]
      /\ \A v \in Commands : /\ vm'[v].agent = vm[v].agent /\ vm'[v].material = vm[v].material
                             /\ vm'[v] = vm[v] \/ vm'[v].state = "gone"
      /\ unsafe \subseteq unsafe'
      /\ \/ /\ record'[a].kind = "absent" /\ record'[a].vm = None
            /\ \A v \in Commands : vm'[v].state = "running" => vm[v].agent # a
         \/ /\ record'[a].kind = "owner-unsafe" /\ record'[a].vm = record[a].vm
            /\ a \in unsafe' /\ vm' = vm
  <2>1. record \in [Agents -> RecordType] /\ vm \in [Commands -> VmType]
    BY <1>1 DEF Typed
  <2>2. CASE Forgettable(record[a]) /\ record' = Deleted(a) /\ UNCHANGED <<unsafe, vm>>
    <3>1. RecordBecomes(a, NoRecord)
      BY <1>1, <2>2, DeletedIs
    <3> QED BY <1>3, <2>2, <3>1 DEF RecordBecomes, NoRecord
  <2>3. CASE /\ ~Forgettable(record[a]) /\ record' = Deleted(a)
             /\ vm' = [vm EXCEPT ![record[a].vm].state = "gone"]
             /\ UNCHANGED unsafe
    <3>1. RecordBecomes(a, NoRecord)
      BY <1>1, <2>3, DeletedIs
    <3>2. record[a].vm \in Commands => VmBecomes(record[a].vm, "gone")
      BY <1>1, <2>3, VmStateIs, RecordKindsAre
    <3>3. record[a].vm \notin Commands => vm' = vm
      BY <2>1, <2>3
    <3>4. \A v \in Commands :
            /\ vm'[v].agent = vm[v].agent /\ vm'[v].material = vm[v].material
            /\ vm'[v] = vm[v] \/ vm'[v].state = "gone"
            /\ v = record[a].vm => vm'[v].state = "gone"
      BY <3>2, <3>3 DEF VmBecomes
    <3> QED BY <1>3, <2>3, <3>1, <3>4 DEF RecordBecomes, NoRecord
  <2>4. CASE /\ record' = [record EXCEPT ![a].kind = "owner-unsafe"]
             /\ unsafe' = unsafe \cup {a} /\ UNCHANGED vm
    BY <2>1, <2>4 DEF RecordType
  <2> QED BY <2>2, <2>3, <2>4 DEF RecoverRecord
<1>5. RunningVmIsRecorded' /\ AbsentIsEmpty' /\ RunsOwned'
  <2>1. ASSUME NEW v \in Commands, vm'[v].state = "running"
        PROVE  /\ record'[vm'[v].agent].vm = v /\ ~Forgettable(record'[vm'[v].agent])
               /\ Owned(v)'
    <3>1. /\ vm[v].state = "running" /\ vm'[v].agent = vm[v].agent
      BY <1>4, <2>1
    <3>2. CASE vm[v].agent # a
      BY <1>1, <1>3, <1>4, <3>1, <3>2 DEF Owned
    <3>3. CASE vm[v].agent = a
      BY <1>1, <1>3, <1>4, <2>1, <3>1, <3>3 DEF Owned, Forgettable
    <3> QED BY <3>2, <3>3
  <2>2. AbsentIsEmpty'
    BY <1>4 DEF MachinesInv, AbsentIsEmpty
  <2> QED BY <2>1, <2>2 DEF RunningVmIsRecorded, RunsOwned
<1>6. AcquiresAlone' /\ \A t \in Tasks : WorkOk(t)'
  BY <1>1, TaskIsEither DEF AcquiresAlone, Acquiring, WorkOk, InLock, Entry, Working
<1>7. \A v \in Commands : MachineOk(v)'
  <2> SUFFICES ASSUME NEW v \in Commands
               PROVE  MachineOk(v)'
    OBVIOUS
  <2>1. MachineOk(v) /\ v \in Tasks
    BY TaskIsEither DEF MachinesInv
  <2> QED BY <1>1, <1>4, <2>1 DEF MachineOk, Working
<1>8. \A b \in Agents : SlotOk(b)'
  BY <1>1, NoLiveIs, EmptySlot
<1> QED BY <1>5, <1>6, <1>7, <1>8 DEF MachinesInv

LEMMA RecoveredMachines ==
  ASSUME CallsInv, MachinesInv, Recovered
  PROVE  MachinesInv'
<1>1. /\ ~up /\ up' /\ recovering = {} /\ UNCHANGED <<recovering, unsafe, live, task, vm, record>>
  BY DEF Recovered
<1>2. /\ RunningVmIsRecorded' /\ AbsentIsEmpty' /\ AcquiresAlone'
  BY <1>1 DEF MachinesInv, RunningVmIsRecorded, AbsentIsEmpty, AcquiresAlone, Acquiring
<1>3. RunsOwned'
  BY <1>1 DEF MachinesInv, RunsOwned, Owned
<1>4. /\ \A v \in Commands : MachineOk(v)'
      /\ \A a \in Agents : SlotOk(a)'
      /\ \A t \in Tasks : WorkOk(t)'
  BY <1>1 DEF MachinesInv, MachineOk, SlotOk, WorkOk
<1> QED BY <1>2, <1>3, <1>4 DEF MachinesInv

LEMMA MachinesStep ==
  ASSUME CallsInv, MachinesInv, [Next]_vars
  PROVE  MachinesInv'
<1>0. CallsInv'
  BY CallsStep
<1>1. ASSUME NEW t \in Tasks, TaskStep(t)
      PROVE  MachinesInv'
  <2>1. CASE \/ WriteRetiring(t) \/ Terminated(t) \/ NotTerminated(t) \/ Closed(t) \/ NotClosed(t)
             \/ Cleared(t) \/ NotCleared(t)
    BY <1>0, <2>1, WriteRetiringMachines, TerminatedMachines, NotTerminatedMachines, ClosedMachines,
       NotClosedMachines, ClearedMachines
  <2>2. CASE /\ t \in Commands
             /\ \/ Materialize(t) \/ Probe(t) \/ WriteIntent(t) \/ Create(t) \/ WriteCreated(t)
                \/ Start(t) \/ Identify(t) \/ WriteIdentity(t) \/ Authorize(t) \/ WriteActive(t)
                \/ ExecSettles(t) \/ Complete(t) \/ Completing(t) \/ WriteIdle(t)
    BY <1>0, <2>2, MaterializeMachines, ProbeMachines, WriteIntentMachines, CreateMachines,
       WriteCreatedMachines, StartMachines, IdentifyMachines, WriteIdentityMachines,
       AuthorizeMachines, WriteActiveMachines, CommandMachines, CompletingMachines,
       WriteIdleMachines
  <2>3. CASE t \in Admins /\ (CloseNext(t) \/ First(t) \/ AwaitFinished(t) \/ Second(t))
    BY <1>0, <2>3, AdminMachines, SectionMachines
  <2> QED BY <1>1, <2>1, <2>2, <2>3 DEF TaskStep
<1>2. ASSUME NEW c \in Commands, Exec(c) \/ VmExits(c) \/ \E a \in Agents : Acquire(c, a)
      PROVE  MachinesInv'
  BY <1>2, CommandMachines, ExitMachines
<1>3. ASSUME NEW t \in Admins,
             \/ BeginClose(t) \/ \E a \in Agents, kind \in AdminKinds : BeginAdmin(t, kind, a)
      PROVE  MachinesInv'
  BY <1>3, AdminMachines
<1>4. CASE OpenZone \/ ChangeMaterial
  BY <1>4, MachinesAlone DEF OpenZone, ChangeMaterial, memory
<1>5. CASE Crash
  BY <1>0, <1>5, CrashMachines
<1>6. CASE Recovered
  BY <1>6, RecoveredMachines
<1>7. ASSUME NEW a \in Agents, RecoverRecord(a)
      PROVE  MachinesInv'
  BY <1>7, RecoverMachines
<1>8. CASE UNCHANGED vars
  BY <1>8, MachinesAlone DEF vars, memory
<1> QED BY <1>1, <1>2, <1>3, <1>4, <1>5, <1>6, <1>7, <1>8 DEF Next

LEMMA MachinesStart ==
  ASSUME Init
  PROVE  MachinesInv
<1>1. /\ up /\ \A v \in Commands : vm[v].state = "none"
      /\ \A a \in Agents : live[a].vm = None /\ live[a].active = None
      /\ \A a \in Agents : record[a].kind = "absent" /\ record[a].vm = None
      /\ \A t \in Tasks : task[t].stage = "idle"
      /\ \A t \in Commands : t \in Tasks
  BY TaskIsEither DEF Init, NoVm, NoLive, NoRecord, IdleTask
<1>2. RunningVmIsRecorded /\ AbsentIsEmpty /\ RunsOwned /\ AcquiresAlone
  BY <1>1 DEF RunningVmIsRecorded, AbsentIsEmpty, RunsOwned, AcquiresAlone, Acquiring,
              InLock, Entry, Working
<1>3. /\ \A v \in Commands : MachineOk(v)
      /\ \A a \in Agents : SlotOk(a)
      /\ \A t \in Tasks : WorkOk(t)
  BY <1>1 DEF MachineOk, SlotOk, WorkOk, Working
<1> QED BY <1>2, <1>3 DEF MachinesInv

-----------------------------------------------------------------------------
(* The third layer: what calls outside the lock may rely on.               *)

\* runtimeKeysByZoneId names every key that something happened to.
KnownOk ==
  up => /\ unsafe \subseteq known
        /\ \A a \in Agents : live[a].vm # None => a \in known
        /\ \A t \in Tasks : task[t].stage \in Working => task[t].agent \in known
        /\ \A c \in Commands : task[c].stage \notin {"idle", "done"} => task[c].agent \in known

\* Nothing of the agent runs, is live or is being worked on.
Clean(a) ==
  /\ live[a].vm = None
  /\ \A t \in Tasks : task[t].stage \in Working => task[t].agent # a
  /\ \A v \in Commands : vm[v].state = "running" => vm[v].agent # a

\* closeZone has still to answer for the agent, or has failed to.
Draining(t, a) ==
  /\ task[t].kind = "close"
  /\ \/ ~task[t].ok
     \/ task[t].stage # "done" /\ a \in task[t].todo
     \/ task[t].stage \in InLock \cup {"waiting"} /\ task[t].agent = a

CloseOk ==
  /\ \A t \in Admins : task[t].kind = "close" /\ task[t].stage # "done" => closed
  /\ closed => \A a \in Agents : Clean(a) \/ \E t \in Admins : Draining(t, a)

\* A command whose end was announced does not come back.
Over(c) == \/ task[c].stage = "done"
           \/ task[c].stage \in {"retiring", "terminating", "clearing"} /\ task[c].then = "done"

FinishedOk == \A c \in finished : Over(c)

\* What an administrative call relies on while it waits and when it retires.
WaitOk(t) ==
  LET T == task[t]
      l == live[T.agent]
  IN
  /\ T.stage = "second" => T.wait \in finished \cup {None}
  /\ /\ T.stage \in {"waiting", "second"} /\ T.kind \in {"close", "invalidate"}
     /\ l.active # None /\ Concerns(t, l.vm)
     => l.active = T.wait
  /\ T.stage \in Working /\ T.kind # "force-retire" => l.active = None
  /\ T.kind = "invalidate" => T.material <= material

\* The command is past the start of the VM it created, if it ever created one.
Early == {"idle", "entered", "probing", "reserving", "intending", "creating", "created", "starting"}
Started(c) == /\ task[c].stage \notin Early
              /\ task[c].then = "reserving" => task[c].stage \notin Working

\* The VM of a command with a handle is the live one, fenced, or does not run.
HeldOk(c) ==
  LET T == task[c] IN
  T.stage = "held" =>
    /\ T.vm \in Commands /\ vm[T.vm].agent = T.agent /\ Started(T.vm)
    /\ vm[T.vm].state = "running" => \/ live[T.agent].vm = T.vm /\ live[T.agent].active = c
                                     \/ T.agent \in unsafe

Invalidated(t) == task[t].kind = "invalidate" /\ task[t].stage = "done" /\ task[t].ok

\* After an invalidation neither a VM nor an acquisition has the old material.
GoneOk(t) ==
  Invalidated(t) =>
    /\ \A c \in Commands :
         /\ task[c].agent = task[t].agent /\ task[c].stage \in Working /\ task[c].kind = "acquire"
         => task[c].material >= task[t].material
    /\ \A v \in Commands :
         /\ vm[v].agent = task[t].agent /\ vm[v].material < task[t].material
         => vm[v].state # "running"

EffectsInv ==
  /\ KnownOk /\ CloseOk /\ FinishedOk
  /\ \A t \in Admins : WaitOk(t)
  /\ \A c \in Commands : HeldOk(c)
  /\ \A t \in Admins : GoneOk(t)

\* What a step of a retirement changes.
RetireStep(t) ==
  LET a == task[t].agent IN
  /\ up /\ up' /\ Holds(t) /\ Turned(t) /\ UNCHANGED <<closed, material, known>>
  /\ a \in Agents /\ task[t].stage \in {"retiring", "terminating", "containing", "clearing"}
  /\ task'[t].agent = a /\ task'[t].kind = task[t].kind /\ task'[t].material = task[t].material
  /\ task'[t].wait = task[t].wait /\ task'[t].todo = task[t].todo
  /\ \/ /\ task'[t].ok = task[t].ok /\ UNCHANGED <<finished, unsafe>>
        /\ \/ task'[t].stage \in {"terminating", "clearing"} /\ task'[t].then = task[t].then
           \/ task'[t].stage = "reserving" /\ task[t].then = "reserving"
     \/ Ends(t, TRUE) /\ UNCHANGED unsafe /\ task[t].stage \in {"containing", "clearing"}
     \/ Ends(t, FALSE)
  /\ unsafe \subseteq unsafe' /\ \A b \in unsafe' : b \in unsafe \/ b = a
  /\ \A b \in Agents : \/ live'[b] = live[b]
                       \/ /\ b = a /\ task[t].stage = "terminating" /\ live'[b] = NoLive
                          /\ vm'[task[t].vm].state = "gone" \/ b \in unsafe'
  /\ \A v \in Commands : \/ vm'[v] = vm[v]
                         \/ /\ vm'[v].agent = vm[v].agent /\ vm'[v].material = vm[v].material
                            /\ vm'[v].state = "gone"

LEMMA RetireSteps ==
  ASSUME CallsInv, MachinesInv, NEW t \in Tasks,
         \/ WriteRetiring(t) \/ Terminated(t) \/ NotTerminated(t) \/ Closed(t) \/ NotClosed(t)
         \/ Cleared(t) \/ NotCleared(t)
  PROVE  RetireStep(t)
<1>1. Typed /\ WorkOk(t)
  BY DEF CallsInv, MachinesInv
<1>2. ASSUME At(t, "terminating") \/ At(t, "containing")
      PROVE  task[t].vm \in Commands
  BY <1>1, <1>2, ContainingIs DEF WorkOk, At, Working
<1>3. CASE WriteRetiring(t)
  <2>1. /\ At(t, "retiring") /\ ToStage(t, "terminating") /\ up' /\ task[t].agent \in Agents
        /\ UNCHANGED <<closed, material, known, finished, unsafe, live, vm>>
    BY <1>1, <1>3, HolderFacts, StagedIs DEF WriteRetiring, Stages, Stay
  <2> QED BY <2>1 DEF RetireStep, ToStage, At
<1>4. CASE Terminated(t)
  <2>1. /\ At(t, "terminating") /\ ToStage(t, "clearing") /\ up' /\ task[t].agent \in Agents
        /\ UNCHANGED <<closed, material, known, finished, unsafe>>
        /\ live' = [live EXCEPT ![task[t].agent] = NoLive]
        /\ vm' = [vm EXCEPT ![task[t].vm].state = "gone"]
    BY <1>1, <1>4, HolderFacts, StagedIs DEF Terminated, Stages, Stay
  <2>2. VmBecomes(task[t].vm, "gone") /\ SlotBecomes(task[t].agent, NoLive)
    BY <1>1, <1>2, <2>1, VmStateIs, RecordKindsAre, SlotSet, NoLiveIs
  <2> QED BY <2>1, <2>2 DEF RetireStep, ToStage, At, VmBecomes, SlotBecomes
<1>5. CASE NotTerminated(t)
  <2>1. /\ At(t, "terminating") /\ Ends(t, FALSE) /\ up' /\ task[t].agent \in Agents
        /\ UNCHANGED <<closed, material, known>>
        /\ live' = [live EXCEPT ![task[t].agent] = NoLive]
        /\ vm' = vm \/ vm' = [vm EXCEPT ![task[t].vm].state = "gone"]
        /\ unsafe' = unsafe \cup {task[t].agent}
    BY <1>1, <1>5, HolderFacts, EndIs DEF NotTerminated
  <2>2. vm' = vm \/ VmBecomes(task[t].vm, "gone")
    BY <1>1, <1>2, <2>1, VmStateIs, RecordKindsAre
  <2>3. SlotBecomes(task[t].agent, NoLive)
    BY <1>1, <2>1, SlotSet, NoLiveIs
  <2> QED BY <2>1, <2>2, <2>3 DEF RetireStep, Ends, At, VmBecomes, SlotBecomes
<1>6. CASE Closed(t)
  <2>1. /\ At(t, "containing") /\ up' /\ task[t].agent \in Agents
        /\ UNCHANGED <<closed, material, known, unsafe, live>>
        /\ (ToStage(t, "clearing") /\ UNCHANGED finished) \/ Ends(t, TRUE)
        /\ vm' = [vm EXCEPT ![task[t].vm].state = "gone"]
    BY <1>1, <1>6, HolderFacts, StagedIs, EndIs DEF Closed, Stages, Stay
  <2>2. VmBecomes(task[t].vm, "gone")
    BY <1>1, <1>2, <2>1, VmStateIs, RecordKindsAre
  <2> QED BY <2>1, <2>2 DEF RetireStep, Ends, ToStage, At, VmBecomes
<1>7. CASE NotClosed(t)
  <2>1. /\ At(t, "containing") /\ Ends(t, FALSE) /\ up' /\ task[t].agent \in Agents
        /\ UNCHANGED <<closed, material, known, live, vm>>
        /\ unsafe' = unsafe \cup {task[t].agent}
    BY <1>1, <1>7, HolderFacts, EndIs DEF NotClosed
  <2> QED BY <2>1 DEF RetireStep, Ends, At
<1>8. CASE Cleared(t)
  <2>1. /\ At(t, "clearing") /\ up' /\ task[t].agent \in Agents
        /\ UNCHANGED <<closed, material, known, unsafe, live, vm>>
    BY <1>1, <1>8, HolderFacts DEF Cleared
  <2>2. CASE task[t].then = "reserving"
    <3>1. task' = [task EXCEPT ![t].stage = "reserving", ![t].then = "done"] /\ UNCHANGED finished
      BY <1>8, <2>2 DEF Cleared, Stay
    <3>2. /\ Turned(t) /\ task'[t].stage = "reserving" /\ task'[t].agent = task[t].agent
          /\ task'[t].kind = task[t].kind /\ task'[t].material = task[t].material
          /\ task'[t].wait = task[t].wait /\ task'[t].todo = task[t].todo
          /\ task'[t].ok = task[t].ok /\ task'[t].then = "done"
      <4>1. "reserving" \in Stages /\ task \in [Tasks -> TaskType]
        BY <1>1 DEF Stages, Typed
      <4> QED BY <3>1, <4>1, EditThen
    <3> QED BY <2>1, <2>2, <3>1, <3>2 DEF RetireStep, At
  <2>3. CASE task[t].then # "reserving"
    <3>1. Ends(t, TRUE)
      BY <1>1, <1>8, <2>3, EndIs DEF Cleared
    <3> QED BY <2>1, <3>1 DEF RetireStep, Ends, At
  <2> QED BY <2>2, <2>3
<1>9. CASE NotCleared(t)
  <2>1. /\ At(t, "clearing") /\ Ends(t, FALSE) /\ up' /\ task[t].agent \in Agents
        /\ UNCHANGED <<closed, material, known, live, vm>>
        /\ unsafe' = unsafe \cup {task[t].agent}
    BY <1>1, <1>9, HolderFacts, EndIs DEF NotCleared
  <2> QED BY <2>1 DEF RetireStep, Ends, At
<1> QED BY <1>3, <1>4, <1>5, <1>6, <1>7, <1>8, <1>9

\* What a step of a command changes, as the other calls see it.
LiveStep(c) ==
  \A b \in Agents :
    \/ live'[b] = live[b]
    \/ /\ b = task[c].agent
       /\ \/ /\ task[c].stage = "terminating" /\ live'[b] = NoLive
             /\ vm'[task[c].vm].state = "gone" \/ b \in unsafe'
          \/ /\ task[c].stage = "authorizing" /\ live'[b].vm = task[c].vm
             /\ \/ live'[b].active = None
                \/ live'[b].active = c /\ ~closed /\ task[c].material = material
          \/ /\ task[c].stage \in {"activating", "completing"} /\ live[b].active = c
             /\ live'[b].vm = live[b].vm /\ live'[b].active = None

VmStep(c) ==
  \A v \in Commands :
    \/ vm'[v] = vm[v]
    \/ /\ vm'[v].agent = vm[v].agent /\ vm'[v].material = vm[v].material
       /\ vm'[v].state = "gone" \/ (v = c /\ task[c].stage = "starting")
    \/ v = c /\ task[c].stage = "creating" /\ vm'[v].state = "created"

CommandStep(c) ==
  LET a == task[c].agent IN
  /\ up /\ up' /\ Turned(c) /\ UNCHANGED <<closed, material>>
  /\ known \subseteq known' /\ finished \subseteq finished' /\ finished' \subseteq finished \cup {c}
  /\ unsafe \subseteq unsafe' /\ \A b \in unsafe' : b \in unsafe \/ (b = a /\ task[c].stage \in Working)
  /\ task'[c].stage \notin {"idle", "done"} => task'[c].agent \in known'
  /\ c \in finished' => Over(c)'
  /\ Started(c) => Started(c)'
  /\ HeldOk(c)'
  /\ task'[c].stage \in Working =>
       /\ task'[c].agent = a
       /\ \/ /\ task[c].stage \in Working /\ task'[c].kind = task[c].kind
             /\ task'[c].material = task[c].material
          \/ task[c].stage = "entered" /\ ~closed /\ task'[c].material = material
          \/ task[c].stage = "completing" /\ live[a].active = c /\ task'[c].kind = "complete"
  /\ LiveStep(c) /\ VmStep(c)

LEMMA RetireIsCommandStep ==
  ASSUME CallsInv, MachinesInv, EffectsInv, NEW c \in Commands, RetireStep(c)
  PROVE  CommandStep(c)
<1>1. c \in Tasks /\ CallShape(c) /\ Typed
  BY TaskIsEither DEF CallsInv
<1>2. /\ up /\ task[c].stage \in Working /\ task[c].agent \in known /\ task[c].kind # "close"
      /\ c \in finished => task[c].then = "done"
  BY <1>1 DEF RetireStep, EffectsInv, KnownOk, CallShape, Working, FinishedOk, Over
<1>3. task'[c].stage \in {"terminating", "clearing", "reserving", "done"}
  BY <1>2 DEF RetireStep, Ends
<1>4. LiveStep(c) /\ VmStep(c)
  BY DEF RetireStep, LiveStep, VmStep
<1>5. /\ finished \subseteq finished' /\ finished' \subseteq finished \cup {c}
  BY DEF RetireStep, Ends
<1>6. c \in finished' => Over(c)'
  BY <1>2 DEF RetireStep, Ends, Over
<1>7. HeldOk(c)'
  BY <1>3 DEF HeldOk
<1>8. unsafe \subseteq unsafe' /\ \A b \in unsafe' : b \in unsafe \/ b = task[c].agent
  BY DEF RetireStep
<1>9. up' /\ Turned(c) /\ UNCHANGED <<closed, material, known>> /\ task'[c].agent = task[c].agent
      /\ task'[c].kind = task[c].kind /\ task'[c].material = task[c].material
  BY DEF RetireStep
<1>10. Started(c) => Started(c)'
  BY <1>2, <1>3 DEF RetireStep, Started, Early, Working, Ends
<1> QED BY <1>2, <1>4, <1>5, <1>6, <1>7, <1>8, <1>9, <1>10 DEF CommandStep

\* An acquisition goes on, or ends.
LEMMA CommandMoves ==
  ASSUME CallsInv, MachinesInv, EffectsInv, NEW c \in Commands, NEW s \in Building, At(c, s), up',
         Turned(c), task'[c].stage \in Working, task'[c].agent = task[c].agent,
         task'[c].kind = task[c].kind,
         \/ s \in Working /\ task'[c].material = task[c].material
         \/ s = "entered" /\ ~closed /\ task'[c].material = material,
         UNCHANGED <<closed, material, known, unsafe, finished>>, LiveStep(c), VmStep(c),
         Started(c) => Started(c)'
  PROVE  CommandStep(c)
<1>1. c \in Tasks /\ up /\ task[c].stage = s
  BY TaskIsEither DEF At
<1>2. task[c].agent \in known /\ c \notin finished
  BY <1>1 DEF EffectsInv, KnownOk, FinishedOk, Over, Building
<1>3. HeldOk(c)' /\ task'[c].stage \notin {"idle", "done"}
  BY DEF HeldOk, Working
<1> QED BY <1>1, <1>2, <1>3 DEF CommandStep

LEMMA CommandEnds ==
  ASSUME CallsInv, NEW c \in Commands, up, up', Ends(c, TRUE),
         UNCHANGED <<closed, material, known, unsafe>>, LiveStep(c), VmStep(c)
  PROVE  CommandStep(c)
<1>1. task[c].kind # "close"
  BY TaskIsEither DEF CallsInv, CallShape
<1>2. /\ Turned(c) /\ task'[c].stage = "done" /\ finished' = finished \cup {c}
  BY <1>1 DEF Ends
<1>3. Over(c)' /\ HeldOk(c)' /\ task'[c].stage \notin Working /\ Started(c)'
  BY <1>2 DEF Over, HeldOk, Working, Started, Early
<1> QED BY <1>2, <1>3 DEF CommandStep

LEMMA SameIsStep ==
  ASSUME NEW c
  PROVE  (live' = live => LiveStep(c)) /\ (vm' = vm => VmStep(c))
BY DEF LiveStep, VmStep

LEMMA MaterializeStep ==
  ASSUME CallsInv, MachinesInv, EffectsInv, NEW c \in Commands, Materialize(c)
  PROVE  CommandStep(c)
<1>1. /\ Typed /\ c \in Tasks /\ up /\ up' /\ At(c, "entered") /\ LiveStep(c) /\ VmStep(c)
      /\ UNCHANGED <<closed, material, known, unsafe>>
  BY TaskIsEither, SameIsStep DEF CallsInv, Materialize, At
<1>2. CASE /\ ~RefusedUnderLock(c) /\ Stay
           /\ task' = [task EXCEPT ![c].stage = "probing", ![c].material = material]
  <2>1. /\ Turned(c) /\ task'[c].stage = "probing" /\ task'[c].agent = task[c].agent
        /\ task'[c].kind = task[c].kind /\ task'[c].material = material
    <3>1. /\ task \in [Tasks -> TaskType] /\ material \in 0..MaxMaterial /\ "probing" \in Stages
          /\ task' = [task EXCEPT ![c].stage = "probing", ![c].material = material]
      BY <1>1, <1>2 DEF Typed, Stages
    <3> QED BY <1>1, <3>1, EditMaterial, ZenonT(60)
  <2>2. /\ ~closed /\ "probing" \in Working /\ "entered" \in Building /\ finished' = finished
        /\ ~Started(c)
    BY <1>1, <1>2 DEF RefusedUnderLock, Working, Building, Stay, Started, Early, At
  <2> QED BY <1>1, <2>1, <2>2, CommandMoves
<1>3. CASE End(c, TRUE)
  BY <1>1, <1>3, EndIs, CommandEnds
<1> QED BY <1>2, <1>3 DEF Materialize

LEMMA ProbeStep ==
  ASSUME CallsInv, MachinesInv, EffectsInv, NEW c \in Commands, Probe(c)
  PROVE  CommandStep(c)
<1>1. /\ Typed /\ c \in Tasks /\ up /\ up' /\ At(c, "probing") /\ LiveStep(c) /\ VmStep(c)
      /\ UNCHANGED <<closed, material, known, unsafe, finished>>
      /\ task[c].agent \in Agents /\ task \in [Tasks -> TaskType]
  BY TaskIsEither, SameIsStep, HolderFacts DEF CallsInv, Probe, At, Stay, Typed
<1>2. PICK v \in Commands \cup {None} : v = live[task[c].agent].vm
  BY <1>1 DEF Typed, LiveType
<1>3. \/ task' = Staged(c, "reserving")
      \/ task' = VmEdit(c, "authorizing", v)
      \/ task' = VmThenEdit(c, "retiring", v, "reserving")
  BY <1>2 DEF Probe, VmEdit, VmThenEdit
<1>4. {"reserving", "authorizing", "retiring"} \subseteq Stages
  BY DEF Stages
<1>5. /\ Turned(c) /\ task'[c].stage \in {"reserving", "authorizing", "retiring"}
      /\ task'[c].agent = task[c].agent /\ task'[c].kind = task[c].kind
      /\ task'[c].material = task[c].material
  <2>1. CASE task' = Staged(c, "reserving")
    BY <1>1, <1>4, <2>1, StagedIs DEF ToStage
  <2>2. CASE task' = VmEdit(c, "authorizing", v)
    BY <1>1, <1>4, <2>2, VmEditIs
  <2>3. CASE task' = VmThenEdit(c, "retiring", v, "reserving")
    <3>1. /\ Turned(c) /\ task'[c].stage = "retiring" /\ task'[c].then = "reserving"
          /\ task'[c].agent = task[c].agent /\ task'[c].kind = task[c].kind
          /\ task'[c].material = task[c].material
      BY <1>1, <1>4, <2>3, VmThenEditIs
    <3> QED BY <3>1
  <2> QED BY <1>3, <2>1, <2>2, <2>3
<1>6. ~Started(c)
  BY <1>1 DEF Started, Early, At
<1> QED BY <1>1, <1>5, <1>6, CommandMoves DEF Working, Building

LEMMA BuildSteps ==
  ASSUME CallsInv, MachinesInv, EffectsInv, NEW c \in Commands,
         \/ WriteIntent(c) \/ Create(c) \/ WriteCreated(c) \/ Start(c) \/ Identify(c)
         \/ WriteIdentity(c)
  PROVE  CommandStep(c)
<1>1. Typed /\ c \in Tasks /\ task \in [Tasks -> TaskType]
  BY TaskIsEither DEF CallsInv, Typed
<1>2. ASSUME NEW s \in Building, At(c, s), s # "entered", NEW n \in Working, ToStage(c, n), up',
             s \in Early \/ n \notin Early,
             UNCHANGED <<closed, material, known, unsafe, finished, live>>, VmStep(c)
      PROVE  CommandStep(c)
  <2>1. /\ Turned(c) /\ task'[c].stage \in Working /\ task'[c].agent = task[c].agent
        /\ task'[c].kind = task[c].kind /\ task'[c].material = task[c].material
    BY <1>2 DEF ToStage
  <2>2. LiveStep(c) /\ s \in Working
    BY <1>2, SameIsStep DEF Building, Working
  <2>3. Started(c) => Started(c)'
    BY <1>2, <2>2 DEF Started, ToStage, At
  <2> QED BY <1>2, <2>1, <2>2, <2>3, CommandMoves
<1>3. CASE WriteIntent(c)
  <2>1. PICK step \in {<<"reserving", "reserved", "intending">>,
                       <<"intending", "creation-started", "creating">>} :
          /\ At(c, step[1])
          /\ (task' = Staged(c, step[3]) /\ Stay) \/ End(c, TRUE)
    BY <1>3 DEF WriteIntent
  <2>2. /\ step[1] \in Building /\ step[1] # "entered" /\ step[3] \in Working /\ step[3] \in Stages
        /\ step[1] \in Early
    BY <2>1 DEF Building, Working, Stages, Early
  <2>3. /\ up /\ up' /\ UNCHANGED <<closed, material, known, unsafe, live, vm>>
    BY <1>3, <2>1 DEF WriteIntent, At
  <2>4. CASE task' = Staged(c, step[3]) /\ Stay
    <3>1. ToStage(c, step[3]) /\ finished' = finished /\ VmStep(c)
      BY <1>1, <2>2, <2>3, <2>4, StagedIs, SameIsStep DEF Stay
    <3> QED BY <1>2, <2>1, <2>2, <2>3, <3>1
  <2>5. CASE End(c, TRUE)
    BY <1>1, <2>3, <2>5, EndIs, SameIsStep, CommandEnds
  <2> QED BY <2>1, <2>4, <2>5
<1>4. CASE Create(c)
  <2>1. /\ At(c, "creating") /\ up /\ up' /\ UNCHANGED <<closed, material, known, unsafe, live>>
    BY <1>4 DEF Create, At
  <2>2. CASE /\ vm' = [vm EXCEPT ![c] = [state |-> "created", agent |-> task[c].agent,
                                         material |-> task[c].material]]
             /\ task' = [task EXCEPT ![c].stage = "created", ![c].vm = c]
             /\ Stay
    <3>1. /\ Turned(c) /\ task'[c].stage = "created" /\ task'[c].agent = task[c].agent
          /\ task'[c].kind = task[c].kind /\ task'[c].material = task[c].material
      BY <1>1, <2>2, EditVm, ZenonT(60) DEF Typed, Stages
    <3>2. vm'[c].state = "created" /\ \A w \in Commands \ {c} : vm'[w] = vm[w]
      BY <1>1, <2>2 DEF Typed
    <3>3. VmStep(c) /\ LiveStep(c) /\ finished' = finished
      BY <2>1, <2>2, <3>2, SameIsStep DEF VmStep, At, Stay
    <3>4. "created" \in Working /\ "creating" \in Building /\ "creating" \in Working /\ ~Started(c)
      BY <2>1 DEF Working, Building, Started, Early, At
    <3> QED BY <2>1, <3>1, <3>3, <3>4, CommandMoves
  <2>3. CASE End(c, TRUE) /\ UNCHANGED vm
    BY <1>1, <2>1, <2>3, EndIs, SameIsStep, CommandEnds
  <2> QED BY <1>4, <2>2, <2>3 DEF Create
<1>5. CASE WriteCreated(c)
  <2>1. /\ At(c, "created") /\ up' /\ UNCHANGED <<closed, material, known, unsafe, live, vm, finished>>
        /\ ToStage(c, "starting") \/ ToStage(c, "containing")
    BY <1>1, <1>5, StagedIs DEF WriteCreated, Stages, Stay, At
  <2> QED BY <1>2, <2>1, SameIsStep DEF Building, Working, Early
<1>6. CASE Start(c)
  <2>1. /\ At(c, "starting") /\ up' /\ UNCHANGED <<closed, material, known, unsafe, live, finished>>
        /\ ToStage(c, "identifying") \/ ToStage(c, "containing")
        /\ vm' = vm \/ VmBecomes(c, "running")
    BY <1>1, <1>6, StagedIs, VmStateIs, RecordKindsAre DEF Start, Stages, Stay, At
  <2>2. VmStep(c)
    BY <2>1 DEF VmStep, VmBecomes, At
  <2> QED BY <1>2, <2>1, <2>2 DEF Building, Working, Early
<1>7. CASE Identify(c)
  <2>1. /\ At(c, "identifying") /\ up'
        /\ UNCHANGED <<closed, material, known, unsafe, live, vm, finished>>
        /\ ToStage(c, "publishing") \/ ToStage(c, "containing")
    BY <1>1, <1>7, StagedIs DEF Identify, Stages, Stay, At
  <2> QED BY <1>2, <2>1, SameIsStep DEF Building, Working, Early
<1>8. CASE WriteIdentity(c)
  <2>1. /\ At(c, "publishing") /\ up'
        /\ UNCHANGED <<closed, material, known, unsafe, live, vm, finished>>
        /\ ToStage(c, "authorizing") \/ ToStage(c, "retiring")
    BY <1>1, <1>8, StagedIs DEF WriteIdentity, Stages, Stay, At
  <2> QED BY <1>2, <2>1, SameIsStep DEF Building, Working, Early
<1> QED BY <1>3, <1>4, <1>5, <1>6, <1>7, <1>8

LEMMA AuthorizeStep ==
  ASSUME CallsInv, MachinesInv, EffectsInv, NEW c \in Commands, Authorize(c)
  PROVE  CommandStep(c)
<1>1. PICK a \in Agents : a = task[c].agent
  BY HolderFacts, TaskIsEither DEF Authorize
<1>2. /\ Typed /\ c \in Tasks /\ At(c, "authorizing") /\ task[c].stage = "authorizing" /\ up'
      /\ UNCHANGED <<closed, material, known, unsafe, vm, finished>>
  BY TaskIsEither DEF CallsInv, Authorize, Stay, At
<1>3. /\ \/ live'[a].active = c /\ ~closed /\ task[c].material = material
         \/ live'[a].active = None
      /\ live'[a].vm = task[c].vm
      /\ \A b \in Agents \ {a} : live'[b] = live[b]
      /\ ToStage(c, "activating") \/ ToStage(c, "retiring")
  <2>1. \/ /\ live' = [live EXCEPT ![a] = [vm |-> task[c].vm, active |-> c]]
           /\ ToStage(c, "activating") /\ ~closed /\ task[c].material = material
        \/ /\ live' = [live EXCEPT ![a] = [vm |-> task[c].vm, active |-> None]]
           /\ ToStage(c, "retiring")
    BY <1>1, <1>2, StagedIs DEF Authorize, Stages, StillAuthorized
  <2> QED BY <1>2, <2>1 DEF Typed
<1>4. LiveStep(c)
  BY <1>1, <1>2, <1>3 DEF LiveStep
<1>5. /\ Turned(c) /\ task'[c].stage \in Working /\ task'[c].agent = task[c].agent
      /\ task'[c].kind = task[c].kind /\ task'[c].material = task[c].material
  BY <1>3 DEF ToStage, Working
<1>6. VmStep(c) /\ "authorizing" \in Building /\ "authorizing" \in Working
  BY <1>2, SameIsStep DEF Building, Working
<1>7. Started(c) => Started(c)'
  BY <1>2, <1>3 DEF Started, Early, Working, ToStage
<1> QED BY <1>2, <1>4, <1>5, <1>6, <1>7, CommandMoves

LEMMA WriteActiveStep ==
  ASSUME CallsInv, MachinesInv, EffectsInv, NEW c \in Commands, WriteActive(c)
  PROVE  CommandStep(c)
<1>1. PICK a \in Agents : a = task[c].agent
  BY HolderFacts, TaskIsEither DEF WriteActive
<1>2. /\ Typed /\ c \in Tasks /\ task[c].stage = "activating" /\ up /\ up' /\ WorkOk(c)
      /\ CallShape(c) /\ task[c] \in TaskType
      /\ UNCHANGED <<closed, material, known, unsafe, vm>>
  BY TaskIsEither DEF CallsInv, WriteActive, At, MachinesInv, Typed
<1>3. /\ task[c].vm \in Commands /\ vm[task[c].vm].agent = a /\ live[a].vm = task[c].vm
      /\ vm[task[c].vm].state \in {"running", "exited"} /\ live[a].active = c
      /\ task[c].then = "done"
  BY <1>1, <1>2 DEF WorkOk, Working, CallShape, TaskType
<1>4. a \in known /\ c \notin finished
  BY <1>1, <1>2 DEF EffectsInv, KnownOk, FinishedOk, Over, Working
<1>5. VmStep(c)
  BY <1>2, SameIsStep
<1>6. CASE task' = Staged(c, "held") /\ UNCHANGED <<live, finished>>
  <2>1. ToStage(c, "held")
    BY <1>2, <1>6, StagedIs DEF Stages
  <2>2. HeldOk(c)'
    <3>1. PICK x \in Commands : x = task[c].vm
      BY <1>3
    <3>2. /\ x \in Tasks /\ MachineOk(x) /\ WorkOk(x)
      BY TaskIsEither DEF MachinesInv
    <3>3. Started(x)
      BY <1>3, <3>1, <3>2 DEF Started, Early, MachineOk, WorkOk, Working
    <3>4. /\ x # c => task'[x] = task[x]
          /\ task'[c].stage = "held"
      BY <2>1, <3>2 DEF ToStage, Turned
    <3>5. Started(x)'
      BY <3>3, <3>4 DEF Started, Early, Working
    <3> QED BY <1>1, <1>2, <1>3, <1>6, <2>1, <3>1, <3>5 DEF HeldOk, ToStage
  <2>3. LiveStep(c) /\ task'[c].stage \notin Working /\ Started(c)'
    BY <1>6, <2>1, SameIsStep DEF ToStage, Working, Started, Early
  <2> QED BY <1>1, <1>2, <1>4, <1>5, <1>6, <2>1, <2>2, <2>3 DEF CommandStep, ToStage
<1>7. CASE /\ live' = [live EXCEPT ![task[c].agent].active = None]
           /\ finished' = finished \cup {c} /\ task' = Staged(c, "retiring")
  <2>1. ToStage(c, "retiring")
    BY <1>2, <1>7, StagedIs DEF Stages
  <2>2. /\ live'[a].vm = live[a].vm /\ live'[a].active = None
        /\ \A b \in Agents \ {a} : live'[b] = live[b]
    <3>1. live \in [Agents -> LiveType]
      BY <1>2 DEF Typed
    <3> QED BY <1>1, <1>7, <3>1 DEF LiveType
  <2>3. LiveStep(c)
    BY <1>1, <1>2, <1>3, <2>2 DEF LiveStep
  <2>4. HeldOk(c)' /\ Over(c)' /\ Started(c)'
    BY <1>3, <2>1 DEF HeldOk, ToStage, Over, Started, Early
  <2> QED BY <1>1, <1>2, <1>4, <1>5, <1>7, <2>1, <2>3, <2>4 DEF CommandStep, ToStage, Working
<1> QED BY <1>6, <1>7 DEF WriteActive

LEMMA HandleSteps ==
  ASSUME CallsInv, MachinesInv, EffectsInv, NEW c \in Commands,
         Exec(c) \/ ExecSettles(c) \/ Complete(c) \/ Completing(c) \/ WriteIdle(c)
  PROVE  CommandStep(c)
<1>1. /\ Typed /\ CallShape(c) /\ c \in Tasks /\ task \in [Tasks -> TaskType] /\ HeldOk(c)
      /\ task[c].stage \in Stages
  BY TaskIsEither DEF CallsInv, EffectsInv, Typed, TaskType
<1>2. /\ up /\ task[c].stage \in {"held", "completing", "idling"} /\ up'
      /\ UNCHANGED <<closed, material, known, unsafe, vm>> /\ VmStep(c)
  <2>1. /\ up /\ task[c].stage \in {"held", "completing", "idling"}
        /\ UNCHANGED <<up, closed, material, known, unsafe, vm>>
    BY <1>1 DEF Exec, ExecSettles, Complete, Completing, WriteIdle, memory, At, CallShape
  <2> QED BY <2>1, SameIsStep
<1>3. task[c].agent \in known /\ c \notin finished
  BY <1>2 DEF EffectsInv, KnownOk, FinishedOk, Over
<1>4. CASE Exec(c) \/ ExecSettles(c)
  <2>1. /\ task[c].stage = "held" /\ UNCHANGED <<live, finished>>
        /\ \E e \in {"running", "settled"} : task' = [task EXCEPT ![c].exec = e]
    BY <1>1, <1>4 DEF Exec, ExecSettles, CallShape, memory
  <2>2. PICK e \in {"running", "settled"} : task' = [task EXCEPT ![c].exec = e]
    BY <2>1
  <2>3. /\ Turned(c) /\ task'[c].stage = "held" /\ task'[c].agent = task[c].agent
        /\ task'[c].vm = task[c].vm
    BY <1>1, <2>1, <2>2, EditExec
  <2>4. HeldOk(c)'
    <3>1. PICK x \in Commands : x = task[c].vm
      BY <1>1, <2>1 DEF HeldOk
    <3>2. Started(x) /\ x \in Tasks
      BY <1>1, <2>1, <3>1, TaskIsEither DEF HeldOk
    <3>3. Started(x)'
      BY <2>3, <3>2 DEF Started, Early, Working, Turned
    <3> QED BY <1>1, <1>2, <2>1, <2>3, <3>1, <3>3 DEF HeldOk
  <2>5. LiveStep(c) /\ task'[c].stage \notin Working /\ Started(c)'
    BY <2>1, <2>3, SameIsStep DEF Working, Started, Early
  <2> QED BY <1>2, <1>3, <2>1, <2>3, <2>4, <2>5 DEF CommandStep
<1>5. CASE Complete(c)
  <2>1. /\ UNCHANGED <<live, finished>>
        /\ task' = [task EXCEPT ![c].stage = "completing", ![c].kind = "complete"]
    BY <1>5 DEF Complete, memory
  <2>2. Turned(c) /\ task'[c].stage = "completing" /\ task'[c].agent = task[c].agent
    <3>1. "completing" \in Stages /\ "complete" \in Kinds
      BY DEF Stages, Kinds
    <3>2. /\ Turned(c) /\ task'[c].stage = "completing" /\ task'[c].agent = task[c].agent
          /\ task'[c].kind = "complete"
      BY <1>1, <2>1, <3>1, EditKind, ZenonT(60)
    <3> QED BY <3>2
  <2>3. HeldOk(c)' /\ LiveStep(c) /\ task'[c].stage \notin Working /\ Started(c)'
    BY <2>1, <2>2, SameIsStep DEF HeldOk, Working, Started, Early
  <2> QED BY <1>2, <1>3, <2>1, <2>2, <2>3 DEF CommandStep
<1>6. CASE Completing(c)
  <2>1. PICK a \in Agents : a = task[c].agent
    BY <1>1, <1>6, HolderFacts DEF Completing
  <2>2. task[c].stage = "completing" /\ task[c].kind = "complete"
    BY <1>1, <1>6 DEF Completing, At, CallShape
  <2>3. CASE End(c, TRUE) /\ UNCHANGED live
    BY <1>1, <1>2, <2>3, EndIs, SameIsStep, CommandEnds
  <2>4. CASE /\ live[a].active = c /\ live' = [live EXCEPT ![a].active = None]
             /\ \E s \in {"retiring", "idling"} : task' = Staged(c, s)
             /\ Stay
    <3>1. ToStage(c, "retiring") \/ ToStage(c, "idling")
      BY <1>1, <2>4, StagedIs DEF Stages
    <3>2. /\ live'[a].vm = live[a].vm /\ live'[a].active = None
          /\ \A b \in Agents \ {a} : live'[b] = live[b]
      <4>1. live \in [Agents -> LiveType]
        BY <1>1 DEF Typed
      <4> QED BY <2>4, <4>1 DEF LiveType
    <3>3. LiveStep(c)
      BY <2>1, <2>2, <2>4, <3>2 DEF LiveStep
    <3>4. HeldOk(c)' /\ Turned(c) /\ finished' = finished /\ task'[c].agent = task[c].agent
          /\ task'[c].kind = "complete" /\ task'[c].stage \in {"retiring", "idling"}
          /\ Started(c)'
      BY <1>1, <2>2, <2>4, <3>1 DEF HeldOk, ToStage, Stay, Started, Early, CallShape
    <3> QED BY <1>2, <1>3, <2>1, <2>2, <2>4, <3>3, <3>4 DEF CommandStep
  <2> QED BY <1>6, <2>1, <2>3, <2>4 DEF Completing
<1>7. CASE WriteIdle(c)
  <2>1. task[c].stage = "idling" /\ UNCHANGED live /\ LiveStep(c)
    BY <1>7, SameIsStep DEF WriteIdle, At
  <2>2. CASE End(c, TRUE)
    BY <1>1, <1>2, <2>1, <2>2, EndIs, CommandEnds
  <2>3. CASE task' = Staged(c, "retiring") /\ Stay
    <3>1. ToStage(c, "retiring") /\ finished' = finished
      BY <1>1, <2>3, StagedIs DEF Stages, Stay
    <3>2. HeldOk(c)' /\ task[c].stage \in Working /\ Started(c)'
      BY <1>1, <2>1, <3>1 DEF HeldOk, ToStage, Working, Started, Early, CallShape
    <3> QED BY <1>2, <1>3, <2>1, <3>1, <3>2 DEF CommandStep, ToStage
  <2> QED BY <1>7, <2>2, <2>3 DEF WriteIdle
<1> QED BY <1>4, <1>5, <1>6, <1>7

LEMMA AcquireStep ==
  ASSUME CallsInv, MachinesInv, EffectsInv, NEW c \in Commands, NEW a \in Agents, Acquire(c, a)
  PROVE  CommandStep(c)
<1>1. /\ Typed /\ c \in Tasks /\ task \in [Tasks -> TaskType] /\ "entered" \in Stages
  BY TaskIsEither DEF CallsInv, Typed, Stages
<1>2. /\ up /\ up' /\ task[c].stage = "idle" /\ known' = known \cup {a}
      /\ task' = [task EXCEPT ![c].stage = "entered", ![c].agent = a]
      /\ UNCHANGED <<closed, material, unsafe, live, vm, finished>>
  BY DEF Acquire
<1>3. Turned(c) /\ task'[c].stage = "entered" /\ task'[c].agent = a
  BY <1>1, <1>2, EditAgent
<1>4. c \notin finished /\ HeldOk(c)' /\ task'[c].stage \notin Working /\ ~Started(c)
  BY <1>2, <1>3 DEF EffectsInv, FinishedOk, Over, HeldOk, Working, Started, Early
<1> QED BY <1>2, <1>3, <1>4, SameIsStep DEF CommandStep

\* While the zone is closed, a command does not touch an agent that was drained.
LEMMA CommandKeepsClean ==
  ASSUME CallsInv, MachinesInv, NEW c \in Commands, CommandStep(c), closed,
         NEW a \in Agents, Clean(a)
  PROVE  Clean(a)'
<1>1. /\ c \in Tasks /\ c # None /\ SlotOk(a) /\ MachineOk(c) /\ WorkOk(c)
      /\ \A t \in Tasks \ {c} : task'[t] = task[t]
      /\ live[a].vm = None /\ live[a].active = None
  BY TaskIsEither DEF MachinesInv, CommandStep, Turned, Clean, SlotOk
<1>2. task[c].stage \in Working => task[c].agent # a
  BY <1>1 DEF Clean
<1>3. live'[a].vm = None
  <2>1. LiveStep(c)
    BY DEF CommandStep
  <2> QED BY <1>1, <1>2, <2>1, NoLiveIs DEF LiveStep, Working
<1>4. task'[c].stage \in Working => task'[c].agent # a
  BY <1>1, <1>2 DEF CommandStep
<1>5. ASSUME NEW v \in Commands, vm'[v].state = "running"
      PROVE  vm'[v].agent # a
  <2>1. VmStep(c)
    BY DEF CommandStep
  <2>2. CASE vm'[v] = vm[v]
    BY <1>5, <2>2 DEF Clean
  <2>3. CASE /\ v = c /\ task[c].stage = "starting" /\ vm'[v].agent = vm[v].agent
    BY <1>1, <1>2, <2>3 DEF WorkOk, MachineOk, Working
  <2> QED BY <1>5, <2>1, <2>2, <2>3 DEF VmStep
<1> QED BY <1>1, <1>3, <1>4, <1>5 DEF Clean

LEMMA CommandKeepsWait ==
  ASSUME CallsInv, MachinesInv, EffectsInv, NEW c \in Commands, CommandStep(c), NEW t \in Admins
  PROVE  WaitOk(t)'
<1>1. /\ t \in Tasks /\ c \in Tasks /\ t # c /\ c # None /\ task'[t] = task[t]
      /\ WaitOk(t) /\ CallShape(t) /\ WorkOk(c) /\ MachineOk(c) /\ Typed
  BY TaskIsEither DEF MachinesInv, CommandStep, Turned, EffectsInv, CallsInv
<1>2. finished \subseteq finished' /\ material' = material /\ LiveStep(c) /\ VmStep(c)
  BY DEF CommandStep
<1>3. CASE task[t].stage \notin {"waiting", "second"} \cup Working
  BY <1>1, <1>2, <1>3 DEF WaitOk, Working
<1>4. CASE task[t].stage \in {"waiting", "second"} \cup Working
  <2>1. PICK a \in Agents : a = task[t].agent
    BY <1>1, <1>4 DEF CallShape, InLock, Entry
  <2>2. SlotOk(a) /\ live[a] \in LiveType
    BY <1>1 DEF MachinesInv, Typed
  <2>3. task[t].stage \in Working /\ task[t].kind # "force-retire" => live'[a].active = None
    <3> SUFFICES ASSUME task[t].stage \in Working, task[t].kind # "force-retire"
                 PROVE  live'[a].active = None
      OBVIOUS
    <3>1. live[a].active = None /\ Holds(t)
      BY <1>1, <2>1 DEF WaitOk, CallsInv, WorkersHold
    <3>2. task[c].stage \in Working => task[c].agent # a
      BY <1>1, <2>1, <3>1, HolderIsAlone
    <3> QED BY <1>2, <3>1, <3>2, NoLiveIs DEF LiveStep, Working
  <2>4. ASSUME task[t].stage \in {"waiting", "second"}, task[t].kind \in {"close", "invalidate"},
               live'[a].active # None, Concerns(t, live[a].vm)'
        PROVE  live'[a].active = task[t].wait
    <3>1. /\ live'[a].vm # None
          /\ task[t].kind = "invalidate" => vm'[live'[a].vm].material < task[t].material
      BY <1>1, <2>4 DEF Concerns
    <3>2. CASE live'[a] = live[a]
      <4>1. live[a].vm \in Commands /\ vm[live[a].vm].state \in {"running", "exited"}
        BY <2>2, <3>1, <3>2 DEF SlotOk, LiveType
      <4>2. vm'[live[a].vm].material = vm[live[a].vm].material
        BY <1>1, <1>2, <4>1 DEF VmStep, MachineOk
      <4>3. Concerns(t, live[a].vm)
        BY <3>1, <3>2, <4>2 DEF Concerns
      <4> QED BY <1>1, <2>1, <2>4, <3>2, <4>3 DEF WaitOk
    <3>3. CASE /\ a = task[c].agent /\ task[c].stage = "authorizing" /\ live'[a].vm = task[c].vm
               /\ ~closed /\ task[c].material = material
      <4>1. closed \/ task[t].kind = "invalidate"
        BY <1>1, <2>4 DEF EffectsInv, CloseOk
      <4>2. /\ task[c].vm \in Commands /\ vm[task[c].vm].material = material
        BY <1>1, <3>3 DEF WorkOk, Working
      <4>3. vm'[task[c].vm].material = material
        BY <1>2, <3>3, <4>2 DEF VmStep
      <4>4. task[t].material <= material /\ task[t].material \in Nat /\ material \in Nat
        BY <1>1, <3>3, <4>1, RuntimeAssumption DEF WaitOk, Typed, TaskType
      <4> QED BY <3>1, <3>3, <4>1, <4>3, <4>4
    <3> QED BY <1>2, <2>4, <3>2, <3>3, NoLiveIs DEF LiveStep
  <2> QED BY <1>1, <1>2, <2>1, <2>3, <2>4 DEF WaitOk
<1> QED BY <1>3, <1>4

LEMMA CommandKeepsHeld ==
  ASSUME CallsInv, MachinesInv, EffectsInv, NEW c \in Commands, CommandStep(c),
         NEW d \in Commands, d # c
  PROVE  HeldOk(d)'
<1>1. /\ c \in Tasks /\ d \in Tasks /\ d # None /\ task'[d] = task[d] /\ HeldOk(d) /\ CallShape(d)
      /\ WorkOk(c) /\ \A u \in Tasks \ {c} : task'[u] = task[u]
  BY TaskIsEither DEF MachinesInv, CommandStep, Turned, EffectsInv, CallsInv
<1>2. LiveStep(c) /\ VmStep(c) /\ unsafe \subseteq unsafe' /\ (Started(c) => Started(c)')
  BY DEF CommandStep
<1> SUFFICES ASSUME task[d].stage = "held"
             PROVE  HeldOk(d)'
  BY <1>1 DEF HeldOk
<1>3. PICK x \in Commands : x = task[d].vm
  BY <1>1 DEF HeldOk
<1>4. PICK a \in Agents : a = task[d].agent
  BY <1>1 DEF CallShape
<1>5. Started(x) /\ vm[x].agent = a /\ x \in Tasks /\ x # None
  BY <1>1, <1>3, <1>4, TaskIsEither DEF HeldOk
<1>6. Started(x)'
  BY <1>1, <1>2, <1>5 DEF Started
<1>7. vm'[x] = vm[x] \/ (vm'[x].agent = vm[x].agent /\ vm'[x].state = "gone")
  BY <1>2, <1>5 DEF VmStep, Started, Early
<1>8. ASSUME vm'[x].state = "running"
      PROVE  (live'[a].vm = x /\ live'[a].active = d) \/ a \in unsafe'
  <2>1. (live[a].vm = x /\ live[a].active = d) \/ a \in unsafe
    BY <1>1, <1>3, <1>4, <1>7, <1>8 DEF HeldOk
  <2>2. CASE a = task[c].agent /\ task[c].stage = "terminating" /\ live[a].vm = x
    BY <1>1, <1>2, <1>5, <1>8, <2>1, <2>2 DEF WorkOk, LiveStep, Working
  <2>3. CASE a = task[c].agent /\ task[c].stage = "authorizing"
    BY <1>1, <1>2, <2>1, <2>3 DEF WorkOk, Working
  <2> QED BY <1>1, <1>2, <2>1, <2>2, <2>3 DEF LiveStep
<1> QED BY <1>1, <1>3, <1>4, <1>5, <1>6, <1>7, <1>8 DEF HeldOk

LEMMA CommandKeepsGone ==
  ASSUME CallsInv, MachinesInv, EffectsInv, NEW c \in Commands, CommandStep(c), NEW t \in Admins
  PROVE  GoneOk(t)'
<1>1. /\ t \in Tasks /\ c \in Tasks /\ t # c /\ task'[t] = task[t] /\ WorkOk(c) /\ MachineOk(c)
      /\ WaitOk(t) /\ GoneOk(t) /\ Typed /\ CallShape(c)
      /\ \A u \in Tasks \ {c} : task'[u] = task[u]
  BY TaskIsEither DEF MachinesInv, CommandStep, Turned, EffectsInv, CallsInv
<1> SUFFICES ASSUME Invalidated(t)
             PROVE  GoneOk(t)'
  BY <1>1 DEF GoneOk, Invalidated
<1>2. /\ task[t].material <= material /\ task[t].material \in Nat /\ material \in Nat
  BY <1>1, RuntimeAssumption DEF WaitOk, Invalidated, Typed, TaskType
<1>3. ASSUME NEW d \in Commands, task'[d].agent = task[t].agent, task'[d].stage \in Working,
             task'[d].kind = "acquire"
      PROVE  task'[d].material >= task[t].material
  <2>1. CASE d # c
    BY <1>1, <1>3, <2>1, TaskIsEither DEF GoneOk
  <2>2. CASE d = c
    <3>1. CASE /\ task[c].stage \in Working /\ task'[c].kind = task[c].kind
               /\ task'[c].material = task[c].material /\ task'[c].agent = task[c].agent
      BY <1>1, <1>3, <2>2, <3>1 DEF GoneOk
    <3>2. CASE task'[c].material = material
      BY <1>2, <2>2, <3>2
    <3> QED BY <1>3, <2>2, <3>1, <3>2 DEF CommandStep
  <2> QED BY <2>1, <2>2
<1>4. ASSUME NEW v \in Commands, vm'[v].agent = task[t].agent,
             vm'[v].material < task[t].material, vm'[v].state = "running"
      PROVE  FALSE
  <2>1. VmStep(c)
    BY DEF CommandStep
  <2>2. CASE vm'[v] = vm[v]
    BY <1>1, <1>4, <2>2 DEF GoneOk
  <2>3. CASE /\ v = c /\ task[c].stage = "starting" /\ vm'[v].agent = vm[v].agent
             /\ vm'[v].material = vm[v].material
    <3>1. /\ task[c].agent = task[t].agent /\ task[c].material = vm'[v].material
          /\ task[c].kind = "acquire" /\ task[c].stage \in Working
      BY <1>1, <1>4, <2>3 DEF WorkOk, MachineOk, Working, CallShape
    <3>2. task[c].material >= task[t].material /\ task[c].material \in Nat
      BY <1>1, <3>1, RuntimeAssumption DEF GoneOk, Typed, TaskType
    <3> QED BY <1>2, <1>4, <3>1, <3>2
  <2> QED BY <1>4, <2>1, <2>2, <2>3 DEF VmStep
<1> QED BY <1>1, <1>3, <1>4 DEF GoneOk

LEMMA CommandEffects ==
  ASSUME CallsInv, MachinesInv, EffectsInv, NEW c \in Commands, CommandStep(c)
  PROVE  EffectsInv'
<1>1. /\ c \in Tasks /\ \A t \in Tasks \ {c} : task'[t] = task[t]
      /\ \A t \in Admins : t \in Tasks /\ task'[t] = task[t]
      /\ up /\ up' /\ closed' = closed /\ known \subseteq known'
  BY TaskIsEither DEF CommandStep, Turned
<1>2. KnownOk'
  <2>1. unsafe' \subseteq known'
    BY <1>1 DEF CommandStep, EffectsInv, KnownOk
  <2>2. ASSUME NEW a \in Agents, live'[a].vm # None
        PROVE  a \in known'
    <3>1. LiveStep(c)
      BY DEF CommandStep
    <3>2. live[a].vm # None \/ (a = task[c].agent /\ task[c].stage \in Working)
      BY <2>2, <3>1, NoLiveIs DEF LiveStep, Working
    <3> QED BY <1>1, <3>2 DEF EffectsInv, KnownOk
  <2>3. ASSUME NEW t \in Tasks, task'[t].stage \in Working
        PROVE  task'[t].agent \in known'
    <3>1. CASE t = c
      BY <2>3, <3>1 DEF CommandStep, Working
    <3>2. CASE t # c
      BY <1>1, <2>3, <3>2 DEF EffectsInv, KnownOk
    <3> QED BY <3>1, <3>2
  <2>4. ASSUME NEW d \in Commands, task'[d].stage \notin {"idle", "done"}
        PROVE  task'[d].agent \in known'
    BY <1>1, <2>4, TaskIsEither DEF CommandStep, EffectsInv, KnownOk
  <2> QED BY <2>1, <2>2, <2>3, <2>4 DEF KnownOk
<1>3. CloseOk'
  <2>1. \A t \in Admins : task'[t].kind = "close" /\ task'[t].stage # "done" => closed'
    BY <1>1 DEF EffectsInv, CloseOk
  <2>2. ASSUME closed', NEW a \in Agents
        PROVE  Clean(a)' \/ \E t \in Admins : Draining(t, a)'
    <3>1. CASE Clean(a)
      BY <1>1, <2>2, <3>1, CommandKeepsClean
    <3>2. CASE \E t \in Admins : Draining(t, a)
      BY <1>1, <3>2 DEF Draining
    <3> QED BY <1>1, <2>2, <3>1, <3>2 DEF EffectsInv, CloseOk
  <2> QED BY <2>1, <2>2 DEF CloseOk
<1>4. FinishedOk'
  <2> SUFFICES ASSUME NEW d \in finished', d # c
               PROVE  Over(d)'
    BY DEF FinishedOk, CommandStep
  <2>1. d \in finished /\ d \in Tasks
    BY TaskIsEither DEF CommandStep, CallsInv, Typed
  <2>2. Over(d) /\ task'[d] = task[d]
    BY <1>1, <2>1 DEF EffectsInv, FinishedOk
  <2> QED BY <2>2 DEF Over
<1>5. \A t \in Admins : WaitOk(t)' /\ GoneOk(t)'
  BY CommandKeepsWait, CommandKeepsGone
<1>6. \A d \in Commands : HeldOk(d)'
  BY CommandKeepsHeld DEF CommandStep
<1> QED BY <1>2, <1>3, <1>4, <1>5, <1>6 DEF EffectsInv

\* What a step of an administrative call changes, as the other calls see it.
AdminStep(t) ==
  LET a == task[t].agent IN
  /\ up /\ up' /\ Turned(t) /\ UNCHANGED <<closed, material, known, finished>>
  /\ unsafe \subseteq unsafe' /\ \A b \in unsafe' : b \in unsafe \/ (b = a /\ task[t].stage \in Working)
  /\ task'[t].stage \in Working =>
       /\ task'[t].agent = a
       /\ task[t].stage \in Working \/ live[a].vm # None
  /\ task'[t].kind = "close" /\ task'[t].stage # "done" => closed
  /\ WaitOk(t)' /\ GoneOk(t)'
  /\ \A b \in Agents : Draining(t, b) => Draining(t, b)' \/ Clean(b)'
  /\ \A b \in Agents : \/ live'[b] = live[b]
                       \/ /\ b = a /\ task[t].stage = "terminating" /\ live'[b] = NoLive
                          /\ vm'[task[t].vm].state = "gone" \/ b \in unsafe'
  /\ \A v \in Commands : \/ vm'[v] = vm[v]
                         \/ /\ vm'[v].agent = vm[v].agent /\ vm'[v].material = vm[v].material
                            /\ vm'[v].state = "gone"

LEMMA AdminEffects ==
  ASSUME CallsInv, MachinesInv, EffectsInv, CallsInv', NEW t \in Admins, AdminStep(t)
  PROVE  EffectsInv'
<1>1. /\ t \in Tasks /\ t \notin Commands /\ Typed /\ WorkOk(t)
      /\ \A u \in Tasks \ {t} : task'[u] = task[u]
      /\ \A c \in Commands : c \in Tasks /\ c # t /\ c # None /\ task'[c] = task[c]
      /\ \A u \in Admins : u \in Tasks
  BY TaskIsEither DEF AdminStep, Turned, CallsInv, MachinesInv
<1>2. up /\ up' /\ UNCHANGED <<closed, material, known, finished>> /\ unsafe \subseteq unsafe'
  BY DEF AdminStep
<1>3. /\ KnownOk /\ CloseOk /\ FinishedOk
  BY DEF EffectsInv
<1>4. KnownOk'
  <2>1. unsafe' \subseteq known'
    BY <1>1, <1>2, <1>3 DEF AdminStep, KnownOk
  <2>2. ASSUME NEW a \in Agents, live'[a].vm # None
        PROVE  a \in known'
    <3>1. live[a].vm # None
      BY <2>2, NoLiveIs DEF AdminStep
    <3> QED BY <1>2, <1>3, <3>1 DEF KnownOk
  <2>3. ASSUME NEW u \in Tasks, task'[u].stage \in Working
        PROVE  task'[u].agent \in known'
    <3>1. CASE u = t
      <4>1. task'[t].agent = task[t].agent /\ (task[t].stage \in Working \/ live[task[t].agent].vm # None)
        BY <2>3, <3>1 DEF AdminStep
      <4>2. task'[t].agent \in Agents
        BY <2>3, <3>1 DEF CallsInv, CallShape, InLock
      <4> QED BY <1>1, <1>2, <1>3, <3>1, <4>1, <4>2 DEF KnownOk
    <3>2. CASE u # t
      BY <1>1, <1>2, <1>3, <2>3, <3>2 DEF KnownOk
    <3> QED BY <3>1, <3>2
  <2>4. ASSUME NEW d \in Commands, task'[d].stage \notin {"idle", "done"}
        PROVE  task'[d].agent \in known'
    BY <1>1, <1>2, <1>3, <2>4 DEF KnownOk
  <2> QED BY <2>1, <2>2, <2>3, <2>4 DEF KnownOk
<1>5. CloseOk'
  <2>1. ASSUME NEW u \in Admins, task'[u].kind = "close", task'[u].stage # "done"
        PROVE  closed'
    <3>1. CASE u = t
      BY <1>2, <2>1, <3>1 DEF AdminStep
    <3>2. CASE u # t
      BY <1>1, <1>2, <1>3, <2>1, <3>2 DEF CloseOk
    <3> QED BY <3>1, <3>2
  <2>2. ASSUME closed', NEW a \in Agents
        PROVE  Clean(a)' \/ \E u \in Admins : Draining(u, a)'
    <3>1. CASE Clean(a)
      <4>1. live'[a].vm = None
        BY <3>1, NoLiveIs DEF Clean, AdminStep
      <4>2. ASSUME NEW u \in Tasks, task'[u].stage \in Working
            PROVE  task'[u].agent # a
        <5>1. CASE u = t
          BY <3>1, <4>2, <5>1 DEF Clean, AdminStep
        <5>2. CASE u # t
          BY <1>1, <3>1, <4>2, <5>2 DEF Clean
        <5> QED BY <5>1, <5>2
      <4>3. \A v \in Commands : vm'[v].state = "running" => vm'[v].agent # a
        BY <3>1 DEF Clean, AdminStep
      <4> QED BY <4>1, <4>2, <4>3 DEF Clean
    <3>2. ASSUME NEW u \in Admins, Draining(u, a)
          PROVE  Clean(a)' \/ Draining(u, a)'
      <4>1. CASE u = t
        BY <3>2, <4>1 DEF AdminStep
      <4>2. CASE u # t
        BY <1>1, <3>2, <4>2 DEF Draining
      <4> QED BY <4>1, <4>2
    <3> QED BY <1>2, <1>3, <2>2, <3>1, <3>2 DEF CloseOk
  <2> QED BY <2>1, <2>2 DEF CloseOk
<1>6. FinishedOk'
  <2> SUFFICES ASSUME NEW c \in finished
               PROVE  Over(c)'
    BY <1>2 DEF FinishedOk
  <2>1. Over(c) /\ task'[c] = task[c]
    BY <1>1, <1>3 DEF FinishedOk, Typed
  <2> QED BY <2>1 DEF Over
<1>7. ASSUME NEW u \in Admins
      PROVE  WaitOk(u)' /\ GoneOk(u)'
  <2>1. CASE u = t
    BY <2>1 DEF AdminStep
  <2>2. CASE u # t
    <3>1. u \in Tasks /\ task'[u] = task[u] /\ WaitOk(u) /\ GoneOk(u) /\ CallShape(u)
      BY <1>1, <2>2 DEF EffectsInv, CallsInv
    <3>2. GoneOk(u)'
      BY <1>1, <3>1 DEF GoneOk, Invalidated, AdminStep
    <3>3. CASE task[u].stage \notin {"waiting", "second"} \cup Working
      BY <1>2, <3>1, <3>2, <3>3 DEF WaitOk, Working
    <3>4. CASE task[u].stage \in {"waiting", "second"} \cup Working
      <4>1. PICK a \in Agents : a = task[u].agent
        BY <3>1, <3>4 DEF CallShape, InLock, Entry
      <4>2. SlotOk(a) /\ live[a] \in LiveType
        BY <1>1 DEF MachinesInv, Typed
      <4>3. live'[a] = live[a] \/ live'[a].active = None
        BY NoLiveIs DEF AdminStep
      <4>4. live'[a].active # None /\ Concerns(u, live[a].vm)' => Concerns(u, live[a].vm)
        <5> SUFFICES ASSUME live'[a] = live[a], Concerns(u, live[a].vm)'
                     PROVE  Concerns(u, live[a].vm)
          BY <4>3
        <5>1. live[a].vm # None /\ live[a].vm \in Commands
          BY <4>2 DEF Concerns, LiveType
        <5>2. vm'[live[a].vm].material = vm[live[a].vm].material
          BY <5>1 DEF AdminStep
        <5> QED BY <3>1, <5>1, <5>2 DEF Concerns
      <4> QED BY <1>2, <3>1, <3>2, <4>1, <4>3, <4>4 DEF WaitOk
    <3> QED BY <3>3, <3>4
  <2> QED BY <2>1, <2>2
<1>8. ASSUME NEW d \in Commands
      PROVE  HeldOk(d)'
  <2>1. task'[d] = task[d] /\ HeldOk(d) /\ CallShape(d)
    BY <1>1 DEF EffectsInv, CallsInv
  <2> SUFFICES ASSUME task[d].stage = "held"
               PROVE  HeldOk(d)'
    BY <2>1 DEF HeldOk
  <2>2. PICK x \in Commands : x = task[d].vm
    BY <2>1 DEF HeldOk
  <2>3. PICK a \in Agents : a = task[d].agent
    BY <2>1 DEF CallShape
  <2>4. Started(x) /\ vm[x].agent = a /\ task'[x] = task[x] /\ x # None
    BY <1>1, <2>1, <2>2, <2>3 DEF HeldOk
  <2>5. Started(x)'
    BY <2>4 DEF Started
  <2>6. vm'[x] = vm[x] \/ (vm'[x].agent = vm[x].agent /\ vm'[x].state = "gone")
    BY DEF AdminStep
  <2>7. ASSUME vm'[x].state = "running"
        PROVE  (live'[a].vm = x /\ live'[a].active = d) \/ a \in unsafe'
    <3>1. (live[a].vm = x /\ live[a].active = d) \/ a \in unsafe
      BY <2>1, <2>2, <2>3, <2>6, <2>7 DEF HeldOk
    <3>2. CASE a = task[t].agent /\ task[t].stage = "terminating" /\ live[a].vm = x
      <4>1. task[t].vm = x
        BY <1>1, <2>4, <3>2 DEF WorkOk, Working
      <4> QED BY <2>7, <3>1, <4>1, <1>2 DEF AdminStep
    <3> QED BY <1>2, <3>1, <3>2 DEF AdminStep
  <2> QED BY <2>1, <2>2, <2>3, <2>4, <2>5, <2>6, <2>7 DEF HeldOk
<1> QED BY <1>4, <1>5, <1>6, <1>7, <1>8 DEF EffectsInv

\* The section of t is over and the agent is drained, or the failure is kept in mind.
LEMMA AdminDrained ==
  ASSUME CallsInv, NEW t \in Admins, Holds(t), NEW ok \in BOOLEAN, Ends(t, ok),
         NEW a \in Agents, a = task[t].agent,
         ok /\ task[t].kind = "close" =>
           /\ live'[a].vm = None
           /\ \A v \in Commands : vm'[v].state = "running" => vm'[v].agent # a
  PROVE  \A b \in Agents : Draining(t, b) => Draining(t, b)' \/ Clean(b)'
<1>1. /\ t \in Tasks /\ \A u \in Tasks \ {t} : task'[u] = task[u]
      /\ task[t].ok \in BOOLEAN
  BY TaskIsEither DEF Ends, Turned, CallsInv, Typed, TaskType
<1> SUFFICES ASSUME NEW b \in Agents, Draining(t, b)
             PROVE  Draining(t, b)' \/ Clean(b)'
  OBVIOUS
<1>2. /\ task[t].kind = "close" /\ task'[t].kind = "close" /\ task'[t].stage = "next"
      /\ task'[t].todo = task[t].todo /\ task'[t].ok = (task[t].ok /\ ok)
  BY DEF Draining, Ends
<1>3. CASE ~task'[t].ok \/ b \in task[t].todo
  BY <1>2, <1>3 DEF Draining
<1>4. CASE task'[t].ok /\ b \notin task[t].todo
  <2>1. b = a /\ ok
    BY <1>1, <1>2, <1>4 DEF Draining
  <2>2. \A u \in Tasks : task'[u].stage \in Working => task'[u].agent # a
    <3>1. \A u \in Tasks \ {t} : task[u].stage \in Working => task[u].agent # a
      BY <1>1, HolderIsAlone
    <3> QED BY <1>1, <1>2, <3>1 DEF Working
  <2> QED BY <1>2, <2>1, <2>2 DEF Clean
<1> QED BY <1>2, <1>3, <1>4

\* The section of t is over and the old material is gone, or the failure is reported.
LEMMA AdminGone ==
  ASSUME CallsInv, NEW t \in Admins, Holds(t), NEW ok \in BOOLEAN, Ends(t, ok),
         ok /\ task[t].kind = "invalidate" =>
           \A v \in Commands :
             vm'[v].state = "running" /\ vm'[v].agent = task[t].agent =>
               ~(vm'[v].material < task[t].material)
  PROVE  GoneOk(t)'
<1>1. /\ t \in Tasks /\ \A u \in Tasks \ {t} : task'[u] = task[u]
      /\ \A c \in Commands : c \in Tasks /\ c # t
  BY TaskIsEither DEF Ends, Turned
<1>2. \A u \in Tasks \ {t} : task[u].stage \in Working => task[u].agent # task[t].agent
  BY <1>1, HolderIsAlone
<1>3. /\ task'[t].kind = task[t].kind /\ task'[t].agent = task[t].agent
      /\ task'[t].material = task[t].material /\ (task'[t].ok => ok)
  BY DEF Ends
<1> QED BY <1>1, <1>2, <1>3 DEF GoneOk, Invalidated

LEMMA RetireIsAdminStep ==
  ASSUME CallsInv, MachinesInv, EffectsInv, NEW t \in Admins, RetireStep(t)
  PROVE  AdminStep(t)
<1>1. /\ t \in Tasks /\ t \notin Commands /\ CallShape(t) /\ Typed /\ WorkOk(t) /\ WaitOk(t)
      /\ up /\ Holds(t) /\ Turned(t) /\ task[t] \in TaskType
  BY TaskIsEither DEF CallsInv, MachinesInv, EffectsInv, RetireStep, Typed
<1>2. PICK a \in Agents : a = task[t].agent
  BY DEF RetireStep
<1>3. /\ task[t].stage \in {"retiring", "terminating", "clearing"} /\ task[t].then = "done"
      /\ task[t].stage \in Working
  BY <1>1 DEF RetireStep, CallShape, Working
<1>4. /\ UNCHANGED <<closed, material, known, finished>>
      /\ task'[t].kind = task[t].kind /\ task'[t].agent = a /\ task'[t].todo = task[t].todo
      /\ task'[t].material = task[t].material
      /\ task'[t].stage \in {"terminating", "clearing", "next", "done"}
      /\ task'[t].kind # "close" => task'[t].stage # "next"
  BY <1>1, <1>2, <1>3 DEF RetireStep, Ends
<1>5. task[t].kind = "close" => closed
  BY <1>3 DEF EffectsInv, CloseOk
<1>6. live'[a] = live[a] \/ live'[a] = NoLive
  BY DEF RetireStep
<1>7. WaitOk(t)'
  BY <1>1, <1>2, <1>3, <1>4, <1>6, NoLiveIs DEF WaitOk, Working
<1>8. GoneOk(t)' /\ \A b \in Agents : Draining(t, b) => Draining(t, b)' \/ Clean(b)'
  <2>1. CASE /\ task'[t].stage \in {"terminating", "clearing"} /\ task'[t].ok = task[t].ok
    <3>1. GoneOk(t)'
      BY <2>1 DEF GoneOk, Invalidated
    <3>2. \A b \in Agents : Draining(t, b) => Draining(t, b)'
      BY <1>1, <1>2, <1>3, <1>4, <2>1 DEF Draining, InLock, Working
    <3> QED BY <3>1, <3>2
  <2>2. CASE Ends(t, TRUE) /\ task[t].stage = "clearing"
    <3>1. live'[a].vm = None
      BY <1>1, <1>2, <1>3, <2>2 DEF WorkOk, RetireStep
    <3>2. \A v \in Commands : vm'[v].state = "running" => vm'[v].agent # a
      <4>1. \A v \in Commands : vm[v].state = "running" => vm[v].agent # a
        BY <1>1, <1>2, <2>2, RunningUnderLock
      <4> QED BY <4>1 DEF RetireStep
    <3>3. GoneOk(t)'
      BY <1>1, <1>2, <2>2, <3>2, AdminGone
    <3> QED BY <1>1, <1>2, <2>2, <3>1, <3>2, <3>3, AdminDrained
  <2>3. CASE Ends(t, FALSE)
    BY <1>1, <1>2, <2>3, AdminGone, AdminDrained
  <2> QED BY <1>3, <2>1, <2>2, <2>3 DEF RetireStep
<1>9. /\ unsafe \subseteq unsafe' /\ \A b \in unsafe' : b \in unsafe \/ b = task[t].agent
      /\ \A b \in Agents : \/ live'[b] = live[b]
                           \/ /\ b = task[t].agent /\ task[t].stage = "terminating" /\ live'[b] = NoLive
                              /\ vm'[task[t].vm].state = "gone" \/ b \in unsafe'
      /\ \A v \in Commands : \/ vm'[v] = vm[v]
                             \/ /\ vm'[v].agent = vm[v].agent /\ vm'[v].material = vm[v].material
                                /\ vm'[v].state = "gone"
      /\ up' /\ task'[t].agent = task[t].agent
  BY DEF RetireStep
<1> QED BY <1>1, <1>3, <1>4, <1>5, <1>7, <1>8, <1>9 DEF AdminStep

\* A step that leaves slots, fences and processes alone.
LEMMA AdminStill ==
  ASSUME CallsInv, EffectsInv, NEW t \in Admins, up, up', Turned(t),
         UNCHANGED <<closed, material, known, finished, unsafe, live, vm>>,
         task'[t].stage \in Working => task'[t].agent = task[t].agent /\ live[task[t].agent].vm # None,
         task'[t].kind = "close" /\ task'[t].stage # "done" => closed,
         WaitOk(t)', GoneOk(t)',
         \A b \in Agents : Draining(t, b) => Draining(t, b)' \/ Clean(b)'
  PROVE  AdminStep(t)
BY DEF AdminStep

\* The calls outside the lock.
LEMMA AdminOutside ==
  ASSUME CallsInv, MachinesInv, EffectsInv, NEW t \in Admins,
         \/ CloseNext(t) \/ AwaitFinished(t)
         \/ \E a \in Agents, kind \in AdminKinds : BeginAdmin(t, kind, a)
  PROVE  AdminStep(t)
<1>1. /\ Typed /\ CallShape(t) /\ t \in Tasks /\ t \notin Commands /\ task \in [Tasks -> TaskType]
      /\ WaitOk(t) /\ CloseOk
  BY TaskIsEither DEF CallsInv, Typed, EffectsInv
<1>2. CASE CloseNext(t)
  <2>1. /\ up /\ up' /\ UNCHANGED <<closed, material, known, finished, unsafe, live, vm>>
        /\ task[t].kind = "close" /\ task[t].stage = "next" /\ closed
    <3>1. /\ up /\ task[t].kind = "close" /\ task[t].stage = "next"
          /\ UNCHANGED <<up, crashes, recovering, closed, memory, vm, record, material>>
      BY <1>2, Zenon DEF CloseNext
    <3> QED BY <1>1, <3>1 DEF memory, CloseOk
  <2>2. CASE task[t].todo = {} /\ task' = Staged(t, "done")
    <3>1. ToStage(t, "done")
      BY <1>1, <2>2, StagedIs DEF Stages
    <3>2. WaitOk(t)' /\ GoneOk(t)'
      BY <2>1, <3>1 DEF ToStage, WaitOk, GoneOk, Invalidated, Working
    <3>3. \A b \in Agents : Draining(t, b) => Draining(t, b)'
      BY <2>1, <2>2, <3>1 DEF Draining, ToStage, InLock, Entry, Working
    <3>4. Turned(t) /\ task'[t].stage = "done"
      BY <3>1 DEF ToStage
    <3> QED BY <2>1, <3>2, <3>3, <3>4, AdminStill DEF Working
  <2>3. ASSUME NEW a \in task[t].todo,
               task' = [task EXCEPT ![t].stage = "first", ![t].agent = a, ![t].todo = @ \ {a}]
        PROVE  AdminStep(t)
    <3>1. /\ Turned(t) /\ task'[t].kind = "close" /\ task'[t].stage = "first" /\ task'[t].agent = a
          /\ task'[t].todo = task[t].todo \ {a} /\ task'[t].ok = task[t].ok
      <4>1. /\ Turned(t) /\ task'[t].kind = task[t].kind /\ task'[t].stage = "first"
            /\ task'[t].agent = a /\ task'[t].todo = task[t].todo \ {a} /\ task'[t].ok = task[t].ok
        BY <1>1, <2>3, EditTodo, Zenon
      <4> QED BY <2>1, <4>1
    <3>2. WaitOk(t)' /\ GoneOk(t)'
      BY <3>1 DEF WaitOk, GoneOk, Invalidated, Working
    <3>3. \A b \in Agents : Draining(t, b) => Draining(t, b)'
      BY <2>1, <3>1 DEF Draining, InLock, Entry, Working
    <3> QED BY <2>1, <3>1, <3>2, <3>3, AdminStill DEF Working
  <2> QED BY <1>2, <2>2, <2>3, Zenon DEF CloseNext
<1>3. CASE AwaitFinished(t)
  <2>1. /\ up /\ up' /\ UNCHANGED <<closed, material, known, finished, unsafe, live, vm>>
        /\ task[t].stage = "waiting" /\ task[t].wait \in finished \cup {None}
        /\ task' = Staged(t, "second")
    BY <1>3 DEF AwaitFinished, memory
  <2>2. ToStage(t, "second")
    BY <1>1, <2>1, StagedIs DEF Stages
  <2>3. PICK a \in Agents : a = task[t].agent
    BY <1>1, <2>1 DEF CallShape
  <2>4. WaitOk(t)'
    BY <1>1, <2>1, <2>2 DEF ToStage, WaitOk, Working, Concerns
  <2>5. GoneOk(t)'
    BY <2>2 DEF ToStage, GoneOk, Invalidated
  <2>6. \A b \in Agents : Draining(t, b) => Draining(t, b)'
    BY <2>1, <2>2 DEF Draining, ToStage, InLock, Entry
  <2>7. task'[t].kind = "close" => closed
    BY <1>1, <2>1, <2>2 DEF CloseOk, ToStage
  <2>8. Turned(t) /\ task'[t].stage = "second"
    BY <2>2 DEF ToStage
  <2> QED BY <2>1, <2>4, <2>5, <2>6, <2>7, <2>8, AdminStill DEF Working
<1>4. ASSUME NEW a \in Agents, NEW kind \in AdminKinds, BeginAdmin(t, kind, a)
      PROVE  AdminStep(t)
  <2>1. /\ up /\ task[t].stage = "idle" /\ kind # "close"
        /\ UNCHANGED <<up, crashes, recovering, closed, memory, vm, record, material>>
    BY <1>4, Zenon DEF BeginAdmin
  <2>2. up' /\ UNCHANGED <<closed, material, known, finished, unsafe, live, vm>>
    BY <2>1 DEF memory
  <2>3. /\ Turned(t) /\ task'[t].kind = kind /\ task'[t].stage = "first"
        /\ task'[t].material = material /\ task'[t].agent = a
    BY <1>1, <1>4, EditAdmin
  <2>4. material <= material
    BY <1>1, RuntimeAssumption DEF Typed
  <2>5. WaitOk(t)' /\ GoneOk(t)'
    BY <2>2, <2>3, <2>4 DEF WaitOk, GoneOk, Invalidated, Working
  <2>6. \A b \in Agents : ~Draining(t, b)
    BY <1>1, <2>1 DEF Draining, CallShape, IdleTask
  <2> QED BY <2>1, <2>2, <2>3, <2>5, <2>6, AdminStill DEF Working
<1> QED BY <1>2, <1>3, <1>4

\* The calls inside the lock.
LEMMA AdminInside ==
  ASSUME CallsInv, MachinesInv, EffectsInv, NEW t \in Admins, First(t) \/ Second(t)
  PROVE  AdminStep(t)
<1>1. PICK a \in Agents : a = task[t].agent
  BY HolderFacts, TaskIsEither DEF First, Second
<1> DEFINE x == live[a].vm
<1>2. /\ t \in Tasks /\ t \notin Commands /\ Typed /\ up /\ Holds(t) /\ CallShape(t)
      /\ task[t].stage \in {"first", "second"} /\ up'
      /\ UNCHANGED <<live, vm, unsafe, closed, material, known>>
      /\ WaitOk(t) /\ CloseOk
  BY HolderFacts, TaskIsEither DEF First, Second, EffectsInv
<1>3. /\ SlotOk(a) /\ live[a] \in LiveType /\ task \in [Tasks -> TaskType] /\ FinishedOk
      /\ task[t].kind \in Kinds /\ task[t].kind \notin {"acquire", "complete"}
  BY <1>2, TaskIsEither DEF MachinesInv, Typed, CallShape, EffectsInv, TaskType
<1>4. task[t].kind = "close" => closed
  BY <1>2 DEF CloseOk
<1>5. ASSUME NEW v \in Commands, vm[v].state = "running", vm[v].agent = a, a \notin unsafe
      PROVE  v = x
  BY <1>1, <1>2, <1>5, RunningUnderLock DEF InCharge
<1>6. ASSUME NEW ok \in BOOLEAN, End(t, ok), ok /\ task[t].kind \in {"close", "invalidate"} =>
               a \notin unsafe /\ ~Concerns(t, x)
      PROVE  AdminStep(t)
  <2>1. Ends(t, ok)
    BY <1>2, <1>6, EndIs
  <2>2. GoneOk(t)'
    <3>1. ASSUME ok, task[t].kind = "invalidate", NEW v \in Commands,
                 vm'[v].state = "running", vm'[v].agent = task[t].agent
          PROVE  ~(vm'[v].material < task[t].material)
      <4>1. v = x /\ v # None
        BY <1>1, <1>2, <1>5, <1>6, <3>1, TaskIsEither
      <4> QED BY <1>2, <1>6, <3>1, <4>1 DEF Concerns
    <3> QED BY <1>2, <2>1, <3>1, AdminGone
  <2>3. \A b \in Agents : Draining(t, b) => Draining(t, b)' \/ Clean(b)'
    <3>1. ASSUME ok, task[t].kind = "close"
          PROVE  /\ live'[a].vm = None
                 /\ \A v \in Commands : vm'[v].state = "running" => vm'[v].agent # a
      <4>1. x = None /\ a \notin unsafe
        BY <1>6, <3>1 DEF Concerns
      <4> QED BY <1>2, <1>5, <4>1, TaskIsEither
    <3> QED BY <1>1, <1>2, <2>1, <3>1, AdminDrained
  <2>4. WaitOk(t)' /\ task'[t].stage \in {"next", "done"} /\ Turned(t)
        /\ task'[t].kind = task[t].kind /\ finished' = finished
    BY <1>2, <2>1 DEF WaitOk, Ends, Working
  <2> QED BY <1>2, <1>4, <2>2, <2>3, <2>4, AdminStill DEF Working
<1>7. ASSUME NEW w \in {live[a].active, None}, live[a].active # None => w = live[a].active,
             task' = [task EXCEPT ![t].stage = "waiting", ![t].wait = w], finished' = finished
      PROVE  AdminStep(t)
  <2>1. w \in Commands \cup {None} /\ "waiting" \in Stages
    BY <1>3 DEF Stages, LiveType
  <2>2. /\ Turned(t) /\ task'[t].stage = "waiting" /\ task'[t].kind = task[t].kind
        /\ task'[t].agent = task[t].agent /\ task'[t].wait = w /\ task'[t].todo = task[t].todo
        /\ task'[t].ok = task[t].ok /\ task'[t].material = task[t].material
    <3>1. PICK y \in Commands \cup {None} : y = w
      BY <2>1
    <3>2. task' = WaitEdit(t, "waiting", y)
      BY <1>7, <3>1, Zenon DEF WaitEdit
    <3>3. /\ Turned(t) /\ task'[t].stage = "waiting" /\ task'[t].kind = task[t].kind
          /\ task'[t].agent = task[t].agent /\ task'[t].wait = y /\ task'[t].todo = task[t].todo
          /\ task'[t].ok = task[t].ok /\ task'[t].material = task[t].material
      BY <1>2, <1>3, <2>1, <3>2, WaitEditIs
    <3> QED BY <3>1, <3>3
  <2>3. WaitOk(t)'
    BY <1>1, <1>2, <1>7, <2>2 DEF WaitOk, Working
  <2>4. GoneOk(t)' /\ \A b \in Agents : Draining(t, b) => Draining(t, b)'
    BY <1>2, <2>2 DEF GoneOk, Invalidated, Draining
  <2> QED BY <1>2, <1>4, <1>7, <2>2, <2>3, <2>4, AdminStill DEF Working
<1>8. ASSUME x # None, task[t].kind # "force-retire" => live[a].active = None,
             task' = [task EXCEPT ![t].stage = "retiring", ![t].vm = x], finished' = finished
      PROVE  AdminStep(t)
  <2>1. PICK w \in Commands \cup {None} : w = x
    BY <1>3 DEF LiveType
  <2>2. /\ Turned(t) /\ task'[t].stage = "retiring" /\ task'[t].kind = task[t].kind
        /\ task'[t].agent = task[t].agent /\ task'[t].todo = task[t].todo
        /\ task'[t].ok = task[t].ok /\ task'[t].material = task[t].material
    <3>1. task' = VmEdit(t, "retiring", w) /\ "retiring" \in Stages
      BY <1>8, <2>1, Zenon DEF VmEdit, Stages
    <3> QED BY <1>2, <1>3, <3>1, VmEditIs
  <2>3. WaitOk(t)'
    BY <1>1, <1>2, <1>8, <2>2 DEF WaitOk
  <2>4. GoneOk(t)' /\ \A b \in Agents : Draining(t, b) => Draining(t, b)'
    BY <1>2, <2>2 DEF GoneOk, Invalidated, Draining, InLock, Working
  <2> QED BY <1>1, <1>2, <1>4, <1>8, <2>2, <2>3, <2>4, AdminStill
<1>9. CASE First(t)
  <2>1. \/ /\ task[t].kind # "close" /\ End(t, ~(a \in unsafe))
           /\ a \in unsafe \/ ~Concerns(t, x) \/ task[t].kind \in {"retire", "reap"}
        \/ /\ task' = [task EXCEPT ![t].stage = "waiting", ![t].wait = live[a].active]
           /\ finished' = finished
        \/ /\ task' = [task EXCEPT ![t].stage = "waiting", ![t].wait = None]
           /\ live[a].active = None /\ finished' = finished
        \/ /\ x # None /\ live[a].active = None /\ finished' = finished
           /\ task' = [task EXCEPT ![t].stage = "retiring", ![t].vm = x]
    BY <1>1, <1>9, Zenon DEF First, Concerns, Stay
  <2> HIDE DEF x
  <2> QED BY <1>6, <1>7, <1>8, <2>1
<1>10. CASE Second(t)
  <2>1. \/ End(t, a \notin unsafe) /\ (a \in unsafe \/ ~Concerns(t, x))
        \/ /\ Concerns(t, x) /\ finished' = finished /\ task[t].stage = "second"
           /\ task' = [task EXCEPT ![t].stage = "retiring", ![t].vm = x]
    BY <1>1, <1>10, Zenon DEF Second, Stay, At
  <2>2. ASSUME Concerns(t, x), task[t].kind # "force-retire", task[t].stage = "second",
               live[a].active # None
        PROVE  FALSE
    <3>1. task[t].kind \in {"close", "invalidate"}
      BY <1>2, <1>3, <2>2 DEF CallShape, Kinds
    <3>2. live[a].active = task[t].wait /\ task[t].wait \in finished
      BY <1>1, <1>2, <2>2, <3>1 DEF WaitOk
    <3>3. Over(live[a].active)
      BY <1>3, <3>2 DEF FinishedOk
    <3> QED BY <1>3, <2>2, <3>3 DEF Over, SlotOk
  <2>3. Concerns(t, x) => x # None
    BY DEF Concerns
  <2> HIDE DEF x
  <2> QED BY <1>6, <1>8, <2>1, <2>2, <2>3
<1> QED BY <1>9, <1>10

\* closeZone begins: what it will not drain is clean already.
LEMMA CloseEffects ==
  ASSUME CallsInv, MachinesInv, EffectsInv, NEW t \in Admins, BeginClose(t)
  PROVE  EffectsInv'
<1>1. /\ t \in Tasks /\ t \notin Commands /\ Typed /\ up /\ task[t].stage = "idle" /\ closed'
      /\ UNCHANGED <<up, crashes, recovering, memory, vm, record, material>>
  BY TaskIsEither, Zenon DEF CallsInv, BeginClose
<1>2. up' /\ UNCHANGED <<known, unsafe, live, finished, vm, material>>
  BY <1>1 DEF memory
<1>3. /\ Turned(t) /\ task'[t].kind = "close" /\ task'[t].stage = "next" /\ task'[t].todo = known
  BY <1>1, EditClose
<1>4. /\ \A u \in Tasks \ {t} : task'[u] = task[u]
      /\ \A c \in Commands : c \in Tasks /\ c # t /\ task'[c] = task[c]
      /\ \A u \in Admins : u \in Tasks
  BY <1>1, <1>3, TaskIsEither DEF Turned
<1>5. KnownOk /\ FinishedOk
  BY DEF EffectsInv
<1>6. KnownOk'
  BY <1>1, <1>2, <1>3, <1>4, <1>5 DEF KnownOk, Working
<1>7. CloseOk'
  <2>1. ASSUME NEW a \in Agents, a \in known
        PROVE  Draining(t, a)'
    BY <1>3, <2>1 DEF Draining
  <2>2. ASSUME NEW a \in Agents, a \notin known
        PROVE  Clean(a)'
    <3>1. live'[a].vm = None
      BY <1>1, <1>2, <1>5, <2>2 DEF KnownOk
    <3>2. \A u \in Tasks : task'[u].stage \in Working => task'[u].agent # a
      BY <1>1, <1>3, <1>4, <1>5, <2>2 DEF KnownOk, Working
    <3>3. ASSUME NEW v \in Commands, vm[v].state = "running", vm[v].agent = a
          PROVE  FALSE
      <4>1. Owned(v) /\ v # None
        BY <3>3, TaskIsEither DEF MachinesInv, RunsOwned
      <4> QED BY <1>1, <1>2, <1>5, <2>2, <3>1, <3>3, <4>1 DEF Owned, KnownOk, InCharge, Working
    <3> QED BY <1>2, <3>1, <3>2, <3>3 DEF Clean
  <2> QED BY <1>1, <2>1, <2>2 DEF CloseOk
<1>8. FinishedOk'
  <2>1. \A c \in finished : task'[c] = task[c]
    BY <1>1, <1>4 DEF Typed
  <2> QED BY <1>2, <1>5, <2>1 DEF FinishedOk, Over
<1>9. ASSUME NEW u \in Admins
      PROVE  WaitOk(u)' /\ GoneOk(u)'
  <2>1. CASE u = t
    BY <1>3, <2>1 DEF WaitOk, GoneOk, Invalidated, Working
  <2>2. CASE u # t
    <3>1. task'[u] = task[u] /\ WaitOk(u) /\ GoneOk(u)
      BY <1>4, <2>2 DEF EffectsInv
    <3>2. GoneOk(u)'
      BY <1>2, <1>4, <3>1 DEF GoneOk, Invalidated
    <3> QED BY <1>2, <3>1, <3>2 DEF WaitOk, Concerns
  <2> QED BY <2>1, <2>2
<1>10. ASSUME NEW c \in Commands
       PROVE  HeldOk(c)'
  <2>1. HeldOk(c) /\ task'[c] = task[c] /\ \A x \in Commands : Started(x)' <=> Started(x)
    BY <1>4 DEF EffectsInv, Started
  <2> QED BY <1>2, <1>4, <2>1 DEF HeldOk, Started
<1> QED BY <1>6, <1>7, <1>8, <1>9, <1>10 DEF EffectsInv

\* Steps of the world that no call takes part in.
LEMMA WorldEffects ==
  ASSUME CallsInv, MachinesInv, EffectsInv,
         UNCHANGED <<up, known, unsafe, live, finished, task>>,
         \A v \in Commands : /\ vm'[v].agent = vm[v].agent /\ vm'[v].material = vm[v].material
                             /\ vm'[v] = vm[v] \/ vm'[v].state # "running",
         \/ closed' = closed
         \/ ~closed' /\ \A t \in Admins : task[t].kind = "close" => task[t].stage = "done",
         material' \in Nat, material <= material'
  PROVE  EffectsInv'
<1>1. Typed /\ material \in Nat /\ KnownOk /\ CloseOk /\ FinishedOk
  BY RuntimeAssumption DEF CallsInv, Typed, EffectsInv
<1>2. KnownOk' /\ FinishedOk'
  BY <1>1 DEF KnownOk, FinishedOk, Over
<1>3. CloseOk'
  <2>1. ASSUME NEW a \in Agents, Clean(a)
        PROVE  Clean(a)'
    BY <2>1 DEF Clean
  <2>2. \A t \in Admins, a \in Agents : Draining(t, a) => Draining(t, a)'
    BY DEF Draining
  <2> QED BY <1>1, <2>1, <2>2 DEF CloseOk
<1>4. ASSUME NEW t \in Admins
      PROVE  WaitOk(t)' /\ GoneOk(t)'
  <2>1. t \in Tasks /\ WaitOk(t) /\ GoneOk(t) /\ CallShape(t) /\ task[t].material \in Nat
    BY <1>1, TaskIsEither, RuntimeAssumption DEF EffectsInv, CallsInv, Typed, TaskType
  <2>2. GoneOk(t)'
    BY <2>1 DEF GoneOk, Invalidated
  <2>3. task[t].kind = "invalidate" => task[t].material <= material'
    BY <1>1, <2>1 DEF WaitOk
  <2>4. CASE task[t].stage \in {"waiting", "second"}
    <3>1. PICK a \in Agents : a = task[t].agent
      BY <2>1, <2>4 DEF CallShape, InLock, Entry
    <3>2. live[a].vm \in Commands \cup {None}
      BY <1>1 DEF Typed, LiveType
    <3>3. Concerns(t, live[a].vm)' => Concerns(t, live[a].vm)
      BY <3>2 DEF Concerns
    <3> QED BY <2>1, <2>2, <2>3, <3>1, <3>3 DEF WaitOk
  <2>5. CASE task[t].stage \notin {"waiting", "second"}
    BY <2>1, <2>2, <2>3, <2>5 DEF WaitOk
  <2> QED BY <2>4, <2>5
<1>5. ASSUME NEW c \in Commands
      PROVE  HeldOk(c)'
  <2>1. HeldOk(c)
    BY DEF EffectsInv
  <2> QED BY <2>1 DEF HeldOk, Started
<1> QED BY <1>2, <1>3, <1>4, <1>5 DEF EffectsInv

\* Steps after which nobody is under way.
LEMMA DownEffects ==
  ASSUME CallsInv, EffectsInv, CallsInv',
         \A t \in Tasks : /\ task'[t].stage \in {"idle", "done"}
                          /\ task'[t].kind = task[t].kind /\ task'[t].agent = task[t].agent
                          /\ task'[t].material = task[t].material
                          /\ task'[t].ok => task'[t] = task[t],
         \A v \in Commands : /\ vm'[v].agent = vm[v].agent /\ vm'[v].material = vm[v].material
                             /\ vm'[v] = vm[v] \/ vm'[v].state # "running",
         ~closed', material' = material,
         \A c \in finished' : c \in finished /\ task'[c] = task[c],
         up' => unsafe' \subseteq known' /\ \A a \in Agents : live'[a].vm = None
  PROVE  EffectsInv'
<1>1. \A c \in Commands : c \in Tasks
  BY TaskIsEither
<1>2. KnownOk'
  BY <1>1 DEF KnownOk, Working
<1>3. CloseOk'
  <2>1. ASSUME NEW t \in Admins, task'[t].kind = "close"
        PROVE  task'[t].stage = "done"
    BY <2>1, TaskIsEither DEF CallsInv, CallShape, IdleTask
  <2> QED BY <2>1 DEF CloseOk
<1>4. FinishedOk'
  BY DEF EffectsInv, FinishedOk, Over
<1>5. ASSUME NEW t \in Admins
      PROVE  WaitOk(t)' /\ GoneOk(t)'
  <2>1. t \in Tasks /\ WaitOk(t) /\ GoneOk(t)
    BY TaskIsEither DEF EffectsInv
  <2>2. WaitOk(t)'
    BY <2>1 DEF WaitOk, Working
  <2>3. GoneOk(t)'
    BY <1>1, <2>1 DEF GoneOk, Invalidated, Working
  <2> QED BY <2>2, <2>3
<1>6. \A c \in Commands : HeldOk(c)'
  BY <1>1 DEF HeldOk
<1> QED BY <1>2, <1>3, <1>4, <1>5, <1>6 DEF EffectsInv

LEMMA CrashEffects ==
  ASSUME CallsInv, EffectsInv, CallsInv', Crash
  PROVE  EffectsInv'
<1>1. ~up' /\ ~closed' /\ finished' = {} /\ material' = material
  BY Zenon DEF Crash
<1>2. ASSUME NEW t \in Tasks
      PROVE  /\ task'[t].stage \in {"idle", "done"}
             /\ task'[t].kind = task[t].kind /\ task'[t].agent = task[t].agent
             /\ task'[t].material = task[t].material
             /\ task'[t].ok => task'[t] = task[t]
  BY CrashTask
<1>3. \A v \in Commands : /\ vm'[v].agent = vm[v].agent /\ vm'[v].material = vm[v].material
                          /\ vm[v].state = "created" => vm'[v].state = "gone"
  BY CrashVms
<1>4. \A v \in Commands : vm[v].state # "created" => vm'[v] = vm[v]
  BY Zenon DEF Crash
<1> QED BY <1>1, <1>2, <1>3, <1>4, DownEffects

LEMMA RecoverVms ==
  ASSUME CallsInv, NEW a \in Agents, RecoverRecord(a), NEW v \in Commands
  PROVE  /\ vm'[v].agent = vm[v].agent /\ vm'[v].material = vm[v].material
         /\ vm'[v] = vm[v] \/ vm'[v].state = "gone"
<1>1. vm' = vm \/ vm' = [vm EXCEPT ![record[a].vm].state = "gone"]
  BY DEF RecoverRecord
<1>2. CASE vm' = [vm EXCEPT ![record[a].vm].state = "gone"]
  <2>1. record[a].vm \in Commands => VmBecomes(record[a].vm, "gone")
    BY <1>2, VmStateIs, RecordKindsAre DEF CallsInv
  <2>2. record[a].vm \notin Commands => vm' = vm
    BY <1>2 DEF CallsInv, Typed
  <2> QED BY <2>1, <2>2 DEF VmBecomes
<1> QED BY <1>1, <1>2

LEMMA RecoveryEffects ==
  ASSUME CallsInv, EffectsInv, CallsInv', Recovered \/ \E a \in Agents : RecoverRecord(a)
  PROVE  EffectsInv'
<1>1. /\ ~up /\ UNCHANGED <<closed, finished, material, task, live>>
      /\ up' => known' = unsafe'
  <2>1. CASE Recovered
    BY <2>1, Zenon DEF Recovered
  <2>2. ASSUME NEW a \in Agents, RecoverRecord(a)
        PROVE  ~up /\ UNCHANGED <<up, closed, finished, material, task, live>>
    BY <2>2, Zenon DEF RecoverRecord
  <2> QED BY <2>1, <2>2
<1>2. /\ \A t \in Tasks : task[t].stage \in {"idle", "done"}
      /\ ~closed /\ \A a \in Agents : live[a].vm = None
  BY <1>1, NoLiveIs DEF CallsInv, DownIsIdle
<1>3. \A v \in Commands : /\ vm'[v].agent = vm[v].agent /\ vm'[v].material = vm[v].material
                          /\ vm'[v] = vm[v] \/ vm'[v].state # "running"
  <2>1. CASE Recovered
    BY <2>1 DEF Recovered
  <2>2. CASE \E a \in Agents : RecoverRecord(a)
    BY <2>2, RecoverVms
  <2> QED BY <2>1, <2>2
<1> QED BY <1>1, <1>2, <1>3, DownEffects

LEMMA EffectsStep ==
  ASSUME CallsInv, MachinesInv, EffectsInv, [Next]_vars
  PROVE  EffectsInv'
<1>0. CallsInv'
  BY CallsStep
<1>1. ASSUME NEW t \in Tasks, TaskStep(t)
      PROVE  EffectsInv'
  <2>1. CASE \/ WriteRetiring(t) \/ Terminated(t) \/ NotTerminated(t) \/ Closed(t) \/ NotClosed(t)
             \/ Cleared(t) \/ NotCleared(t)
    <3>1. RetireStep(t)
      BY <2>1, RetireSteps
    <3>2. CASE t \in Commands
      BY <3>1, <3>2, RetireIsCommandStep, CommandEffects
    <3>3. CASE t \in Admins
      BY <1>0, <3>1, <3>3, RetireIsAdminStep, AdminEffects
    <3> QED BY <3>2, <3>3, TaskIsEither
  <2>2. CASE /\ t \in Commands
             /\ \/ Materialize(t) \/ Probe(t) \/ WriteIntent(t) \/ Create(t) \/ WriteCreated(t)
                \/ Start(t) \/ Identify(t) \/ WriteIdentity(t) \/ Authorize(t) \/ WriteActive(t)
                \/ ExecSettles(t) \/ Complete(t) \/ Completing(t) \/ WriteIdle(t)
    BY <2>2, MaterializeStep, ProbeStep, BuildSteps, AuthorizeStep, WriteActiveStep, HandleSteps,
       CommandEffects
  <2>3. CASE t \in Admins /\ (CloseNext(t) \/ First(t) \/ AwaitFinished(t) \/ Second(t))
    BY <1>0, <2>3, AdminOutside, AdminInside, AdminEffects
  <2> QED BY <1>1, <2>1, <2>2, <2>3 DEF TaskStep
<1>2. ASSUME NEW c \in Commands, Exec(c) \/ \E a \in Agents : Acquire(c, a)
      PROVE  EffectsInv'
  BY <1>2, HandleSteps, AcquireStep, CommandEffects
<1>3. ASSUME NEW t \in Admins,
             \/ BeginClose(t) \/ \E a \in Agents, kind \in AdminKinds : BeginAdmin(t, kind, a)
      PROVE  EffectsInv'
  BY <1>0, <1>3, CloseEffects, AdminOutside, AdminEffects
<1>4. Typed /\ material \in Nat
  BY RuntimeAssumption DEF CallsInv, Typed
<1>5. ASSUME NEW c \in Commands, VmExits(c)
      PROVE  EffectsInv'
  <2>1. UNCHANGED <<up, known, unsafe, live, finished, task, closed, material>>
    BY <1>5 DEF VmExits, memory
  <2>2. VmBecomes(c, "exited")
    BY <1>4, <1>5, VmStateIs, RecordKindsAre DEF VmExits
  <2>3. \A v \in Commands : /\ vm'[v].agent = vm[v].agent /\ vm'[v].material = vm[v].material
                            /\ vm'[v] = vm[v] \/ vm'[v].state # "running"
    BY <2>2 DEF VmBecomes
  <2> QED BY <1>4, <2>1, <2>3, WorldEffects
<1>6. CASE OpenZone
  <2>1. /\ UNCHANGED <<up, known, unsafe, live, finished, task, vm, material>> /\ ~closed'
        /\ \A t \in Admins : task[t].kind = "close" => task[t].stage = "done"
    BY <1>6 DEF OpenZone, memory
  <2> QED BY <1>4, <2>1, WorldEffects
<1>7. CASE ChangeMaterial
  <2>1. /\ UNCHANGED <<up, known, unsafe, live, finished, task, vm, closed>>
        /\ material' = material + 1
    BY <1>7 DEF ChangeMaterial, memory
  <2>2. material' \in Nat /\ material <= material'
    BY <1>4, <2>1
  <2> QED BY <2>1, <2>2, WorldEffects
<1>8. CASE UNCHANGED vars
  <2>1. /\ UNCHANGED <<up, known, unsafe, live, finished, task, vm, closed, material>>
    BY <1>8 DEF vars, memory
  <2> QED BY <1>4, <2>1, WorldEffects
<1>9. CASE Crash
  BY <1>0, <1>9, CrashEffects
<1>10. CASE Recovered \/ \E a \in Agents : RecoverRecord(a)
  BY <1>0, <1>10, RecoveryEffects
<1> QED BY <1>1, <1>2, <1>3, <1>5, <1>6, <1>7, <1>8, <1>9, <1>10 DEF Next

LEMMA EffectsStart ==
  ASSUME Init
  PROVE  EffectsInv
<1>1. /\ ~closed /\ finished = {} /\ unsafe = {}
      /\ \A a \in Agents : live[a].vm = None
      /\ \A t \in Tasks : task[t].stage = "idle" /\ task[t].kind = "acquire"
      /\ \A t \in Commands : t \in Tasks
      /\ \A t \in Admins : t \in Tasks
  BY TaskIsEither DEF Init, NoLive, IdleTask
<1>2. KnownOk /\ CloseOk /\ FinishedOk
  BY <1>1 DEF KnownOk, CloseOk, FinishedOk, Working
<1>3. /\ \A t \in Admins : WaitOk(t) /\ GoneOk(t)
      /\ \A c \in Commands : HeldOk(c)
  BY <1>1 DEF WaitOk, GoneOk, Invalidated, HeldOk, Working
<1> QED BY <1>2, <1>3 DEF EffectsInv

-----------------------------------------------------------------------------
(* The theorems.                                                           *)

RuntimeInv == CallsInv /\ MachinesInv /\ EffectsInv

\* The three layers of the invariant hold in every state of the manager, whatever
\* calls, failures, crashes and recoveries interleave.
THEOREM RuntimeCorrect == Spec => []RuntimeInv
<1>1. Init => RuntimeInv
  BY CallsStart, MachinesStart, EffectsStart DEF RuntimeInv
<1>2. RuntimeInv /\ [Next]_vars => RuntimeInv'
  BY CallsStep, MachinesStep, EffectsStep DEF RuntimeInv
<1> QED BY <1>1, <1>2, PTL DEF Spec

\* Whatever step the controller stops at, the record of a VM that still runs is one on
\* which recoverZone terminates or fences it; an agent has one record, and so at most
\* one running VM.
THEOREM RunningVmsRecorded == Spec => []RunningVmIsRecorded
<1>1. RuntimeInv => RunningVmIsRecorded
  BY DEF RuntimeInv, MachinesInv
<1> QED BY <1>1, RuntimeCorrect, PTL

\* closeZone answers for every agent: what it does not drain is clean.
LEMMA ClosedRunsNothing ==
  ASSUME RuntimeInv
  PROVE  ClosedZoneRunsNothing
<1>1. CallsInv /\ MachinesInv /\ EffectsInv /\ Typed
  BY DEF RuntimeInv, CallsInv
<1> SUFFICES ASSUME closed,
                    \A t \in Admins : task[t].kind = "close" => task[t].stage = "done" /\ task[t].ok
             PROVE  /\ \A v \in Commands : vm[v].state # "running"
                    /\ \A a \in Agents : live[a] = NoLive
  BY DEF ClosedZoneRunsNothing
<1>2. \A t \in Admins, a \in Agents : ~Draining(t, a)
  BY DEF Draining, InLock, Entry, Working
<1>3. \A a \in Agents : Clean(a)
  BY <1>1, <1>2, Zenon DEF EffectsInv, CloseOk
<1>4. \A v \in Commands : vm[v].state # "running"
  <2> SUFFICES ASSUME NEW v \in Commands, vm[v].state = "running"
               PROVE  FALSE
    OBVIOUS
  <2>1. vm[v].agent \in Agents
    BY <1>1 DEF MachinesInv, MachineOk
  <2>2. Clean(vm[v].agent)
    BY <1>3, <2>1
  <2> QED BY <2>2 DEF Clean
<1>5. ASSUME NEW a \in Agents
      PROVE  live[a] = NoLive
  <2>1. live[a] \in LiveType /\ live[a].vm = None /\ live[a].active = None
    BY <1>1, <1>3 DEF Clean, MachinesInv, SlotOk, Typed
  <2> QED BY <2>1 DEF LiveType, NoLive
<1> QED BY <1>4, <1>5

\* Calls that were under way respect the lock and the close of the zone: an acquisition
\* that holds the lock is alone with its slot, and a zone whose closeZone resolved runs
\* and keeps nothing until openZone, although closeZone listed the keys when it began.
THEOREM LockAndCloseCorrect == Spec => []LockAndCloseHold
<1>1. ASSUME RuntimeInv
      PROVE  TypeOK
  <2>1. Typed
    BY <1>1 DEF RuntimeInv, CallsInv
  <2>2. \A t \in Tasks : task[t].stage \in Stages /\ task[t].agent \in Agents \cup {None}
    BY <2>1 DEF Typed, TaskType
  <2>3. \A v \in Commands : vm[v].state \in VmStates /\ vm[v].material \in 0..MaxMaterial
    BY <2>1 DEF Typed, VmType
  <2>4. \A a \in Agents : record[a].kind \in RecordKinds /\ record[a].vm \in Commands \cup {None}
    BY <2>1 DEF Typed, RecordType
  <2> QED BY <2>1, <2>2, <2>3, <2>4 DEF Typed, TypeOK, LiveType
<1>2. ASSUME RuntimeInv
      PROVE  AcquisitionOwnsTheSlot
  <2>1. CallsInv /\ AcquiresAlone
    BY <1>2 DEF RuntimeInv, MachinesInv
  <2> SUFFICES ASSUME NEW c \in Commands, task[c].kind = "acquire", Holds(c)
               PROVE  live[task[c].agent].active \in {None, c}
    BY DEF AcquisitionOwnsTheSlot
  <2>2. Acquiring(c)
    BY <2>1, HolderIsAlone, TaskIsEither DEF Acquiring
  <2> QED BY <2>1, <2>2 DEF AcquiresAlone
<1>3. RuntimeInv => LockAndCloseHold
  BY <1>1, <1>2, ClosedRunsNothing DEF LockAndCloseHold
<1> QED BY <1>3, RuntimeCorrect, PTL

\* When invalidateMaterial has answered without owner-unsafe, no VM of the agent holds
\* the replaced material, also when an acquisition had materialized it before.
THEOREM InvalidationCorrect == Spec => []InvalidatedMaterialIsGone
<1>1. RuntimeInv => InvalidatedMaterialIsGone
  BY DEF RuntimeInv, EffectsInv, GoneOk, Invalidated, InvalidatedMaterialIsGone
<1> QED BY <1>1, RuntimeCorrect, PTL

\* A running VM ends at the hands of the call that has it, or of the recovery.
LEMMA VmEnds ==
  ASSUME CallsInv, Next, up, NEW v \in Commands, vm[v].state = "running", vm'[v].state = "gone"
  PROVE  \E t \in Tasks : task[t].vm = v /\ (At(t, "terminating") \/ At(t, "containing"))
<1>1. vm \in [Commands -> VmType] /\ vm' # vm
  BY DEF CallsInv, Typed
<1>2. ASSUME NEW x, vm' = [vm EXCEPT ![x].state = "gone"]
      PROVE  x = v
  BY <1>1, <1>2
<1>3. ASSUME NEW t \in Tasks, TaskStep(t)
      PROVE  task[t].vm = v /\ (At(t, "terminating") \/ At(t, "containing"))
  <2>1. CASE Terminated(t) \/ NotTerminated(t)
    <3>1. At(t, "terminating") /\ vm' = [vm EXCEPT ![task[t].vm].state = "gone"]
      BY <1>1, <2>1, Zenon DEF Terminated, NotTerminated
    <3> QED BY <1>2, <3>1
  <2>2. CASE Closed(t)
    <3>1. At(t, "containing") /\ vm' = [vm EXCEPT ![task[t].vm].state = "gone"]
      BY <2>2, Zenon DEF Closed
    <3> QED BY <1>2, <3>1
  <2>3. CASE WriteRetiring(t) \/ NotClosed(t) \/ Cleared(t) \/ NotCleared(t)
    BY <1>1, <2>3, Zenon DEF WriteRetiring, NotClosed, Cleared, NotCleared
  <2>4. CASE t \in Commands /\ Create(t)
    <3>1. vm' = [vm EXCEPT ![t] = [state |-> "created", agent |-> task[t].agent,
                                   material |-> task[t].material]]
      BY <1>1, <2>4, Zenon DEF Create
    <3>2. vm'[v] = vm[v] \/ vm'[v].state = "created"
      BY <1>1, <3>1
    <3> QED BY <3>2
  <2>5. CASE t \in Commands /\ Start(t)
    <3>1. vm' = vm \/ vm' = [vm EXCEPT ![t].state = "running"]
      BY <2>5 DEF Start
    <3>2. vm'[v].state = "running"
      BY <1>1, <3>1 DEF VmType
    <3> QED BY <3>2
  <2>6. CASE Materialize(t) \/ Probe(t) \/ WriteIntent(t) \/ WriteCreated(t)
    BY <1>1, <2>6, Zenon DEF Materialize, Probe, WriteIntent, WriteCreated
  <2>7. CASE Identify(t) \/ WriteIdentity(t) \/ Authorize(t) \/ WriteActive(t)
    BY <1>1, <2>7, Zenon DEF Identify, WriteIdentity, Authorize, WriteActive
  <2>8. CASE ExecSettles(t) \/ Complete(t) \/ Completing(t) \/ WriteIdle(t)
    BY <1>1, <2>8, Zenon DEF ExecSettles, Complete, Completing, WriteIdle
  <2>9. CASE CloseNext(t) \/ First(t) \/ AwaitFinished(t) \/ Second(t)
    BY <1>1, <2>9, Zenon DEF CloseNext, First, AwaitFinished, Second
  <2> QED BY <1>3, <2>1, <2>2, <2>3, <2>4, <2>5, <2>6, <2>7, <2>8, <2>9 DEF TaskStep
<1>4. ASSUME NEW c \in Commands, Exec(c) \/ VmExits(c) \/ \E a \in Agents : Acquire(c, a)
      PROVE  FALSE
  <2>1. CASE VmExits(c)
    <3>1. vm'[v] = vm[v] \/ vm'[v].state = "exited"
      BY <1>1, <2>1 DEF VmExits, VmType
    <3> QED BY <3>1
  <2> QED BY <1>1, <1>4, <2>1, Zenon DEF Exec, Acquire
<1>5. ASSUME NEW t \in Admins,
             \/ BeginClose(t) \/ \E a \in Agents, kind \in AdminKinds : BeginAdmin(t, kind, a)
      PROVE  FALSE
  BY <1>1, <1>5, Zenon DEF BeginClose, BeginAdmin
<1>6. CASE OpenZone \/ ChangeMaterial
  BY <1>1, <1>6, Zenon DEF OpenZone, ChangeMaterial
<1>7. CASE Crash
  <2>1. vm'[v].state = "running"
    BY <1>7, CrashVms
  <2> QED BY <2>1
<1>8. CASE Recovered \/ \E a \in Agents : RecoverRecord(a)
  BY <1>8, Zenon DEF Recovered, RecoverRecord
<1> QED BY <1>3, <1>4, <1>5, <1>6, <1>7, <1>8 DEF Next

\* The call that terminates a VM under a running command is a forced retirement.
LEMMA Interrupts ==
  ASSUME RuntimeInv, Next, NEW v \in Commands, NEW c \in Executing(v),
         vm[v].state = "running", vm'[v].state = "gone"
  PROVE  \E t \in Admins : /\ task[t].kind = "force-retire" /\ task[t].stage = "terminating"
                           /\ task[t].vm = v
<1>1. /\ CallsInv /\ MachinesInv /\ EffectsInv /\ c \in Commands /\ c \in Tasks /\ v # None /\ c # None
      /\ task[c].exec = "running" /\ task[c].vm = v
  BY TaskIsEither DEF RuntimeInv, Executing
<1>2. task[c].stage = "held" /\ HeldOk(c)
  BY <1>1 DEF CallsInv, CallShape, EffectsInv
<1>3. up
  BY <1>1, <1>2 DEF CallsInv, DownIsIdle
<1>4. PICK t \in Tasks : task[t].vm = v /\ (At(t, "terminating") \/ At(t, "containing"))
  BY <1>1, <1>3, VmEnds
<1>5. /\ WorkOk(t) /\ CallShape(t) /\ MachineOk(v) /\ task[t].stage \in {"terminating", "containing"}
      /\ t # c /\ task[t].stage \in Working
  BY <1>1, <1>2, <1>4 DEF MachinesInv, CallsInv, At, Working
<1>6. vm[v].agent = task[t].agent /\ task[t].agent \notin unsafe
  BY <1>1, <1>4, <1>5 DEF WorkOk, MachineOk
<1>7. live[task[t].agent].vm = v /\ live[task[t].agent].active = c
  BY <1>1, <1>2, <1>6 DEF HeldOk
<1>8. task[t].stage = "terminating"
  BY <1>1, <1>5, <1>7 DEF WorkOk
<1>9. CASE t \in Commands
  <2>1. task[t].kind = "acquire"
    BY <1>1, <1>5, <1>7, <1>9 DEF WorkOk, CallShape
  <2>2. Acquiring(t)
    BY <1>5, <2>1 DEF Acquiring, InLock
  <2> QED BY <1>1, <1>5, <1>7, <1>9, <2>2 DEF MachinesInv, AcquiresAlone
<1>10. CASE t \in Admins
  <2>1. task[t].kind = "force-retire"
    BY <1>1, <1>5, <1>7, <1>10 DEF EffectsInv, WaitOk
  <2> QED BY <1>4, <1>8, <1>10, <2>1
<1> QED BY <1>9, <1>10, TaskIsEither

\* Of all calls only an operator's forced retirement terminates a VM under a running
\* command: the reaper, an invalidation, another command and closeZone have waited.
THEOREM CommandsUninterrupted == Spec => OnlyForceInterruptsCommands
<1>1. RuntimeInv /\ [Next]_vars =>
        [\A v \in Commands :
           Executing(v) # {} /\ vm[v].state = "running" /\ vm'[v].state = "gone" =>
             \E t \in Admins : task[t].kind = "force-retire" /\ task[t].stage = "terminating"
                                 /\ task[t].vm = v]_vars
  BY Interrupts
<1> QED BY <1>1, RuntimeCorrect, PTL DEF Spec, OnlyForceInterruptsCommands
=============================================================================
