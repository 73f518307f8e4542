---------------------- MODULE ControlSessionDispatcher ----------------------
(***************************************************************************)
(* The dispatcher of a controller's end of a control session               *)
(* (control-session-dispatcher.ts): commands are delivered, and delivered  *)
(* again when their answer was lost; the results of the last ones are kept *)
(* for a time so that a duplicate does not execute again; mutations go to  *)
(* the semantic ledger (SemanticResultLedger) instead, after the session   *)
(* they came with has been looked at twice.                                *)
(*                                                                         *)
(* Abstractions.  An execution has the name of the delivery that started   *)
(* it.  The clock is a small counter; a delivery that is refused at once,  *)
(* for an envelope of another session, is not an action.                   *)
(***************************************************************************)
EXTENDS Integers, FiniteSets

CONSTANTS
  Deliveries,  \* numbered in the order of arrival
  Commands,
  Mutations,   \* the commands prepareSemanticMutation prepares
  Sessions,    \* 1 .. n, accepted one after the other
  Ttl,         \* dedupeWindowTtlMs
  MaxCached,   \* dedupeWindowMessages
  MaxTime

VARIABLES
  now,
  accepted,   \* acceptedSessionByPeer: the session, 0 before the first
  cache,      \* completedCommandCache: the entries, numbered as they were inserted
  delivery,   \* each delivery: its command and session, and how far it is
  run         \* each execution: when it started and how it is

vars == <<now, accepted, cache, delivery, run>>

NoDelivery == [at |-> "out", command |-> "none", session |-> 0]
NoRun == [is |-> "none", since |-> 0]

Init ==
  /\ now = 0 /\ accepted = 0 /\ cache = {}
  /\ delivery = [d \in Deliveries |-> NoDelivery]
  /\ run = [d \in Deliveries |-> NoRun]

\* The executions, and those of a command.
Executions == {d \in Deliveries : run[d].is # "none"}
RunsOf(c) == {d \in Deliveries : delivery[d].command = c /\ run[d].is # "none"}

-----------------------------------------------------------------------------
(* The session fence, and the first half of dispatch                       *)

AcceptSession(s) ==
  /\ s > accepted /\ accepted' = s
  /\ UNCHANGED <<now, cache, delivery, run>>

\* An envelope of the accepted session passes validation; the dispatch then
\* awaits prepareSemanticMutation.
Deliver(d, c) ==
  /\ delivery[d].at = "out" /\ accepted # 0
  /\ \A e \in Deliveries : e < d => delivery[e].at # "out"
  /\ delivery' = [delivery EXCEPT ![d] = [at |-> "preparing", command |-> c, session |-> accepted]]
  /\ UNCHANGED <<now, accepted, cache, run>>

\* Mutant: the session is not looked at again after the await.
StillTrusted(d) == TRUE

StillAccepted(d) == delivery[d].session = accepted

Mutate(d) ==
  /\ delivery[d].at = "preparing" /\ delivery[d].command \in Mutations
  /\ delivery' = [delivery EXCEPT ![d].at = IF StillAccepted(d) THEN "ledger" ELSE "refused"]
  /\ UNCHANGED <<now, accepted, cache, run>>

-----------------------------------------------------------------------------
(* The window of results                                                   *)

Fresh(e) == now - e.since <= Ttl
Unexpired(entries) == {e \in entries : Fresh(e)}

\* Mutant: old results are dropped, never too many.
DropsOldOnly(entries) == Unexpired(entries)

\* The entries that were inserted after e.
Newer(entries, e) == {f \in entries : f.nth > e.nth}

\* pruneCompletedControlCommandCache: the expired, then the oldest.
Pruned(entries) ==
  {e \in Unexpired(entries) : Cardinality(Newer(Unexpired(entries), e)) < MaxCached}

Forgotten(c) == {e \in cache : e.command # c}
Cached(c) == {e \in cache : e.command = c}

\* A result that is cached, or will be: the delivery waits for that execution.
Replay(d) ==
  LET c == delivery[d].command IN
  /\ delivery[d].at = "preparing" /\ c \notin Mutations
  /\ \E e \in Cached(c) : Fresh(e)
  /\ delivery' = [delivery EXCEPT ![d].at = "replayed"]
  /\ UNCHANGED <<now, accepted, cache, run>>

\* A result that is too old is dropped, and the duplicate refused.
Expired(d) ==
  LET c == delivery[d].command IN
  /\ delivery[d].at = "preparing" /\ c \notin Mutations
  /\ \E e \in Cached(c) : ~Fresh(e)
  /\ cache' = Forgotten(c)
  /\ delivery' = [delivery EXCEPT ![d].at = "refused"]
  /\ UNCHANGED <<now, accepted, run>>

\* Mutant: an execution is recorded when it has ended.
RecordsLate(c) == Pruned(cache)

Entry(c) == [command |-> c, since |-> now, nth |-> Cardinality(Executions)]

Recorded(c) == Pruned(Pruned(cache) \cup {Entry(c)})

Execute(d) ==
  LET c == delivery[d].command IN
  /\ delivery[d].at = "preparing" /\ c \notin Mutations
  /\ Cached(c) = {}
  /\ cache' = Recorded(c)
  /\ delivery' = [delivery EXCEPT ![d].at = "executing"]
  /\ run' = [run EXCEPT ![d] = [is |-> "running", since |-> now]]
  /\ UNCHANGED <<now, accepted>>

\* The handler returns, a failure it could put into words included.
Returns(d) ==
  /\ run[d].is = "running"
  /\ run' = [run EXCEPT ![d].is = "returned"]
  /\ delivery' = [delivery EXCEPT ![d].at = "answered"]
  /\ UNCHANGED <<now, accepted, cache>>

\* An execution that throws takes the command out of the window.
Throws(d) ==
  /\ run[d].is = "running"
  /\ run' = [run EXCEPT ![d].is = "thrown"]
  /\ delivery' = [delivery EXCEPT ![d].at = "answered"]
  /\ cache' = Forgotten(delivery[d].command)
  /\ UNCHANGED <<now, accepted>>

Tick ==
  /\ now < MaxTime
  /\ now' = now + 1
  /\ UNCHANGED <<accepted, cache, delivery, run>>

Next ==
  \/ \E s \in Sessions : AcceptSession(s)
  \/ \E d \in Deliveries : \/ \E c \in Commands : Deliver(d, c)
                           \/ Mutate(d) \/ Replay(d) \/ Expired(d) \/ Execute(d)
                           \/ Returns(d) \/ Throws(d)
  \/ Tick

Spec == Init /\ [][Next]_vars

-----------------------------------------------------------------------------
(* Properties                                                              *)

\* The cache, the deliveries and the runs of commands have their types.
TypeOK ==
  /\ now \in 0 .. MaxTime /\ accepted \in Sessions \cup {0}
  /\ cache \subseteq [command : Commands \ Mutations, since : 0 .. MaxTime, nth : Nat]
  /\ Cardinality(cache) <= MaxCached
  /\ delivery \in [Deliveries ->
       [at : {"out", "preparing", "ledger", "refused", "replayed", "executing", "answered"},
        command : Commands \cup {"none"}, session : Sessions \cup {0}]]
  /\ run \in [Deliveries -> [is : {"none", "running", "returned", "thrown"}, since : 0 .. MaxTime]]

\* The other commands since execution e, and whether they are so many that it left
\* the window.
Crowd(e) == {c \in Commands \ {delivery[e].command} :
               \E f \in RunsOf(c) : run[f].since >= run[e].since}
CrowdedOut(e) == Cardinality(Crowd(e)) >= MaxCached

\* Whether an earlier execution of the same command threw, and took its record.
TakenByFailure(e) ==
  \E f \in RunsOf(delivery[e].command) \ {e} : run[f].is = "thrown" /\ run[f].since <= run[e].since

Starts(d) == run[d].is = "none" /\ run'[d].is = "running"

\* A command starts again only when no execution of it that runs or has returned
\* started within the window: duplicates that arrive together, or while the first
\* one is still executing, share one execution.  The exceptions are MaxCached other
\* commands in between, and an earlier execution whose late failure takes the
\* record of the one that replaced it.  And a mutation reaches the ledger only from
\* the session that is the accepted one at that time, whatever was accepted during
\* the await.
DispatchesOnce ==
  \A d \in Deliveries :
    /\ Starts(d) =>
         \A e \in RunsOf(delivery[d].command) :
           \/ run[e].is = "thrown" \/ now - run[e].since > Ttl
           \/ CrowdedOut(e) \/ TakenByFailure(e)
    /\ delivery[d].at # "ledger" /\ delivery'[d].at = "ledger" => delivery[d].session = accepted
=============================================================================
