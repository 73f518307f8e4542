------------------------ MODULE SemanticResultLedger ------------------------
(***************************************************************************)
(* The semantic result ledger of a Gateway epoch                           *)
(* (controller/control-session/gateway-semantic-result-ledger.ts), which   *)
(* the control session dispatcher puts in front of every mutating command. *)
(* A command may reach the controller any number of times, late, and while *)
(* its first delivery is still being handled.                              *)
(*                                                                         *)
(* A command is its correlation key (command id, idempotency key and       *)
(* principal scope), its meaning (operation, target, profile and digest of *)
(* the payload) and validUntilMs.  The two keys are injective renderings   *)
(* of those parts, so they are values here.  A command for another Gateway *)
(* or with a validity beyond the window is refused before anything is      *)
(* read and is no step.  An order number of 0 marks an absent map entry;   *)
(* the code keeps the keys of a Map in insertion order, which is the order *)
(* of the numbers.  The clock never goes back.                             *)
(***************************************************************************)
EXTENDS Naturals, FiniteSets

CONSTANTS
  Keys,               \* correlation keys
  Meanings,           \* meaning keys
  NoMeaning,          \* the meaning of an absent entry
  ValidUntils,        \* the validity ends a command may carry
  ActiveWindow,       \* activeWindowMs
  TombstoneTtl,       \* tombstoneTtlMs
  ActiveCapacity,     \* activeCapacity
  TombstoneCapacity,  \* tombstoneCapacity
  MaxTime,            \* bound of the clock
  MaxRuns             \* bound of the number of handler runs

\* requirePositiveInteger of the four options.  The last conjunct holds of the
\* defaults (10 minutes and 1 hour), which the only caller uses.
ASSUME LedgerAssumption ==
  /\ IsFiniteSet(Keys)
  /\ ValidUntils \subseteq Nat
  /\ ActiveWindow \in Nat \ {0}
  /\ TombstoneTtl \in Nat \ {0}
  /\ ActiveCapacity \in Nat \ {0}
  /\ TombstoneCapacity \in Nat \ {0}
  /\ MaxTime \in Nat
  /\ MaxRuns \in Nat
  /\ TombstoneTtl >= ActiveWindow

VARIABLES
  now,        \* nowMs()
  ledger,     \* activeEntries and tombstones
  nextOrder,  \* the order number of the next entry
  running,    \* the runs whose handler has not settled
  run,        \* what each run was started with, and when
  verdict     \* the last answer given about each run

vars == <<now, ledger, nextOrder, running, run, verdict>>

-----------------------------------------------------------------------------
Runs == 1..MaxRuns
Command == [key : Keys, meaning : Meanings, validUntil : ValidUntils]
Statuses == {"pending", "completed", "unknown_side_effect"}
Verdicts == {"none", "completed", "unknown_side_effect"}

NoEntry == [order |-> 0, deadline |-> 0, meaning |-> NoMeaning, status |-> "pending"]
NoTombstone == [order |-> 0, expiresAt |-> 0, meaning |-> NoMeaning]

ActiveEntry ==
  [order : 0..MaxRuns, deadline : Nat, meaning : Meanings \cup {NoMeaning}, status : Statuses]
Tombstone == [order : 0..MaxRuns, expiresAt : Nat, meaning : Meanings \cup {NoMeaning}]
NoRun == [key |-> NoMeaning, validUntil |-> 0, at |-> 0]

Present(table) == {k \in Keys : table[k].order # 0}
Min2(a, b) == IF a <= b THEN a ELSE b

-----------------------------------------------------------------------------
(* The two tables.                                                         *)

PruneExpiredTombstones(l) ==
  [l EXCEPT !.tombstones =
     [k \in Keys |-> IF @[k].expiresAt <= now THEN NoTombstone ELSE @[k]]]

\* Mutant: a tombstone lives as long as the command was valid.
TombstoneUntilDeadline(entry) ==
  [order |-> entry.order, expiresAt |-> entry.deadline, meaning |-> entry.meaning]

TombstoneOf(entry) ==
  [order |-> entry.order, expiresAt |-> now + TombstoneTtl, meaning |-> entry.meaning]

Moved(l, moving) ==
  [active |-> [k \in Keys |-> IF k \in moving THEN NoEntry ELSE l.active[k]],
   tombstones |-> [k \in Keys |-> IF k \in moving THEN TombstoneOf(l.active[k])
                                                  ELSE l.tombstones[k]]]

TombstoneRoom(l) == Cardinality(Present(l.tombstones)) < TombstoneCapacity

\* Mutant: the entry goes even if no tombstone can take its place.
DropActiveEntry(l, k) ==
  IF TombstoneRoom(l) THEN Moved(l, {k})
                      ELSE [l EXCEPT !.active[k] = NoEntry]

MoveActiveEntryToTombstone(l, k) == IF TombstoneRoom(l) THEN Moved(l, {k}) ELSE l

\* The entries whose deadline has passed, as far as there is room for their
\* tombstones, the first inserted ones first.
Due(l) == {k \in Present(l.active) : l.active[k].deadline <= now}

\* Mutant: every due entry moves.
AllDue(l) == Due(l)

DueWithRoom(l) ==
  {k \in Due(l) :
     Cardinality({j \in Due(l) : l.active[j].order < l.active[k].order})
       + Cardinality(Present(l.tombstones)) < TombstoneCapacity}

PruneAt(l) ==
  LET kept == PruneExpiredTombstones(l)
  IN  Moved(kept, DueWithRoom(kept))

Oldest(l) ==
  CHOOSE k \in Present(l.active) :
    \A j \in Present(l.active) : l.active[k].order <= l.active[j].order

Full(l) == Cardinality(Present(l.active)) >= ActiveCapacity

\* reserveActiveCapacity: the ledger it leaves, whether it succeeds or not.
ReserveActiveCapacity(l) ==
  LET pruned == PruneAt(l)
  IN  IF Full(pruned) THEN MoveActiveEntryToTombstone(pruned, Oldest(pruned)) ELSE pruned

-----------------------------------------------------------------------------
Init ==
  /\ now = 0
  /\ ledger = [active |-> [k \in Keys |-> NoEntry], tombstones |-> [k \in Keys |-> NoTombstone]]
  /\ nextOrder = 1
  /\ running = {}
  /\ run = [o \in Runs |-> NoRun]
  /\ verdict = [o \in Runs |-> "none"]

(* executeMutating, one action for each way it goes.                       *)

\* What executeMutating has done when it looks for the command.
Looked(c, l) ==
  /\ c.validUntil <= now + ActiveWindow
  /\ l = PruneExpiredTombstones(ledger)

AnswersAbout(o, answer) == verdict' = [verdict EXCEPT ![o] = answer]

\* A tombstone has the key: its run may or may not have had its effect.
TombstoneAnswers(c) ==
  \E l \in {PruneExpiredTombstones(ledger)} :
    /\ Looked(c, l)
    /\ l.tombstones[c.key].order # 0
    /\ ledger' = l
    /\ IF l.tombstones[c.key].meaning = c.meaning
       THEN AnswersAbout(l.tombstones[c.key].order, "unknown_side_effect")
       ELSE UNCHANGED verdict
    /\ UNCHANGED <<now, nextOrder, running, run>>

\* An entry has the key: a caller is refused, answered or joins the promise
\* that the run settles.
EntryAnswers(c) ==
  \E l \in {PruneExpiredTombstones(ledger)} :
    LET entry == l.active[c.key] IN
    /\ Looked(c, l)
    /\ l.tombstones[c.key].order = 0
    /\ entry.order # 0
    /\ \/ /\ \/ entry.meaning # c.meaning
             \/ entry.meaning = c.meaning /\ entry.deadline > now /\ entry.status = "pending"
          /\ ledger' = l
          /\ UNCHANGED verdict
       \/ /\ entry.meaning = c.meaning
          /\ entry.deadline <= now
          /\ ledger' = MoveActiveEntryToTombstone(l, c.key)
          /\ AnswersAbout(entry.order, "unknown_side_effect")
       \/ /\ entry.meaning = c.meaning
          /\ entry.deadline > now
          /\ entry.status # "pending"
          /\ ledger' = l
          /\ AnswersAbout(entry.order, entry.status)
    /\ UNCHANGED <<now, nextOrder, running, run>>

\* Neither table has the key and the command is too old, or neither an entry
\* nor a tombstone can be made room for.
Refuses(c) ==
  \E l \in {PruneExpiredTombstones(ledger)} :
    /\ Looked(c, l)
    /\ l.tombstones[c.key].order = 0
    /\ l.active[c.key].order = 0
    /\ \/ c.validUntil <= now /\ ledger' = l
       \/ /\ c.validUntil > now
          /\ Full(ReserveActiveCapacity(l))
          /\ ledger' = ReserveActiveCapacity(l)
    /\ UNCHANGED <<now, nextOrder, running, run, verdict>>

NewEntry(c) ==
  [order |-> nextOrder, deadline |-> Min2(c.validUntil, now + ActiveWindow),
   meaning |-> c.meaning, status |-> "pending"]

\* The handler is started.
Executes(c) ==
  \E l \in {PruneExpiredTombstones(ledger)} :
    /\ nextOrder <= MaxRuns
    /\ Looked(c, l)
    /\ l.tombstones[c.key].order = 0
    /\ l.active[c.key].order = 0
    /\ c.validUntil > now
    /\ ~Full(ReserveActiveCapacity(l))
    /\ ledger' = [ReserveActiveCapacity(l) EXCEPT !.active[c.key] = NewEntry(c)]
    /\ nextOrder' = nextOrder + 1
    /\ running' = running \cup {nextOrder}
    /\ run' = [run EXCEPT ![nextOrder] =
                 [key |-> c.key, validUntil |-> c.validUntil, at |-> now]]
    /\ UNCHANGED <<now, verdict>>

-----------------------------------------------------------------------------
(* A handler settles.                                                      *)

EntryOf(o) == ledger.active[run[o].key]

\* Mutant: whatever entry has the key is taken for the run's own.
IsAnyEntry(o) == EntryOf(o).order # 0

\* activeEntries.get(correlationKey) === entry
IsOwnEntry(o) == EntryOf(o).order = o

Marked(o, status) == [ledger EXCEPT !.active[run[o].key].status = status]

MarkedUnknown(o) ==
  MoveActiveEntryToTombstone(Marked(o, "unknown_side_effect"), run[o].key)

\* Mutant: a handler that returns late has completed.
HandlerReturnsLate(o) ==
  /\ running' = running \ {o}
  /\ IF IsOwnEntry(o) /\ EntryOf(o).status = "pending"
     THEN ledger' = Marked(o, "completed") /\ AnswersAbout(o, "completed")
     ELSE UNCHANGED ledger /\ AnswersAbout(o, "unknown_side_effect")
  /\ UNCHANGED <<now, nextOrder, run>>

HandlerReturns(o) ==
  /\ running' = running \ {o}
  /\ \/ /\ IsOwnEntry(o) => EntryOf(o).status # "pending"
        /\ UNCHANGED ledger
        /\ AnswersAbout(o, "unknown_side_effect")
     \/ /\ IsOwnEntry(o) /\ EntryOf(o).status = "pending"
        /\ EntryOf(o).deadline <= now
        /\ ledger' = MarkedUnknown(o)
        /\ AnswersAbout(o, "unknown_side_effect")
     \/ /\ IsOwnEntry(o) /\ EntryOf(o).status = "pending"
        /\ EntryOf(o).deadline > now
        /\ ledger' = Marked(o, "completed")
        /\ AnswersAbout(o, "completed")
  /\ UNCHANGED <<now, nextOrder, run>>

HandlerThrows(o) ==
  /\ running' = running \ {o}
  /\ ledger' = IF IsOwnEntry(o) THEN MarkedUnknown(o) ELSE ledger
  /\ AnswersAbout(o, "unknown_side_effect")
  /\ UNCHANGED <<now, nextOrder, run>>

-----------------------------------------------------------------------------
Prune ==
  /\ ledger' = PruneAt(ledger)
  /\ UNCHANGED <<now, nextOrder, running, run, verdict>>

Tick ==
  /\ now < MaxTime
  /\ now' = now + 1
  /\ UNCHANGED <<ledger, nextOrder, running, run, verdict>>

ExecuteMutating(c) == TombstoneAnswers(c) \/ EntryAnswers(c) \/ Refuses(c) \/ Executes(c)

Next ==
  \/ \E c \in Command : ExecuteMutating(c)
  \/ \E o \in running : HandlerReturns(o) \/ HandlerThrows(o)
  \/ Prune
  \/ Tick

Spec == Init /\ [][Next]_vars

-----------------------------------------------------------------------------
(* Properties.                                                             *)

\* Type correctness of the ledger and of the history of its runs.
TypeOK ==
  /\ now \in Nat
  /\ ledger \in [active : [Keys -> ActiveEntry], tombstones : [Keys -> Tombstone]]
  /\ nextOrder \in 1..(MaxRuns + 1)
  /\ running \subseteq 1..(nextOrder - 1)
  /\ run \in [Runs -> [key : Keys \cup {NoMeaning}, validUntil : Nat, at : Nat]]
  /\ verdict \in [Runs -> Verdicts]

Started == 1..(nextOrder - 1)

\* A command is executed at most once, whatever its retries, the pressure on
\* the tables and the time its handler takes (executeMutating).
AtMostOnce ==
  \A o, p \in Started :
    run[o].key = run[p].key /\ run[o].validUntil = run[p].validUntil => o = p

\* Two runs of commands with one correlation key, refreshed ones included, are
\* a tombstone's lifetime apart: no eviction and no pruning forgets a run
\* earlier (moveActiveEntryToTombstone, pruneExpiredTombstones).
RunsAreSpaced ==
  \A o, p \in Started :
    o < p /\ run[o].key = run[p].key => run[p].at >= run[o].at + TombstoneTtl

\* Once a caller was told that the effect of a run is unknown, no caller is
\* told that the run completed: the handler's late return does not overrule an
\* eviction, a deadline or a failure that was reported (executeMutating).
UnknownIsFinal ==
  [][\A o \in Runs : verdict[o] = "unknown_side_effect" => verdict'[o] = verdict[o]]_vars

\* The entry of a run is completed by the handler of that run, never by the
\* late handler of an earlier run with the same key (executeMutating).
CompletedByItsOwnHandler ==
  \A k \in Keys :
    ledger.active[k].status = "completed" => ledger.active[k].order \notin running

\* Neither table outgrows its capacity, no run is in both, and what they say is of
\* the run they name (reserveActiveCapacity, pruneAt, executeMutating).
TablesAreSound ==
  /\ TypeOK
  /\ CompletedByItsOwnHandler
  /\ Cardinality(Present(ledger.active)) <= ActiveCapacity
  /\ Cardinality(Present(ledger.tombstones)) <= TombstoneCapacity
  /\ \A k \in Keys : ledger.active[k].order = 0 \/ ledger.tombstones[k].order = 0
=============================================================================
