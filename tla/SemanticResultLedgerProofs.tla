--------------------- MODULE SemanticResultLedgerProofs ---------------------
(***************************************************************************)
(* Theorems about the semantic result ledger, for every set of keys,       *)
(* meanings and validity ends, every window, lifetime and capacity, and    *)
(* any number of retries, runs and ticks.                                  *)
(***************************************************************************)
EXTENDS SemanticResultLedger, FiniteSetTheorems, WellFoundedInduction, TLAPS

-----------------------------------------------------------------------------
(* What the table operations may do to a key.                              *)

LedgerType == [active : [Keys -> ActiveEntry], tombstones : [Keys -> Tombstone]]

\* The entry and the tombstone of key k stay, the tombstone expires, or the
\* entry becomes a tombstone.
KeyKept(l, m, k) ==
  \/ m.active[k] = l.active[k] /\ m.tombstones[k] = l.tombstones[k]
  \/ /\ m.active[k] = l.active[k]
     /\ l.tombstones[k].expiresAt <= now
     /\ m.tombstones[k] = NoTombstone
  \/ /\ l.active[k].order # 0
     /\ m.active[k] = NoEntry
     /\ m.tombstones[k] = TombstoneOf(l.active[k])

Keeps(l, m) == m \in LedgerType /\ \A k \in Keys : KeyKept(l, m, k)

\* NoEntry and NoTombstone are values of the tables.
LEMMA AbsentTyped ==
  /\ NoEntry \in ActiveEntry /\ NoEntry.order = 0 /\ NoEntry.status = "pending"
  /\ NoTombstone \in Tombstone /\ NoTombstone.order = 0
BY LedgerAssumption DEF NoEntry, NoTombstone, ActiveEntry, Tombstone, Statuses

\* moveActiveEntryToTombstone stamps a tombstone that outlives this instant.
LEMMA TombstoneTyped ==
  ASSUME now \in Nat, NEW e \in ActiveEntry
  PROVE  /\ TombstoneOf(e) \in Tombstone
         /\ TombstoneOf(e).order = e.order
         /\ TombstoneOf(e).expiresAt = now + TombstoneTtl
         /\ TombstoneOf(e).expiresAt > now
BY LedgerAssumption DEF TombstoneOf, Tombstone, ActiveEntry

\* Two table operations in one tick keep what each of them keeps.
LEMMA KeepsTransitive ==
  ASSUME now \in Nat, NEW l \in LedgerType, NEW m \in LedgerType, NEW n \in LedgerType,
         Keeps(l, m), Keeps(m, n)
  PROVE  Keeps(l, n)
<1> SUFFICES ASSUME NEW k \in Keys PROVE KeyKept(l, n, k)
  BY DEF Keeps
<1>1. KeyKept(l, m, k) /\ KeyKept(m, n, k)
  BY DEF Keeps
<1>2. l.active[k] \in ActiveEntry /\ m.active[k] \in ActiveEntry
  BY DEF LedgerType
<1>3. TombstoneOf(l.active[k]).expiresAt > now
  BY <1>2, TombstoneTyped
<1>4. (TombstoneOf(l.active[k]).expiresAt <= now) = FALSE
  BY <1>2, TombstoneTyped, LedgerAssumption
<1> QED BY <1>1, <1>2, <1>4, AbsentTyped DEF KeyKept

\* pruneExpiredTombstones
LEMMA PruneExpiredKeeps ==
  ASSUME now \in Nat, NEW l \in LedgerType
  PROVE  Keeps(l, PruneExpiredTombstones(l))
<1> DEFINE m == PruneExpiredTombstones(l)
<1>1. m.active = l.active
  BY DEF PruneExpiredTombstones, LedgerType
<1>2. m.tombstones = [k \in Keys |-> IF l.tombstones[k].expiresAt <= now
                                      THEN NoTombstone ELSE l.tombstones[k]]
  BY DEF PruneExpiredTombstones, LedgerType
<1>3. m \in LedgerType
  BY AbsentTyped DEF PruneExpiredTombstones, LedgerType
<1> QED BY <1>1, <1>2, <1>3 DEF Keeps, KeyKept

\* Entries that are present become tombstones.
LEMMA MovedKeeps ==
  ASSUME now \in Nat, NEW l \in LedgerType, NEW moving \in SUBSET Present(l.active)
  PROVE  Keeps(l, Moved(l, moving))
<1> DEFINE m == Moved(l, moving)
<1>1. m.active = [k \in Keys |-> IF k \in moving THEN NoEntry ELSE l.active[k]]
  BY DEF Moved
<1>2. m.tombstones = [k \in Keys |-> IF k \in moving THEN TombstoneOf(l.active[k])
                                                     ELSE l.tombstones[k]]
  BY DEF Moved
<1>3. \A k \in Keys : l.active[k] \in ActiveEntry /\ TombstoneOf(l.active[k]) \in Tombstone
  BY TombstoneTyped DEF LedgerType
<1>4. m \in LedgerType
  BY <1>3, AbsentTyped DEF Moved, LedgerType
<1> QED BY <1>1, <1>2, <1>4 DEF Keeps, KeyKept, Present

\* moveActiveEntryToTombstone of a key that has an entry
LEMMA MoveKeeps ==
  ASSUME now \in Nat, NEW l \in LedgerType, NEW k \in Present(l.active)
  PROVE  Keeps(l, MoveActiveEntryToTombstone(l, k))
<1>1. Keeps(l, Moved(l, {k}))
  BY MovedKeeps
<1>2. Keeps(l, l)
  BY DEF Keeps, KeyKept
<1> QED BY <1>1, <1>2 DEF MoveActiveEntryToTombstone

\* pruneAt
LEMMA PruneAtKeeps ==
  ASSUME now \in Nat, NEW l \in LedgerType
  PROVE  Keeps(l, PruneAt(l))
<1> DEFINE kept == PruneExpiredTombstones(l)
<1>1. Keeps(l, kept) /\ kept \in LedgerType
  BY PruneExpiredKeeps DEF Keeps
<1>2. DueWithRoom(kept) \in SUBSET Present(kept.active)
  BY DEF DueWithRoom, Due
<1>3. Keeps(kept, Moved(kept, DueWithRoom(kept)))
  BY <1>1, <1>2, MovedKeeps
<1> QED BY <1>1, <1>3, KeepsTransitive DEF PruneAt, Keeps

\* A set of numbers that is not empty has a least one.
LEMMA LeastNat ==
  ASSUME NEW T, T \subseteq Nat, T # {}
  PROVE  \E x \in T : \A y \in T : x <= y
<1>1. PICK x \in T : \A y \in T : ~(<<y, x>> \in OpToRel(<, Nat))
  BY WFMin, NatLessThanWellFounded
<1> DEFINE R == OpToRel(<, Nat)
<1>2. R = {s \in Nat \X Nat : s[1] < s[2]}
  BY DEF OpToRel
<1>3. \A y \in Nat : y < x /\ x \in Nat => <<y, x>> \in R
  <2> SUFFICES ASSUME NEW y \in Nat, y < x, x \in Nat PROVE <<y, x>> \in R
    OBVIOUS
  <2>1. <<y, x>> \in {s \in Nat \X Nat : s[1] < s[2]}
    OBVIOUS
  <2> QED BY <1>2, <2>1
<1>4. \A y \in T : <<y, x>> \notin R
  BY <1>1
<1> HIDE DEF R
<1>5. x \in Nat /\ \A y \in T : y \in Nat
  OBVIOUS
<1>6. \A y \in T : ~(y < x)
  BY <1>3, <1>4, <1>5, Zenon
<1>7. \A y \in T : x <= y
  BY <1>5, <1>6
<1> QED BY <1>7

\* A full table has an oldest entry.
LEMMA OldestPresent ==
  ASSUME NEW l \in LedgerType, Full(l)
  PROVE  Oldest(l) \in Present(l.active)
<1> DEFINE T == {l.active[k].order : k \in Present(l.active)}
<1>1. IsFiniteSet(Present(l.active))
  BY LedgerAssumption, FS_Subset DEF Present
<1>2. Present(l.active) # {}
  BY <1>1, FS_EmptySet, LedgerAssumption DEF Full
<1>3. \A k \in Present(l.active) : l.active[k].order \in Nat
  BY LedgerAssumption DEF Present, LedgerType, ActiveEntry
<1>4. T \subseteq Nat /\ T # {}
  BY <1>2, <1>3
<1>5. \E x \in T : \A y \in T : x <= y
  BY <1>4, LeastNat
<1>6. \E k \in Present(l.active) : \A j \in Present(l.active) :
        l.active[k].order <= l.active[j].order
  BY <1>5
<1> QED BY <1>6 DEF Oldest

\* reserveActiveCapacity
LEMMA ReserveKeeps ==
  ASSUME now \in Nat, NEW l \in LedgerType
  PROVE  Keeps(l, ReserveActiveCapacity(l))
<1> DEFINE pruned == PruneAt(l)
<1>1. Keeps(l, pruned) /\ pruned \in LedgerType
  BY PruneAtKeeps DEF Keeps
<1>2. CASE Full(pruned)
  <2>1. Keeps(pruned, MoveActiveEntryToTombstone(pruned, Oldest(pruned)))
    BY <1>1, <1>2, OldestPresent, MoveKeeps
  <2>2. MoveActiveEntryToTombstone(pruned, Oldest(pruned)) \in LedgerType
    BY <2>1 DEF Keeps
  <2> QED BY <1>1, <1>2, <2>1, <2>2, KeepsTransitive DEF ReserveActiveCapacity
<1>3. CASE ~Full(pruned)
  BY <1>1, <1>3 DEF ReserveActiveCapacity
<1> QED BY <1>2, <1>3

-----------------------------------------------------------------------------
(* The inductive invariant.                                                *)

\* What is known of every run: it started in the past, while its command was
\* valid, and the command's validity was within the window.
RunsRecorded ==
  \A o \in Started :
    /\ run[o].key \in Keys
    /\ run[o].at <= now
    /\ run[o].at < run[o].validUntil
    /\ run[o].validUntil <= run[o].at + ActiveWindow

\* No key is in both tables.
OneTable(l) == \A k \in Keys : l.active[k].order = 0 \/ l.tombstones[k].order = 0

\* What a table holds under a key is a run of that key.
RecordsHaveRuns(l) ==
  \A k \in Keys :
    /\ l.active[k].order # 0 => l.active[k].order \in Started /\ run[l.active[k].order].key = k
    /\ l.tombstones[k].order # 0 =>
         l.tombstones[k].order \in Started /\ run[l.tombstones[k].order].key = k

\* A run is remembered for a tombstone's lifetime after it started.
Remembered(l) ==
  \A o \in Started :
    now < run[o].at + TombstoneTtl =>
      \/ l.active[run[o].key].order # 0
      \/ /\ l.tombstones[run[o].key].order # 0
         /\ l.tombstones[run[o].key].expiresAt >= run[o].at + TombstoneTtl

\* An entry whose run was reported unknown is unknown or past its deadline.
ReportedUnknown(l) ==
  \A k \in Keys :
    l.active[k].order # 0 /\ verdict[l.active[k].order] = "unknown_side_effect" =>
      l.active[k].status = "unknown_side_effect" \/ l.active[k].deadline <= now

\* CompletedByItsOwnHandler of ledger l.
CompletedSettled(l) ==
  \A k \in Keys : l.active[k].status = "completed" => l.active[k].order \notin running

Recorded(l) ==
  /\ OneTable(l)
  /\ RecordsHaveRuns(l)
  /\ Remembered(l)
  /\ ReportedUnknown(l)
  /\ CompletedSettled(l)

\* No answer was given about a run that has not started.
FutureUnjudged == \A o \in Runs : o \notin Started => verdict[o] = "none"

LedgerInv == TypeOK /\ RunsRecorded /\ RunsAreSpaced /\ FutureUnjudged /\ Recorded(ledger)

\* The parts of the type invariant that the steps below use.
LEMMA TypeFacts ==
  ASSUME TypeOK
  PROVE  /\ now \in Nat
         /\ ledger \in LedgerType
         /\ nextOrder \in Nat /\ nextOrder <= MaxRuns + 1
         /\ Started \subseteq Runs /\ Started \subseteq Nat
         /\ \A o \in Started : run[o].at \in Nat /\ run[o].validUntil \in Nat
         /\ running \subseteq Started
BY LedgerAssumption DEF TypeOK, LedgerType, Started, Runs

\* A table operation forgets no run too early.
LEMMA KeepsTables ==
  ASSUME TypeOK, RunsRecorded, NEW l \in LedgerType, NEW m, Keeps(l, m),
         OneTable(l), RecordsHaveRuns(l), Remembered(l)
  PROVE  OneTable(m) /\ RecordsHaveRuns(m) /\ Remembered(m)
<1> USE TypeFacts
<1>1. \A k \in Keys : KeyKept(l, m, k) /\ l.active[k] \in ActiveEntry /\ l.tombstones[k] \in Tombstone
  BY DEF Keeps, LedgerType
<1>2. \A k \in Keys : /\ TombstoneOf(l.active[k]).order = l.active[k].order
                      /\ TombstoneOf(l.active[k]).expiresAt = now + TombstoneTtl
  BY <1>1, TombstoneTyped
<1>3. OneTable(m)
  BY <1>1, AbsentTyped DEF OneTable, KeyKept
<1>4. RecordsHaveRuns(m)
  BY <1>1, <1>2, AbsentTyped DEF RecordsHaveRuns, KeyKept
<1>5. Remembered(m)
  <2> SUFFICES ASSUME NEW o \in Started, now < run[o].at + TombstoneTtl
               PROVE  \/ m.active[run[o].key].order # 0
                      \/ /\ m.tombstones[run[o].key].order # 0
                         /\ m.tombstones[run[o].key].expiresAt >= run[o].at + TombstoneTtl
    BY DEF Remembered
  <2> DEFINE k == run[o].key
  <2>1. k \in Keys /\ run[o].at \in Nat /\ run[o].at <= now
    BY DEF RunsRecorded
  <2>2. \/ l.active[k].order # 0
        \/ l.tombstones[k].order # 0 /\ l.tombstones[k].expiresAt >= run[o].at + TombstoneTtl
    BY DEF Remembered
  <2>3. l.tombstones[k].expiresAt \in Nat
    BY <1>1, <2>1 DEF Tombstone
  <2>4. CASE m.active[k] = l.active[k] /\ m.tombstones[k] = l.tombstones[k]
    BY <2>2, <2>4
  <2>5. CASE /\ m.active[k] = l.active[k]
             /\ l.tombstones[k].expiresAt <= now
    BY <2>1, <2>2, <2>3, <2>5, LedgerAssumption
  <2>6. CASE l.active[k].order # 0 /\ m.tombstones[k] = TombstoneOf(l.active[k])
    BY <1>2, <2>1, <2>6, LedgerAssumption
  <2> QED BY <1>1, <2>1, <2>4, <2>5, <2>6 DEF KeyKept
<1> QED BY <1>3, <1>4, <1>5

\* A table operation keeps a ledger recorded.
LEMMA KeepsRecorded ==
  ASSUME TypeOK, RunsRecorded, NEW l \in LedgerType, NEW m, Keeps(l, m), Recorded(l)
  PROVE  Recorded(m)
<1>1. \A k \in Keys : m.active[k] = l.active[k] \/ m.active[k] = NoEntry
  BY DEF Keeps, KeyKept
<1>2. ReportedUnknown(m)
  BY <1>1, AbsentTyped DEF Recorded, ReportedUnknown
<1>3. CompletedSettled(m)
  BY <1>1, AbsentTyped DEF Recorded, CompletedSettled
<1> QED BY <1>2, <1>3, KeepsTables DEF Recorded

\* What executeMutating finds after pruneExpiredTombstones.
LEMMA LookedFacts ==
  ASSUME LedgerInv
  PROVE  /\ PruneExpiredTombstones(ledger) \in LedgerType
         /\ Recorded(PruneExpiredTombstones(ledger))
         /\ ReserveActiveCapacity(PruneExpiredTombstones(ledger)) \in LedgerType
         /\ Recorded(ReserveActiveCapacity(PruneExpiredTombstones(ledger)))
         /\ Keeps(PruneExpiredTombstones(ledger),
                  ReserveActiveCapacity(PruneExpiredTombstones(ledger)))
<1> DEFINE l == PruneExpiredTombstones(ledger)
<1>1. now \in Nat /\ ledger \in LedgerType
  BY TypeFacts DEF LedgerInv
<1>2. Keeps(ledger, l) /\ l \in LedgerType
  BY <1>1, PruneExpiredKeeps DEF Keeps
<1>3. Recorded(l)
  BY <1>1, <1>2, KeepsRecorded DEF LedgerInv
<1>4. Keeps(l, ReserveActiveCapacity(l)) /\ ReserveActiveCapacity(l) \in LedgerType
  BY <1>1, <1>2, ReserveKeeps DEF Keeps
<1>5. Recorded(ReserveActiveCapacity(l))
  BY <1>2, <1>3, <1>4, KeepsRecorded DEF LedgerInv
<1> QED BY <1>2, <1>3, <1>4, <1>5

\* A step that starts no run, moves neither the clock nor the set of handlers
\* up, and leaves a recorded ledger, keeps the invariant.
LEMMA NoNewRun ==
  ASSUME LedgerInv, UNCHANGED <<now, nextOrder, run>>, running' \subseteq running,
         ledger' \in LedgerType, verdict' \in [Runs -> Verdicts],
         \A p \in Runs : p \notin Started => verdict'[p] = verdict[p],
         OneTable(ledger'), RecordsHaveRuns(ledger'), Remembered(ledger'),
         ReportedUnknown(ledger)', CompletedSettled(ledger)'
  PROVE  LedgerInv'
<1>1. TypeOK'
  BY DEF LedgerInv, TypeOK, LedgerType
<1>2. RunsRecorded' /\ RunsAreSpaced' /\ FutureUnjudged'
  BY DEF LedgerInv, RunsRecorded, RunsAreSpaced, FutureUnjudged, Started
<1>3. OneTable(ledger)' /\ RecordsHaveRuns(ledger)' /\ Remembered(ledger)'
  BY DEF OneTable, RecordsHaveRuns, Remembered, Started
<1> QED BY <1>1, <1>2, <1>3 DEF LedgerInv, Recorded

\* An answer is a verdict about one run.
LEMMA AnswerTyped ==
  ASSUME TypeOK, NEW o \in Runs, NEW answer \in Verdicts, AnswersAbout(o, answer)
  PROVE  /\ verdict' \in [Runs -> Verdicts]
         /\ verdict'[o] = answer
         /\ \A p \in Runs : p # o => verdict'[p] = verdict[p]
BY DEF TypeOK, AnswersAbout

\* An answer from a tombstone.
LEMMA TombstoneAnswersStep ==
  ASSUME LedgerInv, NEW c \in Command, TombstoneAnswers(c)
  PROVE  LedgerInv' /\ \A o \in Runs : verdict[o] = "unknown_side_effect" => verdict'[o] = verdict[o]
<1> DEFINE l == PruneExpiredTombstones(ledger)
           o == l.tombstones[c.key].order
<1>1. /\ l \in LedgerType /\ Recorded(l)
      /\ Started \subseteq Runs
  BY LookedFacts, TypeFacts DEF LedgerInv
<1>2. /\ ledger' = l /\ o # 0
      /\ AnswersAbout(o, "unknown_side_effect") \/ UNCHANGED verdict
      /\ UNCHANGED <<now, nextOrder, running, run>>
      /\ c.key \in Keys
  BY DEF TombstoneAnswers, Command
<1> HIDE DEF l
<1>3. o \in Started /\ o \in Runs /\ run[o].key = c.key
  BY <1>1, <1>2 DEF Recorded, RecordsHaveRuns
<1>4. /\ verdict' \in [Runs -> Verdicts]
      /\ \A p \in Runs : verdict'[p] = verdict[p] \/ (p = o /\ verdict'[p] = "unknown_side_effect")
  BY <1>2, <1>3, AnswerTyped DEF LedgerInv, TypeOK, Verdicts
<1>5. \A k \in Keys : l.active[k].order # 0 =>
         l.active[k].order \in Runs /\ l.active[k].order # o
  BY <1>1, <1>2, <1>3 DEF Recorded, RecordsHaveRuns, OneTable
<1>6. ReportedUnknown(ledger)'
  BY <1>1, <1>2, <1>4, <1>5 DEF Recorded, ReportedUnknown
<1>7. CompletedSettled(ledger)'
  BY <1>1, <1>2 DEF Recorded, CompletedSettled
<1>8. LedgerInv'
  BY <1>1, <1>2, <1>3, <1>4, <1>6, <1>7, NoNewRun DEF Recorded
<1> QED BY <1>4, <1>8

\* An answer from an entry, or a refusal because of it.
LEMMA EntryAnswersStep ==
  ASSUME LedgerInv, NEW c \in Command, EntryAnswers(c)
  PROVE  LedgerInv' /\ \A o \in Runs : verdict[o] = "unknown_side_effect" => verdict'[o] = verdict[o]
<1> DEFINE l == PruneExpiredTombstones(ledger)
           entry == l.active[c.key]
           o == entry.order
<1>1. /\ l \in LedgerType /\ Recorded(l)
      /\ Started \subseteq Runs /\ now \in Nat
  BY LookedFacts, TypeFacts DEF LedgerInv
<1>2. /\ o # 0
      /\ UNCHANGED <<now, nextOrder, running, run>>
      /\ c.key \in Keys
  BY DEF EntryAnswers, Command
<1>3. \/ ledger' = l /\ UNCHANGED verdict
      \/ /\ entry.deadline <= now
         /\ ledger' = MoveActiveEntryToTombstone(l, c.key)
         /\ AnswersAbout(o, "unknown_side_effect")
      \/ /\ entry.deadline > now
         /\ entry.status # "pending"
         /\ ledger' = l
         /\ AnswersAbout(o, entry.status)
  BY DEF EntryAnswers
<1> HIDE DEF l
<1>4. /\ o \in Started /\ o \in Runs /\ run[o].key = c.key /\ entry \in ActiveEntry
      /\ entry.deadline \in Nat /\ entry.status \in Statuses
  BY <1>1, <1>2 DEF Recorded, RecordsHaveRuns, LedgerType, ActiveEntry
<1>5. \A k \in Keys : k # c.key /\ l.active[k].order # 0 =>
         l.active[k].order \in Runs /\ l.active[k].order # o
  BY <1>1, <1>2, <1>4 DEF Recorded, RecordsHaveRuns
<1>6. CASE ledger' = l /\ UNCHANGED verdict
  <2>1. ReportedUnknown(ledger)' /\ CompletedSettled(ledger)'
    BY <1>1, <1>2, <1>6 DEF Recorded, ReportedUnknown, CompletedSettled
  <2>2. verdict' \in [Runs -> Verdicts]
    BY <1>6 DEF LedgerInv, TypeOK
  <2> QED BY <1>1, <1>2, <1>6, <2>1, <2>2, NoNewRun DEF Recorded
<1>7. CASE /\ entry.deadline <= now
           /\ ledger' = MoveActiveEntryToTombstone(l, c.key)
           /\ AnswersAbout(o, "unknown_side_effect")
  <2>1. Keeps(l, ledger') /\ ledger' \in LedgerType
    BY <1>1, <1>2, <1>7, MoveKeeps DEF Present, Keeps
  <2>2. Recorded(ledger')
    BY <1>1, <2>1, KeepsRecorded DEF LedgerInv
  <2>3. /\ verdict' \in [Runs -> Verdicts]
        /\ verdict'[o] = "unknown_side_effect"
        /\ \A p \in Runs : p # o => verdict'[p] = verdict[p]
    BY <1>4, <1>7, AnswerTyped DEF LedgerInv, Verdicts
  <2>4. ReportedUnknown(ledger)'
    <3> SUFFICES ASSUME NEW k \in Keys, ledger'.active[k].order # 0,
                        verdict'[ledger'.active[k].order] = "unknown_side_effect"
                 PROVE  \/ ledger'.active[k].status = "unknown_side_effect"
                        \/ ledger'.active[k].deadline <= now
      BY <1>2 DEF ReportedUnknown
    <3>1. ledger'.active[k] = l.active[k]
      BY <2>1, AbsentTyped DEF Keeps, KeyKept
    <3>2. CASE k = c.key
      BY <1>7, <3>1, <3>2
    <3>3. CASE k # c.key
      BY <1>1, <1>5, <2>3, <3>1, <3>3 DEF Recorded, ReportedUnknown
    <3> QED BY <3>2, <3>3
  <2>5. CompletedSettled(ledger)'
    BY <1>2, <2>2 DEF Recorded, CompletedSettled
  <2>6. LedgerInv'
    BY <1>2, <1>4, <2>1, <2>2, <2>3, <2>4, <2>5, NoNewRun DEF Recorded
  <2> QED BY <2>3, <2>6
<1>8. CASE /\ entry.deadline > now
           /\ entry.status # "pending"
           /\ ledger' = l
           /\ AnswersAbout(o, entry.status)
  <2>1. entry.status \in Verdicts
    BY <1>4, <1>8 DEF Statuses, Verdicts
  <2>2. /\ verdict' \in [Runs -> Verdicts]
        /\ verdict'[o] = entry.status
        /\ \A p \in Runs : p # o => verdict'[p] = verdict[p]
    BY <1>4, <1>8, <2>1, AnswerTyped DEF LedgerInv
  <2>3. verdict[o] = "unknown_side_effect" => entry.status = "unknown_side_effect"
    BY <1>1, <1>2, <1>4, <1>8 DEF Recorded, ReportedUnknown
  <2>4. ReportedUnknown(ledger)'
    BY <1>1, <1>2, <1>5, <1>8, <2>2 DEF Recorded, ReportedUnknown
  <2>5. CompletedSettled(ledger)'
    BY <1>1, <1>2, <1>8 DEF Recorded, CompletedSettled
  <2>6. LedgerInv'
    BY <1>1, <1>2, <1>4, <1>8, <2>2, <2>4, <2>5, NoNewRun DEF Recorded
  <2> QED BY <2>2, <2>3, <2>6
<1> QED BY <1>3, <1>6, <1>7, <1>8

\* A refusal that looked for room, and prune, only operate on the tables.
LEMMA TableStep ==
  ASSUME LedgerInv, Keeps(ledger, ledger') \/ (ledger' \in LedgerType /\ Recorded(ledger')),
         UNCHANGED <<now, nextOrder, running, run, verdict>>
  PROVE  LedgerInv'
<1>1. ledger \in LedgerType
  BY TypeFacts DEF LedgerInv
<1>2. ledger' \in LedgerType /\ Recorded(ledger')
  BY <1>1, KeepsRecorded DEF LedgerInv, Keeps
<1>3. ReportedUnknown(ledger)' /\ CompletedSettled(ledger)'
  BY <1>2 DEF Recorded, ReportedUnknown, CompletedSettled
<1>4. verdict' \in [Runs -> Verdicts]
  BY DEF LedgerInv, TypeOK
<1> QED BY <1>2, <1>3, <1>4, NoNewRun DEF Recorded

\* A refusal leaves the pruned tables, with room made or not.
LEMMA RefusesStep ==
  ASSUME LedgerInv, NEW c \in Command, Refuses(c)
  PROVE  LedgerInv' /\ verdict' = verdict
<1> DEFINE l == PruneExpiredTombstones(ledger)
<1>1. /\ ledger' \in {l, ReserveActiveCapacity(l)}
      /\ UNCHANGED <<now, nextOrder, running, run, verdict>>
  BY DEF Refuses
<1>2. ledger' \in LedgerType /\ Recorded(ledger')
  BY <1>1, LookedFacts
<1> QED BY <1>1, <1>2, TableStep

\* A handler is started: the key has no record, so every earlier run of the
\* key is a tombstone's lifetime old.
LEMMA ExecutesStep ==
  ASSUME LedgerInv, NEW c \in Command, Executes(c)
  PROVE  LedgerInv' /\ verdict' = verdict
<1> DEFINE l == PruneExpiredTombstones(ledger)
           m == ReserveActiveCapacity(l)
           e == NewEntry(c)
<1>1. /\ l \in LedgerType /\ Recorded(l) /\ m \in LedgerType /\ Recorded(m) /\ Keeps(l, m)
      /\ Started \subseteq Runs /\ Started \subseteq Nat /\ now \in Nat
      /\ running \subseteq Started
      /\ \A o \in Started : run[o].at \in Nat /\ run[o].validUntil \in Nat
  BY LookedFacts, TypeFacts DEF LedgerInv
<1>2. /\ c.key \in Keys /\ c.meaning \in Meanings /\ c.validUntil \in Nat
      /\ nextOrder \in Runs /\ nextOrder \notin Started
      /\ l.tombstones[c.key].order = 0
      /\ l.active[c.key].order = 0
      /\ c.validUntil > now /\ c.validUntil <= now + ActiveWindow
      /\ ledger' = [m EXCEPT !.active[c.key] = e]
      /\ nextOrder' = nextOrder + 1
      /\ running' = running \cup {nextOrder}
      /\ run' = [run EXCEPT ![nextOrder] =
                   [key |-> c.key, validUntil |-> c.validUntil, at |-> now]]
      /\ UNCHANGED <<now, verdict>>
  BY LedgerAssumption DEF Executes, Looked, Command, LedgerInv, TypeOK, Runs, Started
<1>3. /\ e \in ActiveEntry /\ e.order = nextOrder /\ e.status = "pending"
      /\ nextOrder # 0
  BY <1>1, <1>2, LedgerAssumption DEF NewEntry, ActiveEntry, Min2, Statuses, Runs
<1>4. Started' = Started \cup {nextOrder}
  BY <1>2, LedgerAssumption DEF Started, Runs
<1>5. /\ \A o \in Started : run'[o] = run[o]
      /\ run'[nextOrder] = [key |-> c.key, validUntil |-> c.validUntil, at |-> now]
      /\ run' \in [Runs -> [key : Keys \cup {NoMeaning}, validUntil : Nat, at : Nat]]
  BY <1>1, <1>2 DEF LedgerInv, TypeOK
<1>6. m.active[c.key].order = 0 /\ m.tombstones[c.key].order = 0
  BY <1>1, <1>2, AbsentTyped DEF Keeps, KeyKept
<1> HIDE DEF l, m, e
<1>7. /\ ledger' \in LedgerType
      /\ ledger'.tombstones = m.tombstones
      /\ ledger'.active = [m.active EXCEPT ![c.key] = e]
  BY <1>1, <1>2, <1>3 DEF LedgerType
<1>8. /\ ledger'.active[c.key] = e
      /\ \A k \in Keys : k # c.key => ledger'.active[k] = m.active[k]
  BY <1>1, <1>2, <1>7 DEF LedgerType
<1>9. TypeOK'
  <2>1. now' \in Nat /\ verdict' \in [Runs -> Verdicts]
    BY <1>2 DEF LedgerInv, TypeOK
  <2>2. nextOrder' \in 1..(MaxRuns + 1) /\ running' \subseteq 1..(nextOrder' - 1)
    BY <1>1, <1>2, <1>4, LedgerAssumption DEF Started, Runs
  <2> QED BY <1>5, <1>7, <2>1, <2>2 DEF TypeOK, LedgerType
<1>10. RunsRecorded'
  BY <1>1, <1>2, <1>4, <1>5 DEF LedgerInv, RunsRecorded
<1>11. \A o \in Started : run[o].key = c.key => now >= run[o].at + TombstoneTtl
  BY <1>1, <1>2, LedgerAssumption DEF Recorded, Remembered
<1>12. RunsAreSpaced'
  <2> SUFFICES ASSUME NEW o \in Started', NEW p \in Started', o < p, run'[o].key = run'[p].key
               PROVE  run'[p].at >= run'[o].at + TombstoneTtl
    BY DEF RunsAreSpaced
  <2>1. CASE o \in Started /\ p \in Started
    BY <1>5, <2>1 DEF LedgerInv, RunsAreSpaced
  <2>2. CASE o \in Started /\ p = nextOrder
    BY <1>5, <1>11, <2>2
  <2>3. ~(o = nextOrder)
    BY <1>2, <1>4, LedgerAssumption DEF Started, Runs
  <2> QED BY <1>4, <2>1, <2>2, <2>3
<1>13. FutureUnjudged'
  BY <1>2, <1>4 DEF LedgerInv, FutureUnjudged
<1>14. OneTable(ledger)'
  BY <1>1, <1>6, <1>7, <1>8 DEF Recorded, OneTable
<1>15. RecordsHaveRuns(ledger)'
  BY <1>1, <1>2, <1>3, <1>4, <1>5, <1>6, <1>7, <1>8 DEF Recorded, RecordsHaveRuns
<1>16. Remembered(ledger)'
  <2> SUFFICES ASSUME NEW o \in Started', now' < run'[o].at + TombstoneTtl
               PROVE  \/ ledger'.active[run'[o].key].order # 0
                      \/ /\ ledger'.tombstones[run'[o].key].order # 0
                         /\ ledger'.tombstones[run'[o].key].expiresAt
                              >= run'[o].at + TombstoneTtl
    BY DEF Remembered
  <2>1. CASE run'[o].key = c.key
    BY <1>3, <1>8, <2>1
  <2>2. CASE o \in Started /\ run'[o].key # c.key
    <3>1. run[o].key \in Keys /\ run'[o] = run[o] /\ now < run[o].at + TombstoneTtl
      BY <1>2, <1>5, <2>2 DEF LedgerInv, RunsRecorded
    <3>2. \/ m.active[run[o].key].order # 0
          \/ /\ m.tombstones[run[o].key].order # 0
             /\ m.tombstones[run[o].key].expiresAt >= run[o].at + TombstoneTtl
      BY <1>1, <2>2, <3>1 DEF Recorded, Remembered
    <3> QED BY <1>7, <1>8, <2>2, <3>1, <3>2
  <2> QED BY <1>4, <1>5, <2>1, <2>2
<1>17. ReportedUnknown(ledger)'
  BY <1>1, <1>2, <1>3, <1>8 DEF Recorded, ReportedUnknown, LedgerInv, FutureUnjudged
<1>18. CompletedSettled(ledger)'
  <2> SUFFICES ASSUME NEW k \in Keys, ledger'.active[k].status = "completed"
               PROVE  ledger'.active[k].order \notin running'
    BY DEF CompletedSettled
  <2>1. k # c.key /\ ledger'.active[k] = m.active[k]
    BY <1>3, <1>8
  <2>2. m.active[k].order \notin running
    BY <1>1, <2>1 DEF Recorded, CompletedSettled
  <2>3. m.active[k].order # nextOrder
    BY <1>1, <1>2, <1>3 DEF Recorded, RecordsHaveRuns
  <2> QED BY <1>2, <2>1, <2>2, <2>3
<1> QED BY <1>2, <1>9, <1>10, <1>12, <1>13, <1>14, <1>15, <1>16, <1>17, <1>18
        DEF LedgerInv, Recorded

-----------------------------------------------------------------------------
(* The handlers.                                                           *)

\* A settling handler writes the status of its own entry and answers about its
\* own run; what it answers agrees with what it writes.
LEMMA SettledEntry ==
  ASSUME LedgerInv, NEW o \in running, IsOwnEntry(o),
         NEW status \in Statuses \ {"pending"}, AnswersAbout(o, status),
         running' = running \ {o}, UNCHANGED <<now, nextOrder, run>>,
         NEW m, m = Marked(o, status) \/ Keeps(Marked(o, status), m), ledger' = m
  PROVE  LedgerInv'
<1> DEFINE k0 == run[o].key
           n == Marked(o, status)
<1>1. /\ ledger \in LedgerType /\ Recorded(ledger) /\ now \in Nat
      /\ o \in Started /\ o \in Runs /\ k0 \in Keys /\ o # 0
      /\ ledger.active[k0].order = o
      /\ Started \subseteq Runs
  BY TypeFacts DEF LedgerInv, RunsRecorded, IsOwnEntry, EntryOf, Started
<1>2. /\ n \in LedgerType
      /\ n.tombstones = ledger.tombstones
      /\ n.active[k0] = [ledger.active[k0] EXCEPT !.status = status]
      /\ \A k \in Keys : k # k0 => n.active[k] = ledger.active[k]
  BY <1>1, ZenonT(60) DEF Marked, LedgerType, ActiveEntry
<1>3. /\ n.active[k0].order = o
      /\ n.active[k0].status = status
      /\ n.active[k0].deadline = ledger.active[k0].deadline
  BY <1>1, <1>2 DEF LedgerType, ActiveEntry
<1>4. /\ verdict' \in [Runs -> Verdicts]
      /\ verdict'[o] = status
      /\ \A p \in Runs : p # o => verdict'[p] = verdict[p]
  BY <1>1, AnswerTyped DEF LedgerInv, Statuses, Verdicts
<1> HIDE DEF n
<1>5. /\ n.tombstones = ledger.tombstones
      /\ \A k \in Keys : n.active[k].order = ledger.active[k].order
      /\ \A k \in Keys : k # k0 => n.active[k] = ledger.active[k]
  BY <1>1, <1>2, <1>3
<1>6. OneTable(n) /\ RecordsHaveRuns(n)
  BY <1>1, <1>5 DEF Recorded, OneTable, RecordsHaveRuns
<1>7. Remembered(n)
  BY <1>1, <1>5 DEF Recorded, Remembered, LedgerInv, RunsRecorded
<1>8. \A k \in Keys : k # k0 /\ n.active[k].order # 0 =>
        n.active[k].order \in Runs /\ n.active[k].order # o
  BY <1>1, <1>6 DEF RecordsHaveRuns
<1>9. \A k \in Keys :
        n.active[k].order # 0 /\ verdict'[n.active[k].order] = "unknown_side_effect" =>
          n.active[k].status = "unknown_side_effect" \/ n.active[k].deadline <= now
  <2> SUFFICES ASSUME NEW k \in Keys, n.active[k].order # 0,
                      verdict'[n.active[k].order] = "unknown_side_effect"
               PROVE  \/ n.active[k].status = "unknown_side_effect"
                      \/ n.active[k].deadline <= now
    OBVIOUS
  <2>1. CASE k = k0
    BY <1>3, <1>4, <2>1
  <2>2. CASE k # k0
    <3>1. n.active[k] = ledger.active[k]
      BY <1>5, <2>2
    <3>2. verdict[ledger.active[k].order] = "unknown_side_effect"
      BY <1>4, <1>8, <2>2, <3>1
    <3> QED BY <1>1, <3>1, <3>2 DEF Recorded, ReportedUnknown
  <2> QED BY <2>1, <2>2
<1>10. \A k \in Keys : n.active[k].status = "completed" => n.active[k].order \notin running'
  BY <1>1, <1>3, <1>5 DEF Recorded, CompletedSettled
<1>11. \A k \in Keys : m.active[k] = n.active[k] \/ m.active[k] = NoEntry
  BY DEF Keeps, KeyKept, n
<1>12. OneTable(m) /\ RecordsHaveRuns(m) /\ Remembered(m) /\ m \in LedgerType
  <2>1. CASE m = n
    BY <1>2, <1>6, <1>7, <2>1
  <2>2. CASE Keeps(n, m)
    BY <1>2, <1>6, <1>7, <2>2, KeepsTables DEF LedgerInv, Keeps
  <2> QED BY <2>1, <2>2 DEF n
<1>13. ReportedUnknown(ledger)' /\ CompletedSettled(ledger)'
  BY <1>9, <1>10, <1>11, AbsentTyped DEF ReportedUnknown, CompletedSettled
<1> QED BY <1>1, <1>4, <1>12, <1>13, NoNewRun

\* A handler whose entry is gone, replaced or settled leaves the ledger alone.
LEMMA LateHandler ==
  ASSUME LedgerInv, NEW o \in running,
         IsOwnEntry(o) => EntryOf(o).status = "unknown_side_effect",
         AnswersAbout(o, "unknown_side_effect"),
         running' = running \ {o}, UNCHANGED <<now, nextOrder, run, ledger>>
  PROVE  LedgerInv'
<1>1. /\ ledger \in LedgerType /\ Recorded(ledger)
      /\ o \in Started /\ o \in Runs /\ o # 0 /\ run[o].key \in Keys
      /\ Started \subseteq Runs
  BY TypeFacts DEF LedgerInv, RunsRecorded, Started
<1>2. /\ verdict' \in [Runs -> Verdicts]
      /\ verdict'[o] = "unknown_side_effect"
      /\ \A p \in Runs : p # o => verdict'[p] = verdict[p]
  BY <1>1, AnswerTyped DEF LedgerInv, Verdicts
<1>3. ReportedUnknown(ledger)'
  <2> SUFFICES ASSUME NEW k \in Keys, ledger.active[k].order # 0,
                      verdict'[ledger.active[k].order] = "unknown_side_effect"
               PROVE  \/ ledger.active[k].status = "unknown_side_effect"
                      \/ ledger.active[k].deadline <= now
    BY DEF ReportedUnknown
  <2>1. ledger.active[k].order \in Runs /\ run[ledger.active[k].order].key = k
    BY <1>1 DEF Recorded, RecordsHaveRuns
  <2>2. CASE ledger.active[k].order = o
    BY <2>1, <2>2 DEF IsOwnEntry, EntryOf
  <2>3. CASE ledger.active[k].order # o
    BY <1>1, <1>2, <2>1, <2>3 DEF Recorded, ReportedUnknown
  <2> QED BY <2>2, <2>3
<1>4. CompletedSettled(ledger)'
  BY <1>1 DEF Recorded, CompletedSettled
<1> QED BY <1>1, <1>2, <1>3, <1>4, NoNewRun DEF Recorded

\* A run that has not settled has no completed entry.
LEMMA RunningNotCompleted ==
  ASSUME LedgerInv, NEW o \in running, IsOwnEntry(o)
  PROVE  /\ EntryOf(o).status \in {"pending", "unknown_side_effect"}
         /\ EntryOf(o) \in ActiveEntry
         /\ verdict[o] = "unknown_side_effect" =>
              EntryOf(o).status = "unknown_side_effect" \/ EntryOf(o).deadline <= now
<1>1. /\ ledger \in LedgerType /\ Recorded(ledger)
      /\ o \in Started /\ run[o].key \in Keys /\ o # 0
  BY TypeFacts DEF LedgerInv, RunsRecorded, Started
<1>2. EntryOf(o) \in ActiveEntry /\ EntryOf(o).status \in Statuses
  BY <1>1 DEF EntryOf, LedgerType, ActiveEntry
<1>3. EntryOf(o).status # "completed"
  BY <1>1 DEF Recorded, CompletedSettled, EntryOf, IsOwnEntry
<1>4. verdict[o] = "unknown_side_effect" =>
        EntryOf(o).status = "unknown_side_effect" \/ EntryOf(o).deadline <= now
  BY <1>1 DEF Recorded, ReportedUnknown, EntryOf, IsOwnEntry
<1> QED BY <1>2, <1>3, <1>4 DEF Statuses

\* Marking an entry unknown and moving it is a table operation on the marked
\* ledger.
LEMMA MarkedUnknownKeeps ==
  ASSUME LedgerInv, NEW o \in running, IsOwnEntry(o)
  PROVE  Keeps(Marked(o, "unknown_side_effect"), MarkedUnknown(o))
<1> DEFINE n == Marked(o, "unknown_side_effect")
<1>1. /\ ledger \in LedgerType /\ now \in Nat
      /\ run[o].key \in Keys /\ o # 0 /\ ledger.active[run[o].key].order = o
  BY TypeFacts DEF LedgerInv, RunsRecorded, Started, IsOwnEntry, EntryOf
<1>2. n \in LedgerType /\ n.active[run[o].key].order = o
  BY <1>1 DEF Marked, LedgerType, ActiveEntry, Statuses
<1>3. run[o].key \in Present(n.active)
  BY <1>1, <1>2 DEF Present
<1> QED BY <1>1, <1>2, <1>3, MoveKeeps DEF MarkedUnknown

\* A handler that returns settles its own entry or leaves the ledger alone.
LEMMA HandlerReturnsStep ==
  ASSUME LedgerInv, NEW o \in running, HandlerReturns(o)
  PROVE  LedgerInv' /\ \A p \in Runs : verdict[p] = "unknown_side_effect" => verdict'[p] = verdict[p]
<1>1. /\ running' = running \ {o}
      /\ UNCHANGED <<now, nextOrder, run>>
      /\ o \in Runs /\ now \in Nat
  BY TypeFacts DEF HandlerReturns, LedgerInv
<1>2. CASE /\ IsOwnEntry(o) => EntryOf(o).status # "pending"
           /\ UNCHANGED ledger
           /\ AnswersAbout(o, "unknown_side_effect")
  <2>1. LedgerInv'
    BY <1>1, <1>2, RunningNotCompleted, LateHandler
  <2> QED BY <1>1, <1>2, <2>1, AnswerTyped DEF LedgerInv, Verdicts
<1>3. CASE /\ IsOwnEntry(o)
           /\ ledger' = MarkedUnknown(o)
           /\ AnswersAbout(o, "unknown_side_effect")
  <2>1. LedgerInv'
    BY <1>1, <1>3, MarkedUnknownKeeps, SettledEntry DEF Statuses
  <2> QED BY <1>1, <1>3, <2>1, AnswerTyped DEF LedgerInv, Verdicts
<1>4. CASE /\ IsOwnEntry(o) /\ EntryOf(o).status = "pending"
           /\ EntryOf(o).deadline > now
           /\ ledger' = Marked(o, "completed")
           /\ AnswersAbout(o, "completed")
  <2>1. LedgerInv'
    BY <1>1, <1>4, SettledEntry DEF Statuses
  <2>2. EntryOf(o).deadline \in Nat
    BY <1>4, RunningNotCompleted DEF ActiveEntry
  <2>3. verdict[o] # "unknown_side_effect"
    BY <1>1, <1>4, <2>2, RunningNotCompleted
  <2> QED BY <1>1, <1>4, <2>1, <2>3, AnswerTyped DEF LedgerInv, Verdicts
<1> QED BY <1>2, <1>3, <1>4 DEF HandlerReturns

\* A handler that throws marks its own entry or leaves the ledger alone.
LEMMA HandlerThrowsStep ==
  ASSUME LedgerInv, NEW o \in running, HandlerThrows(o)
  PROVE  LedgerInv' /\ \A p \in Runs : verdict[p] = "unknown_side_effect" => verdict'[p] = verdict[p]
<1>1. /\ running' = running \ {o}
      /\ UNCHANGED <<now, nextOrder, run>>
      /\ AnswersAbout(o, "unknown_side_effect")
      /\ o \in Runs
  BY TypeFacts DEF HandlerThrows, LedgerInv
<1>2. ASSUME IsOwnEntry(o) PROVE LedgerInv'
  BY <1>1, <1>2, MarkedUnknownKeeps, SettledEntry DEF Statuses, HandlerThrows
<1>3. ASSUME ~IsOwnEntry(o) PROVE LedgerInv'
  BY <1>1, <1>3, LateHandler DEF HandlerThrows
<1> QED BY <1>1, <1>2, <1>3, AnswerTyped DEF LedgerInv, Verdicts

-----------------------------------------------------------------------------
(* The theorems.                                                           *)

\* Time alone forgets nothing: expired records go only when they are pruned.
LEMMA TickStep ==
  ASSUME LedgerInv, Tick
  PROVE  LedgerInv' /\ verdict' = verdict
<1>1. /\ now \in Nat /\ now' = now + 1
      /\ ledger \in LedgerType
      /\ UNCHANGED <<ledger, nextOrder, running, run, verdict>>
      /\ \A o \in Started : run[o].at \in Nat
  BY TypeFacts DEF Tick, LedgerInv
<1>2. TypeOK' /\ RunsRecorded' /\ RunsAreSpaced' /\ FutureUnjudged'
  BY <1>1 DEF LedgerInv, TypeOK, RunsRecorded, RunsAreSpaced, FutureUnjudged, Started
<1>3. OneTable(ledger)' /\ RecordsHaveRuns(ledger)' /\ CompletedSettled(ledger)'
  BY <1>1 DEF LedgerInv, Recorded, OneTable, RecordsHaveRuns, CompletedSettled, Started
<1>4. Remembered(ledger)'
  BY <1>1, LedgerAssumption DEF LedgerInv, Recorded, Remembered, Started
<1>5. \A k \in Keys : ledger.active[k].deadline \in Nat
  BY <1>1 DEF LedgerType, ActiveEntry
<1>6. ReportedUnknown(ledger)'
  BY <1>1, <1>5 DEF LedgerInv, Recorded, ReportedUnknown
<1> QED BY <1>1, <1>2, <1>3, <1>4, <1>6 DEF LedgerInv, Recorded

\* The empty ledger satisfies the invariant.
LEMMA InitialLedger == Init => LedgerInv
<1> SUFFICES ASSUME Init PROVE LedgerInv
  OBVIOUS
<1>1. /\ now = 0 /\ nextOrder = 1 /\ running = {} /\ Started = {}
      /\ ledger.active = [k \in Keys |-> NoEntry]
      /\ ledger.tombstones = [k \in Keys |-> NoTombstone]
  BY DEF Init, Started
<1>2. TypeOK
  BY <1>1, AbsentTyped, LedgerAssumption DEF Init, TypeOK, NoRun, Verdicts
<1>3. RunsRecorded /\ RunsAreSpaced /\ FutureUnjudged
  BY <1>1 DEF RunsRecorded, RunsAreSpaced, FutureUnjudged, Init
<1>4. Recorded(ledger)
  BY <1>1, AbsentTyped
  DEF Recorded, OneTable, RecordsHaveRuns, Remembered, ReportedUnknown, CompletedSettled
<1> QED BY <1>2, <1>3, <1>4 DEF LedgerInv

VerdictKept ==
  \A o \in Runs : verdict[o] = "unknown_side_effect" => verdict'[o] = verdict[o]

\* Every step keeps the invariant and the reported unknowns.
LEMMA LedgerStep ==
  ASSUME LedgerInv, [Next]_vars
  PROVE  LedgerInv' /\ VerdictKept
<1>1. CASE \E c \in Command : ExecuteMutating(c)
  BY <1>1, TombstoneAnswersStep, EntryAnswersStep, RefusesStep, ExecutesStep
  DEF ExecuteMutating, VerdictKept
<1>2. CASE \E o \in running : HandlerReturns(o) \/ HandlerThrows(o)
  BY <1>2, HandlerReturnsStep, HandlerThrowsStep DEF VerdictKept
<1>3. CASE Prune
  <2>1. Keeps(ledger, ledger')
    BY <1>3, TypeFacts, PruneAtKeeps DEF Prune, LedgerInv
  <2> QED BY <1>3, <2>1, TableStep DEF Prune, VerdictKept
<1>4. CASE Tick
  BY <1>4, TickStep DEF VerdictKept
<1>5. CASE UNCHANGED vars
  BY <1>5
  DEF vars, VerdictKept, LedgerInv, TypeOK, RunsRecorded, RunsAreSpaced, FutureUnjudged,
      Recorded, OneTable, RecordsHaveRuns, Remembered, ReportedUnknown, CompletedSettled, Started
<1> QED BY <1>1, <1>2, <1>3, <1>4, <1>5 DEF Next

\* The invariant that carries the theorems below: every run is recorded for a
\* tombstone's lifetime and no record contradicts an answer.
THEOREM LedgerCorrect == Spec => []LedgerInv
<1>1. LedgerInv /\ [Next]_vars => LedgerInv'
  BY LedgerStep
<1> QED BY <1>1, InitialLedger, PTL DEF Spec

\* The ledger and the history of its runs keep their types.
THEOREM LedgerTypeCorrect == Spec => []TypeOK
<1>1. LedgerInv => TypeOK
  BY DEF LedgerInv
<1> QED BY <1>1, LedgerCorrect, PTL

\* Two runs of one correlation key are a tombstone's lifetime apart, whatever
\* the capacities and however often executeMutating evicts and prunes.
THEOREM SpacedRuns == Spec => []RunsAreSpaced
<1>1. LedgerInv => RunsAreSpaced
  BY DEF LedgerInv
<1> QED BY <1>1, LedgerCorrect, PTL

\* executeMutating runs the handler of a command at most once, given that a
\* tombstone lives at least as long as the window in which a command is valid.
THEOREM AtMostOneRun == Spec => []AtMostOnce
<1>1. LedgerInv => AtMostOnce
  <2> SUFFICES ASSUME LedgerInv, NEW o \in Started, NEW p \in Started,
                      run[o].key = run[p].key, run[o].validUntil = run[p].validUntil, o # p
               PROVE  FALSE
    BY DEF AtMostOnce
  <2>1. /\ o \in Nat /\ p \in Nat
        /\ run[o].at \in Nat /\ run[o].validUntil \in Nat
        /\ run[p].at \in Nat /\ run[p].validUntil \in Nat
    BY TypeFacts DEF LedgerInv
  <2>2. /\ run[o].at < run[o].validUntil /\ run[o].validUntil <= run[o].at + ActiveWindow
        /\ run[p].at < run[p].validUntil /\ run[p].validUntil <= run[p].at + ActiveWindow
    BY DEF LedgerInv, RunsRecorded
  <2>3. \/ run[p].at >= run[o].at + TombstoneTtl
        \/ run[o].at >= run[p].at + TombstoneTtl
    BY <2>1 DEF LedgerInv, RunsAreSpaced
  <2> QED BY <2>1, <2>2, <2>3, LedgerAssumption
<1> QED BY <1>1, LedgerCorrect, PTL

\* An entry is completed only by the handler that executeMutating started for
\* it.
THEOREM OwnHandlerCompletes == Spec => []CompletedByItsOwnHandler
<1>1. LedgerInv => CompletedByItsOwnHandler
  BY DEF LedgerInv, Recorded, CompletedSettled, CompletedByItsOwnHandler
<1> QED BY <1>1, LedgerCorrect, PTL

\* No caller of executeMutating is told that a run completed once a caller was
\* told that its effect is unknown.
THEOREM UnknownStaysUnknown == Spec => UnknownIsFinal
<1>1. LedgerInv /\ [Next]_vars => [VerdictKept]_vars
  BY LedgerStep
<1>2. Spec => [][VerdictKept]_vars
  BY <1>1, LedgerCorrect, PTL DEF Spec
<1> QED BY <1>2 DEF UnknownIsFinal, VerdictKept

-----------------------------------------------------------------------------
(* The capacities of the tables.                                           *)

WithinCapacity(l) ==
  /\ Cardinality(Present(l.active)) <= ActiveCapacity
  /\ Cardinality(Present(l.tombstones)) <= TombstoneCapacity

\* The orders of the entries tell the entries apart.
OrdersDiffer(l) ==
  \A j, k \in Present(l.active) : l.active[j].order = l.active[k].order => j = k

\* Sets of keys are finite and can be counted.
LEMMA KeysCounted ==
  ASSUME NEW S, S \subseteq Keys
  PROVE  /\ IsFiniteSet(S) /\ Cardinality(S) \in Nat
         /\ \A T \in SUBSET S : Cardinality(T) <= Cardinality(S)
         /\ \A k \in Keys : Cardinality(S \cup {k}) <= Cardinality(S) + 1
<1>1. IsFiniteSet(S)
  BY LedgerAssumption, FS_Subset
<1>2. Cardinality(S) \in Nat
  BY <1>1, FS_CardinalityType
<1>3. \A k \in Keys : Cardinality(S \cup {k}) <= Cardinality(S) + 1
  BY <1>1, <1>2, FS_AddElement
<1> QED BY <1>1, <1>2, <1>3, FS_Subset

LEMMA RecordedOrdersDiffer ==
  ASSUME NEW l, RecordsHaveRuns(l)
  PROVE  OrdersDiffer(l)
BY DEF RecordsHaveRuns, OrdersDiffer, Present

\* A table operation never adds an entry, so only the tombstones can overflow.
LEMMA KeepsActiveCapacity ==
  ASSUME NEW l, NEW m, Keeps(l, m), WithinCapacity(l)
  PROVE  Cardinality(Present(m.active)) <= ActiveCapacity
<1>1. Present(m.active) \subseteq Present(l.active) /\ Present(l.active) \subseteq Keys
  BY AbsentTyped DEF Keeps, KeyKept, Present
<1>2. Cardinality(Present(m.active)) <= Cardinality(Present(l.active))
  BY <1>1, KeysCounted
<1>3. Cardinality(Present(l.active)) \in Nat /\ Cardinality(Present(m.active)) \in Nat
  BY <1>1, KeysCounted
<1> QED BY <1>2, <1>3, LedgerAssumption DEF WithinCapacity

\* pruneExpiredTombstones
LEMMA PruneExpiredWithin ==
  ASSUME now \in Nat, NEW l \in LedgerType, WithinCapacity(l)
  PROVE  WithinCapacity(PruneExpiredTombstones(l))
<1> DEFINE m == PruneExpiredTombstones(l)
<1>1. Cardinality(Present(m.active)) <= ActiveCapacity
  BY PruneExpiredKeeps, KeepsActiveCapacity
<1>2. m.tombstones = [k \in Keys |-> IF l.tombstones[k].expiresAt <= now
                                      THEN NoTombstone ELSE l.tombstones[k]]
  BY DEF PruneExpiredTombstones, LedgerType
<1> HIDE DEF m
<1>3. Present(m.tombstones) \subseteq Present(l.tombstones) /\ Present(l.tombstones) \subseteq Keys
  BY <1>2, AbsentTyped DEF Present
<1>4. Cardinality(Present(m.tombstones)) <= Cardinality(Present(l.tombstones))
  BY <1>3, KeysCounted
<1>5. Cardinality(Present(l.tombstones)) \in Nat /\ Cardinality(Present(m.tombstones)) \in Nat
  BY <1>3, KeysCounted
<1>6. Cardinality(Present(m.tombstones)) <= TombstoneCapacity
  BY <1>4, <1>5, LedgerAssumption DEF WithinCapacity
<1>7. WithinCapacity(m)
  BY <1>1, <1>6 DEF WithinCapacity
<1> QED BY <1>7 DEF m

\* moveActiveEntryToTombstone checks the room before it moves.
LEMMA MoveWithin ==
  ASSUME now \in Nat, NEW l \in LedgerType, NEW k \in Present(l.active), WithinCapacity(l)
  PROVE  WithinCapacity(MoveActiveEntryToTombstone(l, k))
<1> DEFINE m == Moved(l, {k})
<1>1. CASE ~TombstoneRoom(l)
  BY <1>1 DEF MoveActiveEntryToTombstone
<1>2. CASE TombstoneRoom(l)
  <2>1. Cardinality(Present(m.active)) <= ActiveCapacity
    BY MovedKeeps, KeepsActiveCapacity
  <2>2. m.tombstones = [j \in Keys |-> IF j \in {k} THEN TombstoneOf(l.active[j])
                                                     ELSE l.tombstones[j]]
    BY DEF Moved
  <2>3. /\ Present(m.tombstones) \subseteq Present(l.tombstones) \cup {k}
        /\ Present(l.tombstones) \subseteq Keys /\ k \in Keys
        /\ Present(l.tombstones) \cup {k} \subseteq Keys /\ Present(m.tombstones) \subseteq Keys
    <3> HIDE DEF m
    <3> QED BY <2>2 DEF Present
  <2>4. /\ Cardinality(Present(m.tombstones)) <= Cardinality(Present(l.tombstones) \cup {k})
        /\ Cardinality(Present(l.tombstones) \cup {k}) <= Cardinality(Present(l.tombstones)) + 1
    BY <2>3, KeysCounted
  <2>5. /\ Cardinality(Present(m.tombstones)) \in Nat /\ Cardinality(Present(l.tombstones)) \in Nat
        /\ Cardinality(Present(l.tombstones) \cup {k}) \in Nat
    BY <2>3, KeysCounted
  <2>6. Cardinality(Present(m.tombstones)) <= TombstoneCapacity
    BY <1>2, <2>4, <2>5, LedgerAssumption DEF TombstoneRoom
  <2>7. WithinCapacity(m)
    BY <2>1, <2>6 DEF WithinCapacity
  <2> QED BY <1>2, <2>7 DEF MoveActiveEntryToTombstone
<1> QED BY <1>1, <1>2

\* The entries that pruneAt moves fit into the table of tombstones: the last of them
\* still found room, and the others were inserted before it.
LEMMA DueFits ==
  ASSUME NEW l \in LedgerType, OrdersDiffer(l), WithinCapacity(l)
  PROVE  Cardinality(DueWithRoom(l)) + Cardinality(Present(l.tombstones)) <= TombstoneCapacity
<1> DEFINE D == DueWithRoom(l)
           t == Cardinality(Present(l.tombstones))
           before(k) == {j \in Due(l) : l.active[j].order < l.active[k].order}
           T == {MaxRuns - l.active[k].order : k \in D}
<1>1. D \subseteq Due(l) /\ Due(l) \subseteq Present(l.active) /\ Present(l.active) \subseteq Keys
  BY DEF DueWithRoom, Due, Present
<1>2. t \in Nat /\ t <= TombstoneCapacity
  <2>1. Present(l.tombstones) \subseteq Keys
    BY DEF Present
  <2> QED BY <2>1, KeysCounted DEF WithinCapacity
<1>3. \A k \in D : Cardinality(before(k)) + t < TombstoneCapacity
  BY DEF DueWithRoom
<1>4. \A k \in Keys : l.active[k].order \in 0..MaxRuns
  BY DEF LedgerType, ActiveEntry
<1>5. CASE D = {}
  BY <1>2, <1>5, FS_EmptySet
<1>6. CASE D # {}
  <2>1. T \subseteq Nat /\ T # {}
    <3> HIDE DEF D
    <3> QED BY <1>1, <1>4, <1>6, LedgerAssumption
  <2>2. \E x \in T : \A y \in T : x <= y
    <3> HIDE DEF T
    <3> QED BY <2>1, LeastNat
  <2>3. PICK k \in D : \A j \in D : MaxRuns - l.active[k].order <= MaxRuns - l.active[j].order
    <3> HIDE DEF D
    <3> QED BY <2>2
  <2>4. k \in Keys /\ \A j \in D : j \in Keys /\ l.active[j].order <= l.active[k].order
    <3> HIDE DEF D
    <3> QED BY <1>1, <1>4, <2>3, LedgerAssumption
  <2>5. D \subseteq before(k) \cup {k}
    <3> SUFFICES ASSUME NEW j \in D, j # k PROVE j \in before(k)
      OBVIOUS
    <3>1. l.active[j].order # l.active[k].order
      BY <1>1, <2>3 DEF OrdersDiffer
    <3>2. l.active[j].order < l.active[k].order
      <4> HIDE DEF D
      <4> QED BY <1>4, <2>4, <3>1, LedgerAssumption
    <3> QED BY <1>1, <3>2
  <2>6. before(k) \subseteq Keys /\ before(k) \cup {k} \subseteq Keys /\ D \subseteq Keys
    BY <1>1, <2>4
  <2> DEFINE B == before(k)
  <2>7. Cardinality(B) + t < TombstoneCapacity
    BY <1>3
  <2> HIDE DEF D, t, before, B
  <2>8. B \subseteq Keys /\ B \cup {k} \subseteq Keys /\ D \subseteq B \cup {k}
    BY <2>5, <2>6 DEF B
  <2>9. /\ Cardinality(D) <= Cardinality(B \cup {k})
        /\ Cardinality(B \cup {k}) <= Cardinality(B) + 1
    BY <2>4, <2>8, KeysCounted
  <2>10. Cardinality(D) \in Nat /\ Cardinality(B) \in Nat /\ Cardinality(B \cup {k}) \in Nat
    BY <2>6, <2>8, KeysCounted
  <2>11. Cardinality(D) + t <= TombstoneCapacity
    BY <1>2, <2>7, <2>9, <2>10, LedgerAssumption
  <2> QED BY <2>11 DEF D, t
<1> QED BY <1>5, <1>6

\* pruneAt
LEMMA PruneAtWithin ==
  ASSUME now \in Nat, NEW l \in LedgerType, OrdersDiffer(l), WithinCapacity(l)
  PROVE  WithinCapacity(PruneAt(l))
<1> DEFINE kept == PruneExpiredTombstones(l)
           D == DueWithRoom(kept)
           m == Moved(kept, D)
<1>1. kept \in LedgerType /\ WithinCapacity(kept)
  BY PruneExpiredKeeps, PruneExpiredWithin DEF Keeps
<1>2. OrdersDiffer(kept)
  <2>1. kept.active = l.active
    BY DEF PruneExpiredTombstones, LedgerType
  <2> QED BY <2>1 DEF OrdersDiffer
<1>3. Cardinality(D) + Cardinality(Present(kept.tombstones)) <= TombstoneCapacity
  BY <1>1, <1>2, DueFits
<1>4. D \in SUBSET Present(kept.active)
  BY DEF DueWithRoom, Due
<1>5. Cardinality(Present(m.active)) <= ActiveCapacity
  BY <1>1, <1>4, MovedKeeps, KeepsActiveCapacity
<1>6. m.tombstones = [k \in Keys |-> IF k \in D THEN TombstoneOf(kept.active[k])
                                                ELSE kept.tombstones[k]]
  BY DEF Moved
<1> DEFINE P == Present(kept.tombstones)
<1>7. /\ Present(m.tombstones) \subseteq P \cup D
      /\ P \subseteq Keys /\ D \subseteq Keys /\ Present(m.tombstones) \subseteq Keys
  <2> HIDE DEF kept, D, m
  <2> QED BY <1>4, <1>6 DEF Present
<1>8. Cardinality(P \cup D) <= Cardinality(P) + Cardinality(D)
  <2> HIDE DEF P, D
  <2>1. IsFiniteSet(P) /\ IsFiniteSet(D) /\ IsFiniteSet(P \cap D)
    BY <1>7, KeysCounted, FS_Subset
  <2>2. Cardinality(P \cup D) = Cardinality(P) + Cardinality(D) - Cardinality(P \cap D)
    BY <2>1, FS_Union
  <2> QED BY <2>1, <2>2, FS_CardinalityType
<1>9. /\ Cardinality(Present(m.tombstones)) <= Cardinality(P \cup D)
      /\ Cardinality(Present(m.tombstones)) \in Nat /\ Cardinality(P \cup D) \in Nat
      /\ Cardinality(P) \in Nat /\ Cardinality(D) \in Nat
  <2> HIDE DEF P, D, m
  <2>1. P \cup D \subseteq Keys
    BY <1>7
  <2> QED BY <1>7, <2>1, KeysCounted
<1>10. Cardinality(Present(m.tombstones)) <= TombstoneCapacity
  <2> HIDE DEF D, m, kept
  <2> QED BY <1>3, <1>8, <1>9, LedgerAssumption
<1>11. WithinCapacity(m)
  BY <1>5, <1>10 DEF WithinCapacity
<1> QED BY <1>11 DEF PruneAt

\* reserveActiveCapacity
LEMMA ReserveWithin ==
  ASSUME now \in Nat, NEW l \in LedgerType, OrdersDiffer(l), WithinCapacity(l)
  PROVE  WithinCapacity(ReserveActiveCapacity(l))
<1> DEFINE pruned == PruneAt(l)
<1>1. pruned \in LedgerType /\ WithinCapacity(pruned)
  BY PruneAtKeeps, PruneAtWithin DEF Keeps
<1> QED BY <1>1, OldestPresent, MoveWithin DEF ReserveActiveCapacity

\* Every step keeps the tables within their capacities.
LEMMA CapacityStep ==
  ASSUME LedgerInv, WithinCapacity(ledger), [Next]_vars
  PROVE  WithinCapacity(ledger')
<1>1. ledger \in LedgerType /\ now \in Nat /\ OrdersDiffer(ledger)
  BY TypeFacts, RecordedOrdersDiffer DEF LedgerInv, Recorded
<1> DEFINE l == PruneExpiredTombstones(ledger)
           m == ReserveActiveCapacity(l)
<1>2. l \in LedgerType /\ m \in LedgerType /\ OrdersDiffer(l)
  BY LookedFacts, RecordedOrdersDiffer DEF Recorded
<1>3. WithinCapacity(l) /\ WithinCapacity(m)
  BY <1>1, <1>2, PruneExpiredWithin, ReserveWithin
<1>4. ASSUME NEW c \in Command, TombstoneAnswers(c) \/ EntryAnswers(c) \/ Refuses(c)
      PROVE  WithinCapacity(ledger')
  <2>1. \/ ledger' \in {l, m}
        \/ ledger' = MoveActiveEntryToTombstone(l, c.key) /\ l.active[c.key].order # 0
    BY <1>4 DEF TombstoneAnswers, EntryAnswers, Refuses
  <2>2. CASE ledger' = MoveActiveEntryToTombstone(l, c.key) /\ l.active[c.key].order # 0
    <3>1. c.key \in Present(l.active)
      BY <2>2 DEF Present, Command
    <3> QED BY <1>1, <1>2, <1>3, <2>2, <3>1, MoveWithin
  <2> QED BY <1>3, <2>1, <2>2
<1>5. ASSUME NEW c \in Command, Executes(c)
      PROVE  WithinCapacity(ledger')
  <2>1. c.key \in Keys /\ ledger' = [m EXCEPT !.active[c.key] = NewEntry(c)] /\ ~Full(m)
    BY <1>5 DEF Executes, Command
  <2> HIDE DEF m
  <2>2. /\ ledger'.tombstones = m.tombstones
        /\ \A k \in Keys : k # c.key => ledger'.active[k] = m.active[k]
    BY <1>2, <2>1 DEF LedgerType
  <2> DEFINE P == Present(m.active)
  <2>3. Present(ledger'.active) \subseteq P \cup {c.key} /\ P \subseteq Keys /\ P \cup {c.key} \subseteq Keys
    BY <2>1, <2>2 DEF Present
  <2>4. ~(Cardinality(P) >= ActiveCapacity)
    BY <2>1 DEF Full
  <2> HIDE DEF P
  <2>5. /\ Cardinality(Present(ledger'.active)) <= Cardinality(P \cup {c.key})
        /\ Cardinality(P \cup {c.key}) <= Cardinality(P) + 1
    BY <2>1, <2>3, KeysCounted
  <2>6. /\ Cardinality(Present(ledger'.active)) \in Nat /\ Cardinality(P) \in Nat
        /\ Cardinality(P \cup {c.key}) \in Nat
    <3>1. Present(ledger'.active) \subseteq Keys
      BY DEF Present
    <3> QED BY <2>3, <3>1, KeysCounted
  <2>7. Cardinality(Present(ledger'.active)) <= ActiveCapacity
    BY <2>4, <2>5, <2>6, LedgerAssumption
  <2> QED BY <1>3, <2>2, <2>7 DEF WithinCapacity
<1>6. ASSUME NEW o \in running, HandlerReturns(o) \/ HandlerThrows(o)
      PROVE  WithinCapacity(ledger')
  <2>1. ASSUME NEW status \in Statuses, IsOwnEntry(o)
        PROVE  /\ Marked(o, status) \in LedgerType /\ WithinCapacity(Marked(o, status))
               /\ run[o].key \in Present(Marked(o, status).active)
    <3> DEFINE n == Marked(o, status)
    <3>1. /\ run[o].key \in Keys /\ o # 0 /\ ledger.active[run[o].key].order = o
      BY <2>1, TypeFacts DEF LedgerInv, RunsRecorded, Started, IsOwnEntry, EntryOf
    <3>2. /\ n \in LedgerType /\ n.tombstones = ledger.tombstones
          /\ \A k \in Keys : n.active[k].order = ledger.active[k].order
      BY <1>1, <2>1, <3>1 DEF Marked, LedgerType, ActiveEntry
    <3> HIDE DEF n
    <3>3. Present(n.active) = Present(ledger.active) /\ run[o].key \in Present(n.active)
      BY <3>1, <3>2 DEF Present
    <3>4. WithinCapacity(n)
      BY <3>2, <3>3 DEF WithinCapacity
    <3> QED BY <3>2, <3>3, <3>4 DEF n
  <2>2. \/ ledger' = ledger
        \/ IsOwnEntry(o) /\ ledger' \in {Marked(o, "completed"), MarkedUnknown(o)}
    BY <1>6 DEF HandlerReturns, HandlerThrows
  <2>3. IsOwnEntry(o) => WithinCapacity(Marked(o, "completed")) /\ WithinCapacity(MarkedUnknown(o))
    <3>1. "completed" \in Statuses /\ "unknown_side_effect" \in Statuses
      BY DEF Statuses
    <3> QED BY <1>1, <2>1, <3>1, MoveWithin DEF MarkedUnknown
  <2> QED BY <2>2, <2>3
<1>7. CASE Prune
  BY <1>1, <1>7, PruneAtWithin DEF Prune
<1>8. CASE Tick \/ UNCHANGED vars
  BY <1>8 DEF Tick, vars
<1> QED BY <1>4, <1>5, <1>6, <1>7, <1>8 DEF Next, ExecuteMutating

\* Neither table outgrows its capacity, no key is in both, and no entry is completed
\* while its handler runs, whatever executeMutating evicts, moves or prunes.
THEOREM TablesCorrect == Spec => []TablesAreSound
<1>1. Init => WithinCapacity(ledger)
  <2> SUFFICES ASSUME Init PROVE WithinCapacity(ledger)
    OBVIOUS
  <2>1. Present(ledger.active) = {} /\ Present(ledger.tombstones) = {}
    BY AbsentTyped DEF Init, Present
  <2> QED BY <2>1, FS_EmptySet, LedgerAssumption DEF WithinCapacity
<1>2. LedgerInv /\ WithinCapacity(ledger) /\ [Next]_vars => WithinCapacity(ledger)'
  BY CapacityStep DEF WithinCapacity
<1>3. LedgerInv /\ WithinCapacity(ledger) => TablesAreSound
  BY DEF LedgerInv, Recorded, OneTable, CompletedSettled, CompletedByItsOwnHandler,
         WithinCapacity, TablesAreSound
<1> QED BY <1>1, <1>2, <1>3, LedgerCorrect, PTL DEF Spec
=============================================================================
