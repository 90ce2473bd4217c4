-------------------------- MODULE ConsumptionSeries ---------------------------
(***************************************************************************)
(* validate_consumption_series: what the rows of one source say about each *)
(* other.  A candidate is [record, position]; a grid is [interval, anchor] *)
(* or NoGrid.                                                              *)
(***************************************************************************)
EXTENDS Integers, FiniteSets, Sequences, SequencesExt, Enumeration

CONSTANT NoGrid

\* An IntervalGrid: its interval is positive.
IsGrid(grid) == grid.interval \in Nat \ {0} /\ grid.anchor \in Int

IsAligned(grid, t) == (t - grid.anchor) % grid.interval = 0

StepCountRoundedUp(grid, earlier, later) ==   \* mutant: both ends are counted
  (later - earlier) \div grid.interval + 1
StepCountBetween(grid, earlier, later) == (later - earlier) \div grid.interval

GridOffset(grid, t, steps) == t + grid.interval * steps

Candidate(record, position) == [record |-> record, position |-> position]

ConsumptionGap(consumer, first, last, count) ==
  [consumer |-> consumer, first |-> first, last |-> last, count |-> count]

Key(candidate) == <<candidate.record.consumer, candidate.record.timestamp>>

LaterDuplicateIndexes(candidates) ==   \* mutant: the first of a group wins
  {i \in DOMAIN candidates : \E j \in 1 .. i - 1 : Key(candidates[i]) = Key(candidates[j])}

\* Every member of a group that shares a key.
DuplicateIndexes(candidates) ==
  {i \in DOMAIN candidates : \E j \in DOMAIN candidates \ {i} :
     Key(candidates[i]) = Key(candidates[j])}

DuplicateTimestampIssue(position) ==
  [position |-> position, code |-> "consumption_duplicate_timestamp"]

IntervalMisalignedIssue(position) ==
  [position |-> position, code |-> "consumption_interval_misaligned"]

GapBetween(consumer, previous, current, grid) ==
  LET steps == StepCountBetween(grid, previous, current)
  IN  IF steps <= 1 THEN << >>
      ELSE <<ConsumptionGap(consumer, GridOffset(grid, previous, 1),
                            GridOffset(grid, current, -1), steps - 1)>>

\* Between neighbours of one consumer's sorted timestamps; the code lists the consumers
\* in order, the model keeps a set.
DetectGaps(candidates, grid) ==
  LET stamps(c) == InOrder({candidates[i].record.timestamp :
                       i \in {k \in DOMAIN candidates : candidates[k].record.consumer = c}})
      consumers == {candidates[i].record.consumer : i \in DOMAIN candidates}
  IN  IF grid = NoGrid THEN {}
      ELSE UNION {UNION {ToSet(GapBetween(c, stamps(c)[i], stamps(c)[i + 1], grid)) :
                           i \in 1 .. Len(stamps(c)) - 1} : c \in consumers}

MisalignedIndexes(candidates, grid) ==
  {i \in DOMAIN candidates : grid # NoGrid /\ ~IsAligned(grid, candidates[i].record.timestamp)}

\* A duplicate is reported as one whether or not it is aligned; gaps are those of the rest.
ValidateConsumptionSeries(candidates, grid) ==
  LET duplicate == DuplicateIndexes(candidates)
      faulty    == duplicate \cup MisalignedIndexes(candidates, grid)
      issues    == InOrder(faulty)
      valid     == InOrder(DOMAIN candidates \ faulty)
      surviving == [i \in DOMAIN valid |-> candidates[valid[i]]]
  IN  [valid  |-> surviving,
       issues |-> [i \in DOMAIN issues |->
                     IF issues[i] \in duplicate
                     THEN DuplicateTimestampIssue(candidates[issues[i]].position)
                     ELSE IntervalMisalignedIssue(candidates[issues[i]].position)],
       gaps   |-> DetectGaps(surviving, grid)]
===============================================================================
