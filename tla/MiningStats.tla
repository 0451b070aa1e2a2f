----------------------------- MODULE MiningStats -----------------------------
(***************************************************************************)
(* The statistics of a mining phase: any thread counts an event at any     *)
(* time, and at the end of a phase one thread adds the phase's counter to  *)
(* that of the epoch and clears it, in three steps without a lock.  The    *)
(* five counters (tasks, shares, valid, invalid, duplicated) go through    *)
(* the same steps one by one; this is one of them.                         *)
(***************************************************************************)
EXTENDS Integers

CONSTANT MaxEvents        \* bound: events of a behaviour

VARIABLES
  phaseV2, lastPhases,    \* the counter, of the phase and of the phases before
  reset, loaded,          \* phaseResetAndEpochAccumulate: where it is, what it loaded
  events, late            \* history: events of the epoch; those after the last load

statsVars == <<phaseV2, lastPhases, reset, loaded, events, late>>

StatsInit ==
  /\ phaseV2 = 0 /\ lastPhases = 0
  /\ reset = "idle" /\ loaded = 0
  /\ events = 0 /\ late = 0

\* External: an atomic increment by a thread that handles a task or a solution.
Event ==
  /\ events < MaxEvents
  /\ phaseV2' = phaseV2 + 1 /\ events' = events + 1
  /\ late' = IF reset = "idle" THEN late ELSE late + 1
  /\ UNCHANGED <<lastPhases, reset, loaded>>

Load ==
  /\ reset = "idle" /\ loaded' = phaseV2 /\ reset' = "add"
  /\ UNCHANGED <<phaseV2, lastPhases, events, late>>

\* Mutant: what is added is read again.
AccumulateAgain ==
  /\ reset = "add" /\ lastPhases' = lastPhases + phaseV2 + loaded /\ reset' = "clear"
  /\ UNCHANGED <<phaseV2, loaded, events, late>>

Accumulate ==
  /\ reset = "add" /\ lastPhases' = lastPhases + loaded /\ reset' = "clear"
  /\ UNCHANGED <<phaseV2, loaded, events, late>>

Clear ==
  /\ reset = "clear" /\ phaseV2' = 0 /\ reset' = "idle"
  /\ UNCHANGED <<lastPhases, loaded, events, late>>

EpochReset ==
  /\ reset = "idle"
  /\ phaseV2' = 0 /\ lastPhases' = 0 /\ events' = 0 /\ late' = 0
  /\ UNCHANGED <<reset, loaded>>

StatsNext == Event \/ Load \/ Accumulate \/ Clear \/ EpochReset

StatsSpec == StatsInit /\ [][StatsNext]_statsVars

-----------------------------------------------------------------------------
\* Between resets the two counters together hold every event of the epoch but those that
\* came while a reset was at work, and never more than there were.
EventsAccounted ==
  reset = "idle" => lastPhases + phaseV2 = events - late
=============================================================================
