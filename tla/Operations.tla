------------------------------ MODULE Operations -------------------------------
(***************************************************************************)
(* What surrounds the cycles and the command queue, under names of their   *)
(* own: the cursors of the SQL console, `setup`, and the plan of one tick. *)
(* They share no state.                                                    *)
(***************************************************************************)
EXTENDS TickPlanner

CONSTANTS
    Callers, Chunks, MaxOpen, MaxHandles, NoCaller,                             \* cursors
    Assets, Util, Diag, SetupClass, Mkfm, Ids, MaxRuns, SetupFaults             \* setup

VARIABLES
    open, counter, cur, call, sent, ended,
    sap, served, run, runs, sFaults,
    planned            \* the rows that a tick reads, <<>> for none

cursorVars == <<open, counter, cur, call, sent, ended>>
setupVars  == <<sap, served, run, runs, sFaults>>

Cur == INSTANCE Cursors WITH Nobody <- NoCaller

Set == INSTANCE Setup WITH MaxFaults <- SetupFaults, faults <- sFaults

ASSUME CursorsAssumption == Cur!CursorsAssumption

ASSUME SetupAssumption == Set!SetupAssumption

\* ProducePage and FetchCursor: one thread at a time is inside a result, and none
\* once its cursor is destroyed.
OneThreadPerResult == Cur!OneThreadPerResult

\* The pages of a handle are the result in order, and one that says done ends it.
PagesInOrder == Cur!PagesInOrder

\* RunSetup: a run that carried out its plan and ends with 0 leaves what it planned.
ZeroMeansInstalled == Set!ZeroMeansInstalled

\* PlanTick: a slot stays free only for full loads beyond their share, and a trigger
\* target that waits is not shut out.
SlotsAreUsed == planned # <<>> => SlotsUsed(planned)

\* PlanTick: within a tier the planned target is no less overdue than one left out.
PriorityIsKept == planned # <<>> => PriorityKept(planned)

\* Planner and health view: a target that the planner leaves out although its
\* interval has passed and no live cycle owns it is shown as unhealthy.
SilentTargetIsUnhealthy == planned # <<>> => SilentIsUnhealthy(planned)
===============================================================================
