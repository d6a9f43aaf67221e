-------------------------------- MODULE Windows --------------------------------
(***************************************************************************)
(* WatermarkBounds beside DeltaCycle, whose names it shares: the window    *)
(* that a cycle reads under a name of its own, and what is checked and     *)
(* proved of it.                                                           *)
(***************************************************************************)
CONSTANTS Kinds, MaxRows, MaxGone, MaxNow, Day, SafetySecs, SafetyUnits, Skew, Base, Width, NoValue

VARIABLES kind, now, value, open, gone, adopted, replica, wm, cycle

windowVars == <<kind, now, value, open, gone, adopted, replica, wm, cycle>>

Win == INSTANCE WatermarkBounds WITH target <- replica, Null <- NoValue

ASSUME WindowAssumption == Win!BoundsAssumption

WindowSpec == Win!Init /\ [][Win!Next]_windowVars

\* ComputeBounds, DecideWatermark and the predicate of run_watermark: a cycle that
\* commits leaves no row behind that was there when it began.
CycleTakesAll == Win!CycleTakesAll

\* A reload of a date column reads the day in progress, too.
TargetKeepsRows == Win!TargetKeepsRows

\* DecideWatermark: forward only, in the order of the column.
PositionMovesForward == Win!PositionMovesForward
===============================================================================
