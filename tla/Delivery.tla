------------------------------- MODULE Delivery --------------------------------
(***************************************************************************)
(* The ways in which rows reach a table, and are checked there, beside the *)
(* delta cycles, under names of their own: the scans of an APE_FULL        *)
(* target, the subscriptions of a change log, the mass load, the           *)
(* validation.  They share no state.                                       *)
(***************************************************************************)

CONSTANTS
    ScanKeys, NoRow, Images, MaxScans, FullFaults,                              \* scans
    LogKeys, Subs, Drivers, Writers, First, Deduped, MaxSeq, MaxCreates,        \* subscriptions
    Tables, Limits, Days, PerPackage, MaxAttempts, MaxLoads, LoadFaults,        \* mass loads
    RowKeys, Prints, MaxRows, SampleRows                                        \* validations

VARIABLES
    images, fJob, fCall, fStage, fTarget, merged, fFaults,
    nextSeq, writing, log, past, sub, got, pCall, creates,
    mSource, portions, covers, coord, st, jobs, heap, keyed, mFaults,
    vSource, replica, window, mode, verdict

fullVars == <<images, fJob, fCall, fStage, fTarget, merged, fFaults>>
logVars  == <<nextSeq, writing, log, past, sub, got, pCall, creates>>
loadVars == <<mSource, portions, covers, coord, st, jobs, heap, keyed, mFaults>>
checked  == <<vSource, replica, window, mode, verdict>>

Full == INSTANCE ApeFull WITH Keys <- ScanKeys, Null <- NoRow, MaxFaults <- FullFaults,
    job <- fJob, call <- fCall, stage <- fStage, target <- fTarget, faults <- fFaults

Log == INSTANCE Publish WITH Keys <- LogKeys, call <- pCall

Mass == INSTANCE MassLoad WITH MaxFaults <- LoadFaults, source <- mSource, faults <- mFaults

Val == INSTANCE Validation WITH source <- vSource

ASSUME ImagesAssumption == Full!ImagesAssumption

ASSUME PublishAssumption == Log!PublishAssumption

ASSUME LoadAssumption == Mass!LoadAssumption

ASSUME ValidationAssumption == Val!ValidationAssumption

\* APE_FULL: the target is at all times the whole image of one scan.
TargetIsOneScan == Full!TargetIsOneScan

\* publish.cpp: a row that a subscription owes is in its sink, ahead of its offset
\* in the log, or replaced by a later one of its key.
NothingOwedIsGone == Log!NothingOwedIsGone

\* split_planner.cpp and the ranges of the report: each value to be covered falls
\* into one portion.
EachValueInOnePortion == Mass!EachValueInOnePortion

\* replicate_portions: a load that reports success has brought every row once.
SuccessIsComplete == Mass!SuccessIsComplete

\* VALIDATE: PASSED means that the replica holds the rows that were compared, and a
\* full validation fails only for a difference.
PassedMeansSame == Val!PassedMeansSame
===============================================================================
