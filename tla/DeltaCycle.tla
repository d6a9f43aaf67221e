------------------------------ MODULE DeltaCycle ------------------------------
(***************************************************************************)
(* One WATERMARK target, the executors that replicate it and the server    *)
(* that owns its row of _erpl_rev_delta_state.                             *)
(*                                                                         *)
(* An executor is one run of zcl_erpl_rev_delta=>run in an SAP work        *)
(* process: take the advisory lease, BEGIN_CYCLE, read the source page by  *)
(* page into this run's staging table, CYCLE_COMMIT, and on any error the  *)
(* executor's own release.  BEGIN_CYCLE and CYCLE_COMMIT are cycle::Begin  *)
(* and cycle::Commit in the server.  Every RFC call has a connection of    *)
(* its own and each SQL statement outside Commit's transaction commits by  *)
(* itself, so the steps of several executors interleave.                   *)
(*                                                                         *)
(* Abstractions.  A row is a key and the change time it carries; time 0 in *)
(* a table means the key is absent.  Time is counted in units in which     *)
(* Safety, LeaseTtl and MaxCycle are small.  The change log is kept as the *)
(* table a subscriber obtains by replaying it.  Statements that no other   *)
(* step can tell apart are one action.                                     *)
(***************************************************************************)
EXTENDS Integers, FiniteSets

CONSTANTS
    Executor,          \* work processes that run cycles for the target
    LastKey,           \* the source's keys are 1..LastKey, in keyset order
    Safety,            \* safety_secs of the registration
    Late,              \* longest delay between a row's stamp and its commit
    LeaseTtl,          \* c_lease_ttl of the executor
    MaxCycle,          \* max_cycle_secs of the registration
    LoadTypes,         \* load types that callers ask for
    Default,           \* load_type_default of the registration
    AllowEmptyReload,  \* allow_empty_reload of the registration
    Overrun,           \* TRUE: a live cycle may outlast MaxCycle
    MaxClock, MaxRun, MaxFail, MaxChanges, MaxFaults    \* bounds

ASSUME DeltaCycleAssumption ==
    /\ LastKey \in Nat \ {0}
    /\ Safety \in Nat /\ Late \in Nat /\ LeaseTtl \in Nat /\ MaxCycle \in Nat
    /\ LoadTypes \subseteq {"D", "F", "L", "I"}
    /\ Default \in {"D", "F", "L", "I"}
    /\ AllowEmptyReload \in BOOLEAN /\ Overrun \in BOOLEAN
    /\ MaxClock \in Nat /\ MaxRun \in Nat
    /\ MaxFail \in Nat /\ MaxChanges \in Nat /\ MaxFaults \in Nat

VARIABLES
    clock,             \* now(); SAP and server agree on it
    source,            \* the SAP table: committed change time of each key
    pending,           \* stamped by an open SAP transaction, not yet visible
    changes, faults,   \* changes made at the source, failures met (bounded)
    state,             \* the target's row in _erpl_rev_delta_state
    stats,             \* _erpl_rev_run_stats, by run id
    nextRun,           \* _erpl_rev_run_seq
    stage,             \* staging tables, by run id
    target,            \* the replicated table
    replay,            \* what replaying the change log yields
    pc, run, ltype,    \* executor: position, run id, load type
    plan,              \* executor: floor and next watermark from Begin
    page,              \* executor: next key to read
    shape              \* executor's commit: facts read before the transaction

sap     == <<source, pending, changes>>
server  == <<state, stats, nextRun, stage, target, replay>>
local   == <<run, ltype, plan, page, shape>>
vars    == <<clock, sap, server, pc, local, faults>>

-------------------------------------------------------------------------------
Key     == 1 .. LastKey
Run     == 1 .. MaxRun
NoRun   == 0
Null    == 0                     \* an empty wm_value, lease_ts or change time
NoRows  == [k \in Key |-> Null]
NoTable == [there |-> FALSE, rows |-> NoRows]
NoStats == [status |-> "NONE", ts |-> Null, type |-> "D", to |-> Null]
NoPlan  == [floor |-> Null, to |-> Null]
NoShape == [staged |-> FALSE, target |-> FALSE, wm |-> Null]

\* A closed run's row: of what it records only the status is read again.
Closed(status) == [NoStats EXCEPT !.status = status]

Later(a, b) == IF a > b THEN a ELSE b

\* PlanLoad: what each load type reads, removes and does to the position.
PlanLoad(t) ==
    [truncate |-> t \in {"F", "L"}, read    |-> t # "I", floor |-> t = "D",
     advance  |-> t \in {"L", "D"}, seed    |-> t = "I"]

\* Mutants of ComputeBounds: the ceiling counted from the watermark, and no
\* margin below the read start.
CeilingFromWatermark(t, wm, s) ==
    [floor |-> IF PlanLoad(t).floor /\ wm # Null THEN wm - Safety ELSE Null,
     to    |-> wm - Safety]

NoReadMargin(t, wm, s) ==
    [floor |-> IF PlanLoad(t).floor /\ wm # Null THEN wm - Safety ELSE Null,
     to    |-> s]

\* ComputeBounds for the kinds that hold a UTC time stamp, at read start s.
ComputeBounds(t, wm, s) ==
    [floor |-> IF PlanLoad(t).floor /\ wm # Null THEN wm - Safety ELSE Null,
     to    |-> s - Safety]

BumpFail(n) == IF n < MaxFail THEN n + 1 ELSE n

\* Control points at which a run has an open statistics row.
InCycle == {"claim", "stage", "read", "commit", "apply"}

-------------------------------------------------------------------------------
Init ==
    /\ clock = Safety + 1
    /\ source \in [Key -> {Null, 1}]
    /\ pending = NoRows
    /\ changes = 0
    /\ faults = 0
    /\ state = [wm |-> Null, status |-> "IDLE", lease |-> Null,
                active |-> NoRun, fail |-> 0, spent |-> FALSE]
    /\ stats = [r \in Run |-> NoStats]
    /\ nextRun = 1
    /\ stage = [r \in Run |-> NoTable]
    /\ target = NoTable
    /\ replay = NoRows
    /\ pc = [w \in Executor |-> "idle"]
    /\ run = [w \in Executor |-> NoRun]
    /\ ltype = [w \in Executor |-> "D"]
    /\ plan = [w \in Executor |-> NoPlan]
    /\ page = [w \in Executor |-> 1]
    /\ shape = [w \in Executor |-> NoShape]

\* One more failure that no rule of the protocol asks for.
Fault == faults < MaxFaults /\ faults' = faults + 1

Goto(w, p) == pc' = [pc EXCEPT ![w] = p]

\* The executor has left the cycle; what it remembers of it is only which run
\* it was, and nothing once its call is over.
Drop(w) ==
    /\ ltype' = [ltype EXCEPT ![w] = "D"]
    /\ plan' = [plan EXCEPT ![w] = NoPlan]
    /\ page' = [page EXCEPT ![w] = 1]
    /\ shape' = [shape EXCEPT ![w] = NoShape]

GiveUp(w) == Goto(w, "failed") /\ Drop(w) /\ UNCHANGED run
Leave(w)  == Goto(w, "idle") /\ Drop(w) /\ run' = [run EXCEPT ![w] = NoRun]

-------------------------------------------------------------------------------
(* The SAP side and the clock. *)

Stamp(k) ==
    /\ pending[k] = Null
    /\ changes < MaxChanges
    /\ changes' = changes + 1
    /\ pending' = [pending EXCEPT ![k] = clock]
    /\ UNCHANGED <<clock, source, server, pc, local, faults>>

SapCommit(k) ==
    /\ pending[k] # Null
    /\ source' = [source EXCEPT ![k] = pending[k]]
    /\ pending' = [pending EXCEPT ![k] = Null]
    /\ UNCHANGED <<clock, changes, server, pc, local, faults>>

SapDelete(k) ==
    /\ source[k] # Null
    /\ pending[k] = Null
    /\ changes < MaxChanges
    /\ changes' = changes + 1
    /\ source' = [source EXCEPT ![k] = Null]
    /\ UNCHANGED <<clock, pending, server, pc, local, faults>>

\* Time passes, but no SAP transaction stays open longer than Late and, unless
\* Overrun, no live cycle outlasts its budget.
Tick ==
    /\ clock < MaxClock
    /\ \A k \in Key : pending[k] # Null => clock - pending[k] < Late
    /\ Overrun \/ \A w \in Executor :
          pc[w] \in InCycle => clock - stats[run[w]].ts < MaxCycle
    /\ clock' = clock + 1
    /\ UNCHANGED <<sap, server, pc, local, faults>>

-------------------------------------------------------------------------------
(* The executor's advisory lease: a check, then an assignment. *)

LeaseHeld ==
    /\ state.status = "RUNNING"
    /\ state.lease # Null
    /\ state.lease >= clock - LeaseTtl

CheckLease(w) ==
    /\ pc[w] = "idle"
    /\ ~LeaseHeld
    /\ Goto(w, "take")
    /\ UNCHANGED <<clock, sap, server, local, faults>>

TakeLease(w) ==
    /\ pc[w] = "take"
    /\ state' = [state EXCEPT !.status = "RUNNING", !.lease = clock]
    /\ Goto(w, "begin")
    /\ UNCHANGED <<clock, sap, stats, nextRun, stage, target, replay, local,
                   faults>>

-------------------------------------------------------------------------------
(* BEGIN_CYCLE. *)

\* Read the row, compute the bounds from it and the clock, draw a run id.
BeginLoad(w, t) ==
    /\ pc[w] = "begin"
    /\ nextRun <= MaxRun
    /\ ltype' = [ltype EXCEPT ![w] = t]
    /\ plan' = [plan EXCEPT ![w] = ComputeBounds(t, state.wm, clock)]
    /\ run' = [run EXCEPT ![w] = nextRun]
    /\ nextRun' = nextRun + 1
    /\ Goto(w, "open")
    /\ UNCHANGED <<clock, sap, state, stats, stage, target, replay,
                   page, shape, faults>>

\* Mutant of Retired: every open run is presumed dead, whatever its age.
RetiredAtSight(q) ==
    IF stats[q].status = "RUNNING"
    THEN [stats[q] EXCEPT !.status = "ABANDONED"] ELSE stats[q]

Retired(q) ==
    IF stats[q].status = "RUNNING" /\ stats[q].ts < clock - MaxCycle
    THEN [stats[q] EXCEPT !.status = "ABANDONED"] ELSE stats[q]

\* Retire the runs presumed dead, drop the stage of every run that is not
\* RUNNING, open this run's statistics row.
OpenRun(w) ==
    /\ pc[w] = "open"
    /\ stage' = [q \in Run |->
                    IF Retired(q).status = "RUNNING" THEN stage[q] ELSE NoTable]
    /\ stats' = [[q \in Run |-> Retired(q)] EXCEPT ![run[w]] =
                    [status |-> "RUNNING", ts |-> clock,
                     type |-> ltype[w], to |-> plan[w].to]]
    /\ Goto(w, "claim")
    /\ UNCHANGED <<clock, sap, state, nextRun, target, replay, local,
                   faults>>

Claimable ==
    \/ state.active = NoRun
    \/ state.lease = Null
    \/ state.lease < clock - MaxCycle

\* The compare-and-swap on active_run_id.
Claim(w) ==
    /\ pc[w] = "claim"
    /\ Claimable
    /\ state' = [state EXCEPT !.status = "RUNNING", !.lease = clock,
                              !.active = run[w]]
    /\ Goto(w, IF PlanLoad(ltype[w]).read THEN "stage" ELSE "commit")
    /\ UNCHANGED <<clock, sap, stats, nextRun, stage, target, replay, local,
                   faults>>

ClaimRefused(w) ==
    /\ pc[w] = "claim"
    /\ ~Claimable
    /\ stats' = [stats EXCEPT ![run[w]] = NoStats]
    /\ GiveUp(w)
    /\ UNCHANGED <<clock, sap, state, nextRun, stage, target, replay, faults>>

-------------------------------------------------------------------------------
(* Reading: replicate() into the stage, one keyset page after another. *)

CreateStage(w) ==
    /\ pc[w] = "stage"
    /\ stage' = [stage EXCEPT ![run[w]] = [there |-> TRUE, rows |-> NoRows]]
    /\ Goto(w, "read")
    /\ UNCHANGED <<clock, sap, state, stats, nextRun, target, replay, local,
                   faults>>

\* The page has a row for the stage; one that has none sends nothing.
Found(w) == source[page[w]] # Null /\ source[page[w]] > plan[w].floor

ReadPage(w) ==
    LET k == page[w] IN
    /\ pc[w] = "read"
    /\ Found(w) => stage[run[w]].there
    /\ stage' = [stage EXCEPT ![run[w]].rows[k] =
                    IF Found(w) THEN source[k] ELSE Null]
    /\ IF k = LastKey
       THEN Goto(w, "commit") /\ UNCHANGED page
       ELSE page' = [page EXCEPT ![w] = k + 1] /\ UNCHANGED pc
    /\ UNCHANGED <<clock, sap, state, stats, nextRun, target, replay,
                   run, ltype, plan, shape, faults>>

-------------------------------------------------------------------------------
(* CYCLE_COMMIT. *)

\* Mutant of DecideWatermark: no forward-only rule.
WatermarkAsPlanned(r) ==
    LET p == PlanLoad(stats[r].type) IN
    IF p.advance \/ p.seed THEN stats[r].to ELSE state.wm

\* The new watermark of a time-stamp kind: the ceiling fixed by Begin, forward
\* only; a repair (F) keeps the position.
DecideWatermark(r) ==
    LET p == PlanLoad(stats[r].type) IN
    IF p.advance \/ p.seed THEN Later(stats[r].to, state.wm) ELSE state.wm

RecordError(r) ==
    stats' = IF stats[r].status = "RUNNING"
             THEN [stats EXCEPT ![r] = Closed("ERROR")] ELSE stats

\* ReleaseFailedCycle: fenced on the run id.
ReleaseFailedCycle(r) ==
    state' = IF state.active = r
             THEN [state EXCEPT !.fail = BumpFail(@), !.status = "ERROR",
                                !.active = NoRun]
             ELSE state

\* The reload checks that come before the transaction.
ReloadRefused(w) ==
    LET st == stage[run[w]] IN
    /\ PlanLoad(stats[run[w]].type).truncate
    /\ target.there
    /\ \/ ~st.there
       \/ ~AllowEmptyReload /\ st.rows = NoRows /\ target.rows # NoRows

\* The run lost the target before it came to commit.
CommitDisowned(w) ==
    /\ pc[w] = "commit"
    /\ state.active # run[w]
    /\ RecordError(run[w])
    /\ GiveUp(w)
    /\ UNCHANGED <<clock, sap, state, nextRun, stage, target, replay, faults>>

\* DeriveMergeShape, and the watermark with it: facts about this moment.
MergeShape(w) ==
    [staged |-> stage[run[w]].there, target |-> target.there,
     wm |-> DecideWatermark(run[w])]

CommitCheck(w) ==
    /\ pc[w] = "commit"
    /\ state.active = run[w]
    /\ ~ReloadRefused(w)
    /\ shape' = [shape EXCEPT ![w] = MergeShape(w)]
    /\ Goto(w, "apply")
    /\ UNCHANGED <<clock, sap, server, run, ltype, plan, page, faults>>

\* Mutant of CanApply: the watermark's UPDATE names the target only.
CanApplyUnfenced(w) ==
    /\ shape[w].staged => stage[run[w]].there
    /\ shape[w].staged /\ ~shape[w].target => ~target.there

\* The tables are still what the shape says, and the run still owns the target:
\* otherwise a statement of the transaction fails and all of it is rolled back.
CanApply(w) ==
    /\ state.active = run[w]
    /\ shape[w].staged => stage[run[w]].there
    /\ shape[w].staged /\ ~shape[w].target => ~target.there

Merged(old, new) == [k \in Key |-> IF new[k] # Null THEN new[k] ELSE old[k]]

\* The run is a reload of a target that was there.
Replaces(w) == PlanLoad(stats[run[w]].type).truncate /\ shape[w].target

\* Mutant of Gone: every run counts what it did not stage as deleted.
AbsentFromStage(w) == {k \in Key : /\ target.rows[k] # Null
                                   /\ stage[run[w]].rows[k] = Null}

\* What a reload's anti-join finds: target rows the stage does not carry.
Gone(w) == {k \in Key : /\ Replaces(w)
                        /\ target.rows[k] # Null
                        /\ stage[run[w]].rows[k] = Null}

\* Mutant of Spends: a run of any load type spends the registration's.
SpendsAnyType(w) ==
    /\ \/ Replaces(w)
       \/ shape[w].staged /\ ~shape[w].target
       \/ PlanLoad(stats[run[w]].type).seed
    /\ Default # "D"

\* The run has done what load_type_default asks for.
Spends(w) ==
    LET type == stats[run[w]].type IN
    /\ \/ Replaces(w)
       \/ shape[w].staged /\ ~shape[w].target
       \/ PlanLoad(type).seed
    /\ Default # "D" /\ Default = type

\* The log: a deletion for every row gone, then every staged row.
Logged(w) ==
    Merged([k \in Key |-> IF k \in Gone(w) THEN Null ELSE replay[k]],
           stage[run[w]].rows)

\* The transaction: delete for a reload, append the log, merge, advance the
\* watermark under the fence, spend the one-shot load type, close the run.
\* Its answer may be lost on the way back to the executor.
Apply(w) ==
    LET r == run[w] IN
    /\ pc[w] = "apply"
    /\ CanApply(w)
    /\ IF shape[w].staged
       THEN /\ target' = [there |-> TRUE,
                          rows |-> Merged(IF Replaces(w) THEN NoRows ELSE target.rows,
                                          stage[r].rows)]
            /\ replay' = Logged(w)
       ELSE UNCHANGED <<target, replay>>
    /\ state' = [state EXCEPT !.wm = shape[w].wm, !.status = "IDLE", !.active = NoRun,
                              !.fail = 0, !.spent = @ \/ Spends(w)]
    /\ stats' = [stats EXCEPT ![r] = Closed("SUCCESS")]
    /\ stage' = [stage EXCEPT ![r] = NoTable]
    /\ \/ Leave(w) /\ UNCHANGED faults
       \/ GiveUp(w) /\ Fault
    /\ UNCHANGED <<clock, sap, nextRun>>

\* A throw anywhere in the commit: a refused reload, a duplicate staged key, a
\* lost fence, a failing statement.
CommitAborts(w) ==
    /\ \/ pc[w] = "commit" /\ state.active = run[w]
       \/ pc[w] = "apply"
    /\ IF \/ pc[w] = "commit" /\ ReloadRefused(w)
          \/ pc[w] = "apply" /\ ~CanApply(w)
       THEN UNCHANGED faults ELSE Fault
    /\ RecordError(run[w])
    /\ ReleaseFailedCycle(run[w])
    /\ GiveUp(w)
    /\ UNCHANGED <<clock, sap, nextRun, stage, target, replay>>

-------------------------------------------------------------------------------
(* The executor's error path, and failures around the calls. *)

\* release( iv_status = 'ERROR' ): by target alone.
Release(w) ==
    /\ pc[w] = "failed"
    /\ state' = [state EXCEPT !.status = "ERROR", !.fail = BumpFail(@),
                              !.active = NoRun]
    /\ Leave(w)
    /\ UNCHANGED <<clock, sap, stats, nextRun, stage, target, replay, faults>>

\* An RFC call or a SELECT fails, as a page must whose stage was dropped; what
\* the server had done so far stands.
CallFails(w) ==
    /\ pc[w] \in {"begin", "open", "claim", "stage", "read", "commit"}
    /\ IF pc[w] = "read" /\ Found(w) /\ ~stage[run[w]].there
       THEN UNCHANGED faults ELSE Fault
    /\ GiveUp(w)
    /\ UNCHANGED <<clock, sap, server>>

\* The work process or the server dies: no release is sent, and an open
\* transaction is rolled back.
Crash(w) ==
    /\ pc[w] # "idle"
    /\ Fault
    /\ Leave(w)
    /\ UNCHANGED <<clock, sap, server>>

-------------------------------------------------------------------------------
Sap == \E k \in Key : Stamp(k) \/ SapCommit(k) \/ SapDelete(k)

Begin(w)  == (\E t \in LoadTypes : BeginLoad(w, t)) \/ OpenRun(w) \/ Claim(w) \/ ClaimRefused(w)
Read(w)   == CreateStage(w) \/ ReadPage(w)
Commit(w) == CommitDisowned(w) \/ CommitCheck(w) \/ Apply(w) \/ CommitAborts(w)

Cycle(w) ==
    \/ CheckLease(w) \/ TakeLease(w) \/ Begin(w) \/ Read(w) \/ Commit(w)
    \/ Release(w) \/ CallFails(w) \/ Crash(w)

Next == Tick \/ Sap \/ \E w \in Executor : Cycle(w)

Spec == Init /\ [][Next]_vars

-------------------------------------------------------------------------------
(* Properties. *)

\* Every variable has its type (the layout of the control tables).
StateType ==
    [wm : Nat, status : {"IDLE", "RUNNING", "ERROR"}, lease : Nat,
     active : Run \cup {NoRun}, fail : 0 .. MaxFail, spent : BOOLEAN]
StatsType ==
    [status : {"NONE", "RUNNING", "SUCCESS", "ERROR", "ABANDONED"},
     ts : Nat, type : {"D", "F", "L", "I"}, to : Nat]
Rows  == [Key -> Nat]
Table == [there : BOOLEAN, rows : Rows]

TypeOK ==
    /\ clock \in Nat /\ clock > Safety
    /\ source \in Rows
    /\ pending \in Rows
    /\ changes \in 0 .. MaxChanges /\ faults \in 0 .. MaxFaults
    /\ state \in StateType
    /\ stats \in [Run -> StatsType]
    /\ nextRun \in 1 .. MaxRun + 1
    /\ stage \in [Run -> Table]
    /\ target \in Table
    /\ replay \in Rows
    /\ pc \in [Executor -> {"idle", "take", "begin", "open", "failed"} \cup InCycle]
    /\ run \in [Executor -> Run \cup {NoRun}]
    /\ ltype \in [Executor -> {"D", "F", "L", "I"}]
    /\ plan \in [Executor -> [floor : Int, to : Nat]]
    /\ page \in [Executor -> Key]
    /\ shape \in [Executor -> [staged : BOOLEAN, target : BOOLEAN, wm : Nat]]

\* A source row whose change time is at or below the next delta's floor is in
\* the target in that version: no later delta will read it again.  Begin fixes
\* the ceiling before the read, Commit merges before it stores the ceiling, and
\* the floor lies Safety below it, so late SAP commits are still read.
NoRowBelowFloorMissing ==
    \A k \in Key :
        source[k] # Null /\ state.wm # Null /\ source[k] <= state.wm - Safety
            => target.rows[k] = source[k]

\* A row of the target is never replaced by an older version of itself: a run
\* that lost the target cannot merge what it staged before its successor's read.
TargetNeverGoesBack ==
    [][\A k \in Key :
          target.rows[k] # Null /\ target'.rows[k] # Null
              => target'.rows[k] >= target.rows[k]]_target

\* Replaying the change log gives the target, deletions by a reload included.
LogReplaysTarget == replay = target.rows

\* The stored watermark never moves back, not even when a run that read the
\* clock before another one commits after it.
WatermarkForward == [][state'.wm >= state.wm]_state

\* Nobody drops the stage that a run within its budget is filling or is about
\* to merge, whoever owns the target by then.
LiveStageKept ==
    \A w \in Executor :
        \/ pc[w] \notin {"read", "commit", "apply"}
        \/ ~PlanLoad(ltype[w]).read
        \/ stage[run[w]].there

\* A one-shot load type that seeds the position is only marked as spent once a
\* position has been stored: a hand-driven repair (F) does not consume it.
SpentSeedHasPosition ==
    Default \in {"L", "I"} /\ state.spent => state.wm # Null

\* An executor's error path leaves the target alone when another run owns it:
\* every write of a cycle to the row is fenced on the run id.
ReleaseLeavesOtherOwner ==
    [][\A w \in Executor :
          Release(w) /\ state.active \notin {NoRun, run[w]} => state' = state]_vars
===============================================================================
