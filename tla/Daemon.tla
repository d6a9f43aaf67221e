-------------------------------- MODULE Daemon --------------------------------
(***************************************************************************)
(* The streaming daemon: instances of Z_ERPL_REV_DAEMON that claim the one *)
(* row of _erpl_rev_daemon, plan a tick, run its cycles and beat; the jobs *)
(* that heavy cycles are handed to; and the batch tick, the periodic job   *)
(* that decides with a query of its own what is due.                       *)
(*                                                                         *)
(* A cycle is one step that takes the lease and one that ends it: what it  *)
(* does in between is DeltaCycle and CdcTier.  Time passes in ticks, while *)
(* the processes wait or cycles run.                                       *)
(***************************************************************************)
EXTENDS TickPlanner

CONSTANTS
    Daemons,           \* jobs that may run the report
    Batch,             \* the periodic job
    Nobody,
    StaleAfter,        \* ticks after which a heartbeat is stale
    LeaseTtl,          \* c_lease_ttl
    MaxBusy,           \* ticks that a cycle holds a daemon, at the most
    Quiet,             \* a trigger cycle may find nothing to apply
    Horizon,           \* since is counted up to here
    MaxFail, MaxFaults \* bounds

ASSUME DaemonAssumption ==
    /\ Batch \notin Daemons /\ Nobody \notin Daemons
    /\ StaleAfter \in Nat /\ LeaseTtl \in 1 .. MaxCycle
    /\ MaxBusy \in 0 .. LeaseTtl /\ Quiet \in BOOLEAN
    /\ Horizon \in Nat /\ MaxFail \in Nat /\ MaxFaults \in Nat

VARIABLES
    row,               \* the row of _erpl_rev_daemon
    tgt,               \* the rows the planner reads, one for each target
    proc,              \* what each daemon and the batch tick are doing
    jobs, working,     \* targets with a worker job that waits, that runs
    passed,            \* plans of one instance, in a row, that left out a due target
    faults             \* failures met

vars == <<row, tgt, proc, jobs, working, passed, faults>>

Processes == Daemons \cup {Batch}
Off       == [pc |-> "off", todo |-> <<>>, busy |-> 0]

Idle ==
    [since |-> Never, lease |-> MaxCycle, status |-> "IDLE", fail |-> 0,
     full |-> FALSE, live |-> TRUE]

\* Targets are registered, some with a full load to do first (a trigger target
\* too, when it was a delta target before); no daemon runs.
Init ==
    /\ row = [owner |-> Nobody, status |-> "STOPPED", stop |-> FALSE, age |-> StaleAfter + 1]
    /\ \E F \in SUBSET Targets :
          tgt = [t \in Targets |-> [Idle EXCEPT !.full = t \in F]]
    /\ proc = [p \in Processes |-> Off]
    /\ jobs = {} /\ working = {}
    /\ passed = [t \in Targets |-> 0]
    /\ faults = 0

At(p, pc)  == proc[p].pc = pc
Goes(p, s) == proc' = [proc EXCEPT ![p].pc = s]
Fault      == faults < MaxFaults /\ faults' = faults + 1
NoFault    == UNCHANGED faults

Later(n, max) == IF n = Never \/ n >= max THEN n ELSE n + 1

\* How often an instance may pass over a due target: three times for each other
\* target (a trigger target's delay counts from its last cycle and so is ahead by
\* its interval; two delays beyond Horizon tie) and once for each failure.
MaxPassed == 3 * (Cardinality(Targets) - 1) + MaxFaults

\* The instance has claimed the row and has not left.
Ticking(d) == proc[d].pc # "off"

-------------------------------------------------------------------------------
(* The singleton. *)

\* Mutant of Stale: the owner of the row is not looked at.
AlwaysStale == TRUE

Stale == row.status # "RUNNING" \/ row.age > StaleAfter

\* An instance begins, by daemon start or because the batch job saw a stale
\* heartbeat: one UPDATE, then it reads back whether the row names it.  One that
\* does not get the row, or an answer, is gone.
Claim(d) ==
    /\ At(d, "off") /\ Stale
    /\ row' = [owner |-> d, status |-> "RUNNING", stop |-> FALSE, age |-> 0]
    /\ \/ Goes(d, "top") /\ NoFault
       \/ UNCHANGED proc /\ Fault
    /\ passed' = [t \in Targets |-> 0]
    /\ UNCHANGED <<tgt, jobs, working>>

\* The stop flag, read before anything else can fail.
ReadStop(d) ==
    /\ At(d, "top")
    /\ \/ Goes(d, IF row.stop THEN "release" ELSE "plan") /\ NoFault
       \/ Goes(d, "plan") /\ Fault
    /\ UNCHANGED <<row, tgt, jobs, working, passed>>

\* TICK.  A tick that cannot be planned runs nothing.
Plan(d) ==
    LET plan == IF row.stop THEN <<>> ELSE PlanTick(tgt) IN
    /\ At(d, "plan")
    /\ \/ /\ proc' = [proc EXCEPT ![d] =
                          [pc |-> IF row.stop THEN "release" ELSE "run", todo |-> plan, busy |-> 0]]
          /\ passed' = [t \in Targets |->
                           IF row.stop THEN passed[t]
                           ELSE IF Due(tgt, t) /\ ~Contains(plan, t)
                           THEN Later(passed[t], MaxPassed + 1) ELSE 0]
          /\ NoFault
       \/ Goes(d, "run") /\ Fault /\ UNCHANGED passed
    /\ UNCHANGED <<row, tgt, jobs, working>>

\* Mutant of Beat: no heartbeat between the cycles of a tick.
NoBeat(d) == UNCHANGED row

Beat(d) == row' = IF row.owner = d THEN [row EXCEPT !.age = 0] ELSE row

\* After the last cycle: the heartbeat, and the wait for the next tick, or the
\* end of an instance that was started for a duration.
EndTick(d) ==
    /\ At(d, "run") /\ proc[d].todo = <<>>
    /\ Goes(d, "wait") \/ Goes(d, "release")
    /\ \/ row' = (IF row.owner = d THEN [row EXCEPT !.age = 0] ELSE row) /\ NoFault
       \/ UNCHANGED row /\ Fault
    /\ UNCHANGED <<tgt, jobs, working, passed>>

Released(d) == row.owner = d /\ row' = [row EXCEPT !.status = "STOPPED", !.stop = FALSE]

Release(d) ==
    /\ At(d, "release")
    /\ Goes(d, "off")
    /\ \/ Released(d) /\ NoFault
       \/ row.owner # d /\ UNCHANGED <<row, faults>>
       \/ UNCHANGED row /\ Fault
    /\ UNCHANGED <<tgt, jobs, working, passed>>

\* daemon stop
RequestStop ==
    /\ ~row.stop
    /\ row' = [row EXCEPT !.stop = TRUE]
    /\ UNCHANGED <<tgt, proc, jobs, working, passed, faults>>

-------------------------------------------------------------------------------
(* Cycles. *)

\* Mutant of Leased: whoever asks gets the target.
NeverLeased(t) == FALSE

Leased(t) == tgt[t].status = "RUNNING" /\ tgt[t].lease < LeaseTtl

Took(t) == tgt' = [tgt EXCEPT ![t].status = "RUNNING", ![t].lease = 0]

Skips(p) == proc' = [proc EXCEPT ![p].todo = Tail(@)]

\* The next planned cycle of a daemon: a trigger cycle runs without a lease, a
\* delta cycle that is small, or whose job cannot be opened, runs here.
RunNext(d) ==
    LET t == Head(proc[d].todo) IN
    /\ At(d, "run") /\ proc[d].todo # <<>>
    /\ Goes(d, "cycle") /\ UNCHANGED row
    /\ \/ t \in Triggers /\ UNCHANGED tgt
       \/ t \notin Triggers /\ ~Leased(t) /\ Took(t)
    /\ UNCHANGED <<jobs, working, passed, faults>>

\* A cycle that finds the lease held is skipped.
SkipLeased(d) ==
    /\ At(d, "run") /\ proc[d].todo # <<>>
    /\ Head(proc[d].todo) \notin Triggers /\ Leased(Head(proc[d].todo))
    /\ Skips(d) /\ Beat(d)
    /\ UNCHANGED <<tgt, jobs, working, passed, faults>>

\* Mutant of Detachable: any cycle the plan marks goes to a job.
AnyDetachable(t) == TRUE

\* The job runs a delta cycle, so a trigger cycle stays here.
Detachable(t) == t \notin Triggers

\* A heavy cycle goes to a job of its own.
Detach(d) ==
    LET t == Head(proc[d].todo) IN
    /\ At(d, "run") /\ proc[d].todo # <<>>
    /\ Detachable(t)
    /\ jobs' = jobs \cup {t} /\ Skips(d) /\ Beat(d)
    /\ UNCHANGED <<tgt, working, passed, faults>>

JobStarts(t) ==
    /\ t \in jobs
    /\ jobs' = jobs \ {t}
    /\ IF Leased(t) THEN UNCHANGED <<tgt, working>>
                    ELSE Took(t) /\ working' = working \cup {t}
    /\ UNCHANGED <<row, proc, passed, faults>>

\* How a cycle leaves its target's row.  The load type came with the plan, so a
\* delta run that succeeds spends a one-shot full load; a run that fails counts,
\* and does not move last_run_ts.
Fresh(r) == [r EXCEPT !.since = 0, !.status = "IDLE", !.fail = 0]

Succeeds(t) ==
    tgt' = [tgt EXCEPT ![t] = [Fresh(@) EXCEPT !.full = tgt[t].full /\ t \in Triggers]]

FailedRow(r) == [r EXCEPT !.status = "ERROR", !.fail = IF @ < MaxFail THEN @ + 1 ELSE @]

\* A delta cycle fails or meets drift that blocks the target.  A trigger cycle
\* that cannot read the log changes nothing here; one whose apply fails also
\* parks the trigger set; one that finds nothing succeeds and changes nothing.
Ended(t) ==
    \/ Succeeds(t) /\ NoFault
    \/ /\ Fault
       /\ \/ t \notin Triggers /\ tgt' = [tgt EXCEPT ![t] = FailedRow(@)]
          \/ tgt' = [tgt EXCEPT ![t].status = "BLOCKED"]
          \/ t \in Triggers /\ tgt' = [tgt EXCEPT ![t] = [FailedRow(@) EXCEPT !.live = FALSE]]
          \/ t \in Triggers /\ UNCHANGED tgt
    \/ Quiet /\ t \in Triggers /\ UNCHANGED <<tgt, faults>>

Ends(p) == proc' = [proc EXCEPT ![p] = [pc |-> "run", todo |-> Tail(@.todo), busy |-> 0]]

\* A daemon beats after each cycle.
CycleEnds(d) ==
    /\ At(d, "cycle")
    /\ Ended(Head(proc[d].todo))
    /\ Ends(d) /\ Beat(d)
    /\ UNCHANGED <<jobs, working, passed>>

JobEnds(t) ==
    /\ t \in working
    /\ Ended(t)
    /\ working' = working \ {t}
    /\ UNCHANGED <<row, proc, jobs, passed>>

\* cdc repair
Repair(t) ==
    /\ t \in Triggers /\ ~tgt[t].live
    /\ tgt' = [tgt EXCEPT ![t].live = TRUE]
    /\ UNCHANGED <<row, proc, jobs, working, passed, faults>>

\* UNPARK
Unpark(t) ==
    /\ tgt[t].status = "BLOCKED"
    /\ tgt' = [tgt EXCEPT ![t].status = "IDLE", ![t].fail = 0]
    /\ UNCHANGED <<row, proc, jobs, working, passed, faults>>

-------------------------------------------------------------------------------
(* The batch tick: due() knows the cadence and a fresh lease, and nothing else. *)
BatchDue(t) ==
    /\ ~Leased(t)
    /\ tgt[t].since = Never \/ TickSecs * tgt[t].since >= Interval[t]

BatchPlan ==
    Ranked({t \in Targets : BatchDue(t)}, LAMBDA t, u : Name[t] < Name[u])

BatchTick ==
    /\ At(Batch, "off")
    /\ proc' = [proc EXCEPT ![Batch] =
                   [pc |-> "run", todo |-> BatchPlan, busy |-> 0]]
    /\ UNCHANGED <<row, tgt, jobs, working, passed, faults>>

BatchCycle ==
    LET t == Head(proc[Batch].todo) IN
    /\ At(Batch, "run") /\ proc[Batch].todo # <<>>
    /\ t \notin Triggers /\ ~Leased(t)
    /\ Took(t) /\ Goes(Batch, "cycle")
    /\ passed' = [passed EXCEPT ![t] = 0]
    /\ UNCHANGED <<row, jobs, working, faults>>

\* A target that is leased is skipped; one of method CDC is unknown here, and
\* counts as a failure.
BatchSkips ==
    LET t == Head(proc[Batch].todo) IN
    /\ At(Batch, "run") /\ proc[Batch].todo # <<>>
    /\ Skips(Batch)
    /\ \/ Leased(t) /\ UNCHANGED tgt
       \/ ~Leased(t) /\ t \in Triggers
          /\ tgt' = [tgt EXCEPT ![t] = [FailedRow(@) EXCEPT !.lease = 0]]
    /\ UNCHANGED <<row, jobs, working, passed, faults>>

\* The batch asks for an ordinary delta, which spends no one-shot load.
BatchCycleEnds ==
    LET t == Head(proc[Batch].todo) IN
    /\ At(Batch, "cycle")
    /\ \/ tgt' = [tgt EXCEPT ![t] = Fresh(@)] /\ NoFault
       \/ /\ Fault
          /\ \/ tgt' = [tgt EXCEPT ![t] = FailedRow(@)]
             \/ tgt' = [tgt EXCEPT ![t].status = "BLOCKED"]
    /\ Ends(Batch)
    /\ UNCHANGED <<row, jobs, working, passed>>

BatchEnds ==
    /\ At(Batch, "run") /\ proc[Batch].todo = <<>>
    /\ Goes(Batch, "done")
    /\ UNCHANGED <<row, tgt, jobs, working, passed, faults>>

-------------------------------------------------------------------------------
\* A process dies where it is; the row and the lease stay.
Crash(p) ==
    /\ proc[p].pc \notin {"off", "done"} /\ Fault
    /\ proc' = [proc EXCEPT ![p] = Off]
    /\ UNCHANGED <<row, tgt, jobs, working, passed>>

JobDies(t) ==
    /\ t \in jobs \cup working /\ Fault
    /\ jobs' = jobs \ {t} /\ working' = working \ {t}
    /\ UNCHANGED <<row, tgt, proc, passed>>

Cycling(t) == {p \in Processes : At(p, "cycle") /\ Head(proc[p].todo) = t}

\* A tick passes while everyone waits or is in a cycle.  No cycle outlasts its
\* lease, an inline cycle lasts MaxBusy ticks, and a job starts in its tick.
Tick ==
    /\ jobs = {}
    /\ \A p \in Processes :
          /\ proc[p].pc \in {"off", "wait", "cycle", "done"}
          /\ p \in Daemons /\ At(p, "cycle") => proc[p].busy < MaxBusy
    /\ \A t \in Targets \ Triggers : Cycling(t) # {} \/ t \in working => tgt[t].lease + 1 < LeaseTtl
    /\ row' = [row EXCEPT !.age = Later(@, StaleAfter + 1)]
    /\ tgt' = [t \in Targets |-> [tgt[t] EXCEPT !.since = Later(@, Horizon),
                                                !.lease = Later(@, MaxCycle)]]
    /\ proc' = [p \in Processes |->
                   CASE At(p, "wait")  -> [proc[p] EXCEPT !.pc = "top"]
                     [] At(p, "cycle") -> [proc[p] EXCEPT !.busy = Later(@, MaxBusy)]
                     [] At(p, "done")  -> Off
                     [] OTHER          -> proc[p]]
    /\ UNCHANGED <<jobs, working, passed, faults>>

DaemonStep(d) ==
    \/ Claim(d) \/ ReadStop(d) \/ Plan(d)
    \/ RunNext(d) \/ SkipLeased(d) \/ Detach(d) \/ CycleEnds(d)
    \/ EndTick(d) \/ Release(d)

BatchStep == BatchTick \/ BatchCycle \/ BatchSkips \/ BatchCycleEnds \/ BatchEnds

Next ==
    \/ \E d \in Daemons : DaemonStep(d)
    \/ RequestStop
    \/ BatchStep
    \/ \E p \in Processes : Crash(p)
    \/ \E t \in Targets : JobStarts(t) \/ JobEnds(t) \/ JobDies(t) \/ Repair(t) \/ Unpark(t)
    \/ Tick

Spec == Init /\ [][Next]_vars

-------------------------------------------------------------------------------
(* Properties. *)

TargetRow ==
    [since : 0 .. Horizon \cup {Never}, lease : 0 .. MaxCycle, full : BOOLEAN, live : BOOLEAN,
     status : {"IDLE", "RUNNING", "ERROR", "BLOCKED"}, fail : 0 .. MaxFail]

TypeOK ==
    /\ row \in [owner : Daemons \cup {Nobody}, status : {"RUNNING", "STOPPED"},
                stop : BOOLEAN, age : 0 .. StaleAfter + 1]
    /\ tgt \in [Targets -> TargetRow]
    /\ \A p \in Processes :
          /\ proc[p].pc \in {"off", "top", "plan", "run", "cycle", "wait", "release", "done"}
          /\ Range(proc[p].todo) \subseteq Targets
          /\ At(p, "cycle") => proc[p].todo # <<>>
    /\ jobs \subseteq Targets \ Triggers /\ working \subseteq Targets \ Triggers
    /\ \A t \in Targets : passed[t] \in Nat
    /\ faults \in 0 .. MaxFaults

\* One daemon, not two: of the instances that start, die, lose a call or leave,
\* at most one is in the tick loop.
OneDaemon == \A d, e \in Daemons : Ticking(d) /\ Ticking(e) => d = e

\* Inline cycles, worker jobs and the batch tick never run a target twice at
\* once; trigger cycles take no lease and rest on OneDaemon.
OneCyclePerTarget ==
    \A t \in Targets : Cardinality(Cycling(t)) + (IF t \in working THEN 1 ELSE 0) <= 1

\* A due target that has run before is passed over MaxPassed times at
\* most, however the cycles of the others end.
DueTargetRuns == \A t \in Targets : tgt[t].since # Never => passed[t] <= MaxPassed

\* The same of a target that has never run.
FirstRunComes == \A t \in Targets : tgt[t].since = Never => passed[t] <= MaxPassed
===============================================================================
