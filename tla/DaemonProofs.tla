------------------------------ MODULE DaemonProofs ------------------------------
(***************************************************************************)
(* Proofs about the streaming daemon, for any instances, targets, cadences *)
(* and leases.  That a plan lists registered targets comes from            *)
(* TickPlannerProofs and stays apart (TodoInv): what is shown of the row   *)
(* of the daemon and of the leases holds whatever a tick or a batch run    *)
(* plans.                                                                  *)
(***************************************************************************)
EXTENDS Daemon, TickPlannerProofs

-------------------------------------------------------------------------------
(* The parts of the inductive invariant.                                    *)

\* A heartbeat goes stale later than an inline cycle and all lost calls together
\* can keep an instance from beating.
Patience == MaxFaults + MaxBusy + 1 <= StaleAfter

Steps == {"off", "top", "plan", "run", "cycle", "wait", "release", "done"}

DaemonRow ==
    [owner : Daemons \cup {Nobody}, status : {"RUNNING", "STOPPED"}, stop : BOOLEAN,
     age : 0 .. StaleAfter + 1]

Delta == Targets \ Triggers

\* A process is at a step, for so long; nothing is said of what is left to do.
ProcInv ==
    /\ proc = [p \in Processes |->
                  [pc |-> proc[p].pc, todo |-> proc[p].todo, busy |-> proc[p].busy]]
    /\ \A p \in Processes : proc[p].pc \in Steps /\ proc[p].busy \in 0 .. MaxBusy

\* The variables hold what they should, but for the targets in a plan.
RowsInv ==
    /\ row \in DaemonRow
    /\ tgt \in [Targets -> TargetRow]
    /\ ProcInv
    /\ jobs \cap Triggers = {} /\ working \subseteq Delta
    /\ faults \in 0 .. MaxFaults

\* The owner of the row ticks, and the row is no older than its lost calls and its
\* cycle have made it.
Beats(d) ==
    /\ row.owner = d /\ row.status = "RUNNING"
    /\ row.age <= faults + 1
          + (IF proc[d].pc = "wait" THEN -1 ELSE IF proc[d].pc = "cycle" THEN proc[d].busy ELSE 0)

BeatInv == \A d \in Daemons : Ticking(d) => Beats(d)

Runs(p, t) == proc[p].pc = "cycle" /\ Head(proc[p].todo) = t

\* Whoever runs a delta target, inline or in a job, has its lease, and alone.
LeaseInv ==
    /\ \A p \in Processes, t \in Delta : Runs(p, t) => Leased(t) /\ t \notin working
    /\ \A t \in working : Leased(t)
    /\ \A p, q \in Processes, t \in Delta : Runs(p, t) /\ Runs(q, t) => p = q
    /\ \A t \in Triggers : ~Runs(Batch, t)

\* Of the daemons, at most one is in its loop, so its trigger cycles are alone too.
DaemonInv == RowsInv /\ BeatInv /\ LeaseInv

-------------------------------------------------------------------------------
(* What a step does to a process, and to the row of a target.               *)

\* One process is at a new step, with a new list; the others are where they were.
Becomes(p, s, list, n) ==
    /\ proc' = [q \in Processes |->
                   [pc |-> proc'[q].pc, todo |-> proc'[q].todo, busy |-> proc'[q].busy]]
    /\ proc'[p].pc = s /\ proc'[p].todo = list /\ proc'[p].busy = n
    /\ \A q \in Processes \ {p} : proc'[q] = proc[q]

LEMMA GoesTo ==
    ASSUME ProcInv, NEW p \in Processes, NEW s, Goes(p, s)
    PROVE  Becomes(p, s, proc[p].todo, proc[p].busy)
BY DEF ProcInv, Goes, Becomes

LEMMA SkipsTo ==
    ASSUME ProcInv, NEW p \in Processes, Skips(p)
    PROVE  Becomes(p, proc[p].pc, Tail(proc[p].todo), proc[p].busy)
<1>1. PICK list : list = Tail(proc[p].todo)
  OBVIOUS
<1>2. proc' = [proc EXCEPT ![p] = [proc[p] EXCEPT !.todo = list]]
  BY <1>1 DEF Skips
<1>3. Becomes(p, proc[p].pc, list, proc[p].busy)
  BY <1>2 DEF ProcInv, Becomes
<1> QED
  BY <1>1, <1>3

LEMMA EndsAt ==
    ASSUME ProcInv, NEW p \in Processes, Ends(p)
    PROVE  Becomes(p, "run", Tail(proc[p].todo), 0)
BY DEF ProcInv, Ends, Becomes

LEMMA PlansTo ==
    ASSUME ProcInv, NEW p \in Processes, NEW s, NEW list,
           proc' = [proc EXCEPT ![p] = [pc |-> s, todo |-> list, busy |-> 0]]
    PROVE  Becomes(p, s, list, 0)
BY DEF ProcInv, Becomes

LEMMA DiesAt ==
    ASSUME ProcInv, NEW p \in Processes, proc' = [proc EXCEPT ![p] = Off]
    PROVE  Becomes(p, "off", <<>>, 0)
BY DEF ProcInv, Off, Becomes

\* A process that becomes what it may be keeps the shape of all.
LEMMA ProcStays ==
    ASSUME ProcInv, NEW p \in Processes, NEW s \in Steps, NEW list, NEW n \in 0 .. MaxBusy,
           Becomes(p, s, list, n)
    PROVE  ProcInv'
BY DEF ProcInv, Becomes

LEMMA Bounds ==
    /\ MaxBusy \in Nat /\ MaxFaults \in Nat /\ StaleAfter \in Nat /\ MaxCycle \in Nat
    /\ LeaseTtl \in Nat /\ 0 < LeaseTtl
BY DaemonAssumption, TickPlannerAssumption

LEMMA InRange ==
    ASSUME RowsInv, NEW p \in Processes
    PROVE  /\ proc[p].busy \in 0 .. MaxBusy /\ proc[p].pc \in Steps
           /\ ProcInv /\ row \in DaemonRow /\ faults \in 0 .. MaxFaults
BY DEF RowsInv, ProcInv

LEMMA LaterBounds ==
    ASSUME NEW max \in Nat, NEW n \in 0 .. max
    PROVE  Later(n, max) \in 0 .. max /\ (n < max => Later(n, max) = n + 1)
           /\ Later(n, max) <= n + 1
BY TickPlannerAssumption DEF Later

LEMMA RowKinds ==
    ASSUME NEW r \in TargetRow
    PROVE  /\ Fresh(r) \in TargetRow /\ FailedRow(r) \in TargetRow
           /\ [Fresh(r) EXCEPT !.full = FALSE] \in TargetRow
           /\ [Fresh(r) EXCEPT !.full = r.full] \in TargetRow
           /\ [FailedRow(r) EXCEPT !.live = FALSE] \in TargetRow
           /\ [FailedRow(r) EXCEPT !.lease = 0] \in TargetRow
           /\ [r EXCEPT !.status = "BLOCKED"] \in TargetRow
           /\ [r EXCEPT !.status = "IDLE", !.fail = 0] \in TargetRow
           /\ [r EXCEPT !.status = "RUNNING", !.lease = 0] \in TargetRow
           /\ [r EXCEPT !.live = TRUE] \in TargetRow
<1>1. /\ r = [since |-> r.since, lease |-> r.lease, full |-> r.full, live |-> r.live,
               status |-> r.status, fail |-> r.fail]
      /\ r.since \in (0 .. Horizon) \cup {Never} /\ r.lease \in 0 .. MaxCycle
      /\ r.full \in BOOLEAN /\ r.live \in BOOLEAN
      /\ r.status \in {"IDLE", "RUNNING", "ERROR", "BLOCKED"} /\ r.fail \in 0 .. MaxFail
  BY DEF TargetRow
<1>2. /\ 0 \in (0 .. Horizon) \cup {Never} /\ 0 \in 0 .. MaxCycle /\ 0 \in 0 .. MaxFail
      /\ (IF r.fail < MaxFail THEN r.fail + 1 ELSE r.fail) \in 0 .. MaxFail
  BY <1>1, DaemonAssumption, TickPlannerAssumption
<1>3. /\ [r EXCEPT !.status = "BLOCKED"] \in TargetRow
      /\ [r EXCEPT !.status = "IDLE", !.fail = 0] \in TargetRow
      /\ [r EXCEPT !.status = "RUNNING", !.lease = 0] \in TargetRow
      /\ [r EXCEPT !.live = TRUE] \in TargetRow
  BY <1>1, <1>2 DEF TargetRow
<1>4. Fresh(r) \in TargetRow /\ FailedRow(r) \in TargetRow
  BY <1>1, <1>2 DEF TargetRow, Fresh, FailedRow
<1>5. \A q \in TargetRow : /\ [q EXCEPT !.full = FALSE] \in TargetRow
                          /\ [q EXCEPT !.full = r.full] \in TargetRow
                          /\ [q EXCEPT !.live = FALSE] \in TargetRow
                          /\ [q EXCEPT !.lease = 0] \in TargetRow
  BY <1>1, <1>2 DEF TargetRow
<1> QED
  BY <1>3, <1>4, <1>5

\* The row of one target, at the most, changes.
Touches(t) ==
    /\ tgt' \in [Targets -> TargetRow]
    /\ \A u \in Targets \ {t} : tgt'[u] = tgt[u]

LEMMA TouchesRow ==
    ASSUME tgt \in [Targets -> TargetRow], NEW t, NEW r, t \in Targets => r \in TargetRow,
           tgt' = [tgt EXCEPT ![t] = r]
    PROVE  Touches(t)
BY DEF Touches

LEMMA SameRows ==
    ASSUME tgt \in [Targets -> TargetRow], UNCHANGED tgt, NEW t
    PROVE  Touches(t)
BY DEF Touches

LEMMA TookRow ==
    ASSUME RowsInv, NEW t, Took(t)
    PROVE  Touches(t) /\ (t \in Targets => Leased(t)')
<1>1. tgt \in [Targets -> TargetRow]
  BY DEF RowsInv
<1>2. PICK r : r = [tgt[t] EXCEPT !.status = "RUNNING", !.lease = 0]
  OBVIOUS
<1>3. tgt' = [tgt EXCEPT ![t] = r]
  BY <1>2 DEF Took
<1>4. Touches(t)
  BY <1>1, <1>2, <1>3, RowKinds, TouchesRow
<1>5. ASSUME t \in Targets
      PROVE  Leased(t)'
  <2>1. tgt[t] \in TargetRow
    BY <1>1, <1>5
  <2>2. r.status = "RUNNING" /\ r.lease = 0
    BY <1>2, <2>1 DEF TargetRow
  <2>3. tgt'[t] = r
    BY <1>1, <1>3, <1>5
  <2> QED
    BY <2>2, <2>3, DaemonAssumption, TickPlannerAssumption DEF Leased
<1> QED
  BY <1>4, <1>5

\* However a cycle ends, it writes the row of its own target.
LEMMA EndedRow ==
    ASSUME RowsInv, NEW t, Ended(t)
    PROVE  Touches(t) /\ faults' \in 0 .. MaxFaults /\ faults <= faults'
<1>1. tgt \in [Targets -> TargetRow]
  BY DEF RowsInv
<1>2. faults' \in 0 .. MaxFaults /\ faults <= faults'
  BY DaemonAssumption DEF Ended, Fault, NoFault, RowsInv
<1>3. CASE Succeeds(t)
  <2>2. PICK r : r = [Fresh(tgt[t]) EXCEPT !.full = tgt[t].full /\ t \in Triggers]
    OBVIOUS
  <2>3. t \in Targets => r \in TargetRow
    <3>1. SUFFICES ASSUME t \in Targets PROVE r \in TargetRow
      OBVIOUS
    <3>2. Fresh(tgt[t]) \in TargetRow
      BY <1>1, <3>1, RowKinds
    <3> QED
      BY <1>1, <2>2, <3>1, <3>2 DEF TargetRow
  <2>4. tgt' = [tgt EXCEPT ![t] = r]
    BY <1>3, <2>2 DEF Succeeds
  <2> QED
    BY <1>1, <1>2, <2>3, <2>4, TouchesRow
<1>4. CASE tgt' = [tgt EXCEPT ![t] = FailedRow(@)]
  BY <1>1, <1>2, <1>4, RowKinds, TouchesRow
<1>5. CASE tgt' = [tgt EXCEPT ![t].status = "BLOCKED"]
  BY <1>1, <1>2, <1>5, RowKinds, TouchesRow
<1>6. CASE tgt' = [tgt EXCEPT ![t] = [FailedRow(@) EXCEPT !.live = FALSE]]
  BY <1>1, <1>2, <1>6, RowKinds, TouchesRow
<1>7. CASE UNCHANGED tgt
  BY <1>1, <1>2, <1>7, SameRows
<1> QED
  BY <1>3, <1>4, <1>5, <1>6, <1>7 DEF Ended

-------------------------------------------------------------------------------
(* The types of the rows.                                                   *)

LEMMA RowsStart == Init => RowsInv
<1>1. ASSUME NEW F \in SUBSET Targets
      PROVE  [t \in Targets |-> [Idle EXCEPT !.full = t \in F]] \in [Targets -> TargetRow]
  <2>1. SUFFICES ASSUME NEW t \in Targets
                 PROVE  [Idle EXCEPT !.full = t \in F] \in TargetRow
    OBVIOUS
  <2>2. (t \in F) \in BOOLEAN
    OBVIOUS
  <2>3. Idle \in TargetRow
    BY DaemonAssumption, TickPlannerAssumption DEF Idle, TargetRow
  <2>4. ASSUME NEW b \in BOOLEAN
        PROVE  [Idle EXCEPT !.full = b] \in TargetRow
    BY <2>3 DEF TargetRow
  <2> QED
    BY <2>2, <2>4
<1>2. SUFFICES ASSUME Init PROVE RowsInv
  OBVIOUS
<1>3. ProcInv
  BY <1>2, DaemonAssumption DEF Init, ProcInv, Off, Steps
<1>4. tgt \in [Targets -> TargetRow]
  BY <1>1, <1>2 DEF Init
<1> QED
  BY <1>2, <1>3, <1>4, DaemonAssumption DEF Init, RowsInv, DaemonRow

LEMMA RowsOfDaemons ==
    ASSUME RowsInv, NEW d \in Daemons, DaemonStep(d)
    PROVE  RowsInv'
<1>1. d \in Processes /\ ProcInv /\ tgt \in [Targets -> TargetRow] /\ row \in DaemonRow
  BY DEF RowsInv, Processes
<1>2. faults' \in 0 .. MaxFaults
  BY EndedRow, DaemonAssumption
  DEF DaemonStep, RowsInv, Claim, ReadStop, Plan, RunNext, SkipLeased, Detach, CycleEnds, EndTick,
      Release, Released, Fault, NoFault
<1>3. row' \in DaemonRow
  <2>1. CASE Claim(d)
    BY <2>1, DaemonAssumption DEF Claim, DaemonRow
  <2>2. CASE row' = [row EXCEPT !.age = 0]
    BY <1>1, <2>2, DaemonAssumption DEF DaemonRow
  <2>3. CASE Released(d)
    BY <1>1, <2>3 DEF Released, DaemonRow
  <2> QED
    BY <1>1, <2>1, <2>2, <2>3
    DEF DaemonStep, ReadStop, Plan, RunNext, SkipLeased, Detach, CycleEnds, EndTick, Release, Beat
<1>4. tgt' \in [Targets -> TargetRow]
  <2>1. CASE RunNext(d)
    BY <1>1, <2>1, TookRow DEF RunNext, Touches
  <2>2. CASE CycleEnds(d)
    BY <2>2, EndedRow DEF CycleEnds, Touches
  <2> QED
    BY <1>1, <2>1, <2>2
    DEF DaemonStep, Claim, ReadStop, Plan, SkipLeased, Detach, EndTick, Release
<1>5. ProcInv'
  <2>1. proc[d].pc \in Steps /\ proc[d].busy \in 0 .. MaxBusy /\ 0 \in 0 .. MaxBusy
    BY <1>1, DaemonAssumption DEF ProcInv
  <2>2. ASSUME NEW s \in Steps, Goes(d, s)
        PROVE  ProcInv'
    BY <1>1, <2>1, <2>2, GoesTo, ProcStays
  <2>3. CASE Skips(d)
    BY <1>1, <2>1, <2>3, SkipsTo, ProcStays
  <2>4. CASE Ends(d)
    BY <1>1, <2>1, <2>4, EndsAt, ProcStays DEF Steps
  <2>5. CASE UNCHANGED proc
    BY <1>1, <2>5 DEF ProcInv
  <2>6. CASE Plan(d)
    <3>1. CASE Goes(d, "run")
      BY <2>2, <3>1 DEF Steps
    <3>2. PICK s, list : s \in Steps /\ s = (IF row.stop THEN "release" ELSE "run")
                         /\ list = (IF row.stop THEN <<>> ELSE PlanTick(tgt))
      BY DEF Steps
    <3>3. CASE proc' = [proc EXCEPT ![d] = [pc |-> s, todo |-> list, busy |-> 0]]
      BY <1>1, <2>1, <3>2, <3>3, PlansTo, ProcStays
    <3> QED
      BY <2>6, <3>1, <3>2, <3>3 DEF Plan
  <2>7. CASE RunNext(d)
    BY <2>2, <2>7 DEF RunNext, Steps
  <2>8. CASE Claim(d) \/ ReadStop(d) \/ EndTick(d) \/ Release(d)
    BY <2>2, <2>5, <2>8 DEF Claim, ReadStop, EndTick, Release, Steps
  <2> QED
    BY <2>3, <2>4, <2>6, <2>7, <2>8 DEF DaemonStep, SkipLeased, Detach, CycleEnds
<1>6. jobs' \cap Triggers = {} /\ working' \subseteq Delta
  BY DEF RowsInv, DaemonStep, Claim, ReadStop, Plan, RunNext, SkipLeased, Detach, Detachable,
         CycleEnds, EndTick, Release
<1> QED
  BY <1>2, <1>3, <1>4, <1>5, <1>6 DEF RowsInv

LEMMA RowsOfBatch ==
    ASSUME RowsInv, BatchStep
    PROVE  RowsInv'
<1>1. Batch \in Processes /\ ProcInv /\ tgt \in [Targets -> TargetRow] /\ row \in DaemonRow
  BY DEF RowsInv, Processes
<1>2. faults' \in 0 .. MaxFaults
  BY DaemonAssumption
  DEF BatchStep, RowsInv, BatchTick, BatchCycle, BatchSkips, BatchCycleEnds, BatchEnds, Fault, NoFault
<1>3. tgt' \in [Targets -> TargetRow]
  <2>1. CASE BatchCycle
    BY <2>1, TookRow DEF BatchCycle, Touches
  <2>2. CASE BatchSkips
    BY <1>1, <2>2, RowKinds, TouchesRow DEF BatchSkips, Touches
  <2>3. CASE BatchCycleEnds
    BY <1>1, <2>3, RowKinds, TouchesRow DEF BatchCycleEnds, Touches
  <2> QED
    BY <1>1, <2>1, <2>2, <2>3 DEF BatchStep, BatchTick, BatchEnds
<1>4. ProcInv'
  <2>1. proc[Batch].pc \in Steps /\ proc[Batch].busy \in 0 .. MaxBusy /\ 0 \in 0 .. MaxBusy
    BY <1>1, DaemonAssumption DEF ProcInv
  <2>2. CASE BatchTick
    BY <1>1, <2>1, <2>2, PlansTo, ProcStays DEF BatchTick, Steps
  <2>3. CASE BatchCycle
    BY <1>1, <2>1, <2>3, GoesTo, ProcStays DEF BatchCycle, Steps
  <2>4. CASE BatchSkips
    BY <1>1, <2>1, <2>4, SkipsTo, ProcStays DEF BatchSkips
  <2>5. CASE BatchCycleEnds
    BY <1>1, <2>1, <2>5, EndsAt, ProcStays DEF BatchCycleEnds, Steps
  <2>6. CASE BatchEnds
    BY <1>1, <2>1, <2>6, GoesTo, ProcStays DEF BatchEnds, Steps
  <2> QED
    BY <2>2, <2>3, <2>4, <2>5, <2>6 DEF BatchStep
<1> QED
  BY <1>2, <1>3, <1>4
  DEF RowsInv, BatchStep, BatchTick, BatchCycle, BatchSkips, BatchCycleEnds, BatchEnds

LEMMA RowsOfTick ==
    ASSUME RowsInv, Tick
    PROVE  RowsInv'
<1>1. row' \in DaemonRow
  <2>1. row.age \in 0 .. (StaleAfter + 1) /\ StaleAfter + 1 \in Nat
    BY DaemonAssumption DEF RowsInv, DaemonRow
  <2>2. Later(row.age, StaleAfter + 1) \in 0 .. StaleAfter + 1
    BY <2>1, LaterBounds
  <2> QED
    BY <2>2 DEF Tick, RowsInv, DaemonRow
<1>2. tgt' \in [Targets -> TargetRow]
  <2>1. SUFFICES ASSUME NEW t \in Targets
                 PROVE  [tgt[t] EXCEPT !.since = Later(@, Horizon), !.lease = Later(@, MaxCycle)]
                           \in TargetRow
    BY DEF Tick
  <2>2. tgt[t] \in TargetRow
    BY DEF RowsInv
  <2>3. PICK a : a = Later(tgt[t].since, Horizon)
    OBVIOUS
  <2>4. PICK b : b = Later(tgt[t].lease, MaxCycle)
    OBVIOUS
  <2>5. a \in (0 .. Horizon) \cup {Never}
    BY <2>2, <2>3, DaemonAssumption, TickPlannerAssumption, LaterBounds DEF TargetRow, Later
  <2>6. b \in 0 .. MaxCycle
    BY <2>2, <2>4, TickPlannerAssumption, LaterBounds DEF TargetRow
  <2>7. [tgt[t] EXCEPT !.since = a, !.lease = b] \in TargetRow
    BY <2>2, <2>5, <2>6 DEF TargetRow
  <2> QED
    BY <2>3, <2>4, <2>7
<1>3. ProcInv'
  <2>1. \A p \in Processes :
           /\ proc[p] = [pc |-> proc[p].pc, todo |-> proc[p].todo, busy |-> proc[p].busy]
           /\ proc[p].pc \in Steps /\ proc[p].busy \in 0 .. MaxBusy
           /\ Later(proc[p].busy, MaxBusy) \in 0 .. MaxBusy
    BY LaterBounds, DaemonAssumption DEF RowsInv, ProcInv
  <2> DEFINE after(p) == CASE At(p, "wait")  -> [proc[p] EXCEPT !.pc = "top"]
                           [] At(p, "cycle") -> [proc[p] EXCEPT !.busy = Later(@, MaxBusy)]
                           [] At(p, "done")  -> Off
                           [] OTHER          -> proc[p]
  <2>2. ASSUME NEW p \in Processes
        PROVE  /\ after(p) = [pc |-> after(p).pc, todo |-> after(p).todo, busy |-> after(p).busy]
               /\ after(p).pc \in Steps /\ after(p).busy \in 0 .. MaxBusy
    <3>5. proc[p] \in [pc : Steps, todo : {proc[p].todo}, busy : 0 .. MaxBusy]
      <4>1. PICK a, b, c : proc[p] = [pc |-> a, todo |-> b, busy |-> c]
        BY <2>1
      <4> QED
        BY <2>1, <4>1
    <3>1. CASE At(p, "wait")
      <4>1. after(p) = [proc[p] EXCEPT !.pc = "top"]
        BY <3>1 DEF At
      <4> QED
        BY <4>1, <3>5 DEF Steps
    <3>2. CASE At(p, "cycle")
      <4>1. after(p) = [proc[p] EXCEPT !.busy = Later(@, MaxBusy)]
        BY <3>2 DEF At
      <4> QED
        BY <2>1, <4>1, <3>5 DEF Steps
    <3>3. CASE At(p, "done")
      BY <2>1, <3>3, DaemonAssumption DEF At, Off, Steps
    <3>4. CASE ~At(p, "wait") /\ ~At(p, "cycle") /\ ~At(p, "done")
      BY <2>1, <3>4 DEF At, Steps
    <3> QED
      BY <3>1, <3>2, <3>3, <3>4
  <2>3. proc' = [p \in Processes |-> after(p)]
    BY DEF Tick
  <2> HIDE DEF after
  <2> QED
    BY <2>2, <2>3 DEF ProcInv
<1> QED
  BY <1>1, <1>2, <1>3 DEF RowsInv, Tick

LEMMA RowsSteps ==
    ASSUME RowsInv, [Next]_vars
    PROVE  RowsInv'
<1>1. ProcInv /\ tgt \in [Targets -> TargetRow] /\ row \in DaemonRow
  BY DEF RowsInv
<1>2. CASE RequestStop
  BY <1>2 DEF RequestStop, RowsInv, DaemonRow, ProcInv
<1>3. ASSUME NEW p \in Processes, Crash(p)
      PROVE  RowsInv'
  <2>1. ProcInv'
    <3>1. 0 \in 0 .. MaxBusy /\ "off" \in Steps
      BY DaemonAssumption DEF Steps
    <3> QED
      BY <1>1, <1>3, <3>1, DiesAt, ProcStays DEF Crash
  <2> QED
    BY <1>3, <2>1, DaemonAssumption DEF Crash, Fault, RowsInv
<1>4. ASSUME NEW t \in Targets, JobStarts(t)
      PROVE  RowsInv'
  <2>1. tgt' \in [Targets -> TargetRow]
    BY <1>1, <1>4, TookRow DEF JobStarts, Touches
  <2> QED
    BY <1>4, <2>1 DEF JobStarts, RowsInv, ProcInv, Delta
<1>5. ASSUME NEW t \in Targets, JobEnds(t)
      PROVE  RowsInv'
  BY <1>5, EndedRow DEF JobEnds, Touches, RowsInv, ProcInv
<1>6. ASSUME NEW t \in Targets, JobDies(t)
      PROVE  RowsInv'
  BY <1>6, DaemonAssumption DEF JobDies, Fault, RowsInv, ProcInv
<1>7. ASSUME NEW t \in Targets, Repair(t) \/ Unpark(t)
      PROVE  RowsInv'
  <2>1. Touches(t)
    BY <1>1, <1>7, RowKinds, TouchesRow DEF Repair, Unpark
  <2> QED
    BY <1>7, <2>1 DEF Repair, Unpark, Touches, RowsInv, ProcInv
<1>8. CASE UNCHANGED vars
  BY <1>8 DEF vars, RowsInv, ProcInv
<1> QED
  BY <1>2, <1>3, <1>4, <1>5, <1>6, <1>7, <1>8, RowsOfDaemons, RowsOfBatch, RowsOfTick DEF Next

-------------------------------------------------------------------------------
(* The singleton.                                                           *)

LEMMA NotStale ==
    ASSUME RowsInv, BeatInv, Patience, NEW d \in Daemons, Ticking(d)
    PROVE  ~Stale
<1>1. Beats(d) /\ proc[d].busy \in 0 .. MaxBusy /\ faults \in 0 .. MaxFaults
      /\ row.age \in 0 .. StaleAfter + 1
  BY DEF BeatInv, RowsInv, ProcInv, Processes, DaemonRow
<1> QED
  BY <1>1, DaemonAssumption, TickPlannerAssumption DEF Beats, Stale, Patience

\* Only one ticks, so a step of a daemon that ticks has its own beat to keep.
LEMMA OwnBeat ==
    ASSUME BeatInv, NEW d \in Daemons, Ticking(d),
           NEW s, NEW list, NEW n, Becomes(d, s, list, n),
           Ticking(d)' => Beats(d)'
    PROVE  BeatInv'
BY DEF BeatInv, Beats, Ticking, Becomes, Processes

LEMMA BeatOfDaemons ==
    ASSUME RowsInv, BeatInv, Patience, NEW d \in Daemons, DaemonStep(d)
    PROVE  BeatInv'
<1>1. /\ d \in Processes /\ ProcInv /\ row \in DaemonRow /\ faults \in 0 .. MaxFaults
      /\ MaxFaults \in Nat /\ MaxBusy \in Nat
      /\ proc[d].busy \in 0 .. MaxBusy
  BY Bounds, InRange, DaemonAssumption DEF Processes
<1>2. CASE Claim(d)
  <2>1. ASSUME NEW e \in Daemons
        PROVE  ~Ticking(e)
    BY <1>2, <2>1, NotStale DEF Claim
  <2>2. CASE Goes(d, "top") /\ NoFault
    <3>1. Becomes(d, "top", proc[d].todo, proc[d].busy)
      BY <1>1, <2>2, GoesTo
    <3> QED
      BY <1>1, <1>2, <2>1, <2>2, <3>1
      DEF Claim, NoFault, Becomes, BeatInv, Beats, Ticking, Processes
  <2>3. CASE UNCHANGED proc
    BY <2>1, <2>3 DEF BeatInv, Ticking
  <2> QED
    BY <1>2, <2>2, <2>3 DEF Claim
<1>3. CASE ReadStop(d)
  <2>1. Ticking(d) /\ proc[d].pc = "top" /\ row' = row
    BY <1>3 DEF ReadStop, At, Ticking
  <2>2. PICK s \in {"release", "plan"} : Goes(d, s) /\ faults' \in Nat /\ faults <= faults'
    BY <1>1, <1>3 DEF ReadStop, Fault, NoFault
  <2>3. Becomes(d, s, proc[d].todo, proc[d].busy)
    BY <1>1, <2>2, GoesTo
  <2> QED
    BY <1>1, <2>1, <2>2, <2>3, OwnBeat DEF BeatInv, Beats, Becomes, DaemonRow
<1>4. CASE Plan(d)
  <2>1. Ticking(d) /\ proc[d].pc = "plan" /\ row' = row /\ faults' \in Nat /\ faults <= faults'
    BY <1>1, <1>4 DEF Plan, At, Ticking, Fault, NoFault
  <2>2. PICK s, list, n : s \in {"release", "run"} /\ Becomes(d, s, list, n)
    <3>1. CASE Goes(d, "run")
      BY <1>1, <3>1, GoesTo
    <3>2. PICK s, list :
             /\ s \in {"release", "run"}
             /\ s = (IF row.stop THEN "release" ELSE "run")
             /\ list = (IF row.stop THEN <<>> ELSE PlanTick(tgt))
      OBVIOUS
    <3>3. CASE proc' = [proc EXCEPT ![d] = [pc |-> s, todo |-> list, busy |-> 0]]
      <4>1. Becomes(d, s, list, 0)
        BY <1>1, <3>3, PlansTo
      <4> QED
        BY <3>2, <4>1
    <3> QED
      BY <1>4, <3>1, <3>2, <3>3 DEF Plan
  <2> QED
    BY <1>1, <2>1, <2>2, OwnBeat DEF BeatInv, Beats, Becomes, DaemonRow
<1>5. CASE RunNext(d)
  <2>1. Ticking(d) /\ proc[d].pc = "run" /\ row' = row /\ faults' = faults /\ Goes(d, "cycle")
    BY <1>5 DEF RunNext, At, Ticking
  <2>2. Becomes(d, "cycle", proc[d].todo, proc[d].busy)
    BY <1>1, <2>1, GoesTo
  <2> QED
    BY <1>1, <2>1, <2>2, OwnBeat DEF BeatInv, Beats, Becomes, DaemonRow
<1>6. CASE SkipLeased(d) \/ Detach(d)
  <2>1. Ticking(d) /\ proc[d].pc = "run" /\ Beat(d) /\ faults' = faults /\ Skips(d)
    BY <1>6 DEF SkipLeased, Detach, At, Ticking
  <2>2. Becomes(d, "run", Tail(proc[d].todo), proc[d].busy)
    BY <1>1, <2>1, SkipsTo
  <2>3. PICK list : list = Tail(proc[d].todo)
    OBVIOUS
  <2> QED
    BY <1>1, <2>1, <2>2, <2>3, OwnBeat DEF BeatInv, Beats, Beat, Becomes, DaemonRow
<1>7. CASE CycleEnds(d)
  <2>1. Ticking(d) /\ proc[d].pc = "cycle" /\ Beat(d) /\ Ends(d)
    BY <1>7 DEF CycleEnds, At, Ticking
  <2>2. Becomes(d, "run", Tail(proc[d].todo), 0)
    BY <1>1, <2>1, EndsAt
  <2>3. faults' \in 0 .. MaxFaults
    BY <1>7, EndedRow DEF CycleEnds
  <2> QED
    BY <1>1, <2>1, <2>2, <2>3, OwnBeat DEF BeatInv, Beats, Beat, Becomes, DaemonRow
<1>8. CASE EndTick(d)
  <2>1. Ticking(d) /\ proc[d].pc = "run"
    BY <1>8 DEF EndTick, At, Ticking
  <2>2. PICK s \in {"wait", "release"} : Goes(d, s)
    BY <1>8 DEF EndTick
  <2>3. Becomes(d, s, proc[d].todo, proc[d].busy)
    BY <1>1, <2>2, GoesTo
  <2>4. Beats(d)
    BY <2>1 DEF BeatInv
  <2>5. CASE row' = [row EXCEPT !.age = 0] /\ faults' = faults
    BY <1>1, <2>1, <2>3, <2>4, <2>5, OwnBeat DEF Beats, Becomes, DaemonRow
  <2>6. CASE row' = row /\ faults' = faults + 1
    BY <1>1, <2>1, <2>3, <2>4, <2>6, OwnBeat DEF Beats, Becomes, DaemonRow
  <2> QED
    BY <1>8, <2>4, <2>5, <2>6 DEF EndTick, Fault, NoFault, Beats
<1>9. CASE Release(d)
  <2>1. Ticking(d) /\ Goes(d, "off")
    BY <1>9 DEF Release, At, Ticking
  <2>2. Becomes(d, "off", proc[d].todo, proc[d].busy)
    BY <1>1, <2>1, GoesTo
  <2> QED
    BY <2>1, <2>2, OwnBeat DEF Becomes, Ticking
<1> QED
  BY <1>2, <1>3, <1>4, <1>5, <1>6, <1>7, <1>8, <1>9 DEF DaemonStep

LEMMA BeatOfTick ==
    ASSUME RowsInv, BeatInv, Tick
    PROVE  BeatInv'
<1>1. SUFFICES ASSUME NEW d \in Daemons, Ticking(d)'
               PROVE  Beats(d)'
  BY DEF BeatInv
<1>2. /\ d \in Processes /\ proc[d].busy \in 0 .. MaxBusy /\ faults \in 0 .. MaxFaults
      /\ MaxBusy \in Nat /\ MaxFaults \in Nat /\ StaleAfter + 1 \in Nat
      /\ row \in DaemonRow
  BY Bounds, InRange, DaemonAssumption DEF Processes
<1>3. PICK a : a = Later(row.age, StaleAfter + 1)
  OBVIOUS
<1>4. a \in 0 .. StaleAfter + 1 /\ a <= row.age + 1
  BY <1>2, <1>3, LaterBounds DEF DaemonRow
<1>5. row' = [row EXCEPT !.age = a] /\ faults' = faults
  BY <1>3 DEF Tick
<1>6. CASE proc[d].pc = "wait"
  <2>1. proc'[d] = [proc[d] EXCEPT !.pc = "top"]
    BY <1>2, <1>6 DEF Tick, At
  <2>2. proc'[d].pc = "top" /\ Ticking(d)
    BY <1>2, <1>6, <2>1 DEF RowsInv, ProcInv, Ticking
  <2> QED
    BY <1>2, <1>4, <1>5, <1>6, <2>2 DEF BeatInv, Beats, DaemonRow
<1>7. CASE proc[d].pc = "cycle"
  <2>1. PICK b : b = Later(proc[d].busy, MaxBusy)
    OBVIOUS
  <2>2. b = proc[d].busy + 1
    BY <1>2, <1>7, <2>1, LaterBounds DEF Tick, At
  <2>3. proc'[d] = [proc[d] EXCEPT !.busy = b]
    BY <1>2, <1>7, <2>1 DEF Tick, At
  <2>4. proc'[d].pc = "cycle" /\ proc'[d].busy = b /\ Ticking(d)
    BY <1>2, <1>7, <2>3 DEF RowsInv, ProcInv, Ticking
  <2> QED
    BY <1>2, <1>4, <1>5, <1>7, <2>2, <2>4 DEF BeatInv, Beats, DaemonRow
<1>8. CASE proc[d].pc \in {"off", "done"}
  <2>1. proc[d].pc = "off" \/ proc[d].pc = "done"
    BY <1>8
  <2>2. proc'[d].pc = "off" \/ proc'[d] = proc[d]
    BY <1>2, <2>1 DEF Tick, At, Off
  <2>3. proc[d].pc = "done" => proc'[d] = Off
    BY <1>2 DEF Tick, At
  <2> QED
    BY <1>1, <2>1, <2>2, <2>3 DEF Ticking, Off
<1> QED
  BY <1>2, <1>6, <1>7, <1>8 DEF Tick

LEMMA BeatSteps ==
    ASSUME RowsInv, BeatInv, Patience, [Next]_vars
    PROVE  BeatInv'
<1>1. ProcInv /\ row \in DaemonRow /\ faults \in 0 .. MaxFaults /\ MaxFaults \in Nat
      /\ \A d \in Daemons : proc[d].busy \in 0 .. MaxBusy /\ d # Batch /\ d \in Processes
  BY Bounds, InRange, DaemonAssumption DEF RowsInv, Processes
<1>2. CASE RequestStop
  BY <1>1, <1>2 DEF RequestStop, BeatInv, Beats, Ticking, DaemonRow
<1>3. CASE BatchStep
  <2>1. row' = row /\ faults' \in Nat /\ faults <= faults'
    BY <1>1, <1>3
    DEF BatchStep, BatchTick, BatchCycle, BatchSkips, BatchCycleEnds, BatchEnds, Fault, NoFault
  <2>2. \A d \in Daemons : proc'[d] = proc[d]
    BY <1>1, <1>3
    DEF BatchStep, BatchTick, BatchCycle, BatchSkips, BatchCycleEnds, BatchEnds, Goes, Skips, Ends,
        ProcInv
  <2> QED
    BY <1>1, <2>1, <2>2 DEF BeatInv, Beats, Ticking, DaemonRow
<1>4. ASSUME NEW p \in Processes, Crash(p)
      PROVE  BeatInv'
  <2>1. Becomes(p, "off", <<>>, 0)
    BY <1>1, <1>4, DiesAt DEF Crash
  <2> QED
    BY <1>1, <1>4, <2>1 DEF Crash, Fault, Becomes, BeatInv, Beats, Ticking, DaemonRow
<1>5. ASSUME NEW t \in Targets,
             JobStarts(t) \/ JobEnds(t) \/ JobDies(t) \/ Repair(t) \/ Unpark(t)
      PROVE  BeatInv'
  <2>1. row' = row /\ proc' = proc /\ faults' \in Nat /\ faults <= faults'
    BY <1>1, <1>5, EndedRow DEF JobStarts, JobEnds, JobDies, Repair, Unpark, Fault, NoFault
  <2> QED
    BY <1>1, <2>1 DEF BeatInv, Beats, Ticking, DaemonRow
<1>6. CASE UNCHANGED vars
  BY <1>6 DEF vars, BeatInv, Beats, Ticking
<1> QED
  BY <1>2, <1>3, <1>4, <1>5, <1>6, BeatOfDaemons, BeatOfTick DEF Next

-------------------------------------------------------------------------------
(* The lease.                                                               *)

\* A step that starts no cycle, and takes the lease from nobody who goes on.
LEMMA NoneStarts ==
    ASSUME LeaseInv, working' \subseteq working,
           \A p \in Processes : \A t \in Targets : Runs(p, t)' => Runs(p, t),
           \A t \in Delta : (t \in working' \/ \E p \in Processes : Runs(p, t)') /\ Leased(t)
                               => Leased(t)',
           working \subseteq Delta
    PROVE  LeaseInv'
<1>1. Batch \in Processes /\ Delta \subseteq Targets /\ Triggers \subseteq Targets
  BY TickPlannerAssumption DEF Processes, Delta
<1>2. ASSUME NEW p \in Processes, NEW t \in Delta, Runs(p, t)'
      PROVE  Leased(t)' /\ t \notin working'
  BY <1>1, <1>2 DEF LeaseInv
<1>3. \A t \in working' : Leased(t)'
  BY DEF LeaseInv
<1>4. ASSUME NEW p \in Processes, NEW q \in Processes, NEW t \in Delta, Runs(p, t)', Runs(q, t)'
      PROVE  p = q
  <2>1. Runs(p, t) /\ Runs(q, t)
    BY <1>1, <1>4
  <2> QED
    BY <2>1 DEF LeaseInv
<1>5. ASSUME NEW t \in Triggers
      PROVE  ~Runs(Batch, t)'
  BY <1>1 DEF LeaseInv
<1> QED
  BY <1>2, <1>3, <1>4, <1>5 DEF LeaseInv

\* One process goes somewhere else than to a cycle, and only the row of the
\* target that it leaves changes, or one that nobody holds.
LEMMA Leaves ==
    ASSUME RowsInv, LeaseInv, working' \subseteq working, NEW h, Touches(h),
           NEW p \in Processes, NEW s, NEW list, NEW n, Becomes(p, s, list, n), s # "cycle",
           UNCHANGED tgt \/ (h \in Delta => (Runs(p, h) \/ ~Leased(h)))
    PROVE  LeaseInv'
<1>1. \A q \in Processes : \A t \in Targets : Runs(q, t)' => Runs(q, t) /\ q # p
  BY DEF Becomes, Runs
<1>2. ASSUME NEW t \in Delta, t \in working' \/ \E q \in Processes : Runs(q, t)', Leased(t)
      PROVE  Leased(t)'
  <2>1. t # h \/ UNCHANGED tgt
    BY <1>1, <1>2 DEF LeaseInv, Delta
  <2>2. tgt'[t] = tgt[t]
    BY <2>1 DEF Touches, Delta
  <2> QED
    BY <1>2, <2>2 DEF Leased
<1> QED
  BY <1>1, <1>2, NoneStarts DEF RowsInv

\* Nobody moves, and only the row of a target changes that nobody holds.
LEMMA Stays ==
    ASSUME RowsInv, LeaseInv, UNCHANGED proc, working' \subseteq working, NEW h, Touches(h),
           h \in Delta => (~Leased(h) \/ h \in working \ working')
    PROVE  LeaseInv'
<1>1. \A q \in Processes : \A t \in Targets : Runs(q, t)' => Runs(q, t)
  BY DEF Runs
<1>2. ASSUME NEW t \in Delta, t \in working' \/ \E q \in Processes : Runs(q, t)', Leased(t)
      PROVE  Leased(t)'
  <2>1. t # h
    BY <1>1, <1>2 DEF LeaseInv, Delta
  <2>2. tgt'[t] = tgt[t]
    BY <2>1 DEF Touches, Delta
  <2> QED
    BY <1>2, <2>2 DEF Leased
<1> QED
  BY <1>1, <1>2, NoneStarts DEF RowsInv

\* A process takes a lease that nobody held.
LEMMA Takes ==
    ASSUME RowsInv, LeaseInv, UNCHANGED working, NEW h, h \notin Triggers, ~Leased(h), Touches(h),
           h \in Targets => Leased(h)',
           NEW p \in Processes, NEW list, NEW n, Becomes(p, "cycle", list, n), Head(list) = h
    PROVE  LeaseInv'
<1>1. \A q \in Processes : \A t \in Targets : Runs(q, t)' => (Runs(q, t) /\ q # p) \/ (q = p /\ t = h)
  BY DEF Becomes, Runs
<1>2. \A q \in Processes : h \in Delta => ~Runs(q, h) /\ h \notin working
  BY DEF LeaseInv
<1>3. \A t \in Targets : t # h /\ Leased(t) => Leased(t)'
  BY DEF Touches, Leased
<1>4. Batch \in Processes /\ Delta \subseteq Targets /\ Triggers \subseteq Targets
      /\ working \subseteq Delta
  BY TickPlannerAssumption DEF Processes, Delta, RowsInv
<1>5. ASSUME NEW q \in Processes, NEW t \in Delta, Runs(q, t)'
      PROVE  Leased(t)' /\ t \notin working'
  <2>1. CASE t = h
    BY <1>2, <1>4, <2>1
  <2>2. CASE t # h
    BY <1>1, <1>3, <1>4, <1>5, <2>2 DEF LeaseInv
  <2> QED
    BY <2>1, <2>2
<1>6. \A t \in working' : Leased(t)'
  BY <1>3, <1>4 DEF LeaseInv
<1>7. ASSUME NEW q \in Processes, NEW r \in Processes, NEW t \in Delta, Runs(q, t)', Runs(r, t)'
      PROVE  q = r
  <2>1. CASE t = h
    BY <1>1, <1>2, <1>4, <1>7, <2>1
  <2>2. CASE t # h
    BY <1>1, <1>4, <1>7, <2>2 DEF LeaseInv
  <2> QED
    BY <2>1, <2>2
<1>8. ASSUME NEW t \in Triggers
      PROVE  ~Runs(Batch, t)'
  BY <1>1, <1>4 DEF LeaseInv
<1> QED
  BY <1>5, <1>6, <1>7, <1>8 DEF LeaseInv

LEMMA LeaseOfDaemons ==
    ASSUME RowsInv, LeaseInv, NEW d \in Daemons, DaemonStep(d)
    PROVE  LeaseInv'
<1>1. d \in Processes /\ d # Batch /\ ProcInv /\ tgt \in [Targets -> TargetRow]
  BY DaemonAssumption DEF RowsInv, Processes
<1>2. PICK h : h = Head(proc[d].todo)
  OBVIOUS
<1>3. PICK l : l = Tail(proc[d].todo)
  OBVIOUS
<1>4. PICK z : z = (IF row.stop THEN <<>> ELSE PlanTick(tgt))
  OBVIOUS
<1>5. CASE RunNext(d)
  <2>1. Becomes(d, "cycle", proc[d].todo, proc[d].busy) /\ working' = working
    BY <1>1, <1>5, GoesTo DEF RunNext
  <2>2. CASE h \in Triggers /\ UNCHANGED tgt
    <3>1. \A q \in Processes : \A t \in Delta : Runs(q, t)' => Runs(q, t)
      BY <1>2, <2>1, <2>2 DEF Becomes, Runs, Delta
    <3>2. ~(\E t \in Triggers : Runs(Batch, t)')
      BY <1>1, <2>1 DEF Becomes, Runs, LeaseInv, Processes
    <3>3. \A t : Leased(t)' <=> Leased(t)
      BY <2>2 DEF Leased
    <3> QED
      BY <2>1, <3>1, <3>2, <3>3 DEF LeaseInv
  <2>3. CASE h \notin Triggers /\ ~Leased(h) /\ Took(h)
    BY <1>1, <1>2, <2>1, <2>3, TookRow, Takes
  <2> QED
    BY <1>2, <1>5, <2>2, <2>3 DEF RunNext
<1>6. CASE CycleEnds(d)
  <2>1. Becomes(d, "run", l, 0) /\ working' = working /\ Touches(h)
    BY <1>1, <1>2, <1>3, <1>6, EndsAt, EndedRow DEF CycleEnds
  <2>2. Runs(d, h)
    BY <1>2, <1>6 DEF CycleEnds, Runs, At
  <2> QED
    BY <1>1, <2>1, <2>2, Leaves
<1>7. CASE ~RunNext(d) /\ ~CycleEnds(d) /\ proc' # proc
  <2>1. PICK s, list, n : Becomes(d, s, list, n) /\ s # "cycle"
    <3>1. ASSUME NEW s, Goes(d, s), s # "cycle"
          PROVE  \E r, list, n : Becomes(d, r, list, n) /\ r # "cycle"
      BY <1>1, <3>1, GoesTo
    <3>2. CASE proc' = [proc EXCEPT ![d] = [pc   |-> IF row.stop THEN "release" ELSE "run",
                                           todo |-> z, busy |-> 0]]
      <4>1. PICK s : s = (IF row.stop THEN "release" ELSE "run") /\ s # "cycle"
        OBVIOUS
      <4> QED
        BY <1>1, <3>2, <4>1, PlansTo
    <3>3. CASE Skips(d) /\ At(d, "run")
      BY <1>1, <1>3, <3>3, SkipsTo DEF At
    <3> QED
      BY <1>4, <1>7, <3>1, <3>2, <3>3
      DEF DaemonStep, Claim, ReadStop, Plan, SkipLeased, Detach, EndTick, Release
  <2>2. working' = working /\ tgt' = tgt
    BY <1>7 DEF DaemonStep, Claim, ReadStop, Plan, SkipLeased, Detach, EndTick, Release
  <2> QED
    BY <1>1, <2>1, <2>2, SameRows, Leaves
<1>8. CASE ~RunNext(d) /\ ~CycleEnds(d) /\ proc' = proc
  <2>1. working' = working /\ tgt' = tgt
    BY <1>8 DEF DaemonStep, Claim, ReadStop, Plan, SkipLeased, Detach, EndTick, Release
  <2> QED
    BY <1>8, <2>1 DEF LeaseInv, Runs, Leased
<1> QED
  BY <1>5, <1>6, <1>7, <1>8

LEMMA LeaseOfBatch ==
    ASSUME RowsInv, LeaseInv, BatchStep
    PROVE  LeaseInv'
<1>1. Batch \in Processes /\ ProcInv /\ tgt \in [Targets -> TargetRow]
      /\ Triggers \cap Delta = {}
  BY DEF RowsInv, Processes, Delta
<1>2. PICK h : h = Head(proc[Batch].todo)
  OBVIOUS
<1>3. PICK l : l = Tail(proc[Batch].todo)
  OBVIOUS
<1>4. PICK z : z = BatchPlan
  OBVIOUS
<1>5. CASE BatchTick
  <2>1. Becomes(Batch, "run", z, 0) /\ working' = working /\ tgt' = tgt
    BY <1>1, <1>4, <1>5, PlansTo DEF BatchTick
  <2> QED
    BY <1>1, <2>1, SameRows, Leaves
<1>6. CASE BatchCycle
  <2>1. Becomes(Batch, "cycle", proc[Batch].todo, proc[Batch].busy) /\ working' = working
    BY <1>1, <1>6, GoesTo DEF BatchCycle
  <2>2. h \notin Triggers /\ ~Leased(h) /\ Took(h)
    BY <1>2, <1>6 DEF BatchCycle
  <2> QED
    BY <1>1, <1>2, <2>1, <2>2, TookRow, Takes
<1>7. CASE BatchSkips
  <2>1. Becomes(Batch, "run", l, proc[Batch].busy) /\ working' = working
    <3>1. proc[Batch].pc = "run"
      BY <1>7 DEF BatchSkips, At
    <3>2. Becomes(Batch, proc[Batch].pc, Tail(proc[Batch].todo), proc[Batch].busy)
      BY <1>1, <1>7, SkipsTo DEF BatchSkips
    <3> QED
      BY <1>3, <1>7, <3>1, <3>2 DEF BatchSkips
  <2>2. CASE UNCHANGED tgt
    BY <1>1, <2>1, <2>2, SameRows, Leaves
  <2>3. CASE h \in Triggers /\ tgt' = [tgt EXCEPT ![h] = [FailedRow(@) EXCEPT !.lease = 0]]
    <3>1. Touches(h) /\ h \notin Delta
      BY <1>1, <2>3, RowKinds, TouchesRow
    <3> QED
      BY <1>1, <2>1, <3>1, Leaves
  <2> QED
    BY <1>2, <1>7, <2>2, <2>3 DEF BatchSkips
<1>8. CASE BatchCycleEnds
  <2>1. Becomes(Batch, "run", l, 0) /\ working' = working
    BY <1>1, <1>3, <1>8, EndsAt DEF BatchCycleEnds
  <2>2. Runs(Batch, h)
    BY <1>2, <1>8 DEF BatchCycleEnds, Runs, At
  <2>3. Touches(h)
    BY <1>1, <1>2, <1>8, RowKinds, TouchesRow DEF BatchCycleEnds
  <2> QED
    BY <1>1, <2>1, <2>2, <2>3, Leaves
<1>9. CASE BatchEnds
  <2>1. Becomes(Batch, "done", proc[Batch].todo, proc[Batch].busy) /\ working' = working /\ tgt' = tgt
    BY <1>1, <1>9, GoesTo DEF BatchEnds
  <2> QED
    BY <1>1, <2>1, SameRows, Leaves
<1> QED
  BY <1>5, <1>6, <1>7, <1>8, <1>9 DEF BatchStep

LEMMA LeaseOfJobs ==
    ASSUME RowsInv, LeaseInv, NEW t \in Targets, JobStarts(t) \/ JobEnds(t) \/ JobDies(t)
    PROVE  LeaseInv'
<1>1. tgt \in [Targets -> TargetRow] /\ working \subseteq Delta /\ jobs \cap Triggers = {}
  BY DEF RowsInv
<1>2. CASE JobStarts(t) /\ Leased(t)
  BY <1>2 DEF JobStarts, LeaseInv, Runs, Leased
<1>3. CASE JobStarts(t) /\ ~Leased(t)
  <2>1. /\ t \in Delta /\ Touches(t) /\ Leased(t)' /\ working' = working \cup {t}
        /\ \A q \in Processes : \A u : Runs(q, u)' <=> Runs(q, u)
    BY <1>1, <1>3, TookRow DEF JobStarts, Delta, Runs
  <2>2. \A q \in Processes : ~Runs(q, t)
    BY <1>3, <2>1 DEF LeaseInv
  <2>3. \A u \in Delta : Leased(u) => Leased(u)'
    BY <2>1 DEF Touches, Leased, Delta
  <2>4. Batch \in Processes
    BY DEF Processes
  <2> QED
    BY <1>1, <2>1, <2>2, <2>3, <2>4 DEF LeaseInv
<1>4. CASE JobEnds(t)
  <2>1. t \in working /\ working' = working \ {t} /\ UNCHANGED proc /\ Touches(t)
    BY <1>4, EndedRow DEF JobEnds
  <2> QED
    BY <2>1, Stays
<1>5. CASE JobDies(t)
  <2>1. working' \subseteq working /\ UNCHANGED proc /\ UNCHANGED tgt
    BY <1>5 DEF JobDies
  <2> QED
    BY <2>1 DEF LeaseInv, Runs, Leased
<1> QED
  BY <1>2, <1>3, <1>4, <1>5

LEMMA LeaseOfTick ==
    ASSUME RowsInv, LeaseInv, Tick
    PROVE  LeaseInv'
<1>1. ASSUME NEW p \in Processes, NEW t \in Targets, Runs(p, t)'
      PROVE  Runs(p, t)
  <2>1. proc[p].pc \in {"off", "wait", "cycle", "done"} /\ ProcInv
    BY DEF Tick, RowsInv
  <2>2. CASE proc[p].pc = "wait"
    <3>1. proc'[p] = [proc[p] EXCEPT !.pc = "top"]
      BY <2>2 DEF Tick, At
    <3>2. proc'[p].pc = "top"
      BY <2>1, <3>1 DEF ProcInv
    <3> QED
      BY <1>1, <3>2 DEF Runs
  <2>3. CASE proc[p].pc = "cycle"
    <3>1. PICK b : b = Later(proc[p].busy, MaxBusy)
      OBVIOUS
    <3>2. proc'[p] = [proc[p] EXCEPT !.busy = b]
      BY <2>3, <3>1 DEF Tick, At
    <3>3. proc'[p].todo = proc[p].todo
      BY <2>1, <3>2 DEF ProcInv
    <3> QED
      BY <1>1, <2>3, <3>3 DEF Runs
  <2>4. CASE proc[p].pc = "done"
    <3>1. proc'[p] = Off
      BY <2>4 DEF Tick, At
    <3> QED
      BY <1>1, <3>1 DEF Runs, Off
  <2>5. CASE proc[p].pc = "off"
    <3>1. proc'[p] = proc[p]
      BY <2>5 DEF Tick, At
    <3> QED
      BY <1>1, <3>1 DEF Runs
  <2> QED
    BY <2>1, <2>2, <2>3, <2>4, <2>5
<1>2. ASSUME NEW t \in Delta, t \in working \/ \E p \in Processes : Runs(p, t), Leased(t)
      PROVE  Leased(t)'
  <2>1. t \in Targets /\ tgt[t] \in TargetRow
    BY DEF Delta, RowsInv
  <2>2. Cycling(t) # {} \/ t \in working
    BY <1>2 DEF Cycling, Runs, At
  <2>3. tgt[t].lease + 1 < LeaseTtl
    BY <2>2 DEF Tick, Delta
  <2>4. PICK a, b : a = Later(tgt[t].since, Horizon) /\ b = Later(tgt[t].lease, MaxCycle)
    OBVIOUS
  <2>5. tgt[t].lease \in 0 .. MaxCycle /\ b \in 0 .. MaxCycle /\ b <= tgt[t].lease + 1
    BY <2>1, <2>4, Bounds, LaterBounds DEF TargetRow
  <2>6. tgt'[t] = [tgt[t] EXCEPT !.since = a, !.lease = b]
    BY <2>1, <2>4 DEF Tick
  <2>7. tgt'[t].lease = b /\ tgt'[t].status = tgt[t].status
    BY <2>1, <2>6 DEF TargetRow
  <2> QED
    BY <1>2, <2>3, <2>5, <2>7, Bounds DEF Leased
<1>3. working' = working /\ Delta \subseteq Targets
  BY DEF Tick, Delta
<1> QED
  BY <1>1, <1>2, <1>3, NoneStarts DEF RowsInv

LEMMA LeaseSteps ==
    ASSUME RowsInv, LeaseInv, [Next]_vars
    PROVE  LeaseInv'
<1>1. ProcInv /\ tgt \in [Targets -> TargetRow] /\ Triggers \cap Delta = {}
  BY DEF RowsInv, Delta
<1>2. ASSUME NEW p \in Processes, Crash(p)
      PROVE  LeaseInv'
  <2>1. Becomes(p, "off", <<>>, 0) /\ working' = working /\ tgt' = tgt
    BY <1>1, <1>2, DiesAt DEF Crash
  <2> QED
    BY <1>1, <2>1, SameRows, Leaves
<1>3. ASSUME NEW t \in Targets, Repair(t) \/ Unpark(t)
      PROVE  LeaseInv'
  <2>1. Touches(t) /\ working' = working /\ UNCHANGED proc
    BY <1>1, <1>3, RowKinds, TouchesRow DEF Repair, Unpark
  <2>2. t \in Delta => ~Leased(t)
    BY <1>1, <1>3 DEF Repair, Unpark, Leased
  <2> QED
    BY <2>1, <2>2, Stays
<1>4. CASE RequestStop
  BY <1>4 DEF RequestStop, LeaseInv, Runs, Leased
<1>5. CASE UNCHANGED vars
  BY <1>5 DEF vars, LeaseInv, Runs, Leased
<1> QED
  BY <1>2, <1>3, <1>4, <1>5, LeaseOfDaemons, LeaseOfBatch, LeaseOfJobs, LeaseOfTick DEF Next

-------------------------------------------------------------------------------
(* What follows.                                                            *)

LEMMA AtMostOne ==
    ASSUME NEW S, \A p, q \in S : p = q
    PROVE  Cardinality(S) \in {0, 1} /\ (S = {} => Cardinality(S) = 0)
<1>1. CASE S = {}
  BY <1>1, FS_EmptySet
<1>2. CASE S # {}
  <2>1. PICK p : S = {p}
    BY <1>2
  <2> QED
    BY <1>2, <2>1, FS_Singleton
<1> QED
  BY <1>1, <1>2

LEMMA CyclingRuns ==
    ASSUME NEW t \in Targets
    PROVE  Cycling(t) = {p \in Processes : Runs(p, t)}
BY DEF Cycling, Runs, At

RunOnce(t) == Cardinality(Cycling(t)) + (IF t \in working THEN 1 ELSE 0) <= 1

LEMMA DeltaOnce ==
    ASSUME RowsInv, LeaseInv, NEW t \in Delta
    PROVE  RunOnce(t)
<1>1. t \in Targets /\ \A p, q \in Cycling(t) : p = q
  BY CyclingRuns DEF LeaseInv, Delta
<1>2. t \in working => Cycling(t) = {}
  BY <1>1, CyclingRuns DEF LeaseInv
<1> QED
  BY <1>1, <1>2, AtMostOne DEF RunOnce

LEMMA TriggerOnce ==
    ASSUME RowsInv, BeatInv, LeaseInv, NEW t \in Triggers
    PROVE  RunOnce(t)
<1>1. t \in Targets /\ t \notin working
  BY TickPlannerAssumption DEF RowsInv, Delta
<1>2. ASSUME NEW p \in Cycling(t)
      PROVE  p \in Daemons /\ row.owner = p
  <2>1. p \in Processes /\ Runs(p, t)
    BY <1>1, <1>2, CyclingRuns
  <2>2. p \in Daemons /\ Ticking(p)
    BY <2>1 DEF LeaseInv, Processes, Runs, Ticking
  <2> QED
    BY <2>2 DEF BeatInv, Beats
<1> QED
  BY <1>1, <1>2, AtMostOne DEF RunOnce

LEMMA RowsAndLeases == Spec => [](RowsInv /\ LeaseInv)
<1>1. Init => RowsInv /\ LeaseInv
  <2>1. Init => \A p \in Processes : proc[p].pc = "off"
    BY DEF Init, Off
  <2>2. Init => LeaseInv
    BY <2>1, TickPlannerAssumption DEF Init, LeaseInv, Runs, Processes
  <2> QED
    BY <2>2, RowsStart
<1>2. RowsInv /\ LeaseInv /\ [Next]_vars => RowsInv' /\ LeaseInv'
  BY RowsSteps, LeaseSteps
<1> QED
  BY <1>1, <1>2, PTL DEF Spec

LEMMA DaemonAlways ==
    ASSUME Patience
    PROVE  Spec => [](RowsInv /\ BeatInv)
<1>1. Init => RowsInv /\ BeatInv
  <2>1. Init => BeatInv
    BY DEF Init, Off, BeatInv, Ticking, Processes
  <2> QED
    BY <2>1, RowsStart
<1>2. RowsInv /\ BeatInv /\ [Next]_vars => RowsInv' /\ BeatInv'
  BY RowsSteps, BeatSteps
<1> QED
  BY <1>1, <1>2, PTL DEF Spec

\* The rows of the daemon and of the targets, the processes and the jobs hold
\* what they should, whatever is planned; no trigger cycle goes to a job.
THEOREM RowsCorrect == Spec => []RowsInv
BY RowsAndLeases, PTL

\* If a heartbeat goes stale later than an inline cycle and all lost calls
\* together can delay one (the patience of the claim, StaleAfter), two instances
\* never tick at once, however they start, die, lose answers or are stopped.
THEOREM DaemonIsAlone ==
    ASSUME Patience
    PROVE  Spec => []OneDaemon
<1>1. BeatInv => OneDaemon
  BY DEF BeatInv, Beats, OneDaemon
<1> QED
  BY <1>1, DaemonAlways, PTL

\* Whatever daemons, worker jobs and the batch job plan and run, and also if two
\* daemons tick: the lease, tested when a cycle starts, lets one of them run a
\* delta target.
THEOREM LeaseRunsOnce == Spec => [](\A t \in Delta : RunOnce(t))
<1>1. RowsInv /\ LeaseInv => \A t \in Delta : RunOnce(t)
  BY DeltaOnce
<1> QED
  BY <1>1, RowsAndLeases, PTL

\* With the patience above, trigger targets too, which have no lease: only daemons
\* run their cycles, and one ticks.
THEOREM TargetRunsOnce ==
    ASSUME Patience
    PROVE  Spec => []OneCyclePerTarget
<1>1. RowsInv /\ BeatInv /\ LeaseInv => OneCyclePerTarget
  <2>1. Targets = Delta \cup Triggers
    BY TickPlannerAssumption DEF Delta
  <2> QED
    BY <2>1, DeltaOnce, TriggerOnce DEF RunOnce, OneCyclePerTarget
<1> QED
  BY <1>1, DaemonAlways, RowsAndLeases, PTL

-------------------------------------------------------------------------------
(* What is left to do.                                                      *)

\* Every list has registered targets, and a cycle is one of its list; no trigger
\* target waits for a job.
ListsInv ==
    \A p \in Processes :
       proc[p].todo \in Seq(Targets) /\ (proc[p].pc = "cycle" => proc[p].todo # <<>>)

TodoInv == ListsInv /\ jobs \subseteq Delta /\ passed \in [Targets -> Nat]

LEMMA RowsAreRead ==
    ASSUME RowsInv
    PROVE  tgt \in PlannerRows
<1>1. tgt \in [Targets -> TargetRow]
  BY DEF RowsInv
<1>2. ASSUME NEW x \in TargetRow
      PROVE  x \in PlannerRow
  <2>1. /\ x = [since |-> x.since, lease |-> x.lease, full |-> x.full, live |-> x.live,
                status |-> x.status, fail |-> x.fail]
        /\ x.since \in Nat \cup {Never} /\ x.lease \in Nat /\ x.fail \in Nat
        /\ x.full \in BOOLEAN /\ x.live \in BOOLEAN
        /\ x.status \in {"IDLE", "RUNNING", "ERROR", "BLOCKED"}
    BY DEF TargetRow
  <2> QED
    BY <2>1 DEF PlannerRow
<1> QED
  BY <1>1, <1>2 DEF PlannerRows

LEMMA BatchPlanIsList == BatchPlan \in Seq(Targets)
<1> DEFINE S == {t \in Targets : BatchDue(t)}
           R == {ss \in Targets \X Targets : Name[ss[1]] < Name[ss[2]]}
           c == BatchPlan
<1>1. S \subseteq Targets /\ IsFiniteSet(S) /\ Cardinality(S) \in Nat
  BY FS_Subset, FS_CardinalityType, TickPlannerAssumption
<1>2. Orders(R, S)
  <2>1. \A t, u \in S : <<t, u>> \in R <=> Name[t] < Name[u]
    OBVIOUS
  <2>2. \A t \in S : Name[t] \in Int
    BY TickPlannerAssumption
  <2>3. \A t, u \in S : Name[t] = Name[u] => t = u
    BY TickPlannerAssumption
  <2> HIDE DEF R, S
  <2> QED
    BY <2>1, <2>2, <2>3 DEF Orders
<1>3. c = [i \in 1 .. Cardinality(S) |->
              CHOOSE t \in S : Cardinality({u \in S : Name[u] < Name[t]}) = i - 1]
  BY DEF BatchPlan, Ranked
<1>4. ASSUME NEW i \in 1 .. Cardinality(S)
      PROVE  c[i] \in S
  <2>1. PICK t \in S : Cardinality(Preceding(R, S, t)) = i - 1
    <3> HIDE DEF R, S
    <3> QED
      BY <1>1, <1>2, RankIsTaken
  <2>2. Preceding(R, S, t) = {u \in S : Name[u] < Name[t]}
    BY DEF Preceding
  <2>3. \E x \in S : Cardinality({u \in S : Name[u] < Name[x]}) = i - 1
    BY <2>1, <2>2
  <2> HIDE DEF S
  <2> QED
    BY <1>3, <2>3
<1> HIDE DEF c, S
<1>5. c \in [1 .. Cardinality(S) -> Targets]
  BY <1>1, <1>3, <1>4
<1> QED
  BY <1>1, <1>5 DEF c

LEMMA NothingIsList == <<>> \in Seq(Targets)
OBVIOUS

\* The process that moves has a list that is well formed.
LEMMA ListsMove ==
    ASSUME ListsInv, NEW p \in Processes, NEW s, NEW list, list \in Seq(Targets),
           s = "cycle" => list # <<>>, NEW n, Becomes(p, s, list, n)
    PROVE  ListsInv'
BY DEF ListsInv, Becomes

LEMMA TodoOfDaemons ==
    ASSUME RowsInv, TodoInv, NEW d \in Daemons, DaemonStep(d)
    PROVE  TodoInv'
<1>1. d \in Processes /\ ProcInv /\ ListsInv
  BY DEF RowsInv, Processes, TodoInv
<1>2. proc[d].todo \in Seq(Targets) /\ (proc[d].todo # <<>> => Tail(proc[d].todo) \in Seq(Targets))
  BY <1>1 DEF ListsInv
<1>3. ListsInv'
  <2>1. ASSUME NEW s, s # "cycle", Goes(d, s)
        PROVE  ListsInv'
    BY <1>1, <1>2, <2>1, GoesTo, ListsMove
  <2>2. CASE UNCHANGED proc
    BY <1>1, <2>2 DEF ListsInv
  <2>3. CASE Plan(d)
    <3>1. CASE Goes(d, "run")
      BY <2>1, <3>1
    <3>2. PICK s, list : s = (IF row.stop THEN "release" ELSE "run")
                         /\ list = (IF row.stop THEN <<>> ELSE PlanTick(tgt))
      OBVIOUS
    <3>3. list \in Seq(Targets) /\ s # "cycle"
      BY <3>2, RowsAreRead, PlanIsBounded, NothingIsList
    <3>4. CASE proc' = [proc EXCEPT ![d] = [pc |-> s, todo |-> list, busy |-> 0]]
      BY <1>1, <3>3, <3>4, PlansTo, ListsMove
    <3> QED
      BY <2>3, <3>1, <3>2, <3>4 DEF Plan
  <2>4. CASE RunNext(d)
    BY <1>1, <1>2, <2>4, GoesTo, ListsMove DEF RunNext
  <2>5. CASE SkipLeased(d) \/ Detach(d)
    <3>1. proc[d].pc = "run" /\ proc[d].todo # <<>> /\ Skips(d)
      BY <2>5 DEF SkipLeased, Detach, At
    <3> QED
      BY <1>1, <1>2, <3>1, SkipsTo, ListsMove
  <2>6. CASE CycleEnds(d)
    <3>1. proc[d].todo # <<>> /\ Ends(d)
      BY <1>1, <2>6 DEF CycleEnds, At, ListsInv
    <3> QED
      BY <1>1, <1>2, <3>1, EndsAt, ListsMove
  <2>7. CASE Claim(d) \/ ReadStop(d) \/ EndTick(d) \/ Release(d)
    BY <2>1, <2>2, <2>7 DEF Claim, ReadStop, EndTick, Release
  <2> QED
    BY <2>3, <2>4, <2>5, <2>6, <2>7 DEF DaemonStep
<1>4. jobs' \subseteq Delta
  <2>1. CASE Detach(d)
    <3>1. Head(proc[d].todo) \in Targets /\ Head(proc[d].todo) \notin Triggers
      BY <1>2, <2>1 DEF Detach, Detachable
    <3> QED
      BY <2>1, <3>1 DEF Detach, TodoInv, Delta
  <2> QED
    BY <2>1 DEF DaemonStep, TodoInv, Claim, ReadStop, Plan, RunNext, SkipLeased, CycleEnds, EndTick, Release
<1>5. passed' \in [Targets -> Nat]
  <2>1. CASE Claim(d)
    BY <2>1 DEF Claim
  <2>2. CASE Plan(d)
    <3>1. \A t \in Targets : passed[t] \in Nat /\ Later(passed[t], MaxPassed + 1) \in Nat
      BY DEF TodoInv, Later
    <3> QED
      BY <2>2, <3>1 DEF Plan, TodoInv
  <2> QED
    BY <2>1, <2>2 DEF DaemonStep, TodoInv, ReadStop, RunNext, SkipLeased, Detach, CycleEnds, EndTick, Release
<1> QED
  BY <1>3, <1>4, <1>5 DEF TodoInv

LEMMA TodoOfBatch ==
    ASSUME RowsInv, TodoInv, BatchStep
    PROVE  TodoInv'
<1>1. Batch \in Processes /\ ProcInv /\ ListsInv
  BY DEF RowsInv, Processes, TodoInv
<1>2. /\ proc[Batch].todo \in Seq(Targets)
      /\ proc[Batch].todo # <<>> => Tail(proc[Batch].todo) \in Seq(Targets)
  BY <1>1 DEF ListsInv
<1>3. ListsInv'
  <2>1. CASE BatchTick
    BY <1>1, <2>1, BatchPlanIsList, PlansTo, ListsMove DEF BatchTick
  <2>2. CASE BatchCycle
    BY <1>1, <1>2, <2>2, GoesTo, ListsMove DEF BatchCycle
  <2>3. CASE BatchSkips
    BY <1>1, <1>2, <2>3, SkipsTo, ListsMove DEF BatchSkips, At
  <2>4. CASE BatchCycleEnds
    <3>1. proc[Batch].todo # <<>> /\ Ends(Batch)
      BY <1>1, <2>4 DEF BatchCycleEnds, At, ListsInv
    <3>2. Becomes(Batch, "run", Tail(proc[Batch].todo), 0)
      BY <1>1, <3>1, EndsAt
    <3>3. Tail(proc[Batch].todo) \in Seq(Targets)
      BY <1>2, <3>1
    <3>4. "run" # "cycle"
      OBVIOUS
    <3> QED
      BY <1>1, <3>2, <3>3, <3>4, ListsMove
  <2>5. CASE BatchEnds
    <3>1. Becomes(Batch, "done", proc[Batch].todo, proc[Batch].busy)
      BY <1>1, <2>5, GoesTo DEF BatchEnds
    <3>2. "done" # "cycle"
      OBVIOUS
    <3> QED
      BY <1>1, <1>2, <3>1, <3>2, ListsMove
  <2> QED
    BY <2>1, <2>2, <2>3, <2>4, <2>5 DEF BatchStep
<1> QED
  BY <1>3 DEF TodoInv, BatchStep, BatchTick, BatchCycle, BatchSkips, BatchCycleEnds, BatchEnds

LEMMA TodoSteps ==
    ASSUME RowsInv, TodoInv, [Next]_vars
    PROVE  TodoInv'
<1>1. ProcInv /\ ListsInv
  BY DEF RowsInv, TodoInv
<1>2. ASSUME NEW p \in Processes, Crash(p)
      PROVE  TodoInv'
  <2>1. ListsInv'
    BY <1>1, <1>2, DiesAt, ListsMove, NothingIsList DEF Crash
  <2> QED
    BY <1>2, <2>1 DEF Crash, TodoInv
<1>3. CASE Tick
  <2>1. ASSUME NEW p \in Processes
        PROVE  proc'[p].todo \in Seq(Targets) /\ (proc'[p].pc = "cycle" => proc'[p].todo # <<>>)
    <3>1. /\ proc[p] = [pc |-> proc[p].pc, todo |-> proc[p].todo, busy |-> proc[p].busy]
          /\ proc[p].todo \in Seq(Targets) /\ (proc[p].pc = "cycle" => proc[p].todo # <<>>)
      BY <1>1 DEF ProcInv, ListsInv
    <3>2. CASE At(p, "wait")
      <4>1. proc'[p] = [proc[p] EXCEPT !.pc = "top"]
        BY <1>3, <3>2 DEF Tick, At
      <4> QED
        BY <3>1, <4>1
    <3>3. CASE At(p, "cycle")
      <4>1. proc'[p] = [proc[p] EXCEPT !.busy = Later(@, MaxBusy)]
        BY <1>3, <3>3 DEF Tick, At
      <4>2. proc'[p].todo = proc[p].todo /\ proc'[p].pc = proc[p].pc
        BY <3>1, <4>1
      <4> QED
        BY <3>1, <4>2
    <3>4. CASE At(p, "done")
      <4>1. proc'[p] = Off
        BY <1>3, <3>4 DEF Tick, At
      <4> QED
        BY <4>1, NothingIsList DEF Off
    <3>5. CASE ~At(p, "wait") /\ ~At(p, "cycle") /\ ~At(p, "done")
      BY <1>3, <3>1, <3>5 DEF Tick
    <3> QED
      BY <3>2, <3>3, <3>4, <3>5
  <2> QED
    BY <1>3, <2>1 DEF Tick, TodoInv, ListsInv
<1>4. ASSUME NEW t \in Targets, JobStarts(t) \/ JobEnds(t) \/ JobDies(t) \/ Repair(t) \/ Unpark(t)
      PROVE  TodoInv'
  BY <1>4 DEF JobStarts, JobEnds, JobDies, Repair, Unpark, TodoInv, ListsInv
<1>5. CASE RequestStop \/ UNCHANGED vars
  BY <1>5 DEF RequestStop, vars, TodoInv, ListsInv
<1>6. ASSUME NEW d \in Daemons, DaemonStep(d)
      PROVE  TodoInv'
  BY <1>6, TodoOfDaemons
<1>7. CASE BatchStep
  BY <1>7, TodoOfBatch
<1> QED
  BY <1>2, <1>3, <1>4, <1>5, <1>6, <1>7 DEF Next

LEMMA TodoStart == Init => TodoInv
<1>1. SUFFICES ASSUME Init PROVE TodoInv
  OBVIOUS
<1>2. \A p \in Processes : proc[p].todo = <<>> /\ proc[p].pc = "off"
  BY <1>1 DEF Init, Off
<1>3. ListsInv
  BY <1>2, NothingIsList DEF ListsInv
<1> QED
  BY <1>1, <1>3 DEF Init, TodoInv

\* The row of the daemon, the rows of the targets, the processes with what they have
\* planned, the jobs and the counts hold what they should: a plan, of a tick or of
\* the batch job, has registered targets only, and what goes to a job is no trigger
\* target.
THEOREM DaemonTypeCorrect == Spec => []TypeOK
<1>1. Init => RowsInv /\ TodoInv
  BY RowsStart, TodoStart
<1>2. RowsInv /\ TodoInv /\ [Next]_vars => RowsInv' /\ TodoInv'
  BY RowsSteps, TodoSteps
<1>3. RowsInv /\ TodoInv => TypeOK
  <2>1. SUFFICES ASSUME RowsInv, TodoInv
                 PROVE  TypeOK
    OBVIOUS
  <2>2. \A p \in Processes : Range(proc[p].todo) \subseteq Targets
    BY <2>1 DEF TodoInv, ListsInv, Range
  <2> QED
    BY <2>1, <2>2 DEF RowsInv, ProcInv, DaemonRow, Steps, TodoInv, ListsInv, TypeOK, At, Delta
<1> QED
  BY <1>1, <1>2, <1>3, PTL DEF Spec
===============================================================================
