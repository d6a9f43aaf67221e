--------------------------- MODULE DeltaCycleProofs ---------------------------
(***************************************************************************)
(* Safety of DeltaCycle for any number of executors, keys and runs.        *)
(***************************************************************************)
EXTENDS DeltaCycle, TLAPS

\* A run that has an id and is not over; only such a run touches the server.
HasRun == {"open"} \cup InCycle

(***************************************************************************)
(* The types, and two facts they need: past BeginLoad an executor has a    *)
(* run id, and its bounds come from a clock that is beyond Safety.         *)
(***************************************************************************)
TypeInv ==
    /\ TypeOK
    /\ \A w \in Executor : pc[w] \in HasRun => run[w] \in Run

LEMMA KeyFacts == 1 \in Key /\ LastKey \in Key
BY DeltaCycleAssumption DEF Key

LEMMA NullFacts ==
    /\ NoRows \in Rows
    /\ NoTable \in Table
    /\ NoStats \in StatsType
    /\ NoRun \notin Run
BY DEF NoRows, Rows, NoTable, Table, NoStats, StatsType, Null, NoRun, Run

\* Closing a run keeps the statistics row well formed.
LEMMA ClosedType ==
    ASSUME NEW s \in {"NONE", "RUNNING", "SUCCESS", "ERROR", "ABANDONED"}
    PROVE  Closed(s) \in StatsType
BY NullFacts DEF Closed, StatsType, NoStats

\* Merging two tables gives a table.
LEMMA MergedType ==
    ASSUME NEW a \in Rows, NEW b \in Rows
    PROVE  Merged(a, b) \in Rows
BY DEF Merged, Rows

\* The failure count stays within its bound.
LEMMA BumpType ==
    ASSUME NEW n \in 0 .. MaxFail
    PROVE  BumpFail(n) \in 0 .. MaxFail
BY DeltaCycleAssumption DEF BumpFail

LEMMA RetiredType ==
    ASSUME TypeOK, NEW q \in Run
    PROVE  /\ Retired(q) \in StatsType
           /\ Retired(q).to = stats[q].to
           /\ Retired(q).type = stats[q].type
BY DEF TypeOK, Retired, StatsType

\* What leaving a cycle writes has the right type.
LEMMA DropType ==
    ASSUME TypeOK, NEW w \in Executor, Drop(w)
    PROVE  /\ ltype' \in [Executor -> {"D", "F", "L", "I"}]
           /\ plan' \in [Executor -> [floor : Int, to : Nat]]
           /\ page' \in [Executor -> Key]
           /\ shape' \in [Executor -> [staged : BOOLEAN, target : BOOLEAN, wm : Nat]]
BY KeyFacts DEF TypeOK, Drop, NoPlan, NoShape, Null

LEMMA GiveUpType ==
    ASSUME TypeInv, NEW w \in Executor, GiveUp(w)
    PROVE  /\ pc' = [pc EXCEPT ![w] = "failed"] /\ run' = run
           /\ pc' \in [Executor -> {"idle", "take", "begin", "open", "failed"} \cup InCycle]
           /\ \A v \in Executor : pc'[v] \in HasRun => run'[v] \in Run
BY DEF TypeInv, TypeOK, GiveUp, Goto, HasRun, InCycle

LEMMA LeaveType ==
    ASSUME TypeInv, NEW w \in Executor, Leave(w)
    PROVE  /\ pc' = [pc EXCEPT ![w] = "idle"] /\ run' = [run EXCEPT ![w] = NoRun]
           /\ pc' \in [Executor -> {"idle", "take", "begin", "open", "failed"} \cup InCycle]
           /\ run' \in [Executor -> Run \cup {NoRun}]
           /\ \A v \in Executor : pc'[v] \in HasRun => run'[v] \in Run
BY DEF TypeInv, TypeOK, Leave, Goto, HasRun, InCycle

LEMMA FaultType ==
    ASSUME TypeOK, Fault \/ UNCHANGED faults
    PROVE  faults' \in 0 .. MaxFaults
BY DeltaCycleAssumption DEF TypeOK, Fault

THEOREM InitType == Init => TypeInv
<1> SUFFICES ASSUME Init PROVE TypeInv
  OBVIOUS
<1>1. clock \in Nat /\ clock > Safety
  BY DeltaCycleAssumption DEF Init
<1>2. source \in Rows /\ pending \in Rows /\ replay \in Rows
  BY NullFacts DEF Init, Rows, Null
<1>3. changes \in 0 .. MaxChanges /\ faults \in 0 .. MaxFaults
  BY DeltaCycleAssumption DEF Init
<1>4. state \in StateType
  BY DeltaCycleAssumption DEF Init, StateType, Null, NoRun
<1>5. stats \in [Run -> StatsType] /\ stage \in [Run -> Table] /\ target \in Table
  BY NullFacts DEF Init
<1>6. nextRun \in 1 .. MaxRun + 1
  BY DeltaCycleAssumption DEF Init
<1>7. /\ pc \in [Executor -> {"idle", "take", "begin", "open", "failed"} \cup InCycle]
      /\ run \in [Executor -> Run \cup {NoRun}]
      /\ ltype \in [Executor -> {"D", "F", "L", "I"}]
      /\ plan \in [Executor -> [floor : Int, to : Nat]]
      /\ page \in [Executor -> Key]
      /\ shape \in [Executor -> [staged : BOOLEAN, target : BOOLEAN, wm : Nat]]
  BY KeyFacts DEF Init, NoPlan, NoShape, Null
<1>8. \A w \in Executor : pc[w] \notin HasRun
  BY DEF Init, HasRun, InCycle
<1> QED
  BY <1>1, <1>2, <1>3, <1>4, <1>5, <1>6, <1>7, <1>8 DEF TypeInv, TypeOK

\* What an executor remembers, and where it is.
LocalType ==
    /\ pc \in [Executor -> {"idle", "take", "begin", "open", "failed"} \cup InCycle]
    /\ run \in [Executor -> Run \cup {NoRun}]
    /\ ltype \in [Executor -> {"D", "F", "L", "I"}]
    /\ plan \in [Executor -> [floor : Int, to : Nat]]
    /\ page \in [Executor -> Key]
    /\ shape \in [Executor -> [staged : BOOLEAN, target : BOOLEAN, wm : Nat]]
    /\ \A w \in Executor : pc[w] \in HasRun => run[w] \in Run

LEMMA ServerSteps ==
    ASSUME TypeInv, NEW w \in Executor,
           CheckLease(w) \/ TakeLease(w) \/ OpenRun(w) \/ Claim(w) \/ CreateStage(w)
    PROVE  TypeInv'
<1> USE DEF TypeInv
<1>1. CASE CheckLease(w)
  BY <1>1 DEF CheckLease, TypeOK, Goto, sap, server, local, HasRun, InCycle
<1>2. CASE TakeLease(w)
  <2>1. state' \in StateType
    BY <1>2 DEF TakeLease, TypeOK, StateType
  <2> QED
    BY <1>2, <2>1 DEF TakeLease, TypeOK, Goto, sap, local, HasRun, InCycle
<1>3. CASE OpenRun(w)
  <2>1. run[w] \in Run
    BY <1>3 DEF OpenRun, HasRun
  <2>2. stats' \in [Run -> StatsType]
    BY <1>3, <2>1, RetiredType DEF OpenRun, TypeOK, StatsType
  <2>3. stage' \in [Run -> Table]
    BY <1>3, NullFacts DEF OpenRun, TypeOK
  <2> QED
    BY <1>3, <2>2, <2>3 DEF OpenRun, TypeOK, Goto, sap, local, HasRun, InCycle
<1>4. CASE Claim(w)
  <2>1. run[w] \in Run
    BY <1>4 DEF Claim, HasRun, InCycle
  <2>2. state' \in StateType
    BY <1>4, <2>1 DEF Claim, TypeOK, StateType
  <2> QED
    BY <1>4, <2>1, <2>2 DEF Claim, TypeOK, Goto, sap, local, HasRun, InCycle
<1>5. CASE CreateStage(w)
  <2>1. stage' \in [Run -> Table]
    BY <1>5, NullFacts DEF CreateStage, TypeOK, Table
  <2> QED
    BY <1>5, <2>1 DEF CreateStage, TypeOK, Goto, sap, local, HasRun, InCycle
<1> QED
  BY <1>1, <1>2, <1>3, <1>4, <1>5

LEMMA BeginLoadType ==
    ASSUME TypeInv, NEW w \in Executor, NEW t \in LoadTypes, BeginLoad(w, t)
    PROVE  TypeInv'
<1>1. t \in {"D", "F", "L", "I"}
  BY DeltaCycleAssumption
<1>2. ComputeBounds(t, state.wm, clock) \in [floor : Int, to : Nat]
  BY DeltaCycleAssumption DEF ComputeBounds, TypeInv, TypeOK, StateType, Null
<1>3. nextRun \in Run /\ nextRun' \in 1 .. MaxRun + 1
  BY DeltaCycleAssumption DEF BeginLoad, TypeInv, TypeOK, Run
<1> QED
  BY <1>1, <1>2, <1>3 DEF BeginLoad, TypeInv, TypeOK, Goto, sap, HasRun, InCycle

LEMMA ReadPageType ==
    ASSUME TypeInv, NEW w \in Executor, ReadPage(w)
    PROVE  TypeInv'
<1>1. run[w] \in Run
  BY DEF ReadPage, TypeInv, HasRun, InCycle
<1>2. page[w] \in Key
  BY DEF TypeInv, TypeOK
<1>3. (IF Found(w) THEN source[page[w]] ELSE Null) \in Nat
  BY <1>2 DEF TypeInv, TypeOK, Rows, Null
<1>4. stage' \in [Run -> Table]
  BY <1>1, <1>2, <1>3 DEF ReadPage, TypeInv, TypeOK, Table, Rows
<1>5. page' \in [Executor -> Key]
  <2>1. page' = page \/ page[w] # LastKey
    BY DEF ReadPage
  <2>2. page' = page \/ page' = [page EXCEPT ![w] = page[w] + 1]
    BY DEF ReadPage
  <2>3. page[w] # LastKey => page[w] + 1 \in Key
    BY <1>2, DeltaCycleAssumption DEF Key
  <2> QED
    BY <2>1, <2>2, <2>3 DEF TypeInv, TypeOK
<1>6. /\ pc' \in [Executor -> {"idle", "take", "begin", "open", "failed"} \cup InCycle]
      /\ \A v \in Executor : pc'[v] \in HasRun => run'[v] \in Run
  BY <1>1 DEF ReadPage, TypeInv, TypeOK, Goto, HasRun, InCycle
<1> QED
  BY <1>4, <1>5, <1>6 DEF ReadPage, TypeInv, TypeOK, sap

LEMMA ErrorType ==
    ASSUME TypeOK, NEW r \in Run, RecordError(r)
    PROVE  stats' \in [Run -> StatsType]
BY ClosedType DEF TypeOK, RecordError

LEMMA ReleaseFailedType ==
    ASSUME TypeOK, NEW r \in Run, ReleaseFailedCycle(r)
    PROVE  state' \in StateType
<1>1. BumpFail(state.fail) \in 0 .. MaxFail
  BY BumpType DEF TypeOK, StateType
<1> QED
  BY <1>1 DEF TypeOK, ReleaseFailedCycle, StateType

LEMMA WatermarkType ==
    ASSUME TypeOK, NEW r \in Run
    PROVE  DecideWatermark(r) \in Nat
BY DEF TypeOK, DecideWatermark, Later, StatsType, StateType

LEMMA GivingUp ==
    ASSUME TypeInv, NEW w \in Executor,
           ClaimRefused(w) \/ CommitDisowned(w) \/ CommitAborts(w) \/ CallFails(w)
    PROVE  TypeInv'
<1>1. /\ GiveUp(w)
      /\ pc[w] # "begin" => run[w] \in Run
  BY DEF ClaimRefused, CommitDisowned, CommitAborts, CallFails, TypeInv, HasRun, InCycle
<1>2. /\ LocalType'
  BY <1>1, GiveUpType, DropType DEF LocalType, GiveUp, TypeInv, TypeOK
<1>3. stats' \in [Run -> StatsType]
  BY <1>1, ErrorType, NullFacts
  DEF ClaimRefused, CommitDisowned, CommitAborts, CallFails, TypeInv, TypeOK, server
<1>4. state' \in StateType
  BY <1>1, ReleaseFailedType
  DEF ClaimRefused, CommitDisowned, CommitAborts, CallFails, TypeInv, TypeOK, server
<1>5. faults' \in 0 .. MaxFaults
  BY FaultType DEF ClaimRefused, CommitDisowned, CommitAborts, CallFails, TypeInv, TypeOK
<1>6. UNCHANGED <<clock, sap, nextRun, stage, target, replay>>
  BY DEF ClaimRefused, CommitDisowned, CommitAborts, CallFails, server
<1> QED
  BY <1>2, <1>3, <1>4, <1>5, <1>6 DEF TypeInv, TypeOK, LocalType, sap

LEMMA Leaving ==
    ASSUME TypeInv, NEW w \in Executor, Release(w) \/ Crash(w)
    PROVE  TypeInv'
<1>1. Leave(w)
  BY DEF Release, Crash
<1>2. LocalType'
  BY <1>1, LeaveType, DropType DEF LocalType, Leave, TypeInv, TypeOK
<1>3. state' \in StateType
  BY BumpType DEF Release, Crash, TypeInv, TypeOK, StateType, server, NoRun
<1>4. faults' \in 0 .. MaxFaults
  BY FaultType DEF Release, Crash, TypeInv, TypeOK
<1>5. UNCHANGED <<clock, sap, stats, nextRun, stage, target, replay>>
  BY DEF Release, Crash, server
<1> QED
  BY <1>2, <1>3, <1>4, <1>5 DEF TypeInv, TypeOK, LocalType, sap

LEMMA CommitCheckType ==
    ASSUME TypeInv, NEW w \in Executor, CommitCheck(w)
    PROVE  TypeInv'
<1>1. run[w] \in Run
  BY DEF CommitCheck, MergeShape, TypeInv, HasRun, InCycle
<1>2. shape' \in [Executor -> [staged : BOOLEAN, target : BOOLEAN, wm : Nat]]
  BY <1>1, WatermarkType DEF CommitCheck, MergeShape, TypeInv, TypeOK, Table
<1> QED
  BY <1>1, <1>2 DEF CommitCheck, MergeShape, TypeInv, TypeOK, Goto, sap, server, HasRun, InCycle

LEMMA LoggedType ==
    ASSUME TypeInv, NEW w \in Executor, run[w] \in Run
    PROVE  Logged(w) \in Rows
<1>1. [k \in Key |-> IF k \in Gone(w) THEN Null ELSE replay[k]] \in Rows
  BY DEF TypeInv, TypeOK, Rows, Null
<1>2. stage[run[w]].rows \in Rows
  BY DEF TypeInv, TypeOK, Table
<1> QED
  BY <1>1, <1>2, MergedType DEF Logged

LEMMA ApplyType ==
    ASSUME TypeInv, NEW w \in Executor, Apply(w)
    PROVE  TypeInv'
<1>1. run[w] \in Run
  BY DEF Apply, TypeInv, HasRun, InCycle
<1>2. target' \in Table /\ replay' \in Rows
  <2>1. stage[run[w]].rows \in Rows /\ target.rows \in Rows
    BY <1>1 DEF TypeInv, TypeOK, Table
  <2>2. Merged(IF Replaces(w) THEN NoRows ELSE target.rows, stage[run[w]].rows) \in Rows
    BY <2>1, NullFacts, MergedType
  <2>3. Logged(w) \in Rows
    BY <1>1, LoggedType
  <2>4. CASE shape[w].staged
    <3>1. /\ target' = [there |-> TRUE,
                        rows |-> Merged(IF Replaces(w) THEN NoRows ELSE target.rows,
                                        stage[run[w]].rows)]
          /\ replay' = Logged(w)
      BY <2>4 DEF Apply
    <3> QED
      BY <2>2, <2>3, <3>1 DEF Table
  <2>5. CASE ~shape[w].staged
    BY <2>5 DEF Apply, TypeInv, TypeOK
  <2> QED
    BY <2>4, <2>5
<1>3. state' \in StateType
  <2>1. shape[w].wm \in Nat
    BY DEF TypeInv, TypeOK
  <2>2. (state.spent \/ Spends(w)) \in BOOLEAN
    OBVIOUS
  <2>3. state' = [state EXCEPT !.wm = shape[w].wm, !.status = "IDLE", !.active = NoRun,
                               !.fail = 0, !.spent = state.spent \/ Spends(w)]
    BY DEF Apply
  <2>4. state \in StateType /\ 0 \in 0 .. MaxFail
    BY DeltaCycleAssumption DEF TypeInv, TypeOK
  <2> DEFINE spent == state.spent \/ Spends(w)
  <2>5. spent \in BOOLEAN
    BY <2>2
  <2>6. state' = [state EXCEPT !.wm = shape[w].wm, !.status = "IDLE", !.active = NoRun,
                               !.fail = 0, !.spent = spent]
    BY <2>3
  <2> HIDE DEF spent
  <2> QED
    BY <2>1, <2>4, <2>5, <2>6 DEF StateType, NoRun
<1>4. stats' \in [Run -> StatsType] /\ stage' \in [Run -> Table]
  BY <1>1, ClosedType, NullFacts DEF Apply, TypeInv, TypeOK
<1>5. LocalType' /\ faults' \in 0 .. MaxFaults
  <2>1. CASE Leave(w) /\ UNCHANGED faults
    BY <2>1, LeaveType, DropType DEF LocalType, Leave, TypeInv, TypeOK
  <2>2. CASE GiveUp(w) /\ Fault
    BY <2>2, GiveUpType, DropType, FaultType DEF LocalType, GiveUp, TypeInv, TypeOK
  <2> QED
    BY <2>1, <2>2 DEF Apply
<1> QED
  BY <1>2, <1>3, <1>4, <1>5 DEF Apply, TypeInv, TypeOK, LocalType, sap

LEMMA WorldSteps ==
    ASSUME TypeInv, Tick \/ Sap
    PROVE  TypeInv'
<1>1. clock' \in Nat /\ clock' > Safety
  BY DeltaCycleAssumption DEF TypeInv, TypeOK, Tick, Sap, Stamp, SapCommit, SapDelete
<1>2. source' \in Rows /\ pending' \in Rows
  BY DEF TypeInv, TypeOK, Tick, Sap, Stamp, SapCommit, SapDelete, sap, Rows, Null
<1>3. changes' \in 0 .. MaxChanges
  BY DeltaCycleAssumption
  DEF TypeInv, TypeOK, Tick, Sap, Stamp, SapCommit, SapDelete, sap
<1>4. UNCHANGED <<server, pc, local, faults>>
  BY DEF Tick, Sap, Stamp, SapCommit, SapDelete
<1> QED
  BY <1>1, <1>2, <1>3, <1>4 DEF TypeInv, TypeOK, server, local

LEMMA StepType == TypeInv /\ [Next]_vars => TypeInv'
<1> SUFFICES ASSUME TypeInv, [Next]_vars PROVE TypeInv'
  OBVIOUS
<1>1. CASE UNCHANGED vars
  BY <1>1 DEF TypeInv, TypeOK, vars, sap, server, local
<1>2. CASE Tick \/ Sap
  BY <1>2, WorldSteps
<1>3. ASSUME NEW w \in Executor, Cycle(w) PROVE TypeInv'
  BY <1>3, ServerSteps, BeginLoadType, ReadPageType, GivingUp, Leaving,
     CommitCheckType, ApplyType
  DEF Cycle, Begin, Read, Commit
<1> QED
  BY <1>1, <1>2, <1>3 DEF Next

\* Every variable keeps its type, for every number of executors, keys and runs
\* and every value of the time constants.
THEOREM TypeCorrect == Spec => []TypeOK
<1>1. TypeInv => TypeOK
  BY DEF TypeInv
<1> QED
  BY <1>1, InitType, StepType, PTL DEF Spec

-------------------------------------------------------------------------------
(***************************************************************************)
(* The fence: no two executors have the same run, so a run that owns the   *)
(* target owns it alone, and what an executor does leaves the others'      *)
(* memory and their runs' rows alone.                                      *)
(***************************************************************************)
RunsDistinct ==
    /\ \A w \in Executor : run[w] < nextRun
    /\ \A v, w \in Executor : v # w /\ run[v] # NoRun => run[v] # run[w]

\* An executor's step changes what that executor remembers and nothing of
\* what another one does.
LEMMA OthersKept ==
    ASSUME TypeInv, NEW w \in Executor, NEW v \in Executor, v # w, Cycle(w)
    PROVE  /\ pc'[v] = pc[v] /\ run'[v] = run[v] /\ ltype'[v] = ltype[v]
           /\ plan'[v] = plan[v] /\ page'[v] = page[v] /\ shape'[v] = shape[v]
<1> USE DEF TypeInv, TypeOK
<1>1. CASE GiveUp(w)
  BY <1>1 DEF GiveUp, Goto, Drop
<1>2. CASE Leave(w)
  BY <1>2 DEF Leave, Goto, Drop
<1>3. CASE CheckLease(w) \/ TakeLease(w) \/ OpenRun(w) \/ Claim(w) \/ CreateStage(w)
  BY <1>3 DEF CheckLease, TakeLease, OpenRun, Claim, CreateStage, Goto, local
<1>4. CASE \E t \in LoadTypes : BeginLoad(w, t)
  BY <1>4 DEF BeginLoad, Goto
<1>5. CASE ReadPage(w) \/ CommitCheck(w)
  BY <1>5 DEF ReadPage, CommitCheck, MergeShape, Goto
<1>6. CASE \/ ClaimRefused(w) \/ CommitDisowned(w) \/ CommitAborts(w) \/ CallFails(w)
           \/ Apply(w) \/ Release(w) \/ Crash(w)
  BY <1>1, <1>2, <1>6
  DEF ClaimRefused, CommitDisowned, CommitAborts, CallFails, Apply, Release, Crash
<1> QED
  BY <1>3, <1>4, <1>5, <1>6 DEF Cycle, Begin, Read, Commit

LEMMA RunsDistinctStep ==
    ASSUME TypeInv, RunsDistinct, [Next]_vars
    PROVE  RunsDistinct'
<1> USE DEF RunsDistinct
<1>1. CASE UNCHANGED <<run, nextRun>>
  BY <1>1
<1>2. ASSUME NEW w \in Executor, NEW t \in LoadTypes, BeginLoad(w, t)
      PROVE  RunsDistinct'
  <2>1. run' = [run EXCEPT ![w] = nextRun] /\ nextRun' = nextRun + 1
    BY <1>2 DEF BeginLoad
  <2>2. nextRun \in Nat \ {0} /\ \A v \in Executor : run[v] \in Nat /\ run[v] < nextRun
    BY DEF TypeInv, TypeOK, Run, NoRun
  <2> QED
    BY <2>1, <2>2 DEF TypeInv, TypeOK, NoRun
<1>3. ASSUME NEW w \in Executor, Leave(w), UNCHANGED nextRun
      PROVE  RunsDistinct'
  BY <1>3 DEF Leave, TypeInv, TypeOK, NoRun
<1>4. ASSUME NEW w \in Executor, Cycle(w)
      PROVE  \/ UNCHANGED <<run, nextRun>>
             \/ \E t \in LoadTypes : BeginLoad(w, t)
             \/ Leave(w) /\ UNCHANGED nextRun
  BY <1>4
  DEF Cycle, Begin, Read, Commit, CheckLease, TakeLease, OpenRun, Claim, ClaimRefused,
      CreateStage, ReadPage, CommitDisowned, CommitCheck, MergeShape, Apply, CommitAborts, Release,
      CallFails, Crash, GiveUp, local, server
<1>5. CASE Tick \/ Sap \/ UNCHANGED vars
  BY <1>1, <1>5 DEF Tick, Sap, Stamp, SapCommit, SapDelete, vars, server, local
<1> QED
  BY <1>1, <1>2, <1>3, <1>4, <1>5 DEF Next

\* An executor's step leaves another run's statistics row alone, but for
\* Begin, which may retire it.
LEMMA StatsKept ==
    ASSUME TypeInv, RunsDistinct, NEW w \in Executor, Cycle(w),
           NEW v \in Executor, v # w, pc[v] \in HasRun
    PROVE  \/ stats'[run[v]] = stats[run[v]]
           \/ OpenRun(w) /\ stats'[run[v]] = Retired(run[v])
<1>1. run[v] \in Run /\ run[v] # run[w]
  BY DEF TypeInv, RunsDistinct, Run, NoRun
<1>2. CASE UNCHANGED stats
  BY <1>2
<1>3. CASE OpenRun(w)
  BY <1>1, <1>3 DEF OpenRun, TypeInv, TypeOK
<1>4. CASE ClaimRefused(w) \/ CommitDisowned(w) \/ CommitAborts(w) \/ Apply(w)
  BY <1>1, <1>4
  DEF ClaimRefused, CommitDisowned, CommitAborts, Apply, RecordError, TypeInv, TypeOK
<1> QED
  BY <1>2, <1>3, <1>4
  DEF Cycle, Begin, Read, Commit, CheckLease, TakeLease, BeginLoad, Claim, CreateStage,
      ReadPage, CommitCheck, MergeShape, Release, CallFails, Crash, server

\* Nor does it touch another run's stage, but for Begin, which drops it when
\* the run is not RUNNING.
LEMMA StageKept ==
    ASSUME TypeInv, RunsDistinct, NEW w \in Executor, Cycle(w),
           NEW v \in Executor, v # w, pc[v] \in HasRun
    PROVE  \/ stage'[run[v]] = stage[run[v]]
           \/ /\ OpenRun(w) /\ Retired(run[v]).status # "RUNNING"
              /\ stage'[run[v]] = NoTable
<1>1. run[v] \in Run /\ run[v] # run[w]
  BY DEF TypeInv, RunsDistinct, Run, NoRun
<1>2. CASE UNCHANGED stage
  BY <1>2
<1>3. CASE OpenRun(w)
  BY <1>1, <1>3 DEF OpenRun, TypeInv, TypeOK
<1>4. CASE CreateStage(w) \/ ReadPage(w) \/ Apply(w)
  BY <1>1, <1>4 DEF CreateStage, ReadPage, Apply, TypeInv, TypeOK
<1> QED
  BY <1>2, <1>3, <1>4
  DEF Cycle, Begin, Read, Commit, CheckLease, TakeLease, BeginLoad, Claim, ClaimRefused,
      CommitDisowned, CommitCheck, MergeShape, CommitAborts, Release, CallFails, Crash, server

\* Which steps change the owner: a claim, and three ways to end a cycle.
LEMMA OwnerSteps ==
    ASSUME TypeInv, NEW w \in Executor, Cycle(w)
    PROVE  \/ state'.active = state.active
           \/ Claim(w) /\ state'.active = run[w]
           \/ state'.active = NoRun
BY DEF Cycle, Begin, Read, Commit, CheckLease, TakeLease, BeginLoad, OpenRun, Claim,
       ClaimRefused, CreateStage, ReadPage, CommitDisowned, CommitCheck, MergeShape, Apply,
       CommitAborts, ReleaseFailedCycle, Release, CallFails, Crash, server,
       TypeInv, TypeOK, StateType

\* An owner past its claim owned the target before the step, too.
LEMMA StillOwner ==
    ASSUME TypeInv, RunsDistinct, NEW w \in Executor, Cycle(w),
           NEW v \in Executor, v # w, pc[v] \in HasRun, state'.active = run'[v]
    PROVE  state.active = run[v]
<1>1. run'[v] = run[v] /\ run[v] # run[w] /\ run[v] # NoRun
  BY OthersKept DEF TypeInv, RunsDistinct, Run, NoRun
<1> QED
  BY <1>1, OwnerSteps

\* Only the transaction moves the watermark and the target.
LEMMA OnlyApplyMoves ==
    ASSUME TypeInv, [Next]_vars
    PROVE  \/ UNCHANGED <<state.wm, state.spent, target, replay>>
           \/ \E w \in Executor : Apply(w)
<1>1. CASE Tick \/ Sap \/ UNCHANGED vars
  BY <1>1 DEF Tick, Sap, Stamp, SapCommit, SapDelete, vars, server
<1>2. ASSUME NEW w \in Executor, Cycle(w)
      PROVE  UNCHANGED <<state.wm, state.spent, target, replay>> \/ Apply(w)
  BY <1>2
  DEF Cycle, Begin, Read, Commit, CheckLease, TakeLease, BeginLoad, OpenRun, Claim,
      ClaimRefused, CreateStage, ReadPage, CommitDisowned, CommitCheck, MergeShape,
      CommitAborts, ReleaseFailedCycle, Release, CallFails, Crash, server,
      TypeInv, TypeOK, StateType
<1> QED
  BY <1>1, <1>2 DEF Next

-------------------------------------------------------------------------------
(***************************************************************************)
(* What the fence is for: the watermark, the change log and the one-shot   *)
(* load type.                                                              *)
(***************************************************************************)

\* The owner's decision is not behind the stored watermark: nobody else can
\* have moved it since the owner read it.
FencedWatermark ==
    \A w \in Executor :
        pc[w] = "apply" /\ state.active = run[w] => shape[w].wm >= state.wm

FenceInv == TypeInv /\ RunsDistinct /\ FencedWatermark

LEMMA FenceInit == Init => FenceInv
<1>1. Init => RunsDistinct
  BY DEF Init, RunsDistinct, NoRun
<1>2. Init => FencedWatermark
  BY DEF Init, FencedWatermark
<1> QED
  BY <1>1, <1>2, InitType DEF FenceInv

LEMMA FencedWatermarkStep ==
    ASSUME FenceInv, [Next]_vars
    PROVE  FencedWatermark'
<1> USE DEF FenceInv
<1>1. CASE Tick \/ Sap \/ UNCHANGED vars
  BY <1>1
  DEF Tick, Sap, Stamp, SapCommit, SapDelete, vars, server, local, FencedWatermark
<1>2. ASSUME NEW w \in Executor, Cycle(w), NEW v \in Executor,
             pc'[v] = "apply", state'.active = run'[v]
      PROVE  shape'[v].wm >= state'.wm
  <2>1. CASE v = w
    <3>1. CommitCheck(w)
      BY <1>2, <2>1
      DEF Cycle, Begin, Read, Commit, CheckLease, TakeLease, BeginLoad, OpenRun, Claim,
          ClaimRefused, CreateStage, ReadPage, CommitDisowned, Apply, CommitAborts, Release,
          CallFails, Crash, GiveUp, Leave, Goto, TypeInv, TypeOK, InCycle
    <3>2. shape'[w].wm = DecideWatermark(run[w]) /\ run[w] \in Run
      BY <3>1 DEF CommitCheck, MergeShape, TypeInv, TypeOK, HasRun, InCycle
    <3>3. DecideWatermark(run[w]) >= state.wm
      BY <3>2 DEF DecideWatermark, Later, TypeInv, TypeOK, StateType, StatsType
    <3> QED
      BY <2>1, <3>1, <3>2, <3>3 DEF CommitCheck, MergeShape, server
  <2>2. CASE v # w
    <3>1. pc[v] = "apply" /\ shape'[v] = shape[v] /\ run'[v] = run[v]
      BY <1>2, <2>2, OthersKept
    <3>2. pc[v] \in HasRun
      BY <3>1 DEF HasRun, InCycle
    <3>3. state.active = run[v]
      BY <1>2, <2>2, <3>2, StillOwner
    <3>4. ~Apply(w)
      <4>1. Apply(w) => state'.active = NoRun
        BY DEF Apply, TypeInv, TypeOK, StateType
      <4> QED
        BY <4>1, <1>2, <3>1, <3>2 DEF TypeInv, Run, NoRun
    <3>5. state'.wm = state.wm
      BY <1>2, <3>4
      DEF Cycle, Begin, Read, Commit, CheckLease, TakeLease, BeginLoad, OpenRun, Claim,
          ClaimRefused, CreateStage, ReadPage, CommitDisowned, CommitCheck, MergeShape,
          CommitAborts, ReleaseFailedCycle, Release, CallFails, Crash, server,
          TypeInv, TypeOK, StateType
    <3> QED
      BY <3>1, <3>3, <3>5 DEF FencedWatermark
  <2> QED
    BY <2>1, <2>2
<1> QED
  BY <1>1, <1>2 DEF Next, FencedWatermark

LEMMA FenceStep == FenceInv /\ [Next]_vars => FenceInv'
BY StepType, RunsDistinctStep, FencedWatermarkStep DEF FenceInv

LEMMA Fenced == Spec => []FenceInv
BY FenceInit, FenceStep, PTL DEF Spec

\* The transaction of the owner never lowers the watermark.
LEMMA ApplyForward ==
    ASSUME FenceInv, NEW w \in Executor, Apply(w)
    PROVE  state'.wm = shape[w].wm /\ state'.wm >= state.wm
BY DEF FenceInv, FencedWatermark, Apply, CanApply, TypeInv, TypeOK, StateType

\* The watermark moves forward only, whatever happens to runs and leases: even
\* a cycle that outlives its budget, or whose target was taken and released by
\* others, either is refused or decides on the watermark it finds.
THEOREM WatermarkMovesForward == Spec => WatermarkForward
<1>1. FenceInv /\ [Next]_vars => [state'.wm >= state.wm]_state
  <2> SUFFICES ASSUME FenceInv, [Next]_vars PROVE state'.wm >= state.wm
    OBVIOUS
  <2>1. state.wm \in Nat
    BY DEF FenceInv, TypeInv, TypeOK, StateType
  <2> QED
    BY <2>1, OnlyApplyMoves, ApplyForward DEF FenceInv
<1> QED
  BY <1>1, Fenced, PTL DEF Spec, WatermarkForward

-------------------------------------------------------------------------------
LEMMA ApplyLogs ==
    ASSUME TypeInv, LogReplaysTarget, NEW w \in Executor, Apply(w)
    PROVE  LogReplaysTarget'
<1>1. CASE ~shape[w].staged
  BY <1>1 DEF Apply, LogReplaysTarget
<1>2. CASE shape[w].staged
  <2>1. /\ target'.rows = Merged(IF Replaces(w) THEN NoRows ELSE target.rows,
                                 stage[run[w]].rows)
        /\ replay' = Merged([k \in Key |-> IF k \in Gone(w) THEN Null ELSE replay[k]],
                            stage[run[w]].rows)
    BY <1>2 DEF Apply, Logged
  <2>2. ASSUME NEW k \in Key, stage[run[w]].rows[k] = Null
        PROVE  (IF k \in Gone(w) THEN Null ELSE replay[k])
                   = (IF Replaces(w) THEN NoRows ELSE target.rows)[k]
    BY <2>2 DEF Gone, LogReplaysTarget, NoRows
  <2> QED
    BY <2>1, <2>2 DEF Merged, LogReplaysTarget
<1> QED
  BY <1>1, <1>2

\* Replaying the change log yields the target, for every mixture of deltas,
\* reloads, repairs and aborted transactions.
THEOREM LogIsFaithful == Spec => []LogReplaysTarget
<1>1. Init => LogReplaysTarget
  BY DEF Init, LogReplaysTarget, NoTable
<1>2. TypeInv /\ LogReplaysTarget /\ [Next]_vars => LogReplaysTarget'
  BY OnlyApplyMoves, ApplyLogs DEF LogReplaysTarget
<1>3. Spec => []TypeInv
  BY InitType, StepType, PTL DEF Spec
<1> QED
  BY <1>1, <1>2, <1>3, PTL DEF Spec

-------------------------------------------------------------------------------
\* The statistics row of a run carries what Begin planned, and the ceiling is
\* a real position: the clock is beyond Safety when the read starts.
PlanRecorded ==
    \A w \in Executor :
        /\ pc[w] \in HasRun => plan[w].to > 0
        /\ pc[w] \in InCycle => /\ stats[run[w]].type = ltype[w]
                                /\ stats[run[w]].to = plan[w].to
        /\ pc[w] = "apply" /\ ltype[w] # "F" => shape[w].wm > 0

LEMMA PlanRecordedStep ==
    ASSUME TypeInv, RunsDistinct, PlanRecorded, [Next]_vars
    PROVE  PlanRecorded'
<1>1. CASE Tick \/ Sap \/ UNCHANGED vars
  BY <1>1
  DEF Tick, Sap, Stamp, SapCommit, SapDelete, vars, server, local, PlanRecorded
<1>2. ASSUME NEW w \in Executor, Cycle(w), NEW v \in Executor
      PROVE  /\ pc'[v] \in HasRun => plan'[v].to > 0
             /\ pc'[v] \in InCycle => /\ stats'[run'[v]].type = ltype'[v]
                                      /\ stats'[run'[v]].to = plan'[v].to
             /\ pc'[v] = "apply" /\ ltype'[v] # "F" => shape'[v].wm > 0
  <2>1. CASE v # w
    <3>1. pc[v] \in HasRun =>
             stats'[run[v]].type = stats[run[v]].type /\ stats'[run[v]].to = stats[run[v]].to
      BY <1>2, <2>1, StatsKept, RetiredType DEF TypeInv
    <3> QED
      BY <1>2, <2>1, <3>1, OthersKept DEF PlanRecorded, HasRun
  <2>2. CASE v = w
    <3> USE DEF TypeInv, TypeOK
    <3>1. CASE GiveUp(w) \/ Leave(w)
      BY <2>2, <3>1 DEF GiveUp, Leave, Goto, HasRun, InCycle
    <3>2. CASE \E t \in LoadTypes : BeginLoad(w, t)
      BY <2>2, <3>2, DeltaCycleAssumption DEF BeginLoad, ComputeBounds, Goto, HasRun, InCycle
    <3>3. CASE OpenRun(w)
      <4>1. run[w] \in Run
        BY <3>3 DEF OpenRun, HasRun
      <4> QED
        BY <2>2, <3>3, <4>1 DEF OpenRun, local, Goto, PlanRecorded, HasRun, InCycle
    <3>4. CASE CheckLease(w) \/ TakeLease(w) \/ Claim(w) \/ CreateStage(w) \/ ReadPage(w)
      BY <2>2, <3>4
      DEF CheckLease, TakeLease, Claim, CreateStage, ReadPage, local, server, Goto,
          PlanRecorded, HasRun, InCycle
    <3>5. CASE CommitCheck(w)
      <4>1. run[w] \in Run
        BY <3>5 DEF CommitCheck, MergeShape, HasRun, InCycle
      <4>2. ltype[w] # "F" => DecideWatermark(run[w]) > 0
        <5>1. stats[run[w]].type = ltype[w] /\ stats[run[w]].to > 0
          BY <3>5 DEF CommitCheck, MergeShape, PlanRecorded, HasRun, InCycle
        <5>2. stats[run[w]].to \in Nat /\ state.wm \in Nat
          BY <4>1 DEF StateType, StatsType
        <5>3. ltype[w] # "F" => PlanLoad(ltype[w]).advance \/ PlanLoad(ltype[w]).seed
          BY DEF PlanLoad
        <5> QED
          BY <5>1, <5>2, <5>3 DEF DecideWatermark, Later
      <4> QED
        BY <2>2, <3>5, <4>2
        DEF CommitCheck, MergeShape, server, Goto, PlanRecorded, HasRun, InCycle
    <3> QED
      BY <1>2, <3>1, <3>2, <3>3, <3>4, <3>5
      DEF Cycle, Begin, Read, Commit, ClaimRefused, CommitDisowned, Apply, CommitAborts,
          Release, CallFails, Crash
  <2> QED
    BY <2>1, <2>2
<1> QED
  BY <1>1, <1>2 DEF Next, PlanRecorded

SeedInv == FenceInv /\ PlanRecorded /\ SpentSeedHasPosition

\* A one-shot load type that seeds the position is spent only once there is a
\* position: the seed of a target is never lost to a hand-driven repair.
THEOREM SeedIsNotLost == Spec => []SpentSeedHasPosition
<1>1. Init => SeedInv
  BY FenceInit DEF SeedInv, Init, PlanRecorded, SpentSeedHasPosition, HasRun, InCycle
<1>2. SeedInv /\ [Next]_vars => SeedInv'
  <2> SUFFICES ASSUME SeedInv, [Next]_vars PROVE SeedInv'
    OBVIOUS
  <2> USE DEF SeedInv
  <2>1. FenceInv' /\ PlanRecorded'
    BY FenceStep, PlanRecordedStep DEF FenceInv
  <2>2. ASSUME NEW w \in Executor, Apply(w), Default \in {"L", "I"}, state'.spent
        PROVE  state'.wm # Null
    <3>1. state'.wm = shape[w].wm /\ state'.wm >= state.wm /\ state.wm \in Nat
      BY <2>2, ApplyForward DEF FenceInv, TypeInv, TypeOK, StateType
    <3>2. CASE state.spent
      BY <2>2, <3>1, <3>2 DEF SpentSeedHasPosition, Null
    <3>3. CASE Spends(w)
      <4>1. stats[run[w]].type = ltype[w] /\ pc[w] = "apply"
        BY <2>2 DEF Apply, PlanRecorded, InCycle
      <4>2. ltype[w] = Default
        BY <3>3, <4>1 DEF Spends
      <4>3. shape[w].wm > 0
        BY <2>2, <4>1, <4>2 DEF PlanRecorded
      <4> QED
        BY <3>1, <4>3 DEF Null
    <3>4. state.spent \/ Spends(w)
      <4> DEFINE spent == state.spent \/ Spends(w)
      <4>1. state' = [state EXCEPT !.wm = shape[w].wm, !.status = "IDLE", !.active = NoRun,
                                   !.fail = 0, !.spent = spent]
        BY <2>2 DEF Apply
      <4>2. state \in StateType
        BY DEF FenceInv, TypeInv, TypeOK
      <4> HIDE DEF spent
      <4>3. state'.spent = spent
        BY <4>1, <4>2 DEF StateType
      <4> QED
        BY <2>2, <4>3 DEF spent
    <3> QED
      BY <3>2, <3>3, <3>4
  <2>3. SpentSeedHasPosition'
    BY <2>2, OnlyApplyMoves DEF SpentSeedHasPosition, FenceInv
  <2> QED
    BY <2>1, <2>3
<1>3. SeedInv => SpentSeedHasPosition
  BY DEF SeedInv
<1> QED
  BY <1>1, <1>2, <1>3, PTL DEF Spec
-------------------------------------------------------------------------------
(***************************************************************************)
(* No row is lost and none goes back in time: the theorems about the rows  *)
(* that cycles read, stage and merge.                                      *)
(***************************************************************************)

(***************************************************************************)
(* While no cycle outlasts its budget, the statistics row of every cycle   *)
(* under way is RUNNING, so no Begin takes its stage for an orphan.        *)
(***************************************************************************)
LiveRuns ==
    \A w \in Executor : pc[w] \in InCycle =>
        /\ stats[run[w]].status = "RUNNING"
        /\ stats[run[w]].ts >= clock - MaxCycle

LiveInv == TypeInv /\ RunsDistinct /\ LiveRuns /\ LiveStageKept

LEMMA LiveInit == Init => LiveInv
<1>1. Init => RunsDistinct /\ LiveRuns /\ LiveStageKept
  BY DEF Init, RunsDistinct, NoRun, LiveRuns, LiveStageKept, InCycle
<1> QED
  BY <1>1, InitType DEF LiveInv

LEMMA LiveRunsStep ==
    ASSUME ~Overrun, LiveInv, [Next]_vars
    PROVE  LiveRuns'
<1> USE DEF LiveInv
<1>1. CASE Sap \/ UNCHANGED vars
  BY <1>1 DEF Sap, Stamp, SapCommit, SapDelete, vars, server, local, LiveRuns
<1>2. CASE Tick
  <2>1. \A w \in Executor : pc[w] \in InCycle => stats[run[w]].ts \in Nat
    BY DEF TypeInv, TypeOK, StatsType, HasRun
  <2> QED
    BY <1>2, <2>1, DeltaCycleAssumption
    DEF Tick, server, local, LiveRuns, TypeInv, TypeOK
<1>3. ASSUME NEW w \in Executor, Cycle(w), NEW v \in Executor, pc'[v] \in InCycle
      PROVE  stats'[run'[v]].status = "RUNNING" /\ stats'[run'[v]].ts >= clock' - MaxCycle
  <2>1. clock' = clock
    BY <1>3
    DEF Cycle, Begin, Read, Commit, CheckLease, TakeLease, BeginLoad, OpenRun, Claim,
        ClaimRefused, CreateStage, ReadPage, CommitDisowned, CommitCheck, MergeShape, Apply,
        CommitAborts, Release, CallFails, Crash
  <2>2. CASE v # w
    <3>1. pc[v] \in InCycle /\ run'[v] = run[v]
      BY <1>3, <2>2, OthersKept
    <3>2. Retired(run[v]) = stats[run[v]]
      BY <3>1, DeltaCycleAssumption
      DEF Retired, LiveRuns, TypeInv, TypeOK, StatsType, HasRun
    <3>3. stats'[run[v]] = stats[run[v]]
      BY <1>3, <2>2, <3>1, <3>2, StatsKept DEF HasRun
    <3> QED
      BY <2>1, <3>1, <3>3 DEF LiveRuns
  <2>3. CASE v = w
    <3> USE DEF TypeInv, TypeOK
    <3>1. CASE GiveUp(w) \/ Leave(w) \/ CheckLease(w) \/ TakeLease(w)
                 \/ \E t \in LoadTypes : BeginLoad(w, t)
      BY <1>3, <2>3, <3>1
      DEF GiveUp, Leave, CheckLease, TakeLease, BeginLoad, Goto, InCycle
    <3>2. CASE OpenRun(w)
      <4>1. run[w] \in Run
        BY <3>2 DEF OpenRun, HasRun
      <4> QED
        BY <2>3, <3>2, <4>1, DeltaCycleAssumption DEF OpenRun, local
    <3>3. CASE Claim(w) \/ CreateStage(w) \/ ReadPage(w) \/ CommitCheck(w)
      BY <2>1, <2>3, <3>3
      DEF Claim, CreateStage, ReadPage, CommitCheck, MergeShape, local, server, LiveRuns, InCycle
    <3> QED
      BY <1>3, <3>1, <3>2, <3>3
      DEF Cycle, Begin, Read, Commit, ClaimRefused, CommitDisowned, Apply, CommitAborts,
          Release, CallFails, Crash
  <2> QED
    BY <2>2, <2>3
<1> QED
  BY <1>1, <1>2, <1>3 DEF Next, LiveRuns

LEMMA LiveStageStep ==
    ASSUME LiveInv, [Next]_vars
    PROVE  LiveStageKept'
<1> USE DEF LiveInv
<1>1. CASE Tick \/ Sap \/ UNCHANGED vars
  BY <1>1
  DEF Tick, Sap, Stamp, SapCommit, SapDelete, vars, server, local, LiveStageKept
<1>2. ASSUME NEW w \in Executor, Cycle(w), NEW v \in Executor,
             pc'[v] \in {"read", "commit", "apply"}, PlanLoad(ltype'[v]).read
      PROVE  stage'[run'[v]].there
  <2>1. CASE v # w
    <3>1. /\ pc[v] \in {"read", "commit", "apply"} /\ PlanLoad(ltype[v]).read
          /\ run'[v] = run[v]
      BY <1>2, <2>1, OthersKept
    <3>2. Retired(run[v]).status = "RUNNING"
      BY <3>1, DeltaCycleAssumption
      DEF Retired, LiveRuns, TypeInv, TypeOK, StatsType, HasRun, InCycle
    <3>3. stage'[run[v]] = stage[run[v]]
      BY <1>2, <2>1, <3>1, <3>2, StageKept DEF HasRun, InCycle
    <3> QED
      BY <3>1, <3>3 DEF LiveStageKept
  <2>2. CASE v = w
    <3> USE DEF TypeInv, TypeOK
    <3>1. CASE GiveUp(w) \/ Leave(w) \/ CheckLease(w) \/ TakeLease(w) \/ OpenRun(w)
                 \/ \E t \in LoadTypes : BeginLoad(w, t)
      BY <1>2, <2>2, <3>1
      DEF GiveUp, Leave, CheckLease, TakeLease, OpenRun, BeginLoad, Goto
    <3>2. CASE Claim(w)
      BY <1>2, <2>2, <3>2 DEF Claim, local, Goto
    <3>3. CASE CreateStage(w) \/ ReadPage(w)
      <4>1. run[w] \in Run
        BY <3>3 DEF CreateStage, ReadPage, HasRun, InCycle
      <4> QED
        BY <1>2, <2>2, <3>3, <4>1 DEF CreateStage, ReadPage, local, Table, LiveStageKept
    <3>4. CASE CommitCheck(w)
      BY <1>2, <2>2, <3>4 DEF CommitCheck, MergeShape, server, LiveStageKept
    <3> QED
      BY <1>2, <3>1, <3>2, <3>3, <3>4
      DEF Cycle, Begin, Read, Commit, ClaimRefused, CommitDisowned, Apply, CommitAborts,
          Release, CallFails, Crash
  <2> QED
    BY <2>1, <2>2
<1> QED
  BY <1>1, <1>2 DEF Next, LiveStageKept

\* Nobody drops the stage a live cycle fills or merges, as long as cycles end
\* within max_cycle_secs: neither a cycle of another executor, nor one that
\* finds the advisory lease old.
THEOREM LiveStageIsKept ==
    ASSUME ~Overrun
    PROVE  Spec => []LiveStageKept
<1>1. LiveInv /\ [Next]_vars => LiveInv'
  BY StepType, RunsDistinctStep, LiveRunsStep, LiveStageStep DEF LiveInv
<1>2. LiveInv => LiveStageKept
  BY DEF LiveInv
<1> QED
  BY <1>1, <1>2, LiveInit, PTL DEF Spec

-------------------------------------------------------------------------------
(***************************************************************************)
(* Rows travel from the source into a stage and from a stage into the      *)
(* target.  A key's copies are never newer than what the source has or     *)
(* will get, and what the owner has staged was read after every row the    *)
(* target holds: nothing else can have been merged since its claim.        *)
(***************************************************************************)
NotNewer(k, t) ==
    /\ source[k] <= t
    /\ target.rows[k] <= t
    /\ \A r \in Run : stage[r].rows[k] <= t

RowOrder ==
    \A k \in Key :
        /\ pending[k] <= clock /\ NotNewer(k, clock)
        /\ pending[k] # Null => NotNewer(k, pending[k])
        /\ source[k] # Null => NotNewer(k, source[k])

\* A run's stage is empty until the run fills it.
StageFresh ==
    /\ \A w \in Executor : pc[w] \in {"open", "claim"} => stage[run[w]].rows = NoRows
    /\ \A r \in Run : r >= nextRun => stage[r].rows = NoRows

OwnerNewer ==
    \A w \in Executor :
        pc[w] \in {"read", "commit", "apply"} /\ state.active = run[w] =>
            \A k \in Key : stage[run[w]].rows[k] # Null
                               => target.rows[k] <= stage[run[w]].rows[k]

OrderInv == TypeInv /\ RunsDistinct /\ RowOrder /\ StageFresh /\ OwnerNewer

LEMMA OrderInit == Init => OrderInv
<1> SUFFICES ASSUME Init PROVE OrderInv
  OBVIOUS
<1>1. /\ clock >= 1 /\ clock \in Nat
      /\ \A k \in Key : pending[k] = Null /\ source[k] \in {Null, 1} /\ target.rows[k] = Null
      /\ \A r \in Run : stage[r].rows = NoRows
      /\ \A w \in Executor : pc[w] = "idle" /\ run[w] = NoRun
      /\ nextRun = 1
  BY DeltaCycleAssumption DEF Init, NoTable, NoRows, Null
<1>2. RowOrder
  BY <1>1 DEF RowOrder, NotNewer, NoRows, Null
<1>3. RunsDistinct /\ StageFresh /\ OwnerNewer
  BY <1>1 DEF RunsDistinct, StageFresh, OwnerNewer, NoRun
<1> QED
  BY <1>2, <1>3, InitType DEF OrderInv

\* A row of the target after the transaction is one that the stage had or one
\* that was there; with the stage's taking precedence.
LEMMA ApplyRows ==
    ASSUME NEW w \in Executor, Apply(w), NEW k \in Key
    PROVE  IF shape[w].staged /\ stage[run[w]].rows[k] # Null
           THEN target'.rows[k] = stage[run[w]].rows[k]
           ELSE target'.rows[k] = IF shape[w].staged /\ Replaces(w)
                                  THEN Null ELSE target.rows[k]
<1>1. CASE ~shape[w].staged
  <2>1. target' = target
    BY <1>1 DEF Apply
  <2> QED
    BY <1>1, <2>1
<1>2. CASE shape[w].staged
  <2>1. target' = [there |-> TRUE,
                   rows |-> Merged(IF Replaces(w) THEN NoRows ELSE target.rows,
                                   stage[run[w]].rows)]
    BY <1>2 DEF Apply
  <2>2. target'.rows[k] = IF stage[run[w]].rows[k] # Null THEN stage[run[w]].rows[k]
                          ELSE (IF Replaces(w) THEN NoRows ELSE target.rows)[k]
    BY <2>1 DEF Merged
  <2> QED
    BY <1>2, <2>2 DEF NoRows
<1> QED
  BY <1>1, <1>2

\* Where the rows of a stage and of the target come from.
LEMMA RowsFrom ==
    ASSUME TypeInv, NEW w \in Executor, Cycle(w), NEW k \in Key
    PROVE  /\ UNCHANGED <<clock, source, pending>>
           /\ \/ target'.rows[k] \in {target.rows[k], Null}
              \/ \E r \in Run : target'.rows[k] = stage[r].rows[k]
           /\ \A r \in Run :
                  stage'[r].rows[k] \in {stage[r].rows[k], Null, source[k]}
<1> USE DEF TypeInv, TypeOK
<1>1. UNCHANGED <<clock, source, pending>>
  BY DEF Cycle, Begin, Read, Commit, CheckLease, TakeLease, BeginLoad, OpenRun, Claim,
         ClaimRefused, CreateStage, ReadPage, CommitDisowned, CommitCheck, MergeShape, Apply,
         CommitAborts, Release, CallFails, Crash, sap
<1>2. \/ target'.rows[k] \in {target.rows[k], Null}
      \/ \E r \in Run : target'.rows[k] = stage[r].rows[k]
  <2>1. CASE Apply(w)
    <3>1. run[w] \in Run
      BY <2>1 DEF Apply, HasRun, InCycle
    <3>2. target'.rows[k] \in {target.rows[k], Null, stage[run[w]].rows[k]}
      BY <2>1, ApplyRows
    <3> QED
      BY <3>1, <3>2
  <2>2. CASE UNCHANGED target
    BY <2>2
  <2> QED
    BY <2>1, <2>2
    DEF Cycle, Begin, Read, Commit, CheckLease, TakeLease, BeginLoad, OpenRun, Claim,
        ClaimRefused, CreateStage, ReadPage, CommitDisowned, CommitCheck, MergeShape,
        CommitAborts, Release, CallFails, Crash, server
<1>3. ASSUME NEW r \in Run
      PROVE  stage'[r].rows[k] \in {stage[r].rows[k], Null, source[k]}
  <2>1. CASE UNCHANGED stage
    BY <2>1
  <2>2. CASE stage'[r] \in {stage[r], NoTable} \/ stage'[r] = [there |-> TRUE, rows |-> NoRows]
    BY <2>2 DEF NoTable, NoRows
  <2>4. CASE OpenRun(w) \/ CreateStage(w) \/ Apply(w)
    <3>1. stage'[r] \in {stage[r], NoTable} \/ stage'[r] = [there |-> TRUE, rows |-> NoRows]
      BY <2>4 DEF OpenRun, CreateStage, Apply
    <3> QED
      BY <2>2, <3>1
  <2>3. CASE ReadPage(w)
    <3>1. run[w] \in Run /\ page[w] \in Key
      BY <2>3 DEF ReadPage, HasRun, InCycle
    <3>2. CASE r = run[w]
      <4>1. stage'[r].rows = [stage[r].rows EXCEPT ![page[w]] =
                IF Found(w) THEN source[page[w]] ELSE Null]
        BY <2>3, <3>1, <3>2 DEF ReadPage, Table
      <4> QED
        BY <3>1, <4>1 DEF Table, Rows
    <3>3. CASE r # run[w]
      BY <2>3, <3>3 DEF ReadPage
    <3> QED
      BY <3>2, <3>3
  <2> QED
    BY <2>1, <2>3, <2>4
    DEF Cycle, Begin, Read, Commit, CheckLease, TakeLease, BeginLoad, Claim, ClaimRefused,
        CommitDisowned, CommitCheck, MergeShape, CommitAborts, Release, CallFails, Crash, server
<1> QED
  BY <1>1, <1>2, <1>3

\* The ranges the ordering arguments compare.
LEMMA RowTypes ==
    ASSUME TypeInv
    PROVE  \A k \in Key : /\ source[k] \in Nat /\ pending[k] \in Nat
                          /\ target.rows[k] \in Nat
                          /\ \A r \in Run : stage[r].rows[k] \in Nat
BY DEF TypeInv, TypeOK, Rows, Table

LEMMA RowOrderStep ==
    ASSUME TypeInv, RowOrder, [Next]_vars
    PROVE  RowOrder'
<1>1. CASE UNCHANGED vars
  BY <1>1 DEF vars, sap, server, RowOrder, NotNewer
<1>2. CASE Tick
  BY <1>2, RowTypes DEF Tick, sap, server, RowOrder, NotNewer, TypeInv, TypeOK
<1>3. ASSUME NEW q \in Key, Stamp(q) PROVE RowOrder'
  BY <1>3, RowTypes DEF Stamp, server, RowOrder, NotNewer, TypeInv, TypeOK, Rows
<1>4. ASSUME NEW q \in Key, SapCommit(q) PROVE RowOrder'
  <2>1. /\ source' = [source EXCEPT ![q] = pending[q]]
        /\ pending' = [pending EXCEPT ![q] = Null] /\ pending[q] # Null
        /\ UNCHANGED <<clock, target, stage>>
    BY <1>4 DEF SapCommit, server
  <2>2. ASSUME NEW k \in Key
        PROVE  /\ pending'[k] <= clock' /\ NotNewer(k, clock)'
               /\ pending'[k] # Null => NotNewer(k, pending[k])'
               /\ source'[k] # Null => NotNewer(k, source[k])'
    <3>1. CASE k = q
      BY <2>1, <3>1, RowTypes DEF RowOrder, NotNewer, TypeInv, TypeOK, Rows, Null
    <3>2. CASE k # q
      BY <2>1, <3>2, RowTypes DEF RowOrder, NotNewer, TypeInv, TypeOK, Rows, Null
    <3> QED
      BY <3>1, <3>2
  <2> QED
    BY <2>2 DEF RowOrder
<1>5. ASSUME NEW q \in Key, SapDelete(q) PROVE RowOrder'
  BY <1>5, RowTypes DEF SapDelete, server, RowOrder, NotNewer, TypeInv, TypeOK, Rows, Null
<1>6. ASSUME NEW w \in Executor, Cycle(w) PROVE RowOrder'
  <2>1. ASSUME NEW k \in Key, NEW t \in Nat, NotNewer(k, t)
        PROVE  NotNewer(k, t)'
    BY <1>6, <2>1, RowsFrom, RowTypes DEF NotNewer, Null
  <2>2. UNCHANGED <<clock, source, pending>>
    BY <1>6, RowsFrom, KeyFacts
  <2> QED
    BY <2>1, <2>2, RowTypes DEF RowOrder, NotNewer, TypeInv, TypeOK
<1> QED
  BY <1>1, <1>2, <1>3, <1>4, <1>5, <1>6 DEF Next, Sap

\* What an executor does short of the transaction leaves the target alone.
LEMMA OnlyApplyOf ==
    ASSUME NEW w \in Executor, Cycle(w), ~Apply(w)
    PROVE  UNCHANGED <<target, replay>>
BY DEF Cycle, Begin, Read, Commit, CheckLease, TakeLease, BeginLoad, OpenRun, Claim,
       ClaimRefused, CreateStage, ReadPage, CommitDisowned, CommitCheck, MergeShape, CommitAborts,
       Release, CallFails, Crash, server

LEMMA OnlyApplyWm ==
    ASSUME TypeInv, NEW w \in Executor, Cycle(w), ~Apply(w)
    PROVE  state'.wm = state.wm
BY DEF Cycle, Begin, Read, Commit, CheckLease, TakeLease, BeginLoad, OpenRun, Claim,
       ClaimRefused, CreateStage, ReadPage, CommitDisowned, CommitCheck, MergeShape, CommitAborts,
       ReleaseFailedCycle, Release, CallFails, Crash, server, TypeInv, TypeOK, StateType

LEMMA StageFreshStep ==
    ASSUME TypeInv, RunsDistinct, StageFresh, [Next]_vars
    PROVE  StageFresh'
<1>1. CASE Tick \/ Sap \/ UNCHANGED vars
  BY <1>1
  DEF Tick, Sap, Stamp, SapCommit, SapDelete, vars, server, local, StageFresh
<1>2. ASSUME NEW w \in Executor, Cycle(w), NEW v \in Executor, pc'[v] \in {"open", "claim"}
      PROVE  stage'[run'[v]].rows = NoRows
  <2>1. CASE v # w
    <3>1. pc[v] \in {"open", "claim"} /\ run'[v] = run[v]
      BY <1>2, <2>1, OthersKept
    <3> QED
      BY <1>2, <2>1, <3>1, StageKept DEF StageFresh, HasRun, InCycle, NoTable
  <2>2. CASE v = w
    <3> USE DEF TypeInv, TypeOK
    <3>1. CASE \E t \in LoadTypes : BeginLoad(w, t)
      <4>1. run'[w] = nextRun /\ nextRun \in Run /\ stage' = stage
        BY <3>1, DeltaCycleAssumption DEF BeginLoad, Run
      <4> QED
        BY <2>2, <4>1 DEF StageFresh, Run
    <3>2. CASE OpenRun(w)
      <4>1. run[w] \in Run /\ run' = run /\ stage[run[w]].rows = NoRows
        BY <3>2 DEF OpenRun, HasRun, local, StageFresh
      <4> QED
        BY <2>2, <3>2, <4>1 DEF OpenRun, NoTable
    <3>3. \/ \E t \in LoadTypes : BeginLoad(w, t)
          \/ OpenRun(w)
      BY <1>2, <2>2
      DEF Cycle, Begin, Read, Commit, CheckLease, TakeLease, Claim, ClaimRefused,
          CreateStage, ReadPage, CommitDisowned, CommitCheck, MergeShape, Apply, CommitAborts, Release,
          CallFails, Crash, GiveUp, Leave, Goto, InCycle
    <3> QED
      BY <3>1, <3>2, <3>3
  <2> QED
    BY <2>1, <2>2
<1>3. ASSUME NEW w \in Executor, Cycle(w), NEW r \in Run, r >= nextRun'
      PROVE  stage'[r].rows = NoRows
  <2>1. nextRun' \in {nextRun, nextRun + 1}
    BY <1>3
    DEF Cycle, Begin, Read, Commit, CheckLease, TakeLease, BeginLoad, OpenRun, Claim,
        ClaimRefused, CreateStage, ReadPage, CommitDisowned, CommitCheck, MergeShape, Apply,
        CommitAborts, Release, CallFails, Crash, server, TypeInv, TypeOK
  <2>2. r >= nextRun /\ r # run[w]
    BY <1>3, <2>1 DEF RunsDistinct, TypeInv, TypeOK, Run, NoRun
  <2>3. stage'[r] \in {stage[r], NoTable}
    BY <1>3, <2>2
    DEF Cycle, Begin, Read, Commit, CheckLease, TakeLease, BeginLoad, OpenRun, Claim,
        ClaimRefused, CreateStage, ReadPage, CommitDisowned, CommitCheck, MergeShape, Apply,
        CommitAborts, Release, CallFails, Crash, server, TypeInv, TypeOK
  <2> QED
    BY <2>2, <2>3 DEF StageFresh, NoTable
<1> QED
  BY <1>1, <1>2, <1>3 DEF Next, StageFresh

LEMMA OwnerNewerStep ==
    ASSUME OrderInv, [Next]_vars
    PROVE  OwnerNewer'
<1> USE DEF OrderInv
<1>1. CASE Tick \/ Sap \/ UNCHANGED vars
  BY <1>1
  DEF Tick, Sap, Stamp, SapCommit, SapDelete, vars, server, local, OwnerNewer
<1>2. ASSUME NEW w \in Executor, Cycle(w), NEW v \in Executor, NEW k \in Key,
             pc'[v] \in {"read", "commit", "apply"}, state'.active = run'[v],
             stage'[run'[v]].rows[k] # Null
      PROVE  target'.rows[k] <= stage'[run'[v]].rows[k]
  <2>1. CASE v # w
    <3>1. pc[v] \in {"read", "commit", "apply"} /\ run'[v] = run[v]
      BY <1>2, <2>1, OthersKept
    <3>2. pc[v] \in HasRun
      BY <3>1 DEF HasRun, InCycle
    <3>3. state.active = run[v]
      BY <1>2, <2>1, <3>2, StillOwner
    <3>4. ~Apply(w)
      <4>1. Apply(w) => state'.active = NoRun
        BY DEF Apply, TypeInv, TypeOK, StateType
      <4> QED
        BY <4>1, <1>2, <3>1, <3>2 DEF TypeInv, Run, NoRun
    <3>5. target' = target
      BY <1>2, <3>4, OnlyApplyOf
    <3>6. stage'[run[v]] = stage[run[v]]
      BY <1>2, <2>1, <3>1, <3>2, StageKept DEF NoTable, NoRows
    <3> QED
      BY <1>2, <3>1, <3>3, <3>5, <3>6 DEF OwnerNewer
  <2>2. CASE v = w
    <3> USE DEF TypeInv, TypeOK
    <3>1. CASE Claim(w)
      <4>1. stage'[run'[w]].rows = NoRows
        BY <3>1 DEF Claim, local, StageFresh
      <4> QED
        BY <1>2, <2>2, <4>1 DEF NoRows
    <3>2. CASE CreateStage(w)
      <4>1. run[w] \in Run
        BY <3>2 DEF CreateStage, HasRun, InCycle
      <4> QED
        BY <1>2, <2>2, <3>2, <4>1 DEF CreateStage, local, NoRows
    <3>3. CASE ReadPage(w)
      <4>1. /\ run[w] \in Run /\ page[w] \in Key /\ run' = run /\ target' = target
            /\ state' = state /\ pc[w] = "read"
        BY <3>3 DEF ReadPage, HasRun, InCycle
      <4>2. stage'[run[w]].rows = [stage[run[w]].rows EXCEPT ![page[w]] =
                IF Found(w) THEN source[page[w]] ELSE Null]
        BY <3>3, <4>1 DEF ReadPage, Table
      <4>3. CASE k = page[w]
        <5>1. stage'[run[w]].rows[k] = source[k] /\ source[k] # Null
          BY <1>2, <2>2, <4>1, <4>2, <4>3 DEF Table, Rows
        <5> QED
          BY <2>2, <4>1, <5>1 DEF RowOrder, NotNewer
      <4>4. CASE k # page[w]
        <5>1. stage'[run[w]].rows[k] = stage[run[w]].rows[k]
          BY <4>1, <4>2, <4>4 DEF Table, Rows
        <5> QED
          BY <1>2, <2>2, <4>1, <5>1 DEF OwnerNewer
      <4> QED
        BY <4>3, <4>4
    <3>4. CASE CommitCheck(w)
      BY <1>2, <2>2, <3>4 DEF CommitCheck, MergeShape, server, OwnerNewer
    <3>5. Claim(w) \/ CreateStage(w) \/ ReadPage(w) \/ CommitCheck(w)
      BY <1>2, <2>2
      DEF Cycle, Begin, Read, Commit, CheckLease, TakeLease, BeginLoad, OpenRun,
          ClaimRefused, CommitDisowned, Apply, CommitAborts, Release,
          CallFails, Crash, GiveUp, Leave, Goto, InCycle
    <3> QED
      BY <3>1, <3>2, <3>3, <3>4, <3>5
  <2> QED
    BY <2>1, <2>2
<1> QED
  BY <1>1, <1>2 DEF Next, OwnerNewer

LEMMA Ordered == Spec => []OrderInv
<1>1. OrderInv /\ [Next]_vars => OrderInv'
  BY StepType, RunsDistinctStep, RowOrderStep, StageFreshStep, OwnerNewerStep DEF OrderInv
<1> QED
  BY <1>1, OrderInit, PTL DEF Spec

\* A row of the target is never replaced by an older version of itself, even
\* when runs outlive their budget and targets change hands under them: what a
\* displaced run has staged is refused by the fence.
THEOREM RowsMoveForward == Spec => TargetNeverGoesBack
<1>1. ASSUME OrderInv, NEW w \in Executor, Apply(w), NEW k \in Key,
             target.rows[k] # Null, target'.rows[k] # Null
      PROVE  target'.rows[k] >= target.rows[k]
  <2>1. pc[w] = "apply" /\ state.active = run[w] /\ run[w] \in Run
    BY <1>1 DEF Apply, CanApply, OrderInv, TypeInv, HasRun, InCycle
  <2>2. \/ target'.rows[k] = stage[run[w]].rows[k] /\ stage[run[w]].rows[k] # Null
        \/ target'.rows[k] \in {Null, target.rows[k]}
    BY <1>1, ApplyRows
  <2>3. /\ target.rows[k] \in Nat /\ stage[run[w]].rows[k] \in Nat
    BY <1>1, <2>1, RowTypes DEF OrderInv
  <2> QED
    BY <1>1, <2>1, <2>2, <2>3 DEF OrderInv, OwnerNewer
<1>2. OrderInv /\ [Next]_vars =>
        [\A k \in Key : target.rows[k] # Null /\ target'.rows[k] # Null
                            => target'.rows[k] >= target.rows[k]]_target
  <2> SUFFICES ASSUME OrderInv, [Next]_vars, NEW k \in Key,
                      target.rows[k] # Null, target'.rows[k] # Null
               PROVE  target'.rows[k] >= target.rows[k] \/ UNCHANGED target
    OBVIOUS
  <2> QED
    BY <1>1, OnlyApplyMoves DEF OrderInv
<1> QED
  BY <1>2, Ordered, PTL DEF Spec, TargetNeverGoesBack

-------------------------------------------------------------------------------
(***************************************************************************)
(* No change is lost.  A change that commits after a cycle has read its    *)
(* key carries a stamp of at most Late ago; the next floor lies 2*Safety   *)
(* before the read: Safety for the ceiling and Safety for the overlap.     *)
(***************************************************************************)

\* Open SAP transactions are young, ceilings and watermarks are in the past.
Punctual ==
    /\ \A k \in Key : pending[k] # Null => pending[k] >= clock - Late
    /\ state.wm <= clock - Safety
    /\ \A w \in Executor :
          /\ pc[w] \in HasRun => plan[w].to <= clock - Safety
          /\ pc[w] = "apply" => shape[w].wm <= clock - Safety

\* A run's floor is not above the next one's, only a delta has one, and the
\* owner stores its own ceiling or what it found.
PlanInv ==
    \A w \in Executor :
        /\ pc[w] \in HasRun =>
              /\ ltype[w] \in LoadTypes
              /\ plan[w].floor = Null \/ plan[w].floor <= state.wm - Safety
              /\ ltype[w] # "D" => plan[w].floor = Null
        /\ pc[w] = "apply" /\ state.active = run[w] =>
              /\ shape[w].staged
              /\ shape[w].wm \in {plan[w].to, state.wm}

\* The keys an executor's cycle has read.
Done(w) ==
    IF pc[w] = "read" THEN {k \in Key : k < page[w]}
    ELSE IF pc[w] \in {"commit", "apply"} THEN Key ELSE {}

\* A read starts at the first key.
PageFresh ==
    \A w \in Executor : pc[w] \notin {"read", "commit", "apply"} => page[w] = 1

\* What the owner has read and may step over next time is in its stage, or
\* was below its own floor.
ReadRows ==
    \A w \in Executor : state.active = run[w] => \A k \in Done(w) :
        /\ source[k] # Null
        /\ source[k] <= plan[w].to - Safety \/ source[k] <= state.wm - Safety
        => stage[run[w]].rows[k] = source[k] \/ source[k] <= plan[w].floor

RowsInv ==
    /\ LiveInv /\ FenceInv /\ OrderInv /\ PlanRecorded
    /\ Punctual /\ PlanInv /\ PageFresh /\ ReadRows /\ NoRowBelowFloorMissing

\* The settings under which nothing is lost.
Tuned == ~Overrun /\ Late < 2 * Safety /\ "I" \notin LoadTypes

LEMMA RowsInit == Init => RowsInv
<1> SUFFICES ASSUME Init PROVE RowsInv
  OBVIOUS
<1>1. /\ clock \in Nat /\ clock = Safety + 1
      /\ \A k \in Key : pending[k] = Null
      /\ \A w \in Executor : pc[w] = "idle" /\ page[w] = 1
      /\ state.wm = Null
  BY DeltaCycleAssumption DEF Init, NoRows
<1>2. /\ Punctual /\ PlanInv /\ PageFresh /\ ReadRows
      /\ NoRowBelowFloorMissing /\ PlanRecorded
  BY <1>1, DeltaCycleAssumption
  DEF Punctual, PlanInv, PageFresh, ReadRows, Done, NoRowBelowFloorMissing, PlanRecorded, HasRun,
      InCycle, Null
<1> QED
  BY <1>2, LiveInit, FenceInit, OrderInit DEF RowsInv

LEMMA WmStep ==
    ASSUME FenceInv, [Next]_vars
    PROVE  state'.wm >= state.wm
<1>1. state.wm \in Nat
  BY DEF FenceInv, TypeInv, TypeOK, StateType
<1> QED
  BY <1>1, OnlyApplyMoves, ApplyForward DEF FenceInv

LEMMA PunctualStep ==
    ASSUME RowsInv, [Next]_vars
    PROVE  Punctual'
<1> USE DEF RowsInv
<1>1. CASE UNCHANGED vars
  BY <1>1 DEF vars, sap, server, local, Punctual
<1>2. CASE Tick
  BY <1>2, DeltaCycleAssumption
  DEF Tick, sap, server, local, Punctual, LiveInv, TypeInv, TypeOK, StateType, Rows
<1>3. ASSUME NEW q \in Key, Stamp(q) \/ SapCommit(q) \/ SapDelete(q) PROVE Punctual'
  BY <1>3, DeltaCycleAssumption
  DEF Stamp, SapCommit, SapDelete, server, local, Punctual, LiveInv, TypeInv, TypeOK, Rows,
      Null
<1>4. ASSUME NEW w \in Executor, Cycle(w) PROVE Punctual'
  <2>1. clock' = clock /\ pending' = pending
    BY <1>4, RowsFrom, KeyFacts DEF LiveInv
  <2>2. state'.wm <= clock - Safety
    <3>1. CASE Apply(w)
      BY <3>1, ApplyForward DEF Apply, Punctual
    <3>2. CASE ~Apply(w)
      BY <1>4, <3>2, OnlyApplyWm DEF Punctual, LiveInv
    <3> QED
      BY <3>1, <3>2
  <2>3. ASSUME NEW v \in Executor
        PROVE  /\ pc'[v] \in HasRun => plan'[v].to <= clock - Safety
               /\ pc'[v] = "apply" => shape'[v].wm <= clock - Safety
    <3>1. CASE v # w
      BY <1>4, <3>1, OthersKept DEF LiveInv, Punctual
    <3>2. CASE v = w
      <4> USE DEF LiveInv, TypeInv, TypeOK
      <4>1. CASE GiveUp(w) \/ Leave(w)
        BY <3>2, <4>1 DEF GiveUp, Leave, Goto, HasRun, InCycle
      <4>2. CASE \E t \in LoadTypes : BeginLoad(w, t)
        BY <3>2, <4>2, DeltaCycleAssumption DEF BeginLoad, ComputeBounds, Goto
      <4>3. CASE CheckLease(w) \/ TakeLease(w) \/ OpenRun(w) \/ Claim(w)
                   \/ CreateStage(w) \/ ReadPage(w)
        BY <3>2, <4>3
        DEF CheckLease, TakeLease, OpenRun, Claim, CreateStage, ReadPage, local, Goto,
            Punctual, HasRun, InCycle
      <4>4. CASE CommitCheck(w)
        <5>1. run[w] \in Run /\ stats[run[w]].to = plan[w].to
          BY <4>4 DEF CommitCheck, MergeShape, HasRun, InCycle, PlanRecorded
        <5>2. DecideWatermark(run[w]) \in {plan[w].to, state.wm}
          BY <5>1 DEF DecideWatermark, Later
        <5>3. DecideWatermark(run[w]) <= clock - Safety
          BY <4>4, <5>2 DEF CommitCheck, MergeShape, Punctual, HasRun, InCycle
        <5> QED
          BY <3>2, <4>4, <5>3 DEF CommitCheck, MergeShape, Goto, Punctual, HasRun, InCycle
      <4> QED
        BY <1>4, <4>1, <4>2, <4>3, <4>4
        DEF Cycle, Begin, Read, Commit, ClaimRefused, CommitDisowned, Apply, CommitAborts,
            Release, CallFails, Crash
    <3> QED
      BY <3>1, <3>2
  <2> QED
    BY <2>1, <2>2, <2>3 DEF Punctual
<1> QED
  BY <1>1, <1>2, <1>3, <1>4 DEF Next, Sap

LEMMA PlanInvStep ==
    ASSUME Tuned, RowsInv, [Next]_vars
    PROVE  PlanInv'
<1> USE DEF RowsInv
<1>1. CASE Tick \/ Sap \/ UNCHANGED vars
  BY <1>1 DEF Tick, Sap, Stamp, SapCommit, SapDelete, vars, server, local, PlanInv
<1>2. state'.wm >= state.wm /\ state.wm \in Nat /\ state'.wm \in Nat
  BY WmStep, StepType DEF LiveInv, TypeInv, TypeOK, StateType
<1>3. ASSUME NEW w \in Executor, Cycle(w), NEW v \in Executor, pc'[v] \in HasRun
      PROVE  /\ ltype'[v] \in LoadTypes
             /\ plan'[v].floor = Null \/ plan'[v].floor <= state'.wm - Safety
             /\ ltype'[v] # "D" => plan'[v].floor = Null
  <2>1. ASSUME pc[v] \in HasRun, ltype'[v] = ltype[v], plan'[v] = plan[v]
        PROVE  /\ ltype'[v] \in LoadTypes
               /\ plan'[v].floor = Null \/ plan'[v].floor <= state'.wm - Safety
               /\ ltype'[v] # "D" => plan'[v].floor = Null
    BY <1>2, <2>1, DeltaCycleAssumption DEF PlanInv, LiveInv, TypeInv, TypeOK
  <2>2. CASE v # w
    BY <1>3, <2>1, <2>2, OthersKept DEF LiveInv
  <2>3. CASE v = w
    <3> USE DEF LiveInv, TypeInv, TypeOK
    <3>1. CASE GiveUp(w) \/ Leave(w) \/ CheckLease(w) \/ TakeLease(w)
      BY <1>3, <2>3, <3>1 DEF GiveUp, Leave, CheckLease, TakeLease, Goto, HasRun, InCycle
    <3>2. CASE \E t \in LoadTypes : BeginLoad(w, t)
      <4>1. PICK t \in LoadTypes : BeginLoad(w, t)
        BY <3>2
      <4>2. ltype'[w] = t /\ plan'[w] = ComputeBounds(t, state.wm, clock) /\ state' = state
        BY <4>1 DEF BeginLoad
      <4>3. PlanLoad(t).floor <=> t = "D"
        BY DEF PlanLoad
      <4>4. plan'[w].floor = IF t = "D" /\ state.wm # Null THEN state.wm - Safety ELSE Null
        BY <4>2, <4>3 DEF ComputeBounds
      <4> QED
        <5>1. ltype'[v] = t /\ state'.wm = state.wm
          BY <2>3, <4>2
        <5>2. plan'[v].floor = Null \/ plan'[v].floor <= state'.wm - Safety
          BY <2>3, <4>4, <5>1, DeltaCycleAssumption DEF StateType
        <5>3. t # "D" => plan'[v].floor = Null
          BY <2>3, <4>4
        <5> QED
          BY <5>1, <5>2, <5>3
    <3>3. CASE OpenRun(w) \/ Claim(w) \/ CreateStage(w) \/ ReadPage(w) \/ CommitCheck(w)
      BY <2>1, <2>3, <3>3
      DEF OpenRun, Claim, CreateStage, ReadPage, CommitCheck, MergeShape, local, HasRun, InCycle
    <3> QED
      BY <1>3, <3>1, <3>2, <3>3
      DEF Cycle, Begin, Read, Commit, ClaimRefused, CommitDisowned, Apply, CommitAborts,
          Release, CallFails, Crash
  <2> QED
    BY <2>2, <2>3
<1>4. ASSUME NEW w \in Executor, Cycle(w), NEW v \in Executor,
             pc'[v] = "apply", state'.active = run'[v]
      PROVE  shape'[v].staged /\ shape'[v].wm \in {plan'[v].to, state'.wm}
  <2>1. CASE v # w
    <3>1. /\ pc[v] = "apply" /\ run'[v] = run[v] /\ shape'[v] = shape[v] /\ plan'[v] = plan[v]
      BY <1>4, <2>1, OthersKept DEF LiveInv
    <3>2. pc[v] \in HasRun
      BY <3>1 DEF HasRun, InCycle
    <3>3. state.active = run[v]
      BY <1>4, <2>1, <3>2, StillOwner DEF LiveInv
    <3>4. ~Apply(w)
      <4>1. Apply(w) => state'.active = NoRun
        BY DEF Apply, LiveInv, TypeInv, TypeOK, StateType
      <4> QED
        BY <4>1, <1>4, <3>1, <3>2 DEF LiveInv, TypeInv, Run, NoRun
    <3> QED
      BY <1>4, <3>1, <3>3, <3>4, OnlyApplyWm DEF PlanInv, LiveInv
  <2>2. CASE v = w
    <3>1. CommitCheck(w)
      BY <1>4, <2>2
      DEF Cycle, Begin, Read, Commit, CheckLease, TakeLease, BeginLoad, OpenRun, Claim,
          ClaimRefused, CreateStage, ReadPage, CommitDisowned, Apply, CommitAborts, Release,
          CallFails, Crash, GiveUp, Leave, Goto, LiveInv, TypeInv, TypeOK, InCycle
    <3>2. pc[w] = "commit" /\ pc[w] \in InCycle /\ run[w] \in Run
      BY <3>1 DEF CommitCheck, MergeShape, LiveInv, TypeInv, HasRun, InCycle
    <3>3. stage[run[w]].there
      <4>1. PlanLoad(ltype[w]).read
        BY <3>2 DEF PlanInv, HasRun, Tuned, PlanLoad
      <4> QED
        BY <3>2, <4>1 DEF LiveInv, LiveStageKept
    <3>4. DecideWatermark(run[w]) \in {plan[w].to, state.wm}
      BY <3>2 DEF DecideWatermark, Later, PlanRecorded
    <3> QED
      BY <2>2, <3>1, <3>3, <3>4 DEF CommitCheck, MergeShape, server, LiveInv, TypeInv, TypeOK
  <2> QED
    BY <2>1, <2>2
<1> QED
  BY <1>1, <1>3, <1>4 DEF Next, PlanInv

\* A change that becomes visible now is newer than any position there is or
\* that a run under way will store.
LEMMA NewIsAhead ==
    ASSUME Tuned, RowsInv, NEW q \in Key, pending[q] # Null
    PROVE  /\ pending[q] > state.wm - Safety
           /\ \A w \in Executor : pc[w] \in HasRun => pending[q] > plan[w].to - Safety
BY DeltaCycleAssumption
DEF Tuned, RowsInv, LiveInv, Punctual, TypeInv, TypeOK, Rows, StateType

LEMMA PageFreshStep ==
    ASSUME TypeInv, PageFresh, [Next]_vars
    PROVE  PageFresh'
<1> USE DEF TypeInv, TypeOK
<1>1. CASE Tick \/ Sap \/ UNCHANGED vars
  BY <1>1 DEF Tick, Sap, Stamp, SapCommit, SapDelete, vars, local, PageFresh
<1>2. ASSUME NEW w \in Executor, Cycle(w), NEW v \in Executor,
             pc'[v] \notin {"read", "commit", "apply"}
      PROVE  page'[v] = 1
  <2>1. CASE v # w
    BY <1>2, <2>1, OthersKept DEF PageFresh
  <2>2. CASE v = w
    <3>1. CASE GiveUp(w) \/ Leave(w)
      BY <2>2, <3>1 DEF GiveUp, Leave, Drop
    <3>2. CASE ~GiveUp(w) /\ ~Leave(w)
      BY <1>2, <2>2, <3>2
      DEF Cycle, Begin, Read, Commit, CheckLease, TakeLease, BeginLoad, OpenRun, Claim,
          ClaimRefused, CreateStage, ReadPage, CommitDisowned, CommitCheck, MergeShape, Apply,
          CommitAborts, Release, CallFails, Crash, Goto, local, PageFresh
    <3> QED
      BY <3>1, <3>2
  <2> QED
    BY <2>1, <2>2
<1> QED
  BY <1>1, <1>2 DEF Next, PageFresh

LEMMA OneBelow == \A a, b \in Nat : a < b + 1 /\ a # b => a < b
OBVIOUS

LEMMA ReadRowsStep ==
    ASSUME Tuned, RowsInv, [Next]_vars
    PROVE  ReadRows'
<1> USE DEF RowsInv
<1>1. CASE Tick \/ UNCHANGED vars
  BY <1>1 DEF Tick, vars, sap, server, local, ReadRows, Done
<1>2. ASSUME NEW q \in Key, Stamp(q) \/ SapDelete(q) PROVE ReadRows'
  <2>1. \A k \in Key : source'[k] \in {source[k], Null}
    BY <1>2 DEF Stamp, SapDelete, LiveInv, TypeInv, TypeOK, Rows
  <2>2. UNCHANGED <<server, pc, local>>
    BY <1>2 DEF Stamp, SapDelete
  <2> QED
    BY <2>1, <2>2 DEF server, local, ReadRows, Done
<1>3. ASSUME NEW q \in Key, SapCommit(q) PROVE ReadRows'
  <2>1. \A w \in Executor : Done(w)' = Done(w) /\ (Done(w) # {} => pc[w] \in HasRun)
    BY <1>3 DEF SapCommit, local, Done, HasRun, InCycle
  <2>2. \A k \in Key : source'[k] = IF k = q THEN pending[q] ELSE source[k]
    BY <1>3 DEF SapCommit, LiveInv, TypeInv, TypeOK, Rows
  <2>3. pending[q] # Null /\ UNCHANGED <<server, local>>
    BY <1>3 DEF SapCommit
  <2>4. ASSUME NEW w \in Executor, state.active = run[w], NEW k \in Done(w),
               source'[k] # Null,
               source'[k] <= plan[w].to - Safety \/ source'[k] <= state.wm - Safety
        PROVE  stage[run[w]].rows[k] = source'[k] \/ source'[k] <= plan[w].floor
    <3>1. k \in Key /\ pc[w] \in HasRun
      BY <2>1 DEF Done
    <3>2. CASE k = q
      <4>1. source'[k] > plan[w].to - Safety /\ source'[k] > state.wm - Safety
        BY <2>2, <2>3, <3>1, <3>2, NewIsAhead
      <4> QED
        BY <2>4, <3>1, <4>1, <3>2, <2>2, DeltaCycleAssumption
        DEF LiveInv, TypeInv, TypeOK, Rows, StateType
    <3>3. CASE k # q
      BY <2>2, <2>4, <3>1, <3>3 DEF ReadRows
    <3> QED
      BY <3>2, <3>3
  <2> QED
    BY <2>1, <2>3, <2>4 DEF server, local, ReadRows
<1>4. ASSUME NEW w \in Executor, Cycle(w), NEW v \in Executor,
             state'.active = run'[v], NEW k \in Key, k \in Done(v)',
             source'[k] # Null,
             source'[k] <= plan'[v].to - Safety \/ source'[k] <= state'.wm - Safety
      PROVE  stage'[run'[v]].rows[k] = source'[k] \/ source'[k] <= plan'[v].floor
  <2>1. k \in Key /\ pc'[v] \in {"read", "commit", "apply"}
    BY <1>4 DEF Done
  <2>2. source' = source
    BY <1>4, <2>1, RowsFrom DEF LiveInv
  <2>3. CASE v # w
    <3>1. /\ pc'[v] = pc[v] /\ run'[v] = run[v] /\ plan'[v] = plan[v] /\ page'[v] = page[v]
          /\ ltype'[v] = ltype[v]
      BY <1>4, <2>3, OthersKept DEF LiveInv
    <3>2. pc[v] \in InCycle /\ pc[v] \in HasRun
      BY <2>1, <3>1 DEF HasRun, InCycle
    <3>3. state.active = run[v]
      BY <1>4, <2>3, <3>2, StillOwner DEF LiveInv
    <3>4. ~Apply(w)
      <4>1. Apply(w) => state'.active = NoRun
        BY DEF Apply, LiveInv, TypeInv, TypeOK, StateType
      <4> QED
        BY <4>1, <1>4, <3>1, <3>2 DEF LiveInv, TypeInv, Run, NoRun
    <3>5. state'.wm = state.wm
      BY <1>4, <3>4, OnlyApplyWm DEF LiveInv
    <3>6. stage'[run[v]] = stage[run[v]]
      <4>1. Retired(run[v]).status = "RUNNING"
        BY <3>2, DeltaCycleAssumption
        DEF Retired, LiveInv, LiveRuns, TypeInv, TypeOK, StatsType
      <4> QED
        BY <1>4, <2>3, <3>2, <4>1, StageKept DEF LiveInv
    <3> QED
      BY <1>4, <2>2, <3>1, <3>3, <3>5, <3>6 DEF ReadRows, Done
  <2>4. CASE v = w
    <3> USE DEF LiveInv, TypeInv, TypeOK
    <3>1. CASE Claim(w)
      <4>1. PlanLoad(ltype[w]).read
        BY <3>1 DEF Claim, PlanInv, HasRun, InCycle, Tuned, PlanLoad
      <4> QED
        BY <2>1, <2>4, <3>1, <4>1 DEF Claim, Goto
    <3>2. CASE CreateStage(w)
      <4>1. pc'[w] = "read" /\ page'[w] = page[w]
        BY <3>2 DEF CreateStage, Goto, local
      <4>2. page[w] = 1
        BY <3>2 DEF CreateStage, PageFresh
      <4> QED
        BY <1>4, <2>4, <4>1, <4>2 DEF Done, Key
    <3>3. CASE ReadPage(w)
      <4>1. /\ run[w] \in Run /\ page[w] \in Key /\ run' = run /\ plan' = plan
            /\ state' = state /\ pc[w] = "read"
        BY <3>3 DEF ReadPage, HasRun, InCycle
      <4>2. stage'[run[w]].rows = [stage[run[w]].rows EXCEPT ![page[w]] =
                IF Found(w) THEN source[page[w]] ELSE Null]
        BY <3>3, <4>1 DEF ReadPage, Table
      <4>3. CASE k = page[w]
        BY <2>2, <2>4, <4>1, <4>2, <4>3 DEF Found, Table, Rows
      <4>4. CASE k # page[w]
        <5>1. stage'[run[w]].rows[k] = stage[run[w]].rows[k]
          BY <4>1, <4>2, <4>4 DEF Table, Rows
        <5>2. k < page[w]
          <6>1. k \in Nat /\ k <= LastKey /\ page[w] \in Nat /\ LastKey \in Nat
            BY <2>1, <4>1, DeltaCycleAssumption DEF Key
          <6>2. CASE page[w] = LastKey
            BY <4>4, <6>1, <6>2
          <6>3. CASE page[w] # LastKey
            <7>1. pc'[w] = "read" /\ page'[w] = page[w] + 1
              BY <3>3, <4>1, <6>3 DEF ReadPage
            <7>2. k \in {q \in Key : q < page'[w]}
              <8>1. k \in Done(w)'
                BY <1>4, <2>4
              <8> QED
                BY <7>1, <8>1 DEF Done
            <7>3. k < page[w] + 1
              BY <7>1, <7>2
            <7> QED
              BY <4>4, <6>1, <7>3, OneBelow
          <6> QED
            BY <6>2, <6>3
        <5>3. k \in Done(w)
          BY <2>1, <4>1, <5>2 DEF Done
        <5> QED
          BY <1>4, <2>2, <2>4, <4>1, <5>1, <5>3 DEF ReadRows
      <4> QED
        BY <4>3, <4>4
    <3>4. CASE CommitCheck(w)
      BY <1>4, <2>1, <2>2, <2>4, <3>4 DEF CommitCheck, MergeShape, server, ReadRows, Done, Goto
    <3>5. Claim(w) \/ CreateStage(w) \/ ReadPage(w) \/ CommitCheck(w)
      BY <1>4, <2>1, <2>4
      DEF Cycle, Begin, Read, Commit, CheckLease, TakeLease, BeginLoad, OpenRun,
          ClaimRefused, CommitDisowned, Apply, CommitAborts, Release,
          CallFails, Crash, GiveUp, Leave, Goto, InCycle
    <3> QED
      BY <3>1, <3>2, <3>3, <3>4, <3>5
  <2> QED
    BY <2>3, <2>4
<1> QED
  <2>1. \A v \in Executor : Done(v)' \subseteq Key
    BY DEF Done
  <2> QED
    BY <1>1, <1>2, <1>3, <1>4, <2>1 DEF Next, Sap, ReadRows

LEMMA ApplyKeepsRows ==
    ASSUME Tuned, RowsInv, NEW w \in Executor, Apply(w), NEW k \in Key,
           source[k] # Null, source[k] <= state'.wm - Safety
    PROVE  target'.rows[k] = source[k]
<1> USE DEF RowsInv
<1>1. /\ pc[w] = "apply" /\ pc[w] \in InCycle /\ pc[w] \in HasRun
      /\ state.active = run[w] /\ run[w] \in Run
  BY DEF Apply, CanApply, LiveInv, TypeInv, HasRun, InCycle
<1>2. /\ source[k] \in Nat /\ target.rows[k] \in Nat /\ stage[run[w]].rows[k] \in Nat
      /\ state.wm \in Nat /\ plan[w].to \in Nat /\ plan[w].floor \in Int
  BY <1>1, RowTypes DEF LiveInv, TypeInv, TypeOK, StateType
<1>3. shape[w].staged /\ state'.wm \in {plan[w].to, state.wm}
  BY <1>1, ApplyForward DEF PlanInv
<1>4. stage[run[w]].rows[k] = source[k] \/ source[k] <= plan[w].floor
  <2>1. k \in Done(w)
    BY <1>1 DEF Done
  <2> QED
    BY <1>1, <1>3, <2>1 DEF ReadRows
<1>5. CASE stage[run[w]].rows[k] = source[k]
  BY <1>3, <1>5, ApplyRows
<1>6. CASE source[k] <= plan[w].floor
  <2>1. plan[w].floor # Null /\ plan[w].floor <= state.wm - Safety
    BY <1>1, <1>2, <1>6 DEF PlanInv, Null
  <2>2. target.rows[k] = source[k]
    BY <1>2, <1>6, <2>1, DeltaCycleAssumption DEF NoRowBelowFloorMissing, Null
  <2>3. CASE stage[run[w]].rows[k] # Null
    <3>1. target.rows[k] <= stage[run[w]].rows[k]
      BY <1>1, <2>3 DEF OrderInv, OwnerNewer
    <3>2. stage[run[w]].rows[k] <= source[k]
      BY <1>1 DEF OrderInv, RowOrder, NotNewer
    <3> QED
      BY <1>2, <1>3, <2>2, <2>3, <3>1, <3>2, ApplyRows
  <2>4. CASE stage[run[w]].rows[k] = Null
    <3>1. ltype[w] = "D"
      BY <1>1, <2>1 DEF PlanInv
    <3>2. ~Replaces(w)
      BY <1>1, <3>1 DEF Replaces, PlanRecorded, PlanLoad
    <3> QED
      BY <2>2, <2>4, <3>2, ApplyRows
  <2> QED
    BY <2>3, <2>4
<1> QED
  BY <1>4, <1>5, <1>6

LEMMA NothingMissingStep ==
    ASSUME Tuned, RowsInv, [Next]_vars
    PROVE  NoRowBelowFloorMissing'
<1> USE DEF RowsInv
<1>1. CASE Tick \/ UNCHANGED vars
  BY <1>1 DEF Tick, vars, sap, server, NoRowBelowFloorMissing
<1>2. ASSUME NEW q \in Key, Stamp(q) \/ SapDelete(q) PROVE NoRowBelowFloorMissing'
  <2>1. \A k \in Key : source'[k] \in {source[k], Null}
    BY <1>2 DEF Stamp, SapDelete, LiveInv, TypeInv, TypeOK, Rows
  <2> QED
    BY <1>2, <2>1 DEF Stamp, SapDelete, server, NoRowBelowFloorMissing
<1>3. ASSUME NEW q \in Key, SapCommit(q) PROVE NoRowBelowFloorMissing'
  <2>1. \A k \in Key : source'[k] = IF k = q THEN pending[q] ELSE source[k]
    BY <1>3 DEF SapCommit, LiveInv, TypeInv, TypeOK, Rows
  <2>2. pending[q] # Null /\ UNCHANGED server
    BY <1>3 DEF SapCommit
  <2>3. pending[q] > state.wm - Safety /\ pending[q] \in Nat /\ state.wm \in Nat
    BY <2>2, NewIsAhead DEF LiveInv, TypeInv, TypeOK, Rows, StateType
  <2> QED
    BY <2>1, <2>2, <2>3, DeltaCycleAssumption DEF server, NoRowBelowFloorMissing
<1>4. ASSUME NEW w \in Executor, Cycle(w) PROVE NoRowBelowFloorMissing'
  <2>1. source' = source
    BY <1>4, RowsFrom, KeyFacts DEF LiveInv
  <2>2. CASE Apply(w)
    BY <2>1, <2>2, ApplyKeepsRows DEF NoRowBelowFloorMissing
  <2>3. CASE ~Apply(w)
    BY <1>4, <2>1, <2>3, OnlyApplyOf, OnlyApplyWm DEF NoRowBelowFloorMissing, LiveInv
  <2> QED
    BY <2>2, <2>3
<1> QED
  BY <1>1, <1>2, <1>3, <1>4 DEF Next, Sap

\* Every change that the next delta will no longer read is in the target, for
\* any number of executors, crashes, refused and displaced cycles, provided
\* that cycles end within max_cycle_secs, that a change commits less than two
\* safety intervals after its stamp and that nobody asks for the load type I,
\* which sets the position without reading.
THEOREM NoChangeIsLost ==
    ASSUME ~Overrun, Late < 2 * Safety, "I" \notin LoadTypes
    PROVE  Spec => []NoRowBelowFloorMissing
<1>1. Tuned
  BY DEF Tuned
<1>2. RowsInv /\ [Next]_vars => RowsInv'
  <2> SUFFICES ASSUME RowsInv, [Next]_vars PROVE RowsInv'
    OBVIOUS
  <2> USE DEF RowsInv
  <2>1. LiveInv'
    BY StepType, RunsDistinctStep, LiveRunsStep, LiveStageStep DEF LiveInv
  <2>2. FenceInv'
    BY FenceStep
  <2>3. OrderInv'
    BY StepType, RunsDistinctStep, RowOrderStep, StageFreshStep, OwnerNewerStep DEF OrderInv
  <2>4. PlanRecorded' /\ PageFresh'
    BY PlanRecordedStep, PageFreshStep DEF LiveInv
  <2>5. Punctual' /\ PlanInv' /\ ReadRows' /\ NoRowBelowFloorMissing'
    BY <1>1, PunctualStep, PlanInvStep, ReadRowsStep, NothingMissingStep
  <2> QED
    BY <2>1, <2>2, <2>3, <2>4, <2>5
<1>3. RowsInv => NoRowBelowFloorMissing
  BY DEF RowsInv
<1> QED
  BY <1>2, <1>3, RowsInit, PTL DEF Spec
===============================================================================
