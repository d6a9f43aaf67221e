----------------------------- MODULE MCOperations -----------------------------
(***************************************************************************)
(* What surrounds the cycles, each on its own: the command queue with the  *)
(* servers that serve it, the cursors of the SQL console, `setup`, and the *)
(* plan of one tick.  They share no state, so that the initial state       *)
(* chooses one (`which`) and the others stay as they are.                  *)
(***************************************************************************)
EXTENDS CommandQueue, Operations

CONSTANTS
    Parts,                               \* the parts that this run explores
    db, other,                           \* files
    util, mkfm, setup, diag, clidrv,     \* objects
    t1, t2, t3, t4                       \* targets

VARIABLE which

MCAssets == <<util, mkfm, setup, diag, clidrv>>

MCName == [t \in Targets |-> CASE t = t1 -> 1 [] t = t2 -> 2 [] t = t3 -> 3 [] OTHER -> 4]

MCInterval == [t \in Targets |-> IF t = t3 THEN 2 ELSE 1]

MCCliFile == [c \in Clis |-> db]

\* Every delay and one-shot load, and a row that the plan has to leave alone:
\* a live cycle, a dead one, drift, a trigger set that is not active.
Rows ==
    [since : {0, 1, 4, Never}, lease : {MaxCycle}, status : {"IDLE"}, fail : {0, 1},
     full : BOOLEAN, live : {TRUE}]
      \cup {[since |-> 3, lease |-> l, status |-> s, fail |-> 0, full |-> FALSE, live |-> on] :
               l \in {0, MaxCycle}, s \in {"RUNNING"}, on \in BOOLEAN}
      \cup {[since |-> 3, lease |-> 0, status |-> "BLOCKED", fail |-> 0, full |-> FALSE, live |-> TRUE]}

\* Neither the failures of a trigger target nor the set of a delta target matter.
PlannedRows ==
    {r \in [Targets -> Rows] :
        \A t \in Targets : IF t \in Triggers THEN r[t].fail = 0 ELSE r[t].live}

MCInit ==
    /\ which \in Parts
    /\ ServerInit /\ QueueInit /\ Cur!Init /\ Set!Init
    /\ planned \in IF which = "plan" THEN PlannedRows ELSE {<<>>}

QueueStep  == which = "queue" /\ QueueNext /\ UNCHANGED <<which, cursorVars, setupVars, planned>>
CursorStep == which = "cursors" /\ Cur!Next /\ UNCHANGED <<which, vars, setupVars, planned>>
SetupStep  == which = "setup" /\ Set!Next /\ UNCHANGED <<which, vars, cursorVars, planned>>

MCNext == QueueStep \/ CursorStep \/ SetupStep

MCVars == <<which, vars, cursorVars, setupVars, planned>>

Works(A) == which = "queue" /\ A

\* A server boots and shuts down, a CLI that has the file open asks and closes it,
\* the job is started and drains: the other CLIs and drivers may stop anywhere.
MCSpec == MCInit /\ [][MCNext]_MCVars
             /\ WF_vars(Works(ServerRun)) /\ WF_vars(Works(\E c \in Clis : AskFile(c)))
             /\ WF_vars(Works(StartJob)) /\ WF_vars(Works(Drain(Job)))

\* The types of all parts.
TypesOK == which = "plan" \/ (QueueTypeOK /\ Cur!TypeOK /\ Set!TypeOK)
===============================================================================
