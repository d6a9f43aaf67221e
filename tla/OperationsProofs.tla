---------------------------- MODULE OperationsProofs ----------------------------
(***************************************************************************)
(* Proofs about what surrounds the cycles: the servers and the command     *)
(* queue, for every number of servers, commands, drivers, files,           *)
(* migrations and faults; the cursors of the server, for any callers,      *)
(* handles, chunks and limits; `setup`; the plan of a tick; and the run    *)
(* that explores them side by side.                                        *)
(***************************************************************************)
EXTENDS MCOperations, TickPlannerProofs, SequenceTheorems

-------------------------------------------------------------------------------
(* The servers.                                                             *)

\* What a server has behind it at each point of its life, and whom the state file
\* may name.
OwnsFile  == \A s \in Servers : Alive(s) => lock[Db] = s

SchemaInv ==
    /\ schema[Db].version <= schema[Db].landed
    /\ \A s \in Servers : Alive(s) /\ ~At(s, "migrating") => schema[Db].landed = Latest

Hears == \A s \in Servers : At(s, "listening") => s \in quack

NamedInv == state \in Servers => At(state, "gone") \/ (At(state, "serving") /\ state \in quack)

ServerInv == OwnsFile /\ SchemaInv /\ Hears /\ NamedInv

LEMMA ServerStart == ASSUME ServerInit PROVE ServerTypeOK /\ ServerInv
BY ServerAssumption DEF ServerInit, ServerTypeOK, ServerInv, OwnsFile, SchemaInv, Hears,
    NamedInv, Alive, At

LEMMA ServerRunsType ==
    ASSUME ServerTypeOK, NEW s \in Servers, ServerRuns(s) \/ ServerEnds(s)
    PROVE  ServerTypeOK'
<1> USE ServerAssumption DEF ServerTypeOK, Goes, At, Release, Alive
<1>1. CASE Boot(s)
  BY <1>1 DEF Boot
<1>2. CASE ApplyMigration(s)
  BY <1>2 DEF ApplyMigration
<1>3. CASE RecordMigration(s)
  BY <1>3 DEF RecordMigration
<1>4. CASE Migrated(s) \/ Register(s) \/ NoQuack(s) \/ CannotWrite(s)
  BY <1>4 DEF Migrated, Register, NoQuack, CannotWrite
<1>5. CASE StartQuack(s) \/ StopQuack(s)
  BY <1>5 DEF StartQuack, StopQuack
<1>6. CASE WriteServerState(s) \/ RemoveServerState(s)
  BY <1>6 DEF WriteServerState, RemoveServerState
<1>7. CASE Shutdown(s) \/ Fatal(s) \/ Crash(s)
  BY <1>7 DEF Shutdown, Fatal, Crash
<1> QED
  BY <1>1, <1>2, <1>3, <1>4, <1>5, <1>6, <1>7 DEF ServerRuns, ServerEnds

\* A file has one owner: the other servers keep theirs, and a schema moves under
\* the owner of the file only.
LEMMA ServerRunsInv ==
    ASSUME ServerTypeOK, ServerInv, NEW s \in Servers, ServerRuns(s) \/ ServerEnds(s)
    PROVE  ServerInv'
<1> USE ServerAssumption DEF ServerTypeOK, Goes, At, Alive
<1>1. OwnsFile'
  <2>1. CASE Boot(s)
    BY <2>1 DEF Boot, ServerInv, OwnsFile
  <2>2. CASE Shutdown(s) \/ Fatal(s) \/ Crash(s)
    BY <2>2 DEF Shutdown, Fatal, Crash, Release, ServerInv, OwnsFile
  <2>3. CASE UNCHANGED lock /\ At(s, "new") = (proc'[s] = "new") /\ proc[s] # "gone"
             /\ \A t \in Servers \ {s} : proc'[t] = proc[t]
    BY <2>3 DEF ServerInv, OwnsFile
  <2> QED
    BY <2>1, <2>2, <2>3 DEF ServerRuns, ServerEnds, ApplyMigration, RecordMigration, Migrated,
        Register, StartQuack, NoQuack, WriteServerState, CannotWrite, StopQuack, RemoveServerState
<1>2. SchemaInv'
  <2>1. CASE ApplyMigration(s)
    BY <2>1 DEF ApplyMigration, ServerInv, OwnsFile, SchemaInv
  <2>2. CASE RecordMigration(s)
    BY <2>2 DEF RecordMigration, ServerInv, OwnsFile, SchemaInv
  <2>3. CASE Migrated(s)
    BY <2>3 DEF Migrated, ServerInv, SchemaInv
  <2>4. CASE Boot(s)
    BY <2>4 DEF Boot, ServerInv, SchemaInv
  <2>5. CASE /\ UNCHANGED schema
             /\ \A t \in Servers : proc'[t] \notin {"new", "gone", "migrating"} =>
                                      proc[t] \notin {"new", "gone", "migrating"}
    BY <2>5 DEF ServerInv, SchemaInv
  <2> QED
    BY <2>1, <2>2, <2>3, <2>4, <2>5 DEF ServerRuns, ServerEnds, Register, StartQuack, NoQuack,
        WriteServerState, CannotWrite, StopQuack, RemoveServerState, Shutdown, Fatal, Crash
<1>3. Hears' /\ NamedInv'
  <2>1. CASE Boot(s) \/ ApplyMigration(s) \/ RecordMigration(s) \/ Migrated(s) \/ Register(s)
    BY <2>1 DEF Boot, ApplyMigration, RecordMigration, Migrated, Register, ServerInv, Hears, NamedInv
  <2>2. CASE StartQuack(s) \/ NoQuack(s)
    BY <2>2 DEF StartQuack, NoQuack, ServerInv, Hears, NamedInv
  <2>3. CASE WriteServerState(s) \/ CannotWrite(s)
    BY <2>3 DEF WriteServerState, CannotWrite, ServerInv, Hears, NamedInv
  <2>4. CASE RemoveServerState(s) \/ StopQuack(s)
    BY <2>4 DEF RemoveServerState, StopQuack, ServerInv, Hears, NamedInv
  <2>5. CASE Shutdown(s) \/ Fatal(s) \/ Crash(s)
    BY <2>5 DEF Shutdown, Fatal, Crash, ServerInv, Hears, NamedInv
  <2> QED
    BY <2>1, <2>2, <2>3, <2>4, <2>5 DEF ServerRuns, ServerEnds
<1> QED
  BY <1>1, <1>2, <1>3 DEF ServerInv

-------------------------------------------------------------------------------
(* The queue.                                                               *)

\* What a row says of its command, and which exit codes a command can have.
RowsInv ==
    \A f \in Files : \A i \in DOMAIN rows[f] :
       /\ rows[f][i].runs <= 1
       /\ (rows[f][i].status = "PENDING" => rows[f][i].runs = 0)
       /\ (rows[f][i].status = "DONE" => f = Db /\ rows[f][i].runs = 1 /\ rows[f][i].good)

Busy(d) == drv[d].pc \in {"execute", "finish"}

\* A driver at work has a row that says RUNNING, and it alone has it.
BusyInv ==
    \A d \in Drivers : Busy(d) =>
       /\ drv[d].id \in DOMAIN rows[Db] /\ rows[Db][drv[d].id].status = "RUNNING"
       /\ rows[Db][drv[d].id].runs = (IF drv[d].pc = "execute" THEN 0 ELSE 1)

AloneInv ==
    \A d, e \in Drivers : Busy(d) /\ Busy(e) /\ drv[d].id = drv[e].id => d = e

NotYet ==
    \A c \in Clis :
       /\ (cli[c].pc # "exit" => cli[c].exit = 9)
       /\ (cli[c].pc = "idle" => cli[c].id = 0)

QueueInv == RowsInv /\ BusyInv /\ AloneInv /\ NotYet /\ ZeroMeansDone

LEMMA QueueStart ==
    ASSUME ServerInit, QueueInit
    PROVE  QueueTypeOK /\ ServerInv /\ QueueInv
<1>1. QueueTypeOK /\ ServerInv
  BY ServerStart, QueueAssumption DEF QueueInit, QueueTypeOK, Drivers, CliState, DriverState
<1>2. QueueInv
  BY QueueAssumption DEF QueueInit, QueueInv, RowsInv, BusyInv, AloneInv, NotYet, Busy, ZeroMeansDone
<1> QED
  BY <1>1, <1>2

\* A row that is changed, and a row that is added.
LEMMA ChangedRow ==
    ASSUME NEW q \in Seq(Row), NEW i \in DOMAIN q, NEW r \in Row
    PROVE  /\ [q EXCEPT ![i] = r] \in Seq(Row) /\ DOMAIN [q EXCEPT ![i] = r] = DOMAIN q
           /\ \A j \in DOMAIN q : [q EXCEPT ![i] = r][j] = IF j = i THEN r ELSE q[j]
OBVIOUS

LEMMA AddedRow ==
    ASSUME NEW q \in Seq(Row), NEW r \in Row
    PROVE  /\ Append(q, r) \in Seq(Row) /\ DOMAIN Append(q, r) = DOMAIN q \cup {Len(q) + 1}
           /\ \A j \in DOMAIN q : Append(q, r)[j] = q[j]
           /\ Append(q, r)[Len(q) + 1] = r /\ Len(q) + 1 \notin DOMAIN q
OBVIOUS

\* A command that goes on, and one that ends.
LEMMA Steps ==
    ASSUME QueueTypeOK, NEW c \in Clis, NEW new \in CliState, Step(c, new)
    PROVE  /\ cli' \in [Clis -> CliState] /\ cli'[c] = new
           /\ \A b \in Clis \ {c} : cli'[b] = cli[b]
BY DEF Step, QueueTypeOK

LEMMA Exits ==
    ASSUME QueueTypeOK, NEW c \in Clis, NEW code \in {0, 1, 2, 3, 9}, Exit(c, code)
    PROVE  /\ cli' \in [Clis -> CliState] /\ cli'[c].pc = "exit" /\ cli'[c].exit = code
           /\ cli'[c].id = cli[c].id /\ \A b \in Clis \ {c} : cli'[b] = cli[b]
<1> DEFINE new == [cli[c] EXCEPT !.pc = "exit", !.exit = code, !.seen = Nobody]
<1>1. new \in CliState /\ new.pc = "exit" /\ new.exit = code /\ new.id = cli[c].id
  BY DEF QueueTypeOK, CliState
<1>2. Step(c, new)
  BY DEF Exit
<1> HIDE DEF new
<1> QED
  BY <1>1, <1>2, Steps

LEMMA GoesOn ==
    ASSUME QueueTypeOK, NEW c \in Clis, NEW s \in Servers \cup {Nobody},
           NEW pc \in {"idle", "detect", "judge", "open", "file", "run", "wait", "exit"},
           \/ Step(c, [cli[c] EXCEPT !.pc = pc]) 
           \/ Step(c, [cli[c] EXCEPT !.pc = pc, !.seen = s])
    PROVE  /\ cli' \in [Clis -> CliState] /\ cli'[c].pc = pc /\ cli'[c].exit = cli[c].exit
           /\ cli'[c].id = cli[c].id /\ \A b \in Clis \ {c} : cli'[b] = cli[b]
<1> DEFINE one == [cli[c] EXCEPT !.pc = pc]
           two == [cli[c] EXCEPT !.pc = pc, !.seen = s]
<1>1. /\ one \in CliState /\ one.pc = pc /\ one.exit = cli[c].exit /\ one.id = cli[c].id
      /\ two \in CliState /\ two.pc = pc /\ two.exit = cli[c].exit /\ two.id = cli[c].id
  BY DEF QueueTypeOK, CliState
<1>2. Step(c, one) \/ Step(c, two)
  OBVIOUS
<1> HIDE DEF one, two
<1> QED
  BY <1>1, <1>2, Steps

\* Commands that do not reach a database: what they do to their own state, and
\* that they leave the rows and the drivers at work alone.
Fronts(c) ==
    CommandFront(c) \/ ReadServerState(c) \/ JudgeServerState(c) \/ CannotOpen(c) \/ RunClass(c)
      \/ CannotRun(c) \/ HearDriver(c) \/ TimesOut(c)

LEMMA FrontStep ==
    ASSUME QueueTypeOK, NotYet, NEW c \in Clis, Fronts(c)
    PROVE  /\ cli' \in [Clis -> CliState]
           /\ (cli'[c].exit = 0 => cli[c].exit = 0 \/ cli[c].id = 0)
           /\ cli'[c].id = cli[c].id /\ cli'[c].pc # "idle"
           /\ (cli'[c].pc # "exit" => cli[c].pc # "exit" /\ cli'[c].exit = cli[c].exit)
           /\ \A b \in Clis \ {c} : cli'[b] = cli[b]
<1>1. CASE RefuseUnknownFlags(c)
  BY <1>1, Exits DEF RefuseUnknownFlags, NotYet
<1>2. CASE DryRun(c)
  BY <1>2, Exits DEF DryRun, NotYet
<1>3. CASE ConsentGate(c)
  BY <1>3, Exits DEF ConsentGate, NotYet
<1>4. CASE RunGenerated(c)
  BY <1>4, Exits DEF RunGenerated, NotYet
<1>5. CASE CannotOpen(c)
  BY <1>5, Exits DEF CannotOpen
<1>6. CASE CannotRun(c)
  BY <1>6, Exits DEF CannotRun
<1>7. CASE TimesOut(c)
  BY <1>7, Exits DEF TimesOut
<1>8. CASE RunViaDriver(c)
  BY <1>8, GoesOn DEF RunViaDriver
<1>9. CASE RunClass(c)
  BY <1>9, GoesOn DEF RunClass
<1>10. CASE HearDriver(c)
  BY <1>10, GoesOn DEF HearDriver
<1>11. CASE ReadServerState(c)
  BY <1>11, GoesOn DEF ReadServerState, QueueTypeOK, ServerTypeOK
<1>12. CASE JudgeServerState(c)
  BY <1>12, GoesOn DEF JudgeServerState
<1> QED
  BY <1>1, <1>2, <1>3, <1>4, <1>5, <1>6, <1>7, <1>8, <1>9, <1>10, <1>11, <1>12 DEF Fronts, CommandFront

LEMMA FrontRest ==
    ASSUME QueueTypeOK, NEW c \in Clis, Fronts(c)
    PROVE  /\ UNCHANGED <<proc, lock, schema, quack, rows>>
           /\ state' \in {state, Nobody} /\ faults' \in 0 .. MaxFaults
           /\ drv' \in [Drivers -> DriverState]
           /\ \A d \in Drivers : Busy(d)' => Busy(d) /\ drv'[d] = drv[d]
<1> USE QueueAssumption DEF serverVars
<1>1. CASE RunClass(c)
  <2> DEFINE new == [drv[c] EXCEPT !.pc = "claim", !.left = MaxClaims]
  <2>1. drv[c] \in DriverState /\ MaxClaims \in 0 .. MaxClaims /\ c \in Drivers
    BY DEF QueueTypeOK, Drivers
  <2>2. new \in DriverState /\ new.pc = "claim"
    BY <2>1 DEF DriverState
  <2>3. drv' = [drv EXCEPT ![c] = new]
    BY <1>1 DEF RunClass
  <2> HIDE DEF new
  <2>4. drv' \in [Drivers -> DriverState] /\ \A d \in Drivers : Busy(d)' => Busy(d) /\ drv'[d] = drv[d]
    BY <2>1, <2>2, <2>3 DEF QueueTypeOK, Busy
  <2> QED
    BY <1>1, <2>4 DEF RunClass, QueueTypeOK
<1>2. CASE TimesOut(c)
  BY <1>2 DEF TimesOut, QueueTypeOK, Busy
<1>3. CASE JudgeServerState(c)
  BY <1>3 DEF JudgeServerState, QueueTypeOK, Busy
<1>4. CASE CommandFront(c) \/ ReadServerState(c) \/ CannotOpen(c) \/ CannotRun(c) \/ HearDriver(c)
  BY <1>4 DEF CommandFront, RefuseUnknownFlags, DryRun, ConsentGate, RunGenerated, RunViaDriver,
      ReadServerState, CannotOpen, CannotRun, HearDriver, QueueTypeOK, Busy
<1> QED
  BY <1>1, <1>2, <1>3, <1>4 DEF Fronts

LEMMA FrontInv ==
    ASSUME QueueTypeOK, ServerInv, QueueInv, NEW c \in Clis, Fronts(c)
    PROVE  QueueTypeOK' /\ ServerInv' /\ QueueInv'
<1>1. QueueTypeOK'
  BY FrontStep, FrontRest, ServerAssumption DEF QueueInv, QueueTypeOK, ServerTypeOK
<1>2. RowsInv' /\ BusyInv' /\ AloneInv'
  BY FrontRest DEF QueueInv, RowsInv, BusyInv, AloneInv, Busy
<1>3. NotYet' /\ ZeroMeansDone'
  BY FrontRest, FrontStep DEF QueueInv, NotYet, ZeroMeansDone
<1>4. ServerInv'
  BY FrontRest, ServerAssumption DEF ServerInv, OwnsFile, SchemaInv, Hears, NamedInv, Alive, At
<1> QED
  BY <1>1, <1>2, <1>3, <1>4 DEF QueueInv

\* Commands that reach a database: a row is added to one queue, or read.
LEMMA Inserts ==
    ASSUME QueueTypeOK, NEW c \in Clis, NEW f \in Files, Insert(c, f)
    PROVE  /\ cli' \in [Clis -> CliState] /\ cli'[c].pc # "idle"
           /\ cli'[c].exit = (IF cli'[c].pc = "exit" THEN 3 ELSE cli[c].exit)
           /\ \A b \in Clis \ {c} : cli'[b] = cli[b]
<1> DEFINE n == Len(rows[f]) + 1
           one == [cli[c] EXCEPT !.pc = "exit", !.id = n, !.exit = 3, !.seen = Nobody]
           two == [cli[c] EXCEPT !.pc = "run", !.id = n, !.seen = Nobody]
<1>1. n \in Nat
  BY DEF QueueTypeOK
<1>2. /\ one \in CliState /\ one.pc = "exit" /\ one.exit = 3
      /\ two \in CliState /\ two.pc = "run" /\ two.exit = cli[c].exit
  BY <1>1 DEF QueueTypeOK, CliState
<1>3. Step(c, one) \/ Step(c, two)
  BY DEF Insert
<1> HIDE DEF one, two
<1> QED
  BY <1>2, <1>3, Steps

LEMMA AskType ==
    ASSUME QueueTypeOK, NEW c \in Clis, NEW f \in Files, Ask(c, f)
    PROVE  rows' \in [Files -> Seq(Row)] /\ cli' \in [Clis -> CliState]
<1> DEFINE new == [status |-> "PENDING", runs |-> 0, good |-> FALSE]
<1>1. new \in Row /\ rows[f] \in Seq(Row)
  BY DEF Row, QueueTypeOK
<1>2. CASE Insert(c, f)
  <2>1. Append(rows[f], new) \in Seq(Row) /\ Len(rows[f]) + 1 \in Nat
    BY <1>1
  <2>2. cli' \in [Clis -> CliState]
    BY <1>2, Inserts
  <2> QED
    BY <1>2, <2>1, <2>2 DEF Insert, QueueTypeOK
<1>3. CASE CommandResult(c, f)
  BY <1>3, Exits DEF CommandResult, Verdict, QueueTypeOK
<1> QED
  BY <1>2, <1>3 DEF Ask

LEMMA AskInv ==
    ASSUME QueueTypeOK, QueueInv, NEW c \in Clis, NEW f \in Files, Ask(c, f), UNCHANGED drv,
           cli[c].pc \in {"open", "file"}
    PROVE  QueueInv'
<1> DEFINE new == [status |-> "PENDING", runs |-> 0, good |-> FALSE]
           n == Len(rows[f]) + 1
<1> USE ServerAssumption
<1>1. CASE cli[c].id = 0
  <2>1. /\ new \in Row /\ rows[f] \in Seq(Row)
        /\ rows' = [rows EXCEPT ![f] = Append(rows[f], new)]
    BY <1>1 DEF Row, QueueTypeOK, Ask, Insert
  <2>2. /\ DOMAIN rows'[f] = DOMAIN rows[f] \cup {n} /\ n \notin DOMAIN rows[f]
        /\ rows'[f][n] = new /\ \A i \in DOMAIN rows[f] : rows'[f][i] = rows[f][i]
    <3> HIDE DEF new
    <3>1. rows'[f] = Append(rows[f], new)
      BY <2>1 DEF QueueTypeOK
    <3> QED
      BY <2>1, <3>1, AddedRow
  <2>3. \A g \in Files \ {f} : rows'[g] = rows[g]
    BY <2>1 DEF QueueTypeOK
  <2>4. \A g \in Files : DOMAIN rows[g] \subseteq DOMAIN rows'[g]
                         /\ \A i \in DOMAIN rows[g] : rows'[g][i] = rows[g][i]
    BY <2>2, <2>3
  <2>5. RowsInv'
    BY <2>2, <2>3 DEF QueueInv, RowsInv
  <2>6. BusyInv' /\ AloneInv'
    BY <2>4 DEF QueueInv, BusyInv, AloneInv, Busy
  <2>7. /\ cli'[c].pc # "idle" /\ cli'[c].exit # 0 /\ (cli'[c].pc # "exit" => cli'[c].exit = 9)
        /\ \A b \in Clis \ {c} : cli'[b] = cli[b]
    BY <1>1, Inserts DEF Ask, QueueInv, NotYet
  <2>8. NotYet' /\ ZeroMeansDone'
    BY <2>4, <2>7 DEF QueueInv, NotYet, ZeroMeansDone
  <2> QED
    BY <2>5, <2>6, <2>8 DEF QueueInv
<1>2. CASE cli[c].id # 0
  <2>1. UNCHANGED rows /\ cli'[c].pc = "exit" /\ cli'[c].id = cli[c].id
        /\ \A b \in Clis \ {c} : cli'[b] = cli[b]
    BY <1>2, Exits DEF Ask, CommandResult, Verdict
  <2>2. cli'[c].exit = 0 => cli[c].id \in DOMAIN rows[f] /\ rows[f][cli[c].id].status = "DONE"
    BY <1>2, Exits DEF Ask, CommandResult, Verdict
  <2>3. RowsInv' /\ BusyInv' /\ AloneInv'
    BY <2>1 DEF QueueInv, RowsInv, BusyInv, AloneInv, Busy
  <2>4. NotYet' /\ ZeroMeansDone'
    BY <2>1, <2>2 DEF QueueInv, NotYet, ZeroMeansDone, RowsInv
  <2> QED
    BY <2>3, <2>4 DEF QueueInv
<1> QED
  BY <1>1, <1>2

\* A command opens a file that no server owns, and is no server.
LEMMA ReachType ==
    ASSUME QueueTypeOK, NEW c \in Clis, AskServer(c) \/ OpenFile(c) \/ AskFile(c)
    PROVE  QueueTypeOK'
<1> USE QueueAssumption, ServerAssumption
<1>1. CASE AskServer(c)
  BY <1>1, AskType DEF AskServer, serverVars, QueueTypeOK, ServerTypeOK
<1>2. CASE OpenFile(c)
  <2>1. ServerTypeOK'
    BY <1>2 DEF OpenFile, QueueTypeOK, ServerTypeOK
  <2> QED
    BY <1>2, <2>1, GoesOn DEF OpenFile, QueueTypeOK
<1>3. CASE AskFile(c)
  <2>1. ServerTypeOK'
    BY <1>3 DEF AskFile, Release, QueueTypeOK, ServerTypeOK
  <2> QED
    BY <1>3, <2>1, AskType DEF AskFile, QueueTypeOK
<1> QED
  BY <1>1, <1>2, <1>3

LEMMA ReachInv ==
    ASSUME QueueTypeOK, ServerInv, QueueInv, NEW c \in Clis,
           AskServer(c) \/ OpenFile(c) \/ AskFile(c)
    PROVE  ServerInv' /\ QueueInv'
<1> USE QueueAssumption, ServerAssumption
<1>1. CASE AskServer(c)
  <2>1. ServerInv'
    BY <1>1 DEF AskServer, serverVars, ServerInv, OwnsFile, SchemaInv, Hears, NamedInv, Alive, At
  <2> QED
    BY <1>1, <2>1, AskInv DEF AskServer
<1>2. CASE OpenFile(c)
  <2>1. OwnsFile'
    BY <1>2 DEF OpenFile, QueueTypeOK, ServerTypeOK, ServerInv, OwnsFile, Alive
  <2>2. SchemaInv' /\ Hears' /\ NamedInv'
    BY <1>2 DEF OpenFile, QueueTypeOK, ServerTypeOK, ServerInv, SchemaInv, Hears, NamedInv, Alive, At
  <2>3. /\ cli'[c].pc = "file" /\ cli'[c].id = cli[c].id /\ cli'[c].exit = cli[c].exit
        /\ cli[c].pc = "open" /\ \A b \in Clis \ {c} : cli'[b] = cli[b]
    BY <1>2, GoesOn DEF OpenFile
  <2>4. QueueInv'
    BY <1>2, <2>3 DEF OpenFile, QueueInv, RowsInv, BusyInv, AloneInv, Busy, NotYet, ZeroMeansDone
  <2> QED
    BY <2>1, <2>2, <2>4 DEF ServerInv
<1>3. CASE AskFile(c)
  <2>1. OwnsFile'
    BY <1>3 DEF AskFile, Release, QueueTypeOK, ServerTypeOK, ServerInv, OwnsFile, Alive
  <2>2. SchemaInv' /\ Hears' /\ NamedInv'
    BY <1>3 DEF AskFile, ServerInv, SchemaInv, Hears, NamedInv, Alive, At
  <2> QED
    BY <1>3, <2>1, <2>2, AskInv DEF AskFile, ServerInv
<1> QED
  BY <1>1, <1>2, <1>3

-------------------------------------------------------------------------------
(* The drivers.                                                             *)

\* What any step of a driver does to the drivers' states.
LEMMA DriverMoves ==
    ASSUME QueueTypeOK, NEW d \in Drivers, NEW new \in DriverState, Moves(d, new)
    PROVE  /\ drv' \in [Drivers -> DriverState] /\ drv'[d] = new
           /\ \A e \in Drivers \ {d} : drv'[e] = drv[e]
BY DEF Moves, QueueTypeOK

\* A row that says PENDING is nobody's.
LEMMA PendingIsFree ==
    ASSUME QueueInv, NEW i \in Claimable, NEW d \in Drivers, Busy(d)
    PROVE  drv[d].id # i
BY DEF QueueInv, BusyInv, Claimable

\* A row of the server's queue is rewritten.
LEMMA RowWritten ==
    ASSUME QueueTypeOK, NEW i \in DOMAIN rows[Db], NEW r \in Row, rows' = [rows EXCEPT ![Db][i] = r]
    PROVE  /\ rows' \in [Files -> Seq(Row)]
           /\ \A f \in Files : DOMAIN rows'[f] = DOMAIN rows[f]
           /\ \A f \in Files \ {Db} : rows'[f] = rows[f]
           /\ \A j \in DOMAIN rows[Db] : rows'[Db][j] = IF j = i THEN r ELSE rows[Db][j]
<1>1. rows[Db] \in Seq(Row) /\ rows' = [rows EXCEPT ![Db] = [rows[Db] EXCEPT ![i] = r]]
  BY ServerAssumption DEF QueueTypeOK
<1> QED
  BY <1>1, ChangedRow, ServerAssumption DEF QueueTypeOK

\* Whatever is written into a row that a driver may write: the rows of finished
\* commands do not change, so what the commands have read stays true.
LEMMA RowInv ==
    ASSUME QueueTypeOK, QueueInv, NEW i \in DOMAIN rows[Db], NEW r \in Row,
           rows' = [rows EXCEPT ![Db][i] = r], UNCHANGED cli,
           rows[Db][i].status \in {"PENDING", "RUNNING"}, r.runs <= 1,
           r.status = "PENDING" => r.runs = 0, r.status = "DONE" => r.runs = 1 /\ r.good
    PROVE  RowsInv' /\ NotYet' /\ ZeroMeansDone'
<1>1. RowsInv'
  BY RowWritten, ServerAssumption DEF QueueInv, RowsInv
<1>2. NotYet' /\ ZeroMeansDone'
  BY RowWritten, ServerAssumption DEF QueueInv, NotYet, ZeroMeansDone
<1> QED
  BY <1>1, <1>2

\* A driver that works on row i, or lets go of it, while no other driver has it.
LEMMA DriverWorks ==
    ASSUME QueueTypeOK, QueueInv, UNCHANGED cli,
           NEW i \in DOMAIN rows[Db], NEW r \in Row, rows' = [rows EXCEPT ![Db][i] = r],
           rows[Db][i].status \in {"PENDING", "RUNNING"}, r.runs <= 1,
           r.status = "PENDING" => r.runs = 0, r.status = "DONE" => r.runs = 1 /\ r.good,
           NEW d \in Drivers, NEW new \in DriverState, Moves(d, new),
           \A e \in Drivers \ {d} : Busy(e) => drv[e].id # i,
           new.pc \in {"execute", "finish"} =>
              /\ new.id = i /\ r.status = "RUNNING"
              /\ r.runs = (IF new.pc = "execute" THEN 0 ELSE 1)
    PROVE  rows' \in [Files -> Seq(Row)] /\ drv' \in [Drivers -> DriverState] /\ QueueInv'
<1>1. BusyInv'
  <2>1. ASSUME NEW e \in Drivers \ {d}, Busy(e)'
        PROVE  /\ drv'[e].id \in DOMAIN rows'[Db] /\ rows'[Db][drv'[e].id].status = "RUNNING"
               /\ rows'[Db][drv'[e].id].runs = (IF drv'[e].pc = "execute" THEN 0 ELSE 1)
    <3>1. drv'[e] = drv[e] /\ Busy(e)
      BY <2>1, DriverMoves DEF Busy
    <3> QED
      BY <3>1, RowWritten, ServerAssumption DEF QueueInv, BusyInv
  <2>2. ASSUME Busy(d)'
        PROVE  /\ drv'[d].id \in DOMAIN rows'[Db] /\ rows'[Db][drv'[d].id].status = "RUNNING"
               /\ rows'[Db][drv'[d].id].runs = (IF drv'[d].pc = "execute" THEN 0 ELSE 1)
    <3>1. drv'[d] = new /\ new.pc \in {"execute", "finish"}
      BY <2>2, DriverMoves DEF Busy
    <3>2. rows'[Db][i] = r /\ i \in DOMAIN rows'[Db]
      BY RowWritten, ServerAssumption
    <3> QED
      BY <3>1, <3>2
  <2> QED
    BY <2>1, <2>2 DEF BusyInv
<1>2. AloneInv'
  BY DriverMoves DEF QueueInv, AloneInv, Busy
<1> QED
  BY <1>1, <1>2, RowInv, RowWritten, DriverMoves DEF QueueInv

\* A driver that has no row in hand after its step, and writes none.
LEMMA Idles ==
    ASSUME QueueTypeOK, QueueInv, UNCHANGED <<rows, cli>>,
           NEW d \in Drivers, NEW new \in DriverState, Moves(d, new), new.pc \notin {"execute", "finish"}
    PROVE  drv' \in [Drivers -> DriverState] /\ QueueInv'
BY DriverMoves DEF QueueInv, RowsInv, BusyInv, AloneInv, Busy, NotYet, ZeroMeansDone

LEMMA Returning ==
    [pc |-> "done", id |-> 0, left |-> 0] \in DriverState
      /\ [pc |-> "dumped", id |-> 0, left |-> 0] \in DriverState
BY QueueAssumption DEF DriverState

LEMMA Claiming ==
    ASSUME QueueTypeOK, QueueInv, NEW i \in Claimable, UNCHANGED cli,
           rows' = [rows EXCEPT ![Db][i].status = "RUNNING"],
           NEW d \in Drivers, NEW new \in DriverState, Moves(d, new), ~Busy(d),
           new.pc # "finish", new.pc = "execute" => new.id = i
    PROVE  rows' \in [Files -> Seq(Row)] /\ drv' \in [Drivers -> DriverState] /\ QueueInv'
<1> DEFINE r == [rows[Db][i] EXCEPT !.status = "RUNNING"]
<1>1. i \in DOMAIN rows[Db] /\ rows[Db] \in Seq(Row) /\ rows[Db][i] \in Row
  BY ServerAssumption DEF Claimable, QueueTypeOK
<1>2. r \in Row /\ r.status = "RUNNING" /\ r.runs = 0 /\ rows[Db][i].status = "PENDING"
  BY <1>1, ServerAssumption DEF Claimable, QueueInv, RowsInv, Row
<1>3. rows' = [rows EXCEPT ![Db][i] = r]
  OBVIOUS
<1>4. \A e \in Drivers : Busy(e) => drv[e].id # i
  BY PendingIsFree
<1> HIDE DEF r
<1>5. /\ r.runs <= 1 /\ (r.status = "PENDING" => r.runs = 0)
      /\ (r.status = "DONE" => r.runs = 1 /\ r.good)
      /\ rows[Db][i].status \in {"PENDING", "RUNNING"}
      /\ (new.pc \in {"execute", "finish"} =>
            /\ new.id = i /\ r.status = "RUNNING"
            /\ r.runs = (IF new.pc = "execute" THEN 0 ELSE 1))
  BY <1>2
<1> QED
  BY <1>1, <1>2, <1>3, <1>4, <1>5, DriverWorks

\* A driver goes on with the row that it has, or lets go of it.
LEMMA Releases ==
    ASSUME QueueTypeOK, QueueInv, UNCHANGED cli,
           NEW i \in DOMAIN rows[Db], NEW r \in Row, rows' = [rows EXCEPT ![Db][i] = r],
           rows[Db][i].status = "RUNNING", r.runs \in {0, 1},
           r.status # "PENDING", r.status = "DONE" => r.runs = 1 /\ r.good,
           NEW d \in Drivers, NEW new \in DriverState, Moves(d, new),
           \A e \in Drivers \ {d} : Busy(e) => drv[e].id # i,
           \/ new.pc \notin {"execute", "finish"}
           \/ new.pc = "finish" /\ new.id = i /\ r.status = "RUNNING" /\ r.runs = 1
    PROVE  rows' \in [Files -> Seq(Row)] /\ drv' \in [Drivers -> DriverState] /\ QueueInv'
<1>1. /\ r.runs <= 1 /\ (r.status = "PENDING" => r.runs = 0)
      /\ (r.status = "DONE" => r.runs = 1 /\ r.good)
      /\ rows[Db][i].status \in {"PENDING", "RUNNING"}
      /\ (new.pc \in {"execute", "finish"} =>
            /\ new.id = i /\ r.status = "RUNNING"
            /\ r.runs = (IF new.pc = "execute" THEN 0 ELSE 1))
  OBVIOUS
<1> QED
  BY <1>1, DriverWorks

LEMMA DriverInv ==
    ASSUME QueueTypeOK, QueueInv, NEW d \in Drivers,
           Drain(d) \/ LoseClaim(d) \/ Dump(d) \/ (d = Job /\ StartJob)
    PROVE  rows' \in [Files -> Seq(Row)] /\ drv' \in [Drivers -> DriverState] /\ QueueInv'
<1>0. drv[d] \in DriverState /\ rows \in [Files -> Seq(Row)]
  BY DEF QueueTypeOK
<1>1. CASE d = Job /\ StartJob
  <2> DEFINE new == [drv[d] EXCEPT !.pc = "claim", !.left = MaxClaims]
  <2>0. MaxClaims \in 0 .. MaxClaims
    BY QueueAssumption
  <2>1. new \in DriverState /\ new.pc = "claim"
    BY <1>0, <2>0 DEF DriverState
  <2>2. Moves(d, new) /\ UNCHANGED <<rows, cli>>
    BY <1>1 DEF StartJob
  <2> HIDE DEF new
  <2> QED
    BY <1>0, <2>1, <2>2, Idles
<1>2. CASE Claim(d)
  <2>1. PICK i \in Claimable : /\ rows' = [rows EXCEPT ![Db][i].status = "RUNNING"]
                              /\ Moves(d, [drv[d] EXCEPT !.pc = "execute", !.id = i, !.left = @ - 1])
    BY <1>2 DEF Claim
  <2> DEFINE new == [drv[d] EXCEPT !.pc = "execute", !.id = i, !.left = @ - 1]
  <2>2. i \in Nat
    BY <1>0, ServerAssumption DEF Claimable
  <2>3. drv[d].left - 1 \in 0 .. MaxClaims
    BY <1>0, <1>2, QueueAssumption DEF DriverState, Claim
  <2>4. new \in DriverState /\ new.pc = "execute" /\ new.id = i
    BY <1>0, <2>2, <2>3 DEF DriverState
  <2>5. UNCHANGED cli /\ ~Busy(d)
    BY <1>2 DEF Claim, Busy
  <2> HIDE DEF new
  <2>6. Moves(d, new)
    BY <2>1 DEF new
  <2> QED
    BY <2>1, <2>4, <2>5, <2>6, Claiming
<1>3. CASE LoseClaim(d)
  <2>1. PICK i \in Claimable : rows' = [rows EXCEPT ![Db][i].status = "RUNNING"]
    BY <1>3 DEF LoseClaim
  <2>2. Moves(d, [pc |-> "done", id |-> 0, left |-> 0]) /\ UNCHANGED cli /\ ~Busy(d)
    BY <1>3 DEF LoseClaim, Returns, Busy
  <2> QED
    BY <2>1, <2>2, Returning, Claiming
<1>4. CASE Drained(d)
  BY <1>0, <1>4, Returning, Idles DEF Drained, Returns
<1>5. CASE Execute(d) \/ Dump(d) \/ Finish(d)
  <2> DEFINE i == drv[d].id
             old == rows[Db][i]
  <2>1. /\ i \in DOMAIN rows[Db] /\ old \in Row /\ old.status = "RUNNING"
        /\ old.runs = (IF drv[d].pc = "execute" THEN 0 ELSE 1)
        /\ \A e \in Drivers \ {d} : Busy(e) => drv[e].id # i
    <3>1. Busy(d)
      BY <1>5 DEF Execute, Dump, Finish, Busy
    <3>2. i \in DOMAIN rows[Db] /\ rows[Db] \in Seq(Row)
      BY <3>1, <1>0, ServerAssumption DEF QueueInv, BusyInv
    <3>3. old \in Row
      BY <3>2
    <3> QED
      BY <3>1, <3>2, <3>3 DEF QueueInv, BusyInv, AloneInv
  <2>2. UNCHANGED cli
    BY <1>5 DEF Execute, Dump, Finish
  <2>3. CASE Execute(d)
    <3>1. PICK good \in BOOLEAN :
             rows' = [rows EXCEPT ![Db][i].runs = @ + 1, ![Db][i].good = good]
      BY <2>3 DEF Execute
    <3> DEFINE r == [old EXCEPT !.runs = @ + 1, !.good = good]
               new == [drv[d] EXCEPT !.pc = "finish"]
    <3>0. drv[d].pc = "execute" /\ old.runs = 0
      BY <2>1, <2>3 DEF Execute
    <3>2. r \in Row /\ r.status = "RUNNING" /\ r.runs = 1
      <4> DEFINE mid == [old EXCEPT !.runs = @ + 1]
      <4> HIDE DEF old
      <4>1. old.runs + 1 = 1
        BY <3>0
      <4>2. mid \in Row /\ mid.status = old.status /\ mid.runs = 1
        BY <2>1, <4>1 DEF Row
      <4>3. r = [mid EXCEPT !.good = good]
        OBVIOUS
      <4> HIDE DEF mid, r
      <4>4. r \in Row /\ r.status = mid.status /\ r.runs = mid.runs
        BY <4>2, <4>3 DEF Row
      <4> QED
        BY <2>1, <4>2, <4>4
    <3>3. rows' = [rows EXCEPT ![Db][i] = r]
      BY <3>1, <1>0, <2>1, ServerAssumption
    <3>4. new \in DriverState /\ new.pc = "finish" /\ new.id = i /\ Moves(d, new)
      BY <1>0, <2>3 DEF DriverState, Execute
    <3> HIDE DEF r, new, old
    <3> QED
      BY <2>1, <2>2, <3>2, <3>3, <3>4, Releases DEF old
  <2>4. CASE Dump(d)
    <3>1. PICK n \in {0, 1} : rows' = [rows EXCEPT ![Db][i].runs = @ + n]
      BY <2>4 DEF Dump
    <3> DEFINE r == [old EXCEPT !.runs = @ + n]
    <3>2. r \in Row /\ r.status = "RUNNING" /\ r.runs = n
      BY <2>1, <2>4 DEF Row, Dump
    <3>3. rows' = [rows EXCEPT ![Db][i] = r]
      BY <3>1
    <3> DEFINE new == [pc |-> "dumped", id |-> 0, left |-> 0]
    <3>4. new \in DriverState /\ new.pc = "dumped" /\ Moves(d, new)
      BY <2>4, Returning DEF Dump, Returns
    <3> HIDE DEF r, new, old
    <3>5. r.runs \in {0, 1}
      BY <3>2
    <3> QED
      BY <2>1, <2>2, <3>2, <3>3, <3>4, <3>5, Releases DEF old
  <2>5. CASE Finish(d)
    <3> DEFINE new == [drv[d] EXCEPT !.pc = "claim", !.id = 0]
               said == IF old.good THEN "DONE" ELSE "ERROR"
               r == [old EXCEPT !.status = said]
    <3>1. new \in DriverState /\ new.pc = "claim" /\ Moves(d, new)
      BY <1>0, <2>5 DEF DriverState, Finish
    <3>2. r \in Row /\ r.status = said /\ r.runs = 1 /\ r.good = old.good
      BY <2>1, <2>5 DEF Row, Finish
    <3>3. rows' = rows \/ rows' = [rows EXCEPT ![Db][i] = r]
      BY <2>5 DEF Finish
    <3>4. CASE rows' = rows
      <4> HIDE DEF new
      <4> QED
        BY <3>1, <3>4, <1>0, <2>2, Idles
    <3>5. CASE rows' = [rows EXCEPT ![Db][i] = r]
      <4>1. r.status # "PENDING" /\ (r.status = "DONE" => r.good)
        BY <3>2
      <4> HIDE DEF new, r, old
      <4> QED
        BY <3>1, <3>2, <3>5, <4>1, <2>1, <2>2, Releases DEF old
    <3> QED
      BY <3>3, <3>4, <3>5
  <2> QED
    BY <1>5, <2>3, <2>4, <2>5
<1> QED
  BY <1>1, <1>2, <1>3, <1>4, <1>5 DEF Drain

-------------------------------------------------------------------------------
(* All together.                                                            *)

LEMMA QueueSteps ==
    ASSUME QueueTypeOK, ServerInv, QueueInv, [QueueNext]_vars
    PROVE  QueueTypeOK' /\ ServerInv' /\ QueueInv'
<1>1. CASE UNCHANGED vars
  BY <1>1 DEF vars, serverVars, queueVars, QueueTypeOK, ServerTypeOK, ServerInv, OwnsFile, SchemaInv,
      Hears, NamedInv, Alive, At, QueueInv, RowsInv, BusyInv, AloneInv, Busy, NotYet, ZeroMeansDone
<1>2. CASE ServerRun \/ ServerEnd
  <2>1. PICK s \in Servers : (ServerRuns(s) \/ ServerEnds(s)) /\ UNCHANGED queueVars
    BY <1>2 DEF ServerRun, ServerEnd
  <2>2. ServerTypeOK' /\ ServerInv'
    BY <2>1, ServerRunsType, ServerRunsInv DEF QueueTypeOK
  <2> QED
    BY <2>1, <2>2 DEF queueVars, QueueTypeOK, QueueInv, RowsInv, BusyInv, AloneInv, Busy, NotYet,
        ZeroMeansDone
<1>3. ASSUME NEW c \in Clis, Fronts(c)
      PROVE  QueueTypeOK' /\ ServerInv' /\ QueueInv'
  BY <1>3, FrontInv
<1>4. ASSUME NEW c \in Clis, AskServer(c) \/ OpenFile(c) \/ AskFile(c)
      PROVE  QueueTypeOK' /\ ServerInv' /\ QueueInv'
  BY <1>4, ReachType, ReachInv
<1>5. ASSUME NEW d \in Drivers, Drain(d) \/ LoseClaim(d) \/ Dump(d) \/ (d = Job /\ StartJob)
      PROVE  QueueTypeOK' /\ ServerInv' /\ QueueInv'
  <2>1. UNCHANGED <<serverVars, cli>> /\ faults' \in 0 .. MaxFaults
    <3>1. CASE Drain(d) \/ StartJob
      BY <3>1 DEF Drain, Claim, Drained, Execute, Finish, StartJob, QueueTypeOK
    <3>2. CASE LoseClaim(d) \/ Dump(d)
      BY <3>2, QueueAssumption DEF LoseClaim, Dump, QueueTypeOK
    <3> QED
      BY <1>5, <3>1, <3>2
  <2>2. ServerTypeOK' /\ ServerInv'
    BY <2>1 DEF serverVars, QueueTypeOK, ServerTypeOK, ServerInv, OwnsFile, SchemaInv, Hears, NamedInv,
        Alive, At
  <2>3. rows' \in [Files -> Seq(Row)] /\ drv' \in [Drivers -> DriverState] /\ QueueInv'
    BY <1>5, DriverInv
  <2> QED
    BY <2>1, <2>2, <2>3 DEF QueueTypeOK
<1> QED
  BY <1>1, <1>2, <1>3, <1>4, <1>5 DEF QueueNext, CliStep, Endpoint, DriverStep, Fault, Fronts, Drivers

LEMMA QueueAlways == QueueSpec => [](QueueTypeOK /\ ServerInv /\ QueueInv)
<1>1. ServerInit /\ QueueInit => QueueTypeOK /\ ServerInv /\ QueueInv
  BY QueueStart
<1>2. QueueTypeOK /\ ServerInv /\ QueueInv /\ [QueueNext]_vars =>
         QueueTypeOK' /\ ServerInv' /\ QueueInv'
  BY QueueSteps
<1> QED
  BY <1>1, <1>2, PTL DEF QueueSpec

\* The variables of the servers, the commands and the drivers keep their types.
THEOREM QueueTypeCorrect == QueueSpec => []QueueTypeOK
BY QueueAlways, PTL

\* Whatever number of servers follow each other, crash anywhere, also between a
\* migration and its record, and whatever commands read, judge and remove
\* server.json in between: a living server that it names listens, owns the
\* database and has migrated it.
THEOREM ServerListens == QueueSpec => []NamedServerListens
<1>1. QueueTypeOK /\ ServerInv => NamedServerListens
  BY DEF QueueTypeOK, ServerInv, OwnsFile, SchemaInv, NamedInv, NamedServerListens, Alive, At
<1> QED
  BY <1>1, QueueAlways, PTL

\* However many drivers drain one queue, and whatever dumps, lost answers and
\* timeouts there are: no command is run twice.
THEOREM CommandsRunOnce == QueueSpec => []RunsAtMostOnce
<1>1. QueueInv => RunsAtMostOnce
  BY DEF QueueInv, RowsInv, RunsAtMostOnce
<1> QED
  BY <1>1, QueueAlways, PTL

\* A queued command that ends with 0 has been run, once and well, whichever
\* database and server its row was written to and read from.
THEOREM ZeroIsDone == QueueSpec => []ZeroMeansDone
<1>1. QueueInv => ZeroMeansDone
  BY DEF QueueInv
<1> QED
  BY <1>1, QueueAlways, PTL

-------------------------------------------------------------------------------
LEMMA SameCount == \A S : Cur!Cardinality(S) = Cardinality(S)
BY DEF Cur!Cardinality, Cardinality

-------------------------------------------------------------------------------
(* The parts of the inductive invariant of the cursors.                     *)

CursorState ==
    [at : 0 .. Chunks, done : BOOLEAN, broken : BOOLEAN, size : Nat,
     ahead : {"none", "running", "ready", "failed"}, page : Seq(Nat),
     lock : Callers \cup {NoCaller}, dead : BOOLEAN]

CallState ==
    [pc : {"idle", "found", "produce", "get", "answer", "drop"}, h : 0 .. MaxHandles,
     page : Seq(Nat)]

\* Types; a handle that is held has been given out.
StateInv ==
    /\ counter \in 0 .. MaxHandles /\ open \subseteq 1 .. counter /\ ended \subseteq Cur!Handles
    /\ Cardinality(open) <= MaxOpen
    /\ cur \in [Cur!Handles -> CursorState]
    /\ call \in [Callers -> CallState]
    /\ sent \in [Cur!Handles -> Seq(Nat)]
    /\ \A t \in Callers : IF call[t].pc = "idle" THEN call[t].h = 0 ELSE call[t].h \in 1 .. counter

Inside(t, h) == call[t].h = h /\ call[t].pc \in {"produce", "get", "answer"}

\* Whoever is inside has the lock; the page ahead waits until he leaves, unless he
\* waits for it; a destroyed cursor has nobody.
TurnInv ==
    /\ \A t \in Callers, h \in Cur!Handles : Inside(t, h) => cur[h].lock = t
    /\ \A t \in Callers, h \in Cur!Handles :
          Inside(t, h) /\ call[t].pc # "get" => cur[h].ahead = "none"
    /\ \A h \in Cur!Handles : cur[h].dead =>
          /\ h <= counter /\ h \notin open /\ cur[h].ahead # "running"
          /\ \A t \in Callers : call[t].h # h

\* Page p goes on where the answers s end, and reaches to chunk n.
Follows(s, p, n) ==
    /\ Len(s) + Len(p) = n
    /\ \A i \in 1 .. Len(p) : p[i] = Len(s) + i

Answering(t, h) == call[t].h = h /\ call[t].pc = "answer"

\* What was read is what was sent and the one page on its way.
OrderAt(h) ==
    /\ \A i \in 1 .. Len(sent[h]) : sent[h][i] = i
    /\ cur[h].done => cur[h].at = Chunks
    /\ h \in ended => cur[h].done /\ Len(sent[h]) = Chunks
    /\ cur[h].ahead = "ready" => Follows(sent[h], cur[h].page, cur[h].at)
    /\ \A t \in Callers : Answering(t, h) => Follows(sent[h], call[t].page, cur[h].at)
    /\ cur[h].ahead # "ready" /\ (\A t \in Callers : ~Answering(t, h))
          => Len(sent[h]) = cur[h].at

OrderInv == \A h \in Cur!Handles : OrderAt(h)

CursorInv == StateInv /\ TurnInv /\ OrderInv

-------------------------------------------------------------------------------
(* Pages.                                                                   *)

\* ProducePage reads on from where the cursor is, and is done at the end only.
LEMMA PageGoesOn ==
    ASSUME Cur!CursorsAssumption, NEW c \in CursorState, c.done => c.at = Chunks
    PROVE  /\ Cur!Page(c) \in Seq(Nat)
           /\ \A i \in 1 .. Len(Cur!Page(c)) : Cur!Page(c)[i] = c.at + i
           /\ Cur!After(c) \in CursorState
           /\ Cur!After(c).at = c.at + Len(Cur!Page(c))
           /\ Cur!After(c).done => Cur!After(c).at = Chunks
           /\ Cur!After(c).lock = c.lock /\ Cur!After(c).dead = c.dead /\ Cur!After(c).ahead = c.ahead
<1>1. c.at \in 0 .. Chunks /\ c.size \in Nat /\ Chunks \in Nat /\ c.done \in BOOLEAN
  BY DEF CursorState, Cur!CursorsAssumption
<1>2. PICK n \in Nat : n = (IF c.done THEN 0
                            ELSE IF c.at + c.size > Chunks THEN Chunks - c.at ELSE c.size)
  BY <1>1
<1>3. Cur!Page(c) \in Seq(Nat) /\ Len(Cur!Page(c)) = n /\ \A i \in 1 .. n : Cur!Page(c)[i] = c.at + i
  <2>1. CASE c.done
    BY <1>2, <2>1 DEF Cur!Page
  <2>2. CASE ~c.done
    <3>1. Cur!Page(c) = [i \in 1 .. n |-> c.at + i]
      BY <1>2, <2>2 DEF Cur!Page
    <3> QED
      BY <1>1, <1>2, <3>1
  <2> QED
    BY <2>1, <2>2
<1>4. PICK m \in 0 .. Chunks : m = c.at + Len(Cur!Page(c))
  BY <1>1, <1>2, <1>3
<1>5. PICK d \in BOOLEAN : d = (c.done \/ c.at + c.size > Chunks)
  BY <1>1
<1>6. Cur!After(c) = [c EXCEPT !.at = m, !.done = d]
  BY <1>4, <1>5 DEF Cur!After
<1>7. Cur!After(c) \in CursorState /\ Cur!After(c).at = m /\ Cur!After(c).done = d
      /\ Cur!After(c).lock = c.lock /\ Cur!After(c).dead = c.dead /\ Cur!After(c).ahead = c.ahead
  BY <1>6 DEF CursorState
<1> QED
  BY <1>1, <1>2, <1>3, <1>4, <1>5, <1>7

LEMMA PageFollows ==
    ASSUME Cur!CursorsAssumption, NEW c \in CursorState, c.done => c.at = Chunks,
           NEW s \in Seq(Nat), Len(s) = c.at
    PROVE  Follows(s, Cur!Page(c), Cur!After(c).at)
BY PageGoesOn DEF Follows

\* An answer that carries the page on its way leaves the answers in order.
LEMMA AnswerInOrder ==
    ASSUME NEW s \in Seq(Nat), NEW p \in Seq(Nat), NEW n \in Nat, Follows(s, p, n),
           \A i \in 1 .. Len(s) : s[i] = i
    PROVE  s \o p \in Seq(Nat) /\ Len(s \o p) = n /\ \A i \in 1 .. Len(s \o p) : (s \o p)[i] = i
<1>1. s \o p \in Seq(Nat) /\ Len(s \o p) = Len(s) + Len(p)
  BY ConcatProperties
<1>2. ASSUME NEW i \in 1 .. Len(s) + Len(p)
      PROVE  (s \o p)[i] = i
  <2>1. CASE i <= Len(s)
    BY <2>1, ConcatProperties
  <2>2. CASE i > Len(s)
    <3>1. i - Len(s) \in 1 .. Len(p)
      BY <2>2, LenProperties
    <3>2. (s \o p)[i] = p[i - Len(s)]
      BY <2>2, ConcatProperties
    <3>3. p[i - Len(s)] = Len(s) + (i - Len(s))
      BY <3>1 DEF Follows
    <3> QED
      BY <3>2, <3>3, LenProperties
  <2> QED
    BY <2>1, <2>2, LenProperties
<1> QED
  BY <1>1, <1>2 DEF Follows

-------------------------------------------------------------------------------
(* One lemma for each operation of the cursors.                             *)

\* A handle whose cursor and answers stay, and whose callers stay or neither come
\* with an answer nor go with one, keeps its order.
LEMMA Elsewhere ==
    ASSUME NEW h, OrderAt(h), cur'[h] = cur[h], sent'[h] = sent[h], h \in ended' => h \in ended,
           \A t \in Callers : call'[t] = call[t] \/ (~Answering(t, h) /\ ~Answering(t, h)')
    PROVE  OrderAt(h)'
BY DEF OrderAt, Answering

LEMMA OwnState ==
    ASSUME Cur!CursorsAssumption, StateInv, NEW t \in Callers, call[t].pc # "idle"
    PROVE  /\ call[t].h \in Cur!Handles /\ call[t].h \in 1 .. counter
           /\ cur[call[t].h] \in CursorState /\ call[t] \in CallState
           /\ sent[call[t].h] \in Seq(Nat)
<1>1. call[t].h \in 1 .. counter /\ counter \in 0 .. MaxHandles /\ MaxHandles \in Nat
  BY DEF StateInv, Cur!CursorsAssumption
<1>2. call[t].h \in Cur!Handles
  BY <1>1 DEF Cur!Handles
<1> QED
  BY <1>1, <1>2 DEF StateInv

\* A caller is the only one inside.
LEMMA AloneInside ==
    ASSUME TurnInv, NEW h \in Cur!Handles, NEW t \in Callers, NEW u \in Callers,
           Inside(t, h), Inside(u, h)
    PROVE  t = u
BY DEF TurnInv

LEMMA OpenStep ==
    ASSUME Cur!CursorsAssumption, CursorInv, NEW t \in Callers, Cur!OpenCursor(t)
    PROVE  CursorInv'
<1>1. counter \in Nat /\ counter' = counter + 1 /\ counter' \in 0 .. MaxHandles
      /\ open' = open \cup {counter + 1} /\ open \subseteq 1 .. counter
      /\ Cardinality(open) < MaxOpen /\ MaxOpen \in Nat
  BY SameCount DEF Cur!OpenCursor, CursorInv, StateInv, Cur!CursorsAssumption
<1>2. Cardinality(open') <= MaxOpen
  <2>1. IsFiniteSet(1 .. counter)
    BY <1>1, FS_Interval
  <2>2. IsFiniteSet(open)
    BY <1>1, <2>1, FS_Subset
  <2>3. counter + 1 \notin open
    BY <1>1
  <2>4. Cardinality(open') = Cardinality(open) + 1 /\ Cardinality(open) \in Nat
    BY <1>1, <2>2, <2>3, FS_AddElement, FS_CardinalityType
  <2> QED
    BY <1>1, <2>4
<1>3. StateInv'
  BY <1>1, <1>2 DEF Cur!OpenCursor, CursorInv, StateInv
<1>4. cur' = cur /\ call' = call /\ sent' = sent /\ ended' = ended
  BY DEF Cur!OpenCursor
<1>5. TurnInv'
  <2>1. \A h \in Cur!Handles : cur[h].dead => h <= counter' /\ h \notin open'
    BY <1>1 DEF CursorInv, TurnInv, Cur!Handles
  <2> QED
    BY <1>4, <2>1 DEF CursorInv, TurnInv, Inside
<1>6. OrderInv'
  BY <1>4 DEF CursorInv, OrderInv, OrderAt, Answering
<1> QED
  BY <1>3, <1>5, <1>6 DEF CursorInv

\* Fetch, and CloseCursor: a caller takes hold of a handle of the map.
LEMMA HoldStep ==
    ASSUME Cur!CursorsAssumption, CursorInv, NEW t \in Callers, Cur!Fetch(t) \/ Cur!CloseCursor(t)
    PROVE  CursorInv'
<1>1. PICK h \in open, pc \in {"found", "drop"} :
         call' = [call EXCEPT ![t] = [Cur!Idle EXCEPT !.pc = pc, !.h = h]]
  BY DEF Cur!Fetch, Cur!CloseCursor
<1>2. PICK f : f = [Cur!Idle EXCEPT !.pc = pc, !.h = h]
  OBVIOUS
<1>3. h \in 1 .. counter /\ h \in 0 .. MaxHandles /\ counter \in 0 .. MaxHandles /\ MaxHandles \in Nat
  BY DEF CursorInv, StateInv, Cur!CursorsAssumption
<1>4. f.pc = pc /\ f.h = h /\ f \in CallState
  <2>1. Cur!Idle \in CallState
    BY <1>3, EmptySeq DEF Cur!Idle, CallState
  <2> QED
    BY <1>2, <1>3, <2>1 DEF CallState
<1>5. open' \subseteq open /\ UNCHANGED <<counter, cur, sent, ended>> /\ call[t].pc = "idle"
  BY DEF Cur!Fetch, Cur!CloseCursor
<1>6. call \in [Callers -> CallState] /\ call'[t] = f /\ \A u \in Callers \ {t} : call'[u] = call[u]
  BY <1>1, <1>2 DEF CursorInv, StateInv
<1>7. StateInv'
  <2>1. Cardinality(open') <= MaxOpen
    <3>1. IsFiniteSet(1 .. counter) /\ open \subseteq 1 .. counter
      BY <1>3, FS_Interval DEF CursorInv, StateInv
    <3>2. IsFiniteSet(open)
      BY <3>1, FS_Subset
    <3>3. Cardinality(open') <= Cardinality(open) /\ IsFiniteSet(open')
      BY <1>5, <3>2, FS_Subset
    <3>4. Cardinality(open') \in Nat /\ Cardinality(open) \in Nat
      BY <3>2, <3>3, FS_CardinalityType
    <3> QED
      BY <3>3, <3>4 DEF CursorInv, StateInv, Cur!CursorsAssumption
  <2>2. call' \in [Callers -> CallState]
    BY <1>1, <1>2, <1>4, <1>6
  <2> QED
    BY <1>3, <1>4, <1>5, <1>6, <2>1, <2>2 DEF CursorInv, StateInv
<1>8. TurnInv'
  <2>1. \A u \in Callers, g \in Cur!Handles : Inside(u, g)' => Inside(u, g) /\ call'[u].pc = call[u].pc
    BY <1>4, <1>6 DEF Inside
  <2>2. ~cur[h].dead
    BY <1>3 DEF CursorInv, TurnInv, Cur!Handles
  <2>3. \A g \in Cur!Handles : cur[g].dead => \A u \in Callers : call'[u].h # g
    BY <1>4, <1>6, <2>2 DEF CursorInv, TurnInv
  <2> QED
    BY <1>5, <2>1, <2>3 DEF CursorInv, TurnInv
<1>9. OrderInv'
  <2>1. \A u \in Callers, g \in Cur!Handles :
           call'[u] = call[u] \/ (~Answering(u, g) /\ ~Answering(u, g)')
    BY <1>4, <1>5, <1>6 DEF Answering
  <2> QED
    BY <1>5, <2>1, Elsewhere DEF CursorInv, OrderInv
<1> QED
  BY <1>7, <1>8, <1>9 DEF CursorInv

\* A caller goes on with its handle, and changes its cursor only.
CursorMoves(t, f, h, c) ==
    /\ f \in CallState /\ f.h = h /\ f.pc # "idle"
    /\ call'[t] = f /\ \A u \in Callers \ {t} : call'[u] = call[u]
    /\ c \in CursorState
    /\ cur'[h] = c /\ \A g \in Cur!Handles \ {h} : cur'[g] = cur[g]

LEMMA StateMoves ==
    ASSUME Cur!CursorsAssumption, StateInv, NEW t \in Callers, call[t].pc # "idle",
           NEW f \in CallState, f.h = call[t].h, f.pc # "idle", call' = [call EXCEPT ![t] = f],
           NEW c \in CursorState, NEW h, h = call[t].h, cur' = [cur EXCEPT ![h] = c],
           UNCHANGED <<open, counter>>, sent' \in [Cur!Handles -> Seq(Nat)], ended' \subseteq Cur!Handles
    PROVE  StateInv' /\ CursorMoves(t, f, h, c)
<1>1. h \in Cur!Handles /\ h \in 1 .. counter
  BY OwnState
<1>2. call' \in [Callers -> CallState] /\ cur' \in [Cur!Handles -> CursorState]
  BY <1>1 DEF StateInv
<1>3. CursorMoves(t, f, h, c)
  BY <1>1 DEF StateInv, CursorMoves
<1> QED
  BY <1>1, <1>2, <1>3 DEF StateInv, CursorMoves

\* Turns: the caller is inside alone, or waited for the lock; it is inside and has
\* the lock, or has left it.
LEMMA TurnMoves ==
    ASSUME Cur!CursorsAssumption, CursorInv, NEW t \in Callers, NEW f, NEW h \in Cur!Handles, NEW c,
           CursorMoves(t, f, h, c), UNCHANGED <<open, counter>>,
           call[t].h = h, c.dead = cur[h].dead,
           Inside(t, h) \/ cur[h].lock = NoCaller,
           f.pc \in {"produce", "get", "answer"} => c.lock = t,
           f.pc \in {"produce", "answer"} => c.ahead = "none"
    PROVE  TurnInv'
<1>1. \A u \in Callers : Inside(u, h) => u = t
  BY DEF CursorInv, TurnInv, Cur!CursorsAssumption
<1>2. ~cur[h].dead
  BY DEF CursorInv, TurnInv
<1>3. ASSUME NEW u \in Callers, NEW g \in Cur!Handles, Inside(u, g)'
      PROVE  cur'[g].lock = u /\ (call'[u].pc # "get" => cur'[g].ahead = "none")
  <2>1. CASE u = t
    BY <1>3, <2>1 DEF CursorMoves, Inside
  <2>2. CASE u # t
    <3>1. Inside(u, g) /\ call'[u].pc = call[u].pc
      BY <1>3, <2>2 DEF CursorMoves, Inside
    <3>2. g # h
      BY <1>1, <2>2, <3>1
    <3> QED
      BY <3>1, <3>2 DEF CursorMoves, CursorInv, TurnInv
  <2> QED
    BY <2>1, <2>2
<1>4. ASSUME NEW g \in Cur!Handles, cur'[g].dead
      PROVE  /\ g <= counter' /\ g \notin open' /\ cur'[g].ahead # "running"
             /\ \A u \in Callers : call'[u].h # g
  <2>1. g # h
    BY <1>2, <1>4 DEF CursorMoves
  <2>2. cur'[g] = cur[g] /\ \A u \in Callers : call'[u].h = call[u].h
    BY <2>1 DEF CursorMoves
  <2> QED
    BY <1>4, <2>2 DEF CursorInv, TurnInv
<1> QED
  BY <1>3, <1>4 DEF TurnInv

LEMMA OrderMoves ==
    ASSUME CursorInv, NEW t \in Callers, NEW f, NEW h \in Cur!Handles, NEW c, CursorMoves(t, f, h, c),
           call[t].h = h, \A g \in Cur!Handles \ {h} : sent'[g] = sent[g] /\ (g \in ended' => g \in ended),
           OrderAt(h)'
    PROVE  OrderInv'
<1>1. SUFFICES ASSUME NEW g \in Cur!Handles \ {h} PROVE OrderAt(g)'
  BY DEF OrderInv
<1>2. \A u \in Callers : call'[u] = call[u] \/ (~Answering(u, g) /\ ~Answering(u, g)')
  BY DEF CursorMoves, Answering
<1>3. OrderAt(g) /\ cur'[g] = cur[g]
  BY DEF CursorInv, OrderInv, CursorMoves
<1> QED
  BY <1>2, <1>3, Elsewhere

LEMMA EnterStep ==
    ASSUME Cur!CursorsAssumption, CursorInv, NEW t \in Callers, Cur!Enter(t)
    PROVE  CursorInv'
<1>1. PICK h : h = call[t].h
  OBVIOUS
<1>2. /\ call[t].pc = "found" /\ cur[h].lock = NoCaller /\ h \in Cur!Handles
      /\ cur[h] \in CursorState /\ call[t] \in CallState /\ OrderAt(h)
  BY <1>1, OwnState DEF Cur!Enter, CursorInv, OrderInv
<1>3. PICK n \in {1, 2} :
         cur' = [cur EXCEPT ![h] =
                   [@ EXCEPT !.lock = t, !.size = IF cur[h].size = 0 THEN n ELSE cur[h].size]]
  BY <1>1 DEF Cur!Enter
<1>4. PICK k \in Nat : k = (IF cur[h].size = 0 THEN n ELSE cur[h].size)
  BY <1>2 DEF CursorState
<1>5. PICK c : c = [cur[h] EXCEPT !.lock = t, !.size = k]
  OBVIOUS
<1>6. PICK pc : pc = (IF cur[h].ahead = "none" THEN "produce" ELSE "get")
  OBVIOUS
<1>7. PICK f : f = [call[t] EXCEPT !.pc = pc]
  OBVIOUS
<1>8. c \in CursorState /\ c.lock = t /\ c.ahead = cur[h].ahead /\ c.dead = cur[h].dead
      /\ c.done = cur[h].done /\ c.at = cur[h].at /\ c.page = cur[h].page
  BY <1>2, <1>4, <1>5 DEF CursorState
<1>9. f \in CallState /\ f.h = h /\ f.pc = pc /\ f.pc \in {"produce", "get"}
      /\ (f.pc = "produce" => cur[h].ahead = "none")
  BY <1>1, <1>2, <1>6, <1>7 DEF CallState
<1>10. call' = [call EXCEPT ![t] = f] /\ cur' = [cur EXCEPT ![h] = c]
  <2>1. cur' = [cur EXCEPT ![h] = c]
    BY <1>3, <1>4, <1>5
  <2>2. call' = [call EXCEPT ![t] = [call[t] EXCEPT !.pc = pc]]
    BY <1>1, <1>6 DEF Cur!Enter, Cur!Goes
  <2> QED
    BY <1>7, <2>1, <2>2
<1>11. UNCHANGED <<open, counter, sent, ended>> /\ sent \in [Cur!Handles -> Seq(Nat)]
       /\ ended \subseteq Cur!Handles
  BY DEF Cur!Enter, CursorInv, StateInv
<1>12. StateInv' /\ CursorMoves(t, f, h, c)
  BY <1>1, <1>2, <1>8, <1>9, <1>10, <1>11, StateMoves DEF CursorInv
<1>13. TurnInv'
  BY <1>1, <1>2, <1>8, <1>9, <1>11, <1>12, TurnMoves
<1>14. OrderAt(h)'
  <2>1. \A u \in Callers : Answering(u, h)' => Answering(u, h) /\ call'[u] = call[u]
    BY <1>9, <1>12 DEF CursorMoves, Answering
  <2>2. \A u \in Callers : Answering(u, h) => Answering(u, h)'
    BY <1>2, <1>12 DEF CursorMoves, Answering
  <2>3. cur'[h] = c
    BY <1>12 DEF CursorMoves
  <2> QED
    BY <1>2, <1>8, <1>11, <2>1, <2>2, <2>3 DEF OrderAt
<1>15. OrderInv'
  BY <1>1, <1>2, <1>11, <1>12, <1>14, OrderMoves
<1> QED
  BY <1>12, <1>13, <1>15 DEF CursorInv

\* Nobody answers while somebody else is inside.
LEMMA NoOtherAnswer ==
    ASSUME CursorInv, NEW t \in Callers, NEW h \in Cur!Handles, Inside(t, h)
    PROVE  \A u \in Callers : Answering(u, h) => u = t
BY AloneInside DEF CursorInv, Answering, Inside

\* Between two pages, what was sent is what was read.
LEMMA AllSent ==
    ASSUME CursorInv, NEW t \in Callers, NEW h \in Cur!Handles, Inside(t, h),
           call[t].pc # "answer", cur[h].ahead # "ready"
    PROVE  Len(sent[h]) = cur[h].at
<1>1. \A u \in Callers : ~Answering(u, h)
  BY NoOtherAnswer DEF Answering
<1> QED
  BY <1>1 DEF CursorInv, OrderInv, OrderAt

LEMMA ProduceStep ==
    ASSUME Cur!CursorsAssumption, CursorInv, NEW t \in Callers, Cur!Produce(t)
    PROVE  CursorInv'
<1>1. PICK h : h = call[t].h
  OBVIOUS
<1>2. /\ call[t].pc = "produce" /\ h \in Cur!Handles /\ Inside(t, h)
      /\ cur[h] \in CursorState /\ call[t] \in CallState /\ OrderAt(h)
      /\ sent[h] \in Seq(Nat)
  BY <1>1, OwnState DEF Cur!Produce, CursorInv, OrderInv, Inside
<1>3. cur[h].ahead = "none" /\ Len(sent[h]) = cur[h].at
  BY <1>2, AllSent DEF CursorInv, TurnInv
<1>4. UNCHANGED <<open, counter, sent, ended>> /\ sent \in [Cur!Handles -> Seq(Nat)]
      /\ ended \subseteq Cur!Handles
  BY DEF Cur!Produce, CursorInv, StateInv
<1>5. CASE /\ call' = [call EXCEPT ![t] = [@ EXCEPT !.pc = "answer", !.page = Cur!Page(cur[h])]]
           /\ cur' = [cur EXCEPT ![h] = Cur!After(@)]
  <2>1. PICK p : p = Cur!Page(cur[h])
    OBVIOUS
  <2>2. PICK c : c = Cur!After(cur[h])
    OBVIOUS
  <2>3. PICK f : f = [call[t] EXCEPT !.pc = "answer", !.page = p]
    OBVIOUS
  <2>4. /\ c \in CursorState /\ p \in Seq(Nat)
        /\ c.done => c.at = Chunks
        /\ c.lock = cur[h].lock /\ c.dead = cur[h].dead /\ c.ahead = "none"
        /\ Follows(sent[h], p, c.at)
    BY <1>2, <1>3, <2>1, <2>2, PageGoesOn, PageFollows DEF OrderAt
  <2>5. f \in CallState /\ f.h = h /\ f.pc = "answer" /\ f.page = p
    BY <1>1, <1>2, <2>3, <2>4 DEF CallState
  <2>6. StateInv' /\ CursorMoves(t, f, h, c)
    BY <1>1, <1>2, <1>4, <1>5, <2>1, <2>2, <2>3, <2>4, <2>5, StateMoves DEF CursorInv
  <2>7. c.lock = t
    BY <1>2, <2>4 DEF CursorInv, TurnInv
  <2>8. TurnInv'
    BY <1>1, <1>2, <1>4, <2>4, <2>5, <2>6, <2>7, TurnMoves
  <2>9. OrderAt(h)'
    <3>1. \A u \in Callers : Answering(u, h)' => u = t
      BY <1>2, <2>6, NoOtherAnswer DEF CursorMoves, Answering
    <3>2. Answering(t, h)'
      BY <2>5, <2>6 DEF CursorMoves, Answering
    <3>3. cur'[h] = c /\ call'[t].page = p /\ sent'[h] = sent[h] /\ ended' = ended
      BY <1>4, <2>5, <2>6 DEF CursorMoves
    <3>4. h \in ended => c.done /\ Len(sent[h]) = Chunks
      <4>1. cur[h].done => c.done
        BY <1>2, <2>2 DEF Cur!After, CursorState
      <4> QED
        BY <1>2, <4>1 DEF OrderAt
    <3> QED
      BY <1>2, <2>4, <3>1, <3>2, <3>3, <3>4 DEF OrderAt
  <2>10. OrderInv'
    BY <1>1, <1>2, <1>4, <2>6, <2>9, OrderMoves
  <2> QED
    BY <2>6, <2>8, <2>10 DEF CursorInv
<1>6. CASE /\ cur' = [cur EXCEPT ![h] = [Cur!Failed(@) EXCEPT !.ahead = "none", !.lock = NoCaller]]
           /\ Cur!Goes(t, "drop")
  <2>1. PICK c : c = [Cur!Failed(cur[h]) EXCEPT !.ahead = "none", !.lock = NoCaller]
    OBVIOUS
  <2>2. PICK f : f = [call[t] EXCEPT !.pc = "drop"]
    OBVIOUS
  <2>3. /\ c \in CursorState /\ c.lock = NoCaller /\ c.dead = cur[h].dead /\ c.ahead = "none"
        /\ c.done = cur[h].done /\ c.at = cur[h].at
    <3>1. PICK e : e = [cur[h] EXCEPT !.broken = TRUE, !.ahead = "failed"]
      OBVIOUS
    <3>2. e \in CursorState /\ e.dead = cur[h].dead /\ e.done = cur[h].done /\ e.at = cur[h].at
      BY <1>2, <3>1 DEF CursorState
    <3>3. c = [e EXCEPT !.ahead = "none", !.lock = NoCaller]
      BY <2>1, <3>1 DEF Cur!Failed
    <3> QED
      BY <3>2, <3>3 DEF CursorState
  <2>4. f \in CallState /\ f.h = h /\ f.pc = "drop"
    BY <1>1, <1>2, <2>2 DEF CallState
  <2>5. StateInv' /\ CursorMoves(t, f, h, c)
    BY <1>1, <1>2, <1>4, <1>6, <2>1, <2>2, <2>3, <2>4, StateMoves DEF CursorInv, Cur!Goes
  <2>6. TurnInv'
    BY <1>1, <1>2, <1>4, <2>3, <2>4, <2>5, TurnMoves
  <2>7. OrderAt(h)'
    <3>1. \A u \in Callers : ~Answering(u, h)'
      BY <1>2, <2>4, <2>5, NoOtherAnswer DEF CursorMoves, Answering
    <3>2. cur'[h] = c /\ sent'[h] = sent[h] /\ ended' = ended
      BY <1>4, <2>5 DEF CursorMoves
    <3> QED
      BY <1>2, <1>3, <2>3, <3>1, <3>2 DEF OrderAt
  <2>8. OrderInv'
    BY <1>1, <1>2, <1>4, <2>5, <2>7, OrderMoves
  <2> QED
    BY <2>5, <2>6, <2>8 DEF CursorInv
<1> QED
  BY <1>1, <1>5, <1>6 DEF Cur!Produce

LEMMA GetStep ==
    ASSUME Cur!CursorsAssumption, CursorInv, NEW t \in Callers, Cur!Get(t)
    PROVE  CursorInv'
<1>1. PICK h : h = call[t].h
  OBVIOUS
<1>2. /\ call[t].pc = "get" /\ h \in Cur!Handles /\ Inside(t, h)
      /\ cur[h] \in CursorState /\ call[t] \in CallState /\ OrderAt(h)
      /\ sent[h] \in Seq(Nat) /\ cur[h].page \in Seq(Nat)
  BY <1>1, OwnState DEF Cur!Get, CursorInv, OrderInv, Inside, CursorState
<1>3. cur[h].ahead = "ready" \/ cur[h].ahead = "failed"
  BY <1>1 DEF Cur!Get, Cur!Ready
<1>4. UNCHANGED <<open, counter, sent, ended>> /\ sent \in [Cur!Handles -> Seq(Nat)]
      /\ ended \subseteq Cur!Handles
  BY DEF Cur!Get, CursorInv, StateInv
<1>5. \A u \in Callers : ~Answering(u, h)
  BY <1>2, NoOtherAnswer DEF Answering
<1>6. CASE cur[h].ahead = "failed"
  <2>1. PICK c : c = [cur[h] EXCEPT !.ahead = "none", !.lock = NoCaller]
    OBVIOUS
  <2>2. PICK f : f = [call[t] EXCEPT !.pc = "drop"]
    OBVIOUS
  <2>3. /\ c \in CursorState /\ c.lock = NoCaller /\ c.dead = cur[h].dead /\ c.ahead = "none"
        /\ c.done = cur[h].done /\ c.at = cur[h].at
    BY <1>2, <2>1 DEF CursorState
  <2>4. f \in CallState /\ f.h = h /\ f.pc = "drop"
    BY <1>1, <1>2, <2>2 DEF CallState
  <2>5. call' = [call EXCEPT ![t] = f] /\ cur' = [cur EXCEPT ![h] = c]
    BY <1>1, <1>6, <2>1, <2>2 DEF Cur!Get, Cur!Goes
  <2>6. StateInv' /\ CursorMoves(t, f, h, c)
    BY <1>1, <1>2, <1>4, <2>3, <2>4, <2>5, StateMoves DEF CursorInv
  <2>7. TurnInv'
    BY <1>1, <1>2, <1>4, <2>3, <2>4, <2>6, TurnMoves
  <2>8. OrderAt(h)'
    <3>1. \A u \in Callers : ~Answering(u, h)'
      BY <1>5, <2>4, <2>6 DEF CursorMoves, Answering
    <3>2. cur'[h] = c /\ sent'[h] = sent[h] /\ ended' = ended
      BY <1>4, <2>6 DEF CursorMoves
    <3> QED
      BY <1>2, <1>5, <1>6, <2>3, <3>1, <3>2 DEF OrderAt
  <2>9. OrderInv'
    BY <1>1, <1>2, <1>4, <2>6, <2>8, OrderMoves
  <2> QED
    BY <2>6, <2>7, <2>9 DEF CursorInv
<1>7. CASE cur[h].ahead = "ready"
  <2>1. PICK c : c = [cur[h] EXCEPT !.ahead = "none", !.page = <<>>]
    OBVIOUS
  <2>2. PICK p : p = cur[h].page
    OBVIOUS
  <2>3. PICK f : f = [call[t] EXCEPT !.pc = "answer", !.page = p]
    OBVIOUS
  <2>4. /\ c \in CursorState /\ c.lock = cur[h].lock /\ c.dead = cur[h].dead /\ c.ahead = "none"
        /\ c.done = cur[h].done /\ c.at = cur[h].at
    BY <1>2, <2>1, EmptySeq DEF CursorState
  <2>5. f \in CallState /\ f.h = h /\ f.pc = "answer" /\ f.page = p
    BY <1>1, <1>2, <2>2, <2>3 DEF CallState
  <2>6. call' = [call EXCEPT ![t] = f] /\ cur' = [cur EXCEPT ![h] = c]
    BY <1>1, <1>7, <2>1, <2>2, <2>3 DEF Cur!Get
  <2>7. StateInv' /\ CursorMoves(t, f, h, c)
    BY <1>1, <1>2, <1>4, <2>4, <2>5, <2>6, StateMoves DEF CursorInv
  <2>8. c.lock = t
    BY <1>2, <2>4 DEF CursorInv, TurnInv
  <2>9. TurnInv'
    BY <1>1, <1>2, <1>4, <2>4, <2>5, <2>7, <2>8, TurnMoves
  <2>10. OrderAt(h)'
    <3>1. \A u \in Callers : Answering(u, h)' => u = t
      BY <1>5, <2>7 DEF CursorMoves, Answering
    <3>2. Answering(t, h)'
      BY <2>5, <2>7 DEF CursorMoves, Answering
    <3>3. cur'[h] = c /\ call'[t].page = p /\ sent'[h] = sent[h] /\ ended' = ended
      BY <1>4, <2>5, <2>7 DEF CursorMoves
    <3>4. Follows(sent[h], p, c.at)
      BY <1>2, <1>7, <2>2, <2>4 DEF OrderAt
    <3> QED
      BY <1>2, <2>4, <3>1, <3>2, <3>3, <3>4 DEF OrderAt
  <2>11. OrderInv'
    BY <1>1, <1>2, <1>4, <2>7, <2>10, OrderMoves
  <2> QED
    BY <2>7, <2>9, <2>11 DEF CursorInv
<1> QED
  BY <1>3, <1>6, <1>7

LEMMA AnswerStep ==
    ASSUME Cur!CursorsAssumption, CursorInv, NEW t \in Callers, Cur!Answer(t)
    PROVE  CursorInv'
<1>1. PICK h : h = call[t].h
  OBVIOUS
<1>2. /\ call[t].pc = "answer" /\ h \in Cur!Handles /\ Inside(t, h) /\ Answering(t, h)
      /\ cur[h] \in CursorState /\ call[t] \in CallState /\ OrderAt(h)
      /\ sent[h] \in Seq(Nat) /\ call[t].page \in Seq(Nat) /\ cur[h].at \in Nat
  BY <1>1, OwnState DEF Cur!Answer, CursorInv, OrderInv, Inside, Answering, CallState, CursorState
<1>3. PICK p : p = call[t].page
  OBVIOUS
<1>4. PICK s : s = sent[h] \o p
  OBVIOUS
<1>5. s \in Seq(Nat) /\ Len(s) = cur[h].at /\ \A i \in 1 .. Len(s) : s[i] = i
  BY <1>2, <1>3, <1>4, AnswerInOrder DEF OrderAt
<1>6. PICK a \in {"none", "running"} : a = (IF cur[h].done THEN "none" ELSE "running")
  OBVIOUS
<1>7. PICK c : c = [cur[h] EXCEPT !.ahead = a, !.lock = NoCaller]
  OBVIOUS
<1>8. PICK f : f = [call[t] EXCEPT !.pc = "drop", !.page = <<>>]
  OBVIOUS
<1>9. /\ c \in CursorState /\ c.lock = NoCaller /\ c.dead = cur[h].dead /\ c.ahead # "ready"
      /\ c.done = cur[h].done /\ c.at = cur[h].at
  BY <1>2, <1>6, <1>7 DEF CursorState
<1>10. f \in CallState /\ f.h = h /\ f.pc = "drop"
  BY <1>1, <1>2, <1>8, EmptySeq DEF CallState
<1>11. call' = [call EXCEPT ![t] = f] /\ cur' = [cur EXCEPT ![h] = c]
  BY <1>1, <1>6, <1>7, <1>8 DEF Cur!Answer
<1>12. sent' = [sent EXCEPT ![h] = s] /\ ended' = (IF cur[h].done THEN ended \cup {h} ELSE ended)
       /\ UNCHANGED <<open, counter>>
  BY <1>1, <1>3, <1>4 DEF Cur!Answer
<1>13. sent \in [Cur!Handles -> Seq(Nat)] /\ sent' \in [Cur!Handles -> Seq(Nat)] /\ ended' \subseteq Cur!Handles
  BY <1>2, <1>5, <1>12 DEF CursorInv, StateInv
<1>14. StateInv' /\ CursorMoves(t, f, h, c)
  BY <1>1, <1>2, <1>9, <1>10, <1>11, <1>12, <1>13, StateMoves DEF CursorInv
<1>15. TurnInv'
  BY <1>1, <1>2, <1>9, <1>10, <1>12, <1>14, TurnMoves
<1>16. OrderAt(h)'
  <2>1. \A u \in Callers : ~Answering(u, h)'
    BY <1>2, <1>10, <1>14, NoOtherAnswer DEF CursorMoves, Answering
  <2>2. cur'[h] = c /\ sent'[h] = s
    BY <1>2, <1>12, <1>13, <1>14 DEF CursorMoves
  <2>3. h \in ended' => c.done /\ Len(s) = Chunks
    BY <1>2, <1>5, <1>9, <1>12 DEF OrderAt
  <2> QED
    BY <1>2, <1>5, <1>9, <2>1, <2>2, <2>3 DEF OrderAt
<1>17. OrderInv'
  <2>1. \A g \in Cur!Handles \ {h} : sent'[g] = sent[g] /\ (g \in ended' => g \in ended)
    BY <1>12, <1>13
  <2> QED
    BY <1>1, <1>2, <1>14, <1>16, <2>1, OrderMoves
<1> QED
  BY <1>14, <1>15, <1>17 DEF CursorInv

LEMMA PrefetchStep ==
    ASSUME Cur!CursorsAssumption, CursorInv, NEW h \in Cur!Handles, Cur!Prefetch(h)
    PROVE  CursorInv'
<1>1. /\ cur[h] \in CursorState /\ cur[h].ahead = "running" /\ OrderAt(h) /\ sent[h] \in Seq(Nat)
      /\ UNCHANGED <<open, counter, call, sent, ended>>
  BY DEF Cur!Prefetch, CursorInv, StateInv, OrderInv
<1>2. \A u \in Callers : ~Answering(u, h)
  <2>1. \A u \in Callers : Answering(u, h) => Inside(u, h) /\ call[u].pc # "get"
    BY DEF Answering, Inside
  <2> QED
    BY <1>1, <2>1 DEF CursorInv, TurnInv
<1>3. Len(sent[h]) = cur[h].at /\ ~cur[h].dead /\ (cur[h].done => cur[h].at = Chunks)
  BY <1>1, <1>2 DEF OrderAt, CursorInv, TurnInv
<1>4. PICK c \in CursorState :
         /\ cur' = [cur EXCEPT ![h] = c] /\ c.lock = cur[h].lock /\ c.dead = cur[h].dead
         /\ c.done => c.at = Chunks
         /\ cur[h].done => c.done
         /\ IF c.ahead = "ready" THEN Follows(sent[h], c.page, c.at) ELSE c.at = cur[h].at
  <2>1. CASE cur' = [cur EXCEPT ![h] = [Cur!After(@) EXCEPT !.ahead = "ready", !.page = Cur!Page(cur[h])]]
    <3>1. PICK e : e = Cur!After(cur[h])
      OBVIOUS
    <3>2. PICK p : p = Cur!Page(cur[h])
      OBVIOUS
    <3>3. PICK c : c = [e EXCEPT !.ahead = "ready", !.page = p]
      OBVIOUS
    <3>4. /\ e \in CursorState /\ p \in Seq(Nat) /\ e.lock = cur[h].lock /\ e.dead = cur[h].dead
          /\ e.done => e.at = Chunks
          /\ Follows(sent[h], p, e.at)
      BY <1>1, <1>3, <3>1, <3>2, PageGoesOn, PageFollows
    <3>5. cur[h].done => e.done
      BY <1>1, <3>1 DEF Cur!After, CursorState
    <3>6. /\ c \in CursorState /\ c.lock = e.lock /\ c.dead = e.dead /\ c.done = e.done
          /\ c.at = e.at /\ c.ahead = "ready" /\ c.page = p
      BY <3>3, <3>4 DEF CursorState
    <3>7. cur' = [cur EXCEPT ![h] = c]
      BY <2>1, <3>1, <3>2, <3>3
    <3> QED
      BY <3>4, <3>5, <3>6, <3>7
  <2>2. CASE cur' = [cur EXCEPT ![h] = Cur!Failed(@)]
    <3>1. PICK c : c = [cur[h] EXCEPT !.broken = TRUE, !.ahead = "failed"]
      OBVIOUS
    <3>2. /\ c \in CursorState /\ c.lock = cur[h].lock /\ c.dead = cur[h].dead
          /\ c.done = cur[h].done /\ c.at = cur[h].at /\ c.ahead = "failed"
      BY <1>1, <3>1 DEF CursorState
    <3>3. cur' = [cur EXCEPT ![h] = c]
      BY <2>2, <3>1 DEF Cur!Failed
    <3> QED
      BY <1>3, <3>2, <3>3
  <2> QED
    BY <2>1, <2>2 DEF Cur!Prefetch
<1>5. cur'[h] = c /\ cur' \in [Cur!Handles -> CursorState] /\ \A g \in Cur!Handles \ {h} : cur'[g] = cur[g]
  BY <1>4 DEF CursorInv, StateInv
<1>6. StateInv'
  BY <1>1, <1>5 DEF CursorInv, StateInv
<1>7. TurnInv'
  <2>1. ASSUME NEW u \in Callers, NEW g \in Cur!Handles, Inside(u, g)
        PROVE  cur'[g].lock = u /\ (call[u].pc # "get" => cur'[g].ahead = "none")
    BY <1>1, <1>4, <1>5, <2>1 DEF CursorInv, TurnInv
  <2>2. \A g \in Cur!Handles : cur'[g].dead => g # h
    BY <1>3, <1>4, <1>5
  <2> QED
    BY <1>1, <1>5, <2>1, <2>2 DEF CursorInv, TurnInv, Inside
<1>8. OrderInv'
  <2>1. OrderAt(h)'
    <3>1. \A u \in Callers : ~Answering(u, h)'
      BY <1>1, <1>2 DEF Answering
    <3> QED
      BY <1>1, <1>2, <1>3, <1>4, <1>5, <3>1 DEF OrderAt
  <2>2. ASSUME NEW g \in Cur!Handles \ {h}
        PROVE  OrderAt(g)'
    <3>1. OrderAt(g) /\ cur'[g] = cur[g] /\ sent'[g] = sent[g] /\ ended' = ended /\ call' = call
      BY <1>1, <1>5 DEF CursorInv, OrderInv
    <3> QED
      BY <3>1, Elsewhere
  <2> QED
    BY <2>1, <2>2 DEF OrderInv
<1> QED
  BY <1>6, <1>7, <1>8 DEF CursorInv

LEMMA DropStep ==
    ASSUME Cur!CursorsAssumption, CursorInv, NEW t \in Callers, Cur!Drop(t)
    PROVE  CursorInv'
<1>1. PICK h : h = call[t].h
  OBVIOUS
<1>2. /\ call[t].pc = "drop" /\ h \in Cur!Handles /\ h \in 1 .. counter
      /\ cur[h] \in CursorState /\ MaxHandles \in Nat /\ counter \in 0 .. MaxHandles
      /\ UNCHANGED <<open, counter, sent, ended>> /\ call' = [call EXCEPT ![t] = Cur!Idle]
  BY <1>1, OwnState DEF Cur!Drop, CursorInv, StateInv, Cur!CursorsAssumption
<1>3. Cur!Idle \in CallState /\ Cur!Idle.pc = "idle" /\ Cur!Idle.h = 0
  BY <1>2, EmptySeq DEF Cur!Idle, CallState
<1>4. call' \in [Callers -> CallState] /\ call'[t] = Cur!Idle
      /\ \A u \in Callers \ {t} : call'[u] = call[u]
  BY <1>2, <1>3 DEF CursorInv, StateInv
<1>5. PICK c \in CursorState :
         /\ cur' = [cur EXCEPT ![h] = c] \/ (cur' = cur /\ c = cur[h])
         /\ c.lock = cur[h].lock /\ c.ahead = cur[h].ahead /\ c.done = cur[h].done
         /\ c.at = cur[h].at /\ c.page = cur[h].page
         /\ c.dead /\ ~cur[h].dead =>
               h \notin open /\ cur[h].ahead # "running" /\ Cur!Holders(h) = {t}
  <2>1. CASE cur' = cur
    BY <1>2, <2>1
  <2>2. CASE /\ h \notin open /\ Cur!Holders(h) = {t} /\ Cur!MayDie(cur[h])
             /\ cur' = [cur EXCEPT ![h].dead = TRUE]
    <3>1. PICK c : c = [cur[h] EXCEPT !.dead = TRUE]
      OBVIOUS
    <3>2. /\ c \in CursorState /\ c.lock = cur[h].lock /\ c.ahead = cur[h].ahead
          /\ c.done = cur[h].done /\ c.at = cur[h].at /\ c.page = cur[h].page
      BY <1>2, <3>1 DEF CursorState
    <3>3. cur' = [cur EXCEPT ![h] = c] /\ cur[h].ahead # "running"
      BY <2>2, <3>1 DEF Cur!MayDie
    <3> QED
      BY <2>2, <3>2, <3>3
  <2> QED
    BY <1>1, <2>1, <2>2 DEF Cur!Drop
<1>6. cur'[h] = c /\ cur' \in [Cur!Handles -> CursorState] /\ \A g \in Cur!Handles \ {h} : cur'[g] = cur[g]
  BY <1>2, <1>5 DEF CursorInv, StateInv
<1>7. StateInv'
  BY <1>2, <1>3, <1>4, <1>6 DEF CursorInv, StateInv
<1>8. TurnInv'
  <2>1. ASSUME NEW u \in Callers, NEW g \in Cur!Handles, Inside(u, g)'
        PROVE  cur'[g].lock = u /\ (call'[u].pc # "get" => cur'[g].ahead = "none")
    <3>1. u # t
      BY <1>3, <1>4, <2>1 DEF Inside
    <3>2. Inside(u, g) /\ call'[u].pc = call[u].pc
      BY <1>4, <2>1, <3>1 DEF Inside
    <3> QED
      BY <1>5, <1>6, <3>2 DEF CursorInv, TurnInv
  <2>2. ASSUME NEW g \in Cur!Handles, cur'[g].dead
        PROVE  /\ g <= counter /\ g \notin open /\ cur'[g].ahead # "running"
               /\ \A u \in Callers : call'[u].h # g
    <3>1. CASE cur[g].dead
      BY <1>2, <1>3, <1>4, <1>5, <1>6, <3>1 DEF CursorInv, TurnInv, Cur!Handles
    <3>2. CASE ~cur[g].dead
      <4>1. g = h
        BY <1>6, <2>2, <3>2
      <4>2. h \notin open /\ cur[h].ahead # "running" /\ Cur!Holders(h) = {t}
        BY <1>5, <1>6, <2>2, <3>2, <4>1
      <4>3. \A u \in Callers \ {t} : call'[u].h # h
        BY <1>4, <4>2 DEF Cur!Holders
      <4>4. call'[t].h # h
        BY <1>2, <1>3, <1>4
      <4> QED
        BY <1>2, <1>5, <1>6, <4>1, <4>2, <4>3, <4>4
    <3> QED
      BY <3>1, <3>2
  <2> QED
    BY <1>2, <2>1, <2>2 DEF TurnInv
<1>9. OrderInv'
  <2>1. \A u \in Callers, g \in Cur!Handles :
           call'[u] = call[u] \/ (~Answering(u, g) /\ ~Answering(u, g)')
    BY <1>1, <1>2, <1>3, <1>4 DEF Answering
  <2>2. ASSUME NEW g \in Cur!Handles \ {h}
        PROVE  OrderAt(g)'
    BY <1>2, <1>6, <2>1, Elsewhere DEF CursorInv, OrderInv
  <2>3. OrderAt(h)'
    <3>1. \A u \in Callers : Answering(u, h)' <=> Answering(u, h)
      BY <1>2, <1>3, <1>4 DEF Answering
    <3>2. \A u \in Callers : Answering(u, h) => call'[u] = call[u]
      BY <1>2, <1>4 DEF Answering
    <3>3. OrderAt(h)
      BY <1>2 DEF CursorInv, OrderInv
    <3> QED
      BY <1>2, <1>5, <1>6, <3>1, <3>2, <3>3 DEF OrderAt
  <2> QED
    BY <2>2, <2>3 DEF OrderInv
<1> QED
  BY <1>7, <1>8, <1>9 DEF CursorInv

-------------------------------------------------------------------------------
(* The theorems about the cursors.                                          *)

LEMMA CursorStart ==
    ASSUME Cur!CursorsAssumption
    PROVE  Cur!Init => CursorInv
<1>1. SUFFICES ASSUME Cur!Init PROVE CursorInv
  OBVIOUS
<1>2. Cur!Fresh \in CursorState /\ Cur!Idle \in CallState /\ 0 \in 0 .. MaxHandles
  BY EmptySeq DEF Cur!Fresh, Cur!Idle, CursorState, CallState, Cur!CursorsAssumption
<1>3. StateInv
  <2>1. Cardinality(open) <= MaxOpen
    BY <1>1, FS_EmptySet DEF Cur!Init, Cur!CursorsAssumption
  <2>2. cur \in [Cur!Handles -> CursorState] /\ call \in [Callers -> CallState]
        /\ sent \in [Cur!Handles -> Seq(Nat)]
    BY <1>1, <1>2, EmptySeq DEF Cur!Init
  <2> QED
    BY <1>1, <1>2, <2>1, <2>2 DEF Cur!Init, StateInv, Cur!Idle
<1>4. TurnInv
  BY <1>1 DEF Cur!Init, TurnInv, Inside, Cur!Fresh, Cur!Idle
<1>5. OrderInv
  BY <1>1 DEF Cur!Init, OrderInv, OrderAt, Answering, Cur!Fresh, Cur!Idle
<1> QED
  BY <1>3, <1>4, <1>5 DEF CursorInv

LEMMA CursorSteps ==
    ASSUME Cur!CursorsAssumption, CursorInv, [Cur!Next]_(Cur!vars)
    PROVE  CursorInv'
<1>1. CASE UNCHANGED Cur!vars
  BY <1>1 DEF Cur!vars, CursorInv, StateInv, TurnInv, OrderInv, OrderAt, Inside, Answering
<1> QED
  BY <1>1, OpenStep, HoldStep, EnterStep, ProduceStep, GetStep, AnswerStep, PrefetchStep, DropStep
  DEF Cur!Next

LEMMA CursorAlways ==
    ASSUME Cur!CursorsAssumption
    PROVE  Cur!Spec => []CursorInv
<1>1. Cur!Init => CursorInv
  BY CursorStart
<1>2. CursorInv /\ [Cur!Next]_(Cur!vars) => CursorInv'
  BY CursorSteps
<1> QED
  BY <1>1, <1>2, PTL DEF Cur!Spec

LEMMA CursorTypes ==
    ASSUME CursorInv
    PROVE  Cur!TypeOK
<1>1. open \subseteq Cur!Handles
  BY CursorsAssumption DEF CursorInv, StateInv, Cur!Handles, Cur!CursorsAssumption
<1> QED
  BY <1>1, SameCount DEF CursorInv, StateInv, Cur!TypeOK, CursorState, CallState

\* The map, the cursors and the calls hold what they should, and the map no more
\* handles than it may.
THEOREM CursorsTypeCorrect ==
    Cur!Spec => []Cur!TypeOK
<1>1. CursorInv => Cur!TypeOK
  BY CursorTypes
<1> QED
  BY <1>1, CursorsAssumption, CursorAlways, PTL

\* However many callers fetch and close one handle, and whatever fails: the lock
\* and the wait for the page ahead leave one thread in a result, and the last
\* holder, who waits for that page too, destroys it when nobody is left.
THEOREM ResultHasOneThread ==
    Cur!Spec => []OneThreadPerResult
<1>1. CursorInv => OneThreadPerResult
  <2>1. SUFFICES ASSUME CursorInv, NEW h \in Cur!Handles
                 PROVE  LET inside == {t \in Callers : call[t].h = h /\ call[t].pc = "produce"} IN
                        /\ Cardinality(inside) + (IF cur[h].ahead = "running" THEN 1 ELSE 0) <= 1
                        /\ cur[h].dead => inside = {} /\ cur[h].ahead # "running"
    BY SameCount DEF OneThreadPerResult, Cur!OneThreadPerResult
  <2> DEFINE inside == {t \in Callers : call[t].h = h /\ call[t].pc = "produce"}
  <2>2. \A t, u \in inside : t = u
    BY <2>1, AloneInside DEF CursorInv, Inside
  <2>3. inside # {} => cur[h].ahead = "none"
    BY <2>1 DEF CursorInv, TurnInv, Inside
  <2>4. inside = {} \/ \E t : inside = {t}
    BY <2>2
  <2>5. Cardinality(inside) \in {0, 1} /\ (inside = {} => Cardinality(inside) = 0)
    BY <2>4, FS_EmptySet, FS_Singleton
  <2>6. cur[h].dead => inside = {} /\ cur[h].ahead # "running"
    BY <2>1 DEF CursorInv, TurnInv
  <2> QED
    BY <2>3, <2>5, <2>6
<1> QED
  BY <1>1, CursorsAssumption, CursorAlways, PTL

\* Whoever fetches, waits for a page ahead or meets an error, in any order: the
\* answers of a handle are the result from its start, and done is its end.
THEOREM AnswersAreTheResult ==
    Cur!Spec => []PagesInOrder
<1>1. CursorInv => PagesInOrder
  <2>1. SUFFICES ASSUME CursorInv, NEW h \in Cur!Handles
                 PROVE  /\ \A i \in DOMAIN sent[h] : sent[h][i] = i
                        /\ h \in ended => Len(sent[h]) = Chunks
    BY DEF PagesInOrder, Cur!PagesInOrder
  <2>2. sent[h] \in Seq(Nat) /\ OrderAt(h)
    BY <2>1 DEF CursorInv, StateInv, OrderInv
  <2>3. DOMAIN sent[h] = 1 .. Len(sent[h])
    BY <2>2, LenProperties
  <2> QED
    BY <2>2, <2>3 DEF OrderAt
<1> QED
  BY <1>1, CursorsAssumption, CursorAlways, PTL

-------------------------------------------------------------------------------
(* `setup`, for any objects, program ids, runs and failing calls.           *)

Objects == Set!ToSet(Assets)

Names == Ids \cup {Set!None}

System == [objects : SUBSET Objects, baked : Names, group : BOOLEAN, modules : BOOLEAN, dest : Names]

Plans == [deploy : BOOLEAN, refresh : BOOLEAN, modules : BOOLEAN]

Command ==
    [pc : {"off", "plan", "deploy", "class", "modules", "verify", "verified"}, id : Names,
     plan : Plans, left : Seq(Objects), failures : Nat, exit : {0, 1, 2, 9}]

\* Types; each object, and each step after them, fails once at the most.
CommandInv ==
    /\ sap \in System /\ served \in Names /\ run \in Command
    /\ sFaults \in 0 .. SetupFaults /\ runs \in 0 .. MaxRuns
    /\ run.pc = "plan" => run.failures = 0
    /\ run.pc = "deploy" => run.failures + Len(run.left) <= Len(Assets)
    /\ run.pc = "class" => run.failures <= Len(Assets)
    /\ run.pc = "modules" => run.failures <= Len(Assets) + 1
    /\ run.failures <= Len(Assets) + 2

\* While nothing has failed, what the steps so far were to leave is there.
DoneInv ==
    run.failures = 0 =>
       /\ run.pc = "deploy" /\ run.plan.deploy => sap.objects \cup Set!ToSet(run.left) = Objects
       /\ run.pc \in {"class", "modules", "verify"} /\ run.plan.deploy => sap.objects = Objects
       /\ run.pc \in {"modules", "verify"} => sap.dest = run.id
       /\ run.pc = "verify" /\ run.plan.modules => sap.modules

SetupInv == CommandInv /\ DoneInv /\ Set!ZeroMeansInstalled

LEMMA ListParts ==
    ASSUME NEW s \in Seq(Objects), s # <<>>
    PROVE  /\ Head(s) \in Objects /\ Tail(s) \in Seq(Objects) /\ Len(Tail(s)) = Len(s) - 1
           /\ Set!ToSet(s) = {Head(s)} \cup Set!ToSet(Tail(s))
<1>1. /\ Head(s) \in Objects /\ Tail(s) \in Seq(Objects) /\ Len(Tail(s)) = Len(s) - 1
      /\ Len(s) \in Nat /\ Len(s) > 0
      /\ \A i \in 1 .. Len(Tail(s)) : Tail(s)[i] = s[i + 1]
      /\ DOMAIN s = 1 .. Len(s) /\ DOMAIN Tail(s) = 1 .. Len(Tail(s))
  BY HeadTailProperties, EmptySeq, LenProperties
<1>2. ASSUME NEW i \in DOMAIN s
      PROVE  s[i] \in {Head(s)} \cup Set!ToSet(Tail(s))
  <2>1. CASE i = 1
    BY <2>1
  <2>2. CASE i # 1
    <3>1. i - 1 \in DOMAIN Tail(s) /\ Tail(s)[i - 1] = s[i]
      BY <1>1, <2>2
    <3> QED
      BY <3>1 DEF Set!ToSet
  <2> QED
    BY <2>1, <2>2
<1>3. Head(s) \in Set!ToSet(s)
  BY <1>1 DEF Set!ToSet
<1>4. ASSUME NEW i \in DOMAIN Tail(s)
      PROVE  Tail(s)[i] \in Set!ToSet(s)
  <2>1. i + 1 \in DOMAIN s /\ Tail(s)[i] = s[i + 1]
    BY <1>1
  <2> QED
    BY <2>1 DEF Set!ToSet
<1> QED
  BY <1>1, <1>2, <1>3, <1>4 DEF Set!ToSet

LEMMA PlanIsPlan ==
    ASSUME NEW set \in BOOLEAN
    PROVE  Set!MakePlan(set) \in Plans
<1>1. ASSUME NEW p, NEW q, NEW r
      PROVE  [deploy |-> ~p, modules |-> ~q, refresh |-> q /\ r] \in Plans
  BY DEF Plans
<1> QED
  BY <1>1 DEF Set!MakePlan

LEMMA RunTypes ==
    Set!SetupAssumption =>
       /\ Set!NoRun \in Command /\ Set!NoPlan \in Plans /\ Set!Bare \in System
       /\ Len(Assets) \in Nat /\ Len(Assets) >= 1 /\ SetupClass \in Objects
       /\ Assets \in Seq(Objects)
<1>1. SUFFICES ASSUME Set!SetupAssumption
               PROVE  /\ Set!NoRun \in Command /\ Set!NoPlan \in Plans /\ Set!Bare \in System
                      /\ Len(Assets) \in Nat /\ Len(Assets) >= 1 /\ SetupClass \in Objects
                      /\ Assets \in Seq(Objects)
  OBVIOUS
<1>2. Set!NoPlan \in Plans /\ Set!None \in Names
  BY DEF Set!NoPlan, Plans, Names
<1>3. Set!NoRun \in Command
  BY <1>2, EmptySeq DEF Set!NoRun, Command
<1>4. Set!Bare \in System
  BY <1>2 DEF Set!Bare, System
<1>5. Assets \in Seq(Objects) /\ SetupClass \in Objects
  BY <1>1 DEF Set!SetupAssumption, Objects
<1>6. Len(Assets) \in Nat /\ Len(Assets) >= 1
  <2>1. Len(Assets) \in Nat /\ DOMAIN Assets = 1 .. Len(Assets)
    BY <1>5, LenProperties
  <2>2. PICK i \in DOMAIN Assets : Assets[i] = SetupClass
    BY <1>5 DEF Objects, Set!ToSet
  <2> QED
    BY <2>1, <2>2
<1> QED
  BY <1>2, <1>3, <1>4, <1>5, <1>6

\* The command begins, or ends before it has changed anything.
LEMMA BeginSteps ==
    ASSUME Set!SetupAssumption, SetupInv,
           Set!Refuse \/ Set!Diagnose \/ Set!Decline \/ Set!Leave \/ Set!Kill
    PROVE  SetupInv'
<1>1. run \in Command /\ Len(Assets) \in Nat /\ Set!NoRun \in Command
      /\ sFaults \in 0 .. SetupFaults /\ SetupFaults \in Nat /\ runs \in 0 .. MaxRuns /\ MaxRuns \in Nat
  BY RunTypes DEF SetupInv, CommandInv, Set!SetupAssumption
<1>2. run' \in Command /\ (run'.pc \in {"off", "plan"}) /\ (run'.pc = "plan" => run'.failures = 0)
      /\ run'.failures <= Len(Assets) + 2
  <2>1. CASE Set!Refuse
    <3>1. PICK z \in Command : z = Set!NoRun /\ z.pc = "off" /\ z.failures = 0
      BY <1>1 DEF Set!NoRun
    <3>2. run' = [z EXCEPT !.exit = 2]
      BY <2>1, <3>1 DEF Set!Refuse
    <3>3. run' \in Command /\ run'.pc = z.pc /\ run'.failures = z.failures
      BY <3>2 DEF Command
    <3> QED
      BY <1>1, <3>1, <3>3
  <2>2. CASE Set!Diagnose
    <3>1. PICK id \in Ids, p \in Plans :
             run' = [Set!NoRun EXCEPT !.pc = "plan", !.id = id, !.plan = p]
      BY <2>2, PlanIsPlan DEF Set!Diagnose
    <3>2. run' \in Command /\ run'.pc = "plan"
      BY <1>1, <3>1 DEF Command, Names
    <3>3. run'.failures = Set!NoRun.failures
      BY <1>1, <3>1 DEF Command
    <3> QED
      BY <1>1, <3>2, <3>3 DEF Set!NoRun
  <2>3. CASE Set!Decline
    <3>1. PICK code \in {0, 1, 2} : run' = [run EXCEPT !.pc = "off", !.exit = code]
      BY <2>3 DEF Set!Decline, Set!Exit
    <3> QED
      BY <1>1, <3>1 DEF Command, SetupInv, CommandInv
  <2>4. CASE Set!Leave
    BY <1>1, <2>4 DEF Set!Leave, Command, SetupInv, CommandInv
  <2>5. CASE Set!Kill
    BY <1>1, <2>5 DEF Set!Kill, Command, Set!NoRun
  <2> QED
    BY <2>1, <2>2, <2>3, <2>4, <2>5
<1>3. /\ UNCHANGED <<sap, served>>
      /\ UNCHANGED sFaults \/ (sFaults < SetupFaults /\ sFaults' = sFaults + 1)
      /\ UNCHANGED runs \/ (runs < MaxRuns /\ runs' = runs + 1)
  BY DEF Set!Refuse, Set!Diagnose, Set!Decline, Set!Leave, Set!Kill, Set!Fails
<1>4. CommandInv'
  BY <1>1, <1>2, <1>3 DEF SetupInv, CommandInv
<1> QED
  BY <1>2, <1>4 DEF SetupInv, DoneInv, Set!ZeroMeansInstalled

LEMMA ConfirmStep ==
    ASSUME Set!SetupAssumption, SetupInv, Set!Confirm
    PROVE  SetupInv'
<1>1. run \in Command /\ run.pc = "plan" /\ run.failures = 0
  BY DEF SetupInv, CommandInv, Set!Confirm
<1>2. PICK l : l = (IF run.plan.deploy THEN Assets
                    ELSE IF run.plan.refresh THEN <<SetupClass>> ELSE <<>>)
  OBVIOUS
<1>3. l \in Seq(Objects) /\ Len(l) <= Len(Assets) /\ Len(l) \in Nat /\ Len(Assets) \in Nat
      /\ (run.plan.deploy => Set!ToSet(l) = Objects)
  BY <1>2, RunTypes, EmptySeq DEF Objects
<1>4. run' = [run EXCEPT !.pc = "deploy", !.left = l]
  BY <1>2 DEF Set!Confirm
<1>5. /\ run' \in Command /\ run'.pc = "deploy" /\ run'.left = l /\ run'.failures = 0
      /\ run'.plan = run.plan
  BY <1>1, <1>3, <1>4 DEF Command
<1>6. UNCHANGED <<sap, served, runs, sFaults>>
  BY DEF Set!Confirm
<1>7. CommandInv'
  BY <1>3, <1>5, <1>6 DEF SetupInv, CommandInv
<1>8. DoneInv'
  <2>1. sap.objects \subseteq Objects
    BY DEF SetupInv, CommandInv, System
  <2> QED
    BY <1>3, <1>5, <1>6, <2>1 DEF DoneInv
<1> QED
  BY <1>5, <1>7, <1>8 DEF SetupInv, Set!ZeroMeansInstalled

\* One object is written, or fails and may be there anyhow.
LEMMA WriteStep ==
    ASSUME Set!SetupAssumption, SetupInv, Set!WriteSource
    PROVE  SetupInv'
<1>1. /\ run \in Command /\ run.pc = "deploy" /\ run.left # <<>> /\ run.left \in Seq(Objects)
      /\ run.failures \in Nat /\ sap \in System /\ run.id \in Names
  BY DEF SetupInv, CommandInv, Set!WriteSource, Command
<1>2. PICK o : o = Head(run.left)
  OBVIOUS
<1>3. PICK l : l = Tail(run.left)
  OBVIOUS
<1>4. /\ o \in Objects /\ l \in Seq(Objects) /\ Len(l) = Len(run.left) - 1
      /\ Set!ToSet(run.left) = {o} \cup Set!ToSet(l)
  BY <1>1, <1>2, <1>3, ListParts
<1>5. PICK w : w = Set!Written(o)
  OBVIOUS
<1>6. w \in System /\ w.objects = sap.objects \cup {o}
  <2>1. PICK b \in Names : b = (IF o = SetupClass THEN run.id ELSE sap.baked)
    BY <1>1 DEF System
  <2>2. PICK s : s = sap.objects \cup {o}
    OBVIOUS
  <2>3. s \in SUBSET Objects
    BY <1>1, <1>4, <2>2 DEF System
  <2>4. w = [sap EXCEPT !.objects = s, !.baked = b]
    BY <1>5, <2>1, <2>2 DEF Set!Written
  <2>5. w \in System /\ w.objects = s
    BY <1>1, <2>1, <2>3, <2>4 DEF System
  <2> QED
    BY <2>2, <2>5
<1>7. PICK n \in {0, 1} :
         /\ /\ run' \in Command /\ run'.pc = "deploy" /\ run'.left = l
            /\ run'.failures = run.failures + n /\ run'.plan = run.plan
         /\ sap' \in {sap, w} /\ (n = 0 => sap' = w)
         /\ UNCHANGED sFaults \/ (sFaults < SetupFaults /\ sFaults' = sFaults + 1)
  <2>1. CASE sap' = w /\ UNCHANGED sFaults /\ run' = [run EXCEPT !.left = Tail(@)]
    <3>1. run' = [run EXCEPT !.left = l]
      BY <1>3, <2>1
    <3>2. /\ run' \in Command /\ run'.pc = "deploy" /\ run'.left = l
          /\ run'.failures = run.failures /\ run'.plan = run.plan
      BY <1>1, <1>4, <3>1 DEF Command
    <3> QED
      BY <1>1, <2>1, <3>2
  <2>2. CASE /\ sap' \in {sap, w} /\ Set!Fails
             /\ run' = [Set!Failed("deploy") EXCEPT !.left = Tail(@)]
    <3>1. PICK k \in Nat : k = run.failures + 1
      BY <1>1
    <3>2. PICK e : e = [run EXCEPT !.pc = "deploy", !.failures = k]
      OBVIOUS
    <3>3. e = Set!Failed("deploy")
      BY <3>1, <3>2 DEF Set!Failed
    <3>4. e \in Command /\ e.left = run.left /\ e.pc = "deploy" /\ e.failures = k /\ e.plan = run.plan
      BY <1>1, <3>1, <3>2 DEF Command
    <3>5. run' = [e EXCEPT !.left = l]
      BY <1>3, <2>2, <3>3, <3>4
    <3>6. /\ run' \in Command /\ run'.pc = "deploy" /\ run'.left = l
          /\ run'.failures = k /\ run'.plan = run.plan
      BY <1>4, <3>4, <3>5 DEF Command
    <3> QED
      BY <2>2, <3>1, <3>6 DEF Set!Fails
  <2> QED
    BY <1>2, <1>5, <2>1, <2>2 DEF Set!WriteSource
<1>8. UNCHANGED <<served, runs>>
  BY DEF Set!WriteSource
<1>9. CommandInv'
  <2>1. sap' \in System
    BY <1>1, <1>6, <1>7
  <2>2. run'.failures + Len(run'.left) <= Len(Assets) /\ run'.failures <= Len(Assets) + 2
    <3>1. run.failures + Len(run.left) <= Len(Assets) /\ Len(Assets) \in Nat /\ Len(run.left) \in Nat
          /\ Len(l) \in Nat
      BY <1>1, <1>4, RunTypes, LenProperties DEF SetupInv, CommandInv
    <3> QED
      BY <1>1, <1>4, <1>7, <3>1
  <2>3. sFaults' \in 0 .. SetupFaults
    BY <1>7 DEF SetupInv, CommandInv, Set!SetupAssumption
  <2> QED
    BY <1>7, <1>8, <2>1, <2>2, <2>3 DEF SetupInv, CommandInv
<1>10. DoneInv'
  BY <1>1, <1>4, <1>6, <1>7 DEF SetupInv, DoneInv
<1> QED
  BY <1>7, <1>9, <1>10 DEF SetupInv, Set!ZeroMeansInstalled

LEMMA GroupStep ==
    ASSUME Set!SetupAssumption, SetupInv, Set!CreateGroup
    PROVE  SetupInv'
<1>1. /\ run \in Command /\ run.pc = "deploy" /\ run.left = <<>>
      /\ run.failures \in Nat /\ sap \in System
  BY DEF SetupInv, CommandInv, Set!CreateGroup, Command
<1>2. /\ run' = [run EXCEPT !.pc = "class"] /\ UNCHANGED <<served, runs>>
      /\ UNCHANGED sFaults \/ (sFaults < SetupFaults /\ sFaults' = sFaults + 1)
  BY DEF Set!CreateGroup, Set!Fails
<1>3. /\ run' \in Command /\ run'.pc = "class" /\ run'.failures = run.failures /\ run'.plan = run.plan
  BY <1>1, <1>2 DEF Command
<1>4. sap' \in System /\ sap'.objects = sap.objects
  <2>1. CASE sap' = [sap EXCEPT !.group = @ \/ run.plan.modules]
    <3>1. (sap.group \/ run.plan.modules) \in BOOLEAN
      OBVIOUS
    <3>2. ASSUME NEW b \in BOOLEAN
          PROVE  [sap EXCEPT !.group = b] \in System /\ [sap EXCEPT !.group = b].objects = sap.objects
      BY <1>1 DEF System
    <3> QED
      BY <2>1, <3>1, <3>2
  <2>2. CASE UNCHANGED sap
    BY <1>1, <2>2
  <2> QED
    BY <2>1, <2>2 DEF Set!CreateGroup
<1>5. run.failures <= Len(Assets) /\ Len(Assets) \in Nat /\ Set!ToSet(run.left) = {}
  <2>1. Len(run.left) = 0 /\ Set!ToSet(run.left) = {}
    BY <1>1, EmptySeq DEF Set!ToSet
  <2> QED
    BY <1>1, <2>1, RunTypes DEF SetupInv, CommandInv
<1>6. CommandInv'
  BY <1>1, <1>2, <1>3, <1>4, <1>5 DEF SetupInv, CommandInv, Set!SetupAssumption
<1>7. DoneInv'
  BY <1>1, <1>3, <1>4, <1>5 DEF SetupInv, DoneInv
<1> QED
  BY <1>3, <1>6, <1>7 DEF SetupInv, Set!ZeroMeansInstalled

\* A step of the plan that fails is counted, and the next one follows.
LEMMA FailedStep ==
    ASSUME run \in Command, NEW pc \in {"modules", "verify"}
    PROVE  /\ Set!Failed(pc) \in Command /\ Set!Failed(pc).pc = pc
           /\ Set!Failed(pc).failures = run.failures + 1 /\ Set!Failed(pc).plan = run.plan
<1>1. PICK k \in Nat : k = run.failures + 1
  BY DEF Command
<1>2. PICK e : e = [run EXCEPT !.pc = pc, !.failures = k]
  OBVIOUS
<1>3. e = Set!Failed(pc)
  BY <1>1, <1>2 DEF Set!Failed
<1>4. e \in Command /\ e.pc = pc /\ e.failures = k /\ e.plan = run.plan
  BY <1>1, <1>2 DEF Command
<1> QED
  BY <1>1, <1>3, <1>4

\* The destination of a step that succeeds is the one that was asked for.
LEMMA ClassStep ==
    ASSUME Set!SetupAssumption, SetupInv, Set!RunSetupClass
    PROVE  SetupInv'
<1>1. /\ run \in Command /\ run.pc = "class" /\ run.failures \in Nat /\ sap \in System
      /\ run.failures <= Len(Assets) /\ Len(Assets) \in Nat
  BY RunTypes DEF SetupInv, CommandInv, Set!RunSetupClass, Command
<1>2. ASSUME NEW d \in Names
      PROVE  /\ [sap EXCEPT !.dest = d] \in System /\ [sap EXCEPT !.dest = d].dest = d
             /\ [sap EXCEPT !.dest = d].objects = sap.objects
  BY <1>1 DEF System
<1>3. sap.baked \in Names /\ sap.dest \in Names /\ Set!None \in Names
  BY <1>1 DEF System, Names
<1>4. PICK n \in {0, 1} :
         /\ run' \in Command /\ run'.pc = "modules" /\ run'.plan = run.plan
         /\ run'.failures = run.failures + n
         /\ sap' \in System /\ sap'.objects = sap.objects /\ (n = 0 => sap'.dest = run'.id)
         /\ UNCHANGED sFaults \/ (sFaults < SetupFaults /\ sFaults' = sFaults + 1)
  <2>1. CASE /\ sap' = [sap EXCEPT !.dest = sap.baked] /\ UNCHANGED sFaults
             /\ sap.baked = run.id /\ run' = [run EXCEPT !.pc = "modules"]
    <3>1. /\ run' \in Command /\ run'.pc = "modules" /\ run'.plan = run.plan
          /\ run'.failures = run.failures /\ run'.id = run.id
      BY <1>1, <2>1 DEF Command
    <3>2. sap' \in System /\ sap'.dest = sap.baked /\ sap'.objects = sap.objects
      BY <1>2, <1>3, <2>1
    <3> QED
      BY <1>1, <2>1, <3>1, <3>2
  <2>2. CASE run' = Set!Failed("modules")
    <3>1. /\ run' \in Command /\ run'.pc = "modules" /\ run'.plan = run.plan
          /\ run'.failures = run.failures + 1
      BY <1>1, <2>2, FailedStep
    <3>2. /\ sap' \in System /\ sap'.objects = sap.objects
          /\ UNCHANGED sFaults \/ (sFaults < SetupFaults /\ sFaults' = sFaults + 1)
      <4>1. sap' = sap \/ \E d \in Names : sap' = [sap EXCEPT !.dest = d]
        BY <1>3 DEF Set!RunSetupClass
      <4>2. UNCHANGED sFaults \/ (sFaults < SetupFaults /\ sFaults' = sFaults + 1)
        BY DEF Set!RunSetupClass, Set!Fails
      <4> QED
        BY <1>1, <1>2, <4>1, <4>2
    <3> QED
      BY <3>1, <3>2
  <2> QED
    BY <2>1, <2>2 DEF Set!RunSetupClass
<1>5. UNCHANGED <<served, runs>>
  BY DEF Set!RunSetupClass
<1>6. CommandInv'
  BY <1>1, <1>4, <1>5 DEF SetupInv, CommandInv, Set!SetupAssumption
<1>7. DoneInv'
  BY <1>1, <1>4 DEF SetupInv, DoneInv
<1> QED
  BY <1>4, <1>6, <1>7 DEF SetupInv, Set!ZeroMeansInstalled

\* The modules can be called, or the failure is counted; or they were not planned.
LEMMA ModuleSteps ==
    ASSUME Set!SetupAssumption, SetupInv, Set!RunMkfm \/ Set!SkipMkfm
    PROVE  SetupInv'
<1>1. /\ run \in Command /\ run.pc = "modules" /\ run.failures \in Nat /\ sap \in System
      /\ run.failures <= Len(Assets) + 1 /\ Len(Assets) \in Nat
  BY RunTypes DEF SetupInv, CommandInv, Set!RunMkfm, Set!SkipMkfm, Command
<1>2. ASSUME run' = [run EXCEPT !.pc = "verify"]
      PROVE  /\ run' \in Command /\ run'.pc = "verify" /\ run'.plan = run.plan
             /\ run'.failures = run.failures /\ run'.id = run.id
  BY <1>1, <1>2 DEF Command
<1>3. PICK n \in {0, 1} :
         /\ run' \in Command /\ run'.pc = "verify" /\ run'.plan = run.plan
         /\ run'.failures = run.failures + n
         /\ sap' \in System /\ sap'.objects = sap.objects /\ sap'.dest = sap.dest
         /\ n = 0 => run'.id = run.id /\ (run.plan.modules => sap'.modules)
         /\ UNCHANGED sFaults \/ (sFaults < SetupFaults /\ sFaults' = sFaults + 1)
  <2>1. CASE /\ sap' = [sap EXCEPT !.modules = TRUE] /\ UNCHANGED sFaults
             /\ run' = [run EXCEPT !.pc = "verify"]
    <3>1. sap' \in System /\ sap'.objects = sap.objects /\ sap'.dest = sap.dest /\ sap'.modules
      BY <1>1, <2>1 DEF System
    <3> QED
      BY <1>1, <1>2, <2>1, <3>1
  <2>2. CASE /\ run' = Set!Failed("verify") /\ UNCHANGED sap
             /\ UNCHANGED sFaults \/ Set!Fails
    <3>1. /\ run' \in Command /\ run'.pc = "verify" /\ run'.plan = run.plan
          /\ run'.failures = run.failures + 1
      BY <1>1, <2>2, FailedStep
    <3> QED
      BY <1>1, <2>2, <3>1 DEF Set!Fails
  <2>3. CASE Set!SkipMkfm
    <3>1. run' = [run EXCEPT !.pc = "verify"] /\ ~run.plan.modules /\ UNCHANGED <<sap, sFaults>>
      BY <2>3 DEF Set!SkipMkfm
    <3> QED
      BY <1>1, <1>2, <3>1
  <2> QED
    BY <2>1, <2>2, <2>3 DEF Set!RunMkfm
<1>4. UNCHANGED <<served, runs>>
  BY DEF Set!RunMkfm, Set!SkipMkfm
<1>5. CommandInv'
  BY <1>1, <1>3, <1>4 DEF SetupInv, CommandInv, Set!SetupAssumption
<1>6. DoneInv'
  BY <1>1, <1>3 DEF SetupInv, DoneInv
<1> QED
  BY <1>3, <1>5, <1>6 DEF SetupInv, Set!ZeroMeansInstalled

\* It ends with 0 only if nothing failed, and then everything planned was done.
LEMMA VerifyStep ==
    ASSUME Set!SetupAssumption, SetupInv, Set!Verify
    PROVE  SetupInv'
<1>1. run \in Command /\ run.pc = "verify" /\ run.failures \in Nat
  BY DEF SetupInv, CommandInv, Set!Verify, Command
<1>2. PICK e \in {0, 1} :
         run' = [run EXCEPT !.pc = "verified", !.exit = e] /\ (e = 0 => run.failures = 0)
  <2>1. PICK ok \in {Set!DestinationOk, FALSE} :
           run' = [run EXCEPT !.pc = "verified",
                              !.exit = IF ok /\ run.failures = 0 THEN 0 ELSE 1]
    BY DEF Set!Verify
  <2>2. PICK e : e = IF ok /\ run.failures = 0 THEN 0 ELSE 1
    OBVIOUS
  <2>3. e \in {0, 1} /\ (e = 0 => run.failures = 0)
    BY <2>2
  <2>4. run' = [run EXCEPT !.pc = "verified", !.exit = e]
    BY <2>1, <2>2
  <2> QED
    BY <2>3, <2>4
<1>3. /\ run' \in Command /\ run'.pc = "verified" /\ run'.exit = e /\ run'.plan = run.plan
      /\ run'.failures = run.failures /\ run'.id = run.id
  BY <1>1, <1>2 DEF Command
<1>4. UNCHANGED <<sap, served, runs, sFaults>>
  BY DEF Set!Verify
<1>5. CommandInv'
  BY <1>3, <1>4 DEF SetupInv, CommandInv
<1>6. DoneInv'
  BY <1>3 DEF DoneInv
<1>7. Set!ZeroMeansInstalled'
  BY <1>1, <1>2, <1>3, <1>4 DEF SetupInv, DoneInv, Set!ZeroMeansInstalled, Objects
<1> QED
  BY <1>5, <1>6, <1>7 DEF SetupInv

\* What the system and the server do on their own.
LEMMA OutsideSteps ==
    ASSUME Set!SetupAssumption, SetupInv,
           Set!Reap \/ \E id \in Ids \cup {Set!None} : Set!Serve(id)
    PROVE  SetupInv'
<1>1. CASE Set!Reap
  <2>1. /\ run.pc = "off" /\ UNCHANGED <<served, run, runs>> /\ sFaults' = sFaults + 1
        /\ sFaults < SetupFaults /\ sap \in System
    BY <1>1 DEF SetupInv, CommandInv, Set!Reap, Set!Fails
  <2>2. PICK gone \in SUBSET sap.objects, group \in {sap.group, FALSE} :
           sap' = [sap EXCEPT !.objects = @ \ gone, !.group = group, !.modules = @ /\ group]
    BY <1>1 DEF Set!Reap
  <2>3. PICK s : s = sap.objects \ gone
    OBVIOUS
  <2>4. s \in SUBSET Objects /\ group \in BOOLEAN /\ (sap.modules /\ group) \in BOOLEAN
    BY <2>1, <2>3 DEF System
  <2>5. ASSUME NEW m \in BOOLEAN
        PROVE  [sap EXCEPT !.objects = s, !.group = group, !.modules = m] \in System
    BY <2>1, <2>4 DEF System
  <2>6. sap' = [sap EXCEPT !.objects = s, !.group = group, !.modules = sap.modules /\ group]
    BY <2>2, <2>3
  <2>7. sap' \in System
    BY <2>4, <2>5, <2>6
  <2>8. CommandInv'
    BY <2>1, <2>7 DEF SetupInv, CommandInv, Set!SetupAssumption
  <2> QED
    BY <2>1, <2>8 DEF SetupInv, DoneInv, Set!ZeroMeansInstalled
<1>2. CASE \E id \in Ids \cup {Set!None} : Set!Serve(id)
  <2>1. served' \in Names /\ UNCHANGED <<sap, run, runs, sFaults>>
    BY <1>2 DEF Set!Serve, Names
  <2> QED
    BY <2>1 DEF SetupInv, CommandInv, DoneInv, Set!ZeroMeansInstalled
<1> QED
  BY <1>1, <1>2

LEMMA SetupStart ==
    ASSUME Set!SetupAssumption, Set!Init
    PROVE  SetupInv
<1>1. run = Set!NoRun /\ sap = Set!Bare /\ served = Set!None /\ runs = 0 /\ sFaults = 0
  BY DEF Set!Init
<1>2. run.pc = "off" /\ run.failures = 0
  BY <1>1 DEF Set!NoRun
<1>3. CommandInv
  BY <1>1, <1>2, RunTypes DEF CommandInv, Names, Set!SetupAssumption
<1> QED
  BY <1>2, <1>3 DEF SetupInv, DoneInv, Set!ZeroMeansInstalled

LEMMA SetupSteps ==
    ASSUME Set!SetupAssumption, SetupInv, [Set!Next]_(Set!vars)
    PROVE  SetupInv'
<1>1. CASE UNCHANGED Set!vars
  BY <1>1 DEF Set!vars, SetupInv, CommandInv, DoneInv, Set!ZeroMeansInstalled
<1>2. CASE Set!Refuse \/ Set!Diagnose \/ Set!Decline \/ Set!Leave \/ Set!Kill
  BY <1>2, BeginSteps
<1>3. CASE Set!RunMkfm \/ Set!SkipMkfm
  BY <1>3, ModuleSteps
<1>4. CASE Set!Reap \/ \E id \in Ids \cup {Set!None} : Set!Serve(id)
  BY <1>4, OutsideSteps
<1> QED
  BY <1>1, <1>2, <1>3, <1>4, ConfirmStep, WriteStep, GroupStep, ClassStep, VerifyStep
  DEF Set!Next

LEMMA SetupAlways ==
    ASSUME Set!SetupAssumption
    PROVE  Set!Spec => []SetupInv
<1>1. Set!Init => SetupInv
  BY SetupStart
<1>2. SetupInv /\ [Set!Next]_(Set!vars) => SetupInv'
  BY SetupSteps
<1> QED
  BY <1>1, <1>2, PTL DEF Set!Spec

LEMMA SetupTypes ==
    ASSUME SetupInv
    PROVE  Set!TypeOK
<1>1. sap \in System /\ run \in Command /\ Len(Assets) \in Nat /\ run.failures <= Len(Assets) + 2
  BY RunTypes DEF SetupInv, CommandInv
<1> QED
  BY <1>1 DEF SetupInv, CommandInv, Set!TypeOK, System, Command, Objects, Names

\* `setup`, killed or failing anywhere, on a system that reaps its objects, keeps
\* the types, and counts each failing object and each failing step once.
THEOREM SetupTypeCorrect ==
    Set!Spec => []Set!TypeOK
<1>1. SetupInv => Set!TypeOK
  BY SetupTypes
<1> QED
  BY <1>1, SetupAssumption, SetupAlways, PTL

\* RunSetup: however much was there before, whatever earlier runs left undone and
\* whatever fails, a run that carried out its plan and ends with 0 leaves the
\* destination it was asked for, the modules it planned and every object.
THEOREM ZeroLeavesThePlan ==
    Set!Spec => []ZeroMeansInstalled
<1>1. SetupInv => ZeroMeansInstalled
  BY DEF SetupInv, ZeroMeansInstalled
<1> QED
  BY <1>1, SetupAssumption, SetupAlways, PTL
-------------------------------------------------------------------------------
(* The planner and the view that every display reads.                       *)

LEMMA NoFailureNoDelay ==
    ASSUME NEW r, NEW t \in Targets, r[t].fail = 0
    PROVE  Needed(r, t) = Interval[t]
<1>1. MaxShift \in Nat /\ Interval[t] \in Nat
  BY TickPlannerAssumption
<1>2. Min({0, MaxShift}) = 0
  BY <1>1 DEF Min
<1>3. 2 ^ 0 = 1
  OBVIOUS
<1>4. Interval[t] * 1 = Interval[t]
  BY <1>1
<1> QED
  BY <1>2, <1>3, <1>4 DEF Needed

\* PlanTick and erpl_rev_targets, for all rows that they may read: a target whose
\* interval has passed, that no live cycle owns and that the planner leaves out of
\* its candidates is shown as unhealthy.
THEOREM NothingStopsInSilence ==
    ASSUME planned \in PlannerRows
    PROVE  SilentTargetIsUnhealthy
<1> DEFINE r == planned
<1>1. SUFFICES ASSUME NEW t \in Targets,
                      r[t].since # Never, TickSecs * r[t].since >= Interval[t],
                      ~Owned(r, t), ~Due(r, t), Healthy(r, t)
               PROVE  FALSE
  BY DEF SilentTargetIsUnhealthy, SilentIsUnhealthy
<1>5. r \in PlannerRows
  OBVIOUS
<1> HIDE DEF r
<1>2. r[t].fail = 0 /\ r[t].status # "BLOCKED" /\ (t \in Triggers => r[t].live)
  BY <1>1, <1>5 DEF Healthy, PlannerRows, PlannerRow
<1>3. Since(r, t) = TickSecs * r[t].since
  BY <1>1 DEF Since
<1>4. Since(r, t) >= Interval[t] /\ Needed(r, t) = Interval[t]
  BY <1>1, <1>2, <1>3, NoFailureNoDelay
<1> QED
  BY <1>1, <1>2, <1>4, <1>5 DEF Due, PlannerRows, PlannerRow

\* PlanTick, for all rows that a tick may read: a slot stays free only for full
\* loads beyond their share, and a trigger target that waits is not shut out.
THEOREM NoSlotIsWasted ==
    ASSUME planned \in PlannerRows
    PROVE  SlotsAreUsed
BY SlotsAreUsedByEveryPlan DEF SlotsAreUsed

\* PlanTick, for all rows that a tick may read: within a tier the planned target is
\* no less overdue than one left out.
THEOREM NoTurnIsLost ==
    ASSUME planned \in PlannerRows
    PROVE  PriorityIsKept
BY PriorityIsKeptByEveryPlan DEF PriorityIsKept

-------------------------------------------------------------------------------
(* The parts side by side: a step of one leaves the others as they are.     *)

SideInv ==
    /\ QueueTypeOK /\ ServerInv /\ QueueInv
    /\ CursorInv
    /\ SetupInv

LEMMA SideStart == MCInit => SideInv
BY QueueStart, CursorStart, CursorsAssumption, SetupStart, SetupAssumption DEF MCInit, SideInv

LEMMA QueueStays ==
    ASSUME SideInv, UNCHANGED vars
    PROVE  (QueueTypeOK /\ ServerInv /\ QueueInv)'
BY QueueSteps DEF SideInv

LEMMA CursorStays ==
    ASSUME SideInv, UNCHANGED cursorVars
    PROVE  CursorInv'
BY CursorSteps, CursorsAssumption DEF SideInv, Cur!vars, cursorVars

LEMMA SetupStays ==
    ASSUME SideInv, UNCHANGED setupVars
    PROVE  SetupInv'
BY SetupSteps, SetupAssumption DEF SideInv, Set!vars, setupVars

LEMMA SideSteps ==
    ASSUME SideInv, [MCNext]_MCVars
    PROVE  SideInv'
<1>1. CASE UNCHANGED MCVars
  BY <1>1, QueueStays, CursorStays, SetupStays DEF MCVars, SideInv
<1>2. CASE QueueStep
  <2>1. (QueueTypeOK /\ ServerInv /\ QueueInv)'
    BY <1>2, QueueSteps DEF QueueStep, SideInv
  <2> QED
    BY <1>2, <2>1, CursorStays, SetupStays DEF QueueStep, SideInv
<1>3. CASE CursorStep
  <2>1. CursorInv'
    BY <1>3, CursorSteps, CursorsAssumption DEF CursorStep, SideInv
  <2> QED
    BY <1>3, <2>1, QueueStays, SetupStays DEF CursorStep, SideInv
<1>4. CASE SetupStep
  <2>1. SetupInv'
    BY <1>4, SetupSteps, SetupAssumption DEF SetupStep, SideInv
  <2> QED
    BY <1>4, <2>1, QueueStays, CursorStays DEF SetupStep, SideInv
<1> QED
  BY <1>1, <1>2, <1>3, <1>4 DEF MCNext

\* The servers, the queue, the cursors and `setup`, side by side: whichever of them
\* moves, all keep their types.
THEOREM TypesOfTheParts == MCSpec => []TypesOK
<1>1. MCInit => SideInv
  BY SideStart
<1>2. SideInv /\ [MCNext]_MCVars => SideInv'
  BY SideSteps
<1>3. SideInv => TypesOK
  BY CursorTypes, SetupTypes DEF SideInv, TypesOK
<1> QED
  BY <1>1, <1>2, <1>3, PTL DEF MCSpec
===============================================================================
