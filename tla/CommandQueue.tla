------------------------------ MODULE CommandQueue ------------------------------
(***************************************************************************)
(* How an operator's command reaches SAP: the CLI process writes a row     *)
(* into the queue of whatever database it finds, asks SAP to run a driver  *)
(* and reads the row back; drivers (its own, and the one of the daemon or  *)
(* the periodic job) claim rows through the server and execute them.  The  *)
(* id of a row is its place in the queue of its file.                      *)
(***************************************************************************)
EXTENDS ServerProcess, Naturals, Sequences, FiniteSets

CONSTANTS
    Clis,              \* CLI processes, one command each
    QueueOnly,         \* those that are given --queue-only
    Job,               \* the daemon's or the periodic job's driver
    CliFile,           \* what a CLI opens when it finds no server
    MaxClaims,         \* commands that one drain takes (20 in the code)
    MaxFaults          \* bound: dumps, lost answers and timeouts

ASSUME QueueAssumption ==
    /\ Clis \subseteq Users /\ QueueOnly \subseteq Clis /\ Job \notin Clis
    /\ CliFile \in [Clis -> Files] /\ MaxClaims \in Nat \ {0} /\ MaxFaults \in Nat

Drivers == Clis \cup {Job}

VARIABLES
    rows,              \* _erpl_rev_cli_cmd of each file
    cli,               \* the CLI processes
    drv,               \* the drivers
    faults

queueVars == <<rows, cli, drv, faults>>

vars == <<serverVars, queueVars>>

QueueInit ==
    /\ rows = [f \in Files |-> <<>>]
    /\ cli = [c \in Clis |-> [pc |-> "idle", seen |-> Nobody, id |-> 0, exit |-> 9]]
    /\ drv = [d \in Drivers |-> [pc |-> "off", id |-> 0, left |-> 0]]
    /\ faults = 0

-------------------------------------------------------------------------------
(* The verbs: whether one asks for consent, stops at --dry-run, and has a   *)
(* way that generates ABAP when SAP has no driver.                          *)
Verb(asks, dry, generates) == [asks |-> asks, dry |-> dry, generates |-> generates]

SyncCreate   == Verb(TRUE, TRUE, TRUE)
SyncRun      == Verb(TRUE, TRUE, TRUE)
SyncSchedule == Verb(TRUE, TRUE, TRUE)
SyncSetWm    == Verb(TRUE, TRUE, FALSE)
SyncPreview  == Verb(FALSE, TRUE, FALSE)
SyncValidate == Verb(FALSE, TRUE, FALSE)
SyncUnpark   == Verb(FALSE, TRUE, FALSE)
SyncDrop     == Verb(FALSE, TRUE, FALSE)
RunDaemon    == Verb(FALSE, FALSE, FALSE)
RunSub       == Verb(FALSE, FALSE, FALSE)
RunMass      == Verb(TRUE, FALSE, FALSE)
CdcStatus    == Verb(FALSE, FALSE, FALSE)
CdcChange    == Verb(TRUE, FALSE, FALSE)
RunRetain    == Verb(FALSE, FALSE, FALSE)
RunReplicate == Verb(TRUE, TRUE, TRUE)

Verbs == {SyncCreate, SyncRun, SyncSchedule, SyncSetWm, SyncPreview, SyncValidate, SyncUnpark,
          SyncDrop, RunDaemon, RunSub, RunMass, CdcStatus, CdcChange, RunRetain, RunReplicate}

Step(c, new) == cli' = [cli EXCEPT ![c] = new]

Exit(c, code) ==
    Step(c, [cli[c] EXCEPT !.pc = "exit", !.exit = code, !.seen = Nobody])

\* An unknown flag, a missing value, a bad one: nothing is asked or written.
RefuseUnknownFlags(c) ==
    /\ cli[c].pc = "idle"
    /\ Exit(c, 2) /\ UNCHANGED <<serverVars, rows, drv, faults>>

DryRun(c) ==
    /\ cli[c].pc = "idle" /\ \E v \in Verbs : v.dry
    /\ Exit(c, 0) /\ UNCHANGED <<serverVars, rows, drv, faults>>

\* Nobody says yes: 1 at a terminal, 2 where there is none.
ConsentGate(c) ==
    /\ cli[c].pc = "idle" /\ \E v \in Verbs : v.asks
    /\ \E code \in {1, 2} : Exit(c, code)
    /\ UNCHANGED <<serverVars, rows, drv, faults>>

\* No driver in SAP: a class is generated, run and deleted, or a job submitted.
RunGenerated(c) ==
    /\ cli[c].pc = "idle" /\ \E v \in Verbs : v.generates
    /\ \E code \in {0, 1, 3} : Exit(c, code)
    /\ UNCHANGED <<serverVars, rows, drv, faults>>

RunViaDriver(c) ==
    /\ cli[c].pc = "idle"
    /\ Step(c, [cli[c] EXCEPT !.pc = "detect"])
    /\ UNCHANGED <<serverVars, rows, drv, faults>>

-------------------------------------------------------------------------------
(* Detect and Open, for the insert (no id yet) and again for the result.    *)
ReadServerState(c) ==
    /\ cli[c].pc = "detect"
    /\ Step(c, [cli[c] EXCEPT !.pc = "judge", !.seen = state])
    /\ UNCHANGED <<serverVars, rows, drv, faults>>

\* The pid that was read is dead: whatever the file holds by now is removed.
JudgeServerState(c) ==
    /\ cli[c].pc = "judge"
    /\ IF Alive(cli[c].seen) \/ cli[c].seen = Nobody
       THEN Step(c, [cli[c] EXCEPT !.pc = "open"]) /\ UNCHANGED state
       ELSE Step(c, [cli[c] EXCEPT !.pc = "open", !.seen = Nobody]) /\ state' = Nobody
    /\ UNCHANGED <<proc, lock, schema, quack, rows, drv, faults>>

\* What a command does in the file it has reached.
Insert(c, f) ==
    /\ rows' = [rows EXCEPT ![f] = Append(@, [status |-> "PENDING", runs |-> 0, good |-> FALSE])]
    /\ IF c \in QueueOnly
       THEN Step(c, [cli[c] EXCEPT !.pc = "exit", !.id = Len(rows[f]) + 1, !.exit = 3, !.seen = Nobody])
       ELSE Step(c, [cli[c] EXCEPT !.pc = "run", !.id = Len(rows[f]) + 1, !.seen = Nobody])

\* Mutant of Verdict: only a row in error is a failure.
VerdictUnlessError(status) == IF status = "ERROR" THEN 1 ELSE 0

Verdict(status) == IF status = "DONE" THEN 0 ELSE 1

CommandResult(c, f) ==
    /\ Exit(c, IF cli[c].id \in DOMAIN rows[f] THEN Verdict(rows[f][cli[c].id].status) ELSE 1)
    /\ UNCHANGED rows

Ask(c, f) == IF cli[c].id = 0 THEN Insert(c, f) ELSE CommandResult(c, f)

AskServer(c) ==
    /\ cli[c].pc = "open" /\ cli[c].seen \in quack
    /\ Ask(c, Db)
    /\ UNCHANGED <<serverVars, drv, faults>>

\* The same constructor as the server's: the command migrates the file, too.
OpenFile(c) ==
    /\ cli[c].pc = "open" /\ cli[c].seen = Nobody /\ lock[CliFile[c]] = Nobody
    /\ lock' = [lock EXCEPT ![CliFile[c]] = c]
    /\ schema' = [schema EXCEPT ![CliFile[c]] = [landed |-> Latest, version |-> Latest]]
    /\ Step(c, [cli[c] EXCEPT !.pc = "file"])
    /\ UNCHANGED <<proc, quack, state, rows, drv, faults>>

AskFile(c) ==
    /\ cli[c].pc = "file"
    /\ Ask(c, CliFile[c]) /\ Release(c)
    /\ UNCHANGED <<proc, schema, quack, state, drv, faults>>

\* The listener is gone, or another process has the file open.
CannotOpen(c) ==
    /\ cli[c].pc = "open"
    /\ IF cli[c].seen = Nobody THEN lock[CliFile[c]] # Nobody ELSE cli[c].seen \notin quack
    /\ Exit(c, 1)
    /\ UNCHANGED <<serverVars, rows, drv, faults>>

\* adt::RunClass starts a driver in SAP and waits for it.
RunClass(c) ==
    /\ cli[c].pc = "run"
    /\ Step(c, [cli[c] EXCEPT !.pc = "wait"])
    /\ drv' = [drv EXCEPT ![c].pc = "claim", ![c].left = MaxClaims]
    /\ UNCHANGED <<serverVars, rows, faults>>

\* No ADT, no authorisation, a dump of the driver.
CannotRun(c) ==
    /\ cli[c].pc = "run" \/ (cli[c].pc = "wait" /\ drv[c].pc = "dumped")
    /\ Exit(c, 3)
    /\ UNCHANGED <<serverVars, rows, drv, faults>>

\* The call's time limit: the driver goes on without its caller.
TimesOut(c) ==
    /\ cli[c].pc = "wait" /\ faults < MaxFaults
    /\ Exit(c, 3) /\ faults' = faults + 1
    /\ UNCHANGED <<serverVars, rows, drv>>

HearDriver(c) ==
    /\ cli[c].pc = "wait" /\ drv[c].pc = "done"
    /\ Step(c, [cli[c] EXCEPT !.pc = "detect"])
    /\ UNCHANGED <<serverVars, rows, drv, faults>>

-------------------------------------------------------------------------------
(* The drivers.  Every statement of theirs is one RFC call.                 *)
Moves(d, new) == drv' = [drv EXCEPT ![d] = new]

Returns(d, pc) == Moves(d, [pc |-> pc, id |-> 0, left |-> 0])

\* A tick of the daemon, or a start of the job.
StartJob ==
    /\ drv[Job].pc \in {"off", "done", "dumped"}
    /\ \E i \in DOMAIN rows[Db] : rows[Db][i].status = "PENDING"
    /\ Moves(Job, [drv[Job] EXCEPT !.pc = "claim", !.left = MaxClaims])
    /\ UNCHANGED <<serverVars, rows, cli, faults>>

\* Mutant of Claimable: whatever is not finished is tried again.
NotFinished == {i \in DOMAIN rows[Db] : rows[Db][i].status \in {"PENDING", "RUNNING"}}

\* Mutant of Claimable: one command at a time.
OneAtATime ==
    {i \in DOMAIN rows[Db] : /\ rows[Db][i].status = "PENDING"
                             /\ \A j \in DOMAIN rows[Db] : rows[Db][j].status # "RUNNING"}

Claimable == {i \in DOMAIN rows[Db] : rows[Db][i].status = "PENDING"}

\* The oldest row that waits is marked and read by one statement.
Claim(d) ==
    /\ drv[d].pc = "claim" /\ drv[d].left > 0 /\ Registered # {} /\ Claimable # {}
    /\ \E i \in Claimable :
          /\ \A j \in Claimable : i <= j
          /\ rows' = [rows EXCEPT ![Db][i].status = "RUNNING"]
          /\ Moves(d, [drv[d] EXCEPT !.pc = "execute", !.id = i, !.left = @ - 1])
    /\ UNCHANGED <<serverVars, cli, faults>>

\* The answer is lost: the row is marked, and the driver returns with an error.
LoseClaim(d) ==
    /\ drv[d].pc = "claim" /\ drv[d].left > 0 /\ Registered # {} /\ Claimable # {}
    /\ faults < MaxFaults /\ faults' = faults + 1
    /\ \E i \in Claimable :
          /\ \A j \in Claimable : i <= j
          /\ rows' = [rows EXCEPT ![Db][i].status = "RUNNING"]
    /\ Returns(d, "done")
    /\ UNCHANGED <<serverVars, cli>>

\* Nothing waits, the drain has taken its share, or there is no server.
Drained(d) ==
    /\ drv[d].pc = "claim"
    /\ drv[d].left = 0 \/ Registered = {} \/ Claimable = {}
    /\ Returns(d, "done")
    /\ UNCHANGED <<serverVars, rows, cli, faults>>

\* The branch of the verb, inside one TRY: an exception is the command's error.
Execute(d) ==
    /\ drv[d].pc = "execute"
    /\ \E good \in BOOLEAN :
          /\ rows' = [rows EXCEPT ![Db][drv[d].id].runs = @ + 1, ![Db][drv[d].id].good = good]
          /\ Moves(d, [drv[d] EXCEPT !.pc = "finish"])
    /\ UNCHANGED <<serverVars, cli, faults>>

\* What no TRY catches: the row stays as it is, whatever has been done.
Dump(d) ==
    /\ drv[d].pc = "execute" /\ faults < MaxFaults /\ faults' = faults + 1
    /\ \E n \in {0, 1} : rows' = [rows EXCEPT ![Db][drv[d].id].runs = @ + n]
    /\ Returns(d, "dumped")
    /\ UNCHANGED <<serverVars, cli>>

\* The answer of this statement is not looked at: without a server the row
\* stays RUNNING and the drain goes on.
Finish(d) ==
    /\ drv[d].pc = "finish"
    /\ rows' = IF Registered = {} THEN rows
               ELSE [rows EXCEPT ![Db][drv[d].id].status = IF rows[Db][drv[d].id].good THEN "DONE" ELSE "ERROR"]
    /\ Moves(d, [drv[d] EXCEPT !.pc = "claim", !.id = 0])
    /\ UNCHANGED <<serverVars, cli, faults>>

-------------------------------------------------------------------------------
ServerRun == \E s \in Servers : ServerRuns(s) /\ UNCHANGED queueVars

ServerEnd == \E s \in Servers : ServerEnds(s) /\ UNCHANGED queueVars

CommandFront(c) ==
    RefuseUnknownFlags(c) \/ DryRun(c) \/ ConsentGate(c) \/ RunGenerated(c) \/ RunViaDriver(c)

Endpoint(c) ==
    \/ ReadServerState(c) \/ JudgeServerState(c) \/ AskServer(c)
    \/ OpenFile(c) \/ AskFile(c) \/ CannotOpen(c)

CliStep == \E c \in Clis :
    \/ Endpoint(c) \/ RunClass(c) \/ CannotRun(c) \/ HearDriver(c)

Drain(d) == Claim(d) \/ Drained(d) \/ Execute(d) \/ Finish(d)

DriverStep == StartJob \/ \E d \in Drivers : Drain(d)

Fault == \/ \E c \in Clis : TimesOut(c)
         \/ \E d \in Drivers : LoseClaim(d) \/ Dump(d)

QueueNext ==
    \/ ServerRun \/ ServerEnd \/ (\E c \in Clis : CommandFront(c)) \/ CliStep \/ DriverStep \/ Fault

QueueSpec == ServerInit /\ QueueInit /\ [][QueueNext]_vars

-------------------------------------------------------------------------------
Row == [status : {"PENDING", "RUNNING", "DONE", "ERROR"}, runs : Nat, good : BOOLEAN]

CliState ==
    [pc : {"idle", "detect", "judge", "open", "file", "run", "wait", "exit"},
     seen : Servers \cup {Nobody}, id : Nat, exit : {0, 1, 2, 3, 9}]

DriverState ==
    [pc : {"off", "claim", "execute", "finish", "done", "dumped"}, id : Nat, left : 0 .. MaxClaims]

QueueTypeOK ==
    /\ ServerTypeOK
    /\ rows \in [Files -> Seq(Row)]
    /\ cli \in [Clis -> CliState]
    /\ drv \in [Drivers -> DriverState]
    /\ faults \in 0 .. MaxFaults

\* A command takes effect once at most, with several drivers that drain the same
\* queue, dumps, lost answers, timeouts and servers that come and go.
RunsAtMostOnce == \A f \in Files : \A i \in DOMAIN rows[f] : rows[f][i].runs <= 1

\* The exit code 0 of a queued command means that it has run, once, and well,
\* also when the row is read through another server than it was written with.
ZeroMeansDone ==
    \A c \in Clis : cli[c].id # 0 /\ cli[c].exit = 0 =>
       \E i \in DOMAIN rows[Db] : /\ i = cli[c].id
                                  /\ rows[Db][i].status = "DONE"
                                  /\ rows[Db][i].runs = 1 /\ rows[Db][i].good

\* A queued command does not wait for ever, as long as a server comes back and
\* the daemon or the job drains: neither a command before it that never ends nor
\* a CLI that has given up keeps it from being taken.
QueuedIsTaken ==
    \A i \in 1 .. Cardinality(Clis) :
       (i \in DOMAIN rows[Db] /\ rows[Db][i].status = "PENDING")
          ~> (i \in DOMAIN rows[Db] /\ rows[Db][i].status # "PENDING")
===============================================================================
