----------------------------- MODULE ServerProcess -----------------------------
(***************************************************************************)
(* The life of the server process, and the file through which a command    *)
(* finds it.  A server opens the database file (DuckDB allows one process  *)
(* at a time), registers at the gateway, starts the quack listener and     *)
(* writes server.json; it shuts down in the reverse order of what others   *)
(* may rely on.  A process that ends, in whatever way, is followed by      *)
(* another one (systemd, a container, the operator), which waits for the   *)
(* file.  server.json is one file for all of them.  All processes are of one *)
(* release, with the migrations 1 .. Latest.                               *)
(***************************************************************************)
EXTENDS Naturals

CONSTANTS
    Servers,           \* server processes, each named by its pid
    Users,             \* other processes that open a database file
    Files,             \* database files
    Db,                \* the one that the servers open
    Latest,            \* the last migration of the control schema
    Nobody

ASSUME ServerAssumption ==
    /\ Db \in Files /\ Latest \in Nat \ {0} /\ Servers \cap Users = {}
    /\ Nobody \notin Servers \cup Users

VARIABLES
    proc,              \* how far each server is
    lock,              \* the process that has a file open
    schema,            \* each file: migrations that have landed, and recorded ones
    quack,             \* servers whose listener is up
    state              \* the server that server.json names

serverVars == <<proc, lock, schema, quack, state>>

ServerInit ==
    /\ proc = [s \in Servers |-> "new"]
    /\ lock = [f \in Files |-> Nobody]
    /\ schema = [f \in Files |-> [landed |-> 0, version |-> 0]]
    /\ quack = {} /\ state = Nobody

At(s, pc) == proc[s] = pc

Goes(s, pc) == proc' = [proc EXCEPT ![s] = pc]

Release(p) == lock' = [f \in Files |-> IF lock[f] = p THEN Nobody ELSE lock[f]]

Alive(s) == s \in Servers /\ proc[s] \notin {"new", "gone"}

\* The servers that take RFC calls.
Registered == {s \in Servers : proc[s] \in {"registered", "listening", "serving", "hidden", "deaf"}}

-------------------------------------------------------------------------------
(* InstallHandlers: the bridge opens the file, migrates it, creates the     *)
(* views and macros, runs the init SQL and checkpoints.                     *)
Boot(s) ==
    /\ At(s, "new") /\ lock[Db] = Nobody
    /\ lock' = [lock EXCEPT ![Db] = s]
    /\ Goes(s, "migrating") /\ UNCHANGED <<schema, quack, state>>

\* The statements of the next migration that is not recorded, each of which
\* skips what is there: after a death in between, they are run again.
ApplyMigration(s) ==
    /\ At(s, "migrating") /\ schema[Db].version < Latest
    /\ schema[Db].landed = schema[Db].version
    /\ schema' = [schema EXCEPT ![Db].landed = @ + 1]
    /\ UNCHANGED <<proc, lock, quack, state>>

\* The row of _erpl_rev_schema_version, written when they have all succeeded.
RecordMigration(s) ==
    /\ At(s, "migrating") /\ schema[Db].version < Latest
    /\ schema[Db].landed > schema[Db].version
    /\ schema' = [schema EXCEPT ![Db].version = @ + 1]
    /\ UNCHANGED <<proc, lock, quack, state>>

Migrated(s) ==
    /\ At(s, "migrating") /\ schema[Db].version = Latest
    /\ Goes(s, "open") /\ UNCHANGED <<lock, schema, quack, state>>

\* The tunnel's forward is up, or there is none, and the gateway is dialled.
Register(s) ==
    /\ At(s, "open")
    /\ Goes(s, "registered") /\ UNCHANGED <<lock, schema, quack, state>>

\* A migration fails, no forward, or no RFC server: main ends with 1.
Fatal(s) ==
    /\ At(s, "migrating") \/ At(s, "open")
    /\ Release(s)
    /\ Goes(s, "gone") /\ UNCHANGED <<schema, quack, state>>

StartQuack(s) ==
    /\ At(s, "registered")
    /\ quack' = quack \cup {s}
    /\ Goes(s, "listening") /\ UNCHANGED <<lock, schema, state>>

\* --no-quack, or the listener fails: the server goes on without, and unnamed.
NoQuack(s) ==
    /\ At(s, "registered")
    /\ Goes(s, "serving") /\ UNCHANGED <<lock, schema, quack, state>>

\* The file is replaced as a whole (a temporary file and a rename).
WriteServerState(s) ==
    /\ At(s, "listening")
    /\ state' = s
    /\ Goes(s, "serving") /\ UNCHANGED <<lock, schema, quack>>

\* A write that fails is a warning.
CannotWrite(s) ==
    /\ At(s, "listening")
    /\ Goes(s, "serving") /\ UNCHANGED <<lock, schema, quack, state>>

\* Mutant of RemoveServerState: the file goes with the listener or not at all.
RemoveServerStateLate(s) ==
    /\ At(s, "serving")
    /\ quack' = quack \ {s}
    /\ Goes(s, "hidden") /\ UNCHANGED <<lock, schema, state>>

\* The steps after a signal, as the names of the control points that follow.
RemoveServerState(s) ==
    /\ At(s, "serving")
    /\ state' = Nobody
    /\ Goes(s, "hidden") /\ UNCHANGED <<lock, schema, quack>>

StopQuack(s) ==
    /\ At(s, "hidden")
    /\ quack' = quack \ {s}
    /\ Goes(s, "deaf") /\ UNCHANGED <<lock, schema, state>>

\* RfcShutdownServer, and then the bridge: the file is closed.
Shutdown(s) ==
    /\ At(s, "deaf")
    /\ Release(s)
    /\ Goes(s, "gone") /\ UNCHANGED <<schema, quack, state>>

\* kill -9, or the machine goes: the state file stays.
Crash(s) ==
    /\ Alive(s)
    /\ Release(s) /\ quack' = quack \ {s}
    /\ Goes(s, "gone") /\ UNCHANGED <<schema, state>>

\* One server may always go on: the others may stop or crash.
MayEnd(s) == \E t \in Servers \ {s} : ~At(t, "gone")

ServerRuns(s) ==
    \/ Boot(s) \/ ApplyMigration(s) \/ RecordMigration(s) \/ Migrated(s)
    \/ Register(s) \/ StartQuack(s) \/ NoQuack(s)
    \/ WriteServerState(s) \/ CannotWrite(s) \/ StopQuack(s) \/ Shutdown(s)

ServerEnds(s) == MayEnd(s) /\ (Fatal(s) \/ RemoveServerState(s) \/ Crash(s))

-------------------------------------------------------------------------------
ServerTypeOK ==
    /\ proc \in [Servers -> {"new", "migrating", "open", "registered", "listening", "serving",
                             "hidden", "deaf", "gone"}]
    /\ lock \in [Files -> Servers \cup Users \cup {Nobody}]
    /\ schema \in [Files -> [landed : 0 .. Latest, version : 0 .. Latest]]
    /\ quack \subseteq Servers /\ state \in Servers \cup {Nobody}

\* A command that reads a living pid out of server.json finds that process
\* listening, with the database open and every migration landed in it: from the
\* write after the listener is up to the removal, which is the first thing a
\* shutdown does, through crashes, also between a migration's statements and the
\* record of its version, failed boots, and commands that remove the file of a
\* dead process.
NamedServerListens ==
    Alive(state) => /\ state \in quack /\ lock[Db] = state
                    /\ schema[Db].landed = Latest
===============================================================================
