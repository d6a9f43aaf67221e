------------------------------- MODULE CdcTier --------------------------------
(***************************************************************************)
(* The trigger tier for one target: customer-owned triggers write a shadow *)
(* log beside every change of the source, and a cycle stages the new log   *)
(* rows, applies them in the server and prunes what was confirmed.         *)
(*                                                                         *)
(* A session is an ABAP work process: the daemon's tick thread, the batch  *)
(* driver of the command queue or a job that calls zcl_erpl_rev_cdc=>run.  *)
(* It runs one cycle or one operator command at a time; each step below is *)
(* one statement it sends to the SAP database or one call of the server.   *)
(*                                                                         *)
(* Abstractions.  A row is a key and a value.  The three triggers of the   *)
(* I/U/D modes are named by their operation; DELETE_ONLY is not modelled.  *)
(* The change log is kept as the table a subscriber obtains by replaying   *)
(* it.  A key whose last change no trigger caught, or whose log row went   *)
(* with the log, is `missed` until a trigger catches a change of it again. *)
(***************************************************************************)
EXTENDS Integers, Sequences, FiniteSets

CONSTANTS
    Keys, Values,
    Null,              \* no row, no transaction
    Txns,              \* SAP transactions that can be open at once
    Sessions,          \* work processes
    Modes,             \* modes an operator provisions
    Slice,             \* rows that one ingest call or one page carries
    MaxChanges, MaxFaults  \* bounds

Ops     == {"D", "I", "U"}
Objects == {"seq", "log"} \cup Ops

ASSUME CdcTierAssumption ==
    /\ Null \notin Values
    /\ Modes \subseteq {"KEYS_IUD", "IMAGE_IUD"} /\ Modes # {}
    /\ Slice \in Nat \ {0}
    /\ MaxChanges \in Nat /\ MaxFaults \in Nat

VARIABLES
    source,            \* the SAP table, as committed
    tx,                \* open SAP transactions: one change each
    nextSeq,           \* ZCDC_*_SEQ
    slog,              \* ZCDC_*_LOG: the committed shadow rows
    there, off,        \* objects in the catalogue; triggers that are disabled
    missed,            \* keys with a change the log does not hold
    target, replay,    \* the replicated table; its change log, replayed
    cdc,               \* the target's row in _erpl_rev_cdc
    stage, images,     \* <target>__cdclog and <target>__cdcimg
    job,               \* what each session is doing
    changes, faults    \* changes made at the source, failures met (bounded)

sap     == <<source, tx, nextSeq, slog, there, off, missed, changes>>
server  == <<target, replay, cdc, stage, images>>
vars    == <<sap, server, job, faults>>

-------------------------------------------------------------------------------
Row      == Values \cup {Null}
NoRows   == [k \in Keys |-> Null]
NoTable  == [there |-> FALSE, rows |-> {}]
NoImages == [there |-> FALSE, rows |-> NoRows]
Idle     == [pc |-> "idle", verb |-> "none", mode |-> Null, pos |-> 0, rows |-> {},
             net |-> {}, left |-> {}, bound |-> 0, todo |-> <<>>, gone |-> {}]

\* The objects in the order provision_ddl creates and teardown_ddl drops them.
ProvisionOrder == <<"seq", "log", "D", "I", "U">>
TeardownOrder  == <<"D", "I", "U", "log", "seq">>
Drops   == [i \in DOMAIN TeardownOrder  |-> [act |-> "drop",   obj |-> TeardownOrder[i]]]
Creates == [i \in DOMAIN ProvisionOrder |-> [act |-> "create", obj |-> ProvisionOrder[i]]]

Enabled == there \ off

\* Mutant of Scheduled: only a target that has applied a batch is cycled.
ScheduledActive == cdc.status = "ACTIVE"

\* The planner's gate on a trigger target.
Scheduled == cdc.status \in {"SEEDED", "ACTIVE"}

\* Mutant of Highest: the first sequence that was not consumed.
FirstUnused(S) == 1 + CHOOSE n \in {r.seq : r \in S} : \A r \in S : r.seq <= n

Highest(S) == CHOOSE n \in {r.seq : r \in S} : \A r \in S : r.seq <= n

\* Keys whose latest row in S, by sequence, is one of ops.
NetKeys(S, ops) ==
    {k \in Keys : \E r \in S : /\ r.key = k /\ r.op \in ops
                               /\ \A q \in S : q.key = k => q.seq <= r.seq}

\* The row image that the latest log row of k carries.
LoggedRow(S, k) ==
    (CHOOSE r \in S : r.key = k /\ \A q \in S : q.key = k => q.seq <= r.seq).row

\* A call hands over at most Slice of the rows still to send.
Portion(S) ==
    {P \in SUBSET S : Cardinality(P) = IF Cardinality(S) < Slice THEN Cardinality(S) ELSE Slice}

AllowedCdcTransition(from, to) ==
    \/ to \in {"INCONSISTENT", "ERROR"}
    \/ from \in {"INCONSISTENT", "ERROR"} /\ to \in {"ACTIVE", "SEEDED", "PROVISIONED", "DISABLED"}
    \/ from = "PROVISIONED" /\ to \in {"SEEDED", "DISABLED"}
    \/ from = "SEEDED" /\ to \in {"ACTIVE", "DISABLED"}
    \/ from = "ACTIVE" /\ to \in {"ACTIVE", "DISABLED"}
    \/ from = "DISABLED" /\ to = "PROVISIONED"

\* CdcSetStatus: the stored status itself is no transition; it stays.
StatusSet(to) == [cdc EXCEPT !.status = to]
MaySet(to)    == cdc.status = to \/ AllowedCdcTransition(cdc.status, to)

\* Derive: what the probe found missing, unless the set is down on purpose.
Derived(gone) ==
    IF cdc.status = "DISABLED" THEN "DISABLED"
    ELSE IF gone = {} THEN "ACTIVE" ELSE "INCONSISTENT"

\* The objects a provisioning statement names: a trigger's body inserts into
\* the log with the next value of the sequence.
Names(obj) == IF obj \in Ops THEN {obj, "log", "seq"} ELSE {obj}

\* RepairPlan: every provisioning statement that names a missing object.
RepairPlan(gone) ==
    LET wanted(i) == IF Names(Creates[i].obj) \cap gone # {} THEN <<Creates[i]>> ELSE <<>>
    IN  wanted(1) \o wanted(2) \o wanted(3) \o wanted(4) \o wanted(5)

-------------------------------------------------------------------------------
\* The target has been loaded once; nothing is provisioned yet.
Init ==
    /\ source \in [Keys -> Row]
    /\ tx = [t \in Txns |-> Null]
    /\ nextSeq = 1
    /\ slog = {}
    /\ there = {} /\ off = {}
    /\ missed = {}
    /\ changes = 0
    /\ target = source
    /\ replay = source
    /\ cdc = [status |-> "NONE", position |-> 0, mode |-> Null]
    /\ stage = NoTable
    /\ images = NoImages
    /\ job = [s \in Sessions |-> Idle]
    /\ faults = 0

Fault == faults < MaxFaults /\ faults' = faults + 1

At(s, pc)   == job[s].pc = pc
Does(s, f)  == job' = [job EXCEPT ![s] = f]
Ends(s)     == Does(s, Idle)

-------------------------------------------------------------------------------
(* The SAP side: business transactions and out-of-band changes. *)

\* A statement changes a row that no open transaction holds.  An enabled
\* trigger draws the next sequence value at once; its log row becomes visible
\* with the transaction.
Change(t, k, v) ==
    LET op     == IF source[k] = Null THEN "I" ELSE IF v = Null THEN "D" ELSE "U"
        caught == op \in Enabled
    IN
    /\ tx[t] = Null
    /\ v # source[k]
    /\ \A u \in Txns : tx[u] # Null => tx[u].key # k
    /\ caught => {"log", "seq"} \subseteq there
    /\ changes < MaxChanges
    /\ changes' = changes + 1
    /\ tx' = [tx EXCEPT ![t] = [key |-> k, row |-> v, op |-> op,
                                seq |-> IF caught THEN nextSeq ELSE 0]]
    /\ nextSeq' = IF caught THEN nextSeq + 1 ELSE nextSeq
    /\ UNCHANGED <<source, slog, there, off, missed, server, job, faults>>

\* A log row of a mode: IMAGE_IUD carries the row, KEYS_IUD only its key.
LogRow(c) == [key |-> c.key, op |-> c.op, seq |-> c.seq,
              row |-> IF cdc.mode = "IMAGE_IUD" THEN c.row ELSE Null]

SapCommit(t) ==
    LET c == tx[t] IN
    /\ c # Null
    /\ source' = [source EXCEPT ![c.key] = c.row]
    /\ IF c.seq > 0
       THEN slog' = slog \cup {LogRow(c)} /\ missed' = missed \ {c.key}
       ELSE missed' = missed \cup {c.key} /\ UNCHANGED slog
    /\ tx' = [tx EXCEPT ![t] = Null]
    /\ UNCHANGED <<nextSeq, there, off, changes, server, job, faults>>

\* A rolled-back transaction leaves a gap in the sequence.
SapRollback(t) ==
    /\ tx[t] # Null
    /\ tx' = [tx EXCEPT ![t] = Null]
    /\ UNCHANGED <<source, nextSeq, slog, there, off, missed, changes, server, job,
                   faults>>

\* A transport, a system copy or an administrator drops or disables a trigger.
LoseTrigger(o) ==
    /\ o \in Enabled
    /\ Fault
    /\ \/ there' = there \ {o} /\ UNCHANGED off
       \/ off' = off \cup {o} /\ UNCHANGED there
    /\ UNCHANGED <<source, tx, nextSeq, slog, missed, changes, server, job>>

-------------------------------------------------------------------------------
(* A cycle: zcl_erpl_rev_cdc=>run. *)

\* The planner schedules the target and the server plans the cycle: from here
\* on the session works from this position.
PlanCycle(s) ==
    /\ At(s, "idle")
    /\ Scheduled
    /\ Does(s, [Idle EXCEPT !.pc = "create", !.verb = "cycle",
                            !.mode = cdc.mode, !.pos = cdc.position])
    /\ UNCHANGED <<sap, server, faults>>

\* replicate_native drops and creates the staging table...
CreateStage(s) ==
    /\ At(s, "create")
    /\ "log" \in there
    /\ stage' = [there |-> TRUE, rows |-> {}]
    /\ Does(s, [job[s] EXCEPT !.pc = "read"])
    /\ UNCHANGED <<sap, target, replay, cdc, images, faults>>

\* Mutant of Unread: the position is taken for the next sequence to consume.
UnreadFrom(s) == {r \in slog : r.seq > job[s].pos + 1}

Unread(s) == {r \in slog : r.seq > job[s].pos}

\* ...reads every new log row into memory...
ReadLog(s) ==
    /\ At(s, "read")
    /\ "log" \in there
    /\ Does(s, [job[s] EXCEPT !.pc = "ingest", !.rows = Unread(s)])
    /\ UNCHANGED <<sap, server, faults>>

\* ...and sends them in slices, in no order.
IngestSlice(s) ==
    /\ At(s, "ingest")
    /\ job[s].rows # {} /\ stage.there
    /\ \E P \in Portion(job[s].rows) :
          /\ stage' = [stage EXCEPT !.rows = @ \cup P]
          /\ Does(s, [job[s] EXCEPT !.rows = @ \ P])
    /\ UNCHANGED <<sap, target, replay, cdc, images, faults>>

\* Everything is staged.  A KEYS_IUD cycle asks which keys to read again; a
\* batch without net inserts and updates needs no images.
NetKeysQuery(s) ==
    LET net == IF job[s].mode = "KEYS_IUD" THEN NetKeys(stage.rows, {"I", "U"}) ELSE {} IN
    /\ At(s, "ingest")
    /\ job[s].rows = {} /\ stage.there
    /\ Does(s, [job[s] EXCEPT !.pc = IF net = {} THEN "size" ELSE "images",
                              !.net = net, !.left = net])
    /\ UNCHANGED <<sap, server, faults>>

CreateImages(s) ==
    /\ At(s, "images")
    /\ images' = [there |-> TRUE, rows |-> NoRows]
    /\ Does(s, [job[s] EXCEPT !.pc = "reread"])
    /\ UNCHANGED <<sap, target, replay, cdc, stage, faults>>

\* Read one page of those keys from the source; a key that is gone yields none.
Reread(s) ==
    /\ At(s, "reread")
    /\ images.there
    /\ \E P \in Portion(job[s].left) :
          /\ images' = [images EXCEPT !.rows = [k \in Keys |->
                            IF k \in P THEN source[k] ELSE @[k]]]
          /\ Does(s, [job[s] EXCEPT !.left = @ \ P,
                                    !.pc = IF P = job[s].left THEN "size" ELSE "reread"])
    /\ UNCHANGED <<sap, target, replay, cdc, stage, faults>>

\* Z_DUCKDB_CDC_APPLY before its transaction: an empty batch is dropped and
\* nothing applied, otherwise the highest staged sequence is the new position.
Size(s) ==
    /\ At(s, "size")
    /\ stage.there
    /\ job[s].net # {} => images.there
    /\ IF stage.rows = {}
       THEN stage' = NoTable /\ Ends(s)
       ELSE /\ Does(s, [job[s] EXCEPT !.pc = "apply", !.bound = Highest(stage.rows)])
            /\ UNCHANGED stage
    /\ UNCHANGED <<sap, target, replay, cdc, images, faults>>

NetDeleted == NetKeys(stage.rows, {"D"})
NetWritten == NetKeys(stage.rows, {"I", "U"})

\* What an insert or update of k writes: the image read again, or the one the
\* log carries.
NewRow(s, k) == IF job[s].net # {} THEN images.rows[k] ELSE LoggedRow(stage.rows, k)

\* Mirror race: written according to the log, gone when read again.
Vanished(s) == {k \in NetWritten : job[s].net # {} /\ images.rows[k] = Null}

\* Mutant of LogOf: only the net deletes are logged as deletes.
LogNetDeletesOnly(s) ==
    [k \in Keys |-> IF k \in NetDeleted /\ target[k] # Null THEN Null
                    ELSE IF k \in NetWritten \ Vanished(s) THEN NewRow(s, k) ELSE replay[k]]

\* The change log: a delete for each row that leaves the target, the new row
\* for each one written.
LogOf(s) ==
    [k \in Keys |->
        IF k \in NetDeleted \cup Vanished(s) /\ target[k] # Null THEN Null
        ELSE IF k \in NetWritten \ Vanished(s) THEN NewRow(s, k) ELSE replay[k]]

Applied(s) ==
    [k \in Keys |-> IF k \in NetDeleted \cup Vanished(s) THEN Null
                    ELSE IF k \in NetWritten THEN NewRow(s, k) ELSE target[k]]

\* The transaction.  Its answer may be lost: then nothing is pruned.
Apply(s) ==
    /\ At(s, "apply")
    /\ stage.there
    /\ job[s].net # {} => images.there
    /\ target' = Applied(s)
    /\ replay' = LogOf(s)
    /\ cdc' = [cdc EXCEPT !.position = job[s].bound, !.status = "ACTIVE"]
    /\ stage' = NoTable
    /\ images' = IF job[s].net # {} THEN NoImages ELSE images
    /\ \/ Does(s, [job[s] EXCEPT !.pc = "prune"]) /\ UNCHANGED faults
       \/ Ends(s) /\ Fault
    /\ UNCHANGED sap

\* A batch that cannot be applied: rolled back, and the target parked.
ApplyFails(s) ==
    /\ At(s, "size") \/ At(s, "apply")
    /\ IF stage.there /\ (job[s].net # {} => images.there) THEN Fault ELSE UNCHANGED faults
    /\ cdc' = StatusSet("ERROR")
    /\ Ends(s)
    /\ UNCHANGED <<sap, target, replay, stage, images>>

Prune(s) ==
    /\ At(s, "prune")
    /\ slog' = {r \in slog : r.seq > job[s].bound}
    /\ Ends(s)
    /\ UNCHANGED <<source, tx, nextSeq, there, off, missed, changes, server, faults>>

-------------------------------------------------------------------------------
(* Operator commands. *)

\* provision: register anew with position 0, drop what is left of an earlier
\* set, create the objects.
Provision(s, m) ==
    /\ At(s, "idle")
    /\ cdc' = [status |-> "PROVISIONED", position |-> 0, mode |-> m]
    /\ Does(s, [Idle EXCEPT !.pc = "ddl", !.verb = "provision", !.todo = Drops \o Creates])
    /\ UNCHANGED <<sap, target, replay, stage, images, faults>>

\* teardown: DISABLED first, then the drops.
Teardown(s) ==
    /\ At(s, "idle")
    /\ cdc.status # "NONE" /\ MaySet("DISABLED")
    /\ cdc' = StatusSet("DISABLED")
    /\ Does(s, [Idle EXCEPT !.pc = "ddl", !.verb = "teardown", !.todo = Drops])
    /\ UNCHANGED <<sap, target, replay, stage, images, faults>>

\* `cdc status` and `cdc repair` first look into the catalogue.
Probe(s, verb) ==
    /\ At(s, "idle")
    /\ cdc.status # "NONE"
    /\ Does(s, [Idle EXCEPT !.pc = "derive", !.verb = verb, !.gone = Objects \ Enabled])
    /\ UNCHANGED <<sap, server, faults>>

\* CDC_STATUS stores the verdict, or refuses a transition the registry does not
\* allow and the command ends; CDC_REPAIR then plans what is missing.
Derive(s) ==
    LET verdict == Derived(job[s].gone) IN
    /\ At(s, "derive")
    /\ IF MaySet(verdict) THEN cdc' = StatusSet(verdict) ELSE UNCHANGED cdc
    /\ IF MaySet(verdict) /\ job[s].verb = "repair"
       THEN Does(s, [job[s] EXCEPT !.pc = "ddl", !.todo = RepairPlan(job[s].gone)])
       ELSE Ends(s)
    /\ UNCHANGED <<sap, target, replay, stage, images, faults>>

\* DDL on the log waits for the transactions that wrote to it.
DropObject(obj) ==
    /\ there' = there \ {obj}
    /\ off' = off \ {obj}
    /\ IF obj = "log"
       THEN /\ \A t \in Txns : tx[t] # Null => tx[t].seq = 0
            /\ slog' = {}
            /\ missed' = missed \cup {k \in Keys : target[k] # source[k]}
       ELSE UNCHANGED <<slog, missed>>
    /\ UNCHANGED <<source, tx, nextSeq, changes>>

CreateObject(obj) ==
    /\ there' = there \cup {obj}
    /\ nextSeq' = IF obj = "seq" THEN 1 ELSE nextSeq
    /\ UNCHANGED <<source, tx, slog, off, missed, changes>>

\* One DDL statement.  A drop that fails is passed over; a CREATE of what the
\* catalogue holds already, disabled or not, ends the command.
ExecDdl(s) ==
    LET d == Head(job[s].todo) IN
    /\ At(s, "ddl") /\ job[s].todo # <<>>
    /\ IF d.act = "drop" THEN
          /\ DropObject(d.obj)
          /\ Does(s, [job[s] EXCEPT !.todo = Tail(@)])
       ELSE IF d.obj \notin there THEN
          /\ CreateObject(d.obj)
          /\ Does(s, [job[s] EXCEPT !.todo = Tail(@)])
       ELSE Ends(s) /\ UNCHANGED sap
    /\ UNCHANGED <<server, faults>>

\* After the last statement: provision is SEEDED, a repair looks again.
DdlDone(s) ==
    /\ At(s, "ddl") /\ job[s].todo = <<>>
    /\ IF job[s].verb = "provision" /\ MaySet("SEEDED")
       THEN cdc' = StatusSet("SEEDED") ELSE UNCHANGED cdc
    /\ IF job[s].verb = "repair"
       THEN Does(s, [Idle EXCEPT !.pc = "derive", !.verb = "recheck", !.gone = Objects \ Enabled])
       ELSE Ends(s)
    /\ UNCHANGED <<sap, target, replay, stage, images, faults>>

\* A call or a statement fails, the process dies, or a table of this cycle was
\* taken away: the run ends where it is.
Aborts(s) ==
    /\ ~At(s, "idle")
    /\ IF \/ job[s].pc \in {"create", "read", "prune"} /\ "log" \notin there
          \/ At(s, "ingest") /\ ~stage.there
          \/ At(s, "reread") /\ ~images.there
       THEN UNCHANGED faults ELSE Fault
    /\ Ends(s)
    /\ UNCHANGED <<sap, server>>

-------------------------------------------------------------------------------
Sap ==
    \/ \E t \in Txns, k \in Keys, v \in Row : Change(t, k, v)
    \/ \E t \in Txns : SapCommit(t) \/ SapRollback(t)
    \/ \E o \in Ops : LoseTrigger(o)

Cycle(s) ==
    \/ CreateStage(s) \/ ReadLog(s) \/ IngestSlice(s) \/ NetKeysQuery(s)
    \/ CreateImages(s) \/ Reread(s) \/ Size(s) \/ Apply(s) \/ Prune(s)

Command(s) ==
    \/ \E m \in Modes : Provision(s, m)
    \/ Teardown(s)
    \/ \E verb \in {"status", "repair"} : Probe(s, verb)

Statement(s) == Derive(s) \/ ExecDdl(s) \/ DdlDone(s)

Next ==
    \/ Sap
    \/ \E s \in Sessions :
          PlanCycle(s) \/ Cycle(s) \/ Command(s) \/ Statement(s) \/ ApplyFails(s) \/ Aborts(s)

Spec == Init /\ [][Next]_vars

\* SAP transactions end, a session that has begun goes on, and the tick loop
\* plans a cycle again and again however many commands it drains in between.
Fairness ==
    /\ \A t \in Txns : WF_vars(SapCommit(t) \/ SapRollback(t))
    /\ \A s \in Sessions : WF_vars(Cycle(s) \/ Statement(s)) /\ SF_vars(PlanCycle(s))

FairSpec == Spec /\ Fairness

-------------------------------------------------------------------------------
(* Properties. *)

\* Every variable has its type.
LogRows == [key : Keys, op : Ops, seq : 1 .. MaxChanges, row : Row]
Status  == {"NONE", "PROVISIONED", "SEEDED", "ACTIVE", "DISABLED", "INCONSISTENT", "ERROR"}

TypeOK ==
    /\ source \in [Keys -> Row]
    /\ \A t \in Txns :
          tx[t] # Null => tx[t] \in [key : Keys, row : Row, op : Ops, seq : 0 .. MaxChanges]
    /\ nextSeq \in 1 .. MaxChanges + 1
    /\ slog \subseteq LogRows
    /\ there \subseteq Objects /\ off \subseteq there \cap Ops
    /\ missed \subseteq Keys
    /\ target \in [Keys -> Row] /\ replay \in [Keys -> Row]
    /\ cdc \in [status : Status, position : 0 .. MaxChanges, mode : Modes \cup {Null}]
    /\ stage.rows \subseteq LogRows
    /\ images.rows \in [Keys -> Row]
    /\ changes \in 0 .. MaxChanges /\ faults \in 0 .. MaxFaults

\* At-least-once: a row that differs from the source has a log row the next
\* cycle still reads, unless no trigger caught its last change.  Crashes, lost
\* answers, re-reads that meet newer rows and prunes must not break it.  (From
\* DISABLED the only way on is a new provisioning.)
NoChangeIsLost ==
    \A k \in Keys \ missed :
        \/ cdc.status = "DISABLED"
        \/ target[k] = source[k]
        \/ \E r \in slog : r.key = k /\ r.seq > cdc.position

\* Replaying the change log gives the target: every row that leaves it has a
\* delete, also one that was gone when it was read again.
LogReplaysTarget == replay = target

\* A target the planner schedules catches up with the source, or leaves the
\* statuses it is scheduled in, where `cdc status` shows why.
CatchesUp ==
    \A k \in Keys :
        cdc.status \in {"SEEDED", "ACTIVE"} /\ k \notin missed
            ~> \/ target[k] = source[k] \/ k \in missed
               \/ cdc.status \notin {"SEEDED", "ACTIVE"}
===============================================================================
