------------------------------ MODULE CdcTierProofs ------------------------------
(***************************************************************************)
(* Proofs about the trigger tier of one target, for all keys, values,      *)
(* slices, changes and faults.                                             *)
(***************************************************************************)
EXTENDS CdcTier, FiniteSetTheorems, SequenceTheorems, WellFoundedInduction,
        TLAPS

-------------------------------------------------------------------------------
(* The parts of the inductive invariants.                                   *)

\* One session at a time works on the target; one SAP transaction at a time has
\* it open; it is provisioned in one mode only.
OneSession     == \A s, u \in Sessions : s = u
OneTransaction == \A t, u \in Txns : t = u
OneMode        == \A m, n \in Modes : m = n

Statements == [act : {"create", "drop"}, obj : Objects]

JobState ==
    [pc : {"idle", "create", "read", "ingest", "images", "reread", "size", "apply", "prune",
           "ddl", "derive"},
     verb : {"none", "cycle", "provision", "teardown", "status", "repair", "recheck"},
     mode : Modes \cup {Null}, pos : 0 .. MaxChanges, rows : SUBSET LogRows, net : SUBSET Keys,
     left : SUBSET Keys, bound : 0 .. MaxChanges, todo : Seq(Statements), gone : SUBSET Objects]

Entries == [key : Keys, row : Row, op : Ops, seq : 0 .. MaxChanges]

\* What the types of the sequence, the tables and the sessions rest on.
TypeInv ==
    /\ TypeOK
    /\ nextSeq <= changes + 1
    /\ tx \in [Txns -> Entries \cup {Null}]
    /\ stage \in [there : BOOLEAN, rows : SUBSET LogRows]
    /\ images \in [there : BOOLEAN, rows : [Keys -> Row]]
    /\ job \in [Sessions -> JobState]
    /\ \A s \in Sessions : At(s, "apply") => job[s].bound \in 1 .. MaxChanges

Drawn(t) == tx[t] # Null /\ tx[t].seq > 0

\* Sequence values are below the next one and name one row.
SeqInv ==
    /\ \A r \in slog : r.seq < nextSeq
    /\ \A t \in Txns : Drawn(t) => tx[t].seq < nextSeq
    /\ \A q, r \in slog : q.seq = r.seq => q = r
    /\ \A t \in Txns, r \in slog : Drawn(t) => tx[t].seq # r.seq
    /\ \A t, u \in Txns : Drawn(t) /\ Drawn(u) /\ tx[t].seq = tx[u].seq => t = u

\* Without a log nothing is logged; a log has its sequence.
CatalogueInv ==
    /\ "log" \notin there => slog = {} /\ \A t \in Txns : ~Drawn(t)
    /\ "log" \in there => "seq" \in there

Is(d, act, obj) == d.act = act /\ d.obj = obj

\* The statements left to do keep it so: the log goes before the sequence and
\* comes after it.
OrderInv(todo) ==
    /\ \A i, j \in DOMAIN todo : i < j /\ todo[i].act = "create" => todo[j].act = "create"
    /\ \A i \in DOMAIN todo : Is(todo[i], "drop", "seq") =>
          "log" \notin there \/ \E j \in DOMAIN todo : j < i /\ Is(todo[j], "drop", "log")
    /\ \A i \in DOMAIN todo : Is(todo[i], "create", "log") =>
          \/ \E j \in DOMAIN todo : j < i /\ Is(todo[j], "create", "seq")
          \/ "seq" \in there /\ \A j \in DOMAIN todo : j < i => ~Is(todo[j], "drop", "seq")

DdlInv ==
    \A s \in Sessions :
       /\ At(s, "ddl") => OrderInv(job[s].todo)
       /\ At(s, "derive") => "seq" \in there \/ "seq" \in job[s].gone

InBatch(s) == job[s].pc \in {"ingest", "images", "reread", "size", "apply"}
AllStaged(s) == job[s].pc \in {"images", "reread", "size", "apply"}

\* What a cycle has read is in the log, and is staged by and by.
StageInv ==
    \A s \in Sessions :
       /\ At(s, "read") => stage.rows = {}
       /\ InBatch(s) => stage.rows \cup job[s].rows \subseteq slog
       /\ AllStaged(s) => job[s].rows = {}

LogInv == SeqInv /\ CatalogueInv /\ DdlInv /\ StageInv /\ replay = target

\* With one transaction at a time, rows become visible in the order of the sequence.
OrderedInv ==
    /\ \A t \in Txns, r \in slog : Drawn(t) => r.seq < tx[t].seq
    /\ cdc.status # "DISABLED" =>
          /\ cdc.position < nextSeq
          /\ \A t \in Txns : Drawn(t) => cdc.position < tx[t].seq
          /\ "seq" \notin there => cdc.position = 0

Latest(r) == \A q \in slog : q.key = r.key => q.seq <= r.seq

\* The latest log row of a key says what the source holds; a transaction's entry
\* what it will hold.
RowInv ==
    /\ \A t \in Txns : tx[t] # Null => (tx[t].op = "D" <=> tx[t].row = Null)
    /\ \A r \in slog : Latest(r) /\ r.key \notin missed =>
          /\ r.op = "D" <=> source[r.key] = Null
          /\ cdc.mode = "IMAGE_IUD" /\ r.op # "D" => r.row = source[r.key]

\* Before the first provisioning there is no log; after it the target has a mode.
ModeInv ==
    /\ cdc.status = "NONE" => "log" \notin there /\ \A s \in Sessions : At(s, "idle")
    /\ cdc.status # "NONE" => cdc.mode \in Modes

InCycle(s) == job[s].pc \in {"create", "read"} \/ InBatch(s)

\* A cycle works from the stored position; past Apply, from its new one.  Only a
\* provisioning and a teardown drop objects.
RunInv ==
    \A s \in Sessions :
       /\ InCycle(s) => /\ cdc.status \in {"SEEDED", "ACTIVE"}
                         /\ job[s].pos = cdc.position /\ job[s].mode = cdc.mode
       /\ At(s, "prune") => cdc.status = "ACTIVE" /\ job[s].bound = cdc.position
       /\ At(s, "ddl") =>
             \/ cdc.status = "DISABLED" \/ cdc.position = 0
             \/ \A i \in DOMAIN job[s].todo : job[s].todo[i].act = "create"

\* A log row beyond all that this batch has read.
After(s, r) == \A q \in stage.rows \cup job[s].rows : q.seq < r.seq

ReadAgain(s) ==
    IF At(s, "reread") THEN job[s].net \ job[s].left
    ELSE IF job[s].pc \in {"size", "apply"} THEN job[s].net ELSE {}

\* A batch has every row from its position on but those that are newer than all of
\* it; and an image read again is the source's row, or a newer log row follows.
BatchInv ==
    \A s \in Sessions :
       /\ InBatch(s) =>
             /\ \A r \in stage.rows \cup job[s].rows : r.seq > job[s].pos
             /\ \A r \in slog : r.seq > job[s].pos =>
                   r \in stage.rows \cup job[s].rows \/ After(s, r)
       /\ AllStaged(s) => job[s].net = IF job[s].mode = "KEYS_IUD"
                                       THEN NetKeys(stage.rows, {"I", "U"}) ELSE {}
       /\ At(s, "images") => job[s].left = job[s].net
       /\ \A k \in ReadAgain(s) \ missed :
             \/ images.rows[k] = source[k]
             \/ \E r \in slog : r.key = k /\ After(s, r)
       /\ At(s, "apply") => stage.rows # {} /\ job[s].bound = Highest(stage.rows)

\* Stronger than NoChangeIsLost: a DISABLED target, too, has a row for it in the log.
OwedInv ==
    \A k \in Keys \ missed :
       \/ target[k] = source[k]
       \/ \E r \in slog : r.key = k /\ (cdc.status = "DISABLED" \/ r.seq > cdc.position)

ChangeInv == OrderedInv /\ RowInv /\ ModeInv /\ RunInv /\ BatchInv /\ OwedInv

-------------------------------------------------------------------------------
(* Facts about the operators.                                               *)

Less == {ss \in Nat \X Nat : ss[1] < ss[2]}

LEMMA LessIsWellFounded == IsWellFoundedOn(Less, Nat)
BY NatLessThanWellFounded DEF OpToRel, Less

\* A set of numbers below a bound that has an element has a greatest one.
LEMMA GreatestExists ==
    ASSUME NEW b \in Nat, NEW T \in SUBSET (0 .. b), T # {}
    PROVE  \E n \in T : \A m \in T : m <= n
<1> DEFINE U == {b - n : n \in T}
<1>1. \A n \in T : n \in 0 .. b /\ b - n \in Nat
  OBVIOUS
<1>2. U \in SUBSET Nat /\ U # {}
  BY <1>1
<1>3. PICK x \in U : \A y \in U : ~(<<y, x>> \in Less)
  <2> HIDE DEF U
  <2> QED
    BY <1>2, LessIsWellFounded, WFMin
<1>4. \A y \in U : x <= y
  <2>1. \A y \in U : y \in Nat /\ x \in Nat /\ ~(<<y, x>> \in Less)
    BY <1>2, <1>3
  <2>2. \A m, n \in Nat : ~(<<m, n>> \in Less) => n <= m
    BY DEF Less
  <2> HIDE DEF U
  <2> QED
    BY <2>1, <2>2
<1>5. PICK n \in T : x = b - n
  OBVIOUS
<1>6. \A m \in T : b - n <= b - m
  BY <1>4, <1>5
<1> QED
  BY <1>1, <1>6

\* The highest sequence of a batch.
LEMMA HighestFacts ==
    ASSUME CdcTierAssumption, NEW S, S \subseteq LogRows, S # {}
    PROVE  /\ Highest(S) \in 1 .. MaxChanges
           /\ \E r \in S : r.seq = Highest(S)
           /\ \A r \in S : r.seq <= Highest(S)
<1> DEFINE T == {r.seq : r \in S}
<1>1. T \subseteq 0 .. MaxChanges /\ T # {} /\ MaxChanges \in Nat
  BY CdcTierAssumption DEF LogRows
<1>2. \E n \in T : \A m \in T : m <= n
  <2> HIDE DEF T
  <2> QED
    BY <1>1, GreatestExists
<1>3. \E n \in T : \A r \in S : r.seq <= n
  BY <1>2
<1>4. Highest(S) \in T /\ \A r \in S : r.seq <= Highest(S)
  BY <1>3 DEF Highest
<1> QED
  BY <1>4 DEF LogRows

\* A repair executes provisioning statements, and drops nothing.
Creation == {d \in Statements : d.act = "create"}

LEMMA RepairPlanType ==
    ASSUME NEW gone
    PROVE  /\ RepairPlan(gone) \in Seq(Creation) /\ RepairPlan(gone) \in Seq(Statements)
           /\ "seq" \in gone => Len(RepairPlan(gone)) > 0 /\ RepairPlan(gone)[1] = Creates[1]
<1>1. /\ \A i \in 1 .. 5 : Creates[i] \in Creation
      /\ Creates[1].obj = "seq"
  BY DEF Creates, ProvisionOrder, Creation, Statements, Objects, Ops
<1> DEFINE wanted(i) == IF Names(Creates[i].obj) \cap gone # {} THEN <<Creates[i]>> ELSE <<>>
<1>2. \A i \in 1 .. 5 : wanted(i) \in Seq(Creation)
  BY <1>1
<1>3. /\ wanted(1) \in Seq(Creation) /\ wanted(2) \in Seq(Creation)
      /\ wanted(3) \in Seq(Creation) /\ wanted(4) \in Seq(Creation)
      /\ wanted(5) \in Seq(Creation)
  BY <1>2
<1>4. RepairPlan(gone) = wanted(1) \o wanted(2) \o wanted(3) \o wanted(4) \o wanted(5)
  BY DEF RepairPlan
<1>5. "seq" \in gone => wanted(1) = <<Creates[1]>>
  BY <1>1 DEF Names, Ops
<1> HIDE DEF wanted
<1>6. RepairPlan(gone) \in Seq(Creation)
  BY <1>3, <1>4
<1>7. "seq" \in gone => Len(RepairPlan(gone)) > 0 /\ RepairPlan(gone)[1] = Creates[1]
  BY <1>3, <1>4, <1>5
<1>8. RepairPlan(gone) \in Seq(Statements)
  BY <1>6 DEF Creation
<1> QED
  BY <1>6, <1>7, <1>8

LEMMA DdlTypes == Drops \in Seq(Statements) /\ Creates \in Seq(Statements)
<1>1. Len(TeardownOrder) = 5 /\ Len(ProvisionOrder) = 5
  BY DEF TeardownOrder, ProvisionOrder
<1>2. DOMAIN TeardownOrder = 1 .. 5 /\ DOMAIN ProvisionOrder = 1 .. 5
  BY DEF TeardownOrder, ProvisionOrder
<1>3. Drops \in [1 .. 5 -> Statements] /\ Creates \in [1 .. 5 -> Statements]
  BY <1>2 DEF Drops, Creates, TeardownOrder, ProvisionOrder, Statements, Objects, Ops
<1>4. [1 .. 5 -> Statements] \subseteq Seq(Statements)
  BY SeqDef
<1> QED
  BY <1>3, <1>4

-------------------------------------------------------------------------------
(* Every step keeps the types. *)

\* What a session remembers.
JobTyped ==
    /\ job \in [Sessions -> JobState]
    /\ \A s \in Sessions : At(s, "apply") => job[s].bound \in 1 .. MaxChanges

LEMMA NullFacts ==
    /\ Null \in Row
    /\ NoRows \in [Keys -> Row]
    /\ NoTable \in [there : BOOLEAN, rows : SUBSET LogRows]
    /\ NoImages \in [there : BOOLEAN, rows : [Keys -> Row]]
    /\ Idle \in JobState /\ Idle.pc = "idle"
<1>1. <<>> \in Seq(Statements) /\ 0 \in 0 .. MaxChanges
  BY CdcTierAssumption
<1> QED
  BY <1>1 DEF Row, NoRows, NoTable, NoImages, Idle, JobState

LEMMA DoesType ==
    ASSUME TypeInv, NEW s \in Sessions, NEW f \in JobState, Does(s, f),
           f.pc = "apply" => f.bound \in 1 .. MaxChanges
    PROVE  JobTyped'
BY DEF TypeInv, JobTyped, Does, At

LEMMA EndsType ==
    ASSUME TypeInv, NEW s \in Sessions, Ends(s)
    PROVE  JobTyped'
BY NullFacts, DoesType DEF Ends

LEMMA FaultType ==
    ASSUME TypeOK, Fault \/ UNCHANGED faults
    PROVE  faults' \in 0 .. MaxFaults
BY CdcTierAssumption DEF TypeOK, Fault

LEMMA InitType == Init => TypeInv
<1> SUFFICES ASSUME Init PROVE TypeInv
  OBVIOUS
<1>1. /\ source \in [Keys -> Row] /\ target \in [Keys -> Row] /\ replay \in [Keys -> Row]
      /\ nextSeq \in 1 .. MaxChanges + 1 /\ changes \in 0 .. MaxChanges
      /\ faults \in 0 .. MaxFaults /\ nextSeq <= changes + 1
  BY CdcTierAssumption DEF Init
<1>2. cdc \in [status : Status, position : 0 .. MaxChanges, mode : Modes \cup {Null}]
  BY CdcTierAssumption DEF Init, Status
<1>3. tx \in [Txns -> Entries \cup {Null}] /\ \A t \in Txns : tx[t] = Null
  BY DEF Init
<1>4. /\ stage \in [there : BOOLEAN, rows : SUBSET LogRows]
      /\ images \in [there : BOOLEAN, rows : [Keys -> Row]]
      /\ job \in [Sessions -> JobState] /\ \A s \in Sessions : job[s].pc = "idle"
  BY NullFacts DEF Init
<1>5. /\ slog \subseteq LogRows /\ there \subseteq Objects /\ off \subseteq there \cap Ops
      /\ missed \subseteq Keys
  BY DEF Init
<1> QED
  BY <1>1, <1>2, <1>3, <1>4, <1>5 DEF TypeInv, TypeOK, At

\* A change, its commit or its rollback, and the loss of a trigger.
LEMMA SapType ==
    ASSUME TypeInv, Sap
    PROVE  TypeInv'
<1> USE DEF Entries
<1>1. ASSUME NEW t \in Txns, NEW k \in Keys, NEW v \in Row, Change(t, k, v)
      PROVE  TypeInv'
  <2> DEFINE op == IF source[k] = Null THEN "I" ELSE IF v = Null THEN "D" ELSE "U"
             caught == op \in Enabled
             entry == [key |-> k, row |-> v, op |-> op, seq |-> IF caught THEN nextSeq ELSE 0]
  <2>1. op \in Ops
    BY DEF Ops
  <2>2. /\ changes' = changes + 1 /\ changes < MaxChanges
        /\ tx' = [tx EXCEPT ![t] = entry]
        /\ nextSeq' = nextSeq \/ nextSeq' = nextSeq + 1
    BY <1>1 DEF Change
  <2>3. /\ changes' \in 0 .. MaxChanges /\ nextSeq' \in 1 .. MaxChanges + 1
        /\ nextSeq' <= changes' + 1 /\ nextSeq \in 0 .. MaxChanges /\ 0 \in 0 .. MaxChanges
    BY <2>2, CdcTierAssumption DEF TypeInv, TypeOK
  <2>4. entry \in Entries
    BY <2>1, <2>3
  <2>5. tx' \in [Txns -> Entries \cup {Null}]
    <3> HIDE DEF entry
    <3> QED
      BY <2>2, <2>4 DEF TypeInv
  <2> HIDE DEF op, caught, entry
  <2> QED
    BY <1>1, <2>3, <2>5 DEF Change, TypeInv, TypeOK, server, At
<1>2. ASSUME NEW t \in Txns, SapCommit(t) PROVE TypeInv'
  <2>1. tx[t] \in Entries
    BY <1>2 DEF SapCommit, TypeInv
  <2>2. source' \in [Keys -> Row] /\ missed' \subseteq Keys
    BY <1>2, <2>1 DEF SapCommit, TypeInv, TypeOK
  <2>3. tx[t].seq > 0 => LogRow(tx[t]) \in LogRows
    BY <2>1, NullFacts DEF LogRow, LogRows
  <2>4. slog' \subseteq LogRows
    BY <1>2, <2>3 DEF SapCommit, TypeInv, TypeOK
  <2>5. tx' \in [Txns -> Entries \cup {Null}]
    BY <1>2 DEF SapCommit, TypeInv
  <2> QED
    BY <1>2, <2>2, <2>4, <2>5 DEF SapCommit, TypeInv, TypeOK, server, At
<1>3. ASSUME NEW t \in Txns, SapRollback(t) PROVE TypeInv'
  <2>1. tx' \in [Txns -> Entries \cup {Null}]
    BY <1>3 DEF SapRollback, TypeInv
  <2> QED
    BY <1>3, <2>1 DEF SapRollback, TypeInv, TypeOK, server, At
<1>4. ASSUME NEW o \in Ops, LoseTrigger(o) PROVE TypeInv'
  <2>1. faults' \in 0 .. MaxFaults
    BY <1>4, FaultType DEF LoseTrigger, TypeInv
  <2>2. there' \subseteq Objects /\ off' \subseteq there' \cap Ops
    BY <1>4 DEF LoseTrigger, Enabled, TypeInv, TypeOK, Objects, Ops
  <2> QED
    BY <1>4, <2>1, <2>2 DEF LoseTrigger, TypeInv, TypeOK, server, At
<1> QED
  BY <1>1, <1>2, <1>3, <1>4 DEF Sap
LEMMA PortionSubset ==
    ASSUME NEW S, NEW P \in Portion(S)
    PROVE  P \subseteq S
BY DEF Portion

LEMMA NetKeysSubset ==
    ASSUME NEW S, NEW ops
    PROVE  NetKeys(S, ops) \subseteq Keys
BY DEF NetKeys

\* Planning a cycle, and the steps that read and stage.
LEMMA StagingType ==
    ASSUME TypeInv, NEW s \in Sessions,
           PlanCycle(s) \/ CreateStage(s) \/ ReadLog(s) \/ IngestSlice(s)
    PROVE  TypeInv'
<1>1. job[s] \in JobState /\ Idle \in JobState
  BY NullFacts DEF TypeInv
<1>2. CASE PlanCycle(s)
  <2>1. [Idle EXCEPT !.pc = "create", !.verb = "cycle", !.mode = cdc.mode, !.pos = cdc.position]
           \in JobState
    BY <1>1 DEF TypeInv, TypeOK, JobState
  <2>2. JobTyped'
    BY <1>2, <2>1, <1>1, DoesType DEF PlanCycle, Idle
  <2> QED
    BY <1>2, <2>2 DEF PlanCycle, TypeInv, TypeOK, JobTyped, sap, server
<1>3. CASE CreateStage(s)
  <2>1. [job[s] EXCEPT !.pc = "read"] \in JobState
    BY <1>1 DEF JobState
  <2>2. JobTyped'
    BY <1>3, <2>1, <1>1, DoesType DEF CreateStage, JobState
  <2> QED
    BY <1>3, <2>2 DEF CreateStage, TypeInv, TypeOK, JobTyped, sap
<1>4. CASE ReadLog(s)
  <2>1. Unread(s) \in SUBSET LogRows
    BY DEF Unread, TypeInv, TypeOK
  <2>2. [job[s] EXCEPT !.pc = "ingest", !.rows = Unread(s)] \in JobState
    BY <1>1, <2>1 DEF JobState
  <2>3. JobTyped'
    BY <1>4, <2>2, <1>1, DoesType DEF ReadLog, JobState
  <2> QED
    BY <1>4, <2>3 DEF ReadLog, TypeInv, TypeOK, JobTyped, sap, server
<1>5. CASE IngestSlice(s)
  <2>1. PICK P \in Portion(job[s].rows) :
           /\ stage' = [stage EXCEPT !.rows = @ \cup P]
           /\ Does(s, [job[s] EXCEPT !.rows = @ \ P])
    BY <1>5 DEF IngestSlice
  <2>2. P \in SUBSET LogRows
    BY <1>1, PortionSubset DEF JobState
  <2>3. [job[s] EXCEPT !.rows = @ \ P] \in JobState
    BY <1>1, <2>2 DEF JobState
  <2>4. JobTyped'
    BY <1>5, <2>1, <2>3, <1>1, DoesType DEF IngestSlice, At, JobState
  <2>5. stage' \in [there : BOOLEAN, rows : SUBSET LogRows]
    BY <2>1, <2>2 DEF TypeInv
  <2> QED
    BY <1>5, <2>4, <2>5 DEF IngestSlice, TypeInv, TypeOK, JobTyped, sap
<1> QED
  BY <1>2, <1>3, <1>4, <1>5

\* The keys to read again, and the pages that read them.
LEMMA ImagesType ==
    ASSUME TypeInv, NEW s \in Sessions, NetKeysQuery(s) \/ CreateImages(s) \/ Reread(s)
    PROVE  TypeInv'
<1>1. job[s] \in JobState
  BY DEF TypeInv
<1>2. CASE NetKeysQuery(s)
  <2> DEFINE net == IF job[s].mode = "KEYS_IUD" THEN NetKeys(stage.rows, {"I", "U"}) ELSE {}
  <2>1. net \in SUBSET Keys
    BY NetKeysSubset
  <2>2. Does(s, [job[s] EXCEPT !.pc = IF net = {} THEN "size" ELSE "images",
                               !.net = net, !.left = net])
    BY <1>2 DEF NetKeysQuery
  <2> HIDE DEF net
  <2>3. [job[s] EXCEPT !.pc = IF net = {} THEN "size" ELSE "images", !.net = net, !.left = net]
           \in JobState
    BY <1>1, <2>1 DEF JobState
  <2>4. JobTyped'
    BY <2>2, <2>3, <1>1, DoesType DEF JobState
  <2> QED
    BY <1>2, <2>4 DEF NetKeysQuery, TypeInv, TypeOK, JobTyped, sap, server
<1>3. CASE CreateImages(s)
  <2>1. [job[s] EXCEPT !.pc = "reread"] \in JobState
    BY <1>1 DEF JobState
  <2>2. JobTyped'
    BY <1>3, <2>1, <1>1, DoesType DEF CreateImages, JobState
  <2> QED
    BY <1>3, <2>2, NullFacts DEF CreateImages, TypeInv, TypeOK, JobTyped, sap
<1>4. CASE Reread(s)
  <2>1. PICK P \in Portion(job[s].left) :
           /\ images' = [images EXCEPT !.rows = [k \in Keys |->
                             IF k \in P THEN source[k] ELSE @[k]]]
           /\ Does(s, [job[s] EXCEPT !.left = @ \ P,
                                     !.pc = IF P = job[s].left THEN "size" ELSE "reread"])
    BY <1>4 DEF Reread
  <2>2. [job[s] EXCEPT !.left = @ \ P, !.pc = IF P = job[s].left THEN "size" ELSE "reread"]
           \in JobState
    BY <1>1 DEF JobState
  <2>3. JobTyped'
    BY <2>1, <2>2, <1>1, DoesType DEF JobState
  <2>4. [k \in Keys |-> IF k \in P THEN source[k] ELSE images.rows[k]] \in [Keys -> Row]
    BY DEF TypeInv, TypeOK
  <2>5. images' \in [there : BOOLEAN, rows : [Keys -> Row]]
    BY <2>1, <2>4 DEF TypeInv
  <2> QED
    BY <1>4, <2>3, <2>5 DEF Reread, TypeInv, TypeOK, JobTyped, sap
<1> QED
  BY <1>2, <1>3, <1>4

LEMMA NewRowType ==
    ASSUME TypeInv, NEW s \in Sessions, NEW k \in NetWritten
    PROVE  NewRow(s, k) \in Row
<1>1. k \in Keys /\ images.rows[k] \in Row /\ stage.rows \subseteq LogRows
  BY NetKeysSubset DEF NetWritten, TypeInv, TypeOK
<1>2. \E r \in stage.rows : r.key = k /\ \A q \in stage.rows : q.key = k => q.seq <= r.seq
  BY DEF NetWritten, NetKeys
<1>3. LoggedRow(stage.rows, k) \in Row
  BY <1>1, <1>2 DEF LoggedRow, LogRows
<1> QED
  BY <1>1, <1>3 DEF NewRow

\* Size, Apply and its failure, Prune.
LEMMA ApplyType ==
    ASSUME TypeInv, NEW s \in Sessions, Size(s) \/ Apply(s) \/ ApplyFails(s) \/ Prune(s)
    PROVE  TypeInv'
<1>1. job[s] \in JobState
  BY DEF TypeInv
<1>2. CASE Size(s)
  <2>1. CASE stage.rows = {}
    <3>1. JobTyped' /\ stage' = NoTable
      BY <1>2, <2>1, EndsType DEF Size
    <3> QED
      BY <1>2, <3>1, NullFacts DEF Size, TypeInv, TypeOK, JobTyped, sap
  <2>2. CASE stage.rows # {}
    <3> DEFINE b == Highest(stage.rows)
    <3>1. b \in 1 .. MaxChanges
      BY <2>2, CdcTierAssumption, HighestFacts DEF TypeInv, TypeOK
    <3>2. Does(s, [job[s] EXCEPT !.pc = "apply", !.bound = b]) /\ UNCHANGED stage
      BY <1>2, <2>2 DEF Size
    <3> HIDE DEF b
    <3>3. b \in 0 .. MaxChanges
      BY <3>1
    <3>4. [job[s] EXCEPT !.pc = "apply", !.bound = b] \in JobState
      BY <1>1, <3>3 DEF JobState
    <3>5. JobTyped'
      BY <3>1, <3>2, <3>4, <1>1, DoesType DEF JobState
    <3> QED
      BY <1>2, <3>2, <3>5 DEF Size, TypeInv, TypeOK, JobTyped, sap
  <2> QED
    BY <2>1, <2>2
<1>3. CASE Apply(s)
  <2>1. \A k \in NetWritten : NewRow(s, k) \in Row
    BY NewRowType
  <2>2. Applied(s) \in [Keys -> Row] /\ LogOf(s) \in [Keys -> Row]
    BY <2>1, NullFacts DEF Applied, LogOf, TypeInv, TypeOK
  <2>3. job[s].bound \in 0 .. MaxChanges
    BY <1>1 DEF JobState
  <2>4. cdc' \in [status : Status, position : 0 .. MaxChanges, mode : Modes \cup {Null}]
    BY <1>3, <2>3 DEF Apply, TypeInv, TypeOK, Status
  <2>5. /\ stage' \in [there : BOOLEAN, rows : SUBSET LogRows]
        /\ images' \in [there : BOOLEAN, rows : [Keys -> Row]]
    BY <1>3, NullFacts DEF Apply, TypeInv
  <2>6. faults' \in 0 .. MaxFaults
    BY <1>3, FaultType DEF Apply, TypeInv
  <2>7. [job[s] EXCEPT !.pc = "prune"] \in JobState
    BY <1>1 DEF JobState
  <2>8. JobTyped'
    BY <1>3, <2>7, <1>1, DoesType, EndsType DEF Apply, JobState
  <2> QED
    BY <1>3, <2>2, <2>4, <2>5, <2>6, <2>8 DEF Apply, TypeInv, TypeOK, JobTyped, sap
<1>4. CASE ApplyFails(s)
  <2>1. JobTyped' /\ faults' \in 0 .. MaxFaults
    BY <1>4, EndsType, FaultType DEF ApplyFails, TypeInv
  <2> QED
    BY <1>4, <2>1 DEF ApplyFails, StatusSet, TypeInv, TypeOK, JobTyped, sap, Status
<1>5. CASE Prune(s)
  <2>1. JobTyped'
    BY <1>5, EndsType DEF Prune
  <2> QED
    BY <1>5, <2>1 DEF Prune, TypeInv, TypeOK, JobTyped, server
<1> QED
  BY <1>2, <1>3, <1>4, <1>5

LEMMA StatusType ==
    ASSUME TypeOK, NEW to \in Status
    PROVE  StatusSet(to) \in [status : Status, position : 0 .. MaxChanges, mode : Modes \cup {Null}]
BY DEF StatusSet, TypeOK

LEMMA CommandType ==
    ASSUME TypeInv, NEW s \in Sessions, Command(s)
    PROVE  TypeInv'
<1>1. Idle \in JobState /\ Drops \in Seq(Statements) /\ Drops \o Creates \in Seq(Statements)
  BY NullFacts, DdlTypes
<1>2. ASSUME NEW m \in Modes, Provision(s, m) PROVE TypeInv'
  <2>1. [Idle EXCEPT !.pc = "ddl", !.verb = "provision", !.todo = Drops \o Creates] \in JobState
    BY <1>1 DEF JobState
  <2>2. JobTyped'
    BY <1>2, <2>1, <1>1, DoesType DEF Provision, Idle
  <2>3. cdc' \in [status : Status, position : 0 .. MaxChanges, mode : Modes \cup {Null}]
    BY <1>2, CdcTierAssumption DEF Provision, Status
  <2> QED
    BY <1>2, <2>2, <2>3 DEF Provision, TypeInv, TypeOK, JobTyped, sap
<1>3. CASE Teardown(s)
  <2>1. [Idle EXCEPT !.pc = "ddl", !.verb = "teardown", !.todo = Drops] \in JobState
    BY <1>1 DEF JobState
  <2>2. JobTyped'
    BY <1>3, <2>1, <1>1, DoesType DEF Teardown, Idle
  <2>3. cdc' \in [status : Status, position : 0 .. MaxChanges, mode : Modes \cup {Null}]
    BY <1>3, StatusType DEF Teardown, Status, TypeInv
  <2> QED
    BY <1>3, <2>2, <2>3 DEF Teardown, TypeInv, TypeOK, JobTyped, sap
<1>4. ASSUME NEW verb \in {"status", "repair"}, Probe(s, verb) PROVE TypeInv'
  <2>1. [Idle EXCEPT !.pc = "derive", !.verb = verb, !.gone = Objects \ Enabled] \in JobState
    BY <1>1 DEF JobState
  <2>2. JobTyped'
    BY <1>4, <2>1, <1>1, DoesType DEF Probe, Idle
  <2> QED
    BY <1>4, <2>2 DEF Probe, TypeInv, TypeOK, JobTyped, sap, server
<1> QED
  BY <1>2, <1>3, <1>4 DEF Command

LEMMA StatementType ==
    ASSUME TypeInv, NEW s \in Sessions, Statement(s) \/ Aborts(s)
    PROVE  TypeInv'
<1>1. job[s] \in JobState /\ Idle \in JobState
  BY NullFacts DEF TypeInv
<1>2. CASE Derive(s)
  <2>1. Derived(job[s].gone) \in Status
    BY DEF Derived, Status
  <2>2. cdc' \in [status : Status, position : 0 .. MaxChanges, mode : Modes \cup {Null}]
    BY <1>2, <2>1, StatusType DEF Derive, TypeInv, TypeOK
  <2>3. [job[s] EXCEPT !.pc = "ddl", !.todo = RepairPlan(job[s].gone)] \in JobState
    BY <1>1, RepairPlanType DEF JobState
  <2>4. JobTyped'
    BY <1>2, <2>3, <1>1, DoesType, EndsType DEF Derive, JobState
  <2> QED
    BY <1>2, <2>2, <2>4 DEF Derive, TypeInv, TypeOK, JobTyped, sap
<1>3. CASE ExecDdl(s)
  <2> DEFINE d == Head(job[s].todo)
  <2>1. d \in Statements /\ Tail(job[s].todo) \in Seq(Statements)
    BY <1>1, <1>3, HeadTailProperties DEF ExecDdl, JobState
  <2>2. [job[s] EXCEPT !.todo = Tail(@)] \in JobState
    BY <1>1, <2>1 DEF JobState
  <2>3. JobTyped'
    BY <1>3, <2>2, <1>1, DoesType, EndsType DEF ExecDdl, At, JobState
  <2>4. \/ DropObject(d.obj)
        \/ CreateObject(d.obj)
        \/ UNCHANGED sap
    BY <1>3 DEF ExecDdl
  <2>5. d.obj \in Objects
    BY <2>1 DEF Statements
  <2>6. CASE DropObject(d.obj)
    BY <1>3, <2>3, <2>5, <2>6 DEF ExecDdl, DropObject, TypeInv, TypeOK, JobTyped, server
  <2>7. CASE CreateObject(d.obj)
    <3>1. nextSeq' \in 1 .. MaxChanges + 1 /\ nextSeq' <= changes' + 1
      BY <2>7, CdcTierAssumption DEF CreateObject, TypeInv, TypeOK
    <3> QED
      BY <1>3, <2>3, <2>5, <2>7, <3>1 DEF ExecDdl, CreateObject, TypeInv, TypeOK, JobTyped, server
  <2>8. CASE UNCHANGED sap
    BY <1>3, <2>3, <2>8 DEF ExecDdl, TypeInv, TypeOK, JobTyped, server, sap
  <2> QED
    BY <2>4, <2>6, <2>7, <2>8
<1>4. CASE DdlDone(s)
  <2>1. cdc' \in [status : Status, position : 0 .. MaxChanges, mode : Modes \cup {Null}]
    BY <1>4, StatusType DEF DdlDone, Status, TypeInv, TypeOK
  <2>2. [Idle EXCEPT !.pc = "derive", !.verb = "recheck", !.gone = Objects \ Enabled] \in JobState
    BY <1>1 DEF JobState
  <2>3. JobTyped'
    BY <1>4, <2>2, <1>1, DoesType, EndsType DEF DdlDone, Idle
  <2> QED
    BY <1>4, <2>1, <2>3 DEF DdlDone, TypeInv, TypeOK, JobTyped, sap
<1>5. CASE Aborts(s)
  <2>1. JobTyped' /\ faults' \in 0 .. MaxFaults
    BY <1>5, EndsType, FaultType DEF Aborts, TypeInv
  <2> QED
    BY <1>5, <2>1 DEF Aborts, TypeInv, TypeOK, JobTyped, sap, server
<1> QED
  BY <1>2, <1>3, <1>4, <1>5 DEF Statement

LEMMA TypeStep == TypeInv /\ [Next]_vars => TypeInv'
<1> SUFFICES ASSUME TypeInv, [Next]_vars PROVE TypeInv'
  OBVIOUS
<1>1. CASE Next
  BY <1>1, SapType, StagingType, ImagesType, ApplyType, CommandType, StatementType
  DEF Next, Cycle, Statement
<1>2. CASE UNCHANGED vars
  BY <1>2 DEF vars, sap, server, TypeInv, TypeOK, At
<1> QED
  BY <1>1, <1>2

\* Every variable keeps its type, whatever sessions and transactions there are.
THEOREM TypeCorrect == Spec => []TypeOK
<1>1. TypeInv => TypeOK
  BY DEF TypeInv
<1> QED
  BY <1>1, InitType, TypeStep, PTL DEF Spec

-------------------------------------------------------------------------------
(* With one session the change log replays the target. *)

\* The steps that touch the SAP database.
LEMMA SapTouched ==
    ASSUME Next
    PROVE  \/ Sap
           \/ \E s \in Sessions : Prune(s) \/ ExecDdl(s)
           \/ UNCHANGED sap
<1>1. ASSUME NEW s \in Sessions,
             PlanCycle(s) \/ Cycle(s) \/ Command(s) \/ Statement(s) \/ ApplyFails(s) \/ Aborts(s)
      PROVE  Prune(s) \/ ExecDdl(s) \/ UNCHANGED sap
  BY <1>1 DEF PlanCycle, Cycle, CreateStage, ReadLog, IngestSlice, NetKeysQuery, CreateImages,
              Reread, Size, Apply, Command, Provision, Teardown, Probe, Statement, Derive, DdlDone,
              ApplyFails, Aborts
<1> QED
  BY <1>1 DEF Next

\* A statement drops one object, creates one that is missing, or ends the command.
LEMMA DdlCases ==
    ASSUME TypeInv, NEW s \in Sessions, ExecDdl(s)
    PROVE  /\ At(s, "ddl") /\ job[s].todo # <<>> /\ job[s].todo \in Seq(Statements)
           /\ Head(job[s].todo) \in Statements /\ Head(job[s].todo) = job[s].todo[1]
           /\ Len(job[s].todo) \in Nat /\ 0 < Len(job[s].todo)
           /\ DOMAIN job[s].todo = 1 .. Len(job[s].todo)
           /\ LET d == Head(job[s].todo) IN
              \/ /\ d.act = "drop" /\ DropObject(d.obj)
                 /\ Does(s, [job[s] EXCEPT !.todo = Tail(@)])
              \/ /\ d.act = "create" /\ d.obj \notin there /\ CreateObject(d.obj)
                 /\ Does(s, [job[s] EXCEPT !.todo = Tail(@)])
              \/ Ends(s) /\ UNCHANGED sap
<1>1. job[s].todo \in Seq(Statements) /\ job[s].todo # <<>>
  BY DEF ExecDdl, TypeInv, JobState
<1>2. /\ Head(job[s].todo) \in Statements
      /\ Len(job[s].todo) \in Nat /\ 0 < Len(job[s].todo)
      /\ DOMAIN job[s].todo = 1 .. Len(job[s].todo)
  BY <1>1, HeadTailProperties, EmptySeq, LenProperties
<1>3. Head(job[s].todo) = job[s].todo[1]
  BY <1>1
<1> QED
  BY <1>1, <1>2, <1>3 DEF ExecDdl, Statements

\* The sequence is created anew only where no row or entry holds a value of it.
LEMMA SeqStep ==
    ASSUME TypeInv, SeqInv, CatalogueInv, Next
    PROVE  SeqInv'
<1>1. nextSeq \in Nat /\ tx \in [Txns -> Entries \cup {Null}]
  BY DEF TypeInv, TypeOK
<1>2. ASSUME NEW t \in Txns, NEW k \in Keys, NEW v \in Row, Change(t, k, v)
      PROVE  SeqInv'
  <2>1. PICK e : /\ tx' = [tx EXCEPT ![t] = e]
                 /\ \/ e.seq = 0 /\ nextSeq' = nextSeq
                    \/ e.seq = nextSeq /\ nextSeq' = nextSeq + 1
    <3> DEFINE op == IF source[k] = Null THEN "I" ELSE IF v = Null THEN "D" ELSE "U"
               e == [key |-> k, row |-> v, op |-> op,
                     seq |-> IF op \in Enabled THEN nextSeq ELSE 0]
    <3>1. /\ tx' = [tx EXCEPT ![t] = e]
          /\ nextSeq' = IF op \in Enabled THEN nextSeq + 1 ELSE nextSeq
      BY <1>2 DEF Change
    <3>2. e.seq = IF op \in Enabled THEN nextSeq ELSE 0
      OBVIOUS
    <3> HIDE DEF op, e
    <3> QED
      BY <3>1, <3>2
  <2>2. slog' = slog /\ tx[t] = Null
    BY <1>2 DEF Change
  <2>3. \A u \in Txns : u # t => tx'[u] = tx[u]
    BY <1>1, <2>1
  <2>4. tx'[t] = e
    BY <1>1, <2>1
  <2>5. \A u \in Txns : Drawn(u)' =>
           \/ u # t /\ Drawn(u) /\ tx'[u].seq = tx[u].seq
           \/ u = t /\ tx'[u].seq = nextSeq /\ nextSeq' = nextSeq + 1
    BY <1>1, <2>1, <2>3, <2>4 DEF Drawn
  <2>6. /\ \A u \in Txns : Drawn(u) => tx[u].seq \in Nat
        /\ \A r \in slog : r.seq \in Nat
        /\ nextSeq' = nextSeq \/ nextSeq' = nextSeq + 1
    BY <1>1, <2>1 DEF Drawn, Entries, TypeInv, TypeOK, LogRows
  <2>7. /\ \A r \in slog' : r.seq < nextSeq'
        /\ \A q, r \in slog' : q.seq = r.seq => q = r
    BY <1>1, <2>2, <2>6 DEF SeqInv
  <2>8. \A u \in Txns : Drawn(u)' => tx'[u].seq < nextSeq'
    BY <1>1, <2>5, <2>6 DEF SeqInv
  <2>9. \A u \in Txns, r \in slog' : Drawn(u)' => tx'[u].seq # r.seq
    BY <1>1, <2>2, <2>5, <2>6 DEF SeqInv
  <2>10. \A u, w \in Txns : Drawn(u)' /\ Drawn(w)' /\ tx'[u].seq = tx'[w].seq => u = w
    BY <1>1, <2>5, <2>6 DEF SeqInv
  <2> QED
    BY <2>7, <2>8, <2>9, <2>10 DEF SeqInv
<1>3. ASSUME NEW t \in Txns, SapCommit(t) PROVE SeqInv'
  <2>1. tx[t] # Null /\ tx' = [tx EXCEPT ![t] = Null] /\ nextSeq' = nextSeq
    BY <1>3 DEF SapCommit
  <2>2. \/ slog' = slog
        \/ Drawn(t) /\ slog' = slog \cup {LogRow(tx[t])} /\ LogRow(tx[t]).seq = tx[t].seq
    BY <1>3 DEF SapCommit, Drawn, LogRow
  <2>3. \A u \in Txns : Drawn(u)' => Drawn(u) /\ u # t /\ tx'[u] = tx[u]
    BY <1>1, <2>1 DEF Drawn
  <2> QED
    BY <1>1, <2>1, <2>2, <2>3 DEF SeqInv
<1>4. ASSUME NEW t \in Txns, SapRollback(t) PROVE SeqInv'
  <2>1. tx' = [tx EXCEPT ![t] = Null] /\ UNCHANGED <<nextSeq, slog>>
    BY <1>4 DEF SapRollback
  <2>2. \A u \in Txns : Drawn(u)' => Drawn(u) /\ u # t /\ tx'[u] = tx[u]
    BY <1>1, <2>1 DEF Drawn
  <2> QED
    BY <1>1, <2>1, <2>2 DEF SeqInv
<1>5. ASSUME NEW o \in Ops, LoseTrigger(o) PROVE SeqInv'
  BY <1>5 DEF LoseTrigger, SeqInv, Drawn
<1>6. ASSUME NEW s \in Sessions, Prune(s) PROVE SeqInv'
  BY <1>6 DEF Prune, SeqInv, Drawn
<1>7. ASSUME NEW s \in Sessions, ExecDdl(s) PROVE SeqInv'
  <2> DEFINE d == Head(job[s].todo)
  <2>1. CASE DropObject(d.obj)
    BY <2>1 DEF DropObject, SeqInv, Drawn
  <2>2. CASE d.obj \notin there /\ CreateObject(d.obj)
    BY <2>2 DEF CreateObject, CatalogueInv, SeqInv, Drawn
  <2>3. CASE UNCHANGED sap
    BY <2>3 DEF sap, SeqInv, Drawn
  <2> QED
    BY <1>7, <2>1, <2>2, <2>3, DdlCases
<1>8. CASE UNCHANGED sap
  BY <1>8 DEF sap, SeqInv, Drawn
<1> QED
  BY <1>2, <1>3, <1>4, <1>5, <1>6, <1>7, <1>8, SapTouched DEF Sap

\* The log appears after its sequence and goes before it.
LEMMA CatalogueStep ==
    ASSUME TypeInv, CatalogueInv, DdlInv, Next
    PROVE  CatalogueInv'
<1>1. tx \in [Txns -> Entries \cup {Null}]
  BY DEF TypeInv
<1>2. ASSUME NEW t \in Txns, NEW k \in Keys, NEW v \in Row, Change(t, k, v)
      PROVE  CatalogueInv'
  <2> DEFINE op == IF source[k] = Null THEN "I" ELSE IF v = Null THEN "D" ELSE "U"
             e == [key |-> k, row |-> v, op |-> op,
                   seq |-> IF op \in Enabled THEN nextSeq ELSE 0]
  <2>1. /\ tx' = [tx EXCEPT ![t] = e] /\ UNCHANGED <<slog, there>>
        /\ op \in Enabled => "log" \in there
    BY <1>2 DEF Change
  <2>2. op \notin Enabled => e.seq = 0
    OBVIOUS
  <2> HIDE DEF op, e
  <2>3. "log" \notin there => \A u \in Txns : ~Drawn(u)'
    BY <1>1, <2>1, <2>2 DEF CatalogueInv, Drawn
  <2> QED
    BY <2>1, <2>3 DEF CatalogueInv
<1>3. ASSUME NEW t \in Txns, SapCommit(t) \/ SapRollback(t) PROVE CatalogueInv'
  <2>1. /\ tx' = [tx EXCEPT ![t] = Null] /\ UNCHANGED there
        /\ slog' = slog \/ Drawn(t)
    BY <1>3 DEF SapCommit, SapRollback, Drawn
  <2>2. \A u \in Txns : Drawn(u)' => Drawn(u)
    BY <1>1, <2>1 DEF Drawn
  <2> QED
    BY <2>1, <2>2 DEF CatalogueInv
<1>4. ASSUME NEW o \in Ops, LoseTrigger(o) PROVE CatalogueInv'
  BY <1>4 DEF LoseTrigger, CatalogueInv, Drawn, Ops
<1>5. ASSUME NEW s \in Sessions, Prune(s) PROVE CatalogueInv'
  BY <1>5 DEF Prune, CatalogueInv, Drawn
<1>6. ASSUME NEW s \in Sessions, ExecDdl(s) PROVE CatalogueInv'
  <2> DEFINE d == Head(job[s].todo)
  <2>1. /\ At(s, "ddl") /\ d = job[s].todo[1]
        /\ Len(job[s].todo) \in Nat /\ 0 < Len(job[s].todo)
        /\ DOMAIN job[s].todo = 1 .. Len(job[s].todo)
    BY <1>6, DdlCases
  <2>2. 1 \in DOMAIN job[s].todo /\ \A j \in DOMAIN job[s].todo : ~(j < 1)
    BY <2>1
  <2>3. OrderInv(job[s].todo)
    BY <2>1 DEF DdlInv
  <2> HIDE DEF d
  <2>4. CASE d.act = "drop" /\ DropObject(d.obj)
    <3>1. CASE d.obj = "log"
      BY <2>4, <3>1, <1>1 DEF DropObject, CatalogueInv, Drawn, Entries
    <3>2. CASE d.obj = "seq"
      <4>1. "log" \notin there
        BY <2>1, <2>2, <2>3, <2>4, <3>2 DEF OrderInv, Is
      <4> QED
        BY <2>4, <3>2, <4>1 DEF DropObject, CatalogueInv, Drawn
    <3>3. CASE d.obj \notin {"log", "seq"}
      BY <2>4, <3>3 DEF DropObject, CatalogueInv, Drawn
    <3> QED
      BY <3>1, <3>2, <3>3
  <2>5. CASE d.act = "create" /\ CreateObject(d.obj)
    <3>1. d.obj = "log" => "seq" \in there
      BY <2>1, <2>2, <2>3, <2>5 DEF OrderInv, Is
    <3> QED
      BY <2>5, <3>1 DEF CreateObject, CatalogueInv, Drawn
  <2>6. CASE UNCHANGED sap
    BY <2>6 DEF sap, CatalogueInv, Drawn
  <2> QED
    BY <1>6, <2>4, <2>5, <2>6, DdlCases DEF d
<1>7. CASE UNCHANGED sap
  BY <1>7 DEF sap, CatalogueInv, Drawn
<1> QED
  BY <1>2, <1>3, <1>4, <1>5, <1>6, <1>7, SapTouched DEF Sap

\* Where there is one session, its job is all there is.
LEMMA OnlyJob ==
    ASSUME TypeInv, OneSession, NEW s \in Sessions, NEW f, Does(s, f)
    PROVE  \A u \in Sessions : u = s /\ job'[u] = f
BY DEF TypeInv, OneSession, Does

LEMMA OnlyEnds ==
    ASSUME TypeInv, OneSession, NEW s \in Sessions, Ends(s)
    PROVE  \A u \in Sessions : u = s /\ job'[u] = Idle /\ job'[u].pc = "idle"
BY OnlyJob, NullFacts DEF Ends

\* The orders of provision, teardown and repair are such orders, wherever they start.
LEMMA PlannedOrders ==
    /\ OrderInv(Drops) /\ OrderInv(Drops \o Creates)
    /\ \A gone : "seq" \in there \/ "seq" \in gone => OrderInv(RepairPlan(gone))
<1>1. /\ Len(Drops) = 5 /\ DOMAIN Drops = 1 .. 5
      /\ Len(Creates) = 5 /\ DOMAIN Creates = 1 .. 5
  BY DEF Drops, Creates, TeardownOrder, ProvisionOrder
<1>2. /\ \A i \in 1 .. 5 : Drops[i].act = "drop" /\ Creates[i].act = "create"
      /\ \A i \in 1 .. 5 : /\ Drops[i].obj = "seq" <=> i = 5
                           /\ Drops[i].obj = "log" <=> i = 4
                           /\ Creates[i].obj = "seq" <=> i = 1
                           /\ Creates[i].obj = "log" <=> i = 2
  BY DEF Drops, Creates, TeardownOrder, ProvisionOrder
<1>3. OrderInv(Drops)
  BY <1>1, <1>2 DEF OrderInv, Is
<1>4. OrderInv(Drops \o Creates)
  <2> DEFINE all == Drops \o Creates
  <2>1. /\ DOMAIN all = 1 .. 10
        /\ \A i \in 1 .. 10 : all[i] = IF i <= 5 THEN Drops[i] ELSE Creates[i - 5]
    <3> Drops \in Seq(Statements) /\ Creates \in Seq(Statements)
      BY DdlTypes
    <3> /\ Len(all) = Len(Drops) + Len(Creates)
        /\ \A i \in 1 .. Len(Drops) + Len(Creates) :
              all[i] = IF i <= Len(Drops) THEN Drops[i] ELSE Creates[i - Len(Drops)]
      BY ConcatProperties
    <3>1. Len(all) = 10
      BY <1>1
    <3>2. all \in Seq(Statements)
      BY ConcatProperties
    <3>3. DOMAIN all = 1 .. 10
      BY <3>1, <3>2, LenProperties
    <3>4. \A i \in 1 .. 10 : all[i] = IF i <= 5 THEN Drops[i] ELSE Creates[i - 5]
      BY <1>1
    <3> QED
      BY <3>3, <3>4
  <2> HIDE DEF all
  <2>2. /\ \A i \in 1 .. 10 : all[i].act = IF i <= 5 THEN "drop" ELSE "create"
        /\ \A i \in 1 .. 10 : Is(all[i], "drop", "seq") <=> i = 5
        /\ \A i \in 1 .. 10 : Is(all[i], "drop", "log") <=> i = 4
        /\ \A i \in 1 .. 10 : Is(all[i], "create", "seq") <=> i = 6
        /\ \A i \in 1 .. 10 : Is(all[i], "create", "log") <=> i = 7
    BY <1>2, <2>1 DEF Is
  <2>3. OrderInv(all)
    BY <2>1, <2>2 DEF OrderInv
  <2> QED
    BY <2>3 DEF all
<1>5. ASSUME NEW gone, "seq" \in there \/ "seq" \in gone
      PROVE  OrderInv(RepairPlan(gone))
  <2> DEFINE plan == RepairPlan(gone)
  <2>1. plan \in Seq(Creation) /\ Len(plan) \in Nat
    BY RepairPlanType
  <2>2. "seq" \in gone => Len(plan) > 0 /\ plan[1] = Creates[1]
    BY RepairPlanType
  <2>3. \A i \in DOMAIN plan : plan[i].act = "create"
    BY <2>1 DEF Creation
  <2>4. DOMAIN plan = 1 .. Len(plan) /\ Len(plan) \in Nat
    BY <2>1
  <2> HIDE DEF plan
  <2>5. \A i \in DOMAIN plan : Is(plan[i], "create", "log") =>
           \/ \E j \in DOMAIN plan : j < i /\ Is(plan[j], "create", "seq")
           \/ "seq" \in there /\ \A j \in DOMAIN plan : j < i => ~Is(plan[j], "drop", "seq")
    <3>1. CASE "seq" \in there
      BY <2>3, <3>1 DEF Is
    <3>2. CASE "seq" \in gone
      <4>1. Len(plan) > 0 /\ Is(plan[1], "create", "seq") /\ ~Is(plan[1], "create", "log")
        BY <1>2, <2>2, <3>2 DEF Is
      <4> QED
        BY <2>4, <4>1
    <3> QED
      BY <1>5, <3>1, <3>2
  <2>6. OrderInv(plan)
    BY <2>3, <2>5 DEF OrderInv, Is
  <2> QED
    BY <2>6 DEF plan
<1> QED
  BY <1>3, <1>4, <1>5

\* After its first statement the rest of an order is one.
LEMMA OrderStep ==
    ASSUME TypeInv, OneSession, DdlInv, NEW s \in Sessions, ExecDdl(s)
    PROVE  DdlInv'
<1> DEFINE todo == job[s].todo
           d == Head(todo)
           rest == Tail(todo)
<1>1. /\ At(s, "ddl") /\ todo # <<>> /\ todo \in Seq(Statements)
      /\ d = todo[1] /\ d \in Statements
      /\ Len(todo) \in Nat /\ 0 < Len(todo) /\ DOMAIN todo = 1 .. Len(todo)
  BY DdlCases
<1>2. /\ rest \in Seq(Statements) /\ Len(rest) = Len(todo) - 1
      /\ \A i \in 1 .. Len(rest) : rest[i] = todo[i + 1]
  BY <1>1, HeadTailProperties
<1>3. /\ DOMAIN rest = 1 .. Len(todo) - 1
      /\ \A i \in DOMAIN rest : rest[i] = todo[i + 1] /\ i + 1 \in DOMAIN todo /\ 1 < i + 1
  BY <1>1, <1>2, LenProperties
<1>4. OrderInv(todo)
  BY <1>1 DEF DdlInv
<1>5. job[s] \in JobState
  BY DEF TypeInv
<1> HIDE DEF todo, d, rest
<1>6. \A j \in DOMAIN todo : j = 1 \/ (j - 1 \in DOMAIN rest /\ rest[j - 1] = todo[j])
  BY <1>1, <1>3
<1>7. ASSUME NEW r, r = rest,
             \/ d.act = "drop" /\ DropObject(d.obj)
             \/ d.act = "create" /\ CreateObject(d.obj)
      PROVE  OrderInv(r)'
  <2>1. \A i, j \in DOMAIN rest : i < j /\ rest[i].act = "create" => rest[j].act = "create"
    <3> SUFFICES ASSUME NEW i \in DOMAIN rest, NEW j \in DOMAIN rest, i < j,
                        rest[i].act = "create"
                 PROVE  rest[j].act = "create"
      OBVIOUS
    <3>1. i + 1 < j + 1 /\ rest[i] = todo[i + 1] /\ rest[j] = todo[j + 1]
      BY <1>1, <1>3
    <3> QED
      BY <1>3, <1>4, <3>1 DEF OrderInv
  <2>2. ASSUME NEW i \in DOMAIN rest, Is(rest[i], "drop", "seq")
        PROVE  "log" \notin there' \/ \E j \in DOMAIN rest : j < i /\ Is(rest[j], "drop", "log")
    <3>1. Is(todo[i + 1], "drop", "seq") /\ i + 1 \in DOMAIN todo /\ i \in Nat /\ 1 < i + 1
      BY <1>1, <1>3, <2>2
    <3>2. CASE d.act = "drop" /\ DropObject(d.obj)
      <4>1. CASE "log" \notin there
        BY <3>2, <4>1 DEF DropObject
      <4>2. CASE \E j \in DOMAIN todo : j < i + 1 /\ Is(todo[j], "drop", "log")
        <5>1. PICK j \in DOMAIN todo : j < i + 1 /\ Is(todo[j], "drop", "log")
          BY <4>2
        <5>2. CASE j = 1
          BY <1>1, <3>2, <5>1, <5>2 DEF DropObject, Is
        <5>3. CASE j - 1 \in DOMAIN rest /\ rest[j - 1] = todo[j]
          BY <1>1, <3>1, <5>1, <5>3
        <5> QED
          BY <1>6, <5>2, <5>3
      <4> QED
        BY <1>4, <3>1, <4>1, <4>2 DEF OrderInv
    <3>3. CASE d.act = "create"
      <4>1. 1 \in DOMAIN todo
        BY <1>1
      <4> QED
        BY <1>1, <1>4, <3>1, <3>3, <4>1 DEF OrderInv, Is
    <3> QED
      BY <1>7, <3>2, <3>3
  <2>3. ASSUME NEW i \in DOMAIN rest, Is(rest[i], "create", "log")
        PROVE  \/ \E j \in DOMAIN rest : j < i /\ Is(rest[j], "create", "seq")
               \/ "seq" \in there' /\ \A j \in DOMAIN rest : j < i => ~Is(rest[j], "drop", "seq")
    <3>1. Is(todo[i + 1], "create", "log") /\ i + 1 \in DOMAIN todo /\ i \in Nat /\ 1 < i + 1
      BY <1>1, <1>3, <2>3
    <3>2. CASE \E j \in DOMAIN todo : j < i + 1 /\ Is(todo[j], "create", "seq")
      <4>1. PICK j \in DOMAIN todo : j < i + 1 /\ Is(todo[j], "create", "seq")
        BY <3>2
      <4>2. CASE j = 1
        <5>1. d.act = "create" /\ d.obj = "seq"
          BY <1>1, <4>1, <4>2 DEF Is
        <5>2. "seq" \in there'
          BY <1>7, <5>1 DEF CreateObject
        <5>3. \A k \in DOMAIN rest : ~Is(rest[k], "drop", "seq")
          <6>1. 1 \in DOMAIN todo
            BY <1>1
          <6> QED
            BY <1>1, <1>3, <1>4, <5>1, <6>1 DEF OrderInv, Is
        <5> QED
          BY <5>2, <5>3
      <4>3. CASE j - 1 \in DOMAIN rest /\ rest[j - 1] = todo[j]
        BY <1>1, <3>1, <4>1, <4>3
      <4> QED
        BY <1>6, <4>2, <4>3
    <3>3. CASE /\ "seq" \in there
               /\ \A j \in DOMAIN todo : j < i + 1 => ~Is(todo[j], "drop", "seq")
      <4>1. 1 \in DOMAIN todo /\ ~Is(d, "drop", "seq")
        BY <1>1, <3>1, <3>3
      <4>2. "seq" \in there'
        BY <1>7, <3>3, <4>1 DEF DropObject, CreateObject, Is
      <4>3. \A j \in DOMAIN rest : j < i => j + 1 < i + 1
        BY <1>1, <1>3
      <4>4. \A j \in DOMAIN rest : j < i => ~Is(rest[j], "drop", "seq")
        BY <1>3, <3>3, <4>3
      <4> QED
        BY <4>2, <4>4
    <3> QED
      BY <1>4, <3>1, <3>2, <3>3 DEF OrderInv
  <2> QED
    BY <1>7, <2>1, <2>2, <2>3 DEF OrderInv, Is
<1>8. CASE Ends(s) /\ UNCHANGED sap
  BY <1>8, OnlyEnds DEF DdlInv, At
<1>9. CASE Does(s, [job[s] EXCEPT !.todo = Tail(@)])
  <2>1. \A u \in Sessions : u = s /\ job'[u] = [job[s] EXCEPT !.todo = rest]
    BY <1>9, OnlyJob DEF rest, todo
  <2>2. \A u \in Sessions : job'[u].todo = rest /\ job'[u].pc = "ddl"
    BY <1>1, <1>5, <2>1 DEF JobState, At
  <2>3. PICK r : r = rest
    OBVIOUS
  <2>4. CASE OrderInv(r)'
    BY <2>2, <2>3, <2>4 DEF DdlInv, At, OrderInv, Is
  <2>5. OrderInv(r)' \/ (Ends(s) /\ UNCHANGED sap)
    BY <1>7, <2>3, DdlCases DEF d, todo
  <2> QED
    BY <1>8, <2>4, <2>5
<1> QED
  BY <1>8, <1>9, DdlCases

\* An order stays one while the log and the sequence are left alone.
LEMMA OrderKept ==
    ASSUME NEW r, "log" \in there' <=> "log" \in there, "seq" \in there' <=> "seq" \in there
    PROVE  OrderInv(r)' <=> OrderInv(r)
BY DEF OrderInv, Is

\* What a session does next, in one cycle or one command.
LEMMA JobSteps ==
    ASSUME TypeInv, OneSession, NEW s \in Sessions,
           PlanCycle(s) \/ Cycle(s) \/ Teardown(s) \/ (\E m \in Modes : Provision(s, m))
           \/ (\E verb \in {"status", "repair"} : Probe(s, verb)) \/ Derive(s) \/ DdlDone(s)
           \/ ApplyFails(s) \/ Aborts(s)
    PROVE  /\ UNCHANGED there
           /\ \A u \in Sessions :
                 /\ u = s
                 /\ job'[u].pc = "ddl" =>
                       \/ job'[u].todo = Drops \/ job'[u].todo = Drops \o Creates
                       \/ At(s, "derive") /\ job'[u].todo = RepairPlan(job[s].gone)
                 /\ job'[u].pc = "derive" => job'[u].gone = Objects \ Enabled
<1>1. Idle \in JobState /\ Idle.pc = "idle" /\ job[s] \in JobState
  BY NullFacts DEF TypeInv
<1>2. ASSUME Ends(s)
      PROVE  \A u \in Sessions : u = s /\ job'[u].pc \notin {"ddl", "derive"}
  BY <1>2, OnlyEnds
<1>3. ASSUME NEW f, Does(s, f), f.pc \notin {"ddl", "derive"}
      PROVE  \A u \in Sessions : u = s /\ job'[u].pc \notin {"ddl", "derive"}
  BY <1>3, OnlyJob
<1>4. CASE PlanCycle(s)
  BY <1>4, <1>1, <1>3 DEF PlanCycle, JobState, sap
<1>5. CASE CreateStage(s) \/ ReadLog(s) \/ CreateImages(s)
  BY <1>5, <1>1, <1>3 DEF CreateStage, ReadLog, CreateImages, JobState, sap
<1>6. CASE IngestSlice(s) \/ Prune(s)
  BY <1>6, <1>1, <1>2, <1>3 DEF IngestSlice, Prune, JobState, sap, At
<1>7. CASE NetKeysQuery(s)
  <2> DEFINE net == IF job[s].mode = "KEYS_IUD" THEN NetKeys(stage.rows, {"I", "U"}) ELSE {}
             f == [job[s] EXCEPT !.pc = IF net = {} THEN "size" ELSE "images",
                                 !.net = net, !.left = net]
  <2>1. f.pc \in {"size", "images"}
    BY <1>1 DEF JobState
  <2>2. Does(s, f) /\ UNCHANGED there
    BY <1>7 DEF NetKeysQuery, sap
  <2> HIDE DEF net, f
  <2> QED
    BY <1>3, <2>1, <2>2
<1>8. CASE Reread(s)
  <2>1. PICK P : Does(s, [job[s] EXCEPT !.left = @ \ P,
                                        !.pc = IF P = job[s].left THEN "size" ELSE "reread"])
    BY <1>8 DEF Reread
  <2> DEFINE f == [job[s] EXCEPT !.left = @ \ P,
                                 !.pc = IF P = job[s].left THEN "size" ELSE "reread"]
  <2>2. f.pc \in {"size", "reread"}
    BY <1>1 DEF JobState
  <2>3. Does(s, f) /\ UNCHANGED there
    BY <1>8, <2>1 DEF Reread, sap
  <2> HIDE DEF f
  <2> QED
    BY <1>3, <2>2, <2>3
<1>9. CASE Size(s) \/ Apply(s)
  BY <1>9, <1>1, <1>2, <1>3 DEF Size, Apply, JobState, sap
<1>10. CASE ApplyFails(s) \/ Aborts(s)
  BY <1>10, <1>2 DEF ApplyFails, Aborts, sap
<1>11. CASE Teardown(s)
  <2> DEFINE f == [Idle EXCEPT !.pc = "ddl", !.verb = "teardown", !.todo = Drops]
  <2>1. f.pc = "ddl" /\ f.todo = Drops
    BY DEF Idle
  <2>2. Does(s, f) /\ UNCHANGED there
    BY <1>11 DEF Teardown, sap
  <2> HIDE DEF f
  <2> QED
    BY <2>1, <2>2, OnlyJob
<1>12. ASSUME NEW m \in Modes, Provision(s, m)
       PROVE  /\ UNCHANGED there
              /\ \A u \in Sessions :
                    u = s /\ job'[u].pc = "ddl" /\ job'[u].todo = Drops \o Creates
  <2> DEFINE f == [Idle EXCEPT !.pc = "ddl", !.verb = "provision", !.todo = Drops \o Creates]
  <2>1. f.pc = "ddl" /\ f.todo = Drops \o Creates
    BY DEF Idle
  <2>2. Does(s, f) /\ UNCHANGED there
    BY <1>12 DEF Provision, sap
  <2> HIDE DEF f
  <2> QED
    BY <2>1, <2>2, OnlyJob
<1>13. ASSUME NEW verb \in {"status", "repair"}, Probe(s, verb)
       PROVE  /\ UNCHANGED there
              /\ \A u \in Sessions :
                    u = s /\ job'[u].pc = "derive" /\ job'[u].gone = Objects \ Enabled
  <2> DEFINE f == [Idle EXCEPT !.pc = "derive", !.verb = verb, !.gone = Objects \ Enabled]
  <2>1. f.pc = "derive" /\ f.gone = Objects \ Enabled
    BY DEF Idle
  <2>2. Does(s, f) /\ UNCHANGED there
    BY <1>13 DEF Probe, sap
  <2> HIDE DEF f
  <2> QED
    BY <2>1, <2>2, OnlyJob
<1>14. CASE Derive(s)
  <2> DEFINE f == [job[s] EXCEPT !.pc = "ddl", !.todo = RepairPlan(job[s].gone)]
  <2>1. f.pc = "ddl" /\ f.todo = RepairPlan(job[s].gone)
    BY <1>1 DEF JobState
  <2>2. Ends(s) \/ Does(s, f)
    BY <1>14 DEF Derive
  <2>3. At(s, "derive") /\ UNCHANGED there
    BY <1>14 DEF Derive, sap
  <2> HIDE DEF f
  <2> QED
    BY <1>2, <2>1, <2>2, <2>3, OnlyJob
<1>15. CASE DdlDone(s)
  <2> DEFINE f == [Idle EXCEPT !.pc = "derive", !.verb = "recheck", !.gone = Objects \ Enabled]
  <2>1. f.pc = "derive" /\ f.gone = Objects \ Enabled
    BY DEF Idle
  <2>2. Ends(s) \/ Does(s, f)
    BY <1>15 DEF DdlDone
  <2>3. UNCHANGED there
    BY <1>15 DEF DdlDone, sap
  <2> HIDE DEF f
  <2> QED
    BY <1>2, <2>1, <2>2, <2>3, OnlyJob
<1> QED
  BY <1>4, <1>5, <1>6, <1>7, <1>8, <1>9, <1>10, <1>11, <1>12, <1>13, <1>14, <1>15
  DEF Cycle

LEMMA DdlStep ==
    ASSUME TypeInv, OneSession, DdlInv, Next
    PROVE  DdlInv'
<1>1. CASE Sap
  <2>1. /\ UNCHANGED job
        /\ "log" \in there' <=> "log" \in there
        /\ "seq" \in there' <=> "seq" \in there
    BY <1>1 DEF Sap, Change, SapCommit, SapRollback, LoseTrigger, Ops
  <2>2. \A u \in Sessions : OrderInv(job[u].todo)' <=> OrderInv(job[u].todo)
    <3> SUFFICES ASSUME NEW u \in Sessions
                 PROVE  OrderInv(job[u].todo)' <=> OrderInv(job[u].todo)
      OBVIOUS
    <3>1. PICK r : r = job[u].todo
      OBVIOUS
    <3>2. OrderInv(r)' <=> OrderInv(r)
      BY <2>1, OrderKept
    <3> QED
      BY <2>1, <3>1, <3>2 DEF OrderInv, Is
  <2> QED
    BY <2>1, <2>2 DEF DdlInv, At
<1>2. ASSUME NEW s \in Sessions, ExecDdl(s) PROVE DdlInv'
  BY <1>2, OrderStep
<1>3. ASSUME NEW s \in Sessions,
             /\ UNCHANGED there
             /\ \A u \in Sessions :
                   /\ u = s
                   /\ job'[u].pc = "ddl" =>
                         \/ job'[u].todo = Drops \/ job'[u].todo = Drops \o Creates
                         \/ At(s, "derive") /\ job'[u].todo = RepairPlan(job[s].gone)
                   /\ job'[u].pc = "derive" => job'[u].gone = Objects \ Enabled
      PROVE  DdlInv'
  <2> SUFFICES ASSUME NEW u \in Sessions
               PROVE  /\ At(u, "ddl")' => OrderInv(job[u].todo)'
                      /\ At(u, "derive")' => "seq" \in there' \/ "seq" \in job'[u].gone
    BY DEF DdlInv
  <2>1. ASSUME At(u, "ddl")' PROVE OrderInv(job[u].todo)'
    <3>1. At(s, "derive") => "seq" \in there \/ "seq" \in job[s].gone
      BY DEF DdlInv
    <3>2. PICK r : r = job'[u].todo
      OBVIOUS
    <3>3. OrderInv(r)
      BY <1>3, <2>1, <3>1, <3>2, PlannedOrders DEF At
    <3>4. OrderInv(r)'
      BY <1>3, <3>3, OrderKept
    <3> QED
      BY <3>2, <3>4 DEF OrderInv, Is
  <2>2. ASSUME At(u, "derive")' PROVE "seq" \in there' \/ "seq" \in job'[u].gone
    BY <1>3, <2>2 DEF At, Enabled, Objects
  <2> QED
    BY <2>1, <2>2
<1> QED
  BY <1>1, <1>2, <1>3, JobSteps DEF Next, Command, Statement

\* Outside a cycle nothing is read and nothing staged by this session.
LEMMA StageStep ==
    ASSUME TypeInv, OneSession, StageInv, Next
    PROVE  StageInv'
<1>1. ASSUME NEW s \in Sessions, NEW f, Does(s, f),
             f.pc \notin {"read", "ingest", "images", "reread", "size", "apply"}
      PROVE  StageInv'
  BY <1>1, OnlyJob DEF StageInv, At, InBatch, AllStaged
<1>2. ASSUME NEW s \in Sessions, Ends(s) PROVE StageInv'
  BY <1>2, OnlyEnds DEF StageInv, At, InBatch, AllStaged
<1>3. CASE Sap
  <2>1. UNCHANGED <<job, stage>> /\ slog \subseteq slog'
    BY <1>3 DEF Sap, Change, SapCommit, SapRollback, LoseTrigger, server
  <2> QED
    BY <2>1 DEF StageInv, At, InBatch, AllStaged
<1>4. ASSUME NEW s \in Sessions, Cycle(s) PROVE StageInv'
  <2>1. job[s] \in JobState
    BY DEF TypeInv
  <2>2. CASE CreateStage(s)
    <3>1. \A u \in Sessions : job'[u].pc = "read"
      BY <2>1, <2>2, OnlyJob DEF CreateStage, JobState
    <3>2. stage'.rows = {}
      BY <2>2 DEF CreateStage
    <3> QED
      BY <3>1, <3>2 DEF StageInv, At, InBatch, AllStaged
  <2>3. CASE ReadLog(s)
    <3> DEFINE f == [job[s] EXCEPT !.pc = "ingest", !.rows = Unread(s)]
    <3>1. \A u \in Sessions : job'[u].pc = "ingest" /\ job'[u].rows = Unread(s)
      <4>1. f.pc = "ingest" /\ f.rows = Unread(s)
        BY <2>1 DEF JobState
      <4>2. Does(s, f)
        BY <2>3 DEF ReadLog
      <4> HIDE DEF f
      <4> QED
        BY <4>1, <4>2, OnlyJob
    <3>2. stage' = stage /\ slog' = slog /\ stage.rows = {}
      BY <2>3 DEF ReadLog, sap, server, StageInv
    <3> QED
      BY <3>1, <3>2 DEF StageInv, At, InBatch, AllStaged, Unread
  <2>4. CASE IngestSlice(s)
    <3>1. PICK P \in Portion(job[s].rows) :
             /\ stage' = [stage EXCEPT !.rows = @ \cup P]
             /\ Does(s, [job[s] EXCEPT !.rows = @ \ P])
      BY <2>4 DEF IngestSlice
    <3>2. /\ \A u \in Sessions : job'[u].pc = "ingest" /\ job'[u].rows = job[s].rows \ P
          /\ stage'.rows = stage.rows \cup P
      BY <2>1, <2>4, <3>1, OnlyJob DEF IngestSlice, At, JobState, TypeInv
    <3>3. stage.rows \cup job[s].rows \subseteq slog /\ P \subseteq job[s].rows /\ slog' = slog
      BY <2>4, PortionSubset DEF IngestSlice, StageInv, InBatch, At, sap
    <3> QED
      BY <3>2, <3>3 DEF StageInv, At, InBatch, AllStaged
  <2>5. ASSUME NEW f, Does(s, f), f.rows = job[s].rows, InBatch(s), job[s].rows = {},
               f.pc \in {"images", "reread", "size", "apply"},
               UNCHANGED <<slog, stage>>
        PROVE  StageInv'
    BY <2>5, OnlyJob DEF StageInv, At, InBatch, AllStaged
  <2>6. CASE NetKeysQuery(s)
    <3> DEFINE net == IF job[s].mode = "KEYS_IUD" THEN NetKeys(stage.rows, {"I", "U"}) ELSE {}
               f == [job[s] EXCEPT !.pc = IF net = {} THEN "size" ELSE "images",
                                   !.net = net, !.left = net]
    <3>1. f.pc \in {"size", "images"} /\ f.rows = job[s].rows
      BY <2>1 DEF JobState
    <3>2. Does(s, f) /\ InBatch(s) /\ job[s].rows = {} /\ UNCHANGED <<slog, stage>>
      BY <2>6 DEF NetKeysQuery, InBatch, At, sap, server
    <3> HIDE DEF net, f
    <3> QED
      BY <2>5, <3>1, <3>2
  <2>7. CASE CreateImages(s)
    <3>1. InBatch(s) /\ job[s].rows = {} /\ UNCHANGED <<slog, stage>>
      BY <2>7 DEF CreateImages, InBatch, AllStaged, StageInv, At, sap
    <3> QED
      BY <2>1, <2>5, <2>7, <3>1 DEF CreateImages, JobState
  <2>8. CASE Reread(s)
    <3>1. PICK P : Does(s, [job[s] EXCEPT !.left = @ \ P,
                                          !.pc = IF P = job[s].left THEN "size" ELSE "reread"])
      BY <2>8 DEF Reread
    <3> DEFINE f == [job[s] EXCEPT !.left = @ \ P,
                                   !.pc = IF P = job[s].left THEN "size" ELSE "reread"]
    <3>2. f.pc \in {"size", "reread"} /\ f.rows = job[s].rows
      BY <2>1 DEF JobState
    <3>3. Does(s, f) /\ InBatch(s) /\ job[s].rows = {} /\ UNCHANGED <<slog, stage>>
      BY <2>8, <3>1 DEF Reread, InBatch, AllStaged, StageInv, At, sap
    <3> HIDE DEF f
    <3> QED
      BY <2>5, <3>2, <3>3
  <2>9. CASE Size(s)
    <3>1. CASE Ends(s)
      BY <1>2, <3>1
    <3>2. CASE Does(s, [job[s] EXCEPT !.pc = "apply", !.bound = Highest(stage.rows)])
               /\ UNCHANGED stage
      <4>1. InBatch(s) /\ job[s].rows = {} /\ UNCHANGED slog
        BY <2>9 DEF Size, InBatch, AllStaged, StageInv, At, sap
      <4> QED
        BY <2>1, <2>5, <3>2, <4>1 DEF JobState
    <3> QED
      BY <2>9, <3>1, <3>2 DEF Size
  <2>10. CASE Apply(s)
    BY <1>1, <1>2, <2>1, <2>10 DEF Apply, JobState
  <2>11. CASE Prune(s)
    BY <1>2, <2>11 DEF Prune
  <2> QED
    BY <1>4, <2>2, <2>3, <2>4, <2>6, <2>7, <2>8, <2>9, <2>10, <2>11 DEF Cycle
<1>5. ASSUME NEW s \in Sessions, ExecDdl(s) PROVE StageInv'
  <2>1. job[s] \in JobState /\ At(s, "ddl")
    BY <1>5, DdlCases DEF TypeInv
  <2>2. Ends(s) \/ Does(s, [job[s] EXCEPT !.todo = Tail(@)])
    BY <1>5, DdlCases
  <2> QED
    BY <1>1, <1>2, <2>1, <2>2 DEF JobState, At
<1>6. ASSUME NEW s \in Sessions, PlanCycle(s) \/ Command(s) \/ Derive(s) \/ DdlDone(s)
      PROVE  StageInv'
  <2>1. job[s] \in JobState
    BY DEF TypeInv
  <2>2. ASSUME NEW f, Does(s, f), f.pc \in {"create", "ddl", "derive"} PROVE StageInv'
    BY <1>1, <2>2
  <2>3. CASE PlanCycle(s)
    BY <2>2, <2>3 DEF PlanCycle, Idle
  <2>4. ASSUME NEW m \in Modes, Provision(s, m) PROVE StageInv'
    BY <2>2, <2>4 DEF Provision, Idle
  <2>5. CASE Teardown(s)
    BY <2>2, <2>5 DEF Teardown, Idle
  <2>6. ASSUME NEW verb \in {"status", "repair"}, Probe(s, verb) PROVE StageInv'
    BY <2>2, <2>6 DEF Probe, Idle
  <2>7. CASE Derive(s)
    BY <1>2, <2>1, <2>2, <2>7 DEF Derive, JobState
  <2>8. CASE DdlDone(s)
    BY <1>2, <2>2, <2>8 DEF DdlDone, Idle
  <2> QED
    BY <1>6, <2>3, <2>4, <2>5, <2>6, <2>7, <2>8 DEF Command
<1>7. ASSUME NEW s \in Sessions, ApplyFails(s) \/ Aborts(s) PROVE StageInv'
  BY <1>2, <1>7 DEF ApplyFails, Aborts
<1> QED
  BY <1>3, <1>4, <1>5, <1>6, <1>7 DEF Next, Statement

\* A batch whose sequences are distinct deletes or writes a key, never both: what
\* the log is told is what the target does.
LEMMA LogStep ==
    ASSUME TypeInv, SeqInv, StageInv, replay = target, Next
    PROVE  replay' = target'
<1>1. ASSUME NEW s \in Sessions, Apply(s) PROVE replay' = target'
  <2>1. \A q, r \in stage.rows : q.seq = r.seq => q = r
    BY <1>1 DEF Apply, At, StageInv, InBatch, SeqInv
  <2>2. \A q, r \in stage.rows : q.seq <= r.seq /\ r.seq <= q.seq => q = r
    BY <2>1 DEF TypeInv, TypeOK, LogRows
  <2>3. NetDeleted \cap NetWritten = {}
    BY <2>2 DEF NetDeleted, NetWritten, NetKeys
  <2>4. \A k \in Keys : LogOf(s)[k] = Applied(s)[k]
    BY <2>3 DEF LogOf, Applied
  <2>5. LogOf(s) = Applied(s)
    BY <2>4 DEF LogOf, Applied
  <2> QED
    BY <1>1, <2>5 DEF Apply
<1>2. CASE UNCHANGED <<target, replay>>
  BY <1>2
<1>3. Next => UNCHANGED <<target, replay>> \/ \E s \in Sessions : Apply(s)
  BY DEF Next, Sap, Change, SapCommit, SapRollback, LoseTrigger, Cycle, PlanCycle, CreateStage,
         ReadLog, IngestSlice, NetKeysQuery, CreateImages, Reread, Size, Prune, Command, Provision,
         Teardown, Probe, Statement, Derive, ExecDdl, DdlDone, ApplyFails, Aborts, server
<1> QED
  BY <1>1, <1>2, <1>3

LEMMA LogHolds == ASSUME OneSession PROVE Spec => [](TypeInv /\ LogInv)
<1>1. Init => TypeInv /\ LogInv
  <2> SUFFICES ASSUME Init PROVE LogInv
    BY InitType
  <2>1. slog = {} /\ there = {} /\ replay = target /\ \A t \in Txns : tx[t] = Null
    BY DEF Init
  <2>2. \A s \in Sessions : job[s].pc = "idle"
    BY NullFacts DEF Init
  <2> QED
    BY <2>1, <2>2 DEF LogInv, SeqInv, CatalogueInv, DdlInv, StageInv, Drawn, At, InBatch, AllStaged
<1>2. TypeInv /\ LogInv /\ [Next]_vars => (TypeInv /\ LogInv)'
  <2> SUFFICES ASSUME TypeInv, LogInv, [Next]_vars PROVE (TypeInv /\ LogInv)'
    OBVIOUS
  <2>1. CASE Next
    BY <2>1, TypeStep, SeqStep, CatalogueStep, DdlStep, StageStep, LogStep DEF LogInv
  <2>2. CASE UNCHANGED vars
    <3>1. LogInv'
      BY <2>2 DEF vars, sap, server, LogInv, SeqInv, CatalogueInv, DdlInv, StageInv, Drawn, At,
                  InBatch, AllStaged, OrderInv, Is
    <3> QED
      BY <2>2, <3>1, TypeStep
  <2> QED
    BY <2>1, <2>2
<1> QED
  BY <1>1, <1>2, PTL DEF Spec

\* The change log of a target one session works on replays it, through lost
\* answers, rows that are gone when read again, prunes, drops and recreations.
THEOREM LogIsFaithful == ASSUME OneSession PROVE Spec => []LogReplaysTarget
<1>1. TypeInv /\ LogInv => LogReplaysTarget
  BY DEF LogInv, LogReplaysTarget
<1> QED
  BY <1>1, LogHolds, PTL

-------------------------------------------------------------------------------
(* With one session, one transaction at a time and one mode no change is lost. *)

\* Steps that leave the source, the log and the target alone and do not lead
\* out of DISABLED.
LEMMA QuietStep ==
    ASSUME ChangeInv, UNCHANGED <<sap, target>>, cdc.status # "NONE", cdc'.status # "NONE",
           cdc'.position = cdc.position, cdc'.mode = cdc.mode,
           cdc.status = "DISABLED" => cdc'.status = "DISABLED"
    PROVE  OrderedInv' /\ RowInv' /\ ModeInv' /\ OwedInv'
<1>1. OrderedInv'
  BY DEF ChangeInv, OrderedInv, Drawn, sap
<1>2. RowInv'
  BY DEF ChangeInv, RowInv, Latest, sap
<1>3. ModeInv'
  BY DEF ChangeInv, ModeInv
<1>4. OwedInv'
  BY DEF ChangeInv, OwedInv, sap
<1> QED
  BY <1>1, <1>2, <1>3, <1>4

\* A session that waits or looks at the catalogue owes nothing to a batch.
LEMMA NoBatch ==
    ASSUME \A u \in Sessions : job'[u].pc \in {"idle", "derive"}
    PROVE  RunInv' /\ BatchInv'
<1>1. \A u \in Sessions : ReadAgain(u)' = {}
  BY DEF ReadAgain, At
<1> QED
  BY <1>1 DEF RunInv, BatchInv, InCycle, InBatch, AllStaged, At

LEMMA NotBatch ==
    ASSUME \A u \in Sessions : job'[u].pc \in {"create", "read", "prune", "ddl"}
    PROVE  BatchInv'
<1>1. \A u \in Sessions : ReadAgain(u)' = {}
  BY DEF ReadAgain, At
<1> QED
  BY <1>1 DEF BatchInv, InBatch, AllStaged, At

LEMMA BusyHasStatus ==
    ASSUME ModeInv, NEW s \in Sessions, ~At(s, "idle")
    PROVE  cdc.status # "NONE"
BY DEF ModeInv

\* A step that only changes what its session does, and the tables of its batch.
LEMMA CycleQuiet ==
    ASSUME TypeInv, ChangeInv, NEW s \in Sessions,
           PlanCycle(s) \/ CreateStage(s) \/ ReadLog(s) \/ IngestSlice(s) \/ NetKeysQuery(s)
           \/ CreateImages(s) \/ Reread(s) \/ Size(s)
    PROVE  OrderedInv' /\ RowInv' /\ ModeInv' /\ OwedInv'
<1>1. UNCHANGED <<sap, target, cdc>>
  BY DEF PlanCycle, CreateStage, ReadLog, IngestSlice, NetKeysQuery, CreateImages, Reread, Size,
         server
<1>2. cdc.status # "NONE"
  BY BusyHasStatus DEF PlanCycle, CreateStage, ReadLog, IngestSlice, NetKeysQuery, CreateImages,
                       Reread, Size, Scheduled, ChangeInv, At
<1> QED
  BY <1>1, <1>2, QuietStep

\* Planning a cycle and creating its staging table.
LEMMA PlanKeepsChange ==
    ASSUME TypeInv, OneSession, ChangeInv, NEW s \in Sessions, PlanCycle(s) \/ CreateStage(s)
    PROVE  ChangeInv'
<1>1. job[s] \in JobState
  BY DEF TypeInv
<1>2. CASE PlanCycle(s)
  <2> DEFINE f == [Idle EXCEPT !.pc = "create", !.verb = "cycle",
                               !.mode = cdc.mode, !.pos = cdc.position]
  <2>1. f.pc = "create" /\ f.mode = cdc.mode /\ f.pos = cdc.position
    BY DEF Idle
  <2>2. Does(s, f) /\ cdc' = cdc /\ cdc.status \in {"SEEDED", "ACTIVE"}
    BY <1>2 DEF PlanCycle, Scheduled, server
  <2> HIDE DEF f
  <2>3. \A u \in Sessions : job'[u] = f
    BY <2>2, OnlyJob
  <2>4. RunInv'
    BY <2>1, <2>2, <2>3 DEF RunInv, InCycle, InBatch, At
  <2>5. BatchInv'
    BY <2>1, <2>3, NotBatch
  <2> QED
    BY <1>2, <2>4, <2>5, CycleQuiet DEF ChangeInv
<1>3. CASE CreateStage(s)
  <2> DEFINE f == [job[s] EXCEPT !.pc = "read"]
  <2>1. f.pc = "read" /\ f.mode = job[s].mode /\ f.pos = job[s].pos
    BY <1>1 DEF JobState
  <2>2. Does(s, f) /\ cdc' = cdc /\ At(s, "create")
    BY <1>3 DEF CreateStage
  <2> HIDE DEF f
  <2>3. \A u \in Sessions : job'[u] = f
    BY <2>2, OnlyJob
  <2>4. RunInv'
    BY <2>1, <2>2, <2>3 DEF ChangeInv, RunInv, InCycle, InBatch, At
  <2>5. BatchInv'
    BY <2>1, <2>3, NotBatch
  <2> QED
    BY <1>3, <2>4, <2>5, CycleQuiet DEF ChangeInv
<1> QED
  BY <1>2, <1>3

\* Reading the log and staging what was read.
LEMMA StagingKeepsChange ==
    ASSUME TypeInv, OneSession, StageInv, ChangeInv, NEW s \in Sessions,
           ReadLog(s) \/ IngestSlice(s)
    PROVE  ChangeInv'
<1>1. job[s] \in JobState
  BY DEF TypeInv
<1>2. ASSUME NEW f, Does(s, f), f.pc = "ingest", f.mode = job[s].mode, f.pos = job[s].pos,
             At(s, "read") \/ At(s, "ingest"), cdc' = cdc, slog' = slog,
             \A r \in stage'.rows \cup f.rows : r \in slog /\ r.seq > job[s].pos,
             \A r \in slog : r.seq > job[s].pos =>
                r \in stage'.rows \cup f.rows \/ \A q \in stage'.rows \cup f.rows : q.seq < r.seq
      PROVE  RunInv' /\ BatchInv'
  <2>1. \A u \in Sessions : u = s /\ job'[u] = f
    BY <1>2, OnlyJob
  <2>2. RunInv'
    BY <1>2, <2>1 DEF ChangeInv, RunInv, InCycle, InBatch, At
  <2>3. \A u \in Sessions : ReadAgain(u)' = {}
    BY <1>2, <2>1 DEF ReadAgain, At
  <2>4. BatchInv'
    BY <1>2, <2>1, <2>3 DEF BatchInv, InBatch, AllStaged, At, After
  <2> QED
    BY <2>2, <2>4
<1>3. CASE ReadLog(s)
  <2> DEFINE f == [job[s] EXCEPT !.pc = "ingest", !.rows = Unread(s)]
  <2>1. f.pc = "ingest" /\ f.rows = Unread(s) /\ f.mode = job[s].mode /\ f.pos = job[s].pos
    BY <1>1 DEF JobState
  <2>2. Does(s, f) /\ cdc' = cdc /\ slog' = slog /\ stage' = stage /\ At(s, "read")
    BY <1>3 DEF ReadLog, sap, server
  <2>3. stage'.rows \cup f.rows = {r \in slog : r.seq > job[s].pos}
    BY <2>1, <2>2 DEF StageInv, Unread
  <2> HIDE DEF f
  <2>4. RunInv' /\ BatchInv'
    BY <1>2, <2>1, <2>2, <2>3
  <2> QED
    BY <1>3, <2>4, CycleQuiet DEF ChangeInv
<1>4. CASE IngestSlice(s)
  <2>1. PICK P \in Portion(job[s].rows) :
           /\ stage' = [stage EXCEPT !.rows = @ \cup P]
           /\ Does(s, [job[s] EXCEPT !.rows = @ \ P])
    BY <1>4 DEF IngestSlice
  <2> DEFINE f == [job[s] EXCEPT !.rows = @ \ P]
  <2>2. /\ f.pc = job[s].pc /\ f.rows = job[s].rows \ P
        /\ f.mode = job[s].mode /\ f.pos = job[s].pos
    BY <1>1 DEF JobState
  <2>3. Does(s, f) /\ cdc' = cdc /\ slog' = slog /\ At(s, "ingest")
    BY <1>4, <2>1 DEF IngestSlice, sap
  <2>4. stage'.rows = stage.rows \cup P /\ P \subseteq job[s].rows
    BY <2>1, PortionSubset DEF TypeInv
  <2>5. stage'.rows \cup f.rows = stage.rows \cup job[s].rows
    BY <2>2, <2>4
  <2> HIDE DEF f
  <2>6. RunInv' /\ BatchInv'
    BY <1>2, <2>2, <2>3, <2>5 DEF ChangeInv, BatchInv, StageInv, InBatch, At, After
  <2> QED
    BY <1>4, <2>6, CycleQuiet DEF ChangeInv
<1> QED
  BY <1>3, <1>4

\* A page of keys is read again as the source has them now.
LEMMA ImagesKeepChange ==
    ASSUME TypeInv, OneSession, StageInv, ChangeInv, NEW s \in Sessions,
           NetKeysQuery(s) \/ CreateImages(s) \/ Reread(s)
    PROVE  ChangeInv'
<1>1. job[s] \in JobState
  BY DEF TypeInv
<1>2. ASSUME NEW f, Does(s, f), f.mode = job[s].mode, f.pos = job[s].pos, f.rows = job[s].rows,
             f.pc \in {"images", "reread", "size"}, InBatch(s),
             UNCHANGED <<sap, cdc, stage>>,
             f.net = IF f.mode = "KEYS_IUD" THEN NetKeys(stage.rows, {"I", "U"}) ELSE {},
             f.pc = "images" => f.left = f.net,
             \A k \in (IF f.pc = "reread" THEN f.net \ f.left
                       ELSE IF f.pc = "size" THEN f.net ELSE {}) \ missed :
                \/ images'.rows[k] = source[k]
                \/ \E r \in slog : r.key = k /\ After(s, r)
      PROVE  RunInv' /\ BatchInv'
  <2>1. \A u \in Sessions : u = s /\ job'[u] = f
    BY <1>2, OnlyJob
  <2>2. RunInv'
    BY <1>2, <2>1 DEF ChangeInv, RunInv, InCycle, InBatch, At
  <2>3. \A u \in Sessions : \A r : After(u, r)' <=> After(u, r)
    BY <1>2, <2>1 DEF After
  <2>4. \A u \in Sessions : ReadAgain(u)' = IF f.pc = "reread" THEN f.net \ f.left
                                            ELSE IF f.pc = "size" THEN f.net ELSE {}
    BY <1>2, <2>1 DEF ReadAgain, At
  <2>5. UNCHANGED <<slog, missed, source, stage>>
    BY <1>2 DEF sap
  <2> SUFFICES ASSUME NEW u \in Sessions
               PROVE  /\ InBatch(u)' =>
                            /\ \A r \in stage'.rows \cup job'[u].rows : r.seq > job'[u].pos
                            /\ \A r \in slog' : r.seq > job'[u].pos =>
                                  r \in stage'.rows \cup job'[u].rows \/ After(u, r)'
                      /\ AllStaged(u)' => job'[u].net =
                            IF job'[u].mode = "KEYS_IUD"
                            THEN NetKeys(stage'.rows, {"I", "U"}) ELSE {}
                      /\ At(u, "images")' => job'[u].left = job'[u].net
                      /\ \A k \in ReadAgain(u)' \ missed' :
                            \/ images'.rows[k] = source'[k]
                            \/ \E r \in slog' : r.key = k /\ After(u, r)'
                      /\ At(u, "apply")' => stage'.rows # {} /\ job'[u].bound = Highest(stage'.rows)
    BY <2>2 DEF BatchInv
  <2>6. u = s /\ job'[u] = f
    BY <2>1
  <2>7. /\ InBatch(u)' =>
              /\ \A r \in stage'.rows \cup job'[u].rows : r.seq > job'[u].pos
              /\ \A r \in slog' : r.seq > job'[u].pos =>
                    r \in stage'.rows \cup job'[u].rows \/ After(u, r)'
    BY <1>2, <2>3, <2>5, <2>6 DEF ChangeInv, BatchInv
  <2>8. job'[u].net = IF job'[u].mode = "KEYS_IUD"
                      THEN NetKeys(stage'.rows, {"I", "U"}) ELSE {}
    BY <1>2, <2>5, <2>6
  <2>9. \A k \in ReadAgain(u)' \ missed' :
           \/ images'.rows[k] = source'[k]
           \/ \E r \in slog' : r.key = k /\ After(u, r)'
    BY <1>2, <2>3, <2>4, <2>5, <2>6
  <2> QED
    BY <1>2, <2>6, <2>7, <2>8, <2>9 DEF At
<1>3. CASE NetKeysQuery(s)
  <2> DEFINE net == IF job[s].mode = "KEYS_IUD" THEN NetKeys(stage.rows, {"I", "U"}) ELSE {}
             f == [job[s] EXCEPT !.pc = IF net = {} THEN "size" ELSE "images",
                                 !.net = net, !.left = net]
  <2>1. /\ f.pc = IF net = {} THEN "size" ELSE "images"
        /\ f.net = net /\ f.left = net
        /\ f.mode = job[s].mode /\ f.pos = job[s].pos /\ f.rows = job[s].rows
    BY <1>1 DEF JobState
  <2>2. Does(s, f) /\ InBatch(s) /\ UNCHANGED <<sap, cdc, stage>>
    BY <1>3 DEF NetKeysQuery, InBatch, At, server
  <2>3. f.net = IF f.mode = "KEYS_IUD" THEN NetKeys(stage.rows, {"I", "U"}) ELSE {}
    BY <2>1
  <2> HIDE DEF net, f
  <2>4. RunInv' /\ BatchInv'
    BY <1>2, <2>1, <2>2, <2>3
  <2> QED
    BY <1>3, <2>4, CycleQuiet DEF ChangeInv
<1>4. CASE CreateImages(s)
  <2> DEFINE f == [job[s] EXCEPT !.pc = "reread"]
  <2>1. /\ f.pc = "reread" /\ f.net = job[s].net /\ f.left = job[s].left
        /\ f.mode = job[s].mode /\ f.pos = job[s].pos /\ f.rows = job[s].rows
    BY <1>1 DEF JobState
  <2>2. Does(s, f) /\ At(s, "images") /\ UNCHANGED <<sap, cdc, stage>>
    BY <1>4 DEF CreateImages
  <2>3. /\ job[s].left = job[s].net /\ InBatch(s)
        /\ job[s].net = IF job[s].mode = "KEYS_IUD" THEN NetKeys(stage.rows, {"I", "U"}) ELSE {}
    BY <2>2 DEF ChangeInv, BatchInv, AllStaged, InBatch, At
  <2> HIDE DEF f
  <2>4. RunInv' /\ BatchInv'
    BY <1>2, <2>1, <2>2, <2>3
  <2> QED
    BY <1>4, <2>4, CycleQuiet DEF ChangeInv
<1>5. CASE Reread(s)
  <2>1. PICK P \in Portion(job[s].left) :
           /\ images' = [images EXCEPT !.rows = [k \in Keys |->
                             IF k \in P THEN source[k] ELSE @[k]]]
           /\ Does(s, [job[s] EXCEPT !.left = @ \ P,
                                     !.pc = IF P = job[s].left THEN "size" ELSE "reread"])
    BY <1>5 DEF Reread
  <2> DEFINE f == [job[s] EXCEPT !.left = @ \ P,
                                 !.pc = IF P = job[s].left THEN "size" ELSE "reread"]
  <2>2. /\ f.pc = IF P = job[s].left THEN "size" ELSE "reread"
        /\ f.net = job[s].net /\ f.left = job[s].left \ P /\ job[s].net \subseteq Keys
        /\ f.mode = job[s].mode /\ f.pos = job[s].pos /\ f.rows = job[s].rows
    BY <1>1 DEF JobState
  <2>3. Does(s, f) /\ At(s, "reread") /\ UNCHANGED <<sap, cdc, stage>>
    BY <1>5, <2>1 DEF Reread
  <2>4. /\ InBatch(s)
        /\ job[s].net = IF job[s].mode = "KEYS_IUD" THEN NetKeys(stage.rows, {"I", "U"}) ELSE {}
        /\ ReadAgain(s) = job[s].net \ job[s].left
        /\ \A k \in ReadAgain(s) \ missed :
              images.rows[k] = source[k] \/ \E r \in slog : r.key = k /\ After(s, r)
    BY <2>3 DEF ChangeInv, BatchInv, AllStaged, InBatch, ReadAgain, At
  <2>5. \A k \in Keys : images'.rows[k] = IF k \in P THEN source[k] ELSE images.rows[k]
    BY <2>1 DEF TypeInv
  <2> HIDE DEF f
  <2>6. \A k \in (IF f.pc = "reread" THEN f.net \ f.left
                  ELSE IF f.pc = "size" THEN f.net ELSE {}) \ missed :
           \/ images'.rows[k] = source[k]
           \/ \E r \in slog : r.key = k /\ After(s, r)
    <3> SUFFICES ASSUME NEW k \in f.net \ missed, f.pc = "reread" => k \notin f.left
                 PROVE  images'.rows[k] = source[k] \/ \E r \in slog : r.key = k /\ After(s, r)
      OBVIOUS
    <3>1. k \in Keys /\ (k \in P \/ k \in ReadAgain(s))
      BY <2>2, <2>4
    <3> QED
      BY <2>4, <2>5, <3>1
  <2>7. RunInv' /\ BatchInv'
    BY <1>2, <2>2, <2>3, <2>4, <2>6
  <2> QED
    BY <1>5, <2>7, CycleQuiet DEF ChangeInv
<1> QED
  BY <1>3, <1>4, <1>5

\* The new position is the highest staged sequence.
LEMMA SizeKeepsChange ==
    ASSUME TypeInv, OneSession, StageInv, ChangeInv, NEW s \in Sessions, Size(s)
    PROVE  ChangeInv'
<1>1. job[s] \in JobState
  BY DEF TypeInv
<1>2. CASE stage.rows = {}
  <2>1. \A u \in Sessions : job'[u].pc \in {"idle", "derive"}
    BY <1>2, OnlyEnds DEF Size
  <2> QED
    BY <2>1, NoBatch, CycleQuiet DEF ChangeInv
<1>3. CASE stage.rows # {}
  <2> DEFINE f == [job[s] EXCEPT !.pc = "apply", !.bound = Highest(stage.rows)]
  <2>1. /\ f.pc = "apply" /\ f.bound = Highest(stage.rows)
        /\ f.net = job[s].net /\ f.left = job[s].left
        /\ f.mode = job[s].mode /\ f.pos = job[s].pos /\ f.rows = job[s].rows
    BY <1>1 DEF JobState
  <2>2. Does(s, f) /\ At(s, "size") /\ UNCHANGED <<sap, cdc, stage, images>>
    BY <1>3 DEF Size
  <2> HIDE DEF f
  <2>3. \A u \in Sessions : u = s /\ job'[u] = f
    BY <2>2, OnlyJob
  <2>4. RunInv'
    BY <2>1, <2>2, <2>3 DEF ChangeInv, RunInv, InCycle, InBatch, At
  <2>5. \A u \in Sessions : \A r : After(u, r)' <=> After(u, r)
    BY <2>1, <2>2, <2>3 DEF After
  <2>6. \A u \in Sessions : ReadAgain(u)' = ReadAgain(u)
    BY <2>1, <2>2, <2>3 DEF ReadAgain, At
  <2>7. UNCHANGED <<slog, missed, source>>
    BY <2>2 DEF sap
  <2>8. InBatch(s) /\ AllStaged(s)
    BY <2>2 DEF InBatch, AllStaged, At
  <2>9. BatchInv'
    BY <1>3, <2>1, <2>2, <2>3, <2>5, <2>6, <2>7, <2>8 DEF ChangeInv, BatchInv, At
  <2> QED
    BY <2>4, <2>9, CycleQuiet DEF ChangeInv
<1> QED
  BY <1>2, <1>3

\* The latest row of a key in a batch.
LEMMA LatestStaged ==
    ASSUME CdcTierAssumption, NEW S, S \subseteq LogRows, NEW k \in Keys, \E r \in S : r.key = k
    PROVE  \E r \in S : r.key = k /\ \A q \in S : q.key = k => q.seq <= r.seq
<1> DEFINE K == {r \in S : r.key = k}
<1>1. K \subseteq LogRows /\ K # {}
  OBVIOUS
<1>2. PICK r \in K : \A q \in K : q.seq <= r.seq
  <2> HIDE DEF K
  <2>1. PICK r \in K : r.seq = Highest(K)
    BY <1>1, HighestFacts
  <2> QED
    BY <1>1, <2>1, HighestFacts
<1> QED
  BY <1>2

\* A batch brings every key it has to what the source holds, unless a newer log
\* row of that key follows.
LEMMA ApplyOwes ==
    ASSUME TypeInv, LogInv, ChangeInv, NEW s \in Sessions, Apply(s), NEW k \in Keys \ missed
    PROVE  target'[k] = source[k] \/ \E r \in slog : r.key = k /\ r.seq > job[s].bound
<1>1. /\ At(s, "apply") /\ InBatch(s) /\ AllStaged(s) /\ InCycle(s)
      /\ ReadAgain(s) = job[s].net
  BY DEF Apply, At, InBatch, AllStaged, InCycle, ReadAgain
<1>2. /\ job[s].rows = {} /\ stage.rows \subseteq slog /\ stage.rows # {}
      /\ job[s].bound = Highest(stage.rows)
  BY <1>1 DEF LogInv, StageInv, ChangeInv, BatchInv
<1>3. slog \subseteq LogRows /\ stage.rows \subseteq LogRows
  BY <1>2 DEF TypeInv, TypeOK
<1>4. \A q \in stage.rows : q.seq <= job[s].bound
  BY <1>2, <1>3, CdcTierAssumption, HighestFacts
<1>5. \A r \in slog : After(s, r) => r.seq > job[s].bound
  <2>1. \E q \in stage.rows : q.seq = job[s].bound
    BY <1>2, <1>3, CdcTierAssumption, HighestFacts
  <2>2. job[s].bound \in Nat
    BY <1>2, <1>3, CdcTierAssumption, HighestFacts
  <2> QED
    BY <1>3, <2>1, <2>2 DEF After, LogRows
<1>6. SUFFICES ASSUME \A r \in slog : r.key = k => ~After(s, r)
               PROVE  target'[k] = source[k]
  BY <1>5
<1>7. /\ cdc.status \in {"SEEDED", "ACTIVE"} /\ job[s].pos = cdc.position
      /\ job[s].mode = cdc.mode /\ cdc.mode \in Modes
  BY <1>1 DEF ChangeInv, RunInv, ModeInv
<1>8. \A r \in slog : r.key = k /\ r.seq > job[s].pos => r \in stage.rows
  BY <1>1, <1>2, <1>6 DEF ChangeInv, BatchInv
<1>9. \A r \in stage.rows : r.seq > job[s].pos
  BY <1>1, <1>2 DEF ChangeInv, BatchInv
<1>10. target'[k] = IF k \in NetDeleted \cup Vanished(s) THEN Null
                    ELSE IF k \in NetWritten THEN NewRow(s, k) ELSE target[k]
  BY DEF Apply, Applied
<1>11. CASE \A r \in stage.rows : r.key # k
  <2>1. k \notin NetDeleted /\ k \notin NetWritten
    BY <1>11 DEF NetDeleted, NetWritten, NetKeys
  <2>2. target[k] = source[k] \/ \E r \in slog : r.key = k /\ r.seq > cdc.position
    BY <1>7 DEF ChangeInv, OwedInv
  <2>3. target[k] = source[k]
    BY <1>7, <1>8, <1>11, <2>2
  <2> QED
    BY <1>10, <2>1, <2>3 DEF Vanished
<1>12. CASE \E r \in stage.rows : r.key = k
  <2>1. PICK r \in stage.rows : r.key = k /\ \A q \in stage.rows : q.key = k => q.seq <= r.seq
    BY <1>3, <1>12, CdcTierAssumption, LatestStaged
  <2>2. Latest(r)
    <3> SUFFICES ASSUME NEW q \in slog, q.key = k PROVE q.seq <= r.seq
      BY <2>1 DEF Latest
    <3>1. q.seq \in Nat /\ r.seq \in Nat /\ job[s].pos \in Nat /\ r.seq > job[s].pos
      BY <1>3, <1>9 DEF LogRows, TypeInv, JobState
    <3>2. CASE q.seq > job[s].pos
      BY <1>8, <2>1, <3>2
    <3>3. CASE ~(q.seq > job[s].pos)
      BY <3>1, <3>3
    <3> QED
      BY <3>2, <3>3
  <2>3. /\ r.op = "D" <=> source[k] = Null
        /\ cdc.mode = "IMAGE_IUD" /\ r.op # "D" => r.row = source[k]
    BY <1>2, <2>1, <2>2 DEF ChangeInv, RowInv
  <2>4. \A q \in stage.rows :
           q.key = k /\ (\A p \in stage.rows : p.key = k => p.seq <= q.seq) => q = r
    <3> SUFFICES ASSUME NEW q \in stage.rows, q.key = k,
                        \A p \in stage.rows : p.key = k => p.seq <= q.seq
                 PROVE  q = r
      OBVIOUS
    <3>1. q.seq <= r.seq /\ r.seq <= q.seq
      BY <2>1
    <3>2. q.seq = r.seq
      BY <1>3, <3>1 DEF LogRows
    <3> QED
      BY <1>2, <3>2 DEF LogInv, SeqInv
  <2>5. r.op \in {"D", "I", "U"}
    BY <1>3 DEF LogRows, Ops
  <2>6. /\ k \in NetDeleted <=> r.op = "D"
        /\ k \in NetWritten <=> r.op \in {"I", "U"}
    BY <2>1, <2>4 DEF NetDeleted, NetWritten, NetKeys
  <2>7. CASE r.op = "D"
    BY <1>10, <2>3, <2>6, <2>7
  <2>8. CASE r.op # "D"
    <3>1. k \notin NetDeleted /\ k \in NetWritten /\ source[k] # Null
      BY <2>3, <2>5, <2>6, <2>8
    <3>2. job[s].net = IF job[s].mode = "KEYS_IUD" THEN NetWritten ELSE {}
      BY <1>1 DEF ChangeInv, BatchInv, NetWritten
    <3>3. CASE job[s].mode = "KEYS_IUD"
      <4>1. k \in job[s].net /\ job[s].net # {}
        BY <3>1, <3>2, <3>3
      <4>2. images.rows[k] = source[k]
        BY <1>1, <1>6, <4>1 DEF ChangeInv, BatchInv
      <4>3. NewRow(s, k) = source[k] /\ k \notin Vanished(s)
        BY <3>1, <4>1, <4>2 DEF NewRow, Vanished
      <4> QED
        BY <1>10, <3>1, <4>3
    <3>4. CASE job[s].mode # "KEYS_IUD"
      <4>1. job[s].net = {} /\ cdc.mode = "IMAGE_IUD"
        BY <1>7, <3>2, <3>4, CdcTierAssumption
      <4>2. LoggedRow(stage.rows, k) = r.row
        BY <2>1, <2>4 DEF LoggedRow
      <4>3. NewRow(s, k) = source[k] /\ k \notin Vanished(s)
        BY <2>3, <2>8, <4>1, <4>2 DEF NewRow, Vanished
      <4> QED
        BY <1>10, <3>1, <4>3
    <3> QED
      BY <3>3, <3>4
  <2> QED
    BY <2>7, <2>8
<1> QED
  BY <1>11, <1>12

\* The batch is applied: its highest sequence is the position.
LEMMA ApplyKeepsChange ==
    ASSUME TypeInv, OneSession, LogInv, ChangeInv, NEW s \in Sessions, Apply(s)
    PROVE  ChangeInv'
<1>1. job[s] \in JobState /\ stage.rows \subseteq LogRows
  BY DEF TypeInv, TypeOK
<1>2. /\ At(s, "apply") /\ cdc'.position = job[s].bound /\ cdc'.status = "ACTIVE"
      /\ cdc'.mode = cdc.mode /\ UNCHANGED sap
  BY DEF Apply, TypeInv, TypeOK
<1>3. UNCHANGED <<source, tx, nextSeq, slog, there, missed>>
  BY <1>2 DEF sap
<1>4. /\ InBatch(s) /\ InCycle(s) /\ stage.rows # {} /\ stage.rows \subseteq slog
      /\ job[s].bound = Highest(stage.rows)
  BY <1>2 DEF InBatch, InCycle, At, LogInv, StageInv, ChangeInv, BatchInv
<1>5. /\ job[s].bound \in Nat
      /\ \E r \in slog : r.seq = job[s].bound
  BY <1>1, <1>4, CdcTierAssumption, HighestFacts
<1>6. OrderedInv'
  <2>1. job[s].bound < nextSeq
    BY <1>5 DEF LogInv, SeqInv
  <2>2. \A t \in Txns : Drawn(t) => job[s].bound < tx[t].seq
    BY <1>5 DEF ChangeInv, OrderedInv
  <2>3. "seq" \in there
    BY <1>4 DEF LogInv, CatalogueInv
  <2> QED
    BY <1>2, <1>3, <2>1, <2>2, <2>3 DEF ChangeInv, OrderedInv, Drawn
<1>7. RowInv'
  BY <1>2, <1>3 DEF ChangeInv, RowInv, Latest
<1>8. cdc.mode \in Modes
  BY <1>4 DEF ChangeInv, RunInv, ModeInv
<1>9. ModeInv'
  BY <1>2, <1>8 DEF ModeInv
<1>10. OwedInv'
  BY <1>2, <1>3, ApplyOwes DEF OwedInv
<1>11. CASE Ends(s)
  <2>1. \A u \in Sessions : job'[u].pc \in {"idle", "derive"}
    BY <1>11, OnlyEnds
  <2> QED
    BY <1>6, <1>7, <1>9, <1>10, <2>1, NoBatch DEF ChangeInv
<1>12. CASE Does(s, [job[s] EXCEPT !.pc = "prune"])
  <2> DEFINE f == [job[s] EXCEPT !.pc = "prune"]
  <2>1. f.pc = "prune" /\ f.bound = job[s].bound
    BY <1>1 DEF JobState
  <2>2. \A u \in Sessions : job'[u] = f
    BY <1>12, OnlyJob
  <2> HIDE DEF f
  <2>3. RunInv'
    BY <1>2, <2>1, <2>2 DEF RunInv, InCycle, InBatch, At
  <2>4. BatchInv'
    BY <2>1, <2>2, NotBatch
  <2> QED
    BY <1>6, <1>7, <1>9, <1>10, <2>3, <2>4 DEF ChangeInv
<1> QED
  BY <1>11, <1>12 DEF Apply

\* Only rows up to the position are pruned.
LEMMA PruneKeepsChange ==
    ASSUME TypeInv, OneSession, ChangeInv, NEW s \in Sessions, Prune(s)
    PROVE  ChangeInv'
<1>1. /\ slog' = {r \in slog : r.seq > job[s].bound}
      /\ UNCHANGED <<source, tx, nextSeq, there, missed, target, cdc>>
      /\ cdc.status = "ACTIVE" /\ job[s].bound = cdc.position
  BY DEF Prune, ChangeInv, RunInv, server
<1>2. slog \subseteq LogRows /\ job[s].bound \in Nat
  BY DEF TypeInv, TypeOK, JobState
<1>3. \A r \in slog' : Latest(r)' => Latest(r)
  BY <1>1, <1>2 DEF Latest, LogRows
<1>4. OrderedInv'
  BY <1>1 DEF ChangeInv, OrderedInv, Drawn
<1>5. RowInv'
  BY <1>1, <1>3 DEF ChangeInv, RowInv
<1>6. OwedInv'
  BY <1>1 DEF ChangeInv, OwedInv
<1>7. \A u \in Sessions : job'[u].pc \in {"idle", "derive"}
  BY OnlyEnds DEF Prune
<1>8. ModeInv'
  BY <1>1 DEF ChangeInv, ModeInv
<1> QED
  BY <1>4, <1>5, <1>6, <1>7, <1>8, NoBatch DEF ChangeInv

\* A run or a command that ends where it is.
LEMMA EndKeepsChange ==
    ASSUME TypeInv, OneSession, ChangeInv, NEW s \in Sessions, ApplyFails(s) \/ Aborts(s)
    PROVE  ChangeInv'
<1>1. /\ \A u \in Sessions : job'[u].pc \in {"idle", "derive"}
      /\ UNCHANGED <<sap, target>> /\ ~At(s, "idle")
  BY OnlyEnds DEF ApplyFails, Aborts, server, At
<1>2. cdc.status # "NONE"
  BY <1>1, BusyHasStatus DEF ChangeInv
<1>3. /\ cdc'.status # "NONE" /\ cdc'.position = cdc.position /\ cdc'.mode = cdc.mode
      /\ cdc.status = "DISABLED" => cdc'.status = "DISABLED"
  <2>1. CASE ApplyFails(s)
    <3>1. cdc.status # "DISABLED"
      BY <2>1 DEF ApplyFails, ChangeInv, RunInv, InCycle, InBatch, At
    <3> QED
      BY <2>1, <3>1 DEF ApplyFails, StatusSet, TypeInv, TypeOK
  <2>2. CASE Aborts(s)
    BY <1>2, <2>2 DEF Aborts, server
  <2> QED
    BY <2>1, <2>2
<1> QED
  BY <1>1, <1>2, <1>3, QuietStep, NoBatch DEF ChangeInv

\* Registering anew owes every row of the log; a teardown keeps what is owed.
LEMMA CommandKeepsChange ==
    ASSUME TypeInv, OneSession, OneMode, CatalogueInv, ChangeInv, NEW s \in Sessions, Command(s)
    PROVE  ChangeInv'
<1>1. ASSUME NEW m \in Modes, Provision(s, m) PROVE ChangeInv'
  <2> DEFINE f == [Idle EXCEPT !.pc = "ddl", !.verb = "provision", !.todo = Drops \o Creates]
  <2>1. f.pc = "ddl"
    BY DEF Idle
  <2>2. /\ Does(s, f) /\ UNCHANGED <<source, tx, nextSeq, slog, there, missed, target>>
        /\ cdc'.status = "PROVISIONED" /\ cdc'.position = 0 /\ cdc'.mode = m
    BY <1>1 DEF Provision, sap
  <2> HIDE DEF f
  <2>3. \A u \in Sessions : job'[u] = f
    BY <2>2, OnlyJob
  <2>4. OrderedInv'
    BY <2>2 DEF ChangeInv, OrderedInv, Drawn, TypeInv, TypeOK, Entries
  <2>5. slog = {} \/ m = cdc.mode
    BY DEF ChangeInv, ModeInv, CatalogueInv, OneMode
  <2>6. RowInv'
    BY <2>2, <2>5 DEF ChangeInv, RowInv, Latest
  <2>7. ModeInv'
    BY <2>2 DEF ModeInv
  <2>8. RunInv'
    BY <2>1, <2>2, <2>3 DEF RunInv, InCycle, InBatch, At
  <2>9. BatchInv'
    BY <2>1, <2>3, NotBatch
  <2>10. OwedInv'
    BY <2>2 DEF ChangeInv, OwedInv, TypeInv, TypeOK, LogRows
  <2> QED
    BY <2>4, <2>6, <2>7, <2>8, <2>9, <2>10 DEF ChangeInv
<1>2. CASE Teardown(s)
  <2> DEFINE f == [Idle EXCEPT !.pc = "ddl", !.verb = "teardown", !.todo = Drops]
  <2>1. f.pc = "ddl"
    BY DEF Idle
  <2>2. /\ Does(s, f) /\ UNCHANGED <<sap, target>> /\ cdc.status # "NONE"
        /\ cdc'.status = "DISABLED" /\ cdc'.position = cdc.position /\ cdc'.mode = cdc.mode
    BY <1>2 DEF Teardown, StatusSet, TypeInv, TypeOK
  <2> HIDE DEF f
  <2>3. \A u \in Sessions : job'[u] = f
    BY <2>2, OnlyJob
  <2>4. RunInv'
    BY <2>1, <2>2, <2>3 DEF RunInv, InCycle, InBatch, At
  <2>5. BatchInv'
    BY <2>1, <2>3, NotBatch
  <2> QED
    BY <2>2, <2>4, <2>5, QuietStep DEF ChangeInv
<1>3. ASSUME NEW verb \in {"status", "repair"}, Probe(s, verb) PROVE ChangeInv'
  <2> DEFINE f == [Idle EXCEPT !.pc = "derive", !.verb = verb, !.gone = Objects \ Enabled]
  <2>1. f.pc = "derive"
    BY DEF Idle
  <2>2. Does(s, f) /\ UNCHANGED <<sap, target, cdc>> /\ cdc.status # "NONE"
    BY <1>3 DEF Probe, server
  <2> HIDE DEF f
  <2>3. \A u \in Sessions : job'[u].pc \in {"idle", "derive"}
    BY <2>1, <2>2, OnlyJob
  <2> QED
    BY <2>2, <2>3, QuietStep, NoBatch DEF ChangeInv
<1> QED
  BY <1>1, <1>2, <1>3 DEF Command

\* A verdict and the end of a command; a DISABLED target stays so.
LEMMA VerdictKeepsChange ==
    ASSUME TypeInv, OneSession, ChangeInv, NEW s \in Sessions, Derive(s) \/ DdlDone(s)
    PROVE  ChangeInv'
<1>1. /\ job[s] \in JobState /\ UNCHANGED <<sap, target>> /\ cdc.status # "NONE"
  BY BusyHasStatus DEF TypeInv, Derive, DdlDone, At, ChangeInv
<1>2. CASE Derive(s)
  <2>1. /\ cdc'.status # "NONE" /\ cdc'.position = cdc.position /\ cdc'.mode = cdc.mode
        /\ cdc.status = "DISABLED" => cdc'.status = "DISABLED"
    BY <1>1, <1>2 DEF Derive, Derived, StatusSet, TypeInv, TypeOK
  <2>2. OrderedInv' /\ RowInv' /\ ModeInv' /\ OwedInv'
    BY <1>1, <2>1, QuietStep
  <2>3. CASE Ends(s)
    <3>1. \A u \in Sessions : job'[u].pc \in {"idle", "derive"}
      BY <2>3, OnlyEnds
    <3> QED
      BY <2>2, <3>1, NoBatch DEF ChangeInv
  <2>4. CASE Does(s, [job[s] EXCEPT !.pc = "ddl", !.todo = RepairPlan(job[s].gone)])
    <3> DEFINE plan == RepairPlan(job[s].gone)
               f == [job[s] EXCEPT !.pc = "ddl", !.todo = plan]
    <3>1. f.pc = "ddl" /\ f.todo = plan
      BY <1>1 DEF JobState
    <3>2. plan \in Seq(Creation)
      BY RepairPlanType
    <3>3. \A i \in DOMAIN plan : plan[i].act = "create"
      BY <3>2 DEF Creation
    <3>4. Does(s, f)
      BY <2>4
    <3> HIDE DEF plan, f
    <3>5. \A u \in Sessions : job'[u] = f
      BY <3>4, OnlyJob
    <3>6. RunInv'
      BY <3>1, <3>3, <3>5 DEF RunInv, InCycle, InBatch, At
    <3>7. BatchInv'
      BY <3>1, <3>5, NotBatch
    <3> QED
      BY <2>2, <3>6, <3>7 DEF ChangeInv
  <2> QED
    BY <1>2, <2>3, <2>4 DEF Derive
<1>3. CASE DdlDone(s)
  <2>1. /\ cdc'.status # "NONE" /\ cdc'.position = cdc.position /\ cdc'.mode = cdc.mode
        /\ cdc.status = "DISABLED" => cdc'.status = "DISABLED"
    BY <1>1, <1>3 DEF DdlDone, MaySet, AllowedCdcTransition, StatusSet, TypeInv, TypeOK
  <2>2. OrderedInv' /\ RowInv' /\ ModeInv' /\ OwedInv'
    BY <1>1, <2>1, QuietStep
  <2> DEFINE f == [Idle EXCEPT !.pc = "derive", !.verb = "recheck", !.gone = Objects \ Enabled]
  <2>3. f.pc = "derive"
    BY DEF Idle
  <2>4. Ends(s) \/ Does(s, f)
    BY <1>3 DEF DdlDone
  <2> HIDE DEF f
  <2>5. \A u \in Sessions : job'[u].pc \in {"idle", "derive"}
    BY <2>3, <2>4, OnlyEnds, OnlyJob
  <2> QED
    BY <2>2, <2>5, NoBatch DEF ChangeInv
<1> QED
  BY <1>2, <1>3

\* A log that is dropped leaves its keys to `missed`; a sequence that is dropped
\* or created starts anew, at position 0 or of a DISABLED target.
LEMMA DdlKeepsChange ==
    ASSUME TypeInv, OneSession, CatalogueInv, ChangeInv, NEW s \in Sessions, ExecDdl(s)
    PROVE  ChangeInv'
<1> DEFINE d == Head(job[s].todo)
<1>1. /\ At(s, "ddl") /\ d = job[s].todo[1] /\ 1 \in DOMAIN job[s].todo
      /\ job[s] \in JobState /\ UNCHANGED <<cdc, target, stage, images>>
  BY DdlCases DEF TypeInv, ExecDdl, server
<1>2. cdc.status # "NONE"
  BY <1>1, BusyHasStatus DEF ChangeInv, At
<1>3. ModeInv'
  BY <1>1, <1>2 DEF ChangeInv, ModeInv
<1>4. BatchInv' /\ RunInv'
  <2>1. CASE Ends(s)
    <3>1. \A u \in Sessions : job'[u].pc \in {"idle", "derive"}
      BY <2>1, OnlyEnds
    <3> QED
      BY <3>1, NoBatch
  <2>2. CASE Does(s, [job[s] EXCEPT !.todo = Tail(@)])
    <3> DEFINE f == [job[s] EXCEPT !.todo = Tail(@)]
    <3>1. f.pc = "ddl" /\ f.todo = Tail(job[s].todo)
      BY <1>1 DEF JobState, At
    <3>2. (\A i \in DOMAIN job[s].todo : job[s].todo[i].act = "create")
             => \A i \in DOMAIN Tail(job[s].todo) : Tail(job[s].todo)[i].act = "create"
      <4>1. /\ job[s].todo \in Seq(Statements) /\ job[s].todo # <<>>
            /\ DOMAIN job[s].todo = 1 .. Len(job[s].todo) /\ Len(job[s].todo) \in Nat
        BY DdlCases
      <4>2. /\ Len(Tail(job[s].todo)) = Len(job[s].todo) - 1
            /\ DOMAIN Tail(job[s].todo) = 1 .. Len(Tail(job[s].todo))
            /\ \A i \in 1 .. Len(Tail(job[s].todo)) : Tail(job[s].todo)[i] = job[s].todo[i + 1]
        BY <4>1, HeadTailProperties, LenProperties
      <4>3. \A i \in 1 .. Len(job[s].todo) - 1 : i + 1 \in 1 .. Len(job[s].todo)
        BY <4>1
      <4> QED
        BY <4>1, <4>2, <4>3
    <3>3. Does(s, f)
      BY <2>2
    <3> HIDE DEF f
    <3>4. \A u \in Sessions : u = s /\ job'[u] = f
      BY <3>3, OnlyJob
    <3>5. RunInv'
      <4>1. \/ cdc'.status = "DISABLED" \/ cdc'.position = 0
            \/ \A i \in DOMAIN f.todo : f.todo[i].act = "create"
        BY <1>1, <3>1, <3>2 DEF ChangeInv, RunInv
      <4> QED
        BY <3>1, <3>4, <4>1 DEF RunInv, InCycle, InBatch, At
    <3>6. BatchInv'
      BY <3>1, <3>4, NotBatch
    <3> QED
      BY <3>5, <3>6
  <2> QED
    BY <2>1, <2>2, DdlCases
<1>5. CASE d.act = "drop" /\ DropObject(d.obj)
  <2>1. cdc.status = "DISABLED" \/ cdc.position = 0
    BY <1>1, <1>5 DEF ChangeInv, RunInv
  <2>2. /\ UNCHANGED <<source, tx, nextSeq>> /\ there' = there \ {d.obj}
        /\ \/ UNCHANGED <<slog, missed>>
           \/ slog' = {} /\ missed' = missed \cup {k \in Keys : target[k] # source[k]}
    BY <1>5 DEF DropObject
  <2>3. OrderedInv'
    BY <1>1, <2>1, <2>2 DEF ChangeInv, OrderedInv, Drawn
  <2>4. RowInv'
    BY <1>1, <2>2 DEF ChangeInv, RowInv, Latest
  <2>5. OwedInv'
    BY <1>1, <2>2 DEF ChangeInv, OwedInv
  <2> QED
    BY <1>3, <1>4, <2>3, <2>4, <2>5 DEF ChangeInv
<1>6. CASE d.obj \notin there /\ CreateObject(d.obj)
  <2>1. /\ UNCHANGED <<source, tx, slog, missed>> /\ there' = there \cup {d.obj}
        /\ \/ d.obj # "seq" /\ nextSeq' = nextSeq
           \/ d.obj = "seq" /\ nextSeq' = 1 /\ "seq" \notin there
    BY <1>6 DEF CreateObject
  <2>2. OrderedInv'
    <3>1. CASE d.obj # "seq" /\ nextSeq' = nextSeq
      BY <1>1, <2>1, <3>1 DEF ChangeInv, OrderedInv, Drawn
    <3>2. CASE d.obj = "seq" /\ nextSeq' = 1 /\ "seq" \notin there
      <4>1. slog = {} /\ \A t \in Txns : ~Drawn(t)
        BY <3>2 DEF CatalogueInv
      <4> QED
        BY <1>1, <2>1, <3>2, <4>1 DEF ChangeInv, OrderedInv, Drawn
    <3> QED
      BY <2>1, <3>1, <3>2
  <2>3. RowInv'
    BY <1>1, <2>1 DEF ChangeInv, RowInv, Latest
  <2>4. OwedInv'
    BY <1>1, <2>1 DEF ChangeInv, OwedInv
  <2> QED
    BY <1>3, <1>4, <2>2, <2>3, <2>4 DEF ChangeInv
<1>7. CASE UNCHANGED sap
  BY <1>1, <1>2, <1>4, <1>7, QuietStep DEF ChangeInv
<1> QED
  BY <1>5, <1>6, <1>7, DdlCases

\* The work of a session is not touched by a step of SAP that leaves the log,
\* the source and what was missed alone.
LEMMA SapLeavesRuns ==
    ASSUME ChangeInv, UNCHANGED <<slog, source, missed, server, job>>
    PROVE  RunInv' /\ BatchInv'
<1>1. UNCHANGED <<slog, source, missed, cdc, stage, images, job>>
  BY DEF server
<1>2. RunInv'
  BY <1>1 DEF ChangeInv, RunInv, InCycle, InBatch, At
<1>3. BatchInv'
  BY <1>1 DEF ChangeInv, BatchInv, InBatch, AllStaged, ReadAgain, After, At
<1> QED
  BY <1>2, <1>3

\* What a change draws is beyond the position and all that is logged; what a
\* commit makes visible is beyond every batch.
LEMMA SapKeepsChange ==
    ASSUME TypeInv, OneSession, OneTransaction, LogInv, ChangeInv, Sap
    PROVE  ChangeInv'
<1>1. /\ tx \in [Txns -> Entries \cup {Null}] /\ nextSeq \in Nat
      /\ slog \subseteq LogRows /\ cdc.position \in Nat
  BY DEF TypeInv, TypeOK
<1>2. ASSUME NEW t \in Txns, NEW k \in Keys, NEW v \in Row, Change(t, k, v) PROVE ChangeInv'
  <2> DEFINE op == IF source[k] = Null THEN "I" ELSE IF v = Null THEN "D" ELSE "U"
             e == [key |-> k, row |-> v, op |-> op,
                   seq |-> IF op \in Enabled THEN nextSeq ELSE 0]
  <2>1. /\ tx' = [tx EXCEPT ![t] = e] /\ v # source[k]
        /\ nextSeq' = IF op \in Enabled THEN nextSeq + 1 ELSE nextSeq
        /\ UNCHANGED <<source, slog, there, missed, server, job>>
    BY <1>2 DEF Change
  <2>2. /\ e.op = "D" <=> e.row = Null
        /\ e.seq = IF op \in Enabled THEN nextSeq ELSE 0
    BY <2>1
  <2>3. \A u \in Txns : u = t /\ tx'[u] = e
    BY <1>1, <2>1 DEF OneTransaction
  <2> HIDE DEF op, e
  <2>4. \A u \in Txns : Drawn(u)' => tx'[u].seq = nextSeq
    BY <2>2, <2>3 DEF Drawn
  <2>5. nextSeq' >= nextSeq
    BY <1>1, <2>1
  <2>6. OrderedInv'
    BY <1>1, <2>1, <2>4, <2>5 DEF ChangeInv, OrderedInv, LogInv, SeqInv, server
  <2>7. RowInv'
    BY <2>1, <2>2, <2>3 DEF ChangeInv, RowInv, Latest, server
  <2>8. ModeInv' /\ OwedInv'
    BY <2>1 DEF ChangeInv, ModeInv, OwedInv, server, At
  <2> QED
    BY <2>1, <2>6, <2>7, <2>8, SapLeavesRuns DEF ChangeInv
<1>3. ASSUME NEW t \in Txns, SapRollback(t) PROVE ChangeInv'
  <2>1. /\ tx' = [tx EXCEPT ![t] = Null]
        /\ UNCHANGED <<source, nextSeq, slog, there, missed, server, job>>
    BY <1>3 DEF SapRollback
  <2>2. \A u \in Txns : tx'[u] = Null
    BY <1>1, <2>1 DEF OneTransaction
  <2>3. OrderedInv' /\ RowInv'
    BY <2>1, <2>2 DEF ChangeInv, OrderedInv, RowInv, Latest, Drawn, server
  <2>4. ModeInv' /\ OwedInv'
    BY <2>1 DEF ChangeInv, ModeInv, OwedInv, server, At
  <2> QED
    BY <2>1, <2>3, <2>4, SapLeavesRuns DEF ChangeInv
<1>4. ASSUME NEW o \in Ops, LoseTrigger(o) PROVE ChangeInv'
  <2>1. /\ UNCHANGED <<source, tx, nextSeq, slog, missed, server, job>>
        /\ "log" \in there' <=> "log" \in there
        /\ "seq" \in there' <=> "seq" \in there
    BY <1>4 DEF LoseTrigger, Ops
  <2>2. OrderedInv' /\ RowInv' /\ ModeInv' /\ OwedInv'
    BY <2>1 DEF ChangeInv, OrderedInv, RowInv, Latest, ModeInv, OwedInv, Drawn, server, At
  <2> QED
    BY <2>1, <2>2, SapLeavesRuns DEF ChangeInv
<1>5. ASSUME NEW t \in Txns, SapCommit(t), tx[t].seq = 0 PROVE ChangeInv'
  <2>1. /\ tx' = [tx EXCEPT ![t] = Null] /\ missed' = missed \cup {tx[t].key}
        /\ source' = [source EXCEPT ![tx[t].key] = tx[t].row]
        /\ UNCHANGED <<nextSeq, slog, there, server, job>>
    BY <1>5 DEF SapCommit
  <2>2. \A u \in Txns : tx'[u] = Null
    BY <1>1, <2>1 DEF OneTransaction
  <2>3. \A k \in Keys \ missed' : k \notin missed /\ source'[k] = source[k]
    BY <2>1 DEF TypeInv, TypeOK
  <2>4. UNCHANGED <<target, cdc, stage, images>>
    BY <2>1 DEF server
  <2>5. OrderedInv'
    BY <2>1, <2>2, <2>4 DEF ChangeInv, OrderedInv, Drawn
  <2>6. RowInv'
    BY <1>1, <2>1, <2>2, <2>3, <2>4 DEF ChangeInv, RowInv, Latest, LogRows
  <2>7. ModeInv' /\ OwedInv' /\ RunInv'
    BY <2>1, <2>3, <2>4 DEF ChangeInv, ModeInv, OwedInv, RunInv, InCycle, InBatch, At
  <2>8. \A u \in Sessions : \A r : After(u, r)' <=> After(u, r)
    BY <2>1, <2>4 DEF After
  <2>9. \A u \in Sessions : ReadAgain(u)' = ReadAgain(u) /\ ReadAgain(u) \subseteq Keys
    BY <2>1 DEF ReadAgain, At, TypeInv, JobState
  <2>10. BatchInv'
    BY <2>1, <2>3, <2>4, <2>8, <2>9 DEF ChangeInv, BatchInv, InBatch, AllStaged, At
  <2> QED
    BY <2>5, <2>6, <2>7, <2>10 DEF ChangeInv
<1>6. ASSUME NEW t \in Txns, SapCommit(t), tx[t].seq # 0 PROVE ChangeInv'
  <2> DEFINE c == tx[t]
             n == LogRow(c)
  <2>1. c \in Entries /\ c # Null /\ c.seq > 0 /\ Drawn(t)
    BY <1>1, <1>6 DEF SapCommit, Drawn, Entries
  <2>2. /\ tx' = [tx EXCEPT ![t] = Null] /\ missed' = missed \ {c.key}
        /\ source' = [source EXCEPT ![c.key] = c.row] /\ slog' = slog \cup {n}
        /\ UNCHANGED <<nextSeq, there, server, job>>
    BY <1>6, <2>1 DEF SapCommit
  <2>3. /\ n.key = c.key /\ n.op = c.op /\ n.seq = c.seq
        /\ cdc.mode = "IMAGE_IUD" => n.row = c.row
    BY DEF LogRow
  <2>4. /\ c.key \in Keys /\ c.seq \in Nat
        /\ c.op = "D" <=> c.row = Null
        /\ \A r \in slog : r.seq < c.seq
        /\ cdc.status # "DISABLED" => cdc.position < c.seq
    BY <2>1 DEF Entries, ChangeInv, RowInv, OrderedInv
  <2>5. /\ \A u \in Txns : tx'[u] = Null
        /\ source'[c.key] = c.row /\ \A k \in Keys \ {c.key} : source'[k] = source[k]
    BY <1>1, <2>2, <2>4 DEF OneTransaction, TypeInv, TypeOK
  <2>6. UNCHANGED <<target, cdc, stage, images>>
    BY <2>2 DEF server
  <2> HIDE DEF c, n
  <2>7. OrderedInv'
    BY <2>2, <2>5, <2>6 DEF ChangeInv, OrderedInv, Drawn
  <2>8. RowInv'
    <3> SUFFICES ASSUME NEW r \in slog', Latest(r)', r.key \notin missed'
                 PROVE  /\ r.op = "D" <=> source'[r.key] = Null
                        /\ cdc'.mode = "IMAGE_IUD" /\ r.op # "D" => r.row = source'[r.key]
      BY <2>5 DEF RowInv
    <3>1. CASE r = n
      BY <2>3, <2>4, <2>5, <2>6, <3>1
    <3>2. CASE r \in slog
      <4>1. r.key # c.key
        BY <1>1, <2>2, <2>3, <2>4, <3>2 DEF Latest, LogRows
      <4>2. Latest(r) /\ r.key \notin missed /\ r.key \in Keys
        BY <1>1, <2>2, <3>2, <4>1 DEF Latest, LogRows
      <4> QED
        BY <2>5, <2>6, <3>2, <4>1, <4>2 DEF ChangeInv, RowInv
    <3> QED
      BY <2>2, <3>1, <3>2
  <2>9. ModeInv' /\ RunInv'
    BY <2>2, <2>6 DEF ChangeInv, ModeInv, RunInv, InCycle, InBatch, At
  <2>10. OwedInv'
    <3> SUFFICES ASSUME NEW k \in Keys \ missed'
                 PROVE  \/ target'[k] = source'[k]
                        \/ \E r \in slog' : r.key = k /\ (cdc'.status = "DISABLED" \/ r.seq > cdc'.position)
      BY DEF OwedInv
    <3>1. CASE k = c.key
      BY <2>2, <2>3, <2>4, <2>6, <3>1, <1>1
    <3>2. CASE k # c.key
      BY <2>2, <2>5, <2>6, <3>2 DEF ChangeInv, OwedInv
    <3> QED
      BY <3>1, <3>2
  <2>11. \A u \in Sessions : \A r : After(u, r)' <=> After(u, r)
    BY <2>2, <2>6 DEF After
  <2>12. \A u \in Sessions : ReadAgain(u)' = ReadAgain(u) /\ ReadAgain(u) \subseteq Keys
    BY <2>2 DEF ReadAgain, At, TypeInv, JobState
  <2>13. \A u \in Sessions : InBatch(u) => After(u, n)
    BY <2>3, <2>4 DEF After, LogInv, StageInv
  <2>14. \A u \in Sessions : ReadAgain(u) # {} => InBatch(u)
    BY DEF ReadAgain, InBatch, At
  <2>15. BatchInv'
    <3> SUFFICES ASSUME NEW u \in Sessions
                 PROVE  /\ InBatch(u)' =>
                              /\ \A r \in stage'.rows \cup job'[u].rows : r.seq > job'[u].pos
                              /\ \A r \in slog' : r.seq > job'[u].pos =>
                                    r \in stage'.rows \cup job'[u].rows \/ After(u, r)'
                        /\ AllStaged(u)' => job'[u].net =
                              IF job'[u].mode = "KEYS_IUD"
                              THEN NetKeys(stage'.rows, {"I", "U"}) ELSE {}
                        /\ At(u, "images")' => job'[u].left = job'[u].net
                        /\ \A k \in ReadAgain(u)' \ missed' :
                              \/ images'.rows[k] = source'[k]
                              \/ \E r \in slog' : r.key = k /\ After(u, r)'
                        /\ At(u, "apply")' => stage'.rows # {} /\ job'[u].bound = Highest(stage'.rows)
      BY DEF BatchInv
    <3>1. InBatch(u)' => /\ \A r \in stage'.rows \cup job'[u].rows : r.seq > job'[u].pos
                         /\ \A r \in slog' : r.seq > job'[u].pos =>
                               r \in stage'.rows \cup job'[u].rows \/ After(u, r)'
      BY <2>2, <2>6, <2>11, <2>13 DEF ChangeInv, BatchInv, InBatch
    <3>2. ASSUME NEW k \in ReadAgain(u)' \ missed'
          PROVE  images'.rows[k] = source'[k] \/ \E r \in slog' : r.key = k /\ After(u, r)'
      <4>1. k \in ReadAgain(u) /\ k \in Keys /\ InBatch(u)
        BY <2>12, <2>14, <3>2
      <4>2. CASE k = c.key
        BY <2>2, <2>3, <2>11, <2>13, <4>1, <4>2
      <4>3. CASE k # c.key
        BY <2>2, <2>5, <2>6, <2>11, <3>2, <4>1, <4>3 DEF ChangeInv, BatchInv
      <4> QED
        BY <4>2, <4>3
    <3> QED
      BY <2>2, <2>6, <3>1, <3>2 DEF ChangeInv, BatchInv, AllStaged, At
  <2> QED
    BY <2>7, <2>8, <2>9, <2>10, <2>15 DEF ChangeInv
<1> QED
  BY <1>2, <1>3, <1>4, <1>5, <1>6 DEF Sap

\* Whatever the cycles, the commands, SAP and the faults do, and whenever a lost
\* answer, an abort or a parked target cuts a run short: a row that differs from
\* the source still has a log row that will be read.
THEOREM NoChangeLost ==
    ASSUME OneSession, OneTransaction, OneMode
    PROVE  Spec => []NoChangeIsLost
<1>1. Init => ChangeInv
  <2> SUFFICES ASSUME Init PROVE ChangeInv
    OBVIOUS
  <2>1. /\ slog = {} /\ there = {} /\ target = source /\ \A t \in Txns : tx[t] = Null
        /\ cdc.status = "NONE" /\ cdc.position = 0 /\ nextSeq = 1
    BY DEF Init
  <2>2. \A s \in Sessions : job[s].pc = "idle"
    BY NullFacts DEF Init
  <2>3. \A s \in Sessions : ReadAgain(s) = {}
    BY <2>2 DEF ReadAgain, At
  <2>4. OrderedInv /\ RowInv /\ ModeInv /\ OwedInv
    BY <2>1, <2>2 DEF OrderedInv, RowInv, ModeInv, OwedInv, Drawn, At
  <2>5. RunInv /\ BatchInv
    BY <2>2, <2>3 DEF RunInv, BatchInv, InCycle, InBatch, AllStaged, At
  <2> QED
    BY <2>4, <2>5 DEF ChangeInv
<1>2. ASSUME TypeInv, LogInv, ChangeInv, [Next]_vars
      PROVE  ChangeInv'
  <2>1. CASE Sap
    BY <1>2, <2>1, SapKeepsChange
  <2>2. ASSUME NEW s \in Sessions, PlanCycle(s) \/ Cycle(s) PROVE ChangeInv'
    BY <1>2, <2>2, PlanKeepsChange, StagingKeepsChange, ImagesKeepChange, SizeKeepsChange,
       ApplyKeepsChange, PruneKeepsChange DEF Cycle, LogInv
  <2>3. ASSUME NEW s \in Sessions, Command(s) \/ Statement(s) PROVE ChangeInv'
    BY <1>2, <2>3, CommandKeepsChange, VerdictKeepsChange, DdlKeepsChange DEF Statement, LogInv
  <2>4. ASSUME NEW s \in Sessions, ApplyFails(s) \/ Aborts(s) PROVE ChangeInv'
    BY <1>2, <2>4, EndKeepsChange
  <2>5. CASE UNCHANGED vars
    <3>1. UNCHANGED <<source, tx, nextSeq, slog, there, missed, target, cdc, server, job>>
      BY <2>5 DEF vars, sap, server
    <3>2. OrderedInv' /\ RowInv' /\ ModeInv' /\ OwedInv'
      BY <1>2, <3>1 DEF ChangeInv, OrderedInv, RowInv, Latest, ModeInv, OwedInv, Drawn, At
    <3> QED
      BY <1>2, <3>1, <3>2, SapLeavesRuns DEF ChangeInv
  <2> QED
    BY <1>2, <2>1, <2>2, <2>3, <2>4, <2>5 DEF Next
<1>3. Spec => []ChangeInv
  <2>1. (TypeInv /\ LogInv) /\ ChangeInv /\ [Next]_vars => ChangeInv'
    BY <1>2
  <2> QED
    BY <1>1, <2>1, LogHolds, PTL DEF Spec
<1>4. ChangeInv => NoChangeIsLost
  BY DEF ChangeInv, OwedInv, NoChangeIsLost
<1> QED
  BY <1>3, <1>4, PTL
===============================================================================
