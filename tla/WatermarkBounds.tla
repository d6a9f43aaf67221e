----------------------------- MODULE WatermarkBounds -----------------------------
(***************************************************************************)
(* The window that a cycle reads, for the kinds of change column whose     *)
(* order is not that of a UTC time stamp (`DeltaCycle` has that kind): a   *)
(* date, a date with a time of day in a second column, and a counter,      *)
(* stored as digits of one width (NUMC) or as a number (INT4).  A counter  *)
(* travels and is compared as text.  One cycle runs at a time; wm is the   *)
(* stored watermark, a number for the clock kinds and digits for a counter.*)
(***************************************************************************)
EXTENDS Integers, Sequences, FiniteSets

CONSTANTS
    Kinds,             \* the kinds to be explored, of "DATE", "DATETIME", "NUMC", "INT4"
    MaxRows,           \* bound: for each kind, how many rows are ever written
    MaxGone,           \* bound: rows that are archived
    MaxNow,            \* bound: the wall clock
    Day,               \* what a day has of its units
    SafetySecs,        \* the margin of a clock kind, in units of the clock
    SafetyUnits,       \* the margin of a counter
    Skew,              \* the server's clock is ahead of SAP's
    Base, Width,       \* the digits of a counter
    Null

\* Base to the power of i.
Power[i \in 0 .. Width] == IF i = 0 THEN 1 ELSE Base * Power[i - 1]

Digits == UNION {[1 .. l -> 0 .. Base - 1] : l \in 1 .. Width}

\* What the constants have to be.
BoundsAssumption ==
    /\ Kinds \subseteq {"DATE", "DATETIME", "NUMC", "INT4"}
    /\ MaxRows \in [Kinds -> Nat] /\ MaxGone \in Nat /\ MaxNow \in Nat /\ Day \in Nat \ {0}
    /\ SafetySecs \in Nat /\ SafetyUnits \in Nat /\ Skew \in Nat
    /\ Base \in Nat \ {0, 1} /\ Width \in Nat \ {0} /\ \A k \in Kinds : MaxRows[k] < Power[Width]
    /\ Null \notin Int /\ Null \notin Digits

VARIABLES
    kind,              \* wm_kind of the target, and the type of the column
    now,               \* SAP's wall clock
    value,             \* what the rows that have been written carry, in writing order
    open,              \* those whose transaction has not ended
    gone,              \* those that are in the source no more
    adopted,           \* those that a position adopted without reading leaves to others
    target,            \* the rows that the target holds
    wm,
    cycle              \* load, plan and stage of the cycle that runs

vars == <<kind, now, value, open, gone, adopted, target, wm, cycle>>

Clock == {"DATE", "DATETIME"}

Written == DOMAIN value

Committed == Written \ (open \cup gone)

-------------------------------------------------------------------------------
(* Numbers as text.                                                         *)

Numeral(n) ==
    LET len == CHOOSE l \in 1 .. Width : n < Power[l] /\ (l = 1 \/ n >= Power[l - 1])
    IN  [i \in 1 .. len |-> (n \div Power[len - i]) % Base]

Number(t) ==
    LET upTo[i \in 0 .. Len(t)] == IF i = 0 THEN 0 ELSE upTo[i - 1] * Base + t[i]
    IN  upTo[Len(t)]

PadTo(t, width) == [i \in 1 .. width - Len(t) |-> 0] \o t

TextLess(a, b) ==
    \E i \in 1 .. Len(b) :
       /\ i <= Len(a) => a[i] < b[i]
       /\ \A j \in 1 .. i - 1 : j <= Len(a) /\ a[j] = b[j]

Minus(n, units) == IF n < units THEN 0 ELSE n - units

\* Mutant of LessUnits: the width of the digits is not kept.
LessUnitsShort(t) == Numeral(Minus(Number(t), SafetyUnits))

LessUnits(t) ==
    LET less == Numeral(Minus(Number(t), SafetyUnits))
    IN  IF Len(less) < Len(t) THEN PadTo(less, Len(t)) ELSE less

-------------------------------------------------------------------------------
(* The plan of a cycle: floor and ceiling of the read, and the watermark.   *)

Truncates(load) == load \in {"F", "L"}

DaysOf(margin) == (margin + Day - 1) \div Day

\* Mutant of ReadStart: the server's clock for a column in SAP's.
ServerClock == now + Skew

ReadStart == IF kind \in Clock THEN now ELSE now + Skew

Floor ==
    CASE kind = "DATE"     -> wm - DaysOf(SafetySecs)
      [] kind = "DATETIME" -> wm - SafetySecs
      [] OTHER             -> LessUnits(wm)

\* Mutant of BoundsRead: whatever the load.
BoundsEveryRead(load) == kind = "DATE"

BoundsRead(load) == kind = "DATE" /\ ~Truncates(load)

\* Mutant of HasFloor: a reload reads from the watermark on, too.
HasFloorIfReading(load) == wm # Null /\ load # "I"

HasFloor(load) == wm # Null /\ load = "D"

ComputeBounds(load) ==
    [floor |-> IF HasFloor(load) THEN Floor ELSE Null,
     below |-> IF BoundsRead(load) THEN ReadStart \div Day ELSE Null,
     next  |-> CASE kind = "DATE"     -> ReadStart \div Day - 1
                 [] kind = "DATETIME" -> ReadStart - SafetySecs
                 [] OTHER             -> Null]

\* How the row is compared with the floor by SAP: a DATS and a TIMS column as one
\* value, digits as text, a number as a number.
Above(v, floor) ==
    CASE kind = "DATE"     -> v > floor
      [] kind = "DATETIME" -> \/ v \div Day > floor \div Day
                              \/ v \div Day = floor \div Day /\ v % Day > floor % Day
      [] kind = "NUMC"     -> TextLess(floor, PadTo(Numeral(v), Width))
      [] OTHER             -> v > Number(floor)

\* The rows that the predicate of a plan selects.
Where(plan) ==
    {r \in Committed : /\ plan.floor # Null => Above(value[r], plan.floor)
                       /\ plan.below # Null => value[r] < plan.below}

StagedMax(stage) ==
    LET max == CHOOSE r \in stage : \A q \in stage : value[q] <= value[r]
    IN  IF kind = "NUMC" THEN PadTo(Numeral(value[max]), Width) ELSE Numeral(value[max])

CeilingFromStagedMax(stage) == IF stage = {} THEN wm ELSE LessUnits(StagedMax(stage))

\* Mutant of Forward: whatever the cycle has found.
AsFound(new) == new

\* Digits by their number and then as text, a clock by its value.
Forward(new) ==
    IF wm = Null \/ new = Null THEN new
    ELSE IF kind \in Clock THEN (IF new < wm THEN wm ELSE new)
    ELSE IF Len(new) < Len(wm) \/ (Len(new) = Len(wm) /\ TextLess(new, wm)) THEN wm ELSE new

DecideWatermark ==
    IF cycle.load = "F" THEN wm
    ELSE Forward(IF kind \in Clock THEN cycle.plan.next ELSE CeilingFromStagedMax(cycle.stage))

-------------------------------------------------------------------------------
NoPlan == [floor |-> Null, below |-> Null, next |-> Null]

Idle == [pc |-> "idle", load |-> "D", plan |-> NoPlan, due |-> {}, stage |-> {}]

Init ==
    /\ kind \in Kinds /\ now = 0
    /\ value = <<>> /\ open = {} /\ gone = {} /\ adopted = {} /\ target = {} /\ wm = Null
    /\ cycle = Idle

\* What a transaction that stays open may not be overtaken by: two margins of a
\* clock or a counter (one for the ceiling, one for the floor); for a date, the
\* end of the day that is the margin's number of days after its own.
MayWait(n, r) ==
    CASE kind = "DATE"     -> n \div Day - value[r] <= DaysOf(SafetySecs)
      [] kind = "DATETIME" -> n - value[r] < 2 * SafetySecs
      [] OTHER             -> TRUE

MayDraw(r) == kind \in Clock \/ Len(value) + 1 - value[r] < 2 * SafetyUnits

\* A counter target does not look at the clock.
Tick ==
    /\ kind \in Clock /\ now < MaxNow /\ \A r \in open : MayWait(now + 1, r)
    /\ now' = now + 1
    /\ UNCHANGED <<kind, value, open, gone, adopted, target, wm, cycle>>

Write ==
    /\ Len(value) < MaxRows[kind] /\ \A r \in open : MayDraw(r)
    /\ value' = Append(value, CASE kind = "DATE"     -> now \div Day
                                [] kind = "DATETIME" -> now
                                [] OTHER             -> Len(value) + 1)
    /\ open' = open \cup {Len(value) + 1}
    /\ UNCHANGED <<kind, now, gone, adopted, target, wm, cycle>>

End(r) ==
    /\ r \in open /\ open' = open \ {r}
    /\ UNCHANGED <<kind, now, value, gone, adopted, target, wm, cycle>>

Archive(r) ==
    /\ r \in Committed /\ gone' = gone \cup {r}
    /\ UNCHANGED <<kind, now, value, open, adopted, target, wm, cycle>>

\* due: what the replica must hold when the cycle has ended well.  A date is due
\* when its day is over, except for a reload.
Begin(load) ==
    /\ cycle.pc = "idle"
    /\ cycle' = [pc |-> IF load = "I" THEN "commit" ELSE "read", load |-> load,
                 plan |-> ComputeBounds(load), stage |-> {},
                 due |-> {r \in Committed \ adopted :
                            kind = "DATE" /\ load = "D" => value[r] < now \div Day}]
    /\ UNCHANGED <<kind, now, value, open, gone, adopted, target, wm>>

Read ==
    /\ cycle.pc = "read"
    /\ cycle' = [cycle EXCEPT !.pc = "commit", !.stage = Where(cycle.plan)]
    /\ UNCHANGED <<kind, now, value, open, gone, adopted, target, wm>>

\* A reload that staged nothing does not empty a target.
Refused == Truncates(cycle.load) /\ cycle.stage = {} /\ target # {}

Commit ==
    /\ cycle.pc = "commit" /\ ~Refused
    /\ target' = IF Truncates(cycle.load) THEN cycle.stage ELSE target \cup cycle.stage
    /\ wm' = DecideWatermark
    /\ adopted' = IF cycle.load = "I" /\ kind \in Clock THEN adopted \cup cycle.due ELSE adopted
    /\ cycle' = Idle
    /\ UNCHANGED <<kind, now, value, open, gone>>

\* The read or the commit fails, or the reload is refused.
GiveUp ==
    /\ cycle.pc # "idle" /\ cycle' = Idle
    /\ UNCHANGED <<kind, now, value, open, gone, adopted, target, wm>>

Next ==
    \/ Tick \/ Write \/ (\E r \in open : End(r))
    \/ (Cardinality(gone) < MaxGone /\ \E r \in Committed : Archive(r))
    \/ (\E load \in {"D", "F", "I", "L"} : Begin(load)) \/ Read \/ Commit \/ GiveUp

-------------------------------------------------------------------------------
Position == IF kind \in Clock THEN Int ELSE Digits

TypeOK ==
    /\ kind \in Kinds /\ now \in 0 .. MaxNow
    /\ value \in Seq(0 .. MaxNow + MaxRows[kind]) /\ Len(value) <= MaxRows[kind]
    /\ open \subseteq Written /\ gone \subseteq Written \ open /\ adopted \subseteq Written
    /\ target \subseteq Written \ open /\ (wm # Null => wm \in Position)
    /\ cycle.pc \in {"idle", "read", "commit"} /\ cycle.load \in {"D", "F", "I", "L"}
    /\ cycle.due \subseteq Written \ open /\ cycle.stage \subseteq Written \ open

\* A cycle that commits leaves no row behind that was committed when it began: not
\* one that fell between two days, two digits or two columns of an earlier window,
\* and not one whose transaction was slow, within twice the margin.
CycleTakesAll ==
    cycle.pc = "commit" /\ cycle.load # "I" => cycle.due \subseteq target \cup cycle.stage \cup gone

\* A reload, too, takes no row from the replica that the source still has: not
\* even those of a day in progress.
TargetKeepsRows == [][target \ gone \subseteq target']_vars

\* The watermark moves forward in the order of the column, also when the newest rows
\* have been archived and a cycle stages nothing but its overlap, and across a change
\* in the number of digits.
PositionMovesForward ==
    [][wm # Null => wm' # Null /\ IF kind \in Clock THEN wm <= wm' ELSE Number(wm) <= Number(wm')]_vars
===============================================================================
