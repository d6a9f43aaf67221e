------------------------------- MODULE MassLoad --------------------------------
(***************************************************************************)
(* A mass load: the server cuts the source into portions by the values of  *)
(* one column, the coordinator recreates the target as a heap without a    *)
(* key, starts a background job per portion, starts those again that       *)
(* abort, and builds the key once all are done.  Jobs of an earlier load   *)
(* that gave up waiting may still be at work.  A row is its value in the   *)
(* column that is cut; a date is the number yyyymmdd, with a small         *)
(* calendar.                                                               *)
(***************************************************************************)
EXTENDS Integers, Sequences, FiniteSets, TLC

CONSTANTS
    Tables,            \* sets of values that the source may have
    Limits,            \* rows per portion
    Days,              \* days of each month of the calendar
    PerPackage,        \* rows of a package
    MaxAttempts,
    MaxLoads, MaxFaults

VARIABLES
    source,
    portions,          \* the cuts of the load, as closed ranges
    covers,            \* the values that they are meant to cover
    coord,             \* the coordinator: [pc, load]
    st,                \* its table of portions
    jobs,              \* the background jobs of all loads
    heap, keyed,       \* the target: rows with their number, and its key
    faults

vars == <<source, portions, covers, coord, st, jobs, heap, keyed, faults>>

LoadAssumption ==
    /\ \A S \in Tables : \E a, b \in S : a \in Nat /\ b \in Nat /\ S \subseteq a .. b
    /\ Limits \subseteq Nat \ {0} /\ PerPackage \in Nat \ {0} /\ Days \in Seq(Nat)
    /\ MaxAttempts \in Nat \ {0} /\ MaxFaults \in Nat

Least(S) == CHOOSE x \in S : \A y \in S : x <= y

Greatest(S) == CHOOSE x \in S : \A y \in S : x >= y

Within(p) == {v \in source : p.lo <= v /\ v <= p.hi}

Ceiling(a, b) == (a + b - 1) \div b

-------------------------------------------------------------------------------
(* The cuts.                                                                *)
\* Mutant of EvenRanges: the last start is missed.
EvenRangesShort(lo, hi, total, limit) ==
    LET n    == IF Ceiling(total, limit) > hi - lo + 1 THEN hi - lo + 1 ELSE Ceiling(total, limit)
        step == Ceiling(hi - lo + 1, n)
    IN [i \in 1 .. (hi - lo) \div step |->
          [lo |-> lo + (i - 1) * step,
           hi |-> IF lo + i * step - 1 > hi THEN hi ELSE lo + i * step - 1]]

\* ByEvenRanges: as many ranges of equal width as the number of rows asks for.
EvenRanges(lo, hi, total, limit) ==
    LET n    == IF Ceiling(total, limit) > hi - lo + 1 THEN hi - lo + 1 ELSE Ceiling(total, limit)
        step == Ceiling(hi - lo + 1, n)
    IN [i \in 1 .. Ceiling(hi - lo + 1, step) |->
          [lo |-> lo + (i - 1) * step,
           hi |-> IF lo + i * step - 1 > hi THEN hi ELSE lo + i * step - 1]]

\* ByBuckets: runs of whole buckets, up to the limit, each of one at least.
LastBucket(hist, limit, from) ==
    LET sum[i \in from .. Len(hist)] == hist[i].rows + (IF i = from THEN 0 ELSE sum[i - 1])
    IN Greatest({from} \cup {i \in from + 1 .. Len(hist) :
                               \A j \in from + 1 .. i : sum[j] <= limit})

ByBuckets(hist, limit) ==
    LET cuts[from \in 1 .. Len(hist) + 1] ==
          IF from > Len(hist) THEN <<>>
          ELSE LET to == LastBucket(hist, limit, from)
               IN <<[lo |-> hist[from].value, hi |-> hist[to].value]>> \o cuts[to + 1]
    IN cuts[1]

Date(y, m, d) == 10000 * y + 100 * m + d

\* The first day of the next unit.
NextDate(date, unit) ==
    LET y == date \div 10000
        m == (date \div 100) % 100
        d == date % 100
        month == IF m = Len(Days) THEN Date(y + 1, 1, 1) ELSE Date(y, m + 1, 1)
    IN CASE unit = "day" /\ d < Days[m] -> date + 1
         [] unit = "year"               -> Date(y + 1, 1, 1)
         [] OTHER                       -> month

\* The time strategy: half-open ranges, here closed at the day before.
ByTime(first, to, unit) ==
    LET cuts[from \in Nat] ==
          IF from >= to THEN <<>>
          ELSE LET end == NextDate(from, unit)
               IN <<[lo |-> from, hi |-> (IF end < to THEN end ELSE to) - 1]>> \o cuts[end]
    IN cuts[first]

\* A range per job; the quotient is rounded half up.  Mutant of RangesOfJobs.
RangePerJob(lo, hi, n) ==
    LET half == (2 * (hi - lo + 1) + n) \div (2 * n)
        step == IF half < 1 THEN 1 ELSE half
    IN [i \in 1 .. n |-> [lo |-> lo + (i - 1) * step, hi |-> IF i < n THEN lo + i * step - 1 ELSE hi]]

\* replicate_parallel: a job whose range is empty is not started.
RangesOfJobs(lo, hi, n) ==
    LET all == RangePerJob(lo, hi, n)
    IN [i \in {i \in 1 .. n : all[i].lo <= hi} |-> all[i]]

Dates == {Date(y, m, d) : y \in {1, 2}, m \in DOMAIN Days, d \in 1 .. 3}

\* SPLIT, by records, size and histogram, or time, and the ranges of the report,
\* with the facts that SAP sends.
PlanSplit ==
    LET lo == Least(source)
        hi == Greatest(source)
    IN {[p |-> EvenRanges(lo, hi, Cardinality(source), limit), of |-> lo .. hi] : limit \in Limits}
       \cup {[p |-> RangesOfJobs(lo, hi, n), of |-> lo .. hi] : n \in Limits}

Histograms == UNION {[1 .. n -> {[value |-> 0, rows |-> r] : r \in {1, 3}}] : n \in 1 .. 4}

\* Cuts of other inputs, which no load of this instance follows.
BucketSplits ==
    {[p |-> ByBuckets([i \in DOMAIN h |-> [value |-> 10 * i, rows |-> h[i].rows]], limit),
      of |-> {10 * i : i \in DOMAIN h}] : h \in Histograms, limit \in Limits}

DatesOf(from, to) ==
    {x \in Dates : x % 100 <= Days[(x \div 100) % 100] /\ from <= x /\ x < to}

TimeSplits ==
    {[p |-> ByTime(from, to, unit), of |-> DatesOf(from, to)] :
        from \in {Date(1, 1, 1), Date(1, 2, 2)}, to \in {Date(1, 2, 2), Date(2, 2, 1)},
        unit \in {"day", "month", "year"}}

OtherSplits == BucketSplits \cup TimeSplits

-------------------------------------------------------------------------------
Init ==
    /\ source \in Tables
    /\ portions = <<>> /\ covers = {} /\ st = <<>> /\ jobs = <<>>
    /\ coord = [pc |-> "idle", load |-> 0]
    /\ heap = [v \in UNION Tables |-> 0] /\ keyed = FALSE
    /\ faults = 0

Goes(pc) == coord' = [coord EXCEPT !.pc = pc]

Fault == faults < MaxFaults /\ faults' = faults + 1

\* The bounds are read, the server cuts, the target is made anew without a key.
Start ==
    /\ coord.pc \in {"idle", "ok", "error"} /\ coord.load < MaxLoads
    /\ \E s \in PlanSplit :
          /\ portions' = s.p /\ covers' = s.of
          /\ st' = [i \in DOMAIN s.p |-> [job |-> 0, attempts |-> 0, done |-> FALSE, failed |-> FALSE]]
    /\ coord' = [pc |-> "dispatch", load |-> coord.load + 1]
    /\ heap' = [v \in DOMAIN heap |-> 0] /\ keyed' = FALSE
    /\ UNCHANGED <<source, jobs, faults>>

\* A split for its own sake: the portions are stored and nothing is loaded.
Split ==
    /\ coord.pc = "idle" /\ coord.load = 0 /\ covers = {}
    /\ \E s \in OtherSplits : portions' = s.p /\ covers' = s.of
    /\ coord' = [pc |-> "error", load |-> MaxLoads]
    /\ UNCHANGED <<source, st, jobs, heap, keyed, faults>>

\* A job of its own for portion i: JOB_OPEN, SUBMIT, JOB_CLOSE.
Submit(i) ==
    /\ jobs' = Append(jobs, [range |-> portions[i], at |-> portions[i].lo - 1, status |-> "R"])
    /\ st' = [st EXCEPT ![i] = [@ EXCEPT !.job = Len(jobs) + 1, !.attempts = st[i].attempts + 1]]

Dispatch ==
    /\ coord.pc = "dispatch"
    /\ \E i \in DOMAIN st :
          /\ st[i].job = 0 /\ \A j \in 1 .. i - 1 : st[j].job # 0
          /\ Submit(i)
    /\ UNCHANGED <<source, portions, covers, coord, heap, keyed, faults>>

\* JOB_OPEN fails: the load returns with the jobs it has started at work.
NoJob ==
    /\ coord.pc = "dispatch" /\ \E i \in DOMAIN st : st[i].job = 0
    /\ Fault /\ Goes("error")
    /\ UNCHANGED <<source, portions, covers, st, jobs, heap, keyed>>

AllStarted ==
    /\ coord.pc = "dispatch" /\ \A i \in DOMAIN st : st[i].job # 0
    /\ Goes("wait")
    /\ UNCHANGED <<source, portions, covers, st, jobs, heap, keyed, faults>>

\* The poll of a portion; a status that cannot be read counts as alive.
PollFinished(i) ==
    /\ coord.pc = "wait" /\ ~st[i].done /\ jobs[st[i].job].status = "F"
    /\ st' = [st EXCEPT ![i].done = TRUE]
    /\ UNCHANGED <<source, portions, covers, coord, jobs, heap, keyed, faults>>

PollAborted(i) ==
    /\ coord.pc = "wait" /\ ~st[i].done /\ jobs[st[i].job].status = "A"
    /\ IF st[i].attempts >= MaxAttempts
       THEN st' = [st EXCEPT ![i] = [@ EXCEPT !.done = TRUE, !.failed = TRUE]] /\ UNCHANGED jobs
       ELSE Submit(i)
    /\ UNCHANGED <<source, portions, covers, coord, heap, keyed, faults>>

\* 3600 rounds: the jobs that run go on running.
TimesOut ==
    /\ coord.pc = "wait" /\ \E i \in DOMAIN st : ~st[i].done
    /\ Fault /\ Goes("error")
    /\ UNCHANGED <<source, portions, covers, st, jobs, heap, keyed>>

\* Mutant of Succeeded: finished is taken for complete.
Finished(i) == st[i].done

Succeeded(i) == st[i].done /\ ~st[i].failed

\* All portions are done: none may have failed, and the key must build.
BuildKey ==
    /\ coord.pc = "wait" /\ \A i \in DOMAIN st : st[i].done
    /\ IF (\A i \in DOMAIN st : Succeeded(i)) /\ (\A v \in DOMAIN heap : heap[v] <= 1)
       THEN keyed' = TRUE /\ Goes("ok")
       ELSE UNCHANGED keyed /\ Goes("error")
    /\ UNCHANGED <<source, portions, covers, st, jobs, heap, faults>>

-------------------------------------------------------------------------------
\* The worker reads its range by key and ingests a package at a time.
Package(j) ==
    LET left == {v \in Within(jobs[j].range) : v > jobs[j].at}
    IN {v \in left : Cardinality({w \in left : w < v}) < PerPackage}

Ingest(j) ==
    /\ jobs[j].status = "R" /\ Package(j) # {}
    /\ IF keyed /\ \E v \in Package(j) : heap[v] > 0
       THEN jobs' = [jobs EXCEPT ![j].status = "A"] /\ UNCHANGED heap
       ELSE /\ heap' = [v \in DOMAIN heap |-> heap[v] + (IF v \in Package(j) THEN 1 ELSE 0)]
            /\ jobs' = [jobs EXCEPT ![j].at = Greatest(Package(j))]
    /\ UNCHANGED <<source, portions, covers, coord, st, keyed, faults>>

JobEnds(j) ==
    /\ jobs[j].status = "R" /\ Package(j) = {}
    /\ jobs' = [jobs EXCEPT ![j].status = "F"]
    /\ UNCHANGED <<source, portions, covers, coord, st, heap, keyed, faults>>

\* A lost call, a dump, an operator: what was ingested stays.
Abort(j) ==
    /\ jobs[j].status = "R" /\ Fault
    /\ jobs' = [jobs EXCEPT ![j].status = "A"]
    /\ UNCHANGED <<source, portions, covers, coord, st, heap, keyed>>

Next ==
    \/ Start \/ Split \/ Dispatch \/ NoJob \/ AllStarted \/ TimesOut \/ BuildKey
    \/ \E i \in DOMAIN st : PollFinished(i) \/ PollAborted(i)
    \/ \E j \in DOMAIN jobs : Ingest(j) \/ JobEnds(j) \/ Abort(j)

Spec == Init /\ [][Next]_vars

-------------------------------------------------------------------------------
TypeOK ==
    /\ source \in Tables /\ keyed \in BOOLEAN /\ faults \in 0 .. MaxFaults
    /\ \A i \in DOMAIN portions : portions[i].lo <= portions[i].hi
    /\ \A i \in DOMAIN st : st[i].attempts \in 0 .. MaxAttempts /\ st[i].job \in 0 .. Len(jobs)
    /\ \A j \in DOMAIN jobs : jobs[j].status \in {"R", "F", "A"}
    /\ coord.pc \in {"idle", "dispatch", "wait", "ok", "error"}

\* Whatever the strategy, each value that a split is asked to cover falls into
\* one portion: none is left out at a boundary and none is loaded twice.
EachValueInOnePortion ==
    \A v \in covers :
       Cardinality({i \in DOMAIN portions : portions[i].lo <= v /\ v <= portions[i].hi}) = 1

\* A load that reports success has brought every row of the source, once, with
\* jobs that abort half-way and are started again and jobs of an earlier load
\* that still append to the table of that name.
SuccessIsComplete ==
    coord.pc = "ok" =>
       keyed /\ \A v \in DOMAIN heap : heap[v] = (IF v \in source THEN 1 ELSE 0)
===============================================================================
