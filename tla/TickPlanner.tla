----------------------------- MODULE TickPlanner ------------------------------
(***************************************************************************)
(* PlanTick: which targets the server runs on one tick, as a function of   *)
(* the rows of _erpl_rev_delta_state and _erpl_rev_cdc that the TICK       *)
(* handler reads.  Delays are seconds; the rows count ticks.  A row holds   *)
(*   since    ticks since the last successful cycle, or Never              *)
(*   lease    ticks since a cycle last took the lease                      *)
(*   status   IDLE, RUNNING, ERROR or BLOCKED                              *)
(*   fail     consecutive failures                                         *)
(*   full     the effective load type is a full load                       *)
(*   live     a trigger target's set is ACTIVE or SEEDED                   *)
(* Left out: parked_until, which no code sets; the size that sends a cycle *)
(* to a worker job; shadow_rows, which no code sets.                       *)
(***************************************************************************)
EXTENDS Integers, Sequences, SequencesExt, FiniteSetsExt

CONSTANTS
    Targets,
    Triggers,          \* targets of method CDC; the others are delta targets
    Name,              \* the order of the targets' names
    Interval,          \* cadence of each target, in seconds
    TickSecs,          \* the wait between two ticks
    MaxWorkers,        \* the budget of one tick
    FullShare,         \* percentage of it that full loads may take
    MaxShift,          \* the backoff stops doubling here
    MaxCycle,          \* max_cycle_secs
    Never              \* no cycle has succeeded yet

ASSUME TickPlannerAssumption ==
    /\ IsFiniteSet(Targets) /\ Triggers \subseteq Targets
    /\ Name \in [Targets -> Nat]
    /\ \A t, u \in Targets : Name[t] = Name[u] => t = u
    /\ Interval \in [Targets -> Nat \ {0}] /\ TickSecs \in Nat \ {0}
    /\ MaxWorkers \in Nat \ {0} /\ FullShare \in 0 .. 100
    /\ MaxShift \in Nat /\ MaxCycle \in Nat
    /\ Never \notin Nat

\* The delay a delta target has to wait for after its failures.
Needed(r, t) == Interval[t] * 2 ^ Min({r[t].fail, MaxShift})

Since(r, t) ==
    IF r[t].since # Never THEN TickSecs * r[t].since
    ELSE IF t \in Triggers THEN Interval[t] ELSE Needed(r, t) + 1

\* A cycle that died holds its target until the cycle budget has passed.
Owned(r, t) == r[t].status = "RUNNING" /\ r[t].lease < MaxCycle

Due(r, t) ==
    /\ r[t].status # "BLOCKED"
    /\ ~Owned(r, t)
    /\ IF t \in Triggers THEN r[t].live /\ Since(r, t) >= Interval[t]
                         ELSE Since(r, t) >= Needed(r, t)

Overdue(r, t) ==
    IF t \in Triggers THEN Since(r, t) ELSE Since(r, t) - Needed(r, t)

\* Mutant of Before: the rows in the order of their names.
BeforeByName(r, t, u) == Name[t] < Name[u]

\* Most overdue first, then by name.
Before(r, t, u) ==
    \/ Overdue(r, t) > Overdue(r, u)
    \/ Overdue(r, t) = Overdue(r, u) /\ Name[t] < Name[u]

\* The members of S by rank: the first has none before it.
Ranked(S, Precedes(_, _)) ==
    [i \in 1 .. Cardinality(S) |->
        CHOOSE t \in S : Cardinality({u \in S : Precedes(u, t)}) = i - 1]

Candidates(r) == Ranked({t \in Targets : Due(r, t)}, LAMBDA t, u : Before(r, t, u))

\* Some share is one full load at least; a share of zero is none.
FullCap == IF FullShare = 0 THEN 0 ELSE Max({1, (MaxWorkers * FullShare) \div 100})

\* Two or more slots and a trigger target that waits: one slot is held for it.
Reserved(r) == IF MaxWorkers >= 2 /\ \E t \in Triggers : Due(r, t) THEN 1 ELSE 0

Fulls(r, p) == Cardinality({i \in DOMAIN p.run : r[p.run[i]].full})

HasTrigger(p) == \E i \in DOMAIN p.run : p.run[i] \in Triggers

\* One candidate: planned, deferred because of the held slot, or passed over.
Consider(r, p, t) ==
    IF Len(p.run) >= MaxWorkers \/ (r[t].full /\ Fulls(r, p) >= FullCap) THEN p
    ELSE IF t \notin Triggers /\ ~HasTrigger(p) /\ Len(p.run) >= MaxWorkers - Reserved(r)
    THEN [p EXCEPT !.deferred = Append(@, t)]
    ELSE [p EXCEPT !.run = Append(@, t)]

\* The held slot that nobody took is given back.
GiveBack(r, p, t) ==
    IF Len(p.run) >= MaxWorkers \/ (r[t].full /\ Fulls(r, p) >= FullCap) THEN p
    ELSE [p EXCEPT !.run = Append(@, t)]

FirstPass(r) ==
    FoldLeft(LAMBDA p, t : Consider(r, p, t), [run |-> <<>>, deferred |-> <<>>], Candidates(r))

\* Mutant of PlanTick: a held slot is never given back.
PlanTickKeeps(r) == FirstPass(r).run

PlanTick(r) ==
    LET p == FirstPass(r) IN
    IF Reserved(r) = 1 /\ ~HasTrigger(p)
    THEN FoldLeft(LAMBDA q, t : GiveBack(r, q, t), p, p.deferred).run
    ELSE p.run

-------------------------------------------------------------------------------
(* The view erpl_rev_targets, which every display reads.                    *)

\* Mutant of Healthy: only the cycles speak.
HealthyByCycle(r, t) ==
    /\ r[t].since # Never /\ r[t].fail = 0 /\ r[t].status # "BLOCKED"
    /\ ~(r[t].status = "RUNNING" /\ r[t].lease > MaxCycle)

\* An APE target also needs that no package is owed.
Healthy(r, t) ==
    /\ r[t].since # Never /\ r[t].fail = 0 /\ r[t].status # "BLOCKED"
    /\ t \in Triggers => r[t].live
    /\ ~(r[t].status = "RUNNING" /\ r[t].lease > MaxCycle)

-------------------------------------------------------------------------------
(* Properties of a plan, for the rows r. *)

Left(r) == {t \in Targets : Due(r, t)} \ Range(PlanTick(r))

\* A slot stays free only if all that is due and not planned are full loads
\* beyond their share; with two slots or more, a trigger target that waits and
\* is no full load finds one of them given to a trigger target.
SlotsUsed(r) ==
    /\ Len(PlanTick(r)) < MaxWorkers => \A t \in Left(r) : r[t].full
    /\ MaxWorkers >= 2 /\ (\E t \in Left(r) \cap Triggers : ~r[t].full)
          => Range(PlanTick(r)) \cap Triggers # {}

\* Of two targets of one tier, both full loads or neither, the one that is
\* planned is no less overdue than the one that is left out: what the held slot
\* defers does not lose its turn.
PriorityKept(r) ==
    \A t \in Range(PlanTick(r)), u \in Left(r) :
       (t \in Triggers <=> u \in Triggers) /\ r[t].full = r[u].full
          => Overdue(r, t) >= Overdue(r, u)

\* Planner and view are two readings of the same rows: a target whose interval
\* has passed, that no live cycle owns and that the planner still leaves out of
\* the candidates is shown as unhealthy, so that nothing stops in silence.
SilentIsUnhealthy(r) ==
    \A t \in Targets :
       r[t].since # Never /\ TickSecs * r[t].since >= Interval[t] /\ ~Owned(r, t) /\ ~Due(r, t)
          => ~Healthy(r, t)
===============================================================================
