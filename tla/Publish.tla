-------------------------------- MODULE Publish --------------------------------
(***************************************************************************)
(* The change log of one target and the subscriptions that read it.        *)
(* Writers append rows under a sequence whose values are drawn at once and *)
(* seen with the commit; Advance publishes what a subscription has not     *)
(* read; Retain prunes what every subscription has read.                   *)
(*                                                                         *)
(* A call is one command that a driver claimed from the queue: several run *)
(* at once, and each statement below is one they send to the database.     *)
(* A subscription owes its sink the rows committed after it was created.   *)
(***************************************************************************)
EXTENDS Integers, FiniteSets

CONSTANTS
    Keys, Subs, Drivers, Writers,
    First,             \* subscriptions that exist from the start
    Deduped,           \* subscriptions with dedup_keys
    MaxSeq, MaxCreates \* bounds

VARIABLES
    nextSeq,           \* the log's sequence
    writing,           \* rows of the open transaction of each writer
    log,               \* <target>__log: rows that are committed and not pruned
    past,              \* rows ever committed (history)
    sub,               \* _erpl_rev_subscription: offset; history: owed from
    got,               \* rows each sink has received (history)
    call,              \* what each driver has read
    creates

vars == <<nextSeq, writing, log, past, sub, got, call, creates>>

PublishAssumption == Subs # {} /\ MaxSeq \in Nat

None    == [there |-> FALSE, offset |-> 0, from |-> 0]
NoCall  == [op |-> "none", sub |-> CHOOSE s \in Subs : TRUE, offset |-> 0, bound |-> 0]
New(n)  == [there |-> TRUE, offset |-> 0, from |-> n]

Init ==
    /\ nextSeq = 1
    /\ writing = [w \in Writers |-> {}]
    /\ log = {} /\ past = {}
    /\ sub = [s \in Subs |-> IF s \in First THEN New(0) ELSE None]
    /\ got = [s \in Subs |-> {}]
    /\ call = [d \in Drivers |-> NoCall]
    /\ creates = 0

Highest(S) == CHOOSE n \in {r.seq : r \in S} \cup {0} : \A r \in S : r.seq <= n

-------------------------------------------------------------------------------
\* A cycle logs a change in its transaction.
Log(w, k) ==
    /\ nextSeq <= MaxSeq
    /\ writing' = [writing EXCEPT ![w] = @ \cup {[seq |-> nextSeq, key |-> k]}]
    /\ nextSeq' = nextSeq + 1
    /\ UNCHANGED <<log, past, sub, got, call, creates>>

\* The transaction of the cycle ends; a rollback leaves a gap in the sequence.
End(w) ==
    /\ writing[w] # {}
    /\ \/ log' = log \cup writing[w] /\ past' = past \cup writing[w]
       \/ UNCHANGED <<log, past>>
    /\ writing' = [writing EXCEPT ![w] = {}]
    /\ UNCHANGED <<nextSeq, sub, got, call, creates>>

\* INSERT OR REPLACE: an existing subscription starts again at 0.
CreateSubscription(s) ==
    /\ creates < MaxCreates
    /\ creates' = creates + 1
    /\ sub' = [sub EXCEPT ![s] = New(nextSeq - 1)]
    /\ UNCHANGED <<nextSeq, writing, log, past, got, call>>

Goes(d, f) == call' = [call EXCEPT ![d] = f]
Ends(d)    == Goes(d, NoCall)

\* Advance reads the subscription, then the highest row, then publishes.
ReadOffset(d, s) ==
    /\ call[d].op = "none" /\ sub[s].there
    /\ Goes(d, [op |-> "offset", sub |-> s, offset |-> sub[s].offset, bound |-> 0])
    /\ UNCHANGED <<nextSeq, writing, log, past, sub, got, creates>>

ReadHighest(d) ==
    /\ call[d].op = "offset"
    /\ IF Highest(log) <= call[d].offset THEN Ends(d)
       ELSE Goes(d, [call[d] EXCEPT !.op = "publish", !.bound = Highest(log)])
    /\ UNCHANGED <<nextSeq, writing, log, past, sub, got, creates>>

\* The rows past the offset up to the mark that was read.
Batch(d) == {r \in log : r.seq > call[d].offset /\ r.seq <= call[d].bound}

\* Last write wins per key, where the subscription asks for it.
Deduplicated(s, S) ==
    {r \in S : s \in Deduped => \A q \in S : q.key = r.key => q.seq <= r.seq}

\* Mutant of NewOffset: the offset moves to what the log holds when it is set.
ToEnd(d) == Highest(log)

NewOffset(d) == call[d].bound

\* The batch and the offset are one transaction.
PublishAndAdvance(d) ==
    LET s == call[d].sub IN
    /\ call[d].op = "publish"
    /\ got' = [got EXCEPT ![s] = @ \cup Deduplicated(s, Batch(d))]
    /\ sub' = [sub EXCEPT ![s].offset = NewOffset(d)]
    /\ Ends(d)
    /\ UNCHANGED <<nextSeq, writing, log, past, creates>>

Offsets == {sub[s].offset : s \in {s \in Subs : sub[s].there}}

\* What the slowest subscription has read.
LowWater == CHOOSE n \in Offsets : \A m \in Offsets : n <= m

\* Retain reads the mark, then deletes; a window only keeps more.
ReadLowWater(d) ==
    /\ call[d].op = "none" /\ Offsets # {}
    /\ Goes(d, [NoCall EXCEPT !.op = "prune", !.bound = LowWater])
    /\ UNCHANGED <<nextSeq, writing, log, past, sub, got, creates>>

\* A row that is younger than the window stays.
Prune(d) ==
    /\ call[d].op = "prune"
    /\ \E n \in 0..call[d].bound : log' = {r \in log : r.seq > n}
    /\ Ends(d)
    /\ UNCHANGED <<nextSeq, writing, past, sub, got, creates>>

\* A statement fails or the server dies: the transaction is rolled back.
CallFails(d) ==
    /\ call[d].op # "none"
    /\ Ends(d)
    /\ UNCHANGED <<nextSeq, writing, log, past, sub, got, creates>>

Next ==
    \/ \E w \in Writers : End(w) \/ \E k \in Keys : Log(w, k)
    \/ \E s \in Subs : CreateSubscription(s)
    \/ \E d \in Drivers :
          \/ \E s \in Subs : ReadOffset(d, s)
          \/ ReadHighest(d) \/ PublishAndAdvance(d) \/ ReadLowWater(d) \/ Prune(d) \/ CallFails(d)

Spec == Init /\ [][Next]_vars
-------------------------------------------------------------------------------
Rows == [seq : 1..MaxSeq, key : Keys]

TypeOK ==
    /\ nextSeq \in 1..MaxSeq + 1
    /\ writing \in [Writers -> SUBSET Rows]
    /\ log \subseteq past /\ past \subseteq Rows
    /\ sub \in [Subs -> [there : BOOLEAN, offset : 0..MaxSeq, from : 0..MaxSeq]]
    /\ got \in [Subs -> SUBSET past]
    /\ call \in [Drivers -> [op : {"none", "offset", "publish", "prune"}, sub : Subs,
                             offset : 0..MaxSeq, bound : 0..MaxSeq]]

\* A row that a subscription owes is in its sink, or still in the log ahead of its
\* offset, or replaced by a later one of its key: whatever calls of other drivers
\* advance, prune or create the subscription again between two statements.
NothingOwedIsGone ==
    \A s \in Subs, r \in past :
        sub[s].there /\ r.seq > sub[s].from =>
            \/ r \in got[s]
            \/ r \in log /\ r.seq > sub[s].offset
            \/ s \in Deduped /\ \E q \in got[s] : q.key = r.key /\ q.seq > r.seq
===============================================================================
