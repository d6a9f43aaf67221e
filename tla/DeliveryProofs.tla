---------------------------- MODULE DeliveryProofs ----------------------------
(***************************************************************************)
(* What holds of the ways in which rows reach a table beside the cycles: *)
(* the subscriptions of a change log (Log), the scans of an APE_FULL     *)
(* target (Full), the mass load (Mass) and the validation of what has    *)
(* arrived (Val).                                                        *)
(***************************************************************************)
EXTENDS MCDelivery, ApeDeltaProofs, Integers, Sequences, FiniteSets, SequenceTheorems, FiniteSetTheorems,
        WellFoundedInduction, NaturalsInduction, TLAPS

\* One transaction at a time appends to the log of a target: its cycles hold the
\* lease.  With two the values of the sequence are seen out of order.
OneWriter == \A v, w \in Writers : v = w

SubCalls == [op : {"none", "offset", "publish", "prune"}, sub : Subs,
          offset : 0..MaxSeq, bound : 0..MaxSeq]

Subscriptions == [there : BOOLEAN, offset : 0..MaxSeq, from : 0..MaxSeq]

\* A number that every row still to be committed lies above.
Passed(n) == n < nextSeq /\ \A w \in Writers : \A q \in writing[w] : n < q.seq

\* Rows are committed in the order of their numbers; whatever was read as an offset
\* or as a mark lies below the rows to come.
SeqInv ==
    /\ \A w \in Writers : \A q \in writing[w] : q.seq < nextSeq
    /\ \A r \in past : Passed(r.seq)
    /\ \A s \in Subs : Passed(sub[s].offset) /\ sub[s].from < nextSeq
    /\ \A d \in Drivers : Passed(pCall[d].offset) /\ Passed(pCall[d].bound)

\* In the sink, or replaced there by a later row of its key.
InSink(s, r) ==
    \/ r \in got[s]
    \/ s \in Deduped /\ \E q \in got[s] : q.key = r.key /\ q.seq > r.seq

OwedTo(s, n) == {r \in past : sub[s].there /\ r.seq > sub[s].from /\ r.seq <= n}

\* Behind the offset that a call has read its subscription has everything, and
\* behind the mark of a prune every subscription has.
ReadInv ==
    \A d \in Drivers :
       /\ pCall[d].op \in {"offset", "publish"} =>
             \A r \in OwedTo(pCall[d].sub, pCall[d].offset) : InSink(pCall[d].sub, r)
       /\ pCall[d].op = "prune" =>
             \A s \in Subs : \A r \in OwedTo(s, pCall[d].bound) : InSink(s, r)

LogInv == Log!TypeOK /\ SeqInv /\ ReadInv /\ Log!NothingOwedIsGone

-------------------------------------------------------------------------------
(* The numbers that a call reads.                                           *)

Less == {ss \in Nat \X Nat : ss[1] < ss[2]}

LEMMA LessIsWellFounded == IsWellFoundedOn(Less, Nat)
BY NatLessThanWellFounded DEF OpToRel, Less

LEMMA LeastExists ==
    ASSUME NEW T \in SUBSET Nat, T # {}
    PROVE  \E n \in T : \A m \in T : n <= m
<1>1. PICK x \in T : \A y \in T : ~(<<y, x>> \in Less)
  BY LessIsWellFounded, WFMin
<1>2. \A y \in T : ~(y < x)
  BY <1>1 DEF Less
<1> QED
  BY <1>2

LEMMA GreatestExists ==
    ASSUME NEW b \in Nat, NEW T \in SUBSET (0 .. b), T # {}
    PROVE  \E n \in T : \A m \in T : m <= n
<1>1. PICK U : U = {b - n : n \in T}
  OBVIOUS
<1>2. \A n \in T : n \in 0 .. b /\ b - n \in Nat
  OBVIOUS
<1>3. U \in SUBSET Nat /\ U # {}
  BY <1>1, <1>2
<1>4. PICK x \in U : \A y \in U : x <= y
  BY <1>3, LeastExists
<1>5. PICK n \in T : x = b - n
  BY <1>1, <1>4
<1>6. ASSUME NEW m \in T
      PROVE  m <= n
  <2>1. b - m \in U
    BY <1>1
  <2> QED
    BY <1>2, <1>4, <1>5, <2>1
<1> QED
  BY <1>6

LEMMA HighestIsHighest ==
    ASSUME MaxSeq \in Nat, NEW S \in SUBSET Log!Rows
    PROVE  /\ Log!Highest(S) \in 0 .. MaxSeq /\ \A r \in S : r.seq <= Log!Highest(S)
           /\ Log!Highest(S) = 0 \/ \E r \in S : r.seq = Log!Highest(S)
<1>1. PICK T : T = {r.seq : r \in S} \cup {0}
  OBVIOUS
<1>2. T \in SUBSET (0 .. MaxSeq) /\ T # {}
  BY <1>1 DEF Log!Rows
<1>3. PICK n \in T : \A m \in T : m <= n
  BY <1>2, GreatestExists
<1>4. \A r \in S : r.seq <= n
  BY <1>1, <1>3
<1>5. Log!Highest(S) = CHOOSE i \in T : \A r \in S : r.seq <= i
  BY <1>1 DEF Log!Highest
<1>6. Log!Highest(S) \in T /\ \A r \in S : r.seq <= Log!Highest(S)
  BY <1>4, <1>5
<1> QED
  BY <1>1, <1>2, <1>6

LEMMA LowWaterIsLowest ==
    ASSUME Log!TypeOK, Log!Offsets # {}
    PROVE  /\ Log!LowWater \in 0 .. MaxSeq /\ \A s \in Subs : sub[s].there => Log!LowWater <= sub[s].offset
           /\ \E s \in Subs : Log!LowWater = sub[s].offset
<1>1. \A s \in Subs : sub[s].offset \in 0 .. MaxSeq
  BY DEF Log!TypeOK
<1>2. Log!Offsets \in SUBSET Nat
  BY <1>1 DEF Log!Offsets
<1>3. \E n \in Log!Offsets : \A m \in Log!Offsets : n <= m
  BY <1>2, LeastExists
<1>4. Log!LowWater \in Log!Offsets /\ \A m \in Log!Offsets : Log!LowWater <= m
  BY <1>3 DEF Log!LowWater
<1> QED
  BY <1>1, <1>4 DEF Log!Offsets

\* Of the rows that are published together the last of each key is.
LEMMA BatchIsDelivered ==
    ASSUME MaxSeq \in Nat, NEW S \in SUBSET Log!Rows, NEW s, NEW r \in S
    PROVE  \/ r \in Log!Deduplicated(s, S)
           \/ /\ s \in Deduped
              /\ \E q \in Log!Deduplicated(s, S) : q.key = r.key /\ q.seq > r.seq
<1>1. CASE s \notin Deduped
  BY <1>1 DEF Log!Deduplicated
<1>2. CASE s \in Deduped
  <2>1. PICK T : T = {q.seq : q \in {p \in S : p.key = r.key}}
    OBVIOUS
  <2>2. T \in SUBSET (0 .. MaxSeq) /\ r.seq \in T
    BY <2>1 DEF Log!Rows
  <2>3. PICK n \in T : \A m \in T : m <= n
    BY <2>2, GreatestExists
  <2>4. PICK q \in S : q.key = r.key /\ q.seq = n
    BY <2>1, <2>3
  <2>5. q \in Log!Deduplicated(s, S)
    BY <2>1, <2>3, <2>4 DEF Log!Deduplicated
  <2>6. r.seq <= q.seq /\ r.seq \in Nat /\ q.seq \in Nat
    BY <2>2, <2>3, <2>4 DEF Log!Rows
  <2>7. CASE r.seq = q.seq
    <3>1. r \in Log!Deduplicated(s, S)
      BY <2>4, <2>5, <2>7 DEF Log!Deduplicated
    <3> QED
      BY <3>1
  <2> QED
    BY <1>2, <2>4, <2>5, <2>6, <2>7
<1> QED
  BY <1>1, <1>2

-------------------------------------------------------------------------------
(* One lemma per action.                                                    *)

\* The fields of the records that a step reads.
LEMMA LogTypes ==
    ASSUME Log!PublishAssumption, LogInv
    PROVE  /\ nextSeq \in Nat /\ nextSeq \in 1 .. MaxSeq + 1 /\ MaxSeq \in Nat
           /\ \A w \in Writers : \A q \in writing[w] : q \in Log!Rows /\ q.seq \in 1 .. MaxSeq
           /\ \A r \in past : r \in Log!Rows /\ r.seq \in 1 .. MaxSeq
           /\ log \subseteq past /\ got \in [Subs -> SUBSET past] /\ past \subseteq Log!Rows
           /\ \A s \in Subs : sub[s] \in Subscriptions
           /\ \A d \in Drivers : pCall[d] \in SubCalls
           /\ sub \in [Subs -> Subscriptions] /\ pCall \in [Drivers -> SubCalls]
           /\ writing \in [Writers -> SUBSET Log!Rows]
           /\ Passed(0) /\ Log!NoCall \in SubCalls
<1>1. /\ nextSeq \in 1 .. MaxSeq + 1 /\ MaxSeq \in Nat /\ writing \in [Writers -> SUBSET Log!Rows]
      /\ log \subseteq past /\ past \subseteq Log!Rows /\ got \in [Subs -> SUBSET past]
      /\ sub \in [Subs -> Subscriptions] /\ pCall \in [Drivers -> SubCalls]
  BY DEF LogInv, Log!TypeOK, Log!PublishAssumption, Subscriptions, SubCalls
<1>2. \A r \in Log!Rows : r.seq \in 1 .. MaxSeq
  BY DEF Log!Rows
<1>3. Passed(0)
  BY <1>1, <1>2 DEF Passed
<1>4. Log!NoCall \in SubCalls
  <2>1. PICK z \in Subs : z = CHOOSE s \in Subs : TRUE
    BY DEF Log!PublishAssumption
  <2>2. Log!NoCall = [op |-> "none", sub |-> z, offset |-> 0, bound |-> 0]
    BY <2>1 DEF Log!NoCall
  <2> QED
    BY <1>1, <2>2 DEF SubCalls
<1> QED
  BY <1>1, <1>2, <1>3, <1>4

LEMMA LogStep ==
    ASSUME Log!PublishAssumption, LogInv, NEW w \in Writers, NEW k \in LogKeys, Log!Log(w, k)
    PROVE  LogInv'
<1>1. PICK z : z = [seq |-> nextSeq, key |-> k]
  OBVIOUS
<1>2. /\ nextSeq <= MaxSeq /\ writing' = [writing EXCEPT ![w] = @ \cup {z}] /\ nextSeq' = nextSeq + 1
      /\ UNCHANGED <<log, past, sub, got, pCall>>
  BY <1>1 DEF Log!Log
<1>3. z \in Log!Rows /\ z.seq = nextSeq
  BY <1>1, <1>2, LogTypes DEF Log!Rows
<1>4. Log!TypeOK'
  BY <1>2, <1>3, LogTypes DEF LogInv, Log!TypeOK
<1>5. ASSUME NEW n \in Nat, Passed(n)
      PROVE  Passed(n)'
  BY <1>2, <1>3, <1>5, LogTypes DEF Passed
<1>6. SeqInv'
  <2>1. ASSUME NEW v \in Writers, NEW q \in writing'[v]
        PROVE  q.seq < nextSeq'
    BY <1>2, <1>3, LogTypes DEF LogInv, SeqInv
  <2>2. \A r \in past : r.seq \in Nat
    BY LogTypes
  <2>3. \A s \in Subs : sub[s].offset \in Nat /\ sub[s].from \in Nat
    BY LogTypes DEF Subscriptions
  <2>4. \A d \in Drivers : pCall[d].offset \in Nat /\ pCall[d].bound \in Nat
    BY LogTypes DEF SubCalls
  <2> QED
    BY <1>2, <1>5, <2>1, <2>2, <2>3, <2>4, LogTypes DEF LogInv, SeqInv
<1>7. ReadInv' /\ Log!NothingOwedIsGone'
  BY <1>2 DEF LogInv, ReadInv, OwedTo, InSink, Log!NothingOwedIsGone
<1> QED
  BY <1>4, <1>6, <1>7 DEF LogInv

\* The rows of a transaction are all past what anyone has read.
LEMMA EndStep ==
    ASSUME Log!PublishAssumption, OneWriter, LogInv, NEW w \in Writers, Log!End(w)
    PROVE  LogInv'
<1>1. PICK C \in {writing[w], {}} : log' = log \cup C /\ past' = past \cup C
  BY DEF Log!End
<1>2. /\ writing' = [writing EXCEPT ![w] = {}] /\ UNCHANGED <<nextSeq, sub, got, pCall>>
      /\ \A v \in Writers : writing'[v] = {}
  BY LogTypes DEF Log!End, OneWriter
<1>3. C \subseteq Log!Rows /\ \A r \in C : r.seq < nextSeq
  BY <1>1, LogTypes DEF LogInv, SeqInv
<1>4. ASSUME NEW n \in Nat, Passed(n)
      PROVE  Passed(n)' /\ \A r \in C : n < r.seq
  BY <1>1, <1>2, <1>4 DEF Passed
<1>5. /\ \A s \in Subs : sub[s].offset \in Nat
      /\ \A d \in Drivers : pCall[d].offset \in Nat /\ pCall[d].bound \in Nat /\ pCall[d].sub \in Subs
      /\ \A r \in past : r.seq \in Nat
  BY LogTypes DEF Subscriptions, SubCalls
<1>6. Log!TypeOK'
  BY <1>1, <1>2, <1>3, LogTypes DEF LogInv, Log!TypeOK
<1>7. SeqInv'
  <2>1. \A r \in past' : Passed(r.seq)'
    BY <1>1, <1>2, <1>3, <1>4, <1>5 DEF LogInv, SeqInv, Passed
  <2> QED
    BY <1>2, <1>4, <1>5, <2>1 DEF LogInv, SeqInv
<1>8. ReadInv'
  <2>1. ASSUME NEW s \in Subs, NEW n \in Nat, Passed(n)
        PROVE  OwedTo(s, n)' = OwedTo(s, n)
    <3>1. \A r \in C : r \in Log!Rows /\ n < r.seq
      BY <1>3, <1>4, <2>1
    <3>2. \A r \in C : ~(r.seq <= n)
      BY <3>1, LogTypes DEF Log!Rows
    <3> QED
      BY <1>1, <1>2, <3>2 DEF OwedTo
  <2>2. ASSUME NEW d \in Drivers
        PROVE  Passed(pCall[d].offset) /\ Passed(pCall[d].bound)
    BY DEF LogInv, SeqInv
  <2> QED
    BY <1>2, <1>5, <2>1, <2>2 DEF LogInv, ReadInv, InSink
<1>9. Log!NothingOwedIsGone'
  <2>1. ASSUME NEW s \in Subs, NEW r \in C
        PROVE  r \in log' /\ r.seq > sub[s].offset
    BY <1>1, <1>3, <1>4, <1>5 DEF LogInv, SeqInv, Log!Rows
  <2> QED
    BY <1>1, <1>2, <2>1 DEF LogInv, Log!NothingOwedIsGone
<1> QED
  BY <1>6, <1>7, <1>8, <1>9 DEF LogInv

\* It owes nothing of the past.
LEMMA CreateStep ==
    ASSUME Log!PublishAssumption, LogInv, NEW s \in Subs, Log!CreateSubscription(s)
    PROVE  LogInv'
<1>1. PICK z : z = Log!New(nextSeq - 1)
  OBVIOUS
<1>2. z \in Subscriptions /\ z.offset = 0 /\ z.from = nextSeq - 1
  BY <1>1, LogTypes DEF Log!New, Subscriptions
<1>3. sub' = [sub EXCEPT ![s] = z] /\ UNCHANGED <<nextSeq, writing, log, past, got, pCall>>
  BY <1>1 DEF Log!CreateSubscription
<1>4. \A t \in Subs : sub'[t] = IF t = s THEN z ELSE sub[t]
  BY <1>3, LogTypes
<1>5. \A r \in past : ~(r.seq > z.from)
  BY <1>2, LogTypes DEF LogInv, SeqInv, Passed
<1>6. Log!TypeOK'
  BY <1>2, <1>3, LogTypes DEF LogInv, Log!TypeOK, Subscriptions
<1>7. SeqInv'
  <2>1. \A n : Passed(n) => Passed(n)'
    BY <1>3 DEF Passed
  <2>2. \A t \in Subs : Passed(sub'[t].offset) /\ sub'[t].from < nextSeq
    BY <1>2, <1>4, LogTypes DEF LogInv, SeqInv
  <2> QED
    BY <1>3, <2>1, <2>2 DEF LogInv, SeqInv, Passed
<1>8. \A t \in Subs : \A n : OwedTo(t, n)' \subseteq OwedTo(t, n)
  BY <1>3, <1>4, <1>5 DEF OwedTo
<1>9. ReadInv'
  <2>1. \A d \in Drivers : pCall[d].sub \in Subs
    BY LogTypes DEF SubCalls
  <2> QED
    BY <1>3, <1>8, <2>1 DEF LogInv, ReadInv, InSink
<1>10. Log!NothingOwedIsGone'
  BY <1>3, <1>4, <1>5 DEF LogInv, Log!NothingOwedIsGone
<1> QED
  BY <1>6, <1>7, <1>9, <1>10 DEF LogInv

\* A step that changes no more than what one driver has read.
LEMMA ReadSteps ==
    ASSUME Log!PublishAssumption, LogInv, NEW d \in Drivers, NEW f \in SubCalls, Log!Goes(d, f),
           UNCHANGED <<nextSeq, writing, log, past, sub, got>>,
           Passed(f.offset), Passed(f.bound),
           f.op \in {"offset", "publish"} => \A r \in OwedTo(f.sub, f.offset) : InSink(f.sub, r),
           f.op = "prune" => \A s \in Subs : \A r \in OwedTo(s, f.bound) : InSink(s, r)
    PROVE  LogInv'
<1>1. pCall' = [pCall EXCEPT ![d] = f]
  BY DEF Log!Goes
<1>2. \A e \in Drivers : pCall'[e] = IF e = d THEN f ELSE pCall[e]
  BY <1>1, LogTypes
<1>3. pCall' \in [Drivers -> SubCalls]
  BY <1>1, LogTypes
<1>4. Log!TypeOK'
  BY <1>3 DEF LogInv, Log!TypeOK, SubCalls
<1>5. SeqInv'
  BY <1>2 DEF LogInv, SeqInv, Passed
<1>6. ReadInv'
  <2>1. ASSUME NEW e \in Drivers
        PROVE  /\ pCall'[e].op \in {"offset", "publish"} =>
                     \A r \in OwedTo(pCall'[e].sub, pCall'[e].offset) : InSink(pCall'[e].sub, r)
               /\ pCall'[e].op = "prune" =>
                     \A s \in Subs : \A r \in OwedTo(s, pCall'[e].bound) : InSink(s, r)
    BY <1>2 DEF LogInv, ReadInv
  <2>2. /\ \A s, n : OwedTo(s, n)' = OwedTo(s, n)
        /\ \A s, r : InSink(s, r)' = InSink(s, r)
    BY DEF OwedTo, InSink
  <2> QED
    BY <2>1, <2>2 DEF ReadInv, OwedTo, InSink
<1>7. Log!NothingOwedIsGone'
  BY DEF LogInv, Log!NothingOwedIsGone
<1> QED
  BY <1>4, <1>5, <1>6, <1>7 DEF LogInv

LEMMA EndsStep ==
    ASSUME Log!PublishAssumption, LogInv, NEW d \in Drivers, Log!Ends(d),
           UNCHANGED <<nextSeq, writing, log, past, sub, got>>
    PROVE  LogInv'
<1>1. PICK z \in SubCalls : z = Log!NoCall /\ z.op = "none" /\ z.offset = 0 /\ z.bound = 0
  BY LogTypes DEF Log!NoCall
<1>2. Log!Goes(d, z)
  BY <1>1 DEF Log!Ends
<1> QED
  BY <1>1, <1>2, LogTypes, ReadSteps

\* What a subscription owes is behind its offset only if it was delivered.
LEMMA BehindIsDelivered ==
    ASSUME Log!PublishAssumption, LogInv, NEW s \in Subs, NEW n \in Nat, n <= sub[s].offset,
           NEW r \in OwedTo(s, n)
    PROVE  InSink(s, r)
<1>1. r \in past /\ sub[s].there /\ r.seq > sub[s].from /\ r.seq <= n
  BY DEF OwedTo
<1>2. ~(r.seq > sub[s].offset)
  BY <1>1, LogTypes DEF Subscriptions
<1> QED
  BY <1>1, <1>2 DEF LogInv, Log!NothingOwedIsGone, InSink

LEMMA ReadOffsetStep ==
    ASSUME Log!PublishAssumption, LogInv, NEW d \in Drivers, NEW s \in Subs, Log!ReadOffset(d, s)
    PROVE  LogInv'
<1>1. PICK n \in 0 .. MaxSeq : n = sub[s].offset
  BY LogTypes DEF Subscriptions
<1>2. PICK f : f = [op |-> "offset", sub |-> s, offset |-> n, bound |-> 0]
  OBVIOUS
<1>3. Log!Goes(d, f) /\ UNCHANGED <<nextSeq, writing, log, past, sub, got>>
  BY <1>1, <1>2 DEF Log!ReadOffset
<1>4. f \in SubCalls /\ f.op = "offset" /\ f.sub = s /\ f.offset = n /\ f.bound = 0
  BY <1>1, <1>2, LogTypes DEF SubCalls
<1>5. Passed(n)
  BY <1>1 DEF LogInv, SeqInv
<1>6. \A r \in OwedTo(s, n) : InSink(s, r)
  BY <1>1, LogTypes, BehindIsDelivered
<1> QED
  BY <1>3, <1>4, <1>5, <1>6, LogTypes, ReadSteps

LEMMA ReadHighestStep ==
    ASSUME Log!PublishAssumption, LogInv, NEW d \in Drivers, Log!ReadHighest(d)
    PROVE  LogInv'
<1>1. UNCHANGED <<nextSeq, writing, log, past, sub, got>> /\ pCall[d].op = "offset"
  BY DEF Log!ReadHighest
<1>2. CASE Log!Ends(d)
  BY <1>1, <1>2, EndsStep
<1>3. CASE Log!Goes(d, [pCall[d] EXCEPT !.op = "publish", !.bound = Log!Highest(log)])
  <2>1. PICK b : b = Log!Highest(log)
    OBVIOUS
  <2>2. b \in 0 .. MaxSeq /\ Passed(b)
    <3>1. log \in SUBSET Log!Rows /\ MaxSeq \in Nat
      BY LogTypes
    <3>2. b \in 0 .. MaxSeq /\ (b = 0 \/ \E r \in log : r.seq = b)
      BY <2>1, <3>1, HighestIsHighest
    <3> QED
      BY <3>2, LogTypes DEF LogInv, SeqInv
  <2>3. PICK f : f = [pCall[d] EXCEPT !.op = "publish", !.bound = b]
    OBVIOUS
  <2>4. /\ f \in SubCalls /\ f.op = "publish" /\ f.bound = b
        /\ f.sub = pCall[d].sub /\ f.offset = pCall[d].offset
    BY <2>2, <2>3, LogTypes DEF SubCalls
  <2>5. Log!Goes(d, f)
    BY <1>3, <2>1, <2>3
  <2>6. Passed(f.offset) /\ \A r \in OwedTo(f.sub, f.offset) : InSink(f.sub, r)
    BY <1>1, <2>4 DEF LogInv, SeqInv, ReadInv
  <2> QED
    BY <1>1, <2>2, <2>4, <2>5, <2>6, ReadSteps
<1> QED
  BY <1>2, <1>3 DEF Log!ReadHighest

LEMMA ReadLowWaterStep ==
    ASSUME Log!PublishAssumption, LogInv, NEW d \in Drivers, Log!ReadLowWater(d)
    PROVE  LogInv'
<1>1. PICK z \in SubCalls : z = Log!NoCall /\ z.offset = 0
  BY LogTypes DEF Log!NoCall
<1>2. PICK b : b = Log!LowWater
  OBVIOUS
<1>3. Log!TypeOK /\ Log!Offsets # {} /\ UNCHANGED <<nextSeq, writing, log, past, sub, got>>
  BY DEF LogInv, Log!ReadLowWater
<1>4. /\ b \in 0 .. MaxSeq /\ \A s \in Subs : sub[s].there => b <= sub[s].offset
      /\ \E s \in Subs : b = sub[s].offset
  BY <1>2, <1>3, LowWaterIsLowest
<1>5. PICK f : f = [z EXCEPT !.op = "prune", !.bound = b]
  OBVIOUS
<1>6. f \in SubCalls /\ f.op = "prune" /\ f.bound = b /\ f.offset = 0
  BY <1>1, <1>4, <1>5 DEF SubCalls
<1>7. Log!Goes(d, f)
  BY <1>1, <1>2, <1>5 DEF Log!ReadLowWater
<1>8. Passed(b)
  BY <1>4 DEF LogInv, SeqInv
<1>9. ASSUME NEW s \in Subs, NEW r \in OwedTo(s, b)
      PROVE  InSink(s, r)
  <2>1. sub[s].there
    BY DEF OwedTo
  <2> QED
    BY <1>4, <2>1, BehindIsDelivered
<1> QED
  BY <1>3, <1>6, <1>7, <1>8, <1>9, LogTypes, ReadSteps

\* Every row it deletes is in the sink of whoever owes it.
LEMMA PruneStep ==
    ASSUME Log!PublishAssumption, LogInv, NEW d \in Drivers, Log!Prune(d)
    PROVE  LogInv'
<1>1. PICK n \in 0 .. pCall[d].bound : log' = {r \in log : r.seq > n}
  BY DEF Log!Prune
<1>2. UNCHANGED <<nextSeq, writing, past, sub, got>> /\ Log!Ends(d) /\ pCall[d].op = "prune"
  BY DEF Log!Prune
<1>3. PICK z \in SubCalls : z = Log!NoCall /\ z.op = "none" /\ z.offset = 0 /\ z.bound = 0
  BY LogTypes DEF Log!NoCall
<1>4. pCall' = [pCall EXCEPT ![d] = z]
  BY <1>2, <1>3 DEF Log!Ends, Log!Goes
<1>5. pCall' \in [Drivers -> SubCalls] /\ \A e \in Drivers : pCall'[e] = IF e = d THEN z ELSE pCall[e]
  BY <1>4, LogTypes
<1>6. Log!TypeOK'
  BY <1>1, <1>2, <1>5 DEF LogInv, Log!TypeOK, SubCalls
<1>7. SeqInv'
  <2>1. \A i : Passed(i) => Passed(i)'
    BY <1>2 DEF Passed
  <2>2. \A e \in Drivers : Passed(pCall'[e].offset) /\ Passed(pCall'[e].bound)
    BY <1>3, <1>5, LogTypes DEF LogInv, SeqInv
  <2> QED
    BY <1>2, <2>1, <2>2 DEF LogInv, SeqInv, Passed
<1>8. ReadInv'
  <2>1. ASSUME NEW e \in Drivers
        PROVE  /\ pCall'[e].op \in {"offset", "publish"} =>
                     \A r \in OwedTo(pCall'[e].sub, pCall'[e].offset) : InSink(pCall'[e].sub, r)
               /\ pCall'[e].op = "prune" =>
                     \A s \in Subs : \A r \in OwedTo(s, pCall'[e].bound) : InSink(s, r)
    BY <1>3, <1>5 DEF LogInv, ReadInv
  <2> QED
    BY <1>2, <2>1 DEF ReadInv, OwedTo, InSink
<1>9. Log!NothingOwedIsGone'
  <2>1. SUFFICES ASSUME NEW s \in Subs, NEW r \in past, sub[s].there, r.seq > sub[s].from
                 PROVE  InSink(s, r) \/ (r \in log' /\ r.seq > sub[s].offset)
    BY <1>2 DEF Log!NothingOwedIsGone, InSink
  <2>2. CASE r.seq <= pCall[d].bound
    <3>1. r \in OwedTo(s, pCall[d].bound)
      BY <2>1, <2>2 DEF OwedTo
    <3> QED
      BY <1>2, <3>1 DEF LogInv, ReadInv
  <2>3. CASE r.seq > pCall[d].bound
    <3>1. r.seq > n
      <4>1. pCall[d].bound \in Nat /\ r.seq \in Nat
        BY LogTypes DEF SubCalls
      <4> QED
        BY <1>1, <2>3, <4>1
    <3> QED
      BY <1>1, <2>1, <3>1 DEF LogInv, Log!NothingOwedIsGone, InSink
  <2>4. pCall[d].bound \in Nat /\ r.seq \in Nat
    BY LogTypes DEF SubCalls
  <2> QED
    BY <2>2, <2>3, <2>4
<1> QED
  BY <1>6, <1>7, <1>8, <1>9 DEF LogInv

\* What the new offset passes was behind the old one, or is in the batch.
LEMMA PublishesStep ==
    ASSUME Log!PublishAssumption, LogInv, NEW d \in Drivers, Log!PublishAndAdvance(d)
    PROVE  LogInv'
<1>1. PICK s \in Subs : s = pCall[d].sub
  BY LogTypes DEF SubCalls
<1>2. PICK b \in 0 .. MaxSeq : b = pCall[d].bound
  BY LogTypes DEF SubCalls
<1>3. PICK D : D = Log!Deduplicated(s, Log!Batch(d))
  OBVIOUS
<1>4. /\ got' = [got EXCEPT ![s] = @ \cup D]
      /\ sub' = [sub EXCEPT ![s].offset = b]
      /\ Log!Ends(d) /\ UNCHANGED <<nextSeq, writing, log, past>> /\ pCall[d].op = "publish"
  BY <1>1, <1>2, <1>3 DEF Log!PublishAndAdvance, Log!NewOffset
<1>5. D \subseteq past /\ Log!Batch(d) \in SUBSET Log!Rows
  BY <1>3, LogTypes DEF Log!Deduplicated, Log!Batch
<1>6. /\ \A t \in Subs : sub'[t] \in Subscriptions
      /\ \A t \in Subs : sub'[t].there = sub[t].there /\ sub'[t].from = sub[t].from
      /\ \A t \in Subs : sub'[t].offset = IF t = s THEN b ELSE sub[t].offset
      /\ sub' \in [Subs -> Subscriptions]
  <2>1. PICK z : z = [sub[s] EXCEPT !.offset = b]
    OBVIOUS
  <2>2. z \in Subscriptions /\ z.there = sub[s].there /\ z.from = sub[s].from /\ z.offset = b
    BY <2>1, LogTypes DEF Subscriptions
  <2>3. sub' = [sub EXCEPT ![s] = z]
    BY <1>4, <2>1, LogTypes
  <2> QED
    BY <2>2, <2>3, LogTypes
<1>7. /\ got' \in [Subs -> SUBSET past] /\ \A t \in Subs : got[t] \subseteq got'[t]
      /\ D \subseteq got'[s]
  BY <1>4, <1>5, LogTypes
<1>8. \A t \in Subs : \A r : InSink(t, r) => InSink(t, r)'
  BY <1>7 DEF InSink
<1>9. PICK z \in SubCalls : z = Log!NoCall /\ z.op = "none" /\ z.offset = 0 /\ z.bound = 0
  BY LogTypes DEF Log!NoCall
<1>10. pCall' = [pCall EXCEPT ![d] = z]
  BY <1>4, <1>9 DEF Log!Ends, Log!Goes
<1>11. pCall' \in [Drivers -> SubCalls] /\ \A e \in Drivers : pCall'[e] = IF e = d THEN z ELSE pCall[e]
  BY <1>10, LogTypes
<1>12. Log!TypeOK'
  BY <1>4, <1>6, <1>7, <1>11 DEF LogInv, Log!TypeOK, SubCalls, Subscriptions
<1>13. SeqInv'
  <2>1. \A i : Passed(i) => Passed(i)'
    BY <1>4 DEF Passed
  <2>2. \A e \in Drivers : Passed(pCall'[e].offset) /\ Passed(pCall'[e].bound)
    BY <1>9, <1>11, LogTypes DEF LogInv, SeqInv
  <2>3. \A t \in Subs : Passed(sub'[t].offset) /\ sub'[t].from < nextSeq
    BY <1>2, <1>6 DEF LogInv, SeqInv
  <2> QED
    BY <1>4, <2>1, <2>2, <2>3 DEF LogInv, SeqInv, Passed
<1>14. ReadInv'
  <2>1. \A t \in Subs : \A n : OwedTo(t, n)' = OwedTo(t, n)
    BY <1>4, <1>6 DEF OwedTo
  <2>2. ASSUME NEW e \in Drivers, pCall'[e].op # "none"
        PROVE  pCall'[e] = pCall[e] /\ pCall[e].sub \in Subs
    BY <1>9, <1>11, <2>2, LogTypes DEF SubCalls
  <2>3. ASSUME NEW e \in Drivers, NEW t \in Subs, NEW n,
               \/ pCall[e].op \in {"offset", "publish"} /\ t = pCall[e].sub /\ n = pCall[e].offset
               \/ pCall[e].op = "prune" /\ n = pCall[e].bound
        PROVE  \A r \in OwedTo(t, n)' : InSink(t, r)'
    BY <1>8, <2>1, <2>3 DEF LogInv, ReadInv
  <2> QED
    BY <2>2, <2>3 DEF ReadInv, OwedTo, InSink
<1>15. Log!NothingOwedIsGone'
  <2>1. SUFFICES ASSUME NEW t \in Subs, NEW r \in past, sub[t].there, r.seq > sub[t].from
                 PROVE  InSink(t, r)' \/ (r \in log /\ r.seq > sub'[t].offset)
    BY <1>4, <1>6 DEF Log!NothingOwedIsGone, InSink
  <2>2. InSink(t, r) \/ (r \in log /\ r.seq > sub[t].offset)
    BY <2>1 DEF LogInv, Log!NothingOwedIsGone, InSink
  <2>3. CASE InSink(t, r) \/ t # s
    BY <1>6, <1>8, <2>2, <2>3
  <2>4. CASE t = s /\ r \in log /\ ~InSink(t, r)
    <3>1. ~(r.seq <= pCall[d].offset)
      <4>1. r.seq <= pCall[d].offset => r \in OwedTo(s, pCall[d].offset)
        BY <2>1, <2>4 DEF OwedTo
      <4> QED
        BY <1>1, <1>4, <2>4, <4>1 DEF LogInv, ReadInv
    <3>2. pCall[d].offset \in Nat /\ r.seq \in Nat
      BY LogTypes DEF SubCalls
    <3>3. CASE r.seq <= b
      <4>1. r \in Log!Batch(d)
        BY <1>2, <2>4, <3>1, <3>2, <3>3 DEF Log!Batch
      <4>2. r \in D \/ (s \in Deduped /\ \E q \in D : q.key = r.key /\ q.seq > r.seq)
        BY <1>3, <1>5, <4>1, LogTypes, BatchIsDelivered
      <4> QED
        BY <1>7, <2>4, <4>2 DEF InSink
    <3>4. CASE r.seq > b
      BY <1>6, <2>4, <3>4
    <3> QED
      BY <3>2, <3>3, <3>4
  <2> QED
    BY <2>2, <2>3, <2>4
<1> QED
  BY <1>12, <1>13, <1>14, <1>15 DEF LogInv

-------------------------------------------------------------------------------
LEMMA LogStart ==
    ASSUME Log!PublishAssumption, Log!Init
    PROVE  LogInv
<1>1. PICK z \in SubCalls : z = Log!NoCall /\ z.op = "none" /\ z.offset = 0 /\ z.bound = 0
  <2>1. PICK s \in Subs : s = CHOOSE t \in Subs : TRUE
    BY DEF Log!PublishAssumption
  <2>2. Log!NoCall = [op |-> "none", sub |-> s, offset |-> 0, bound |-> 0]
    BY <2>1 DEF Log!NoCall
  <2> QED
    BY <2>2 DEF SubCalls, Log!PublishAssumption
<1>2. /\ nextSeq = 1 /\ writing = [w \in Writers |-> {}] /\ log = {} /\ past = {}
      /\ got = [s \in Subs |-> {}] /\ pCall = [d \in Drivers |-> z]
  BY <1>1 DEF Log!Init
<1>3. \A s \in Subs : sub[s] \in Subscriptions /\ sub[s].offset = 0 /\ sub[s].from = 0
  BY DEF Log!Init, Log!New, Log!None, Subscriptions, Log!PublishAssumption
<1>4. Log!TypeOK
  <2>1. sub \in [Subs -> Subscriptions]
    BY <1>3 DEF Log!Init
  <2> QED
    BY <1>1, <1>2, <2>1 DEF Log!TypeOK, Subscriptions, SubCalls, Log!PublishAssumption
<1>5. Passed(0)
  BY <1>2 DEF Passed
<1> QED
  BY <1>1, <1>2, <1>3, <1>4, <1>5 DEF LogInv, SeqInv, ReadInv, OwedTo, Log!NothingOwedIsGone

LEMMA LogSteps ==
    ASSUME Log!PublishAssumption, OneWriter, LogInv, [Log!Next]_(Log!vars)
    PROVE  LogInv'
<1>1. CASE UNCHANGED Log!vars
  BY <1>1 DEF Log!vars, LogInv, Log!TypeOK, SeqInv, ReadInv, Log!NothingOwedIsGone, Passed, OwedTo, InSink
<1>2. ASSUME NEW w \in Writers, Log!End(w) \/ \E k \in LogKeys : Log!Log(w, k)
      PROVE  LogInv'
  BY <1>2, EndStep, LogStep
<1>3. ASSUME NEW s \in Subs, Log!CreateSubscription(s)
      PROVE  LogInv'
  BY <1>3, CreateStep
<1>4. ASSUME NEW d \in Drivers, Log!CallFails(d)
      PROVE  LogInv'
  <2>1. Log!Ends(d) /\ UNCHANGED <<nextSeq, writing, log, past, sub, got>>
    BY <1>4 DEF Log!CallFails
  <2> QED
    BY <2>1, EndsStep
<1>5. ASSUME NEW d \in Drivers,
             \/ \E s \in Subs : Log!ReadOffset(d, s)
             \/ Log!ReadHighest(d) \/ Log!PublishAndAdvance(d) \/ Log!ReadLowWater(d) \/ Log!Prune(d)
      PROVE  LogInv'
  BY <1>5, ReadOffsetStep, ReadHighestStep, PublishesStep, ReadLowWaterStep, PruneStep
<1> QED
  BY <1>1, <1>2, <1>3, <1>4, <1>5 DEF Log!Next

\* publish.cpp: whatever calls of several drivers read, publish and prune between
\* each other, and whenever a subscription is created again, a row that it owes is in
\* its sink, ahead of its offset in the log, or replaced by a later one of its key.
THEOREM OwedIsKept ==
    ASSUME OneWriter
    PROVE  Log!Spec => [](Log!TypeOK /\ NothingOwedIsGone)
<1>1. Log!Init => LogInv
  BY PublishAssumption, LogStart
<1>2. LogInv /\ [Log!Next]_(Log!vars) => LogInv'
  BY PublishAssumption, LogSteps
<1>3. LogInv => Log!TypeOK /\ NothingOwedIsGone
  BY DEF LogInv, NothingOwedIsGone
<1> QED
  BY <1>1, <1>2, <1>3, PTL DEF Log!Spec
-------------------------------------------------------------------------------
(* One scan after another, for any images and faults.                      *)

Image == images[Full!Scan]

\* The rows of some keys, of the scan that runs.
RowsOf(K) == [k \in ScanKeys |-> IF k \in K THEN Full!Scan ELSE NoRow]

\* Between two packages the stage holds what was sent, unless it was lost.
BetweenInv ==
    fJob.pc = "poll" /\ fCall.step = "none" =>
       /\ fJob.left \subseteq Image
       /\ fJob.post = 0 => fJob.left = Image
       /\ fJob.post > 0 /\ fStage.there => fStage.rows = RowsOf(Image \ fJob.left)

\* While a package is worked on, the stage holds what was sent before it, and the
\* last package completes the image.
PackageInv ==
    fCall.step \in {"stage", "insert"} =>
       \E before \in SUBSET Image :
          /\ fCall.last => before \cup fCall.keys = Image
          /\ fJob.pc = "poll" => fJob.left \subseteq Image /\ before \cup fCall.keys = Image \ fJob.left
          /\ fCall.step = "stage" /\ fCall.batch = 0 => before = {}
          /\ fCall.step = "stage" /\ fCall.batch > 0 /\ fStage.there => fStage.rows = RowsOf(before)
          /\ fCall.step = "insert" => fStage.rows = RowsOf(before)

StagedInv ==
    /\ fCall.step = "merge" => fCall.last /\ fStage.rows = RowsOf(Image)
    /\ fCall.step = "ok" /\ ~fCall.last /\ fJob.pc = "poll" =>
          fJob.left \subseteq Image /\ fStage.rows = RowsOf(Image \ fJob.left)

ScanInv ==
    /\ fCall.step = "none" => fCall = Full!NoCall
    /\ fCall.step # "none" => fCall.scan = Full!Scan
    /\ fCall.step # "none" \/ fJob.pc = "poll" => Full!Scan > 0

FullInv ==
    /\ Full!TypeOK /\ ScanInv /\ BetweenInv /\ PackageInv /\ StagedInv
    /\ Full!TargetIsOneScan

Jobs == [pc : {"off", "poll"}, left : SUBSET ScanKeys, post : Nat]

ScanSteps == {"none", "stage", "insert", "merge", "ok", "error"}

LoadPackages == [step : ScanSteps, scan : 0 .. Full!Scan, batch : Nat, keys : SUBSET ScanKeys,
             last : BOOLEAN, bad : BOOLEAN]

Stages == [there : BOOLEAN, rows : [ScanKeys -> (1 .. Full!Scan) \cup {NoRow}]]

LEMMA FullTypes ==
    ASSUME FullInv
    PROVE  /\ images \in Seq(SUBSET ScanKeys) /\ Full!Scan \in Nat /\ merged \in 0 .. Full!Scan
           /\ fJob \in Jobs /\ fCall \in LoadPackages /\ fStage \in Stages
           /\ fTarget \in [ScanKeys -> (1 .. Full!Scan) \cup {NoRow}]
           /\ Full!Scan > 0 => Image \in SUBSET ScanKeys
           /\ \A K : Full!Scan > 0 => RowsOf(K) \in [ScanKeys -> (1 .. Full!Scan) \cup {NoRow}]
<1>1. /\ images \in Seq(SUBSET ScanKeys) /\ merged \in 0 .. Full!Scan
      /\ fJob \in Jobs /\ fCall \in LoadPackages /\ fStage \in Stages
      /\ fTarget \in [ScanKeys -> (1 .. Full!Scan) \cup {NoRow}]
  BY DEF FullInv, Full!TypeOK, Jobs, LoadPackages, Stages, ScanSteps
<1>2. Full!Scan \in Nat /\ Full!Scan = Len(images)
  BY <1>1, LenProperties DEF Full!Scan
<1>3. Full!Scan > 0 => Image \in SUBSET ScanKeys
  BY <1>1, <1>2, ElementOfSeq DEF Image
<1>4. ASSUME Full!Scan > 0, NEW K
      PROVE  RowsOf(K) \in [ScanKeys -> (1 .. Full!Scan) \cup {NoRow}]
  <2>1. Full!Scan \in 1 .. Full!Scan
    BY <1>2, <1>4
  <2> QED
    BY <2>1 DEF RowsOf
<1> QED
  BY <1>1, <1>2, <1>3, <1>4

\* A step that leaves the images and the target as they are, given what it makes of
\* the job, the package and the stage.
LEMMA SameTarget ==
    ASSUME FullInv, UNCHANGED <<images, fTarget, merged>>,
           fJob' \in Jobs, fCall' \in LoadPackages, fStage' \in Stages,
           ScanInv', BetweenInv', PackageInv', StagedInv'
    PROVE  FullInv'
<1>1. Full!Scan' = Full!Scan
  BY DEF Full!Scan
<1>2. Full!TypeOK'
  BY <1>1 DEF FullInv, Full!TypeOK, Jobs, LoadPackages, Stages, ScanSteps
<1>3. Full!TargetIsOneScan'
  BY DEF FullInv, Full!TargetIsOneScan
<1> QED
  BY <1>2, <1>3 DEF FullInv

\* A new image; nothing of it has been sent.
LEMMA StartStep ==
    ASSUME Full!ImagesAssumption, FullInv, Full!StartScan
    PROVE  FullInv'
<1>1. PICK image \in Images :
         images' = Append(images, image) /\ fJob' = [Full!Off EXCEPT !.pc = "poll", !.left = image]
  BY DEF Full!StartScan
<1>2. /\ fCall = Full!NoCall /\ UNCHANGED <<fCall, fStage, fTarget, merged, fFaults>>
      /\ image \in SUBSET ScanKeys
  BY DEF Full!StartScan, Full!server, Full!ImagesAssumption
<1>3. /\ images' \in Seq(SUBSET ScanKeys) /\ Full!Scan' = Full!Scan + 1
      /\ \A n \in 1 .. Full!Scan : images'[n] = images[n]
      /\ Image' = image
  <2>1. images \in Seq(SUBSET ScanKeys) /\ Full!Scan = Len(images) /\ Len(images) \in Nat
    BY FullTypes DEF Full!Scan
  <2>2. /\ images' \in Seq(SUBSET ScanKeys) /\ Len(images') = Len(images) + 1
        /\ \A n \in 1 .. Len(images) : images'[n] = images[n]
        /\ images'[Len(images) + 1] = image
    BY <1>1, <1>2, <2>1, AppendProperties
  <2> QED
    BY <2>1, <2>2 DEF Full!Scan, Image
<1>4. fJob' \in Jobs /\ fJob'.pc = "poll" /\ fJob'.left = image /\ fJob'.post = 0
  BY <1>1, <1>2 DEF Full!Off, Jobs
<1>5. fCall.step = "none" /\ ~(fCall.step # "none")
  BY <1>2 DEF Full!NoCall
<1>6. Full!TypeOK'
  <2>1. 1 .. Full!Scan \subseteq 1 .. Full!Scan' /\ 0 .. Full!Scan \subseteq 0 .. Full!Scan'
    BY <1>3, FullTypes
  <2>2. /\ fStage' \in [there : BOOLEAN, rows : [ScanKeys -> (1 .. Full!Scan') \cup {NoRow}]]
        /\ fCall' \in [step : ScanSteps, scan : 0 .. Full!Scan', batch : Nat, keys : SUBSET ScanKeys,
                       last : BOOLEAN, bad : BOOLEAN]
    BY <1>2, <2>1, FullTypes DEF Stages, LoadPackages
  <2>3. fTarget' \in [ScanKeys -> (1 .. Full!Scan') \cup {NoRow}] /\ merged' \in 0 .. Full!Scan'
    BY <1>2, <2>1, FullTypes
  <2> QED
    BY <1>3, <1>4, <2>2, <2>3 DEF Full!TypeOK, Jobs, ScanSteps
<1>7. Full!TargetIsOneScan'
  <2>1. merged > 0 => images'[merged] = images[merged]
    BY <1>3, FullTypes
  <2> QED
    BY <1>2, <2>1 DEF FullInv, Full!TargetIsOneScan
<1>8. ScanInv' /\ PackageInv' /\ StagedInv'
  BY <1>2, <1>3, <1>5, FullTypes DEF FullInv, ScanInv, PackageInv, StagedInv
<1>9. BetweenInv'
  BY <1>3, <1>4 DEF BetweenInv
<1> QED
  BY <1>6, <1>7, <1>8, <1>9 DEF FullInv

LEMMA PostStep ==
    ASSUME FullInv, Full!Post
    PROVE  FullInv'
<1>1. PICK keys \in SUBSET fJob.left, last \in BOOLEAN, bad \in BOOLEAN :
         /\ last => keys = fJob.left
         /\ fCall' = [step |-> "stage", scan |-> Full!Scan, batch |-> fJob.post, keys |-> keys,
                      last |-> last, bad |-> bad]
         /\ fJob' = [fJob EXCEPT !.left = @ \ keys]
  BY DEF Full!Post
<1>2. /\ fJob.pc = "poll" /\ fCall.step = "none" /\ UNCHANGED <<images, fStage, fTarget, merged>>
      /\ fJob.left \subseteq Image
      /\ fJob.post = 0 => fJob.left = Image
      /\ fJob.post > 0 /\ fStage.there => fStage.rows = RowsOf(Image \ fJob.left)
  BY DEF FullInv, BetweenInv, Full!Post, Full!server, Full!NoCall
<1>3. PICK l : l = fJob.left \ keys
  OBVIOUS
<1>4. fJob' \in Jobs /\ fJob'.pc = "poll" /\ fJob'.left = l /\ fJob'.post = fJob.post
  <2>1. fJob' = [fJob EXCEPT !.left = l]
    BY <1>1, <1>3
  <2>2. l \in SUBSET ScanKeys
    BY <1>3, FullTypes DEF Jobs
  <2> QED
    BY <1>2, <2>1, <2>2, FullTypes DEF Jobs
<1>5. /\ fCall' \in LoadPackages /\ fCall'.step = "stage" /\ fCall'.batch = fJob.post
      /\ fCall'.keys = keys /\ fCall'.last = last /\ fCall'.scan = Full!Scan
  <2>1. keys \in SUBSET ScanKeys /\ fJob.post \in Nat /\ Full!Scan \in 0 .. Full!Scan
    BY <1>1, FullTypes DEF Jobs
  <2> QED
    BY <1>1, <2>1 DEF LoadPackages, ScanSteps
<1>6. Full!Scan' = Full!Scan /\ Image' = Image /\ \A K : RowsOf(K)' = RowsOf(K)
  BY <1>2 DEF Full!Scan, Image, RowsOf
<1>7. PackageInv'
  <2>1. PICK before \in SUBSET Image : before = Image \ fJob.left
    OBVIOUS
  <2>2. /\ last => before \cup keys = Image
        /\ l \subseteq Image /\ before \cup keys = Image \ l
        /\ fJob.post = 0 => before = {}
        /\ fJob.post > 0 /\ fStage.there => fStage.rows = RowsOf(before)
    BY <1>1, <1>2, <1>3, <2>1
  <2> QED
    BY <1>2, <1>4, <1>5, <1>6, <2>2 DEF PackageInv
<1>8. ScanInv' /\ BetweenInv' /\ StagedInv'
  BY <1>2, <1>5, <1>6 DEF FullInv, ScanInv, BetweenInv, StagedInv
<1>9. fStage' \in Stages
  BY <1>2, FullTypes
<1> QED
  BY <1>2, <1>4, <1>5, <1>6, <1>7, <1>8, <1>9, SameTarget DEF LoadPackages, Stages

\* No scan goes on, and no package is in the hands of the server.
LEMMA QuietStep ==
    ASSUME FullInv, UNCHANGED <<images, fStage, fTarget, merged>>, fJob' = Full!Off,
           fCall' = Full!NoCall
    PROVE  FullInv'
<1>1. fJob' \in Jobs /\ fJob'.pc = "off"
  BY DEF Full!Off, Jobs
<1>2. fCall' \in LoadPackages /\ fCall'.step = "none"
  BY FullTypes DEF Full!NoCall, LoadPackages, ScanSteps
<1>3. ScanInv' /\ BetweenInv' /\ PackageInv' /\ StagedInv'
  <2>1. Full!NoCall' = Full!NoCall
    BY DEF Full!NoCall
  <2> QED
    BY <1>1, <1>2, <2>1 DEF ScanInv, BetweenInv, PackageInv, StagedInv
<1>4. fStage' \in Stages
  BY FullTypes
<1> QED
  BY <1>1, <1>2, <1>3, <1>4, SameTarget

LEMMA PostedStep ==
    ASSUME FullInv, Full!Posted
    PROVE  FullInv'
<1>1. /\ fJob.pc = "poll" /\ fCall.step = "ok" /\ fCall' = Full!NoCall
      /\ UNCHANGED <<images, fStage, fTarget, merged>>
  BY DEF Full!Posted, Full!server
<1>2. CASE fCall.last
  BY <1>1, <1>2, QuietStep DEF Full!Posted
<1>3. CASE ~fCall.last
  <2>1. PICK n \in Nat : n = fJob.post + 1 /\ n # 0
    BY FullTypes DEF Jobs
  <2>2. fJob' = [fJob EXCEPT !.post = n]
    BY <1>3, <2>1 DEF Full!Posted
  <2>3. fJob' \in Jobs /\ fJob'.pc = "poll" /\ fJob'.left = fJob.left /\ fJob'.post = n
    BY <1>1, <2>2, FullTypes DEF Jobs
  <2>4. fCall' \in LoadPackages /\ fCall'.step = "none" /\ Full!NoCall' = Full!NoCall
    BY <1>1, FullTypes DEF Full!NoCall, LoadPackages, ScanSteps
  <2>5. Full!Scan' = Full!Scan /\ Image' = Image /\ \A K : RowsOf(K)' = RowsOf(K)
    BY <1>1 DEF Full!Scan, Image, RowsOf
  <2>6. fJob.left \subseteq Image /\ fStage.rows = RowsOf(Image \ fJob.left)
    BY <1>1, <1>3 DEF FullInv, StagedInv
  <2>7. BetweenInv'
    BY <1>1, <2>1, <2>3, <2>4, <2>5, <2>6 DEF BetweenInv
  <2>8. ScanInv' /\ PackageInv' /\ StagedInv'
    BY <1>1, <2>3, <2>4, <2>5 DEF FullInv, ScanInv, PackageInv, StagedInv
  <2>9. fStage' \in Stages
    BY <1>1, FullTypes
  <2> QED
    BY <1>1, <2>3, <2>4, <2>7, <2>8, <2>9, SameTarget
<1> QED
  BY <1>2, <1>3

\* The job is gone; what it posted is worked on, and may complete the image.
LEMMA JobDiesStep ==
    ASSUME FullInv, Full!JobDies
    PROVE  FullInv'
<1>1. /\ fJob.pc = "poll" /\ fJob' = Full!Off /\ UNCHANGED <<images, fCall, fStage, fTarget, merged>>
  BY DEF Full!JobDies, Full!server
<1>2. fJob' \in Jobs /\ fJob'.pc = "off"
  BY <1>1 DEF Full!Off, Jobs
<1>3. /\ Full!Scan' = Full!Scan /\ Image' = Image /\ \A K : RowsOf(K)' = RowsOf(K)
      /\ Full!NoCall' = Full!NoCall
  BY <1>1 DEF Full!Scan, Image, RowsOf, Full!NoCall
<1>4. ScanInv' /\ BetweenInv' /\ StagedInv'
  BY <1>1, <1>2, <1>3 DEF FullInv, ScanInv, BetweenInv, StagedInv
<1>5. PackageInv'
  <2>1. SUFFICES ASSUME fCall.step \in {"stage", "insert"}
                 PROVE  PackageInv'
    BY <1>1 DEF PackageInv
  <2>2. PICK before \in SUBSET Image :
           /\ fCall.last => before \cup fCall.keys = Image
           /\ fCall.step = "stage" /\ fCall.batch = 0 => before = {}
           /\ fCall.step = "stage" /\ fCall.batch > 0 /\ fStage.there => fStage.rows = RowsOf(before)
           /\ fCall.step = "insert" => fStage.rows = RowsOf(before)
    BY <2>1 DEF FullInv, PackageInv
  <2> QED
    BY <1>1, <1>2, <1>3, <2>2 DEF PackageInv
<1>6. fCall' \in LoadPackages /\ fStage' \in Stages
  BY <1>1, FullTypes
<1> QED
  BY <1>1, <1>2, <1>4, <1>5, <1>6, SameTarget

LEMMA UnheardStep ==
    ASSUME FullInv, Full!Unheard
    PROVE  FullInv'
<1>1. /\ fJob.pc = "off" /\ fCall' = Full!NoCall /\ UNCHANGED <<images, fJob, fStage, fTarget, merged>>
  BY DEF Full!Unheard, Full!server
<1>2. fCall' \in LoadPackages /\ fCall'.step = "none" /\ Full!NoCall' = Full!NoCall
  BY <1>1, FullTypes DEF Full!NoCall, LoadPackages, ScanSteps
<1>3. ScanInv' /\ BetweenInv' /\ PackageInv' /\ StagedInv'
  BY <1>1, <1>2 DEF ScanInv, BetweenInv, PackageInv, StagedInv
<1>4. fJob' \in Jobs /\ fStage' \in Stages
  BY <1>1, FullTypes
<1> QED
  BY <1>1, <1>2, <1>3, <1>4, SameTarget

\* A package that has failed is of no more consequence.
LEMMA ErrorStep ==
    ASSUME FullInv, fCall.step \in {"stage", "insert", "merge"}, Full!Goes("error"),
           UNCHANGED <<images, fJob, fStage, fTarget, merged>>
    PROVE  FullInv'
<1>1. fCall' = [fCall EXCEPT !.step = "error"]
  BY DEF Full!Goes
<1>2. fCall' \in LoadPackages /\ fCall'.step = "error" /\ fCall'.scan = fCall.scan
  BY <1>1, FullTypes DEF LoadPackages, ScanSteps
<1>3. Full!Scan' = Full!Scan
  BY DEF Full!Scan
<1>4. ScanInv' /\ BetweenInv' /\ PackageInv' /\ StagedInv'
  BY <1>2, <1>3 DEF FullInv, ScanInv, BetweenInv, PackageInv, StagedInv
<1>5. fJob' \in Jobs /\ fStage' \in Stages
  BY FullTypes
<1> QED
  BY <1>2, <1>4, <1>5, SameTarget

\* The first package starts an empty stage, a later one goes on with what there is.
LEMMA PrepareStep ==
    ASSUME FullInv, Full!PrepareStage
    PROVE  FullInv'
<1>1. /\ fCall.step = "stage" /\ UNCHANGED <<images, fJob, fTarget, merged>>
      /\ Full!Scan > 0
  BY DEF Full!PrepareStage, Full!At, FullInv, ScanInv
<1>2. CASE fCall.batch # 0 /\ ~fStage.there
  <2>1. Full!Goes("error") /\ UNCHANGED fStage
    BY <1>2 DEF Full!PrepareStage, Full!StageIsThere
  <2> QED
    BY <1>1, <2>1, ErrorStep
<1>3. CASE fCall.batch = 0 \/ fStage.there
  <2>1. fCall' = [fCall EXCEPT !.step = "insert"]
    BY <1>3 DEF Full!PrepareStage, Full!StageIsThere, Full!Goes
  <2>2. /\ fCall' \in LoadPackages /\ fCall'.step = "insert" /\ fCall'.scan = fCall.scan
        /\ fCall'.last = fCall.last /\ fCall'.keys = fCall.keys
    BY <2>1, FullTypes DEF LoadPackages, ScanSteps
  <2>3. Full!Scan' = Full!Scan /\ Image' = Image /\ \A K : RowsOf(K)' = RowsOf(K)
    BY <1>1 DEF Full!Scan, Image, RowsOf
  <2>4. PICK before \in SUBSET Image :
           /\ fCall.last => before \cup fCall.keys = Image
           /\ fJob.pc = "poll" =>
                 fJob.left \subseteq Image /\ before \cup fCall.keys = Image \ fJob.left
           /\ fCall.batch = 0 => before = {}
           /\ fCall.batch > 0 /\ fStage.there => fStage.rows = RowsOf(before)
    BY <1>1 DEF FullInv, PackageInv
  <2>5. fStage' \in Stages /\ fStage'.rows = RowsOf(before)
    <3>1. CASE fCall.batch = 0
      <4>1. fStage' = Full!Empty /\ RowsOf({}) = [k \in ScanKeys |-> NoRow]
        BY <1>1, <3>1 DEF Full!PrepareStage, Full!DropsStage, RowsOf
      <4> QED
        BY <2>4, <3>1, <4>1 DEF Full!Empty, Stages
    <3>2. CASE fCall.batch # 0
      <4>1. fStage.there /\ UNCHANGED fStage /\ fCall.batch > 0
        BY <1>3, <3>2, FullTypes DEF Full!PrepareStage, LoadPackages
      <4> QED
        BY <2>4, <4>1, FullTypes
    <3> QED
      BY <3>1, <3>2
  <2>6. PackageInv'
    BY <1>1, <2>2, <2>3, <2>4, <2>5 DEF PackageInv
  <2>7. ScanInv' /\ BetweenInv' /\ StagedInv'
    BY <1>1, <2>2, <2>3 DEF FullInv, ScanInv, BetweenInv, StagedInv
  <2>8. fJob' \in Jobs
    BY <1>1, FullTypes
  <2> QED
    BY <1>1, <2>2, <2>5, <2>6, <2>7, <2>8, SameTarget
<1> QED
  BY <1>2, <1>3

LEMMA StageStep ==
    ASSUME FullInv, Full!StageRows
    PROVE  FullInv'
<1>1. /\ fCall.step = "insert" /\ UNCHANGED <<images, fJob, fTarget, merged>>
      /\ Full!Scan > 0 /\ fCall.scan = Full!Scan
  BY DEF Full!StageRows, Full!At, FullInv, ScanInv
<1>2. PICK p \in {"merge", "ok"} : p = (IF fCall.last THEN "merge" ELSE "ok")
  OBVIOUS
<1>3. fCall' = [fCall EXCEPT !.step = p]
  BY <1>2 DEF Full!StageRows, Full!Goes
<1>4. /\ fCall' \in LoadPackages /\ fCall'.step = p /\ fCall'.scan = fCall.scan
      /\ fCall'.last = fCall.last
  BY <1>3, FullTypes DEF LoadPackages, ScanSteps
<1>5. Full!Scan' = Full!Scan /\ Image' = Image /\ \A K : RowsOf(K)' = RowsOf(K)
  BY <1>1 DEF Full!Scan, Image, RowsOf
<1>6. PICK before \in SUBSET Image :
         /\ fCall.last => before \cup fCall.keys = Image
         /\ fJob.pc = "poll" =>
               fJob.left \subseteq Image /\ before \cup fCall.keys = Image \ fJob.left
         /\ fStage.rows = RowsOf(before)
  BY <1>1 DEF FullInv, PackageInv
<1>7. fStage' = [there |-> TRUE, rows |-> RowsOf(before \cup fCall.keys)]
  <2>1. [k \in ScanKeys |-> IF k \in fCall.keys THEN fCall.scan ELSE RowsOf(before)[k]]
          = RowsOf(before \cup fCall.keys)
    BY <1>1 DEF RowsOf
  <2> QED
    BY <1>6, <2>1 DEF Full!StageRows
<1>8. fStage' \in Stages /\ fStage'.rows = RowsOf(before \cup fCall.keys)
  BY <1>1, <1>7, FullTypes DEF Stages
<1>9. StagedInv'
  BY <1>1, <1>2, <1>4, <1>5, <1>6, <1>8 DEF StagedInv
<1>10. ScanInv' /\ BetweenInv' /\ PackageInv'
  BY <1>1, <1>2, <1>4, <1>5 DEF FullInv, ScanInv, BetweenInv, PackageInv
<1>11. fJob' \in Jobs
  BY <1>1, FullTypes
<1> QED
  BY <1>1, <1>4, <1>8, <1>9, <1>10, <1>11, SameTarget

\* The target becomes the image that the stage holds.
LEMMA MergeStep ==
    ASSUME FullInv, Full!ApeFinalizeFull
    PROVE  FullInv'
<1>1. /\ fCall.step = "merge" /\ UNCHANGED <<images, fJob>> /\ fTarget' = fStage.rows
      /\ fStage' = Full!NoStage /\ merged' = fCall.scan
      /\ Full!Scan > 0 /\ fCall.scan = Full!Scan
      /\ fCall.last /\ fStage.rows = RowsOf(Image)
  BY DEF Full!ApeFinalizeFull, Full!SnapshotMerge, Full!At, FullInv, ScanInv, StagedInv
<1>2. fCall' = [fCall EXCEPT !.step = "ok"]
  BY DEF Full!ApeFinalizeFull, Full!Goes
<1>3. /\ fCall' \in LoadPackages /\ fCall'.step = "ok" /\ fCall'.scan = fCall.scan
      /\ fCall'.last = fCall.last
  BY <1>2, FullTypes DEF LoadPackages, ScanSteps
<1>4. Full!Scan' = Full!Scan
  BY <1>1 DEF Full!Scan
<1>5. fStage' \in Stages
  BY <1>1 DEF Full!NoStage, Stages
<1>6. Full!TypeOK'
  <2>1. fTarget' \in [ScanKeys -> (1 .. Full!Scan) \cup {NoRow}] /\ merged' \in 0 .. Full!Scan
    BY <1>1, FullTypes
  <2>2. images' \in Seq(SUBSET ScanKeys) /\ fJob' \in Jobs
    BY <1>1, FullTypes
  <2> QED
    BY <1>3, <1>4, <1>5, <2>1, <2>2 DEF Full!TypeOK, Jobs, LoadPackages, Stages, ScanSteps
<1>7. Full!TargetIsOneScan'
  BY <1>1, FullTypes DEF Full!TargetIsOneScan, RowsOf, Image
<1>8. ScanInv' /\ BetweenInv' /\ PackageInv' /\ StagedInv'
  BY <1>1, <1>3, <1>4 DEF FullInv, ScanInv, BetweenInv, PackageInv, StagedInv
<1> QED
  BY <1>6, <1>7, <1>8 DEF FullInv

LEMMA LoseStep ==
    ASSUME FullInv, Full!LoseStage
    PROVE  FullInv'
<1>1. /\ fCall = Full!NoCall /\ fStage' = Full!NoStage
      /\ UNCHANGED <<images, fJob, fCall, fTarget, merged>>
  BY DEF Full!LoseStage
<1>2. fStage' \in Stages /\ ~fStage'.there
  BY <1>1 DEF Full!NoStage, Stages
<1>3. fCall.step = "none"
  BY <1>1 DEF Full!NoCall
<1>4. Full!Scan' = Full!Scan /\ Image' = Image /\ Full!NoCall' = Full!NoCall
  BY <1>1 DEF Full!Scan, Image, Full!NoCall
<1>5. ScanInv' /\ BetweenInv' /\ PackageInv' /\ StagedInv'
  BY <1>1, <1>2, <1>3, <1>4 DEF FullInv, ScanInv, BetweenInv, PackageInv, StagedInv
<1>6. fJob' \in Jobs /\ fCall' \in LoadPackages
  BY <1>1, FullTypes
<1> QED
  BY <1>1, <1>2, <1>5, <1>6, SameTarget

-------------------------------------------------------------------------------
LEMMA FullStart ==
    ASSUME Full!Init
    PROVE  FullInv
<1>1. /\ images = <<>> /\ fJob = Full!Off /\ fCall = Full!NoCall /\ fStage = Full!NoStage
      /\ fTarget = [k \in ScanKeys |-> NoRow] /\ merged = 0
  BY DEF Full!Init
<1>2. Full!Scan = 0 /\ images \in Seq(SUBSET ScanKeys)
  BY <1>1, EmptySeq DEF Full!Scan
<1>3. fJob \in Jobs /\ fJob.pc = "off" /\ fStage \in Stages
  BY <1>1 DEF Full!Off, Full!NoStage, Jobs, Stages
<1>4. fCall \in LoadPackages /\ fCall.step = "none"
  BY <1>1, <1>2 DEF Full!NoCall, LoadPackages, ScanSteps
<1>5. Full!TypeOK
  BY <1>1, <1>2, <1>3, <1>4 DEF Full!TypeOK, Jobs, LoadPackages, Stages, ScanSteps
<1>6. Full!TargetIsOneScan
  <2>1. ~(merged > 0) /\ \A k \in ScanKeys : fTarget[k] = NoRow
    BY <1>1
  <2> QED
    BY <2>1 DEF Full!TargetIsOneScan
<1> QED
  BY <1>1, <1>3, <1>4, <1>5, <1>6
  DEF FullInv, ScanInv, BetweenInv, PackageInv, StagedInv

LEMMA FullSteps ==
    ASSUME Full!ImagesAssumption, FullInv, [Full!Next]_(Full!vars)
    PROVE  FullInv'
<1>1. CASE UNCHANGED Full!vars
  <2>1. UNCHANGED <<images, fJob, fCall, fStage, fTarget, merged>>
    BY <1>1 DEF Full!vars, Full!server
  <2>2. Full!Scan' = Full!Scan /\ Image' = Image /\ \A K : RowsOf(K)' = RowsOf(K)
    BY <2>1 DEF Full!Scan, Image, RowsOf
  <2>3. ScanInv' /\ BetweenInv' /\ StagedInv'
    BY <2>1, <2>2 DEF FullInv, ScanInv, BetweenInv, StagedInv, Full!NoCall
  <2>4. PackageInv'
    BY <2>1, <2>2 DEF FullInv, PackageInv
  <2>5. fJob' \in Jobs /\ fCall' \in LoadPackages /\ fStage' \in Stages
    BY <2>1, FullTypes
  <2> QED
    BY <2>1, <2>3, <2>4, <2>5, SameTarget
<1>2. CASE Full!ScanFails
  <2>1. fJob' = Full!Off /\ fCall' = Full!NoCall /\ UNCHANGED <<images, fStage, fTarget, merged>>
    BY <1>2 DEF Full!ScanFails, Full!server
  <2> QED
    BY <2>1, QuietStep
<1>3. CASE Full!RefuseRows \/ Full!CallFails
  <2>1. /\ fCall.step \in {"stage", "insert", "merge"} /\ Full!Goes("error")
        /\ UNCHANGED <<images, fJob, fStage, fTarget, merged>>
    BY <1>3 DEF Full!RefuseRows, Full!CallFails, Full!At, Full!server
  <2> QED
    BY <2>1, ErrorStep
<1> QED
  BY <1>1, <1>2, <1>3, StartStep, PostStep, PostedStep, JobDiesStep, UnheardStep,
     PrepareStep, StageStep, MergeStep, LoseStep DEF Full!Next

\* run_ape_full and the server's staging: whatever fails between two packages, and
\* whatever a dead scan leaves behind, the target is the whole image of one scan.
THEOREM TargetIsAnImage ==
    Full!Spec => [](Full!TypeOK /\ TargetIsOneScan)
<1>1. Full!Init => FullInv
  BY ImagesAssumption, FullStart
<1>2. FullInv /\ [Full!Next]_(Full!vars) => FullInv'
  BY ImagesAssumption, FullSteps
<1>3. FullInv => Full!TypeOK /\ TargetIsOneScan
  BY DEF FullInv, TargetIsOneScan
<1> QED
  BY <1>1, <1>2, <1>3, PTL DEF Full!Spec

-------------------------------------------------------------------------------
(* A mass load, for any tables, limits, retries and loads that overlap.     *)

Ranges == [lo : Int, hi : Int]

WorkerJobs == [range : Ranges, at : Int, status : {"R", "F", "A"}]

Entries == [job : Nat, attempts : Nat, done : BOOLEAN, failed : BOOLEAN]

Loading == coord.pc \in {"dispatch", "wait"}

LoadTypes ==
    /\ mSource \in Tables /\ keyed \in BOOLEAN
    /\ heap \in [UNION Tables -> Nat] /\ \A v \in DOMAIN heap : v \notin mSource => heap[v] = 0
    /\ coord = [pc |-> coord.pc, load |-> coord.load]
    /\ jobs \in Seq(WorkerJobs)
    /\ st \in [DOMAIN st -> Entries] /\ \A i \in DOMAIN st : st[i].job <= Len(jobs)
    /\ keyed => coord.pc = "ok"

InPortion(i, v) == portions[i].lo <= v /\ v <= portions[i].hi

\* The portions of a load that goes on cover the source, and its jobs have theirs.
PortionInv ==
    Loading =>
       /\ \A v \in mSource : \E i \in DOMAIN st : InPortion(i, v)
       /\ \A i \in DOMAIN st : portions[i] \in Ranges
       /\ \A i \in DOMAIN st : st[i].job # 0 => jobs[st[i].job].range = portions[i]
       /\ \A i \in DOMAIN st : coord.pc = "wait" => st[i].job # 0
       /\ \A i \in DOMAIN st : Mass!Succeeded(i) => st[i].job # 0 /\ jobs[st[i].job].status = "F"

\* Up to where a job of this load has come its rows are in the target, whatever
\* other jobs have added; a job that has finished has come to the end.
RowsOfJob(j) == {v \in Mass!Within(jobs[j].range) : v <= jobs[j].at}

LoadedInv ==
    /\ Loading => \A i \in DOMAIN st : st[i].job # 0 =>
                     \A v \in RowsOfJob(st[i].job) : heap[v] >= 1
    /\ \A j \in DOMAIN jobs : jobs[j].status = "F" =>
          Mass!Within(jobs[j].range) \subseteq RowsOfJob(j)

LoadInv == LoadTypes /\ PortionInv /\ LoadedInv /\ Mass!SuccessIsComplete

-------------------------------------------------------------------------------
(* The cuts.                                                                *)

LEMMA Division ==
    ASSUME NEW a \in Nat, NEW b \in Nat \ {0}
    PROVE  a \div b \in Nat /\ b * (a \div b) <= a /\ a < b * (a \div b) + b
OBVIOUS

LEMMA Products ==
    ASSUME NEW a \in Nat, NEW b \in Nat, NEW c \in Nat, a * b < a * c
    PROVE  b < c
<1>1. CASE c <= b
  <2>1. PICK d \in Nat : b = c + d
    BY <1>1
  <2>2. a * b = a * c + a * d /\ a * d \in Nat /\ a * c \in Nat
    BY <2>1
  <2> QED
    BY <2>2
<1> QED
  BY <1>1

\* Which of the ranges of some width a value falls into.
LEMMA RangeOfValue ==
    ASSUME NEW lo \in Nat, NEW v \in Nat, lo <= v, NEW step \in Nat \ {0}
    PROVE  \E q \in Nat : /\ lo + q * step <= v /\ v <= lo + (q + 1) * step - 1
                          /\ q * step <= v - lo
<1>1. PICK q : q = (v - lo) \div step
  OBVIOUS
<1>2. q \in Nat /\ step * q <= v - lo /\ v - lo < step * q + step
  BY <1>1, Division
<1>3. q * step = step * q /\ (q + 1) * step = step * q + step /\ step * q \in Nat
  BY <1>2
<1> QED
  BY <1>2, <1>3

\* The portions of p that hold v.
Holders(p, v) == {i \in DOMAIN p : p[i].lo <= v /\ v <= p[i].hi}

HeldOnce(p, v) == \E i \in DOMAIN p : Holders(p, v) = {i}

Pieces == {p \in Ranges : p.lo <= p.hi}

\* Ranges that start at multiples of a step and end before the next start.
LEMMA Disjoint ==
    ASSUME NEW p, DOMAIN p \subseteq Nat, NEW lo \in Nat, NEW step \in Nat \ {0},
           \A i \in DOMAIN p : p[i] \in Ranges /\ p[i].lo = lo + (i - 1) * step,
           \A i, j \in DOMAIN p : i < j => p[i].hi <= lo + i * step - 1,
           NEW v \in Nat, NEW k \in DOMAIN p, p[k].lo <= v, v <= p[k].hi
    PROVE  Holders(p, v) = {k}
<1>1. ASSUME NEW i \in DOMAIN p, NEW j \in DOMAIN p, i < j, p[j].lo <= v, v <= p[i].hi
      PROVE  FALSE
  <2>1. i \in Nat /\ j \in Nat /\ p[i].hi \in Int /\ p[i].hi <= lo + i * step - 1
    BY <1>1 DEF Ranges
  <2>2. PICK d \in Nat : d = j - 1 - i /\ j - 1 = i + d
    BY <1>1, <2>1
  <2>3. (j - 1) * step = i * step + d * step /\ d * step \in Nat /\ i * step \in Nat
    BY <2>1, <2>2
  <2>4. PICK x \in Nat, y \in Nat : x = i * step /\ y = (j - 1) * step /\ x <= y
    BY <2>3
  <2>5. lo + y <= v
    BY <1>1, <2>4
  <2>6. v <= lo + x - 1
    BY <1>1, <2>1, <2>4
  <2> QED
    BY <2>4, <2>5, <2>6
<1>2. ASSUME NEW i \in DOMAIN p, p[i].lo <= v, v <= p[i].hi, i # k
      PROVE  FALSE
  <2>1. i < k \/ k < i
    BY <1>2
  <2> QED
    BY <1>1, <1>2, <2>1
<1> QED
  BY <1>2 DEF Holders

LEMMA EvenRangesCover ==
    ASSUME NEW lo \in Nat, NEW hi \in Nat, NEW v \in lo .. hi,
           NEW total \in Nat \ {0}, NEW limit \in Nat \ {0},
           NEW p, p = Mass!EvenRanges(lo, hi, total, limit)
    PROVE  (\A i \in DOMAIN p : p[i] \in Pieces) /\ HeldOnce(p, v)
<1>1. PICK w : w = hi - lo + 1
  OBVIOUS
<1>2. w \in Nat \ {0}
  BY <1>1
<1>3. ASSUME NEW a \in Nat \ {0}, NEW b \in Nat \ {0}
      PROVE  /\ Mass!Ceiling(a, b) \in Nat \ {0}
             /\ a - 1 < b * Mass!Ceiling(a, b)
  <2>1. PICK c : c = (a + b - 1) \div b
    OBVIOUS
  <2>2. c \in Nat /\ a + b - 1 < b * c + b /\ b * c \in Nat
    <3>1. a + b - 1 \in Nat
      OBVIOUS
    <3>2. c \in Nat /\ a + b - 1 < b * c + b
      BY <2>1, <3>1, Division
    <3> QED
      BY <3>2
  <2>3. c # 0
    BY <2>2
  <2> QED
    BY <2>1, <2>2, <2>3 DEF Mass!Ceiling
<1>4. PICK n : n = IF Mass!Ceiling(total, limit) > hi - lo + 1 THEN hi - lo + 1
                   ELSE Mass!Ceiling(total, limit)
  OBVIOUS
<1>5. n \in Nat \ {0}
  BY <1>1, <1>2, <1>3, <1>4
<1>6. PICK step : step = Mass!Ceiling(hi - lo + 1, n)
  OBVIOUS
<1>7. step \in Nat \ {0}
  BY <1>1, <1>2, <1>3, <1>5, <1>6
<1>8. PICK m : m = Mass!Ceiling(hi - lo + 1, step)
  OBVIOUS
<1>9. m \in Nat \ {0} /\ w - 1 < step * m
  BY <1>1, <1>2, <1>3, <1>7, <1>8
<1>10. step * m <= w + step - 1
  <2>1. m = (w + step - 1) \div step /\ w + step - 1 \in Nat
    BY <1>1, <1>2, <1>7, <1>8 DEF Mass!Ceiling
  <2> QED
    BY <1>7, <2>1, Division
<1>11. p = [i \in 1 .. m |->
               [lo |-> lo + (i - 1) * step,
                hi |-> IF lo + i * step - 1 > hi THEN hi ELSE lo + i * step - 1]]
  BY <1>4, <1>6, <1>8 DEF Mass!EvenRanges
<1>12. ASSUME NEW i \in 1 .. m
       PROVE  p[i] \in Ranges /\ p[i].lo <= p[i].hi
  <2>1. (i - 1) * step \in Nat /\ i * step \in Nat /\ i * step = (i - 1) * step + step
    BY <1>7, <1>9
  <2>2. PICK d \in Nat : m = i + d
    BY <1>9
  <2>3. step * m = i * step + d * step /\ d * step \in Nat
    BY <1>7, <2>2
  <2>4. lo + (i - 1) * step <= hi
    BY <1>1, <1>7, <1>10, <2>1, <2>3
  <2> QED
    BY <1>7, <1>11, <2>1, <2>4 DEF Ranges
<1>13. PICK q \in Nat :
          lo + q * step <= v /\ v <= lo + (q + 1) * step - 1 /\ q * step <= v - lo
  <2>1. v \in Nat /\ lo <= v
    OBVIOUS
  <2> QED
    BY <1>7, <2>1, RangeOfValue
<1>14. q < m
  <2>1. step * q <= w - 1
    <3>1. step * q = q * step /\ q * step \in Nat
      BY <1>7
    <3> QED
      BY <1>1, <1>13, <3>1
  <2>2. step * q < step * m
    BY <1>2, <1>7, <1>9, <2>1
  <2> QED
    BY <1>7, <1>9, <2>2, Products
<1>15. q + 1 \in 1 .. m /\ (q + 1) - 1 = q
  BY <1>9, <1>14
<1>16. p[q + 1].lo <= v /\ v <= p[q + 1].hi
  BY <1>11, <1>13, <1>15
<1>17. \A i, j \in DOMAIN p : i < j => p[i].hi <= lo + i * step - 1
  <2>1. \A i \in 1 .. m : i * step \in Nat
    BY <1>7
  <2> QED
    BY <1>11, <2>1
<1>18. DOMAIN p = 1 .. m /\ \A i \in DOMAIN p : p[i] \in Ranges /\ p[i].lo = lo + (i - 1) * step
  BY <1>11, <1>12
<1>19. DOMAIN p \subseteq Nat /\ q + 1 \in DOMAIN p /\ v \in Nat
  BY <1>15, <1>18
<1>20. Holders(p, v) = {q + 1}
  BY <1>7, <1>16, <1>17, <1>18, <1>19, Disjoint
<1> QED
  BY <1>12, <1>18, <1>19, <1>20 DEF HeldOnce, Pieces

LEMMA RangesOfJobsCover ==
    ASSUME NEW lo \in Nat, NEW hi \in Nat, NEW v \in lo .. hi, NEW n \in Nat \ {0},
           NEW p, p = Mass!RangesOfJobs(lo, hi, n)
    PROVE  (\A i \in DOMAIN p : p[i] \in Pieces) /\ HeldOnce(p, v)
<1>1. PICK half : half = (2 * (hi - lo + 1) + n) \div (2 * n)
  OBVIOUS
<1>2. half \in Nat
  <2>1. 2 * (hi - lo + 1) + n \in Nat /\ 2 * n \in Nat \ {0}
    OBVIOUS
  <2> QED
    BY <1>1, <2>1, Division
<1>3. PICK step : step = IF half < 1 THEN 1 ELSE half
  OBVIOUS
<1>4. step \in Nat \ {0}
  BY <1>2, <1>3
<1>5. PICK all : all = Mass!RangePerJob(lo, hi, n)
  OBVIOUS
<1>6. all = [i \in 1 .. n |-> [lo |-> lo + (i - 1) * step,
                               hi |-> IF i < n THEN lo + i * step - 1 ELSE hi]]
  BY <1>1, <1>3, <1>5 DEF Mass!RangePerJob
<1>8. p = [i \in {i \in 1 .. n : all[i].lo <= hi} |-> all[i]]
  BY <1>5 DEF Mass!RangesOfJobs
<1>9. ASSUME NEW i \in 1 .. n
      PROVE  all[i] \in Ranges
  <2>1. (i - 1) * step \in Int /\ i * step \in Int
    BY <1>4
  <2> QED
    BY <1>6, <2>1 DEF Ranges
<1>10. PICK q \in Nat :
          lo + q * step <= v /\ v <= lo + (q + 1) * step - 1 /\ q * step <= v - lo
  <2>1. v \in Nat /\ lo <= v
    OBVIOUS
  <2> QED
    BY <1>4, <2>1, RangeOfValue
<1>13. \A i \in DOMAIN p : /\ i \in 1 .. n /\ p[i] = all[i] /\ p[i] \in Ranges
                           /\ p[i].lo = lo + (i - 1) * step /\ p[i].lo <= hi
  <2>1. DOMAIN p = {i \in 1 .. n : all[i].lo <= hi} /\ \A i \in DOMAIN p : p[i] = all[i]
    BY <1>8
  <2>2. \A i \in 1 .. n : all[i].lo = lo + (i - 1) * step
    BY <1>6
  <2> QED
    BY <1>9, <2>1, <2>2
<1>14. ASSUME NEW i \in DOMAIN p
       PROVE  /\ p[i].lo <= p[i].hi
              /\ i < n => p[i].hi <= lo + i * step - 1
  <2>1. /\ (i - 1) * step \in Nat /\ i * step \in Nat /\ i * step = (i - 1) * step + step
    BY <1>4, <1>13
  <2>2. p[i].hi = IF i < n THEN lo + i * step - 1 ELSE hi
    <3>1. i \in 1 .. n /\ p[i] = all[i]
      BY <1>13
    <3>2. all[i].hi = IF i < n THEN lo + i * step - 1 ELSE hi
      BY <1>6, <3>1
    <3> QED
      BY <3>1, <3>2
  <2>3. PICK x \in Nat, y \in Nat : x = (i - 1) * step /\ y = i * step /\ y = x + step
    BY <2>1
  <2>4. p[i].lo = lo + x /\ p[i].lo <= hi
    BY <1>13, <2>3
  <2>5. p[i].hi = IF i < n THEN lo + y - 1 ELSE hi
    BY <2>2, <2>3
  <2>6. i < n => p[i].hi <= lo + y - 1
    BY <2>3, <2>5
  <2>7. p[i].lo <= p[i].hi
    BY <1>4, <2>3, <2>4, <2>5
  <2> QED
    BY <2>3, <2>6, <2>7
<1>15. \A i, j \in DOMAIN p : i < j => p[i].hi <= lo + i * step - 1
  <2>1. \A i, j \in DOMAIN p : i < j => i < n
    BY <1>13
  <2> QED
    BY <1>14, <2>1
<1>16. ASSUME NEW k \in 1 .. n, all[k].lo <= v, v <= all[k].hi, all[k].lo <= hi
       PROVE  HeldOnce(p, v)
  <2>1. k \in DOMAIN p /\ p[k] = all[k] /\ v \in Nat /\ DOMAIN p \subseteq Nat
    BY <1>8, <1>13, <1>16
  <2>2. p[k].lo <= v /\ v <= p[k].hi
    BY <1>16, <2>1
  <2>3. Holders(p, v) = {k}
    BY <1>4, <1>13, <1>15, <2>1, <2>2, Disjoint
  <2> QED
    BY <2>1, <2>3 DEF HeldOnce
<1>17. \A i \in DOMAIN p : p[i] \in Pieces
  BY <1>13, <1>14 DEF Pieces
<1>11. CASE q + 1 < n
  <2>1. q + 1 \in 1 .. n /\ (q + 1) - 1 = q
    BY <1>11
  <2>2. all[q + 1].lo <= v /\ v <= all[q + 1].hi
    BY <1>6, <1>10, <1>11, <2>1
  <2>3. all[q + 1].lo <= hi
    BY <1>9, <2>1, <2>2 DEF Ranges
  <2> QED
    BY <1>16, <1>17, <2>1, <2>2, <2>3
<1>12. CASE n <= q + 1
  <2>1. PICK d \in Nat : q = (n - 1) + d
    BY <1>12
  <2>2. q * step = (n - 1) * step + d * step /\ d * step \in Nat /\ (n - 1) * step \in Nat
    BY <1>4, <2>1
  <2>3. all[n].lo <= v /\ v <= all[n].hi /\ all[n].lo <= hi
    BY <1>6, <1>10, <2>2
  <2>4. n \in 1 .. n
    OBVIOUS
  <2> QED
    BY <1>16, <1>17, <2>3, <2>4
<1> QED
  BY <1>11, <1>12

-------------------------------------------------------------------------------
(* Cuts that are made one after the other, each from where the last ended.  *)

\* f cuts from each x of D: nothing from stop on, else a piece, and on from next[x].
IsChain(f, D, stop, next, piece) ==
    f = [x \in D |-> IF stop <= x THEN <<>> ELSE <<piece[x]>> \o f[next[x]]]

IsRoad(D, stop, next, piece) ==
    /\ D \subseteq Nat /\ stop \in Nat
    /\ \A x \in D : x < stop => next[x] \in D /\ x < next[x] /\ piece[x] \in Pieces

\* The equation of f has a solution.
LEMMA ChainExists ==
    ASSUME NEW D, NEW stop, NEW next, NEW piece, IsRoad(D, stop, next, piece)
    PROVE  \E f : IsChain(f, D, stop, next, piece)
<1> DEFINE Value(f, x) == IF stop <= x THEN <<>> ELSE <<piece[x]>> \o f[next[x]]
           Solves(f, k) == f = [x \in D |-> f[x]] /\ \A x \in D : stop <= x + k => f[x] = Value(f, x)
           Bad == {k \in Nat : ~ \E f : Solves(f, k)}
<1>1. /\ stop \in Nat /\ \A x \in D : x \in Nat
      /\ \A x \in D : x < stop => next[x] \in D /\ x < next[x]
  BY DEF IsRoad
<1>2. ASSUME NEW k \in Nat, NEW f, Solves(f, k)
      PROVE  \E g : Solves(g, k + 1)
  <2>1. PICK g : g = [x \in D |-> IF stop <= x + k THEN f[x] ELSE Value(f, x)]
    OBVIOUS
  <2>2. ASSUME NEW x \in D, stop <= x + (k + 1)
        PROVE  g[x] = Value(g, x)
    <3>1. CASE stop <= x
      <4>1. stop <= x + k /\ ~(x + k < stop)
        BY <1>1, <3>1
      <4>2. g[x] = f[x] /\ f[x] = Value(f, x)
        BY <1>2, <2>1, <4>1
      <4> QED
        BY <3>1, <4>2
    <3>2. CASE x < stop
      <4>1. next[x] \in D /\ stop <= next[x] + k
        <5>1. PICK y \in D : y = next[x] /\ x < y
          BY <1>1, <3>2
        <5>2. x \in Nat /\ y \in Nat /\ stop <= y + k
          BY <1>1, <2>2, <5>1
        <5> QED
          BY <5>1, <5>2
      <4>2. g[next[x]] = f[next[x]]
        BY <2>1, <4>1
      <4>3. g[x] = Value(f, x)
        BY <1>2, <2>1
      <4> QED
        BY <1>1, <3>2, <4>2, <4>3
    <3> QED
      BY <1>1, <3>1, <3>2
  <2> QED
    BY <2>1, <2>2
<1>3. \E f : Solves(f, 0)
  <2>1. PICK f : f = [x \in D |-> <<>>]
    OBVIOUS
  <2>2. Solves(f, 0)
    BY <1>1, <2>1
  <2> QED
    BY <2>2
<1>4. Bad = {}
  <2>1. SUFFICES ASSUME Bad # {} PROVE FALSE
    OBVIOUS
  <2>2. PICK n \in Bad : \A m \in Bad : n <= m
    <3>1. Bad \in SUBSET Nat
      OBVIOUS
    <3> HIDE DEF Bad
    <3> QED
      BY <2>1, <3>1, LeastExists
  <2>3. n \in Nat /\ ~ \E f : Solves(f, n)
    BY <2>2
  <2>4. n # 0
    BY <1>3, <2>3
  <2>5. n - 1 \in Nat /\ (n - 1) + 1 = n /\ ~(n <= n - 1)
    BY <2>3, <2>4
  <2>6. n - 1 \notin Bad
    BY <2>2, <2>5
  <2>7. PICK f : Solves(f, n - 1)
    BY <2>5, <2>6
  <2>8. \E g : Solves(g, (n - 1) + 1)
    <3> HIDE DEF Solves, Bad
    <3> QED
      BY <1>2, <2>5, <2>7
  <2> QED
    BY <2>3, <2>5, <2>8
<1>5. stop \notin Bad
  BY <1>4
<1>6. PICK f : Solves(f, stop)
  BY <1>1, <1>5
<1>7. \A x \in D : stop <= x + stop
  BY <1>1
<1>8. f = [x \in D |-> Value(f, x)]
  BY <1>6, <1>7
<1> QED
  BY <1>8 DEF IsChain

\* What begins with one piece.
LEMMA Behind ==
    ASSUME NEW r, NEW S, NEW s \in Seq(S), r \in S, NEW t, t = <<r>> \o s
    PROVE  /\ t \in Seq(S) /\ DOMAIN t = 1 .. Len(s) + 1 /\ t[1] = r
           /\ \A i \in 1 .. Len(s) : t[i + 1] = s[i]
           /\ \A i \in DOMAIN t : i = 1 \/ (i - 1 \in 1 .. Len(s) /\ t[i] = s[i - 1])
<1>1. <<r>> \in Seq(S) /\ Len(<<r>>) = 1 /\ <<r>>[1] = r
  OBVIOUS
<1>2. /\ t \in Seq(S) /\ Len(t) = 1 + Len(s)
      /\ \A i \in 1 .. 1 + Len(s) : t[i] = IF i <= 1 THEN <<r>>[i] ELSE s[i - 1]
  BY <1>1, ConcatProperties
<1>3. Len(s) \in Nat /\ DOMAIN t = 1 .. Len(s) + 1
  BY <1>2, LenProperties
<1>4. t[1] = r
  BY <1>1, <1>2, <1>3
<1>5. ASSUME NEW i \in 1 .. Len(s) PROVE t[i + 1] = s[i]
  <2>1. i + 1 \in 1 .. 1 + Len(s) /\ ~(i + 1 <= 1) /\ (i + 1) - 1 = i
    BY <1>3
  <2> QED
    BY <1>2, <2>1
<1>6. ASSUME NEW i \in DOMAIN t, i # 1 PROVE i - 1 \in 1 .. Len(s) /\ t[i] = s[i - 1]
  <2>1. i \in 1 .. 1 + Len(s) /\ ~(i <= 1) /\ i - 1 \in 1 .. Len(s)
    BY <1>3, <1>6
  <2> QED
    BY <1>2, <2>1
<1> QED
  BY <1>2, <1>3, <1>4, <1>5, <1>6

\* The pieces that hold the value v are those from at most u to beyond u.
Belongs(D, stop, next, piece, u, v) ==
    \A x \in D : x < stop =>
       (piece[x].lo <= v /\ v <= piece[x].hi <=> x <= u /\ u < next[x])

\* A chain that starts at x, not behind u.
LeadsTo(f, D, stop, next, piece, x, u, v) ==
    /\ IsRoad(D, stop, next, piece) /\ IsChain(f, D, stop, next, piece)
    /\ u \in Nat /\ u < stop /\ v \in Int /\ Belongs(D, stop, next, piece, u, v)
    /\ x \in D /\ x <= u

\* Then one of its pieces holds the value, and only one.
LEMMA ChainCovers ==
    ASSUME NEW D, NEW stop, NEW next, NEW piece, NEW f, NEW u, NEW v, NEW first,
           LeadsTo(f, D, stop, next, piece, first, u, v)
    PROVE  f[first] \in Seq(Pieces) /\ HeldOnce(f[first], v)
<1>0. /\ IsRoad(D, stop, next, piece) /\ IsChain(f, D, stop, next, piece)
      /\ u \in Nat /\ u < stop /\ v \in Int /\ Belongs(D, stop, next, piece, u, v)
      /\ first \in D /\ first <= u
  BY DEF LeadsTo
<1> DEFINE Right(x) == /\ f[x] \in Seq(Pieces)
                       /\ u < x => Holders(f[x], v) = {}
                       /\ x <= u => HeldOnce(f[x], v)
           Wrong == {k \in Nat : \E x \in D : stop <= x + k /\ ~Right(x)}
<1>1. /\ D \subseteq Nat /\ stop \in Nat /\ \A x \in D : x \in Nat
      /\ \A x \in D : x < stop => next[x] \in D /\ x < next[x] /\ piece[x] \in Pieces
  BY <1>0 DEF IsRoad
<1>2. /\ \A x \in D : stop <= x => f[x] = <<>>
      /\ \A x \in D : ~(stop <= x) => f[x] = <<piece[x]>> \o f[next[x]]
  BY <1>0 DEF IsChain
<1>3. ASSUME NEW x \in D, stop <= x
      PROVE  Right(x)
  <2>1. f[x] = <<>> /\ u < x
    BY <1>0, <1>1, <1>2, <1>3
  <2>2. Holders(f[x], v) = {} /\ f[x] \in Seq(Pieces) /\ ~(x <= u)
    BY <1>0, <1>1, <2>1 DEF Holders
  <2> QED
    BY <2>1, <2>2
<1>4. ASSUME NEW x \in D, x < stop, Right(next[x])
      PROVE  Right(x)
  <2>1. PICK y \in D : y = next[x] /\ x < y
    BY <1>1, <1>4
  <2>2. PICK t : t = f[x]
    OBVIOUS
  <2>3. PICK s : s = f[y]
    OBVIOUS
  <2>4. t = <<piece[x]>> \o s /\ s \in Seq(Pieces) /\ piece[x] \in Pieces
    <3>1. ~(stop <= x)
      BY <1>1, <1>4
    <3>2. t = <<piece[x]>> \o s
      BY <1>2, <2>1, <2>2, <2>3, <3>1
    <3>3. s \in Seq(Pieces) /\ piece[x] \in Pieces
      BY <1>1, <1>4, <2>1, <2>3
    <3> QED
      BY <3>2, <3>3
  <2>5. /\ t \in Seq(Pieces) /\ DOMAIN t = 1 .. Len(s) + 1 /\ t[1] = piece[x]
        /\ \A i \in 1 .. Len(s) : t[i + 1] = s[i]
        /\ \A i \in DOMAIN t : i = 1 \/ (i - 1 \in 1 .. Len(s) /\ t[i] = s[i - 1])
    BY <2>4, Behind
  <2>6. DOMAIN s = 1 .. Len(s) /\ Len(s) \in Nat
    BY <2>4, LenProperties
  <2>7. 1 \in Holders(t, v) <=> x <= u /\ u < y
    BY <1>0, <1>4, <2>1, <2>5, <2>6 DEF Holders, Belongs
  <2>8. \A i \in 1 .. Len(s) : i + 1 \in Holders(t, v) <=> i \in Holders(s, v)
    BY <2>5, <2>6 DEF Holders
  <2>9. \A i \in Holders(t, v) : i = 1 \/ i - 1 \in Holders(s, v)
    BY <2>5, <2>6 DEF Holders
  <2>10. x \in Nat /\ y \in Nat /\ u \in Nat
    BY <1>0, <1>1
  <2>11. Holders(s, v) \subseteq 1 .. Len(s)
    BY <2>6 DEF Holders
  <2>12. CASE y <= u
    <3>1. PICK i \in 1 .. Len(s) : Holders(s, v) = {i}
      BY <1>4, <2>1, <2>3, <2>6, <2>12 DEF HeldOnce
    <3>2. 1 \notin Holders(t, v) /\ i + 1 \in Holders(t, v) /\ x <= u
      BY <2>1, <2>7, <2>8, <2>10, <2>12, <3>1
    <3>3. \A j \in Holders(t, v) : j = i + 1
      <4>1. ASSUME NEW j \in Holders(t, v) PROVE j = i + 1
        <5>1. j - 1 = i /\ j \in DOMAIN t
          BY <2>9, <3>1, <3>2 DEF Holders
        <5> QED
          BY <2>5, <2>6, <5>1
      <4> QED
        BY <4>1
    <3>4. Holders(t, v) = {i + 1} /\ i + 1 \in DOMAIN t
      BY <2>5, <2>6, <3>2, <3>3
    <3>5. ~(u < x) /\ t \in Seq(Pieces) /\ HeldOnce(t, v)
      <4>1. ~(u < x)
        BY <2>10, <3>2
      <4>2. HeldOnce(t, v)
        BY <3>4 DEF HeldOnce
      <4> QED
        BY <2>5, <4>1, <4>2
    <3> QED
      BY <2>2, <3>5
  <2>13. CASE u < y
    <3>1. Holders(s, v) = {}
      BY <1>4, <2>1, <2>3, <2>13
    <3>2. \A j \in Holders(t, v) : j = 1
      BY <2>9, <3>1
    <3>3. u < x => Holders(t, v) = {}
      BY <2>7, <2>10, <3>2
    <3>4. x <= u => HeldOnce(t, v)
      BY <2>5, <2>6, <2>7, <2>13, <3>2 DEF HeldOnce
    <3> QED
      BY <2>2, <2>5, <3>3, <3>4
  <2> QED
    BY <2>10, <2>12, <2>13
<1>5. Wrong = {}
  <2>1. SUFFICES ASSUME Wrong # {} PROVE FALSE
    OBVIOUS
  <2>2. PICK n \in Wrong : \A m \in Wrong : n <= m
    <3>1. Wrong \in SUBSET Nat
      OBVIOUS
    <3> HIDE DEF Wrong
    <3> QED
      BY <2>1, <3>1, LeastExists
  <2>3. n \in Nat
    BY <2>2
  <2>4. PICK x \in D : stop <= x + n /\ ~Right(x)
    <3> HIDE DEF Right
    <3> QED
      BY <2>2
  <2> HIDE DEF Right
  <2>5. x \in Nat /\ x < stop
    BY <1>1, <1>3, <2>4
  <2>6. PICK y \in D : y = next[x] /\ x < y /\ y \in Nat
    BY <1>1, <2>5
  <2>7. ~Right(y)
    BY <1>4, <2>4, <2>5, <2>6
  <2>8. n # 0 /\ n - 1 \in Nat /\ stop <= y + (n - 1) /\ ~(n <= n - 1)
    BY <1>1, <2>3, <2>4, <2>5, <2>6
  <2>9. n - 1 \in Wrong
    BY <2>7, <2>8
  <2> QED
    BY <2>2, <2>8, <2>9
<1>6. Right(first)
  <2>1. stop \in Nat /\ stop <= first + stop /\ first \in Nat
    BY <1>0, <1>1
  <2>2. stop \notin Wrong
    BY <1>5
  <2> HIDE DEF Right
  <2> QED
    BY <1>0, <2>1, <2>2
<1> QED
  BY <1>0, <1>6

LEMMA NextDateIsLater ==
    ASSUME NEW date \in Nat, NEW unit
    PROVE  Mass!NextDate(date, unit) \in Nat /\ date < Mass!NextDate(date, unit)
<1>1. PICK y \in Nat : y = date \div 10000
  OBVIOUS
<1>2. PICK m \in Nat : m = (date \div 100) % 100
  OBVIOUS
<1>3. PICK d \in Nat : d = date % 100
  OBVIOUS
<1>4. date = 10000 * y + 100 * m + d /\ m < 100 /\ d < 100
  BY <1>1, <1>2, <1>3
<1>5. PICK month : month = IF m = Len(Days) THEN Mass!Date(y + 1, 1, 1) ELSE Mass!Date(y, m + 1, 1)
  OBVIOUS
<1>6. month \in Nat /\ date < month
  BY <1>4, <1>5 DEF Mass!Date
<1>7. Mass!Date(y + 1, 1, 1) \in Nat /\ date < Mass!Date(y + 1, 1, 1)
  BY <1>4 DEF Mass!Date
<1>8. Mass!NextDate(date, unit) = CASE unit = "day" /\ d < Days[m] -> date + 1
                                    [] unit = "year" -> Mass!Date(y + 1, 1, 1)
                                    [] OTHER -> month
  BY <1>1, <1>2, <1>3, <1>5 DEF Mass!NextDate
<1>9. Mass!NextDate(date, unit) \in {date + 1, Mass!Date(y + 1, 1, 1), month}
  <2>1. CASE unit = "day" /\ d < Days[m]
    <3>1. unit # "year"
      BY <2>1
    <3> QED
      BY <1>8, <2>1, <3>1
  <2>2. CASE ~(unit = "day" /\ d < Days[m]) /\ unit = "year"
    BY <1>8, <2>2
  <2>3. CASE ~(unit = "day" /\ d < Days[m]) /\ unit # "year"
    BY <1>8, <2>3
  <2> QED
    BY <2>1, <2>2, <2>3
<1> QED
  BY <1>6, <1>7, <1>9

LEMMA ByTimeCovers ==
    ASSUME NEW first \in Nat, NEW to \in Nat, NEW unit, NEW p, p = Mass!ByTime(first, to, unit)
    PROVE  /\ p \in Seq(Pieces)
           /\ \A v \in Nat : first <= v /\ v < to => HeldOnce(p, v)
<1>1. PICK next : next = [x \in Nat |-> Mass!NextDate(x, unit)]
  OBVIOUS
<1>2. PICK piece : piece = [x \in Nat |-> [lo |-> x, hi |-> (IF next[x] < to THEN next[x] ELSE to) - 1]]
  OBVIOUS
<1>3. \A x \in Nat : next[x] \in Nat /\ x < next[x]
  BY <1>1, NextDateIsLater
<1>4. ASSUME NEW x \in Nat, x < to
      PROVE  /\ piece[x] \in Pieces
             /\ \A v \in Nat : v < to =>
                   (piece[x].lo <= v /\ v <= piece[x].hi <=> x <= v /\ v < next[x])
  <2>1. PICK y \in Nat : y = next[x] /\ x < y
    BY <1>3
  <2>2. piece[x] = [lo |-> x, hi |-> (IF y < to THEN y ELSE to) - 1]
    BY <1>2, <2>1
  <2>3. piece[x] \in Ranges
    BY <2>1, <2>2 DEF Ranges
  <2> QED
    BY <1>4, <2>1, <2>2, <2>3 DEF Pieces
<1>5. IsRoad(Nat, to, next, piece)
  BY <1>3, <1>4 DEF IsRoad
<1>6. PICK f : f = CHOOSE cuts : IsChain(cuts, Nat, to, next, piece)
  OBVIOUS
<1>7. IsChain(f, Nat, to, next, piece)
  BY <1>5, <1>6, ChainExists
<1>8. p = f[first]
  <2>1. \A x \in Nat : to <= x <=> x >= to
    OBVIOUS
  <2>2. p = (CHOOSE cuts : cuts = [from \in Nat |->
                IF from >= to THEN <<>>
                ELSE <<[lo |-> from, hi |-> (IF Mass!NextDate(from, unit) < to
                                             THEN Mass!NextDate(from, unit) ELSE to) - 1]>>
                       \o cuts[Mass!NextDate(from, unit)]])[first]
    BY DEF Mass!ByTime
  <2>3. ASSUME NEW cuts
        PROVE  [from \in Nat |->
                  IF from >= to THEN <<>>
                  ELSE <<[lo |-> from, hi |-> (IF Mass!NextDate(from, unit) < to
                                               THEN Mass!NextDate(from, unit) ELSE to) - 1]>>
                         \o cuts[Mass!NextDate(from, unit)]]
               = [x \in Nat |-> IF to <= x THEN <<>> ELSE <<piece[x]>> \o cuts[next[x]]]
    <3>1. ASSUME NEW x \in Nat
          PROVE  next[x] = Mass!NextDate(x, unit)
                 /\ piece[x] = [lo |-> x, hi |-> (IF Mass!NextDate(x, unit) < to
                                                  THEN Mass!NextDate(x, unit) ELSE to) - 1]
      BY <1>1, <1>2
    <3> QED
      BY <2>1, <3>1
  <2> QED
    BY <1>6, <2>2, <2>3 DEF IsChain
<1>9. CASE first < to
  <2>1. ASSUME NEW v \in Nat, first <= v, v < to
        PROVE  p \in Seq(Pieces) /\ HeldOnce(p, v)
    <3>1. \A x \in Nat : x < to =>
             (piece[x].lo <= v /\ v <= piece[x].hi <=> x <= v /\ v < next[x])
      BY <1>4, <2>1
    <3>2. Belongs(Nat, to, next, piece, v, v)
      BY <2>1, <3>1 DEF Belongs
    <3>3. LeadsTo(f, Nat, to, next, piece, first, v, v)
      BY <1>5, <1>7, <2>1, <3>2 DEF LeadsTo
    <3> QED
      BY <1>8, <3>3, ChainCovers
  <2>2. p \in Seq(Pieces)
    BY <1>9, <2>1
  <2> QED
    BY <2>1, <2>2
<1>10. CASE ~(first < to)
  <2>1. f[first] = <<>>
    <3>1. to <= first
      BY <1>10
    <3> QED
      BY <1>7, <3>1 DEF IsChain
  <2>2. <<>> \in Seq(Pieces)
    OBVIOUS
  <2> QED
    BY <1>8, <1>10, <2>1, <2>2
<1> QED
  BY <1>9, <1>10

LEMMA LastBucketIsBehind ==
    ASSUME NEW hist, Len(hist) \in Nat, NEW limit, NEW from \in 1 .. Len(hist)
    PROVE  Mass!LastBucket(hist, limit, from) \in from .. Len(hist)
<1>1. PICK T : /\ Mass!LastBucket(hist, limit, from) = Mass!Greatest(T)
               /\ T \subseteq from .. Len(hist) /\ from \in T
  <2>1. PICK sum : sum = CHOOSE s : s = [i \in from .. Len(hist) |->
                                    hist[i].rows + (IF i = from THEN 0 ELSE s[i - 1])]
    OBVIOUS
  <2>2. PICK T : T = {from} \cup {i \in from + 1 .. Len(hist) :
                                     \A j \in from + 1 .. i : sum[j] <= limit}
    OBVIOUS
  <2>3. Mass!LastBucket(hist, limit, from) = Mass!Greatest(T)
    BY <2>1, <2>2 DEF Mass!LastBucket
  <2>4. T \subseteq from .. Len(hist) /\ from \in T
    BY <2>2
  <2> QED
    BY <2>3, <2>4
<1>2. T \in SUBSET (0 .. Len(hist)) /\ T # {}
  BY <1>1
<1>3. PICK x \in T : \A y \in T : y <= x
  BY <1>2, GreatestExists
<1>4. x \in T /\ \A y \in T : x >= y
  BY <1>2, <1>3
<1>5. Mass!Greatest(T) \in T
  BY <1>4 DEF Mass!Greatest
<1> QED
  BY <1>1, <1>5

\* A histogram whose buckets begin at 10, 20, ...
LEMMA ByBucketsCovers ==
    ASSUME NEW hist, Len(hist) \in Nat \ {0}, \A i \in 1 .. Len(hist) : hist[i].value = 10 * i,
           NEW limit, NEW p, p = Mass!ByBuckets(hist, limit)
    PROVE  /\ p \in Seq(Pieces)
           /\ \A u \in 1 .. Len(hist) : HeldOnce(p, 10 * u)
<1>1. PICK n \in Nat \ {0} : n = Len(hist)
  OBVIOUS
<1>2. PICK D : D = 1 .. n + 1
  OBVIOUS
<1>3. PICK to : to = [x \in D |-> Mass!LastBucket(hist, limit, x)]
  OBVIOUS
<1>4. PICK next : next = [x \in D |-> to[x] + 1]
  OBVIOUS
<1>5. PICK piece : piece = [x \in D |-> [lo |-> hist[x].value, hi |-> hist[to[x]].value]]
  OBVIOUS
<1>6. ASSUME NEW x \in D, x < n + 1
      PROVE  /\ next[x] \in D /\ x < next[x] /\ piece[x] \in Pieces
             /\ \A u \in Nat : piece[x].lo <= 10 * u /\ 10 * u <= piece[x].hi
                                  <=> x <= u /\ u < next[x]
  <2>1. x \in 1 .. n
    BY <1>2, <1>6
  <2>2. PICK y \in x .. n : y = to[x]
    BY <1>1, <1>3, <2>1, LastBucketIsBehind
  <2>3. hist[x].value = 10 * x /\ hist[y].value = 10 * y /\ y \in Nat
    BY <1>1, <2>1, <2>2
  <2>4. piece[x] = [lo |-> 10 * x, hi |-> 10 * y] /\ next[x] = y + 1
    BY <1>4, <1>5, <2>2, <2>3
  <2>5. next[x] \in D /\ x < next[x]
    BY <1>2, <2>1, <2>2, <2>4
  <2>6. piece[x] \in Ranges
    BY <2>1, <2>3, <2>4 DEF Ranges
  <2> QED
    BY <2>1, <2>2, <2>4, <2>5, <2>6 DEF Pieces
<1>7. IsRoad(D, n + 1, next, piece)
  BY <1>2, <1>6 DEF IsRoad
<1>8. PICK f : f = CHOOSE cuts : IsChain(cuts, D, n + 1, next, piece)
  OBVIOUS
<1>9. IsChain(f, D, n + 1, next, piece)
  BY <1>7, <1>8, ChainExists
<1>10. p = f[1]
  <2>1. p = (CHOOSE cuts : cuts = [from \in 1 .. Len(hist) + 1 |->
                IF from > Len(hist) THEN <<>>
                ELSE <<[lo |-> hist[from].value,
                        hi |-> hist[Mass!LastBucket(hist, limit, from)].value]>>
                       \o cuts[Mass!LastBucket(hist, limit, from) + 1]])[1]
    BY DEF Mass!ByBuckets
  <2>2. ASSUME NEW cuts
        PROVE  [from \in 1 .. Len(hist) + 1 |->
                  IF from > Len(hist) THEN <<>>
                  ELSE <<[lo |-> hist[from].value,
                          hi |-> hist[Mass!LastBucket(hist, limit, from)].value]>>
                         \o cuts[Mass!LastBucket(hist, limit, from) + 1]]
               = [x \in D |-> IF n + 1 <= x THEN <<>> ELSE <<piece[x]>> \o cuts[next[x]]]
    <3>1. \A x \in D : n + 1 <= x <=> x > Len(hist)
      BY <1>1, <1>2
    <3>2. ASSUME NEW x \in D
          PROVE  /\ next[x] = Mass!LastBucket(hist, limit, x) + 1
                 /\ piece[x] = [lo |-> hist[x].value,
                                hi |-> hist[Mass!LastBucket(hist, limit, x)].value]
      BY <1>3, <1>4, <1>5
    <3> QED
      BY <1>1, <1>2, <3>1, <3>2
  <2> QED
    BY <1>8, <2>1, <2>2 DEF IsChain
<1>11. ASSUME NEW u \in 1 .. n
       PROVE  p \in Seq(Pieces) /\ HeldOnce(p, 10 * u)
  <2>1. u \in Nat /\ u < n + 1 /\ 10 * u \in Int /\ 1 \in D /\ 1 <= u
    BY <1>1, <1>2
  <2>2. \A x \in D : x < n + 1 =>
          (piece[x].lo <= 10 * u /\ 10 * u <= piece[x].hi <=> x <= u /\ u < next[x])
    BY <1>6, <2>1
  <2>3. PICK v \in Int : v = 10 * u
    BY <2>1
  <2>4. \A x \in D : x < n + 1 =>
          (piece[x].lo <= v /\ v <= piece[x].hi <=> x <= u /\ u < next[x])
    BY <2>2, <2>3
  <2>5. Belongs(D, n + 1, next, piece, u, v)
    BY <2>4 DEF Belongs
  <2>6. LeadsTo(f, D, n + 1, next, piece, 1, u, v)
    BY <1>7, <1>9, <2>1, <2>3, <2>5 DEF LeadsTo
  <2>7. f[1] \in Seq(Pieces) /\ HeldOnce(f[1], v)
    BY <2>6, ChainCovers
  <2> QED
    BY <1>10, <2>3, <2>7
<1>12. p \in Seq(Pieces)
  BY <1>1, <1>11
<1> QED
  BY <1>1, <1>11, <1>12

-------------------------------------------------------------------------------
(* What the steps of a load read.                                           *)

LEMMA SameCount == \A S : Mass!Cardinality(S) = Cardinality(S)
BY DEF Mass!Cardinality, Cardinality

LEMMA SourceFacts ==
    ASSUME Mass!LoadAssumption, mSource \in Tables
    PROVE  /\ mSource # {} /\ mSource \subseteq Nat /\ IsFiniteSet(mSource)
           /\ \E b \in Nat : mSource \subseteq 0 .. b
<1>1. PICK a \in mSource, b \in mSource : a \in Nat /\ b \in Nat /\ mSource \subseteq a .. b
  BY DEF Mass!LoadAssumption
<1>2. IsFiniteSet(mSource)
  <2>1. a \in Int /\ b \in Int /\ mSource \in SUBSET (a .. b)
    BY <1>1
  <2>2. IsFiniteSet(a .. b)
    BY <2>1, FS_Interval
  <2> QED
    BY <2>1, <2>2, FS_Subset
<1>3. a .. b \subseteq 0 .. b
  BY <1>1
<1> QED
  BY <1>1, <1>2, <1>3

\* However the load is cut, each value between the least and the
\* greatest of its source, and so each row, is in one portion.
LEMMA SplitCovers ==
    ASSUME Mass!LoadAssumption, mSource \in Tables, NEW s \in Mass!PlanSplit
    PROVE  /\ \A i \in DOMAIN s.p : s.p[i] \in Pieces
           /\ \A v \in s.of : HeldOnce(s.p, v)
           /\ mSource \subseteq s.of
<1>1. PICK lo : lo = Mass!Least(mSource)
  OBVIOUS
<1>2. PICK hi : hi = Mass!Greatest(mSource)
  OBVIOUS
<1>3. PICK total : total = Mass!Cardinality(mSource)
  OBVIOUS
<1>4. lo \in mSource /\ hi \in mSource /\ \A v \in mSource : lo <= v /\ v <= hi
  <2>1. PICK b \in Nat : mSource \in SUBSET (0 .. b) /\ mSource # {} /\ mSource \in SUBSET Nat
    BY SourceFacts
  <2>2. PICK x \in mSource : \A y \in mSource : x <= y
    BY <2>1, LeastExists
  <2>3. PICK z \in mSource : \A y \in mSource : y <= z
    BY <2>1, GreatestExists
  <2>4. \A y \in mSource : z >= y
    BY <2>1, <2>3
  <2>5. lo \in mSource /\ \A y \in mSource : lo <= y
    BY <1>1, <2>2 DEF Mass!Least
  <2>6. hi \in mSource /\ \A y \in mSource : hi >= y
    BY <1>2, <2>3, <2>4 DEF Mass!Greatest
  <2> QED
    BY <2>1, <2>5, <2>6
<1>5. lo \in Nat /\ hi \in Nat /\ \A v \in mSource : v \in lo .. hi
  BY <1>4, SourceFacts
<1>6. total \in Nat \ {0}
  <2>1. total = Cardinality(mSource)
    BY <1>3, SameCount
  <2> QED
    BY <2>1, SourceFacts, FS_CardinalityType, FS_EmptySet
<1>7. \/ \E limit \in Limits : s = [p |-> Mass!EvenRanges(lo, hi, total, limit), of |-> lo .. hi]
      \/ \E n \in Limits : s = [p |-> Mass!RangesOfJobs(lo, hi, n), of |-> lo .. hi]
  <2>1. \/ \E limit \in Limits :
              s = [p |-> Mass!EvenRanges(Mass!Least(mSource), Mass!Greatest(mSource),
                                         Mass!Cardinality(mSource), limit),
                   of |-> Mass!Least(mSource) .. Mass!Greatest(mSource)]
        \/ \E n \in Limits :
              s = [p |-> Mass!RangesOfJobs(Mass!Least(mSource), Mass!Greatest(mSource), n),
                   of |-> Mass!Least(mSource) .. Mass!Greatest(mSource)]
    BY DEF Mass!PlanSplit
  <2> QED
    BY <1>1, <1>2, <1>3, <2>1
<1>8. Limits \subseteq Nat \ {0}
  BY DEF Mass!LoadAssumption
<1>9. PICK p : p = s.p
  OBVIOUS
<1>10. lo \in lo .. hi
  BY <1>4, <1>5
<1>11. s.of = lo .. hi
  BY <1>7
<1>12. CASE \E limit \in Limits : s = [p |-> Mass!EvenRanges(lo, hi, total, limit), of |-> lo .. hi]
  <2>1. PICK limit \in Nat \ {0} : p = Mass!EvenRanges(lo, hi, total, limit)
    BY <1>8, <1>9, <1>12
  <2>2. ASSUME NEW v \in lo .. hi
        PROVE  (\A i \in DOMAIN p : p[i] \in Pieces) /\ HeldOnce(p, v)
    BY <1>5, <1>6, <2>1, EvenRangesCover
  <2> QED
    BY <1>5, <1>9, <1>10, <1>11, <2>2
<1>13. CASE \E n \in Limits : s = [p |-> Mass!RangesOfJobs(lo, hi, n), of |-> lo .. hi]
  <2>1. PICK n \in Nat \ {0} : p = Mass!RangesOfJobs(lo, hi, n)
    BY <1>8, <1>9, <1>13
  <2>2. ASSUME NEW v \in lo .. hi
        PROVE  (\A i \in DOMAIN p : p[i] \in Pieces) /\ HeldOnce(p, v)
    BY <1>5, <2>1, RangesOfJobsCover
  <2> QED
    BY <1>5, <1>9, <1>10, <1>11, <2>2
<1> QED
  BY <1>7, <1>12, <1>13

\* So is each bucket of a histogram, and each day of a period.
LEMMA OtherSplitsCover ==
    ASSUME Mass!LoadAssumption, NEW s \in Mass!OtherSplits
    PROVE  /\ \A i \in DOMAIN s.p : s.p[i] \in Pieces
           /\ \A v \in s.of : HeldOnce(s.p, v)
<1>1. PICK p : p = s.p
  OBVIOUS
<1>2. SUFFICES p \in Seq(Pieces) /\ \A v \in s.of : HeldOnce(p, v)
  <2>1. p \in Seq(Pieces) => \A i \in DOMAIN p : p[i] \in Pieces
    BY LenProperties, ElementOfSeq
  <2> QED
    BY <1>1, <2>1
<1>3. ASSUME NEW h \in Mass!Histograms, NEW limit \in Limits,
             s = [p |-> Mass!ByBuckets([i \in DOMAIN h |-> [value |-> 10 * i, rows |-> h[i].rows]], limit),
                  of |-> {10 * i : i \in DOMAIN h}]
      PROVE  p \in Seq(Pieces) /\ \A v \in s.of : HeldOnce(p, v)
  <2>1. PICK n \in 1 .. 4 : DOMAIN h = 1 .. n
    BY DEF Mass!Histograms
  <2>2. PICK hist : hist = [i \in 1 .. n |-> [value |-> 10 * i, rows |-> h[i].rows]]
    OBVIOUS
  <2>3. Len(hist) = n /\ \A i \in 1 .. Len(hist) : hist[i].value = 10 * i
    BY <2>2
  <2>4. p = Mass!ByBuckets(hist, limit) /\ s.of = {10 * i : i \in 1 .. n}
    BY <1>1, <1>3, <2>1, <2>2
  <2>5. Len(hist) \in Nat \ {0}
    BY <2>3
  <2>6. p \in Seq(Pieces) /\ \A u \in 1 .. Len(hist) : HeldOnce(p, 10 * u)
    BY <2>3, <2>4, <2>5, ByBucketsCovers
  <2> QED
    BY <2>3, <2>4, <2>6
<1>4. ASSUME NEW from, NEW to, NEW unit,
             from \in {Mass!Date(1, 1, 1), Mass!Date(1, 2, 2)},
             to \in {Mass!Date(1, 2, 2), Mass!Date(2, 2, 1)},
             s = [p |-> Mass!ByTime(from, to, unit),
                  of |-> Mass!DatesOf(from, to)]
      PROVE  p \in Seq(Pieces) /\ \A v \in s.of : HeldOnce(p, v)
  <2>1. from \in Nat /\ to \in Nat
    BY <1>4 DEF Mass!Date
  <2>2. \A x \in Mass!Dates : x \in Nat
    <3>1. \A m \in DOMAIN Days : m \in Nat
      BY LenProperties DEF Mass!LoadAssumption
    <3> QED
      BY <3>1 DEF Mass!Dates, Mass!Date
  <2>3. \A v \in s.of : v \in Nat /\ from <= v /\ v < to
    BY <1>4, <2>2 DEF Mass!DatesOf
  <2>4. p = Mass!ByTime(from, to, unit)
    BY <1>1, <1>4
  <2>5. /\ p \in Seq(Pieces)
        /\ \A v \in Nat : from <= v /\ v < to => HeldOnce(p, v)
    BY <2>1, <2>4, ByTimeCovers
  <2> QED
    BY <2>3, <2>5
<1>5. CASE s \in Mass!BucketSplits
  <2>1. PICK h \in Mass!Histograms, limit \in Limits :
           s = [p |-> Mass!ByBuckets([i \in DOMAIN h |-> [value |-> 10 * i, rows |-> h[i].rows]], limit),
                of |-> {10 * i : i \in DOMAIN h}]
    BY <1>5 DEF Mass!BucketSplits
  <2> QED
    BY <1>3, <2>1
<1>6. CASE s \in Mass!TimeSplits
  <2>1. PICK from \in {Mass!Date(1, 1, 1), Mass!Date(1, 2, 2)},
             to \in {Mass!Date(1, 2, 2), Mass!Date(2, 2, 1)}, unit \in {"day", "month", "year"} :
           s = [p |-> Mass!ByTime(from, to, unit), of |-> Mass!DatesOf(from, to)]
    BY <1>6 DEF Mass!TimeSplits
  <2> QED
    BY <1>4, <2>1
<1> QED
  BY <1>5, <1>6 DEF Mass!OtherSplits

\* A package is the next rows of the range: it is empty at the end, and leaves none
\* out below its greatest.
LEMMA PackageFacts ==
    ASSUME Mass!LoadAssumption, LoadTypes, NEW j \in DOMAIN jobs
    PROVE  LET R == Mass!Within(jobs[j].range)
               P == Mass!Package(j)
           IN /\ \A v \in P : v \in R /\ v > jobs[j].at
              /\ P = {} => \A v \in R : v <= jobs[j].at
              /\ P # {} => /\ Mass!Greatest(P) \in P
                           /\ \A v \in R : v > jobs[j].at /\ v <= Mass!Greatest(P) => v \in P
<1>1. PICK R : R = Mass!Within(jobs[j].range)
  OBVIOUS
<1>2. PICK P : P = Mass!Package(j)
  OBVIOUS
<1>3. PICK at \in Int : at = jobs[j].at
  <2>1. jobs[j] \in WorkerJobs
    BY ElementOfSeq, LenProperties DEF LoadTypes
  <2> QED
    BY <2>1 DEF WorkerJobs
<1>4. PICK left : left = {v \in Mass!Within(jobs[j].range) : v > jobs[j].at}
  OBVIOUS
<1>5. left = {v \in R : v > at}
  BY <1>1, <1>3, <1>4
<1>6. P = {v \in left : Cardinality({w \in left : w < v}) < PerPackage}
  <2>1. P = {v \in left : Mass!Cardinality({w \in left : w < v}) < PerPackage}
    BY <1>2, <1>4 DEF Mass!Package
  <2> QED
    BY <2>1, SameCount
<1>7. R \subseteq mSource /\ mSource \subseteq Nat /\ IsFiniteSet(mSource) /\ PerPackage \in Nat \ {0}
  BY <1>1, SourceFacts DEF Mass!Within, LoadTypes, Mass!LoadAssumption
<1>8. left \subseteq R /\ IsFiniteSet(left) /\ left \subseteq Nat
  BY <1>5, <1>7, FS_Subset
<1>9. ASSUME P = {}, NEW v \in R
      PROVE  v <= at
  <2>1. SUFFICES ASSUME left # {} PROVE FALSE
    BY <1>5, <1>7, <1>9
  <2>2. PICK x \in left : \A y \in left : x <= y
    BY <1>8, <2>1, LeastExists
  <2>3. {w \in left : w < x} = {}
    <3>1. \A w \in left : ~(w < x)
      BY <1>8, <2>2
    <3> QED
      BY <3>1
  <2>4. Cardinality({w \in left : w < x}) = 0
    BY <2>3, FS_EmptySet
  <2>5. 0 < PerPackage
    BY <1>7
  <2> QED
    BY <1>6, <1>9, <2>2, <2>4, <2>5
<1>10. ASSUME P # {}
      PROVE  /\ Mass!Greatest(P) \in P
             /\ \A v \in R : v > at /\ v <= Mass!Greatest(P) => v \in P
  <2>1. PICK b \in Nat : mSource \subseteq 0 .. b
    BY SourceFacts DEF LoadTypes
  <2>2. P \in SUBSET (0 .. b)
    BY <1>6, <1>7, <1>8, <2>1
  <2>3. PICK n \in P : \A m \in P : m <= n
    BY <1>10, <2>1, <2>2, GreatestExists
  <2>4. \A m \in P : n >= m
    BY <2>2, <2>3
  <2>5. PICK g : g = Mass!Greatest(P)
    OBVIOUS
  <2>6. g \in P
    BY <2>3, <2>4, <2>5 DEF Mass!Greatest
  <2>7. ASSUME NEW v \in R, v > at, v <= g
        PROVE  v \in P
    <3>1. v \in left /\ v \in Nat /\ g \in Nat /\ g \in left
      BY <1>5, <1>6, <1>8, <2>6, <2>7
    <3>2. PICK A : A = {w \in left : w < v}
      OBVIOUS
    <3>3. PICK B : B = {w \in left : w < g}
      OBVIOUS
    <3>4. A \subseteq B /\ IsFiniteSet(B) /\ IsFiniteSet(A)
      <4>1. A \subseteq B
        <5>1. \A w \in left : w < v => w < g
          BY <1>8, <2>7, <3>1
        <5> QED
          BY <3>2, <3>3, <5>1
      <4>2. IsFiniteSet(B) /\ IsFiniteSet(A)
        BY <1>8, <3>2, <3>3, FS_Subset
      <4> QED
        BY <4>1, <4>2
    <3>5. Cardinality(A) <= Cardinality(B) /\ Cardinality(A) \in Nat /\ Cardinality(B) \in Nat
      BY <3>4, FS_Subset, FS_CardinalityType
    <3>6. Cardinality(B) < PerPackage
      BY <1>6, <2>6, <3>3
    <3>7. Cardinality(A) < PerPackage
      BY <1>7, <3>5, <3>6
    <3> QED
      BY <1>6, <3>1, <3>2, <3>7
  <2> QED
    BY <2>5, <2>6, <2>7
<1>11. \A v \in P : v \in R /\ v > at
  BY <1>5, <1>6
<1> QED
  BY <1>1, <1>2, <1>3, <1>9, <1>10, <1>11

-------------------------------------------------------------------------------
(* The steps of the jobs.                                                   *)

LEMMA JobTypes ==
    ASSUME LoadTypes
    PROVE  /\ DOMAIN jobs = 1 .. Len(jobs) /\ Len(jobs) \in Nat
           /\ \A j \in DOMAIN jobs : jobs[j] \in WorkerJobs
           /\ \A i \in DOMAIN st : st[i].job # 0 => st[i].job \in DOMAIN jobs
<1>1. DOMAIN jobs = 1 .. Len(jobs) /\ Len(jobs) \in Nat
  BY LenProperties DEF LoadTypes
<1>2. \A j \in DOMAIN jobs : jobs[j] \in WorkerJobs
  BY <1>1, ElementOfSeq DEF LoadTypes
<1>3. \A i \in DOMAIN st : st[i].job \in Nat /\ st[i].job <= Len(jobs)
  BY DEF LoadTypes, Entries
<1> QED
  BY <1>1, <1>2, <1>3

\* A job at work goes on with its range, and what it passes is in the target.
LEMMA JobSteps ==
    ASSUME LoadInv, UNCHANGED <<mSource, portions, coord, st, keyed>>,
           NEW j \in DOMAIN jobs, jobs[j].status = "R",
           NEW J \in WorkerJobs, J.range = jobs[j].range,
           jobs' = [jobs EXCEPT ![j] = J],
           heap' \in [UNION Tables -> Nat], \A v \in UNION Tables : heap'[v] >= heap[v],
           \A v \in UNION Tables : v \notin mSource => heap'[v] = 0,
           \A v \in Mass!Within(jobs[j].range) :
              v <= J.at => v <= jobs[j].at \/ heap'[v] >= 1,
           J.status = "F" => \A v \in Mass!Within(jobs[j].range) : v <= J.at,
           keyed => heap' = heap
    PROVE  LoadInv'
<1>1. PICK at \in Int : at = J.at
  BY DEF WorkerJobs
<1>2. /\ DOMAIN jobs' = DOMAIN jobs /\ Len(jobs') = Len(jobs) /\ jobs' \in Seq(WorkerJobs)
      /\ jobs'[j] = J /\ \A k \in DOMAIN jobs : k # j => jobs'[k] = jobs[k]
      /\ \A k \in DOMAIN jobs : jobs'[k].range = jobs[k].range
  <2>1. jobs \in Seq(WorkerJobs)
    BY DEF LoadInv, LoadTypes
  <2>2. j \in 1 .. Len(jobs)
    BY <2>1, LenProperties
  <2> QED
    BY <2>1, <2>2, ExceptSeq
<1>3. mSource \subseteq UNION Tables /\ DOMAIN heap = UNION Tables
  BY DEF LoadInv, LoadTypes
<1>4. LoadTypes'
  <2>1. heap' \in [UNION Tables -> Nat] /\ \A v \in DOMAIN heap' : v \notin mSource' => heap'[v] = 0
    OBVIOUS
  <2> QED
    BY <1>2, <2>1 DEF LoadInv, LoadTypes
<1>5. PortionInv'
  <2>1. SUFFICES ASSUME Loading PROVE PortionInv'
    BY DEF PortionInv, Loading
  <2>2. ASSUME NEW i \in DOMAIN st, st[i].job # 0
        PROVE  /\ jobs'[st[i].job].range = jobs[st[i].job].range
               /\ jobs[st[i].job].status = "F" => jobs'[st[i].job].status = "F"
    BY <1>2, <2>2, JobTypes DEF LoadInv
  <2> QED
    BY <2>1, <2>2 DEF LoadInv, PortionInv, Loading, InPortion, Mass!Succeeded
<1>6. LoadedInv'
  <2>1. ASSUME Loading, NEW i \in DOMAIN st, st[i].job # 0, NEW v \in mSource,
               jobs'[st[i].job].range.lo <= v, v <= jobs'[st[i].job].range.hi,
               v <= jobs'[st[i].job].at
        PROVE  heap'[v] >= 1
    <3>1. PICK k \in DOMAIN jobs : k = st[i].job
      BY <2>1, JobTypes DEF LoadInv
    <3>2. v \in Mass!Within(jobs[k].range)
      BY <1>2, <2>1, <3>1 DEF Mass!Within
    <3>3. v <= jobs[k].at \/ heap'[v] >= 1
      BY <1>2, <2>1, <3>1, <3>2
    <3>4. ASSUME v <= jobs[k].at PROVE heap[v] >= 1
      BY <2>1, <3>1, <3>2, <3>4 DEF LoadInv, LoadedInv, RowsOfJob
    <3>5. heap[v] \in Nat /\ heap'[v] \in Nat /\ heap'[v] >= heap[v]
      BY <1>3 DEF LoadInv, LoadTypes
    <3> QED
      BY <3>3, <3>4, <3>5
  <2>2. ASSUME NEW k \in DOMAIN jobs, jobs'[k].status = "F", NEW v \in mSource,
               jobs'[k].range.lo <= v, v <= jobs'[k].range.hi
        PROVE  v <= jobs'[k].at
    <3>1. v \in Mass!Within(jobs[k].range)
      BY <1>2, <2>2 DEF Mass!Within
    <3> QED
      BY <1>2, <2>2, <3>1 DEF LoadInv, LoadedInv, RowsOfJob
  <2> QED
    BY <1>2, <2>1, <2>2 DEF LoadedInv, Loading, RowsOfJob, Mass!Within
<1>7. Mass!SuccessIsComplete'
  <2>1. SUFFICES ASSUME coord.pc = "ok" PROVE Mass!SuccessIsComplete'
    BY DEF Mass!SuccessIsComplete
  <2> QED
    BY <2>1 DEF LoadInv, Mass!SuccessIsComplete
<1> QED
  BY <1>4, <1>5, <1>6, <1>7 DEF LoadInv

LEMMA IngestStep ==
    ASSUME Mass!LoadAssumption, LoadInv, NEW j \in DOMAIN jobs, Mass!Ingest(j)
    PROVE  LoadInv'
<1>1. PICK P : P = Mass!Package(j)
  OBVIOUS
<1>2. /\ \A v \in P : v \in mSource /\ v > jobs[j].at
      /\ P # {} /\ Mass!Greatest(P) \in P
      /\ \A v \in Mass!Within(jobs[j].range) : v > jobs[j].at /\ v <= Mass!Greatest(P) => v \in P
  BY <1>1, PackageFacts DEF LoadInv, Mass!Ingest, Mass!Within
<1>3. jobs[j] \in WorkerJobs /\ jobs[j].at \in Int
  BY JobTypes DEF LoadInv, WorkerJobs
<1>4. mSource \in Tables /\ mSource \subseteq UNION Tables /\ mSource \subseteq Nat
  BY SourceFacts DEF LoadInv, LoadTypes
<1>5. heap \in [UNION Tables -> Nat] /\ \A v \in UNION Tables : v \notin mSource => heap[v] = 0
  BY DEF LoadInv, LoadTypes
<1>6. UNCHANGED <<mSource, portions, coord, st, keyed>> /\ jobs[j].status = "R"
  BY DEF Mass!Ingest
<1>7. keyed => \A v \in mSource : heap[v] = 1
  BY <1>4, <1>5 DEF LoadInv, LoadTypes, Mass!SuccessIsComplete
<1>8. CASE keyed /\ \E v \in P : heap[v] > 0
  <2>1. jobs' = [jobs EXCEPT ![j] = [jobs[j] EXCEPT !.status = "A"]] /\ heap' = heap
    BY <1>1, <1>8 DEF Mass!Ingest
  <2>2. PICK J : J = [jobs[j] EXCEPT !.status = "A"]
    OBVIOUS
  <2>3. /\ J \in WorkerJobs /\ J.range = jobs[j].range
        /\ J.at = jobs[j].at /\ J.status = "A"
    BY <1>3, <2>2 DEF WorkerJobs
  <2>4. \A v \in UNION Tables : heap'[v] >= heap[v]
    BY <1>5, <2>1
  <2> QED
    BY <1>5, <1>6, <2>1, <2>2, <2>3, <2>4, JobSteps
<1>9. CASE ~(keyed /\ \E v \in P : heap[v] > 0)
  <2>1. /\ jobs' = [jobs EXCEPT ![j] = [jobs[j] EXCEPT !.at = Mass!Greatest(P)]]
        /\ heap' = [v \in DOMAIN heap |-> heap[v] + (IF v \in P THEN 1 ELSE 0)]
    BY <1>1, <1>9 DEF Mass!Ingest
  <2>2. ~keyed
    BY <1>2, <1>7, <1>9
  <2>3. PICK J : J = [jobs[j] EXCEPT !.at = Mass!Greatest(P)]
    OBVIOUS
  <2>4. /\ J \in WorkerJobs /\ J.range = jobs[j].range
        /\ J.at = Mass!Greatest(P) /\ J.status = "R"
    BY <1>2, <1>3, <1>4, <1>6, <2>3 DEF WorkerJobs
  <2>5. /\ heap' \in [UNION Tables -> Nat] /\ \A v \in UNION Tables : heap'[v] >= heap[v]
        /\ \A v \in UNION Tables : v \notin mSource => heap'[v] = 0
        /\ \A v \in P : heap'[v] >= 1
    BY <1>2, <1>4, <1>5, <2>1
  <2>6. ASSUME NEW v \in Mass!Within(jobs[j].range), v <= J.at
        PROVE  v <= jobs[j].at \/ heap'[v] >= 1
    <3>1. v \in Nat
      BY <1>4 DEF Mass!Within
    <3>2. v > jobs[j].at => v \in P
      BY <1>2, <2>4, <2>6
    <3> QED
      BY <1>3, <2>5, <3>1, <3>2
  <2> QED
    BY <1>6, <2>1, <2>2, <2>3, <2>4, <2>5, <2>6, JobSteps
<1> QED
  BY <1>8, <1>9

LEMMA JobEndStep ==
    ASSUME Mass!LoadAssumption, LoadInv, NEW j \in DOMAIN jobs,
           Mass!JobEnds(j) \/ Mass!Abort(j)
    PROVE  LoadInv'
<1>1. PICK to \in {"F", "A"} :
        /\ jobs' = [jobs EXCEPT ![j] = [jobs[j] EXCEPT !.status = to]]
        /\ to = "F" => Mass!Package(j) = {}
  BY DEF Mass!JobEnds, Mass!Abort
<1>2. UNCHANGED <<mSource, portions, coord, st, heap, keyed>> /\ jobs[j].status = "R"
  BY DEF Mass!JobEnds, Mass!Abort
<1>3. PICK J : J = [jobs[j] EXCEPT !.status = to]
  OBVIOUS
<1>4. /\ J \in WorkerJobs /\ J.range = jobs[j].range
      /\ J.at = jobs[j].at /\ J.status = to
  <2>1. jobs[j] \in WorkerJobs
    BY JobTypes DEF LoadInv
  <2> QED
    BY <1>3, <2>1 DEF WorkerJobs
<1>5. J.status = "F" => \A v \in Mass!Within(jobs[j].range) : v <= J.at
  BY <1>1, <1>4, PackageFacts DEF LoadInv
<1>6. /\ heap' \in [UNION Tables -> Nat] /\ \A v \in UNION Tables : heap'[v] >= heap[v]
      /\ \A v \in UNION Tables : v \notin mSource => heap'[v] = 0
  BY <1>2 DEF LoadInv, LoadTypes
<1> QED
  BY <1>1, <1>2, <1>3, <1>4, <1>5, <1>6, JobSteps

-------------------------------------------------------------------------------
(* The steps of the coordinator.                                            *)

LEMMA LoadInit ==
    ASSUME Mass!Init
    PROVE  LoadInv
<1>1. mSource \in Tables /\ keyed = FALSE /\ coord = [pc |-> "idle", load |-> 0]
  BY DEF Mass!Init
<1>2. heap = [v \in UNION Tables |-> 0]
  BY DEF Mass!Init
<1>3. jobs = <<>> /\ st = <<>> /\ DOMAIN st = {} /\ DOMAIN jobs = {}
  BY DEF Mass!Init
<1>4. ~Loading
  BY <1>1 DEF Loading
<1>5. LoadTypes
  <2>1. jobs \in Seq(WorkerJobs)
    BY <1>3
  <2>2. st \in [DOMAIN st -> Entries]
    BY <1>3
  <2> QED
    BY <1>1, <1>2, <1>3, <2>1, <2>2 DEF LoadTypes
<1> QED
  BY <1>1, <1>3, <1>4, <1>5 DEF LoadInv, PortionInv, LoadedInv, Mass!SuccessIsComplete

LEMMA LoadStartStep ==
    ASSUME Mass!LoadAssumption, LoadInv, Mass!Start
    PROVE  LoadInv'
<1>1. PICK s \in Mass!PlanSplit :
        /\ portions' = s.p
        /\ st' = [i \in DOMAIN s.p |-> [job |-> 0, attempts |-> 0, done |-> FALSE, failed |-> FALSE]]
  BY DEF Mass!Start
<1>2. /\ coord' = [pc |-> "dispatch", load |-> coord.load + 1]
      /\ heap' = [v \in DOMAIN heap |-> 0] /\ keyed' = FALSE
      /\ UNCHANGED <<mSource, jobs>>
  BY DEF Mass!Start
<1>3. DOMAIN st' = DOMAIN s.p /\ \A i \in DOMAIN st' : st'[i].job = 0 /\ ~st'[i].done
  BY <1>1
<1>4. LoadTypes'
  <2>1. st' \in [DOMAIN st' -> Entries]
    BY <1>1 DEF Entries
  <2>2. \A i \in DOMAIN st' : st'[i].job <= Len(jobs)
    BY <1>3, JobTypes DEF LoadInv
  <2>3. heap' \in [UNION Tables -> Nat] /\ \A v \in DOMAIN heap' : heap'[v] = 0
    BY <1>2 DEF LoadInv, LoadTypes
  <2> QED
    BY <1>2, <2>1, <2>2, <2>3 DEF LoadInv, LoadTypes
<1>5. PortionInv'
  <2>1. mSource \in Tables
    BY DEF LoadInv, LoadTypes
  <2>2. /\ \A i \in DOMAIN s.p : s.p[i] \in Pieces
        /\ \A v \in mSource : HeldOnce(s.p, v)
    BY <2>1, SplitCovers
  <2>3. /\ \A i \in DOMAIN s.p : s.p[i] \in Ranges
        /\ \A v \in mSource : \E i \in DOMAIN s.p : s.p[i].lo <= v /\ v <= s.p[i].hi
    BY <2>2 DEF HeldOnce, Holders, Pieces
  <2> QED
    BY <1>1, <1>2, <1>3, <2>3 DEF PortionInv, InPortion, Mass!Succeeded
<1>6. LoadedInv'
  <2>1. \A j \in DOMAIN jobs : jobs[j].status = "F" =>
          Mass!Within(jobs[j].range) \subseteq RowsOfJob(j)
    BY DEF LoadInv, LoadedInv
  <2> QED
    BY <1>2, <1>3, <2>1 DEF LoadedInv, RowsOfJob, Mass!Within
<1> QED
  BY <1>2, <1>4, <1>5, <1>6 DEF LoadInv, Mass!SuccessIsComplete

\* A portion that is not done gets a job of its own.
LEMMA SubmitStep ==
    ASSUME Mass!LoadAssumption, LoadInv, Loading, NEW i \in DOMAIN st, ~Mass!Succeeded(i),
           Mass!Submit(i),
           UNCHANGED <<mSource, portions, covers, coord, heap, keyed>>
    PROVE  LoadInv'
<1>1. PICK n : n = Len(jobs) + 1
  OBVIOUS
<1>2. /\ n \in Nat \ {0} /\ DOMAIN jobs = 1 .. Len(jobs)
      /\ \A k \in DOMAIN st : st[k].job # 0 => st[k].job \in DOMAIN jobs
  BY <1>1, JobTypes DEF LoadInv
<1>3. PICK J : J = [range |-> portions[i], at |-> portions[i].lo - 1, status |-> "R"]
  OBVIOUS
<1>4. portions[i] \in Ranges /\ J \in WorkerJobs /\ J.range = portions[i]
      /\ J.at = portions[i].lo - 1 /\ J.status = "R" /\ portions[i].lo \in Int
  <2>1. portions[i] \in Ranges
    BY DEF LoadInv, PortionInv
  <2> QED
    BY <1>3, <2>1 DEF Ranges, WorkerJobs
<1>5. /\ jobs' \in Seq(WorkerJobs) /\ Len(jobs') = n /\ DOMAIN jobs' = 1 .. n
      /\ jobs'[n] = J /\ \A k \in DOMAIN jobs : jobs'[k] = jobs[k]
  <2>1. jobs \in Seq(WorkerJobs) /\ jobs' = Append(jobs, J)
    BY <1>3 DEF LoadInv, LoadTypes, Mass!Submit
  <2> QED
    BY <1>1, <1>2, <1>4, <2>1, AppendProperties
<1>6. st' = [st EXCEPT ![i] = [st[i] EXCEPT !.job = n, !.attempts = st[i].attempts + 1]]
  BY <1>1 DEF Mass!Submit
<1>7. st \in [DOMAIN st -> Entries] /\ st[i] \in Entries
  BY DEF LoadInv, LoadTypes
<1>8. /\ DOMAIN st' = DOMAIN st /\ st' \in [DOMAIN st' -> Entries]
      /\ st'[i].job = n /\ st'[i].done = st[i].done /\ st'[i].failed = st[i].failed
      /\ \A k \in DOMAIN st : k # i => st'[k] = st[k]
  <2>1. PICK e : e = [st[i] EXCEPT !.job = n, !.attempts = st[i].attempts + 1]
    OBVIOUS
  <2>2. e \in Entries /\ e.job = n /\ e.done = st[i].done /\ e.failed = st[i].failed
    <3>1. PICK r \in Entries : r = st[i]
      BY <1>7
    <3>2. e = [r EXCEPT !.job = n, !.attempts = r.attempts + 1]
      BY <2>1, <3>1
    <3>3. r.attempts \in Nat /\ r.done \in BOOLEAN /\ r.failed \in BOOLEAN
      BY DEF Entries
    <3>4. e = [job |-> n, attempts |-> r.attempts + 1, done |-> r.done, failed |-> r.failed]
      BY <3>2, <3>3 DEF Entries
    <3> QED
      BY <1>2, <3>1, <3>3, <3>4 DEF Entries
  <2>3. st' = [st EXCEPT ![i] = e]
    BY <1>6, <2>1
  <2> QED
    BY <1>7, <2>2, <2>3
<1>9. LoadTypes'
  <2>1. \A k \in DOMAIN st' : st'[k].job <= n
    <3>1. \A k \in DOMAIN st : st[k].job <= Len(jobs) /\ st[k].job \in Nat
      BY DEF LoadInv, LoadTypes, Entries
    <3> QED
      BY <1>1, <1>2, <1>8, <3>1, JobTypes DEF LoadInv
  <2> QED
    BY <1>5, <1>8, <2>1 DEF LoadInv, LoadTypes
<1>10. PortionInv'
  <2>1. ASSUME NEW k \in DOMAIN st, st'[k].job # 0
        PROVE  jobs'[st'[k].job].range = portions[k]
    BY <1>2, <1>4, <1>5, <1>8, <2>1 DEF LoadInv, PortionInv
  <2>2. ASSUME NEW k \in DOMAIN st, st'[k].done, ~st'[k].failed
        PROVE  st'[k].job # 0 /\ jobs'[st'[k].job].status = "F"
    <3>1. k # i
      BY <1>8, <2>2 DEF Mass!Succeeded
    <3> QED
      BY <1>2, <1>5, <1>8, <2>2, <3>1 DEF LoadInv, PortionInv, Mass!Succeeded
  <2>3. \A k \in DOMAIN st : coord.pc = "wait" => st'[k].job # 0
    BY <1>2, <1>8 DEF LoadInv, PortionInv
  <2>4. /\ \A v \in mSource : \E k \in DOMAIN st : InPortion(k, v)
        /\ \A k \in DOMAIN st : portions[k] \in Ranges
    BY DEF LoadInv, PortionInv
  <2> QED
    BY <1>8, <2>1, <2>2, <2>3, <2>4 DEF PortionInv, InPortion, Mass!Succeeded
<1>11. LoadedInv'
  <2>1. ASSUME NEW k \in DOMAIN st, st'[k].job # 0, NEW v \in mSource,
               jobs'[st'[k].job].range.lo <= v, v <= jobs'[st'[k].job].range.hi,
               v <= jobs'[st'[k].job].at
        PROVE  heap[v] >= 1
    <3>1. CASE k = i
      <4>1. portions[i].lo <= v /\ v <= portions[i].lo - 1
        BY <1>4, <1>5, <1>8, <2>1, <3>1
      <4>2. \A x \in Int : ~(x <= v /\ v <= x - 1) \/ v \notin Int
        OBVIOUS
      <4>3. v \in Int
        BY SourceFacts DEF LoadInv, LoadTypes
      <4> QED
        BY <1>4, <4>1, <4>2, <4>3
    <3>2. CASE k # i
      <4>1. st[k].job # 0 /\ v \in RowsOfJob(st[k].job)
        BY <1>2, <1>5, <1>8, <2>1, <3>2 DEF RowsOfJob, Mass!Within
      <4> QED
        BY <4>1 DEF LoadInv, LoadedInv
    <3> QED
      BY <3>1, <3>2
  <2>2. ASSUME NEW k \in DOMAIN jobs', jobs'[k].status = "F", NEW v \in mSource,
               jobs'[k].range.lo <= v, v <= jobs'[k].range.hi
        PROVE  v <= jobs'[k].at
    <3>1. k \in DOMAIN jobs
      BY <1>1, <1>2, <1>4, <1>5, <2>2
    <3>2. jobs'[k] = jobs[k]
      BY <1>5, <3>1
    <3> QED
      BY <2>2, <3>1, <3>2 DEF LoadInv, LoadedInv, RowsOfJob, Mass!Within
  <2> QED
    BY <1>8, <2>1, <2>2 DEF LoadedInv, RowsOfJob, Mass!Within
<1>12. Mass!SuccessIsComplete'
  BY DEF Loading, Mass!SuccessIsComplete
<1> QED
  BY <1>9, <1>10, <1>11, <1>12 DEF LoadInv

\* The coordinator goes on or gives up.
LEMMA ControlStep ==
    ASSUME LoadInv, Mass!Split \/ Mass!NoJob \/ Mass!AllStarted \/ Mass!TimesOut
    PROVE  LoadInv'
<1>1. UNCHANGED <<mSource, st, jobs, heap, keyed>>
  BY DEF Mass!Split, Mass!NoJob, Mass!AllStarted, Mass!TimesOut
<1>2. PICK pc \in {"error", "wait"} :
        /\ coord'.pc = pc /\ coord' = [pc |-> pc, load |-> coord'.load]
        /\ pc = "wait" => /\ Loading /\ portions' = portions
                          /\ \A i \in DOMAIN st : st[i].job # 0
  BY DEF LoadInv, LoadTypes, Loading, Mass!Goes, Mass!Split, Mass!NoJob, Mass!AllStarted,
         Mass!TimesOut
<1>3. ~keyed
  BY DEF LoadInv, LoadTypes, Mass!Split, Mass!NoJob, Mass!AllStarted, Mass!TimesOut
<1>4. LoadTypes'
  BY <1>1, <1>2, <1>3 DEF LoadInv, LoadTypes
<1>5. PortionInv'
  BY <1>1, <1>2 DEF LoadInv, PortionInv, Loading, InPortion, Mass!Succeeded
<1>6. LoadedInv'
  BY <1>1, <1>2 DEF LoadInv, LoadedInv, Loading, RowsOfJob, Mass!Within
<1> QED
  BY <1>2, <1>4, <1>5, <1>6 DEF LoadInv, Mass!SuccessIsComplete

\* A portion is done with what it has.
LEMMA DoneStep ==
    ASSUME LoadInv, coord.pc = "wait", NEW i \in DOMAIN st, NEW failed \in BOOLEAN,
           ~failed => jobs[st[i].job].status = "F",
           st' = [st EXCEPT ![i] = [st[i] EXCEPT !.done = TRUE, !.failed = failed]],
           UNCHANGED <<mSource, portions, coord, jobs, heap, keyed>>
    PROVE  LoadInv'
<1>1. st \in [DOMAIN st -> Entries] /\ st[i] \in Entries
  BY DEF LoadInv, LoadTypes
<1>2. /\ DOMAIN st' = DOMAIN st /\ st' \in [DOMAIN st' -> Entries]
      /\ \A k \in DOMAIN st : st'[k].job = st[k].job
      /\ \A k \in DOMAIN st : k # i => st'[k] = st[k]
      /\ st'[i].failed = failed
  BY <1>1 DEF Entries
<1>3. Loading
  BY DEF Loading
<1>4. LoadTypes'
  BY <1>2 DEF LoadInv, LoadTypes
<1>5. PortionInv'
  <2>1. ASSUME NEW k \in DOMAIN st, st'[k].done, ~st'[k].failed
        PROVE  st'[k].job # 0 /\ jobs'[st'[k].job].status = "F"
    BY <1>2, <1>3, <2>1 DEF LoadInv, PortionInv, Mass!Succeeded
  <2> QED
    BY <1>2, <1>3, <2>1 DEF LoadInv, PortionInv, InPortion, Mass!Succeeded
<1>6. LoadedInv'
  BY <1>2, <1>3 DEF LoadInv, LoadedInv, Loading, RowsOfJob, Mass!Within
<1> QED
  BY <1>4, <1>5, <1>6 DEF LoadInv, Mass!SuccessIsComplete

\* The key builds on a heap in which every row of the source is, and none twice.
LEMMA BuildKeyStep ==
    ASSUME LoadInv, Mass!BuildKey
    PROVE  LoadInv'
<1>1. UNCHANGED <<mSource, portions, st, jobs, heap>> /\ coord.pc = "wait" /\ Loading
  BY DEF Mass!BuildKey, Loading
<1>2. coord' = [pc |-> coord'.pc, load |-> coord'.load] /\ coord'.pc \in {"ok", "error"}
  BY DEF LoadInv, LoadTypes, Mass!BuildKey, Mass!Goes
<1>3. ~keyed
  BY <1>1 DEF LoadInv, LoadTypes
<1>4. ~Loading'
  BY <1>2 DEF Loading
<1>5. LoadTypes'
  <2>1. keyed' \in BOOLEAN /\ (keyed' => coord'.pc = "ok")
    BY <1>3 DEF LoadInv, LoadTypes, Mass!BuildKey, Mass!Goes
  <2> QED
    BY <1>1, <1>2, <2>1 DEF LoadInv, LoadTypes
<1>6. PortionInv' /\ LoadedInv'
  BY <1>1, <1>4 DEF LoadInv, PortionInv, LoadedInv, RowsOfJob, Mass!Within
<1>7. Mass!SuccessIsComplete'
  <2>1. SUFFICES ASSUME coord'.pc = "ok" PROVE Mass!SuccessIsComplete'
    BY DEF Mass!SuccessIsComplete
  <2>2. /\ \A i \in DOMAIN st : Mass!Succeeded(i)
        /\ \A v \in DOMAIN heap : heap[v] <= 1
        /\ keyed' = TRUE
    BY <2>1 DEF LoadInv, LoadTypes, Mass!BuildKey, Mass!Goes
  <2>3. ASSUME NEW v \in DOMAIN heap, v \in mSource
        PROVE  heap[v] = 1
    <3>1. PICK i \in DOMAIN st : InPortion(i, v)
      BY <1>1, <2>3 DEF LoadInv, PortionInv
    <3>2. PICK j \in DOMAIN jobs : j = st[i].job
      BY <1>1, <2>2, <3>1, JobTypes DEF LoadInv, PortionInv
    <3>3. st[i].job # 0 /\ jobs[j].status = "F" /\ jobs[j].range = portions[i]
      BY <1>1, <2>2, <3>1, <3>2 DEF LoadInv, PortionInv
    <3>4. v \in Mass!Within(jobs[j].range)
      BY <2>3, <3>1, <3>3 DEF InPortion, Mass!Within
    <3>5. heap[v] >= 1
      BY <1>1, <3>2, <3>3, <3>4 DEF LoadInv, LoadedInv
    <3>6. heap[v] \in Nat /\ heap[v] <= 1
      BY <2>2, <2>3 DEF LoadInv, LoadTypes
    <3> QED
      BY <3>5, <3>6
  <2>4. \A v \in DOMAIN heap : v \notin mSource => heap[v] = 0
    BY DEF LoadInv, LoadTypes
  <2> QED
    BY <1>1, <2>2, <2>3, <2>4 DEF Mass!SuccessIsComplete
<1> QED
  BY <1>5, <1>6, <1>7 DEF LoadInv

-------------------------------------------------------------------------------
(* A load.                                                                  *)

LEMMA LoadSteps ==
    ASSUME Mass!LoadAssumption, LoadInv, [Mass!Next]_(Mass!vars)
    PROVE  LoadInv'
<1>1. CASE Mass!Start
  BY <1>1, LoadStartStep
<1>2. CASE Mass!Split \/ Mass!NoJob \/ Mass!AllStarted \/ Mass!TimesOut
  BY <1>2, ControlStep
<1>3. CASE Mass!Dispatch
  <2>1. PICK i \in DOMAIN st : st[i].job = 0 /\ Mass!Submit(i)
    BY <1>3 DEF Mass!Dispatch
  <2>2. Loading /\ UNCHANGED <<mSource, portions, covers, coord, heap, keyed>>
    BY <1>3 DEF Mass!Dispatch, Loading
  <2>3. ~Mass!Succeeded(i)
    BY <2>1, <2>2 DEF LoadInv, PortionInv
  <2> QED
    BY <2>1, <2>2, <2>3, SubmitStep
<1>4. CASE Mass!BuildKey
  BY <1>4, BuildKeyStep
<1>5. ASSUME NEW i \in DOMAIN st, Mass!PollFinished(i)
      PROVE  LoadInv'
  <2>1. coord.pc = "wait" /\ jobs[st[i].job].status = "F"
    BY <1>5 DEF Mass!PollFinished
  <2>2. UNCHANGED <<mSource, portions, coord, jobs, heap, keyed>>
    BY <1>5 DEF Mass!PollFinished
  <2>3. PICK e \in Entries : e = st[i]
    BY DEF LoadInv, LoadTypes
  <2>4. st' = [st EXCEPT ![i] = [st[i] EXCEPT !.done = TRUE, !.failed = e.failed]]
    <3>1. st' = [st EXCEPT ![i] = [e EXCEPT !.done = TRUE]]
      BY <1>5, <2>3 DEF Mass!PollFinished
    <3>2. [e EXCEPT !.done = TRUE] = [e EXCEPT !.done = TRUE, !.failed = e.failed]
      BY DEF Entries
    <3> QED
      BY <2>3, <3>1, <3>2
  <2>5. e.failed \in BOOLEAN
    BY DEF Entries
  <2> QED
    BY <2>1, <2>2, <2>4, <2>5, DoneStep
<1>6. ASSUME NEW i \in DOMAIN st, Mass!PollAborted(i)
      PROVE  LoadInv'
  <2>1. coord.pc = "wait" /\ ~st[i].done /\ Loading
    BY <1>6 DEF Mass!PollAborted, Loading
  <2>2. UNCHANGED <<mSource, portions, covers, coord, heap, keyed>>
    BY <1>6 DEF Mass!PollAborted
  <2>3. CASE st[i].attempts >= MaxAttempts
    <3>1. /\ st' = [st EXCEPT ![i] = [st[i] EXCEPT !.done = TRUE, !.failed = TRUE]]
          /\ UNCHANGED jobs
      BY <1>6, <2>3 DEF Mass!PollAborted
    <3> QED
      BY <2>1, <2>2, <3>1, DoneStep
  <2>4. CASE ~(st[i].attempts >= MaxAttempts)
    <3>1. Mass!Submit(i)
      BY <1>6, <2>4 DEF Mass!PollAborted
    <3>2. ~Mass!Succeeded(i)
      BY <2>1 DEF Mass!Succeeded
    <3> QED
      BY <2>1, <2>2, <3>1, <3>2, SubmitStep
  <2> QED
    BY <2>3, <2>4
<1>7. ASSUME NEW j \in DOMAIN jobs, Mass!Ingest(j)
      PROVE  LoadInv'
  BY <1>7, IngestStep
<1>8. ASSUME NEW j \in DOMAIN jobs, Mass!JobEnds(j) \/ Mass!Abort(j)
      PROVE  LoadInv'
  BY <1>8, JobEndStep
<1>9. CASE UNCHANGED Mass!vars
  <2>1. UNCHANGED <<mSource, portions, coord, st, jobs, heap, keyed>>
    BY <1>9 DEF Mass!vars
  <2> QED
    BY <2>1 DEF LoadInv, LoadTypes, PortionInv, LoadedInv, Loading, InPortion, RowsOfJob,
                Mass!Within, Mass!Succeeded, Mass!SuccessIsComplete
<1> QED
  BY <1>1, <1>2, <1>3, <1>4, <1>5, <1>6, <1>7, <1>8, <1>9 DEF Mass!Next

-------------------------------------------------------------------------------
(* The portions of a load, and of a split for its own sake.                 *)

CutsInv ==
    /\ \A i \in DOMAIN portions : portions[i] \in Pieces
    /\ \A v \in covers : HeldOnce(portions, v)

LEMMA CutsSteps ==
    ASSUME Mass!LoadAssumption, mSource \in Tables, CutsInv, [Mass!Next]_(Mass!vars)
    PROVE  CutsInv'
<1>1. ASSUME NEW s, /\ \A i \in DOMAIN s.p : s.p[i] \in Pieces
                    /\ \A v \in s.of : HeldOnce(s.p, v),
             portions' = s.p, covers' = s.of
      PROVE  CutsInv'
  BY <1>1 DEF CutsInv, HeldOnce, Holders
<1>2. CASE Mass!Start
  <2>1. PICK s \in Mass!PlanSplit : portions' = s.p /\ covers' = s.of
    BY <1>2 DEF Mass!Start
  <2> QED
    BY <1>1, <2>1, SplitCovers
<1>3. CASE Mass!Split
  <2>1. PICK s \in Mass!OtherSplits : portions' = s.p /\ covers' = s.of
    BY <1>3 DEF Mass!Split
  <2> QED
    BY <1>1, <2>1, OtherSplitsCover
<1>4. CASE UNCHANGED <<portions, covers>>
  BY <1>4 DEF CutsInv, HeldOnce, Holders
<1>5. Mass!Start \/ Mass!Split \/ UNCHANGED <<portions, covers>>
  BY DEF Mass!Next, Mass!vars, Mass!Dispatch, Mass!NoJob, Mass!AllStarted, Mass!TimesOut,
         Mass!BuildKey, Mass!PollFinished, Mass!PollAborted, Mass!Ingest, Mass!JobEnds, Mass!Abort
<1> QED
  BY <1>2, <1>3, <1>4, <1>5

LEMMA OneHolder ==
    ASSUME CutsInv
    PROVE  EachValueInOnePortion
<1>1. ASSUME NEW v \in covers
      PROVE  Cardinality(Holders(portions, v)) = 1
  <2>1. PICK i : Holders(portions, v) = {i}
    BY DEF CutsInv, HeldOnce
  <2>2. Cardinality({i}) = 1
    BY FS_Singleton
  <2> QED
    BY <2>1, <2>2
<1>2. \A v \in covers : Mass!Cardinality(Holders(portions, v)) = 1
  BY <1>1, SameCount
<1> QED
  BY <1>2 DEF EachValueInOnePortion, Mass!EachValueInOnePortion, Holders

\* Whatever the strategy, the source, the number of rows per portion, the histogram
\* and the period, each value that a split is asked to cover falls into one portion.
THEOREM EachValueOnce ==
    Mass!Spec => []EachValueInOnePortion
<1>1. Mass!Init => LoadInv /\ CutsInv
  <2>1. Mass!Init => LoadInv
    BY LoadInit
  <2>2. Mass!Init => portions = <<>> /\ covers = {}
    BY DEF Mass!Init
  <2>3. portions = <<>> /\ covers = {} => CutsInv
    BY DEF CutsInv
  <2> QED
    BY <2>1, <2>2, <2>3
<1>2. LoadInv /\ CutsInv /\ [Mass!Next]_(Mass!vars) => LoadInv' /\ CutsInv'
  <2>1. SUFFICES ASSUME LoadInv, CutsInv, [Mass!Next]_(Mass!vars)
                 PROVE  LoadInv' /\ CutsInv'
    OBVIOUS
  <2>2. mSource \in Tables
    BY <2>1 DEF LoadInv, LoadTypes
  <2>3. LoadInv'
    BY <2>1, LoadAssumption, LoadSteps
  <2>4. CutsInv'
    BY <2>1, <2>2, LoadAssumption, CutsSteps
  <2> QED
    BY <2>3, <2>4
<1>3. CutsInv => EachValueInOnePortion
  BY OneHolder
<1> QED
  BY <1>1, <1>2, <1>3, PTL DEF Mass!Spec

\* A load that reports success has brought every row of the source once, with
\* jobs that abort half-way and are started again, and with the jobs of earlier
\* loads that still append: whatever range-cutting strategy, size of the source,
\* of a portion and of a package, and number of attempts, loads and faults.
THEOREM LoadIsComplete ==
    Mass!Spec => []SuccessIsComplete
<1>1. Mass!Init => LoadInv
  BY LoadInit
<1>2. LoadInv /\ [Mass!Next]_(Mass!vars) => LoadInv'
  BY LoadAssumption, LoadSteps
<1>3. LoadInv => SuccessIsComplete
  BY DEF LoadInv, SuccessIsComplete
<1> QED
  BY <1>1, <1>2, <1>3, PTL DEF Mass!Spec

-------------------------------------------------------------------------------
(* A validation, for any keys, fingerprints, rows and size of a sample.     *)

LEMMA SameCard == \A S : Val!Cardinality(S) = Cardinality(S)
BY DEF Val!Cardinality, Cardinality

\* A set of numbers that has 0 and goes on has them all.
LEMMA AllNumbers ==
    ASSUME NEW S, 0 \in S, \A n \in Nat : n \in S => n + 1 \in S
    PROVE  Nat \subseteq S
<1>1. SUFFICES ASSUME Nat \ S # {}
               PROVE  FALSE
  OBVIOUS
<1>2. PICK n \in Nat \ S : \A m \in Nat \ S : n <= m
  BY <1>1, LeastExists
<1>3. n - 1 \in Nat /\ ~(n <= n - 1)
  BY <1>2
<1>4. n - 1 \in S
  BY <1>2, <1>3
<1> QED
  BY <1>2, <1>3, <1>4

\* How often r is among the first i of s.
Among(s, i, r) == Cardinality({j \in 1 .. i : s[j] = r})

LEMMA AmongGrows ==
    ASSUME NEW s, NEW r, NEW i \in Nat
    PROVE  /\ Among(s, i, r) \in Nat /\ Among(s, 0, r) = 0
           /\ Among(s, i + 1, r) = Among(s, i, r) + (IF s[i + 1] = r THEN 1 ELSE 0)
<1>1. PICK A : A = {j \in 1 .. i : s[j] = r}
  OBVIOUS
<1>2. IsFiniteSet(A) /\ Cardinality(A) \in Nat
  <2>1. IsFiniteSet(1 .. i) /\ A \subseteq 1 .. i
    BY <1>1, FS_Interval
  <2> QED
    BY <2>1, FS_Subset, FS_CardinalityType
<1>3. {j \in 1 .. i + 1 : s[j] = r} = IF s[i + 1] = r THEN A \cup {i + 1} ELSE A
  BY <1>1
<1>4. i + 1 \notin A
  BY <1>1
<1>5. Cardinality(A \cup {i + 1}) = Cardinality(A) + 1
  BY <1>2, <1>4, FS_AddElement
<1>6. {j \in 1 .. 0 : s[j] = r} = {}
  OBVIOUS
<1>7. Among(s, 0, r) = 0
  BY <1>6, FS_EmptySet DEF Among
<1>8. Among(s, i, r) = Cardinality(A)
  BY <1>1 DEF Among
<1>9. Among(s, i + 1, r) = Cardinality(IF s[i + 1] = r THEN A \cup {i + 1} ELSE A)
  BY <1>3 DEF Among
<1> QED
  BY <1>2, <1>5, <1>7, <1>8, <1>9

LEMMA AmongIsLess ==
    ASSUME NEW s, NEW r, NEW n \in Nat, NEW i \in 0 .. n
    PROVE  /\ Among(s, i, r) <= Among(s, n, r)
           /\ \A j \in 0 .. n : i < j /\ s[j] = r => Among(s, i, r) < Among(s, j, r)
<1> DEFINE K == {d \in Nat : Among(s, i, r) <= Among(s, i + d, r)}
<1>1. 0 \in K
  <2>1. Among(s, i, r) \in Nat /\ i + 0 = i
    BY AmongGrows
  <2> QED
    BY <2>1
<1>2. ASSUME NEW d \in Nat, d \in K
      PROVE  d + 1 \in K
  <2>1. PICK j \in Nat : j = i + d /\ i + (d + 1) = j + 1
    OBVIOUS
  <2>2. /\ Among(s, i, r) \in Nat /\ Among(s, j, r) \in Nat /\ Among(s, j + 1, r) \in Nat
        /\ Among(s, j + 1, r) >= Among(s, j, r)
    BY <2>1, AmongGrows
  <2> QED
    BY <1>2, <2>1, <2>2
<1> HIDE DEF K
<1>3. Nat \subseteq K
  BY <1>1, <1>2, AllNumbers
<1>4. ASSUME NEW m \in Nat, i <= m
      PROVE  Among(s, i, r) <= Among(s, m, r)
  <2>1. m - i \in K /\ i + (m - i) = m
    BY <1>3, <1>4
  <2> QED
    BY <2>1 DEF K
<1>5. ASSUME NEW j \in 0 .. n, i < j, s[j] = r
      PROVE  Among(s, i, r) < Among(s, j, r)
  <2>1. PICK m \in Nat : m = j - 1 /\ m + 1 = j /\ i <= m
    BY <1>5
  <2>2. Among(s, m + 1, r) = Among(s, m, r) + 1 /\ Among(s, m, r) \in Nat /\ Among(s, i, r) \in Nat
    BY <1>5, <2>1, AmongGrows
  <2>3. Among(s, i, r) <= Among(s, m, r)
    BY <1>4, <2>1
  <2> QED
    BY <2>1, <2>2, <2>3
<1> QED
  BY <1>4, <1>5

LEMMA CopiesIsAmong ==
    ASSUME NEW s \in Seq(Val!Rows), NEW r
    PROVE  Val!Copies(r, s) = Among(s, Len(s), r)
<1>1. DOMAIN s = 1 .. Len(s)
  BY LenProperties
<1> QED
  BY <1>1, SameCard DEF Val!Copies, Among

InBag(bag) == UNION {{r} \X (1 .. bag[r]) : r \in Val!Rows}

LEMMA SizeFacts ==
    ASSUME Val!ValidationAssumption, NEW bag \in Val!Counts
    PROVE  /\ IsFiniteSet(InBag(bag)) /\ Val!Size(bag) = Cardinality(InBag(bag))
           /\ Val!Size(bag) \in Nat
           /\ Val!Size(bag) = 0 <=> \A r \in Val!Rows : bag[r] = 0
<1>1. IsFiniteSet(Val!Rows \X (1 .. MaxRows))
  <2>1. IsFiniteSet(Val!Rows)
    <3>1. IsFiniteSet(RowKeys) /\ IsFiniteSet(Prints)
      BY DEF Val!ValidationAssumption, Val!IsFiniteSet, IsFiniteSet
    <3> QED
      BY <3>1, FS_Product DEF Val!Rows
  <2>2. IsFiniteSet(1 .. MaxRows)
    BY FS_Interval DEF Val!ValidationAssumption
  <2> QED
    BY <2>1, <2>2, FS_Product
<1>2. InBag(bag) \subseteq Val!Rows \X (1 .. MaxRows)
  <2>1. SUFFICES ASSUME NEW r \in Val!Rows, NEW x \in {r} \X (1 .. bag[r])
                 PROVE  x \in Val!Rows \X (1 .. MaxRows)
    BY DEF InBag
  <2>2. bag[r] \in 0 .. MaxRows /\ MaxRows \in Nat
    BY DEF Val!Counts, Val!ValidationAssumption
  <2> QED
    BY <2>2
<1>3. IsFiniteSet(InBag(bag))
  BY <1>1, <1>2, FS_Subset
<1>4. Val!Size(bag) = Cardinality(InBag(bag))
  BY SameCard DEF Val!Size, InBag
<1>5. InBag(bag) = {} <=> \A r \in Val!Rows : bag[r] = 0
  <2>1. ASSUME \A r \in Val!Rows : bag[r] = 0
        PROVE  InBag(bag) = {}
    BY <2>1 DEF InBag
  <2>2. ASSUME InBag(bag) = {}, NEW r \in Val!Rows
        PROVE  bag[r] = 0
    <3>1. bag[r] \in Nat /\ <<r, 1>> \notin {r} \X (1 .. bag[r])
      BY <2>2 DEF InBag, Val!Counts
    <3> QED
      BY <3>1
  <2> QED
    BY <2>1, <2>2
<1> QED
  BY <1>3, <1>4, <1>5, FS_EmptySet, FS_CardinalityType

\* A bag that holds a list, and no more rows than that, holds nothing else.
LEMMA NothingElse ==
    ASSUME Val!ValidationAssumption, NEW bag \in Val!Counts, NEW s \in Seq(Val!Rows),
           \A r \in Val!Rows : bag[r] >= Val!Copies(r, s), Val!Size(bag) = Len(s)
    PROVE  \A r \in Val!Rows : bag[r] = Val!Copies(r, s)
<1>1. PICK n \in Nat : n = Len(s) /\ DOMAIN s = 1 .. n
  BY LenProperties
<1>2. \A i \in 1 .. n : s[i] \in Val!Rows
  BY <1>1, ElementOfSeq
<1>3. PICK f : f = [i \in 1 .. n |-> <<s[i], Among(s, i, s[i])>>]
  OBVIOUS
<1>4. ASSUME NEW r \in Val!Rows
      PROVE  /\ bag[r] \in Nat /\ Among(s, n, r) <= bag[r]
             /\ Val!Copies(r, s) = Among(s, n, r) /\ Among(s, n, r) \in Nat
  BY <1>1, CopiesIsAmong, AmongGrows DEF Val!Counts
<1>5. ASSUME NEW i \in 1 .. n
      PROVE  Among(s, i, s[i]) \in 1 .. Among(s, n, s[i])
  <2>1. Among(s, 0, s[i]) = 0 /\ Among(s, i, s[i]) \in Nat /\ Among(s, n, s[i]) \in Nat
    BY AmongGrows
  <2>2. Among(s, 0, s[i]) < Among(s, i, s[i])
    <3>1. 0 \in 0 .. n /\ i \in 0 .. n /\ 0 < i
      OBVIOUS
    <3> QED
      BY <3>1, AmongIsLess
  <2>3. Among(s, i, s[i]) <= Among(s, n, s[i])
    BY AmongIsLess
  <2> QED
    BY <2>1, <2>2, <2>3
<1>6. f \in [1 .. n -> InBag(bag)]
  <2>1. ASSUME NEW i \in 1 .. n
        PROVE  <<s[i], Among(s, i, s[i])>> \in InBag(bag)
    <3>1. PICK r \in Val!Rows : r = s[i]
      BY <1>2
    <3>2. Among(s, i, r) \in 1 .. bag[r]
      BY <1>4, <1>5, <3>1
    <3>3. <<r, Among(s, i, r)>> \in {r} \X (1 .. bag[r])
      BY <3>2
    <3> QED
      BY <3>1, <3>3 DEF InBag
  <2> QED
    BY <1>3, <2>1
<1>7. IsInjective(f)
  <2>1. ASSUME NEW i \in 1 .. n, NEW j \in 1 .. n, i < j
        PROVE  f[i] # f[j]
    <3>1. SUFFICES ASSUME s[i] = s[j]
                   PROVE  Among(s, i, s[i]) # Among(s, j, s[j])
      BY <1>3
    <3>2. PICK r : r = s[j]
      OBVIOUS
    <3>3. i \in 0 .. n /\ j \in 0 .. n /\ s[j] = r
      BY <3>2
    <3>4. Among(s, i, r) < Among(s, j, r)
      BY <2>1, <3>3, AmongIsLess
    <3>5. Among(s, i, r) \in Nat /\ Among(s, j, r) \in Nat
      <4>1. i \in Nat /\ j \in Nat
        OBVIOUS
      <4> QED
        BY <4>1, AmongGrows
    <3> QED
      BY <3>1, <3>2, <3>4, <3>5
  <2>2. ASSUME NEW i \in 1 .. n, NEW j \in 1 .. n, f[i] = f[j]
        PROVE  i = j
    <3>1. i < j \/ j < i \/ i = j
      OBVIOUS
    <3> QED
      BY <2>1, <2>2, <3>1
  <2> QED
    BY <1>3, <2>2 DEF IsInjective
<1>8. f \in Surjection(1 .. n, InBag(bag))
  <2>1. f \in Injection(1 .. n, InBag(bag))
    BY <1>6, <1>7 DEF Injection
  <2>2. IsFiniteSet(1 .. n) /\ Cardinality(1 .. n) = n
    <3>1. 1 \in Int /\ n \in Int /\ (IF 1 > n THEN 0 ELSE n - 1 + 1) = n
      OBVIOUS
    <3> QED
      BY <3>1, FS_Interval
  <2>3. IsFiniteSet(InBag(bag)) /\ Cardinality(InBag(bag)) = n
    BY <1>1, SizeFacts
  <2> QED
    BY <2>1, <2>2, <2>3, FS_Injection
<1>9. ASSUME NEW r \in Val!Rows, bag[r] # Val!Copies(r, s)
      PROVE  FALSE
  <2>1. Among(s, n, r) < bag[r] /\ bag[r] \in Nat
    BY <1>4, <1>9
  <2>2. <<r, bag[r]>> \in {r} \X (1 .. bag[r])
    BY <1>4, <2>1
  <2>3. <<r, bag[r]>> \in InBag(bag)
    BY <2>2 DEF InBag
  <2>4. PICK i \in 1 .. n : f[i] = <<r, bag[r]>>
    BY <1>8, <2>3 DEF Surjection
  <2>5. s[i] = r /\ Among(s, i, r) = bag[r]
    BY <1>3, <2>4
  <2>6. Among(s, i, r) <= Among(s, n, r)
    BY <1>5, <1>4, <2>5
  <2> QED
    BY <1>4, <2>1, <2>5, <2>6
<1> QED
  BY <1>9

-------------------------------------------------------------------------------
(* The rows that were sent, compared one by one.                            *)
Seen == [mine : Val!Counts, bad : Nat]

LEMMA PairFacts ==
    ASSUME Val!ValidationAssumption, NEW seen \in Seen, NEW row \in Val!Rows
    PROVE  /\ Val!Pair(seen, row) \in Seen
           /\ seen.mine[row] > 0 =>
                /\ Val!Pair(seen, row).bad = seen.bad
                /\ \A r \in Val!Rows : Val!Pair(seen, row).mine[r] =
                                          seen.mine[r] - (IF r = row THEN 1 ELSE 0)
           /\ ~(seen.mine[row] > 0) => Val!Pair(seen, row).bad = seen.bad + 1
<1>1. PICK m \in Val!Counts, b \in Nat : seen = [mine |-> m, bad |-> b]
  BY DEF Seen
<1>2. \A r \in Val!Rows : m[r] \in 0 .. MaxRows
  BY DEF Val!Counts
<1>3. MaxRows \in Nat
  BY DEF Val!ValidationAssumption
<1>4. ASSUME NEW q \in Val!Rows, m[q] > 0
      PROVE  [m EXCEPT ![q] = @ - 1] \in Val!Counts
  <2>1. m[q] - 1 \in 0 .. MaxRows
    BY <1>2, <1>3, <1>4
  <2> QED
    BY <2>1 DEF Val!Counts
<1>5. CASE m[row] > 0
  <2>1. Val!Pair(seen, row) = [mine |-> [m EXCEPT ![row] = @ - 1], bad |-> b]
    BY <1>1, <1>5 DEF Val!Pair
  <2>2. \A r \in Val!Rows : [m EXCEPT ![row] = @ - 1][r] = m[r] - (IF r = row THEN 1 ELSE 0)
    BY <1>2, <1>3 DEF Val!Counts
  <2>3. [m EXCEPT ![row] = @ - 1] \in Val!Counts
    BY <1>4, <1>5
  <2>4. PICK w \in Val!Counts : w = [m EXCEPT ![row] = @ - 1]
    BY <2>3
  <2>5. [mine |-> w, bad |-> b] \in Seen
    BY DEF Seen
  <2>6. Val!Pair(seen, row) = [mine |-> w, bad |-> b]
    BY <2>1, <2>4
  <2>7. \A r \in Val!Rows : w[r] = m[r] - (IF r = row THEN 1 ELSE 0)
    BY <2>2, <2>4
  <2>8. seen.mine = m /\ seen.bad = b
    BY <1>1
  <2> QED
    BY <1>5, <2>5, <2>6, <2>7, <2>8
<1>6. CASE ~(m[row] > 0)
  <2>1. PICK w : w = IF \E p \in Prints : m[<<row[1], p>>] > 0
                     THEN [m EXCEPT ![<<row[1], CHOOSE p \in Prints : m[<<row[1], p>>] > 0>>] = @ - 1]
                     ELSE m
    OBVIOUS
  <2>2. Val!Pair(seen, row) = [bad |-> b + 1, mine |-> w]
    BY <1>1, <1>6, <2>1 DEF Val!Pair
  <2>3. w \in Val!Counts
    <3>1. CASE \E p \in Prints : m[<<row[1], p>>] > 0
      <4>1. PICK p \in Prints : p = (CHOOSE x \in Prints : m[<<row[1], x>>] > 0)
                                /\ m[<<row[1], p>>] > 0
        BY <3>1
      <4>2. PICK q \in Val!Rows : q = <<row[1], p>>
        BY DEF Val!Rows
      <4>3. w = [m EXCEPT ![q] = @ - 1]
        BY <2>1, <3>1, <4>1, <4>2
      <4> QED
        BY <1>4, <4>1, <4>2, <4>3
    <3>2. CASE ~\E p \in Prints : m[<<row[1], p>>] > 0
      BY <2>1, <3>2
    <3> QED
      BY <3>1, <3>2
  <2> QED
    BY <1>1, <1>6, <2>2, <2>3 DEF Seen
<1> QED
  BY <1>5, <1>6

\* The function that compares row after row exists.
OneByOne(f, n, base, s) ==
    f = [i \in 0 .. n |-> IF i = 0 THEN base ELSE Val!Pair(f[i - 1], s[i])]

LEMMA Compares == \A s, base : \A n \in Nat : \E f : OneByOne(f, n, base, s)
<1> SUFFICES ASSUME NEW s, NEW base, NEW n \in Nat
             PROVE  \E f : OneByOne(f, n, base, s)
  OBVIOUS
<1> DEFINE K == {k \in Nat : \E f : f = [i \in 0 .. k |->
                                            IF i = 0 THEN base ELSE Val!Pair(f[i - 1], s[i])]}
<1>1. 0 \in K
  <2>1. PICK f : f = [i \in 0 .. 0 |-> base]
    OBVIOUS
  <2>2. f = [i \in 0 .. 0 |-> IF i = 0 THEN base ELSE Val!Pair(f[i - 1], s[i])]
    BY <2>1
  <2> QED
    BY <2>2
<1>2. ASSUME NEW k \in Nat, k \in K
      PROVE  k + 1 \in K
  <2>1. PICK f : f = [i \in 0 .. k |-> IF i = 0 THEN base ELSE Val!Pair(f[i - 1], s[i])]
    BY <1>2
  <2>2. PICK g : g = [i \in 0 .. k + 1 |-> IF i <= k THEN f[i] ELSE Val!Pair(f[k], s[k + 1])]
    OBVIOUS
  <2>3. ASSUME NEW i \in 0 .. k + 1
        PROVE  g[i] = IF i = 0 THEN base ELSE Val!Pair(g[i - 1], s[i])
    <3>1. CASE i = 0
      BY <2>1, <2>2, <3>1
    <3>2. CASE i # 0 /\ i <= k
      <4>1. g[i] = f[i] /\ g[i - 1] = f[i - 1] /\ f[i] = Val!Pair(f[i - 1], s[i])
        BY <2>1, <2>2, <3>2
      <4> QED
        BY <3>2, <4>1
    <3>3. CASE i = k + 1
      <4>1. g[i] = Val!Pair(f[k], s[k + 1]) /\ g[k] = f[k] /\ i - 1 = k /\ i # 0
        BY <2>2, <3>3
      <4> QED
        BY <3>3, <4>1
    <3> QED
      BY <3>1, <3>2, <3>3
  <2>4. g = [i \in 0 .. k + 1 |-> IF i = 0 THEN base ELSE Val!Pair(g[i - 1], s[i])]
    BY <2>2, <2>3
  <2> QED
    BY <2>4
<1> HIDE DEF K
<1>3. n \in K
  BY <1>1, <1>2, AllNumbers
<1> QED
  BY <1>3 DEF K, OneByOne

\* Row after row: as long as none is bad, each has taken its like.
LEMMA ComparedFacts ==
    ASSUME Val!ValidationAssumption, Val!Sent \in Seq(Val!Rows), Val!Mine \in Val!Counts
    PROVE  /\ Val!Compared \in Seen
           /\ Val!Compared.bad = 0 =>
                \A r \in Val!Rows : Val!Compared.mine[r] + Val!Copies(r, Val!Sent) = Val!Mine[r]
           /\ (\A r \in Val!Rows : Val!Mine[r] >= Val!Copies(r, Val!Sent)) => Val!Compared.bad = 0
<1>1. PICK s \in Seq(Val!Rows) : s = Val!Sent
  OBVIOUS
<1>2. PICK n \in Nat : n = Len(s) /\ n = Len(Val!Sent)
  BY <1>1, LenProperties
<1>3. PICK m \in Val!Counts : m = Val!Mine
  OBVIOUS
<1>4. PICK base \in Seen : base = [mine |-> m, bad |-> 0]
  BY DEF Seen
<1>5. PICK f : /\ f = [i \in 0 .. n |-> IF i = 0 THEN base ELSE Val!Pair(f[i - 1], s[i])]
               /\ Val!Compared = f[n]
  <2>1. \E f : OneByOne(f, n, base, s)
    BY Compares
  <2>2. PICK f : f = CHOOSE g : OneByOne(g, n, base, s)
    OBVIOUS
  <2>3. OneByOne(f, n, base, s)
    BY <2>1, <2>2
  <2>4. Val!Compared = f[n]
    BY <1>1, <1>2, <1>3, <1>4, <2>2 DEF Val!Compared, OneByOne
  <2> QED
    BY <2>3, <2>4 DEF OneByOne
<1>6. f[0] = base /\ \A i \in 0 .. n : i + 1 \in 0 .. n => f[i + 1] = Val!Pair(f[i], s[i + 1])
  <2>1. f[0] = base
    BY <1>5
  <2>2. ASSUME NEW i \in 0 .. n, i + 1 \in 0 .. n
        PROVE  f[i + 1] = Val!Pair(f[i], s[i + 1])
    <3>1. PICK j \in 0 .. n : j = i + 1 /\ j # 0 /\ j - 1 = i
      BY <2>2
    <3>2. f[j] = Val!Pair(f[j - 1], s[j])
      BY <1>5, <3>1
    <3> QED
      BY <3>1, <3>2
  <2> QED
    BY <2>1, <2>2
<1>7. \A i \in 1 .. n : s[i] \in Val!Rows
  BY <1>2, ElementOfSeq
<1>8. \A r : Val!Copies(r, Val!Sent) = Among(s, n, r) /\ Among(s, n, r) \in Nat
  BY <1>1, <1>2, CopiesIsAmong, AmongGrows
<1> DEFINE Held(i) == /\ f[i] \in Seen
                      /\ f[i].bad = 0 =>
                           \A r \in Val!Rows : f[i].mine[r] + Among(s, i, r) = m[r]
           Fits == \A r \in Val!Rows : m[r] >= Among(s, n, r)
           K == {i \in Nat : i <= n => Held(i) /\ (Fits => f[i].bad = 0)}
<1>9. 0 \in K
  <2>1. f[0] \in Seen /\ f[0].bad = 0 /\ f[0].mine = m
    BY <1>4, <1>6
  <2>2. \A r \in Val!Rows : m[r] \in Nat /\ Among(s, 0, r) = 0
    BY AmongGrows DEF Val!Counts
  <2> QED
    BY <2>1, <2>2
<1>10. ASSUME NEW i \in Nat, i \in K
       PROVE  i + 1 \in K
  <2>1. SUFFICES ASSUME i + 1 <= n
                 PROVE  Held(i + 1) /\ (Fits => f[i + 1].bad = 0)
    OBVIOUS
  <2>2. PICK j \in 1 .. n : j = i + 1
    BY <2>1
  <2>3. Held(i) /\ (Fits => f[i].bad = 0)
    BY <1>10, <2>1
  <2>4. PICK row \in Val!Rows : row = s[j]
    BY <1>7
  <2>5. PICK seen \in Seen : seen = f[i]
    BY <2>3
  <2>6. PICK next : next = f[j] /\ next = Val!Pair(seen, row)
    BY <1>6, <2>1, <2>2, <2>4, <2>5
  <2>7. /\ next \in Seen
        /\ seen.mine[row] > 0 =>
             /\ next.bad = seen.bad
             /\ \A r \in Val!Rows : next.mine[r] = seen.mine[r] - (IF r = row THEN 1 ELSE 0)
        /\ ~(seen.mine[row] > 0) => next.bad = seen.bad + 1
    BY <2>6, PairFacts
  <2>8. \A r \in Val!Rows : /\ Among(s, j, r) = Among(s, i, r) + (IF r = row THEN 1 ELSE 0)
                            /\ Among(s, i, r) \in Nat
                            /\ seen.mine[r] \in Nat /\ next.mine[r] \in Nat /\ m[r] \in Nat
    <3>1. \A r : Among(s, i + 1, r) = Among(s, i, r) + (IF s[i + 1] = r THEN 1 ELSE 0)
                 /\ Among(s, i, r) \in Nat
      BY AmongGrows
    <3>2. \A r \in Val!Rows : seen.mine[r] \in Nat /\ next.mine[r] \in Nat /\ m[r] \in Nat
      BY <2>7 DEF Seen, Val!Counts
    <3> QED
      BY <2>2, <2>4, <3>1, <3>2
  <2>9. seen.bad \in Nat /\ next.bad \in Nat
    BY <2>7 DEF Seen
  <2>10. next.bad = 0 => \A r \in Val!Rows : next.mine[r] + Among(s, j, r) = m[r]
    <3>1. SUFFICES ASSUME next.bad = 0, NEW r \in Val!Rows
                   PROVE  next.mine[r] + Among(s, j, r) = m[r]
      OBVIOUS
    <3>2. seen.mine[row] > 0 /\ seen.bad = 0
      BY <2>7, <2>9, <3>1
    <3>3. seen.mine[r] + Among(s, i, r) = m[r]
      BY <2>3, <2>5, <3>2
    <3>4. next.mine[r] = seen.mine[r] - (IF r = row THEN 1 ELSE 0)
      BY <2>7, <3>2
    <3>5. PICK a \in Nat, b \in Nat, c \in Nat :
             a = seen.mine[r] /\ b = Among(s, i, r) /\ c = m[r]
      BY <2>8
    <3>6. Among(s, j, r) = b + (IF r = row THEN 1 ELSE 0)
      BY <2>8, <3>5
    <3>7. a + b = c
      BY <3>3, <3>5
    <3>8. next.mine[r] = a - (IF r = row THEN 1 ELSE 0)
      BY <3>4, <3>5
    <3>9. next.mine[r] + Among(s, j, r) = c
      BY <3>6, <3>7, <3>8
    <3> QED
      BY <3>5, <3>9
  <2>11. Fits => next.bad = 0
    <3>1. SUFFICES ASSUME Fits
                   PROVE  next.bad = 0
      OBVIOUS
    <3>2. seen.bad = 0 /\ seen.mine[row] + Among(s, i, row) = m[row]
      BY <2>3, <2>5, <3>1
    <3>3. Among(s, j, row) <= Among(s, n, row)
      <4>1. j \in 0 .. n
        BY <2>2
      <4> QED
        BY <4>1, AmongIsLess
    <3>4. Among(s, n, row) <= m[row] /\ Among(s, n, row) \in Nat
      BY <1>8, <3>1
    <3>5. seen.mine[row] > 0
      BY <2>8, <3>2, <3>3, <3>4
    <3> QED
      BY <2>7, <3>2, <3>5
  <2> QED
    BY <2>2, <2>6, <2>7, <2>10, <2>11
<1> HIDE DEF K
<1>11. n \in K
  BY <1>9, <1>10, AllNumbers
<1>12. Held(n) /\ (Fits => f[n].bad = 0)
  BY <1>11 DEF K
<1> QED
  BY <1>3, <1>5, <1>8, <1>12

-------------------------------------------------------------------------------
ValInv ==
    /\ vSource \in Seq(Val!Rows) /\ mode \in {"sample", "full"}
    /\ Val!TypeOK /\ window \in Val!Counts /\ (mode = "full" => window = replica)
    /\ PassedMeansSame

\* What the rows of a bag and of a list have to do with a verdict.
LEMMA VerdictFacts ==
    ASSUME Val!ValidationAssumption, ValInv
    PROVE  /\ ~(Val!Compared.bad > 0 \/ Val!LeftOver) =>
                 IF mode = "full" \/ Len(vSource) < SampleRows THEN Val!Same
                 ELSE \A r \in Val!Rows : replica[r] >= Val!Copies(r, Val!Sent)
           /\ (Val!Compared.bad > 0 \/ Val!LeftOver) /\ mode = "full" => ~Val!Same
<1>1. SampleRows \in Nat /\ MaxRows \in Nat /\ vSource \in Seq(Val!Rows)
  BY DEF Val!ValidationAssumption, ValInv
<1>2. Val!Sent \in Seq(Val!Rows)
  <2>1. CASE mode = "full" \/ Len(vSource) <= SampleRows
    BY <1>1, <2>1 DEF Val!Sent
  <2>2. CASE ~(mode = "full" \/ Len(vSource) <= SampleRows)
    <3>1. 1 \in 1 .. Len(vSource) + 1 /\ SampleRows \in 0 .. Len(vSource)
      BY <1>1, <2>2, LenProperties
    <3>2. SubSeq(vSource, 1, SampleRows) \in Seq(Val!Rows)
      BY <1>1, <3>1, SubSeqProperties
    <3> QED
      BY <2>2, <3>2 DEF Val!Sent
  <2> QED
    BY <2>1, <2>2
<1>3. /\ Val!Mine \in Val!Counts
      /\ \A r \in Val!Rows : Val!Mine[r] <= replica[r] /\ Val!Mine[r] \in Nat /\ replica[r] \in Nat
  <2>1. \A r \in Val!Rows : window[r] \in 0 .. MaxRows /\ window[r] <= replica[r]
                            /\ replica[r] \in 0 .. MaxRows
    BY DEF ValInv, Val!TypeOK, Val!Counts
  <2>2. \A r \in Val!Rows : Val!Mine[r] = window[r] \/ Val!Mine[r] = 0
    BY DEF Val!Mine
  <2>3. Val!Mine = [r \in Val!Rows |-> Val!Mine[r]]
    BY DEF Val!Mine
  <2>4. \A r \in Val!Rows : Val!Mine[r] \in 0 .. MaxRows
    BY <1>1, <2>1, <2>2
  <2>5. Val!Mine \in Val!Counts
    BY <2>3, <2>4 DEF Val!Counts
  <2> QED
    BY <1>1, <2>1, <2>2, <2>4, <2>5
<1>4. /\ Val!Compared \in Seen
      /\ Val!Compared.bad = 0 =>
           \A r \in Val!Rows : Val!Compared.mine[r] + Val!Copies(r, Val!Sent) = Val!Mine[r]
      /\ (\A r \in Val!Rows : Val!Mine[r] >= Val!Copies(r, Val!Sent)) => Val!Compared.bad = 0
  BY <1>2, <1>3, ComparedFacts
<1>5. Val!Compared.mine \in Val!Counts /\ Val!Compared.bad \in Nat
  BY <1>4 DEF Seen
<1>6. \A r \in Val!Rows : Val!Copies(r, Val!Sent) \in Nat /\ Val!Compared.mine[r] \in Nat
  <2>1. \A r : Val!Copies(r, Val!Sent) \in Nat
    <3>1. Len(Val!Sent) \in Nat
      BY <1>2, LenProperties
    <3> QED
      BY <1>2, <3>1, CopiesIsAmong, AmongGrows
  <2>2. \A r \in Val!Rows : Val!Compared.mine[r] \in Nat
    BY <1>1, <1>5 DEF Val!Counts
  <2> QED
    BY <2>1, <2>2
<1>7. mode = "full" => Val!Sent = vSource /\ \A r \in Val!Rows : Val!Mine[r] = replica[r]
  BY DEF Val!Sent, Val!Mine, ValInv
<1>8. ASSUME ~(Val!Compared.bad > 0 \/ Val!LeftOver)
      PROVE  IF mode = "full" \/ Len(vSource) < SampleRows THEN Val!Same
             ELSE \A r \in Val!Rows : replica[r] >= Val!Copies(r, Val!Sent)
  <2>1. Val!Compared.bad = 0
    BY <1>5, <1>8
  <2>2. \A r \in Val!Rows : Val!Compared.mine[r] + Val!Copies(r, Val!Sent) = Val!Mine[r]
    BY <1>4, <2>1
  <2>3. \A r \in Val!Rows : replica[r] >= Val!Copies(r, Val!Sent)
    BY <1>3, <1>6, <2>2
  <2>4. CASE mode = "full"
    <3>1. ~(Val!Size(Val!Compared.mine) > 0) /\ Val!Size(Val!Compared.mine) \in Nat
      BY <1>5, <1>8, <2>4, SizeFacts DEF Val!LeftOver
    <3>2. \A r \in Val!Rows : Val!Compared.mine[r] = 0
      BY <1>5, <3>1, SizeFacts
    <3>3. \A r \in Val!Rows : replica[r] = Val!Copies(r, vSource)
      BY <1>3, <1>6, <1>7, <2>2, <2>4, <3>2
    <3> QED
      BY <2>4, <3>3 DEF Val!Same
  <2>5. CASE mode # "full" /\ Len(vSource) < SampleRows
    <3>1. mode = "sample" /\ Len(vSource) \in Nat
      BY <1>1, <2>5, LenProperties DEF ValInv
    <3>2. Val!Sent = vSource
      BY <1>1, <2>5, <3>1 DEF Val!Sent
    <3>3. Val!Size(replica) = Len(vSource)
      BY <1>8, <2>5, <3>1 DEF Val!LeftOver
    <3>4. \A r \in Val!Rows : replica[r] = Val!Copies(r, vSource)
      <4>1. replica \in Val!Counts
        BY DEF ValInv, Val!TypeOK
      <4> QED
        BY <1>1, <2>3, <3>2, <3>3, <4>1, NothingElse
    <3> QED
      BY <2>5, <3>4 DEF Val!Same
  <2>6. CASE ~(mode = "full" \/ Len(vSource) < SampleRows)
    BY <2>3, <2>6
  <2> QED
    BY <2>4, <2>5, <2>6
<1>9. ASSUME Val!Compared.bad > 0 \/ Val!LeftOver, mode = "full", Val!Same
      PROVE  FALSE
  <2>1. \A r \in Val!Rows : Val!Mine[r] = Val!Copies(r, Val!Sent)
    BY <1>7, <1>9 DEF Val!Same
  <2>2. Val!Compared.bad = 0
    BY <1>3, <1>4, <1>6, <2>1
  <2>3. \A r \in Val!Rows : Val!Compared.mine[r] = 0
    BY <1>4, <1>6, <2>1, <2>2
  <2>4. Val!Size(Val!Compared.mine) = 0
    BY <1>5, <2>3, SizeFacts
  <2>5. CASE Val!Sent = <<>>
    <3>1. \A r : Val!Copies(r, Val!Sent) = 0
      <4>1. Len(Val!Sent) = 0
        BY <2>5
      <4>2. \A r : Val!Copies(r, Val!Sent) = Among(Val!Sent, 0, r)
        BY <1>2, <4>1, CopiesIsAmong
      <4>3. 0 \in Nat
        OBVIOUS
      <4>4. \A r : Among(Val!Sent, 0, r) = 0
        BY <4>3, AmongGrows
      <4> QED
        BY <4>2, <4>4
    <3>2. Val!Size(Val!Mine) = 0
      BY <1>3, <2>1, <3>1, SizeFacts
    <3> QED
      BY <1>9, <2>2, <2>4, <3>2 DEF Val!LeftOver
  <2>6. CASE Val!Sent # <<>>
    BY <1>9, <2>2, <2>4, <2>6 DEF Val!LeftOver
  <2> QED
    BY <2>5, <2>6
<1> QED
  BY <1>8, <1>9

LEMMA ValStart ==
    ASSUME Val!ValidationAssumption, Val!Init
    PROVE  ValInv
<1>1. vSource \in Seq(Val!Rows)
  <2>1. PICK n \in 0 .. MaxRows : vSource \in [1 .. n -> Val!Rows]
    BY DEF Val!Init
  <2>2. n \in Nat
    BY <2>1 DEF Val!ValidationAssumption
  <2> QED
    BY <2>1, <2>2, SeqDef
<1>2. replica \in Val!Counts /\ window = replica /\ verdict = "none" /\ mode \in {"sample", "full"}
  BY DEF Val!Init
<1>3. \A r \in Val!Rows : window[r] <= replica[r]
  BY <1>2 DEF Val!Counts, Val!ValidationAssumption
<1>4. PassedMeansSame
  BY <1>2 DEF PassedMeansSame, Val!PassedMeansSame
<1> QED
  BY <1>1, <1>2, <1>3, <1>4 DEF ValInv, Val!TypeOK

LEMMA SameVerdict ==
    ASSUME ValInv, UNCHANGED <<vSource, replica, mode>>
    PROVE  /\ Val!Same' <=> Val!Same
           /\ \A r \in Val!Rows : Val!Copies(r, Val!Sent)' = Val!Copies(r, Val!Sent)
           /\ Len(vSource)' = Len(vSource)
BY DEF Val!Same, Val!Copies, Val!Sent

LEMMA ValSteps ==
    ASSUME Val!ValidationAssumption, ValInv, [Val!Next]_checked
    PROVE  ValInv'
<1>1. CASE UNCHANGED checked
  <2>1. UNCHANGED <<vSource, replica, window, mode, verdict>>
    BY <1>1 DEF checked
  <2> QED
    BY <2>1 DEF ValInv, Val!TypeOK, PassedMeansSame, Val!PassedMeansSame, Val!Same, Val!Copies, Val!Sent
<1>2. CASE Val!Limit
  <2>1. /\ verdict = "none" /\ verdict' = "none" /\ mode = "sample" /\ mode' = mode
        /\ vSource' = vSource /\ replica' = replica
    BY <1>2 DEF Val!Limit
  <2>2. PICK q \in Val!Rows : window[q] > 0 /\ window' = [window EXCEPT ![q] = @ - 1]
    BY <1>2 DEF Val!Limit
  <2>3. window \in [Val!Rows -> 0 .. MaxRows] /\ MaxRows \in Nat
    BY DEF ValInv, Val!Counts, Val!ValidationAssumption
  <2>4. window[q] - 1 \in 0 .. MaxRows
    BY <2>2, <2>3
  <2>5. window' \in [Val!Rows -> 0 .. MaxRows]
    BY <2>2, <2>3, <2>4
  <2>6. \A r \in Val!Rows : replica[r] \in 0 .. MaxRows /\ window[r] <= replica[r]
    BY DEF ValInv, Val!TypeOK, Val!Counts
  <2>7. \A r \in Val!Rows : window'[r] <= replica'[r]
    BY <2>1, <2>2, <2>3, <2>6
  <2>8. PassedMeansSame'
    BY <2>1 DEF PassedMeansSame, Val!PassedMeansSame
  <2>9. vSource' \in Seq(Val!Rows) /\ mode' \in {"sample", "full"} /\ replica' \in Val!Counts
    BY <2>1 DEF ValInv, Val!TypeOK
  <2> QED
    BY <2>1, <2>5, <2>7, <2>8, <2>9 DEF ValInv, Val!TypeOK, Val!Counts
<1>3. CASE Val!Validate
  <2>1. /\ UNCHANGED <<vSource, replica, window, mode>>
        /\ verdict' = IF Val!Compared.bad > 0 \/ Val!LeftOver THEN "FAILED" ELSE "PASSED"
    BY <1>3 DEF Val!Validate
  <2>2. /\ verdict' = "PASSED" => ~(Val!Compared.bad > 0 \/ Val!LeftOver)
        /\ verdict' = "FAILED" => Val!Compared.bad > 0 \/ Val!LeftOver
        /\ verdict' \in {"none", "PASSED", "FAILED"}
    BY <2>1
  <2>3. /\ verdict' = "PASSED" =>
             IF mode = "full" \/ Len(vSource) < SampleRows THEN Val!Same
             ELSE \A r \in Val!Rows : replica[r] >= Val!Copies(r, Val!Sent)
        /\ verdict' = "FAILED" /\ mode = "full" => ~Val!Same
    BY <2>2, VerdictFacts
  <2>4. PassedMeansSame'
    BY <2>1, <2>3, SameVerdict DEF PassedMeansSame, Val!PassedMeansSame
  <2> QED
    BY <2>1, <2>2, <2>4 DEF ValInv, Val!TypeOK
<1> QED
  BY <1>1, <1>2, <1>3 DEF Val!Next

\* Whatever rows the source and the replica hold, whatever order they have and
\* whatever the size of the sample: a validation that passes has found the rows
\* that it compared, and a full one that fails has found a difference.
THEOREM PassedIsSame ==
    Val!Init /\ [][Val!Next]_checked => []PassedMeansSame
<1>1. Val!Init => ValInv
  BY ValidationAssumption, ValStart
<1>2. ValInv /\ [Val!Next]_checked => ValInv'
  BY ValidationAssumption, ValSteps
<1>3. ValInv => PassedMeansSame
  BY DEF ValInv
<1> QED
  BY <1>1, <1>2, <1>3, PTL

-------------------------------------------------------------------------------
(* The types of all of them.                                                *)

\* The types of the log do not ask for one writer.
LEMMA LogTypeSteps ==
    ASSUME Log!PublishAssumption, Log!TypeOK, [Log!Next]_(Log!vars)
    PROVE  Log!TypeOK'
<1>1. /\ nextSeq \in 1 .. MaxSeq + 1 /\ MaxSeq \in Nat /\ writing \in [Writers -> SUBSET Log!Rows]
      /\ log \subseteq past /\ past \subseteq Log!Rows /\ got \in [Subs -> SUBSET past]
      /\ sub \in [Subs -> Subscriptions] /\ pCall \in [Drivers -> SubCalls]
  BY DEF Log!TypeOK, Log!PublishAssumption, Subscriptions, SubCalls
<1>2. Log!NoCall \in SubCalls /\ \A b \in 0 .. MaxSeq :
         [Log!NoCall EXCEPT !.op = "prune", !.bound = b] \in SubCalls
  <2>1. PICK s \in Subs : s = CHOOSE t \in Subs : TRUE
    BY DEF Log!PublishAssumption
  <2>2. Log!NoCall = [op |-> "none", sub |-> s, offset |-> 0, bound |-> 0]
    BY <2>1 DEF Log!NoCall
  <2>3. Log!NoCall \in SubCalls
    BY <1>1, <2>2 DEF SubCalls
  <2>4. ASSUME NEW b \in 0 .. MaxSeq
        PROVE  [Log!NoCall EXCEPT !.op = "prune", !.bound = b] \in SubCalls
    <3>1. PICK z \in SubCalls : z = Log!NoCall
      BY <2>3
    <3>2. [z EXCEPT !.op = "prune", !.bound = b] \in SubCalls
      BY <1>1 DEF SubCalls
    <3> QED
      BY <3>1, <3>2
  <2> QED
    BY <2>3, <2>4
<1>3. ASSUME NEW d \in Drivers, NEW f \in SubCalls, Log!Goes(d, f),
             UNCHANGED <<nextSeq, writing, log, past, sub, got>>
      PROVE  Log!TypeOK'
  <2>1. pCall' \in [Drivers -> SubCalls]
    BY <1>1, <1>3 DEF Log!Goes
  <2> QED
    BY <1>1, <1>3, <2>1 DEF Log!TypeOK, Subscriptions, SubCalls
<1>4. CASE UNCHANGED Log!vars
  BY <1>4 DEF Log!vars, Log!TypeOK
<1>5. ASSUME NEW w \in Writers, NEW k \in LogKeys, Log!Log(w, k)
      PROVE  Log!TypeOK'
  <2>1. PICK z : z = [seq |-> nextSeq, key |-> k]
    OBVIOUS
  <2>2. /\ writing' = [writing EXCEPT ![w] = @ \cup {z}] /\ nextSeq <= MaxSeq
        /\ nextSeq' = nextSeq + 1 /\ UNCHANGED <<log, past, sub, got, pCall>>
    BY <1>5, <2>1 DEF Log!Log
  <2>3. z \in Log!Rows
    BY <1>1, <2>1, <2>2 DEF Log!Rows
  <2>4. writing' \in [Writers -> SUBSET Log!Rows] /\ nextSeq' \in 1 .. MaxSeq + 1
    BY <1>1, <2>2, <2>3
  <2> QED
    BY <1>1, <2>2, <2>4 DEF Log!TypeOK, Subscriptions, SubCalls
<1>6. ASSUME NEW w \in Writers, Log!End(w)
      PROVE  Log!TypeOK'
  <2>1. PICK C \in {writing[w], {}} : log' = log \cup C /\ past' = past \cup C
    BY <1>6 DEF Log!End
  <2>2. writing' = [writing EXCEPT ![w] = {}] /\ UNCHANGED <<nextSeq, sub, got, pCall>>
    BY <1>6 DEF Log!End
  <2>3. C \subseteq Log!Rows
    BY <1>1, <2>1
  <2>4. /\ writing' \in [Writers -> SUBSET Log!Rows] /\ log' \subseteq past'
        /\ past' \subseteq Log!Rows /\ got' \in [Subs -> SUBSET past']
    BY <1>1, <2>1, <2>2, <2>3
  <2> QED
    BY <1>1, <2>2, <2>4 DEF Log!TypeOK, Subscriptions, SubCalls
<1>7. ASSUME NEW s \in Subs, Log!CreateSubscription(s)
      PROVE  Log!TypeOK'
  <2>1. PICK z : z = Log!New(nextSeq - 1)
    OBVIOUS
  <2>2. z \in Subscriptions
    BY <1>1, <2>1 DEF Log!New, Subscriptions
  <2>3. sub' = [sub EXCEPT ![s] = z] /\ UNCHANGED <<nextSeq, writing, log, past, got, pCall>>
    BY <1>7, <2>1 DEF Log!CreateSubscription
  <2>4. sub' \in [Subs -> Subscriptions]
    BY <1>1, <2>2, <2>3
  <2> QED
    BY <1>1, <2>3, <2>4 DEF Log!TypeOK, Subscriptions, SubCalls
<1>8. ASSUME NEW d \in Drivers, NEW s \in Subs, Log!ReadOffset(d, s)
      PROVE  Log!TypeOK'
  <2>1. PICK f : f = [op |-> "offset", sub |-> s, offset |-> sub[s].offset, bound |-> 0]
    OBVIOUS
  <2>2. f \in SubCalls
    BY <1>1, <2>1 DEF SubCalls, Subscriptions
  <2>3. Log!Goes(d, f) /\ UNCHANGED <<nextSeq, writing, log, past, sub, got>>
    BY <1>8, <2>1 DEF Log!ReadOffset
  <2> QED
    BY <1>3, <2>2, <2>3
<1>9. ASSUME NEW d \in Drivers, Log!ReadHighest(d)
      PROVE  Log!TypeOK'
  <2>1. UNCHANGED <<nextSeq, writing, log, past, sub, got>>
    BY <1>9 DEF Log!ReadHighest
  <2>2. CASE Log!Ends(d)
    BY <1>2, <1>3, <2>1, <2>2 DEF Log!Ends
  <2>3. CASE Log!Goes(d, [pCall[d] EXCEPT !.op = "publish", !.bound = Log!Highest(log)])
    <3>1. PICK b \in 0 .. MaxSeq : b = Log!Highest(log)
      <4>1. log \in SUBSET Log!Rows /\ MaxSeq \in Nat
        BY <1>1
      <4> QED
        BY <4>1, HighestIsHighest
    <3>2. PICK f : f = [pCall[d] EXCEPT !.op = "publish", !.bound = b]
      OBVIOUS
    <3>3. f \in SubCalls
      BY <1>1, <3>2 DEF SubCalls
    <3>4. Log!Goes(d, f)
      BY <2>3, <3>1, <3>2
    <3> QED
      BY <1>3, <2>1, <3>3, <3>4
  <2> QED
    BY <1>9, <2>2, <2>3 DEF Log!ReadHighest
<1>10. ASSUME NEW d \in Drivers, Log!PublishAndAdvance(d)
       PROVE  Log!TypeOK'
  <2>1. PICK s \in Subs : s = pCall[d].sub
    BY <1>1 DEF SubCalls
  <2>2. PICK D : D = Log!Deduplicated(s, Log!Batch(d))
    OBVIOUS
  <2>3. D \subseteq past
    BY <1>1, <2>2 DEF Log!Deduplicated, Log!Batch
  <2>4. PICK b \in 0 .. MaxSeq : b = pCall[d].bound
    BY <1>1 DEF SubCalls
  <2>5. /\ got' = [got EXCEPT ![s] = @ \cup D] /\ sub' = [sub EXCEPT ![s].offset = b]
        /\ pCall' = [pCall EXCEPT ![d] = Log!NoCall] /\ UNCHANGED <<nextSeq, writing, log, past>>
    BY <1>10, <2>1, <2>2, <2>4 DEF Log!PublishAndAdvance, Log!NewOffset, Log!Ends, Log!Goes
  <2>6. sub' \in [Subs -> Subscriptions]
    <3>1. PICK z : z = [sub[s] EXCEPT !.offset = b]
      OBVIOUS
    <3>2. z \in Subscriptions /\ sub' = [sub EXCEPT ![s] = z]
      BY <1>1, <2>5, <3>1 DEF Subscriptions
    <3> QED
      BY <1>1, <3>2
  <2>7. got' \in [Subs -> SUBSET past] /\ pCall' \in [Drivers -> SubCalls]
    BY <1>1, <1>2, <2>3, <2>5
  <2> QED
    BY <1>1, <2>5, <2>6, <2>7 DEF Log!TypeOK, Subscriptions, SubCalls
<1>11. ASSUME NEW d \in Drivers, Log!ReadLowWater(d)
       PROVE  Log!TypeOK'
  <2>1. /\ Log!Offsets # {} /\ UNCHANGED <<nextSeq, writing, log, past, sub, got>>
        /\ Log!Goes(d, [Log!NoCall EXCEPT !.op = "prune", !.bound = Log!LowWater])
    BY <1>11 DEF Log!ReadLowWater
  <2>2. Log!LowWater \in 0 .. MaxSeq
    BY <2>1, LowWaterIsLowest
  <2> QED
    BY <1>2, <1>3, <2>1, <2>2
<1>12. ASSUME NEW d \in Drivers, Log!Prune(d)
       PROVE  Log!TypeOK'
  <2>1. log' \subseteq log /\ UNCHANGED <<nextSeq, writing, past, sub, got>>
        /\ pCall' = [pCall EXCEPT ![d] = Log!NoCall]
    BY <1>12 DEF Log!Prune, Log!Ends, Log!Goes
  <2>2. pCall' \in [Drivers -> SubCalls]
    BY <1>1, <1>2, <2>1
  <2> QED
    BY <1>1, <2>1, <2>2 DEF Log!TypeOK, Subscriptions, SubCalls
<1>13. ASSUME NEW d \in Drivers, Log!CallFails(d)
       PROVE  Log!TypeOK'
  <2>1. Log!Goes(d, Log!NoCall) /\ UNCHANGED <<nextSeq, writing, log, past, sub, got>>
    BY <1>13 DEF Log!CallFails, Log!Ends
  <2> QED
    BY <1>2, <1>3, <2>1
<1> QED
  BY <1>4, <1>5, <1>6, <1>7, <1>8, <1>9, <1>10, <1>11, <1>12, <1>13 DEF Log!Next

\* A portion has as many attempts as jobs were started for it, up to the bound.
LoadRest ==
    /\ mFaults \in 0 .. LoadFaults
    /\ coord.pc \in {"idle", "dispatch", "wait", "ok", "error"}
    /\ \A i \in DOMAIN st : st[i].attempts \in 0 .. MaxAttempts
                            /\ (st[i].job = 0 => st[i].attempts = 0)

LEMMA AttemptsStep ==
    ASSUME Mass!LoadAssumption, LoadTypes, LoadRest, NEW i \in DOMAIN st,
           Mass!Submit(i), st[i].attempts < MaxAttempts
    PROVE  \A k \in DOMAIN st' : st'[k].attempts \in 0 .. MaxAttempts
                                 /\ (st'[k].job = 0 => st'[k].attempts = 0)
<1>1. PICK n \in Nat : n = Len(jobs) + 1 /\ n # 0
  BY JobTypes
<1>2. PICK a \in 0 .. MaxAttempts : a = st[i].attempts + 1
  BY DEF LoadRest, Mass!LoadAssumption
<1>3. PICK r \in Entries : r = st[i]
  BY DEF LoadTypes
<1>4. st' = [st EXCEPT ![i] = [r EXCEPT !.job = n, !.attempts = a]]
  BY <1>1, <1>2, <1>3 DEF Mass!Submit, LoadTypes
<1>5. PICK e : e = [r EXCEPT !.job = n, !.attempts = a]
  OBVIOUS
<1>6. e.job = n /\ e.attempts = a
  BY <1>5 DEF Entries
<1>7. DOMAIN st' = DOMAIN st /\ \A k \in DOMAIN st : st'[k] = IF k = i THEN e ELSE st[k]
  BY <1>4, <1>5 DEF LoadTypes
<1> QED
  BY <1>1, <1>6, <1>7 DEF LoadRest

LEMMA RestSteps ==
    ASSUME Mass!LoadAssumption, LoadInv, LoadRest, [Mass!Next]_(Mass!vars)
    PROVE  LoadRest'
<1>1. LoadTypes /\ MaxAttempts \in Nat \ {0} /\ LoadFaults \in Nat
  BY DEF LoadInv, Mass!LoadAssumption
<1>2. ASSUME NEW pc \in {"idle", "dispatch", "wait", "ok", "error"}, Mass!Goes(pc)
      PROVE  coord'.pc = pc
  BY <1>1, <1>2 DEF Mass!Goes, LoadTypes
<1>3. Mass!Fault => mFaults' \in 0 .. LoadFaults
  BY <1>1 DEF Mass!Fault, LoadRest
<1>4. CASE UNCHANGED <<coord, st>> /\ (mFaults' = mFaults \/ Mass!Fault)
  BY <1>3, <1>4 DEF LoadRest
<1>5. CASE Mass!Start
  <2>1. PICK s : st' = [i \in DOMAIN s.p |-> [job |-> 0, attempts |-> 0, done |-> FALSE, failed |-> FALSE]]
    BY <1>5 DEF Mass!Start
  <2>2. coord'.pc = "dispatch" /\ mFaults' = mFaults
    BY <1>5 DEF Mass!Start
  <2> QED
    BY <1>1, <2>1, <2>2 DEF LoadRest
<1>6. CASE Mass!Split
  BY <1>6 DEF Mass!Split, LoadRest
<1>7. CASE Mass!Dispatch
  <2>1. PICK i \in DOMAIN st : st[i].job = 0 /\ Mass!Submit(i)
    BY <1>7 DEF Mass!Dispatch
  <2>2. st[i].attempts < MaxAttempts
    BY <1>1, <2>1 DEF LoadRest
  <2>3. coord' = coord /\ mFaults' = mFaults
    BY <1>7 DEF Mass!Dispatch
  <2> QED
    BY <1>1, <2>1, <2>2, <2>3, AttemptsStep DEF LoadRest
<1>8. CASE Mass!NoJob \/ Mass!TimesOut
  BY <1>2, <1>3, <1>8 DEF Mass!NoJob, Mass!TimesOut, LoadRest
<1>9. CASE Mass!AllStarted
  BY <1>2, <1>9 DEF Mass!AllStarted, LoadRest
<1>10. CASE Mass!BuildKey
  BY <1>2, <1>10 DEF Mass!BuildKey, LoadRest
<1>11. ASSUME NEW i \in DOMAIN st, Mass!PollFinished(i)
       PROVE  LoadRest'
  <2>1. st' = [st EXCEPT ![i].done = TRUE] /\ coord' = coord /\ mFaults' = mFaults
    BY <1>11 DEF Mass!PollFinished
  <2>2. DOMAIN st' = DOMAIN st /\ \A k \in DOMAIN st : st'[k].attempts = st[k].attempts
                                                     /\ st'[k].job = st[k].job
    BY <1>1, <2>1 DEF LoadTypes, Entries
  <2> QED
    BY <2>1, <2>2 DEF LoadRest
<1>12. ASSUME NEW i \in DOMAIN st, Mass!PollAborted(i)
       PROVE  LoadRest'
  <2>1. coord' = coord /\ mFaults' = mFaults
    BY <1>12 DEF Mass!PollAborted
  <2>2. CASE st[i].attempts >= MaxAttempts
    <3>1. st' = [st EXCEPT ![i] = [st[i] EXCEPT !.done = TRUE, !.failed = TRUE]]
      BY <1>12, <2>2 DEF Mass!PollAborted
    <3>2. DOMAIN st' = DOMAIN st /\ \A k \in DOMAIN st : st'[k].attempts = st[k].attempts
                                                       /\ st'[k].job = st[k].job
      BY <1>1, <3>1 DEF LoadTypes, Entries
    <3> QED
      BY <2>1, <3>2 DEF LoadRest
  <2>3. CASE ~(st[i].attempts >= MaxAttempts)
    <3>1. Mass!Submit(i) /\ st[i].attempts < MaxAttempts
      BY <1>1, <1>12, <2>3 DEF Mass!PollAborted, LoadRest
    <3> QED
      BY <1>1, <2>1, <3>1, AttemptsStep DEF LoadRest
  <2> QED
    BY <2>2, <2>3
<1>13. ASSUME NEW j \in DOMAIN jobs, Mass!Ingest(j) \/ Mass!JobEnds(j) \/ Mass!Abort(j)
       PROVE  LoadRest'
  <2>1. UNCHANGED <<coord, st>> /\ (mFaults' = mFaults \/ Mass!Fault)
    BY <1>13 DEF Mass!Ingest, Mass!JobEnds, Mass!Abort
  <2> QED
    BY <1>4, <2>1
<1>14. CASE UNCHANGED Mass!vars
  BY <1>4, <1>14 DEF Mass!vars
<1> QED
  BY <1>5, <1>6, <1>7, <1>8, <1>9, <1>10, <1>11, <1>12, <1>13, <1>14 DEF Mass!Next

LEMMA LoadTypesOK ==
    ASSUME LoadInv, CutsInv, LoadRest
    PROVE  Mass!TypeOK
<1>1. mSource \in Tables /\ keyed \in BOOLEAN
  BY DEF LoadInv, LoadTypes
<1>2. \A i \in DOMAIN portions : portions[i].lo <= portions[i].hi
  BY DEF CutsInv, Pieces
<1>3. \A i \in DOMAIN st : st[i].job \in 0 .. Len(jobs)
  BY JobTypes DEF LoadInv, LoadTypes, Entries
<1>4. \A j \in DOMAIN jobs : jobs[j].status \in {"R", "F", "A"}
  BY JobTypes DEF LoadInv, WorkerJobs
<1> QED
  BY <1>1, <1>2, <1>3, <1>4 DEF Mass!TypeOK, LoadRest

DeltaPart == TypeOK /\ IInv

LoadPart == LoadInv /\ CutsInv /\ LoadRest

\* The variables of every way keep their types; among others, no portion of a load is
\* empty and no portion has more attempts than it may.
THEOREM TypesOfEveryWay == MCSpec => []TypesOK
<1>1. MCInit => DeltaPart /\ FullInv /\ Log!TypeOK /\ LoadPart /\ ValInv
  <2>1. SUFFICES ASSUME MCInit
                 PROVE  DeltaPart /\ FullInv /\ Log!TypeOK /\ LoadPart /\ ValInv
    OBVIOUS
  <2>2. Init /\ Full!Init /\ Log!Init /\ Mass!Init /\ Val!Init
    BY <2>1 DEF MCInit
  <2>3. DeltaPart
    BY <2>2, InvInit DEF DeltaPart
  <2>4. FullInv
    BY <2>2, ImagesAssumption, FullStart
  <2>5. Log!TypeOK
    BY <2>2, PublishAssumption, LogStart DEF LogInv
  <2>6. LoadInv
    BY <2>2, LoadInit
  <2>7. CutsInv
    BY <2>2 DEF Mass!Init, CutsInv
  <2>8. LoadRest
    <3>1. st = <<>> /\ mFaults = 0 /\ coord.pc = "idle"
      BY <2>2 DEF Mass!Init
    <3> QED
      BY <3>1, LoadAssumption DEF LoadRest, Mass!LoadAssumption
  <2>9. ValInv
    BY <2>2, ValidationAssumption, ValStart
  <2> QED
    BY <2>3, <2>4, <2>5, <2>6, <2>7, <2>8, <2>9 DEF LoadPart
<1>2. [MCNext]_MCVars =>
        /\ [Next]_vars /\ [Full!Next]_(Full!vars) /\ [Log!Next]_(Log!vars)
        /\ [Mass!Next]_(Mass!vars) /\ [Val!Next]_checked
  <2>1. /\ UNCHANGED fullVars => UNCHANGED Full!vars
        /\ UNCHANGED logVars => UNCHANGED Log!vars
        /\ UNCHANGED loadVars => UNCHANGED Mass!vars
    BY DEF fullVars, logVars, loadVars, Full!vars, Full!server, Log!vars, Mass!vars
  <2> QED
    BY <2>1 DEF MCNext, MCVars, DeltaStep, FullStep, PublishStep, LoadStep, CheckStep
<1>3. DeltaPart /\ [Next]_vars => DeltaPart'
  BY InvStep DEF DeltaPart
<1>4. FullInv /\ [Full!Next]_(Full!vars) => FullInv'
  BY ImagesAssumption, FullSteps
<1>5. Log!TypeOK /\ [Log!Next]_(Log!vars) => Log!TypeOK'
  BY PublishAssumption, LogTypeSteps
<1>6. LoadPart /\ [Mass!Next]_(Mass!vars) => LoadPart'
  <2>1. SUFFICES ASSUME LoadInv, CutsInv, LoadRest, [Mass!Next]_(Mass!vars)
                 PROVE  LoadInv' /\ CutsInv' /\ LoadRest'
    BY DEF LoadPart
  <2>2. mSource \in Tables
    BY <2>1 DEF LoadInv, LoadTypes
  <2>3. LoadInv'
    BY <2>1, LoadAssumption, LoadSteps
  <2>4. CutsInv'
    BY <2>1, <2>2, LoadAssumption, CutsSteps
  <2>5. LoadRest'
    BY <2>1, LoadAssumption, RestSteps
  <2> QED
    BY <2>3, <2>4, <2>5
<1>7. ValInv /\ [Val!Next]_checked => ValInv'
  BY ValidationAssumption, ValSteps
<1>8. DeltaPart /\ FullInv /\ Log!TypeOK /\ LoadPart /\ ValInv => TypesOK
  BY LoadTypesOK DEF DeltaPart, FullInv, LoadPart, ValInv, TypesOK
<1> QED
  BY <1>1, <1>2, <1>3, <1>4, <1>5, <1>6, <1>7, <1>8, PTL DEF MCSpec

===============================================================================
