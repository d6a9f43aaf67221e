---------------------------- MODULE ApeDeltaProofs ----------------------------
(***************************************************************************)
(* Safety of ApeDelta for any packages, any number of handed-out packages  *)
(* and any number of faults, and that it implements the ordered inbox.     *)
(*                                                                         *)
(* OneOwed is not inductive by itself.  IInv adds where the job is in its  *)
(* stream of packages (InboxInv), what a post may find when it starts and  *)
(* leaves when it answers (PostInv), and how far a merge is (MergeInv).    *)
(***************************************************************************)
EXTENDS ApeDelta, FiniteSetTheorems, SequenceTheorems, TLAPS

-------------------------------------------------------------------------------
(* Facts about the operators. *)

\* The replay of one copy is a sequence of one batch.
LEMMA AscendingOne ==
    ASSUME NEW b
    PROVE  Ascending({b}) = <<b>>
<1> DEFINE P(s) == \A i, j \in 1 .. 1 : i < j => s[i] < s[j]
<1>1. Cardinality({b}) = 1
  BY FS_Singleton
<1>2. Ascending({b}) = CHOOSE s \in [1 .. 1 -> {b}] : P(s)
  BY <1>1 DEF Ascending
<1>3. [i \in 1 .. 1 |-> b] \in [1 .. 1 -> {b}] /\ P([i \in 1 .. 1 |-> b])
  OBVIOUS
<1>4. (CHOOSE s \in [1 .. 1 -> {b}] : P(s)) \in [1 .. 1 -> {b}]
  BY <1>3
<1>5. \A s \in [1 .. 1 -> {b}] : s = <<b>>
  OBVIOUS
<1> QED
  BY <1>2, <1>4, <1>5

\* A package that is merged twice leaves the rows it leaves when merged once.
LEMMA ApplyTwice ==
    ASSUME NEW p, NEW rows
    PROVE  Apply(p, Apply(p, rows)) = Apply(p, rows)
BY DEF Apply

-------------------------------------------------------------------------------
(* The inductive invariant. *)

CallRec == [kind : Calls, step : Steps, batch : Nat \cup {-1}, no : 0 .. Len(stream), todo : Seq(Nat)]

Programs == {"off", "recover", "poll", "purge"}

JobRec == [pc : Programs, inbox : Seq(1 .. Len(stream)), post : Nat, seen : 0 .. Len(stream)]

\* Packages of this cycle and of earlier ones that the job no longer holds.
Delivered == Len(stream) - Len(job.inbox)

\* The copy of that batch, and only it, is owed: it is of the package copied last.
Owes(b) == Owed = {[batch |-> b, no |-> taken]}

\* A batch index has one crash copy.
CopiesInv == \A c, d \in spill : c.batch = d.batch => c = d

\* Which call the job waits for.
RunInv ==
    /\ job.pc = "recover" => call.kind = "recover" /\ job.inbox = <<>>
    /\ job.pc = "poll" => call.kind \in {"none", "post"}
    /\ job.pc = "purge" => call.kind = "purge" /\ job.inbox = <<>>

\* The job posts what it was handed in order, and what it has posted was copied.
InboxInv ==
    job.pc \in {"poll", "purge"} =>
       /\ Len(job.inbox) <= Len(stream) /\ job.seen <= Delivered
       /\ \A i \in 1 .. Len(job.inbox) : job.inbox[i] = Delivered + i
       /\ \A n \in job.seen + 1 .. Delivered : Kind(n) = "data" => n <= taken
       /\ taken <= Delivered \/ (call.kind = "post" /\ taken = call.no)
       /\ call.kind = "none" => job.post > spillBatch
       /\ call.kind = "post" => Len(job.inbox) > 0 /\ call.no = Delivered + 1 /\ call.batch = job.post

\* What a post finds when it is checked, and what it leaves when it is answered.
PostInv ==
    call.kind = "post" =>
       /\ call.no > 0 /\ call.batch >= 0 /\ call.step # "clean"
       /\ call.step = "check" => Owed = {} /\ call.batch > spillBatch /\ taken < call.no
       /\ call.step \in {"delete", "merge", "move"} => taken = call.no
       /\ call.step = "ok" =>
             Owed = {} /\ call.batch >= spillBatch /\ (Kind(call.no) = "control" \/ taken = call.no)

\* A merge works on the one copy that is owed.
MergeInv ==
    call.kind \in {"post", "recover"} =>
       /\ call.step \in {"delete", "merge"} => call.todo = <<call.batch>> 
       /\ call.step \in {"delete", "merge", "move"} => Owes(call.batch)
       /\ call.step = "merge" => \A k \in stream[taken].del : target[k] = Null
       /\ call.step = "move" => Apply(stream[taken], target) = target

\* Between the calls, after a replay and in a purge nothing is owed.
RestInv ==
    /\ call.kind = "none" => call = NoCall /\ (job.pc = "poll" => Owed = {})
    /\ call.kind = "recover" =>
          /\ call.step = "clean" => Owed = {} /\ spillBatch = call.batch
          /\ call.step = "ok" => Owed = {}
    /\ call.kind = "purge" =>
          /\ Owed = {} /\ call.step \in {"check", "clean", "ok", "error"}
          /\ call.step = "clean" => spill = {}

IInv == CopiesInv /\ OneOwed /\ RunInv /\ InboxInv /\ PostInv /\ MergeInv /\ RestInv

\* The batch that is merged is the copy of the package taken last.
LEMMA CurrentTaken ==
    ASSUME TypeOK, CopiesInv, MergeInv, RestInv, call.step \in {"delete", "merge"}
    PROVE  /\ call.kind \in {"post", "recover"}
           /\ call.todo = <<call.batch>> /\ call.batch \in Nat
           /\ taken \in 1 .. Len(stream)
           /\ Current = stream[taken] /\ Current \in Package
<1> DEFINE c == [batch |-> call.batch, no |-> taken]
<1>1. call.kind \in {"post", "recover"}
  BY DEF TypeOK, Calls, RestInv, NoCall
<1>2. call.todo = <<call.batch>> /\ Owed = {c}
  BY <1>1 DEF MergeInv, Owes
<1>3. c \in spill /\ \A d \in spill : d.batch = call.batch => d = c
  BY <1>2 DEF Owed, CopiesInv
<1>4. c.batch \in Nat /\ c.no \in 1 .. Len(stream)
  BY <1>3 DEF TypeOK
<1>5. Copy(call.batch) = c
  BY <1>3 DEF Copy
<1>6. Current = stream[taken]
  BY <1>2, <1>5 DEF Current
<1>7. stream[taken] \in Packages
  BY <1>4 DEF TypeOK
<1> QED
  BY <1>1, <1>2, <1>4, <1>6, <1>7, ApeDeltaAssumption

-------------------------------------------------------------------------------
(* Every step keeps the types. *)

\* Each action leaves the variables in their types.
LEMMA TypeStep ==
    ASSUME TypeOK, IInv, Next
    PROVE  TypeOK'
<1>1. /\ job \in JobRec /\ call \in CallRec
      /\ Len(stream) \in Nat /\ Len(stream) \in 0 .. Len(stream)
  BY DEF TypeOK, JobRec, CallRec, Programs
<1>2. {"check", "delete", "merge", "move", "clean", "ok", "error"} \subseteq Steps
  BY DEF Steps
<1>3. <<>> \in Seq(Nat) /\ \A b \in Nat : <<b>> \in Seq(Nat)
  OBVIOUS
<1>4. /\ Off \in JobRec /\ NoCall \in CallRec
      /\ New("recover", -1, 0) \in CallRec /\ New("purge", -1, 0) \in CallRec
  BY <1>1, <1>2, <1>3 DEF Off, NoCall, New, JobRec, CallRec, Calls, Steps, Programs
<1>5. ASSUME job' \in JobRec, call' \in CallRec, UNCHANGED <<stream, server, faults>>
      PROVE  TypeOK'
  BY <1>5 DEF TypeOK, server, JobRec, CallRec, Programs
<1>6. ASSUME Fault PROVE faults' \in 0 .. MaxFaults
  BY <1>6, ApeDeltaAssumption DEF Fault, TypeOK
<1>7. CASE StartCycle
  <2>1. [Off EXCEPT !.pc = "recover"] \in JobRec
    BY <1>4 DEF JobRec, Programs
  <2> QED
    BY <1>4, <1>5, <1>7, <2>1 DEF StartCycle
<1>8. CASE CreateGraph
  <2>1. spillBatch + 1 \in Nat
    BY DEF TypeOK
  <2>2. job' \in JobRec
    BY <1>1, <1>8, <2>1 DEF CreateGraph, FirstBatch, JobRec, Programs
  <2> QED
    BY <1>4, <1>5, <1>8, <2>2 DEF CreateGraph
<1>9. CASE Roundtrip
  <2>1. PICK n \in 1 .. PerPoll : \E got \in [1 .. n -> Packages] :
           /\ stream' = stream \o got
           /\ job' = [job EXCEPT !.inbox = [i \in 1 .. n |-> Len(stream) + i]]
    BY <1>9 DEF Roundtrip
  <2>2. PICK got \in [1 .. n -> Packages] : stream' = stream \o got
    BY <2>1
  <2>3. n \in Nat /\ got \in Seq(Packages) /\ Len(got) = n
    BY ApeDeltaAssumption
  <2>4. stream' \in Seq(Packages) /\ Len(stream') = Len(stream) + n
    <3>1. stream \in Seq(Packages)
      BY DEF TypeOK
    <3> QED
      BY <2>2, <2>3, <3>1, ConcatProperties
  <2>5. [i \in 1 .. n |-> Len(stream) + i] \in Seq(1 .. Len(stream'))
    <3>1. \A i \in 1 .. n : Len(stream) + i \in 1 .. Len(stream')
      BY <1>1, <2>3, <2>4
    <3> QED
      BY <2>3, <3>1
  <2>6. 0 .. Len(stream) \subseteq 0 .. Len(stream') /\ 1 .. Len(stream) \subseteq 1 .. Len(stream')
    BY <1>1, <2>3, <2>4
  <2>7. job' \in JobRec'
    BY <1>1, <2>1, <2>5, <2>6 DEF JobRec
  <2>8. call' \in CallRec'
    BY <1>1, <1>9, <2>6 DEF Roundtrip, CallRec
  <2>9. spill' \subseteq [batch : Nat, no : 1 .. Len(stream')]
    BY <1>9, <2>6 DEF Roundtrip, TypeOK, server
  <2> QED
    BY <1>9, <2>4, <2>6, <2>7, <2>8, <2>9 DEF Roundtrip, TypeOK, server, JobRec, CallRec, Programs
<1>10. CASE Post
  <2>1. Head(job.inbox) \in 0 .. Len(stream)
    <3>1. job.inbox \in Seq(1 .. Len(stream)) /\ job.inbox # <<>>
      BY <1>1, <1>10 DEF Post, JobRec
    <3> QED
      BY <1>1, <3>1
  <2>2. call' \in CallRec
    BY <1>1, <1>2, <1>3, <1>10, <2>1 DEF Post, New, CallRec, JobRec, Calls
  <2> QED
    BY <1>1, <1>5, <1>10, <2>2 DEF Post
<1>11. CASE Posted
  <2>1. job.inbox \in Seq(1 .. Len(stream)) /\ job.post + 1 \in Nat /\ job.inbox # <<>>
    BY <1>1, <1>11 DEF Posted, JobRec, IInv, InboxInv
  <2>2. Tail(job.inbox) \in Seq(1 .. Len(stream))
    BY <2>1, HeadTailProperties
  <2>3. job' \in JobRec
    BY <1>1, <1>11, <2>1, <2>2 DEF Posted, JobRec
  <2> QED
    BY <1>4, <1>5, <1>11, <2>3 DEF Posted
<1>12. CASE Failed \/ GraphFails \/ CycleEnds \/ JobDies \/ Unheard
  <2>1. job' \in JobRec /\ call' \in CallRec /\ UNCHANGED <<stream, server>>
    BY <1>1, <1>4, <1>12 DEF Failed, OnError, GraphFails, CycleEnds, JobDies, Unheard
  <2>2. faults' \in 0 .. MaxFaults
    BY <1>6, <1>12 DEF Failed, GraphFails, CycleEnds, JobDies, Unheard, TypeOK
  <2> QED
    BY <2>1, <2>2 DEF TypeOK, server, JobRec, CallRec, Programs
<1>13. CASE Drained
  <2>1. [job EXCEPT !.pc = "purge"] \in JobRec
    BY <1>1 DEF JobRec, Programs
  <2> QED
    BY <1>4, <1>5, <1>13, <2>1 DEF Drained
<1>14. ASSUME NEW s \in Steps, NEW q \in Seq(Nat)
       PROVE  /\ [call EXCEPT !.step = s] \in CallRec
              /\ [call EXCEPT !.step = s, !.todo = q] \in CallRec
              /\ [call EXCEPT !.todo = q, !.step = s] \in CallRec
              /\ \A b \in Nat : [call EXCEPT !.step = s, !.todo = q, !.batch = b] \in CallRec
  BY <1>1, <1>14 DEF CallRec
<1>15. \A s \in Steps : Answers(s) => call' \in CallRec
  BY <1>3, <1>14 DEF Answers
<1>16. CASE NothingToApply \/ Refuse \/ CannotClassify \/ CannotCast
  BY <1>1, <1>2, <1>5, <1>15, <1>16 DEF NothingToApply, Refuse, CannotClassify, CannotCast
<1>17. CASE CallFails
  <2>1. call' \in CallRec /\ faults' \in 0 .. MaxFaults /\ UNCHANGED <<stream, job, server>>
    BY <1>2, <1>6, <1>15, <1>17 DEF CallFails
  <2> QED
    BY <2>1 DEF TypeOK, server, CallRec
<1>18. CASE Spill
  <2>1. call.batch \in Nat /\ call.no \in 1 .. Len(stream)
    BY <1>1, <1>18 DEF Spill, Working, IInv, PostInv, CallRec
  <2>2. call' \in CallRec
    BY <1>2, <1>3, <1>14, <1>18, <2>1 DEF Spill
  <2>3. spill' \subseteq [batch : Nat, no : 1 .. Len(stream)]
    BY <1>18, <2>1 DEF Spill, CrashCopy, TypeOK
  <2> QED
    BY <1>1, <1>18, <2>1, <2>2, <2>3 DEF Spill, TypeOK, CallRec
<1>19. CASE ReadSpill
  <2>1. CASE Owed = {}
    <3>1. call' = [call EXCEPT !.step = "ok"]
      BY <1>19, <2>1 DEF ReadSpill, Replayed
    <3>2. call' \in CallRec
      BY <1>2, <1>3, <1>14, <3>1
    <3> QED
      BY <1>1, <1>5, <1>19, <3>2 DEF ReadSpill
  <2>2. CASE Owed # {}
    <3>1. PICK c \in Owed : \A d \in Owed : c = d
      BY <2>2 DEF IInv, OneOwed
    <3>2. {d.batch : d \in Owed} = {c.batch} /\ c.batch \in Nat
      BY <3>1 DEF Owed, TypeOK
    <3>3. Ascending({d.batch : d \in Owed}) = <<c.batch>>
      BY <3>2, AscendingOne
    <3>4. call' = [call EXCEPT !.step = "delete", !.todo = <<c.batch>>, !.batch = c.batch]
      <4> DEFINE todo == <<c.batch>>
      <4>1. todo[Len(todo)] = c.batch
        OBVIOUS
      <4>2. call' = [call EXCEPT !.step = "delete", !.todo = todo, !.batch = todo[Len(todo)]]
        BY <1>19, <2>2, <3>3 DEF ReadSpill, Replayed
      <4> QED
        BY <4>1, <4>2
    <3>5. call' \in CallRec
      BY <1>2, <1>3, <1>14, <3>2, <3>4
    <3> QED
      BY <1>1, <1>5, <1>19, <3>5 DEF ReadSpill
  <2> QED
    BY <2>1, <2>2
<1>20. CASE DeleteKeys
  <2>1. target' \in [Keys -> Row]
    BY <1>20 DEF DeleteKeys, AfterDelete, Row, TypeOK
  <2>2. call' \in CallRec
    BY <1>2, <1>3, <1>14, <1>20 DEF DeleteKeys
  <2> QED
    BY <1>20, <2>1, <2>2 DEF DeleteKeys, TypeOK, CallRec
<1>21. CASE MergeRows
  <2>1. call.todo = <<call.batch>> /\ call.batch \in Nat /\ Current \in Package
    BY <1>21, CurrentTaken DEF MergeRows, Working, IInv
  <2>2. target' \in [Keys -> Row]
    BY <1>21, <2>1 DEF MergeRows, AfterMerge, Package, TypeOK
  <2>3. Tail(call.todo) \in Seq(Nat)
    BY <2>1
  <2>4. call' \in CallRec
    BY <1>2, <1>14, <1>21, <2>3 DEF MergeRows
  <2> QED
    BY <1>21, <2>2, <2>4 DEF MergeRows, TypeOK, CallRec
<1>22. CASE MovePosition \/ DropReplayed \/ Purge
  <2>1. call' \in CallRec
    BY <1>2, <1>3, <1>14, <1>15, <1>22 DEF MovePosition, DropReplayed, Purge
  <2>2. spillBatch' \in Nat \cup {-1} /\ spill' \subseteq [batch : Nat, no : 1 .. Len(stream)]
    BY <1>1, <1>22 DEF MovePosition, DropReplayed, Purge, PurgeOrder, TypeOK, CallRec
  <2> QED
    BY <1>22, <2>1, <2>2 DEF MovePosition, DropReplayed, Purge, TypeOK, CallRec
<1> QED
  BY <1>7, <1>8, <1>9, <1>10, <1>11, <1>12, <1>13, <1>16, <1>17, <1>18, <1>19, <1>20, <1>21, <1>22
     DEF Next, JobStep, ServerStep

-------------------------------------------------------------------------------
(* Every step keeps the invariant. *)

\* What is owed depends on the copies and on the merged position alone.
LEMMA CopiesStay ==
    ASSUME CopiesInv, OneOwed, UNCHANGED <<spill, spillBatch, taken>>
    PROVE  CopiesInv' /\ OneOwed' /\ Owed' = Owed
BY DEF CopiesInv, OneOwed, Owed

\* A post that was answered moves the job to its next package.
LEMMA InboxPosted ==
    ASSUME TypeOK, TypeOK', RunInv, InboxInv, PostInv, Posted
    PROVE  InboxInv'
<1> DEFINE q == job.inbox
           n == Len(stream)
<1>1. /\ q \in Seq(1 .. n) /\ Len(q) \in Nat /\ n \in Nat /\ Len(q) > 0
      /\ job.post \in Nat /\ job.seen \in Nat /\ taken \in Nat
      /\ spillBatch \in Nat \cup {-1}
  BY DEF TypeOK, InboxInv, Posted
<1>2. q # <<>>
  BY <1>1
<1>3. /\ Len(Tail(q)) = Len(q) - 1
      /\ \A i \in 1 .. Len(Tail(q)) : Tail(q)[i] = q[i + 1]
  BY <1>1, <1>2, HeadTailProperties
<1>4. /\ job' = [job EXCEPT !.inbox = Tail(q), !.post = job.post + 1]
      /\ UNCHANGED <<stream, taken, spillBatch>> /\ call' = NoCall
      /\ job.pc = "poll" /\ call.kind = "post" /\ call.step = "ok"
  BY DEF Posted, server
<1>5. /\ job'.inbox = Tail(q) /\ job'.post = job.post + 1 /\ job'.pc = "poll" /\ job'.seen = job.seen
      /\ call'.kind = "none"
  BY <1>4 DEF TypeOK, NoCall
<1>6. Delivered' = Delivered + 1 /\ Delivered \in Int /\ call.no = Delivered + 1
  <2>1. Delivered' = n - (Len(q) - 1) /\ Delivered = n - Len(q)
    BY <1>3, <1>4, <1>5 DEF Delivered
  <2>2. call.no = Delivered + 1
    BY <1>4 DEF InboxInv
  <2> QED
    BY <1>1, <2>1, <2>2
<1>7. Len(Tail(q)) <= n /\ job.seen <= Delivered + 1
  BY <1>1, <1>3, <1>4, <1>6 DEF InboxInv
<1>8. \A i \in 1 .. Len(Tail(q)) : Tail(q)[i] = Delivered + 1 + i
  <2> TAKE i \in 1 .. Len(Tail(q))
  <2>1. i + 1 \in 1 .. Len(q) /\ Tail(q)[i] = q[i + 1]
    BY <1>1, <1>3
  <2>2. q[i + 1] = Delivered + (i + 1)
    BY <1>4, <2>1 DEF InboxInv
  <2> QED
    BY <1>6, <2>1, <2>2
<1>9. taken <= Delivered + 1
  BY <1>1, <1>4, <1>6 DEF InboxInv
<1>10. \A m \in job.seen + 1 .. Delivered + 1 : Kind(m) = "data" => m <= taken
  BY <1>1, <1>4, <1>6 DEF InboxInv, PostInv
<1>11. job.post + 1 > spillBatch
  BY <1>1, <1>4 DEF InboxInv, PostInv
<1> QED
  BY <1>3, <1>4, <1>5, <1>6, <1>7, <1>8, <1>9, <1>10, <1>11 DEF InboxInv, Kind

\* The packages of a roundtrip follow those handed out before.
LEMMA InboxRoundtrip ==
    ASSUME TypeOK, TypeOK', RunInv, InboxInv, RestInv, Roundtrip
    PROVE  InboxInv'
<1> DEFINE l == Len(stream)
<1>1. PICK n \in 1 .. PerPoll : \E got \in [1 .. n -> Packages] :
           /\ stream' = stream \o got
           /\ job' = [job EXCEPT !.inbox = [i \in 1 .. n |-> l + i]]
  BY DEF Roundtrip
<1>2. PICK got \in [1 .. n -> Packages] : stream' = stream \o got
  BY <1>1
<1>3. n \in Nat /\ got \in Seq(Packages) /\ Len(got) = n /\ stream \in Seq(Packages) /\ l \in Nat
  BY ApeDeltaAssumption DEF TypeOK
<1>4. Len(stream') = l + n /\ \A i \in 1 .. l : stream'[i] = stream[i]
  <2>1. /\ Len(stream \o got) = Len(stream) + Len(got)
        /\ \A i \in 1 .. Len(stream) + Len(got) :
              (stream \o got)[i] = IF i <= Len(stream) THEN stream[i] ELSE got[i - Len(stream)]
    BY <1>3, ConcatProperties
  <2> QED
    BY <1>2, <1>3, <2>1
<1>5. /\ job.pc = "poll" /\ job.inbox = <<>> /\ call = NoCall /\ UNCHANGED <<call, spillBatch, taken>>
  BY DEF Roundtrip, server
<1>6. /\ job'.inbox = [i \in 1 .. n |-> l + i] /\ job'.pc = "poll" /\ job'.seen = job.seen
      /\ job'.post = job.post /\ job.seen \in 0 .. l
  BY <1>1, <1>5 DEF TypeOK
<1>7. Len(job'.inbox) = n /\ Len(job.inbox) = 0
  BY <1>3, <1>5, <1>6
<1>8. Delivered' = l /\ Delivered = l
  BY <1>3, <1>4, <1>7 DEF Delivered
<1>9. call.kind = "none"
  BY <1>5 DEF NoCall
<1>10. /\ \A m \in job.seen + 1 .. l : Kind(m) = "data" => m <= taken
       /\ taken <= l /\ job.post > spillBatch /\ job.seen <= l
  BY <1>5, <1>8, <1>9 DEF InboxInv
<1>11. \A m \in job.seen + 1 .. l : Kind(m)' = Kind(m)
  BY <1>3, <1>4, <1>6 DEF Kind
<1>12. \A m \in job.seen + 1 .. l : Kind(m)' = "data" => m <= taken
  BY <1>10, <1>11
<1> QED
  BY <1>3, <1>4, <1>5, <1>6, <1>7, <1>8, <1>9, <1>10, <1>12 DEF InboxInv

\* A roundtrip leaves the job polling.
LEMMA RunRoundtrip ==
    ASSUME TypeOK, TypeOK', RunInv, Roundtrip
    PROVE  RunInv'
<1>1. job'.pc = "poll" /\ call'.kind = "none"
  BY DEF Roundtrip, TypeOK, NoCall
<1> QED
  BY <1>1 DEF RunInv

\* The steps of the job, and the packages SAP hands out, keep the invariant.
LEMMA JobStepKeeps ==
    ASSUME TypeOK, TypeOK', IInv,
           StartCycle \/ CreateGraph \/ Roundtrip \/ Post \/ Posted
              \/ Failed \/ GraphFails \/ Drained \/ CycleEnds \/ JobDies
    PROVE  IInv'
<1>1. CopiesInv /\ OneOwed /\ RunInv /\ InboxInv /\ PostInv /\ MergeInv /\ RestInv
  BY DEF IInv
<1>2. CASE StartCycle
  <2>1. UNCHANGED <<spill, spillBatch, taken>>
    BY <1>2 DEF StartCycle, server
  <2>2. CopiesInv' /\ OneOwed' /\ Owed' = Owed
    BY <2>1, CopiesStay DEF IInv
  <2>3. RunInv'
    BY <1>1, <1>2, <2>2 DEF StartCycle, Off, New, RunInv
  <2>4. InboxInv'
    BY <1>1, <1>2, <2>2 DEF StartCycle, Off, New, InboxInv, Delivered, Kind
  <2>5. PostInv'
    BY <1>1, <1>2, <2>2 DEF StartCycle, Off, New, PostInv
  <2>6. MergeInv'
    BY <1>1, <1>2, <2>2 DEF StartCycle, Off, New, MergeInv, Owes
  <2>7. RestInv'
    BY <1>1, <1>2, <2>2 DEF StartCycle, Off, New, RestInv
  <2> QED
    BY <2>2, <2>3, <2>4, <2>5, <2>6, <2>7 DEF IInv
<1>3. CASE CreateGraph
  <2>1. UNCHANGED <<spill, spillBatch, taken>>
    BY <1>3 DEF CreateGraph, server
  <2>2. CopiesInv' /\ OneOwed' /\ Owed' = Owed
    BY <2>1, CopiesStay DEF IInv
  <2>3. RunInv'
    BY <1>1, <1>3, <2>2 DEF CreateGraph, FirstBatch, NoCall, RunInv
  <2>4. InboxInv'
    <3>1. /\ job'.pc = "poll" /\ job'.inbox = <<>> /\ job'.post = spillBatch + 1
          /\ job'.seen = Len(stream) /\ call'.kind = "none" /\ UNCHANGED <<stream, taken, spillBatch>>
      BY <1>1, <1>3 DEF CreateGraph, FirstBatch, NoCall, RunInv, TypeOK, server
    <3>2. Len(job'.inbox) = 0 /\ Len(stream) \in Nat /\ taken <= Len(stream) /\ spillBatch + 1 > spillBatch
      BY <3>1 DEF TypeOK
    <3> QED
      BY <3>1, <3>2 DEF InboxInv, Delivered
  <2>5. PostInv'
    BY <1>1, <1>3, <2>2 DEF CreateGraph, FirstBatch, NoCall, PostInv
  <2>6. MergeInv'
    BY <1>1, <1>3, <2>2 DEF CreateGraph, FirstBatch, NoCall, MergeInv, Owes
  <2>7. RestInv'
    BY <1>1, <1>3, <2>2 DEF CreateGraph, FirstBatch, NoCall, RestInv, RunInv
  <2> QED
    BY <2>2, <2>3, <2>4, <2>5, <2>6, <2>7 DEF IInv
<1>4. CASE Roundtrip
  <2>1. UNCHANGED <<spill, spillBatch, taken>>
    BY <1>4 DEF Roundtrip, server
  <2>2. CopiesInv' /\ OneOwed' /\ Owed' = Owed
    BY <2>1, CopiesStay DEF IInv
  <2>3. RunInv'
    BY <1>1, <1>4, RunRoundtrip
  <2>4. InboxInv'
    BY <1>1, <1>4, InboxRoundtrip
  <2>5. PostInv'
    BY <1>1, <1>4, <2>2 DEF Roundtrip, PostInv, InboxInv
  <2>6. MergeInv'
    BY <1>1, <1>4, <2>2 DEF Roundtrip, MergeInv, Owes, server, TypeOK, PostInv, InboxInv,
       RunInv
  <2>7. RestInv'
    BY <1>1, <1>4, <2>2 DEF Roundtrip, RestInv, RunInv
  <2> QED
    BY <2>2, <2>3, <2>4, <2>5, <2>6, <2>7 DEF IInv
<1>5. CASE Post
  <2>1. UNCHANGED <<spill, spillBatch, taken>>
    BY <1>5 DEF Post, server
  <2>2. CopiesInv' /\ OneOwed' /\ Owed' = Owed
    BY <2>1, CopiesStay DEF IInv
  <2>3. RunInv'
    BY <1>1, <1>5, <2>2 DEF Post, New, RunInv
  <2>4. InboxInv'
    BY <1>1, <1>5, <2>2 DEF Post, New, InboxInv, Delivered, Kind, TypeOK, server
  <2>5. PostInv'
    <3>1. /\ job.pc = "poll" /\ call.kind = "none" /\ job.inbox # <<>> /\ Owed = {}
          /\ call'.kind = "post" /\ call'.step = "check" /\ call'.batch = job.post
          /\ call'.no = Head(job.inbox) /\ UNCHANGED <<taken, spillBatch>>
      BY <1>1, <1>5 DEF Post, New, NoCall, RestInv, server
    <3>2. Head(job.inbox) = Delivered + 1 /\ Delivered \in Nat /\ taken <= Delivered
      BY <1>1, <3>1 DEF InboxInv, Delivered, TypeOK
    <3>3. job.post \in Nat /\ job.post > spillBatch /\ taken \in Nat
      BY <1>1, <3>1 DEF InboxInv, TypeOK
    <3> QED
      BY <2>2, <3>1, <3>2, <3>3 DEF PostInv
  <2>6. MergeInv'
    BY <1>1, <1>5, <2>2 DEF Post, New, MergeInv, Owes
  <2>7. RestInv'
    BY <1>1, <1>5, <2>2 DEF Post, New, RestInv
  <2> QED
    BY <2>2, <2>3, <2>4, <2>5, <2>6, <2>7 DEF IInv
<1>6. CASE Posted
  <2>1. UNCHANGED <<spill, spillBatch, taken>>
    BY <1>6 DEF Posted, server
  <2>2. CopiesInv' /\ OneOwed' /\ Owed' = Owed
    BY <2>1, CopiesStay DEF IInv
  <2>3. RunInv'
    BY <1>1, <1>6, <2>2 DEF Posted, NoCall, RunInv
  <2>4. InboxInv'
    BY <1>1, <1>6, InboxPosted
  <2>5. PostInv'
    BY <1>1, <1>6, <2>2 DEF Posted, NoCall, PostInv
  <2>6. MergeInv'
    BY <1>1, <1>6, <2>2 DEF Posted, NoCall, MergeInv, Owes
  <2>7. RestInv'
    BY <1>1, <1>6, <2>2 DEF Posted, NoCall, RestInv, PostInv
  <2> QED
    BY <2>2, <2>3, <2>4, <2>5, <2>6, <2>7 DEF IInv
<1>7. CASE Failed
  <2>1. UNCHANGED <<spill, spillBatch, taken>>
    BY <1>7 DEF Failed, server
  <2>2. CopiesInv' /\ OneOwed' /\ Owed' = Owed
    BY <2>1, CopiesStay DEF IInv
  <2>3. RunInv'
    BY <1>1, <1>7, <2>2 DEF Failed, OnError, Off, NoCall, RunInv
  <2>4. InboxInv'
    BY <1>1, <1>7, <2>2 DEF Failed, OnError, Off, NoCall, InboxInv, Delivered, Kind
  <2>5. PostInv'
    BY <1>1, <1>7, <2>2 DEF Failed, OnError, Off, NoCall, PostInv
  <2>6. MergeInv'
    BY <1>1, <1>7, <2>2 DEF Failed, OnError, Off, NoCall, MergeInv, Owes
  <2>7. RestInv'
    BY <1>1, <1>7, <2>2 DEF Failed, OnError, Off, NoCall, RestInv
  <2> QED
    BY <2>2, <2>3, <2>4, <2>5, <2>6, <2>7 DEF IInv
<1>8. CASE GraphFails
  <2>1. UNCHANGED <<spill, spillBatch, taken>>
    BY <1>8 DEF GraphFails, server
  <2>2. CopiesInv' /\ OneOwed' /\ Owed' = Owed
    BY <2>1, CopiesStay DEF IInv
  <2>3. RunInv'
    BY <1>1, <1>8, <2>2 DEF GraphFails, Off, RunInv
  <2>4. InboxInv'
    BY <1>1, <1>8, <2>2 DEF GraphFails, Off, InboxInv, Delivered, Kind
  <2>5. PostInv'
    BY <1>1, <1>8, <2>2 DEF GraphFails, Off, PostInv, Kind, server
  <2>6. MergeInv'
    BY <1>1, <1>8, <2>2 DEF GraphFails, Off, MergeInv, Owes, server
  <2>7. RestInv'
    BY <1>1, <1>8, <2>2 DEF GraphFails, Off, RestInv, RunInv
  <2> QED
    BY <2>2, <2>3, <2>4, <2>5, <2>6, <2>7 DEF IInv
<1>9. CASE Drained
  <2>1. UNCHANGED <<spill, spillBatch, taken>>
    BY <1>9 DEF Drained, server
  <2>2. CopiesInv' /\ OneOwed' /\ Owed' = Owed
    BY <2>1, CopiesStay DEF IInv
  <2>3. RunInv'
    BY <1>1, <1>9, <2>2 DEF Drained, New, RunInv
  <2>4. InboxInv'
    BY <1>1, <1>9, <2>2 DEF Drained, New, InboxInv, Delivered, Kind, server
  <2>5. PostInv'
    BY <1>1, <1>9, <2>2 DEF Drained, New, PostInv
  <2>6. MergeInv'
    BY <1>1, <1>9, <2>2 DEF Drained, New, MergeInv, Owes
  <2>7. RestInv'
    BY <1>1, <1>9, <2>2 DEF Drained, New, RestInv, server, TypeOK, PostInv, InboxInv, RunInv
  <2> QED
    BY <2>2, <2>3, <2>4, <2>5, <2>6, <2>7 DEF IInv
<1>10. CASE CycleEnds
  <2>1. UNCHANGED <<spill, spillBatch, taken>>
    BY <1>10 DEF CycleEnds, server
  <2>2. CopiesInv' /\ OneOwed' /\ Owed' = Owed
    BY <2>1, CopiesStay DEF IInv
  <2>3. RunInv'
    BY <1>1, <1>10, <2>2 DEF CycleEnds, Off, NoCall, RunInv
  <2>4. InboxInv'
    BY <1>1, <1>10, <2>2 DEF CycleEnds, Off, NoCall, InboxInv, Delivered, Kind
  <2>5. PostInv'
    BY <1>1, <1>10, <2>2 DEF CycleEnds, Off, NoCall, PostInv
  <2>6. MergeInv'
    BY <1>1, <1>10, <2>2 DEF CycleEnds, Off, NoCall, MergeInv, Owes
  <2>7. RestInv'
    BY <1>1, <1>10, <2>2 DEF CycleEnds, Off, NoCall, RestInv
  <2> QED
    BY <2>2, <2>3, <2>4, <2>5, <2>6, <2>7 DEF IInv
<1>11. CASE JobDies
  <2>1. UNCHANGED <<spill, spillBatch, taken>>
    BY <1>11 DEF JobDies, server
  <2>2. CopiesInv' /\ OneOwed' /\ Owed' = Owed
    BY <2>1, CopiesStay DEF IInv
  <2>3. RunInv'
    BY <1>1, <1>11, <2>2 DEF JobDies, Off, RunInv
  <2>4. InboxInv'
    BY <1>1, <1>11, <2>2 DEF JobDies, Off, InboxInv, Delivered, Kind
  <2>5. PostInv'
    BY <1>1, <1>11, <2>2 DEF JobDies, Off, PostInv, Kind, server
  <2>6. MergeInv'
    BY <1>1, <1>11, <2>2 DEF JobDies, Off, MergeInv, Owes, server
  <2>7. RestInv'
    BY <1>1, <1>11, <2>2 DEF JobDies, Off, RestInv, server
  <2> QED
    BY <2>2, <2>3, <2>4, <2>5, <2>6, <2>7 DEF IInv
<1> QED
  BY <1>2, <1>3, <1>4, <1>5, <1>6, <1>7, <1>8, <1>9, <1>10, <1>11

\* The answers of the server and the crash copy keep the invariant.
LEMMA CallStepKeeps ==
    ASSUME TypeOK, TypeOK', IInv,
           Unheard \/ NothingToApply \/ Refuse \/ Spill
              \/ CannotClassify \/ CannotCast \/ DropReplayed \/ CallFails
    PROVE  IInv'
<1>1. CopiesInv /\ OneOwed /\ RunInv /\ InboxInv /\ PostInv /\ MergeInv /\ RestInv
  BY DEF IInv
<1>2. CASE Unheard
  <2>1. UNCHANGED <<spill, spillBatch, taken>>
    BY <1>2 DEF Unheard, server
  <2>2. CopiesInv' /\ OneOwed' /\ Owed' = Owed
    BY <2>1, CopiesStay DEF IInv
  <2>3. RunInv'
    BY <1>1, <1>2, <2>2 DEF Unheard, NoCall, RunInv
  <2>4. InboxInv'
    BY <1>1, <1>2, <2>2 DEF Unheard, NoCall, InboxInv, Delivered, Kind
  <2>5. PostInv'
    BY <1>1, <1>2, <2>2 DEF Unheard, NoCall, PostInv
  <2>6. MergeInv'
    BY <1>1, <1>2, <2>2 DEF Unheard, NoCall, MergeInv, Owes
  <2>7. RestInv'
    BY <1>1, <1>2, <2>2 DEF Unheard, NoCall, RestInv
  <2> QED
    BY <2>2, <2>3, <2>4, <2>5, <2>6, <2>7 DEF IInv
<1>3. CASE NothingToApply
  <2>1. UNCHANGED <<spill, spillBatch, taken>>
    BY <1>3 DEF NothingToApply, server
  <2>2. CopiesInv' /\ OneOwed' /\ Owed' = Owed
    BY <2>1, CopiesStay DEF IInv
  <2>3. RunInv'
    BY <1>1, <1>3, <2>2 DEF NothingToApply, Working, Answers, RunInv
  <2>4. InboxInv'
    BY <1>1, <1>3, <2>2 DEF NothingToApply, Working, Answers, InboxInv, Delivered, Kind,
       TypeOK, server
  <2>5. PostInv'
    BY <1>1, <1>3, <2>2 DEF NothingToApply, Working, Answers, PostInv, Kind, server, TypeOK
  <2>6. MergeInv'
    BY <1>1, <1>3, <2>2 DEF NothingToApply, Working, Answers, MergeInv, Owes
  <2>7. RestInv'
    BY <1>1, <1>3, <2>2 DEF NothingToApply, Working, Answers, RestInv
  <2> QED
    BY <2>2, <2>3, <2>4, <2>5, <2>6, <2>7 DEF IInv
<1>4. CASE Refuse
  <2>1. UNCHANGED <<spill, spillBatch, taken>>
    BY <1>4 DEF Refuse, server
  <2>2. CopiesInv' /\ OneOwed' /\ Owed' = Owed
    BY <2>1, CopiesStay DEF IInv
  <2>3. RunInv'
    BY <1>1, <1>4, <2>2 DEF Refuse, Working, Answers, RunInv
  <2>4. InboxInv'
    BY <1>1, <1>4, <2>2 DEF Refuse, Working, Answers, Fresh, CanMerge, InboxInv, Delivered,
       Kind, TypeOK, server
  <2>5. PostInv'
    BY <1>1, <1>4, <2>2 DEF Refuse, Working, Answers, Fresh, CanMerge, PostInv
  <2>6. MergeInv'
    BY <1>1, <1>4, <2>2 DEF Refuse, Working, Answers, Fresh, CanMerge, MergeInv, Owes
  <2>7. RestInv'
    BY <1>1, <1>4, <2>2 DEF Refuse, Working, Answers, Fresh, CanMerge, RestInv
  <2> QED
    BY <2>2, <2>3, <2>4, <2>5, <2>6, <2>7 DEF IInv
<1>5. CASE Spill
  <2>1. Owed = {}
    BY <1>5 DEF Spill, Working, IInv, PostInv
  <2>2. CopiesInv' /\ OneOwed'
    BY <1>5, <2>1 DEF IInv, Spill, CrashCopy, CopiesInv, OneOwed, Owed
  <2>3. RunInv'
    BY <1>1, <1>5, <2>2 DEF Spill, Working, RunInv
  <2>4. InboxInv'
    BY <1>1, <1>5, <2>2 DEF Spill, Working, Fresh, CanMerge, CrashCopy, InboxInv, Delivered,
       Kind, Owed, TypeOK
  <2>5. PostInv'
    BY <1>1, <1>5, <2>2 DEF Spill, Working, Fresh, CanMerge, CrashCopy, PostInv, Owed
  <2>6. MergeInv'
    BY <1>1, <1>5, <2>2 DEF Spill, Working, Fresh, CanMerge, CrashCopy, MergeInv, Owes, Owed,
       PostInv
  <2>7. RestInv'
    BY <1>1, <1>5, <2>2 DEF Spill, Working, Fresh, CanMerge, CrashCopy, RestInv, Owed
  <2> QED
    BY <2>2, <2>3, <2>4, <2>5, <2>6, <2>7 DEF IInv
<1>6. CASE CannotClassify
  <2>1. UNCHANGED <<spill, spillBatch, taken>>
    BY <1>6 DEF CannotClassify, server
  <2>2. CopiesInv' /\ OneOwed' /\ Owed' = Owed
    BY <2>1, CopiesStay DEF IInv
  <2>3. RunInv'
    BY <1>1, <1>6, <2>2 DEF CannotClassify, Working, Answers, RunInv
  <2>4. InboxInv'
    BY <1>1, <1>6, <2>2 DEF CannotClassify, Working, Answers, InboxInv, Delivered, Kind,
       TypeOK, server
  <2>5. PostInv'
    BY <1>1, <1>6, <2>2 DEF CannotClassify, Working, Answers, PostInv
  <2>6. MergeInv'
    BY <1>1, <1>6, <2>2 DEF CannotClassify, Working, Answers, MergeInv, Owes
  <2>7. RestInv'
    BY <1>1, <1>6, <2>2 DEF CannotClassify, Working, Answers, RestInv
  <2> QED
    BY <2>2, <2>3, <2>4, <2>5, <2>6, <2>7 DEF IInv
<1>7. CASE CannotCast
  <2>1. UNCHANGED <<spill, spillBatch, taken>>
    BY <1>7 DEF CannotCast, server
  <2>2. CopiesInv' /\ OneOwed' /\ Owed' = Owed
    BY <2>1, CopiesStay DEF IInv
  <2>3. RunInv'
    BY <1>1, <1>7, <2>2 DEF CannotCast, Working, Answers, RunInv
  <2>4. InboxInv'
    BY <1>1, <1>7, <2>2 DEF CannotCast, Working, Answers, InboxInv, Delivered, Kind, TypeOK,
       server
  <2>5. PostInv'
    BY <1>1, <1>7, <2>2 DEF CannotCast, Working, Answers, PostInv
  <2>6. MergeInv'
    BY <1>1, <1>7, <2>2 DEF CannotCast, Working, Answers, MergeInv, Owes
  <2>7. RestInv'
    BY <1>1, <1>7, <2>2 DEF CannotCast, Working, Answers, RestInv
  <2> QED
    BY <2>2, <2>3, <2>4, <2>5, <2>6, <2>7 DEF IInv
<1>8. CASE DropReplayed
  <2>1. spill' \subseteq spill /\ UNCHANGED <<spillBatch, taken>>
    BY <1>8 DEF DropReplayed
  <2>2. CopiesInv' /\ OneOwed'
    BY <2>1 DEF IInv, CopiesInv, OneOwed, Owed
  <2>3. RunInv'
    BY <1>1, <1>8, <2>2 DEF DropReplayed, Working, Answers, RunInv
  <2>4. InboxInv'
    BY <1>1, <1>8, <2>2 DEF DropReplayed, Working, Answers, InboxInv, Delivered, Kind, Owed,
       RunInv
  <2>5. PostInv'
    BY <1>1, <1>8, <2>2 DEF DropReplayed, Working, Answers, PostInv, Owed
  <2>6. MergeInv'
    BY <1>1, <1>8, <2>2 DEF DropReplayed, Working, Answers, MergeInv, Owes, Owed
  <2>7. RestInv'
    BY <1>1, <1>8, <2>2 DEF DropReplayed, Working, Answers, RestInv, Owed
  <2> QED
    BY <2>2, <2>3, <2>4, <2>5, <2>6, <2>7 DEF IInv
<1>9. CASE CallFails
  <2>1. UNCHANGED <<spill, spillBatch, taken>>
    BY <1>9 DEF CallFails, server
  <2>2. CopiesInv' /\ OneOwed' /\ Owed' = Owed
    BY <2>1, CopiesStay DEF IInv
  <2>3. RunInv'
    BY <1>1, <1>9, <2>2 DEF CallFails, Answers, RunInv
  <2>4. InboxInv'
    BY <1>1, <1>9, <2>2 DEF CallFails, Answers, InboxInv, Delivered, Kind, TypeOK, server
  <2>5. PostInv'
    BY <1>1, <1>9, <2>2 DEF CallFails, Answers, PostInv
  <2>6. MergeInv'
    BY <1>1, <1>9, <2>2 DEF CallFails, Answers, MergeInv, Owes
  <2>7. RestInv'
    BY <1>1, <1>9, <2>2 DEF CallFails, Answers, RestInv
  <2> QED
    BY <2>2, <2>3, <2>4, <2>5, <2>6, <2>7 DEF IInv
<1> QED
  BY <1>2, <1>3, <1>4, <1>5, <1>6, <1>7, <1>8, <1>9

\* A replay takes up the one copy that is owed.
LEMMA ReadSpillStep ==
    ASSUME TypeOK, IInv, ReadSpill
    PROVE  IInv'
<1>0. CopiesInv /\ OneOwed /\ RunInv /\ InboxInv /\ PostInv /\ MergeInv /\ RestInv
  BY DEF IInv
<1>1. /\ call.kind = "recover" /\ call.step = "check" /\ UNCHANGED <<stream, job, target, taken>>
      /\ UNCHANGED <<spill, spillBatch>>
  BY DEF ReadSpill, Working, server
<1>2. CopiesInv' /\ OneOwed' /\ Owed' = Owed
  BY <1>0, <1>1, CopiesStay
<1>3. CASE Owed = {}
  <2>1. call' = [call EXCEPT !.step = "ok"]
    BY <1>3 DEF ReadSpill, Replayed
  <2>2. call'.kind = "recover" /\ call'.step = "ok"
    BY <1>1, <2>1 DEF TypeOK
  <2> QED
    BY <1>0, <1>1, <1>2, <1>3, <2>2 DEF IInv, RunInv, InboxInv, PostInv, MergeInv, RestInv, Delivered
<1>4. CASE Owed # {}
  <2>1. PICK c \in Owed : c.no = taken /\ \A d \in Owed : c = d
    BY <1>0, <1>4 DEF OneOwed
  <2>2. {d.batch : d \in Owed} = {c.batch} /\ c.batch \in Nat /\ c = [batch |-> c.batch, no |-> taken]
    BY <2>1 DEF Owed, TypeOK
  <2>3. Owed = {c}
    BY <2>1
  <2>4. Ascending({d.batch : d \in Owed}) = <<c.batch>>
    BY <2>2, AscendingOne
  <2>5. call' = [call EXCEPT !.step = "delete", !.todo = <<c.batch>>, !.batch = c.batch]
    <3> DEFINE todo == <<c.batch>>
    <3>1. todo[Len(todo)] = c.batch
      OBVIOUS
    <3>2. call' = [call EXCEPT !.step = "delete", !.todo = todo, !.batch = todo[Len(todo)]]
      BY <1>4, <2>4 DEF ReadSpill, Replayed
    <3> QED
      BY <3>1, <3>2
  <2>6. call'.kind = "recover" /\ call'.step = "delete" /\ call'.todo = <<call'.batch>> /\ call'.batch = c.batch
    BY <1>1, <2>5 DEF TypeOK
  <2>7. Owes(call.batch)'
    BY <1>1, <1>2, <2>2, <2>3, <2>6 DEF Owes
  <2> QED
    BY <1>0, <1>1, <1>2, <2>6, <2>7 DEF IInv, RunInv, InboxInv, PostInv, MergeInv, RestInv, Delivered
<1> QED
  BY <1>3, <1>4

\* Keys of the package taken last are deleted.
LEMMA DeleteKeysStep ==
    ASSUME TypeOK, IInv, DeleteKeys
    PROVE  IInv'
<1>0. CopiesInv /\ OneOwed /\ RunInv /\ InboxInv /\ PostInv /\ MergeInv /\ RestInv
  BY DEF IInv
<1>1. /\ call.step = "delete" /\ target' = AfterDelete /\ call' = [call EXCEPT !.step = "merge"]
      /\ UNCHANGED <<stream, job, spill, spillBatch, taken>>
  BY DEF DeleteKeys, Working, server
<1>2. CopiesInv' /\ OneOwed' /\ Owed' = Owed
  BY <1>0, <1>1, CopiesStay
<1>3. /\ call.kind \in {"post", "recover"} /\ call.todo = <<call.batch>>
      /\ Current = stream[taken] /\ Current \in Package
  BY <1>0, <1>1, CurrentTaken
<1>4. /\ call'.kind = call.kind /\ call'.step = "merge" /\ call'.todo = call.todo
      /\ call'.batch = call.batch /\ call'.no = call.no
  BY <1>1 DEF TypeOK
<1>5. \A k \in stream[taken].del : target'[k] = Null
  BY <1>1, <1>3 DEF AfterDelete, Package
<1>6. Owes(call.batch)'
  BY <1>0, <1>1, <1>2, <1>3, <1>4 DEF MergeInv, Owes
<1> QED
  BY <1>0, <1>1, <1>2, <1>3, <1>4, <1>5, <1>6 DEF IInv, RunInv, InboxInv, PostInv, MergeInv, RestInv, Delivered, Kind

\* The rows of the package taken last are written: the target now holds all of it.
LEMMA MergeRowsStep ==
    ASSUME TypeOK, IInv, MergeRows
    PROVE  IInv'
<1>0. CopiesInv /\ OneOwed /\ RunInv /\ InboxInv /\ PostInv /\ MergeInv /\ RestInv
  BY DEF IInv
<1>1. /\ call.step = "merge" /\ target' = AfterMerge
      /\ call' = [call EXCEPT !.todo = Tail(call.todo), !.step = IF Len(call.todo) = 1 THEN "move" ELSE "delete"]
      /\ UNCHANGED <<stream, job, spill, spillBatch, taken>>
  BY DEF MergeRows, Working, server
<1>2. CopiesInv' /\ OneOwed' /\ Owed' = Owed
  BY <1>0, <1>1, CopiesStay
<1>3. /\ call.kind \in {"post", "recover"} /\ call.todo = <<call.batch>>
      /\ Current = stream[taken] /\ Current \in Package
  BY <1>0, <1>1, CurrentTaken
<1>4. Len(call.todo) = 1
  BY <1>3
<1>5. /\ call'.kind = call.kind /\ call'.step = "move"
      /\ call'.batch = call.batch /\ call'.no = call.no
  BY <1>1, <1>4 DEF TypeOK
<1>6. target' = Apply(Current, target)
  <2>1. \A k \in Current.del : target[k] = Null
    BY <1>0, <1>1, <1>3 DEF MergeInv
  <2> QED
    BY <1>1, <2>1 DEF AfterMerge, Apply
<1>7. Apply(stream[taken], target') = target'
  BY <1>3, <1>6, ApplyTwice
<1>8. Owes(call.batch)'
  BY <1>0, <1>1, <1>2, <1>3, <1>5 DEF MergeInv, Owes
<1> QED
  BY <1>0, <1>1, <1>2, <1>3, <1>5, <1>7, <1>8 DEF IInv, RunInv, InboxInv, PostInv, MergeInv, RestInv, Delivered, Kind

\* The merged position passes the one copy that was owed.
LEMMA MovePositionStep ==
    ASSUME TypeOK, IInv, MovePosition
    PROVE  IInv'
<1>0. CopiesInv /\ OneOwed /\ RunInv /\ InboxInv /\ PostInv /\ MergeInv /\ RestInv
  BY DEF IInv
<1>1. /\ call.kind # "none" /\ call.step = "move" /\ spillBatch' = call.batch
      /\ call' = [call EXCEPT !.step = IF call.kind = "recover" THEN "clean" ELSE "ok"]
      /\ UNCHANGED <<stream, job, spill, target, taken>>
  BY DEF MovePosition, Working
<1>2. call.kind \in {"post", "recover"}
  BY <1>0, <1>1 DEF TypeOK, Calls, RestInv
<1>3. Owed = {[batch |-> call.batch, no |-> taken]}
  BY <1>0, <1>1, <1>2 DEF MergeInv, Owes
<1>4. call.batch \in Nat /\ call.batch > spillBatch /\ spillBatch \in Nat \cup {-1}
  <2> DEFINE c == [batch |-> call.batch, no |-> taken]
  <2>1. c \in spill /\ c.batch > spillBatch
    BY <1>3 DEF Owed
  <2> QED
    BY <2>1 DEF TypeOK
<1>5. Owed' = {}
  <2>1. ASSUME NEW d \in spill, d.batch > call.batch
        PROVE  FALSE
    <3>1. d.batch \in Nat
      BY DEF TypeOK
    <3>2. d \in Owed
      BY <1>4, <2>1, <3>1 DEF Owed
    <3> QED
      BY <1>3, <1>4, <2>1, <3>2
  <2> QED
    BY <1>1, <2>1 DEF Owed
<1>6. CopiesInv' /\ OneOwed'
  BY <1>0, <1>1, <1>5 DEF CopiesInv, OneOwed
<1>7. /\ call'.kind = call.kind /\ call'.step = (IF call.kind = "recover" THEN "clean" ELSE "ok")
      /\ call'.batch = call.batch /\ call'.no = call.no
  BY <1>1 DEF TypeOK
<1>8. RunInv' /\ MergeInv' /\ RestInv'
  BY <1>0, <1>1, <1>2, <1>5, <1>7 DEF RunInv, MergeInv, RestInv
<1>9. PostInv'
  BY <1>0, <1>1, <1>4, <1>5, <1>7 DEF PostInv
<1>10. InboxInv'
  BY <1>0, <1>1, <1>2, <1>7 DEF InboxInv, Delivered, Kind
<1> QED
  BY <1>6, <1>8, <1>9, <1>10 DEF IInv

\* A purge finds nothing owed, drops the copies first and leaves nothing owed.
LEMMA PurgeStep ==
    ASSUME TypeOK, IInv, Purge
    PROVE  IInv'
<1>0. CopiesInv /\ OneOwed /\ RunInv /\ InboxInv /\ PostInv /\ MergeInv /\ RestInv
  BY DEF IInv
<1>1. call.kind = "purge" /\ Owed = {} /\ UNCHANGED <<stream, job, target, taken>>
  BY <1>0 DEF Purge, RestInv
<1>2. \/ /\ call.step = "check" /\ call' = [call EXCEPT !.step = "clean"]
         /\ spill' = {} /\ UNCHANGED spillBatch
      \/ /\ call.step = "clean" /\ Answers("ok")
         /\ spillBatch' = -1 /\ UNCHANGED spill
  BY DEF Purge, Working, PurgeOrder
<1>3. spill' = {} 
  BY <1>0, <1>1, <1>2 DEF RestInv
<1>4. Owed' = {} /\ CopiesInv' /\ OneOwed'
  BY <1>3 DEF Owed, CopiesInv, OneOwed
<1>5. call'.kind = "purge" /\ call'.step \in {"clean", "ok"}
  BY <1>1, <1>2 DEF TypeOK, Answers
<1>6. RunInv' /\ PostInv' /\ MergeInv' /\ RestInv'
  BY <1>0, <1>1, <1>3, <1>4, <1>5 DEF RunInv, PostInv, MergeInv, RestInv
<1>7. InboxInv'
  BY <1>0, <1>1, <1>5 DEF InboxInv, Delivered, Kind
<1> QED
  BY <1>4, <1>6, <1>7 DEF IInv

\* Every step, stuttering included, keeps types and invariant.
LEMMA InvStep ==
    ASSUME TypeOK, IInv, [Next]_vars
    PROVE  TypeOK' /\ IInv'
<1>1. CASE UNCHANGED vars
  <2>1. UNCHANGED <<stream, job, call, spill, spillBatch, target, taken, faults>>
    BY <1>1 DEF vars, server
  <2>2. TypeOK'
    BY <2>1 DEF TypeOK
  <2>3. CopiesInv' /\ OneOwed' /\ Owed' = Owed
    BY <2>1, CopiesStay DEF IInv
  <2> QED
    BY <2>1, <2>2, <2>3 DEF IInv, RunInv, InboxInv, PostInv, MergeInv, RestInv, Owes, Delivered, Kind
<1>2. CASE Next
  <2>1. TypeOK'
    BY <1>2, TypeStep
  <2> QED
    BY <1>2, <2>1, JobStepKeeps, CallStepKeeps, ReadSpillStep, DeleteKeysStep, MergeRowsStep,
       MovePositionStep, PurgeStep DEF Next, JobStep, ServerStep
<1> QED
  BY <1>1, <1>2

\* The first state.
LEMMA InvInit ==
    ASSUME Init
    PROVE  TypeOK /\ IInv
<1>1. TypeOK
  BY ApeDeltaAssumption DEF Init, TypeOK, Off, NoCall, Calls, Steps
<1>2. Owed = {}
  BY DEF Init, Owed
<1> QED
  BY <1>1, <1>2 DEF Init, IInv, CopiesInv, OneOwed, RunInv, InboxInv, PostInv, MergeInv, RestInv,
                    Off, NoCall

-------------------------------------------------------------------------------
(* What holds in every state. *)

\* The inductive invariant holds.
THEOREM Invariance == Spec => [](TypeOK /\ IInv)
<1>1. Init => TypeOK /\ IInv
  BY InvInit
<1>2. TypeOK /\ IInv /\ [Next]_vars => (TypeOK /\ IInv)'
  BY InvStep
<1> QED
  BY <1>1, <1>2, PTL DEF Spec

\* Variables keep their types: the crash copies are of packages that were handed
\* out and batch indexes never fall below the first.
THEOREM TypeCorrect == Spec => []TypeOK
<1>1. TypeOK /\ IInv => TypeOK
  OBVIOUS
<1> QED
  BY <1>1, Invariance, PTL

\* One package at most is owed, and nothing was copied after it (ape_cycle.cpp,
\* ApeApplyDeltaPackage and ApeRecover).
THEOREM OnePackageOwed == Spec => []OneOwed
<1>1. TypeOK /\ IInv => OneOwed
  BY DEF IInv
<1> QED
  BY <1>1, Invariance, PTL

\* A new package is posted under an index past every copy and past the merged
\* position: it is never refused as one of an older generation.
THEOREM PostsPastCopies == Spec => []CountsPastCopies
<1>1. ASSUME TypeOK, IInv
      PROVE  CountsPastCopies
  <2>1. SUFFICES ASSUME call.kind = "post", call.step = "check"
                 PROVE  call.batch > spillBatch /\ \A c \in spill : c.batch < call.batch
    BY DEF CountsPastCopies
  <2>2. Owed = {} /\ call.batch > spillBatch /\ call.batch >= 0
    BY <1>1, <2>1 DEF IInv, PostInv
  <2>3. /\ spillBatch \in Nat \cup {-1} /\ call.batch \in Nat \cup {-1}
        /\ \A c \in spill : c.batch \in Nat
    BY <1>1 DEF TypeOK
  <2>4. \A c \in spill : ~(c.batch > spillBatch)
    BY <2>2 DEF Owed
  <2> QED
    BY <2>2, <2>3, <2>4
<1> QED
  BY <1>1, Invariance, PTL

\* A cycle that ends without an error has taken every row it was handed, and owes
\* nothing when it purges (run_ape_delta, ApePurge).
THEOREM CleanEnd == Spec => []CleanEndTookAll
<1>1. ASSUME TypeOK, IInv
      PROVE  CleanEndTookAll
  <2>1. SUFFICES ASSUME job.pc = "purge"
                 PROVE  /\ Owed = {}
                        /\ \A n \in job.seen + 1 .. Len(stream) : Kind(n) = "data" => n <= taken
    BY DEF CleanEndTookAll
  <2>2. call.kind = "purge" /\ job.inbox = <<>> /\ Owed = {}
    BY <1>1, <2>1 DEF IInv, RunInv, RestInv
  <2>3. Len(stream) \in Nat /\ Delivered = Len(stream)
    BY <1>1, <2>2 DEF TypeOK, Delivered
  <2> QED
    BY <1>1, <2>1, <2>2, <2>3 DEF IInv, InboxInv
<1> QED
  BY <1>1, Invariance, PTL

-------------------------------------------------------------------------------
(* The cycle implements the ordered inbox. *)

\* The promised rows, before and after a step.
LEMMA CompletedIs ==
    ASSUME TypeOK, TypeOK', OneOwed, OneOwed'
    PROVE  /\ Owed = {} => Completed = target
           /\ Owed' = {} => Completed' = target'
           /\ Owed # {} => Completed = Apply(stream[taken], target)
           /\ Owed' # {} => Completed' = Apply(stream'[taken'], target')
<1>1. target \in [Keys -> Row] /\ target' \in [Keys -> Row]
  BY DEF TypeOK
<1>2. ASSUME NEW S, S # {}, NEW n, \A c \in S : c.no = n
      PROVE  (CHOOSE c \in S : TRUE).no = n
  BY <1>2
<1>3. Owed # {} => (CHOOSE c \in Owed : TRUE).no = taken
  BY <1>2 DEF OneOwed
<1>4. Owed' # {} => (CHOOSE c \in Owed' : TRUE).no = taken'
  BY <1>2 DEF OneOwed
<1>5. Owed = {} => Completed = target
  BY <1>1 DEF Completed
<1>6. Owed' = {} => Completed' = target'
  BY <1>1 DEF Completed
<1>7. Owed # {} => Completed = Apply(stream[taken], target)
  BY <1>3 DEF Completed, Apply
<1>8. Owed' # {} => Completed' = Apply(stream'[taken'], target')
  BY <1>4 DEF Completed, Apply
<1> QED
  BY <1>5, <1>6, <1>7, <1>8

\* A step of the cycle is a step of the inbox or leaves it as it is: a roundtrip hands
\* over, the crash copy takes, and every other step keeps the promised rows.
LEMMA PromiseStep ==
    ASSUME TypeOK, TypeOK', IInv, IInv', [Next]_vars
    PROVE  [Promise!Next]_(Promise!vars)
<1>1. /\ Owed = {} => Completed = target
      /\ Owed' = {} => Completed' = target'
  BY CompletedIs DEF IInv
<1>2. /\ Owed # {} => Completed = Apply(stream[taken], target)
      /\ Owed' # {} => Completed' = Apply(stream'[taken'], target')
  BY CompletedIs DEF IInv
<1>3. ASSUME UNCHANGED <<stream, spill, spillBatch, target, taken>>
      PROVE  UNCHANGED Promise!vars
  BY <1>3 DEF Promise!vars, Completed, Owed
<1>4. ASSUME UNCHANGED <<stream, taken>>, Completed' = Completed
      PROVE  UNCHANGED Promise!vars
  BY <1>4 DEF Promise!vars
<1>5. CASE Roundtrip
  <2>1. PICK n \in 1 .. PerPoll : \E got \in [1 .. n -> Packages] : stream' = stream \o got
    BY <1>5 DEF Roundtrip
  <2>2. PICK got \in [1 .. n -> Packages] : stream' = stream \o got
    BY <2>1
  <2>3. got \in Seq(Packages) /\ stream \in Seq(Packages) /\ Len(got) \in Nat /\ Len(stream) \in Nat
    BY ApeDeltaAssumption DEF TypeOK
  <2>4. /\ Len(stream') = Len(stream) + Len(got)
        /\ \A i \in 1 .. Len(stream) : stream'[i] = stream[i]
    <3>1. /\ Len(stream \o got) = Len(stream) + Len(got)
          /\ \A i \in 1 .. Len(stream) + Len(got) :
                (stream \o got)[i] = IF i <= Len(stream) THEN stream[i] ELSE got[i - Len(stream)]
      BY <2>3, ConcatProperties
    <3> QED
      BY <2>2, <2>3, <3>1
  <2>5. UNCHANGED <<spill, spillBatch, target, taken>>
    BY <1>5 DEF Roundtrip, server
  <2>6. Completed' = Completed
    <3>1. Owed' = Owed
      BY <2>5 DEF Owed
    <3>2. ASSUME Owed # {} PROVE taken \in 1 .. Len(stream)
      <4>1. PICK c \in Owed : c.no = taken
        BY <3>2 DEF IInv, OneOwed
      <4>2. c \in spill
        BY DEF Owed
      <4> QED
        BY <4>1, <4>2 DEF TypeOK
    <3> QED
      BY <1>1, <1>2, <2>4, <2>5, <3>1, <3>2
  <2>7. stream' \in Seq(Package)
    BY ApeDeltaAssumption DEF TypeOK
  <2>8. Len(stream) <= Len(stream')
    BY <2>3, <2>4
  <2> QED
    <3>1. Promise!HandOver
      BY <2>4, <2>5, <2>6, <2>7, <2>8
         DEF Promise!HandOver, Promise!Package, Promise!Row, Package, Row
    <3> QED
      BY <3>1 DEF Promise!Next
<1>6. CASE Spill
  <2>1. /\ call.kind = "post" /\ call.step = "check" /\ spill' = CrashCopy /\ taken' = call.no
        /\ UNCHANGED <<stream, spillBatch, target>>
    BY <1>6 DEF Spill, Working
  <2>2. Owed = {} /\ call.batch > spillBatch /\ taken < call.no /\ call.no \in 1 .. Len(stream)
    BY <2>1 DEF IInv, PostInv, TypeOK
  <2>3. Owed' # {}
    <3> DEFINE c == [batch |-> call.batch, no |-> call.no]
    <3>1. c \in spill' /\ c.batch > spillBatch'
      BY <2>1, <2>2 DEF CrashCopy
    <3> QED
      BY <3>1 DEF Owed
  <2>4. Promise!Take(call.no)
    BY <1>1, <1>2, <2>1, <2>2, <2>3 DEF Promise!Take, Promise!Apply, Apply
  <2> QED
    BY <2>2, <2>4 DEF Promise!Next
<1>7. CASE DeleteKeys
  <2>1. /\ call.step = "delete" /\ target' = AfterDelete
        /\ UNCHANGED <<stream, spill, spillBatch, taken>>
    BY <1>7 DEF DeleteKeys, Working
  <2>2. Owed' = Owed /\ Owed # {} /\ Current = stream[taken]
    BY <2>1, CurrentTaken DEF IInv, MergeInv, Owes, Owed
  <2>3. Apply(Current, AfterDelete) = Apply(Current, target)
    BY DEF Apply, AfterDelete
  <2> QED
    BY <1>1, <1>2, <1>4, <2>1, <2>2, <2>3
<1>8. CASE MergeRows
  <2>1. /\ call.step = "merge" /\ target' = AfterMerge
        /\ UNCHANGED <<stream, spill, spillBatch, taken>>
    BY <1>8 DEF MergeRows, Working
  <2>2. Owed' = Owed /\ Owed # {} /\ Current = stream[taken]
    BY <2>1, CurrentTaken DEF IInv, MergeInv, Owes, Owed
  <2>3. AfterMerge = Apply(Current, target)
    <3>1. \A k \in Current.del : target[k] = Null
      BY <2>1, <2>2, CurrentTaken DEF IInv, MergeInv
    <3> QED
      BY <3>1 DEF Apply, AfterMerge
  <2> QED
    BY <1>1, <1>2, <1>4, <2>1, <2>2, <2>3, ApplyTwice
<1>9. CASE MovePosition
  <2>1. /\ call.step = "move" /\ call.kind \in {"post", "recover"}
        /\ UNCHANGED <<stream, spill, target, taken>> /\ spillBatch' = call.batch
    BY <1>9 DEF MovePosition, Working, TypeOK, Calls, IInv, RestInv
  <2>2. Owed # {} /\ Apply(stream[taken], target) = target
    BY <2>1 DEF IInv, MergeInv, Owes
  <2>3. Completed' = target
    BY <1>1, <1>2, <2>1, <2>2
  <2> QED
    BY <1>2, <1>4, <2>1, <2>2, <2>3
<1>10. CASE DropReplayed \/ Purge
  <2>1. Owed = {} /\ UNCHANGED <<stream, target, taken>>
    BY <1>10 DEF DropReplayed, Purge, Working, IInv, RestInv
  <2>2. Owed' = {}
    <3>1. CASE DropReplayed
      BY <2>1, <3>1 DEF DropReplayed, Owed
    <3>2. CASE Purge
      <4>1. spill' = {} \/ (call.step = "clean" /\ UNCHANGED spill)
        BY <3>2 DEF Purge, PurgeOrder, Working
      <4>2. call.kind = "purge" /\ (call.step = "clean" => spill = {})
        BY <3>2 DEF Purge, IInv, RestInv
      <4>3. spill' = {}
        BY <4>1, <4>2
      <4> QED
        BY <4>3 DEF Owed
    <3> QED
      BY <1>10, <3>1, <3>2
  <2> QED
    BY <1>1, <1>4, <2>1, <2>2
<1>11. CASE \/ StartCycle \/ CreateGraph \/ Post \/ Posted \/ Failed \/ GraphFails \/ Drained
            \/ CycleEnds \/ JobDies \/ Unheard \/ NothingToApply \/ Refuse \/ ReadSpill
            \/ CannotClassify \/ CannotCast \/ CallFails \/ UNCHANGED vars
  <2>1. UNCHANGED <<stream, server>>
    BY <1>11 DEF StartCycle, CreateGraph, Post, Posted, Failed, GraphFails, Drained, CycleEnds,
                 JobDies, Unheard, NothingToApply, Refuse, ReadSpill, CannotClassify, CannotCast,
                 CallFails, vars
  <2> QED
    BY <1>3, <2>1 DEF server
<1> QED
  BY <1>5, <1>6, <1>7, <1>8, <1>9, <1>10, <1>11 DEF Next, JobStep, ServerStep

\* The first states correspond.
LEMMA PromiseInit ==
    ASSUME Init
    PROVE  Promise!Init
<1>1. Owed = {} /\ target \in [Keys -> Row]
  BY DEF Init, Owed
<1>2. Completed = target
  BY <1>1 DEF Completed
<1>3. stream = <<>> /\ taken = 0
  BY DEF Init
<1> QED
  BY <1>1, <1>2, <1>3 DEF Promise!Init, Promise!Row, Row

\* A package that was copied reaches the target wholly and before any later one,
\* whatever fails between: ApeDelta implements OrderedInbox.
THEOREM Refines == Spec => DeliversInOrder
<1>1. Init => Promise!Init
  BY PromiseInit
<1>2. (TypeOK /\ IInv) /\ (TypeOK /\ IInv)' /\ [Next]_vars => [Promise!Next]_(Promise!vars)
  BY PromiseStep
<1> QED
  BY <1>1, <1>2, Invariance, PTL DEF Spec, DeliversInOrder, Promise!Spec

===============================================================================
