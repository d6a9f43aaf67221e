------------------------------- MODULE ApeDelta -------------------------------
(***************************************************************************)
(* The cycle of one APE_DELTA target.  The job (run_ape_delta) replays     *)
(* what a dead cycle left, then polls a graph in SAP: a roundtrip hands    *)
(* out packages and moves the subscription past them.  It posts each       *)
(* package to the server, which writes a crash copy, deletes, merges and   *)
(* moves spill_batch, one committed statement after the other.             *)
(*                                                                         *)
(* A package is known by its number in the stream.  A crash copy is the    *)
(* batch index it was posted under and that number.  SAP states a key once *)
(* in a package, or deletes it and then writes it.  The number of polls    *)
(* that end a cycle is abstracted: it may end after any of them.           *)
(***************************************************************************)
EXTENDS ApePackage, FiniteSets

CONSTANTS
    Packages,              \* the packages SAP may hand out
    PerPoll,               \* packages of one roundtrip, at most
    MaxPackages, MaxFaults \* bounds

VARIABLES
    stream,                \* packages handed out: the subscription's position
    job,                   \* the job: pc, packages in hand, lv_post; the packages
                           \* handed out before its cycle (history)
    call,                  \* the call the server is working on
    spill,                 \* _erpl_rev_ape_spill
    spillBatch,            \* _erpl_rev_delta_state.spill_batch
    target,
    taken,                 \* history: number of the package copied last
    faults

server == <<spill, spillBatch, target, taken>>
vars   == <<stream, job, call, server, faults>>

ASSUME ApeDeltaAssumption ==
    /\ Packages \subseteq Package
    /\ PerPoll \in Nat /\ MaxPackages \in Nat /\ MaxFaults \in Nat

Calls == {"none", "post", "recover", "purge"}
Steps == {"check", "delete", "merge", "move", "clean", "ok", "error"}

Off     == [pc |-> "off", inbox |-> <<>>, post |-> 0, seen |-> 0]
NoCall  == [kind |-> "none", step |-> "ok", batch |-> -1, no |-> 0, todo |-> <<>>]
New(kind, batch, no) ==
    [kind |-> kind, step |-> "check", batch |-> batch, no |-> no, todo |-> <<>>]

Init ==
    /\ stream = <<>>
    /\ job = Off
    /\ call = NoCall
    /\ spill = {}
    /\ spillBatch = -1
    /\ target \in [Keys -> Row]
    /\ taken = 0
    /\ faults = 0

Fault == faults < MaxFaults /\ faults' = faults + 1

\* Copies of packages that the target does not hold yet.
Owed == {c \in spill : c.batch > spillBatch}

\* The crash copy of a batch.
Copy(b) == CHOOSE c \in spill : c.batch = b

\* Batches in the order ApeRecover reads them.
Ascending(S) ==
    CHOOSE s \in [1..Cardinality(S) -> S] :
        \A i, j \in 1..Cardinality(S) : i < j => s[i] < s[j]

-------------------------------------------------------------------------------
(* The job. *)

\* A cycle starts when no other holds the lease: the calls of an earlier cycle
\* have ended.  It replays before it contacts SAP.
StartCycle ==
    /\ job.pc = "off" /\ call = NoCall
    /\ job' = [Off EXCEPT !.pc = "recover"]
    /\ call' = New("recover", -1, 0)
    /\ UNCHANGED <<stream, server, faults>>

\* Mutant of FirstBatch: every cycle counts from zero.
FromZero == 0

\* lv_post starts past the merged position, read after the replay.
FirstBatch == spillBatch + 1

\* The replay is done: the graph is created on the subscription.
CreateGraph ==
    /\ job.pc = "recover" /\ call.step = "ok"
    /\ job' = [job EXCEPT !.pc = "poll", !.post = FirstBatch, !.seen = Len(stream)]
    /\ call' = NoCall
    /\ UNCHANGED <<stream, server, faults>>

\* A roundtrip: SAP hands out packages, or none.
Roundtrip ==
    /\ job.pc = "poll" /\ call = NoCall /\ job.inbox = <<>>
    /\ \E n \in 1..PerPoll : \E got \in [1..n -> Packages] :
          /\ Len(stream) + n <= MaxPackages
          /\ stream' = stream \o got
          /\ job' = [job EXCEPT !.inbox = [i \in 1..n |-> Len(stream) + i]]
    /\ UNCHANGED <<call, server, faults>>

Post ==
    /\ job.pc = "poll" /\ call = NoCall /\ job.inbox # <<>>
    /\ call' = New("post", job.post, Head(job.inbox))
    /\ UNCHANGED <<stream, job, server, faults>>

Posted ==
    /\ job.pc = "poll" /\ call.kind = "post" /\ call.step = "ok"
    /\ job' = [job EXCEPT !.inbox = Tail(@), !.post = @ + 1]
    /\ call' = NoCall
    /\ UNCHANGED <<stream, server, faults>>

\* Mutant of OnError: the cycle goes on with the next package.
GoesOn == IF job.inbox # <<>> /\ call.kind = "post"
          THEN [job EXCEPT !.inbox = Tail(@), !.post = @ + 1] ELSE Off

\* An error ends the cycle: packages in hand are gone, nothing is purged.
OnError == Off

\* The call answers with an error, or the answer is lost on the way.
Failed ==
    /\ job.pc \in {"recover", "poll", "purge"} /\ call.kind # "none"
    /\ \/ call.step = "error" /\ UNCHANGED faults
       \/ call.step = "ok" /\ Fault
    /\ job' = OnError
    /\ call' = NoCall
    /\ UNCHANGED <<stream, server>>

\* The engine reports an error, or the graph cannot be created.
GraphFails ==
    /\ job.pc = "poll" /\ call = NoCall
    /\ Fault
    /\ job' = Off
    /\ UNCHANGED <<stream, call, server>>

\* Rowless polls, or the cap on polls, end the cycle cleanly.
Drained ==
    /\ job.pc = "poll" /\ call = NoCall /\ job.inbox = <<>>
    /\ job' = [job EXCEPT !.pc = "purge"]
    /\ call' = New("purge", -1, 0)
    /\ UNCHANGED <<stream, server, faults>>

CycleEnds ==
    /\ job.pc = "purge" /\ call.step = "ok"
    /\ job' = Off
    /\ call' = NoCall
    /\ UNCHANGED <<stream, server, faults>>

\* The work process dies; the server finishes what it was called for.
JobDies ==
    /\ job.pc # "off"
    /\ Fault
    /\ job' = Off
    /\ UNCHANGED <<stream, call, server>>

\* Nobody waits for the answer.
Unheard ==
    /\ job.pc = "off" /\ call.kind # "none" /\ call.step \in {"ok", "error"}
    /\ call' = NoCall
    /\ UNCHANGED <<stream, job, server, faults>>

-------------------------------------------------------------------------------
(* The server. *)

Working(step)   == call.kind # "none" /\ call.step = step
Answers(step)   == call' = [call EXCEPT !.step = step, !.todo = <<>>]
Kind(n)         == stream[n].kind

\* A batch at or below the merged position belongs to an older generation.
Fresh == call.batch > spillBatch

\* A package without rows is only acknowledged.
NothingToApply ==
    /\ Working("check") /\ call.kind = "post" /\ Kind(call.no) = "control"
    /\ Answers("ok")
    /\ UNCHANGED <<stream, job, server, faults>>

\* Mutant of CanMerge: the indicator is missed only when the rows are merged.
Anything == TRUE

\* A package that can never merge is not copied.
CanMerge == Kind(call.no) # "no_indicator"

Refuse ==
    /\ Working("check") /\ call.kind = "post" /\ Kind(call.no) # "control"
    /\ ~Fresh \/ ~CanMerge
    /\ Answers("error")
    /\ UNCHANGED <<stream, job, server, faults>>

\* The copy of the package that is being posted, over one of the same index.
CrashCopy == {c \in spill : c.batch # call.batch} \cup {[batch |-> call.batch, no |-> call.no]}

Spill ==
    /\ Working("check") /\ call.kind = "post"
    /\ Kind(call.no) # "control" /\ Fresh /\ CanMerge
    /\ spill' = CrashCopy
    /\ taken' = call.no
    /\ call' = [call EXCEPT !.step = "delete", !.todo = <<call.batch>>]
    /\ UNCHANGED <<stream, job, spillBatch, target, faults>>

\* ApeRecover merges the copies past the merged position.
Replayed == Owed

ReadSpill ==
    /\ Working("check") /\ call.kind = "recover"
    /\ LET todo == Ascending({c.batch : c \in Replayed}) IN
       call' = IF Replayed = {} THEN [call EXCEPT !.step = "ok"]
               ELSE [call EXCEPT !.step = "delete", !.todo = todo, !.batch = todo[Len(todo)]]
    /\ UNCHANGED <<stream, job, server, faults>>

Current == stream[Copy(Head(call.todo)).no]

\* MergeDeltaEnvelope: an operation that is none fails the package as a whole.
CannotClassify ==
    /\ Working("delete") /\ Current.kind \in {"bad_row", "no_indicator"}
    /\ Answers("error")
    /\ UNCHANGED <<stream, job, server, faults>>

\* Mutant of AfterMerge: and the keys are deleted last.
DeletesLast == [k \in Keys |-> IF k \in Current.del THEN Null ELSE Apply(Current, target)[k]]

AfterDelete == [k \in Keys |-> IF k \in Current.del THEN Null ELSE target[k]]

AfterMerge == [k \in Keys |-> IF Current.up[k] # Null THEN Current.up[k] ELSE target[k]]

DeleteKeys ==
    /\ Working("delete") /\ Current.kind \notin {"bad_row", "no_indicator"}
    /\ target' = AfterDelete
    /\ call' = [call EXCEPT !.step = "merge"]
    /\ UNCHANGED <<stream, job, spill, spillBatch, taken, faults>>

\* A cell does not cast to the type of its column: the merge is rolled back.
CannotCast ==
    /\ Working("merge") /\ Current.kind = "bad_cell"
    /\ Answers("error")
    /\ UNCHANGED <<stream, job, server, faults>>

MergeRows ==
    /\ Working("merge") /\ Current.kind # "bad_cell"
    /\ target' = AfterMerge
    /\ call' = [call EXCEPT !.todo = Tail(@),
                            !.step = IF Len(call.todo) = 1 THEN "move" ELSE "delete"]
    /\ UNCHANGED <<stream, job, spill, spillBatch, taken, faults>>

MovePosition ==
    /\ Working("move")
    /\ spillBatch' = call.batch
    /\ call' = [call EXCEPT !.step = IF call.kind = "recover" THEN "clean" ELSE "ok"]
    /\ UNCHANGED <<stream, job, spill, target, taken, faults>>

DropReplayed ==
    /\ Working("clean") /\ call.kind = "recover"
    /\ spill' = {c \in spill : c.batch > call.batch}
    /\ Answers("ok")
    /\ UNCHANGED <<stream, job, spillBatch, target, taken, faults>>

\* Mutant of PurgeOrder: the position of the generation goes first.
PositionFirst == <<"position", "copies">>

\* ApePurge: the copies go, then the position returns to that of a new generation.
PurgeOrder == <<"copies", "position">>

Purge ==
    /\ call.kind = "purge"
    /\ \E i \in {1, 2} :
          /\ Working(IF i = 1 THEN "check" ELSE "clean")
          /\ IF i = 1 THEN call' = [call EXCEPT !.step = "clean"] ELSE Answers("ok")
          /\ IF PurgeOrder[i] = "copies"
             THEN spill' = {} /\ UNCHANGED spillBatch
             ELSE spillBatch' = -1 /\ UNCHANGED spill
    /\ UNCHANGED <<stream, job, target, taken, faults>>

\* A statement fails, or the server dies with the call: what was committed stays.
CallFails ==
    /\ call.kind # "none" /\ call.step \notin {"ok", "error"}
    /\ Fault
    /\ Answers("error")
    /\ UNCHANGED <<stream, job, server>>

JobStep    == StartCycle \/ CreateGraph \/ Post \/ Posted \/ Failed \/ Drained \/ CycleEnds
ServerStep ==
    \/ Unheard \/ NothingToApply \/ Refuse \/ Spill \/ ReadSpill \/ CannotClassify
    \/ DeleteKeys \/ CannotCast \/ MergeRows \/ MovePosition \/ DropReplayed \/ Purge

Next == JobStep \/ Roundtrip \/ ServerStep \/ GraphFails \/ JobDies \/ CallFails

\* The batch tick or the daemon starts a cycle that is due, a work process runs
\* its program to the end and the server answers its calls.
Spec     == Init /\ [][Next]_vars
FairSpec == Spec /\ WF_vars(JobStep) /\ WF_vars(ServerStep)

-------------------------------------------------------------------------------
\* The rows once every owed package is merged.
Completed == [k \in Keys |-> IF Owed = {} THEN target[k]
                             ELSE Apply(stream[(CHOOSE c \in Owed : TRUE).no], target)[k]]

Promise == INSTANCE OrderedInbox WITH replica <- Completed

TypeOK ==
    /\ stream \in Seq(Packages)
    /\ job \in [pc : {"off", "recover", "poll", "purge"}, inbox : Seq(1..Len(stream)),
               post : Nat, seen : 0..Len(stream)]
    /\ call \in [kind : Calls, step : Steps, batch : Nat \cup {-1}, no : 0..Len(stream),
                todo : Seq(Nat)]
    /\ spill \subseteq [batch : Nat, no : 1..Len(stream)]
    /\ spillBatch \in Nat \cup {-1}
    /\ target \in [Keys -> Row]
    /\ taken \in 0..Len(stream)
    /\ faults \in 0..MaxFaults

\* A package that was copied reaches the target wholly and before any later one,
\* whatever statement, answer, server or job fails between: the target follows
\* the promise of the ordered inbox.
DeliversInOrder == Promise!Spec

\* A new package is posted under an index past every copy and past the merged
\* position, so it is neither refused as stale nor written over a copy: also in
\* the cycle after one that ended without a purge.
CountsPastCopies ==
    call.kind = "post" /\ call.step = "check" =>
        /\ call.batch > spillBatch
        /\ \A c \in spill : c.batch < call.batch

\* One package at most is owed, and nothing was copied after it: the replay of a
\* cycle cannot bring back rows that a later package replaced.
OneOwed == \A c \in Owed : c.no = taken /\ \A d \in Owed : c = d

\* A cycle that ends without an error has taken every row it was handed: what the
\* purge then drops is garbage.
CleanEndTookAll ==
    job.pc = "purge" =>
        /\ call.step = "check" => Owed = {}
        /\ \A n \in job.seen + 1..Len(stream) : Kind(n) = "data" => n <= taken

\* docs/ape-delta-hld.md:23: a killed cycle loses nothing the engine already
\* handed over.  Packages of a roundtrip that are still in the job's hands when it
\* ends are in no copy, and the subscription has moved past them.
ExitLosesNothing ==
    job.pc = "off" /\ call = NoCall =>
        \A n \in 1..Len(stream) : Kind(n) = "data" => n <= taken

\* A package that can merge does not stay owed: the next cycles replay it.  Only
\* rows that cannot be classified or cast stop a target for good.
OwedIsMerged ==
    \A n \in 1..MaxPackages :
        (\E c \in Owed : c.no = n /\ Kind(n) \notin {"bad_row", "bad_cell"})
            ~> (\A c \in Owed : c.no # n)
===============================================================================
