------------------------------- MODULE ApeFull --------------------------------
(***************************************************************************)
(* The scan of one APE_FULL target.  The job (run_ape_full) polls a graph  *)
(* that sends one image of the source in packages and posts each under a   *)
(* batch index from 0; the server stages the rows in <target>__apesnap and *)
(* merges the stage onto the target with the package that carries          *)
(* lastBatch.                                                              *)
(*                                                                         *)
(* A scan is known by its number, and an image by the scan it is of.  SAP  *)
(* states a key once in a scan and sends nothing after lastBatch.          *)
(***************************************************************************)
EXTENDS Integers, Sequences

CONSTANTS
    Keys, Null,
    Images,              \* images of the source: sets of keys that have a row
    MaxScans, MaxFaults  \* bounds

VARIABLES
    images,              \* image sent by each scan so far (history)
    job,                 \* the job: pc, keys still to send, lv_post
    call,                \* the package the server works on
    stage,               \* <target>__apesnap
    target,              \* for each key the scan its row is of, or Null
    merged,              \* last scan that was merged, 0 for none (history)
    faults

server == <<stage, target, merged>>
vars   == <<images, job, call, server, faults>>

ImagesAssumption == Images \subseteq SUBSET Keys

NoStage == [there |-> FALSE, rows |-> [k \in Keys |-> Null]]
Empty   == [there |-> TRUE,  rows |-> [k \in Keys |-> Null]]
Off     == [pc |-> "off", left |-> {}, post |-> 0]
NoCall  == [step |-> "none", scan |-> 0, batch |-> 0, keys |-> {}, last |-> FALSE, bad |-> FALSE]

\* The seeded target: what scan 0 would have left.
Init ==
    /\ images = <<>>
    /\ job = Off
    /\ call = NoCall
    /\ stage = NoStage
    /\ target = [k \in Keys |-> Null]
    /\ merged = 0
    /\ faults = 0

Fault == faults < MaxFaults /\ faults' = faults + 1

Scan == Len(images)

-------------------------------------------------------------------------------
\* A scan starts when no other holds the lease: the calls of an earlier one have
\* ended.  Its graph reads the source as it is now.
StartScan ==
    /\ job.pc = "off" /\ call = NoCall
    /\ Scan < MaxScans
    /\ \E image \in Images :
          /\ images' = Append(images, image)
          /\ job' = [Off EXCEPT !.pc = "poll", !.left = image]
    /\ UNCHANGED <<call, server, faults>>

\* The next package: rows, or none (a control envelope), the last one flagged.
\* A delete image or a package without a column of the target is a fault.
Post ==
    /\ job.pc = "poll" /\ call = NoCall
    /\ \E keys \in SUBSET job.left, last, bad \in BOOLEAN :
          /\ last => keys = job.left
          /\ keys = {} => last
          /\ IF bad THEN Fault ELSE UNCHANGED faults
          /\ call' = [step |-> "stage", scan |-> Scan, batch |-> job.post, keys |-> keys,
                      last |-> last, bad |-> bad]
          /\ job' = [job EXCEPT !.left = @ \ keys]
    /\ UNCHANGED <<images, server>>

\* The answer: the next package, or the scan is done.
Posted ==
    /\ job.pc = "poll" /\ call.step = "ok"
    /\ job' = IF call.last THEN Off ELSE [job EXCEPT !.post = @ + 1]
    /\ call' = NoCall
    /\ UNCHANGED <<images, server, faults>>

\* An error, or an answer that is lost, ends the scan; so does an engine error, a
\* preparation that never ends or a stream that stalls.
ScanFails ==
    /\ job.pc = "poll"
    /\ \/ call.step = "error" /\ UNCHANGED faults
       \/ call.step = "ok" /\ Fault
       \/ call = NoCall /\ Fault
    /\ job' = Off
    /\ call' = NoCall
    /\ UNCHANGED <<images, server>>

JobDies ==
    /\ job.pc = "poll"
    /\ Fault
    /\ job' = Off
    /\ UNCHANGED <<images, call, server>>

Unheard ==
    /\ job.pc = "off" /\ call.step \in {"ok", "error"}
    /\ call' = NoCall
    /\ UNCHANGED <<images, job, server, faults>>

-------------------------------------------------------------------------------
At(step)   == call.step = step
Goes(step) == call' = [call EXCEPT !.step = step]

\* Mutant of DropsStage: the stage a dead scan left is kept.
Keeps == IF stage.there THEN stage ELSE Empty

\* Batch 0 drops the stage of an earlier scan and creates it.
DropsStage == Empty

\* A later batch without a stage would merge a part of the image: it is refused.
StageIsThere == stage.there

PrepareStage ==
    /\ At("stage")
    /\ IF call.batch = 0 THEN stage' = DropsStage ELSE UNCHANGED stage
    /\ Goes(IF call.batch = 0 \/ StageIsThere THEN "insert" ELSE "error")
    /\ UNCHANGED <<images, job, target, merged, faults>>

\* The package is checked as a whole, then its rows are inserted.
StageRows ==
    /\ At("insert") /\ ~call.bad
    /\ stage' = [there |-> TRUE,
                 rows |-> [k \in Keys |-> IF k \in call.keys THEN call.scan ELSE stage.rows[k]]]
    /\ Goes(IF call.last THEN "merge" ELSE "ok")
    /\ UNCHANGED <<images, job, target, merged, faults>>

RefuseRows ==
    /\ At("insert") /\ call.bad
    /\ Goes("error")
    /\ UNCHANGED <<images, job, server, faults>>

\* Rows of the stage are written, rows of the target that it lacks are deleted.
SnapshotMerge == stage.rows

\* The merge and the drop of the stage are one transaction.
ApeFinalizeFull ==
    /\ At("merge")
    /\ target' = SnapshotMerge
    /\ stage' = NoStage
    /\ merged' = call.scan
    /\ Goes("ok")
    /\ UNCHANGED <<images, job, faults>>

\* A statement fails, or the server dies with the call.
CallFails ==
    /\ call.step \in {"stage", "insert", "merge"}
    /\ Fault
    /\ Goes("error")
    /\ UNCHANGED <<images, job, server>>

\* The server comes back without the stage.
LoseStage ==
    /\ stage.there /\ call = NoCall
    /\ Fault
    /\ stage' = NoStage
    /\ UNCHANGED <<images, job, call, target, merged>>

Next ==
    \/ StartScan \/ Post \/ Posted \/ ScanFails \/ JobDies \/ Unheard
    \/ PrepareStage \/ StageRows \/ RefuseRows \/ ApeFinalizeFull \/ CallFails \/ LoseStage

Spec == Init /\ [][Next]_vars
-------------------------------------------------------------------------------
TypeOK ==
    /\ images \in Seq(SUBSET Keys)
    /\ job \in [pc : {"off", "poll"}, left : SUBSET Keys, post : Nat]
    /\ call \in [step : {"none", "stage", "insert", "merge", "ok", "error"}, scan : 0..Scan,
                batch : Nat, keys : SUBSET Keys, last : BOOLEAN, bad : BOOLEAN]
    /\ stage \in [there : BOOLEAN, rows : [Keys -> (1..Scan) \cup {Null}]]
    /\ target \in [Keys -> (1..Scan) \cup {Null}]
    /\ merged \in 0..Scan

\* The target is at all times the whole image of one scan: never a part of it, never
\* rows of two scans, whatever fails between two packages.
TargetIsOneScan ==
    \A k \in Keys : target[k] = IF merged > 0 /\ k \in images[merged] THEN merged ELSE Null
===============================================================================
