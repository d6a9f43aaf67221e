--------------------------------- MODULE Setup ---------------------------------
(***************************************************************************)
(* `erpl-rev setup`: diagnoses an SAP system, plans what it lacks, and      *)
(* carries the plan out one ADT call at a time.  Any call may fail without  *)
(* stopping the others, the command may be killed between two of them, the  *)
(* system may reap its local package, and the server comes and goes.        *)
(***************************************************************************)
EXTENDS Naturals, Sequences, SequencesExt

CONSTANTS
    Assets,            \* the ABAP objects, in the order of their deployment
    Util, Diag, SetupClass, Mkfm,      \* those of them that setup looks for or runs
    Ids,               \* program ids
    MaxRuns, MaxFaults \* bounds: runs of setup, failing calls

VARIABLES
    sap,               \* objects, function group, modules, destination
    served,            \* the id under which a server is registered
    run,               \* the command
    runs, faults

vars == <<sap, served, run, runs, faults>>

None == "none"

SetupAssumption ==
    /\ Assets \in Seq(ToSet(Assets)) /\ SetupClass \in ToSet(Assets)
    /\ None \notin Ids
    /\ MaxRuns \in Nat /\ MaxFaults \in Nat

NoPlan == [deploy |-> FALSE, refresh |-> FALSE, modules |-> FALSE]

NoRun == [pc |-> "off", id |-> None, plan |-> NoPlan, left |-> <<>>, failures |-> 0, exit |-> 9]

Bare == [objects |-> {}, baked |-> None, group |-> FALSE, modules |-> FALSE, dest |-> None]

Init ==
    /\ sap = Bare /\ served = None /\ run = NoRun
    /\ runs = 0 /\ faults = 0

Fails == faults < MaxFaults /\ faults' = faults + 1

Exit(code) == run' = [run EXCEPT !.pc = "off", !.exit = code]

\* What the probe class finds: the destination leads to a registered server.
RoundTrip == sap.dest # None /\ sap.dest = served

\* Diagnose: one object stands for all, and the probe class for the rest.
ObjectsPresent == Util \in sap.objects

ProbePresent == Diag \in sap.objects

DestinationOk == ObjectsPresent /\ ProbePresent /\ RoundTrip

\* Any change includes a run of the setup class.  `set`: the id is given as a flag.
MakePlan(set) ==
    [deploy |-> ~(ObjectsPresent /\ ProbePresent),
     modules |-> ~DestinationOk,
     refresh |-> DestinationOk /\ set]

-------------------------------------------------------------------------------
\* Missing credentials, a package and a transport that do not go together.
Refuse ==
    /\ run.pc = "off" /\ runs < MaxRuns /\ runs' = runs + 1
    /\ run' = [NoRun EXCEPT !.exit = 2]
    /\ UNCHANGED <<sap, served, faults>>

Diagnose ==
    /\ run.pc = "off" /\ runs < MaxRuns /\ runs' = runs + 1
    /\ \E id \in Ids, set \in BOOLEAN :
          run' = [NoRun EXCEPT !.pc = "plan", !.id = id, !.plan = MakePlan(set)]
    /\ UNCHANGED <<sap, served, faults>>

\* --dry-run, nothing to do (0), no authorisation, no tool, no consent (1, 2).
Decline ==
    /\ run.pc = "plan"
    /\ \/ Exit(0)
       \/ run.plan # NoPlan /\ \E code \in {1, 2} : Exit(code)
    /\ UNCHANGED <<sap, served, runs, faults>>

Confirm ==
    /\ run.pc = "plan" /\ run.plan # NoPlan
    /\ run' = [run EXCEPT !.pc = "deploy",
                          !.left = IF run.plan.deploy THEN Assets
                                   ELSE IF run.plan.refresh THEN <<SetupClass>> ELSE <<>>]
    /\ UNCHANGED <<sap, served, runs, faults>>

\* Mutant of Failed: what failed is only printed.
FailedIsPrinted(pc) == [run EXCEPT !.pc = pc]

Failed(pc) == [run EXCEPT !.pc = pc, !.failures = @ + 1]

\* The class carries the id as a literal of its source.
Written(o) ==
    [sap EXCEPT !.objects = @ \cup {o}, !.baked = IF o = SetupClass THEN run.id ELSE @]

\* Create (whose result is ignored), write and activate one object.
WriteSource ==
    /\ run.pc = "deploy" /\ run.left # <<>>
    /\ \/ /\ sap' = Written(Head(run.left)) /\ UNCHANGED faults
          /\ run' = [run EXCEPT !.left = Tail(@)]
       \/ /\ sap' \in {sap, Written(Head(run.left))} /\ Fails
          /\ run' = [Failed("deploy") EXCEPT !.left = Tail(@)]
    /\ UNCHANGED <<served, runs>>

\* Whether the function group is there is not asked.
CreateGroup ==
    /\ run.pc = "deploy" /\ run.left = <<>>
    /\ \/ sap' = [sap EXCEPT !.group = @ \/ run.plan.modules] /\ UNCHANGED faults
       \/ run.plan.modules /\ Fails /\ UNCHANGED sap
    /\ run' = [run EXCEPT !.pc = "class"]
    /\ UNCHANGED <<served, runs>>

\* The class deletes the destination and creates it anew; what it prints is read
\* back from the table, and compared with what was asked for.
RunSetupClass ==
    /\ run.pc = "class"
    /\ \/ /\ SetupClass \in sap.objects /\ sap' = [sap EXCEPT !.dest = sap.baked]
          /\ run' = IF sap.baked = run.id THEN [run EXCEPT !.pc = "modules"] ELSE Failed("modules")
          /\ UNCHANGED faults
       \/ SetupClass \notin sap.objects /\ run' = Failed("modules") /\ UNCHANGED <<sap, faults>>
       \/ /\ \E dest \in {None, sap.dest, sap.baked} : sap' = [sap EXCEPT !.dest = dest]
          /\ Fails /\ run' = Failed("modules")
    /\ UNCHANGED <<served, runs>>

\* Every module is read back, and is remote-enabled.
RunMkfm ==
    /\ run.pc = "modules" /\ run.plan.modules
    /\ \/ /\ Mkfm \in sap.objects /\ sap.group /\ sap' = [sap EXCEPT !.modules = TRUE]
          /\ run' = [run EXCEPT !.pc = "verify"] /\ UNCHANGED faults
       \/ ~(Mkfm \in sap.objects /\ sap.group) /\ run' = Failed("verify") /\ UNCHANGED <<sap, faults>>
       \/ Fails /\ run' = Failed("verify") /\ UNCHANGED sap
    /\ UNCHANGED <<served, runs>>

SkipMkfm ==
    /\ run.pc = "modules" /\ ~run.plan.modules
    /\ run' = [run EXCEPT !.pc = "verify"]
    /\ UNCHANGED <<sap, served, runs, faults>>

\* The second diagnosis decides, together with what failed on the way.
Verify ==
    /\ run.pc = "verify"
    /\ \E ok \in {DestinationOk, FALSE} :
          run' = [run EXCEPT !.pc = "verified", !.exit = IF ok /\ run.failures = 0 THEN 0 ELSE 1]
    /\ UNCHANGED <<sap, served, runs, faults>>

Leave ==
    /\ run.pc = "verified"
    /\ run' = [run EXCEPT !.pc = "off"] /\ UNCHANGED <<sap, served, runs, faults>>

Kill ==
    /\ run.pc \in {"deploy", "class", "modules", "verify"} /\ Fails
    /\ run' = NoRun /\ UNCHANGED <<sap, served, runs>>

\* A server registers under its own setting, or ends.
Serve(id) ==
    /\ served # id
    /\ served' = id
    /\ UNCHANGED <<sap, run, runs, faults>>

\* "some systems reap it": objects of $TMP, and the group with its modules.
Reap ==
    /\ run.pc = "off" /\ Fails
    /\ \E gone \in SUBSET sap.objects :
          \E group \in {sap.group, FALSE} :
             sap' = [sap EXCEPT !.objects = @ \ gone, !.group = group, !.modules = @ /\ group]
    /\ UNCHANGED <<served, run, runs>>

Next ==
    \/ Refuse \/ Diagnose \/ Decline \/ Confirm
    \/ WriteSource \/ CreateGroup \/ RunSetupClass \/ RunMkfm \/ SkipMkfm \/ Verify \/ Leave
    \/ Kill \/ Reap \/ \E id \in Ids \cup {None} : Serve(id)

Spec == Init /\ [][Next]_vars

-------------------------------------------------------------------------------
TypeOK ==
    /\ sap.objects \subseteq ToSet(Assets) /\ {sap.baked, sap.dest} \subseteq Ids \cup {None}
    /\ sap.group \in BOOLEAN /\ sap.modules \in BOOLEAN
    /\ served \in Ids \cup {None}
    /\ run.exit \in {0, 1, 2, 9} /\ run.failures \in 0 .. Len(Assets) + 2
    /\ faults \in 0 .. MaxFaults /\ runs \in 0 .. MaxRuns

\* A run that carried out its plan and ends with 0 leaves what it planned, however
\* much was there before and whatever earlier runs left undone: the destination
\* names the program id it was asked for, the modules can be called, and after a
\* deployment every object is there.
ZeroMeansInstalled ==
    run.pc = "verified" /\ run.exit = 0 =>
       /\ sap.dest = run.id
       /\ run.plan.modules => sap.modules
       /\ run.plan.deploy => sap.objects = ToSet(Assets)
===============================================================================
