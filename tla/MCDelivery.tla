------------------------------ MODULE MCDelivery ------------------------------
(***************************************************************************)
(* How rows reach a table, and are checked there, outside the delta cycle, *)
(* each way on its own: an APE_DELTA cycle, an APE_FULL scan, the          *)
(* subscriptions of a change log, a mass load, a validation.  They share   *)
(* no state, so that the initial state chooses one (`which`) and the       *)
(* others stay as they are.                                                *)
(***************************************************************************)
EXTENDS ApeDelta, Delivery

CONSTANTS k1, k2, k3, v1, v2, Parts   \* Parts: which of them this run explores

VARIABLE which

MCPackage(kind, del, a, b) ==
    [kind |-> kind, del |-> del, up |-> [k \in Keys |-> IF k = k1 THEN a ELSE b]]

\* One package of each kind; one deletes a key and writes it again.
MCPackages ==
    {MCPackage("data", {k2}, v1, Null), MCPackage("data", {k1}, v2, v1),
     MCPackage("control", {}, Null, Null), MCPackage("no_indicator", {}, v1, Null),
     MCPackage("bad_row", {}, v1, Null), MCPackage("bad_cell", {k2}, v1, Null)}

MCImages == {{}, {k1, k2}, {k2, k3}}

MCInit ==
    /\ which \in Parts
    /\ Init /\ Full!Init /\ Log!Init
    /\ target = [k \in Keys |-> Null]
    /\ Mass!Init /\ (which = "mass" \/ \A S \in Tables : Cardinality(mSource) >= Cardinality(S))
    /\ Val!Init /\ (which = "validate" \/ (vSource = <<>> /\ Val!Size(replica) = 0 /\ mode = "full"))

DeltaStep   == which = "delta" /\ Next /\ UNCHANGED <<which, fullVars, logVars, loadVars, checked>>
FullStep    == which = "full" /\ Full!Next /\ UNCHANGED <<which, vars, logVars, loadVars, checked>>
PublishStep == which = "publish" /\ Log!Next /\ UNCHANGED <<which, vars, fullVars, loadVars, checked>>
LoadStep    == which = "mass" /\ Mass!Next /\ UNCHANGED <<which, vars, fullVars, logVars, checked>>
CheckStep   == which = "validate" /\ Val!Next /\ UNCHANGED <<which, vars, fullVars, logVars, loadVars>>

MCNext == DeltaStep \/ FullStep \/ PublishStep \/ LoadStep \/ CheckStep

MCVars == <<which, vars, fullVars, logVars, loadVars, checked>>

MCTables == {{1, 2, 4}, {3}}

MCDays == <<2, 3>>

MCSpec == MCInit /\ [][MCNext]_MCVars
             /\ WF_vars(which = "delta" /\ JobStep) /\ WF_vars(which = "delta" /\ ServerStep)

\* The types of all parts: among others, no portion of a load is empty.
TypesOK == TypeOK /\ Full!TypeOK /\ Log!TypeOK /\ Mass!TypeOK /\ Val!TypeOK
===============================================================================
