-------------------------------- MODULE MCDelta --------------------------------
(***************************************************************************)
(* The delta cycle with a time stamp column, and on its own the window     *)
(* that a cycle reads for the other kinds of column.  They share no state, *)
(* so that the initial state chooses one (`which`) and the other stays as  *)
(* it is.                                                                  *)
(***************************************************************************)
EXTENDS MCDeltaCycle, Windows

VARIABLES which

\* A counter passes from one to two and to three digits.
MCRows == [k \in Kinds |-> IF k \in {"NUMC", "INT4"} THEN 4 ELSE 2]

MCInit ==
    /\ which \in {"cycle", "window"}
    /\ Init /\ (which = "cycle" \/ source = NoRows)
    /\ Win!Init /\ (which = "window" \/ kind = "DATE")

CycleStep  == which = "cycle" /\ Next /\ UNCHANGED <<which, windowVars>>
WindowStep == which = "window" /\ Win!Next /\ UNCHANGED <<which, vars>>

MCSpec == MCInit /\ [][CycleStep \/ WindowStep]_<<which, vars, windowVars>>

\* The types of both parts: the rows of a target and of its runs that Begin and Commit
\* write, and the window and the position of the other kinds of column.
TypesOK == TypeOK /\ Win!TypeOK
===============================================================================
