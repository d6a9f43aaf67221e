------------------------------ MODULE ApePackage ------------------------------
(***************************************************************************)
(* A package of changes as the server decodes it (ExtractEnvelope,         *)
(* DecodeCsv, ClassifyRow), reduced to what tells one package from another *)
(* on the way to the target.                                               *)
(*                                                                         *)
(*   data          rows that merge                                         *)
(*   control       no rows: a terminator or a control envelope             *)
(*   no_indicator  rows without /1DH/OPERATION                             *)
(*   bad_row       an operation that is none, a column that is missing     *)
(*   bad_cell      a cell that does not cast to the type of its column     *)
(***************************************************************************)
EXTENDS Integers, Sequences

CONSTANTS Keys, Values, Null

ASSUME NullAssumption == Null \notin Values

Row == Values \cup {Null}

\* Keys that are deleted, then rows that are written (Null: none for the key).
Package == [kind : {"data", "control", "no_indicator", "bad_row", "bad_cell"},
            del : SUBSET Keys, up : [Keys -> Row]]

\* The rows after a package: a row it writes stays, even if it deletes the key too.
Apply(p, rows) ==
    [k \in Keys |-> IF p.up[k] # Null THEN p.up[k]
                    ELSE IF k \in p.del THEN Null ELSE rows[k]]
===============================================================================
