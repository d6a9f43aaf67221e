------------------------------ MODULE MCCdcTier -------------------------------
(***************************************************************************)
(* Small instances of CdcTier for TLC.                                     *)
(***************************************************************************)
EXTENDS CdcTier, TLC

\* One key is there at first, with some value; the others are not.
MCInit ==
    /\ Init
    /\ \E a \in Keys :
          source = [k \in Keys |-> IF k = a THEN CHOOSE v \in Values : TRUE ELSE Null]

MCSpec     == MCInit /\ [][Next]_vars
MCFairSpec == MCSpec /\ Fairness
Symmetry   == Permutations(Keys)
===============================================================================
