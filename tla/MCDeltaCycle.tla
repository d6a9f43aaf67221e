----------------------------- MODULE MCDeltaCycle -----------------------------
(***************************************************************************)
(* Small instances of DeltaCycle for TLC.                                  *)
(***************************************************************************)
EXTENDS DeltaCycle, TLC

\* Executors are interchangeable.
Symmetry == Permutations(Executor)

\* Two executors and failures with the rows of one key, or one executor at a time
\* that reads rows on two pages.
OneRowOrOneExecutor ==
    \/ \A k \in Key \ {1} : source[k] = Null /\ pending[k] = Null
    \/ faults = 0 /\ \A v, w \in Executor : v = w \/ pc[v] = "idle" \/ pc[w] = "idle"
===============================================================================
