------------------------------- MODULE Validation -------------------------------
(***************************************************************************)
(* VALIDATE: the source's rows and the replica's, each as a key and a      *)
(* fingerprint of its cells, compared by key with their multiplicity.  In  *)
(* sample mode the source sends its first rows and its row count.  The     *)
(* replica's own order need not be the source's.                           *)
(***************************************************************************)
EXTENDS Naturals, Sequences, FiniteSets

CONSTANTS
    RowKeys,           \* keys, as text
    Prints,            \* fingerprints
    MaxRows,           \* rows of the source, and copies of a row in the replica
    SampleRows

VARIABLES source, replica, window, mode, verdict

vars == <<source, replica, window, mode, verdict>>

Rows == RowKeys \X Prints

Counts == [Rows -> 0 .. MaxRows]

ValidationAssumption ==
    IsFiniteSet(RowKeys) /\ IsFiniteSet(Prints) /\ MaxRows \in Nat /\ SampleRows \in Nat

\* How many rows there are in a bag.
Size(bag) == Cardinality(UNION {{r} \X (1 .. bag[r]) : r \in Rows})

\* The rows that the source reads, in its order; the rows of the replica, and
\* those that its own order and limit let through.
Init ==
    /\ source \in UNION {[1 .. n -> Rows] : n \in 0 .. MaxRows}
    /\ replica \in Counts
    /\ mode \in {"sample", "full"}
    /\ window = replica /\ verdict = "none"

\* BuildPlan of a sample: the first rows of the replica, of whatever order.
Limit ==
    /\ verdict = "none" /\ mode = "sample" /\ Size(window) > SampleRows
    /\ \E r \in Rows : window[r] > 0 /\ window' = [window EXCEPT ![r] = @ - 1]
    /\ UNCHANGED <<source, replica, mode, verdict>>

Sent == IF mode = "full" \/ Len(source) <= SampleRows THEN source ELSE SubSeq(source, 1, SampleRows)

\* The replica's rows of the keys that were sent; all when none was.
Mine == [r \in Rows |-> IF mode = "full" \/ Sent = <<>> \/ \E i \in DOMAIN Sent : Sent[i][1] = r[1]
                        THEN window[r] ELSE 0]

\* One row of the source takes one row of the replica with it: the same one, or
\* a different one of that key, or none.
Pair(seen, row) ==
    IF seen.mine[row] > 0 THEN [seen EXCEPT !.mine[row] = @ - 1]
    ELSE [bad |-> seen.bad + 1,
          mine |-> IF \E p \in Prints : seen.mine[<<row[1], p>>] > 0
                   THEN LET other == CHOOSE p \in Prints : seen.mine[<<row[1], p>>] > 0
                        IN [seen.mine EXCEPT ![<<row[1], other>>] = @ - 1]
                   ELSE seen.mine]

\* What is left when all rows that were sent have been compared, one by one.
Compared ==
    LET after[i \in 0 .. Len(Sent)] ==
          IF i = 0 THEN [mine |-> Mine, bad |-> 0] ELSE Pair(after[i - 1], Sent[i])
    IN after[Len(Sent)]

\* Mutant of LeftOver: what only the replica has goes unseen.
NothingLeft == FALSE

\* Rows that only the replica has: what is left, or a different row count when
\* the sample was the whole source, or anything when nothing was sent.
LeftOver ==
    \/ mode = "full" /\ Size(Compared.mine) > 0
    \/ mode = "sample" /\ Len(source) # Size(replica) /\ Len(source) < SampleRows
    \/ Sent = <<>> /\ Size(Mine) > 0

Validate ==
    /\ verdict = "none" /\ (mode = "sample" => Size(window) <= SampleRows)
    /\ verdict' = IF Compared.bad > 0 \/ LeftOver THEN "FAILED" ELSE "PASSED"
    /\ UNCHANGED <<source, replica, window, mode>>

Next == Limit \/ Validate

Copies(row, rows) == Cardinality({i \in DOMAIN rows : rows[i] = row})

TypeOK == /\ verdict \in {"none", "PASSED", "FAILED"} /\ replica \in Counts
          /\ \A r \in Rows : window[r] <= replica[r]

Same == \A r \in Rows : replica[r] = Copies(r, source)

\* PASSED in full mode, or for a source smaller than the sample, means that the
\* replica holds the rows of the source, each as often, and no others; and for a
\* larger one, that it holds every row of the sample.  A full validation fails
\* only when there is a difference.
PassedMeansSame ==
    /\ verdict = "PASSED" =>
          IF mode = "full" \/ Len(source) < SampleRows THEN Same
          ELSE \A r \in Rows : replica[r] >= Copies(r, Sent)
    /\ verdict = "FAILED" /\ mode = "full" => ~Same
================================================================================
