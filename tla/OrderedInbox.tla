----------------------------- MODULE OrderedInbox -----------------------------
(***************************************************************************)
(* What an APE_DELTA target promises of its source: SAP hands out packages *)
(* of changes, each once; the replica takes them in the order they were    *)
(* handed out, each at most once and wholly.  A package may be left out,   *)
(* none is taken after a later one.  How rows are staged, copied and       *)
(* merged is not visible here.                                             *)
(***************************************************************************)
EXTENDS ApePackage

VARIABLES stream,      \* the packages handed out so far
          taken,       \* the number of the last one that was taken, 0 for none
          replica      \* the replicated rows

vars == <<stream, taken, replica>>

Init == stream = <<>> /\ taken = 0 /\ replica \in [Keys -> Row]

HandOver ==
    /\ stream' \in Seq(Package)
    /\ Len(stream) <= Len(stream')
    /\ \A n \in 1..Len(stream) : stream'[n] = stream[n]
    /\ UNCHANGED <<taken, replica>>

Take(n) ==
    /\ taken < n
    /\ taken' = n
    /\ replica' = Apply(stream[n], replica)
    /\ UNCHANGED stream

Next == HandOver \/ \E n \in 1..Len(stream) : Take(n)

Spec == Init /\ [][Next]_vars
===============================================================================
