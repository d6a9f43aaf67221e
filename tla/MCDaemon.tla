------------------------------- MODULE MCDaemon --------------------------------
(* Instances of Daemon for TLC: names, cadences of one tick, two instances.  *)
EXTENDS Daemon, TLC

CONSTANTS d1, d2, t1, t2, t3

MCName == [t \in Targets |-> CASE t = t1 -> 1 [] t = t2 -> 2 [] OTHER -> 3]

MCInterval == [t \in Targets |-> 2]

\* The instances are alike.
Symmetry == Permutations(Daemons)
===============================================================================
