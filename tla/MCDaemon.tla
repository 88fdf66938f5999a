------------------------------ MODULE MCDaemon ------------------------------
(* Every command line of up to four options: ids at both sides of the two  *)
(* limits, the same options repeated, in any order.                        *)
EXTENDS Daemon, TLC

CONSTANTS short, medium, longest, long, path, file

MCSize == (short :> 15) @@ (medium :> 16) @@ (longest :> 29) @@ (long :> 30)

Arguments ==
  {[opt |-> "i", value |-> n] : n \in {short, medium, longest, long}}
  \cup {[opt |-> "p", value |-> path], [opt |-> "plugins-cfg", value |-> file],
        [opt |-> "v", value |-> None], [opt |-> "other", value |-> None]}

MCArgLists == UNION {[1..n -> Arguments] : n \in 0..4}
=============================================================================
