---------------------------- MODULE SignalMonitor ----------------------------
(***************************************************************************)
(* What the signals of the plugin manager promise to the scripts: each     *)
(* handler is a monitor.  Calls queue up at it in no particular order, it  *)
(* serves one at a time, and the script sees the data of the call it       *)
(* serves from the beginning to the end of that call.                      *)
(***************************************************************************)
CONSTANTS
  Signals,  \* the monitors
  Data,     \* the data of the calls
  NoData    \* no call is being served

VARIABLES
  waiting,  \* waiting[s]: the calls that queue up at s
  serving   \* serving[s]: the data of the call that s is serving

vars == <<waiting, serving>>

Init ==
  /\ waiting = [s \in Signals |-> {}]
  /\ serving = [s \in Signals |-> NoData]

(* No two calls that exist at a time have the same data.                   *)
Fresh(d) == \A s \in Signals : d \notin waiting[s] /\ serving[s] # d

Call(s, d) ==
  /\ Fresh(d)
  /\ waiting' = [waiting EXCEPT ![s] = @ \cup {d}]
  /\ UNCHANGED serving

Begin(s, d) ==
  /\ d \in waiting[s]
  /\ serving[s] = NoData
  /\ waiting' = [waiting EXCEPT ![s] = @ \ {d}]
  /\ serving' = [serving EXCEPT ![s] = d]

Return(s) ==
  /\ serving[s] # NoData
  /\ serving' = [serving EXCEPT ![s] = NoData]
  /\ UNCHANGED waiting

Next ==
  \E s \in Signals :
    \/ \E d \in Data : Call(s, d) \/ Begin(s, d)
    \/ Return(s)

Spec == Init /\ [][Next]_vars
=============================================================================
