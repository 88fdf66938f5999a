----------------------------- MODULE MCSysagent -----------------------------
(* Two environments, the callback thread, a handler of mqtt:RX that calls  *)
(* another one, both orders of the plugins.                                *)
EXTENDS Sysagent

CONSTANTS rx, job

Orders == {<<"lua", "mqtt">>, <<"mqtt", "lua">>}
MCRaises == [s \in Signals |-> IF s = rx THEN {job} ELSE {}]
=============================================================================
