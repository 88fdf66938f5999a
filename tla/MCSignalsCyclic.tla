--------------------------- MODULE MCSignalsCyclic ---------------------------
(* Handlers that call themselves, directly and through each other: all     *)
(* threads enter through ping, so the cycle is run by one thread at a time.*)
EXTENDS SignalDispatch, TLC

CONSTANTS env, mqtt, ping, pong

MCThreads == {env, mqtt}
MCSignals == {ping, pong}
MCRoots == [t \in MCThreads |-> {ping}]
MCRaises == (ping :> {ping, pong}) @@ (pong :> {ping})
=============================================================================
