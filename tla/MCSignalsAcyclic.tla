-------------------------- MODULE MCSignalsAcyclic --------------------------
(* Handlers that do not call themselves: rx and tick both call log, and rx *)
(* also calls a name that no plugin registered.                            *)
EXTENDS SignalDispatch, TLC

CONSTANTS env, mqtt, rx, tick, log, gone

MCThreads == {env, mqtt}
MCSignals == {rx, tick, log}
MCRoots == (env :> {tick, rx}) @@ (mqtt :> {rx})
MCRaises == (rx :> {log, gone}) @@ (tick :> {log}) @@ (log :> {})
=============================================================================
