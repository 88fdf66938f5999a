------------------------------ MODULE Sysagent ------------------------------
(***************************************************************************)
(* The life of the daemon: main loads the plugins one after another, loops *)
(* until SIGTERM, and takes everything down again in umplg_free_mngr.  The *)
(* threads that the plugins start use the tables of the plugin manager all *)
(* the while, without a lock:                                              *)
(*   - the environments of the Lua plugin raise signals and publish,       *)
(*   - the callback thread of the MQTT client raises mqtt:RX,              *)
(*   - the script of a signal handler publishes or raises another signal,  *)
(*     on the calling thread, while it holds the mutex of the handler.     *)
(* A run of a script makes one call at most, handlers do not call          *)
(* themselves (see SignalDispatch) and there is one MQTT connection.       *)
(***************************************************************************)
EXTENDS Naturals, Sequences, FiniteSets

CONSTANTS
  LoadOrders,   \* orders of plugins that scandir may find: some of "lua", "mqtt"
  Envs,         \* environments that the Lua plugin starts
  Rx,           \* the callback thread of the MQTT client
  Signals,      \* signals that have a handler
  RxSignal,     \* "mqtt:RX", which may have one
  Publishers,   \* signals whose handler may publish
  Raises,       \* Raises[s]: signals that the handler of s may raise
  DestroyWaits  \* TRUE: MQTTAsync_destroy waits for a callback that runs

ASSUME ConstantsAssumption ==
  /\ LoadOrders \subseteq {<<"lua", "mqtt">>, <<"mqtt", "lua">>, <<"lua">>, <<"mqtt">>, <<>>}
  /\ Rx \notin Envs
  /\ Publishers \subseteq Signals
  /\ Raises \in [Signals -> SUBSET Signals]
  /\ \E rank \in [Signals -> 1..Cardinality(Signals)] :
       \A s \in Signals : \A u \in Raises[s] : rank[u] < rank[s]
  /\ DestroyWaits \in BOOLEAN

Plugins == {"lua", "mqtt"}
Threads == Envs \cup {Rx}

VARIABLES
  order,      \* the plugins in the order they are loaded
  pc,         \* main: "load", "init", "loop", "free_signals", "free_hooks", "terminate", "exited", "crashed"
  i,          \* the plugin that is loaded or terminated
  signals,    \* signals[s]: handler of s in pm->signals: "absent", "present", "freed"
  hooks,      \* hooks[p]: command of plugin p in pm->hooks: "absent", "present", "freed"
  mngr,       \* mqtt_mngr: "none", "ready", "freed"
  conn,       \* its connection: "none", "up", "freed"
  locked,     \* main holds mqtt_mngr->mtx
  joined,     \* environments whose thread was joined
  terminated, \* UMD->is_terminated
  at,         \* at[t]: where thread t is
  calls       \* calls[t]: the signal handlers that t is inside, the innermost last

main == <<order, pc, i, signals, hooks, mngr, conn, locked, joined>>
vars == <<main, terminated, at, calls>>

-----------------------------------------------------------------------------
Dead == pc \in {"exited", "crashed"}

(* lua is alphabetically before mqtt, but plugin files can be renamed.     *)
Plugin == order[i]
Current(phase, p) == pc = phase /\ i <= Len(order) /\ Plugin = p

Init ==
  /\ order \in LoadOrders
  /\ pc = "load"
  /\ i = 1
  /\ signals = [s \in Signals |-> "absent"]
  /\ hooks = [p \in Plugins |-> "absent"]
  /\ mngr = "none"
  /\ conn = "none"
  /\ locked = FALSE
  /\ joined = {}
  /\ terminated = FALSE
  /\ at = [t \in Threads |-> "none"]
  /\ calls = [t \in Threads |-> <<>>]

-----------------------------------------------------------------------------
(* Loading.                                                                *)

(* umplg_load adds the hooks before it calls init.                         *)
AttachHooks ==
  /\ pc = "load"
  /\ i <= Len(order)
  /\ hooks' = [hooks EXCEPT ![Plugin] = "present"]
  /\ pc' = "init"
  /\ UNCHANGED <<order, i, signals, mngr, conn, locked, joined, terminated, at, calls>>

Loaded ==
  /\ pc = "load"
  /\ i > Len(order)
  /\ pc' = "loop"
  /\ UNCHANGED <<order, i, signals, hooks, mngr, conn, locked, joined, terminated, at, calls>>

RegisterSignal(s) ==
  /\ Current("init", "lua")
  /\ signals[s] = "absent"
  /\ signals' = [signals EXCEPT ![s] = "present"]
  /\ UNCHANGED <<order, pc, i, hooks, mngr, conn, locked, joined, terminated, at, calls>>

(* Mutant: an environment is started as soon as it is configured.          *)
StartEnv_Early(e) ==
  /\ Current("init", "lua")
  /\ at[e] = "none"
  /\ at' = [at EXCEPT ![e] = "check"]
  /\ UNCHANGED <<main, terminated, calls>>

(* process_cfg comes first, then lenvm_process_envs.                       *)
StartEnv(e) ==
  /\ Current("init", "lua")
  /\ \A s \in Signals : signals[s] = "present"
  /\ at[e] = "none"
  /\ at' = [at EXCEPT ![e] = "check"]
  /\ UNCHANGED <<main, terminated, calls>>

LuaReady ==
  /\ Current("init", "lua")
  /\ \A s \in Signals : signals[s] = "present"
  /\ \A e \in Envs : at[e] # "none"
  /\ pc' = "load"
  /\ i' = i + 1
  /\ UNCHANGED <<order, signals, hooks, mngr, conn, locked, joined, terminated, at, calls>>

NewManager ==
  /\ Current("init", "mqtt")
  /\ mngr = "none"
  /\ mngr' = "ready"
  /\ UNCHANGED <<order, pc, i, signals, hooks, conn, locked, joined, terminated, at, calls>>

Connect ==
  /\ Current("init", "mqtt")
  /\ mngr = "ready"
  /\ conn = "none"
  /\ conn' = "up"
  /\ at' = [at EXCEPT ![Rx] = "idle"]
  /\ UNCHANGED <<order, pc, i, signals, hooks, mngr, locked, joined, terminated, calls>>

MqttReady ==
  /\ Current("init", "mqtt")
  /\ conn = "up"
  /\ pc' = "load"
  /\ i' = i + 1
  /\ UNCHANGED <<order, signals, hooks, mngr, conn, locked, joined, terminated, at, calls>>

-----------------------------------------------------------------------------
(* Taking down: umplg_free_mngr, after umd_loop has seen the flag.         *)
BeginStop ==
  /\ pc = "loop"
  /\ terminated
  /\ pc' = "free_signals"
  /\ UNCHANGED <<order, i, signals, hooks, mngr, conn, locked, joined, terminated, at, calls>>

(* HASH_DEL, lua_close, pthread_mutex_destroy and free, whoever uses them. *)
FreeSignal(s) ==
  /\ pc = "free_signals"
  /\ signals[s] = "present"
  /\ signals' = [signals EXCEPT ![s] = "freed"]
  /\ UNCHANGED <<order, pc, i, hooks, mngr, conn, locked, joined, terminated, at, calls>>

SignalsFreed ==
  /\ pc = "free_signals"
  /\ \A s \in Signals : signals[s] # "present"
  /\ pc' = "free_hooks"
  /\ UNCHANGED <<order, i, signals, hooks, mngr, conn, locked, joined, terminated, at, calls>>

FreeHook(p) ==
  /\ pc = "free_hooks"
  /\ hooks[p] = "present"
  /\ hooks' = [hooks EXCEPT ![p] = "freed"]
  /\ UNCHANGED <<order, pc, i, signals, mngr, conn, locked, joined, terminated, at, calls>>

HooksFreed ==
  /\ pc = "free_hooks"
  /\ \A p \in Plugins : hooks[p] # "present"
  /\ pc' = "terminate"
  /\ i' = 1
  /\ UNCHANGED <<order, signals, hooks, mngr, conn, locked, joined, terminated, at, calls>>

(* Mutant: the threads are detached.                                       *)
JoinEnv_Detached(e) ==
  /\ Current("terminate", "lua")
  /\ e \notin joined
  /\ joined' = joined \cup {e}
  /\ UNCHANGED <<order, pc, i, signals, hooks, mngr, conn, locked, terminated, at, calls>>

(* shutdown_lua_envs: pthread_join.                                        *)
JoinEnv(e) ==
  /\ Current("terminate", "lua")
  /\ e \notin joined
  /\ at[e] = "ended"
  /\ joined' = joined \cup {e}
  /\ UNCHANGED <<order, pc, i, signals, hooks, mngr, conn, locked, terminated, at, calls>>

(* dlclose after terminate.                                                *)
LuaUnloaded ==
  /\ Current("terminate", "lua")
  /\ joined = Envs
  /\ i' = i + 1
  /\ UNCHANGED <<order, pc, signals, hooks, mngr, conn, locked, joined, terminated, at, calls>>

(* mqtt_mngr_process_conns locks the manager ...                           *)
LockManager ==
  /\ Current("terminate", "mqtt")
  /\ mngr = "ready"
  /\ conn = "up"
  /\ ~locked
  /\ locked' = TRUE
  /\ UNCHANGED <<order, pc, i, signals, hooks, mngr, conn, joined, terminated, at, calls>>

(* ... and destroys the client with the lock held.                         *)
DestroyConn ==
  /\ Current("terminate", "mqtt")
  /\ locked
  /\ conn = "up"
  /\ DestroyWaits => at[Rx] = "idle"
  /\ conn' = "freed"
  /\ UNCHANGED <<order, pc, i, signals, hooks, mngr, locked, joined, terminated, at, calls>>

(* Unlock, free the manager, dlclose.                                      *)
MqttUnloaded ==
  /\ Current("terminate", "mqtt")
  /\ conn = "freed"
  /\ mngr' = "freed"
  /\ locked' = FALSE
  /\ i' = i + 1
  /\ UNCHANGED <<order, pc, signals, hooks, conn, joined, terminated, at, calls>>

Exit ==
  /\ pc = "terminate"
  /\ i > Len(order)
  /\ pc' = "exited"
  /\ UNCHANGED <<order, i, signals, hooks, mngr, conn, locked, joined, terminated, at, calls>>

Main ==
  \/ AttachHooks \/ Loaded
  \/ \E s \in Signals : RegisterSignal(s) \/ FreeSignal(s)
  \/ \E e \in Envs : StartEnv(e) \/ JoinEnv(e)
  \/ LuaReady \/ NewManager \/ Connect \/ MqttReady
  \/ BeginStop \/ SignalsFreed
  \/ \E p \in Plugins : FreeHook(p)
  \/ HooksFreed \/ LuaUnloaded
  \/ LockManager \/ DestroyConn \/ MqttUnloaded \/ Exit

-----------------------------------------------------------------------------
(* The threads.  A thread that uses what main has freed goes on as if it   *)
(* were still there, never comes back ("lost": a lock that nobody will     *)
(* open, a corrupted script), or takes the process down.                   *)
Goes(t, from, to) ==
  /\ ~Dead
  /\ at[t] = from
  /\ at' = [at EXCEPT ![t] = to]
  /\ UNCHANGED <<main, terminated>>

Crash(t, from) ==
  /\ ~Dead
  /\ at[t] = from
  /\ pc' = "crashed"
  /\ UNCHANGED <<order, i, signals, hooks, mngr, conn, locked, joined, terminated, at, calls>>

Uses(t, alive, from, to) ==
  \/ Goes(t, from, to) /\ UNCHANGED calls
  \/ ~alive /\ Goes(t, from, "lost") /\ UNCHANGED calls
  \/ ~alive /\ Crash(t, from)

Inside(t) == calls[t] # <<>>
Innermost(t) == calls[t][Len(calls[t])]
HandlerAlive(t) == Inside(t) => signals[Innermost(t)] = "present"

(* Mutant: the mutex is taken before the handler's run method is called,   *)
(* too, and is not recursive.                                              *)
Holds_Twice(t, s) == \E n \in 1..Len(calls[t]) : calls[t][n] = s

(* shd->mtx: t has passed the lock of s and not the unlock.                *)
Holds(t, s) ==
  \E n \in 1..Len(calls[t]) : calls[t][n] = s /\ (n < Len(calls[t]) \/ at[t] # "found")

Base(t) == IF t = Rx THEN "idle" ELSE "check"

(* Mutant: a call made by a handler ends the handler.                      *)
Back_Base(t, inside) == Base(t)

(* Where a call returns to: a script that has made its call goes on to its *)
(* end.                                                                    *)
Back(t, inside) == IF inside = <<>> THEN Base(t) ELSE "leaving"

(* Mutant: the loop of an environment looks only at its own flag.          *)
CheckFlag_Active(e) ==
  /\ Goes(e, "check", "own")
  /\ UNCHANGED calls

(* The loop condition of th_lua_env.                                       *)
CheckFlag(e) ==
  /\ Goes(e, "check", IF terminated THEN "ended" ELSE "own")
  /\ UNCHANGED calls

(* A run of the script of an environment that makes no call.               *)
SkipCall(e) ==
  /\ Goes(e, "own", "check")
  /\ UNCHANGED calls

(* umplg_proc_signal: the handler is looked up ...                         *)
Raise(t, s, from) ==
  \/ /\ signals[s] = "present"
     /\ Goes(t, from, "found")
     /\ calls' = [calls EXCEPT ![t] = Append(@, s)]
  \/ /\ signals[s] # "present"
     /\ Goes(t, from, Back(t, calls[t]))
     /\ UNCHANGED calls

(* ... by the script of an environment or of another handler ...           *)
RaiseOwn(e) == \E s \in Signals : Raise(e, s, "own")
RaiseNested(t) == Inside(t) /\ \E s \in Raises[Innermost(t)] : Raise(t, s, "script")

(* ... and its run method entered, when the mutex is free: the mutex, the  *)
(* flag and the lua_State are used from here to the unlock.                *)
EnterHandler(t) ==
  /\ at[t] = "found"
  /\ HandlerAlive(t) => \A u \in Threads : ~Holds(u, Innermost(t))
  /\ Uses(t, HandlerAlive(t), "found", "script")

(* The script ends, having made its call or not: unlock and return to the  *)
(* caller.                                                                 *)
LeaveHandler(t) ==
  LET outer == SubSeq(calls[t], 1, Len(calls[t]) - 1)
  IN \E from \in {"script", "leaving"} :
       \/ Goes(t, from, Back(t, outer)) /\ calls' = [calls EXCEPT ![t] = outer]
       \/ ~HandlerAlive(t) /\ Goes(t, from, "lost") /\ UNCHANGED calls
       \/ ~HandlerAlive(t) /\ Crash(t, from)

(* M.cmd_call{"CMD_MQTT_PUBLISH", ...}, by an environment or by a handler: *)
(* umplg_run looks the hook up ...                                         *)
FindHook(t) ==
  \E from \in {"own", "script"} :
    /\ from = "script" => Inside(t) /\ Innermost(t) \in Publishers
    /\ Goes(t, from, IF hooks["mqtt"] = "present" THEN "hook" ELSE Back(t, calls[t]))
    /\ UNCHANGED calls

(* ... impl_mqtt_publish looks the connection up, under the lock ...       *)
GetConn(t) ==
  \/ /\ mngr = "none"
     /\ Crash(t, "hook")
  \/ /\ mngr = "ready"
     /\ ~locked
     /\ Uses(t, hooks["mqtt"] = "present", "hook",
             IF conn = "up" THEN "conn" ELSE Back(t, calls[t]))
  \/ /\ mngr = "freed"
     /\ Uses(t, FALSE, "hook", Back(t, calls[t]))

(* ... and sends with it after the unlock.                                 *)
Send(t) == Uses(t, conn = "up", "conn", Back(t, calls[t]))

(* mqtt_on_rx; nothing happens if mqtt:RX has no handler at all.           *)
Receive ==
  /\ conn = "up"
  /\ RxSignal \in Signals
  /\ Raise(Rx, RxSignal, "idle")

Thread(t) ==
  \/ t \in Envs /\ (CheckFlag(t) \/ SkipCall(t) \/ RaiseOwn(t))
  \/ RaiseNested(t) \/ EnterHandler(t) \/ LeaveHandler(t)
  \/ FindHook(t) \/ GetConn(t) \/ Send(t)

-----------------------------------------------------------------------------
(* umd_signal_handler, from the moment main has installed it.              *)
Sigterm ==
  /\ ~Dead
  /\ ~terminated
  /\ terminated' = TRUE
  /\ UNCHANGED <<main, at, calls>>

(* The process is gone, or a lost thread keeps it.                         *)
Finished ==
  /\ Dead \/ \E t \in Threads : at[t] = "lost"
  /\ UNCHANGED vars

Next == Main \/ (\E t \in Threads : Thread(t)) \/ Receive \/ Sigterm \/ Finished

(* All threads are scheduled.  Neither messages nor SIGTERM need to come.  *)
(* A thread that waits for a mutex gets it if it is free again and again.  *)
Fairness == WF_vars(Main) /\ \A t \in Threads : SF_vars(Thread(t))

Spec == Init /\ [][Next]_vars /\ Fairness

-----------------------------------------------------------------------------
(* Types, and which states go with a handler: a thread that has called a   *)
(* handler stays in it until the handler has returned.                     *)
TypeOK ==
  /\ order \in LoadOrders
  /\ pc \in {"load", "init", "loop", "free_signals", "free_hooks", "terminate", "exited", "crashed"}
  /\ i \in 1..(Len(order) + 1)
  /\ signals \in [Signals -> {"absent", "present", "freed"}]
  /\ hooks \in [Plugins -> {"absent", "present", "freed"}]
  /\ mngr \in {"none", "ready", "freed"}
  /\ conn \in {"none", "up", "freed"}
  /\ locked \in BOOLEAN
  /\ joined \subseteq Envs
  /\ terminated \in BOOLEAN
  /\ at \in [Threads -> {"none", "idle", "check", "own", "found", "script", "hook",
                         "conn", "leaving", "ended", "lost"}]
  /\ calls \in [Threads -> Seq(Signals)]
  /\ \A t \in Threads :
       /\ at[t] \in {"found", "script", "leaving"} => Inside(t)
       /\ at[t] \in {"none", "idle", "check", "own", "ended"} => ~Inside(t)

LuaFirst == order = <<"lua", "mqtt">>
MqttFirst == order = <<"mqtt", "lua">>

(* If the Lua plugin is loaded before the MQTT plugin, every signal has    *)
(* its handler as soon as any thread can raise one: none is missed until   *)
(* the daemon stops.                                                       *)
NoSignalMissed ==
  LuaFirst /\ pc \in {"load", "init", "loop"} /\ (\E t \in Threads : at[t] # "none") =>
    \A s \in Signals : signals[s] = "present"

(* It is then terminated first, too: no environment ever publishes on a    *)
(* connection that was destroyed, nor calls a plugin that was unloaded.    *)
(* In the other order a publish command is never called before the MQTT    *)
(* plugin has a manager.                                                   *)
PublishesSafely ==
  /\ LuaFirst =>
       \A e \in Envs :
         /\ at[e] = "conn" => conn = "up"
         /\ at[e] = "hook" => mngr # "freed"
  /\ MqttFirst => \A t \in Threads : at[t] = "hook" => mngr # "none"

(* umplg_free_mngr frees the handlers, their mutexes and their lua_States  *)
(* without taking the mutexes, so a thread may be inside one that is gone. *)
(* That takes a SIGTERM: while the daemon loads and loops no handler goes. *)
(* It does not outlast the join of an environment, so that in the usual    *)
(* order of plugins only the callback thread may still be inside one when  *)
(* the connection is destroyed.                                            *)
FreedHandlersInUse ==
  \A t \in Threads : ~HandlerAlive(t) =>
    /\ terminated
    /\ pc \notin {"load", "init", "loop"}
    /\ t \notin joined
    /\ LuaFirst /\ conn = "freed" => t = Rx

(* A callback of the client library returns, whatever mutexes of handlers  *)
(* and of the plugin its script needs, that environments and main take and *)
(* destroy, unless a thread is lost in what was freed under it.            *)
CallbackReturns ==
  Inside(Rx) ~> ~Inside(Rx) \/ Dead \/ \E t \in Threads : at[t] = "lost"

(* The daemon stops when it is told to, unless a thread is lost in what    *)
(* was freed under it.                                                     *)
Terminates == terminated ~> Dead \/ \E t \in Threads : at[t] = "lost"
=============================================================================
