--------------------------- MODULE SysagentProofs ----------------------------
(***************************************************************************)
(* Proofs about Sysagent, for any number of environments, any signals with *)
(* handlers that raise one another, and a client library that may or may   *)
(* not wait for its callbacks.                                             *)
(***************************************************************************)
EXTENDS Sysagent, TLAPS

-----------------------------------------------------------------------------
(* The Lua plugin first: as soon as a thread runs, or main goes on to the  *)
(* second plugin, every signal has its handler.                            *)
HandlersFirst ==
  LuaFirst /\ pc \in {"load", "init", "loop"} /\ (i > 1 \/ \E t \in Threads : at[t] # "none") =>
    \A s \in Signals : signals[s] = "present"

(* The MQTT plugin first: without a manager main is still at that plugin,  *)
(* and there is no thread yet.                                             *)
ManagerFirst ==
  /\ conn # "none" => mngr # "none"
  /\ MqttFirst /\ mngr = "none" =>
       i = 1 /\ pc \in {"load", "init"} /\ \A t \in Threads : at[t] = "none"

(* A thread that was joined has ended, and when the Lua plugin comes first *)
(* all of them are joined before anything of the MQTT plugin is freed.     *)
JoinedFirst ==
  /\ \A e \in joined : at[e] = "ended"
  /\ LuaFirst /\ (conn = "freed" \/ mngr = "freed" \/ (pc = "terminate" /\ i > 1)) => joined = Envs

(* There is no callback thread before the connection, and no thread uses   *)
(* a connection that never was.                                            *)
ConnsExist ==
  conn = "none" => at[Rx] = "none" /\ \A t \in Threads : at[t] # "conn"

(* A thread is inside handlers that were registered: freed perhaps, but    *)
(* never absent.                                                           *)
Called(t) == \A n \in 1..Len(calls[t]) : signals[calls[t][n]] # "absent"

(* Nothing is taken down without a SIGTERM.                                *)
StoppedFirst ==
  /\ pc \in {"free_signals", "free_hooks", "terminate", "exited"} => terminated
  /\ (\E s \in Signals : signals[s] = "freed") => terminated /\ pc \notin {"load", "init", "loop"}

CalledFirst == \A t \in Threads : Called(t)

IInv ==
  /\ TypeOK
  /\ HandlersFirst
  /\ ManagerFirst
  /\ JoinedFirst
  /\ ConnsExist
  /\ CalledFirst
  /\ StoppedFirst

States == {"none", "idle", "check", "own", "found", "script", "hook", "conn", "leaving", "ended", "lost"}

(* Which states go with a handler (the last conjunct of TypeOK).           *)
InHandler(t) ==
  /\ at[t] \in {"found", "script", "leaving"} => Inside(t)
  /\ at[t] \in {"none", "idle", "check", "own", "ended"} => ~Inside(t)

(* What a step of thread t may do: it moves t, and only t, or it takes the *)
(* process down.  It leaves what main has set up alone.  t is not one that *)
(* was never started or has ended, it asks for a connection only if the    *)
(* command has a hook, gets one only if it is there, and enters handlers   *)
(* only if they are registered.                                            *)
Moved(t) ==
  /\ UNCHANGED <<main, terminated>>
  /\ at' \in [Threads -> States] /\ calls' \in [Threads -> Seq(Signals)]
  /\ \A u \in Threads \ {t} : at'[u] = at[u] /\ calls'[u] = calls[u]
  /\ at'[t] # "none"
  /\ at'[t] = "hook" => at[t] = "hook" \/ hooks["mqtt"] = "present"
  /\ at'[t] = "conn" => at[t] = "conn" \/ conn = "up"
  /\ InHandler(t)'
  /\ Called(t) => Called(t)'

Downed == /\ pc' = "crashed"
          /\ UNCHANGED <<order, i, signals, hooks, mngr, conn, locked, joined, terminated, at, calls>>

ThreadEffect(t) == at[t] \notin {"none", "ended"} /\ (Moved(t) \/ Downed)

USE ConstantsAssumption

-----------------------------------------------------------------------------
(* A thread that goes from one state to another, in the same handlers.     *)
LEMMA GoesMoves ==
  ASSUME TypeOK, NEW t \in Threads, NEW from \in States, NEW to \in States,
         Goes(t, from, to), UNCHANGED calls,
         from \notin {"none", "ended"}, to # "none",
         to = "hook" => hooks["mqtt"] = "present",
         to = "conn" => conn = "up",
         to \in {"found", "script", "leaving"} => Inside(t),
         to \in {"idle", "check", "own", "ended"} => ~Inside(t)
  PROVE  ThreadEffect(t)
<1>1. /\ at[t] = from /\ at' = [at EXCEPT ![t] = to] /\ calls' = calls
      /\ at \in [Threads -> States] /\ calls \in [Threads -> Seq(Signals)]
  BY DEF Goes, TypeOK, States
<1>2. at' \in [Threads -> States] /\ at'[t] = to /\ \A u \in Threads \ {t} : at'[u] = at[u]
  BY <1>1
<1>3. InHandler(t)'
  BY <1>1, <1>2 DEF InHandler, Inside
<1>4. Called(t)' = Called(t)
  BY <1>1 DEF Called, Goes, main
<1> QED
  BY <1>1, <1>2, <1>3, <1>4 DEF Moved, ThreadEffect, Goes

(* Where a call returns to, inside and outside of a handler.               *)
LEMMA BackIsPlace ==
  ASSUME TypeOK, NEW t \in Threads
  PROVE  /\ Back(t, calls[t]) \in {"idle", "check", "leaving"}
         /\ Back(t, calls[t]) = "leaving" <=> Inside(t)
BY DEF Back, Base, Inside

(* A thread that uses something, alive or freed.                           *)
LEMMA UsesMoves ==
  ASSUME TypeOK, NEW t \in Threads, NEW alive, NEW from \in States, NEW to \in States,
         Uses(t, alive, from, to),
         from \notin {"none", "ended"}, to # "none",
         to = "hook" => hooks["mqtt"] = "present",
         to = "conn" => conn = "up",
         to \in {"found", "script", "leaving"} => Inside(t),
         to \in {"idle", "check", "own", "ended"} => ~Inside(t)
  PROVE  ThreadEffect(t)
<1>1. CASE Goes(t, from, to) /\ UNCHANGED calls
  BY <1>1, GoesMoves
<1>2. CASE Goes(t, from, "lost") /\ UNCHANGED calls
  BY <1>2, GoesMoves DEF States
<1>3. CASE Crash(t, from)
  BY <1>3 DEF Crash, Downed, ThreadEffect
<1> QED
  BY <1>1, <1>2, <1>3 DEF Uses

(* umplg_proc_signal.                                                      *)
LEMMA RaiseMoves ==
  ASSUME TypeOK, NEW t \in Threads, NEW s \in Signals, NEW from \in {"own", "script", "idle"},
         Raise(t, s, from)
  PROVE  ThreadEffect(t)
<1>1. CASE signals[s] = "present"
  <2>1. /\ at[t] = from /\ at' = [at EXCEPT ![t] = "found"]
        /\ calls' = [calls EXCEPT ![t] = Append(@, s)]
        /\ UNCHANGED <<main, terminated>>
        /\ at \in [Threads -> States] /\ calls \in [Threads -> Seq(Signals)]
    BY <1>1 DEF Raise, Goes, TypeOK, States
  <2>2. Append(calls[t], s) \in Seq(Signals) /\ Append(calls[t], s) # <<>>
    <3>1. calls[t] \in Seq(Signals)
      BY <2>1
    <3>2. Append(calls[t], s) \in Seq(Signals) /\ Len(Append(calls[t], s)) = Len(calls[t]) + 1
      BY <3>1
    <3>3. Len(calls[t]) + 1 # 0 /\ Len(<<>>) = 0
      BY <3>1
    <3> QED
      BY <3>2, <3>3
  <2>3. /\ at' \in [Threads -> States] /\ calls' \in [Threads -> Seq(Signals)]
        /\ at'[t] = "found" /\ calls'[t] # <<>>
        /\ \A u \in Threads \ {t} : at'[u] = at[u] /\ calls'[u] = calls[u]
    BY <2>1, <2>2 DEF States
  <2>4. InHandler(t)'
    BY <2>3 DEF InHandler, Inside
  <2>5. Called(t) => Called(t)'
    <3>1. calls'[t] = Append(calls[t], s) /\ signals' = signals /\ calls[t] \in Seq(Signals)
      BY <2>1 DEF main
    <3>2. \A n \in 1..Len(calls'[t]) :
            IF n \in 1..Len(calls[t]) THEN calls'[t][n] = calls[t][n] ELSE calls'[t][n] = s
      BY <3>1
    <3> QED
      BY <1>1, <3>1, <3>2 DEF Called
  <2> QED
    BY <2>1, <2>3, <2>4, <2>5 DEF Moved, ThreadEffect
<1>2. CASE signals[s] # "present"
  BY <1>2, BackIsPlace, GoesMoves DEF Raise, States
<1> QED
  BY <1>1, <1>2

(* The end of a handler's script.                                          *)
LEMMA LeaveMoves ==
  ASSUME TypeOK, NEW t \in Threads, LeaveHandler(t)
  PROVE  ThreadEffect(t)
<1> DEFINE outer == SubSeq(calls[t], 1, Len(calls[t]) - 1)
<1>1. PICK from \in {"script", "leaving"} :
        \/ Goes(t, from, Back(t, outer)) /\ calls' = [calls EXCEPT ![t] = outer]
        \/ Goes(t, from, "lost") /\ UNCHANGED calls
        \/ Crash(t, from)
  BY DEF LeaveHandler
<1>2. CASE Goes(t, from, Back(t, outer)) /\ calls' = [calls EXCEPT ![t] = outer]
  <2>1. /\ at[t] = from /\ at' = [at EXCEPT ![t] = Back(t, outer)]
        /\ calls' = [calls EXCEPT ![t] = outer]
        /\ UNCHANGED <<main, terminated>>
        /\ at \in [Threads -> States] /\ calls \in [Threads -> Seq(Signals)]
    BY <1>2 DEF Goes, TypeOK, States
  <2>2. outer \in Seq(Signals)
    <3>1. calls[t] \in Seq(Signals) /\ calls[t] # <<>>
      BY <2>1 DEF TypeOK, Inside
    <3> QED
      BY <3>1
  <2>3. Back(t, outer) \in {"idle", "check", "leaving"} /\ (Back(t, outer) = "leaving" <=> outer # <<>>)
    BY DEF Back, Base
  <2>4. /\ at' \in [Threads -> States] /\ calls' \in [Threads -> Seq(Signals)]
        /\ at'[t] = Back(t, outer) /\ calls'[t] = outer
        /\ \A u \in Threads \ {t} : at'[u] = at[u] /\ calls'[u] = calls[u]
    BY <2>1, <2>2, <2>3 DEF States
  <2>5. InHandler(t)'
    BY <2>3, <2>4 DEF InHandler, Inside
  <2>6. Called(t) => Called(t)'
    <3>1. calls'[t] = outer /\ signals' = signals /\ calls[t] \in Seq(Signals) /\ calls[t] # <<>>
      BY <2>1, <2>4 DEF main, TypeOK, Inside
    <3>2. \A n \in 1..Len(calls'[t]) : n \in 1..Len(calls[t]) /\ calls'[t][n] = calls[t][n]
      BY <3>1
    <3> QED
      BY <3>1, <3>2 DEF Called
  <2> QED
    BY <2>1, <2>3, <2>4, <2>5, <2>6 DEF Moved, ThreadEffect
<1>3. CASE Goes(t, from, "lost") /\ UNCHANGED calls
  BY <1>3, GoesMoves DEF States
<1>4. CASE Crash(t, from)
  BY <1>4 DEF Crash, Downed, ThreadEffect
<1> QED
  BY <1>1, <1>2, <1>3, <1>4

(* All steps of the threads.                                               *)
LEMMA ThreadMoves ==
  ASSUME TypeOK, NEW t \in Threads, Thread(t) \/ (Receive /\ t = Rx)
  PROVE  ThreadEffect(t)
<1> USE DEF States
<1>1. at[t] \in {"found", "script", "leaving"} => Inside(t)
  BY DEF TypeOK
<1>2. at[t] \in {"none", "idle", "check", "own", "ended"} => ~Inside(t)
  BY DEF TypeOK
<1>3. CASE CheckFlag(t)
  BY <1>2, <1>3, GoesMoves DEF CheckFlag, Goes
<1>4. CASE SkipCall(t)
  BY <1>2, <1>4, GoesMoves DEF SkipCall, Goes
<1>5. CASE RaiseOwn(t)
  BY <1>5, RaiseMoves DEF RaiseOwn
<1>6. CASE RaiseNested(t)
  <2>1. Innermost(t) \in Signals
    BY <1>6 DEF RaiseNested, Inside, Innermost, TypeOK
  <2>2. PICK s \in Raises[Innermost(t)] : Raise(t, s, "script")
    BY <1>6 DEF RaiseNested
  <2> QED
    BY <2>1, <2>2, RaiseMoves
<1>7. CASE EnterHandler(t)
  BY <1>1, <1>7, UsesMoves DEF EnterHandler
<1>8. CASE LeaveHandler(t)
  BY <1>8, LeaveMoves
<1>9. CASE FindHook(t)
  BY <1>9, GoesMoves, BackIsPlace DEF FindHook
<1>10. CASE GetConn(t)
  <2>1. CASE mngr = "none" /\ Crash(t, "hook")
    BY <2>1 DEF Crash, Downed, ThreadEffect
  <2>2. CASE Uses(t, hooks["mqtt"] = "present", "hook", IF conn = "up" THEN "conn" ELSE Back(t, calls[t]))
    BY <2>2, UsesMoves, BackIsPlace
  <2>3. CASE Uses(t, FALSE, "hook", Back(t, calls[t]))
    BY <2>3, UsesMoves, BackIsPlace
  <2> QED
    BY <1>10, <2>1, <2>2, <2>3 DEF GetConn
<1>11. CASE Send(t)
  BY <1>11, UsesMoves, BackIsPlace DEF Send
<1>12. CASE Receive /\ t = Rx
  BY <1>12, RaiseMoves DEF Receive
<1> QED
  BY <1>3, <1>4, <1>5, <1>6, <1>7, <1>8, <1>9, <1>10, <1>11, <1>12 DEF Thread

(* A step of a thread keeps the invariant: it frees nothing, it starts     *)
(* nobody, and it gets no hook or connection that is not there.            *)
LEMMA ThreadKeepsInv ==
  ASSUME IInv, NEW t \in Threads, Thread(t) \/ (Receive /\ t = Rx)
  PROVE  IInv'
<1>1. /\ TypeOK /\ HandlersFirst /\ ManagerFirst /\ JoinedFirst /\ ConnsExist /\ CalledFirst /\ StoppedFirst
      /\ at[t] \notin {"none", "ended"}
  BY ThreadMoves DEF IInv, ThreadEffect
<1>2. CASE Downed
  BY <1>1, <1>2 DEF Downed, IInv, TypeOK, HandlersFirst, ManagerFirst, JoinedFirst, ConnsExist,
                    CalledFirst, Called, StoppedFirst, Inside, LuaFirst, MqttFirst
<1>3. CASE Moved(t)
  <2>1. UNCHANGED <<order, pc, i, signals, hooks, mngr, conn, locked, joined, terminated>>
    BY <1>3 DEF Moved, main
  <2>2. \A u \in Threads \ {t} : at'[u] = at[u] /\ calls'[u] = calls[u]
    BY <1>3 DEF Moved
  <2>3. TypeOK'
    <3>1. \A u \in Threads : InHandler(u)'
      BY <1>1, <1>3, <2>2 DEF Moved, InHandler, Inside, TypeOK
    <3> QED
      BY <1>1, <1>3, <2>1, <3>1 DEF Moved, InHandler, Inside, TypeOK, States
  <2>4. HandlersFirst'
    BY <1>1, <2>1 DEF HandlersFirst, LuaFirst
  <2>5. ManagerFirst'
    BY <1>1, <2>1 DEF ManagerFirst, MqttFirst
  <2>6. JoinedFirst'
    BY <1>1, <2>1, <2>2 DEF JoinedFirst, LuaFirst, TypeOK, Threads
  <2>7. ConnsExist'
    BY <1>1, <1>3, <2>1, <2>2 DEF ConnsExist, Moved, Threads
  <2>8. CalledFirst'
    <3>1. \A u \in Threads \ {t} : Called(u)' = Called(u)
      BY <2>1, <2>2 DEF Called
    <3>2. Called(t) => Called(t)'
      BY <1>3 DEF Moved
    <3> QED
      BY <1>1, <3>1, <3>2 DEF CalledFirst
  <2>9. StoppedFirst'
    BY <1>1, <2>1 DEF StoppedFirst
  <2> QED
    BY <2>3, <2>4, <2>5, <2>6, <2>7, <2>8, <2>9 DEF IInv
<1> QED
  BY <1>1, <1>2, <1>3, ThreadMoves DEF ThreadEffect

(* A handler that was registered stays in the table or is freed, so that a *)
(* step of main leaves no thread in one that was not.                      *)
LEMMA MainKeepsCalled ==
  ASSUME TypeOK, CalledFirst, UNCHANGED calls,
         \A s \in Signals : signals[s] # "absent" => signals'[s] # "absent"
  PROVE  CalledFirst'
<1> SUFFICES ASSUME NEW t \in Threads, NEW n \in 1..Len(calls[t]) PROVE signals'[calls[t][n]] # "absent"
  BY DEF CalledFirst, Called
<1>1. calls[t] \in Seq(Signals)
  BY DEF TypeOK
<1>2. calls[t][n] \in Signals
  BY <1>1
<1> QED
  BY <1>2 DEF CalledFirst, Called

(* Which plugin main is at, in either order.                               *)
LEMMA OrderOfPlugins ==
  ASSUME TypeOK
  PROVE  /\ LuaFirst => Len(order) = 2 /\ order[1] = "lua" /\ order[2] = "mqtt"
         /\ MqttFirst => Len(order) = 2 /\ order[1] = "mqtt" /\ order[2] = "lua"
         /\ i \in Nat /\ i >= 1 /\ Len(order) \in Nat /\ i <= Len(order) + 1
         /\ \A n \in 1..Len(order) : order[n] \in Plugins
<1>1. order \in {<<"lua", "mqtt">>, <<"mqtt", "lua">>, <<"lua">>, <<"mqtt">>, <<>>}
  BY DEF TypeOK
<1>2. Len(order) \in Nat /\ \A n \in 1..Len(order) : order[n] \in Plugins
  <2>1. CASE order = <<"lua", "mqtt">>
    BY <2>1 DEF Plugins
  <2>2. CASE order = <<"mqtt", "lua">>
    BY <2>2 DEF Plugins
  <2>3. CASE order = <<"lua">> \/ order = <<"mqtt">> \/ order = <<>>
    BY <2>3 DEF Plugins
  <2> QED
    BY <1>1, <2>1, <2>2, <2>3
<1>3. i \in Nat /\ i >= 1 /\ i <= Len(order) + 1
  BY <1>2 DEF TypeOK
<1>4. LuaFirst => Len(order) = 2 /\ order[1] = "lua" /\ order[2] = "mqtt"
  BY DEF LuaFirst
<1>5. MqttFirst => Len(order) = 2 /\ order[1] = "mqtt" /\ order[2] = "lua"
  BY DEF MqttFirst
<1> QED
  BY <1>2, <1>3, <1>4, <1>5

(* main loads the plugins.                                                 *)
LEMMA LoadingKeepsInv ==
  ASSUME IInv,
         \/ AttachHooks \/ Loaded \/ LuaReady \/ NewManager \/ Connect \/ MqttReady
         \/ \E s \in Signals : RegisterSignal(s)
         \/ \E e \in Envs : StartEnv(e)
  PROVE  IInv'
<1> USE OrderOfPlugins DEF Current, Plugin
<1>1. /\ TypeOK /\ HandlersFirst /\ ManagerFirst /\ JoinedFirst /\ ConnsExist /\ CalledFirst /\ StoppedFirst
  BY DEF IInv
<1>2. order' = order /\ LuaFirst' = LuaFirst /\ MqttFirst' = MqttFirst
  BY DEF AttachHooks, Loaded, LuaReady, NewManager, Connect, MqttReady, RegisterSignal, StartEnv,
         main, LuaFirst, MqttFirst
<1>0. CalledFirst' /\ StoppedFirst'
  <2>1. /\ UNCHANGED <<calls, terminated>> /\ pc \in {"load", "init"} /\ pc' \in {"load", "init", "loop"}
        /\ \A s \in Signals : signals'[s] = signals[s] \/ (signals[s] = "absent" /\ signals'[s] = "present")
    BY <1>1 DEF AttachHooks, Loaded, LuaReady, NewManager, Connect, MqttReady, RegisterSignal, StartEnv,
                main, TypeOK
  <2>2. CalledFirst'
    BY <1>1, <2>1, MainKeepsCalled
  <2> QED
    BY <1>1, <2>1, <2>2 DEF StoppedFirst
<1>3. CASE AttachHooks
  BY <1>0, <1>1, <1>2, <1>3 DEF AttachHooks, IInv, TypeOK, HandlersFirst, ManagerFirst, JoinedFirst,
                          ConnsExist, Inside, Plugins
<1>4. CASE Loaded
  BY <1>0, <1>1, <1>2, <1>4 DEF Loaded, IInv, TypeOK, HandlersFirst, ManagerFirst, JoinedFirst,
                          ConnsExist, Inside
<1>5. CASE LuaReady
  BY <1>0, <1>1, <1>2, <1>5 DEF LuaReady, IInv, TypeOK, HandlersFirst, ManagerFirst, JoinedFirst,
                          ConnsExist, Inside
<1>6. CASE NewManager
  BY <1>0, <1>1, <1>2, <1>6 DEF NewManager, IInv, TypeOK, HandlersFirst, ManagerFirst, JoinedFirst,
                          ConnsExist, Inside
<1>7. CASE Connect
  <2>1. /\ at' = [at EXCEPT ![Rx] = "idle"] /\ calls' = calls /\ at[Rx] = "none" /\ Rx \in Threads
        /\ pc = "init" /\ conn = "none" /\ conn' = "up" /\ mngr = "ready"
        /\ UNCHANGED <<order, pc, i, signals, hooks, mngr, locked, joined, terminated>>
    BY <1>1, <1>7 DEF Connect, ConnsExist, Threads
  <2>2. /\ at'[Rx] = "idle" /\ \A t \in Threads \ {Rx} : at'[t] = at[t]
        /\ at' \in [Threads -> States]
    BY <1>1, <2>1 DEF TypeOK, States
  <2>3. TypeOK'
    BY <1>1, <2>1, <2>2 DEF TypeOK, Inside, States
  <2>4. HandlersFirst'
    <3>1. LuaFirst => i > 1
      BY <1>1, <1>7 DEF Connect
    <3> QED
      BY <1>0, <1>1, <1>2, <2>1, <3>1 DEF HandlersFirst
  <2>5. ManagerFirst' /\ ConnsExist'
    BY <1>0, <1>1, <1>2, <2>1 DEF ManagerFirst, ConnsExist
  <2>6. JoinedFirst'
    BY <1>0, <1>1, <1>2, <2>1, <2>2 DEF JoinedFirst, TypeOK, Threads
  <2> QED
    BY <1>0, <2>3, <2>4, <2>5, <2>6 DEF IInv
<1>8. CASE MqttReady
  BY <1>0, <1>1, <1>2, <1>8 DEF MqttReady, IInv, TypeOK, HandlersFirst, ManagerFirst, JoinedFirst,
                          ConnsExist, Inside
<1>9. ASSUME NEW s \in Signals, RegisterSignal(s) PROVE IInv'
  BY <1>0, <1>1, <1>2, <1>9 DEF RegisterSignal, IInv, TypeOK, HandlersFirst, ManagerFirst, JoinedFirst,
                          ConnsExist, Inside
<1>10. ASSUME NEW e \in Envs, StartEnv(e) PROVE IInv'
  <2>1. /\ at' = [at EXCEPT ![e] = "check"] /\ at[e] = "none" /\ e \in Threads /\ e # Rx
        /\ pc = "init" /\ \A s \in Signals : signals[s] = "present"
        /\ UNCHANGED <<order, pc, i, signals, hooks, mngr, conn, locked, joined, terminated, calls>>
    BY <1>10 DEF StartEnv, main, Threads
  <2>2. /\ at'[e] = "check" /\ \A t \in Threads \ {e} : at'[t] = at[t]
        /\ at' \in [Threads -> States]
    BY <1>1, <2>1 DEF TypeOK, States
  <2>3. TypeOK'
    BY <1>1, <2>1, <2>2 DEF TypeOK, Inside, States
  <2>4. HandlersFirst' /\ ConnsExist'
    BY <1>1, <2>1, <2>2 DEF HandlersFirst, ConnsExist, Threads
  <2>5. ManagerFirst'
    <3>1. MqttFirst => i > 1
      BY <1>1, <1>10 DEF StartEnv
    <3> QED
      BY <1>0, <1>1, <1>2, <2>1, <3>1 DEF ManagerFirst
  <2>6. JoinedFirst'
    BY <1>0, <1>1, <1>2, <2>1, <2>2 DEF JoinedFirst, TypeOK, Threads
  <2> QED
    BY <1>0, <2>3, <2>4, <2>5, <2>6 DEF IInv
<1> QED
  BY <1>3, <1>4, <1>5, <1>6, <1>7, <1>8, <1>9, <1>10

(* main takes the plugins down.                                            *)
LEMMA StoppingKeepsInv ==
  ASSUME IInv,
         \/ BeginStop \/ SignalsFreed \/ HooksFreed \/ LuaUnloaded
         \/ LockManager \/ DestroyConn \/ MqttUnloaded \/ Exit
         \/ \E s \in Signals : FreeSignal(s)
         \/ \E p \in Plugins : FreeHook(p)
         \/ \E e \in Envs : JoinEnv(e)
  PROVE  IInv'
<1> USE OrderOfPlugins DEF Current, Plugin
<1>1. /\ TypeOK /\ HandlersFirst /\ ManagerFirst /\ JoinedFirst /\ ConnsExist /\ CalledFirst /\ StoppedFirst
  BY DEF IInv
<1>2. /\ UNCHANGED <<order, at, calls, terminated>>
      /\ LuaFirst' = LuaFirst /\ MqttFirst' = MqttFirst
      /\ pc \in {"loop", "free_signals", "free_hooks", "terminate"}
      /\ pc' \in {"free_signals", "free_hooks", "terminate", "exited"}
  BY DEF BeginStop, SignalsFreed, HooksFreed, LuaUnloaded, LockManager, DestroyConn, MqttUnloaded,
         Exit, FreeSignal, FreeHook, JoinEnv, LuaFirst, MqttFirst
<1>0. CalledFirst' /\ StoppedFirst'
  <2>1. \A s \in Signals : signals[s] # "absent" => signals'[s] # "absent"
    BY <1>1 DEF BeginStop, SignalsFreed, HooksFreed, LuaUnloaded, LockManager, DestroyConn, MqttUnloaded,
                Exit, FreeSignal, FreeHook, JoinEnv, TypeOK
  <2>2. CalledFirst'
    BY <1>1, <1>2, <2>1, MainKeepsCalled
  <2>3. terminated
    BY <1>1, <1>2 DEF BeginStop, SignalsFreed, HooksFreed, LuaUnloaded, LockManager, DestroyConn,
                      MqttUnloaded, Exit, FreeSignal, FreeHook, JoinEnv, StoppedFirst
  <2> QED
    BY <1>1, <1>2, <2>2, <2>3 DEF StoppedFirst
<1>3. HandlersFirst'
  BY <1>2 DEF HandlersFirst
<1>4. mngr = "none" => ~MqttFirst
  BY <1>1, <1>2 DEF ManagerFirst
<1>5. ManagerFirst' /\ ConnsExist'
  BY <1>1, <1>2, <1>4 DEF ManagerFirst, ConnsExist, BeginStop, SignalsFreed, HooksFreed, LuaUnloaded,
     LockManager, DestroyConn, MqttUnloaded, Exit, FreeSignal, FreeHook, JoinEnv
<1>6. CASE BeginStop \/ SignalsFreed \/ Exit \/ LockManager
  <2>1. /\ UNCHANGED <<i, signals, hooks, mngr, conn, joined>> /\ locked' \in BOOLEAN
        /\ pc' = "terminate" => pc = "terminate"
    BY <1>1, <1>6 DEF BeginStop, SignalsFreed, Exit, LockManager, TypeOK
  <2>2. TypeOK'
    BY <1>1, <1>2, <2>1 DEF TypeOK, Inside
  <2>3. JoinedFirst'
    BY <1>1, <1>2, <2>1 DEF JoinedFirst
  <2> QED
    BY <1>0, <1>3, <1>5, <2>2, <2>3 DEF IInv
<1>7. CASE LuaUnloaded
  BY <1>1, <1>2, <1>0, <1>3, <1>5, <1>7 DEF LuaUnloaded, IInv, TypeOK, JoinedFirst, Inside
<1>8. CASE DestroyConn \/ MqttUnloaded
  <2>1. LuaFirst => i > 1 /\ pc = "terminate"
    BY <1>1, <1>8 DEF DestroyConn, MqttUnloaded
  <2>2. LuaFirst => joined = Envs
    BY <1>1, <2>1 DEF JoinedFirst
  <2>3. JoinedFirst'
    BY <1>1, <1>2, <1>8, <2>2 DEF DestroyConn, MqttUnloaded, JoinedFirst
  <2>4. CASE DestroyConn
    <3>1. TypeOK'
      BY <1>1, <1>2, <2>4 DEF DestroyConn, TypeOK, Inside
    <3> QED
      BY <1>0, <1>3, <1>5, <2>3, <3>1 DEF IInv
  <2>5. CASE MqttUnloaded
    <3>1. i' \in 1..Len(order') + 1
      BY <1>1, <1>2, <2>5 DEF MqttUnloaded
    <3>2. TypeOK'
      BY <1>1, <1>2, <2>5, <3>1 DEF MqttUnloaded, TypeOK, Inside
    <3> QED
      BY <1>0, <1>3, <1>5, <2>3, <3>2 DEF IInv
  <2> QED
    BY <1>8, <2>4, <2>5
<1>9. ASSUME NEW s \in Signals, FreeSignal(s) PROVE IInv'
  BY <1>1, <1>2, <1>0, <1>3, <1>5, <1>9 DEF FreeSignal, IInv, TypeOK, JoinedFirst, Inside
<1>10. ASSUME NEW p \in Plugins, FreeHook(p) PROVE IInv'
  BY <1>1, <1>2, <1>0, <1>3, <1>5, <1>10 DEF FreeHook, IInv, TypeOK, JoinedFirst, Inside
<1>11. ASSUME NEW e \in Envs, JoinEnv(e) PROVE IInv'
  BY <1>1, <1>2, <1>0, <1>3, <1>5, <1>11 DEF JoinEnv, IInv, TypeOK, JoinedFirst, Inside
<1>12. CASE HooksFreed
  BY <1>1, <1>2, <1>0, <1>3, <1>5, <1>12 DEF HooksFreed, IInv, TypeOK, JoinedFirst, Inside
<1> QED
  BY <1>6, <1>7, <1>8, <1>9, <1>10, <1>11, <1>12

LEMMA NextKeepsInv == IInv /\ [Next]_vars => IInv'
<1> SUFFICES ASSUME IInv, [Next]_vars PROVE IInv'
  OBVIOUS
<1>1. CASE UNCHANGED vars \/ Sigterm
  <2>1. /\ UNCHANGED main /\ UNCHANGED <<at, calls>> /\ terminated' \in BOOLEAN
    BY <1>1 DEF vars, Sigterm, IInv, TypeOK
  <2>2. LuaFirst' = LuaFirst /\ MqttFirst' = MqttFirst /\ \A t : Inside(t)' = Inside(t)
    BY <2>1 DEF LuaFirst, MqttFirst, Inside, main
  <2>3. TypeOK'
    BY <2>1, <2>2 DEF IInv, TypeOK, main
  <2>4. CalledFirst' /\ StoppedFirst'
    BY <1>1, <2>1 DEF main, vars, Sigterm, IInv, CalledFirst, Called, StoppedFirst
  <2> QED
    BY <2>1, <2>2, <2>3, <2>4 DEF main, IInv, HandlersFirst, ManagerFirst, JoinedFirst, ConnsExist
<1>2. CASE Receive
  BY <1>2, ThreadKeepsInv DEF Threads
<1> QED
  BY <1>1, <1>2, ThreadKeepsInv, LoadingKeepsInv, StoppingKeepsInv DEF Next, Main, Finished

LEMMA InitInv == Init => IInv
<1> SUFFICES ASSUME Init PROVE IInv
  OBVIOUS
<1>1. Len(order) \in Nat
  <2>1. order \in {<<"lua", "mqtt">>, <<"mqtt", "lua">>, <<"lua">>, <<"mqtt">>, <<>>}
    BY DEF Init
  <2> QED
    BY <2>1
<1>2. TypeOK
  <2>1. /\ signals \in [Signals -> {"absent", "present", "freed"}]
        /\ hooks \in [Plugins -> {"absent", "present", "freed"}]
        /\ at \in [Threads -> States]
    BY DEF Init, States
  <2>2. calls \in [Threads -> Seq(Signals)] /\ \A t \in Threads : at[t] = "none" /\ calls[t] = <<>>
    BY DEF Init
  <2>3. i \in 1..Len(order) + 1
    BY <1>1 DEF Init
  <2>4. \A t \in Threads : ~Inside(t)
    BY <2>2 DEF Inside
  <2>5. /\ order \in LoadOrders /\ pc = "load" /\ mngr = "none" /\ conn = "none"
        /\ locked = FALSE /\ joined = {} /\ terminated = FALSE
    BY DEF Init
  <2> QED
    BY <2>1, <2>2, <2>3, <2>4, <2>5 DEF TypeOK, States
<1>3. CalledFirst
  <2>1. \A t \in Threads : calls[t] = <<>>
    BY DEF Init
  <2> QED
    BY <2>1 DEF CalledFirst, Called
<1> QED
  BY <1>2, <1>3 DEF Init, IInv, StoppedFirst, HandlersFirst, ManagerFirst, JoinedFirst, ConnsExist, Threads

LEMMA Invariance == Spec => []IInv
BY InitInv, NextKeepsInv, PTL DEF Spec

-----------------------------------------------------------------------------
(* The variables of Sysagent keep their types, and a thread is in a state  *)
(* of a handler's script exactly while it is inside a handler.             *)
THEOREM TypeCorrect == Spec => []TypeOK
<1>1. IInv => TypeOK
  BY DEF IInv
<1> QED
  BY <1>1, Invariance, PTL

(* If the Lua plugin is loaded first, no signal is missed before the       *)
(* daemon stops.                                                           *)
THEOREM EverySignalServed == Spec => []NoSignalMissed
<1>1. IInv => NoSignalMissed
  BY DEF IInv, HandlersFirst, NoSignalMissed
<1> QED
  BY <1>1, Invariance, PTL

(* In either order of the plugins the threads publish through a manager,   *)
(* and on a connection, that are there.                                    *)
THEOREM PublishingIsSafe == Spec => []PublishesSafely
<1>1. IInv => PublishesSafely
  <2> SUFFICES ASSUME IInv PROVE PublishesSafely
    OBVIOUS
  <2>1. ASSUME LuaFirst, NEW e \in Envs
        PROVE  /\ at[e] = "conn" => conn = "up"
               /\ at[e] = "hook" => mngr # "freed"
    <3>1. conn = "freed" \/ mngr = "freed" => at[e] = "ended"
      BY <2>1 DEF IInv, JoinedFirst
    <3>2. conn = "none" => at[e] # "conn"
      BY DEF IInv, ConnsExist, Threads
    <3> QED
      BY <3>1, <3>2 DEF IInv, TypeOK
  <2>2. ASSUME MqttFirst, NEW t \in Threads, at[t] = "hook" PROVE mngr # "none"
    BY <2>2 DEF IInv, ManagerFirst
  <2> QED
    BY <2>1, <2>2 DEF PublishesSafely
<1> QED
  BY <1>1, Invariance, PTL

(* Handlers are freed under the threads that execute them only once a      *)
(* SIGTERM has made main leave its loop, and never under a thread that was *)
(* joined: with the Lua plugin first, by the time the connection is        *)
(* destroyed only the callback thread may be left in one.                  *)
THEOREM FreedHandlersAreLate == Spec => []FreedHandlersInUse
<1>1. IInv => FreedHandlersInUse
  <2> SUFFICES ASSUME IInv, NEW t \in Threads, ~HandlerAlive(t)
               PROVE  /\ terminated /\ pc \notin {"load", "init", "loop"}
                      /\ t \notin joined
                      /\ LuaFirst /\ conn = "freed" => t = Rx
    BY DEF FreedHandlersInUse
  <2>1. Inside(t) /\ signals[Innermost(t)] # "present"
    BY DEF HandlerAlive
  <2>2. calls[t] \in Seq(Signals) /\ calls[t] # <<>>
    BY <2>1 DEF IInv, TypeOK, Inside
  <2>3. Len(calls[t]) \in 1..Len(calls[t]) /\ calls[t][Len(calls[t])] \in Signals
    BY <2>2
  <2>4. Innermost(t) \in Signals /\ signals[Innermost(t)] # "absent"
    BY <2>3 DEF Innermost, IInv, CalledFirst, Called
  <2>5. signals[Innermost(t)] = "freed"
    BY <2>1, <2>4 DEF IInv, TypeOK
  <2>6. terminated /\ pc \notin {"load", "init", "loop"}
    BY <2>4, <2>5 DEF IInv, StoppedFirst
  <2>7. t \notin joined
    BY <2>1 DEF IInv, JoinedFirst, TypeOK
  <2>8. LuaFirst /\ conn = "freed" => t = Rx
    BY <2>7 DEF IInv, JoinedFirst, Threads
  <2> QED
    BY <2>6, <2>7, <2>8
<1> QED
  BY <1>1, Invariance, PTL
=============================================================================
