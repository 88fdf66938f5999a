------------------------------ MODULE LuaEnvs -------------------------------
(***************************************************************************)
(* The environments of the Lua plugin, from process_cfg to terminate.      *)
(*                                                                         *)
(* The configuration is read once, entry by entry, and registers signal    *)
(* handlers on the way.  Then every environment marked active gets a       *)
(* thread of its own, which runs the script once or again and again until  *)
(* the daemon terminates.  The main thread finally joins the threads and   *)
(* frees the environments.  Scripts always return.                         *)
(***************************************************************************)
EXTENDS Integers, Sequences, FiniteSets

CONSTANTS
  Configs,     \* the plugin's sections that are tried
  MaxEnvs,     \* bound: elements of the "envs" array
  Signals,     \* signal ids
  CmdCall,     \* the reserved name "CMD_CALL"
  MayFail,     \* TRUE: pthread_create, luaL_newstate or fopen may fail
  NoSection,   \* a configuration without a section for the plugin
  NotObject    \* a configuration that is no JSON object

(* Configurations without environments.  pm->cfg is never NULL: sysagentd  *)
(* does not start without one.                                             *)
Missing == {NoSection, NotObject}

ASSUME ConfigsAssumption ==
  /\ MaxEnvs \in Nat
  /\ \A c \in Configs \ Missing :
       /\ Len(c.envs) \in 0..MaxEnvs
       /\ \A k \in 1..Len(c.envs) :
            /\ c.envs[k].shape \in {"good", "no_object", "missing", "wrong_type", "no_script",
                                    "no_seek", "empty_script"}
            /\ c.envs[k].interval \in Int

(* An element of the "envs" array.  shape tells which check it fails: it   *)
(* is no object, misses a value, has a value of a wrong type, or its       *)
(* script cannot be opened, has no end that can be found, or is empty.     *)
(* The return code of process_cfg for an element that fails a check.       *)
Code(shape) ==
  CASE shape = "no_object" -> 4
    [] shape = "missing" -> 5
    [] shape \in {"wrong_type", "no_script"} -> 6
    [] shape = "no_seek" -> 7
    [] shape = "empty_script" -> 8

VARIABLES
  cfg,         \* the section: [cmd_call : BOOLEAN, envs : Seq(entry)], or NoSection
  pc,          \* main thread: "config", "start", "loop", "stop", "done", "crashed"
  next,        \* the next element of envs, or position in table, to process
  ret,         \* what process_cfg returned
  table,       \* lem->envs: the environments in the order of the hash table
  freed,       \* the environments freed by shutdown_lua_envs
  handler,     \* handler[s]: the environment whose script serves s
  initFailed,  \* <<e, s>>: lua_sig_hndlr_init of e's handler of s has failed
  thread,      \* thread[e]: state of the thread of e
  runs,        \* runs[e]: how often the script of e ran (saturates at 2)
  terminated   \* UMD->is_terminated

vars == <<cfg, pc, next, ret, table, freed, handler, initFailed, thread, runs, terminated>>

-----------------------------------------------------------------------------
(* An environment is named by its index in the envs array, the CMD_CALL    *)
(* environment by 0.                                                       *)
Envs == 0..MaxEnvs
Entries == IF cfg \in Missing THEN {} ELSE 1..Len(cfg.envs)
NoEnv == -1

Name(e) == IF e = 0 THEN CmdCall ELSE cfg.envs[e].name

(* Mutant: the interval is read as a signed number.                        *)
Interval_Signed(e) == IF e = 0 THEN 0 ELSE cfg.envs[e].interval

(* json_object_get_uint64 of a negative integer is 0.                      *)
Interval(e) ==
  IF e = 0 \/ cfg.envs[e].interval < 0 THEN 0 ELSE cfg.envs[e].interval

(* The compare-and-swap turns the 0 of calloc into auto_start.             *)
Active(e) == e = 0 \/ cfg.envs[e].auto_start

(* luaL_loadstring accepts the script.                                     *)
Loads(e) == e # 0 /\ cfg.envs[e].loads

(* The signals that umplg_reg_signal tries to give to e: those e lists and *)
(* nobody serves yet.  Events that are no strings are skipped.             *)
Tried(e) == {s \in Signals : s \in cfg.envs[e].events /\ handler[s] = NoEnv}

(* lua_sig_hndlr_init makes a lua_State of its own for every handler and   *)
(* reads the script again each time: the sets of signals it may fail for.  *)
FailedInits(e) ==
  IF ~Loads(e) THEN {Tried(e)} ELSE IF MayFail THEN SUBSET Tried(e) ELSE {{}}

Listed == {table[i] : i \in 1..Len(table)}

(* lenvm_new_envd ignores a second environment of the same name.           *)
TableWith(e) ==
  IF \E f \in Listed : Name(f) = Name(e) THEN table ELSE Append(table, e)

(* Mutant: the last environment that lists an event serves it.             *)
Registered_Last(e, failed) ==
  [s \in Signals |-> IF s \in cfg.envs[e].events \ failed THEN e ELSE handler[s]]

(* A handler whose init has failed is not added, and leaves the signal to  *)
(* the elements after e.                                                   *)
Registered(e, failed) ==
  [s \in Signals |-> IF s \in Tried(e) \ failed THEN e ELSE handler[s]]

(* process_lua_envs starts these, and shutdown_lua_envs joins them.        *)
ToStart(e) == Name(e) # CmdCall /\ Active(e)

(* Mutant: only long running environments are joined.                      *)
ToJoin_LongRunning(e) == Name(e) # CmdCall /\ Active(e) /\ Interval(e) > 0

ToJoin(e) == Name(e) # CmdCall /\ Active(e)

-----------------------------------------------------------------------------
Init ==
  /\ cfg \in Configs
  /\ pc = "config"
  /\ next = 0
  /\ ret = 0
  /\ table = <<>>
  /\ freed = {}
  /\ handler = [s \in Signals |-> NoEnv]
  /\ initFailed = {}
  /\ thread = [e \in Envs |-> "none"]
  /\ runs = [e \in Envs |-> 0]
  /\ terminated = FALSE

(* No configuration, or none for this plugin.                              *)
ConfigMissing ==
  /\ pc = "config"
  /\ cfg \in Missing
  /\ ret' = IF cfg = NotObject THEN 2 ELSE 3
  /\ pc' = "start"
  /\ next' = 1
  /\ UNCHANGED <<cfg, table, freed, handler, initFailed, thread, runs, terminated>>

(* cmd_call has an environment of its own, ahead of the others.            *)
ConfigCmdCall ==
  /\ pc = "config"
  /\ cfg \notin Missing
  /\ next = 0
  /\ table' = IF cfg.cmd_call THEN TableWith(0) ELSE table
  /\ next' = 1
  /\ UNCHANGED <<cfg, pc, ret, freed, handler, initFailed, thread, runs, terminated>>

ConfigEntry ==
  /\ pc = "config"
  /\ next \in Entries
  /\ cfg.envs[next].shape = "good"
  /\ \E failed \in FailedInits(next) :
       /\ handler' = Registered(next, failed)
       /\ initFailed' = initFailed \cup {<<next, s>> : s \in failed}
  /\ table' = TableWith(next)
  /\ next' = next + 1
  /\ UNCHANGED <<cfg, pc, ret, freed, thread, runs, terminated>>

(* A bad element ends process_cfg.  What was added before it stays.        *)
ConfigReject ==
  /\ pc = "config"
  /\ next \in Entries
  /\ cfg.envs[next].shape # "good"
  /\ ret' = Code(cfg.envs[next].shape)
  /\ pc' = "start"
  /\ next' = 1
  /\ UNCHANGED <<cfg, table, freed, handler, initFailed, thread, runs, terminated>>

ConfigDone ==
  /\ pc = "config"
  /\ cfg \notin Missing
  /\ next = Len(cfg.envs) + 1
  /\ pc' = "start"
  /\ next' = 1
  /\ UNCHANGED <<cfg, ret, table, freed, handler, initFailed, thread, runs, terminated>>

-----------------------------------------------------------------------------
(* init starts the environments whatever process_cfg returned.             *)
StartEnv ==
  /\ pc = "start"
  /\ next \in 1..Len(table)
  /\ LET e == table[next] IN
       \/ /\ ToStart(e)
          /\ thread' = [thread EXCEPT ![e] = "load"]
       \/ /\ ToStart(e)
          /\ MayFail
          /\ thread' = [thread EXCEPT ![e] = "failed"]
       \/ /\ ~ToStart(e)
          /\ UNCHANGED thread
  /\ next' = next + 1
  /\ UNCHANGED <<cfg, pc, ret, table, freed, handler, initFailed, runs, terminated>>

StartDone ==
  /\ pc = "start"
  /\ next = Len(table) + 1
  /\ pc' = "loop"
  /\ next' = 1
  /\ UNCHANGED <<cfg, ret, table, freed, handler, initFailed, thread, runs, terminated>>

(* umd_loop notices the flag, umplg_free_mngr calls terminate.             *)
Terminate ==
  /\ pc = "loop"
  /\ terminated
  /\ pc' = "stop"
  /\ UNCHANGED <<cfg, next, ret, table, freed, handler, initFailed, thread, runs, terminated>>

(* pthread_join of a thread that was not created: env->th is 0, or what    *)
(* the failed pthread_create left there.                                   *)
JoinCrashes ==
  /\ pc = "stop"
  /\ next \in 1..Len(table)
  /\ ToJoin(table[next])
  /\ thread[table[next]] = "failed"
  /\ pc' = "crashed"
  /\ UNCHANGED <<cfg, next, ret, table, freed, handler, initFailed, thread, runs, terminated>>

(* Join the thread, if there is one, and free the environment.  The join   *)
(* of a thread that was not created may also return.                       *)
StopEnv ==
  /\ pc = "stop"
  /\ next \in 1..Len(table)
  /\ ToJoin(table[next]) => thread[table[next]] \in {"ended", "failed"}
  /\ freed' = freed \cup {table[next]}
  /\ next' = next + 1
  /\ UNCHANGED <<cfg, pc, ret, table, handler, initFailed, thread, runs, terminated>>

StopDone ==
  /\ pc = "stop"
  /\ next = Len(table) + 1
  /\ pc' = "done"
  /\ UNCHANGED <<cfg, next, ret, table, freed, handler, initFailed, thread, runs, terminated>>

Main ==
  \/ ConfigMissing \/ ConfigCmdCall \/ ConfigEntry \/ ConfigReject \/ ConfigDone
  \/ StartEnv \/ StartDone
  \/ Terminate \/ JoinCrashes \/ StopEnv \/ StopDone

-----------------------------------------------------------------------------
(* The thread of an environment (th_lua_env).                              *)
Moves(e, from, to) ==
  /\ thread[e] = from
  /\ thread' = [thread EXCEPT ![e] = to]
  /\ UNCHANGED <<cfg, pc, next, ret, table, freed, handler, initFailed, terminated>>

(* The thread compiles the script for itself.  Even if it could be loaded  *)
(* before, luaL_newstate may fail or the file be gone by now.              *)
Load(e) ==
  /\ \/ Moves(e, "load", "check") /\ Loads(e)
     \/ Moves(e, "load", "ended") /\ (MayFail \/ ~Loads(e))
  /\ UNCHANGED runs

(* Mutant: only the flag of the environment ends its loop.                 *)
Check_IgnoresTermination(e) ==
  /\ Moves(e, "check", IF Active(e) THEN "script" ELSE "ended")
  /\ UNCHANGED runs

(* The loop condition.  active is never reset.                             *)
Check(e) ==
  /\ Moves(e, "check", IF terminated \/ ~Active(e) THEN "ended" ELSE "script")
  /\ UNCHANGED runs

(* Mutant: an environment without interval is not left after one run.      *)
AfterRun_Loops(e) == "sleep"

(* An environment without interval runs once.                              *)
AfterRun(e) == IF Interval(e) = 0 THEN "ended" ELSE "sleep"

RunScript(e) ==
  /\ Moves(e, "script", AfterRun(e))
  /\ runs' = [runs EXCEPT ![e] = IF @ < 2 THEN @ + 1 ELSE @]

Sleep(e) ==
  /\ Moves(e, "sleep", "check")
  /\ UNCHANGED runs

Thread(e) == Load(e) \/ Check(e) \/ RunScript(e) \/ Sleep(e)

-----------------------------------------------------------------------------
(* SIGTERM: umd_signal_handler.                                            *)
Sigterm ==
  /\ ~terminated
  /\ terminated' = TRUE
  /\ UNCHANGED <<cfg, pc, next, ret, table, freed, handler, initFailed, thread, runs>>

Finished ==
  /\ pc \in {"done", "crashed"}
  /\ UNCHANGED vars

Next == Main \/ (\E e \in Envs : Thread(e)) \/ Sigterm \/ Finished

(* The threads are scheduled.  Nobody has to send SIGTERM.                 *)
Fairness == WF_vars(Main) /\ \A e \in Envs : WF_vars(Thread(e))

Spec == Init /\ [][Next]_vars /\ Fairness

-----------------------------------------------------------------------------
TypeOK ==
  /\ cfg \in Configs
  /\ pc \in {"config", "start", "loop", "stop", "done", "crashed"}
  /\ next \in Nat
  /\ \A e \in Entries : Interval(e) \in Nat
  /\ ret \in {0, 2, 3, 4, 5, 6, 7, 8}
  /\ table \in Seq(Envs)
  /\ freed \subseteq Envs
  /\ handler \in [Signals -> Envs \cup {NoEnv}]
  /\ initFailed \subseteq Envs \X Signals
  /\ thread \in [Envs -> {"none", "load", "check", "script", "sleep", "ended", "failed"}]
  /\ runs \in [Envs -> 0..2]
  /\ terminated \in BOOLEAN

(* The elements that process_cfg accepts: those before the first bad one.  *)
Accepted ==
  {e \in Entries : \A f \in 1..e : cfg.envs[f].shape = "good"}

(* What the configuration means, said once for all its elements.  A name   *)
(* stands for the first accepted element that has it, unless it is taken   *)
(* by cmd_call.  A signal is served by the first accepted element that     *)
(* lists it and whose init did not fail, even if that element's name was   *)
(* taken and it never gets a thread: an element may lose a signal to a     *)
(* later one because luaL_newstate or fopen failed once, and a signal has  *)
(* no handler only if all that list it failed.  What serves it compiles.   *)
FirstNamed(e) ==
  /\ \A f \in Accepted : f < e => Name(f) # Name(e)
  /\ ~(cfg.cmd_call /\ Name(e) = CmdCall)

Serves(e, s) == s \in cfg.envs[e].events /\ <<e, s>> \notin initFailed

ConfigMeaning ==
  pc # "config" /\ cfg \notin Missing =>
    /\ Listed = {e \in Accepted : FirstNamed(e)}
                  \cup (IF cfg.cmd_call THEN {0} ELSE {})
    /\ \A i, j \in 1..Len(table) : i < j => table[i] < table[j]
    /\ (ret = 0) <=> (Accepted = Entries)
    /\ \A s \in Signals :
         IF \E e \in Accepted : Serves(e, s)
           THEN /\ handler[s] \in Accepted
                /\ Serves(handler[s], s) /\ Loads(handler[s])
                /\ \A e \in Accepted : Serves(e, s) => handler[s] <= e
           ELSE handler[s] = NoEnv

(* An environment is freed only when no thread uses it any more, and every *)
(* thread has ended before the plugin is done.                             *)
FreedAfterThread ==
  /\ \A e \in freed : thread[e] \in {"none", "ended", "failed"}
  /\ pc = "done" => \A e \in Envs : thread[e] \in {"none", "ended", "failed"}

(* An environment without interval, or with a negative one, runs its       *)
(* script at most once, and one whose name is reserved or taken never.     *)
RunsAtMost ==
  \A e \in Envs \cap ({0} \cup Entries) :
    /\ Interval(e) = 0 => runs[e] <= 1
    /\ e \notin Listed \/ Name(e) = CmdCall => runs[e] = 0

(* When the daemon is told to terminate the plugin stops, even if long     *)
(* running environments are busy.                                          *)
Stops == terminated ~> pc \in {"done", "crashed"}
=============================================================================
