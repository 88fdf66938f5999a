# μmINK system agent in TLA+

This directory holds TLA+ models of the μmINK system agent (`sysagentd`), of its
plugins and of the MQTT broker's authentication plugin, the TLC configurations
that check them on small instances, and theorems about them that TLAPS proves
for instances of any size.

Paths below are relative to `src/src/` unless they say otherwise. A module is
checked with `tlc -config X.cfg M`, a module of proofs with `tlapm M.tla`.

## 1. The system

| Part | Where | State | Operations |
|---|---|---|---|
| Daemon and command line | `services/sysagent/sysagentd.c`, `umd/umdaemon.c` | the daemon descriptor and the global `UMD` that points to it, the termination flag, the options | `proc_args`, `init`, `umd_set_id`, `umd_loop`, `umd_destroy`; `umd_signal_handler` for SIGTERM |
| Plugin manager | `utils/umink_plugin.c`, `include/umink_plugin.h` | table of plugins, hooks (command id → plugin), signals (id → handler), names of commands | `umplg_load`, `umplg_unload`, `umplg_run`, `umplg_reg_signal`, `umplg_proc_signal`, `umplg_free_mngr` |
| Lua signal handlers | `plugins/lua/plg_sysagent_lua.c` 322–487 | per handler: a `lua_State` with the compiled chunk, a recursive mutex, the flag `running`, the registry entry `mink_stdd` | `lua_sig_hndlr_init`, `_run`, `_term` |
| Lua environments | the rest of `plg_sysagent_lua.c` | table of environments (name, interval, active, path), one thread each | `process_cfg`, `init`, `th_lua_env`, `terminate` |
| Lua module `M` and standard data | `plugins/lua/mink_lua.c`, `umink_plugin.c` 245–342 | rows of named columns, for the time of one call | `M.signal`, `M.get_args`, `M.cmd_call` |
| MQTT connections | `plugins/mqtt/plg_sysagent_mqtt.c` | table of connections (name, client, topics), a mutex | `process_cfg`, `mqtt_on_connect`, `mqtt_on_rx`, `impl_mqtt_publish`, `terminate` |
| Hash tables (`include/uthash.h`, vendored) | all tables of the program; the plugin manager's are read by threads without a lock | per element a list and a chain in a bucket, per table an array of buckets that doubles | `HASH_ADD`, `HASH_EXPAND_BUCKETS`, `HASH_FIND`, `HASH_ITER` with `HASH_DEL` |
| Authentication plugin of the broker | `plugins/mosquitto_auth/plg_mosquitto_auth.c`, `utils/umdb.c` | the database, statements in preparation | plugin init, login check, topic check |

How they interact:

- `main` loads every `.so` file of a directory in alphabetical order. `umplg_load`
  opens it, adds its hooks and calls its `init`. The `init` of the Lua plugin
  registers signal handlers and starts threads, the one of the MQTT plugin
  connects, which starts the threads of the client library.
- A script calls `M.signal(name, data)`: the handler's script runs on the calling
  thread, in the handler's own `lua_State`. `M.cmd_call` runs a command of a
  plugin through the hooks; `CMD_MQTT_PUBLISH` sends on an MQTT connection.
- A message that arrives raises `mqtt:RX` on the callback thread of the client
  library.
- SIGTERM sets a flag that the main loop and the environments poll.
  `umplg_free_mngr` then frees handlers, hooks and plugins, in this order.
- The authentication plugin lives in another process, the broker, and shares
  nothing with the agent but the library.

What is hard about it: scripts of several threads meet in one handler; handlers
call handlers, on the same thread, under a recursive mutex; tables of the
manager are read by threads while `main` fills and frees them, without a lock;
destruction runs while threads are still inside what is destroyed; the client
library calls back while a connection is being configured; configurations are
read entry by entry and can fail in the middle; calls to SQLite, the operating
system and the client library can fail one by one. `PROJECT.json` lists these
hazards with their lines and the properties that are about them.

What makes the parts correct: a `lua_State` never runs twice at a time and its
script sees the data of its own caller; every call returns; what is configured
is what exists afterwards; nothing is freed before its last user is gone; a
connection that comes up is subscribed, as far as the broker lets it; hooks and
handlers lead to the plugin that they were registered for; a request is granted
only if the user table allows it; SIGTERM stops the agent.

## 2. The modules

| Module | Models | State and actions |
|---|---|---|
| `SignalDispatch` | signals and their Lua handlers | `stack[t]` is the nest of `lua_sig_hndlr_run` calls of a thread, `owner`, `running`, `stdd` are the mutex, the flag and `mink_stdd` of a handler. `RaiseSignal`/`RaiseUnknown`: `M.signal` up to the lock. `Enter`, `PreventRecursion`, `FailRecursion`: the three ways on from the lock. `Finish`: everything after `lua_pcall` |
| `SignalMonitor` | abstract: a handler is a monitor | calls wait, one is served at a time with its own data |
| `LuaEnvs` | environments of the Lua plugin | `Config…`: `process_cfg`, one entry per step; `StartEnv`; `FailedInits` are the handlers whose `lua_sig_hndlr_init` fails, each on its own, and `initFailed` remembers them; the loop of `th_lua_env` as `Load`, `Check`, `RunScript`, `Sleep`; `StopEnv`: join and free |
| `MqttConns` | connections of the MQTT plugin | `Reject`, `SkipDuplicate`, `Connect`, `SetConnected`: `process_cfg`; the client library is `ComesUp`, `FailsToConnect`, `IsLost`, `Receive`; it calls `OnConnect` (`mqtt_on_connect`, where the subscription of each topic may fail: `refused`) and `OnRx`, `RxReturns` (`mqtt_on_rx` until it has read `conn->pm`, and its script after that); `Destroy` |
| `StandardData` | Lua values as rows of columns, and back | no state: `ToText`, `ArgRows` (`mink_lua_do_cmd_call`, `mink_lua_cmd_call`), `ToTable` (also `mink_lua_get_args`), `Request` (`impl_mqtt_publish`) |
| `MqttCommands` | scripts that publish, on top of the two | `CmdCall` is `M.cmd_call` down to `run_local` of either plugin, called by environments and by the script of `mqtt_on_rx`; `GetConn` and `Publish` are `mqtt_mngr_get_conn` and `mqtt_conn_pub`; `FreeHooks` is that step of `umplg_free_mngr`, `RxEnds` the end of a callback's script; the actions of `MqttConns` go on meanwhile |
| `PluginRegistry` | the plugin manager | `Load` and `Refuse` are `umplg_load`, `Run` is `umplg_run`, `RunStale` is `umplg_run` through a pointer that is not valid any more; `Free…` are the phases of `umplg_free_mngr` |
| `HashTable` | one table of the plugin manager as uthash implements it, filled, emptied and read at the same time | `Add`, `LinkInBucket`: `HASH_ADD`; `ExpandBegin`, `Relink`, `NextBucket`, `FreeOld`, `SetNum`, `SetBuckets`: `HASH_EXPAND_BUCKETS`; `BeginFree`, `DeleteHead`, `Unlink`, `Release`, `DeleteLast`, `ClearHead`: the loops of `umplg_free_mngr`; `Find`, `Read…`, `Compare`: `HASH_FIND` of a thread |
| `Sysagent` | the composition of manager, both plugins and their threads, over the life of the process | `Main` loads, loops and takes down; `Thread(t)` runs scripts, nested handlers under their mutexes, and publishes, using the tables of the manager; `Receive` is `mqtt_on_rx` |
| `Daemon` | command line, SIGTERM, the global `UMD` | one action per option; `LoadPlugins`, `NoConfig`, `InvalidConfig`: `init`; `LeaveLoop`, `Destroy`, `Return`; `Killed`, `Sigterm`, `SigtermLate` |
| `AccessPolicy` | abstract: what the broker plugin may grant | `Begin` a request, `Look` at the users, `Grant` if they allowed it then, `Deny` always |
| `MosquittoAuth` | the broker plugin and `umdb` | `PluginInit`; `Check` begins a check, `Prepare`, binding, `Step`, clearing, `Reset`, `Finalize` are the calls of SQLite one by one, `Fails` is the early return when one fails; `ChangeUsers` comes in between |
| `SignalDispatchProofs`, `LuaEnvsProofs`, `MqttCommandsProofs`, `PluginRegistryProofs`, `HashTableProofs`, `SysagentProofs`, `DaemonProofs`, `MosquittoAuthProofs` | theorems | see section 5 |

`MC…` modules give the constants of a module values for TLC. Definitions whose
name ends in a suffix such as `Unlocked_NotIfEmpty` are mutants: plausible bugs
that show, when put in place of the definition, that a property can fail.

Undefined behaviour is a choice over what the build can do. A thread of
`Sysagent` that uses something freed goes on as if it were there, never returns
(`"lost"`), or takes the process down; a lookup in `HashTable` and a call in
`MqttCommands` end as `"undefined"`. `RunStale`, `SigtermLate` and the join of
a thread that was never created (`JoinCrashes` against `StopEnv`) are treated
likewise.

External code is modelled from the way `src/` uses it: the MQTT client library
(a clean session, automatic reconnection, callbacks on a thread of its own, at
most one at a time for a connection, each subscription may fail), SQLite (any call may fail), `dlopen` (counts how often a file
is open), Lua (a script returns text, an empty string, something else or an
error, and may raise the signals it is given).

Whether `MQTTAsync_destroy` waits for a callback that runs cannot be told from
`src/`. It is the constant `DestroyWaits`, and neither value saves `terminate`.
If the library waits, `terminate` holds the mutex of the manager while it waits
for a callback whose script may need that mutex to publish, and both wait for
ever. If it does not, the descriptor may be freed while `mqtt_on_connect` or
`mqtt_on_rx` is about to use it. `mqtt_conns` has a library that waits, and
reaches that deadlock; `sysagent` has one that does not.

## 3. The runs

Runs that pass:

| Run | Shows | Bounds, and why they are enough |
|---|---|---|
| `signals_acyclic` | handlers that do not call themselves are monitors (`ImplementsMonitor`), `get_args` reads the own caller's data | two threads, three handlers of which two call the third, one unknown signal, two signals per activation: two threads compete for a handler at the outer and at the inner level |
| `signals_cyclic` | scripts that call themselves never run twice at a time, the mutex follows the script, only recursive calls are refused, every call returns | two handlers in a cycle and with a self-call, three signals per activation: the second and the third recursive call differ from the first |
| `lua_envs` | which environments and handlers a section stands for, whichever handlers fail to initialise (`ConfigMeaning`), nothing is freed under its thread, scripts run as often as configured, the plugin stops | sections of up to three elements out of eight with colliding names and events and every failing check; any `pthread_create`, `luaL_newstate` and `fopen` may fail: an element that wants a signal comes before and after one whose init failed |
| `mqtt_conns` | which connections a section stands for; what a script of an environment or of a callback publishes goes, as it asked, to the connection that the section gives the name, whatever main does meanwhile; what a script is answered; a connection that comes up late enough is subscribed to all topics but those that were refused, each on its own; a call ends unless main and a callback wait for each other | seven sections (`MCConfigs`) of up to two connections: names that collide, elements that are refused before and after others, connects that fail, and one connection with two topics, so that one subscription fails and the other does not; an environment with five kinds of arguments (`MCCalls`): retain flag, text with a Nul, too few values, the command of the Lua plugin, one without a hook; callbacks that publish |
| `plugin_registry` | hooks, handlers and open files agree with the table, nothing leads into a closed plugin, a hook points at the live table at least until the table grows again | five files (two that share commands with a third, one without commands, one incomplete), four loads into an array that grows at the third (at the ninth in the code) |
| `sysagent` | no signal is missed at startup and environments never publish on what was destroyed, when the Lua plugin is loaded first; a publish command always finds a manager, when the MQTT plugin is; the agent stops, and callbacks return, in both orders; a handler is freed under a thread only after SIGTERM and never under one that was joined (`FreedHandlersInUse`) | two environments, the callback thread, a handler of `mqtt:RX` that calls another one, which publishes, one connection, both orders of loading: alphabetical file names give the first one, and renaming a file the other |
| `mosquitto_auth` | fails closed whichever call of SQLite fails and however the users change during a check (`ImplementsPolicy`) | two users and no user, admin and ordinary topics, user tables with a name that occurs twice, every failure, five option lists; three statements open at a time (`MaxOpen`), since one that is left disturbs nothing later but their number |
| `hash_table` | list, buckets and counters agree (`Fsck`), chains are bounded, a lookup that overlaps neither an expansion nor the freeing of the table finds what is there and touches nothing freed, every lookup ends | nine elements, a threshold of two and one bucket at first: the table doubles several times with a good hash function; when all keys collide it raises the multipliers of buckets and gives up expanding; with the third function the second expansion leaves chains as long as the threshold; one reader, since readers do not see each other |
| `daemon` | what every command line means, SIGTERM stops the agent | all command lines of up to four options out of eight, ids on both sides of 15 and of 29 characters |

Runs that find a disagreement between the code and what its comments and
messages say (`findings` in `PROJECT.json` quotes both):

| Run | What TLC finds |
|---|---|
| `signals_recursion` | a handler calls itself, is refused, calls itself again: the flag was cleared by the refusal, so the call is not recognised and fails in another way |
| `mqtt_stale_check` | a connection after one with a subscription is refused, because the check looks at a stale variable |
| `daemon_ids` | an id of more than the announced 15 characters is accepted |

In `signals_recursion` TLC stops at the first violation; `PreventedOnlyIfRecursive`,
which does hold, says what can be relied on instead: a fresh call is never refused.

`mqtt_conns` says `CHECK_DEADLOCK FALSE`, because the system really stops when
`terminate` and a callback wait for each other: TLC would report this whatever
the run asks. `CallsEnd` excepts this one situation (`Deadlocked`: main in
`Destroy` with the mutex, and a callback that waits for it) and no other, so it
finds any other call that hangs.

The models show further differences between what the code does and what one
would expect from it, which no run of its own reports. For each the run in the
last column checks the weaker statement that does hold:

| Where | What happens | What holds instead |
|---|---|---|
| `plg_sysagent_lua.c` 58–59, 292, 645 | "activity flag (used only with long running envs)", but an environment with interval 0 is not started if `auto_start` is false | `RunsAtMost` in `lua_envs` |
| `plg_sysagent_lua.c` 646, 659 | when `pthread_create` fails, the agent goes on and at the end joins a thread that was never created (`JoinCrashes`) | `Stops`, `FreedAfterThread` in `lua_envs` |
| `plg_sysagent_mqtt.c` 165, 169 | the connected callback is set after `MQTTAsync_connect`; a connection that comes up in between subscribes to nothing | `LateConnectSubscribes` in `mqtt_conns` |
| `plg_sysagent_mqtt.c` 122, 211–213 | a subscription that fails is neither reported nor tried again before the connection is lost | `LateConnectSubscribes` in `mqtt_conns`: the other topics are subscribed |
| `plg_sysagent_lua.c` 626, `umink_plugin.c` 128–132 | when the init of one handler fails, the signal stays unserved or a later environment gets it, and nobody is told | `ConfigMeaning` in `lua_envs` |
| `umink_plugin.c` 66–80, `plg_sysagent_mqtt.c` 319 | the hooks of a plugin are registered before its `init` has created what they use, so an environment can publish too early | `PublishesSafely` in `sysagent`, with the MQTT plugin first |
| `umink_plugin.c` 64, 72 | a hook keeps a pointer into the array of plugins, which moves when it grows | `RecentPointersValid` and `HooksMatchPlugins` in `plugin_registry` |
| `umink_plugin.c` 201–207, 233 | `umplg_free_mngr` closes the `lua_State` of a handler, destroys its mutex and frees it without taking the mutex, while threads may execute it; they are joined later | `FreedHandlersInUse` in `sysagent`: only after SIGTERM, and not under a thread that was joined |
| `plg_sysagent_mqtt.c` 269–291, 319 | if `MQTTAsync_destroy` waits for callbacks, `terminate` and a callback whose script publishes wait for each other | `CallsEnd` in `mqtt_conns`: no other call hangs |
| `plg_sysagent_mqtt.c` 106, 121, 294 | if `MQTTAsync_destroy` does not wait, a callback may use the descriptor after it was freed | |
| `umdb.c` 76–107, 129–153 | a check that fails after the statement was prepared returns without finalizing it, so that each such check leaves a statement open (`stmts` in `MosquittoAuth`) | `ImplementsPolicy` in `mosquitto_auth`: the check is refused all the same |
| `umink_plugin.c` 85–89, `umink_plugin.h` 263–264 | unloading returns success and does nothing | |
| `umink_plugin.c` 97, 152, `uthash.h` 849–873 | a thread that looks an entry up while main adds others may miss it or read the old array of buckets after it was freed | `UndisturbedLookups` in `hash_table`: only during an expansion or the freeing of the table |
| `uthash.h` 776, 845–861, 1072–1076 | the comment says that the length of chains is enforced to be a multiple of the threshold, but an expansion only cuts them to a multiple of the ideal length, which can reach the threshold; a chain that is full then stays so until the next addition to it | `ChainsBounded` in `hash_table`: such a chain is within its multiple of the ideal length |
| `mink_lua.c` 305–346, `plg_sysagent_mqtt.c` 513 | `M.cmd_call` returns its own arguments, and `run_local` 0, whether or not anything was published; so does a call of `CMD_LUA_CALL`, whose `run_local` (`plg_sysagent_lua.c` 702–706) does nothing | `AnswerIsEcho` and `PublishedAsAsked` in `mqtt_conns` |
| `mink_lua.c` 276–278 | the branch that would print a number with `%d` is never taken, since `lua_isstring` accepts numbers | `ToText` in `StandardData` |
| `plg_sysagent_mqtt.c` 320 | the mutex is locked after `terminate` freed it, if a call has passed the hooks before (`Undefined`) | `CallsEnd` in `mqtt_conns`: only after `terminate` has begun to destroy the connections |
| `plg_sysagent_mqtt.c` 92–110, `mink_lua.c` 392 | the standard data and the output of a received message, and the empty text for a handler without output, are leaked | |
| `sysagentd.c` 77–99, 118 | mandatory parameters are counted, so a repeated one makes up for a missing one | `ArgsMeaning` in `daemon` says what each command line means |
| `umdaemon.c` 134–141 | `UMD` dangles after `umd_destroy`, and SIGTERM is still handled (`SigtermLate`) | `StopsWhenTold` in `daemon` |

Bounds that are no constants of the code are `MaxRaises` and `MaxDepth` (signals
per activation of a handler, nested calls), `MaxEnvs` and `MaxConns` (elements
of a section), `MaxLoads`, `MaxOpen` (statements open), `NumElements` (elements of the hash table), `Calls`, and the saturation of `runs` at two in
`LuaEnvs`. `MaxDepth` exceeds the number of handlers in `signals_acyclic`, so it
cuts no behaviour off there. In `signals_cyclic` a thread that has used up its
depth cannot raise again, only finish.

## 4. Fairness

- The main thread is weakly fair, as are the threads of environments: they are
  ordinary threads that the operating system schedules. `Sysagent` and `LuaEnvs`
  let scripts return, because nothing in the code can stop one that does not.
- A thread inside handlers is strongly fair in `SignalDispatch` and `Sysagent`, because its
  next step may be `pthread_mutex_lock`, which is enabled and disabled again as
  other threads take the mutex. The assumption is that a thread that waits for a
  mutex that is free again and again gets it some day. Nothing obliges a thread
  to raise a signal in the first place.
- Neither SIGTERM nor messages, nor the broker's accepting a connection, are
  fair: `StopsWhenTold`, `Stops` and `Terminates` are about a SIGTERM that came.
- In `MqttConns` the main thread may stay in its loop for ever, and `mqtt_on_connect`
  is scheduled. `MqttCommands` adds that a thread in `M.cmd_call` and `mqtt_on_rx`
  go on, weakly fair as other threads are; that the script of a callback ends,
  however many calls it makes (strong fairness of `RxEnds`, which each call
  disables for a while); and strong fairness of `Destroy`: if main waits in it for
  callbacks, a broker that sends message after message does not hold it up for
  ever. None of that ends the deadlock, in which neither step is ever enabled.
- In `HashTable` the readers are weakly fair and main is not: it may stop adding at
  any time, even between two stores.

`CallsReturn` in `signals_cyclic` needs that all threads enter a cycle at the
same handler. Two threads that enter it at different ones can wait for each
other for ever; nothing in the repository rules that out or allows it, so no
property states it.

## 5. What is proved

Every safety property that a passing run checks is a theorem, as are the
refinements of `SignalMonitor` and `AccessPolicy`. All theorems hold for any
number of threads, handlers, environments, connections, elements, users and so
on, and for any scripts and configurations. They assume what the modules name
(`ConstantsAssumption`, `ConfigsAssumption`, `CallsAssumption`): types of the
constants, and for configurations that an element has one of the shapes that the
checks of the code tell apart. TLC evaluates these assumptions in the runs.
Bounds like `MaxDepth`, `MaxConns` and `NumElements` are part of the models and
may have any value.

`SignalDispatchProofs`:

- `TypeCorrect`. The data of a call is named by its thread and depth, so that
  the type invariant needs the bound on the depth (`TypeInv`).
- `StateIsExclusive`, `MutexIsHeldByScript`, `RefusalsAreRecursive`. `ExclusiveState`
  alone is not inductive. `LockInv` adds that all calls but the innermost are in
  their scripts (`OuterInScript`), that a script holds the mutex of its handler
  (`ScriptHolds`) and the holder runs it (`HolderRuns`), that a thread runs a
  script in one of its calls (`OneActivation`), and that the flag is set under the
  mutex only (`FlagUnderMutex`). The flag itself does *not* say whether the script
  runs: it is cleared by a refused call. What keeps the `lua_State` exclusive then
  is that a second recursive call finds no chunk to run.
- `ArgumentsAreOwn`, for handlers that are `Acyclic`. The invariant `OrderInv(rank)`
  says that ranks decrease along the calls of a thread, so that a call that gets
  the mutex gets it from nobody, and `mink_stdd` is not overwritten by an inner call.
- `HandlersAreMonitors`, the refinement of `SignalMonitor`, from the same
  invariants: `Enter` is `Begin`, `Finish` is `Return`, `RaiseSignal` is `Call`,
  every other step is a stutter.

`LuaEnvsProofs`, for sections of any length:

- `ConfigIsMeant`. `process_cfg` builds two tables entry by entry and stops at the
  first one that fails, `ConfigMeaning` speaks of the whole section. `MeaningInv`
  is the bridge: it says of the elements up to the current one what `ConfigMeaning`
  says of all, for any handlers whose init has failed on the way.
- `EnvsAreFreedLast`, `OneRunWithoutInterval`, `TypeCorrect`. `ThreadInv` relates
  the state of each thread to the phase of main and its place in the table:
  nothing runs before it was started, what main has joined has ended, and main
  frees only what it has joined.

`MqttCommandsProofs`, for any sections, threads and calls:

- `ScriptsRefineConns`. A step of a script is a stutter for the connections, or the
  end of a callback; main and the client library do what they do without scripts,
  main no later than the hooks are freed. Everything proved about `MqttConns`, and
  its fairness, carries over to `MqttCommands`.
- `ConfigIsMeant`. `ConnsInv` follows the scan (`Scan`), with the variable `v`: it is
  an object as long as no element passed ends in a subscription that blocks the
  next one. That is why connections after such an element are missing
  (`mqtt_stale_check`) and all others are there.
- `LateOnesAreSubscribed`, the safety half of `LateConnectSubscribes`: whenever
  `mqtt_on_connect` is not running, the subscriptions are complete but for the
  topics that were refused since the connection came up.
- `AnswersEcho`, `PublishesAsAsked`, `TypeCorrect`. `CallsInv` says that a thread
  between `mqtt_mngr_get_conn` and `mqtt_conn_pub` holds a connection that
  is listed under the name it asked for. It needs `ListedFirst` of `ConnsInv`:
  names in the list are unique, whatever main does to the list meanwhile. `HooksInv`
  says that as long as there are hooks every call under way is of a command that has
  one, and that `terminate` runs only without them: such a call meets nothing that
  was freed, and is answered.

`PluginRegistryProofs`: for any plugin files, whatever commands and signals they
list, and any order of calls.

- `HooksLeadToPlugins`, `OpensBalance`, `LeadsToOpenFiles`, `TypeCorrect`. The
  invariant is `IInv`. `NothingLeadsToClosed` is not inductive: it follows from
  what the phases of `umplg_free_mngr` leave (`Phases`: nothing is terminated
  while there is a handler or a hook), from handlers belonging to loaded plugins
  (`HandlersLoaded`), and from `OpenMatchesTable`, which says that the file of a
  plugin that is in the table and not terminated is open at least once.
- `RecentHooksAreValid`. When the array doubles it was full, so that only the new
  element is in its upper half; `Recent` adds that the room never shrinks.

`HashTableProofs`, for tables of any size, hash functions, thresholds and numbers
of threads that look keys up:

- `TablePassesFsck`, `LookupsAreSafe`, `TypeCorrect`. `Fsck` holds only between two
  macros and says nothing that survives a single store. `IInv` numbers the elements
  of each chain from its end, by a function `pos` that the invariant says to exist
  (`Order`). `Chained` says of a bucket that its links count down that numbering in
  both directions. During an expansion an element is either in its new bucket or
  in what is left of the old chain (`Moving`), which only its forward links
  connect (`Follows`). An undisturbed lookup has read what is still true
  (`ReadsTrue`) and has not passed its key: it is at a position above (`Walking`).
  New elements are put in front, above all positions in their chain, so they never
  get between a lookup and its key.
- `WellLinked` walks a chain by a recursive function. `VisitedInOrder` computes it
  along any enumeration of the elements; where one would use induction, it takes
  the least position where the two differ (`LeastNumber`, from well-founded
  orders).
- `ChainsAreBounded`. `LengthInv` says that an expansion leaves every chain within its
  multiple of the ideal length: `expand_mult` is raised just in time.

`SysagentProofs`, for any number of environments, handlers and signals: `TypeCorrect`,
`EverySignalServed`, `PublishingIsSafe`, `FreedHandlersAreLate`. The order in which plugins are loaded
is the argument, and `IInv` states what it implies at each phase. With the Lua plugin
first, all handlers exist before a thread runs (`HandlersFirst`), and all environments
are joined before anything of the MQTT plugin is freed (`JoinedFirst`). With the MQTT
plugin first, there is a manager before there is a thread (`ManagerFirst`). In both
orders no thread uses a connection that never was (`ConnsExist`). For
`FreedHandlersAreLate` the invariant adds that the handlers a thread is inside were
all registered (`CalledFirst`: the whole nest, since returning from the innermost
uncovers the next), and that main takes nothing down without a SIGTERM
(`StoppedFirst`); a joined thread has ended and is inside none.

`DaemonProofs`: `TypeCorrect` and `ArgsAreMeant`, for command lines of any length. `Read` says
what `proc_args` has made of the arguments before the current one, `Phases`
that nothing touches it later.

`MosquittoAuthProofs`: `TypeCorrect`, and `FailsClosed`, the refinement of
`AccessPolicy` for any users. `ReadsThePolicy` is its heart: what the check will
grant is decided by the row it read, and at the moment of `sqlite3_step` that is
what the policy allows, although the query joins the table with itself. No step
between that and the answer changes it, whatever happens to the table.

Only model-checked:

- Liveness, which the prover cannot do: `CallsReturn`, `Stops`, `CallsEnd`,
  `LateConnectSubscribes`, `Terminates`, `CallbackReturns`, `StopsWhenTold`,
  `LookupsEnd`.
- The three runs that find a disagreement: their properties are false.

## 6. What is not modelled

- Stores that become visible to another thread out of program order: `HashTable`
  assumes that they do not. On hardware and with compilers that reorder them a
  lookup that overlaps a plain `HASH_ADD` can go wrong as well.
- The parts of `uthash.h` that the program does not use, or only on one thread;
  of `utarray.h` everything but the growth that moves elements.
- Several `mqtt:RX` callbacks of one connection at a time. `Sysagent` has one callback
  thread in all. `MqttConns` lets the callbacks of different connections overlap, and
  leaves the handler that their script runs in, with its mutex, to `Sysagent`.
- What MQTT does with a message that was handed to the client library.
- The JSON library, how numbers and texts are formatted, coroutines in scripts,
  logging (`umd_log` and syslog), memory that leaks without consequences for the
  behaviour, build files. The atomic operations of `umatomic.h` are compiler
  builtins; the steps that use them are atomic actions.

## 7. Plan

Order of work, most important behaviour first:

1. Signals and handlers, with the abstract monitor and its proofs (done).
2. The life cycles of both plugins, of the manager and of the process (done).
3. The broker plugin against its policy, with proofs (done); the daemon (done).
4. Scripts and their data: `StandardData`, and `MqttCommands` against the
   connections (done).
5. The tables of the manager under concurrent lookups, `HashTable` (done).
   Handlers that call each other in `Sysagent` (done).
6. A client library whose destruction waits for callbacks, and callbacks whose
   scripts publish, in `MqttConns` and `MqttCommands` (done).
7. Proofs: the safety properties of all runs (done). What liveness rests on can be
   stated as safety, as `LateOnesAreSubscribed` is: that threads in acyclic handlers
   never wait for each other, for `CallsReturn`; that a lookup comes closer to the
   end of its chain, for `LookupsEnd`; that main never joins a thread that cannot end,
   for `Stops` and `Terminates`.
