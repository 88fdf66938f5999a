------------------------------- MODULE Daemon -------------------------------
(***************************************************************************)
(* main of the system agent around its plugins: the command line, the      *)
(* configuration file, the SIGTERM handler and the daemon descriptor that  *)
(* it uses through the global UMD.                                         *)
(***************************************************************************)
EXTENDS Naturals, Sequences, FiniteSets

CONSTANTS
  ArgLists,  \* command lines: sequences of [opt, value], opt as in getopt_long
  Names,     \* values of -i
  Size,      \* Size[n]: length of n
  Unnamed,   \* the id the daemon is created with, ""
  IdMaxSize, \* UMD_ID_MAX_SZ
  None       \* no file, no path

ASSUME ConstantsAssumption ==
  /\ Size \in [Names -> Nat]
  /\ IdMaxSize \in Nat
  /\ Unnamed \notin Names
  /\ \A line \in ArgLists :
       /\ Len(line) \in Nat
       /\ \A n \in 1..Len(line) : line[n].opt = "i" => line[n].value \in Names

(* Options that are counted as mandatory parameters.                       *)
Mandatory == {"i", "p", "plugins-cfg"}

VARIABLES
  args,       \* the command line
  pc,         \* "args", "signal", "config", "loop", "free", "exited"
  k,          \* the next argument
  mpc,        \* mandatory param count
  id,         \* UMD->id
  fqn,        \* UMD->fqn: the id in it
  plg_pth,    \* dd.plg_pth
  plg_cfg_f,  \* dd.plg_cfg_f
  UMD,        \* what the global points to: "live", "freed"
  installed,  \* the handler of SIGTERM is installed
  plugins,    \* init_plugins was called
  terminated, \* UMD->is_terminated
  status      \* exit status: "none", "success", "failure", "killed"

options == <<mpc, id, fqn, plg_pth, plg_cfg_f>>
vars == <<args, pc, k, options, UMD, installed, plugins, terminated, status>>

-----------------------------------------------------------------------------
Init ==
  /\ args \in ArgLists
  /\ pc = "args"
  /\ k = 1
  /\ mpc = 0
  /\ id = Unnamed
  /\ fqn = Unnamed
  /\ plg_pth = None
  /\ plg_cfg_f = None
  /\ UMD = "live"
  /\ installed = FALSE
  /\ plugins = FALSE
  /\ terminated = FALSE
  /\ status = "none"

Arg == args[k]
AtOption(opt) == pc = "args" /\ k <= Len(args) /\ Arg.opt = opt

Exit(with) ==
  /\ pc' = "exited"
  /\ status' = with

(* Mutant: the new id is not put into the name.                            *)
Fqn_Stale(name) == fqn

(* umd_set_id builds the name anew.                                        *)
Fqn(name) == name

(* Mutant: the buffer has room for an id of its own size.                  *)
TooLong_OffByOne(name) == Size[name] > IdMaxSize

TooLong(name) == Size[name] >= IdMaxSize

SetId ==
  /\ AtOption("i")
  /\ ~TooLong(Arg.value)
  /\ id' = Arg.value
  /\ fqn' = Fqn(Arg.value)
  /\ mpc' = mpc + 1
  /\ k' = k + 1
  /\ UNCHANGED <<args, pc, plg_pth, plg_cfg_f, UMD, installed, plugins, terminated, status>>

IdTooLong ==
  /\ AtOption("i")
  /\ TooLong(Arg.value)
  /\ Exit("failure")
  /\ UNCHANGED <<args, k, options, UMD, installed, plugins, terminated>>

PluginPath ==
  /\ AtOption("p")
  /\ plg_pth' = Arg.value
  /\ mpc' = mpc + 1
  /\ k' = k + 1
  /\ UNCHANGED <<args, pc, id, fqn, plg_cfg_f, UMD, installed, plugins, terminated, status>>

PluginsCfg ==
  /\ AtOption("plugins-cfg")
  /\ plg_cfg_f' = Arg.value
  /\ mpc' = mpc + 1
  /\ k' = k + 1
  /\ UNCHANGED <<args, pc, id, fqn, plg_pth, UMD, installed, plugins, terminated, status>>

Version ==
  /\ AtOption("v")
  /\ Exit("success")
  /\ UNCHANGED <<args, k, options, UMD, installed, plugins, terminated>>

(* -D, -? and what getopt_long does not know.                              *)
OtherOption ==
  /\ AtOption("other")
  /\ k' = k + 1
  /\ UNCHANGED <<args, pc, options, UMD, installed, plugins, terminated, status>>

Enough == mpc >= 3

ArgsDone ==
  /\ pc = "args"
  /\ k = Len(args) + 1
  /\ IF Enough THEN pc' = "signal" /\ UNCHANGED status ELSE Exit("failure")
  /\ UNCHANGED <<args, k, options, UMD, installed, plugins, terminated>>

(* signal(SIGTERM, ...), then umd_start.                                   *)
InstallHandler ==
  /\ pc = "signal"
  /\ installed' = TRUE
  /\ pc' = "config"
  /\ UNCHANGED <<args, k, options, UMD, plugins, terminated, status>>

(* Mutant: the flag is cleared when the plugins have been loaded.          *)
LoadPlugins_Clears ==
  /\ pc = "config"
  /\ plg_cfg_f # None
  /\ plugins' = (plg_pth # None)
  /\ terminated' = FALSE
  /\ pc' = "loop"
  /\ UNCHANGED <<args, k, options, UMD, installed, status>>

(* The configuration can be parsed: the plugins are loaded.                *)
LoadPlugins ==
  /\ pc = "config"
  /\ plg_cfg_f # None
  /\ plugins' = (plg_pth # None)
  /\ pc' = "loop"
  /\ UNCHANGED <<args, k, options, UMD, installed, terminated, status>>

(* It cannot be opened or is empty: the daemon runs without plugins.       *)
NoConfig ==
  /\ pc = "config"
  /\ pc' = "loop"
  /\ UNCHANGED <<args, k, options, UMD, installed, plugins, terminated, status>>

InvalidConfig ==
  /\ pc = "config"
  /\ plg_cfg_f # None
  /\ Exit("failure")
  /\ UNCHANGED <<args, k, options, UMD, installed, plugins, terminated>>

(* umd_loop polls the flag.                                                *)
LoopEnds == terminated

(* Then umplg_free_mngr runs.                                              *)
LeaveLoop ==
  /\ pc = "loop"
  /\ LoopEnds
  /\ plugins' = FALSE
  /\ pc' = "free"
  /\ UNCHANGED <<args, k, options, UMD, installed, terminated, status>>

(* umd_destroy leaves the global as it is ...                              *)
Destroy ==
  /\ pc = "free"
  /\ UMD = "live"
  /\ UMD' = "freed"
  /\ UNCHANGED <<args, pc, k, options, installed, plugins, terminated, status>>

(* ... and main returns.                                                   *)
Return ==
  /\ pc = "free"
  /\ UMD = "freed"
  /\ Exit("success")
  /\ UNCHANGED <<args, k, options, UMD, installed, plugins, terminated>>

Main ==
  \/ SetId \/ IdTooLong \/ PluginPath \/ PluginsCfg \/ Version \/ OtherOption \/ ArgsDone
  \/ InstallHandler \/ LoadPlugins \/ NoConfig \/ InvalidConfig
  \/ LeaveLoop \/ Destroy \/ Return

(* SIGTERM before the handler is installed has its default action.         *)
Killed ==
  /\ pc # "exited"
  /\ ~installed
  /\ Exit("killed")
  /\ UNCHANGED <<args, k, options, UMD, installed, plugins, terminated>>

(* umd_signal_handler.                                                     *)
Sigterm ==
  /\ pc # "exited"
  /\ installed
  /\ UMD = "live"
  /\ terminated' = TRUE
  /\ UNCHANGED <<args, pc, k, options, UMD, installed, plugins, status>>

(* It writes to what was freed.                                            *)
SigtermLate ==
  /\ pc # "exited"
  /\ installed
  /\ UMD = "freed"
  /\ \/ UNCHANGED <<pc, status>>
     \/ Exit("killed")
  /\ UNCHANGED <<args, k, options, UMD, installed, plugins, terminated>>

Finished ==
  /\ pc = "exited"
  /\ UNCHANGED vars

Next == Main \/ Killed \/ Sigterm \/ SigtermLate \/ Finished

(* The main thread runs.  Nobody has to send SIGTERM.                      *)
Fairness == WF_vars(Main)

Spec == Init /\ [][Next]_vars /\ Fairness

-----------------------------------------------------------------------------
(* Types; the id fits its buffer with the end of the string.               *)
TypeOK ==
  /\ args \in ArgLists
  /\ pc \in {"args", "signal", "config", "loop", "free", "exited"}
  /\ k \in 1..(Len(args) + 1)
  /\ mpc \in 0..Len(args)
  /\ id \in Names \cup {Unnamed}
  /\ id # Unnamed => Size[id] + 1 <= IdMaxSize
  /\ UMD \in {"live", "freed"}
  /\ installed \in BOOLEAN
  /\ plugins \in BOOLEAN
  /\ terminated \in BOOLEAN
  /\ status \in {"none", "success", "failure", "killed"}

Running == pc \in {"signal", "config", "loop", "free"}

(* What a command line means.  An option that ends the program does so if  *)
(* nothing before it does: -v with success, an id that does not fit its    *)
(* buffer, which umd_set_id refuses, without.                              *)
Ends(j) == args[j].opt = "v" \/ (args[j].opt = "i" /\ Size[args[j].value] >= IdMaxSize)
FirstEnd(j) == Ends(j) /\ \A l \in 1..(j - 1) : ~Ends(l)

(* The last one counts of options that are repeated.                       *)
Last(opt, otherwise) ==
  LET given == {j \in 1..Len(args) : args[j].opt = opt}
  IN  IF given = {} THEN otherwise
      ELSE args[CHOOSE j \in given : \A l \in given : l <= j].value

Count == Cardinality({j \in 1..Len(args) : args[j].opt \in Mandatory})

(* Whatever is repeated and in whatever order, the command line is read as *)
(* that says, and the daemon is named after its id wherever the name is    *)
(* used.  How long an id may be according to the program's message is a    *)
(* question of its own: see IdsAsAnnounced.                                *)
ArgsMeaning ==
  /\ Running =>
       /\ \A j \in 1..Len(args) : ~Ends(j)
       /\ Count >= 3
       /\ id = Last("i", Unnamed) /\ fqn = id
       /\ plg_pth = Last("p", None)
       /\ plg_cfg_f = Last("plugins-cfg", None)
  /\ ~installed /\ status = "success" =>
       \E j \in 1..Len(args) : FirstEnd(j) /\ args[j].opt = "v"
  /\ ~installed /\ status = "failure" =>
       \/ \E j \in 1..Len(args) : FirstEnd(j) /\ args[j].opt = "i"
       \/ (\A j \in 1..Len(args) : ~Ends(j)) /\ Count < 3

(* "ERROR: Maximum size of daemon id string is 15 characters!" is what the *)
(* program says when it refuses an id.                                     *)
AnnouncedIdMax == 15

(* No daemon runs with an id longer than the message of proc_args says.    *)
IdsAsAnnounced == Running /\ id # Unnamed => Size[id] <= AnnouncedIdMax

(* A SIGTERM that was received stops the daemon, whenever it came: while   *)
(* the plugins are loaded as well as in the loop.                          *)
StopsWhenTold == terminated ~> pc = "exited"
=============================================================================
