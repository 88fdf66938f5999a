--------------------------- MODULE PluginRegistry ---------------------------
(***************************************************************************)
(* The plugin manager: the table of plugins, the hooks that attach command *)
(* ids to plugins, and the signal handlers that plugins register in their  *)
(* init, from umplg_new_mngr to umplg_free_mngr, as main uses them.        *)
(*                                                                         *)
(* The dynamic linker is external: dlopen counts how often a file is open. *)
(* The table is a utarray, whose elements may move when it grows, while    *)
(* hooks point to elements.                                                *)
(***************************************************************************)
EXTENDS Naturals, Sequences, FiniteSets

CONSTANTS
  Files,      \* plugin files
  Commands,   \* command ids
  Signals,    \* signal ids
  COMMANDS,   \* COMMANDS[f]: the ids f lists, without the end marker
  Complete,   \* files that define the four mandatory symbols
  Local,      \* files that define run_local
  Registers,  \* Registers[f]: the signals that init of f registers
  InitFails,  \* signals whose init method fails
  Capacity,   \* elements a new utarray has room for (8 in utarray.h)
  MaxLoads    \* bound: calls of umplg_load

ASSUME ConstantsAssumption ==
  /\ COMMANDS \in [Files -> SUBSET Commands]
  /\ Registers \in [Files -> SUBSET Signals]
  /\ Complete \subseteq Files
  /\ Local \subseteq Files
  /\ Capacity \in Nat \ {0}
  /\ MaxLoads \in Nat

VARIABLES
  pc,         \* "running", then the phases of umplg_free_mngr: "signals", "hooks", "plugins", "freed"; or "crashed"
  plgs,       \* pm->plgs: the files in the order they were loaded
  room,       \* the elements pm->plgs has room for
  moves,      \* how often the elements of pm->plgs have moved
  hooks,      \* pm->hooks: command id -> [slot, moves], the plugin pointer
  signals,    \* pm->signals: signal id -> the file that registered it
  open,       \* open[f]: how often f is open
  terminated, \* the files whose terminate was called, in order
  loads,      \* calls of umplg_load so far
  ret         \* outcome of the last call

table == <<plgs, room, moves>>
vars == <<pc, table, hooks, signals, open, terminated, loads, ret>>

-----------------------------------------------------------------------------
Ids == DOMAIN hooks
Without(f, x) == [y \in DOMAIN f \ {x} |-> f[y]]
NoFiles == [f \in Files |-> 0]

Init ==
  /\ pc = "running"
  /\ plgs = <<>>
  /\ room = Capacity
  /\ moves = 0
  /\ hooks = <<>>
  /\ signals = <<>>
  /\ open = NoFiles
  /\ terminated = <<>>
  /\ loads = 0
  /\ ret = "none"

(* Mutant: only the first command of the list is looked up.                *)
Taken_Some(f) == COMMANDS[f] # {} /\ COMMANDS[f] \subseteq Ids

(* One of the commands has a hook already.                                 *)
Taken(f) == COMMANDS[f] \cap Ids # {}

(* Mutant: the handle of a refused plugin is not closed.                   *)
Closed_Forgotten(f) == [open EXCEPT ![f] = @ + 1]

(* A refused plugin is closed again.                                       *)
Closed(f) == open

(* umplg_load: the file cannot be opened, lacks a symbol or lists a        *)
(* command that has a hook.                                                *)
Refuse(f) ==
  /\ pc = "running"
  /\ loads < MaxLoads
  /\ f \notin Complete \/ Taken(f)
  /\ open' = Closed(f)
  /\ loads' = loads + 1
  /\ ret' = "refused"
  /\ UNCHANGED <<pc, table, hooks, signals, terminated>>

(* utarray_push_back: the room is doubled when there is none left, and     *)
(* realloc may move the elements.                                          *)
Push(f) ==
  /\ plgs' = Append(plgs, f)
  /\ IF Len(plgs) < room
       THEN UNCHANGED <<room, moves>>
       ELSE /\ room' = 2 * room
            /\ moves' \in {moves, moves + 1}

(* umplg_reg_signal, for each signal that init registers: refused if the   *)
(* signal has a handler, or if the handler's own init fails.               *)
Registered(f) ==
  [s \in DOMAIN signals \cup (Registers[f] \ InitFails) |->
     IF s \in DOMAIN signals THEN signals[s] ELSE f]

(* Mutant: the hooks point to the element before the new one.              *)
Attached_OffByOne(f) ==
  [c \in Ids \cup COMMANDS[f] |->
     IF c \in COMMANDS[f] THEN [slot |-> Len(plgs), moves |-> moves'] ELSE hooks[c]]

(* Mutant: the pointer is taken before the element is appended.            *)
Attached_BeforePush(f) ==
  [c \in Ids \cup COMMANDS[f] |->
     IF c \in COMMANDS[f] THEN [slot |-> Len(plgs) + 1, moves |-> moves] ELSE hooks[c]]

(* The hooks point to the new, last element.                               *)
Attached(f) ==
  [c \in Ids \cup COMMANDS[f] |->
     IF c \in COMMANDS[f] THEN [slot |-> Len(plgs) + 1, moves |-> moves'] ELSE hooks[c]]

(* umplg_load: append the descriptor, attach the hooks, call init.  What   *)
(* init returns is ignored.                                                *)
Load(f) ==
  /\ pc = "running"
  /\ loads < MaxLoads
  /\ f \in Complete
  /\ ~Taken(f)
  /\ Push(f)
  /\ hooks' = Attached(f)
  /\ signals' = Registered(f)
  /\ open' = [open EXCEPT ![f] = @ + 1]
  /\ loads' = loads + 1
  /\ ret' = "loaded"
  /\ UNCHANGED <<pc, terminated>>

(* umplg_unload does nothing, and succeeds.                                *)
Unload(f) ==
  /\ pc = "running"
  /\ \E k \in 1..Len(plgs) : plgs[k] = f
  /\ ret' = "unloaded"
  /\ UNCHANGED <<pc, table, hooks, signals, open, terminated, loads>>

(* The plugin that a hook points to, and whether the pointer still is the  *)
(* address of that plugin.                                                 *)
Target(c) == plgs[hooks[c].slot]
Valid(c) == hooks[c].moves = moves

(* umplg_run: no such hook, no local handler, or the plugin's handler is   *)
(* called through the pointer of the hook.                                 *)
Run(c, is_local) ==
  /\ pc = "running"
  /\ \/ c \notin Ids /\ ret' = "no_hook"
     \/ c \in Ids /\ Valid(c) /\ is_local /\ Target(c) \notin Local /\ ret' = "no_local_handler"
     \/ c \in Ids /\ Valid(c) /\ (is_local => Target(c) \in Local) /\ ret' = "called"
  /\ UNCHANGED <<pc, table, hooks, signals, open, terminated, loads>>

(* umplg_run through a pointer into memory that realloc has released: what *)
(* is there now may look like any plugin or none.                          *)
RunStale(c) ==
  /\ pc = "running"
  /\ c \in Ids
  /\ ~Valid(c)
  /\ pc' \in {"running", "crashed"}
  /\ ret' = "undefined"
  /\ UNCHANGED <<table, hooks, signals, open, terminated, loads>>

-----------------------------------------------------------------------------
(* umplg_free_mngr.                                                        *)
Phase(from, to) == pc = from /\ pc' = to

BeginFree ==
  /\ Phase("running", "signals")
  /\ UNCHANGED <<table, hooks, signals, open, terminated, loads, ret>>

(* term of the handler, then it is freed.                                  *)
FreeSignal(s) ==
  /\ pc = "signals"
  /\ s \in DOMAIN signals
  /\ signals' = Without(signals, s)
  /\ UNCHANGED <<pc, table, hooks, open, terminated, loads, ret>>

(* Mutant: the signals are left for the end.                               *)
SignalsFreed_Later ==
  /\ Phase("signals", "hooks")
  /\ UNCHANGED <<table, hooks, signals, open, terminated, loads, ret>>

SignalsFreed ==
  /\ Phase("signals", "hooks")
  /\ DOMAIN signals = {}
  /\ UNCHANGED <<table, hooks, signals, open, terminated, loads, ret>>

FreeHook(c) ==
  /\ pc = "hooks"
  /\ c \in Ids
  /\ hooks' = Without(hooks, c)
  /\ UNCHANGED <<pc, table, signals, open, terminated, loads, ret>>

HooksFreed ==
  /\ Phase("hooks", "plugins")
  /\ Ids = {}
  /\ UNCHANGED <<table, hooks, signals, open, terminated, loads, ret>>

(* terminate and dlclose, in the order of the table.                       *)
TerminatePlugin ==
  /\ pc = "plugins"
  /\ Len(terminated) < Len(plgs)
  /\ LET f == plgs[Len(terminated) + 1] IN
       /\ terminated' = Append(terminated, f)
       /\ open' = [open EXCEPT ![f] = @ - 1]
  /\ UNCHANGED <<pc, table, hooks, signals, loads, ret>>

Freed ==
  /\ Phase("plugins", "freed")
  /\ Len(terminated) = Len(plgs)
  /\ UNCHANGED <<table, hooks, signals, open, terminated, loads, ret>>

Free ==
  \/ BeginFree \/ SignalsFreed \/ HooksFreed \/ TerminatePlugin \/ Freed
  \/ \E s \in Signals : FreeSignal(s)
  \/ \E c \in Commands : FreeHook(c)

Finished ==
  /\ pc \in {"freed", "crashed"}
  /\ UNCHANGED vars

Next ==
  \/ \E f \in Files : Load(f) \/ Refuse(f) \/ Unload(f)
  \/ \E c \in Commands : RunStale(c) \/ \E is_local \in BOOLEAN : Run(c, is_local)
  \/ Free \/ Finished

Spec == Init /\ [][Next]_vars

-----------------------------------------------------------------------------
TypeOK ==
  /\ pc \in {"running", "signals", "hooks", "plugins", "freed", "crashed"}
  /\ plgs \in Seq(Complete)
  /\ room \in Nat \ {0} /\ Len(plgs) <= room
  /\ moves \in Nat
  /\ Ids \subseteq Commands
  /\ \A c \in Ids : hooks[c].slot \in 1..Len(plgs) /\ hooks[c].moves \in Nat
  /\ DOMAIN signals \subseteq Signals \ InitFails
  /\ \A s \in DOMAIN signals : signals[s] \in Complete
  /\ open \in [Files -> Nat]
  /\ terminated \in Seq(Complete)
  /\ loads \in 0..MaxLoads
  /\ ret \in {"none", "refused", "loaded", "unloaded", "no_hook", "no_local_handler", "called",
             "undefined"}

(* Whatever was loaded and refused in between, a command has a hook if and *)
(* only if a plugin in the table lists it, it is listed by that plugin     *)
(* alone, and the hook leads to it.                                        *)
HooksMatchPlugins ==
  pc = "running" =>
    /\ Ids = UNION {COMMANDS[plgs[k]] : k \in 1..Len(plgs)}
    /\ \A c \in Ids : \A k \in 1..Len(plgs) :
         c \in COMMANDS[plgs[k]] <=> k = hooks[c].slot

(* A plugin stays open from umplg_load until its terminate has returned,   *)
(* and a refused one is closed.                                            *)
OpenMatchesTable ==
  \A f \in Files :
    open[f] = Cardinality({k \in Len(terminated) + 1 .. Len(plgs) : plgs[k] = f})

(* How far the pointers of the hooks can be relied on: the plugins that    *)
(* were appended since the array last grew are where their hooks point to, *)
(* all of them as long as it has not grown.                                *)
RecentPointersValid ==
  \A c \in Ids : room = Capacity \/ 2 * hooks[c].slot > room => Valid(c)

(* The handlers and the hooks are gone before the first plugin is closed:  *)
(* nothing in the manager ever leads into a closed plugin.                 *)
NothingLeadsToClosed ==
  /\ \A s \in DOMAIN signals : open[signals[s]] > 0
  /\ \A c \in Ids : open[Target(c)] > 0
=============================================================================
