--------------------------- MODULE SignalDispatch ---------------------------
(***************************************************************************)
(* Signals of the plugin manager and the Lua handlers that serve them.     *)
(*                                                                         *)
(* A script raises a signal with M.signal(name, data): mink_lua_signal     *)
(* builds the standard data d_in on its C stack, umplg_proc_signal looks   *)
(* the name up in pm->signals and lua_sig_hndlr_run runs the script of the *)
(* handler, in the handler's own lua_State, under the handler's recursive  *)
(* mutex.  The script of a handler may raise signals too, so the calls of  *)
(* a thread nest.  The threads are the ones of the Lua environments and    *)
(* the callback thread of the MQTT client (mqtt_on_rx raises "mqtt:RX").   *)
(*                                                                         *)
(* pm->signals does not change here: its creation and its destruction      *)
(* belong to the plugin manager.  Scripts do not create coroutines.        *)
(***************************************************************************)
EXTENDS Naturals, Sequences

CONSTANTS
  Threads,    \* threads that raise signals
  Signals,    \* the ids registered in pm->signals
  Roots,      \* Roots[t]: the names that thread t's own script raises
  Raises,     \* Raises[s]: the names that the script of handler s raises
  MaxRaises,  \* bound: signals raised by one activation of a handler's script
  MaxDepth,   \* bound: nested calls of a thread (one more than there are handlers suffices)
  None        \* no thread

ASSUME ConstantsAssumption ==
  /\ DOMAIN Roots = Threads
  /\ DOMAIN Raises = Signals
  /\ MaxRaises \in Nat
  /\ MaxDepth \in Nat
  /\ None \notin Threads

VARIABLES
  stack,   \* stack[t]: the calls of lua_sig_hndlr_run that t is inside, innermost last
  owner,   \* owner[s]: the thread that holds shd->mtx of handler s
  running, \* running[s]: shd->running
  stdd,    \* stdd[s]: registry["mink_stdd"] of handler s' lua_State
  reply    \* reply[t]: the last d_out delivered to thread t

vars == <<stack, owner, running, stdd, reply>>

-----------------------------------------------------------------------------
(* d_in lives in the C frame of the call that built it, so the pair of the *)
(* thread and the nesting depth is its address.  It is gone as soon as the *)
(* frame is popped.                                                        *)
Data == Threads \X (1..MaxDepth)
NoData == <<>>

(* "lock": waiting for shd->mtx; "script": inside lua_pcall of the chunk.  *)
Frame == [sig : Signals, at : {"lock", "script"}, raised : 0..MaxRaises]

(* What a script returns: a string or a number (lua_isstring holds for     *)
(* both), an empty string, anything else, or a Lua error whose message is  *)
(* left on the Lua stack.                                                  *)
Results == {"text", "empty", "other", "error"}

(* What M.signal gives back to the script that raised the signal.          *)
Replies == {"text", "error", "prevented", ""}

(* Mutant: an empty result is not taken for an error.                      *)
Output_Verbatim(result) == result

(* snprintf of an empty string returns 0, which is taken for an error, and *)
(* a result that is not a string leaves d_out NULL: the caller sees "".    *)
Output(result) == IF result \in {"empty", "other"} THEN "" ELSE result

Depth(t) == Len(stack[t])
Top(t) == stack[t][Depth(t)]
Pop(t) == SubSeq(stack[t], 1, Depth(t) - 1)

Idle(t) == stack[t] = <<>>
InScript(t) == ~Idle(t) /\ Top(t).at = "script"

(* Thread t is inside lua_sig_hndlr_run of s, before pthread_mutex_lock.   *)
AtLock(t, s) == ~Idle(t) /\ Top(t).at = "lock" /\ Top(t).sig = s

(* Mutant: a mutex that is not recursive.                                  *)
CanLock_NotRecursive(t, s) == owner[s] = None

(* shd->mtx is PTHREAD_MUTEX_RECURSIVE.                                    *)
CanLock(t, s) == owner[s] \in {None, t}

(* The frame that is active in the lua_State of s has the compiled chunk   *)
(* on top of its stack only between two activations.  During one, the top  *)
(* is the last argument of the M.signal call the script is inside.         *)
ChunkOnTop(s) == owner[s] = None

(* Mutant: a way out that forgets the flag.                                *)
FlagCleared_Forgotten(s) == running

(* shd->running = false, on every way out of the handler.                  *)
FlagCleared(s) == [running EXCEPT ![s] = FALSE]

(* Mutants: an early return that keeps the mutex, a nested call that makes *)
(* the unlock of the outer one as well.                                    *)
Unlocked_NotIfEmpty(s, result) ==
  IF result = "empty" THEN owner ELSE [owner EXCEPT ![s] = None]
NestedUnlocked_Twice(s) == [owner EXCEPT ![s] = None]

(* pthread_mutex_unlock, on every way out of the handler: it frees the     *)
(* mutex when the script has run, not in a nested call.                    *)
Unlocked(s, result) == [owner EXCEPT ![s] = None]
NestedUnlocked(s) == owner

-----------------------------------------------------------------------------
Init ==
  /\ stack = [t \in Threads |-> <<>>]
  /\ owner = [s \in Signals |-> None]
  /\ running = [s \in Signals |-> FALSE]
  /\ stdd = [s \in Signals |-> NoData]
  /\ reply = [t \in Threads |-> ""]

(* The script that thread t is executing calls M.signal(name): its own     *)
(* script, or the one of the innermost handler.                            *)
MayRaise(t, name) ==
  \/ Idle(t) /\ name \in Roots[t]
  \/ InScript(t) /\ name \in Raises[Top(t).sig] /\ Top(t).raised < MaxRaises

(* The caller's side of M.signal: the call is counted.                     *)
Counted(t) ==
  IF Idle(t) THEN stack[t] ELSE [stack[t] EXCEPT ![Depth(t)].raised = @ + 1]

(* Mutant: mink_stdd is written before the mutex is taken.                 *)
RaiseSignal_PublishesEarly(t, s) ==
  /\ MayRaise(t, s)
  /\ Depth(t) < MaxDepth
  /\ stack' = [stack EXCEPT ![t] =
                 Append(Counted(t), [sig |-> s, at |-> "lock", raised |-> 0])]
  /\ stdd' = [stdd EXCEPT ![s] = <<t, Depth(t) + 1>>]
  /\ UNCHANGED <<owner, running, reply>>

(* HASH_FIND_STR finds the handler: its run method is entered.             *)
RaiseSignal(t, s) ==
  /\ MayRaise(t, s)
  /\ Depth(t) < MaxDepth
  /\ stack' = [stack EXCEPT ![t] =
                 Append(Counted(t), [sig |-> s, at |-> "lock", raised |-> 0])]
  /\ UNCHANGED <<owner, running, stdd, reply>>

(* No such signal: umplg_proc_signal returns 1 and the caller sees "".     *)
RaiseUnknown(t, name) ==
  /\ name \notin Signals
  /\ MayRaise(t, name)
  /\ stack' = [stack EXCEPT ![t] = Counted(t)]
  /\ reply' = [reply EXCEPT ![t] = ""]
  /\ UNCHANGED <<owner, running, stdd>>

(* The first activation: lock, push the chunk, publish d_in to get_args    *)
(* and start the script.                                                   *)
Enter(t, s) ==
  /\ AtLock(t, s)
  /\ CanLock(t, s)
  /\ ~running[s]
  /\ ChunkOnTop(s)
  /\ owner' = [owner EXCEPT ![s] = t]
  /\ running' = [running EXCEPT ![s] = TRUE]
  /\ stdd' = [stdd EXCEPT ![s] = <<t, Depth(t)>>]
  /\ stack' = [stack EXCEPT ![t][Depth(t)].at = "script"]
  /\ UNCHANGED reply

(* The call is recognised as recursive: the flag is cleared, the message   *)
(* is the output and the mutex is unlocked as often as it was locked.      *)
PreventRecursion(t, s) ==
  /\ AtLock(t, s)
  /\ CanLock(t, s)
  /\ running[s]
  /\ running' = FlagCleared(s)
  /\ stack' = [stack EXCEPT ![t] = Pop(t)]
  /\ reply' = [reply EXCEPT ![t] = "prevented"]
  /\ owner' = NestedUnlocked(s)
  /\ UNCHANGED stdd

(* A recursive call after the flag was cleared: lua_pushvalue copies the   *)
(* argument of M.signal instead of the chunk and lua_pcall fails to call   *)
(* it.  The data was published before that, and the flag is cleared again. *)
FailRecursion(t, s) ==
  /\ AtLock(t, s)
  /\ CanLock(t, s)
  /\ ~running[s]
  /\ ~ChunkOnTop(s)
  /\ running' = FlagCleared(s)
  /\ stdd' = [stdd EXCEPT ![s] = <<t, Depth(t)>>]
  /\ stack' = [stack EXCEPT ![t] = Pop(t)]
  /\ reply' = [reply EXCEPT ![t] = "error"]
  /\ owner' = NestedUnlocked(s)

(* lua_pcall returns: the result is copied to d_out, the flag cleared, the *)
(* mutex unlocked and d_in freed by the caller.                            *)
Finish(t, result) ==
  /\ InScript(t)
  /\ running' = FlagCleared(Top(t).sig)
  /\ owner' = Unlocked(Top(t).sig, result)
  /\ stack' = [stack EXCEPT ![t] = Pop(t)]
  /\ reply' = [reply EXCEPT ![t] = Output(result)]
  /\ UNCHANGED stdd

Names(t) == Roots[t] \cup UNION {Raises[s] : s \in Signals}

Step(t) ==
  \/ \E s \in Signals :
       \/ RaiseSignal(t, s)
       \/ Enter(t, s)
       \/ PreventRecursion(t, s)
       \/ FailRecursion(t, s)
  \/ \E name \in Names(t) : RaiseUnknown(t, name)
  \/ \E result \in Results : Finish(t, result)

Next == \E t \in Threads : Step(t)

(* A thread inside a call goes on whenever it can: nothing obliges a       *)
(* thread's own script to raise a signal.  A thread that waits for a mutex *)
(* gets it if the mutex becomes free again and again.                      *)
Fairness == \A t \in Threads : SF_vars(~Idle(t) /\ Step(t))

Spec == Init /\ [][Next]_vars /\ Fairness

-----------------------------------------------------------------------------
TypeOK ==
  /\ stack \in [Threads -> Seq(Frame)]
  /\ owner \in [Signals -> Threads \cup {None}]
  /\ running \in [Signals -> BOOLEAN]
  /\ stdd \in [Signals -> Data \cup {NoData}]
  /\ reply \in [Threads -> Replies]

(* Thread t executes the script of s in its i-th nested call.              *)
Executes(t, i, s) ==
  /\ i \in 1..Depth(t)
  /\ stack[t][i].sig = s
  /\ stack[t][i].at = "script"

(* A lua_State is not thread-safe: no two activations of the script of one *)
(* handler ever exist at a time, neither on two threads nor nested on one, *)
(* whatever signals the scripts raise.                                     *)
ExclusiveState ==
  \A s \in Signals : \A t, u \in Threads :
    \A i \in 1..Depth(t) : \A j \in 1..Depth(u) :
      Executes(t, i, s) /\ Executes(u, j, s) => t = u /\ i = j

(* The mutex of a handler is held exactly by the thread that executes its  *)
(* script: no path through lua_sig_hndlr_run leaves it locked or releases  *)
(* it early.                                                               *)
MutexHeldByScript ==
  \A s \in Signals : \A t \in Threads :
    owner[s] = t <=> \E i \in 1..Depth(t) : Executes(t, i, s)

(* The handlers do not call themselves, directly or through each other.    *)
Ranks(rank) ==
  \A s \in Signals : \A u \in Raises[s] \cap Signals : rank[u] < rank[s]

Acyclic == \E rank \in [Signals -> Nat] : Ranks(rank)

(* M.get_args in the script of a handler reads the data its own caller     *)
(* passed: mink_stdd never points to another call's data, nor to data of a *)
(* call that has returned.  It takes handlers that are Acyclic.            *)
OwnArguments ==
  \A t \in Threads : \A i \in 1..Depth(t) :
    stack[t][i].at = "script" => stdd[stack[t][i].sig] = <<t, i>>

(* A call is refused as recursive only when the calling thread is inside   *)
(* the handler: threads that merely compete for it wait, and a flag left   *)
(* set by an earlier call never refuses a fresh one.                       *)
PreventedOnlyIfRecursive ==
  [][\A t \in Threads : \A s \in Signals :
       AtLock(t, s) /\ Len(stack'[t]) < Depth(t) /\ reply'[t] = "prevented"
         => owner[s] = t]_vars

(* What the comment "recursion prevention" promises: a call to a handler   *)
(* the thread is already inside gives the recursion error.                 *)
RecursionPrevented ==
  [][\A t \in Threads : \A s \in Signals :
       AtLock(t, s) /\ owner[s] = t /\ Len(stack'[t]) < Depth(t)
         => reply'[t] = "prevented"]_vars

(* Every call to a handler returns, however the threads interleave.        *)
CallsReturn == \A t \in Threads : (~Idle(t)) ~> Idle(t)

-----------------------------------------------------------------------------
(* The handlers as monitors.  A call waits at the lock, and is served from *)
(* the lock to the unlock with the data that get_args reads.               *)
Waiting(s) ==
  {d \in Data : /\ d[2] <= Depth(d[1])
                /\ stack[d[1]][d[2]].sig = s
                /\ stack[d[1]][d[2]].at = "lock"}

Serving(s) == IF owner[s] = None THEN NoData ELSE stdd[s]

Monitor == INSTANCE SignalMonitor
  WITH waiting <- [s \in Signals |-> Waiting(s)],
       serving <- [s \in Signals |-> Serving(s)]

(* The calls to handlers that do not call themselves look to the scripts   *)
(* like calls to monitors: served one at a time, each with its own data.   *)
ImplementsMonitor == Monitor!Spec
=============================================================================
