---------------------------- MODULE MqttCommands ----------------------------
(***************************************************************************)
(* Scripts that publish: M.cmd_call from the arguments in Lua, through the *)
(* names of commands, the hooks and run_local of the MQTT plugin, to the   *)
(* client library and back, while the main thread configures, uses and     *)
(* destroys the connections of MqttConns.  Scripts run in environments and *)
(* in the callback of a message that was received.                         *)
(*                                                                         *)
(* umplg_free_mngr frees the hooks before it calls terminate, but a call   *)
(* may have passed them before.  The main thread holds the mutex of the    *)
(* connections for as long as it destroys them ("stop"), and frees the     *)
(* mutex afterwards ("done").                                              *)
(***************************************************************************)
EXTENDS MqttConns, StandardData

CONSTANTS
  Threads,   \* threads of environments, which run scripts
  Calls,     \* the arguments of M.cmd_call that scripts use: sequences of Lua values
  RxCalls    \* those that the scripts of callbacks use

(* Who runs scripts: a connection stands for the thread of the client      *)
(* library that its callback runs on.                                      *)
Callers == Threads \cup Ids

ASSUME CallsAssumption ==
  /\ \A args \in Calls :
       /\ Len(args) \in Nat
       /\ \A i \in 1..Len(args) : args[i][1] \in {"string", "number", "boolean", "other"}
  /\ RxCalls \subseteq Calls
  /\ Threads \cap Ids = {}

VARIABLES
  hooks,     \* the commands have their hooks
  call,      \* call[t]: the call of M.cmd_call that t is in, or its outcome
  sent       \* what was last given to the client library, and by whom

commands == <<hooks, call, sent>>

-----------------------------------------------------------------------------
(* The commands that umplg_new_mngr gives a name, and those of them that   *)
(* have a hook: one is a command of this plugin, one of the Lua plugin.    *)
CommandIds == [UNKNWON_COMMAND |-> 0, CMD_MQTT_PUBLISH |-> 35, CMD_LUA_CALL |-> 36]
Hooks == {35, 36}

(* Mutant: the command of the Lua plugin has no hook.                      *)
Hooked_Publish(args) ==
  /\ args # <<>> /\ Command(args) = <<"CMD_MQTT_PUBLISH">>
  /\ hooks

Hooked(args) ==
  /\ args # <<>>
  /\ \E name \in DOMAIN CommandIds :
       Command(args) = <<name>> /\ CommandIds[name] \in Hooks
  /\ hooks

(* What run_local of the MQTT plugin publishes.  That of the Lua plugin    *)
(* does nothing.                                                           *)
Publishes(args) == Command(args) = <<"CMD_MQTT_PUBLISH">> /\ Publishable(ArgRows(args))

(* The outcome of a call that returns no table, and of one that uses what  *)
(* has been freed.                                                         *)
Nothing == [kind |-> "nothing", table |-> <<>>]
Undefined == [kind |-> "undefined", table |-> <<>>]

(* umplg_run has returned 0: the rows it was given are the answer.         *)
Answer(rows) == [kind |-> "table", table |-> ToTable(rows)]

Unsent == [by |-> 0, conn |-> 0, topic |-> <<>>, payload |-> <<>>, retain |-> FALSE]
NoCall == [pc |-> "idle", args |-> <<>>, conn |-> 0, answer |-> Nothing]

InitCommands ==
  /\ Init
  /\ hooks = TRUE
  /\ call = [t \in Callers |-> NoCall]
  /\ sent = Unsent

(* Mutant: the connection is remembered.                                   *)
Ends_Remembers(t, answer) == call' = [call EXCEPT ![t].pc = "idle", ![t].answer = answer]

(* The end of a call.                                                      *)
Ends(t, answer) ==
  call' = [call EXCEPT ![t].pc = "idle", ![t].conn = 0, ![t].answer = answer]

(* umplg_free_mngr frees the hooks.                                        *)
FreeHooks ==
  /\ pc = "loop"
  /\ hooks
  /\ hooks' = FALSE
  /\ UNCHANGED <<vars, call, sent>>

(* The call is over at once without a command that has a hook.  A command  *)
(* of the Lua plugin, and one with too few rows, does nothing, but         *)
(* run_local succeeds.  Else the connection is looked up.                  *)
CmdCall(t, args) ==
  LET begun == [NoCall EXCEPT !.args = args]
  IN /\ call[t].pc = "idle"
     /\ pc # "done"
     /\ t \in Ids => callback[t] = "script" /\ args \in RxCalls
     /\ call' = [call EXCEPT ![t] =
          CASE ~Hooked(args) -> begun
            [] Hooked(args) /\ ~Publishes(args) -> [begun EXCEPT !.answer = Answer(ArgRows(args))]
            [] Hooked(args) /\ Publishes(args) -> [begun EXCEPT !.pc = "find"]]
     /\ UNCHANGED <<vars, hooks, sent>>

(* Mutant: the mutex is not released by terminate.                         *)
MutexFree_Never == pc \notin {"stop", "done"}

(* main holds the mutex while it destroys the connections.                 *)
MutexFree == pc # "stop"

(* Mutant: the last connection is taken.                                   *)
Labelled_Last(name) == {conns[i] : i \in {Len(conns)} \ {0}}

(* The connections with this name.                                         *)
Labelled(name) == {c \in Listed : <<Name(c)>> = name}

(* mqtt_mngr_get_conn.                                                     *)
GetConn(t) ==
  LET rows == ArgRows(call[t].args)
      found == Labelled(Request(rows).name)
  IN /\ call[t].pc = "find"
     /\ MutexFree
     /\ CASE pc = "done" -> Ends(t, Undefined)
          [] pc # "done" /\ found = {} -> Ends(t, Answer(rows))
          [] pc # "done" /\ found # {} ->
               \E c \in found : call' = [call EXCEPT ![t].pc = "send", ![t].conn = c]
     /\ UNCHANGED <<vars, hooks, sent>>

(* mqtt_conn_pub, on a connection that may have been destroyed since it    *)
(* was looked up.  The client takes a message only if it is connected; the *)
(* script is not told.                                                     *)
Publish(t) ==
  LET rows == ArgRows(call[t].args)
      request == Request(rows)
      c == call[t].conn
  IN /\ call[t].pc = "send"
     /\ IF c \in freed
          THEN Ends(t, Undefined) /\ UNCHANGED sent
          ELSE /\ Ends(t, Answer(rows))
               /\ sent' = IF link[c] = "up"
                            THEN [by |-> t, conn |-> c, topic |-> request.topic,
                                  payload |-> request.payload, retain |-> request.retain]
                            ELSE sent
     /\ UNCHANGED <<vars, hooks>>

Script(t) == GetConn(t) \/ Publish(t) \/ \E args \in Calls : CmdCall(t, args)

(* The script of a callback is not in a call when it ends.                 *)
RxEnds(c) ==
  /\ call[c].pc = "idle"
  /\ RxReturns(c)
  /\ call' = [call EXCEPT ![c] = NoCall]
  /\ UNCHANGED <<hooks, sent>>

(* terminate is called when the hooks are freed.                           *)
NextCommands ==
  \/ (pc = "loop" => ~hooks) /\ Main /\ UNCHANGED commands
  \/ FreeHooks
  \/ \E c \in Ids : (Client(c) /\ UNCHANGED commands) \/ RxEnds(c)
  \/ \E t \in Callers : Script(t)
  \/ Finished /\ UNCHANGED commands

(* A thread that is in a call goes on; a mutex that is released for good   *)
(* gets to it.  Scripts end, however many calls they make.  If             *)
(* MQTTAsync_destroy waits for callbacks, no succession of them holds it   *)
(* up for ever.                                                            *)
SpecCommands ==
  /\ InitCommands /\ [][NextCommands]_<<vars, commands>> /\ Fairness
  /\ SF_vars(Destroy)
  /\ \A t \in Callers : WF_<<vars, commands>>(GetConn(t) \/ Publish(t))
  /\ \A c \in Ids : WF_vars(OnRx(c)) /\ SF_<<vars, commands>>(RxEnds(c))

-----------------------------------------------------------------------------
TypeOKCommands ==
  /\ TypeOK
  /\ hooks \in BOOLEAN
  /\ \A t \in Callers :
       /\ call[t].pc \in {"idle", "find", "send"}
       /\ call[t].args \in Calls \cup {<<>>}
       /\ call[t].conn \in Ids <=> call[t].pc = "send"
  /\ sent.by \in Callers \cup {0}
  /\ sent.conn \in Ids \cup {0}
  /\ sent.retain \in BOOLEAN

(* What a script asks for, said once for its Lua values: the second value  *)
(* names the connection, which is the first one the configuration gives    *)
(* that name, however many others were refused; topic and payload are the  *)
(* texts of the third and the fourth up to a first Nul.                    *)
Asked(args, message) ==
  /\ message.topic = ToText(args[3])
  /\ message.payload = ToText(args[4])
  /\ message.retain <=> Len(args) >= 5 /\ IsSet(ToText(args[5]))
  /\ message.conn \in Elements
  /\ <<Name(message.conn)>> = ToText(args[2])
  /\ \A c \in Taken : c < message.conn => Name(c) # Name(message.conn)

(* Whatever is handed to the client library was asked for by the call that *)
(* its caller is in at that time.                                          *)
PublishedAsAsked ==
  [][sent' # sent => call[sent'.by].pc = "send" /\ Asked(call[sent'.by].args, sent')]_<<vars, commands>>

(* A script cannot tell from the answer what became of its command: when   *)
(* there is one it gets its own arguments back as text, one row each.  As  *)
(* long as there are hooks, a command that some plugin has is answered so, *)
(* be it only the Lua plugin, which does nothing about it.                 *)
AnswerIsEcho ==
  \A t \in Callers :
    LET args == call[t].args
        answer == call[t].answer
    IN /\ answer.kind = "table" =>
            /\ Len(answer.table) = Len(args) - 1
            /\ \A i \in 2..Len(args) : answer.table[i - 1] = [key \in {"1"} |-> ToText(args[i])]
       /\ call[t].pc = "idle" /\ args # <<>> /\ hooks =>
            (answer.kind = "table" <=>
               Command(args) \in {<<"CMD_MQTT_PUBLISH">>, <<"CMD_LUA_CALL">>})

(* main waits in MQTTAsync_destroy, with the mutex held, for a callback    *)
(* whose script waits for the mutex.                                       *)
Deadlocked ==
  \E c \in Ids :
    /\ pc = "stop" /\ next \in 1..Len(conns) /\ conns[next] = c
    /\ DestroyWaits /\ callback[c] = "script" /\ call[c].pc = "find"

(* A call that has begun ends, whatever main does meanwhile, unless main   *)
(* and a callback wait for each other.  It uses what is freed only if main *)
(* has begun to destroy the connections.                                   *)
CallsEnd ==
  \A t \in Callers :
    call[t].pc # "idle" ~>
      \/ call[t].pc = "idle" /\ (call[t].answer.kind = "undefined" => pc \in {"stop", "done"})
      \/ Deadlocked
=============================================================================
