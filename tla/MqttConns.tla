----------------------------- MODULE MqttConns ------------------------------
(***************************************************************************)
(* The connections of the MQTT plugin: process_cfg adds and connects them  *)
(* one after another, the client library runs the callbacks on threads of  *)
(* its own meanwhile, terminate destroys them.                             *)
(*                                                                         *)
(* The client library (MQTTAsync) is external.  It is modelled from the    *)
(* options the plugin gives it: a clean session loses its subscriptions    *)
(* with the connection, a connection that was up once reconnects, and the  *)
(* connected callback is called if it is set when the connection comes up. *)
(* A connection has at most one callback at a time.                        *)
(***************************************************************************)
EXTENDS Naturals, Sequences, FiniteSets

CONSTANTS
  Configs,      \* the plugin's sections: sequences of connections
  MaxConns,     \* bound: elements of the "connections" array
  Topics,       \* topics, the strings among the elements of "subscriptions"
  Object,       \* an element of "subscriptions" that is an object
  Other,        \* an element of "subscriptions" that is neither
  DestroyWaits  \* TRUE: MQTTAsync_destroy waits for callbacks that run

(* An element is [shape, name, subs]: shape tells which check it fails.    *)
(* What is no object has no values, so it misses them all.                 *)
ASSUME ConfigsAssumption ==
  /\ MaxConns \in Nat
  /\ \A c \in Configs :
       /\ Len(c) \in 0..MaxConns
       /\ \A k \in 1..Len(c) : c[k].shape \in {"good", "missing", "wrong_type"}
  /\ Object \notin Topics /\ Other \notin Topics
  /\ DestroyWaits \in BOOLEAN

VARIABLES
  cfg,         \* the "connections" array
  pc,          \* main thread: "config", "connected", "loop", "stop", "done"
  next,        \* the next element to process, or connection to destroy
  v,           \* kind of the JSON value that the variable v points to
  ret,         \* what process_cfg returned
  conns,       \* mqtt_mngr->conns, in the order of the hash table
  freed,       \* connections destroyed by mqtt_mngr_del_conn
  link,        \* link[c]: state of the client of c
  hasCallback, \* hasCallback[c]: MQTTAsync_setConnected was called
  callback,    \* callback[c]: "none", mqtt_on_connect ("connect"), or mqtt_on_rx before
               \* ("rx") and after it has read conn->pm to raise its signal ("script")
  subscribed,  \* subscribed[c]: the topics the broker delivers to c
  refused,     \* refused[c]: the topics whose subscription failed since c came up
  cameUp       \* cameUp[c]: "never", or before ("early") or after ("late") the callback was set

main == <<cfg, pc, next, v, ret, conns, freed, hasCallback>>
client == <<link, callback, subscribed, refused, cameUp>>
vars == <<main, client>>

-----------------------------------------------------------------------------
Ids == 1..MaxConns
Elements == 1..Len(cfg)
Name(c) == cfg[c].name
Listed == {conns[i] : i \in 1..Len(conns)}

(* Only strings are topics.                                                *)
TopicsOf(c) == {cfg[c].subs[i] : i \in 1..Len(cfg[c].subs)} \cap Topics

Kind(sub) == IF sub = Object THEN "object" ELSE "no_object"

(* The loop over the subscriptions leaves v at the last of them.           *)
AfterSubscriptions(c) ==
  IF cfg[c].subs = <<>> THEN v ELSE Kind(cfg[c].subs[Len(cfg[c].subs)])

(* Mutant: a label may be taken.                                           *)
Duplicate_Never(c) == FALSE

(* mqtt_mngr_add_conn refuses a label that is in the list.                 *)
Duplicate(c) == \E d \in Listed : Name(d) = Name(c)

Init ==
  /\ cfg \in Configs
  /\ pc = "config"
  /\ next = 1
  /\ v = "object"
  /\ ret = 0
  /\ conns = <<>>
  /\ freed = {}
  /\ link = [c \in Ids |-> "none"]
  /\ hasCallback = [c \in Ids |-> FALSE]
  /\ callback = [c \in Ids |-> "none"]
  /\ subscribed = [c \in Ids |-> {}]
  /\ refused = [c \in Ids |-> {}]
  /\ cameUp = [c \in Ids |-> "never"]

(* The checks of an element; the first one looks at v, which is the        *)
(* plugin's section at first.                                              *)
RejectCode(c) ==
  CASE v # "object" -> 4
    [] v = "object" /\ cfg[c].shape = "missing" -> 5
    [] v = "object" /\ cfg[c].shape = "wrong_type" -> 6
    [] v = "object" /\ cfg[c].shape = "good" -> 0

Reject ==
  /\ pc = "config"
  /\ next \in Elements
  /\ RejectCode(next) # 0
  /\ ret' = RejectCode(next)
  /\ pc' = "loop"
  /\ UNCHANGED <<cfg, next, v, conns, freed, hasCallback, client>>

SkipDuplicate ==
  /\ pc = "config"
  /\ next \in Elements
  /\ RejectCode(next) = 0
  /\ Duplicate(next)
  /\ next' = next + 1
  /\ UNCHANGED <<cfg, pc, v, ret, conns, freed, hasCallback, client>>

(* Create, add to the list, collect the topics and connect.  The client    *)
(* works on the connection from here on.                                   *)
Connect ==
  /\ pc = "config"
  /\ next \in Elements
  /\ RejectCode(next) = 0
  /\ ~Duplicate(next)
  /\ conns' = Append(conns, next)
  /\ v' = AfterSubscriptions(next)
  /\ link' = [link EXCEPT ![next] = "connecting"]
  /\ pc' = "connected"
  /\ UNCHANGED <<cfg, next, ret, freed, hasCallback, callback, subscribed, refused, cameUp>>

(* MQTTAsync_create, _setCallbacks or _connect fails: the connection stays *)
(* in the list.                                                            *)
ConnectFails ==
  /\ pc = "config"
  /\ next \in Elements
  /\ RejectCode(next) = 0
  /\ ~Duplicate(next)
  /\ conns' = Append(conns, next)
  /\ v' = AfterSubscriptions(next)
  /\ next' = next + 1
  /\ UNCHANGED <<cfg, pc, ret, freed, hasCallback, client>>

(* MQTTAsync_setConnected, after MQTTAsync_connect has returned.           *)
SetConnected ==
  /\ pc = "connected"
  /\ hasCallback' = [hasCallback EXCEPT ![next] = TRUE]
  /\ pc' = "config"
  /\ next' = next + 1
  /\ UNCHANGED <<cfg, v, ret, conns, freed, client>>

ConfigDone ==
  /\ pc = "config"
  /\ next = Len(cfg) + 1
  /\ pc' = "loop"
  /\ UNCHANGED <<cfg, next, v, ret, conns, freed, hasCallback, client>>

(* umplg_free_mngr calls terminate.                                        *)
Terminate ==
  /\ pc = "loop"
  /\ pc' = "stop"
  /\ next' = 1
  /\ UNCHANGED <<cfg, v, ret, conns, freed, hasCallback, client>>

(* MQTTAsync_destroy, then the descriptor is freed.  What the library does *)
(* about a callback that is running is not known from the sources.         *)
Destroy ==
  /\ pc = "stop"
  /\ next \in 1..Len(conns)
  /\ LET c == conns[next] IN
       /\ DestroyWaits => callback[c] = "none"
       /\ link' = [link EXCEPT ![c] = "none"]
       /\ subscribed' = [subscribed EXCEPT ![c] = {}]
       /\ freed' = freed \cup {c}
  /\ next' = next + 1
  /\ UNCHANGED <<cfg, pc, v, ret, conns, hasCallback, callback, refused, cameUp>>

DestroyDone ==
  /\ pc = "stop"
  /\ next = Len(conns) + 1
  /\ pc' = "done"
  /\ UNCHANGED <<cfg, next, v, ret, conns, freed, hasCallback, client>>

Main ==
  \/ Reject \/ SkipDuplicate \/ Connect \/ ConnectFails \/ SetConnected
  \/ ConfigDone \/ Terminate \/ Destroy \/ DestroyDone

-----------------------------------------------------------------------------
(* The client library's threads.                                           *)

(* The broker accepts the connection.                                      *)
ComesUp(c) ==
  /\ link[c] = "connecting"
  /\ callback[c] = "none"
  /\ link' = [link EXCEPT ![c] = "up"]
  /\ callback' = [callback EXCEPT ![c] = IF hasCallback[c] THEN "connect" ELSE "none"]
  /\ refused' = [refused EXCEPT ![c] = {}]
  /\ cameUp' = [cameUp EXCEPT ![c] = IF hasCallback[c] THEN "late" ELSE "early"]
  /\ UNCHANGED <<subscribed, main>>

(* The first attempt fails for good, later ones are retried.               *)
FailsToConnect(c) ==
  /\ link[c] = "connecting"
  /\ cameUp[c] = "never"
  /\ link' = [link EXCEPT ![c] = "failed"]
  /\ UNCHANGED <<callback, subscribed, refused, cameUp, main>>

IsLost(c) ==
  /\ link[c] = "up"
  /\ link' = [link EXCEPT ![c] = "connecting"]
  /\ subscribed' = [subscribed EXCEPT ![c] = {}]
  /\ UNCHANGED <<callback, refused, cameUp, main>>

(* The topics MQTTAsync_subscribe may fail for, each on its own; for all   *)
(* of them if the connection was lost again.                               *)
Failures(c) == IF link[c] = "up" THEN SUBSET TopicsOf(c) ELSE {TopicsOf(c)}

(* Mutant: the first subscription that fails ends the loop.                *)
OnConnect_GivesUp(c) ==
  /\ callback[c] = "connect"
  /\ callback' = [callback EXCEPT ![c] = "none"]
  /\ \E failed \in Failures(c) : \E skipped \in SUBSET (TopicsOf(c) \ failed) :
       /\ failed = {} => skipped = {}
       /\ subscribed' = [subscribed EXCEPT ![c] = TopicsOf(c) \ (failed \cup skipped)]
       /\ refused' = [refused EXCEPT ![c] = failed]
  /\ UNCHANGED <<link, cameUp, main>>

(* mqtt_on_connect: subscribe to every topic, whatever became of the       *)
(* others.  Nobody looks at the results, no failure is tried again.        *)
OnConnect(c) ==
  /\ callback[c] = "connect"
  /\ callback' = [callback EXCEPT ![c] = "none"]
  /\ \E failed \in Failures(c) :
       /\ subscribed' = [subscribed EXCEPT ![c] = TopicsOf(c) \ failed]
       /\ refused' = [refused EXCEPT ![c] = failed]
  /\ UNCHANGED <<link, cameUp, main>>

CallbackGoes(c, from, to) ==
  /\ callback[c] = from
  /\ callback' = [callback EXCEPT ![c] = to]
  /\ UNCHANGED <<link, subscribed, refused, cameUp, main>>

(* A message of a topic that c is subscribed to arrives.                   *)
Receive(c) ==
  /\ link[c] = "up"
  /\ subscribed[c] # {}
  /\ CallbackGoes(c, "none", "rx")

(* mqtt_on_rx takes the plugin manager from the descriptor and raises its  *)
(* signal, whose handler is a script.  It does not use the descriptor any  *)
(* more when that returns.                                                 *)
OnRx(c) == CallbackGoes(c, "rx", "script")

RxReturns(c) == CallbackGoes(c, "script", "none")

Client(c) ==
  ComesUp(c) \/ FailsToConnect(c) \/ IsLost(c) \/ OnConnect(c) \/ Receive(c) \/ OnRx(c)

Finished ==
  /\ pc = "done"
  /\ UNCHANGED vars

Next == Main \/ (\E c \in Ids : Client(c) \/ RxReturns(c)) \/ Finished

(* The main thread runs while it configures and while it stops, and        *)
(* mqtt_on_connect is scheduled; the script that mqtt_on_rx starts may     *)
(* take for ever.  A broker need not accept, nor drop, a connection.       *)
Fairness ==
  /\ WF_vars(Main /\ pc # "loop")
  /\ \A c \in Ids : WF_vars(OnConnect(c))

Spec == Init /\ [][Next]_vars /\ Fairness

-----------------------------------------------------------------------------
TypeOK ==
  /\ cfg \in Configs
  /\ pc \in {"config", "connected", "loop", "stop", "done"}
  /\ next \in 1..(MaxConns + 1)
  /\ v \in {"object", "no_object"}
  /\ ret \in {0, 4, 5, 6}
  /\ conns \in Seq(Ids)
  /\ freed \subseteq Ids
  /\ link \in [Ids -> {"none", "connecting", "up", "failed"}]
  /\ hasCallback \in [Ids -> BOOLEAN]
  /\ callback \in [Ids -> {"none", "connect", "rx", "script"}]
  /\ subscribed \in [Ids -> SUBSET Topics]
  /\ refused \in [Ids -> SUBSET Topics]
  /\ cameUp \in [Ids -> {"never", "early", "late"}]

(* Every well-formed connection of a well-formed configuration is added:   *)
(* the comment "check env object type" says what the first check is for.   *)
EveryConnectionAdded ==
  pc = "loop" /\ (\A c \in Elements : cfg[c].shape = "good") =>
    {Name(c) : c \in Listed} = {Name(c) : c \in Elements}

(* What the configuration means.  Elements are taken until one is          *)
(* malformed, or comes after one whose last subscription is not an object. *)
(* Each name stands for the first of them.                                 *)
Blocks(c) ==
  /\ \A d \in 1..(c - 1) : Name(d) # Name(c)
  /\ cfg[c].subs # <<>>
  /\ cfg[c].subs[Len(cfg[c].subs)] # Object

Taken ==
  {c \in Elements :
     /\ \A d \in 1..c : cfg[d].shape = "good"
     /\ \A d \in 1..(c - 1) : ~Blocks(d)}

ConfigMeaning ==
  pc \in {"loop", "stop", "done"} =>
    /\ Listed = {c \in Taken : \A d \in Taken : d < c => Name(d) # Name(c)}
    /\ ret = 0 <=> Taken = Elements

(* A connection that comes up once the callback is set, be it for the      *)
(* first time or again, is subscribed to all its topics but those whose    *)
(* own subscription failed, unless it is lost or destroyed.                *)
LateConnectSubscribes ==
  \A c \in Ids :
    (link[c] = "up" /\ cameUp[c] = "late")
      ~> (link[c] # "up" \/ subscribed[c] = TopicsOf(c) \ refused[c])
=============================================================================
