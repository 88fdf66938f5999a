------------------------- MODULE MqttCommandsProofs --------------------------
(***************************************************************************)
(* Proofs about MqttConns and MqttCommands, for any configurations of any  *)
(* number of connections, any number of threads and any calls that their   *)
(* scripts make.                                                           *)
(***************************************************************************)
EXTENDS MqttCommands, TLAPS

-----------------------------------------------------------------------------
(* How many elements of the configuration process_cfg is through with.     *)
Passed == IF pc = "connected" THEN next ELSE next - 1

FirstOfName(c) == \A d \in 1..(c - 1) : Name(d) # Name(c)

(* While it is configured: every element that was passed is well-formed    *)
(* and none but the last blocks the next one, which is what v tells; the   *)
(* first of each name is in the list.                                      *)
Scan ==
  /\ pc = "config" => next \in 1..Len(cfg) + 1
  /\ pc = "connected" => next \in 1..Len(cfg)
  /\ pc \in {"config", "connected"} =>
       /\ ret = 0
       /\ \A c \in 1..Passed : cfg[c].shape = "good"
       /\ \A c \in 1..Passed - 1 : ~Blocks(c)
       /\ v # "object" <=> Passed # 0 /\ Blocks(Passed)
       /\ Listed = {c \in 1..Passed : FirstOfName(c)}
       /\ \A c \in 1..Passed : \E d \in Listed : Name(d) = Name(c)
       /\ Len(conns) <= Passed

(* The list holds the first element of a name, at any time.                *)
ListedFirst ==
  /\ Listed \subseteq Elements
  /\ \A c \in Listed : FirstOfName(c)
  /\ Len(conns) <= MaxConns

(* Connections are destroyed by terminate only, and have no client then.   *)
Destroyed ==
  /\ pc \in {"config", "connected", "loop"} => freed = {}
  /\ \A c \in freed : link[c] = "none" /\ subscribed[c] = {}

ConnsInv == TypeOK /\ Scan /\ ListedFirst /\ Destroyed /\ ConfigMeaning

-----------------------------------------------------------------------------
(* A call under way has all the values that a message needs, and a         *)
(* connection that it found is in the list under the name it asked for.    *)
Answers == {Nothing, Undefined} \cup {Answer(ArgRows(args)) : args \in Calls}

CallOf(t) ==
  /\ call[t] \in [pc : {"idle", "find", "send"}, args : Calls \cup {<<>>},
                  conn : Ids \cup {0}, answer : Answers]
  /\ call[t].conn \in Ids <=> call[t].pc = "send"
  /\ call[t].pc # "idle" => Publishable(ArgRows(call[t].args)) /\ call[t].args \in Calls
  /\ call[t].pc = "send" => call[t].conn \in Labelled(Request(ArgRows(call[t].args)).name)
  /\ call[t].answer.kind = "table" =>
       call[t].args \in Calls /\ call[t].args # <<>> /\ call[t].answer = Answer(ArgRows(call[t].args))

CallsInv ==
  /\ call = [t \in Callers |-> call[t]]
  /\ \A t \in Callers : CallOf(t)
  /\ sent.by \in Callers \cup {0} /\ sent.conn \in Ids \cup {0} /\ sent.retain \in BOOLEAN

(* What a command that some plugin has is.                                 *)
IsCommand(args) == Command(args) \in {<<"CMD_MQTT_PUBLISH">>, <<"CMD_LUA_CALL">>}

(* As long as there are hooks, terminate has not been called, so that a    *)
(* call is answered as soon as it is over, if it has a command.            *)
HooksInv ==
  /\ hooks \in BOOLEAN
  /\ hooks => pc \notin {"stop", "done"}
  /\ \A t \in Callers : hooks =>
       /\ call[t].pc # "idle" => IsCommand(call[t].args)
       /\ call[t].pc = "idle" /\ call[t].args # <<>> =>
            (call[t].answer.kind = "table" <=> IsCommand(call[t].args))

USE ConfigsAssumption

-----------------------------------------------------------------------------
(* The configuration does not change, nor what its elements say.           *)
LEMMA CfgConstant ==
  ASSUME [Next]_vars
  PROVE  /\ cfg' = cfg /\ Elements' = Elements
         /\ \A c : /\ Name(c)' = Name(c) /\ TopicsOf(c)' = TopicsOf(c)
                   /\ FirstOfName(c)' = FirstOfName(c) /\ Blocks(c)' = Blocks(c)
<1>1. cfg' = cfg
  BY DEF Next, vars, main, client, Main, Reject, SkipDuplicate, Connect, ConnectFails, SetConnected,
         ConfigDone, Terminate, Destroy, DestroyDone, Client, ComesUp, FailsToConnect, IsLost,
         OnConnect, Receive, OnRx, RxReturns, CallbackGoes, Finished
<1>2. \A c : Name(c)' = Name(c)
  BY <1>1 DEF Name
<1> QED
  BY <1>1, <1>2 DEF Elements, TopicsOf, FirstOfName, Blocks

(* What follows for the size of the configuration.                         *)
LEMMA CfgShape ==
  ASSUME TypeOK
  PROVE  /\ Len(cfg) \in 0..MaxConns /\ Len(cfg) \in Nat /\ MaxConns \in Nat
         /\ Elements = 1..Len(cfg) /\ Elements \subseteq Ids
         /\ \A c \in Elements : cfg[c].shape \in {"good", "missing", "wrong_type"}
<1>1. cfg \in Configs
  BY DEF TypeOK
<1> QED
  BY <1>1 DEF Elements, Ids

LEMMA AppendListed ==
  ASSUME conns \in Seq(Ids), NEW c \in Ids, conns' = Append(conns, c)
  PROVE  conns' \in Seq(Ids) /\ Len(conns') = Len(conns) + 1 /\ Listed' = Listed \cup {c}
<1>1. /\ conns' \in Seq(Ids) /\ Len(conns) \in Nat
      /\ Len(conns') = Len(conns) + 1
      /\ \A n \in 1..Len(conns) : conns'[n] = conns[n]
      /\ conns'[Len(conns) + 1] = c
  OBVIOUS
<1>2. \A n \in 1..Len(conns') : n \in 1..Len(conns) \/ n = Len(conns) + 1
  BY <1>1
<1>3. Len(conns) + 1 \in 1..Len(conns') /\ \A n \in 1..Len(conns) : n \in 1..Len(conns')
  BY <1>1
<1>4. Listed' = Listed \cup {c}
  BY <1>1, <1>2, <1>3 DEF Listed
<1> QED
  BY <1>1, <1>4

LEMMA InitConns == Init => ConnsInv
<1> SUFFICES ASSUME Init PROVE ConnsInv
  OBVIOUS
<1>1. TypeOK
  BY DEF Init, TypeOK
<1>2. Listed = {} /\ Len(conns) = 0 /\ Passed = 0
  BY DEF Init, Listed, Passed
<1>3. Scan
  BY <1>1, <1>2, CfgShape DEF Init, Scan
<1> QED
  BY <1>1, <1>2, <1>3, CfgShape DEF Init, ConnsInv, ListedFirst, Destroyed, ConfigMeaning

-----------------------------------------------------------------------------
(* The client library does not touch what main configures, and nothing     *)
(* happens to a connection whose client is gone.                           *)
LEMMA ClientSteps ==
  ASSUME TypeOK, NEW c \in Ids, Client(c) \/ RxReturns(c)
  PROVE  /\ UNCHANGED main /\ TypeOK'
         /\ \A d \in Ids \ {c} : link'[d] = link[d] /\ subscribed'[d] = subscribed[d]
         /\ link[c] = "none" => link'[c] = "none" /\ (subscribed'[c] \in {{}, subscribed[c]})
<1>1. CASE ComesUp(c)
  BY <1>1 DEF ComesUp, TypeOK, main
<1>2. CASE FailsToConnect(c)
  BY <1>2 DEF FailsToConnect, TypeOK, main
<1>3. CASE IsLost(c)
  BY <1>3 DEF IsLost, TypeOK, main
<1>4. CASE OnConnect(c)
  <2>1. TopicsOf(c) \subseteq Topics
    BY DEF TopicsOf
  <2>2. PICK failed \in Failures(c) :
          /\ subscribed' = [subscribed EXCEPT ![c] = TopicsOf(c) \ failed]
          /\ refused' = [refused EXCEPT ![c] = failed]
    BY <1>4 DEF OnConnect
  <2>3. failed \subseteq TopicsOf(c) /\ (link[c] # "up" => TopicsOf(c) \ failed = {})
    BY DEF Failures
  <2> QED
    BY <1>4, <2>1, <2>2, <2>3 DEF OnConnect, TypeOK, main
<1>5. CASE Receive(c) \/ OnRx(c) \/ RxReturns(c)
  BY <1>5 DEF Receive, OnRx, RxReturns, CallbackGoes, TypeOK, main
<1> QED
  BY <1>1, <1>2, <1>3, <1>4, <1>5 DEF Client

(* As long as main stands still, nothing it has configured changes.        *)
LEMMA MainStands ==
  ASSUME Scan, ListedFirst, ConfigMeaning, UNCHANGED main
  PROVE  Scan' /\ ListedFirst' /\ ConfigMeaning'
<1>1. UNCHANGED <<cfg, pc, next, v, ret, conns>>
  BY DEF main
<1>2. Listed' = Listed /\ Passed' = Passed /\ Elements' = Elements
  BY <1>1 DEF Listed, Passed, Elements
<1>3. \A c : Name(c)' = Name(c)
  BY <1>1 DEF Name
<1>4. \A c : FirstOfName(c)' = FirstOfName(c) /\ Blocks(c)' = Blocks(c)
  BY <1>1, <1>3 DEF FirstOfName, Blocks
<1>5. Taken' = Taken
  BY <1>1, <1>2, <1>4 DEF Taken
<1>6. Scan'
  BY <1>1, <1>2, <1>3, <1>4 DEF Scan
<1>7. ListedFirst'
  BY <1>1, <1>2, <1>4 DEF ListedFirst
<1>8. ConfigMeaning'
  BY <1>1, <1>2, <1>3, <1>5 DEF ConfigMeaning
<1> QED
  BY <1>6, <1>7, <1>8

-----------------------------------------------------------------------------
(* An element is a duplicate exactly if it is not the first of its name.   *)
LEMMA DuplicateIsLater ==
  ASSUME TypeOK, Scan, pc = "config", next \in Elements, RejectCode(next) = 0
  PROVE  /\ v = "object" /\ cfg[next].shape = "good"
         /\ ~Duplicate(next) <=> FirstOfName(next)
<1>1. /\ next \in 1..Len(cfg) /\ Len(cfg) \in Nat
      /\ cfg[next].shape \in {"good", "missing", "wrong_type"}
  BY CfgShape
<1>2. v = "object" /\ cfg[next].shape = "good"
  BY <1>1 DEF RejectCode, TypeOK
<1>3. Passed = next - 1
  BY DEF Passed
<1>4. Listed = {c \in 1..(next - 1) : FirstOfName(c)}
  BY <1>3 DEF Scan
<1>5. \A c \in 1..(next - 1) : \E d \in Listed : Name(d) = Name(c)
  BY <1>3 DEF Scan
<1>6. ASSUME FirstOfName(next) PROVE ~Duplicate(next)
  BY <1>4, <1>6 DEF Duplicate, FirstOfName
<1>7. ASSUME ~FirstOfName(next) PROVE Duplicate(next)
  BY <1>5, <1>7 DEF Duplicate, FirstOfName
<1> QED
  BY <1>2, <1>6, <1>7

(* One more element has been passed: it is in the list if it is the first  *)
(* of its name, and v tells whether it blocks.                             *)
LEMMA OneMore ==
  ASSUME TypeOK, Scan, [Next]_vars, pc = "config", next \in Elements, RejectCode(next) = 0,
         ret' = ret,
         \/ pc' = "config" /\ next' = next + 1
         \/ pc' = "connected" /\ next' = next,
         v' # "object" <=> Blocks(next),
         Listed' = Listed \cup (IF FirstOfName(next) THEN {next} ELSE {}),
         Len(conns') \in {Len(conns), Len(conns) + 1}
  PROVE  Scan'
<1>1. next \in 1..Len(cfg) /\ Len(cfg) \in Nat /\ next \in Nat
  BY CfgShape
<1>2. Passed = next - 1 /\ Passed' = next
  BY <1>1 DEF Passed
<1>3. cfg' = cfg /\ \A c : /\ Name(c)' = Name(c) /\ FirstOfName(c)' = FirstOfName(c)
                           /\ Blocks(c)' = Blocks(c)
  BY CfgConstant
<1>4. v = "object" /\ cfg[next].shape = "good"
  BY DuplicateIsLater
<1>5. /\ ret = 0
      /\ \A c \in 1..(next - 1) : cfg[c].shape = "good"
      /\ \A c \in 1..(next - 1) - 1 : ~Blocks(c)
      /\ ~(next - 1 # 0 /\ Blocks(next - 1))
      /\ Listed = {c \in 1..(next - 1) : FirstOfName(c)}
      /\ \A c \in 1..(next - 1) : \E d \in Listed : Name(d) = Name(c)
      /\ Len(conns) <= next - 1
  BY <1>2, <1>4 DEF Scan
<1>6. \A c \in 1..next : c \in 1..(next - 1) \/ c = next
  BY <1>1
<1>7. \A c \in 1..next : cfg[c].shape = "good"
  BY <1>4, <1>5, <1>6
<1>8. \A c \in 1..(next - 1) : c \in 1..(next - 1) - 1 \/ (c = next - 1 /\ next - 1 # 0)
  BY <1>1
<1>9. \A c \in 1..(next - 1) : ~Blocks(c)
  BY <1>5, <1>8
<1>10. Listed' = {c \in 1..next : FirstOfName(c)}
  <2>1. Listed' = {c \in 1..(next - 1) : FirstOfName(c)} \cup (IF FirstOfName(next) THEN {next} ELSE {})
    BY <1>5
  <2>2. \A c : c \in 1..next <=> c \in 1..(next - 1) \/ c = next
    BY <1>1
  <2> QED
    BY <2>1, <2>2
<1>11. \A c \in 1..next : \E d \in Listed' : Name(d) = Name(c)
  <2>1. ASSUME NEW c \in 1..(next - 1) PROVE \E d \in Listed' : Name(d) = Name(c)
    BY <1>5
  <2>2. \E d \in Listed' : Name(d) = Name(next)
    <3>1. CASE FirstOfName(next)
      BY <3>1
    <3>2. CASE ~FirstOfName(next)
      BY <3>2, <1>5 DEF FirstOfName
    <3> QED
      BY <3>1, <3>2
  <2> QED
    BY <2>1, <2>2, <1>6
<1>12. Len(conns') <= next
  <2>1. Len(conns) \in Nat
    BY DEF TypeOK
  <2>2. Len(conns) <= next - 1
    BY <1>5
  <2>3. Len(conns') = Len(conns) \/ Len(conns') = Len(conns) + 1
    OBVIOUS
  <2> QED
    BY <2>1, <2>2, <2>3, <1>1
<1>13. \A c : /\ (c \in 1..Passed')  <=> (c \in 1..next)
             /\ (c \in 1..Passed' - 1) <=> (c \in 1..next - 1)
  BY <1>2
<1>14. (v # "object")' <=> (Passed' # 0 /\ Blocks(Passed)')
  BY <1>1, <1>2, <1>3
<1>15. /\ (pc = "config" => next \in 1..Len(cfg) + 1)'
       /\ (pc = "connected" => next \in 1..Len(cfg))'
  BY <1>1, <1>3
<1>16. Listed' = {c \in 1..Passed : FirstOfName(c)}'
  BY <1>2, <1>3, <1>10
<1>17. (\A c \in 1..Passed : \E d \in Listed : Name(d) = Name(c))'
  BY <1>2, <1>3, <1>11
<1>18. (\A c \in 1..Passed : cfg[c].shape = "good")' /\ (\A c \in 1..Passed - 1 : ~Blocks(c))'
  BY <1>2, <1>3, <1>7, <1>9
<1> QED
  BY <1>2, <1>5, <1>12, <1>14, <1>15, <1>16, <1>17, <1>18 DEF Scan

(* While it is configured, the list is what Scan says.                     *)
LEMMA ScanIsEnough ==
  TypeOK /\ Scan /\ pc \in {"config", "connected"} => ListedFirst /\ ConfigMeaning
<1> SUFFICES ASSUME TypeOK, Scan, pc \in {"config", "connected"} PROVE ListedFirst /\ ConfigMeaning
  OBVIOUS
<1>1. Len(cfg) \in 0..MaxConns /\ MaxConns \in Nat /\ Elements = 1..Len(cfg) /\ Len(conns) \in Nat
  BY CfgShape DEF TypeOK
<1>2. Passed \in 0..Len(cfg)
  BY <1>1 DEF Scan, Passed
<1>3. Listed = {c \in 1..Passed : FirstOfName(c)} /\ Len(conns) <= Passed
  BY DEF Scan
<1>4. Len(conns) <= MaxConns
  BY <1>1, <1>2, <1>3
<1>5. 1..Passed \subseteq 1..Len(cfg)
  BY <1>1, <1>2
<1> QED
  BY <1>1, <1>2, <1>3, <1>4, <1>5 DEF ListedFirst, ConfigMeaning

(* process_cfg works on the next element.                                  *)
LEMMA SkipKeepsInv ==
  ASSUME ConnsInv, SkipDuplicate
  PROVE  ConnsInv'
<1> USE DEF ConnsInv
<1>1. next \in 1..Len(cfg) /\ Len(cfg) \in 0..MaxConns /\ MaxConns \in Nat
  BY CfgShape DEF SkipDuplicate
<1>2. TypeOK'
  BY <1>1 DEF SkipDuplicate, TypeOK, client
<1>3. [Next]_vars
  BY DEF Next, Main
<1>4. Listed' = Listed
  BY DEF SkipDuplicate, Listed
<1>5. v = "object" /\ ~FirstOfName(next)
  BY DuplicateIsLater DEF SkipDuplicate
<1>6. ~Blocks(next)
  BY <1>5 DEF Blocks, FirstOfName
<1>7. Scan'
  BY <1>3, <1>4, <1>5, <1>6, OneMore DEF SkipDuplicate
<1>8. Destroyed'
  BY DEF SkipDuplicate, Destroyed, client
<1>9. (pc \in {"config", "connected"})'
  BY DEF SkipDuplicate
<1> QED
  BY <1>2, <1>7, <1>8, <1>9, ScanIsEnough, PTL

(* What adding the next element to the list does.                          *)
LEMMA Adds ==
  ASSUME TypeOK, Scan, pc = "config", next \in Elements, RejectCode(next) = 0, ~Duplicate(next),
         conns' = Append(conns, next), v' = AfterSubscriptions(next)
  PROVE  /\ conns' \in Seq(Ids) /\ Len(conns') = Len(conns) + 1
         /\ v' \in {"object", "no_object"} /\ (v' # "object" <=> Blocks(next))
         /\ Listed' = Listed \cup (IF FirstOfName(next) THEN {next} ELSE {})
<1>1. next \in Ids /\ conns \in Seq(Ids)
  BY CfgShape DEF TypeOK
<1>2. FirstOfName(next) /\ v = "object"
  BY DuplicateIsLater
<1>3. Blocks(next) <=> cfg[next].subs # <<>> /\ cfg[next].subs[Len(cfg[next].subs)] # Object
  BY <1>2 DEF Blocks, FirstOfName
<1>4. v' \in {"object", "no_object"} /\ (v' # "object" <=> Blocks(next))
  BY <1>2, <1>3 DEF AfterSubscriptions, Kind
<1> QED
  BY <1>1, <1>2, <1>4, AppendListed

LEMMA ConnectKeepsInv ==
  ASSUME ConnsInv, Connect \/ ConnectFails
  PROVE  ConnsInv'
<1> USE DEF ConnsInv
<1>1. next \in 1..Len(cfg) /\ Len(cfg) \in 0..MaxConns /\ MaxConns \in Nat /\ next \in Ids
  BY CfgShape DEF Connect, ConnectFails
<1>2. /\ pc = "config" /\ next \in Elements /\ RejectCode(next) = 0 /\ ~Duplicate(next)
      /\ conns' = Append(conns, next) /\ v' = AfterSubscriptions(next)
  BY DEF Connect, ConnectFails
<1>3. /\ conns' \in Seq(Ids) /\ Len(conns') = Len(conns) + 1
      /\ v' \in {"object", "no_object"} /\ (v' # "object" <=> Blocks(next))
      /\ Listed' = Listed \cup (IF FirstOfName(next) THEN {next} ELSE {})
  BY <1>2, Adds
<1>4. TypeOK'
  <2>1. next \in 1..(MaxConns + 1) /\ next + 1 \in 1..(MaxConns + 1)
    BY <1>1
  <2>2. link' \in [Ids -> {"none", "connecting", "up", "failed"}]
    BY DEF Connect, ConnectFails, TypeOK, client
  <2> QED
    BY <2>1, <2>2, <1>3 DEF Connect, ConnectFails, TypeOK, client
<1>5. [Next]_vars
  BY DEF Next, Main
<1>6. /\ ret' = ret
      /\ \/ pc' = "config" /\ next' = next + 1
         \/ pc' = "connected" /\ next' = next
  BY DEF Connect, ConnectFails
<1>7. Scan'
  BY <1>2, <1>3, <1>5, <1>6, OneMore
<1>8. Destroyed'
  BY <1>6 DEF Connect, ConnectFails, Destroyed, client
<1>9. (pc \in {"config", "connected"})'
  BY <1>6
<1> QED
  BY <1>4, <1>6, <1>7, <1>8, <1>9, ScanIsEnough, PTL

LEMMA SetConnectedKeepsInv ==
  ASSUME ConnsInv, SetConnected
  PROVE  ConnsInv'
<1> USE DEF ConnsInv
<1>1. next \in 1..Len(cfg) /\ Len(cfg) \in 0..MaxConns /\ MaxConns \in Nat
  BY CfgShape DEF SetConnected, Scan
<1>2. TypeOK'
  <2>1. next + 1 \in 1..(MaxConns + 1)
    BY <1>1
  <2>2. hasCallback' \in [Ids -> BOOLEAN]
    BY DEF SetConnected, TypeOK
  <2> QED
    BY <2>1, <2>2 DEF SetConnected, TypeOK, client
<1>3. Listed' = Listed /\ Passed' = Passed /\ Passed = next
  BY <1>1 DEF SetConnected, Listed, Passed
<1>4. cfg' = cfg /\ \A c : /\ Name(c)' = Name(c) /\ FirstOfName(c)' = FirstOfName(c)
                           /\ Blocks(c)' = Blocks(c)
  BY CfgConstant DEF Next, Main
<1>5. Scan'
  <2>1. pc = "connected" /\ pc' = "config" /\ next' = next + 1 /\ UNCHANGED <<cfg, v, ret, conns>>
    BY DEF SetConnected
  <2>2. (v # "object" <=> Passed # 0 /\ Blocks(Passed))'
    BY <1>3, <1>4, <2>1 DEF Scan
  <2>3. (pc = "config" => next \in 1..Len(cfg) + 1)' /\ (pc = "connected" => next \in 1..Len(cfg))'
    BY <1>1, <2>1
  <2> QED
    BY <1>3, <1>4, <2>1, <2>2, <2>3 DEF Scan
<1>6. Destroyed'
  BY DEF SetConnected, Destroyed, client
<1>7. (pc \in {"config", "connected"})'
  BY DEF SetConnected
<1> QED
  BY <1>2, <1>5, <1>6, <1>7, ScanIsEnough, PTL

(* The list does not change any more once process_cfg has returned.        *)
LEMMA Settled ==
  ASSUME ListedFirst, UNCHANGED <<cfg, conns>>
  PROVE  /\ ListedFirst' /\ Listed' = Listed /\ Taken' = Taken /\ Elements' = Elements
         /\ \A c : Name(c)' = Name(c)
<1>1. Listed' = Listed /\ Elements' = Elements /\ \A c : Name(c)' = Name(c)
  BY DEF Listed, Elements, Name
<1>2. \A c : FirstOfName(c)' = FirstOfName(c) /\ Blocks(c)' = Blocks(c)
  BY <1>1 DEF FirstOfName, Blocks
<1> QED
  BY <1>1, <1>2 DEF ListedFirst, Taken

(* process_cfg returns: the elements that were passed are those that the   *)
(* configuration's meaning takes.                                          *)
LEMMA RejectKeepsInv ==
  ASSUME ConnsInv, Reject
  PROVE  ConnsInv'
<1> USE DEF ConnsInv
<1>1. /\ next \in 1..Len(cfg) /\ Len(cfg) \in Nat /\ next \in Nat /\ Elements = 1..Len(cfg)
      /\ \A c \in Elements : cfg[c].shape \in {"good", "missing", "wrong_type"}
  BY CfgShape DEF Reject
<1>2. /\ \A c \in 1..(next - 1) : cfg[c].shape = "good"
      /\ \A c \in 1..(next - 1) - 1 : ~Blocks(c)
      /\ v # "object" <=> next - 1 # 0 /\ Blocks(next - 1)
      /\ Listed = {c \in 1..(next - 1) : FirstOfName(c)}
  BY <1>1 DEF Reject, Scan, Passed
<1>3. RejectCode(next) \in {4, 5, 6}
  BY <1>1 DEF Reject, RejectCode, TypeOK
<1>4. cfg[next].shape # "good" \/ (next - 1 # 0 /\ Blocks(next - 1))
  BY <1>1, <1>2 DEF Reject, RejectCode, TypeOK
<1>5. Taken = 1..(next - 1)
  <2>1. ASSUME NEW c \in 1..(next - 1) PROVE c \in Taken
    <3>1. c \in Elements /\ (\A d \in 1..c : d \in 1..(next - 1))
          /\ (\A d \in 1..(c - 1) : d \in 1..(next - 1) - 1)
      BY <1>1
    <3> QED
      BY <3>1, <1>2 DEF Taken
  <2>2. ASSUME NEW c \in Taken PROVE c \in 1..(next - 1)
    <3>1. c \in 1..Len(cfg) /\ (\A d \in 1..c : cfg[d].shape = "good")
          /\ (\A d \in 1..(c - 1) : ~Blocks(d))
      BY <1>1 DEF Taken
    <3>2. SUFFICES ASSUME c >= next PROVE FALSE
      BY <3>1, <1>1
    <3>3. next \in 1..c /\ (next - 1 # 0 => next - 1 \in 1..(c - 1))
      BY <3>1, <3>2, <1>1
    <3> QED
      BY <3>1, <3>3, <1>4
  <2> QED
    BY <2>1, <2>2
<1>6. next \in Elements /\ next \notin Taken
  BY <1>1, <1>5
<1>7. UNCHANGED <<cfg, conns, freed, client>> /\ pc' = "loop" /\ ret' \in {4, 5, 6}
  BY <1>3 DEF Reject
<1>8. ListedFirst' /\ Listed' = Listed /\ Taken' = Taken /\ Elements' = Elements
      /\ \A c : Name(c)' = Name(c)
  BY <1>7, Settled
<1>9. Listed = {c \in Taken : \A d \in Taken : d < c => Name(d) # Name(c)}
  BY <1>1, <1>2, <1>5 DEF FirstOfName
<1>10. ConfigMeaning'
  BY <1>6, <1>7, <1>8, <1>9 DEF ConfigMeaning
<1>11. TypeOK'
  BY <1>7 DEF Reject, TypeOK, client
<1>12. Scan' /\ Destroyed'
  BY <1>7 DEF Scan, Destroyed, Reject, client
<1> QED
  BY <1>8, <1>10, <1>11, <1>12

LEMMA ConfigDoneKeepsInv ==
  ASSUME ConnsInv, ConfigDone
  PROVE  ConnsInv'
<1> USE DEF ConnsInv
<1>1. Len(cfg) \in Nat /\ Elements = 1..Len(cfg) /\ next = Len(cfg) + 1
  BY CfgShape DEF ConfigDone
<1>2. /\ \A c \in 1..Len(cfg) : cfg[c].shape = "good"
      /\ \A c \in 1..Len(cfg) - 1 : ~Blocks(c)
      /\ Listed = {c \in 1..Len(cfg) : FirstOfName(c)}
      /\ ret = 0
  <2>1. pc = "config" /\ Passed = Len(cfg)
    BY <1>1 DEF ConfigDone, Passed
  <2> QED
    BY <2>1 DEF Scan
<1>3. Taken = Elements
  <2>1. ASSUME NEW c \in Elements PROVE c \in Taken
    <3>1. /\ \A d \in 1..c : d \in 1..Len(cfg)
          /\ \A d \in 1..(c - 1) : d \in 1..Len(cfg) - 1
      BY <1>1
    <3> QED
      BY <3>1, <1>2 DEF Taken
  <2> QED
    BY <2>1 DEF Taken
<1>4. UNCHANGED <<cfg, conns, freed, ret, client>> /\ pc' = "loop"
  BY DEF ConfigDone
<1>5. ListedFirst' /\ Listed' = Listed /\ Taken' = Taken /\ Elements' = Elements
      /\ \A c : Name(c)' = Name(c)
  BY <1>4, Settled
<1>6. Listed = {c \in Taken : \A d \in Taken : d < c => Name(d) # Name(c)}
  BY <1>1, <1>2, <1>3 DEF FirstOfName
<1>7. ConfigMeaning'
  BY <1>2, <1>3, <1>4, <1>5, <1>6 DEF ConfigMeaning
<1>8. TypeOK'
  BY <1>4 DEF ConfigDone, TypeOK, client
<1>9. Scan' /\ Destroyed'
  BY <1>4 DEF Scan, Destroyed, ConfigDone, client
<1> QED
  BY <1>5, <1>7, <1>8, <1>9

(* terminate, from its call to its return.                                 *)
LEMMA TerminateKeepsInv ==
  ASSUME ConnsInv, Terminate \/ DestroyDone
  PROVE  ConnsInv'
<1> USE DEF ConnsInv
<1>1. /\ UNCHANGED <<cfg, conns, freed, ret, v, hasCallback, client>> /\ next' \in {1, next}
      /\ pc \in {"loop", "stop"} /\ pc' \in {"stop", "done"}
      /\ pc = "loop" => freed = {}
  BY DEF Terminate, DestroyDone, Destroyed
<1>2. ListedFirst' /\ Listed' = Listed /\ Taken' = Taken /\ Elements' = Elements
      /\ \A c : Name(c)' = Name(c)
  BY <1>1, Settled
<1>3. ConfigMeaning'
  BY <1>1, <1>2 DEF ConfigMeaning
<1>4. TypeOK'
  BY <1>1, CfgShape DEF TypeOK, client
<1>5. Scan' /\ Destroyed'
  BY <1>1 DEF Scan, Destroyed, client
<1> QED
  BY <1>2, <1>3, <1>4, <1>5

LEMMA DestroyKeepsInv ==
  ASSUME ConnsInv, Destroy
  PROVE  ConnsInv' /\ conns[next] \in Listed
<1> USE DEF ConnsInv
<1> DEFINE c == conns[next]
<1>1. /\ next \in 1..Len(conns) /\ Len(conns) \in Nat /\ Len(conns) <= MaxConns /\ MaxConns \in Nat
      /\ c \in Ids
  BY CfgShape DEF Destroy, TypeOK, ListedFirst
<1>2. /\ UNCHANGED <<cfg, pc, v, ret, conns, hasCallback, callback, refused, cameUp>>
      /\ pc = "stop" /\ next' = next + 1
      /\ link' = [link EXCEPT ![c] = "none"] /\ subscribed' = [subscribed EXCEPT ![c] = {}]
      /\ freed' = freed \cup {c}
  BY DEF Destroy
<1>3. c \in Listed
  BY <1>1 DEF Listed
<1>4. ListedFirst' /\ Listed' = Listed /\ Taken' = Taken /\ Elements' = Elements
      /\ \A d : Name(d)' = Name(d)
  BY <1>2, Settled
<1>5. ConfigMeaning' /\ Scan'
  BY <1>2, <1>4 DEF ConfigMeaning, Scan
<1>6. next + 1 \in 1..(MaxConns + 1)
  BY <1>1
<1>7. TypeOK'
  BY <1>1, <1>2, <1>6 DEF TypeOK
<1>8. Destroyed'
  <2>1. \A d \in freed' : link'[d] = "none" /\ subscribed'[d] = {}
    BY <1>1, <1>2 DEF Destroyed, TypeOK
  <2> QED
    BY <2>1, <1>2 DEF Destroyed
<1> QED
  BY <1>3, <1>4, <1>5, <1>7, <1>8

LEMMA ClientKeepsInv ==
  ASSUME ConnsInv, NEW c \in Ids, Client(c) \/ RxReturns(c)
  PROVE  ConnsInv' /\ UNCHANGED main
<1> USE DEF ConnsInv
<1>1. UNCHANGED main /\ TypeOK' /\ Scan' /\ ListedFirst' /\ ConfigMeaning'
  BY ClientSteps, MainStands
<1>2. \A d \in freed : link[d] = "none" /\ subscribed[d] = {} /\ d \in Ids
  BY DEF Destroyed, TypeOK
<1>3. \A d \in freed : link'[d] = "none" /\ subscribed'[d] = {}
  BY <1>2, ClientSteps
<1>4. Destroyed'
  BY <1>1, <1>3 DEF Destroyed, main
<1> QED
  BY <1>1, <1>4

LEMMA NextKeepsConnsInv == ConnsInv /\ [Next]_vars => ConnsInv'
<1> SUFFICES ASSUME ConnsInv, [Next]_vars PROVE ConnsInv'
  OBVIOUS
<1>1. CASE Main
  BY <1>1, SkipKeepsInv, ConnectKeepsInv, SetConnectedKeepsInv, RejectKeepsInv, ConfigDoneKeepsInv,
     TerminateKeepsInv, DestroyKeepsInv DEF Main
<1>2. CASE \E c \in Ids : Client(c) \/ RxReturns(c)
  BY <1>2, ClientKeepsInv
<1>3. CASE UNCHANGED vars
  <2>1. UNCHANGED main /\ UNCHANGED <<cfg, pc, next, v, ret, conns, freed, link, hasCallback, callback,
                                      subscribed, refused, cameUp>>
    BY <1>3 DEF vars, main, client
  <2>2. TypeOK' /\ Destroyed'
    BY <2>1 DEF ConnsInv, TypeOK, Destroyed
  <2> QED
    BY <2>1, <2>2, MainStands DEF ConnsInv
<1> QED
  BY <1>1, <1>2, <1>3 DEF Next, Finished

-----------------------------------------------------------------------------
LEMMA MaxOfOne == 1..1 = {1} /\ Max({1}) = 1
<1>1. \E x \in {1} : \A y \in {1} : x >= y
  OBVIOUS
<1> QED
  BY <1>1 DEF Max

(* A row of one column without a name is a table with the key 1.           *)
LEMMA TableOfRow ==
  ASSUME NEW value, NEW row, row = <<Column("", value)>>
  PROVE  row[1].value = value /\ RowTable(row) = [key \in {"1"} |-> value]
<1>1. Len(row) = 1 /\ row[1] = Column("", value)
  OBVIOUS
<1>2. 1..Len(row) = {1}
  BY <1>1, MaxOfOne, Zenon
<1>3. Column("", value).value = value /\ Column("", value).name = ""
  BY DEF Column
<1>4. row[1].value = value /\ Key(row[1]) = "1"
  BY <1>1, <1>3, Zenon DEF Key
<1>5. {Key(row[i]) : i \in 1..Len(row)} = {"1"} /\ {i \in 1..Len(row) : Key(row[i]) = "1"} = {1}
  BY <1>2, <1>4
<1>6. \A k \in {"1"} : row[Max({i \in 1..Len(row) : Key(row[i]) = k})].value = value
  <2> SUFFICES row[Max({i \in 1..Len(row) : Key(row[i]) = "1"})].value = value
    OBVIOUS
  <2> QED
    BY <1>4, <1>5, MaxOfOne, Zenon
<1>7. RowTable(row) = [k \in {"1"} |-> row[Max({i \in 1..Len(row) : Key(row[i]) = k})].value]
  BY <1>5, Zenon DEF RowTable
<1> QED
  BY <1>4, <1>6, <1>7

(* The rows of a call are its arguments without the first one, as text.    *)
LEMMA RowsOfArgs ==
  ASSUME NEW args, Len(args) \in Nat
  PROVE  /\ Len(args) # 0 => Len(ArgRows(args)) = Len(args) - 1
         /\ Len(args) = 0 => Len(ArgRows(args)) = 0
         /\ \A i \in 1..Len(args) - 1 :
              /\ ArgRows(args)[i] = <<Column("", ToText(args[i + 1]))>>
              /\ ArgRows(args)[i][1].value = ToText(args[i + 1])
<1>1. \A i \in 1..Len(args) - 1 : ArgRows(args)[i] = <<Column("", ToText(args[i + 1]))>>
  BY DEF ArgRows
<1>2. DOMAIN ArgRows(args) = 1..Len(args) - 1
  BY DEF ArgRows
<1>3. ASSUME Len(args) # 0 PROVE Len(ArgRows(args)) = Len(args) - 1
  BY <1>3 DEF ArgRows
<1>4. ASSUME Len(args) = 0 PROVE Len(ArgRows(args)) = 0
  <2>1. ArgRows(args) = <<>>
    BY <1>4 DEF ArgRows
  <2> QED
    BY <2>1
<1>5. \A i \in 1..Len(args) - 1 : ArgRows(args)[i][1].value = ToText(args[i + 1])
  BY <1>1, TableOfRow
<1> QED
  BY <1>1, <1>3, <1>4, <1>5

LEMMA AnswerEchoes ==
  ASSUME NEW args, Len(args) \in Nat \ {0}
  PROVE  /\ Len(Answer(ArgRows(args)).table) = Len(args) - 1
         /\ \A i \in 2..Len(args) : Answer(ArgRows(args)).table[i - 1] = [key \in {"1"} |-> ToText(args[i])]
<1> DEFINE rows == ArgRows(args)
<1>1. Len(rows) = Len(args) - 1
  BY RowsOfArgs
<1>2. \A i \in 2..Len(args) : i - 1 \in 1..Len(args) - 1 /\ rows[i - 1] = <<Column("", ToText(args[i]))>>
  <2> SUFFICES ASSUME NEW i \in 2..Len(args)
               PROVE i - 1 \in 1..Len(args) - 1 /\ rows[i - 1] = <<Column("", ToText(args[i]))>>
    OBVIOUS
  <2>1. i - 1 \in 1..Len(args) - 1 /\ (i - 1) + 1 = i
    OBVIOUS
  <2> QED
    BY <2>1, RowsOfArgs
<1>3. ToTable(rows) = [i \in 1..Len(args) - 1 |-> RowTable(rows[i])]
  BY <1>1 DEF ToTable
<1>4. Len(ToTable(rows)) = Len(args) - 1
  BY <1>3
<1>5. \A i \in 2..Len(args) : ToTable(rows)[i - 1] = [key \in {"1"} |-> ToText(args[i])]
  <2> SUFFICES ASSUME NEW i \in 2..Len(args)
               PROVE ToTable(rows)[i - 1] = [key \in {"1"} |-> ToText(args[i])]
    OBVIOUS
  <2>1. ToTable(rows)[i - 1] = RowTable(rows[i - 1])
    BY <1>2, <1>3
  <2>2. rows[i - 1] = <<Column("", ToText(args[i]))>>
    BY <1>2
  <2> QED
    BY <2>1, <2>2, TableOfRow
<1> QED
  BY <1>4, <1>5 DEF Answer

-----------------------------------------------------------------------------
(* A connection stays in the list once it is there.                        *)
LEMMA ListedGrows ==
  ASSUME ConnsInv, [Next]_vars
  PROVE  \A name : Labelled(name) \subseteq Labelled(name)'
<1>1. cfg' = cfg /\ \A c : Name(c)' = Name(c)
  BY CfgConstant
<1>2. Listed \subseteq Listed'
  <2>1. CASE Connect \/ ConnectFails
    <3>1. conns \in Seq(Ids) /\ next \in Ids /\ conns' = Append(conns, next)
      BY <2>1, CfgShape DEF Connect, ConnectFails, ConnsInv, TypeOK
    <3> QED
      BY <3>1, AppendListed
  <2>2. CASE ~(Connect \/ ConnectFails)
    <3>1. conns' = conns
      BY <2>2 DEF Next, vars, main, client, Main, Reject, SkipDuplicate, SetConnected, ConfigDone,
                  Terminate, Destroy, DestroyDone, Client, ComesUp, FailsToConnect, IsLost,
                  OnConnect, Receive, OnRx, RxReturns, CallbackGoes, Finished
    <3> QED
      BY <3>1 DEF Listed
  <2> QED
    BY <2>1, <2>2
<1> QED
  BY <1>1, <1>2 DEF Labelled

(* A step of main or of the client library that touches no call.           *)
LEMMA ConnectionsKeepCallsInv ==
  ASSUME ConnsInv, CallsInv, [Next]_vars, UNCHANGED <<call, sent>>
  PROVE  CallsInv'
<1>1. call' = call /\ sent' = sent
  OBVIOUS
<1>2. ASSUME NEW t \in Callers PROVE CallOf(t)'
  <2> DEFINE name == Request(ArgRows(call[t].args)).name
  <2>1. CallOf(t)
    BY DEF CallsInv
  <2>2. call[t].pc = "send" => call[t].conn \in Labelled(name)
    BY <2>1 DEF CallOf
  <2>3. Labelled(name) \subseteq {c \in Listed' : <<Name(c)'>> = name}
    <3> HIDE DEF name
    <3> QED
      BY ListedGrows DEF Labelled
  <2>4. (call[t].pc = "send" => call[t].conn \in Labelled(Request(ArgRows(call[t].args)).name))'
    BY <1>1, <2>2, <2>3 DEF Labelled
  <2> QED
    BY <1>1, <2>1, <2>4 DEF CallOf
<1> QED
  BY <1>1, <1>2 DEF CallsInv

(* A step of a caller touches its own call only, and of main's and the     *)
(* client library's state at most what the list does not depend on.        *)
LEMMA OneCaller ==
  ASSUME CallsInv, UNCHANGED main, NEW t \in Callers,
         \E new : call' = [call EXCEPT ![t] = new],
         CallOf(t)',
         sent'.by \in Callers \cup {0}, sent'.conn \in Ids \cup {0}, sent'.retain \in BOOLEAN
  PROVE  CallsInv'
<1>1. call = [u \in Callers |-> call[u]]
  BY DEF CallsInv
<1>2. \A u \in Callers \ {t} : call'[u] = call[u]
  BY <1>1
<1>3. call' = [u \in Callers |-> call'[u]]
  BY <1>1
<1>4. \A name : Labelled(name)' = Labelled(name)
  BY DEF Labelled, Listed, Name, main
<1>5. ASSUME NEW u \in Callers \ {t} PROVE CallOf(u)'
  <2>1. CallOf(u)
    BY DEF CallsInv
  <2> QED
    BY <2>1, <1>2, <1>4 DEF CallOf
<1> QED
  BY <1>3, <1>5 DEF CallsInv

LEMMA Outcomes ==
  /\ 0 \notin Ids
  /\ Nothing.kind = "nothing" /\ Undefined.kind = "undefined"
  /\ \A rows : Answer(rows).kind = "table"
  /\ NoCall = [pc |-> "idle", args |-> <<>>, conn |-> 0, answer |-> Nothing]
  /\ Unsent.by = 0 /\ Unsent.conn = 0 /\ Unsent.retain = FALSE
BY DEF Ids, Nothing, Undefined, Answer, NoCall, Unsent

(* Only a call with arguments has rows to publish.                         *)
LEMMA HasRows ==
  ASSUME NEW args \in Calls, Publishable(ArgRows(args))
  PROVE  args # <<>> /\ Len(args) \in Nat /\ Len(args) >= 4
<1>1. Len(args) \in Nat /\ (args = <<>> => Len(args) = 0)
  BY CallsAssumption
<1>2. /\ Len(args) # 0 => Len(ArgRows(args)) = Len(args) - 1
      /\ Len(args) = 0 => Len(ArgRows(args)) = 0
  BY <1>1, RowsOfArgs
<1>3. Len(ArgRows(args)) >= 3
  BY DEF Publishable
<1>4. Len(args) # 0
  BY <1>2, <1>3
<1> QED
  BY <1>1, <1>2, <1>3, <1>4

(* Which commands have a hook.                                             *)
LEMMA HookedCommands ==
  ASSUME NEW args
  PROVE  Hooked(args) <=> args # <<>> /\ IsCommand(args) /\ hooks
<1>1. /\ DOMAIN CommandIds = {"UNKNWON_COMMAND", "CMD_MQTT_PUBLISH", "CMD_LUA_CALL"}
      /\ CommandIds["UNKNWON_COMMAND"] \notin Hooks
      /\ CommandIds["CMD_MQTT_PUBLISH"] \in Hooks /\ CommandIds["CMD_LUA_CALL"] \in Hooks
  BY DEF CommandIds, Hooks
<1> QED
  BY <1>1 DEF Hooked, IsCommand

(* A call begins, or is over at once.                                      *)
LEMMA CmdCallCases ==
  ASSUME CallsInv, NEW t \in Callers, NEW args \in Calls, CmdCall(t, args)
  PROVE  /\ UNCHANGED <<vars, hooks, sent>>
         /\ \E new : call' = [call EXCEPT ![t] = new]
         /\ \/ /\ ~Hooked(args)
               /\ call'[t] = [pc |-> "idle", args |-> args, conn |-> 0, answer |-> Nothing]
            \/ /\ Hooked(args)
               /\ call'[t] = [pc |-> "idle", args |-> args, conn |-> 0,
                              answer |-> Answer(ArgRows(args))]
            \/ /\ Hooked(args) /\ Publishable(ArgRows(args))
               /\ call'[t] = [pc |-> "find", args |-> args, conn |-> 0, answer |-> Nothing]
<1> DEFINE rows == ArgRows(args)
           begun == [pc |-> "idle", args |-> args, conn |-> 0, answer |-> Nothing]
           answered == [begun EXCEPT !.answer = Answer(rows)]
           finds == [begun EXCEPT !.pc = "find"]
<1>1. [NoCall EXCEPT !.args = args] = begun
  BY Outcomes
<1>2. /\ UNCHANGED <<vars, hooks, sent>>
      /\ \/ ~Hooked(args) /\ call' = [call EXCEPT ![t] = begun]
         \/ Hooked(args) /\ call' = [call EXCEPT ![t] = answered]
         \/ Hooked(args) /\ Publishable(rows) /\ call' = [call EXCEPT ![t] = finds]
  BY <1>1 DEF CmdCall, Publishes
<1>3. \E new : call' = [call EXCEPT ![t] = new]
  BY <1>2
<1>4. \/ ~Hooked(args) /\ call'[t] = begun
      \/ Hooked(args) /\ call'[t] = answered
      \/ Hooked(args) /\ Publishable(rows) /\ call'[t] = finds
  BY <1>2 DEF CallsInv
<1> QED
  BY <1>2, <1>3, <1>4

LEMMA CmdCallKeepsInv ==
  ASSUME CallsInv, NEW t \in Callers, NEW args \in Calls, CmdCall(t, args)
  PROVE  CallsInv'
<1> DEFINE rows == ArgRows(args)
<1>1. /\ UNCHANGED <<vars, hooks, sent>>
      /\ \E new : call' = [call EXCEPT ![t] = new]
  BY CmdCallCases
<1>2. /\ Nothing \in Answers /\ Answer(rows) \in Answers
      /\ Nothing.kind # "table" /\ 0 \notin Ids
  BY Outcomes DEF Answers
<1>3. CallOf(t)'
  <2>1. CASE call'[t] = [pc |-> "idle", args |-> args, conn |-> 0, answer |-> Nothing]
    BY <2>1, <1>2 DEF CallOf
  <2>2. CASE /\ Hooked(args)
             /\ call'[t] = [pc |-> "idle", args |-> args, conn |-> 0, answer |-> Answer(rows)]
    BY <2>2, <1>2 DEF CallOf, Hooked
  <2>3. CASE /\ Publishable(rows)
             /\ call'[t] = [pc |-> "find", args |-> args, conn |-> 0, answer |-> Nothing]
    BY <2>3, <1>2 DEF CallOf
  <2> QED
    BY <2>1, <2>2, <2>3, CmdCallCases
<1>4. UNCHANGED main /\ sent' = sent
  BY <1>1 DEF vars
<1> QED
  BY <1>1, <1>3, <1>4, OneCaller DEF CallsInv

(* A call under way ends, with the answer to its own arguments if any.     *)
LEMMA EndsKeepsInv ==
  ASSUME CallsInv, NEW t \in Callers, call[t].pc # "idle", UNCHANGED vars,
         NEW answer \in {Undefined, Answer(ArgRows(call[t].args))}, Ends(t, answer),
         sent'.by \in Callers \cup {0}, sent'.conn \in Ids \cup {0}, sent'.retain \in BOOLEAN
  PROVE  /\ CallsInv'
         /\ call'[t] = [pc |-> "idle", args |-> call[t].args, conn |-> 0, answer |-> answer]
         /\ call[t].args # <<>>
<1> DEFINE new == [call[t] EXCEPT !.pc = "idle", !.conn = 0, !.answer = answer]
<1>1. CallOf(t) /\ t \in DOMAIN call
  BY DEF CallsInv
<1>2. call' = [call EXCEPT ![t] = new]
  BY DEF Ends
<1>3. call'[t] = [pc |-> "idle", args |-> call[t].args, conn |-> 0, answer |-> answer]
  BY <1>1, <1>2 DEF CallOf
<1>4. call[t].args \in Calls /\ call[t].args # <<>>
  BY <1>1, HasRows DEF CallOf
<1>5. answer \in Answers /\ (answer.kind = "table" => answer = Answer(ArgRows(call[t].args)))
  BY <1>4, Outcomes DEF Answers
<1>6. CallOf(t)'
  BY <1>3, <1>4, <1>5, Outcomes DEF CallOf
<1>7. \E some : call' = [call EXCEPT ![t] = some]
  BY <1>2
<1>8. UNCHANGED main
  BY DEF vars
<1> QED
  BY <1>3, <1>4, <1>6, <1>7, <1>8, OneCaller

(* mqtt_mngr_get_conn ends the call or finds a connection.                 *)
LEMMA GetConnCases ==
  ASSUME ConnsInv, CallsInv, NEW t \in Callers, GetConn(t)
  PROVE  /\ UNCHANGED <<vars, hooks, sent>> /\ call[t].pc = "find"
         /\ \/ pc = "done" /\ Ends(t, Undefined)
            \/ Ends(t, Answer(ArgRows(call[t].args)))
            \/ /\ \E new : call' = [call EXCEPT ![t] = new]
               /\ \E c \in Labelled(Request(ArgRows(call[t].args)).name) :
                    /\ c \in Ids
                    /\ call'[t] = [pc |-> "send", args |-> call[t].args, conn |-> c,
                                   answer |-> call[t].answer]
<1> DEFINE rows == ArgRows(call[t].args)
           found == Labelled(Request(rows).name)
<1>1. CallOf(t) /\ t \in DOMAIN call
  BY DEF CallsInv
<1>2. UNCHANGED <<vars, hooks, sent>> /\ call[t].pc = "find"
  BY DEF GetConn
<1>3. \/ pc = "done" /\ Ends(t, Undefined)
      \/ Ends(t, Answer(rows))
      \/ \E c \in found : call' = [call EXCEPT ![t].pc = "send", ![t].conn = c]
  BY DEF GetConn
<1>4. ASSUME NEW c \in found, call' = [call EXCEPT ![t].pc = "send", ![t].conn = c]
      PROVE  /\ c \in Ids /\ \E new : call' = [call EXCEPT ![t] = new]
             /\ call'[t] = [pc |-> "send", args |-> call[t].args, conn |-> c,
                            answer |-> call[t].answer]
  <2>1. call' = [call EXCEPT ![t] = [@ EXCEPT !.pc = "send", !.conn = c]]
    BY <1>4
  <2>2. c \in Ids
    <3>1. c \in Listed
      BY DEF Labelled
    <3> QED
      BY <3>1, CfgShape DEF ConnsInv, ListedFirst
  <2>3. call'[t] = [pc |-> "send", args |-> call[t].args, conn |-> c, answer |-> call[t].answer]
    BY <1>1, <2>1 DEF CallOf
  <2> QED
    BY <2>1, <2>2, <2>3
<1> QED
  BY <1>2, <1>3, <1>4

LEMMA GetConnKeepsInv ==
  ASSUME ConnsInv, CallsInv, NEW t \in Callers, GetConn(t)
  PROVE  CallsInv'
<1>1. UNCHANGED <<vars, hooks, sent>> /\ call[t].pc = "find" /\ CallOf(t)
  BY GetConnCases DEF CallsInv
<1>2. sent'.by \in Callers \cup {0} /\ sent'.conn \in Ids \cup {0} /\ sent'.retain \in BOOLEAN
  BY <1>1 DEF CallsInv
<1>3. CASE Ends(t, Undefined) \/ Ends(t, Answer(ArgRows(call[t].args)))
  BY <1>1, <1>2, <1>3, EndsKeepsInv
<1>4. CASE /\ \E new : call' = [call EXCEPT ![t] = new]
           /\ \E c \in Labelled(Request(ArgRows(call[t].args)).name) :
                /\ c \in Ids
                /\ call'[t] = [pc |-> "send", args |-> call[t].args, conn |-> c,
                               answer |-> call[t].answer]
  <2>1. PICK c \in Labelled(Request(ArgRows(call[t].args)).name) :
          /\ c \in Ids
          /\ call'[t] = [pc |-> "send", args |-> call[t].args, conn |-> c, answer |-> call[t].answer]
    BY <1>4
  <2>2. UNCHANGED main
    BY <1>1 DEF vars
  <2>3. c \in Labelled(Request(ArgRows(call[t].args)).name)'
    BY <2>1, <2>2 DEF Labelled, Listed, Name, main
  <2>4. CallOf(t)'
    BY <1>1, <2>1, <2>3 DEF CallOf
  <2> QED
    BY <1>2, <1>4, <2>2, <2>4, OneCaller
<1> QED
  BY <1>3, <1>4, GetConnCases

(* What Publish sends is what the call asked for.                          *)
LEMMA PublishSends ==
  ASSUME ConnsInv, CallsInv, NEW t \in Callers, Publish(t)
  PROVE  /\ UNCHANGED <<vars, hooks>> /\ call[t].pc = "send"
         /\ \/ freed # {} /\ Ends(t, Undefined)
            \/ Ends(t, Answer(ArgRows(call[t].args)))
         /\ \/ sent' = sent
            \/ /\ sent'.by = t /\ sent'.retain \in BOOLEAN
               /\ Asked(call[t].args, sent')
<1> DEFINE args == call[t].args
           rows == ArgRows(args)
           request == Request(rows)
           c == call[t].conn
           message == [by |-> t, conn |-> c, topic |-> request.topic, payload |-> request.payload,
                       retain |-> request.retain]
<1>1. /\ UNCHANGED <<vars, hooks>> /\ call[t].pc = "send"
      /\ \/ freed # {} /\ Ends(t, Undefined)
         \/ Ends(t, Answer(rows))
      /\ sent' = sent \/ sent' = message
  BY DEF Publish
<1>2. /\ args \in Calls /\ Publishable(rows) /\ c \in Labelled(request.name)
  BY DEF CallsInv, CallOf, Publish
<1>3. Asked(args, message) /\ message.by = t /\ message.retain \in BOOLEAN
  <2>1. Len(args) \in Nat /\ Len(args) >= 4
    BY <1>2, HasRows
  <2>2. /\ Len(rows) = Len(args) - 1
        /\ \A i \in 1..Len(args) - 1 : rows[i][1].value = ToText(args[i + 1])
    <3>1. Len(args) # 0
      BY <2>1
    <3> HIDE DEF args
    <3> QED
      BY <2>1, <3>1, RowsOfArgs
  <2>3. /\ rows[1][1].value = ToText(args[2]) /\ rows[2][1].value = ToText(args[3])
        /\ rows[3][1].value = ToText(args[4])
        /\ Len(args) >= 5 => rows[4][1].value = ToText(args[5])
    <3>1. 1 \in 1..Len(args) - 1 /\ 2 \in 1..Len(args) - 1 /\ 3 \in 1..Len(args) - 1
          /\ (Len(args) >= 5 => 4 \in 1..Len(args) - 1)
      BY <2>1
    <3>2. rows[1][1].value = ToText(args[1 + 1]) /\ rows[2][1].value = ToText(args[2 + 1])
      BY <2>2, <3>1
    <3>3. rows[3][1].value = ToText(args[3 + 1])
      BY <2>2, <3>1
    <3>4. Len(args) >= 5 => rows[4][1].value = ToText(args[4 + 1])
      BY <2>2, <3>1
    <3> HIDE DEF rows, args
    <3> QED
      BY <3>2, <3>3, <3>4
  <2>4. Len(rows) >= 4 <=> Len(args) >= 5
    BY <2>1, <2>2
  <2>5. request = [name |-> ToText(args[2]), topic |-> ToText(args[3]),
                   payload |-> ToText(args[4]),
                   retain |-> Len(rows) >= 4 /\ IsSet(rows[4][1].value)]
    BY <2>3 DEF Request
  <2>6. (Len(rows) >= 4 /\ IsSet(rows[4][1].value)) <=> (Len(args) >= 5 /\ IsSet(ToText(args[5])))
    BY <2>3, <2>4
  <2>7. /\ c \in Elements /\ <<Name(c)>> = ToText(args[2])
        /\ \A d \in Taken : d < c => Name(d) # Name(c)
    <3>1. c \in Listed /\ <<Name(c)>> = request.name
      BY <1>2 DEF Labelled
    <3>2. c \in Elements /\ FirstOfName(c)
      BY <3>1 DEF ConnsInv, ListedFirst
    <3>3. \A d \in Taken : d < c => d \in 1..(c - 1)
      BY <3>2, CfgShape DEF Taken, ConnsInv
    <3> QED
      BY <2>5, <3>1, <3>2, <3>3 DEF FirstOfName
  <2>8. /\ message.conn = c /\ message.topic = ToText(args[3]) /\ message.payload = ToText(args[4])
        /\ message.retain = (Len(rows) >= 4 /\ IsSet(rows[4][1].value))
    <3> HIDE DEF rows, args, c, request
    <3> QED
      BY <2>5
  <2>9. message.by = t /\ message.retain \in BOOLEAN
    BY <2>8
  <2> HIDE DEF rows, args, c, message
  <2> QED
    BY <2>6, <2>7, <2>8, <2>9, Zenon DEF Asked
<1> HIDE DEF args, message
<1> QED
  BY <1>1, <1>3 DEF args

LEMMA PublishKeepsInv ==
  ASSUME ConnsInv, CallsInv, NEW t \in Callers, Publish(t)
  PROVE  CallsInv'
<1>1. /\ UNCHANGED vars /\ call[t].pc = "send"
      /\ Ends(t, Undefined) \/ Ends(t, Answer(ArgRows(call[t].args)))
      /\ \/ sent' = sent
         \/ /\ sent'.by = t /\ sent'.retain \in BOOLEAN
            /\ Asked(call[t].args, sent')
  BY PublishSends
<1>2. sent'.by \in Callers \cup {0} /\ sent'.conn \in Ids \cup {0} /\ sent'.retain \in BOOLEAN
  <2>1. CASE sent' = sent
    BY <2>1 DEF CallsInv
  <2>2. CASE sent'.by = t /\ sent'.retain \in BOOLEAN /\ Asked(call[t].args, sent')
    BY <2>2, CfgShape DEF Asked, ConnsInv
  <2> QED
    BY <1>1, <2>1, <2>2
<1> QED
  BY <1>1, <1>2, EndsKeepsInv

(* The callback of a message is over, and with it the calls of its script. *)
LEMMA RxEndsKeepsInv ==
  ASSUME CallsInv, NEW c \in Ids, RxEnds(c)
  PROVE  CallsInv' /\ call'[c] = NoCall
<1>1. /\ c \in Callers /\ UNCHANGED <<main, hooks, sent>>
      /\ call' = [call EXCEPT ![c] = NoCall]
  BY DEF RxEnds, RxReturns, CallbackGoes, Callers
<1>2. call'[c] = [pc |-> "idle", args |-> <<>>, conn |-> 0, answer |-> Nothing]
  BY <1>1, Outcomes DEF CallsInv
<1>3. Nothing \in Answers
  BY DEF Answers
<1>4. CallOf(c)'
  BY <1>2, <1>3, Outcomes DEF CallOf
<1>5. sent'.by \in Callers \cup {0} /\ sent'.conn \in Ids \cup {0} /\ sent'.retain \in BOOLEAN
  BY <1>1 DEF CallsInv
<1>6. \E new : call' = [call EXCEPT ![c] = new]
  BY <1>1
<1>7. call'[c] = NoCall
  BY <1>2, Outcomes
<1> QED
  BY <1>1, <1>4, <1>5, <1>6, <1>7, OneCaller

(* The scripts leave the connections alone, whatever they do, but for the  *)
(* callback that they are the end of: what was shown of MqttConns holds    *)
(* with them, too.                                                         *)
LEMMA ScriptSteps ==
  ASSUME NextCommands \/ UNCHANGED <<vars, commands>>
  PROVE  /\ [Next]_vars
         /\ \/ UNCHANGED commands
            \/ FreeHooks
            \/ \E c \in Ids : RxEnds(c)
            \/ UNCHANGED vars /\ \E t \in Callers : Script(t)
<1>1. ASSUME NEW t \in Callers, Script(t) PROVE UNCHANGED vars
  BY <1>1 DEF Script, GetConn, Publish, CmdCall
<1>2. FreeHooks => UNCHANGED vars
  BY DEF FreeHooks
<1>3. ASSUME NEW c \in Ids, RxEnds(c) PROVE RxReturns(c)
  BY <1>3 DEF RxEnds
<1> QED
  BY <1>1, <1>2, <1>3 DEF NextCommands, Next

LEMMA NextKeepsCallsInv ==
  ConnsInv /\ CallsInv /\ [NextCommands]_<<vars, commands>> => CallsInv'
<1> SUFFICES ASSUME ConnsInv, CallsInv, [NextCommands]_<<vars, commands>> PROVE CallsInv'
  OBVIOUS
<1>1. CASE UNCHANGED commands \/ FreeHooks
  <2>1. UNCHANGED <<call, sent>>
    BY <1>1 DEF commands, FreeHooks
  <2> QED
    BY <2>1, ScriptSteps, ConnectionsKeepCallsInv
<1>2. CASE \E t \in Callers : Script(t)
  BY <1>2, CmdCallKeepsInv, GetConnKeepsInv, PublishKeepsInv DEF Script
<1>3. CASE \E c \in Ids : RxEnds(c)
  BY <1>3, RxEndsKeepsInv
<1> QED
  BY <1>1, <1>2, <1>3, ScriptSteps

-----------------------------------------------------------------------------
(* The hooks are gone before terminate is called.                          *)
LEMMA HooksGoFirst ==
  ASSUME HooksInv, NextCommands \/ UNCHANGED <<vars, commands>>
  PROVE  hooks' \in BOOLEAN /\ (hooks' => hooks /\ pc' \notin {"stop", "done"})
<1> USE DEF HooksInv
<1>1. CASE (pc = "loop" => ~hooks) /\ Main /\ UNCHANGED commands
  BY <1>1 DEF Main, Reject, SkipDuplicate, Connect, ConnectFails, SetConnected, ConfigDone, Terminate,
              Destroy, DestroyDone, commands
<1>2. CASE FreeHooks
  BY <1>2 DEF FreeHooks
<1>3. ASSUME NEW c \in Ids, (Client(c) /\ UNCHANGED commands) \/ RxEnds(c)
      PROVE  UNCHANGED <<main, hooks>>
  BY <1>3 DEF Client, ComesUp, FailsToConnect, IsLost, OnConnect, Receive, OnRx, RxEnds, RxReturns,
              CallbackGoes, commands
<1>4. ASSUME NEW t \in Callers, Script(t) PROVE UNCHANGED <<main, hooks>>
  BY <1>4 DEF Script, GetConn, Publish, CmdCall, vars
<1>5. CASE UNCHANGED <<main, hooks>>
  BY <1>5 DEF main
<1>6. CASE (Finished /\ UNCHANGED commands) \/ UNCHANGED <<vars, commands>>
  BY <1>6, <1>5 DEF Finished, vars, commands
<1> QED
  BY <1>1, <1>2, <1>3, <1>4, <1>5, <1>6 DEF NextCommands

(* What the step of a caller makes of its own call, as long as there are   *)
(* hooks.                                                                  *)
LEMMA CallIsAnswered ==
  ASSUME ConnsInv, CallsInv, HooksInv, hooks, NEW t \in Callers,
         Script(t) \/ (t \in Ids /\ RxEnds(t))
  PROVE  /\ call'[t].pc # "idle" => IsCommand(call'[t].args)
         /\ call'[t].pc = "idle" /\ call'[t].args # <<>> =>
              (call'[t].answer.kind = "table" <=> IsCommand(call'[t].args))
<1>1. ASSUME Ends(t, Answer(ArgRows(call[t].args))), call[t].pc # "idle"
      PROVE  /\ call'[t].pc = "idle" /\ call'[t].args = call[t].args
             /\ call'[t].answer.kind = "table"
  <2>1. CallOf(t) /\ t \in DOMAIN call
    BY DEF CallsInv
  <2>2. call' = [call EXCEPT ![t] = [@ EXCEPT !.pc = "idle", !.conn = 0,
                                             !.answer = Answer(ArgRows(call[t].args))]]
    BY <1>1 DEF Ends
  <2> QED
    BY <2>1, <2>2, Outcomes DEF CallOf
<1>2. call[t].pc # "idle" => IsCommand(call[t].args)
  BY DEF HooksInv
<1>3. pc \notin {"stop", "done"} /\ freed = {}
  BY DEF HooksInv, ConnsInv, Destroyed, TypeOK
<1>4. ASSUME NEW args \in Calls, CmdCall(t, args)
      PROVE  /\ call'[t].args = args
             /\ call'[t].pc # "idle" => IsCommand(args)
             /\ call'[t].pc = "idle" /\ args # <<>> => (call'[t].answer.kind = "table" <=> IsCommand(args))
  <2>1. CASE /\ ~Hooked(args)
             /\ call'[t] = [pc |-> "idle", args |-> args, conn |-> 0, answer |-> Nothing]
    <3>1. args # <<>> => ~IsCommand(args)
      BY <2>1, HookedCommands
    <3>2. call'[t].args = args /\ call'[t].pc = "idle" /\ call'[t].answer.kind # "table"
      BY <2>1, Outcomes
    <3> QED
      BY <3>1, <3>2
  <2>2. CASE /\ Hooked(args)
             /\ call'[t] = [pc |-> "idle", args |-> args, conn |-> 0, answer |-> Answer(ArgRows(args))]
    <3>1. call'[t].args = args /\ call'[t].pc = "idle" /\ call'[t].answer.kind = "table"
      BY <2>2, Outcomes
    <3> QED
      BY <2>2, <3>1, HookedCommands
  <2>3. CASE /\ Hooked(args)
             /\ call'[t] = [pc |-> "find", args |-> args, conn |-> 0, answer |-> Nothing]
    <3>1. call'[t].args = args /\ call'[t].pc = "find"
      BY <2>3
    <3> QED
      BY <2>3, <3>1, HookedCommands
  <2> QED
    BY <1>4, <2>1, <2>2, <2>3, CmdCallCases
<1>5. CASE GetConn(t)
  <2>1. CASE Ends(t, Answer(ArgRows(call[t].args)))
    BY <1>1, <1>2, <1>5, <2>1, GetConnCases
  <2>2. CASE \E c \in Ids : call'[t] = [pc |-> "send", args |-> call[t].args, conn |-> c,
                                       answer |-> call[t].answer]
    <3>1. call[t].pc = "find"
      BY <1>5, GetConnCases
    <3>2. PICK c \in Ids : call'[t] = [pc |-> "send", args |-> call[t].args, conn |-> c,
                                      answer |-> call[t].answer]
      BY <2>2
    <3>3. call'[t].pc = "send" /\ call'[t].args = call[t].args
      BY <3>2
    <3> QED
      BY <1>2, <3>1, <3>3
  <2> QED
    BY <1>3, <1>5, <2>1, <2>2, GetConnCases
<1>6. CASE Publish(t)
  BY <1>1, <1>2, <1>3, <1>6, PublishSends
<1>7. CASE t \in Ids /\ RxEnds(t)
  BY <1>7, RxEndsKeepsInv, Outcomes
<1> QED
  BY <1>4, <1>5, <1>6, <1>7 DEF Script

LEMMA NextKeepsHooksInv ==
  ConnsInv /\ CallsInv /\ HooksInv /\ [NextCommands]_<<vars, commands>> => HooksInv'
<1> SUFFICES ASSUME ConnsInv, CallsInv, HooksInv, [NextCommands]_<<vars, commands>>
             PROVE  HooksInv'
  OBVIOUS
<1>1. hooks' \in BOOLEAN /\ (hooks' => hooks /\ pc' \notin {"stop", "done"})
  BY HooksGoFirst
<1>2. ASSUME hooks', NEW t \in Callers
      PROVE  /\ call'[t].pc # "idle" => IsCommand(call'[t].args)
             /\ call'[t].pc = "idle" /\ call'[t].args # <<>> =>
                  (call'[t].answer.kind = "table" <=> IsCommand(call'[t].args))
  <2>1. hooks
    BY <1>1, <1>2
  <2>2. CASE call'[t] = call[t]
    BY <2>1, <2>2 DEF HooksInv
  <2>3. CASE UNCHANGED commands \/ FreeHooks
    BY <2>2, <2>3 DEF commands, FreeHooks
  <2>4. ASSUME NEW u \in Callers, Script(u) \/ (u \in Ids /\ RxEnds(u)), u # t
        PROVE  call'[t] = call[t]
    <3>1. \E new : call' = [call EXCEPT ![u] = new]
      BY <2>4 DEF Script, GetConn, Publish, CmdCall, RxEnds, Ends
    <3> QED
      BY <2>4, <3>1 DEF CallsInv
  <2>5. CASE \E u \in Callers : Script(u) \/ (u \in Ids /\ RxEnds(u))
    BY <2>1, <2>2, <2>4, <2>5, CallIsAnswered
  <2>6. Ids \subseteq Callers
    BY DEF Callers
  <2> QED
    BY <2>3, <2>5, <2>6, ScriptSteps
<1> QED
  BY <1>1, <1>2 DEF HooksInv, IsCommand

LEMMA InitCalls == InitCommands => CallsInv /\ HooksInv
<1> SUFFICES ASSUME InitCommands PROVE CallsInv /\ HooksInv
  OBVIOUS
<1>1. call = [t \in Callers |-> NoCall] /\ sent = Unsent /\ hooks = TRUE /\ pc = "config"
  BY DEF InitCommands, Init
<1>2. Nothing \in Answers /\ Nothing.kind # "table" /\ 0 \notin Ids
  BY Outcomes DEF Answers
<1>3. ASSUME NEW t \in Callers PROVE CallOf(t) /\ call[t].pc = "idle" /\ call[t].args = <<>>
  <2>1. call[t] = [pc |-> "idle", args |-> <<>>, conn |-> 0, answer |-> Nothing]
    BY <1>1, Outcomes
  <2> QED
    BY <1>1, <1>2, <2>1, Outcomes DEF CallOf
<1>4. CallsInv
  BY <1>1, <1>3, Outcomes DEF CallsInv
<1> QED
  BY <1>1, <1>3, <1>4 DEF HooksInv

-----------------------------------------------------------------------------
(* The connections with scripts are the connections: every behaviour of    *)
(* the composition is one of MqttConns, fairness included.                 *)
THEOREM ScriptsRefineConns == SpecCommands => Spec
<1>1. InitCommands => Init
  BY DEF InitCommands
<1>2. [NextCommands]_<<vars, commands>> => [Next]_vars
  BY ScriptSteps
<1> QED
  BY <1>1, <1>2, PTL DEF SpecCommands, Spec

(* ConnsInv holds in every state of the connections, for sections of any   *)
(* length.                                                                 *)
THEOREM ConnsInvariance == Spec => []ConnsInv
BY InitConns, NextKeepsConnsInv, PTL DEF Spec

(* With the scripts' calls, all invariants hold; the one of the            *)
(* connections by the refinement.                                          *)
THEOREM CallsInvariance == SpecCommands => []ConnsInv /\ []CallsInv /\ []HooksInv
<1>1. SpecCommands => []ConnsInv
  BY ScriptsRefineConns, ConnsInvariance
<1> QED
  BY <1>1, InitCalls, NextKeepsCallsInv, NextKeepsHooksInv, PTL DEF SpecCommands

(* TypeOKCommands: a call that has found a connection, and no other, holds *)
(* one, whatever main does to the list meanwhile.                          *)
THEOREM TypeCorrect == SpecCommands => []TypeOKCommands
<1>1. ConnsInv /\ CallsInv /\ HooksInv => TypeOKCommands
  BY DEF ConnsInv, CallsInv, CallOf, HooksInv, TypeOKCommands
<1> QED
  BY <1>1, CallsInvariance, PTL

(* ConfigMeaning: process_cfg leaves exactly the connections that the      *)
(* section of the configuration means, for sections of any length.         *)
THEOREM ConfigIsMeant == SpecCommands => []ConfigMeaning
<1>1. ConnsInv => ConfigMeaning
  BY DEF ConnsInv
<1> QED
  BY <1>1, CallsInvariance, PTL

(* AnswerIsEcho: cmd_call hands every argument back as the text it is, for *)
(* arguments of any number and type; until the hooks are freed, it does so *)
(* for the commands that plugins have, and for no others.                  *)
THEOREM AnswersEcho == SpecCommands => []AnswerIsEcho
<1>1. ASSUME CallsInv, NEW t \in Callers, call[t].answer.kind = "table"
      PROVE  LET args == call[t].args
             IN /\ Len(call[t].answer.table) = Len(args) - 1
                /\ \A i \in 2..Len(args) :
                     call[t].answer.table[i - 1] = [key \in {"1"} |-> ToText(args[i])]
  <2> DEFINE args == call[t].args
  <2>1. /\ args \in Calls /\ args # <<>> /\ call[t].answer = Answer(ArgRows(args))
    BY <1>1 DEF CallsInv, CallOf
  <2>2. Len(args) \in Nat \ {0}
    BY <2>1, CallsAssumption
  <2> HIDE DEF args
  <2>3. /\ Len(Answer(ArgRows(args)).table) = Len(args) - 1
        /\ \A i \in 2..Len(args) :
             Answer(ArgRows(args)).table[i - 1] = [key \in {"1"} |-> ToText(args[i])]
    BY <2>2, AnswerEchoes
  <2> QED
    BY <2>1, <2>3 DEF args
<1>2. ASSUME HooksInv, NEW t \in Callers, call[t].pc = "idle", call[t].args # <<>>, hooks
      PROVE  call[t].answer.kind = "table" <=>
               Command(call[t].args) \in {<<"CMD_MQTT_PUBLISH">>, <<"CMD_LUA_CALL">>}
  BY <1>2 DEF HooksInv, IsCommand
<1>3. CallsInv /\ HooksInv => AnswerIsEcho
  BY <1>1, <1>2 DEF AnswerIsEcho
<1> QED
  BY <1>3, CallsInvariance, PTL

(* PublishedAsAsked: what a script gives to the client library is what the *)
(* call it is in asked for, on the first connection of that name, although *)
(* main may be adding and destroying connections meanwhile.                *)
THEOREM PublishesAsAsked == SpecCommands => PublishedAsAsked
<1>1. ConnsInv /\ CallsInv /\ [NextCommands]_<<vars, commands>> =>
        [sent' # sent => /\ call[sent'.by].pc = "send"
                         /\ Asked(call[sent'.by].args, sent')]_<<vars, commands>>
  <2> SUFFICES ASSUME ConnsInv, CallsInv, [NextCommands]_<<vars, commands>>, sent' # sent
               PROVE  call[sent'.by].pc = "send" /\ Asked(call[sent'.by].args, sent')
    OBVIOUS
  <2>1. CASE UNCHANGED commands \/ FreeHooks \/ \E c \in Ids : RxEnds(c)
    BY <2>1 DEF commands, FreeHooks, RxEnds
  <2>2. CASE \E u \in Callers : Script(u)
    <3>1. PICK u \in Callers : Script(u)
      BY <2>2
    <3>2. CASE Publish(u)
      BY <3>2, PublishSends
    <3>3. CASE GetConn(u) \/ \E args \in Calls : CmdCall(u, args)
      BY <3>3 DEF GetConn, CmdCall
    <3> QED
      BY <3>1, <3>2, <3>3 DEF Script
  <2> QED
    BY <2>1, <2>2, ScriptSteps
<1> QED
  BY <1>1, CallsInvariance, PTL DEF SpecCommands, PublishedAsAsked

-----------------------------------------------------------------------------
(* The safety half of LateConnectSubscribes; the other one is that         *)
(* mqtt_on_connect returns.                                                *)
SubscribedAfterCallback ==
  \A c \in Ids :
    link[c] = "up" /\ cameUp[c] = "late" /\ callback[c] # "connect" =>
      subscribed[c] = TopicsOf(c) \ refused[c]

(* It is kept by all the steps that OnConnect may overlap.                 *)
LEMMA NextKeepsSubscribed ==
  ConnsInv /\ SubscribedAfterCallback /\ [Next]_vars => SubscribedAfterCallback'
<1> SUFFICES ASSUME ConnsInv, SubscribedAfterCallback, [Next]_vars, NEW c \in Ids,
                    link'[c] = "up", cameUp'[c] = "late", callback'[c] # "connect"
             PROVE  subscribed'[c] = TopicsOf(c)' \ refused'[c]
  BY DEF SubscribedAfterCallback
<1>1. cfg' = cfg /\ TopicsOf(c)' = TopicsOf(c)
  BY CfgConstant
<1>2. TypeOK
  BY DEF ConnsInv
<1>3. CASE Main \/ UNCHANGED vars
  BY <1>1, <1>2, <1>3 DEF Main, Reject, SkipDuplicate, Connect, ConnectFails, SetConnected, ConfigDone,
         Terminate, Destroy, DestroyDone, client, vars, TypeOK, SubscribedAfterCallback
<1>4. ASSUME NEW d \in Ids, Client(d) \/ RxReturns(d) PROVE subscribed'[c] = TopicsOf(c) \ refused'[c]
  <2>1. CASE d # c
    BY <1>2, <1>4, <2>1 DEF Client, ComesUp, FailsToConnect, IsLost, OnConnect, Receive, OnRx, RxReturns,
                            CallbackGoes, TypeOK, SubscribedAfterCallback
  <2>2. CASE d = c
    BY <1>2, <1>4, <2>2 DEF Client, ComesUp, FailsToConnect, IsLost, OnConnect, Receive, OnRx, RxReturns,
                            CallbackGoes, TypeOK, SubscribedAfterCallback
  <2> QED
    BY <2>1, <2>2
<1> QED
  BY <1>1, <1>3, <1>4 DEF Next, Finished

(* Whenever mqtt_on_connect is not running, a connection that came up      *)
(* after its callback was set, and is up, is subscribed to all its topics  *)
(* but those whose own subscription failed, however often it was lost and  *)
(* came up again, also during the callback.                                *)
THEOREM LateOnesAreSubscribed == Spec => []SubscribedAfterCallback
<1>1. Init => SubscribedAfterCallback
  BY DEF Init, SubscribedAfterCallback
<1> QED
  BY <1>1, NextKeepsSubscribed, ConnsInvariance, PTL DEF Spec
=============================================================================
