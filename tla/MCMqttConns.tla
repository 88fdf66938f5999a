---------------------------- MODULE MCMqttConns -----------------------------
(* Sections of up to two connections: equal and different names, all kinds *)
(* of last subscription, each check failing somewhere.  One topic is       *)
(* enough to tell a subscription from none, two to tell all from some.     *)
EXTENDS MqttCommands

CONSTANTS local, cloud, rx, cmd, text

Element(shape, name, subs) == [shape |-> shape, name |-> name, subs |-> subs]

Bad(shape) == Element(shape, cloud, <<>>)

MCConfigs ==
  {<<>>,
   <<Element("good", cloud, <<rx, cmd>>)>>,
   <<Element("good", local, <<>>), Element("good", local, <<rx>>)>>,
   <<Element("good", local, <<Object>>), Element("good", cloud, <<rx>>)>>,
   <<Element("good", local, <<cmd, Other>>), Element("good", cloud, <<rx>>)>>,
   <<Element("good", local, <<>>), Bad("missing")>>,
   <<Element("good", local, <<Object>>), Bad("wrong_type")>>}

(* Calls: publishing with the retain flag; with a payload that goes on     *)
(* after a Nul, without the flag; with too few values; the command of      *)
(* another plugin; one without a hook.  Callbacks publish.                 *)
Str(token) == <<"string", <<token>>>>
MCPublish(rest) == <<Str("CMD_MQTT_PUBLISH")>> \o rest

MCRxCalls == {MCPublish(<<Str(cloud), Str(rx), <<"number", <<"1">>>>, <<"boolean", <<"1">>>>>>)}

MCCalls == MCRxCalls \cup
  {MCPublish(<<Str(local), Str(rx), <<"string", <<text, Nul, text>>>>>>),
   MCPublish(<<Str(local)>>),
   <<Str("CMD_LUA_CALL"), <<"other", <<>>>>>>,
   <<Str("UNKNWON_COMMAND")>>}

(* All are well-formed.                                                    *)
GoodConfigs ==
  {<<Element("good", local, subs), Element("good", cloud, <<rx>>)>> :
     subs \in {<<>>, <<rx, cmd, Other>>, <<rx, Object>>}}
=============================================================================
