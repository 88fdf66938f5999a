----------------------------- MODULE MCLuaEnvs ------------------------------
(* Every section of up to three elements taken from a list in which names  *)
(* collide, events overlap, and each check fails for some element.         *)
EXTENDS LuaEnvs

CONSTANTS rx, tick, poll, init

Element(name, interval, auto_start, events, loads) ==
  [shape |-> "good", name |-> name, interval |-> interval,
   auto_start |-> auto_start, events |-> events, loads |-> loads]

Bad(shape) ==
  [shape |-> shape, name |-> init, interval |-> 0, auto_start |-> TRUE,
   events |-> {rx}, loads |-> TRUE]

Good ==
  {Element(poll, 5, TRUE, {rx}, TRUE),
   Element(poll, 0, TRUE, {rx, tick}, TRUE),
   Element(init, -1, TRUE, {tick}, FALSE),
   Element(init, -1, TRUE, {}, TRUE),
   Element(CmdCall, 5, TRUE, {tick}, TRUE)}

Elements ==
  Good \cup {Bad("no_object"), Element(init, 5, FALSE, {tick}, TRUE),
              Element(poll, 0, FALSE, {}, TRUE)}

MCConfigs ==
  {NoSection, NotObject}
  \cup [cmd_call : BOOLEAN, envs : {<<>>}]
  \cup [cmd_call : BOOLEAN, envs : Elements \X Elements]
  \cup [cmd_call : {TRUE}, envs : {<<Bad(shape)>> : shape \in
          {"missing", "wrong_type", "no_script", "no_seek", "empty_script"}}]
  \cup [cmd_call : {FALSE}, envs : Good \X Good \X Elements]
=============================================================================
