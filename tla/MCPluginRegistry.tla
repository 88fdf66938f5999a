-------------------------- MODULE MCPluginRegistry --------------------------
(* Five files: two that share a command with a third, one without commands *)
(* (which loads again and again), one that lacks a symbol.                 *)
EXTENDS PluginRegistry

CONSTANTS lua, mqtt, both, quiet, broken, c1, c2, s1, s2

MCFiles == {lua, mqtt, both, quiet, broken}

MCCOMMANDS ==
  [f \in MCFiles |->
     CASE f = lua -> {c1} [] f = mqtt -> {c2} [] f = both -> {c1, c2} [] OTHER -> {}]

MCRegisters ==
  [f \in MCFiles |-> IF f = lua THEN {s1, s2} ELSE IF f \in {both, quiet} THEN {s1} ELSE {}]
=============================================================================
