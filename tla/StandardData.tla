---------------------------- MODULE StandardData ----------------------------
(***************************************************************************)
(* What becomes of the values of a Lua script on their way through the     *)
(* "standard data" that plugins exchange: rows of named columns, whose     *)
(* names and values are C strings.                                         *)
(*                                                                         *)
(* A text is a sequence of tokens: a word, a number, or Nul.  A Lua value  *)
(* is <<type, text>>, where type is "string", "number", "boolean" or       *)
(* "other", and text is what the value looks like, empty for "other".      *)
(***************************************************************************)
EXTENDS Naturals, Sequences, SequencesExt

Nul == "nul"

(* strdup and strlen: a C string ends before the first Nul.                *)
CText(text) ==
  LET i == SelectInSeq(text, LAMBDA token : token = Nul)
  IN IF i = 0 THEN text ELSE SubSeq(text, 1, i - 1)

(* The type checks of mink_lua_do_cmd_call.  Strings and numbers are read  *)
(* alike, booleans become "1" and "0", everything else is empty.           *)
ToText(value) ==
  CASE value[1] \in {"string", "number"} -> CText(value[2])
    [] value[1] = "boolean" -> value[2]
    [] value[1] = "other" -> <<>>

Column(name, value) == [name |-> name, value |-> value]

(* mink_lua_cmd_call: the first argument is the command, each of the       *)
(* others becomes a row of one column without a name.                      *)
Command(args) == ToText(args[1])

(* The rows of the arguments.                                              *)
ArgRows(args) == [i \in 1..Len(args) - 1 |-> <<Column("", ToText(args[i + 1]))>>]

(* The Lua table of a list of rows, for the results of cmd_call and for    *)
(* get_args: a column without a name gets the key 1, and the last column   *)
(* with a key decides.                                                     *)
Key(column) == IF column.name = "" THEN "1" ELSE column.name

RowTable(row) ==
  [k \in {Key(row[i]) : i \in 1..Len(row)} |->
     row[Max({i \in 1..Len(row) : Key(row[i]) = k})].value]

ToTable(rows) == [i \in 1..Len(rows) |-> RowTable(rows[i])]

-----------------------------------------------------------------------------
(* atoi is not 0: the text starts with a number other than 0.              *)
IsSet(text) == text # <<>> /\ text[1] = "1"

(* impl_mqtt_publish: the first column of the rows is the connection, the  *)
(* topic, the payload and, if there is a fourth one, the retain flag.      *)
Publishable(rows) == Len(rows) >= 3

Request(rows) ==
  [name |-> rows[1][1].value, topic |-> rows[2][1].value, payload |-> rows[3][1].value,
   retain |-> Len(rows) >= 4 /\ IsSet(rows[4][1].value)]
=============================================================================
