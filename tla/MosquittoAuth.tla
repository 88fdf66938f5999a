--------------------------- MODULE MosquittoAuth ----------------------------
(***************************************************************************)
(* The authentication plugin of the MQTT broker and the database module    *)
(* beneath it.  The broker is single-threaded: it initialises the plugin   *)
(* once and then calls the checks, one at a time.  Each check prepares an  *)
(* SQL statement, binds, steps, and finalizes it.  SQLite is external: any *)
(* call may fail.  The database is opened read-only; others change it at   *)
(* any time, also between two calls of one check.                          *)
(***************************************************************************)
EXTENDS Integers, Sequences

CONSTANTS
  UserTables,  \* tables of users: sets of rows [username, password, flags]
  Usernames,   \* user names that clients present
  Passwords,
  Topics,
  AdminTopics, \* the topics that begin with "mink/admin/"
  Null,        \* no user name or no password
  OptionLists, \* the plugin's options: sequences of [key, value]
  Databases,   \* values of options that can be opened
  MaxOpen      \* bound: statements that are open

ASSUME ConstantsAssumption ==
  /\ AdminTopics \subseteq Topics
  /\ Null \notin Usernames \cup Passwords \cup Databases
  /\ \A table \in UserTables : \A row \in table :
       row.username \in Usernames /\ row.password \in Passwords
  /\ MaxOpen \in Nat

VARIABLES
  users,   \* the user table of the database
  dbm,     \* the database that is open, or Null
  started, \* mosquitto_auth_plugin_init: "no", "success", "error"
  phase,   \* the call of SQLite that the check makes next, or "idle"
  stmts,   \* statements that were prepared and not finalized
  read,    \* what sqlite3_step returned to the check, and the columns of the row
  request, \* the last request
  answer   \* its answer: "grant" or "deny", "open" before; "none" without a request

vars == <<users, dbm, started, phase, stmts, read, request, answer>>

-----------------------------------------------------------------------------
Requests ==
  [op : {"unpwd"}, username : Usernames \cup {Null}, password : Passwords \cup {Null}]
  \cup [op : {"acl"}, username : Usernames \cup {Null}, topic : Topics]

(* Before the step, or if it finds no row: id and auth remain -1.          *)
NoRow == [kind |-> "none", auth |-> -1, flags |-> 0]

Init ==
  /\ users \in UserTables
  /\ dbm = Null
  /\ started = "no"
  /\ phase = "idle"
  /\ stmts = 0
  /\ read = NoRow
  /\ request \in Requests
  /\ answer = "none"

(* Options whose key begins with "db_name"; the last one counts.           *)
Named(opts) == {i \in 1..Len(opts) : opts[i].key \in {"db_name", "db_name_other"}}

DbName(opts) ==
  IF Named(opts) = {} THEN Null
  ELSE opts[CHOOSE i \in Named(opts) : \A j \in Named(opts) : j <= i].value

(* A database that cannot be opened fails the plugin.                      *)
PluginInit(opts) ==
  /\ started = "no"
  /\ dbm' = IF DbName(opts) \in Databases THEN DbName(opts) ELSE Null
  /\ started' = IF DbName(opts) \in Databases THEN "success" ELSE "error"
  /\ UNCHANGED <<users, phase, stmts, read, request, answer>>

(* The arguments that umdb_mngr_uauth and umdb_mngr_uget refuse.           *)
BadArguments(r) == dbm = Null \/ (r.op = "unpwd" /\ r.password = Null)

(* mosquitto_auth_unpwd_check and mosquitto_auth_acl_check.  Without a user *)
(* name, a database or a password no statement is prepared.                *)
Check(r) ==
  /\ phase = "idle"
  /\ request' = r
  /\ read' = NoRow
  /\ IF r.username = Null \/ BadArguments(r)
       THEN answer' = "deny" /\ UNCHANGED phase
       ELSE answer' = "open" /\ phase' = "prepare"
  /\ UNCHANGED <<users, dbm, started, stmts>>

-----------------------------------------------------------------------------
(* The calls of SQLite in their order.                                     *)

Prepare ==
  /\ phase = "prepare"
  /\ stmts < MaxOpen
  /\ stmts' = stmts + 1
  /\ phase' = "bind"
  /\ UNCHANGED <<users, dbm, started, read, request, answer>>

Goes(from, to) ==
  /\ phase = from
  /\ phase' = to
  /\ UNCHANGED <<users, dbm, started, stmts, read, request, answer>>

(* Rows of a user.  A query returns any of them first, if there are more.  *)
Rows(u) == {row \in users : row.username = u}

(* auth is 1 in every row of the join if the password is that of some row  *)
(* of the user; the other query has no such column.                        *)
Auth(r) ==
  IF r.op = "unpwd" /\ \E other \in Rows(r.username) : other.password = r.password THEN 1 ELSE 0

(* sqlite3_step: the table is as it is now.  A failure reads no row.       *)
Step ==
  /\ phase = "step"
  /\ phase' = "clear"
  /\ \/ Rows(request.username) = {} /\ read' = NoRow
     \/ read' = [NoRow EXCEPT !.kind = "error"]
     \/ \E row \in Rows(request.username) :
          read' = [kind |-> "row", auth |-> Auth(request), flags |-> row.flags]
  /\ UNCHANGED <<users, dbm, started, stmts, request, answer>>

(* sqlite3_reset reports the failure of the step once more.                *)
Reset == read.kind # "error" /\ Goes("reset", "finalize")

(* Mutant: a user that exists is taken for authenticated.                  *)
Granted_AnyPassword(r) ==
  /\ read.kind = "row"
  /\ r.op = "acl" /\ r.topic \in AdminTopics => read.flags = 1

(* What the check makes of the row that was read.                          *)
Granted(r) ==
  /\ read.kind = "row"
  /\ r.op = "unpwd" => read.auth = 1
  /\ r.op = "acl" /\ r.topic \in AdminTopics => read.flags = 1

Finalize ==
  /\ phase = "finalize"
  /\ phase' = "idle"
  /\ stmts' = stmts - 1
  /\ answer' = IF Granted(request) THEN "grant" ELSE "deny"
  /\ UNCHANGED <<users, dbm, started, read, request>>

(* Mutant: the statement is finalized before each return.                  *)
Freed_Always(p) == 1

(* A failed finalize frees the statement all the same.                     *)
Freed(p) == IF p = "finalize" THEN 1 ELSE 0

(* One of the calls fails.  The early return denies, and leaves the        *)
(* statement if it was prepared before.                                    *)
Fails ==
  /\ phase \in {"prepare", "bind", "clear", "reset", "finalize"}
  /\ phase' = "idle"
  /\ stmts' = stmts - Freed(phase)
  /\ answer' = "deny"
  /\ UNCHANGED <<users, dbm, started, read, request>>

(* An administrator edits the database.                                    *)
ChangeUsers(table) ==
  /\ users' = table
  /\ UNCHANGED <<dbm, started, phase, stmts, read, request, answer>>

Next ==
  \/ \E opts \in OptionLists : PluginInit(opts)
  \/ \E r \in Requests : Check(r)
  \/ Prepare \/ Goes("bind", "step") \/ Step \/ Goes("clear", "reset") \/ Reset \/ Finalize
  \/ Fails
  \/ \E table \in UserTables : ChangeUsers(table)

Spec == Init /\ [][Next]_vars

-----------------------------------------------------------------------------
TypeOK ==
  /\ users \in UserTables
  /\ dbm \in Databases \cup {Null}
  /\ started \in {"no", "success", "error"}
  /\ started = "success" <=> dbm # Null
  /\ phase \in {"idle", "prepare", "bind", "step", "clear", "reset", "finalize"}
  /\ phase = "idle" <=> answer # "open"
  /\ stmts \in 0..MaxOpen
  /\ phase \notin {"idle", "prepare"} => stmts > 0
  /\ read.kind \in {"none", "row", "error"} /\ read.auth \in {-1, 0, 1}
  /\ phase \in {"prepare", "bind", "step"} => read = NoRow
  /\ request \in Requests
  /\ answer \in {"none", "open", "grant", "deny"}

-----------------------------------------------------------------------------
(* The table allows a request if the check has read so.                    *)
Policy == INSTANCE AccessPolicy WITH allowed <- Granted(request)

(* The plugin fails closed: whatever SQLite does, and however the users    *)
(* change between two requests or during one, it grants what the policy    *)
(* allowed at the moment it looked, and nothing else.                      *)
ImplementsPolicy == Policy!Spec
=============================================================================
