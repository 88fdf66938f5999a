---------------------------- MODULE AccessPolicy ----------------------------
(***************************************************************************)
(* What the authentication plugin of the MQTT broker promises: the broker  *)
(* may refuse any request, but grants one only if the table of users, at   *)
(* one moment between the request and its answer, allows it.               *)
(***************************************************************************)
CONSTANTS
  UserTables, \* tables: sets of rows [username, password, flags]
  Requests,   \* [op : {"unpwd"}, username, password] and [op : {"acl"}, username, topic]
  AdminTopics \* the topics below mink/admin/

VARIABLES
  users,   \* the table
  request, \* the last request
  allowed, \* somebody has looked at the table, and it allows the request
  answer   \* "none" before the first request, then "open", "grant" or "deny"

vars == <<users, request, allowed, answer>>

(* A client may log in with the password of its row.  Any user may use any *)
(* topic, but only one with the flag may use the topics of admins.         *)
Allowed(r) ==
  \E row \in users :
    /\ row.username = r.username
    /\ r.op = "unpwd" => row.password = r.password
    /\ r.op = "acl" /\ r.topic \in AdminTopics => row.flags = 1

Init ==
  /\ users \in UserTables
  /\ request \in Requests
  /\ allowed = FALSE
  /\ answer = "none"

ChangeUsers(table) ==
  /\ users' = table
  /\ UNCHANGED <<request, allowed, answer>>

(* A request comes in when the last one is answered.                       *)
Begin(r) ==
  /\ answer # "open"
  /\ request' = r
  /\ allowed' = FALSE
  /\ answer' \in {"open", "deny"}
  /\ UNCHANGED users

Look ==
  /\ answer = "open"
  /\ allowed' = Allowed(request)
  /\ UNCHANGED <<users, request, answer>>

Grant ==
  /\ answer = "open"
  /\ allowed
  /\ answer' = "grant"
  /\ UNCHANGED <<users, request, allowed>>

Deny ==
  /\ answer = "open"
  /\ answer' = "deny"
  /\ UNCHANGED <<users, request, allowed>>

Next ==
  \/ \E table \in UserTables : ChangeUsers(table)
  \/ \E r \in Requests : Begin(r)
  \/ Look \/ Grant \/ Deny

Spec == Init /\ [][Next]_vars
=============================================================================
