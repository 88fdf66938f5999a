------------------------ MODULE MosquittoAuthProofs -------------------------
(***************************************************************************)
(* Proofs about MosquittoAuth for any tables of users, any names, options  *)
(* and topics, and any failure of SQLite.                                  *)
(***************************************************************************)
EXTENDS MosquittoAuth, TLAPS

USE DEF vars

(* The steps of a check after its first one.                               *)
QuerySteps == Prepare \/ Goes("bind", "step") \/ Step \/ Goes("clear", "reset") \/ Reset \/ Finalize \/ Fails

(* They open and close at most the check's own statement.                  *)
LEMMA QueryKeepsType ==
  ASSUME TypeOK, QuerySteps
  PROVE  TypeOK'
<1> USE DEF TypeOK
<1>1. CASE Prepare
  <2>1. stmts' \in 0..MaxOpen /\ stmts' > 0
    BY <1>1, ConstantsAssumption DEF Prepare
  <2> QED
    BY <1>1, <2>1 DEF Prepare
<1>2. CASE Goes("bind", "step") \/ Goes("clear", "reset") \/ Reset
  BY <1>2 DEF Goes, Reset
<1>3. CASE Step
  <2>1. read'.kind \in {"none", "row", "error"} /\ read'.auth \in {-1, 0, 1}
    BY <1>3 DEF Step, NoRow, Auth
  <2> QED
    BY <1>3, <2>1 DEF Step
<1>4. CASE Finalize
  <2>1. stmts' \in 0..MaxOpen
    BY <1>4, ConstantsAssumption DEF Finalize
  <2> QED
    BY <1>4, <2>1 DEF Finalize
<1>5. CASE Fails
  <2>1. stmts' \in 0..MaxOpen
    BY <1>5, ConstantsAssumption DEF Fails, Freed
  <2> QED
    BY <1>5, <2>1 DEF Fails
<1> QED
  BY <1>1, <1>2, <1>3, <1>4, <1>5 DEF QuerySteps

(* Every variable keeps its type, the plugin has a database exactly if it  *)
(* was started, and the statement that a check works on is open.           *)
THEOREM TypeCorrect == Spec => []TypeOK
<1>1. Init => TypeOK
  BY ConstantsAssumption DEF Init, TypeOK, NoRow
<1>2. TypeOK /\ [Next]_vars => TypeOK'
  <2> SUFFICES ASSUME TypeOK, [Next]_vars PROVE TypeOK'
    OBVIOUS
  <2>1. ASSUME NEW opts \in OptionLists, PluginInit(opts) PROVE TypeOK'
    <3>1. CASE DbName(opts) \in Databases
      <4>1. dbm' = DbName(opts) /\ started' = "success" /\ dbm' # Null
        BY <2>1, <3>1, ConstantsAssumption DEF PluginInit
      <4> QED
        BY <2>1, <3>1, <4>1 DEF PluginInit, TypeOK
    <3>2. CASE DbName(opts) \notin Databases
      BY <2>1, <3>2 DEF PluginInit, TypeOK
    <3> QED
      BY <3>1, <3>2
  <2>2. ASSUME NEW r \in Requests, Check(r) PROVE TypeOK'
    BY <2>2 DEF Check, NoRow, TypeOK
  <2>3. ASSUME NEW table \in UserTables, ChangeUsers(table) PROVE TypeOK'
    BY <2>3 DEF ChangeUsers, TypeOK
  <2>4. CASE UNCHANGED vars
    BY <2>4 DEF TypeOK
  <2> QED
    BY <2>1, <2>2, <2>3, <2>4, QueryKeepsType DEF Next, QuerySteps
<1> QED
  BY <1>1, <1>2, PTL DEF Spec

-----------------------------------------------------------------------------
(* What the step has read allows a request only if the table does, as it   *)
(* is at that moment.                                                      *)
LEMMA ReadsThePolicy ==
  ASSUME Step, Granted(request)'
  PROVE  Policy!Allowed(request)
<1>1. /\ request' = request /\ read'.kind = "row"
      /\ request.op = "unpwd" => read'.auth = 1
      /\ request.op = "acl" /\ request.topic \in AdminTopics => read'.flags = 1
  BY DEF Granted, Step
<1>2. PICK row \in Rows(request.username) :
        read' = [kind |-> "row", auth |-> Auth(request), flags |-> row.flags]
  BY <1>1 DEF Step, NoRow
<1>3. row \in users /\ row.username = request.username
  BY DEF Rows
<1>4. CASE request.op = "unpwd"
  <2>1. PICK other \in Rows(request.username) : other.password = request.password
    BY <1>1, <1>2, <1>4 DEF Auth
  <2>2. other \in users /\ other.username = request.username
    BY DEF Rows
  <2> QED
    BY <1>4, <2>1, <2>2 DEF Policy!Allowed
<1>5. CASE request.op # "unpwd"
  BY <1>1, <1>2, <1>3, <1>5 DEF Policy!Allowed
<1> QED
  BY <1>4, <1>5

(* ImplementsPolicy, the refinement: the plugin fails closed.  Every       *)
(* request it grants was allowed by the users in the database when its     *)
(* statement was stepped, and a change of the users later in the check     *)
(* makes no difference.                                                    *)
THEOREM FailsClosed == Spec => ImplementsPolicy
<1> DEFINE verdict == Granted(request)
<1>1. Init => Policy!Init
  BY DEF Init, Policy!Init, Granted, NoRow
<1>2. TypeOK /\ [Next]_vars => [Policy!Next]_(Policy!vars)
  <2> SUFFICES ASSUME TypeOK, [Next]_vars PROVE [Policy!Next]_(Policy!vars)
    OBVIOUS
  <2>1. ASSUME UNCHANGED <<users, read, request, answer>> PROVE UNCHANGED Policy!vars
    BY <2>1 DEF Policy!vars, Granted
  <2>2. ASSUME NEW opts \in OptionLists, PluginInit(opts)
        PROVE  UNCHANGED Policy!vars
    BY <2>1, <2>2 DEF PluginInit
  <2>3. ASSUME NEW r \in Requests, Check(r)
        PROVE  Policy!Next
    <3>1. answer # "open" /\ request' = r /\ answer' \in {"open", "deny"} /\ UNCHANGED users
      BY <2>3 DEF Check, TypeOK
    <3>2. verdict' = FALSE
      BY <2>3 DEF Check, NoRow, Granted
    <3> QED
      BY <3>1, <3>2 DEF Policy!Next, Policy!Begin
  <2>4. CASE Prepare \/ Goes("bind", "step") \/ Goes("clear", "reset") \/ Reset
    BY <2>1, <2>4 DEF Prepare, Goes, Reset
  <2>5. CASE Step
    <3>1. answer = "open" /\ UNCHANGED <<users, request, answer>>
      BY <2>5 DEF Step, TypeOK
    <3>2. verdict' \in BOOLEAN /\ verdict = FALSE
      BY <2>5 DEF Granted, Step, TypeOK, NoRow
    <3>3. CASE verdict'
      <4>1. Policy!Allowed(request) /\ Policy!Allowed(request) \in BOOLEAN
        BY <2>5, <3>3, ReadsThePolicy DEF Policy!Allowed
      <4>2. verdict' = Policy!Allowed(request)
        BY <3>2, <3>3, <4>1
      <4> QED
        BY <3>1, <4>2 DEF Policy!Next, Policy!Look
    <3>4. CASE ~verdict'
      BY <3>1, <3>2, <3>4 DEF Policy!vars
    <3> QED
      BY <3>3, <3>4
  <2>6. CASE Finalize \/ Fails
    <3>1. answer = "open" /\ UNCHANGED <<users, request>> /\ verdict' = verdict
          /\ (answer' = "deny" \/ (answer' = "grant" /\ verdict))
      BY <2>6 DEF Finalize, Fails, TypeOK, Granted
    <3> QED
      BY <3>1 DEF Policy!Next, Policy!Grant, Policy!Deny
  <2>7. ASSUME NEW table \in UserTables, ChangeUsers(table)
        PROVE  Policy!Next
    <3>1. verdict' = verdict
      BY <2>7 DEF ChangeUsers, Granted
    <3> QED
      BY <2>7, <3>1 DEF ChangeUsers, Policy!Next, Policy!ChangeUsers
  <2>8. CASE UNCHANGED vars
    BY <2>1, <2>8
  <2> QED
    BY <2>2, <2>3, <2>4, <2>5, <2>6, <2>7, <2>8 DEF Next
<1> QED
  BY <1>1, <1>2, TypeCorrect, PTL DEF Spec, ImplementsPolicy, Policy!Spec
=============================================================================
