---------------------------- MODULE LuaEnvsProofs ----------------------------
(***************************************************************************)
(* Proofs about LuaEnvs, for any configurations of any number of elements, *)
(* with any names, events and intervals, and for any order of the steps of *)
(* the main thread and the environments' threads.                          *)
(***************************************************************************)
EXTENDS LuaEnvs, TLAPS

-----------------------------------------------------------------------------
(* Where the main thread is in the elements and in the table, and what it  *)
(* has not done yet.                                                       *)
Positions ==
  /\ pc = "config" => ret = 0 /\ (IF cfg \in Missing THEN next = 0 ELSE next \in 0..Len(cfg.envs) + 1)
  /\ pc \in {"start", "stop"} => next \in 1..Len(table) + 1
  /\ pc = "loop" => next = 1
  /\ pc \in {"config", "start", "loop"} => freed = {}

(* The table lists elements of the configuration in their order, each once.*)
TableOrdered ==
  /\ Listed \subseteq Envs /\ Listed \subseteq Entries \cup {0}
  /\ \A i, j \in 1..Len(table) : i < j => table[i] < table[j]
  /\ pc = "config" => \A e \in Listed : e < next

(* A thread was created for an environment in the table that is to be      *)
(* started, and before the main thread went on to the next one.            *)
ThreadsInTable ==
  \A e \in Envs : thread[e] # "none" =>
    /\ pc # "config"
    /\ ToStart(e)
    /\ e \in Listed
    /\ pc = "start" => \E i \in 1..next - 1 : table[i] = e

(* A script has run in a thread that is in its loop or has left it.        *)
RunsInLoop ==
  \A e \in Envs : runs[e] # 0 =>
    /\ thread[e] \in {"check", "script", "sleep", "ended"}
    /\ Interval(e) = 0 => thread[e] = "ended" /\ runs[e] = 1

Quiet == {"none", "ended", "failed"}

(* The threads of the environments that shutdown_lua_envs has passed have  *)
(* ended.                                                                  *)
JoinedInOrder ==
  /\ \A e \in freed : thread[e] \in Quiet
  /\ pc = "stop" => \A i \in 1..next - 1 : thread[table[i]] \in Quiet
  /\ pc = "done" => \A i \in 1..Len(table) : thread[table[i]] \in Quiet

ThreadInv == TypeOK /\ Positions /\ TableOrdered /\ ThreadsInTable /\ RunsInLoop /\ JoinedInOrder

(* What the elements before next have left, as long as there are any left: *)
(* ConfigMeaning for a part of the elements.  Every name of an element     *)
(* that was passed is in the table.                                        *)
Passed == {e \in Entries : e < next}

MeaningOf(elements) ==
  /\ Listed = {e \in elements :
                 /\ \A f \in elements : f < e => Name(f) # Name(e)
                 /\ ~(cfg.cmd_call /\ Name(e) = CmdCall)}
              \cup (IF cfg.cmd_call THEN {0} ELSE {})
  /\ \A s \in Signals :
       IF \E e \in elements : Serves(e, s)
         THEN /\ handler[s] \in elements
              /\ Serves(handler[s], s) /\ Loads(handler[s])
              /\ \A e \in elements : Serves(e, s) => handler[s] <= e
         ELSE handler[s] = NoEnv

ScanMeaning ==
  pc = "config" /\ cfg \notin Missing =>
    /\ \A e \in Passed : cfg.envs[e].shape = "good"
    /\ IF next = 0
         THEN table = <<>> /\ \A s \in Signals : handler[s] = NoEnv
         ELSE MeaningOf(Passed)
    /\ \A f \in initFailed : f[1] \in Passed
    /\ \A e \in Passed : \E f \in Listed : Name(f) = Name(e)

MeaningInv == ScanMeaning /\ ConfigMeaning

USE ConfigsAssumption

-----------------------------------------------------------------------------
(* lenvm_new_envd: the environment is appended unless its name is taken.   *)
LEMMA TableGrows ==
  ASSUME table \in Seq(Envs), NEW e \in Envs, table' = TableWith(e)
  PROVE  /\ table' \in Seq(Envs) /\ Len(table) \in Nat
         /\ \/ /\ \E f \in Listed : Name(f) = Name(e)
               /\ table' = table /\ Listed' = Listed
            \/ /\ \A f \in Listed : Name(f) # Name(e)
               /\ Len(table') = Len(table) + 1
               /\ \A i \in 1..Len(table) : table'[i] = table[i]
               /\ table'[Len(table) + 1] = e
               /\ Listed' = Listed \cup {e}
<1>1. CASE \E f \in Listed : Name(f) = Name(e)
  <2>1. table' = table
    BY <1>1 DEF TableWith
  <2> QED
    BY <1>1, <2>1 DEF Listed
<1>2. CASE \A f \in Listed : Name(f) # Name(e)
  <2>1. table' = Append(table, e)
    BY <1>2 DEF TableWith
  <2>2. /\ table' \in Seq(Envs) /\ Len(table) \in Nat
        /\ Len(table') = Len(table) + 1
        /\ \A i \in 1..Len(table) : table'[i] = table[i]
        /\ table'[Len(table) + 1] = e
    BY <2>1
  <2>3. \A i \in 1..Len(table') : i \in 1..Len(table) \/ i = Len(table) + 1
    BY <2>2
  <2>4. Len(table) + 1 \in 1..Len(table') /\ \A i \in 1..Len(table) : i \in 1..Len(table')
    BY <2>2
  <2>5. Listed' = Listed \cup {e}
    BY <2>2, <2>3, <2>4 DEF Listed
  <2> QED
    BY <1>2, <2>2, <2>5
<1> QED
  BY <1>1, <1>2

(* What is in the table was put there at some position.                    *)
LEMMA InTable ==
  ASSUME TypeOK, TableOrdered, NEW i \in 1..Len(table)
  PROVE  table[i] \in Listed /\ table[i] \in Envs /\ table[i] \in Entries \cup {0}
BY DEF Listed, TableOrdered

(* Positions in the table tell environments apart.                         *)
LEMMA TableInjective ==
  ASSUME TypeOK, TableOrdered, NEW i \in 1..Len(table), NEW j \in 1..Len(table),
         table[i] = table[j]
  PROVE  i = j
<1>1. table[i] \in Nat
  BY InTable DEF Envs
<1>2. ~(i < j) /\ ~(j < i)
  BY <1>1 DEF TableOrdered
<1> QED
  BY <1>2

(* The steps of the threads change where a thread is and how often its     *)
(* script ran, and nothing else.                                           *)
LEMMA ThreadSteps ==
  ASSUME TypeOK, NEW e \in Envs, Thread(e)
  PROVE  /\ UNCHANGED <<cfg, pc, next, ret, table, freed, handler, initFailed, terminated>>
         /\ \A f \in Envs \ {e} : thread'[f] = thread[f] /\ runs'[f] = runs[f]
         /\ thread[e] \in {"load", "check", "script", "sleep"}
         /\ thread'[e] \in {"check", "script", "sleep", "ended"}
         /\ runs' \in [Envs -> 0..2] /\ thread' \in [Envs -> {"none", "load", "check", "script", "sleep", "ended", "failed"}]
         /\ \/ runs'[e] = runs[e] /\ thread[e] # "script"
            \/ /\ thread[e] = "script" /\ thread'[e] = AfterRun(e)
               /\ runs'[e] = IF runs[e] < 2 THEN runs[e] + 1 ELSE runs[e]
<1>1. CASE Load(e)
  BY <1>1 DEF Load, Moves, TypeOK
<1>2. CASE Check(e)
  BY <1>2 DEF Check, Moves, TypeOK
<1>3. CASE RunScript(e)
  <2>1. AfterRun(e) \in {"ended", "sleep"}
    BY DEF AfterRun
  <2> QED
    BY <1>3, <2>1 DEF RunScript, Moves, TypeOK
<1>4. CASE Sleep(e)
  BY <1>4 DEF Sleep, Moves, TypeOK
<1> QED
  BY <1>1, <1>2, <1>3, <1>4 DEF Thread

-----------------------------------------------------------------------------
LEMMA InitThreadInv == Init => ThreadInv
<1> SUFFICES ASSUME Init PROVE ThreadInv
  OBVIOUS
<1>1. Len(table) = 0 /\ Listed = {} /\ table \in Seq(Envs)
  BY DEF Init, Listed
<1>2. TypeOK
  <2>1. \A e \in Entries : Interval(e) \in Nat
    BY DEF Init, Entries, Interval
  <2>2. /\ handler \in [Signals -> Envs \cup {NoEnv}]
        /\ thread \in [Envs -> {"none", "load", "check", "script", "sleep", "ended", "failed"}]
        /\ runs \in [Envs -> 0..2]
    BY DEF Init
  <2> QED
    BY <1>1, <2>1, <2>2 DEF Init, TypeOK
<1>3. Positions
  BY DEF Init, Positions
<1>4. TableOrdered /\ ThreadsInTable /\ RunsInLoop /\ JoinedInOrder
  BY <1>1 DEF Init, TableOrdered, ThreadsInTable, RunsInLoop, JoinedInOrder
<1> QED
  BY <1>2, <1>3, <1>4 DEF ThreadInv

(* The configuration does not change, nor does what its elements say.      *)
LEMMA CfgConstant ==
  ASSUME TypeOK, [Next]_vars
  PROVE  cfg' = cfg /\ Entries' = Entries
<1>1. cfg' = cfg
  <2>1. ASSUME NEW e \in Envs, Thread(e) PROVE cfg' = cfg
    BY <2>1, ThreadSteps
  <2> QED
    BY <2>1 DEF Next, vars, Main, Sigterm, Finished, ConfigMissing, ConfigCmdCall, ConfigEntry,
                ConfigReject, ConfigDone, StartEnv, StartDone, Terminate, JoinCrashes, StopEnv, StopDone
<1> QED
  BY <1>1 DEF Entries

(* Only a signal that was tried can have failed.                           *)
LEMMA FailuresAreTried ==
  ASSUME NEW e, NEW failed \in FailedInits(e)
  PROVE  /\ failed \subseteq Tried(e) /\ Tried(e) \subseteq Signals
         /\ ~Loads(e) => failed = Tried(e)
BY DEF FailedInits, Tried

(* The steps of the configuration, which may add one environment.          *)
LEMMA ConfigKeepsThreadInv ==
  ASSUME ThreadInv,
         ConfigMissing \/ ConfigCmdCall \/ ConfigEntry \/ ConfigReject \/ ConfigDone
  PROVE  ThreadInv'
<1> USE DEF ThreadInv
<1>1. /\ TypeOK /\ Positions /\ TableOrdered /\ ThreadsInTable /\ RunsInLoop
      /\ pc = "config" /\ cfg' = cfg /\ Entries' = Entries
      /\ thread' = thread /\ runs' = runs /\ freed' = freed /\ terminated' = terminated
  BY CfgConstant DEF Next, Main, ConfigMissing, ConfigCmdCall, ConfigEntry, ConfigReject, ConfigDone
<1>2. freed = {} /\ \A e \in Envs : thread[e] = "none" /\ runs[e] = 0
  <2>1. \A e \in Envs : thread[e] = "none"
    BY <1>1 DEF ThreadsInTable
  <2> QED
    BY <1>1, <2>1 DEF Positions, RunsInLoop
<1>3. \A e \in Envs : Interval(e)' = Interval(e)
  BY <1>1 DEF Interval
<1>4. ThreadsInTable' /\ RunsInLoop' /\ JoinedInOrder'
  BY <1>1, <1>2 DEF ThreadsInTable, RunsInLoop, JoinedInOrder, Quiet,
     ConfigMissing, ConfigCmdCall, ConfigEntry, ConfigReject, ConfigDone
<1>5. /\ cfg \notin Missing => Len(cfg.envs) \in 0..MaxEnvs
      /\ Entries \subseteq Envs /\ 0 \in Envs
  BY <1>1 DEF Entries, Envs, TypeOK
<1>6. CASE ConfigMissing \/ ConfigReject \/ ConfigDone
  <2>1. table' = table /\ handler' = handler /\ pc' = "start" /\ next' = 1
    BY <1>6 DEF ConfigMissing, ConfigReject, ConfigDone
  <2>2. ret' \in {0, 2, 3, 4, 5, 6, 7, 8}
    <3>1. ASSUME ConfigReject PROVE ret' \in {4, 5, 6, 7, 8}
      <4>1. /\ next \in 1..Len(cfg.envs) /\ cfg \in Configs \ Missing
            /\ cfg.envs[next].shape # "good" /\ ret' = Code(cfg.envs[next].shape)
        BY <1>1, <3>1 DEF ConfigReject, Entries, TypeOK
      <4> QED
        BY <4>1 DEF Code
    <3> QED
      BY <1>1, <1>6, <3>1 DEF ConfigMissing, ConfigDone, TypeOK
  <2>3. TypeOK'
    <3>1. initFailed' = initFailed
      BY <1>6 DEF ConfigMissing, ConfigReject, ConfigDone
    <3> QED
      BY <1>1, <1>3, <1>5, <2>1, <2>2, <3>1 DEF TypeOK
  <2>4. Positions'
    BY <1>1, <1>2, <2>1 DEF Positions, TypeOK
  <2>5. TableOrdered'
    BY <1>1, <2>1 DEF TableOrdered, Listed
  <2> QED
    BY <1>4, <2>3, <2>4, <2>5
<1>7. CASE ConfigCmdCall \/ ConfigEntry
  <2>1. PICK e \in Envs : /\ e = next /\ (table' = table \/ table' = TableWith(e))
                          /\ pc' = "config" /\ next' = next + 1 /\ ret' = ret
                          /\ cfg \notin Missing /\ (e \in Entries \/ e = 0)
    BY <1>1, <1>5, <1>7 DEF ConfigCmdCall, ConfigEntry, Entries
  <2>2. /\ table' \in Seq(Envs) /\ Len(table) \in Nat
        /\ \/ table' = table /\ Listed' = Listed
           \/ /\ Len(table') = Len(table) + 1
              /\ \A i \in 1..Len(table) : table'[i] = table[i]
              /\ table'[Len(table) + 1] = e
              /\ Listed' = Listed \cup {e}
    <3>1. CASE table' = table
      BY <1>1, <3>1 DEF Listed, TypeOK
    <3>2. CASE table' = TableWith(e)
      BY <1>1, <3>2, TableGrows DEF TypeOK
    <3> QED
      BY <2>1, <3>1, <3>2
  <2>3. handler' \in [Signals -> Envs \cup {NoEnv}] /\ initFailed' \subseteq Envs \X Signals
    BY <1>1, <1>5, <1>7, <2>1, FailuresAreTried DEF ConfigCmdCall, ConfigEntry, Registered, TypeOK
  <2>4. TypeOK'
    BY <1>1, <1>3, <1>5, <2>1, <2>2, <2>3 DEF TypeOK
  <2>5. Positions'
    BY <1>1, <1>2, <1>5, <2>1 DEF Positions, Entries
  <2>6. TableOrdered'
    <3>1. /\ Listed' \subseteq Envs /\ Listed' \subseteq Entries' \cup {0}
          /\ \A f \in Listed' : f < next'
      <4>1. Listed' \subseteq Listed \cup {e} /\ e < next' /\ next' = next + 1 /\ next \in Nat
        BY <1>1, <2>1, <2>2 DEF TypeOK
      <4>2. \A f \in Listed : f \in Nat /\ f < next
        BY <1>1 DEF TableOrdered, Envs
      <4> QED
        BY <1>1, <1>5, <2>1, <4>1, <4>2 DEF TableOrdered
    <3>2. \A i \in 1..Len(table) : table[i] < e
      BY <1>1, <2>1, InTable DEF TableOrdered
    <3>3. \A i, j \in 1..Len(table') : i < j => table'[i] < table'[j]
      <4>1. CASE table' = table
        BY <1>1, <4>1 DEF TableOrdered
      <4>2. CASE Len(table') = Len(table) + 1
        <5> SUFFICES ASSUME NEW i \in 1..Len(table'), NEW j \in 1..Len(table'), i < j
                     PROVE  table'[i] < table'[j]
          OBVIOUS
        <5>1. i \in 1..Len(table) /\ (j \in 1..Len(table) \/ j = Len(table) + 1)
          BY <2>2, <4>2
        <5>2. table'[i] = table[i]
          BY <2>2, <4>2, <5>1
        <5>3. CASE j \in 1..Len(table)
          BY <1>1, <2>2, <4>2, <5>1, <5>2, <5>3 DEF TableOrdered
        <5>4. CASE j = Len(table) + 1
          BY <2>2, <3>2, <4>2, <5>1, <5>2, <5>4
        <5> QED
          BY <5>1, <5>3, <5>4
      <4> QED
        BY <2>2, <4>1, <4>2
    <3> QED
      BY <3>1, <3>3 DEF TableOrdered
  <2> QED
    BY <1>4, <2>4, <2>5, <2>6
<1> QED
  BY <1>6, <1>7

(* process_lua_envs: a thread is created for an environment that has none. *)
LEMMA StartKeepsThreadInv ==
  ASSUME ThreadInv, StartEnv \/ StartDone
  PROVE  ThreadInv'
<1> USE DEF ThreadInv
<1>1. /\ TypeOK /\ Positions /\ TableOrdered /\ ThreadsInTable /\ RunsInLoop
      /\ pc = "start" /\ pc' \in {"start", "loop"} /\ freed = {} /\ next \in 1..Len(table) + 1
      /\ UNCHANGED <<cfg, table, runs, freed, ret, handler, initFailed, terminated>>
  BY DEF StartEnv, StartDone, Positions
<1>2. /\ Listed' = Listed /\ Entries' = Entries
      /\ \A e : Interval(e)' = Interval(e) /\ ToStart(e)' = ToStart(e)
  BY <1>1 DEF Listed, Entries, Interval, ToStart, Name, Active
<1>3. TableOrdered'
  BY <1>1, <1>2 DEF TableOrdered
<1>4. CASE StartEnv
  <2> DEFINE e == table[next]
  <2>1. /\ next \in 1..Len(table) /\ pc' = "start" /\ next' = next + 1
        /\ e \in Envs /\ e \in Listed /\ Len(table) \in Nat
    BY <1>1, <1>4, InTable DEF StartEnv, TypeOK
  <2>2. thread[e] = "none"
    <3> SUFFICES ASSUME thread[e] # "none" PROVE FALSE
      OBVIOUS
    <3>1. PICK i \in 1..next - 1 : table[i] = e
      BY <1>1, <2>1 DEF ThreadsInTable
    <3>2. i \in 1..Len(table) /\ i # next
      BY <2>1, <3>1
    <3> QED
      BY <1>1, <2>1, <3>1, <3>2, TableInjective
  <2>3. /\ thread' \in [Envs -> {"none", "load", "check", "script", "sleep", "ended", "failed"}]
        /\ \A f \in Envs \ {e} : thread'[f] = thread[f]
        /\ thread'[e] # "none" => ToStart(e)
    BY <1>1, <1>4, <2>1, <2>2 DEF StartEnv, TypeOK
  <2>4. TypeOK' /\ Positions'
    BY <1>1, <1>2, <2>1, <2>3 DEF TypeOK, Positions
  <2>5. ThreadsInTable'
    <3> SUFFICES ASSUME NEW f \in Envs, thread'[f] # "none"
                 PROVE  ToStart(f) /\ f \in Listed /\ \E i \in 1..next' - 1 : table[i] = f
      BY <1>1, <1>2, <2>1 DEF ThreadsInTable
    <3>1. next \in 1..next' - 1 /\ 1..next - 1 \subseteq 1..next' - 1
      BY <2>1
    <3>2. CASE f = e
      BY <2>1, <2>3, <3>1, <3>2
    <3>3. CASE f # e
      BY <1>1, <2>3, <3>1, <3>3 DEF ThreadsInTable
    <3> QED
      BY <3>2, <3>3
  <2>6. RunsInLoop'
    <3>1. runs[e] = 0
      BY <1>1, <2>1, <2>2 DEF RunsInLoop
    <3> QED
      BY <1>1, <1>2, <2>3, <3>1 DEF RunsInLoop
  <2>7. JoinedInOrder'
    BY <1>1, <2>1 DEF JoinedInOrder
  <2> QED
    BY <1>3, <2>4, <2>5, <2>6, <2>7
<1>5. CASE StartDone
  <2>1. pc' = "loop" /\ next' = 1 /\ thread' = thread
    BY <1>5 DEF StartDone
  <2>2. TypeOK' /\ Positions'
    BY <1>1, <1>2, <2>1 DEF TypeOK, Positions
  <2>3. ThreadsInTable' /\ RunsInLoop' /\ JoinedInOrder'
    BY <1>1, <1>2, <2>1 DEF ThreadsInTable, RunsInLoop, JoinedInOrder
  <2> QED
    BY <1>3, <2>2, <2>3
<1> QED
  BY <1>4, <1>5

(* terminate joins the thread of one environment after the other.          *)
LEMMA StopKeepsThreadInv ==
  ASSUME ThreadInv, Terminate \/ JoinCrashes \/ StopEnv \/ StopDone
  PROVE  ThreadInv'
<1> USE DEF ThreadInv
<1>1. /\ TypeOK /\ Positions /\ TableOrdered /\ ThreadsInTable /\ RunsInLoop /\ JoinedInOrder
      /\ pc \in {"loop", "stop"} /\ pc' \in {"stop", "crashed", "done"}
      /\ Len(table) \in Nat
      /\ UNCHANGED <<cfg, table, runs, thread, ret, handler, initFailed, terminated>>
  BY DEF Terminate, JoinCrashes, StopEnv, StopDone, TypeOK
<1>2. /\ Listed' = Listed /\ Entries' = Entries
      /\ \A e : Interval(e)' = Interval(e) /\ ToStart(e)' = ToStart(e)
  BY <1>1 DEF Listed, Entries, Interval, ToStart, Name, Active
<1>3. TableOrdered' /\ ThreadsInTable' /\ RunsInLoop'
  BY <1>1, <1>2 DEF TableOrdered, ThreadsInTable, RunsInLoop
<1>4. CASE Terminate
  <2>1. pc = "loop" /\ pc' = "stop" /\ next' = next /\ freed' = freed /\ freed = {}
    BY <1>1, <1>4 DEF Terminate, Positions
  <2>2. next = 1
    BY <1>1, <2>1 DEF Positions
  <2>3. TypeOK' /\ Positions' /\ JoinedInOrder'
    BY <1>1, <1>2, <2>1, <2>2 DEF TypeOK, Positions, JoinedInOrder
  <2> QED
    BY <1>3, <2>3
<1>5. CASE JoinCrashes
  BY <1>1, <1>2, <1>3, <1>5 DEF JoinCrashes, TypeOK, Positions, JoinedInOrder
<1>6. CASE StopEnv
  <2> DEFINE e == table[next]
  <2>1. /\ pc = "stop" /\ pc' = "stop" /\ next \in 1..Len(table) /\ next' = next + 1
        /\ freed' = freed \cup {e} /\ e \in Envs
    BY <1>1, <1>6, InTable DEF StopEnv
  <2>2. thread[e] \in Quiet
    BY <1>1, <1>6, <2>1 DEF StopEnv, ThreadsInTable, ToStart, ToJoin, Quiet
  <2>3. TypeOK' /\ Positions'
    BY <1>1, <1>2, <2>1 DEF TypeOK, Positions
  <2>4. \A i \in 1..next' - 1 : i \in 1..next - 1 \/ i = next
    BY <2>1
  <2>5. JoinedInOrder'
    BY <1>1, <2>1, <2>2, <2>4 DEF JoinedInOrder
  <2> QED
    BY <1>3, <2>3, <2>5
<1>7. CASE StopDone
  <2>1. /\ pc = "stop" /\ pc' = "done" /\ next = Len(table) + 1 /\ next' = next /\ freed' = freed
    BY <1>7 DEF StopDone
  <2>2. 1..next - 1 = 1..Len(table)
    BY <1>1, <2>1
  <2>3. TypeOK' /\ Positions' /\ JoinedInOrder'
    BY <1>1, <1>2, <2>1, <2>2 DEF TypeOK, Positions, JoinedInOrder
  <2> QED
    BY <1>3, <2>3
<1> QED
  BY <1>4, <1>5, <1>6, <1>7

(* A thread goes its way; it never leaves the states that a join waits for.*)
LEMMA ThreadKeepsThreadInv ==
  ASSUME ThreadInv, NEW e \in Envs, Thread(e)
  PROVE  ThreadInv'
<1> USE DEF ThreadInv
<1>1. /\ TypeOK /\ Positions /\ TableOrdered /\ ThreadsInTable /\ RunsInLoop /\ JoinedInOrder
      /\ UNCHANGED <<cfg, pc, next, ret, table, freed, handler, initFailed, terminated>>
      /\ \A f \in Envs \ {e} : thread'[f] = thread[f] /\ runs'[f] = runs[f]
      /\ thread[e] \in {"load", "check", "script", "sleep"}
      /\ thread'[e] \in {"check", "script", "sleep", "ended"}
      /\ runs' \in [Envs -> 0..2] /\ thread' \in [Envs -> {"none", "load", "check", "script", "sleep", "ended", "failed"}]
      /\ \/ runs'[e] = runs[e] /\ thread[e] # "script"
         \/ /\ thread[e] = "script" /\ thread'[e] = AfterRun(e)
            /\ runs'[e] = IF runs[e] < 2 THEN runs[e] + 1 ELSE runs[e]
  BY ThreadSteps
<1>2. /\ Listed' = Listed /\ Entries' = Entries
      /\ \A f : Interval(f)' = Interval(f) /\ ToStart(f)' = ToStart(f)
  BY <1>1 DEF Listed, Entries, Interval, ToStart, Name, Active
<1>3. TypeOK' /\ Positions' /\ TableOrdered'
  BY <1>1, <1>2 DEF TypeOK, Positions, TableOrdered
<1>4. ThreadsInTable'
  BY <1>1, <1>2 DEF ThreadsInTable
<1>5. RunsInLoop'
  <2>1. ASSUME NEW f \in Envs, f # e, runs'[f] # 0
        PROVE  /\ thread'[f] \in {"check", "script", "sleep", "ended"}
               /\ Interval(f) = 0 => thread'[f] = "ended" /\ runs'[f] = 1
    BY <1>1, <2>1 DEF RunsInLoop
  <2>2. ASSUME runs'[e] # 0, Interval(e) = 0
        PROVE  thread'[e] = "ended" /\ runs'[e] = 1
    <3>1. runs[e] = 0
      BY <1>1, <2>2 DEF RunsInLoop
    <3> QED
      BY <1>1, <2>2, <3>1 DEF AfterRun
  <2> QED
    BY <1>1, <1>2, <2>1, <2>2 DEF RunsInLoop
<1>6. JoinedInOrder'
  <2>1. ASSUME NEW f, thread[f] \in Quiet, f \in Envs
        PROVE  thread'[f] \in Quiet
    BY <1>1, <2>1 DEF Quiet
  <2>2. \A i \in 1..Len(table) : table[i] \in Envs
    BY <1>1, InTable
  <2>3. pc = "stop" => \A i \in 1..next - 1 : i \in 1..Len(table)
    BY <1>1 DEF Positions, TypeOK
  <2> QED
    BY <1>1, <2>1, <2>2, <2>3 DEF JoinedInOrder, TypeOK
<1> QED
  BY <1>3, <1>4, <1>5, <1>6

(* Whatever the main thread, the threads and SIGTERM do.                   *)
LEMMA NextKeepsThreadInv == ThreadInv /\ [Next]_vars => ThreadInv'
<1> SUFFICES ASSUME ThreadInv, [Next]_vars PROVE ThreadInv'
  OBVIOUS
<1>1. CASE UNCHANGED vars \/ Sigterm
  <2>1. /\ UNCHANGED <<cfg, pc, next, ret, table, freed, handler, initFailed, thread, runs>>
        /\ terminated' \in BOOLEAN
    BY <1>1 DEF vars, Sigterm, ThreadInv, TypeOK
  <2>2. /\ Listed' = Listed /\ Entries' = Entries
        /\ \A e : Interval(e)' = Interval(e) /\ ToStart(e)' = ToStart(e)
    BY <2>1 DEF Listed, Entries, Interval, ToStart, Name, Active
  <2> QED
    BY <2>1, <2>2 DEF ThreadInv, TypeOK, Positions, TableOrdered, ThreadsInTable, RunsInLoop,
                      JoinedInOrder
<1> QED
  BY <1>1, ConfigKeepsThreadInv, StartKeepsThreadInv, StopKeepsThreadInv, ThreadKeepsThreadInv
     DEF Next, Main, Finished

LEMMA ThreadInvariance == Spec => []ThreadInv
BY InitThreadInv, NextKeepsThreadInv, PTL DEF Spec

(* The variables of LuaEnvs keep their types; in particular, a negative    *)
(* interval has become 0.                                                  *)
THEOREM TypeCorrect == Spec => []TypeOK
<1>1. ThreadInv => TypeOK
  BY DEF ThreadInv
<1> QED
  BY <1>1, ThreadInvariance, PTL

(* An environment is freed only when no thread uses it any more, and every *)
(* thread has ended before the plugin is done.                             *)
THEOREM EnvsAreFreedLast == Spec => []FreedAfterThread
<1>1. ThreadInv => FreedAfterThread
  <2> SUFFICES ASSUME ThreadInv PROVE FreedAfterThread
    OBVIOUS
  <2>1. \A e \in freed : thread[e] \in {"none", "ended", "failed"}
    BY DEF ThreadInv, JoinedInOrder, Quiet
  <2>2. ASSUME pc = "done", NEW e \in Envs
        PROVE  thread[e] \in {"none", "ended", "failed"}
    <3>1. CASE e \in Listed
      <4>1. PICK n \in 1..Len(table) : table[n] = e
        BY <3>1 DEF Listed
      <4> QED
        BY <2>2, <4>1 DEF ThreadInv, JoinedInOrder, Quiet
    <3>2. CASE e \notin Listed
      BY <3>2 DEF ThreadInv, ThreadsInTable
    <3> QED
      BY <3>1, <3>2
  <2> QED
    BY <2>1, <2>2 DEF FreedAfterThread
<1> QED
  BY <1>1, ThreadInvariance, PTL

(* An environment without interval, or with a negative one, runs its       *)
(* script at most once, and one whose name is reserved or taken never.     *)
THEOREM OneRunWithoutInterval == Spec => []RunsAtMost
<1>1. ThreadInv => RunsAtMost
  <2> SUFFICES ASSUME ThreadInv, NEW e \in Envs \cap ({0} \cup Entries)
               PROVE  /\ Interval(e) = 0 => runs[e] <= 1
                      /\ e \notin Listed \/ Name(e) = CmdCall => runs[e] = 0
    BY DEF RunsAtMost
  <2>1. runs[e] \in 0..2 /\ (runs[e] # 0 => thread[e] # "none")
    BY DEF ThreadInv, TypeOK, RunsInLoop
  <2>2. Interval(e) = 0 => runs[e] <= 1
    BY <2>1 DEF ThreadInv, RunsInLoop
  <2>3. e \notin Listed \/ Name(e) = CmdCall => runs[e] = 0
    BY <2>1 DEF ThreadInv, ThreadsInTable, ToStart
  <2> QED
    BY <2>2, <2>3
<1> QED
  BY <1>1, ThreadInvariance, PTL

-----------------------------------------------------------------------------
(* One more element has been passed: its environment is in the table       *)
(* exactly if it is the first of its name, and it serves the signals that  *)
(* none before it serves.                                                  *)
LEMMA EntryExtendsMeaning ==
  ASSUME ThreadInv, ScanMeaning, ConfigEntry
  PROVE  ScanMeaning'
<1>1. PICK e : e = next
  OBVIOUS
<1> DEFINE elements == Passed \cup {e}
<1>2. /\ TypeOK /\ TableOrdered
      /\ pc = "config" /\ cfg \notin Missing /\ e \in Entries /\ cfg.envs[e].shape = "good"
      /\ cfg' = cfg /\ Entries' = Entries
      /\ table' = TableWith(e) /\ next' = e + 1
      /\ Entries = 1..Len(cfg.envs) /\ Len(cfg.envs) \in 0..MaxEnvs
  BY <1>1 DEF ThreadInv, ConfigEntry, Entries, TypeOK
<1>3. PICK failed \in FailedInits(e) : /\ handler' = Registered(e, failed)
                                       /\ initFailed' = initFailed \cup {<<e, s>> : s \in failed}
  BY <1>1 DEF ConfigEntry
<1>4. /\ e \in Envs /\ e \in Nat /\ e # 0
      /\ Passed = {f \in Entries : f < e} /\ Passed' = elements
      /\ \A f \in Passed : f \in Nat /\ f < e /\ f # 0
  BY <1>2, <1>1 DEF Passed, Envs
<1>5. /\ MeaningOf(Passed)
      /\ \A f \in Passed : cfg.envs[f].shape = "good"
      /\ \A f \in Passed : \E g \in Listed : Name(g) = Name(f)
  BY <1>2, <1>4, <1>1 DEF ScanMeaning
<1>6. \A f : Name(f)' = Name(f) /\ Loads(f)' = Loads(f)
  BY <1>2 DEF Name, Loads
<1>7. /\ \A f \in initFailed : f[1] \in Passed
      /\ \A f \in Passed : \A s : Serves(f, s)' = Serves(f, s)
      /\ \A s : Serves(e, s)' <=> s \in cfg.envs[e].events /\ s \notin failed
  <2>1. \A f \in initFailed : f[1] \in Passed
    BY <1>2 DEF ScanMeaning
  <2>2. \A s : <<e, s>> \notin initFailed
    <3> SUFFICES ASSUME NEW s, <<e, s>> \in initFailed PROVE FALSE
      OBVIOUS
    <3>1. e \in Passed
      BY <2>1
    <3> QED
      BY <1>4, <3>1
  <2>3. ASSUME NEW f \in Passed, NEW s PROVE <<f, s>> \in initFailed' <=> <<f, s>> \in initFailed
    BY <1>3, <1>4
  <2>4. \A s : <<e, s>> \in initFailed' <=> s \in failed
    BY <1>3, <2>2
  <2> QED
    BY <1>2, <2>1, <2>3, <2>4 DEF Serves
<1>8. \A f \in initFailed' : f[1] \in elements
  BY <1>3, <1>7
<1>9. \/ /\ \E f \in Listed : Name(f) = Name(e)
         /\ Listed' = Listed
      \/ /\ \A f \in Listed : Name(f) # Name(e)
         /\ Listed' = Listed \cup {e}
  BY <1>2, <1>4, TableGrows DEF TypeOK
<1>10. \A f \in elements : \E g \in Listed' : Name(g) = Name(f)
  BY <1>5, <1>9
<1>11. Listed = {f \in Passed : /\ \A g \in Passed : g < f => Name(g) # Name(f)
                                /\ ~(cfg.cmd_call /\ Name(f) = CmdCall)}
                \cup (IF cfg.cmd_call THEN {0} ELSE {})
  BY <1>5 DEF MeaningOf
<1>12. Listed' = {f \in elements : /\ \A g \in elements : g < f => Name(g) # Name(f)
                                   /\ ~(cfg.cmd_call /\ Name(f) = CmdCall)}
                 \cup (IF cfg.cmd_call THEN {0} ELSE {})
  <2>1. \A f \in Passed : (\A g \in elements : g < f => Name(g) # Name(f))
                             <=> (\A g \in Passed : g < f => Name(g) # Name(f))
    BY <1>4
  <2>2. (\A f \in Listed : Name(f) # Name(e)) <=>
          /\ \A g \in elements : g < e => Name(g) # Name(e)
          /\ ~(cfg.cmd_call /\ Name(e) = CmdCall)
    <3>1. cfg.cmd_call <=> 0 \in Listed
      BY <1>4, <1>11
    <3>2. Name(0) = CmdCall
      BY DEF Name
    <3>3. ASSUME \A f \in Listed : Name(f) # Name(e)
          PROVE  /\ \A g \in elements : g < e => Name(g) # Name(e)
                 /\ ~(cfg.cmd_call /\ Name(e) = CmdCall)
      BY <1>4, <1>5, <3>1, <3>2, <3>3
    <3>4. ASSUME \A g \in elements : g < e => Name(g) # Name(e),
                 ~(cfg.cmd_call /\ Name(e) = CmdCall), NEW f \in Listed
          PROVE  Name(f) # Name(e)
      BY <1>4, <1>11, <3>1, <3>2, <3>4
    <3> QED
      BY <3>3, <3>4
  <2> QED
    BY <1>9, <1>11, <2>1, <2>2
<1>13. ASSUME NEW s \in Signals
      PROVE  IF \E f \in elements : Serves(f, s)'
               THEN /\ handler'[s] \in elements
                    /\ Serves(handler[s], s)' /\ Loads(handler[s])'
                    /\ \A f \in elements : Serves(f, s)' => handler'[s] <= f
               ELSE handler'[s] = NoEnv
  <2>1. IF \E f \in Passed : Serves(f, s)
          THEN /\ handler[s] \in Passed
               /\ Serves(handler[s], s) /\ Loads(handler[s])
               /\ \A f \in Passed : Serves(f, s) => handler[s] <= f
          ELSE handler[s] = NoEnv
    BY <1>5 DEF MeaningOf
  <2>2. handler'[s] = IF s \in Tried(e) \ failed THEN e ELSE handler[s]
    BY <1>3 DEF Registered
  <2>3. NoEnv \notin Nat
    BY DEF NoEnv
  <2>4. CASE \E f \in Passed : Serves(f, s)
    <3>1. PICK h \in Passed : h = handler[s]
      BY <2>1, <2>4
    <3>2. h < e /\ handler'[s] = h
      BY <1>4, <2>2, <2>3, <3>1 DEF Tried
    <3>3. Serves(h, s)' /\ Loads(h)'
      BY <1>6, <1>7, <2>1, <2>4, <3>1
    <3>4. Serves(handler[s], s)' /\ Loads(handler[s])'
      BY <3>2, <3>3 DEF Serves, Loads
    <3>5. \A f \in elements : Serves(f, s)' => handler'[s] <= f
      BY <1>4, <1>7, <2>1, <2>4, <3>1, <3>2
    <3> QED
      BY <2>4, <1>7, <3>2, <3>4, <3>5
  <2>5. CASE \A f \in Passed : ~Serves(f, s)
    <3>1. handler[s] = NoEnv /\ \A f \in Passed : ~Serves(f, s)'
      BY <1>7, <2>1, <2>5
    <3>2. s \in Tried(e) <=> s \in cfg.envs[e].events
      BY <3>1 DEF Tried
    <3>3. CASE Serves(e, s)'
      <4>1. handler'[s] = e
        BY <1>7, <2>2, <3>2, <3>3
      <4>2. Loads(e)
        BY <1>3, <1>7, <3>2, <3>3, FailuresAreTried
      <4>3. Serves(handler[s], s)' /\ Loads(handler[s])'
        BY <1>6, <3>3, <4>1, <4>2 DEF Serves, Loads
      <4> QED
        BY <1>4, <3>1, <3>3, <4>1, <4>3
    <3>4. CASE ~Serves(e, s)'
      BY <1>7, <2>2, <3>1, <3>2, <3>4
    <3> QED
      BY <3>3, <3>4
  <2> QED
    BY <2>4, <2>5
<1>14. ASSUME NEW S, S = elements PROVE MeaningOf(S)'
  BY <1>2, <1>6, <1>12, <1>13, <1>14 DEF MeaningOf
<1>15. \A f \in elements : cfg.envs[f].shape = "good"
  BY <1>2, <1>5
<1>16. MeaningOf(Passed)'
  <2>1. PICK S : S = elements
    OBVIOUS
  <2>2. MeaningOf(S)' /\ Passed' = S
    BY <1>4, <1>14, <2>1
  <2> QED
    BY <2>2 DEF MeaningOf
<1> QED
  BY <1>2, <1>4, <1>6, <1>10, <1>15, <1>16, <1>8 DEF ScanMeaning

(* The environment of cmd_call comes first, into an empty table.           *)
LEMMA CmdCallBeginsMeaning ==
  ASSUME ThreadInv, ScanMeaning, ConfigCmdCall
  PROVE  ScanMeaning'
<1>1. /\ pc = "config" /\ cfg \notin Missing /\ next = 0 /\ pc' = pc /\ cfg' = cfg /\ next' = 1
      /\ table = <<>> /\ handler' = handler /\ \A s \in Signals : handler[s] = NoEnv
      /\ table' = IF cfg.cmd_call THEN TableWith(0) ELSE table
  BY DEF ConfigCmdCall, ScanMeaning
<1>2. Passed' = {}
  BY <1>1 DEF Passed, Entries
<1>3. Listed = {}
  BY <1>1 DEF Listed
<1>4. Listed' = IF cfg.cmd_call THEN {0} ELSE {}
  <2>1. CASE cfg.cmd_call
    <3>1. table' = <<0>>
      BY <1>1, <1>3, <2>1 DEF TableWith
    <3> QED
      BY <2>1, <3>1 DEF Listed
  <2>2. CASE ~cfg.cmd_call
    BY <1>1, <1>3, <2>2 DEF Listed
  <2> QED
    BY <2>1, <2>2
<1>5. MeaningOf({})'
  BY <1>1, <1>4 DEF MeaningOf
<1>6. MeaningOf(Passed)'
  BY <1>2, <1>5 DEF MeaningOf
<1> QED
  <2>1. initFailed' = initFailed /\ initFailed = {}
    BY <1>1 DEF ConfigCmdCall, ScanMeaning, Passed, Entries
  <2> QED
    BY <1>1, <1>2, <1>6, <2>1 DEF ScanMeaning

(* Where process_cfg ends, exactly the elements it passed are accepted.    *)
LEMMA EndFixesMeaning ==
  ASSUME ThreadInv, ThreadInv', ScanMeaning, ConfigMissing \/ ConfigReject \/ ConfigDone
  PROVE  ConfigMeaning'
<1>1. /\ TypeOK /\ pc = "config" /\ cfg' = cfg /\ table' = table /\ handler' = handler
      /\ initFailed' = initFailed
  BY DEF ThreadInv, ConfigMissing, ConfigReject, ConfigDone
<1>2. CASE cfg \in Missing
  BY <1>1, <1>2 DEF ConfigMeaning
<1>3. CASE cfg \notin Missing
  <2>1. /\ ret = 0 /\ next \in 1..Len(cfg.envs) + 1 /\ Len(cfg.envs) \in 0..MaxEnvs
        /\ Entries = 1..Len(cfg.envs) /\ Entries' = Entries /\ Accepted' = Accepted
    BY <1>1, <1>3 DEF ThreadInv, Positions, TypeOK, Entries, Accepted, ConfigMissing,
                      ConfigReject, ConfigDone
  <2>2. MeaningOf(Passed) /\ \A e \in Passed : cfg.envs[e].shape = "good"
    BY <1>1, <1>3, <2>1 DEF ScanMeaning
  <2>3. ASSUME Accepted = Passed, (ret' = 0) <=> (Accepted = Entries)
        PROVE  ConfigMeaning'
    <3>1. /\ Listed' = Listed
          /\ \A e : /\ Name(e)' = Name(e)
                   /\ Loads(e)' = Loads(e)
                   /\ \A s : Serves(e, s)' = Serves(e, s)
      BY <1>1 DEF Listed, Name, Serves, Loads
    <3>2. /\ Listed' = {e \in Accepted' : FirstNamed(e)'} \cup (IF cfg'.cmd_call THEN {0} ELSE {})
          /\ \A i, j \in 1..Len(table') : i < j => table'[i] < table'[j]
      BY <1>1, <2>1, <2>2, <2>3, <3>1 DEF MeaningOf, FirstNamed, ThreadInv, TableOrdered
    <3>3. \A s \in Signals :
            IF \E e \in Accepted' : Serves(e, s)'
              THEN /\ handler'[s] \in Accepted'
                   /\ Serves(handler[s], s)' /\ Loads(handler[s])'
                   /\ \A e \in Accepted' : Serves(e, s)' => handler'[s] <= e
              ELSE handler'[s] = NoEnv
      BY <1>1, <2>1, <2>2, <2>3, <3>1 DEF MeaningOf
    <3> QED
      BY <2>1, <2>3, <3>2, <3>3 DEF ConfigMeaning
  <2>4. CASE ConfigReject
    <3>1. /\ next \in Entries /\ cfg.envs[next].shape # "good" /\ ret' = Code(cfg.envs[next].shape)
      BY <2>4 DEF ConfigReject
    <3>2. ret' # 0
      BY <1>1, <1>3, <2>1, <3>1 DEF Code, TypeOK
    <3>3. Accepted = Passed
      <4>1. ASSUME NEW e \in Accepted PROVE e < next
        BY <2>1, <3>1 DEF Accepted
      <4>2. ASSUME NEW e \in Passed, NEW f \in 1..e PROVE cfg.envs[f].shape = "good"
        BY <2>1, <2>2 DEF Passed
      <4> QED
        BY <4>1, <4>2 DEF Accepted, Passed
    <3>4. next \notin Accepted
      BY <2>1, <3>3 DEF Passed
    <3> QED
      BY <2>1, <2>3, <3>1, <3>2, <3>3, <3>4
  <2>5. CASE ConfigDone
    <3>1. next = Len(cfg.envs) + 1 /\ ret' = ret
      BY <2>5 DEF ConfigDone
    <3>2. Passed = Entries
      BY <2>1, <3>1 DEF Passed
    <3>3. Accepted = Entries
      <4>1. ASSUME NEW e \in Entries, NEW f \in 1..e PROVE cfg.envs[f].shape = "good"
        BY <2>1, <2>2, <3>2
      <4> QED
        BY <4>1 DEF Accepted
    <3> QED
      BY <2>1, <2>3, <3>1, <3>2, <3>3
  <2> QED
    BY <1>3, <2>4, <2>5 DEF ConfigMissing
<1> QED
  BY <1>2, <1>3

(* After process_cfg nothing changes what the configuration has become.    *)
LEMMA MeaningIsFixed ==
  ASSUME ThreadInv, [Next]_vars, pc # "config"
  PROVE  pc' # "config" /\ UNCHANGED <<cfg, table, handler, initFailed, ret>>
<1>1. ASSUME NEW e \in Envs, Thread(e)
      PROVE  pc' # "config" /\ UNCHANGED <<cfg, table, handler, initFailed, ret>>
  BY <1>1, ThreadSteps DEF ThreadInv
<1> QED
  BY <1>1 DEF Next, vars, Main, Sigterm, Finished, ConfigMissing, ConfigCmdCall, ConfigEntry,
              ConfigReject, ConfigDone, StartEnv, StartDone, Terminate, JoinCrashes, StopEnv, StopDone

(* What the configuration means: names and signals go to the first         *)
(* accepted element that wants them, and the return code says whether all  *)
(* were accepted.                                                          *)
THEOREM ConfigIsMeant == Spec => []ConfigMeaning
<1>1. Init => MeaningInv
  <2> SUFFICES ASSUME Init PROVE MeaningInv
    OBVIOUS
  <2>1. Passed = {}
    BY DEF Init, Passed, Entries
  <2>2. ScanMeaning
    BY <2>1 DEF Init, ScanMeaning
  <2> QED
    BY <2>1, <2>2 DEF Init, MeaningInv, ConfigMeaning
<1>2. ThreadInv /\ ThreadInv' /\ MeaningInv /\ [Next]_vars => MeaningInv'
  <2> SUFFICES ASSUME ThreadInv, ThreadInv', MeaningInv, [Next]_vars PROVE MeaningInv'
    OBVIOUS
  <2>1. CASE pc # "config"
    <3>1. pc' # "config" /\ UNCHANGED <<cfg, table, handler, initFailed, ret>>
      BY <2>1, MeaningIsFixed
    <3>2. Listed' = Listed /\ Entries' = Entries /\ Accepted' = Accepted
      BY <3>1 DEF Listed, Entries, Accepted
    <3>3. \A e : /\ Name(e)' = Name(e) /\ FirstNamed(e)' = FirstNamed(e)
                 /\ Loads(e)' = Loads(e)
                 /\ \A s : Serves(e, s)' = Serves(e, s)
      BY <3>1, <3>2 DEF Name, FirstNamed, Serves, Loads
    <3>4. ConfigMeaning'
      BY <2>1, <3>1, <3>2, <3>3 DEF MeaningInv, ConfigMeaning
    <3> QED
      BY <3>1, <3>4 DEF MeaningInv, ScanMeaning
  <2>2. CASE pc = "config"
    <3>1. CASE ConfigCmdCall \/ ConfigEntry
      <4>1. pc' = "config"
        BY <2>2, <3>1 DEF ConfigCmdCall, ConfigEntry
      <4> QED
        BY <3>1, <4>1, CmdCallBeginsMeaning, EntryExtendsMeaning DEF MeaningInv, ConfigMeaning
    <3>2. CASE ConfigMissing \/ ConfigReject \/ ConfigDone
      <4>1. pc' # "config"
        BY <3>2 DEF ConfigMissing, ConfigReject, ConfigDone
      <4> QED
        BY <3>2, <4>1, EndFixesMeaning DEF MeaningInv, ScanMeaning
    <3>3. CASE UNCHANGED <<cfg, pc, next, table, handler, initFailed, ret>>
      <4>1. /\ Listed' = Listed /\ Passed' = Passed
            /\ \A e, s : Name(e)' = Name(e) /\ Loads(e)' = Loads(e) /\ Serves(e, s)' = Serves(e, s)
        BY <3>3 DEF Listed, Passed, Entries, Name, Serves, Loads
      <4>2. MeaningOf(Passed) => MeaningOf(Passed)'
        BY <3>3, <4>1 DEF MeaningOf
      <4> QED
        BY <2>2, <3>3, <4>1, <4>2 DEF MeaningInv, ScanMeaning, ConfigMeaning
    <3>4. ASSUME NEW e \in Envs, Thread(e)
          PROVE  UNCHANGED <<cfg, pc, next, table, handler, initFailed, ret>>
      BY <3>4, ThreadSteps DEF ThreadInv
    <3> QED
      BY <2>2, <3>1, <3>2, <3>3, <3>4 DEF Next, vars, Main, Sigterm, Finished, StartEnv, StartDone,
         Terminate, JoinCrashes, StopEnv, StopDone
  <2> QED
    BY <2>1, <2>2
<1>3. MeaningInv => ConfigMeaning
  BY DEF MeaningInv
<1> QED
  BY <1>1, <1>2, <1>3, ThreadInvariance, PTL DEF Spec
=============================================================================
