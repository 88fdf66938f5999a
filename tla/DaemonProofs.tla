---------------------------- MODULE DaemonProofs -----------------------------
(***************************************************************************)
(* Proofs about Daemon, for command lines of any length and ids of any     *)
(* size.                                                                   *)
(***************************************************************************)
EXTENDS Daemon, FiniteSetTheorems, TLAPS

USE ConstantsAssumption

-----------------------------------------------------------------------------
(* What proc_args has read when it is at argument n.                       *)
Given(n) == {j \in 1..n - 1 : args[j].opt \in Mandatory}

(* v is the value of the last option opt before n.                         *)
IsLast(opt, otherwise, v, n) ==
  \/ v = otherwise /\ \A j \in 1..n - 1 : args[j].opt # opt
  \/ \E j \in 1..n - 1 :
       /\ args[j].opt = opt /\ v = args[j].value
       /\ \A l \in 1..n - 1 : args[l].opt = opt => l <= j

Read ==
  pc = "args" \/ Running =>
    /\ status = "none"
    /\ \A j \in 1..k - 1 : ~Ends(j)
    /\ mpc = Cardinality(Given(k))
    /\ IsLast("i", Unnamed, id, k) /\ fqn = id
    /\ IsLast("p", None, plg_pth, k)
    /\ IsLast("plugins-cfg", None, plg_cfg_f, k)

(* The daemon runs only if all arguments were read and were enough; before *)
(* the handler is installed, it is the arguments that ended the program.   *)
Phases ==
  /\ Running => k = Len(args) + 1 /\ mpc >= 3
  /\ pc \in {"config", "loop", "free"} => installed
  /\ pc \in {"args", "signal"} => ~installed
  /\ ~installed /\ status = "success" =>
       k \in 1..Len(args) /\ FirstEnd(k) /\ args[k].opt = "v"
  /\ ~installed /\ status = "failure" =>
       \/ k \in 1..Len(args) /\ FirstEnd(k) /\ args[k].opt = "i"
       \/ (\A j \in 1..Len(args) : ~Ends(j)) /\ Count < 3

IInv == TypeOK /\ Read /\ Phases

-----------------------------------------------------------------------------
(* One more argument has been read.                                        *)
LEMMA OneMoreGiven ==
  ASSUME NEW n \in Nat \ {0}
  PROVE  /\ IsFiniteSet(Given(n)) /\ Cardinality(Given(n)) \in 0..n - 1
         /\ Cardinality(Given(n + 1)) =
              Cardinality(Given(n)) + (IF args[n].opt \in Mandatory THEN 1 ELSE 0)
<1>1. IsFiniteSet(1..n - 1) /\ Cardinality(1..n - 1) = n - 1
  <2>1. 1 \in Int /\ n - 1 \in Int
    OBVIOUS
  <2>2. IsFiniteSet(1..n - 1) /\ Cardinality(1..n - 1) = IF 1 > n - 1 THEN 0 ELSE n - 1 - 1 + 1
    BY <2>1, FS_Interval
  <2> QED
    BY <2>2
<1>2. Given(n) \subseteq 1..n - 1
  BY DEF Given
<1>3. IsFiniteSet(Given(n)) /\ Cardinality(Given(n)) <= n - 1
  BY <1>1, <1>2, FS_Subset
<1>4. Cardinality(Given(n)) \in 0..n - 1
  <2>1. Cardinality(Given(n)) \in Nat
    BY <1>3, FS_CardinalityType
  <2> QED
    BY <1>3, <2>1
<1>5. n \notin Given(n) /\ 1..n + 1 - 1 = (1..n - 1) \cup {n}
  BY DEF Given
<1>6. CASE args[n].opt \in Mandatory
  <2>1. Given(n + 1) = Given(n) \cup {n}
    BY <1>5, <1>6 DEF Given
  <2>2. Cardinality(Given(n) \cup {n}) = Cardinality(Given(n)) + 1
    BY <1>3, <1>5, FS_AddElement
  <2> QED
    BY <1>3, <1>4, <1>6, <2>1, <2>2, Zenon
<1>7. CASE args[n].opt \notin Mandatory
  <2>1. Given(n + 1) = Given(n)
    BY <1>5, <1>7 DEF Given
  <2>2. Cardinality(Given(n)) + 0 = Cardinality(Given(n))
    BY <1>4
  <2> QED
    BY <1>3, <1>4, <1>7, <2>1, <2>2, Zenon
<1> QED
  BY <1>6, <1>7

(* If it is opt, it is the last one now; if not, the last one stays.       *)
LEMMA OneMoreLast ==
  ASSUME NEW n \in Nat \ {0}, NEW opt, NEW otherwise, NEW v, IsLast(opt, otherwise, v, n)
  PROVE  /\ args[n].opt = opt => IsLast(opt, otherwise, args[n].value, n + 1)
         /\ args[n].opt # opt => IsLast(opt, otherwise, v, n + 1)
<1>1. /\ n \in 1..n + 1 - 1 /\ n + 1 - 1 = n
      /\ \A j : j \in 1..n + 1 - 1 <=> j \in 1..n - 1 \/ j = n
      /\ \A j \in 1..n - 1 : j <= n
  OBVIOUS
<1>2. args[n].opt = opt => IsLast(opt, otherwise, args[n].value, n + 1)
  BY <1>1 DEF IsLast
<1>3. args[n].opt # opt => IsLast(opt, otherwise, v, n + 1)
  BY <1>1 DEF IsLast
<1> QED
  BY <1>2, <1>3

(* At the end, Last.                                                       *)
LEMMA LastIsLast ==
  ASSUME NEW opt, NEW otherwise, NEW v, IsLast(opt, otherwise, v, Len(args) + 1), Len(args) \in Nat
  PROVE  v = Last(opt, otherwise)
<1> DEFINE given == {j \in 1..Len(args) : args[j].opt = opt}
<1>1. Len(args) + 1 - 1 = Len(args)
  OBVIOUS
<1>2. CASE given = {}
  BY <1>1, <1>2 DEF IsLast, Last
<1>3. CASE given # {}
  <2>1. PICK j \in given : v = args[j].value /\ \A l \in given : l <= j
    BY <1>1, <1>3 DEF IsLast
  <2> DEFINE i == CHOOSE m \in given : \A l \in given : l <= m
  <2>2. i \in given /\ \A l \in given : l <= i
    BY <2>1
  <2>3. i = j
    <3>1. i \in Nat /\ j \in Nat /\ i <= j /\ j <= i
      BY <2>1, <2>2
    <3> HIDE DEF i
    <3> QED
      BY <3>1
  <2>4. Last(opt, otherwise) = args[i].value
    BY <1>3 DEF Last
  <2> QED
    BY <2>1, <2>3, <2>4
<1> QED
  BY <1>2, <1>3

-----------------------------------------------------------------------------
(* args does not change, and what is said about it neither.                *)
LEMMA ArgsStand ==
  ASSUME args' = args
  PROVE  /\ \A j : Ends(j)' = Ends(j) /\ FirstEnd(j)' = FirstEnd(j)
         /\ \A n : Given(n)' = Given(n)
         /\ \A opt, otherwise, v, n : IsLast(opt, otherwise, v, n)' = IsLast(opt, otherwise, v, n)
         /\ Count' = Count
BY DEF Ends, FirstEnd, Given, IsLast, Count

LEMMA InitInv == Init => IInv
<1> SUFFICES ASSUME Init PROVE IInv
  OBVIOUS
<1>1. args \in ArgLists /\ Len(args) \in Nat /\ k = 1 /\ 1..1 - 1 = {}
  BY DEF Init
<1>2. TypeOK
  <2>1. 1 \in 1..Len(args) + 1 /\ 0 \in 0..Len(args)
    BY <1>1
  <2> QED
    BY <1>1, <2>1 DEF Init, TypeOK
<1>3. Read
  <2>1. Given(k) = {} /\ Cardinality({}) = 0
    BY <1>1, FS_EmptySet DEF Given
  <2> QED
    BY <1>1, <2>1 DEF Init, Read, IsLast, Running
<1>4. Phases
  BY DEF Init, Phases, Running
<1> QED
  BY <1>2, <1>3, <1>4 DEF IInv

(* proc_args goes on to the next argument.                                 *)
LEMMA NextArgKeepsInv ==
  ASSUME IInv, SetId \/ PluginPath \/ PluginsCfg \/ OtherOption
  PROVE  IInv'
<1> DEFINE a == args[k]
<1>1. /\ k \in 1..Len(args) /\ Len(args) \in Nat /\ pc = "args" /\ k' = k + 1
      /\ args \in ArgLists /\ mpc \in Nat /\ k \in Nat \ {0}
      /\ UNCHANGED <<args, pc, UMD, installed, plugins, terminated, status>>
  BY DEF IInv, TypeOK, SetId, PluginPath, PluginsCfg, OtherOption, AtOption
<1>2. /\ \A j \in 1..k - 1 : ~Ends(j)
      /\ mpc = Cardinality(Given(k))
      /\ IsLast("i", Unnamed, id, k) /\ fqn = id
      /\ IsLast("p", None, plg_pth, k)
      /\ IsLast("plugins-cfg", None, plg_cfg_f, k)
      /\ status = "none"
  BY <1>1 DEF IInv, Read
<1>3. ~Ends(k)
  BY <1>1 DEF SetId, PluginPath, PluginsCfg, OtherOption, AtOption, Arg, Ends, TooLong
<1>4. mpc' = mpc + IF a.opt \in Mandatory THEN 1 ELSE 0
  BY <1>1 DEF SetId, PluginPath, PluginsCfg, OtherOption, AtOption, Arg, Mandatory, options
<1>5. /\ id' = (IF a.opt = "i" THEN a.value ELSE id) /\ fqn' = id'
      /\ plg_pth' = (IF a.opt = "p" THEN a.value ELSE plg_pth)
      /\ plg_cfg_f' = (IF a.opt = "plugins-cfg" THEN a.value ELSE plg_cfg_f)
  BY <1>2 DEF SetId, PluginPath, PluginsCfg, OtherOption, AtOption, Arg, options, Fqn
<1>6. mpc' = Cardinality(Given(k + 1)) /\ mpc' \in 0..k
  BY <1>1, <1>2, <1>4, OneMoreGiven
<1>7. TypeOK'
  <2>1. a.opt = "i" => a.value \in Names /\ Size[a.value] + 1 <= IdMaxSize
    <3>1. ASSUME a.opt = "i" PROVE a.value \in Names /\ ~TooLong(a.value)
      BY <1>1, <3>1 DEF SetId, PluginPath, PluginsCfg, OtherOption, AtOption, Arg
    <3> QED
      BY <3>1 DEF TooLong
  <2>2. id' \in Names \cup {Unnamed} /\ (id' # Unnamed => Size[id'] + 1 <= IdMaxSize)
    BY <1>5, <2>1 DEF IInv, TypeOK
  <2> QED
    BY <1>1, <1>6, <2>2 DEF IInv, TypeOK
<1>8. Read'
  <2>1. \A j \in 1..k + 1 - 1 : ~Ends(j)
    BY <1>1, <1>2, <1>3
  <2>2. /\ IsLast("i", Unnamed, id', k + 1)
        /\ IsLast("p", None, plg_pth', k + 1)
        /\ IsLast("plugins-cfg", None, plg_cfg_f', k + 1)
    BY <1>1, <1>2, <1>5, OneMoreLast
  <2> QED
    BY <1>1, <1>2, <1>5, <1>6, <2>1, <2>2, ArgsStand DEF Read
<1>9. Phases'
  BY <1>1, <1>2 DEF IInv, Phases, Running
<1> QED
  BY <1>7, <1>8, <1>9 DEF IInv

(* proc_args ends.                                                         *)
LEMMA EndKeepsInv ==
  ASSUME IInv, IdTooLong \/ Version \/ ArgsDone
  PROVE  IInv'
<1>1. /\ pc = "args" /\ status = "none" /\ ~installed /\ Len(args) \in Nat
      /\ UNCHANGED <<args, k, options, UMD, installed, plugins, terminated>>
  BY DEF IInv, TypeOK, Read, Phases, IdTooLong, Version, ArgsDone, AtOption
<1>2. TypeOK'
  BY <1>1 DEF IInv, TypeOK, options, IdTooLong, Version, ArgsDone, Exit
<1>3. \A j \in 1..k - 1 : ~Ends(j)
  BY <1>1 DEF IInv, Read
<1>4. CASE IdTooLong \/ Version
  <2>1. /\ k \in 1..Len(args) /\ Ends(k) /\ pc' = "exited"
        /\ status' = (IF args[k].opt = "v" THEN "success" ELSE "failure")
        /\ args[k].opt \in {"v", "i"}
    BY <1>4 DEF IInv, TypeOK, IdTooLong, Version, AtOption, Arg, Ends, TooLong, Exit
  <2>2. FirstEnd(k)
    BY <1>3, <2>1 DEF FirstEnd
  <2> QED
    BY <1>1, <1>2, <2>1, <2>2, ArgsStand DEF IInv, Read, Phases, Running
<1>5. CASE ArgsDone
  <2>1. /\ k = Len(args) + 1 /\ mpc = Cardinality(Given(k))
        /\ \/ pc' = "signal" /\ status' = status /\ mpc >= 3
           \/ pc' = "exited" /\ status' = "failure" /\ ~(mpc >= 3)
    BY <1>1, <1>5 DEF IInv, Read, ArgsDone, Enough, Exit
  <2>2. k - 1 = Len(args) /\ Given(k) = {j \in 1..Len(args) : args[j].opt \in Mandatory}
    BY <1>1, <2>1 DEF Given
  <2>3. Count = mpc /\ mpc \in Nat /\ \A j \in 1..Len(args) : ~Ends(j)
    <3>1. mpc \in Nat
      BY <1>1 DEF IInv, TypeOK
    <3>2. \A j \in 1..Len(args) : ~Ends(j)
      BY <1>3, <2>2
    <3>3. Count = mpc
      BY <2>1, <2>2 DEF Count
    <3> QED
      BY <3>1, <3>2, <3>3
  <2>4. Read'
    BY <1>1, <2>1, ArgsStand DEF IInv, Read, Running, options
  <2>5. Phases'
    BY <1>1, <2>1, <2>3, ArgsStand DEF Phases, Running, options
  <2> QED
    BY <1>2, <2>4, <2>5 DEF IInv
<1> QED
  BY <1>4, <1>5

(* After that, the arguments are not touched any more.                     *)
LEMMA LaterKeepsInv ==
  ASSUME IInv,
         \/ InstallHandler \/ LoadPlugins \/ NoConfig \/ InvalidConfig \/ LeaveLoop \/ Destroy
         \/ Return \/ Killed \/ Sigterm \/ SigtermLate \/ UNCHANGED vars
  PROVE  IInv'
<1>1. UNCHANGED <<args, k, options>>
  BY DEF InstallHandler, LoadPlugins, NoConfig, InvalidConfig, LeaveLoop, Destroy, Return, Killed,
         Sigterm, SigtermLate, vars
<1>2. TypeOK'
  BY <1>1 DEF IInv, TypeOK, options, InstallHandler, LoadPlugins, NoConfig, InvalidConfig, LeaveLoop,
     Destroy, Return, Killed, Sigterm, SigtermLate, Exit, vars
<1>3. /\ pc' = "args" => pc = "args"
      /\ pc' \in {"signal", "config", "loop", "free"} => Running
      /\ pc' = "args" \/ pc' \in {"signal", "config", "loop", "free"} => status' = status
  BY DEF Running, InstallHandler, LoadPlugins, NoConfig, InvalidConfig, LeaveLoop,
     Destroy, Return, Killed, Sigterm, SigtermLate, Exit, vars
<1>4. Read'
  BY <1>1, <1>3, ArgsStand DEF IInv, Read, Running, options
<1>5. Phases'
  <2>1. /\ pc' \in {"config", "loop", "free"} => installed'
        /\ pc' \in {"args", "signal"} => ~installed'
        /\ ~installed' => ~installed
    BY DEF IInv, Phases, InstallHandler, LoadPlugins, NoConfig, InvalidConfig, LeaveLoop,
       Destroy, Return, Killed, Sigterm, SigtermLate, Exit, vars
  <2>2. ~installed' /\ status' \in {"success", "failure"} => status' = status
    BY DEF IInv, Phases, InstallHandler, LoadPlugins, NoConfig, InvalidConfig, LeaveLoop,
       Destroy, Return, Killed, Sigterm, SigtermLate, Exit, vars
  <2> QED
    BY <1>1, <1>3, <2>1, <2>2, ArgsStand DEF IInv, Phases, Running, options
<1> QED
  BY <1>2, <1>4, <1>5 DEF IInv

LEMMA Invariance == Spec => []IInv
<1>1. IInv /\ [Next]_vars => IInv'
  BY NextArgKeepsInv, EndKeepsInv, LaterKeepsInv DEF Next, Main, Finished
<1> QED
  BY InitInv, <1>1, PTL DEF Spec

-----------------------------------------------------------------------------
(* The variables of Daemon keep their types; in particular, an id that was *)
(* accepted fits its buffer with the end of the string.                    *)
THEOREM TypeCorrect == Spec => []TypeOK
<1>1. IInv => TypeOK
  BY DEF IInv
<1> QED
  BY <1>1, Invariance, PTL

(* proc_args reads every command line, of any length, in any order and     *)
(* with any repetitions, as ArgsMeaning says.                              *)
THEOREM ArgsAreMeant == Spec => []ArgsMeaning
<1>1. IInv => ArgsMeaning
  <2> SUFFICES ASSUME IInv PROVE ArgsMeaning
    OBVIOUS
  <2>1. Len(args) \in Nat
    BY DEF IInv, TypeOK
  <2>2. ASSUME Running
        PROVE  /\ \A j \in 1..Len(args) : ~Ends(j)
               /\ Count >= 3
               /\ id = Last("i", Unnamed) /\ fqn = id
               /\ plg_pth = Last("p", None)
               /\ plg_cfg_f = Last("plugins-cfg", None)
    <3>1. k = Len(args) + 1 /\ mpc >= 3 /\ k - 1 = Len(args)
      BY <2>1, <2>2 DEF IInv, Phases
    <3>2. /\ \A j \in 1..k - 1 : ~Ends(j)
          /\ mpc = Cardinality(Given(k))
          /\ IsLast("i", Unnamed, id, k) /\ fqn = id
          /\ IsLast("p", None, plg_pth, k)
          /\ IsLast("plugins-cfg", None, plg_cfg_f, k)
      BY <2>2 DEF IInv, Read
    <3>3. Count = mpc
      BY <3>1, <3>2 DEF Count, Given
    <3> QED
      BY <2>1, <3>1, <3>2, <3>3, LastIsLast
  <2> QED
    BY <2>2 DEF IInv, Phases, ArgsMeaning
<1> QED
  BY <1>1, Invariance, PTL
=============================================================================
