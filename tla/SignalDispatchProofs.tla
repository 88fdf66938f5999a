------------------------ MODULE SignalDispatchProofs ------------------------
(***************************************************************************)
(* Proofs about SignalDispatch, for any threads, handlers and scripts, the *)
(* last one that it implements SignalMonitor.                              *)
(***************************************************************************)
EXTENDS SignalDispatch, TLAPS

USE DEF Depth, Top, Idle, InScript, AtLock

-----------------------------------------------------------------------------
(* How the steps change the stacks.                                        *)

(* The frames up to depth n keep their handler and their control point.    *)
SameFrames(t, n) ==
  \A i \in 1..n : /\ stack'[t][i].sig = stack[t][i].sig
                  /\ stack'[t][i].at = stack[t][i].at

OthersKeep(t) == \A u \in Threads \ {t} : stack'[u] = stack[u]

(* A nested call adds a frame that waits for the lock.                     *)
LEMMA RaiseFrames ==
  ASSUME TypeOK, NEW t \in Threads, NEW s \in Signals, RaiseSignal(t, s)
  PROVE  /\ stack' \in [Threads -> Seq(Frame)]
         /\ Len(stack'[t]) = Depth(t) + 1
         /\ SameFrames(t, Depth(t))
         /\ stack'[t][Depth(t) + 1].sig = s
         /\ stack'[t][Depth(t) + 1].at = "lock"
         /\ OthersKeep(t)
<1> DEFINE f == [sig |-> s, at |-> "lock", raised |-> 0]
<1>1. f \in Frame
  BY ConstantsAssumption DEF Frame
<1>2. /\ Counted(t) \in Seq(Frame)
      /\ Len(Counted(t)) = Depth(t)
      /\ \A i \in 1..Depth(t) : /\ Counted(t)[i].sig = stack[t][i].sig
                                /\ Counted(t)[i].at = stack[t][i].at
  <2>1. CASE Idle(t)
    BY <2>1 DEF Counted, TypeOK
  <2>2. CASE ~Idle(t)
    <3> DEFINE n == Depth(t)
               g == [stack[t][n] EXCEPT !.raised = @ + 1]
    <3>1. stack[t] \in Seq(Frame) /\ n \in Nat /\ n > 0
      BY <2>2 DEF TypeOK
    <3>2. stack[t][n] \in Frame
      BY <3>1
    <3>3. stack[t][n].raised < MaxRaises
      BY <2>2 DEF RaiseSignal, MayRaise
    <3>4. /\ g \in Frame
          /\ g.sig = stack[t][n].sig
          /\ g.at = stack[t][n].at
      BY <3>2, <3>3, ConstantsAssumption DEF Frame
    <3>5. Counted(t) = [stack[t] EXCEPT ![n] = g]
      BY <2>2 DEF Counted
    <3> HIDE DEF g
    <3> QED
      BY <3>1, <3>4, <3>5
  <2> QED
    BY <2>1, <2>2
<1>3. stack' = [stack EXCEPT ![t] = Append(Counted(t), f)]
  BY DEF RaiseSignal
<1>4. stack'[t] = Append(Counted(t), f) /\ OthersKeep(t)
  BY <1>3 DEF TypeOK, OthersKeep
<1>5. Depth(t) \in Nat
  BY DEF TypeOK
<1> HIDE DEF f
<1>6. /\ stack'[t] \in Seq(Frame)
      /\ Len(stack'[t]) = Depth(t) + 1
      /\ \A i \in 1..Depth(t) : stack'[t][i] = Counted(t)[i]
      /\ stack'[t][Depth(t) + 1] = f
  BY <1>1, <1>2, <1>4, <1>5
<1>7. SameFrames(t, Depth(t))
  BY <1>2, <1>6 DEF SameFrames
<1>8. f.sig = s /\ f.at = "lock"
  BY DEF f
<1>9. stack' \in [Threads -> Seq(Frame)]
  BY <1>3, <1>4, <1>6 DEF TypeOK
<1> QED
  BY <1>4, <1>6, <1>7, <1>8, <1>9

(* A call of an unknown name changes no frame.                             *)
LEMMA UnknownFrames ==
  ASSUME TypeOK, NEW t \in Threads, NEW name, RaiseUnknown(t, name)
  PROVE  /\ stack' \in [Threads -> Seq(Frame)]
         /\ Len(stack'[t]) = Depth(t)
         /\ SameFrames(t, Depth(t))
         /\ OthersKeep(t)
<1>1. CASE Idle(t)
  <2>1. stack' = stack
    BY <1>1 DEF RaiseUnknown, Counted, TypeOK
  <2> QED
    BY <2>1 DEF TypeOK, SameFrames, OthersKeep
<1>2. CASE ~Idle(t)
  <2> DEFINE n == Depth(t)
             g == [stack[t][n] EXCEPT !.raised = @ + 1]
  <2>1. stack[t] \in Seq(Frame) /\ n \in Nat /\ n > 0
    BY <1>2 DEF TypeOK
  <2>2. stack[t][n] \in Frame
    BY <2>1
  <2>3. stack[t][n].raised < MaxRaises
    BY <1>2 DEF RaiseUnknown, MayRaise
  <2>4. /\ g \in Frame
        /\ g.sig = stack[t][n].sig
        /\ g.at = stack[t][n].at
    BY <2>2, <2>3, ConstantsAssumption DEF Frame
  <2>5. stack' = [stack EXCEPT ![t] = [stack[t] EXCEPT ![n] = g]]
    BY <1>2 DEF RaiseUnknown, Counted
  <2> HIDE DEF g
  <2>6. stack'[t] = [stack[t] EXCEPT ![n] = g] /\ OthersKeep(t)
    BY <2>5 DEF TypeOK, OthersKeep
  <2>7. stack'[t] \in Seq(Frame) /\ Len(stack'[t]) = n /\ SameFrames(t, n)
    BY <2>1, <2>4, <2>6 DEF SameFrames
  <2>8. stack' \in [Threads -> Seq(Frame)]
    BY <2>5, <2>6, <2>7 DEF TypeOK
  <2> QED
    BY <2>6, <2>7, <2>8
<1> QED
  BY <1>1, <1>2

(* Entering a handler moves the innermost frame from the lock to the       *)
(* script.                                                                 *)
LEMMA EnterFrames ==
  ASSUME TypeOK, NEW t \in Threads, NEW s \in Signals, Enter(t, s)
  PROVE  /\ Depth(t) \in Nat \ {0}
         /\ stack' \in [Threads -> Seq(Frame)]
         /\ Len(stack'[t]) = Depth(t)
         /\ SameFrames(t, Depth(t) - 1)
         /\ stack'[t][Depth(t)].sig = s
         /\ stack'[t][Depth(t)].at = "script"
         /\ OthersKeep(t)
<1> DEFINE n == Depth(t)
           g == [stack[t][n] EXCEPT !.at = "script"]
<1>1. stack[t] \in Seq(Frame) /\ n \in Nat /\ n > 0
  BY DEF TypeOK, Enter
<1>2. stack[t][n] \in Frame /\ stack[t][n].sig = s
  BY <1>1 DEF Enter
<1>3. g \in Frame /\ g.sig = s /\ g.at = "script"
  BY <1>2 DEF Frame
<1>4. stack' = [stack EXCEPT ![t] = [stack[t] EXCEPT ![n] = g]]
  BY DEF Enter
<1> HIDE DEF g
<1>5. stack'[t] = [stack[t] EXCEPT ![n] = g] /\ OthersKeep(t)
  BY <1>4 DEF TypeOK, OthersKeep
<1>6. /\ stack'[t] \in Seq(Frame)
      /\ Len(stack'[t]) = n
      /\ SameFrames(t, n - 1)
      /\ stack'[t][n] = g
  BY <1>1, <1>3, <1>5 DEF SameFrames
<1>7. stack' \in [Threads -> Seq(Frame)]
  BY <1>4, <1>5, <1>6 DEF TypeOK
<1> QED
  BY <1>1, <1>3, <1>5, <1>6, <1>7

(* Leaving a call removes the innermost frame.                             *)
LEMMA PopFrames ==
  ASSUME TypeOK, NEW t \in Threads, ~Idle(t),
         stack' = [stack EXCEPT ![t] = Pop(t)]
  PROVE  /\ Depth(t) \in Nat \ {0}
         /\ stack' \in [Threads -> Seq(Frame)]
         /\ Len(stack'[t]) = Depth(t) - 1
         /\ SameFrames(t, Depth(t) - 1)
         /\ OthersKeep(t)
<1>1. stack[t] \in Seq(Frame) /\ Depth(t) \in Nat /\ Depth(t) > 0
  BY DEF TypeOK
<1>2. stack'[t] = SubSeq(stack[t], 1, Depth(t) - 1) /\ OthersKeep(t)
  BY DEF TypeOK, OthersKeep, Pop
<1>3. /\ stack'[t] \in Seq(Frame)
      /\ Len(stack'[t]) = Depth(t) - 1
      /\ SameFrames(t, Depth(t) - 1)
  BY <1>1, <1>2 DEF SameFrames
<1>4. stack' \in [Threads -> Seq(Frame)]
  BY <1>2, <1>3 DEF TypeOK, OthersKeep
<1> QED
  BY <1>1, <1>2, <1>3, <1>4

-----------------------------------------------------------------------------
(* Type correctness.  The data of a call is named by its depth, so the     *)
(* depth must be bounded too.                                              *)

DepthBounded == \A t \in Threads : Depth(t) <= MaxDepth

TypeInv == TypeOK /\ DepthBounded

LEMMA TypeInvInit == Init => TypeInv
<1> SUFFICES ASSUME Init PROVE TypeInv
  OBVIOUS
<1>1. TypeOK
  <2>1. stack \in [Threads -> Seq(Frame)]
    <3>1. <<>> \in Seq(Frame)
      OBVIOUS
    <3> QED
      BY <3>1, Zenon DEF Init
  <2>2. owner \in [Signals -> Threads \cup {None}]
    BY DEF Init
  <2>3. running \in [Signals -> BOOLEAN]
    BY DEF Init
  <2>4. stdd \in [Signals -> Data \cup {NoData}]
    BY DEF Init
  <2>5. reply \in [Threads -> Replies]
    BY DEF Init, Replies
  <2> QED
    BY <2>1, <2>2, <2>3, <2>4, <2>5 DEF TypeOK
<1>2. \A t \in Threads : Len(stack[t]) = 0
  BY DEF Init
<1> QED
  BY <1>1, <1>2, ConstantsAssumption DEF TypeInv, DepthBounded

(* A step after which no stack is deeper keeps the bound.                  *)
LEMMA NoDeeper ==
  ASSUME TypeInv, NEW t \in Threads, OthersKeep(t),
         Len(stack'[t]) <= MaxDepth
  PROVE  DepthBounded'
<1> SUFFICES ASSUME NEW u \in Threads PROVE Len(stack'[u]) <= MaxDepth
  BY DEF DepthBounded
<1> QED
  BY DEF TypeInv, DepthBounded, OthersKeep

LEMMA TypeInvNext == TypeInv /\ [Next]_vars => TypeInv'
<1> SUFFICES ASSUME TypeInv, [Next]_vars PROVE TypeInv'
  OBVIOUS
<1> USE DEF TypeInv
<1>1. ASSUME NEW t \in Threads, NEW s \in Signals, RaiseSignal(t, s)
      PROVE  TypeInv'
  <2>1. TypeOK'
    BY <1>1, RaiseFrames DEF TypeOK, RaiseSignal
  <2>2. DepthBounded'
    <3>1. Depth(t) \in Nat /\ Len(stack'[t]) = Depth(t) + 1 /\ OthersKeep(t)
      BY <1>1, RaiseFrames DEF TypeOK
    <3>2. Len(stack'[t]) <= MaxDepth
      BY <1>1, <3>1, ConstantsAssumption DEF RaiseSignal
    <3> QED
      BY <3>1, <3>2, NoDeeper
  <2> QED
    BY <2>1, <2>2
<1>2. ASSUME NEW t \in Threads, NEW name, RaiseUnknown(t, name)
      PROVE  TypeInv'
  <2>1. TypeOK'
    BY <1>2, UnknownFrames DEF TypeOK, RaiseUnknown, Replies
  <2>2. DepthBounded'
    BY <1>2, UnknownFrames, NoDeeper DEF DepthBounded
  <2> QED
    BY <2>1, <2>2
<1>3. ASSUME NEW t \in Threads, NEW s \in Signals, Enter(t, s)
      PROVE  TypeInv'
  <2>1. <<t, Depth(t)>> \in Data
    BY <1>3, EnterFrames DEF DepthBounded, Data, TypeOK
  <2>2. TypeOK'
    BY <1>3, <2>1, EnterFrames DEF TypeOK, Enter
  <2>3. DepthBounded'
    BY <1>3, EnterFrames, NoDeeper DEF DepthBounded
  <2> QED
    BY <2>2, <2>3
<1>4. ASSUME NEW t \in Threads, NEW s \in Signals, PreventRecursion(t, s)
      PROVE  TypeInv'
  <2>1. ~Idle(t) /\ stack' = [stack EXCEPT ![t] = Pop(t)]
    BY <1>4 DEF PreventRecursion
  <2>2. TypeOK'
    BY <1>4, <2>1, PopFrames
       DEF TypeOK, PreventRecursion, FlagCleared, NestedUnlocked, Replies
  <2>3. DepthBounded'
    <3>1. Depth(t) \in Nat /\ Len(stack'[t]) = Depth(t) - 1 /\ OthersKeep(t)
      BY <2>1, PopFrames
    <3>2. Len(stack'[t]) <= MaxDepth
      BY <3>1, ConstantsAssumption DEF DepthBounded
    <3> QED
      BY <3>1, <3>2, NoDeeper
  <2> QED
    BY <2>2, <2>3
<1>5. ASSUME NEW t \in Threads, NEW s \in Signals, FailRecursion(t, s)
      PROVE  TypeInv'
  <2>1. ~Idle(t) /\ stack' = [stack EXCEPT ![t] = Pop(t)]
    BY <1>5 DEF FailRecursion
  <2>2. <<t, Depth(t)>> \in Data
    BY <2>1, PopFrames DEF DepthBounded, Data, TypeOK
  <2>3. TypeOK'
    BY <1>5, <2>1, <2>2, PopFrames
       DEF TypeOK, FailRecursion, FlagCleared, NestedUnlocked, Replies
  <2>4. DepthBounded'
    <3>1. Depth(t) \in Nat /\ Len(stack'[t]) = Depth(t) - 1 /\ OthersKeep(t)
      BY <2>1, PopFrames
    <3>2. Len(stack'[t]) <= MaxDepth
      BY <3>1, ConstantsAssumption DEF DepthBounded
    <3> QED
      BY <3>1, <3>2, NoDeeper
  <2> QED
    BY <2>3, <2>4
<1>6. ASSUME NEW t \in Threads, NEW result \in Results, Finish(t, result)
      PROVE  TypeInv'
  <2>1. ~Idle(t) /\ stack' = [stack EXCEPT ![t] = Pop(t)]
    BY <1>6 DEF Finish
  <2>2. Output(result) \in Replies
    BY DEF Output, Results, Replies
  <2>3. TypeOK'
    BY <1>6, <2>1, <2>2, PopFrames DEF TypeOK, Finish, FlagCleared, Unlocked
  <2>4. DepthBounded'
    <3>1. Depth(t) \in Nat /\ Len(stack'[t]) = Depth(t) - 1 /\ OthersKeep(t)
      BY <2>1, PopFrames
    <3>2. Len(stack'[t]) <= MaxDepth
      BY <3>1, ConstantsAssumption DEF DepthBounded
    <3> QED
      BY <3>1, <3>2, NoDeeper
  <2> QED
    BY <2>3, <2>4
<1>7. CASE UNCHANGED vars
  BY <1>7 DEF vars, TypeOK, DepthBounded
<1> QED
  BY <1>1, <1>2, <1>3, <1>4, <1>5, <1>6, <1>7 DEF Next, Step

(* Every reachable state of any system of handlers is well typed: among    *)
(* others, a result always is one of the four answers of M.signal.         *)
THEOREM TypeCorrect == Spec => []TypeOK
<1>1. TypeInv => TypeOK
  BY DEF TypeInv
<1> QED
  BY <1>1, TypeInvInit, TypeInvNext, PTL DEF Spec

-----------------------------------------------------------------------------
(* Mutual exclusion of the scripts.                                        *)

(* Only the innermost call can wait: the outer ones are inside a script.   *)
OuterInScript ==
  \A t \in Threads : \A i \in 1..Depth(t) :
    i < Depth(t) => stack[t][i].at = "script"

(* A thread runs the script of a handler in at most one of its calls, and  *)
(* holds the mutex meanwhile.                                              *)
OneActivation ==
  \A s \in Signals : \A t \in Threads : \A i, j \in 1..Depth(t) :
    Executes(t, i, s) /\ Executes(t, j, s) => i = j

ScriptHolds ==
  \A s \in Signals : \A t \in Threads : \A i \in 1..Depth(t) :
    Executes(t, i, s) => owner[s] = t

HolderRuns ==
  \A s \in Signals : \A t \in Threads :
    owner[s] = t => \E i \in 1..Depth(t) : Executes(t, i, s)

(* The flag is only set while the mutex is held.                           *)
FlagUnderMutex == \A s \in Signals : running[s] => owner[s] # None

LockInv ==
  /\ TypeInv
  /\ OuterInScript
  /\ OneActivation
  /\ ScriptHolds
  /\ HolderRuns
  /\ FlagUnderMutex

LEMMA LockInvInit == Init => LockInv
<1> SUFFICES ASSUME Init PROVE LockInv
  OBVIOUS
<1>1. TypeInv
  BY TypeInvInit
<1>2. \A t \in Threads : Depth(t) = 0
  BY DEF Init
<1>3. \A s \in Signals : owner[s] = None /\ None \notin Threads /\ running[s] = FALSE
  BY ConstantsAssumption DEF Init
<1> QED
  BY <1>1, <1>2, <1>3
     DEF LockInv, OuterInScript, OneActivation, ScriptHolds, HolderRuns, FlagUnderMutex

(* A step that adds, keeps or removes a call waiting for the lock leaves   *)
(* the set of scripts that are executed alone.                             *)
LEMMA SameScripts ==
  ASSUME LockInv, NEW t \in Threads, OthersKeep(t),
         stack' \in [Threads -> Seq(Frame)],
         NEW n \in Nat, n <= Depth(t), n <= Len(stack'[t]), SameFrames(t, n),
         \A i \in 1..Depth(t) : i > n => stack[t][i].at = "lock",
         \A i \in 1..Len(stack'[t]) : i > n => stack'[t][i].at = "lock"
  PROVE  \A u \in Threads : \A i \in Nat : \A s \in Signals :
           Executes(u, i, s)' <=> Executes(u, i, s)
<1> SUFFICES ASSUME NEW u \in Threads, NEW i \in Nat, NEW s \in Signals
             PROVE  Executes(u, i, s)' <=> Executes(u, i, s)
  OBVIOUS
<1>1. CASE u # t
  BY <1>1 DEF OthersKeep, Executes
<1>2. CASE u = t
  <2>1. Depth(t) \in Nat /\ Len(stack'[t]) \in Nat
    BY DEF LockInv, TypeInv, TypeOK
  <2>2. CASE i \in 1..n
    BY <1>2, <2>1, <2>2 DEF Executes, SameFrames
  <2>3. CASE i \notin 1..n
    BY <1>2, <2>1, <2>3 DEF Executes
  <2> QED
    BY <2>2, <2>3
<1> QED
  BY <1>1, <1>2

(* A step that changes neither the scripts that are executed nor the       *)
(* holders of the mutexes keeps the invariant.                             *)
LEMMA KeptScripts ==
  ASSUME LockInv, TypeInv', OuterInScript', FlagUnderMutex', owner' = owner,
         \A u \in Threads : \A i \in Nat : \A r \in Signals :
           Executes(u, i, r)' <=> Executes(u, i, r)
  PROVE  LockInv'
<1>1. \A u \in Threads : Depth(u) \in Nat /\ Len(stack'[u]) \in Nat
  BY DEF LockInv, TypeInv, TypeOK
<1>2. OneActivation'
  BY <1>1 DEF LockInv, OneActivation, Executes
<1>3. ScriptHolds'
  BY <1>1 DEF LockInv, ScriptHolds, Executes
<1>4. HolderRuns'
  <2> SUFFICES ASSUME NEW r \in Signals, NEW u \in Threads, owner'[r] = u
               PROVE  \E i \in 1..Len(stack'[u]) : Executes(u, i, r)'
    BY DEF HolderRuns
  <2>1. PICK i \in 1..Depth(u) : Executes(u, i, r)
    BY DEF LockInv, HolderRuns
  <2>2. Executes(u, i, r)' /\ i \in Nat
    BY <2>1, <1>1
  <2> QED
    BY <2>2 DEF Executes
<1> QED
  BY <1>2, <1>3, <1>4 DEF LockInv

(* A nested call that is refused or fails goes back to the outer script.   *)
LEMMA NestedCallReturns ==
  ASSUME LockInv, NEW t \in Threads, NEW s \in Signals, AtLock(t, s),
         stack' = [stack EXCEPT ![t] = Pop(t)], owner' = NestedUnlocked(s),
         running' = FlagCleared(s), TypeInv'
  PROVE  LockInv'
<1> DEFINE n == Depth(t)
<1>1. /\ n \in Nat \ {0}
      /\ stack' \in [Threads -> Seq(Frame)]
      /\ Len(stack'[t]) = n - 1
      /\ SameFrames(t, n - 1)
      /\ OthersKeep(t)
  BY PopFrames DEF LockInv, TypeInv
<1>2. /\ \A i \in 1..Depth(t) : i > n - 1 => stack[t][i].at = "lock"
      /\ \A i \in 1..Len(stack'[t]) : i > n - 1 => stack'[t][i].at = "lock"
  BY <1>1
<1>3. \A u \in Threads : \A i \in Nat : \A r \in Signals :
        Executes(u, i, r)' <=> Executes(u, i, r)
  <2> n - 1 \in Nat /\ n - 1 <= Depth(t) /\ n - 1 <= Len(stack'[t])
    BY <1>1
  <2> QED
    BY <1>1, <1>2, SameScripts
<1>4. OuterInScript'
  BY <1>1 DEF LockInv, OuterInScript, OthersKeep, SameFrames
<1>5. owner' = owner /\ FlagUnderMutex'
  BY DEF LockInv, FlagUnderMutex, FlagCleared, NestedUnlocked, TypeInv, TypeOK
<1> QED
  BY <1>3, <1>4, <1>5, KeptScripts

LEMMA LockInvNext == LockInv /\ [Next]_vars => LockInv'
<1> SUFFICES ASSUME LockInv, [Next]_vars PROVE LockInv'
  OBVIOUS
<1>0. TypeInv'
  BY TypeInvNext DEF LockInv
<1>1. ASSUME NEW t \in Threads, NEW s \in Signals, RaiseSignal(t, s)
      PROVE  LockInv'
  <2> DEFINE n == Depth(t)
  <2>1. /\ n \in Nat /\ Len(stack'[t]) = n + 1 /\ SameFrames(t, n)
        /\ stack'[t][n + 1].at = "lock" /\ OthersKeep(t)
        /\ stack' \in [Threads -> Seq(Frame)]
    BY <1>1, RaiseFrames DEF LockInv, TypeInv, TypeOK
  <2>2. \A u \in Threads : \A i \in Nat : \A r \in Signals :
          Executes(u, i, r)' <=> Executes(u, i, r)
    <3>1. /\ n <= Depth(t) /\ n <= Len(stack'[t])
          /\ \A i \in 1..Depth(t) : i > n => stack[t][i].at = "lock"
          /\ \A i \in 1..Len(stack'[t]) : i > n => stack'[t][i].at = "lock"
      BY <2>1
    <3> QED
      BY <2>1, <3>1, SameScripts
  <2>3. n = 0 \/ stack[t][n].at = "script"
    BY <1>1 DEF RaiseSignal, MayRaise
  <2>4. OuterInScript'
    <3> SUFFICES ASSUME NEW u \in Threads, NEW i \in 1..Len(stack'[u]),
                        i < Len(stack'[u])
                 PROVE  stack'[u][i].at = "script"
      BY DEF OuterInScript
    <3>1. CASE u # t
      BY <3>1, <2>1 DEF LockInv, OuterInScript, OthersKeep
    <3>2. CASE u = t
      <4>1. stack'[t][i].at = stack[t][i].at /\ i \in 1..n
        BY <3>2, <2>1 DEF SameFrames
      <4>2. stack[t][i].at = "script"
        BY <4>1, <2>1, <2>3 DEF LockInv, OuterInScript
      <4> QED
        BY <3>2, <4>1, <4>2
    <3> QED
      BY <3>1, <3>2
  <2>5. owner' = owner /\ FlagUnderMutex'
    BY <1>1 DEF LockInv, RaiseSignal, FlagUnderMutex
  <2> QED
    BY <1>0, <2>2, <2>4, <2>5, KeptScripts
<1>2. ASSUME NEW t \in Threads, NEW name, RaiseUnknown(t, name)
      PROVE  LockInv'
  <2> DEFINE n == Depth(t)
  <2>1. /\ n \in Nat /\ Len(stack'[t]) = n /\ SameFrames(t, n)
        /\ OthersKeep(t) /\ stack' \in [Threads -> Seq(Frame)]
    BY <1>2, UnknownFrames DEF LockInv, TypeInv, TypeOK
  <2>2. \A u \in Threads : \A i \in Nat : \A r \in Signals :
          Executes(u, i, r)' <=> Executes(u, i, r)
    <3> SUFFICES ASSUME NEW u \in Threads, NEW i \in Nat, NEW r \in Signals
                 PROVE  Executes(u, i, r)' <=> Executes(u, i, r)
      OBVIOUS
    <3> QED
      BY <2>1 DEF OthersKeep, Executes, SameFrames
  <2>3. OuterInScript'
    <3> SUFFICES ASSUME NEW u \in Threads, NEW i \in 1..Len(stack'[u]),
                        i < Len(stack'[u])
                 PROVE  stack'[u][i].at = "script"
      BY DEF OuterInScript
    <3> QED
      BY <2>1 DEF LockInv, OuterInScript, OthersKeep, SameFrames
  <2>4. owner' = owner /\ FlagUnderMutex'
    BY <1>2 DEF LockInv, RaiseUnknown, FlagUnderMutex
  <2> QED
    BY <1>0, <2>2, <2>3, <2>4, KeptScripts
<1>3. ASSUME NEW t \in Threads, NEW s \in Signals, Enter(t, s)
      PROVE  LockInv'
  <2> DEFINE n == Depth(t)
  <2>1. /\ n \in Nat \ {0} /\ Len(stack'[t]) = n /\ SameFrames(t, n - 1)
        /\ stack'[t][n].sig = s /\ stack'[t][n].at = "script" /\ OthersKeep(t)
    BY <1>3, EnterFrames DEF LockInv, TypeInv
  <2>2. \A u \in Threads : Depth(u) \in Nat /\ Len(stack'[u]) \in Nat
    BY <1>0 DEF LockInv, TypeInv, TypeOK
  <2>3. /\ owner[s] = None /\ owner' = [owner EXCEPT ![s] = t]
        /\ running' = [running EXCEPT ![s] = TRUE]
        /\ stack[t][n].at = "lock"
    BY <1>3 DEF Enter, ChunkOnTop
  <2>4. \A u \in Threads : \A i \in 1..Depth(u) : ~Executes(u, i, s)
    BY <2>3, ConstantsAssumption DEF LockInv, ScriptHolds
  <2>5. \A u \in Threads : \A i \in Nat : \A r \in Signals :
          Executes(u, i, r)' <=> Executes(u, i, r) \/ (u = t /\ i = n /\ r = s)
    <3> SUFFICES ASSUME NEW u \in Threads, NEW i \in Nat, NEW r \in Signals
                 PROVE  Executes(u, i, r)' <=>
                          Executes(u, i, r) \/ (u = t /\ i = n /\ r = s)
      OBVIOUS
    <3>1. CASE u # t
      BY <3>1, <2>1 DEF OthersKeep, Executes
    <3>2. CASE u = t /\ i = n
      BY <3>2, <2>1, <2>3 DEF Executes
    <3>3. CASE u = t /\ i # n
      BY <3>3, <2>1, <2>2 DEF Executes, SameFrames
    <3> QED
      BY <3>1, <3>2, <3>3
  <2>6. \A r \in Signals : owner'[r] = IF r = s THEN t ELSE owner[r]
    BY <2>3 DEF LockInv, TypeInv, TypeOK
  <2>7. \A u \in Threads : \A i : \A r \in Signals :
          /\ Executes(u, i, r) => i \in 1..Depth(u) /\ i \in Nat
          /\ Executes(u, i, r)' => i \in 1..Len(stack'[u]) /\ i \in Nat
    BY <2>2 DEF Executes
  <2>8. OneActivation'
    <3> SUFFICES ASSUME NEW r \in Signals, NEW u \in Threads, NEW i, NEW j,
                        Executes(u, i, r)', Executes(u, j, r)'
                 PROVE  i = j
      BY DEF OneActivation
    <3> QED
      BY <2>4, <2>5, <2>7 DEF LockInv, OneActivation
  <2>9. ScriptHolds'
    <3> SUFFICES ASSUME NEW r \in Signals, NEW u \in Threads, NEW i,
                        Executes(u, i, r)'
                 PROVE  owner'[r] = u
      BY DEF ScriptHolds
    <3> QED
      BY <2>4, <2>5, <2>6, <2>7 DEF LockInv, ScriptHolds
  <2>10. HolderRuns'
    <3> SUFFICES ASSUME NEW r \in Signals, NEW u \in Threads, owner'[r] = u
                 PROVE  \E i \in Nat : Executes(u, i, r)'
      BY <2>7 DEF HolderRuns
    <3>1. CASE r = s
      BY <3>1, <2>1, <2>5, <2>6
    <3>2. CASE r # s
      BY <3>2, <2>5, <2>6, <2>7 DEF LockInv, HolderRuns
    <3> QED
      BY <3>1, <3>2
  <2>11. OuterInScript'
    BY <2>1 DEF LockInv, OuterInScript, OthersKeep, SameFrames
  <2>12. FlagUnderMutex'
    BY <2>3, <2>6, ConstantsAssumption
       DEF LockInv, FlagUnderMutex, TypeInv, TypeOK
  <2> QED
    BY <1>0, <2>8, <2>9, <2>10, <2>11, <2>12 DEF LockInv
<1>4. ASSUME NEW t \in Threads, NEW s \in Signals, PreventRecursion(t, s)
      PROVE  LockInv'
  BY <1>0, <1>4, NestedCallReturns DEF PreventRecursion
<1>5. ASSUME NEW t \in Threads, NEW s \in Signals, FailRecursion(t, s)
      PROVE  LockInv'
  BY <1>0, <1>5, NestedCallReturns DEF FailRecursion
<1>6. ASSUME NEW t \in Threads, NEW result \in Results, Finish(t, result)
      PROVE  LockInv'
  <2> DEFINE n == Depth(t)
             s == stack[t][n].sig
  <2>1. /\ n \in Nat \ {0} /\ Len(stack'[t]) = n - 1 /\ SameFrames(t, n - 1)
        /\ OthersKeep(t)
    BY <1>6, PopFrames DEF LockInv, TypeInv, Finish
  <2>2. \A u \in Threads : Depth(u) \in Nat /\ Len(stack'[u]) \in Nat
    BY <1>0 DEF LockInv, TypeInv, TypeOK
  <2>3. s \in Signals
    <3>1. stack[t] \in Seq(Frame) /\ n \in 1..Len(stack[t])
      BY <2>1 DEF LockInv, TypeInv, TypeOK
    <3>2. stack[t][n] \in Frame
      BY <3>1
    <3> QED
      BY <3>2 DEF Frame
  <2>4. Executes(t, n, s)
    BY <1>6, <2>1 DEF Finish, Executes
  <2>5. /\ owner' = [owner EXCEPT ![s] = None]
        /\ running' = [running EXCEPT ![s] = FALSE]
    BY <1>6 DEF Finish, Unlocked, FlagCleared
  <2> HIDE DEF s
  <2>6. \A u \in Threads : \A i \in Nat : \A r \in Signals :
          Executes(u, i, r)' <=> Executes(u, i, r) /\ ~(u = t /\ i = n)
    <3> SUFFICES ASSUME NEW u \in Threads, NEW i \in Nat, NEW r \in Signals
                 PROVE  Executes(u, i, r)' <=>
                          Executes(u, i, r) /\ ~(u = t /\ i = n)
      OBVIOUS
    <3>1. CASE u # t
      BY <3>1, <2>1 DEF OthersKeep, Executes
    <3>2. CASE u = t
      BY <3>2, <2>1 DEF Executes, SameFrames
    <3> QED
      BY <3>1, <3>2
  <2>7. \A r \in Signals : owner'[r] = IF r = s THEN None ELSE owner[r]
    BY <2>5 DEF LockInv, TypeInv, TypeOK
  <2>8. \A u \in Threads : \A i : \A r \in Signals :
          /\ Executes(u, i, r) => i \in 1..Depth(u) /\ i \in Nat
          /\ Executes(u, i, r)' => i \in 1..Len(stack'[u]) /\ i \in Nat
    BY <2>2 DEF Executes
  <2>9. OneActivation'
    <3> SUFFICES ASSUME NEW r \in Signals, NEW u \in Threads, NEW i, NEW j,
                        Executes(u, i, r)', Executes(u, j, r)'
                 PROVE  i = j
      BY DEF OneActivation
    <3> QED
      BY <2>6, <2>8 DEF LockInv, OneActivation
  <2>10. ScriptHolds'
    <3> SUFFICES ASSUME NEW r \in Signals, NEW u \in Threads, NEW i,
                        Executes(u, i, r)'
                 PROVE  owner'[r] = u
      BY DEF ScriptHolds
    <3>1. Executes(u, i, r) /\ ~(u = t /\ i = n)
      BY <2>6, <2>8
    <3>2. owner[r] = u
      BY <3>1, <2>8 DEF LockInv, ScriptHolds
    <3>3. CASE r = s
      <4>1. owner[s] = t
        BY <2>3, <2>4, <2>8 DEF LockInv, ScriptHolds
      <4>2. u = t /\ i = n
        BY <4>1, <3>1, <3>2, <3>3, <2>3, <2>4, <2>8 DEF LockInv, OneActivation
      <4> QED
        BY <4>2, <3>1
    <3> QED
      BY <3>2, <3>3, <2>7
  <2>11. HolderRuns'
    <3> SUFFICES ASSUME NEW r \in Signals, NEW u \in Threads, owner'[r] = u
                 PROVE  \E i \in Nat : Executes(u, i, r)'
      BY <2>8 DEF HolderRuns
    <3>1. r # s /\ owner[r] = u
      BY <2>7, ConstantsAssumption
    <3>2. PICK i \in 1..Depth(u) : Executes(u, i, r)
      BY <3>1 DEF LockInv, HolderRuns
    <3>3. ~(u = t /\ i = n)
      BY <3>1, <3>2, <2>4 DEF Executes
    <3> QED
      BY <3>2, <3>3, <2>6, <2>8
  <2>12. OuterInScript'
    BY <2>1 DEF LockInv, OuterInScript, OthersKeep, SameFrames
  <2>13. FlagUnderMutex'
    BY <2>5, <2>7 DEF LockInv, FlagUnderMutex, TypeInv, TypeOK
  <2> QED
    BY <1>0, <2>9, <2>10, <2>11, <2>12, <2>13 DEF LockInv
<1>7. CASE UNCHANGED vars
  BY <1>0, <1>7 DEF LockInv, vars, OuterInScript, OneActivation, ScriptHolds,
                    HolderRuns, FlagUnderMutex, Executes
<1> QED
  BY <1>1, <1>2, <1>3, <1>4, <1>5, <1>6, <1>7 DEF Next, Step

LEMMA LockInvHolds == Spec => []LockInv
  BY LockInvInit, LockInvNext, PTL DEF Spec

(* Whatever signals the scripts raise, a lua_State never runs two          *)
(* activations at a time.                                                  *)
THEOREM StateIsExclusive == Spec => []ExclusiveState
<1>1. LockInv => ExclusiveState
  <2> SUFFICES ASSUME LockInv, NEW s \in Signals, NEW t \in Threads, NEW u \in Threads,
                      NEW i \in 1..Depth(t), NEW j \in 1..Depth(u),
                      Executes(t, i, s), Executes(u, j, s)
               PROVE  t = u /\ i = j
    BY DEF ExclusiveState
  <2>1. t = u
    BY DEF LockInv, ScriptHolds
  <2> QED
    BY <2>1 DEF LockInv, OneActivation
<1> QED
  BY <1>1, LockInvHolds, PTL

(* The mutex of a handler is held exactly while its script runs.           *)
THEOREM MutexIsHeldByScript == Spec => []MutexHeldByScript
<1>1. LockInv => MutexHeldByScript
  BY DEF LockInv, MutexHeldByScript, ScriptHolds, HolderRuns
<1> QED
  BY <1>1, LockInvHolds, PTL

(* Threads that merely compete for a handler are never refused, whatever   *)
(* signals the scripts raise.                                              *)
THEOREM RefusalsAreRecursive == Spec => PreventedOnlyIfRecursive
<1> DEFINE P == \A t \in Threads : \A s \in Signals :
                  AtLock(t, s) /\ Len(stack'[t]) < Depth(t)
                    /\ reply'[t] = "prevented" => owner[s] = t
<1>1. ASSUME LockInv, [Next]_vars PROVE P
  <2> SUFFICES ASSUME NEW t \in Threads, NEW s \in Signals, AtLock(t, s),
                      Len(stack'[t]) < Depth(t)
               PROVE  owner[s] = t
    OBVIOUS
  <2>0. TypeOK /\ Depth(t) \in Nat
    BY <1>1 DEF LockInv, TypeInv, TypeOK
  <2>1. ASSUME NEW u \in Threads, NEW r \in Signals, RaiseSignal(u, r)
        PROVE  FALSE
    BY <2>0, <2>1, RaiseFrames DEF OthersKeep
  <2>2. ASSUME NEW u \in Threads, NEW name, RaiseUnknown(u, name)
        PROVE  FALSE
    BY <2>0, <2>2, UnknownFrames DEF OthersKeep
  <2>3. ASSUME NEW u \in Threads, NEW r \in Signals, Enter(u, r)
        PROVE  FALSE
    BY <2>0, <2>3, EnterFrames DEF OthersKeep
  <2>4. ASSUME NEW u \in Threads, stack' = [stack EXCEPT ![u] = Pop(u)]
        PROVE  u = t
    BY <2>0, <2>4 DEF TypeOK
  <2>5. ASSUME NEW u \in Threads, NEW r \in Signals, PreventRecursion(u, r)
        PROVE  owner[s] = t
    BY <1>1, <2>4, <2>5 DEF PreventRecursion, LockInv, FlagUnderMutex, CanLock
  <2>6. ASSUME NEW u \in Threads, NEW r \in Signals, FailRecursion(u, r)
        PROVE  owner[s] = t
    BY <2>4, <2>6 DEF FailRecursion, ChunkOnTop, CanLock
  <2>7. ASSUME NEW u \in Threads, NEW result \in Results, Finish(u, result)
        PROVE  FALSE
    BY <2>4, <2>7 DEF Finish
  <2>8. CASE UNCHANGED vars
    BY <2>0, <2>8 DEF vars
  <2> QED
    BY <1>1, <2>1, <2>2, <2>3, <2>5, <2>6, <2>7, <2>8 DEF Next, Step
<1>2. LockInv /\ [Next]_vars => [P]_vars
  BY <1>1
<1> QED
  BY <1>2, LockInvHolds, PTL DEF PreventedOnlyIfRecursive, Spec

-----------------------------------------------------------------------------
(* Handlers that do not call themselves.                                   *)

(* The ranks decrease along the calls of a thread.                         *)
Nested(rank) ==
  \A t \in Threads : \A i, j \in 1..Depth(t) :
    i < j => rank[stack[t][j].sig] < rank[stack[t][i].sig]

OrderInv(rank) == LockInv /\ Nested(rank) /\ OwnArguments

(* A call that gets the mutex gets it from nobody.                         *)
LEMMA NoRecursion ==
  ASSUME NEW rank \in [Signals -> Nat], LockInv, Nested(rank),
         NEW t \in Threads, NEW s \in Signals, AtLock(t, s), CanLock(t, s)
  PROVE  owner[s] = None
<1> DEFINE n == Depth(t)
<1>1. SUFFICES ASSUME owner[s] = t PROVE FALSE
  BY DEF CanLock
<1>2. PICK i \in 1..n : Executes(t, i, s)
  BY <1>1 DEF LockInv, HolderRuns
<1>3. n \in Nat /\ n > 0 /\ i < n
  BY <1>2 DEF LockInv, TypeInv, TypeOK, Executes
<1>4. rank[s] < rank[s]
  BY <1>2, <1>3 DEF Nested, Executes
<1> QED
  BY <1>4

LEMMA OrderInvInit ==
  ASSUME NEW rank \in [Signals -> Nat], Init
  PROVE  OrderInv(rank)
<1>1. \A t \in Threads : Depth(t) = 0
  BY DEF Init
<1> QED
  BY <1>1, LockInvInit DEF OrderInv, Nested, OwnArguments

LEMMA OrderInvNext ==
  ASSUME NEW rank \in [Signals -> Nat], Ranks(rank), OrderInv(rank), [Next]_vars
  PROVE  OrderInv(rank)'
<1>0. LockInv /\ LockInv' /\ TypeOK /\ Nested(rank) /\ OwnArguments
  BY LockInvNext DEF OrderInv, LockInv, TypeInv
<1>1. ASSUME NEW t \in Threads, NEW s \in Signals, RaiseSignal(t, s)
      PROVE  Nested(rank)' /\ OwnArguments'
  <2> DEFINE n == Depth(t)
  <2>1. /\ n \in Nat /\ Len(stack'[t]) = n + 1 /\ SameFrames(t, n)
        /\ stack'[t][n + 1].sig = s /\ stack'[t][n + 1].at = "lock"
        /\ OthersKeep(t)
    BY <1>0, <1>1, RaiseFrames DEF TypeOK
  <2>2. ASSUME NEW i \in 1..n PROVE rank[s] < rank[stack[t][i].sig]
    <3>1. stack[t] \in Seq(Frame) /\ n \in 1..Len(stack[t]) /\ n = Len(stack[t])
      BY <1>0, <2>1, <2>2 DEF TypeOK
    <3>2. stack[t][n] \in Frame /\ stack[t][i] \in Frame
      BY <3>1, <2>2
    <3>3. s \in Raises[stack[t][n].sig]
      BY <1>1, <3>1 DEF RaiseSignal, MayRaise
    <3>4. rank[s] < rank[stack[t][n].sig]
      BY <3>2, <3>3 DEF Ranks, Frame
    <3>5. i = n \/ rank[stack[t][n].sig] < rank[stack[t][i].sig]
      BY <1>0, <2>2, <3>1 DEF Nested
    <3>6. /\ rank[s] \in Nat /\ rank[stack[t][n].sig] \in Nat
          /\ rank[stack[t][i].sig] \in Nat
      BY <3>2 DEF Frame
    <3> QED
      BY <3>4, <3>5, <3>6
  <2>3. Nested(rank)'
    <3> SUFFICES ASSUME NEW u \in Threads, NEW i \in 1..Len(stack'[u]),
                        NEW j \in 1..Len(stack'[u]), i < j
                 PROVE  rank[stack'[u][j].sig] < rank[stack'[u][i].sig]
      BY DEF Nested
    <3>1. CASE u # t
      BY <1>0, <2>1, <3>1 DEF Nested, OthersKeep
    <3>2. CASE u = t /\ j = n + 1
      <4>1. i \in 1..n /\ stack'[t][i].sig = stack[t][i].sig
        BY <2>1, <3>2 DEF SameFrames
      <4> QED
        BY <2>1, <2>2, <3>2, <4>1
    <3>3. CASE u = t /\ j # n + 1
      <4>1. i \in 1..(n + 1) /\ j \in 1..(n + 1)
        BY <2>1, <3>3
      <4>2. i \in 1..n /\ j \in 1..n
        BY <2>1, <3>3, <4>1
      <4>3. /\ stack'[t][i].sig = stack[t][i].sig
            /\ stack'[t][j].sig = stack[t][j].sig
        BY <2>1, <4>2 DEF SameFrames
      <4> QED
        BY <1>0, <3>3, <4>2, <4>3 DEF Nested
    <3> QED
      BY <3>1, <3>2, <3>3
  <2>4. OwnArguments'
    <3> SUFFICES ASSUME NEW u \in Threads, NEW i \in 1..Len(stack'[u]),
                        stack'[u][i].at = "script"
                 PROVE  stdd'[stack'[u][i].sig] = <<u, i>>
      BY DEF OwnArguments
    <3>1. stdd' = stdd
      BY <1>1 DEF RaiseSignal
    <3>2. CASE u # t
      BY <1>0, <2>1, <3>1, <3>2 DEF OwnArguments, OthersKeep
    <3>3. CASE u = t
      <4>1. /\ i \in 1..n
            /\ stack'[t][i].sig = stack[t][i].sig
            /\ stack'[t][i].at = stack[t][i].at
        BY <2>1, <3>3 DEF SameFrames
      <4> QED
        BY <1>0, <3>1, <3>3, <4>1 DEF OwnArguments
    <3> QED
      BY <3>2, <3>3
  <2> QED
    BY <2>3, <2>4
<1>2. ASSUME NEW t \in Threads, NEW n \in Nat, n <= Depth(t), n = Len(stack'[t]),
             SameFrames(t, n), OthersKeep(t), stdd' = stdd
      PROVE  Nested(rank)' /\ OwnArguments'
  <2>1. Depth(t) \in Nat
    BY <1>0 DEF TypeOK
  <2>2. Nested(rank)'
    <3> SUFFICES ASSUME NEW u \in Threads, NEW i \in 1..Len(stack'[u]),
                        NEW j \in 1..Len(stack'[u]), i < j
                 PROVE  rank[stack'[u][j].sig] < rank[stack'[u][i].sig]
      BY DEF Nested
    <3>1. CASE u # t
      BY <1>0, <1>2, <3>1 DEF Nested, OthersKeep
    <3>2. CASE u = t
      <4>1. /\ i \in 1..Depth(t) /\ j \in 1..Depth(t)
            /\ stack'[t][i].sig = stack[t][i].sig
            /\ stack'[t][j].sig = stack[t][j].sig
        BY <1>2, <2>1, <3>2 DEF SameFrames
      <4> QED
        BY <1>0, <3>2, <4>1 DEF Nested
    <3> QED
      BY <3>1, <3>2
  <2>3. OwnArguments'
    <3> SUFFICES ASSUME NEW u \in Threads, NEW i \in 1..Len(stack'[u]),
                        stack'[u][i].at = "script"
                 PROVE  stdd'[stack'[u][i].sig] = <<u, i>>
      BY DEF OwnArguments
    <3>1. CASE u # t
      BY <1>0, <1>2, <3>1 DEF OwnArguments, OthersKeep
    <3>2. CASE u = t
      <4>1. /\ i \in 1..Depth(t)
            /\ stack'[t][i].sig = stack[t][i].sig
            /\ stack'[t][i].at = stack[t][i].at
        BY <1>2, <2>1, <3>2 DEF SameFrames
      <4> QED
        BY <1>0, <1>2, <3>2, <4>1 DEF OwnArguments
    <3> QED
      BY <3>1, <3>2
  <2> QED
    BY <2>2, <2>3
<1>3. ASSUME NEW t \in Threads, NEW name, RaiseUnknown(t, name)
      PROVE  Nested(rank)' /\ OwnArguments'
  <2>1. Depth(t) \in Nat
    BY <1>0 DEF TypeOK
  <2>3. stdd' = stdd
    BY <1>3 DEF RaiseUnknown
  <2>2. Len(stack'[t]) = Depth(t) /\ SameFrames(t, Depth(t)) /\ OthersKeep(t)
    BY <1>0, <1>3, UnknownFrames
  <2> QED
    BY <1>2, <2>1, <2>2, <2>3
<1>4. ASSUME NEW t \in Threads, NEW s \in Signals, Enter(t, s)
      PROVE  Nested(rank)' /\ OwnArguments'
  <2> DEFINE n == Depth(t)
  <2>1. /\ n \in Nat \ {0} /\ Len(stack'[t]) = n /\ SameFrames(t, n - 1)
        /\ stack'[t][n].sig = s /\ stack'[t][n].at = "script" /\ OthersKeep(t)
    BY <1>0, <1>4, EnterFrames
  <2>2. /\ stack[t][n].sig = s
        /\ owner[s] = None
        /\ stdd' = [stdd EXCEPT ![s] = <<t, n>>]
    BY <1>4 DEF Enter, ChunkOnTop
  <2>3. /\ \A u \in Threads : Len(stack'[u]) = Len(stack[u])
        /\ \A u \in Threads : \A i \in 1..Len(stack[u]) :
             stack'[u][i].sig = stack[u][i].sig
    <3>1. \A i \in 1..n : stack'[t][i].sig = stack[t][i].sig
      BY <2>1, <2>2 DEF SameFrames
    <3> QED
      BY <2>1, <3>1 DEF OthersKeep
  <2>4. Nested(rank)'
    BY <1>0, <2>3 DEF Nested
  <2>5. OwnArguments'
    <3> SUFFICES ASSUME NEW u \in Threads, NEW i \in 1..Len(stack'[u]),
                        stack'[u][i].at = "script"
                 PROVE  stdd'[stack'[u][i].sig] = <<u, i>>
      BY DEF OwnArguments
    <3>1. stdd \in [Signals -> Data \cup {NoData}]
      BY <1>0 DEF TypeOK
    <3>2. CASE u = t /\ i = n
      BY <2>1, <2>2, <3>1, <3>2
    <3>3. CASE ~(u = t /\ i = n)
      <4> DEFINE r == stack[u][i].sig
      <4>1. stack[u][i].at = "script" /\ i \in 1..Len(stack[u])
        BY <2>1, <2>3, <3>3 DEF OthersKeep, SameFrames
      <4>2. r \in Signals
        <5>1. stack[u] \in Seq(Frame)
          BY <1>0 DEF TypeOK
        <5>2. stack[u][i] \in Frame
          BY <4>1, <5>1
        <5> QED
          BY <5>2 DEF Frame
      <4>3. owner[r] = u
        BY <1>0, <4>1, <4>2 DEF LockInv, ScriptHolds, Executes
      <4>4. r # s
        BY <2>2, <4>3, ConstantsAssumption
      <4>5. stdd[r] = <<u, i>>
        BY <1>0, <4>1 DEF OwnArguments
      <4>6. stdd'[r] = stdd[r]
        BY <2>2, <3>1, <4>2, <4>4
      <4> QED
        BY <2>3, <4>1, <4>5, <4>6
    <3> QED
      BY <3>2, <3>3
  <2> QED
    BY <2>4, <2>5
<1>5. ASSUME NEW t \in Threads, NEW s \in Signals,
             PreventRecursion(t, s) \/ FailRecursion(t, s)
      PROVE  FALSE
  <2>1. AtLock(t, s) /\ CanLock(t, s)
    BY <1>5 DEF PreventRecursion, FailRecursion
  <2>2. owner[s] = None
    BY <1>0, <2>1, NoRecursion
  <2> QED
    BY <1>0, <1>5, <2>2
       DEF PreventRecursion, FailRecursion, ChunkOnTop, LockInv, FlagUnderMutex
<1>6. ASSUME NEW t \in Threads, NEW result \in Results, Finish(t, result)
      PROVE  Nested(rank)' /\ OwnArguments'
  <2> DEFINE n == Depth(t)
  <2>1. ~Idle(t) /\ stack' = [stack EXCEPT ![t] = Pop(t)] /\ stdd' = stdd
    BY <1>6 DEF Finish
  <2>2. /\ n \in Nat \ {0} /\ Len(stack'[t]) = n - 1 /\ SameFrames(t, n - 1)
        /\ OthersKeep(t)
    BY <1>0, <2>1, PopFrames
  <2>3. n - 1 \in Nat /\ n - 1 <= n
    BY <2>2
  <2> QED
    BY <1>2, <2>1, <2>2, <2>3
<1>7. ASSUME UNCHANGED vars
      PROVE  Nested(rank)' /\ OwnArguments'
  BY <1>0, <1>7 DEF vars, Nested, OwnArguments
<1>8. Nested(rank)' /\ OwnArguments'
  BY <1>1, <1>3, <1>4, <1>5, <1>6, <1>7 DEF Next, Step
<1> QED
  BY <1>0, <1>8 DEF OrderInv

(* When the handlers do not call themselves, get_args reads the data of    *)
(* the call that the script serves.                                        *)
THEOREM ArgumentsAreOwn ==
  ASSUME Acyclic
  PROVE  Spec => []OwnArguments
<1>1. PICK rank \in [Signals -> Nat] : Ranks(rank)
  BY DEF Acyclic
<1>2. Init => OrderInv(rank)
  BY OrderInvInit
<1>3. OrderInv(rank) /\ [Next]_vars => OrderInv(rank)'
  BY <1>1, OrderInvNext
<1>4. OrderInv(rank) => OwnArguments
  BY DEF OrderInv
<1> QED
  BY <1>2, <1>3, <1>4, PTL DEF Spec

-----------------------------------------------------------------------------
(* SignalDispatch implements SignalMonitor when the handlers do not call   *)
(* themselves.                                                             *)

(* The call of t at depth i waits at s.                                    *)
Waits(t, i, s) ==
  /\ i \in 1..Depth(t)
  /\ stack[t][i].sig = s
  /\ stack[t][i].at = "lock"

LEMMA WaitingIsWaits ==
  ASSUME TypeInv, NEW t \in Threads, NEW i \in Nat, NEW s \in Signals
  PROVE  <<t, i>> \in Waiting(s) <=> Waits(t, i, s)
<1>1. Depth(t) \in Nat
  BY DEF TypeInv, TypeOK
<1>2. Depth(t) <= MaxDepth /\ MaxDepth \in Nat
  BY ConstantsAssumption DEF TypeInv, DepthBounded
<1> QED
  BY <1>1, <1>2 DEF Waiting, Waits, Data

LEMMA WaitingIsWaitsNext ==
  ASSUME TypeInv', NEW t \in Threads, NEW i \in Nat, NEW s \in Signals
  PROVE  <<t, i>> \in Waiting(s)' <=> Waits(t, i, s)'
<1>1. Len(stack'[t]) \in Nat
  BY DEF TypeInv, TypeOK
<1>2. Len(stack'[t]) <= MaxDepth /\ MaxDepth \in Nat
  BY ConstantsAssumption DEF TypeInv, DepthBounded
<1> QED
  BY <1>1, <1>2 DEF Waiting, Waits, Data

LEMMA WaitingArePairs ==
  ASSUME NEW s \in Signals
  PROVE  /\ \A d \in Waiting(s) : \E t \in Threads : \E i \in Nat : d = <<t, i>>
         /\ \A d \in Waiting(s)' : \E t \in Threads : \E i \in Nat : d = <<t, i>>
  BY ConstantsAssumption DEF Waiting, Data

(* What a handler serves is the data of the call that runs its script.     *)
LEMMA ServingIsRunning ==
  ASSUME LockInv, OwnArguments, NEW s \in Signals
  PROVE  \/ owner[s] = None /\ Serving(s) = NoData
         \/ \E t \in Threads : \E i \in 1..Depth(t) :
              /\ owner[s] = t
              /\ Executes(t, i, s)
              /\ Serving(s) = <<t, i>>
<1>1. CASE owner[s] = None
  BY <1>1 DEF Serving
<1>2. CASE owner[s] # None
  <2>1. PICK t \in Threads : owner[s] = t
    BY <1>2 DEF LockInv, TypeInv, TypeOK
  <2>2. PICK i \in 1..Depth(t) : Executes(t, i, s)
    BY <2>1 DEF LockInv, HolderRuns
  <2>3. Serving(s) = <<t, i>>
    BY <1>2, <2>2 DEF Serving, OwnArguments, Executes
  <2> QED
    BY <2>1, <2>2, <2>3
<1> QED
  BY <1>1, <1>2

(* Two descriptions of the waiting calls that agree are the same set.      *)
LEMMA SameWaiting ==
  ASSUME TypeInv, TypeInv', NEW s \in Signals,
         \A t \in Threads : \A i \in Nat : Waits(t, i, s)' <=> Waits(t, i, s)
  PROVE  Waiting(s)' = Waiting(s)
<1>1. \A t \in Threads : \A i \in Nat :
        /\ <<t, i>> \in Waiting(s) <=> Waits(t, i, s)
        /\ <<t, i>> \in Waiting(s)' <=> Waits(t, i, s)'
  BY WaitingIsWaits, WaitingIsWaitsNext
<1>2. \A d : d \in Waiting(s)' <=> d \in Waiting(s)
  BY <1>1, WaitingArePairs
<1> QED
  BY <1>2

(* A step that changes no call of no handler is none for the monitors.     *)
LEMMA SameMonitors ==
  ASSUME TypeInv, TypeInv', owner' = owner, stdd' = stdd,
         \A t \in Threads : \A i \in Nat : \A s \in Signals :
           Waits(t, i, s)' <=> Waits(t, i, s)
  PROVE  UNCHANGED Monitor!vars
<1>1. \A s \in Signals : Waiting(s)' = Waiting(s) /\ Serving(s)' = Serving(s)
  BY SameWaiting DEF Serving
<1> QED
  BY <1>1 DEF Monitor!vars

LEMMA MonitorInit == Init => Monitor!Init
<1> SUFFICES ASSUME Init PROVE Monitor!Init
  OBVIOUS
<1>1. \A t \in Threads : Len(stack[t]) = 0
  BY DEF Init
<1>2. \A s \in Signals : Waiting(s) = {}
  BY <1>1 DEF Waiting, Data
<1>3. \A s \in Signals : Serving(s) = NoData
  BY DEF Init, Serving
<1> QED
  BY <1>2, <1>3 DEF Monitor!Init

LEMMA MonitorNext ==
  ASSUME NEW rank \in [Signals -> Nat], Ranks(rank), OrderInv(rank), [Next]_vars
  PROVE  [Monitor!Next]_(Monitor!vars)
<1>0. /\ LockInv /\ Nested(rank) /\ OwnArguments /\ LockInv' /\ OwnArguments'
      /\ TypeInv /\ TypeInv' /\ TypeOK
  BY OrderInvNext DEF OrderInv, LockInv, TypeInv
<1>1. ASSUME NEW t \in Threads, NEW s \in Signals, RaiseSignal(t, s)
      PROVE  Monitor!Next
  <2> DEFINE n == Depth(t)
             d == <<t, n + 1>>
  <2>1. /\ n \in Nat /\ Len(stack'[t]) = n + 1 /\ SameFrames(t, n)
        /\ stack'[t][n + 1].sig = s /\ stack'[t][n + 1].at = "lock"
        /\ OthersKeep(t)
    BY <1>0, <1>1, RaiseFrames DEF TypeOK
  <2>2. d \in Data
    BY <1>1, <2>1, ConstantsAssumption DEF RaiseSignal, Data
  <2>3. \A u \in Threads : \A i \in Nat : \A r \in Signals :
          Waits(u, i, r)' <=> Waits(u, i, r) \/ (u = t /\ i = n + 1 /\ r = s)
    <3> SUFFICES ASSUME NEW u \in Threads, NEW i \in Nat, NEW r \in Signals
                 PROVE  Waits(u, i, r)' <=>
                          Waits(u, i, r) \/ (u = t /\ i = n + 1 /\ r = s)
      OBVIOUS
    <3>1. CASE u # t
      BY <2>1, <3>1 DEF Waits, OthersKeep
    <3>2. CASE u = t /\ i = n + 1
      BY <2>1, <3>2 DEF Waits
    <3>3. CASE u = t /\ i # n + 1
      BY <2>1, <3>3 DEF Waits, SameFrames
    <3> QED
      BY <3>1, <3>2, <3>3
  <2>4. \A r \in Signals :
          Waiting(r)' = IF r = s THEN Waiting(r) \cup {d} ELSE Waiting(r)
    <3> SUFFICES ASSUME NEW r \in Signals
                 PROVE  \A e : e \in Waiting(r)' <=>
                                e \in Waiting(r) \/ (r = s /\ e = d)
      OBVIOUS
    <3>1. \A u \in Threads : \A i \in Nat :
            <<u, i>> \in Waiting(r)' <=>
              <<u, i>> \in Waiting(r) \/ (r = s /\ <<u, i>> = d)
      BY <1>0, <2>1, <2>3, WaitingIsWaits, WaitingIsWaitsNext
    <3>2. d \in Threads \X Nat
      BY <2>1
    <3> QED
      BY <2>1, <3>1, <3>2, WaitingArePairs
  <2>5. \A r \in Signals : Serving(r)' = Serving(r)
    BY <1>1 DEF RaiseSignal, Serving
  <2>6. \A r \in Signals : d \notin Waiting(r) /\ Serving(r) # d
    <3> SUFFICES ASSUME NEW r \in Signals
                 PROVE  d \notin Waiting(r) /\ Serving(r) # d
      OBVIOUS
    <3>1. d \notin Waiting(r)
      BY <1>0, <2>1, WaitingIsWaits DEF Waits
    <3>2. d # NoData
      BY <2>2 DEF NoData
    <3>3. Serving(r) # d
      BY <1>0, <2>1, <3>2, ServingIsRunning
    <3> QED
      BY <3>1, <3>3
  <2>7. Monitor!Call(s, d)
    BY <2>4, <2>5, <2>6 DEF Monitor!Call, Monitor!Fresh
  <2> QED
    BY <2>2, <2>7 DEF Monitor!Next
<1>2. ASSUME NEW t \in Threads, NEW name, RaiseUnknown(t, name)
      PROVE  UNCHANGED Monitor!vars
  <2>1. Len(stack'[t]) = Depth(t) /\ SameFrames(t, Depth(t)) /\ OthersKeep(t)
    BY <1>0, <1>2, UnknownFrames
  <2>2. Depth(t) \in Nat
    BY <1>0 DEF TypeOK
  <2>3. owner' = owner /\ stdd' = stdd
    BY <1>2 DEF RaiseUnknown
  <2>4. \A u \in Threads : \A i \in Nat : \A r \in Signals :
          Waits(u, i, r)' <=> Waits(u, i, r)
    <3> SUFFICES ASSUME NEW u \in Threads, NEW i \in Nat, NEW r \in Signals
                 PROVE  Waits(u, i, r)' <=> Waits(u, i, r)
      OBVIOUS
    <3> QED
      BY <2>1, <2>2 DEF Waits, OthersKeep, SameFrames
  <2> QED
    BY <1>0, <2>3, <2>4, SameMonitors
<1>3. ASSUME NEW t \in Threads, NEW s \in Signals, Enter(t, s)
      PROVE  Monitor!Next
  <2> DEFINE n == Depth(t)
             d == <<t, n>>
  <2>1. /\ n \in Nat \ {0} /\ Len(stack'[t]) = n /\ SameFrames(t, n - 1)
        /\ stack'[t][n].sig = s /\ stack'[t][n].at = "script" /\ OthersKeep(t)
    BY <1>0, <1>3, EnterFrames
  <2>2. /\ stack[t][n].sig = s /\ stack[t][n].at = "lock"
        /\ owner[s] = None
        /\ owner' = [owner EXCEPT ![s] = t]
        /\ stdd' = [stdd EXCEPT ![s] = d]
    BY <1>3 DEF Enter, ChunkOnTop
  <2>3. d \in Data /\ d \in Waiting(s)
    <3>1. Waits(t, n, s)
      BY <2>1, <2>2 DEF Waits
    <3>2. d \in Waiting(s)
      BY <1>0, <2>1, <3>1, WaitingIsWaits
    <3> QED
      BY <3>2 DEF Waiting
  <2>4. \A u \in Threads : \A i \in Nat : \A r \in Signals :
          Waits(u, i, r)' <=> Waits(u, i, r) /\ ~(u = t /\ i = n)
    <3> SUFFICES ASSUME NEW u \in Threads, NEW i \in Nat, NEW r \in Signals
                 PROVE  Waits(u, i, r)' <=> Waits(u, i, r) /\ ~(u = t /\ i = n)
      OBVIOUS
    <3>1. CASE u # t
      BY <2>1, <3>1 DEF Waits, OthersKeep
    <3>2. CASE u = t /\ i = n
      BY <2>1, <3>2 DEF Waits
    <3>3. CASE u = t /\ i # n
      BY <2>1, <3>3 DEF Waits, SameFrames
    <3> QED
      BY <3>1, <3>2, <3>3
  <2>5. \A r \in Signals :
          Waiting(r)' = IF r = s THEN Waiting(r) \ {d} ELSE Waiting(r)
    <3> SUFFICES ASSUME NEW r \in Signals
                 PROVE  \A e : e \in Waiting(r)' <=>
                                e \in Waiting(r) /\ (r = s => e # d)
      OBVIOUS
    <3>1. \A i \in Nat : r # s => ~(Waits(t, i, r) /\ i = n)
      BY <2>2 DEF Waits
    <3>2. \A u \in Threads : \A i \in Nat :
            <<u, i>> \in Waiting(r)' <=>
              <<u, i>> \in Waiting(r) /\ (r = s => <<u, i>> # d)
      BY <1>0, <2>1, <2>4, <3>1, WaitingIsWaits, WaitingIsWaitsNext
    <3> QED
      BY <3>2, WaitingArePairs
  <2>6. Serving(s) = NoData
    BY <2>2 DEF Serving
  <2>7. \A r \in Signals : Serving(r)' = IF r = s THEN d ELSE Serving(r)
    <3>1. /\ owner \in [Signals -> Threads \cup {None}]
          /\ stdd \in [Signals -> Data \cup {NoData}]
      BY <1>0 DEF TypeOK
    <3> QED
      BY <2>2, <3>1, ConstantsAssumption DEF Serving
  <2>8. Monitor!Begin(s, d)
    BY <2>3, <2>5, <2>6, <2>7 DEF Monitor!Begin
  <2> QED
    BY <2>3, <2>8 DEF Monitor!Next
<1>4. ASSUME NEW t \in Threads, NEW s \in Signals,
             PreventRecursion(t, s) \/ FailRecursion(t, s)
      PROVE  FALSE
  <2>1. AtLock(t, s) /\ CanLock(t, s)
    BY <1>4 DEF PreventRecursion, FailRecursion
  <2>2. owner[s] = None
    BY <1>0, <2>1, NoRecursion
  <2> QED
    BY <1>0, <1>4, <2>2
       DEF PreventRecursion, FailRecursion, ChunkOnTop, LockInv, FlagUnderMutex
<1>5. ASSUME NEW t \in Threads, NEW result \in Results, Finish(t, result)
      PROVE  Monitor!Next
  <2> DEFINE n == Depth(t)
             s == stack[t][n].sig
  <2>1. /\ ~Idle(t) /\ stack' = [stack EXCEPT ![t] = Pop(t)] /\ stdd' = stdd
        /\ owner' = [owner EXCEPT ![s] = None]
        /\ stack[t][n].at = "script"
    BY <1>5 DEF Finish, Unlocked
  <2>2. /\ n \in Nat \ {0} /\ Len(stack'[t]) = n - 1 /\ SameFrames(t, n - 1)
        /\ OthersKeep(t)
    BY <1>0, <2>1, PopFrames
  <2>3. s \in Signals
    <3>1. stack[t] \in Seq(Frame) /\ n \in 1..Len(stack[t])
      BY <1>0, <2>2 DEF TypeOK
    <3>2. stack[t][n] \in Frame
      BY <3>1
    <3> QED
      BY <3>2 DEF Frame
  <2>4. Serving(s) = <<t, n>> /\ Serving(s) # NoData
    <3>1. Executes(t, n, s)
      BY <2>1, <2>2 DEF Executes
    <3>2. owner[s] = t
      BY <1>0, <2>2, <2>3, <3>1 DEF LockInv, ScriptHolds
    <3>3. stdd[s] = <<t, n>>
      <4>1. n \in 1..Len(stack[t]) /\ stack[t][n].at = "script"
        BY <2>1, <2>2
      <4> QED
        BY <1>0, <4>1 DEF OwnArguments
    <3> QED
      BY <3>2, <3>3, ConstantsAssumption DEF Serving, NoData
  <2> HIDE DEF s
  <2>5. \A r \in Signals : Serving(r)' = IF r = s THEN NoData ELSE Serving(r)
    <3>1. owner \in [Signals -> Threads \cup {None}]
      BY <1>0 DEF TypeOK
    <3> QED
      BY <2>1, <3>1 DEF Serving
  <2>6. \A u \in Threads : \A i \in Nat : \A r \in Signals :
          Waits(u, i, r)' <=> Waits(u, i, r)
    <3> SUFFICES ASSUME NEW u \in Threads, NEW i \in Nat, NEW r \in Signals
                 PROVE  Waits(u, i, r)' <=> Waits(u, i, r)
      OBVIOUS
    <3>1. CASE u # t
      BY <2>2, <3>1 DEF Waits, OthersKeep
    <3>2. CASE u = t
      BY <2>1, <2>2, <3>2 DEF Waits, SameFrames
    <3> QED
      BY <3>1, <3>2
  <2>7. \A r \in Signals : Waiting(r)' = Waiting(r)
    BY <1>0, <2>6, SameWaiting
  <2>8. Monitor!Return(s)
    BY <2>3, <2>4, <2>5, <2>7 DEF Monitor!Return
  <2> QED
    BY <2>3, <2>8 DEF Monitor!Next
<1>6. ASSUME UNCHANGED vars
      PROVE  UNCHANGED Monitor!vars
  BY <1>6 DEF vars, Monitor!vars, Waiting, Serving
<1> QED
  BY <1>1, <1>2, <1>3, <1>4, <1>5, <1>6 DEF Next, Step

(* Calls to handlers that do not call themselves look to the scripts like  *)
(* calls to monitors, for any threads, handlers and scripts.               *)
THEOREM HandlersAreMonitors ==
  ASSUME Acyclic
  PROVE  Spec => ImplementsMonitor
<1>1. PICK rank \in [Signals -> Nat] : Ranks(rank)
  BY DEF Acyclic
<1>2. Init => OrderInv(rank)
  BY OrderInvInit
<1>3. OrderInv(rank) /\ [Next]_vars => OrderInv(rank)'
  BY <1>1, OrderInvNext
<1>4. OrderInv(rank) /\ [Next]_vars => [Monitor!Next]_(Monitor!vars)
  BY <1>1, MonitorNext
<1> QED
  BY <1>2, <1>3, <1>4, MonitorInit, PTL
     DEF Spec, ImplementsMonitor, Monitor!Spec
=============================================================================
