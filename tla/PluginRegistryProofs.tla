------------------------ MODULE PluginRegistryProofs ------------------------
(***************************************************************************)
(* Proofs about PluginRegistry, for any plugin files, whatever commands    *)
(* and signals they list, and any sequence of calls.                       *)
(***************************************************************************)
EXTENDS PluginRegistry, FiniteSetTheorems, TLAPS

(* In which phase what is gone: nothing is terminated before the handlers  *)
(* and the hooks have been freed.                                          *)
Phases ==
  /\ Len(terminated) <= Len(plgs)
  /\ pc \in {"plugins", "freed"} \/ terminated = <<>>
  /\ pc \in {"running", "signals", "crashed"} \/ DOMAIN signals = {}
  /\ pc \in {"plugins", "freed"} => Ids = {}

(* A handler belongs to a plugin that was loaded.                          *)
HandlersLoaded ==
  \A s \in DOMAIN signals : \E n \in 1..Len(plgs) : plgs[n] = signals[s]

(* The entries of the table that are open files of f.                      *)
Entries(f) == {n \in Len(terminated) + 1 .. Len(plgs) : plgs[n] = f}

IInv == TypeOK /\ Phases /\ HandlersLoaded /\ OpenMatchesTable /\ HooksMatchPlugins

USE ConstantsAssumption DEF Ids, table

-----------------------------------------------------------------------------
LEMMA EntriesFinite ==
  ASSUME TypeOK, NEW f
  PROVE  IsFiniteSet(Entries(f)) /\ Cardinality(Entries(f)) \in Nat
<1>1. Len(terminated) + 1 \in Int /\ Len(plgs) \in Int
  BY DEF TypeOK
<1>2. IsFiniteSet(Len(terminated) + 1 .. Len(plgs))
  BY <1>1, FS_Interval
<1>3. Entries(f) \in SUBSET (Len(terminated) + 1 .. Len(plgs))
  BY DEF Entries
<1> QED
  BY <1>2, <1>3, FS_Subset, FS_CardinalityType

(* What umplg_load appends.                                                *)
LEMMA Pushed ==
  ASSUME TypeOK, NEW f \in Complete, Push(f)
  PROVE  /\ plgs' \in Seq(Complete)
         /\ Len(plgs') = Len(plgs) + 1
         /\ \A n \in 1..Len(plgs) : plgs'[n] = plgs[n]
         /\ plgs'[Len(plgs) + 1] = f
         /\ room' \in Nat \ {0} /\ Len(plgs') <= room'
         /\ moves' \in Nat
<1>1. /\ plgs \in Seq(Complete) /\ Len(plgs) \in Nat
      /\ plgs' = Append(plgs, f)
  BY DEF TypeOK, Push
<1>2. /\ plgs' \in Seq(Complete)
      /\ Len(plgs') = Len(plgs) + 1
      /\ \A n \in 1..Len(plgs) : plgs'[n] = plgs[n]
      /\ plgs'[Len(plgs) + 1] = f
  BY <1>1
<1>3. room \in Nat \ {0} /\ Len(plgs) <= room /\ moves \in Nat
  BY DEF TypeOK
<1>4. CASE Len(plgs) < room
  BY <1>1, <1>2, <1>3, <1>4 DEF Push
<1>5. CASE ~(Len(plgs) < room)
  <2>1. room' = 2 * room /\ moves' \in {moves, moves + 1}
    BY <1>5 DEF Push
  <2>2. Len(plgs) = room
    BY <1>1, <1>3, <1>5
  <2> QED
    BY <1>1, <1>2, <1>3, <2>1, <2>2
<1> QED
  BY <1>4, <1>5

(* umplg_load.  The new plugin is the one entry that its hooks, and any    *)
(* handlers it registers, lead to.                                         *)
LEMMA LoadKeepsInv ==
  ASSUME IInv, NEW f \in Files, Load(f)
  PROVE  IInv'
<1>1. /\ TypeOK /\ Phases /\ HandlersLoaded /\ OpenMatchesTable /\ HooksMatchPlugins
      /\ f \in Complete
      /\ pc = "running" /\ terminated = <<>>
      /\ pc' = pc /\ terminated' = terminated
  BY DEF IInv, Phases, Load
<1>2. /\ plgs \in Seq(Complete) /\ Len(plgs) \in Nat
      /\ plgs' \in Seq(Complete)
      /\ Len(plgs') = Len(plgs) + 1
      /\ \A n \in 1..Len(plgs) : plgs'[n] = plgs[n]
      /\ plgs'[Len(plgs) + 1] = f
      /\ room' \in Nat \ {0} /\ Len(plgs') <= room'
      /\ moves' \in Nat
  BY <1>1, Pushed DEF Load, TypeOK
<1>3. /\ DOMAIN hooks' = DOMAIN hooks \cup COMMANDS[f]
      /\ \A c \in DOMAIN hooks : c \notin COMMANDS[f] /\ hooks'[c] = hooks[c]
      /\ \A c \in COMMANDS[f] : hooks'[c] = [slot |-> Len(plgs) + 1, moves |-> moves']
  BY <1>1 DEF Load, Attached, Taken
<1>4. /\ DOMAIN signals' = DOMAIN signals \cup (Registers[f] \ InitFails)
      /\ \A s \in DOMAIN signals' : signals'[s] = IF s \in DOMAIN signals THEN signals[s] ELSE f
  BY <1>1 DEF Load, Registered
<1>5. TypeOK'
  <2>1. DOMAIN hooks' \subseteq Commands
    BY <1>1, <1>3 DEF TypeOK
  <2>2. \A c \in DOMAIN hooks' : hooks'[c].slot \in 1..Len(plgs') /\ hooks'[c].moves \in Nat
    BY <1>1, <1>2, <1>3 DEF TypeOK
  <2>3. /\ DOMAIN signals' \subseteq Signals \ InitFails
        /\ \A s \in DOMAIN signals' : signals'[s] \in Complete
    BY <1>1, <1>4 DEF TypeOK
  <2>4. open' \in [Files -> Nat]
    BY <1>1 DEF Load, TypeOK
  <2>5. /\ pc' = "running" /\ terminated' \in Seq(Complete)
        /\ loads' \in 0..MaxLoads /\ ret' = "loaded"
    BY <1>1 DEF Load, TypeOK
  <2> QED
    BY <1>2, <2>1, <2>2, <2>3, <2>4, <2>5 DEF TypeOK
<1>6. Phases'
  BY <1>1, <1>2 DEF Phases
<1>7. HandlersLoaded'
  <2> SUFFICES ASSUME NEW s \in DOMAIN signals'
               PROVE  \E n \in 1..Len(plgs') : plgs'[n] = signals'[s]
    BY DEF HandlersLoaded
  <2>1. CASE s \in DOMAIN signals
    <3>1. PICK n \in 1..Len(plgs) : plgs[n] = signals[s]
      BY <1>1, <2>1 DEF HandlersLoaded
    <3>2. n \in 1..Len(plgs') /\ plgs'[n] = signals'[s]
      BY <1>2, <1>4, <2>1, <3>1
    <3> QED
      BY <3>2
  <2>2. CASE s \notin DOMAIN signals
    BY <1>2, <1>4, <2>2
  <2> QED
    BY <2>1, <2>2
<1>8. OpenMatchesTable'
  <2> SUFFICES ASSUME NEW g \in Files
               PROVE  open'[g] = Cardinality(Entries(g)')
    BY DEF OpenMatchesTable, Entries
  <2>1. /\ IsFiniteSet(Entries(g)) /\ Cardinality(Entries(g)) \in Nat
        /\ open[g] = Cardinality(Entries(g))
    BY <1>1, EntriesFinite DEF OpenMatchesTable, Entries
  <2>2. Len(terminated) = 0 /\ Len(terminated') = 0
    BY <1>1
  <2>3. open'[g] = IF g = f THEN open[g] + 1 ELSE open[g]
    BY <1>1 DEF Load, TypeOK
  <2>4. CASE g = f
    <3>1. Entries(g)' = Entries(g) \cup {Len(plgs) + 1}
      BY <1>2, <2>2, <2>4 DEF Entries
    <3>2. Len(plgs) + 1 \notin Entries(g)
      BY <1>2 DEF Entries
    <3>3. Cardinality(Entries(g) \cup {Len(plgs) + 1}) = Cardinality(Entries(g)) + 1
      BY <2>1, <3>2, FS_AddElement
    <3> QED
      BY <2>1, <2>3, <2>4, <3>1, <3>3
  <2>5. CASE g # f
    <3>1. Entries(g)' = Entries(g)
      BY <1>2, <2>2, <2>5 DEF Entries
    <3> QED
      BY <2>1, <2>3, <2>5, <3>1
  <2> QED
    BY <2>4, <2>5
<1>9. HooksMatchPlugins'
  <2>1. /\ DOMAIN hooks = UNION {COMMANDS[plgs[n]] : n \in 1..Len(plgs)}
        /\ \A c \in DOMAIN hooks : \A n \in 1..Len(plgs) :
             c \in COMMANDS[plgs[n]] <=> n = hooks[c].slot
    BY <1>1 DEF HooksMatchPlugins
  <2>2. \A n \in 1..Len(plgs') : n \in 1..Len(plgs) \/ n = Len(plgs) + 1
    BY <1>2
  <2>3. 1..Len(plgs) \subseteq 1..Len(plgs') /\ Len(plgs) + 1 \in 1..Len(plgs')
    BY <1>2
  <2>4. UNION {COMMANDS[plgs'[n]] : n \in 1..Len(plgs')} = DOMAIN hooks \cup COMMANDS[f]
    <3>1. ASSUME NEW n \in 1..Len(plgs')
          PROVE  COMMANDS[plgs'[n]] \subseteq DOMAIN hooks \cup COMMANDS[f]
      BY <1>2, <2>1, <2>2
    <3>2. COMMANDS[f] = COMMANDS[plgs'[Len(plgs) + 1]]
      BY <1>2
    <3>3. ASSUME NEW c \in DOMAIN hooks
          PROVE  \E n \in 1..Len(plgs') : c \in COMMANDS[plgs'[n]]
      <4>1. PICK n \in 1..Len(plgs) : c \in COMMANDS[plgs[n]]
        BY <2>1
      <4> QED
        BY <1>2, <2>3, <4>1
    <3> QED
      BY <2>3, <3>1, <3>2, <3>3
  <2>5. ASSUME NEW c \in DOMAIN hooks', NEW n \in 1..Len(plgs')
        PROVE  c \in COMMANDS[plgs'[n]] <=> n = hooks'[c].slot
    <3>1. CASE c \in DOMAIN hooks
      <4>1. c \notin COMMANDS[f] /\ hooks'[c] = hooks[c] /\ hooks[c].slot \in 1..Len(plgs)
        BY <1>1, <1>3, <3>1 DEF TypeOK
      <4>2. CASE n \in 1..Len(plgs)
        BY <1>2, <2>1, <3>1, <4>1, <4>2
      <4>3. CASE n = Len(plgs) + 1
        BY <1>2, <4>1, <4>3
      <4> QED
        BY <2>2, <4>2, <4>3
    <3>2. CASE c \notin DOMAIN hooks
      <4>1. c \in COMMANDS[f] /\ hooks'[c].slot = Len(plgs) + 1
        BY <1>3, <3>2
      <4>2. CASE n \in 1..Len(plgs)
        <5>1. c \notin COMMANDS[plgs'[n]]
          BY <1>2, <2>1, <3>2, <4>2
        <5> QED
          BY <1>2, <4>1, <4>2, <5>1
      <4>3. CASE n = Len(plgs) + 1
        BY <1>2, <4>1, <4>3
      <4> QED
        BY <2>2, <4>2, <4>3
    <3> QED
      BY <3>1, <3>2
  <2> QED
    BY <1>3, <2>4, <2>5 DEF HooksMatchPlugins
<1> QED
  BY <1>5, <1>6, <1>7, <1>8, <1>9 DEF IInv

(* The end of a plugin: its entry leaves the table, and one of the opens   *)
(* of its file is undone.                                                  *)
LEMMA TerminateKeepsInv ==
  ASSUME IInv, TerminatePlugin
  PROVE  IInv'
<1>1. /\ TypeOK /\ Phases /\ HandlersLoaded /\ OpenMatchesTable /\ HooksMatchPlugins
      /\ pc = "plugins" /\ pc' = pc
      /\ plgs' = plgs /\ room' = room /\ moves' = moves
      /\ hooks' = hooks /\ signals' = signals /\ loads' = loads /\ ret' = ret
  BY DEF IInv, TerminatePlugin
<1>2. PICK k, f : k = Len(terminated) + 1 /\ f = plgs[k]
  OBVIOUS
<1>3. /\ plgs \in Seq(Complete) /\ Len(plgs) \in Nat
      /\ terminated \in Seq(Complete) /\ Len(terminated) \in Nat
      /\ k \in 1..Len(plgs) /\ f \in Complete /\ f \in Files
  BY <1>1, <1>2 DEF TerminatePlugin, TypeOK
<1>4. /\ terminated' = Append(terminated, f)
      /\ open' = [open EXCEPT ![f] = @ - 1]
      /\ terminated' \in Seq(Complete) /\ Len(terminated') = Len(terminated) + 1
  BY <1>2, <1>3 DEF TerminatePlugin
<1>5. \A g \in Files : /\ IsFiniteSet(Entries(g)) /\ Cardinality(Entries(g)) \in Nat
                       /\ open[g] = Cardinality(Entries(g))
                       /\ open'[g] = IF g = f THEN open[g] - 1 ELSE open[g]
  BY <1>1, <1>4, EntriesFinite DEF OpenMatchesTable, Entries, TypeOK
<1>6. Entries(f)' = Entries(f) \ {k} /\ k \in Entries(f)
  BY <1>1, <1>2, <1>3, <1>4 DEF Entries
<1>7. \A g \in Files : g # f => Entries(g)' = Entries(g)
  BY <1>1, <1>2, <1>3, <1>4 DEF Entries
<1>8. Cardinality(Entries(f) \ {k}) = Cardinality(Entries(f)) - 1
  BY <1>3, <1>5, <1>6, FS_RemoveElement
<1>9. Cardinality(Entries(f) \ {k}) \in Nat
  BY <1>3, <1>5, FS_RemoveElement, FS_CardinalityType
<1>10. \A g \in Files : open'[g] = Cardinality(Entries(g)') /\ open'[g] \in Nat
  BY <1>3, <1>5, <1>6, <1>7, <1>8, <1>9
<1>11. OpenMatchesTable'
  BY <1>10 DEF OpenMatchesTable, Entries
<1>12. TypeOK'
  <2>1. open' \in [Files -> Nat]
    BY <1>1, <1>4, <1>10 DEF TypeOK
  <2> QED
    BY <1>1, <1>4, <2>1 DEF TypeOK
<1>13. Phases'
  <2>1. Len(terminated') <= Len(plgs')
    BY <1>1, <1>2, <1>3, <1>4
  <2>2. pc' = "plugins" /\ hooks' = hooks /\ signals' = signals
    BY <1>1
  <2>3. DOMAIN signals = {} /\ DOMAIN hooks = {}
    BY <1>1 DEF Phases
  <2> QED
    BY <2>1, <2>2, <2>3 DEF Phases
<1>14. HandlersLoaded' /\ HooksMatchPlugins'
  BY <1>1 DEF HandlersLoaded, HooksMatchPlugins
<1> QED
  BY <1>11, <1>12, <1>13, <1>14 DEF IInv

(* The calls and phases that leave the table and the open files alone.     *)
LEMMA QuietKeepsOpen ==
  ASSUME OpenMatchesTable, UNCHANGED <<plgs, open, terminated>>
  PROVE  OpenMatchesTable'
BY DEF OpenMatchesTable

(* The calls that leave the table and the hooks alone, with the manager    *)
(* still running or crashed by one of them.                                *)
LEMMA QuietKeepsHooks ==
  ASSUME HooksMatchPlugins, pc = "running", UNCHANGED <<plgs, hooks>>
  PROVE  HooksMatchPlugins'
<1>1. /\ DOMAIN hooks = UNION {COMMANDS[plgs[n]] : n \in 1..Len(plgs)}
      /\ \A c \in DOMAIN hooks : \A n \in 1..Len(plgs) :
           c \in COMMANDS[plgs[n]] <=> n = hooks[c].slot
  BY DEF HooksMatchPlugins
<1>2. plgs' = plgs /\ hooks' = hooks
  OBVIOUS
<1>3. DOMAIN hooks' = UNION {COMMANDS[plgs'[n]] : n \in 1..Len(plgs')}
  BY <1>1, <1>2
<1>4. \A c \in DOMAIN hooks' : \A n \in 1..Len(plgs') :
        c \in COMMANDS[plgs'[n]] <=> n = hooks'[c].slot
  BY <1>1, <1>2
<1> QED
  BY <1>3, <1>4 DEF HooksMatchPlugins

(* Whatever is called, in whatever order, the invariant holds.             *)
LEMMA NextKeepsInv == IInv /\ [Next]_vars => IInv'
<1> SUFFICES ASSUME IInv, [Next]_vars PROVE IInv'
  OBVIOUS
<1> USE DEF IInv
<1>1. ASSUME NEW f \in Files, Refuse(f) PROVE IInv'
  BY <1>1, QuietKeepsOpen, QuietKeepsHooks DEF Refuse, Closed, TypeOK, Phases, HandlersLoaded
<1>2. ASSUME NEW f \in Files, Unload(f) PROVE IInv'
  BY <1>2, QuietKeepsOpen, QuietKeepsHooks DEF Unload, TypeOK, Phases, HandlersLoaded
<1>3. ASSUME NEW c \in Commands, NEW is_local \in BOOLEAN, Run(c, is_local) PROVE IInv'
  BY <1>3, QuietKeepsOpen, QuietKeepsHooks DEF Run, TypeOK, Phases, HandlersLoaded
<1>4. ASSUME NEW c \in Commands, RunStale(c) PROVE IInv'
  BY <1>4, QuietKeepsOpen, QuietKeepsHooks DEF RunStale, TypeOK, Phases, HandlersLoaded
<1>5. CASE BeginFree
  BY <1>5, QuietKeepsOpen DEF BeginFree, Phase, TypeOK, Phases, HandlersLoaded, HooksMatchPlugins
<1>6. ASSUME NEW s \in Signals, FreeSignal(s) PROVE IInv'
  <2>1. /\ DOMAIN signals' \subseteq DOMAIN signals
        /\ \A t \in DOMAIN signals' : signals'[t] = signals[t]
    BY <1>6 DEF FreeSignal, Without
  <2> QED
    BY <1>6, <2>1, QuietKeepsOpen
       DEF FreeSignal, TypeOK, Phases, HandlersLoaded, HooksMatchPlugins
<1>7. CASE SignalsFreed
  BY <1>7, QuietKeepsOpen DEF SignalsFreed, Phase, TypeOK, Phases, HandlersLoaded, HooksMatchPlugins
<1>8. ASSUME NEW c \in Commands, FreeHook(c) PROVE IInv'
  <2>1. /\ DOMAIN hooks' \subseteq DOMAIN hooks
        /\ \A d \in DOMAIN hooks' : hooks'[d] = hooks[d]
    BY <1>8 DEF FreeHook, Without
  <2> QED
    BY <1>8, <2>1, QuietKeepsOpen
       DEF FreeHook, TypeOK, Phases, HandlersLoaded, HooksMatchPlugins
<1>9. CASE HooksFreed
  BY <1>9, QuietKeepsOpen DEF HooksFreed, Phase, TypeOK, Phases, HandlersLoaded, HooksMatchPlugins
<1>10. CASE Freed
  BY <1>10, QuietKeepsOpen DEF Freed, Phase, TypeOK, Phases, HandlersLoaded, HooksMatchPlugins
<1>11. CASE UNCHANGED vars
  BY <1>11, QuietKeepsOpen DEF vars, TypeOK, Phases, HandlersLoaded, HooksMatchPlugins
<1> QED
  BY <1>1, <1>2, <1>3, <1>4, <1>5, <1>6, <1>7, <1>8, <1>9, <1>10, <1>11,
     LoadKeepsInv, TerminateKeepsInv DEF Next, Free, Finished

LEMMA InitInv == Init => IInv
<1> SUFFICES ASSUME Init PROVE IInv
  OBVIOUS
<1>1. plgs = <<>> /\ hooks = <<>> /\ signals = <<>> /\ terminated = <<>>
  BY DEF Init
<1>2. /\ Len(plgs) = 0 /\ Len(terminated) = 0
      /\ DOMAIN hooks = {} /\ DOMAIN signals = {}
  BY <1>1
<1>3. TypeOK /\ Phases /\ HandlersLoaded
  BY <1>1, <1>2 DEF Init, TypeOK, Phases, HandlersLoaded, NoFiles
<1>4. OpenMatchesTable
  <2>1. \A f \in Files : {n \in Len(terminated) + 1 .. Len(plgs) : plgs[n] = f} = {}
    BY <1>2
  <2> QED
    BY <2>1, FS_EmptySet DEF Init, NoFiles, OpenMatchesTable
<1>5. HooksMatchPlugins
  BY <1>2 DEF HooksMatchPlugins
<1> QED
  BY <1>3, <1>4, <1>5 DEF IInv

(* The invariant holds throughout.                                         *)
LEMMA Invariance == Spec => []IInv
BY InitInv, NextKeepsInv, PTL DEF Spec

-----------------------------------------------------------------------------
(* The variables of PluginRegistry keep their types; in particular every   *)
(* hook points to an element of the table, and the table fits its room.    *)
THEOREM TypeCorrect == Spec => []TypeOK
<1>1. IInv => TypeOK
  BY DEF IInv
<1> QED
  BY <1>1, Invariance, PTL

(* Until umplg_free_mngr, a command has a hook exactly if one plugin of    *)
(* the table lists it, and its hook leads to that plugin.                  *)
THEOREM HooksLeadToPlugins == Spec => []HooksMatchPlugins
<1>1. IInv => HooksMatchPlugins
  BY DEF IInv
<1> QED
  BY <1>1, Invariance, PTL

(* A file is open as often as the table lists it among the plugins that    *)
(* are not terminated: umplg_load and umplg_free_mngr balance dlopen and   *)
(* dlclose.                                                                *)
THEOREM OpensBalance == Spec => []OpenMatchesTable
<1>1. IInv => OpenMatchesTable
  BY DEF IInv
<1> QED
  BY <1>1, Invariance, PTL

(* What an entry of the table says before anything is terminated: its file *)
(* is open.                                                                *)
LEMMA ListedIsOpen ==
  ASSUME IInv, terminated = <<>>, NEW n \in 1..Len(plgs)
  PROVE  open[plgs[n]] > 0
<1> DEFINE f == plgs[n]
<1>1. TypeOK /\ OpenMatchesTable /\ f \in Files
  BY DEF IInv, TypeOK
<1>2. n \in Entries(f)
  BY DEF Entries
<1>3. /\ IsFiniteSet(Entries(f)) /\ Cardinality(Entries(f)) \in Nat
      /\ open[f] = Cardinality(Entries(f))
  BY <1>1, EntriesFinite DEF OpenMatchesTable, Entries
<1>4. Cardinality(Entries(f)) # 0
  BY <1>2, <1>3, FS_EmptySet
<1> QED
  BY <1>3, <1>4

(* No handler and no hook ever leads into a file that is closed: the order *)
(* in which umplg_free_mngr takes the manager apart.                       *)
THEOREM LeadsToOpenFiles == Spec => []NothingLeadsToClosed
<1>1. IInv => NothingLeadsToClosed
  <2> SUFFICES ASSUME IInv PROVE NothingLeadsToClosed
    OBVIOUS
  <2>1. ASSUME NEW s \in DOMAIN signals PROVE open[signals[s]] > 0
    <3>1. terminated = <<>>
      BY <2>1 DEF IInv, Phases
    <3>2. PICK n \in 1..Len(plgs) : plgs[n] = signals[s]
      BY <2>1 DEF IInv, HandlersLoaded
    <3> QED
      BY <3>1, <3>2, ListedIsOpen
  <2>2. ASSUME NEW c \in DOMAIN hooks PROVE open[Target(c)] > 0
    <3>1. terminated = <<>>
      BY <2>2 DEF IInv, Phases
    <3>2. hooks[c].slot \in 1..Len(plgs)
      BY <2>2 DEF IInv, TypeOK
    <3> QED
      BY <3>1, <3>2, ListedIsOpen DEF Target
  <2> QED
    BY <2>1, <2>2 DEF NothingLeadsToClosed
<1> QED
  BY <1>1, Invariance, PTL

-----------------------------------------------------------------------------
(* The array only grows from the room it began with.                       *)
Recent == IInv /\ room >= Capacity /\ RecentPointersValid

(* When the array is doubled, only the new element is in its upper half:   *)
(* the others may have moved, and no more is claimed of their hooks.       *)
LEMMA LoadKeepsRecent ==
  ASSUME Recent, NEW f \in Files, Load(f)
  PROVE  room' >= Capacity /\ RecentPointersValid'
<1>1. /\ TypeOK /\ IInv /\ room >= Capacity /\ RecentPointersValid
      /\ f \in Complete /\ Push(f)
  BY DEF Recent, IInv, Load
<1>2. /\ Len(plgs) \in Nat /\ room \in Nat \ {0} /\ Len(plgs) <= room
      /\ Capacity \in Nat \ {0} /\ moves' \in Nat
  BY <1>1, Pushed DEF TypeOK
<1>3. /\ DOMAIN hooks' = DOMAIN hooks \cup COMMANDS[f]
      /\ \A c \in DOMAIN hooks : hooks'[c] = hooks[c]
      /\ \A c \in COMMANDS[f] : hooks'[c] = [slot |-> Len(plgs) + 1, moves |-> moves']
  BY <1>1 DEF Load, Attached, Taken
<1>4. \A c \in COMMANDS[f] : hooks'[c].moves = moves'
  BY <1>3
<1>5. CASE Len(plgs) < room
  <2>1. room' = room /\ moves' = moves
    BY <1>1, <1>5 DEF Push
  <2>2. \A c \in DOMAIN hooks :
          room' = Capacity \/ 2 * hooks'[c].slot > room' => hooks'[c].moves = moves'
    BY <1>1, <1>3, <2>1 DEF RecentPointersValid, Valid
  <2> QED
    BY <1>1, <1>3, <1>4, <2>1, <2>2 DEF RecentPointersValid, Valid
<1>6. CASE ~(Len(plgs) < room)
  <2>1. room' = 2 * room /\ Len(plgs) = room
    BY <1>1, <1>2, <1>6 DEF Push
  <2>2. room' > Capacity
    BY <1>1, <1>2, <2>1
  <2>3. ASSUME NEW c \in DOMAIN hooks PROVE ~(2 * hooks'[c].slot > room')
    <3>1. hooks[c].slot \in 1..Len(plgs)
      BY <1>1 DEF TypeOK
    <3> QED
      BY <1>2, <1>3, <2>1, <3>1
  <2>4. room' # Capacity /\ room' >= Capacity
    BY <1>2, <2>1, <2>2
  <2> QED
    BY <1>3, <1>4, <2>3, <2>4 DEF RecentPointersValid, Valid
<1> QED
  BY <1>5, <1>6

(* The hooks of the plugins that were loaded since the array last grew     *)
(* point to where these are, and all hooks do while it has not grown.      *)
THEOREM RecentHooksAreValid == Spec => []RecentPointersValid
<1>1. Init => Recent
  <2>1. Init => DOMAIN hooks = {} /\ room >= Capacity
    BY DEF Init
  <2> QED
    BY <2>1, InitInv DEF Recent, RecentPointersValid
<1>2. Recent /\ [Next]_vars => Recent'
  <2> SUFFICES ASSUME Recent, [Next]_vars PROVE Recent'
    OBVIOUS
  <2>1. IInv'
    BY NextKeepsInv DEF Recent
  <2>2. CASE \E f \in Files : Load(f)
    BY <2>1, <2>2, LoadKeepsRecent DEF Recent
  <2>3. CASE ~(\E f \in Files : Load(f))
    <3>1. /\ room' = room /\ moves' = moves
          /\ DOMAIN hooks' \subseteq DOMAIN hooks
          /\ \A c \in DOMAIN hooks' : hooks'[c] = hooks[c]
      BY <2>3 DEF Next, vars, Refuse, Unload, Run, RunStale, Finished, Free, BeginFree,
                  SignalsFreed, HooksFreed, TerminatePlugin, Freed, FreeSignal, FreeHook, Without
    <3> QED
      BY <2>1, <3>1 DEF Recent, RecentPointersValid, Valid
  <2> QED
    BY <2>2, <2>3
<1>3. Recent => RecentPointersValid
  BY DEF Recent
<1> QED
  BY <1>1, <1>2, <1>3, PTL DEF Spec
=============================================================================
