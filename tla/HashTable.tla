----------------------------- MODULE HashTable -----------------------------
(***************************************************************************)
(* The tables of the plugin manager as uthash implements them, and what a  *)
(* thread sees that looks a key up while main fills or frees the table.    *)
(* Nothing locks pm->signals and pm->hooks: main adds to them in           *)
(* umplg_load and empties them in umplg_free_mngr, the environments and    *)
(* the callback threads call HASH_FIND.                                    *)
(*                                                                         *)
(* Elements are numbered in the order main adds them, and stand for their  *)
(* keys as well.  A step of main is at most one store that a lookup can    *)
(* see; the stores become visible in program order.  The offset hho        *)
(* between an element and its handle is left out, memory never runs out.   *)
(***************************************************************************)
EXTENDS Naturals, FiniteSets

CONSTANTS
  NumElements,    \* bound: elements that main adds
  Hashes,         \* hash functions: the values of the keys
  InitialBuckets, \* HASH_INITIAL_NUM_BUCKETS, 32
  Threshold,      \* HASH_BKT_CAPACITY_THRESH, 10
  Readers         \* threads that look keys up

Elements == 1..NumElements
Null == 0

ASSUME ConstantsAssumption ==
  /\ NumElements \in Nat
  /\ Hashes \subseteq [Elements -> Nat]
  /\ InitialBuckets \in Nat \ {0}
  /\ Threshold \in Nat \ {0}

VARIABLES
  hashv,    \* hh.hashv of the elements
  head,     \* pm->signals or pm->hooks
  list,     \* list[e]: hh.next and hh.prev, the order of insertion
  chain,    \* chain[e]: hh.hh_next and hh.hh_prev, the order in the bucket
  tbl,      \* UT_hash_table
  buckets,  \* what tbl->buckets points to; arrays are numbered by gen
  fresh,    \* _he_new_buckets
  cursor,   \* _he_bkt_i and _he_thh
  pc, elt,  \* main: the next step, and the element it is about
  known,    \* the elements that have been added and not been deleted
  freed,    \* the elements that have been freed
  released, \* the arrays that have been freed: those with a smaller gen
  lookup    \* lookup[r]: the call of HASH_FIND that r is in, or its outcome

table == <<list, tbl, buckets, fresh, cursor>>
vars == <<hashv, head, table, chain, pc, elt, known, freed, released, lookup>>

-----------------------------------------------------------------------------
Unlinked == [next |-> Null, prev |-> Null]
EmptyBucket == [hh_head |-> Null, count |-> 0, expand_mult |-> 0]
Array(n) == [b \in 0..n - 1 |-> EmptyBucket]

(* HASH_TO_BKT, for numbers of buckets that are powers of two.             *)
Bucket(e, num_buckets) == hashv[e] % num_buckets

NoLookup ==
  [pc |-> "idle", key |-> Null, head |-> Null, num_buckets |-> 0, gen |-> 0, out |-> Null,
   due |-> FALSE, disturbed |-> FALSE, result |-> "none"]

Init ==
  /\ hashv \in Hashes
  /\ head = Null
  /\ list = [e \in Elements |-> Unlinked]
  /\ chain = [e \in Elements |-> Unlinked]
  /\ tbl = [tail |-> Null, num_items |-> 0, num_buckets |-> InitialBuckets, ideal_chain_maxlen |-> 0,
            nonideal_items |-> 0, ineff_expands |-> 0, noexpand |-> FALSE, live |-> TRUE]
  /\ buckets = [gen |-> 0, cell |-> Array(InitialBuckets)]
  /\ fresh = Array(0)
  /\ cursor = [bkt_i |-> 0, thh |-> Null]
  /\ pc = "idle" /\ elt = Null
  /\ known = {} /\ freed = {} /\ released = 0
  /\ lookup = [r \in Readers |-> NoLookup]

(* The lookups under way now meet a table that is rearranged or freed.     *)
Disturb ==
  lookup' = [r \in Readers |->
               IF lookup[r].pc = "idle" THEN lookup[r] ELSE [lookup[r] EXCEPT !.disturbed = TRUE]]

Rearranging ==
  pc \in {"relink", "free_old", "set_num", "set_buckets", "free", "unlink", "release", "clear_head"}

-----------------------------------------------------------------------------
(* HASH_ADD: main appends the element to the list.  The first one brings   *)
(* the table with it (HASH_MAKE_TABLE); head is set when that is complete. *)
Add ==
  /\ pc = "idle" /\ elt < NumElements
  /\ elt' = elt + 1
  /\ pc' = "link"
  /\ head' = IF head = Null THEN elt' ELSE head
  /\ list' = [e \in Elements |->
                CASE e = elt' -> [next |-> Null, prev |-> tbl.tail]
                  [] e = tbl.tail -> [list[e] EXCEPT !.next = elt']
                  [] OTHER -> list[e]]
  /\ tbl' = [tbl EXCEPT !.tail = elt']
  /\ UNCHANGED <<hashv, chain, buckets, fresh, cursor, known, freed, released, lookup>>

(* The chains when e is put in front of the chain that begins with first.  *)
Pushed(e, first) ==
  [x \in Elements |->
     CASE x = e -> [next |-> first, prev |-> Null]
       [] x = first -> [chain[x] EXCEPT !.prev = e]
       [] OTHER -> chain[x]]

(* HASH_ADD_TO_BKT.                                                        *)
LinkInBucket ==
  LET b == Bucket(elt, tbl.num_buckets)
      bucket == buckets.cell[b]
      full == bucket.count + 1 >= (bucket.expand_mult + 1) * Threshold
  IN /\ pc = "link"
     /\ pc' = IF full /\ ~tbl.noexpand THEN "expand" ELSE "idle"
     /\ tbl' = [tbl EXCEPT !.num_items = @ + 1]
     /\ chain' = Pushed(elt, bucket.hh_head)
     /\ buckets' = [buckets EXCEPT !.cell[b].count = @ + 1, !.cell[b].hh_head = elt]
     /\ known' = known \cup {elt}
     /\ UNCHANGED <<hashv, head, list, fresh, cursor, elt, freed, released, lookup>>

-----------------------------------------------------------------------------
(* HASH_EXPAND_BUCKETS.                                                    *)
CeilDiv(n, d) == (n + d - 1) \div d

ExpandBegin ==
  /\ pc = "expand"
  /\ pc' = "relink"
  /\ fresh' = Array(2 * tbl.num_buckets)
  /\ cursor' = [bkt_i |-> 0, thh |-> buckets.cell[0].hh_head]
  /\ tbl' = [tbl EXCEPT !.ideal_chain_maxlen = CeilDiv(tbl.num_items, 2 * tbl.num_buckets),
                        !.nonideal_items = 0]
  /\ Disturb
  /\ UNCHANGED <<hashv, head, list, chain, buckets, elt, known, freed, released>>

(* Mutant: the multiplier of a bucket stays as it is.                      *)
Multiplied_Never(bucket) == bucket

(* A bucket above the ideal length gets a multiplier that delays the next  *)
(* expansion it triggers.                                                  *)
Multiplied(bucket) ==
  IF /\ bucket.count > tbl.ideal_chain_maxlen
     /\ bucket.count > bucket.expand_mult * tbl.ideal_chain_maxlen
    THEN [bucket EXCEPT !.expand_mult = @ + 1]
    ELSE bucket

(* Mutant: the next element of the old chain is read after it has changed, *)
(* and the element is linked before itself.                                *)
Rest_Reread(e) == e

(* The element after e, before e is put in its new chain.                  *)
Rest(e) == chain[e].next

Relink ==
  LET e == cursor.thh
      b == Bucket(e, 2 * tbl.num_buckets)
      bucket == [fresh[b] EXCEPT !.count = @ + 1]
  IN /\ pc = "relink" /\ e # Null
     /\ fresh' = [fresh EXCEPT ![b] = [Multiplied(bucket) EXCEPT !.hh_head = e]]
     /\ chain' = Pushed(e, bucket.hh_head)
     /\ tbl' = [tbl EXCEPT !.nonideal_items =
                  IF bucket.count > tbl.ideal_chain_maxlen THEN @ + 1 ELSE @]
     /\ cursor' = [cursor EXCEPT !.thh = Rest(e)]
     /\ UNCHANGED <<hashv, head, list, buckets, pc, elt, known, freed, released, lookup>>

NextBucket ==
  /\ pc = "relink" /\ cursor.thh = Null
  /\ IF cursor.bkt_i + 1 < tbl.num_buckets
       THEN /\ cursor' = [bkt_i |-> cursor.bkt_i + 1, thh |-> buckets.cell[cursor.bkt_i + 1].hh_head]
            /\ pc' = pc
       ELSE /\ pc' = "free_old"
            /\ cursor' = cursor
  /\ UNCHANGED <<hashv, head, list, chain, tbl, buckets, fresh, elt, known, freed, released, lookup>>

FreeOld ==
  /\ pc = "free_old"
  /\ pc' = "set_num"
  /\ released' = released + 1
  /\ UNCHANGED <<hashv, head, table, chain, elt, known, freed, lookup>>

(* Mutant: the number of buckets stays as it is.                           *)
SetNum_Forgotten ==
  /\ pc = "set_num"
  /\ pc' = "set_buckets"
  /\ UNCHANGED <<hashv, head, table, chain, elt, known, freed, released, lookup>>

SetNum ==
  /\ pc = "set_num"
  /\ pc' = "set_buckets"
  /\ tbl' = [tbl EXCEPT !.num_buckets = 2 * @]
  /\ UNCHANGED <<hashv, head, list, chain, buckets, fresh, cursor, elt, known, freed, released, lookup>>

(* Expansion is inhibited when two in a row have left more than half of    *)
(* the elements in positions beyond the ideal length.                      *)
SetBuckets ==
  LET ineff == IF tbl.nonideal_items > tbl.num_items \div 2 THEN tbl.ineff_expands + 1 ELSE 0
  IN /\ pc = "set_buckets"
     /\ pc' = "idle"
     /\ buckets' = [gen |-> buckets.gen + 1, cell |-> fresh]
     /\ fresh' = Array(0)
     /\ tbl' = [tbl EXCEPT !.ineff_expands = ineff, !.noexpand = @ \/ ineff > 1]
     /\ UNCHANGED <<hashv, head, list, chain, cursor, elt, known, freed, released, lookup>>

Expand == ExpandBegin \/ Relink \/ NextBucket \/ FreeOld \/ SetNum \/ SetBuckets

-----------------------------------------------------------------------------
(* HASH_ITER with HASH_DEL in umplg_free_mngr: main deletes and frees the  *)
(* elements in the order of the list, always the first one.                *)
BeginFree ==
  /\ pc = "idle"
  /\ pc' = IF head = Null THEN "freed" ELSE "free"
  /\ Disturb
  /\ UNCHANGED <<hashv, head, table, chain, elt, known, freed, released>>

(* HASH_DELETE_HH of the first of several elements.                        *)
DeleteHead ==
  LET rest == list[head].next
  IN /\ pc = "free" /\ rest # Null
     /\ pc' = "unlink"
     /\ elt' = head
     /\ head' = rest
     /\ list' = [list EXCEPT ![rest].prev = list[elt'].prev]
     /\ known' = known \ {elt'}
     /\ UNCHANGED <<hashv, chain, tbl, buckets, fresh, cursor, freed, released, lookup>>

(* Mutant: the element after the deleted one keeps its hh_prev.            *)
Bypassed_OneWay(e) ==
  [x \in Elements |-> IF x = chain[e].prev THEN [chain[x] EXCEPT !.next = chain[e].next] ELSE chain[x]]

(* The chains without e.                                                   *)
Bypassed(e) ==
  [x \in Elements |->
     CASE x = chain[e].prev -> [chain[x] EXCEPT !.next = chain[e].next]
       [] x = chain[e].next -> [chain[x] EXCEPT !.prev = chain[e].prev]
       [] OTHER -> chain[x]]

(* HASH_DEL_IN_BKT.                                                        *)
Unlink ==
  LET b == Bucket(elt, tbl.num_buckets)
  IN /\ pc = "unlink"
     /\ pc' = "release"
     /\ buckets' = [buckets EXCEPT !.cell[b].count = @ - 1,
                                   !.cell[b].hh_head = IF @ = elt THEN chain[elt].next ELSE @]
     /\ chain' = Bypassed(elt)
     /\ tbl' = [tbl EXCEPT !.num_items = @ - 1]
     /\ UNCHANGED <<hashv, head, list, fresh, cursor, elt, known, freed, released, lookup>>

(* The handler's term, then its name and the handler itself are freed.     *)
Release ==
  /\ pc = "release"
  /\ pc' = IF head = Null THEN "freed" ELSE "free"
  /\ freed' = freed \cup {elt}
  /\ UNCHANGED <<hashv, head, table, chain, elt, known, released, lookup>>

(* HASH_DELETE_HH of the only element: the array and the table are freed,  *)
(* then head is cleared.                                                   *)
DeleteLast ==
  /\ pc = "free" /\ list[head].next = Null
  /\ pc' = "clear_head"
  /\ elt' = head
  /\ known' = {}
  /\ released' = released + 1
  /\ tbl' = [tbl EXCEPT !.live = FALSE]
  /\ UNCHANGED <<hashv, head, list, chain, buckets, fresh, cursor, freed, lookup>>

(* Mutant: head keeps pointing to the element.                             *)
ClearHead_Forgotten ==
  /\ pc = "clear_head"
  /\ pc' = "freed"
  /\ freed' = freed \cup {elt}
  /\ UNCHANGED <<hashv, head, table, chain, elt, known, released, lookup>>

ClearHead ==
  /\ pc = "clear_head"
  /\ pc' = "release"
  /\ head' = Null
  /\ UNCHANGED <<hashv, table, chain, elt, known, freed, released, lookup>>

Delete == BeginFree \/ DeleteHead \/ Unlink \/ Release \/ DeleteLast \/ ClearHead

-----------------------------------------------------------------------------
(* HASH_FIND.  What a pointer to an element leads to can be read unless    *)
(* the element or the table has been freed.                                *)
Usable(p) == p # Null /\ p \notin freed /\ tbl.live

Becomes(r, l) ==
  /\ lookup' = [lookup EXCEPT ![r] = l]
  /\ UNCHANGED <<hashv, head, table, chain, pc, elt, known, freed, released>>

Ends(r, result) ==
  Becomes(r, [NoLookup EXCEPT !.due = lookup[r].due, !.disturbed = lookup[r].disturbed,
                              !.result = result])

(* The macro names head again for each access, and a build may read it     *)
(* again or keep what it has read.                                         *)
Heads(r) == {lookup[r].head, head}

(* A new lookup: if the table is empty it is over at once, or after the    *)
(* hash value has been computed and head been tested again.                *)
Find(r, e) ==
  LET call == [NoLookup EXCEPT !.due = e \in known, !.disturbed = Rearranging]
  IN /\ lookup[r].pc = "idle"
     /\ IF head = Null
          THEN Becomes(r, [call EXCEPT !.result = "absent"])
          ELSE Becomes(r, [call EXCEPT !.pc = "num_buckets", !.key = e, !.head = head])

ReadNumBuckets(r) ==
  /\ lookup[r].pc = "num_buckets"
  /\ \/ head = Null /\ Ends(r, "absent")
     \/ \E p \in Heads(r) :
          IF Usable(p)
            THEN Becomes(r, [lookup[r] EXCEPT !.pc = "buckets", !.head = p, !.num_buckets = tbl.num_buckets])
            ELSE Ends(r, "undefined")

ReadBuckets(r) ==
  /\ lookup[r].pc = "buckets"
  /\ \E p \in Heads(r) :
       IF Usable(p)
         THEN Becomes(r, [lookup[r] EXCEPT !.pc = "hh_head", !.head = p, !.gen = buckets.gen])
         ELSE Ends(r, "undefined")

ReadHhHead(r) ==
  /\ lookup[r].pc = "hh_head"
  /\ IF lookup[r].gen < released
       THEN Ends(r, "undefined")
       ELSE Becomes(r, [lookup[r] EXCEPT !.pc = "walk", !.num_buckets = 0, !.gen = 0,
                          !.out = buckets.cell[Bucket(lookup[r].key, lookup[r].num_buckets)].hh_head])

(* HASH_FIND_IN_BKT: compare the element that has been reached.            *)
Compare(r) ==
  LET out == lookup[r].out
  IN /\ lookup[r].pc = "walk"
     /\ CASE out = Null -> Ends(r, "absent")
          [] out \in freed -> Ends(r, "undefined")
          [] out = lookup[r].key /\ out \notin freed -> Ends(r, "found")
          [] OTHER -> Becomes(r, [lookup[r] EXCEPT !.out = chain[out].next])

(* The step to the next element reads the table again, unless the build    *)
(* keeps the offset.                                                       *)
LosesTable(r) ==
  /\ lookup[r].pc = "walk"
  /\ lookup[r].out # Null
  /\ \E p \in Heads(r) : ~Usable(p)
  /\ Ends(r, "undefined")

Step(r) == ReadNumBuckets(r) \/ ReadBuckets(r) \/ ReadHhHead(r) \/ Compare(r) \/ LosesTable(r)

Main == Add \/ LinkInBucket \/ Expand \/ Delete

Next == Main \/ \E r \in Readers : Step(r) \/ \E e \in Elements : Find(r, e)

(* A thread in HASH_FIND waits for nobody.                                 *)
Spec == Init /\ [][Next]_vars /\ \A r \in Readers : WF_vars(Step(r))

-----------------------------------------------------------------------------
OptionalElement == Elements \cup {Null}
Links == [next : OptionalElement, prev : OptionalElement]
IsArray(a) ==
  \A b \in DOMAIN a : a[b] \in [hh_head : OptionalElement, count : Nat, expand_mult : Nat]

TypeOK ==
  /\ hashv \in Hashes
  /\ head \in OptionalElement
  /\ list \in [Elements -> Links] /\ chain \in [Elements -> Links]
  /\ DOMAIN buckets.cell = 0..tbl.num_buckets - 1 \/ pc = "set_buckets"
  /\ IsArray(buckets.cell) /\ IsArray(fresh)
  /\ tbl.tail \in OptionalElement /\ tbl.num_items \in Nat
  /\ pc \in {"idle", "link", "expand", "freed"} \/ Rearranging
  /\ elt \in OptionalElement
  /\ known \subseteq Elements \ freed
  /\ released \in {buckets.gen, buckets.gen + 1}
  /\ \A r \in Readers :
       /\ lookup[r].key \in OptionalElement /\ lookup[r].out \in OptionalElement
       /\ lookup[r].result \in {"none", "absent", "found", "undefined"}

(* The links from first run through exactly these members, each once and   *)
(* with its predecessor.                                                   *)
WellLinked(first, links, members) ==
  LET n == Cardinality(members)
      at[i \in 0..n] ==
        IF i = 0 THEN first ELSE IF at[i - 1] = Null THEN Null ELSE links[at[i - 1]].next
  IN /\ {at[i] : i \in 0..n - 1} = members
     /\ at[n] = Null
     /\ \A i \in 0..n - 1 : links[at[i]].prev = (IF i = 0 THEN Null ELSE at[i - 1])

(* What HASH_FSCK asserts after each HASH_ADD and HASH_DEL in a debug      *)
(* build, and that it finds every element in its own bucket: list, buckets *)
(* and counters agree on what the table contains.                          *)
Fsck ==
  pc \in {"idle", "free"} /\ head # Null =>
    /\ WellLinked(head, list, known)
    /\ \A e \in known : list[e].next # Null => list[e].next = e + 1
    /\ \A b \in 0..tbl.num_buckets - 1 :
         LET members == {e \in known : Bucket(e, tbl.num_buckets) = b}
         IN /\ WellLinked(buckets.cell[b].hh_head, chain, members)
            /\ buckets.cell[b].count = Cardinality(members)
    /\ tbl.num_items = Cardinality(known)

(* The comment on expand_mult: the chain of a bucket may only become as    *)
(* long as a multiple of the threshold, unless expansion is inhibited.     *)
(* What an expansion leaves may be longer by itself, since the ideal       *)
(* length can reach the threshold: then the same multiple of that bounds   *)
(* it.                                                                     *)
Bounded(bucket) ==
  LET multiplier == bucket.expand_mult + 1
  IN  \/ bucket.count < multiplier * Threshold
      \/ bucket.count <= multiplier * tbl.ideal_chain_maxlen

ChainsBounded ==
  pc = "idle" /\ ~tbl.noexpand => \A b \in DOMAIN buckets.cell : Bounded(buckets.cell[b])

(* A thread may look a signal or a command up while main registers others, *)
(* and after umplg_free_mngr has emptied the table: unless the table is    *)
(* being rearranged or freed meanwhile, what is registered is found and    *)
(* nothing is touched that has been freed.                                 *)
UndisturbedLookups ==
  \A r \in Readers : ~lookup[r].disturbed =>
    /\ lookup[r].result # "undefined"
    /\ lookup[r].result = "absent" => ~lookup[r].due

(* A lookup ends, also if its element is moved to another chain while the  *)
(* lookup stands at it.                                                    *)
LookupsEnd == \A r \in Readers : lookup[r].pc # "idle" ~> lookup[r].pc = "idle"
=============================================================================
