-------------------------- MODULE HashTableProofs ---------------------------
(***************************************************************************)
(* Proofs about HashTable, for tables and chains of any length, any hash   *)
(* function, threshold and number of threads that look keys up.            *)
(***************************************************************************)
EXTENDS HashTable, FunctionTheorems, FiniteSetTheorems, WellFoundedInduction, TLAPS

USE ConstantsAssumption

-----------------------------------------------------------------------------
(* Main adds elements, in the phases of Add, LinkInBucket and Expand.      *)
Adding == pc \in {"idle", "link", "expand", "relink", "free_old", "set_num", "set_buckets"}

(* What the buckets hold: the element that is being deleted stays in its   *)
(* bucket after it has left the list.                                      *)
InTable == IF pc = "unlink" THEN known \cup {elt} ELSE known

Tbl ==
  [tail : OptionalElement, num_items : Nat, num_buckets : Nat \ {0}, ideal_chain_maxlen : Nat,
   nonideal_items : Nat, ineff_expands : Nat, noexpand : BOOLEAN, live : BOOLEAN]
Cell == [hh_head : OptionalElement, count : Nat, expand_mult : Nat]
Lookup ==
  [pc : {"idle", "num_buckets", "buckets", "hh_head", "walk"}, key : OptionalElement,
   head : OptionalElement, num_buckets : Nat, gen : Nat, out : OptionalElement, due : BOOLEAN,
   disturbed : BOOLEAN, result : {"none", "absent", "found", "undefined"}]

(* Types, as precisely as the steps need them.                             *)
Types ==
  /\ hashv \in Hashes
  /\ head \in OptionalElement
  /\ list \in [Elements -> Links] /\ chain \in [Elements -> Links]
  /\ tbl \in Tbl
  /\ buckets = [gen |-> buckets.gen, cell |-> buckets.cell] /\ buckets.gen \in Nat
  /\ buckets.cell \in [DOMAIN buckets.cell -> Cell] /\ fresh \in [DOMAIN fresh -> Cell]
  /\ pc # "set_buckets" => DOMAIN buckets.cell = 0..tbl.num_buckets - 1
  /\ pc \in {"relink", "free_old", "set_num"} => DOMAIN fresh = 0..2 * tbl.num_buckets - 1
  /\ pc = "set_buckets" => DOMAIN fresh = 0..tbl.num_buckets - 1
  /\ cursor \in [bkt_i : Nat, thh : OptionalElement]
  /\ Adding \/ pc \in {"free", "unlink", "release", "clear_head", "freed"}
  /\ elt \in OptionalElement
  /\ lookup \in [Readers -> Lookup]

(* Main adds the elements in their order and deletes them in their order,  *)
(* so that the list holds an interval of them.                             *)
Control ==
  /\ Adding =>
       /\ elt = tbl.tail /\ freed = {} /\ tbl.live
       /\ known = 1..(IF pc = "link" THEN elt - 1 ELSE elt)
       /\ tbl.num_items = (IF pc = "link" THEN elt - 1 ELSE elt)
       /\ head = (IF elt = Null THEN Null ELSE 1)
       /\ pc # "idle" => elt # Null
  /\ pc \in {"free", "unlink", "release"} /\ head # Null =>
       /\ head <= tbl.tail /\ known = head..tbl.tail
       /\ freed = 1..(IF pc = "free" THEN head - 1 ELSE head - 2) /\ tbl.live
       /\ pc # "free" => elt # Null /\ elt = head - 1
       /\ tbl.num_items = tbl.tail - head + (IF pc = "unlink" THEN 2 ELSE 1)
  /\ pc \in {"free", "unlink", "clear_head"} => head # Null
  /\ pc \in {"release", "clear_head"} => elt # Null /\ elt \notin known
  /\ pc = "release" /\ head = Null => known = {}
  /\ pc = "clear_head" => known = {} /\ ~tbl.live
  /\ pc = "freed" => head = Null /\ known = {}

(* The list runs through the elements in their order.                      *)
ListOrder ==
  /\ \A e \in 1..tbl.tail : list[e].next = (IF e = tbl.tail THEN Null ELSE e + 1)
  /\ head # Null => \A e \in head..tbl.tail : list[e].prev = (IF e = head THEN Null ELSE e - 1)

(* The array of the buckets is in use until it is freed.                   *)
ArrayInUse ==
  released = (IF pc \in {"set_num", "set_buckets"} \/ ~tbl.live THEN buckets.gen + 1
                                                              ELSE buckets.gen)

-----------------------------------------------------------------------------
(* Chains.  pos numbers the elements of a chain from its end, 1, to its    *)
(* first element.                                                          *)
Members(h, S, n, b) == {e \in S : h[e] % n = b}

(* What is left of an old chain: the links from first on run through S.    *)
Follows(links, S, first, pos) ==
  /\ first = Null => S = {}
  /\ first # Null => first \in S /\ \A e \in S : pos[e] <= pos[first]
  /\ \A e, f \in S : pos[e] = pos[f] => e = f
  /\ \A e \in S : /\ links[e].next = Null <=> pos[e] = 1
                  /\ links[e].next # Null => links[e].next \in S /\ pos[links[e].next] = pos[e] - 1

(* The numbers from 1 to n, each once.                                     *)
Numbered(S, n, pos) ==
  /\ \A e \in S : pos[e] \in 1..n
  /\ \A e, f \in S : pos[e] = pos[f] => e = f
  /\ \A i \in 1..n : \E e \in S : pos[e] = i

(* The chain of a bucket runs through S in both directions, and the        *)
(* counter of the bucket is right.                                         *)
Chained(links, S, cell, pos) ==
  /\ Numbered(S, cell.count, pos)
  /\ \A e \in S : links[e].next = Null <=> pos[e] = 1
  /\ \A e \in S : links[e].next # Null =>
       /\ links[e].next \in S /\ pos[links[e].next] = pos[e] - 1
       /\ links[links[e].next].prev = e
  /\ cell.count = 0 => cell.hh_head = Null
  /\ cell.count # 0 => /\ cell.hh_head \in S /\ pos[cell.hh_head] = cell.count
                       /\ links[cell.hh_head].prev = Null

(* A table: each bucket has the chain of its members.                      *)
Table(h, S, n, cells, links, pos) ==
  \A b \in 0..n - 1 : Chained(links, Members(h, S, n, b), cells[b], pos)

(* The buckets hold the elements of the table.                             *)
Chains(pos) ==
  tbl.live /\ pc \in {"idle", "link", "expand", "free", "unlink", "release"} =>
    Table(hashv, InTable, tbl.num_buckets, buckets.cell, chain, pos)

(* During an expansion the elements are either in the new buckets or in    *)
(* what is left of the old chains.                                         *)
Moving(pos, moved) ==
  LET n == tbl.num_buckets
      left == known \ moved
  IN /\ cursor.bkt_i \in 0..n - 1
     /\ moved \subseteq known
     /\ Table(hashv, moved, 2 * n, fresh, chain, pos)
     /\ \A e \in left : Bucket(e, n) >= cursor.bkt_i
     /\ Follows(chain, Members(hashv, left, n, cursor.bkt_i), cursor.thh, pos)
     /\ \A b \in cursor.bkt_i + 1..n - 1 :
          Follows(chain, Members(hashv, left, n, b), buckets.cell[b].hh_head, pos)

Moved(pos) ==
  LET n == IF pc = "set_buckets" THEN tbl.num_buckets ELSE 2 * tbl.num_buckets
  IN Table(hashv, known, n, fresh, chain, pos)

-----------------------------------------------------------------------------
(* Every lookup: it is disturbed if main has started to rearrange or free  *)
(* the table since it began, and it can index the array it has read unless *)
(* that was freed.                                                         *)
LookupOK(l) ==
  /\ l.pc # "idle" =>
       /\ l.key \in Elements /\ l.result = "none"
       /\ Rearranging \/ pc = "freed" => l.disturbed
  /\ l.pc \in {"buckets", "hh_head"} => l.num_buckets \in 1..tbl.num_buckets
  /\ l.pc = "hh_head" => l.gen <= buckets.gen

(* An undisturbed one has read what is still true.                         *)
ReadsTrue(l) ==
  ~l.disturbed =>
    /\ l.result # "undefined"
    /\ l.result = "absent" => ~l.due
    /\ l.pc # "idle" =>
         /\ l.head = head /\ head # Null
         /\ l.due => l.key \in known
         /\ l.pc \in {"buckets", "hh_head"} => l.num_buckets = tbl.num_buckets
         /\ l.pc = "hh_head" => l.gen = buckets.gen

(* One that is due is in the chain of its key and has not passed it.       *)
Walking(l, pos) ==
  ~l.disturbed /\ l.pc = "walk" =>
    /\ l.out # Null => l.out \in known
    /\ l.due => /\ l.out # Null
                /\ Bucket(l.out, tbl.num_buckets) = Bucket(l.key, tbl.num_buckets)
                /\ pos[l.key] <= pos[l.out]

Lookups == \A r \in Readers : LookupOK(lookup[r]) /\ ReadsTrue(lookup[r])
Walks(pos) == \A r \in Readers : Walking(lookup[r], pos)

Order ==
  \E pos \in [Elements -> Nat \ {0}] :
    /\ Chains(pos)
    /\ pc = "relink" => \E moved \in SUBSET Elements : Moving(pos, moved)
    /\ pc \in {"free_old", "set_num", "set_buckets"} => Moved(pos)
    /\ Walks(pos)

IInv == Types /\ Control /\ ListOrder /\ ArrayInUse /\ Lookups /\ Order

-----------------------------------------------------------------------------
(* Chains, whatever table they belong to.                                  *)
Positions == [Elements -> Nat \ {0}]
Chain == [Elements -> Links]

(* The links with e in front of first, and without e.                      *)
Push(links, e, first) ==
  [x \in Elements |->
     CASE x = e -> [next |-> first, prev |-> Null]
       [] x = first -> [links[x] EXCEPT !.prev = e]
       [] OTHER -> links[x]]
Bypass(links, e) ==
  [x \in Elements |->
     CASE x = links[e].prev -> [links[x] EXCEPT !.next = links[e].next]
       [] x = links[e].next -> [links[x] EXCEPT !.prev = links[e].prev]
       [] OTHER -> links[x]]

(* The positions with e at k, and without e in a chain S.                  *)
Placed(pos, e, k) == [pos EXCEPT ![e] = k]
MovedUp(pos, S, e) ==
  [x \in Elements |-> IF x \in S /\ pos[x] > pos[e] THEN pos[x] - 1 ELSE pos[x]]

(* Links, bucket and positions after e has been put in front.              *)
InFront(e, links, cell, pos, links2, cell2, pos2) ==
  /\ links2 = Push(links, e, cell.hh_head)
  /\ cell2.hh_head = e /\ cell2.count = cell.count + 1
  /\ pos2 = Placed(pos, e, cell2.count)

(* Links, bucket and positions after e has been taken out of S.            *)
Without(e, S, links, cell, pos, links2, cell2, pos2) ==
  /\ \A x \in S : /\ links2[x].next = (IF x = links[e].prev THEN links[e].next ELSE links[x].next)
                  /\ links2[x].prev = (IF x = links[e].next THEN links[e].prev ELSE links[x].prev)
                  /\ pos2[x] = (IF pos[x] > pos[e] THEN pos[x] - 1 ELSE pos[x])
  /\ cell2.hh_head = (IF cell.hh_head = e THEN links[e].next ELSE cell.hh_head)
  /\ cell2.count = cell.count - 1

(* Elements are numbers above Null.                                        *)
LEMMA ElementsArePositive ==
  Elements \subseteq Nat \ {0} /\ Null \notin Elements /\ \A e \in Elements : e \in Nat /\ e # Null
BY DEF Elements, Null

(* The two fields of the links of an element.                              *)
LEMMA LinksOf ==
  ASSUME NEW links \in Chain, NEW e \in Elements
  PROVE  links[e] = [next |-> links[e].next, prev |-> links[e].prev]
         /\ links[e].next \in OptionalElement /\ links[e].prev \in OptionalElement
BY DEF Chain, Links

(* A chain is still one if nothing in it has changed.                      *)
LEMMA FollowsFrame ==
  ASSUME NEW S, NEW first, NEW links, NEW pos, NEW links2, NEW pos2,
         Follows(links, S, first, pos),
         \A e \in S : links2[e].next = links[e].next /\ pos2[e] = pos[e]
  PROVE  Follows(links2, S, first, pos2)
BY DEF Follows

(* A bucket keeps its chain if nothing in it changes.                      *)
LEMMA ChainedFrame ==
  ASSUME NEW S, NEW cell, NEW cell2, NEW links, NEW pos, NEW links2, NEW pos2,
         cell2.hh_head = cell.hh_head, cell2.count = cell.count,
         Chained(links, S, cell, pos),
         \A e \in S : links2[e] = links[e] /\ pos2[e] = pos[e]
  PROVE  Chained(links2, S, cell2, pos2)
<1>1. Numbered(S, cell2.count, pos2)
  BY DEF Chained, Numbered
<1> QED
  BY <1>1 DEF Chained

(* The chain of a bucket is one that is left of an old chain.              *)
LEMMA ChainedFollows ==
  ASSUME NEW S, NEW cell, cell.count \in Nat, NEW links, NEW pos, Null \notin S,
         Chained(links, S, cell, pos)
  PROVE  Follows(links, S, cell.hh_head, pos)
<1>1. \A e \in S : pos[e] \in 1..cell.count
  BY DEF Chained, Numbered
<1>2. CASE cell.count = 0
  BY <1>1, <1>2 DEF Chained, Follows
<1>3. CASE cell.count # 0
  <2>1. \A e \in S : pos[e] <= pos[cell.hh_head]
    BY <1>1, <1>3 DEF Chained
  <2> QED
    BY <1>3, <2>1 DEF Chained, Follows, Numbered
<1> QED
  BY <1>2, <1>3

(* The first element is taken away.                                        *)
LEMMA FollowsRest ==
  ASSUME NEW S \in SUBSET Elements, NEW first \in S, NEW links, NEW pos \in Positions,
         Follows(links, S, first, pos)
  PROVE  Follows(links, S \ {first}, links[first].next, pos)
<1>1. Null \notin S /\ first # Null /\ \A e \in S : pos[e] \in Nat \ {0}
  BY ElementsArePositive DEF Positions
<1>2. \A e \in S \ {first} : pos[e] < pos[first]
  BY <1>1 DEF Follows
<1>3. ASSUME pos[first] = 1 PROVE S \ {first} = {} /\ links[first].next = Null
  BY <1>1, <1>2, <1>3 DEF Follows
<1>4. ASSUME pos[first] # 1
      PROVE  links[first].next \in S \ {first} /\ pos[links[first].next] = pos[first] - 1
  BY <1>1, <1>4 DEF Follows
<1>5. \A e \in S \ {first} : pos[e] # 1 => links[e].next # first
  BY <1>1, <1>2 DEF Follows
<1>6. CASE pos[first] = 1
  BY <1>1, <1>3, <1>6 DEF Follows
<1>7. CASE pos[first] # 1
  BY <1>1, <1>2, <1>4, <1>5, <1>7 DEF Follows
<1> QED
  BY <1>6, <1>7

(* An element is put in front.                                             *)
LEMMA ChainedPushed ==
  ASSUME NEW S \in SUBSET Elements, NEW e \in Elements \ S, NEW cell \in Cell,
         NEW links \in Chain, NEW pos \in Positions, Chained(links, S, cell, pos),
         NEW links2, NEW pos2, NEW cell2,
         InFront(e, links, cell, pos, links2, cell2, pos2)
  PROVE  /\ pos2 \in Positions
         /\ Chained(links2, S \cup {e}, cell2, pos2)
<1> DEFINE hd == cell.hh_head
           n == cell.count
<1> /\ links2 = Push(links, e, hd) /\ pos2 = Placed(pos, e, cell2.count)
    /\ cell2.hh_head = e /\ cell2.count = n + 1
  BY DEF InFront
<1>1. /\ n \in Nat /\ e # Null /\ e \notin S
      /\ \A x \in S : x \in Elements /\ x # Null
  BY ElementsArePositive DEF Cell
<1>2. pos2 \in Positions /\ pos2[e] = n + 1 /\ \A x \in S : pos2[x] = pos[x]
  BY <1>1 DEF Positions, Placed
<1>3. /\ Numbered(S, n, pos)
      /\ \A x \in S : links[x].next = Null <=> pos[x] = 1
      /\ \A x \in S : links[x].next # Null =>
           /\ links[x].next \in S /\ pos[links[x].next] = pos[x] - 1
           /\ links[links[x].next].prev = x
      /\ n = 0 => hd = Null
      /\ n # 0 => hd \in S /\ pos[hd] = n
  BY DEF Chained
<1>4. hd # e
  BY <1>1, <1>3
<1>5. links2[e] = [next |-> hd, prev |-> Null]
  BY <1>4 DEF Push
<1>6. \A x \in S : links2[x] = IF x = hd THEN [links[x] EXCEPT !.prev = e] ELSE links[x]
  BY <1>1 DEF Push
<1>7. ASSUME NEW x \in S
      PROVE  links2[x].next = links[x].next /\ links2[x].prev = IF x = hd THEN e ELSE links[x].prev
  <2>1. links[x] = [next |-> links[x].next, prev |-> links[x].prev]
    BY <1>1, LinksOf
  <2>2. links2[x] = IF x = hd THEN [links[x] EXCEPT !.prev = e] ELSE links[x]
    BY <1>6
  <2> HIDE DEF hd
  <2> QED
    BY <2>1, <2>2
<1>8. \A x \in S : pos[x] \in 1..n
  BY <1>3 DEF Numbered
<1> HIDE DEF hd, n
<1>9. Numbered(S \cup {e}, n + 1, pos2)
  <2>1. \A x \in S : pos2[x] \in 1..n
    BY <1>2, <1>8
  <2>2. \A x \in S \cup {e} : pos2[x] \in 1..n + 1
    BY <1>1, <1>2, <2>1
  <2>3. \A x, y \in S \cup {e} : pos2[x] = pos2[y] => x = y
    BY <1>1, <1>2, <1>3, <2>1 DEF Numbered
  <2>4. \A i \in 1..n + 1 : \E x \in S \cup {e} : pos2[x] = i
    <3>1. \A i \in 1..n + 1 : i \in 1..n \/ i = n + 1
      BY <1>1
    <3> QED
      BY <1>2, <1>3, <3>1 DEF Numbered
  <2> QED
    BY <2>2, <2>3, <2>4 DEF Numbered
<1>10. ASSUME NEW x \in S
       PROVE  /\ links2[x].next = Null <=> pos2[x] = 1
              /\ links2[x].next # Null => /\ links2[x].next \in S /\ pos2[links2[x].next] = pos2[x] - 1
                                          /\ links2[links2[x].next].prev = x
  <2>1. links2[x].next = links[x].next /\ pos2[x] = pos[x]
    BY <1>2, <1>7
  <2>2. ASSUME links[x].next # Null
        PROVE  /\ links[x].next \in S /\ pos2[links[x].next] = pos[x] - 1
               /\ links2[links[x].next].prev = x
    <3>1. links[x].next \in S /\ pos[links[x].next] = pos[x] - 1 /\ links[links[x].next].prev = x
      BY <1>3, <2>2
    <3>2. links[x].next # hd
      BY <1>1, <1>3, <1>8, <3>1
    <3> QED
      BY <3>1, <3>2, <1>2, <1>7
  <2> QED
    BY <1>3, <2>1, <2>2
<1>11. /\ links2[e].next = Null <=> pos2[e] = 1
       /\ links2[e].next # Null => /\ links2[e].next \in S /\ pos2[links2[e].next] = pos2[e] - 1
                                   /\ links2[links2[e].next].prev = e
  BY <1>1, <1>2, <1>3, <1>5, <1>7
<1>12. /\ links2[e].prev = Null /\ cell2.hh_head = e /\ cell2.count = n + 1 /\ pos2[e] = n + 1
       /\ n + 1 # 0
  BY <1>1, <1>2, <1>5 DEF n
<1>13. Chained(links2, S \cup {e}, cell2, pos2)
  <2>1. \A x \in S \cup {e} :
          /\ links2[x].next = Null <=> pos2[x] = 1
          /\ links2[x].next # Null => /\ links2[x].next \in S \cup {e}
                                      /\ pos2[links2[x].next] = pos2[x] - 1
                                      /\ links2[links2[x].next].prev = x
    BY <1>10, <1>11
  <2>2. cell2.count # 0 /\ cell2.hh_head \in S \cup {e} /\ pos2[cell2.hh_head] = cell2.count
        /\ links2[cell2.hh_head].prev = Null
    BY <1>12
  <2>3. Numbered(S \cup {e}, cell2.count, pos2)
    BY <1>9, <1>12
  <2> QED
    BY <2>1, <2>2, <2>3 DEF Chained
<1> QED
  BY <1>2, <1>13

(* An element is taken out, and those in front of it move up.              *)
LEMMA NumberedLess ==
  ASSUME NEW S, NEW e \in S, NEW n \in Nat, NEW pos, Numbered(S, n, pos), NEW pos2,
         \A x \in S : pos2[x] = (IF pos[x] > pos[e] THEN pos[x] - 1 ELSE pos[x])
  PROVE  n - 1 \in Nat /\ Numbered(S \ {e}, n - 1, pos2)
<1>1. pos[e] \in 1..n /\ \A x \in S : pos[x] \in 1..n
  BY DEF Numbered
<1>2. \A x \in S \ {e} : pos[x] # pos[e]
  BY DEF Numbered
<1>3. n - 1 \in Nat
  BY <1>1
<1>4. ASSUME NEW x \in S \ {e} PROVE pos2[x] \in 1..n - 1
  <2>1. pos[x] \in 1..n /\ pos[x] # pos[e]
    BY <1>1, <1>2
  <2> QED
    BY <1>1, <2>1
<1>5. ASSUME NEW x \in S \ {e}, NEW y \in S \ {e}, pos2[x] = pos2[y] PROVE x = y
  <2>1. pos[x] \in 1..n /\ pos[x] # pos[e] /\ pos[y] \in 1..n /\ pos[y] # pos[e]
    BY <1>1, <1>2
  <2>2. pos[x] = pos[y]
    BY <1>1, <1>5, <2>1
  <2> QED
    BY <2>2 DEF Numbered
<1>6. ASSUME NEW i \in 1..n - 1 PROVE \E x \in S \ {e} : pos2[x] = i
  <2> DEFINE j == IF i < pos[e] THEN i ELSE i + 1
  <2>1. j \in 1..n /\ j # pos[e] /\ (IF j > pos[e] THEN j - 1 ELSE j) = i
    BY <1>1
  <2>2. PICK x \in S : pos[x] = j
    BY <2>1 DEF Numbered
  <2> HIDE DEF j
  <2> QED
    BY <2>1, <2>2
<1> QED
  BY <1>3, <1>4, <1>5, <1>6 DEF Numbered

(* What surrounds an element of a chain.                                   *)
LEMMA Neighbours ==
  ASSUME NEW S, NEW e \in S, NEW cell, NEW links, NEW pos, Null \notin S, cell.count \in Nat,
         Chained(links, S, cell, pos)
  PROVE  /\ cell.count \in Nat \ {0} /\ pos[e] \in 1..cell.count
         /\ cell.hh_head \in S /\ pos[cell.hh_head] = cell.count
         /\ links[e].prev = Null <=> e = cell.hh_head
         /\ links[e].prev # Null => /\ links[e].prev \in S /\ links[links[e].prev].next = e
                                    /\ pos[links[e].prev] = pos[e] + 1
         /\ links[e].next = Null <=> pos[e] = 1
         /\ links[e].next # Null => links[e].next \in S /\ pos[links[e].next] = pos[e] - 1
<1> DEFINE hd == cell.hh_head
           n == cell.count
<1>1. /\ \A x \in S : pos[x] \in 1..n
      /\ \A x, y \in S : pos[x] = pos[y] => x = y
      /\ \A i \in 1..n : \E x \in S : pos[x] = i
  BY DEF Chained, Numbered
<1>2. n \in Nat \ {0}
  BY <1>1
<1>3. hd \in S /\ pos[hd] = n /\ links[hd].prev = Null
  BY <1>2 DEF Chained
<1>4. ASSUME NEW x \in S
      PROVE  /\ pos[x] \in 1..n
             /\ links[x].next = Null <=> pos[x] = 1
             /\ links[x].next # Null => /\ links[x].next \in S
                                        /\ pos[links[x].next] = pos[x] - 1
                                        /\ links[links[x].next].prev = x
  BY DEF Chained, Numbered
<1> HIDE DEF hd, n
<1>5. ASSUME e # hd
      PROVE  links[e].prev \in S /\ links[links[e].prev].next = e /\ pos[links[e].prev] = pos[e] + 1
  <2>1. pos[e] \in 1..n /\ pos[e] # n
    BY <1>1, <1>3, <1>5
  <2>2. pos[e] + 1 \in 1..n
    BY <1>2, <2>1
  <2>3. PICK f \in S : pos[f] = pos[e] + 1
    BY <1>1, <2>2
  <2>4. links[f].next \in S /\ pos[links[f].next] = pos[e] /\ links[links[f].next].prev = f
    <3>1. pos[f] # 1 /\ pos[f] - 1 = pos[e]
      BY <2>1, <2>3
    <3> QED
      BY <1>4, <3>1
  <2>5. links[f].next = e
    BY <1>1, <2>4
  <2> QED
    BY <2>3, <2>4, <2>5
<1>6. ASSUME e = hd PROVE links[e].prev = Null
  BY <1>3, <1>6
<1>7. Null \notin S
  OBVIOUS
<1>8. pos[e] \in 1..n /\ (links[e].next = Null <=> pos[e] = 1)
      /\ (links[e].next # Null => links[e].next \in S /\ pos[links[e].next] = pos[e] - 1)
  BY <1>1, <1>4
<1>9. /\ links[e].prev = Null <=> e = hd
      /\ links[e].prev # Null => /\ links[e].prev \in S /\ links[links[e].prev].next = e
                                 /\ pos[links[e].prev] = pos[e] + 1
  BY <1>5, <1>6, <1>7
<1> QED
  BY <1>2, <1>3, <1>8, <1>9 DEF hd, n

(* A chain without an element, given what the links of the others are.     *)
LEMMA ChainedLess ==
  ASSUME NEW S, NEW e \in S, NEW cell, NEW links, NEW pos, Null \notin S, cell.count \in Nat,
         Chained(links, S, cell, pos),
         NEW links2, NEW pos2, NEW cell2,
         Without(e, S, links, cell, pos, links2, cell2, pos2)
  PROVE  cell2.count \in Nat /\ Chained(links2, S \ {e}, cell2, pos2)
<1> DEFINE hd == cell.hh_head
           n == cell.count
           before == links[e].prev
           after == links[e].next
<1> /\ \A x \in S : /\ links2[x].next = (IF x = before THEN after ELSE links[x].next)
                    /\ links2[x].prev = (IF x = after THEN before ELSE links[x].prev)
                    /\ pos2[x] = (IF pos[x] > pos[e] THEN pos[x] - 1 ELSE pos[x])
    /\ cell2.hh_head = (IF hd = e THEN after ELSE hd)
    /\ cell2.count = n - 1
  BY DEF Without
<1>1. /\ n \in Nat \ {0} /\ pos[e] \in 1..n /\ hd \in S /\ pos[hd] = n
      /\ before = Null <=> e = hd
      /\ before # Null => before \in S /\ links[before].next = e /\ pos[before] = pos[e] + 1
      /\ after = Null <=> pos[e] = 1
      /\ after # Null => after \in S /\ pos[after] = pos[e] - 1
  BY Neighbours
<1>2. Numbered(S, n, pos)
  BY DEF Chained
<1>3. n - 1 \in Nat /\ Numbered(S \ {e}, n - 1, pos2)
  BY <1>1, <1>2, NumberedLess
<1>4. cell2.count = n - 1 /\ cell2.hh_head = (IF hd = e THEN after ELSE hd)
  OBVIOUS
<1>5. ASSUME NEW x \in S \ {e}
      PROVE  /\ links2[x].next = (IF x = before THEN after ELSE links[x].next)
             /\ links2[x].prev = (IF x = after THEN before ELSE links[x].prev)
             /\ pos2[x] = (IF pos[x] > pos[e] THEN pos[x] - 1 ELSE pos[x])
             /\ pos[x] \in 1..n /\ pos[x] # pos[e] /\ (pos[x] = pos[e] + 1 => x = before)
             /\ links[x].next = Null <=> pos[x] = 1
             /\ links[x].next # Null => /\ links[x].next \in S
                                        /\ pos[links[x].next] = pos[x] - 1
                                        /\ links[links[x].next].prev = x
  <2>1. pos[x] \in 1..n /\ pos[x] # pos[e]
    BY <1>2 DEF Numbered
  <2>2. ASSUME pos[x] = pos[e] + 1 PROVE x = before
    <3>1. before # Null
      BY <1>1, <2>1, <2>2
    <3> QED
      BY <1>1, <1>2, <2>2, <3>1 DEF Numbered
  <2> QED
    BY <2>1, <2>2 DEF Chained
<1>6. /\ links[hd].prev = Null /\ (hd # e => links2[hd].prev = (IF hd = after THEN before ELSE Null))
      /\ (after # Null => after # e /\ links2[after].prev = before)
  <2>1. links[hd].prev = Null
    BY <1>1 DEF Chained
  <2> QED
    BY <1>1, <2>1
<1>7. hd # e => hd # after
  BY <1>1
<1> HIDE DEF hd, n, before, after
<1>8. ASSUME NEW x \in S \ {e}
      PROVE  /\ links2[x].next = Null <=> pos2[x] = 1
             /\ links2[x].next # Null => /\ links2[x].next \in S \ {e}
                                         /\ pos2[links2[x].next] = pos2[x] - 1
                                         /\ links2[links2[x].next].prev = x
  <2>1. CASE x = before
    <3>1. links2[x].next = after /\ pos2[x] = pos[e] /\ x # Null
      BY <1>1, <1>5, <2>1
    <3>2. ASSUME after # Null
          PROVE  after \in S \ {e} /\ pos2[after] = pos[e] - 1 /\ links2[after].prev = before
      <4>1. after \in S \ {e} /\ pos[after] = pos[e] - 1
        BY <1>1, <1>6, <3>2
      <4> QED
        BY <1>1, <1>5, <1>6, <3>2, <4>1
    <3> QED
      BY <1>1, <2>1, <3>1, <3>2
  <2>2. CASE x # before
    <3>1. links2[x].next = links[x].next /\ pos[x] # pos[e] + 1
      BY <1>5, <2>2
    <3>2. ASSUME links[x].next # Null
          PROVE  /\ links[x].next \in S \ {e} /\ pos2[links[x].next] = pos2[x] - 1
                 /\ links2[links[x].next].prev = x
      <4>1. /\ links[x].next \in S /\ pos[links[x].next] = pos[x] - 1
            /\ links[links[x].next].prev = x
        BY <1>5, <3>2
      <4>2. links[x].next # e
        BY <1>1, <1>5, <3>1, <4>1
      <4>3. links[x].next # after
        BY <1>1, <1>5, <3>2, <4>1
      <4>4. /\ pos2[links[x].next] = (IF pos[x] - 1 > pos[e] THEN pos[x] - 2 ELSE pos[x] - 1)
            /\ links2[links[x].next].prev = x
        BY <1>1, <1>5, <4>1, <4>2, <4>3
      <4>5. pos2[x] = (IF pos[x] > pos[e] THEN pos[x] - 1 ELSE pos[x]) /\ pos[x] # pos[e] /\ pos[x] \in 1..n
        BY <1>5
      <4> QED
        BY <1>1, <3>1, <4>1, <4>2, <4>4, <4>5
    <3>3. links[x].next = Null <=> pos2[x] = 1
      BY <1>1, <1>5, <3>1
    <3> QED
      BY <3>1, <3>2, <3>3
  <2> QED
    BY <2>1, <2>2
<1>9. ASSUME cell2.count = 0 PROVE cell2.hh_head = Null
  <2>1. n = 1 /\ pos[e] = 1 /\ pos[hd] = 1
    BY <1>1, <1>4, <1>9
  <2>2. hd = e /\ after = Null
    BY <1>1, <1>2, <2>1 DEF Numbered
  <2> QED
    BY <1>4, <2>2
<1>10. ASSUME cell2.count # 0
       PROVE  /\ cell2.hh_head \in S \ {e} /\ pos2[cell2.hh_head] = cell2.count
              /\ links2[cell2.hh_head].prev = Null
  <2>1. CASE hd = e
    BY <1>1, <1>4, <1>5, <1>6, <1>10, <2>1
  <2>2. CASE hd # e
    BY <1>1, <1>4, <1>5, <1>6, <1>7, <1>10, <2>2
  <2> QED
    BY <2>1, <2>2
<1>11. Numbered(S \ {e}, cell2.count, pos2)
  BY <1>3, <1>4
<1> QED
  BY <1>3, <1>4, <1>8, <1>9, <1>10, <1>11 DEF Chained

(* Putting an element in front changes two elements only.                  *)
LEMMA PushedLinks ==
  ASSUME NEW links \in Chain, NEW e \in Elements, NEW first \in OptionalElement, first # e, NEW links2,
         links2 = Push(links, e, first)
  PROVE  /\ links2 \in Chain
         /\ \A x \in Elements \ {e} : /\ links2[x].next = links[x].next
                                      /\ x # first => links2[x] = links[x]
<1>1. e \in OptionalElement /\ Null \in OptionalElement
  BY DEF OptionalElement
<1>2. links2[e] = [next |-> first, prev |-> Null] /\ links2[e] \in Links
  BY <1>1 DEF Links, Push
<1>3. ASSUME NEW x \in Elements \ {e}
      PROVE  links2[x] \in Links /\ links2[x].next = links[x].next /\ (x # first => links2[x] = links[x])
  <2>1. links[x] \in Links
    BY DEF Chain
  <2>2. links2[x] = IF x = first THEN [links[x] EXCEPT !.prev = e] ELSE links[x]
    BY DEF Push
  <2> QED
    BY <1>1, <2>1, <2>2 DEF Links
<1>4. links2 \in Chain
  BY <1>2, <1>3 DEF Chain, Push
<1> QED
  BY <1>3, <1>4

(* Taking an element out changes its two neighbours only.                  *)
LEMMA BypassedLinks ==
  ASSUME NEW links \in Chain, NEW e \in Elements, NEW links2,
         links[e].prev # links[e].next \/ links[e].prev = Null,
         links2 = Bypass(links, e)
  PROVE  /\ links2 \in Chain
         /\ \A x \in Elements :
              /\ links2[x].next = (IF x = links[e].prev THEN links[e].next ELSE links[x].next)
              /\ links2[x].prev = (IF x = links[e].next THEN links[e].prev ELSE links[x].prev)
              /\ x # links[e].prev /\ x # links[e].next => links2[x] = links[x]
<1> DEFINE before == links[e].prev
           after == links[e].next
<1>1. before \in OptionalElement /\ after \in OptionalElement /\ Null \notin Elements
  BY LinksOf, ElementsArePositive
<1>2. ASSUME NEW x \in Elements
      PROVE  /\ links2[x] \in Links
             /\ links2[x].next = (IF x = before THEN after ELSE links[x].next)
             /\ links2[x].prev = (IF x = after THEN before ELSE links[x].prev)
             /\ x # before /\ x # after => links2[x] = links[x]
  <2>1. links[x] = [next |-> links[x].next, prev |-> links[x].prev] /\ links[x] \in Links
        /\ links[x].next \in OptionalElement /\ links[x].prev \in OptionalElement
    BY LinksOf DEF Chain
  <2>2. CASE x = before
    <3>1. x # after
      BY <1>1, <2>2
    <3>2. links2[x] = [next |-> after, prev |-> links[x].prev]
      BY <2>1, <2>2, <3>1 DEF Bypass
    <3> QED
      BY <1>1, <2>1, <2>2, <3>1, <3>2 DEF Links
  <2>3. CASE x = after /\ x # before
    <3>1. links2[x] = [next |-> links[x].next, prev |-> before]
      BY <2>1, <2>3 DEF Bypass
    <3> QED
      BY <1>1, <2>1, <2>3, <3>1 DEF Links
  <2>4. CASE x # before /\ x # after
    BY <2>1, <2>4 DEF Bypass
  <2> QED
    BY <2>2, <2>3, <2>4
<1>3. links2 \in Chain
  BY <1>2 DEF Chain, Bypass
<1> QED
  BY <1>2, <1>3

(* Element e is put into its bucket b, or taken out of it.                 *)
PutInto(h, n, e, b, links, cells, pos, links2, cells2, pos2) ==
  /\ n \in Nat \ {0} /\ b \in 0..n - 1 /\ b = h[e] % n
  /\ InFront(e, links, cells[b], pos, links2, cells2[b], pos2)
  /\ \A c \in 0..n - 1 : c # b => cells2[c] = cells[c]
Elsewhere(e, links, pos, links2, pos2) ==
  \A x \in Elements \ {e} : links2[x].next = links[x].next /\ pos2[x] = pos[x]
TakenFrom(h, n, S, e, b, links, cells, pos, links2, cells2, pos2) ==
  /\ n \in Nat \ {0} /\ b \in 0..n - 1 /\ b = h[e] % n
  /\ links2 = Bypass(links, e)
  /\ pos2 = MovedUp(pos, Members(h, S, n, b), e)
  /\ cells2[b].hh_head = (IF cells[b].hh_head = e THEN links[e].next ELSE cells[b].hh_head)
  /\ cells2[b].count = cells[b].count - 1
  /\ \A c \in 0..n - 1 : c # b => cells2[c] = cells[c]

(* HASH_ADD_TO_BKT on one bucket of a table leaves a table.                *)
LEMMA TablePushed ==
  ASSUME NEW h, NEW n, NEW S \in SUBSET Elements, NEW e \in Elements \ S,
         NEW b, NEW cells, cells[b] \in Cell, NEW links \in Chain, NEW pos \in Positions,
         Table(h, S, n, cells, links, pos),
         NEW links2, NEW cells2, NEW pos2,
         PutInto(h, n, e, b, links, cells, pos, links2, cells2, pos2)
  PROVE  /\ pos2 \in Positions /\ links2 \in Chain
         /\ Table(h, S \cup {e}, n, cells2, links2, pos2)
         /\ Elsewhere(e, links, pos, links2, pos2)
<1> DEFINE first == cells[b].hh_head
           M(c) == Members(h, S, n, c)
<1> /\ n \in Nat \ {0} /\ b \in 0..n - 1 /\ b = h[e] % n
    /\ InFront(e, links, cells[b], pos, links2, cells2[b], pos2)
    /\ \A c \in 0..n - 1 : c # b => cells2[c] = cells[c]
  BY DEF PutInto
<1>1. /\ \A c \in 0..n - 1 : Chained(links, M(c), cells[c], pos)
      /\ \A c : M(c) \in SUBSET Elements /\ e \notin M(c)
  BY DEF Table, Members
<1>2. pos2 \in Positions /\ Chained(links2, M(b) \cup {e}, cells2[b], pos2)
  <2> DEFINE MM == M(b)
             cell == cells[b]
             cell2 == cells2[b]
  <2>1. /\ MM \in SUBSET Elements /\ e \in Elements \ MM /\ cell \in Cell
        /\ Chained(links, MM, cell, pos) /\ InFront(e, links, cell, pos, links2, cell2, pos2)
    BY <1>1
  <2> HIDE DEF M, MM, cell, cell2
  <2>2. pos2 \in Positions /\ Chained(links2, MM \cup {e}, cell2, pos2)
    BY <2>1, ChainedPushed
  <2> QED
    BY <2>2 DEF MM, cell2
<1>3. first \in OptionalElement /\ first # e /\ (first = Null \/ first \in M(b))
  <2>1. cells[b].count = 0 => first = Null
    BY <1>1 DEF Chained
  <2>2. cells[b].count # 0 => first \in M(b)
    BY <1>1 DEF Chained
  <2>3. e # Null /\ e \notin M(b)
    BY <1>1, ElementsArePositive
  <2>4. first \in OptionalElement
    BY DEF Cell
  <2> QED
    BY <2>1, <2>2, <2>3, <2>4
<1>4. /\ links2 \in Chain
      /\ \A x \in Elements \ {e} : /\ links2[x].next = links[x].next
                                   /\ x # first => links2[x] = links[x]
  <2>1. links2 = Push(links, e, first)
    BY DEF InFront
  <2> QED
    BY <1>3, <2>1, PushedLinks
<1>5. \A x \in Elements \ {e} : pos2[x] = pos[x]
  BY DEF Positions, Placed, InFront
<1>6. /\ Members(h, S \cup {e}, n, b) = M(b) \cup {e}
      /\ \A c \in 0..n - 1 : c # b => Members(h, S \cup {e}, n, c) = M(c)
  BY DEF Members
<1>7. ASSUME NEW c \in 0..n - 1, c # b PROVE Chained(links2, M(c), cells2[c], pos2)
  <2>1. \A x \in M(c) : x \in Elements \ {e} /\ x # first
    <3>1. \A x \in M(c) : x \in Elements \ {e} /\ x \notin M(b)
      BY <1>1, <1>7 DEF Members
    <3> QED
      BY <1>3, <3>1, ElementsArePositive
  <2>2. ASSUME NEW x \in M(c) PROVE links2[x] = links[x] /\ pos2[x] = pos[x]
    BY <1>4, <1>5, <2>1
  <2>3. Chained(links, M(c), cells[c], pos) /\ cells2[c] = cells[c]
    BY <1>1, <1>7
  <2> HIDE DEF M
  <2> QED
    BY <2>2, <2>3, ChainedFrame
<1>8. Table(h, S \cup {e}, n, cells2, links2, pos2)
  <2> HIDE DEF M
  <2> QED
    BY <1>2, <1>6, <1>7 DEF Table
<1>9. \A x \in Elements \ {e} : links2[x].next = links[x].next
  BY <1>4
<1> QED
  BY <1>2, <1>4, <1>5, <1>8, <1>9 DEF Elsewhere

(* HASH_DEL_IN_BKT on one bucket of a table leaves a table.                *)
LEMMA TableLess ==
  ASSUME NEW h, NEW n, NEW S \in SUBSET Elements, NEW e \in S,
         NEW b, NEW cells, cells[b] \in Cell, NEW links \in Chain, NEW pos \in Positions,
         Table(h, S, n, cells, links, pos),
         NEW links2, NEW cells2, NEW pos2,
         TakenFrom(h, n, S, e, b, links, cells, pos, links2, cells2, pos2)
  PROVE  /\ pos2 \in Positions /\ links2 \in Chain
         /\ cells[b].count - 1 \in Nat
         /\ Table(h, S \ {e}, n, cells2, links2, pos2)
<1> DEFINE M(c) == Members(h, S, n, c)
           before == links[e].prev
           after == links[e].next
<1> /\ n \in Nat \ {0} /\ b \in 0..n - 1 /\ b = h[e] % n
    /\ links2 = Bypass(links, e)
    /\ pos2 = MovedUp(pos, M(b), e)
    /\ cells2[b].hh_head = (IF cells[b].hh_head = e THEN after ELSE cells[b].hh_head)
    /\ cells2[b].count = cells[b].count - 1
    /\ \A c \in 0..n - 1 : c # b => cells2[c] = cells[c]
  BY DEF TakenFrom
<1>1. /\ \A c \in 0..n - 1 : Chained(links, M(c), cells[c], pos)
      /\ \A c : M(c) \in SUBSET Elements /\ Null \notin M(c)
      /\ e \in M(b) /\ cells[b].count \in Nat
  BY ElementsArePositive DEF Table, Members, Cell
<1>2. /\ before # Null => before \in M(b) /\ pos[before] = pos[e] + 1
      /\ after # Null => after \in M(b) /\ pos[after] = pos[e] - 1
  <2> HIDE DEF M
  <2> QED
    BY <1>1, Neighbours
<1>3. pos \in [Elements -> Nat \ {0}] /\ pos[e] \in Nat \ {0}
  BY DEF Positions
<1>4. before # after \/ before = Null
  BY <1>2, <1>3
<1>5. /\ links2 \in Chain
      /\ \A x \in Elements :
           /\ links2[x].next = (IF x = before THEN after ELSE links[x].next)
           /\ links2[x].prev = (IF x = after THEN before ELSE links[x].prev)
           /\ x # before /\ x # after => links2[x] = links[x]
  BY <1>4, BypassedLinks
<1>6. pos2 \in Positions
  <2>1. \A x \in Elements : pos[x] > pos[e] => pos[x] - 1 \in Nat \ {0}
    BY <1>3
  <2> QED
    BY <1>3, <2>1 DEF Positions, MovedUp
<1>7. /\ \A x \in M(b) : pos2[x] = (IF pos[x] > pos[e] THEN pos[x] - 1 ELSE pos[x])
      /\ \A c \in 0..n - 1 : c # b => \A x \in M(c) : pos2[x] = pos[x]
  BY DEF Members, MovedUp
<1>8. cells[b].count - 1 \in Nat /\ Chained(links2, M(b) \ {e}, cells2[b], pos2)
  <2>1. \A x \in M(b) :
          /\ links2[x].next = (IF x = before THEN after ELSE links[x].next)
          /\ links2[x].prev = (IF x = after THEN before ELSE links[x].prev)
    BY <1>1, <1>5
  <2> DEFINE MM == M(b)
             cell == cells[b]
             cell2 == cells2[b]
  <2>2. Chained(links, MM, cell, pos) /\ e \in MM /\ Null \notin MM /\ cell.count \in Nat
    BY <1>1
  <2>3. cell2.hh_head = (IF cell.hh_head = e THEN links[e].next ELSE cell.hh_head)
        /\ cell2.count = cell.count - 1
    OBVIOUS
  <2> HIDE DEF M, MM, cell, cell2
  <2>4. Without(e, MM, links, cell, pos, links2, cell2, pos2)
    BY <1>7, <2>1, <2>3 DEF Without, MM
  <2>5. cell2.count \in Nat /\ Chained(links2, MM \ {e}, cell2, pos2)
    BY <2>2, <2>4, ChainedLess
  <2> QED
    BY <2>5 DEF MM, cell2
<1>9. /\ Members(h, S \ {e}, n, b) = M(b) \ {e}
      /\ \A c \in 0..n - 1 : c # b => Members(h, S \ {e}, n, c) = M(c)
  BY DEF Members
<1>10. ASSUME NEW c \in 0..n - 1, c # b PROVE Chained(links2, M(c), cells2[c], pos2)
  <2>1. \A x \in M(c) : x \in Elements /\ x # before /\ x # after
    <3>1. \A x \in M(c) : x \in Elements /\ x \notin M(b) /\ x # Null
      BY <1>1, <1>10 DEF Members
    <3> QED
      BY <1>2, <3>1
  <2>2. \A x \in M(c) : links2[x] = links[x] /\ pos2[x] = pos[x]
    BY <1>5, <1>7, <1>10, <2>1
  <2>3. Chained(links, M(c), cells[c], pos) /\ cells2[c] = cells[c]
    BY <1>1, <1>10
  <2> HIDE DEF M
  <2> QED
    BY <2>2, <2>3, ChainedFrame
<1>11. Table(h, S \ {e}, n, cells2, links2, pos2)
  <2> HIDE DEF M
  <2> QED
    BY <1>8, <1>9, <1>10 DEF Table
<1> QED
  BY <1>5, <1>6, <1>8, <1>11

-----------------------------------------------------------------------------
(* What the steps have in common.                                          *)
LEMMA BucketInRange ==
  ASSUME Types, NEW e \in Elements, NEW n \in Nat \ {0}
  PROVE  Bucket(e, n) \in 0..n - 1
<1>1. hashv[e] \in Nat
  BY DEF Types
<1> QED
  BY <1>1 DEF Bucket

(* Elements as intervals of numbers.                                       *)
LEMMA Ranges ==
  /\ Elements = 1..NumElements /\ OptionalElement = 0..NumElements /\ NumElements \in Nat
  /\ Null = 0
<1>1. OptionalElement = 0..NumElements
  BY DEF OptionalElement, Elements, Null
<1> QED
  BY <1>1 DEF Elements, Null

(* The types of the fields of the table.                                   *)
LEMMA TblFields ==
  ASSUME Types
  PROVE  /\ tbl \in Tbl
         /\ tbl.tail \in OptionalElement /\ tbl.num_items \in Nat /\ tbl.num_buckets \in Nat \ {0}
         /\ tbl.noexpand \in BOOLEAN
         /\ tbl.ideal_chain_maxlen \in Nat /\ tbl.nonideal_items \in Nat /\ tbl.ineff_expands \in Nat
<1>1. tbl \in Tbl
  BY DEF Types
<1> QED
  BY <1>1 DEF Tbl

(* HASH_ADD_PTR up to the bucket keeps the types.                          *)
LEMMA AddKeepsTypes ==
  ASSUME Types, Control, Add
  PROVE  Types'
<1>1. /\ elt \in 0..NumElements /\ elt < NumElements /\ elt' = elt + 1 /\ tbl.tail = elt
      /\ NumElements \in Nat
  BY Ranges DEF Types, Control, Add, Adding
<1>2. elt' \in Elements /\ elt' \in OptionalElement /\ head' \in OptionalElement /\ elt' # tbl.tail
  BY <1>1, Ranges DEF Add, Types
<1>3. list' \in [Elements -> Links]
  <2>1. \A e \in Elements : [list[e] EXCEPT !.next = elt'] \in Links
    BY <1>2 DEF Types, Links
  <2>2. [next |-> Null, prev |-> tbl.tail] \in Links
    BY TblFields DEF Links, OptionalElement
  <2>3. \A e \in Elements : list[e] \in Links
    BY DEF Types
  <2> QED
    BY <1>2, <2>1, <2>2, <2>3 DEF Add
<1>4. tbl' \in Tbl /\ tbl'.num_buckets = tbl.num_buckets
  BY <1>2 DEF Add, Types, Tbl
<1> QED
  BY <1>2, <1>3, <1>4 DEF Add, Types, Adding

(* The element that main is about, in the table's present size.            *)
LEMMA EltBucket ==
  ASSUME Types, elt \in Elements, pc # "set_buckets"
  PROVE  /\ Bucket(elt, tbl.num_buckets) \in 0..tbl.num_buckets - 1
         /\ Bucket(elt, tbl.num_buckets) \in DOMAIN buckets.cell
         /\ \A b \in 0..tbl.num_buckets - 1 : buckets.cell[b] \in Cell
BY TblFields, BucketInRange DEF Types

(* What LinkInBucket does, store by store.                                 *)
LEMMA LinkEffect ==
  ASSUME Types, Control, LinkInBucket
  PROVE  LET n == tbl.num_buckets
             b == Bucket(elt, n)
         IN /\ elt \in Elements /\ b \in 0..n - 1
            /\ buckets' = [gen |-> buckets.gen, cell |-> buckets'.cell] /\ buckets'.gen = buckets.gen
            /\ DOMAIN buckets'.cell = 0..n - 1
            /\ \A c \in 0..n - 1 : buckets'.cell[c] \in Cell /\ (c # b => buckets'.cell[c] = buckets.cell[c])
            /\ buckets'.cell[b].hh_head = elt
            /\ buckets'.cell[b].count = buckets.cell[b].count + 1
            /\ buckets'.cell[b].expand_mult = buckets.cell[b].expand_mult
            /\ tbl' = [tbl EXCEPT !.num_items = tbl.num_items + 1] /\ tbl' \in Tbl
            /\ pc' \in {"idle", "expand"}
<1> DEFINE n == tbl.num_buckets
           b == Bucket(elt, n)
<1>1. elt \in Elements /\ pc = "link"
  <2>1. elt \in OptionalElement /\ elt # Null /\ pc = "link"
    BY DEF Types, Control, LinkInBucket, Adding
  <2> QED
    BY <2>1 DEF OptionalElement
<1>2. b \in 0..n - 1 /\ DOMAIN buckets.cell = 0..n - 1 /\ \A c \in 0..n - 1 : buckets.cell[c] \in Cell
  BY <1>1, EltBucket DEF Types
<1>3. buckets' = [gen |-> buckets.gen,
                  cell |-> [buckets.cell EXCEPT ![b] =
                              [buckets.cell[b] EXCEPT !.count = buckets.cell[b].count + 1, !.hh_head = elt]]]
  BY <1>2 DEF Types, LinkInBucket
<1>4. /\ buckets'.gen = buckets.gen /\ DOMAIN buckets'.cell = 0..n - 1
      /\ buckets'.cell[b] = [buckets.cell[b] EXCEPT !.count = buckets.cell[b].count + 1, !.hh_head = elt]
      /\ \A c \in 0..n - 1 : c # b => buckets'.cell[c] = buckets.cell[c]
  BY <1>2, <1>3
<1>5. /\ buckets'.cell[b] \in Cell /\ buckets'.cell[b].hh_head = elt
      /\ buckets'.cell[b].count = buckets.cell[b].count + 1
      /\ buckets'.cell[b].expand_mult = buckets.cell[b].expand_mult
  <2>1. buckets.cell[b] \in Cell /\ elt \in OptionalElement
    BY <1>1, <1>2 DEF OptionalElement
  <2>2. buckets.cell[b].count + 1 \in Nat
    BY <2>1 DEF Cell
  <2> DEFINE cell == buckets.cell[b]
             cell2 == buckets'.cell[b]
             k == buckets.cell[b].count + 1
  <2>3. cell \in Cell /\ cell2 = [cell EXCEPT !.count = k, !.hh_head = elt] /\ k \in Nat
    BY <1>4, <2>1, <2>2
  <2> HIDE DEF cell, cell2, k
  <2>4. /\ cell2 \in Cell /\ cell2.hh_head = elt /\ cell2.count = k
        /\ cell2.expand_mult = cell.expand_mult
    BY <2>1, <2>3 DEF Cell
  <2> QED
    BY <2>4 DEF cell, cell2, k
<1>6. tbl' = [tbl EXCEPT !.num_items = tbl.num_items + 1] /\ pc' \in {"idle", "expand"}
  BY DEF LinkInBucket
<1>7. tbl' \in Tbl
  <2>1. tbl \in Tbl /\ tbl.num_items + 1 \in Nat
    BY TblFields DEF Types
  <2> QED
    BY <1>6, <2>1 DEF Tbl
<1> QED
  BY <1>1, <1>2, <1>3, <1>4, <1>5, <1>6, <1>7 DEF n, b

(* LinkInBucket keeps every chain, and the positions of all other          *)
(* elements.                                                               *)
LEMMA LinkKeepsChains ==
  ASSUME Types, Control, NEW pos \in Positions, Chains(pos), LinkInBucket
  PROVE  /\ chain' \in Chain
         /\ \E pos2 \in Positions : /\ Chains(pos2)'
                                    /\ \A x \in Elements \ {elt} : pos2[x] = pos[x]
<1> DEFINE n == tbl.num_buckets
           b == Bucket(elt, n)
<1>1. /\ elt \in Elements /\ b \in 0..n - 1 /\ b = hashv[elt] % n /\ buckets.cell[b] \in Cell
      /\ n \in Nat \ {0} /\ tbl'.num_buckets = n /\ hashv' = hashv /\ pc' # "unlink"
      /\ pc = "link" /\ tbl.live /\ chain \in Chain
  <2>1. elt \in Elements /\ b \in 0..n - 1 /\ tbl' = [tbl EXCEPT !.num_items = tbl.num_items + 1]
        /\ pc' # "unlink"
    BY LinkEffect
  <2>2. pc = "link" /\ pc # "set_buckets" /\ hashv' = hashv
    BY DEF LinkInBucket
  <2>3. tbl'.num_buckets = n
    BY <2>1, TblFields DEF Tbl
  <2> QED
    BY <2>1, <2>2, <2>3, EltBucket, TblFields DEF Types, Control, Adding, Chain, Bucket
<1>2. /\ buckets'.cell[b].hh_head = elt /\ buckets'.cell[b].count = buckets.cell[b].count + 1
      /\ \A c \in 0..n - 1 : c # b => buckets'.cell[c] = buckets.cell[c]
  BY LinkEffect
<1>3. known \in SUBSET Elements /\ elt \in Elements \ known
  <2>1. known = 1..elt - 1
    BY <1>1 DEF Control, Adding
  <2> QED
    BY <1>1, <2>1, Ranges
<1>4. known' = known \cup {elt} /\ InTable' = known' /\ InTable = known
  BY <1>1 DEF LinkInBucket, InTable
<1>5. Table(hashv, known, n, buckets.cell, chain, pos)
  BY <1>1, <1>4 DEF Chains
<1>6. PICK pos2 : pos2 = Placed(pos, elt, buckets'.cell[b].count)
  OBVIOUS
<1>7. InFront(elt, chain, buckets.cell[b], pos, chain', buckets'.cell[b], pos2)
  BY <1>2, <1>6 DEF InFront, LinkInBucket, Pushed, Push
<1> HIDE DEF n, b
<1>8. /\ pos2 \in Positions /\ chain' \in Chain
      /\ Table(hashv, known \cup {elt}, n, buckets'.cell, chain', pos2)
      /\ \A x \in Elements \ {elt} : pos2[x] = pos[x]
  <2> DEFINE e == elt
             S == known
             h == hashv
             links == chain
             cells == buckets.cell
             links2 == chain'
             cells2 == buckets'.cell
  <2>1. /\ n \in Nat \ {0} /\ S \in SUBSET Elements /\ e \in Elements \ S /\ b \in 0..n - 1
        /\ cells[b] \in Cell /\ links \in Chain /\ pos \in Positions
        /\ Table(h, S, n, cells, links, pos)
        /\ PutInto(h, n, e, b, links, cells, pos, links2, cells2, pos2)
    BY <1>1, <1>2, <1>3, <1>5, <1>7 DEF PutInto
  <2> HIDE DEF e, S, h, links, cells, links2, cells2
  <2>2. /\ pos2 \in Positions /\ links2 \in Chain
        /\ Table(h, S \cup {e}, n, cells2, links2, pos2)
        /\ Elsewhere(e, links, pos, links2, pos2)
    BY <2>1, TablePushed
  <2> QED
    BY <2>2 DEF e, S, h, links, cells, links2, cells2, Elsewhere
<1>9. Chains(pos2)'
  BY <1>1, <1>4, <1>8 DEF Chains, n
<1> QED
  BY <1>8, <1>9

(* What Relink does to the new buckets and to the table.                   *)
LEMMA RelinkEffect ==
  ASSUME Types, Relink
  PROVE  LET n == tbl.num_buckets
             e == cursor.thh
             b == Bucket(e, 2 * n)
         IN /\ e \in Elements /\ b \in 0..2 * n - 1 /\ fresh[b] \in Cell
            /\ fresh' \in [0..2 * n - 1 -> Cell]
            /\ fresh'[b].hh_head = e /\ fresh'[b].count = fresh[b].count + 1
            /\ \A c \in 0..2 * n - 1 : c # b => fresh'[c] = fresh[c]
            /\ tbl' \in Tbl /\ tbl' = [tbl EXCEPT !.nonideal_items = tbl'.nonideal_items]
            /\ cursor' \in [bkt_i : Nat, thh : OptionalElement]
            /\ cursor'.bkt_i = cursor.bkt_i /\ cursor'.thh = chain[e].next
<1> DEFINE n == tbl.num_buckets
           e == cursor.thh
           b == Bucket(e, 2 * n)
<1>1. e \in Elements /\ n \in Nat \ {0}
  <2>1. e \in OptionalElement /\ e # Null
    BY DEF Types, Relink
  <2> QED
    BY <2>1, TblFields DEF OptionalElement
<1>2. b \in 0..2 * n - 1 /\ fresh \in [0..2 * n - 1 -> Cell]
  <2>1. DOMAIN fresh = 0..2 * n - 1 /\ fresh \in [DOMAIN fresh -> Cell]
    BY DEF Types, Relink
  <2>2. 2 * n \in Nat \ {0}
    BY <1>1
  <2> HIDE DEF n, e
  <2> QED
    BY <1>1, <2>1, <2>2, BucketInRange
<1>3. fresh[b] \in Cell /\ fresh[b].count + 1 \in Nat
  BY <1>2 DEF Cell
<1> DEFINE cell == fresh[b]
           k == cell.count + 1
           bucket == [cell EXCEPT !.count = k]
           cell2 == [Multiplied(bucket) EXCEPT !.hh_head = e]
<1>4. fresh' = [fresh EXCEPT ![b] = cell2]
  BY DEF Relink
<1>5. cell2 \in Cell /\ cell2.hh_head = e /\ cell2.count = k
  <2>1. cell \in Cell /\ k \in Nat /\ e \in OptionalElement
    BY <1>1, <1>3 DEF OptionalElement
  <2> HIDE DEF cell, k, e
  <2>2. bucket \in Cell /\ bucket.count = k /\ bucket.expand_mult + 1 \in Nat
    BY <2>1 DEF Cell
  <2> HIDE DEF bucket
  <2>3. [bucket EXCEPT !.expand_mult = @ + 1] \in Cell /\ [bucket EXCEPT !.expand_mult = @ + 1].count = k
    BY <2>2 DEF Cell
  <2>4. Multiplied(bucket) \in Cell /\ Multiplied(bucket).count = k
    BY <2>2, <2>3 DEF Multiplied
  <2> DEFINE multiplied == Multiplied(bucket)
  <2> HIDE DEF multiplied
  <2>5. cell2 = [multiplied EXCEPT !.hh_head = e]
    BY DEF multiplied
  <2> HIDE DEF cell2
  <2>6. multiplied \in Cell /\ multiplied.count = k
    BY <2>4 DEF multiplied
  <2> QED
    BY <2>1, <2>5, <2>6 DEF Cell
<1> HIDE DEF cell2
<1>6. /\ fresh' \in [0..2 * n - 1 -> Cell] /\ fresh'[b] = cell2
      /\ \A c \in 0..2 * n - 1 : c # b => fresh'[c] = fresh[c]
  BY <1>2, <1>4, <1>5
<1>7. tbl' \in Tbl /\ tbl' = [tbl EXCEPT !.nonideal_items = tbl'.nonideal_items]
  <2>1. tbl \in Tbl /\ tbl.nonideal_items \in Nat /\ tbl.nonideal_items + 1 \in Nat
    BY TblFields
  <2>2. PICK m \in Nat : tbl' = [tbl EXCEPT !.nonideal_items = m]
    BY <2>1 DEF Relink
  <2> QED
    BY <2>1, <2>2 DEF Tbl
<1>8. /\ cursor' \in [bkt_i : Nat, thh : OptionalElement]
      /\ cursor'.bkt_i = cursor.bkt_i /\ cursor'.thh = chain[e].next
  <2>1. chain[e].next \in OptionalElement
    BY <1>1, LinksOf DEF Types, Chain
  <2>2. cursor' = [cursor EXCEPT !.thh = chain[e].next] /\ cursor \in [bkt_i : Nat, thh : OptionalElement]
    BY DEF Types, Relink, Rest
  <2> QED
    BY <2>1, <2>2
<1> QED
  BY <1>1, <1>2, <1>3, <1>5, <1>6, <1>7, <1>8

(* The element at the cursor moves from what is left of its old chain to   *)
(* its new one.                                                            *)
LEMMA RelinkKeepsMoving ==
  ASSUME Types, Control, Relink, NEW pos \in Positions, NEW moved \in SUBSET Elements,
         Moving(pos, moved)
  PROVE  /\ chain' \in Chain
         /\ \E pos2 \in Positions, moved2 \in SUBSET Elements : Moving(pos2, moved2)'
<1> DEFINE n == tbl.num_buckets
           e == cursor.thh
           i == cursor.bkt_i
           b == Bucket(e, 2 * n)
           left == known \ moved
<1>1. /\ e \in Elements /\ b \in 0..2 * n - 1 /\ fresh[b] \in Cell /\ fresh'[b].hh_head = e
      /\ fresh'[b].count = fresh[b].count + 1
      /\ \A c \in 0..2 * n - 1 : c # b => fresh'[c] = fresh[c]
      /\ cursor'.bkt_i = i /\ cursor'.thh = chain[e].next
  BY RelinkEffect
<1>2. /\ n \in Nat \ {0} /\ 2 * n \in Nat \ {0} /\ tbl'.num_buckets = n
  <2>1. tbl' = [tbl EXCEPT !.nonideal_items = tbl'.nonideal_items]
    BY RelinkEffect
  <2> QED
    BY <2>1, TblFields DEF Tbl
<1>3. /\ hashv' = hashv /\ known' = known /\ buckets' = buckets /\ chain \in Chain
      /\ chain' = Push(chain, e, fresh[b].hh_head) /\ e # Null
  BY <1>1, ElementsArePositive DEF Relink, Types, Chain, Pushed, Push
<1>4. /\ i \in 0..n - 1 /\ moved \subseteq known
      /\ Table(hashv, moved, 2 * n, fresh, chain, pos)
      /\ \A x \in left : hashv[x] % n >= i
      /\ Follows(chain, Members(hashv, left, n, i), e, pos)
      /\ \A c \in i + 1..n - 1 : Follows(chain, Members(hashv, left, n, c), buckets.cell[c].hh_head, pos)
  BY DEF Moving, Bucket
<1>5. known \in SUBSET Elements
  <2>1. pc = "relink"
    BY DEF Relink
  <2>2. known = 1..elt /\ elt \in 0..NumElements
    BY <2>1, Ranges DEF Control, Adding, Types
  <2> QED
    BY <2>2, Ranges
<1>6. e \in Members(hashv, left, n, i)
  BY <1>3, <1>4 DEF Follows
<1>7. e \in left /\ hashv[e] % n = i
  BY <1>6 DEF Members
<1>8. PICK pos2 : pos2 = Placed(pos, e, fresh'[b].count)
  OBVIOUS
<1>9. PICK moved2 : moved2 = moved \cup {e}
  OBVIOUS
<1>10. PutInto(hashv, 2 * n, e, b, chain, fresh, pos, chain', fresh', pos2)
  BY <1>1, <1>2, <1>3, <1>8 DEF PutInto, InFront, Bucket
<1> HIDE DEF n, e, i, b, left
<1>11. /\ pos2 \in Positions /\ chain' \in Chain
       /\ Table(hashv, moved2, 2 * n, fresh', chain', pos2)
       /\ Elsewhere(e, chain, pos, chain', pos2)
  <2> DEFINE h == hashv
             m == 2 * n
             links == chain
             cells == fresh
             links2 == chain'
             cells2 == fresh'
  <2>1. /\ moved \in SUBSET Elements /\ e \in Elements \ moved
        /\ cells[b] \in Cell /\ links \in Chain /\ pos \in Positions
        /\ Table(h, moved, m, cells, links, pos)
        /\ PutInto(h, m, e, b, links, cells, pos, links2, cells2, pos2)
    BY <1>1, <1>3, <1>4, <1>7, <1>10 DEF left
  <2> HIDE DEF h, m, links, cells, links2, cells2
  <2>2. /\ pos2 \in Positions /\ links2 \in Chain
        /\ Table(h, moved \cup {e}, m, cells2, links2, pos2)
        /\ Elsewhere(e, links, pos, links2, pos2)
    BY <2>1, TablePushed
  <2> QED
    BY <1>9, <2>2 DEF h, m, links, cells, links2, cells2
<1> DEFINE rest == left \ {e}
<1>12. /\ known \ moved2 = rest /\ moved2 \subseteq known
       /\ \A x \in rest : x \in Elements \ {e} /\ hashv[x] % n >= i
       /\ Members(hashv, rest, n, i) = Members(hashv, left, n, i) \ {e}
       /\ \A c : c # i => Members(hashv, rest, n, c) = Members(hashv, left, n, c)
  BY <1>4, <1>5, <1>7, <1>9 DEF left, Members
<1>13. \A c : \A x \in Members(hashv, rest, n, c) : chain'[x].next = chain[x].next /\ pos2[x] = pos[x]
  <2>1. \A c : \A x \in Members(hashv, rest, n, c) : x \in Elements \ {e}
    BY <1>12 DEF Members
  <2> QED
    BY <1>11, <2>1 DEF Elsewhere
<1>14. Follows(chain', Members(hashv, rest, n, i), chain[e].next, pos2)
  <2> DEFINE S == Members(hashv, left, n, i)
             R == Members(hashv, rest, n, i)
             first == chain[e].next
  <2>1. S \in SUBSET Elements /\ R = S \ {e}
    BY <1>5, <1>12 DEF Members, left
  <2>2. Follows(chain, S, e, pos) /\ e \in S
    BY <1>4, <1>6
  <2>3. \A x \in R : chain'[x].next = chain[x].next /\ pos2[x] = pos[x]
    BY <1>13
  <2> HIDE DEF S, R
  <2>4. Follows(chain, R, first, pos)
    BY <2>1, <2>2, FollowsRest
  <2> HIDE DEF first
  <2>5. Follows(chain', R, first, pos2)
    BY <2>3, <2>4, FollowsFrame
  <2> QED
    BY <2>5 DEF R, first
<1>15. ASSUME NEW c \in i + 1..n - 1
       PROVE  Follows(chain', Members(hashv, rest, n, c), buckets.cell[c].hh_head, pos2)
  <2> DEFINE R == Members(hashv, rest, n, c)
             first == buckets.cell[c].hh_head
  <2>1. Follows(chain, R, first, pos)
    <3>1. c # i
      BY <1>2, <1>4
    <3>2. R = Members(hashv, left, n, c)
      BY <1>12, <3>1
    <3>3. Follows(chain, Members(hashv, left, n, c), first, pos)
      BY <1>4
    <3> QED
      BY <3>2, <3>3
  <2>2. \A x \in R : chain'[x].next = chain[x].next /\ pos2[x] = pos[x]
    BY <1>13
  <2> HIDE DEF R, first
  <2>3. Follows(chain', R, first, pos2)
    BY <2>1, <2>2, FollowsFrame
  <2> QED
    BY <2>3 DEF R, first
<1>16. Moving(pos2, moved2)'
  <2>1. /\ tbl'.num_buckets = n /\ known' = known /\ hashv' = hashv /\ buckets' = buckets
        /\ cursor'.bkt_i = i /\ cursor'.thh = chain[e].next
    BY <1>1, <1>2, <1>3
  <2>2. /\ cursor'.bkt_i \in 0..tbl'.num_buckets - 1 /\ moved2 \subseteq known'
        /\ Table(hashv', moved2, 2 * tbl'.num_buckets, fresh', chain', pos2)
    BY <1>4, <1>11, <1>12, <2>1
  <2>3. \A x \in known' \ moved2 : hashv'[x] % tbl'.num_buckets >= cursor'.bkt_i
    BY <1>12, <2>1
  <2>4. Follows(chain', Members(hashv', known' \ moved2, tbl'.num_buckets, cursor'.bkt_i), cursor'.thh, pos2)
    BY <1>12, <1>14, <2>1
  <2>5. \A c \in cursor'.bkt_i + 1..tbl'.num_buckets - 1 :
          Follows(chain', Members(hashv', known' \ moved2, tbl'.num_buckets, c), buckets'.cell[c].hh_head, pos2)
    BY <1>12, <1>15, <2>1
  <2> QED
    BY <2>2, <2>3, <2>4, <2>5 DEF Moving, Bucket
<1>17. moved2 \in SUBSET Elements
  BY <1>1, <1>9
<1> QED
  BY <1>11, <1>16, <1>17

(* Unlink takes the element out of its chain: the counter of the bucket    *)
(* was not 0.                                                              *)
LEMMA UnlinkKeepsChains ==
  ASSUME Types, Control, NEW pos \in Positions, Chains(pos), Unlink
  PROVE  /\ chain' \in Chain
         /\ buckets' = [gen |-> buckets.gen, cell |-> buckets'.cell]
         /\ buckets'.cell \in [0..tbl.num_buckets - 1 -> Cell]
         /\ \E pos2 \in Positions : Chains(pos2)'
<1> DEFINE n == tbl.num_buckets
           b == Bucket(elt, n)
           cell == buckets.cell[b]
           k == cell.count - 1
           first == IF cell.hh_head = elt THEN chain[elt].next ELSE cell.hh_head
           cell2 == [cell EXCEPT !.count = k, !.hh_head = first]
<1>1. /\ pc = "unlink" /\ head # Null /\ elt # Null /\ tbl.live /\ elt = head - 1
      /\ known = head..tbl.tail /\ hashv' = hashv /\ known' = known /\ pc' = "release"
      /\ head \in OptionalElement /\ elt \in OptionalElement /\ chain \in Chain
      /\ tbl' = [tbl EXCEPT !.num_items = tbl.num_items - 1]
  BY DEF Types, Control, Unlink, Chain
<1>2. /\ elt \in Elements /\ elt \notin known /\ known \in SUBSET Elements
  BY <1>1, Ranges, TblFields
<1>3. b \in 0..n - 1 /\ b = hashv[elt] % n /\ n \in Nat \ {0} /\ buckets.cell \in [0..n - 1 -> Cell]
  BY <1>1, <1>2, EltBucket, TblFields DEF Types, Bucket
<1>4. InTable = known \cup {elt} /\ InTable' = known
  BY <1>1 DEF InTable
<1>5. Table(hashv, InTable, n, buckets.cell, chain, pos)
  BY <1>1 DEF Chains
<1>6. tbl'.num_buckets = n
  BY <1>1, TblFields DEF Tbl
<1>7. /\ buckets' = [gen |-> buckets.gen, cell |-> [buckets.cell EXCEPT ![b] = cell2]]
      /\ chain' = Bypass(chain, elt)
  <2>1. buckets = [gen |-> buckets.gen, cell |-> buckets.cell]
    BY DEF Types
  <2>2. cell \in Cell
    BY <1>3
  <2>3. buckets' = [buckets EXCEPT !.cell = [buckets.cell EXCEPT ![b] = cell2]]
    BY <1>3, <2>1, <2>2 DEF Unlink, Cell
  <2> QED
    BY <2>1, <2>3 DEF Unlink, Bypassed, Bypass
<1>8. cell \in Cell /\ first \in OptionalElement
  <2>1. chain[elt].next \in OptionalElement
    BY <1>1, <1>2, LinksOf
  <2> QED
    BY <1>3, <2>1 DEF Cell
<1>9. cell2.count = k /\ cell2.hh_head = first /\ (k \in Nat => cell2 \in Cell)
  <2> HIDE DEF cell, k, first
  <2> QED
    BY <1>8 DEF Cell
<1>10. /\ buckets'.cell[b] = cell2 /\ buckets'.cell = [buckets.cell EXCEPT ![b] = cell2]
       /\ \A c \in 0..n - 1 : c # b => buckets'.cell[c] = buckets.cell[c]
  <2> HIDE DEF cell2
  <2> QED
    BY <1>3, <1>7
<1>11. PICK pos2 : pos2 = MovedUp(pos, Members(hashv, InTable, n, b), elt)
  OBVIOUS
<1>12. TakenFrom(hashv, n, InTable, elt, b, chain, buckets.cell, pos, chain', buckets'.cell, pos2)
  <2> HIDE DEF cell2
  <2> QED
    BY <1>3, <1>7, <1>9, <1>10, <1>11 DEF TakenFrom
<1> HIDE DEF n, b, cell2
<1>13. /\ pos2 \in Positions /\ chain' \in Chain /\ k \in Nat
       /\ Table(hashv, known, n, buckets'.cell, chain', pos2)
  <2> DEFINE e == elt
             S == InTable
             h == hashv
             links == chain
             cells == buckets.cell
             links2 == chain'
             cells2 == buckets'.cell
  <2>1. /\ S \in SUBSET Elements /\ e \in S /\ S \ {e} = known
        /\ cells[b] \in Cell /\ links \in Chain /\ pos \in Positions
        /\ Table(h, S, n, cells, links, pos)
        /\ TakenFrom(h, n, S, e, b, links, cells, pos, links2, cells2, pos2)
    BY <1>1, <1>2, <1>4, <1>5, <1>8, <1>12
  <2> HIDE DEF e, S, h, links, cells, links2, cells2
  <2>2. /\ pos2 \in Positions /\ links2 \in Chain /\ cells[b].count - 1 \in Nat
        /\ Table(h, S \ {e}, n, cells2, links2, pos2)
    BY <2>1, TableLess
  <2> QED
    BY <2>1, <2>2 DEF e, S, h, links, cells, links2, cells2
<1>14. buckets'.cell \in [0..n - 1 -> Cell]
  BY <1>3, <1>9, <1>10, <1>13
<1>15. Chains(pos2)'
  BY <1>1, <1>4, <1>6, <1>13 DEF Chains
<1> QED
  BY <1>7, <1>13, <1>14, <1>15 DEF n

(* An array that calloc has just returned has an empty chain everywhere.   *)
LEMMA EmptyTable ==
  ASSUME NEW n \in Nat
  PROVE  /\ DOMAIN Array(n) = 0..n - 1 /\ Array(n) \in [0..n - 1 -> Cell]
         /\ \A h, links, pos : Table(h, {}, n, Array(n), links, pos)
<1>1. EmptyBucket \in Cell /\ EmptyBucket.count = 0 /\ EmptyBucket.hh_head = Null
  BY DEF EmptyBucket, Cell, OptionalElement
<1>2. DOMAIN Array(n) = 0..n - 1 /\ \A b \in 0..n - 1 : Array(n)[b] = EmptyBucket
  BY DEF Array
<1>3. Array(n) \in [0..n - 1 -> Cell]
  BY <1>1 DEF Array
<1>4. ASSUME NEW h, NEW links, NEW pos PROVE Table(h, {}, n, Array(n), links, pos)
  <2>1. ASSUME NEW b \in 0..n - 1 PROVE Chained(links, Members(h, {}, n, b), Array(n)[b], pos)
    <3>1. Members(h, {}, n, b) = {} /\ Array(n)[b] = EmptyBucket
      BY <1>2 DEF Members
    <3>2. Numbered({}, 0, pos)
      BY DEF Numbered
    <3>3. Chained(links, {}, EmptyBucket, pos)
      BY <1>1, <3>2 DEF Chained
    <3> QED
      BY <3>1, <3>3
  <2> QED
    BY <2>1 DEF Table
<1> QED
  BY <1>2, <1>3, <1>4

(* An expansion begins with every chain ahead of the cursor.               *)
LEMMA ExpandBeginsMoving ==
  ASSUME Types, Control, NEW pos \in Positions, Chains(pos), ExpandBegin
  PROVE  Moving(pos, {})'
<1> DEFINE n == tbl.num_buckets
           cells == buckets.cell
           M(b) == Members(hashv, known, n, b)
<1>1. /\ pc = "expand" /\ n \in Nat \ {0} /\ InTable = known /\ tbl.live
      /\ cells \in [0..n - 1 -> Cell]
      /\ hashv' = hashv /\ known' = known /\ chain' = chain /\ buckets' = buckets
      /\ fresh' = Array(2 * n) /\ cursor' = [bkt_i |-> 0, thh |-> cells[0].hh_head]
  BY TblFields DEF Types, Control, Adding, ExpandBegin, InTable
<1>2. tbl'.num_buckets = n
  BY TblFields DEF ExpandBegin, Tbl
<1>3. known \in SUBSET Elements
  <2>1. known = 1..elt /\ elt \in 0..NumElements
    BY <1>1, Ranges DEF Control, Adding, Types
  <2> QED
    BY <2>1, Ranges
<1>4. ASSUME NEW b \in 0..n - 1
      PROVE  Follows(chain, M(b), cells[b].hh_head, pos)
  <2> DEFINE S == M(b)
             cell == cells[b]
  <2>1. Chained(chain, S, cell, pos)
    BY <1>1 DEF Chains, Table
  <2>2. Null \notin S /\ cell.count \in Nat
    BY <1>1, <1>3, ElementsArePositive DEF Members, Cell
  <2> HIDE DEF S, cell
  <2>3. Follows(chain, S, cell.hh_head, pos)
    BY <2>1, <2>2, ChainedFollows
  <2> QED
    BY <2>3 DEF S, cell
<1>5. Table(hashv, {}, 2 * n, Array(2 * n), chain, pos)
  <2>1. 2 * n \in Nat
    BY <1>1
  <2> QED
    BY <2>1, EmptyTable
<1>6. \A x \in known : hashv[x] % n >= 0
  <2>1. \A x \in known : Bucket(x, n) \in 0..n - 1
    BY <1>1, <1>3, BucketInRange
  <2> QED
    BY <1>1, <2>1 DEF Bucket
<1> HIDE DEF n
<1>7. /\ tbl'.num_buckets = n /\ known' \ {} = known /\ cursor'.bkt_i = 0
      /\ cursor'.thh = cells[0].hh_head /\ 0 \in 0..n - 1
      /\ \A c \in 0 + 1..n - 1 : c \in 0..n - 1
  BY <1>1, <1>2
<1>8. /\ cursor'.bkt_i \in 0..tbl'.num_buckets - 1 /\ {} \subseteq known'
      /\ Table(hashv', {}, 2 * tbl'.num_buckets, fresh', chain', pos)
      /\ \A x \in known' \ {} : hashv'[x] % tbl'.num_buckets >= cursor'.bkt_i
  BY <1>1, <1>5, <1>6, <1>7
<1>9. Follows(chain', Members(hashv', known' \ {}, tbl'.num_buckets, cursor'.bkt_i), cursor'.thh, pos)
  BY <1>1, <1>4, <1>7
<1>10. \A c \in cursor'.bkt_i + 1..tbl'.num_buckets - 1 :
         Follows(chain', Members(hashv', known' \ {}, tbl'.num_buckets, c), buckets'.cell[c].hh_head, pos)
  BY <1>1, <1>4, <1>7
<1> QED
  BY <1>8, <1>9, <1>10 DEF Moving, Bucket

(* The chain at the cursor is finished, perhaps it was the last.           *)
LEMMA NextBucketKeepsMoving ==
  ASSUME Types, Control, NEW pos \in Positions, NEW moved \in SUBSET Elements, Moving(pos, moved),
         NextBucket
  PROVE  /\ pc' = "relink" => Moving(pos, moved)'
         /\ pc' = "free_old" => Moved(pos)'
<1> DEFINE n == tbl.num_buckets
           i == cursor.bkt_i
           left == known \ moved
<1>1. /\ pc = "relink" /\ n \in Nat \ {0} /\ i \in 0..n - 1 /\ cursor.thh = Null
      /\ hashv' = hashv /\ known' = known /\ chain' = chain /\ buckets' = buckets
      /\ fresh' = fresh /\ tbl' = tbl
      /\ moved \subseteq known
      /\ Table(hashv, moved, 2 * n, fresh, chain, pos)
      /\ \A x \in left : hashv[x] % n >= i
      /\ Follows(chain, Members(hashv, left, n, i), Null, pos)
      /\ \A c \in i + 1..n - 1 : Follows(chain, Members(hashv, left, n, c), buckets.cell[c].hh_head, pos)
  BY TblFields DEF NextBucket, Moving, Bucket
<1>2. known \in SUBSET Elements
  <2>1. known = 1..elt /\ elt \in 0..NumElements
    BY <1>1, Ranges DEF Control, Adding, Types
  <2> QED
    BY <2>1, Ranges
<1>3. ASSUME NEW x \in left PROVE hashv[x] % n \in i + 1..n - 1
  <2>1. hashv[x] % n # i
    BY <1>1 DEF Follows, Members
  <2>2. hashv[x] % n \in 0..n - 1
    BY <1>1, <1>2, BucketInRange DEF Bucket
  <2>3. hashv[x] % n >= i
    BY <1>1
  <2> HIDE DEF n, i
  <2> QED
    BY <1>1, <2>1, <2>2, <2>3
<1> HIDE DEF n, i
<1>4. CASE i + 1 < n
  <2>1. cursor' = [bkt_i |-> i + 1, thh |-> buckets.cell[i + 1].hh_head] /\ pc' = "relink"
    BY <1>1, <1>4 DEF NextBucket, i, n
  <2>2. /\ i + 1 \in 0..n - 1 /\ i + 1 \in i + 1..n - 1
        /\ \A c \in (i + 1) + 1..n - 1 : c \in i + 1..n - 1
        /\ \A x \in left : hashv[x] % n >= i + 1
    BY <1>1, <1>3, <1>4
  <2>3. Moving(pos, moved)'
    BY <1>1, <2>1, <2>2 DEF Moving, Bucket, n
  <2> QED
    BY <2>1, <2>3
<1>5. CASE ~(i + 1 < n)
  <2>1. pc' = "free_old"
    BY <1>1, <1>5 DEF NextBucket, i, n
  <2>2. left = {}
    BY <1>1, <1>3, <1>5
  <2>3. moved = known
    BY <1>1, <2>2
  <2>4. Moved(pos)'
    BY <1>1, <2>1, <2>3 DEF Moved, n
  <2> QED
    BY <2>1, <2>4
<1> QED
  BY <1>4, <1>5

(* Disturb only marks the lookups that are under way.                      *)
LEMMA DisturbKeepsTypes ==
  ASSUME Types, Disturb
  PROVE  /\ lookup' \in [Readers -> Lookup]
         /\ \A r \in Readers : /\ lookup'[r].pc = lookup[r].pc /\ lookup'[r].key = lookup[r].key
                               /\ lookup'[r].result = lookup[r].result /\ lookup'[r].due = lookup[r].due
                               /\ lookup'[r].num_buckets = lookup[r].num_buckets
                               /\ lookup'[r].gen = lookup[r].gen
                               /\ lookup'[r].disturbed = (lookup[r].disturbed \/ lookup[r].pc # "idle")
<1>1. lookup \in [Readers -> Lookup]
  BY DEF Types
<1>2. ASSUME NEW r \in Readers
      PROVE  /\ lookup'[r] \in Lookup
             /\ lookup'[r].pc = lookup[r].pc /\ lookup'[r].key = lookup[r].key
             /\ lookup'[r].result = lookup[r].result /\ lookup'[r].due = lookup[r].due
             /\ lookup'[r].num_buckets = lookup[r].num_buckets
             /\ lookup'[r].gen = lookup[r].gen
             /\ lookup'[r].disturbed = (lookup[r].disturbed \/ lookup[r].pc # "idle")
  <2> DEFINE l == lookup[r]
             l2 == lookup'[r]
  <2>1. l \in Lookup
    BY <1>1
  <2>2. l2 = IF l.pc = "idle" THEN l ELSE [l EXCEPT !.disturbed = TRUE]
    BY DEF Disturb
  <2> HIDE DEF l, l2
  <2>3. CASE l.pc = "idle"
    <3>1. l2 = l
      BY <2>2, <2>3
    <3>2. l.disturbed \in BOOLEAN
      BY <2>1 DEF Lookup
    <3>3. l2.disturbed = (l.disturbed \/ l.pc # "idle")
      BY <2>3, <3>1, <3>2
    <3> QED
      BY <2>1, <3>1, <3>3 DEF l, l2
  <2>4. CASE l.pc # "idle"
    <3>1. l2 = [l EXCEPT !.disturbed = TRUE]
      BY <2>2, <2>4
    <3>2. /\ l2 \in Lookup
          /\ l2.pc = l.pc /\ l2.key = l.key /\ l2.result = l.result /\ l2.due = l.due
          /\ l2.num_buckets = l.num_buckets /\ l2.gen = l.gen /\ l2.disturbed = TRUE
      BY <2>1, <3>1 DEF Lookup
    <3>3. l2.disturbed = (l.disturbed \/ l.pc # "idle")
      BY <2>4, <3>2
    <3> QED
      BY <3>2, <3>3 DEF l, l2
  <2> QED
    BY <2>3, <2>4
<1>3. lookup' \in [Readers -> Lookup]
  BY <1>2 DEF Disturb
<1> QED
  BY <1>2, <1>3

(* Types are kept by what main does.                                       *)
LEMMA AddingKeepsTypes ==
  ASSUME IInv, Add \/ LinkInBucket \/ Expand
  PROVE  Types'
<1> USE DEF IInv
<1>1. CASE Add
  BY <1>1, AddKeepsTypes
<1>2. CASE LinkInBucket
  <2>1. PICK pos \in Positions : Chains(pos)
    BY DEF Order, Positions
  <2>2. chain' \in Chain
    BY <1>2, <2>1, LinkKeepsChains
  <2> DEFINE n == tbl.num_buckets
             b == Bucket(elt, n)
  <2>3. /\ elt \in Elements /\ b \in 0..n - 1
        /\ buckets' = [gen |-> buckets.gen, cell |-> buckets'.cell] /\ buckets'.gen = buckets.gen
        /\ DOMAIN buckets'.cell = 0..n - 1
        /\ \A c \in 0..n - 1 : buckets'.cell[c] \in Cell
        /\ tbl' = [tbl EXCEPT !.num_items = tbl.num_items + 1] /\ tbl' \in Tbl /\ pc' \in {"idle", "expand"}
    BY <1>2, LinkEffect
  <2>4. tbl'.num_buckets = n
    BY <2>3, TblFields DEF Tbl
  <2>5. buckets'.cell \in [DOMAIN buckets'.cell -> Cell]
    <3>1. buckets'.cell = [c \in 0..n - 1 |-> buckets'.cell[c]]
      BY <1>2, <2>3 DEF LinkInBucket, Types
    <3> QED
      BY <2>3, <3>1
  <2> HIDE DEF n, b
  <2> QED
    BY <1>2, <2>2, <2>3, <2>4, <2>5 DEF Types, LinkInBucket, Chain, Adding, n
<1>3. CASE ExpandBegin
  <2> DEFINE n == tbl.num_buckets
  <2>1. tbl \in Tbl /\ n \in Nat \ {0} /\ tbl.num_items \in Nat /\ 2 * n \in Nat \ {0}
    BY TblFields
  <2>2. CeilDiv(tbl.num_items, 2 * n) \in Nat
    <3> DEFINE k == tbl.num_items + 2 * n - 1
               d == 2 * n
    <3>1. k \in Nat /\ d \in Nat \ {0}
      BY <2>1
    <3> HIDE DEF k, d
    <3>2. k \div d \in Nat
      BY <3>1
    <3> QED
      BY <3>2 DEF CeilDiv, k, d
  <2>3. tbl' \in Tbl /\ tbl'.num_buckets = n
    BY <1>3, <2>1, <2>2 DEF ExpandBegin, Tbl
  <2>4. DOMAIN fresh' = 0..2 * n - 1 /\ fresh' \in [0..2 * n - 1 -> Cell]
    BY <1>3, <2>1, EmptyTable DEF ExpandBegin
  <2>5. cursor' \in [bkt_i : Nat, thh : OptionalElement]
    <3>1. 0 \in 0..n - 1 /\ buckets.cell \in [0..n - 1 -> Cell]
      BY <1>3, <2>1 DEF Types, ExpandBegin
    <3>2. buckets.cell[0].hh_head \in OptionalElement
      BY <3>1 DEF Cell
    <3> QED
      BY <1>3, <3>2 DEF ExpandBegin
  <2>6. lookup' \in [Readers -> Lookup]
    BY <1>3, DisturbKeepsTypes DEF ExpandBegin
  <2> HIDE DEF n
  <2>7. pc = "expand" /\ pc' = "relink" /\ buckets' = buckets /\ hashv' = hashv /\ head' = head /\ list' = list
        /\ chain' = chain /\ elt' = elt
    BY <1>3 DEF ExpandBegin
  <2> QED
    BY <2>3, <2>4, <2>5, <2>6, <2>7 DEF Types, Adding, n
<1>4. CASE Relink
  <2> DEFINE n == tbl.num_buckets
  <2>1. /\ pc = "relink" /\ pc' = pc /\ buckets' = buckets /\ hashv' = hashv /\ head' = head
        /\ list' = list /\ elt' = elt /\ lookup' = lookup
    BY <1>4 DEF Relink
  <2>2. /\ tbl' \in Tbl /\ tbl' = [tbl EXCEPT !.nonideal_items = tbl'.nonideal_items]
        /\ fresh' \in [0..2 * n - 1 -> Cell]
        /\ cursor' \in [bkt_i : Nat, thh : OptionalElement]
    BY <1>4, RelinkEffect
  <2>3. tbl'.num_buckets = n
    BY <2>2, TblFields DEF Tbl
  <2>4. DOMAIN fresh' = 0..2 * n - 1
    BY <2>2
  <2>5. chain' \in Chain
    <3>1. PICK pos \in Positions, moved \in SUBSET Elements : Moving(pos, moved)
      BY <2>1 DEF Order, Positions
    <3> QED
      BY <1>4, <3>1, RelinkKeepsMoving
  <2> HIDE DEF n
  <2> QED
    BY <2>1, <2>2, <2>3, <2>4, <2>5 DEF Types, Adding, Chain, n
<1>5. CASE NextBucket
  <2> DEFINE n == tbl.num_buckets
  <2>1. /\ pc = "relink" /\ pc' \in {"relink", "free_old"} /\ buckets' = buckets /\ hashv' = hashv
        /\ head' = head /\ list' = list /\ elt' = elt /\ lookup' = lookup /\ chain' = chain
        /\ tbl' = tbl /\ fresh' = fresh
    BY <1>5 DEF NextBucket
  <2>2. cursor' \in [bkt_i : Nat, thh : OptionalElement]
    <3> DEFINE j == cursor.bkt_i + 1
    <3>1. cursor \in [bkt_i : Nat, thh : OptionalElement] /\ j \in Nat
      BY DEF Types
    <3>2. ASSUME j < n PROVE buckets.cell[j].hh_head \in OptionalElement
      <4>1. j \in 0..n - 1 /\ buckets.cell \in [0..n - 1 -> Cell]
        BY <2>1, <3>1, <3>2, TblFields DEF Types
      <4> HIDE DEF j, n
      <4> QED
        BY <4>1 DEF Cell
    <3>3. cursor' = IF j < n THEN [bkt_i |-> j, thh |-> buckets.cell[j].hh_head] ELSE cursor
      BY <1>5 DEF NextBucket
    <3> HIDE DEF j, n
    <3> QED
      BY <3>1, <3>2, <3>3
  <2> HIDE DEF n
  <2> QED
    BY <2>1, <2>2 DEF Types, Adding
<1>6. CASE FreeOld
  BY <1>6 DEF FreeOld, table, Types, Adding
<1>7. CASE SetNum
  <2> DEFINE n == tbl.num_buckets
  <2>1. tbl \in Tbl /\ n \in Nat \ {0} /\ 2 * n \in Nat \ {0}
    BY TblFields
  <2>2. tbl' \in Tbl /\ tbl'.num_buckets = 2 * n
    BY <1>7, <2>1 DEF SetNum, Tbl
  <2> HIDE DEF n
  <2> QED
    BY <1>7, <2>2 DEF SetNum, Types, Adding, n
<1>8. CASE SetBuckets
  <2> DEFINE n == tbl.num_buckets
  <2>1. /\ tbl \in Tbl /\ n \in Nat \ {0} /\ tbl.ineff_expands + 1 \in Nat /\ 0 \in Nat
        /\ tbl.noexpand \in BOOLEAN
    BY TblFields
  <2>2. tbl' \in Tbl /\ tbl'.num_buckets = n
    <3>1. PICK k \in Nat, x \in BOOLEAN : tbl' = [tbl EXCEPT !.ineff_expands = k, !.noexpand = x]
      BY <1>8, <2>1 DEF SetBuckets
    <3> QED
      BY <2>1, <3>1 DEF Tbl
  <2>3. /\ buckets' = [gen |-> buckets.gen + 1, cell |-> fresh] /\ buckets.gen + 1 \in Nat
        /\ fresh \in [0..n - 1 -> Cell] /\ DOMAIN fresh = 0..n - 1
    BY <1>8 DEF SetBuckets, Types
  <2>4. buckets' = [gen |-> buckets'.gen, cell |-> buckets'.cell] /\ buckets'.gen \in Nat
        /\ buckets'.cell = fresh
    BY <2>3
  <2>5. fresh' \in [DOMAIN fresh' -> Cell]
    BY <1>8, EmptyTable DEF SetBuckets
  <2> HIDE DEF n
  <2>6. /\ pc' = "idle" /\ hashv' = hashv /\ head' = head /\ list' = list /\ elt' = elt
        /\ lookup' = lookup /\ chain' = chain /\ cursor' = cursor
    BY <1>8 DEF SetBuckets
  <2> QED
    BY <2>2, <2>3, <2>4, <2>5, <2>6 DEF Types, Adding, n
<1> QED
  BY <1>1, <1>2, <1>3, <1>4, <1>5, <1>6, <1>7, <1>8 DEF Expand

(* HASH_DEL keeps the types.                                               *)
LEMMA DeletingKeepsTypes ==
  ASSUME IInv, Delete
  PROVE  Types'
<1> USE DEF IInv
<1>1. CASE BeginFree
  <2>1. lookup' \in [Readers -> Lookup]
    BY <1>1, DisturbKeepsTypes DEF BeginFree
  <2> QED
    BY <1>1, <2>1 DEF BeginFree, table, Types, Adding
<1>2. CASE DeleteHead
  <2> DEFINE rest == list[head].next
  <2>1. head \in Elements /\ rest \in Elements
    <3>1. pc = "free" /\ head \in OptionalElement /\ rest # Null
      BY <1>2 DEF DeleteHead, Types
    <3>2. head \in Elements
      BY <3>1 DEF Control, OptionalElement
    <3>3. rest \in OptionalElement
      BY <3>2, LinksOf DEF Types, Chain
    <3> QED
      BY <3>1, <3>2, <3>3 DEF OptionalElement
  <2>2. list' \in [Elements -> Links]
    <3>1. list \in Chain
      BY DEF Types, Chain
    <3> DEFINE p == list[head].prev
    <3>2. p \in OptionalElement
      BY <2>1, <3>1, LinksOf
    <3>3. list' = [list EXCEPT ![rest] = [list[rest] EXCEPT !.prev = p]]
      BY <1>2, <3>1 DEF DeleteHead, Chain
    <3> HIDE DEF p, rest
    <3>4. list[rest] \in Links
      BY <2>1, <3>1 DEF Chain
    <3>5. [list[rest] EXCEPT !.prev = p] \in Links
      BY <3>2, <3>4 DEF Links
    <3> DEFINE l2 == [list[rest] EXCEPT !.prev = p]
    <3> HIDE DEF l2
    <3>6. list' = [list EXCEPT ![rest] = l2] /\ l2 \in Links
      BY <3>3, <3>5 DEF l2
    <3> QED
      BY <2>1, <3>1, <3>6 DEF Chain
  <2>3. /\ pc = "free" /\ pc' = "unlink" /\ elt' = head /\ head' = rest /\ hashv' = hashv
        /\ chain' = chain /\ tbl' = tbl /\ buckets' = buckets /\ fresh' = fresh /\ cursor' = cursor
        /\ lookup' = lookup
    BY <1>2 DEF DeleteHead
  <2> HIDE DEF rest
  <2> QED
    BY <2>1, <2>2, <2>3 DEF Types, OptionalElement, Adding
<1>3. CASE Unlink
  <2> DEFINE n == tbl.num_buckets
  <2>1. PICK pos \in Positions : Chains(pos)
    BY DEF Order, Positions
  <2>2. /\ chain' \in Chain /\ buckets' = [gen |-> buckets.gen, cell |-> buckets'.cell]
        /\ buckets'.cell \in [0..n - 1 -> Cell]
    BY <1>3, <2>1, UnlinkKeepsChains
  <2>3. tbl' \in Tbl /\ tbl'.num_buckets = n
    <3>1. tbl.num_items - 1 \in Nat
      <4>1. pc = "unlink" /\ head # Null /\ head \in OptionalElement
        BY <1>3 DEF Unlink, Control, Types
      <4>2. head <= tbl.tail /\ tbl.num_items = tbl.tail - head + 2
        BY <4>1 DEF Control
      <4> QED
        BY <4>1, <4>2, TblFields, Ranges
    <3> QED
      BY <1>3, <3>1, TblFields DEF Unlink, Tbl
  <2>4. buckets'.gen = buckets.gen /\ DOMAIN buckets'.cell = 0..n - 1
    BY <2>2
  <2>5. /\ pc = "unlink" /\ pc' = "release" /\ hashv' = hashv /\ head' = head /\ list' = list
        /\ fresh' = fresh /\ cursor' = cursor /\ elt' = elt /\ lookup' = lookup
    BY <1>3 DEF Unlink
  <2> HIDE DEF n
  <2> QED
    BY <2>2, <2>3, <2>4, <2>5 DEF Types, Chain, Adding, n
<1>4. CASE Release
  BY <1>4 DEF Release, table, Types, Adding
<1>5. CASE DeleteLast
  <2>1. tbl' \in Tbl /\ tbl'.num_buckets = tbl.num_buckets
    BY <1>5, TblFields DEF DeleteLast, Tbl
  <2> QED
    BY <1>5, <2>1 DEF DeleteLast, Types, Adding
<1>6. CASE ClearHead
  BY <1>6 DEF ClearHead, table, Types, Adding, OptionalElement
<1> QED
  BY <1>1, <1>2, <1>3, <1>4, <1>5, <1>6 DEF Delete

(* What main's steps do to the order in which it adds and deletes.         *)
LEMMA AddingKeepsControl ==
  ASSUME IInv, Add \/ LinkInBucket \/ Expand
  PROVE  Control'
<1> USE DEF IInv
<1>1. CASE Add
  <2>1. /\ pc = "idle" /\ elt = tbl.tail /\ freed = {} /\ tbl.live /\ known = 1..elt
        /\ tbl.num_items = elt /\ head = (IF elt = Null THEN Null ELSE 1) /\ elt \in 0..NumElements
    BY <1>1, Ranges DEF Add, Control, Adding, Types
  <2>2. tbl'.tail = elt' /\ tbl'.live = tbl.live /\ tbl'.num_items = tbl.num_items
    BY <1>1, TblFields DEF Add, Tbl
  <2>3. /\ pc' = "link" /\ elt' = elt + 1 /\ freed' = freed /\ known' = known
        /\ head' = (IF head = Null THEN elt' ELSE head)
    BY <1>1 DEF Add
  <2>4. elt' - 1 = elt /\ elt' # Null /\ head' = 1
    BY <2>1, <2>3, Ranges
  <2> QED
    BY <2>1, <2>2, <2>3, <2>4 DEF Control, Adding
<1>2. CASE LinkInBucket
  <2>1. /\ pc = "link" /\ elt = tbl.tail /\ freed = {} /\ tbl.live /\ known = 1..elt - 1
        /\ tbl.num_items = elt - 1 /\ head = (IF elt = Null THEN Null ELSE 1) /\ elt \in 0..NumElements
        /\ elt # Null
    BY <1>2, Ranges DEF LinkInBucket, Control, Adding, Types
  <2>2. /\ tbl' = [tbl EXCEPT !.num_items = tbl.num_items + 1] /\ pc' \in {"idle", "expand"}
    BY <1>2, LinkEffect
  <2>3. tbl'.tail = tbl.tail /\ tbl'.live = tbl.live /\ tbl'.num_items = tbl.num_items + 1
    BY <2>2, TblFields DEF Tbl
  <2>4. /\ elt' = elt /\ freed' = freed /\ known' = known \cup {elt} /\ head' = head
    BY <1>2 DEF LinkInBucket
  <2>5. known' = 1..elt /\ tbl'.num_items = elt
    BY <2>1, <2>3, <2>4, Ranges
  <2> QED
    BY <2>1, <2>2, <2>3, <2>4, <2>5 DEF Control, Adding
<1>3. CASE Expand
  <2>1. pc \in {"expand", "relink", "free_old", "set_num", "set_buckets"}
    BY <1>3 DEF Expand, ExpandBegin, Relink, NextBucket, FreeOld, SetNum, SetBuckets
  <2>2. pc' \in {"relink", "free_old", "set_num", "set_buckets", "idle"}
    BY <1>3 DEF Expand, ExpandBegin, Relink, NextBucket, FreeOld, SetNum, SetBuckets
  <2>3. elt' = elt /\ freed' = freed /\ known' = known /\ head' = head
    BY <1>3 DEF Expand, ExpandBegin, Relink, NextBucket, FreeOld, SetNum, SetBuckets, table
  <2>4. tbl'.tail = tbl.tail /\ tbl'.live = tbl.live /\ tbl'.num_items = tbl.num_items
    <3>1. tbl \in Tbl
      BY TblFields
    <3>2. CASE ExpandBegin
      BY <3>1, <3>2 DEF ExpandBegin, Tbl
    <3>3. CASE Relink
      BY <3>1, <3>3, RelinkEffect DEF Tbl
    <3>4. CASE NextBucket \/ FreeOld
      BY <3>4 DEF NextBucket, FreeOld, table
    <3>5. CASE SetNum
      BY <3>1, <3>5 DEF SetNum, Tbl
    <3>6. CASE SetBuckets
      BY <3>1, <3>6 DEF SetBuckets, Tbl
    <3> QED
      BY <1>3, <3>2, <3>3, <3>4, <3>5, <3>6 DEF Expand
  <2> QED
    BY <2>1, <2>2, <2>3, <2>4 DEF Control, Adding
<1> QED
  BY <1>1, <1>2, <1>3

(* HASH_DEL keeps what is known, freed and in the list in step.            *)
LEMMA DeletingKeepsControl ==
  ASSUME IInv, Delete
  PROVE  Control'
<1> USE DEF IInv
<1>1. head \in 0..NumElements /\ tbl.tail \in 0..NumElements /\ elt \in 0..NumElements /\ Null = 0
  BY Ranges, TblFields DEF Types
<1>2. CASE BeginFree
  <2>1. /\ pc = "idle" /\ elt = tbl.tail /\ freed = {} /\ tbl.live /\ known = 1..elt
        /\ tbl.num_items = elt /\ head = (IF elt = Null THEN Null ELSE 1)
    BY <1>2 DEF BeginFree, Control, Adding
  <2>2. /\ pc' = (IF head = Null THEN "freed" ELSE "free") /\ head' = head /\ tbl' = tbl /\ elt' = elt
        /\ known' = known /\ freed' = freed
    BY <1>2 DEF BeginFree, table
  <2>3. CASE head = Null
    <3>1. known = {}
      BY <1>1, <2>1, <2>3
    <3> QED
      BY <2>2, <2>3, <3>1 DEF Control, Adding
  <2>4. CASE head # Null
    <3>1. /\ head <= tbl.tail /\ known = head..tbl.tail /\ freed = 1..head - 1
          /\ tbl.num_items = tbl.tail - head + 1
      BY <1>1, <2>1, <2>4
    <3> QED
      BY <2>1, <2>2, <2>4, <3>1 DEF Control, Adding
  <2> QED
    BY <2>3, <2>4
<1>3. CASE DeleteHead
  <2>1. /\ pc = "free" /\ head # Null /\ head <= tbl.tail /\ known = head..tbl.tail
        /\ freed = 1..head - 1 /\ tbl.live /\ tbl.num_items = tbl.tail - head + 1
        /\ list[head].next # Null
    BY <1>3 DEF DeleteHead, Control
  <2>2. /\ pc' = "unlink" /\ elt' = head /\ head' = list[head].next /\ known' = known \ {elt'}
        /\ freed' = freed /\ tbl' = tbl
    BY <1>3 DEF DeleteHead
  <2>3. head # tbl.tail /\ head' = head + 1
    <3>1. list[head].next = (IF head = tbl.tail THEN Null ELSE head + 1)
      BY <1>1, <2>1 DEF ListOrder
    <3> QED
      BY <2>1, <2>2, <3>1
  <2>4. /\ head' # Null /\ head' <= tbl.tail /\ known' = head'..tbl.tail /\ freed' = 1..head' - 2
        /\ elt' # Null /\ elt' = head' - 1 /\ tbl.num_items = tbl.tail - head' + 2
    BY <1>1, <2>1, <2>2, <2>3
  <2> QED
    BY <2>1, <2>2, <2>4 DEF Control, Adding
<1>4. CASE Unlink
  <2>1. /\ pc = "unlink" /\ head # Null /\ head <= tbl.tail /\ known = head..tbl.tail
        /\ freed = 1..head - 2 /\ tbl.live /\ elt # Null /\ elt = head - 1
        /\ tbl.num_items = tbl.tail - head + 2
    BY <1>4 DEF Unlink, Control
  <2>2. /\ pc' = "release" /\ elt' = elt /\ head' = head /\ known' = known /\ freed' = freed
        /\ tbl' = [tbl EXCEPT !.num_items = tbl.num_items - 1]
    BY <1>4 DEF Unlink
  <2>3. tbl'.tail = tbl.tail /\ tbl'.live = tbl.live /\ tbl'.num_items = tbl.num_items - 1
    BY <2>2, TblFields DEF Tbl
  <2>4. elt \notin known /\ tbl'.num_items = tbl.tail - head + 1
    BY <1>1, <2>1, <2>3
  <2> QED
    BY <2>1, <2>2, <2>3, <2>4 DEF Control, Adding
<1>5. CASE Release
  <2>1. /\ pc = "release" /\ elt # Null /\ elt \notin known
        /\ head = Null => known = {}
        /\ head # Null => /\ head <= tbl.tail /\ known = head..tbl.tail
                          /\ freed = 1..head - 2 /\ tbl.live /\ elt = head - 1
                          /\ tbl.num_items = tbl.tail - head + 1
    BY <1>5 DEF Release, Control
  <2>2. /\ pc' = (IF head = Null THEN "freed" ELSE "free") /\ head' = head /\ tbl' = tbl /\ elt' = elt
        /\ known' = known /\ freed' = freed \cup {elt}
    BY <1>5 DEF Release, table
  <2>3. head # Null => freed' = 1..head - 1
    BY <1>1, <2>1, <2>2
  <2> QED
    BY <2>1, <2>2, <2>3 DEF Control, Adding
<1>6. CASE DeleteLast
  <2>1. /\ pc = "free" /\ head # Null /\ pc' = "clear_head" /\ elt' = head /\ head' = head /\ known' = {}
    BY <1>6 DEF DeleteLast, Control
  <2>2. tbl'.live = FALSE
    BY <1>6, TblFields DEF DeleteLast, Tbl
  <2> QED
    BY <2>1, <2>2 DEF Control, Adding
<1>7. CASE ClearHead
  <2>1. /\ pc = "clear_head" /\ known = {} /\ elt # Null /\ pc' = "release" /\ elt' = elt /\ head' = Null
        /\ known' = known
    BY <1>7 DEF ClearHead, Control
  <2> QED
    BY <2>1 DEF Control, Adding
<1> QED
  BY <1>2, <1>3, <1>4, <1>5, <1>6, <1>7 DEF Delete

(* Only Add, DeleteHead and ClearHead change the list.                     *)
LEMMA MainKeepsListOrder ==
  ASSUME IInv, Main
  PROVE  ListOrder'
<1> USE DEF IInv
<1>1. head \in 0..NumElements /\ tbl.tail \in 0..NumElements /\ elt \in 0..NumElements /\ Null = 0
      /\ Elements = 1..NumElements /\ list \in [Elements -> Links]
  BY Ranges, TblFields DEF Types
<1>2. CASE Add
  <2>1. /\ elt = tbl.tail /\ head = (IF elt = Null THEN Null ELSE 1) /\ elt < NumElements
        /\ elt' = elt + 1
        /\ head' = IF head = Null THEN elt' ELSE head
    BY <1>2 DEF Add, Control, Adding
  <2>2. tbl'.tail = elt + 1
    BY <1>2, TblFields DEF Add, Tbl
  <2>3. head' = 1
    BY <1>1, <2>1
  <2>4. list' = [e \in Elements |->
                   CASE e = elt + 1 -> [next |-> Null, prev |-> elt]
                     [] e = elt -> [list[e] EXCEPT !.next = elt + 1]
                     [] OTHER -> list[e]]
    BY <1>2, <2>1 DEF Add
  <2>5. list'[elt + 1].next = Null /\ list'[elt + 1].prev = elt
    BY <1>1, <2>1, <2>4
  <2>6. ASSUME NEW e \in 1..elt
        PROVE  /\ list'[e].next = e + 1
               /\ list'[e].prev = (IF e = 1 THEN Null ELSE e - 1)
    <3>1. e \in Elements /\ e # elt + 1
      BY <1>1, <2>1
    <3>2. list[e] = [next |-> list[e].next, prev |-> list[e].prev]
      BY <1>1, <3>1, LinksOf DEF Chain
    <3>3. list[e].next = (IF e = elt THEN Null ELSE e + 1) /\ list[e].prev = (IF e = 1 THEN Null ELSE e - 1)
      <4>1. head = 1 /\ head # Null /\ e \in 1..tbl.tail /\ e \in head..tbl.tail
        BY <1>1, <2>1
      <4>2. list[e].next = (IF e = tbl.tail THEN Null ELSE e + 1) /\ list[e].prev = (IF e = head THEN Null ELSE e - 1)
        BY <4>1 DEF ListOrder
      <4> QED
        BY <2>1, <4>1, <4>2
    <3>4. list'[e] = IF e = elt THEN [list[e] EXCEPT !.next = elt + 1] ELSE list[e]
      BY <2>4, <3>1
    <3>5. list'[e].next = (IF e = elt THEN elt + 1 ELSE list[e].next) /\ list'[e].prev = list[e].prev
      BY <3>2, <3>4
    <3> QED
      BY <3>3, <3>5
  <2>7. ASSUME NEW e \in 1..elt + 1
        PROVE  /\ list'[e].next = (IF e = elt + 1 THEN Null ELSE e + 1)
               /\ list'[e].prev = (IF e = 1 THEN Null ELSE e - 1)
    <3>1. e = elt + 1 \/ e \in 1..elt
      BY <1>1
    <3>2. e \in 1..elt => e # elt + 1
      BY <1>1
    <3>3. CASE e = elt + 1
      BY <1>1, <2>5, <3>3
    <3> QED
      BY <2>6, <3>1, <3>2, <3>3
  <2> QED
    BY <2>2, <2>3, <2>7 DEF ListOrder
<1>3. CASE DeleteHead
  <2> DEFINE rest == list[head].next
  <2>1. /\ head # Null /\ head <= tbl.tail /\ rest # Null /\ head' = rest /\ tbl' = tbl
        /\ list' = [list EXCEPT ![rest].prev = list[head].prev]
    BY <1>3 DEF DeleteHead, Control
  <2>2. rest = head + 1 /\ head # tbl.tail /\ list[head].prev = Null
    <3>1. head \in 1..tbl.tail /\ head \in head..tbl.tail
      BY <1>1, <2>1
    <3> QED
      BY <2>1, <3>1 DEF ListOrder
  <2>3. rest \in Elements
    BY <1>1, <2>1, <2>2
  <2>4. list' = [list EXCEPT ![rest] = [list[rest] EXCEPT !.prev = Null]]
    BY <2>1, <2>2
  <2> HIDE DEF rest
  <2>5. ASSUME NEW e \in Elements
        PROVE  list'[e].next = list[e].next /\ list'[e].prev = IF e = rest THEN Null ELSE list[e].prev
    <3>1. list[e] = [next |-> list[e].next, prev |-> list[e].prev]
      BY <1>1, LinksOf DEF Chain
    <3>2. list'[e] = IF e = rest THEN [list[e] EXCEPT !.prev = Null] ELSE list[e]
      BY <1>1, <2>4
    <3> QED
      BY <3>1, <3>2
  <2>6. \A e \in 1..tbl.tail : list'[e].next = (IF e = tbl.tail THEN Null ELSE e + 1)
    BY <1>1, <2>5 DEF ListOrder
  <2>7. ASSUME NEW e \in rest..tbl.tail PROVE list'[e].prev = (IF e = rest THEN Null ELSE e - 1)
    <3>1. e \in Elements /\ e \in head..tbl.tail /\ e # head
      BY <1>1, <2>1, <2>2
    <3> QED
      BY <2>1, <2>5, <3>1 DEF ListOrder
  <2> QED
    BY <2>1, <2>6, <2>7 DEF ListOrder
<1>4. CASE LinkInBucket \/ Expand \/ BeginFree \/ Unlink \/ Release \/ DeleteLast \/ ClearHead
  <2>1. list' = list /\ head' \in {head, Null}
    BY <1>4 DEF LinkInBucket, Expand, ExpandBegin, Relink, NextBucket, FreeOld, SetNum, SetBuckets, table,
                BeginFree, Unlink, Release, DeleteLast, ClearHead
  <2>2. tbl'.tail = tbl.tail
    <3>1. tbl \in Tbl
      BY TblFields
    <3>2. CASE LinkInBucket
      BY <3>1, <3>2 DEF LinkInBucket, Tbl
    <3>3. CASE ExpandBegin \/ SetNum \/ SetBuckets \/ Unlink \/ DeleteLast
      BY <3>1, <3>3 DEF ExpandBegin, SetNum, SetBuckets, Unlink, DeleteLast, Tbl
    <3>4. CASE Relink
      BY <3>1, <3>4, RelinkEffect DEF Tbl
    <3>5. CASE NextBucket \/ FreeOld \/ BeginFree \/ Release \/ ClearHead
      BY <3>5 DEF NextBucket, FreeOld, BeginFree, Release, ClearHead, table
    <3> QED
      BY <1>4, <3>2, <3>3, <3>4, <3>5 DEF Expand
  <2> QED
    BY <2>1, <2>2 DEF ListOrder
<1> QED
  BY <1>2, <1>3, <1>4 DEF Main, Delete

(* No step of main frees the array that tbl->buckets names, except its     *)
(* last.                                                                   *)
LEMMA MainKeepsArrayInUse ==
  ASSUME IInv, Main
  PROVE  ArrayInUse'
<1> USE DEF IInv
<1>1. buckets.gen \in Nat /\ tbl \in Tbl /\ (Adding => tbl.live)
  BY TblFields DEF Types, Control
<1>2. CASE Add
  BY <1>1, <1>2 DEF Add, ArrayInUse, Tbl
<1>3. CASE LinkInBucket
  <2>1. buckets'.gen = buckets.gen /\ tbl'.live = tbl.live /\ pc' \in {"idle", "expand"}
    BY <1>1, <1>3, LinkEffect DEF Tbl
  <2> QED
    BY <1>3, <2>1 DEF LinkInBucket, ArrayInUse
<1>4. CASE ExpandBegin
  BY <1>1, <1>4 DEF ExpandBegin, ArrayInUse, Tbl
<1>5. CASE Relink
  <2>1. tbl'.live = tbl.live
    BY <1>1, <1>5, RelinkEffect DEF Tbl
  <2> QED
    BY <1>5, <2>1 DEF Relink, ArrayInUse
<1>6. CASE NextBucket
  BY <1>6 DEF NextBucket, ArrayInUse
<1>7. CASE FreeOld
  BY <1>1, <1>7 DEF FreeOld, table, ArrayInUse, Adding
<1>8. CASE SetNum
  BY <1>1, <1>8 DEF SetNum, ArrayInUse, Tbl
<1>9. CASE SetBuckets
  <2>1. buckets'.gen = buckets.gen + 1 /\ tbl'.live = tbl.live /\ tbl.live /\ pc' = "idle"
    BY <1>1, <1>9 DEF SetBuckets, Tbl, Adding
  <2> QED
    BY <1>9, <2>1 DEF SetBuckets, ArrayInUse
<1>10. CASE BeginFree \/ Release \/ ClearHead
  BY <1>10 DEF BeginFree, Release, ClearHead, table, ArrayInUse
<1>11. CASE DeleteHead
  BY <1>11 DEF DeleteHead, ArrayInUse
<1>12. CASE Unlink
  <2>1. buckets'.gen = buckets.gen
    <3>1. PICK pos \in Positions : Chains(pos)
      BY DEF Order, Positions
    <3>2. buckets' = [gen |-> buckets.gen, cell |-> buckets'.cell]
      BY <1>12, <3>1, UnlinkKeepsChains
    <3> QED
      BY <3>2
  <2>2. tbl'.live = tbl.live
    BY <1>1, <1>12 DEF Unlink, Tbl
  <2> QED
    BY <1>12, <2>1, <2>2 DEF Unlink, ArrayInUse
<1>13. CASE DeleteLast
  <2>1. tbl.live
    BY <1>13 DEF DeleteLast, Control
  <2>2. tbl'.live = FALSE
    BY <1>1, <1>13 DEF DeleteLast, Tbl
  <2> QED
    BY <1>13, <2>1, <2>2 DEF DeleteLast, ArrayInUse
<1> QED
  BY <1>2, <1>3, <1>4, <1>5, <1>6, <1>7, <1>8, <1>9, <1>10, <1>11, <1>12, <1>13 DEF Main, Expand, Delete

-----------------------------------------------------------------------------
(* The lookups under way when main takes a step.  While main rearranges or *)
(* frees the table all of them are disturbed.                              *)
Rearranges == Relink \/ NextBucket \/ FreeOld \/ SetNum \/ SetBuckets
              \/ DeleteHead \/ Unlink \/ Release \/ DeleteLast \/ ClearHead

(* A step that rearranges the table changes no lookup; the array only      *)
(* grows.                                                                  *)
LEMMA RearrangingEffect ==
  ASSUME IInv, Rearranges
  PROVE  /\ Rearranging /\ lookup' = lookup
         /\ buckets.gen \in Nat /\ buckets'.gen \in Nat /\ buckets.gen <= buckets'.gen
         /\ tbl.num_buckets \in Nat /\ tbl'.num_buckets \in Nat /\ tbl.num_buckets <= tbl'.num_buckets
<1> USE DEF IInv
<1>1. Rearranging /\ lookup' = lookup
  BY DEF Rearranges, Rearranging, Relink, NextBucket, FreeOld, SetNum, SetBuckets, DeleteHead, Unlink,
         Release, DeleteLast, ClearHead, table
<1>2. buckets.gen \in Nat /\ tbl \in Tbl /\ tbl.num_buckets \in Nat
  BY TblFields DEF Types
<1>3. buckets'.gen \in {buckets.gen, buckets.gen + 1}
  <2>1. CASE SetBuckets
    BY <2>1 DEF SetBuckets
  <2>2. CASE Unlink
    <3>1. PICK pos \in Positions : Chains(pos)
      BY DEF Order, Positions
    <3>2. buckets' = [gen |-> buckets.gen, cell |-> buckets'.cell]
      BY <2>2, <3>1, UnlinkKeepsChains
    <3> QED
      BY <3>2
  <2>3. CASE Relink \/ NextBucket \/ FreeOld \/ SetNum \/ DeleteHead \/ Release \/ DeleteLast \/ ClearHead
    BY <2>3 DEF Relink, NextBucket, FreeOld, SetNum, DeleteHead, Release, DeleteLast, ClearHead, table
  <2> QED
    BY <2>1, <2>2, <2>3 DEF Rearranges
<1>4. tbl'.num_buckets \in {tbl.num_buckets, 2 * tbl.num_buckets}
  <2>1. CASE Relink
    BY <1>2, <2>1, RelinkEffect DEF Tbl
  <2>2. CASE SetNum \/ SetBuckets \/ Unlink \/ DeleteLast
    BY <1>2, <2>2 DEF SetNum, SetBuckets, Unlink, DeleteLast, Tbl
  <2>3. CASE NextBucket \/ FreeOld \/ DeleteHead \/ Release \/ ClearHead
    BY <2>3 DEF NextBucket, FreeOld, DeleteHead, Release, ClearHead, table
  <2> QED
    BY <2>1, <2>2, <2>3 DEF Rearranges
<1> QED
  BY <1>1, <1>2, <1>3, <1>4

(* The steps that only add let every lookup read on.                       *)
LEMMA AddingEffect ==
  ASSUME IInv, Add \/ LinkInBucket
  PROVE  /\ lookup' = lookup /\ pc \in {"idle", "link"} /\ pc' \in {"idle", "link", "expand"}
         /\ hashv' = hashv /\ buckets'.gen = buckets.gen /\ tbl'.num_buckets = tbl.num_buckets
         /\ head # Null => head' = head
         /\ known \subseteq known'
<1> USE DEF IInv
<1>1. CASE Add
  BY <1>1, TblFields DEF Add, Tbl
<1>2. CASE LinkInBucket
  <2>1. buckets'.gen = buckets.gen /\ pc' \in {"idle", "expand"}
    BY <1>2, LinkEffect
  <2> QED
    BY <1>2, <2>1, TblFields DEF LinkInBucket, Tbl
<1> QED
  BY <1>1, <1>2

(* The steps that disturb the lookups.                                     *)
LEMMA DisturbingEffect ==
  ASSUME IInv, ExpandBegin \/ BeginFree
  PROVE  /\ Disturb
         /\ buckets' = buckets /\ tbl'.num_buckets = tbl.num_buckets
<1> QED
  BY TblFields DEF ExpandBegin, BeginFree, Tbl, table, IInv

(* Whatever main does, an undisturbed lookup has read what is still true.  *)
LEMMA MainKeepsLookups ==
  ASSUME IInv, Main
  PROVE  Lookups'
<1> USE DEF IInv
<1> SUFFICES ASSUME NEW r \in Readers
             PROVE  LookupOK(lookup[r])' /\ ReadsTrue(lookup[r])'
  BY DEF Lookups
<1>1. LookupOK(lookup[r]) /\ ReadsTrue(lookup[r])
  BY DEF Lookups
<1>2. lookup[r] \in Lookup
  BY DEF Types
<1>3. CASE Add \/ LinkInBucket
  <2>1. /\ lookup' = lookup /\ pc' \in {"idle", "link", "expand"}
        /\ buckets'.gen = buckets.gen /\ tbl'.num_buckets = tbl.num_buckets
        /\ head # Null => head' = head
        /\ known \subseteq known'
    BY <1>3, AddingEffect
  <2>2. LookupOK(lookup[r])'
    BY <1>1, <2>1 DEF LookupOK, Rearranging
  <2>3. ReadsTrue(lookup[r])'
    BY <1>1, <2>1 DEF ReadsTrue
  <2> QED
    BY <2>2, <2>3
<1>4. CASE ExpandBegin \/ BeginFree
  <2>1. Disturb /\ buckets' = buckets /\ tbl'.num_buckets = tbl.num_buckets
    BY <1>4, DisturbingEffect
  <2> DEFINE l == lookup[r]
  <2>2. /\ l'.pc = l.pc /\ l'.key = l.key /\ l'.result = l.result /\ l'.due = l.due
        /\ l'.num_buckets = l.num_buckets /\ l'.gen = l.gen
        /\ l'.disturbed = (l.disturbed \/ l.pc # "idle")
    BY <2>1, DisturbKeepsTypes
  <2>3. LookupOK(l) /\ ReadsTrue(l)
    BY <1>1
  <2> HIDE DEF l
  <2>4. LookupOK(l)'
    BY <2>1, <2>2, <2>3 DEF LookupOK
  <2>5. ReadsTrue(l)'
    BY <2>1, <2>2, <2>3 DEF ReadsTrue
  <2> QED
    BY <2>4, <2>5 DEF l
<1>5. CASE Rearranges
  <2>1. /\ Rearranging /\ lookup' = lookup
        /\ buckets.gen \in Nat /\ buckets'.gen \in Nat /\ buckets.gen <= buckets'.gen
        /\ tbl.num_buckets \in Nat /\ tbl'.num_buckets \in Nat /\ tbl.num_buckets <= tbl'.num_buckets
    BY <1>5, RearrangingEffect
  <2>2. LookupOK(lookup[r])'
    BY <1>1, <1>2, <2>1 DEF LookupOK, Lookup
  <2>3. ReadsTrue(lookup[r])'
    BY <1>1, <2>1 DEF LookupOK, ReadsTrue
  <2> QED
    BY <2>1, <2>2, <2>3
<1> QED
  BY <1>3, <1>4, <1>5 DEF Main, Expand, Delete, Rearranges

(* The walk of an undisturbed lookup under a step that only adds: its own  *)
(* position and that of its key are as they were.                          *)
LEMMA AddingKeepsWalks ==
  ASSUME IInv, Add \/ LinkInBucket, NEW pos, NEW pos2, Walks(pos),
         \A x \in known : pos2[x] = pos[x]
  PROVE  Walks(pos2)'
<1> USE DEF IInv
<1> SUFFICES ASSUME NEW r \in Readers
             PROVE  Walking(lookup[r], pos2)'
  BY DEF Walks
<1>1. LookupOK(lookup[r]) /\ ReadsTrue(lookup[r]) /\ Walking(lookup[r], pos)
  BY DEF Lookups, Walks
<1>2. /\ lookup' = lookup /\ hashv' = hashv /\ tbl'.num_buckets = tbl.num_buckets /\ known \subseteq known'
  BY AddingEffect
<1> DEFINE l == lookup[r]
<1>3. /\ l' = l /\ Walking(l, pos)
      /\ ~l.disturbed /\ l.pc = "walk" /\ l.due => l.key \in known
  BY <1>1, <1>2 DEF ReadsTrue
<1> HIDE DEF l
<1>4. Walking(l, pos2)'
  BY <1>2, <1>3 DEF Walking, Bucket
<1> QED
  BY <1>4 DEF l

(* Nothing is claimed of the walks under the other steps.                  *)
LEMMA DisturbedWalks ==
  ASSUME IInv, Main, ~(Add \/ LinkInBucket), NEW pos
  PROVE  Walks(pos)'
<1> USE DEF IInv
<1> SUFFICES ASSUME NEW r \in Readers
             PROVE  Walking(lookup[r], pos)'
  BY DEF Walks
<1>1. LookupOK(lookup[r])
  BY DEF Lookups
<1> DEFINE l == lookup[r]
<1>2. l'.disturbed \/ l'.pc # "walk"
  <2>1. CASE ExpandBegin \/ BeginFree
    <3>1. l'.pc = l.pc /\ l'.disturbed = (l.disturbed \/ l.pc # "idle")
      BY <2>1, DisturbingEffect, DisturbKeepsTypes
    <3> QED
      BY <3>1
  <2>2. CASE Rearranges
    <3>1. Rearranging /\ lookup' = lookup
      BY <2>2, RearrangingEffect
    <3> QED
      BY <1>1, <3>1 DEF LookupOK
  <2> QED
    BY <2>1, <2>2 DEF Main, Expand, Delete, Rearranges
<1> HIDE DEF l
<1>3. Walking(l, pos)'
  BY <1>2 DEF Walking
<1> QED
  BY <1>3 DEF l

(* What main does keeps every element in its chain.                        *)
LEMMA MainKeepsOrder ==
  ASSUME IInv, Main
  PROVE  Order'
<1> USE DEF IInv
<1>1. PICK pos \in Positions :
        /\ Chains(pos) /\ Walks(pos)
        /\ pc = "relink" => \E moved \in SUBSET Elements : Moving(pos, moved)
        /\ pc \in {"free_old", "set_num", "set_buckets"} => Moved(pos)
  BY DEF Order, Positions
<1>2. CASE Add
  <2>1. /\ pc = "idle" /\ pc' = "link" /\ hashv' = hashv /\ known' = known /\ chain' = chain
        /\ buckets' = buckets
    BY <1>2 DEF Add
  <2>2. tbl'.num_buckets = tbl.num_buckets /\ tbl'.live = tbl.live
    BY <1>2, TblFields DEF Add, Tbl
  <2>3. Chains(pos)'
    BY <1>1, <2>1, <2>2 DEF Chains, InTable
  <2>4. Walks(pos)'
    BY <1>1, <1>2, AddingKeepsWalks
  <2> QED
    BY <2>1, <2>3, <2>4 DEF Order, Positions
<1>3. CASE LinkInBucket
  <2>1. PICK pos2 \in Positions : Chains(pos2)' /\ \A x \in Elements \ {elt} : pos2[x] = pos[x]
    BY <1>1, <1>3, LinkKeepsChains
  <2>2. \A x \in known : pos2[x] = pos[x]
    <3>1. known = 1..elt - 1 /\ elt \in 0..NumElements
      BY <1>3, Ranges DEF Control, Adding, LinkInBucket, Types
    <3>2. \A x \in known : x \in Elements \ {elt}
      BY <3>1, Ranges
    <3> QED
      BY <2>1, <3>2
  <2>3. Walks(pos2)'
    BY <1>1, <1>3, <2>2, AddingKeepsWalks
  <2>4. pc' \in {"idle", "expand"}
    BY <1>3, LinkEffect
  <2> QED
    BY <2>1, <2>3, <2>4 DEF Order, Positions
<1>4. ASSUME ~(Add \/ LinkInBucket)
      PROVE  \A p \in Positions : Walks(p)'
  BY <1>4, DisturbedWalks
<1>5. CASE ExpandBegin
  <2>1. Moving(pos, {})'
    BY <1>1, <1>5, ExpandBeginsMoving
  <2>2. pc' = "relink" /\ ~(Add \/ LinkInBucket)
    BY <1>5 DEF ExpandBegin, Add, LinkInBucket
  <2>3. Chains(pos)'
    BY <2>2 DEF Chains
  <2>4. Walks(pos)'
    BY <1>4, <2>2
  <2>5. {} \in SUBSET Elements
    OBVIOUS
  <2> QED
    BY <2>1, <2>2, <2>3, <2>4, <2>5 DEF Order, Positions
<1>6. CASE Relink
  <2>1. pc = "relink" /\ pc' = "relink" /\ ~(Add \/ LinkInBucket)
    BY <1>6 DEF Relink, Add, LinkInBucket
  <2>2. PICK moved \in SUBSET Elements : Moving(pos, moved)
    BY <1>1, <2>1
  <2>3. PICK pos2 \in Positions, moved2 \in SUBSET Elements : Moving(pos2, moved2)'
    BY <1>6, <2>2, RelinkKeepsMoving
  <2>4. Chains(pos2)'
    BY <2>1 DEF Chains
  <2>5. Walks(pos2)'
    BY <1>4, <2>1
  <2> QED
    BY <2>1, <2>3, <2>4, <2>5 DEF Order, Positions
<1>7. CASE NextBucket
  <2>1. pc = "relink" /\ pc' \in {"relink", "free_old"} /\ ~(Add \/ LinkInBucket)
    BY <1>7 DEF NextBucket, Add, LinkInBucket
  <2>2. PICK moved \in SUBSET Elements : Moving(pos, moved)
    BY <1>1, <2>1
  <2>3. (pc' = "relink" => Moving(pos, moved)') /\ (pc' = "free_old" => Moved(pos)')
    BY <1>7, <2>2, NextBucketKeepsMoving
  <2>4. Chains(pos)'
    BY <2>1 DEF Chains
  <2>5. Walks(pos)'
    BY <1>4, <2>1
  <2> QED
    BY <2>1, <2>3, <2>4, <2>5 DEF Order, Positions
<1>8. CASE FreeOld \/ SetNum
  <2>1. /\ pc \in {"free_old", "set_num"} /\ pc' \in {"set_num", "set_buckets"} /\ ~(Add \/ LinkInBucket)
        /\ hashv' = hashv /\ known' = known /\ fresh' = fresh /\ chain' = chain
    BY <1>8 DEF FreeOld, SetNum, Add, LinkInBucket, table
  <2>2. (IF pc' = "set_buckets" THEN tbl'.num_buckets ELSE 2 * tbl'.num_buckets) = 2 * tbl.num_buckets
        /\ (IF pc = "set_buckets" THEN tbl.num_buckets ELSE 2 * tbl.num_buckets) = 2 * tbl.num_buckets
    BY <1>8, TblFields DEF FreeOld, SetNum, Tbl, table
  <2>3. Moved(pos)'
    BY <1>1, <2>1, <2>2 DEF Moved
  <2>4. Chains(pos)'
    BY <2>1 DEF Chains
  <2>5. Walks(pos)'
    BY <1>4, <2>1
  <2> QED
    BY <2>1, <2>3, <2>4, <2>5 DEF Order, Positions
<1>9. CASE SetBuckets
  <2>1. /\ pc = "set_buckets" /\ pc' = "idle" /\ ~(Add \/ LinkInBucket)
        /\ hashv' = hashv /\ known' = known /\ chain' = chain /\ buckets'.cell = fresh
    BY <1>9 DEF SetBuckets, Add, LinkInBucket
  <2>2. tbl'.num_buckets = tbl.num_buckets
    BY <1>9, TblFields DEF SetBuckets, Tbl
  <2>3. Chains(pos)'
    BY <1>1, <2>1, <2>2 DEF Moved, Chains, InTable
  <2>4. Walks(pos)'
    BY <1>4, <2>1
  <2> QED
    BY <2>1, <2>3, <2>4 DEF Order, Positions
<1>10. CASE Unlink
  <2>1. PICK pos2 \in Positions : Chains(pos2)'
    BY <1>1, <1>10, UnlinkKeepsChains
  <2>2. pc' = "release" /\ ~(Add \/ LinkInBucket)
    BY <1>10 DEF Unlink, Add, LinkInBucket
  <2>3. Walks(pos2)'
    BY <1>4, <2>2
  <2> QED
    BY <2>1, <2>2, <2>3 DEF Order, Positions
<1>11. CASE BeginFree \/ DeleteHead \/ Release \/ DeleteLast \/ ClearHead
  <2>1. /\ ~(Add \/ LinkInBucket) /\ pc' \in {"free", "freed", "unlink", "release", "clear_head"}
        /\ hashv' = hashv /\ chain' = chain /\ buckets' = buckets
    BY <1>11 DEF BeginFree, DeleteHead, Release, DeleteLast, ClearHead, Add, LinkInBucket, table
  <2>2. tbl'.num_buckets = tbl.num_buckets
    BY <1>11, TblFields DEF BeginFree, DeleteHead, Release, DeleteLast, ClearHead, table, Tbl
  <2>3. tbl'.live /\ pc' \in {"free", "unlink", "release"} =>
          /\ tbl.live /\ pc \in {"idle", "free", "release"}
          /\ InTable' = InTable
    <3>1. CASE BeginFree \/ Release
      BY <3>1 DEF BeginFree, Release, table, InTable
    <3>2. CASE DeleteHead
      <4>1. /\ pc = "free" /\ pc' = "unlink" /\ elt' = head /\ known' = known \ {elt'} /\ tbl' = tbl
        BY <3>2 DEF DeleteHead
      <4>2. head \in known
        <5>1. head # Null /\ head \in 0..NumElements /\ tbl.tail \in 0..NumElements
          BY <4>1, Ranges, TblFields DEF Control, Types
        <5>2. head <= tbl.tail /\ known = head..tbl.tail
          BY <4>1, <5>1 DEF Control
        <5> QED
          BY <5>1, <5>2
      <4> QED
        BY <4>1, <4>2 DEF InTable
    <3>3. CASE DeleteLast
      BY <3>3, TblFields DEF DeleteLast, Tbl
    <3>4. CASE ClearHead
      <4>1. pc = "clear_head" /\ tbl' = tbl /\ ~tbl.live
        BY <3>4 DEF ClearHead, table, Control
      <4> QED
        BY <4>1
    <3> QED
      BY <1>11, <3>1, <3>2, <3>3, <3>4
  <2>4. Chains(pos)'
    BY <1>1, <2>1, <2>2, <2>3 DEF Chains
  <2>5. Walks(pos)'
    BY <1>4, <2>1
  <2> QED
    BY <2>1, <2>4, <2>5 DEF Order, Positions
<1> QED
  BY <1>2, <1>3, <1>5, <1>6, <1>7, <1>8, <1>9, <1>10, <1>11 DEF Main, Expand, Delete

-----------------------------------------------------------------------------
(* The steps of the lookups.                                               *)
Sound(l, pos) == l \in Lookup /\ LookupOK(l) /\ ReadsTrue(l) /\ Walking(l, pos)

(* What holds while a lookup is undisturbed.                               *)
LEMMA UndisturbedState ==
  ASSUME IInv, NEW r \in Readers, lookup[r].pc # "idle", ~lookup[r].disturbed
  PROVE  /\ pc \in {"idle", "link", "expand"} /\ freed = {} /\ tbl.live /\ released = buckets.gen
         /\ head # Null /\ lookup[r].head = head
         /\ \A p \in Heads(r) : p = head /\ Usable(p)
         /\ lookup[r].due => lookup[r].key \in known
<1>1. pc \in {"idle", "link", "expand"}
  BY DEF IInv, Lookups, LookupOK, Types, Adding, Rearranging
<1>2. freed = {} /\ tbl.live /\ released = buckets.gen
  BY <1>1 DEF IInv, Control, ArrayInUse, Adding
<1>3. /\ head # Null /\ lookup[r].head = head
      /\ lookup[r].due => lookup[r].key \in known
  BY DEF IInv, Lookups, ReadsTrue
<1>4. \A p \in Heads(r) : p = head /\ Usable(p)
  BY <1>2, <1>3 DEF Heads, Usable
<1> QED
  BY <1>1, <1>2, <1>3, <1>4

(* A thread that is between two lookups.                                   *)
LEMMA NoLookupFields ==
  /\ NoLookup \in Lookup /\ NoLookup.pc = "idle" /\ NoLookup.result = "none"
BY DEF NoLookup, Lookup, OptionalElement

(* A lookup ends with a sound result.                                      *)
LEMMA EndsSound ==
  ASSUME IInv, NEW r \in Readers, NEW result \in {"absent", "found", "undefined"}, Ends(r, result), NEW pos,
         result = "undefined" => lookup[r].disturbed,
         result = "absent" => lookup[r].disturbed \/ ~lookup[r].due
  PROVE  \E l : Becomes(r, l) /\ Sound(l, pos)
<1> DEFINE due == lookup[r].due
           disturbed == lookup[r].disturbed
           l == [NoLookup EXCEPT !.due = due, !.disturbed = disturbed, !.result = result]
<1>1. Becomes(r, l)
  BY DEF Ends
<1>2. due \in BOOLEAN /\ disturbed \in BOOLEAN
  BY DEF IInv, Types, Lookup
<1> HIDE DEF due, disturbed
<1>3. l \in Lookup /\ l.pc = "idle" /\ l.result = result /\ l.due = due /\ l.disturbed = disturbed
  BY <1>2, NoLookupFields DEF Lookup
<1> HIDE DEF l
<1>4. LookupOK(l) /\ Walking(l, pos)
  BY <1>3 DEF LookupOK, Walking
<1>5. ReadsTrue(l)
  BY <1>3 DEF ReadsTrue, due, disturbed
<1> QED
  BY <1>1, <1>3, <1>4, <1>5 DEF Sound

(* A lookup that begins is sound.                                          *)
LEMMA FindSound ==
  ASSUME IInv, NEW r \in Readers, NEW e \in Elements, Find(r, e), NEW pos
  PROVE  \E l : Becomes(r, l) /\ Sound(l, pos)
<1> DEFINE due == e \in known
           disturbed == Rearranging
           call == [NoLookup EXCEPT !.due = due, !.disturbed = disturbed]
<1>1. due \in BOOLEAN /\ disturbed \in BOOLEAN
  BY DEF Rearranging
<1>2. head = Null => disturbed \/ ~due
  <2>1. ASSUME head = Null, ~Rearranging PROVE known = {}
    <3>1. CASE pc = "freed"
      BY <3>1 DEF IInv, Control
    <3>2. CASE pc # "freed"
      <4>1. Adding /\ elt = Null
        BY <2>1, <3>2 DEF IInv, Control, Types, Rearranging, Adding, Null
      <4> QED
        BY <4>1, Ranges DEF IInv, Control
    <3> QED
      BY <3>1, <3>2
  <2> QED
    BY <2>1
<1>3. head # Null => pc # "freed"
  BY DEF IInv, Control
<1>4. head \in OptionalElement
  BY DEF IInv, Types
<1> HIDE DEF due, disturbed
<1>5. /\ call \in Lookup /\ call.pc = "idle" /\ call.result = "none" /\ call.due = due
      /\ call.disturbed = disturbed
  BY <1>1, NoLookupFields DEF Lookup
<1>6. CASE head = Null
  <2> DEFINE l == [call EXCEPT !.result = "absent"]
  <2>1. Becomes(r, l)
    BY <1>6 DEF Find, due, disturbed
  <2> HIDE DEF call
  <2>2. l \in Lookup /\ l.pc = "idle" /\ l.result = "absent" /\ l.due = due /\ l.disturbed = disturbed
    BY <1>5 DEF Lookup
  <2> HIDE DEF l
  <2>3. LookupOK(l) /\ Walking(l, pos) /\ ReadsTrue(l)
    BY <1>2, <1>6, <2>2 DEF LookupOK, Walking, ReadsTrue
  <2> QED
    BY <2>1, <2>2, <2>3 DEF Sound
<1>7. CASE head # Null
  <2> DEFINE l == [call EXCEPT !.pc = "num_buckets", !.key = e, !.head = head]
  <2>1. Becomes(r, l)
    BY <1>7 DEF Find, due, disturbed
  <2> HIDE DEF call
  <2>2. /\ l \in Lookup /\ l.pc = "num_buckets" /\ l.result = "none" /\ l.due = due
        /\ l.disturbed = disturbed /\ l.key = e /\ l.head = head
    BY <1>4, <1>5 DEF Lookup, OptionalElement
  <2> HIDE DEF l
  <2>3. LookupOK(l)
    BY <1>3, <1>7, <2>2 DEF LookupOK, disturbed
  <2>4. Walking(l, pos) /\ ReadsTrue(l)
    BY <1>7, <2>2 DEF Walking, ReadsTrue, due
  <2> QED
    BY <2>1, <2>2, <2>3, <2>4 DEF Sound
<1> QED
  BY <1>6, <1>7

(* The three reads of the table.                                           *)
LEMMA ReadTableSound ==
  ASSUME IInv, NEW r \in Readers, ReadNumBuckets(r) \/ ReadBuckets(r), NEW pos
  PROVE  \E l : Becomes(r, l) /\ Sound(l, pos)
<1> DEFINE k == lookup[r]
<1>1. k \in Lookup /\ k.pc \in {"num_buckets", "buckets"} /\ LookupOK(k) /\ ReadsTrue(k)
  BY DEF IInv, Types, Lookups, ReadNumBuckets, ReadBuckets
<1>2. CASE head = Null /\ Ends(r, "absent")
  BY <1>1, <1>2, EndsSound, UndisturbedState
<1>3. ASSUME NEW p \in Heads(r), ~Usable(p), Ends(r, "undefined")
      PROVE  \E l : Becomes(r, l) /\ Sound(l, pos)
  <2>1. k.disturbed
    BY <1>1, <1>3, UndisturbedState
  <2> QED
    BY <1>3, <2>1, EndsSound
<1>4. \A p \in Heads(r) : p \in OptionalElement
  BY <1>1 DEF Heads, Lookup, IInv, Types
<1>5. ASSUME NEW p \in Heads(r), Usable(p), k.pc = "num_buckets",
             Becomes(r, [k EXCEPT !.pc = "buckets", !.head = p, !.num_buckets = tbl.num_buckets])
      PROVE  \E l : Becomes(r, l) /\ Sound(l, pos)
  <2> DEFINE n == tbl.num_buckets
             l == [k EXCEPT !.pc = "buckets", !.head = p, !.num_buckets = n]
  <2>1. n \in Nat /\ n \in 1..n
    BY TblFields DEF IInv
  <2>2. ~k.disturbed => p = head /\ head # Null
    BY <1>1, UndisturbedState
  <2>3. Becomes(r, l)
    BY <1>5
  <2> HIDE DEF k
  <2>4. /\ l \in Lookup /\ l.pc = "buckets" /\ l.head = p /\ l.num_buckets = n
        /\ l.key = k.key /\ l.due = k.due /\ l.disturbed = k.disturbed /\ l.result = k.result
    BY <1>1, <1>4, <2>1 DEF Lookup
  <2> HIDE DEF l
  <2>5. LookupOK(l)
    BY <1>1, <2>1, <2>4 DEF LookupOK
  <2>6. ReadsTrue(l) /\ Walking(l, pos)
    BY <1>1, <2>2, <2>4 DEF ReadsTrue, Walking
  <2> QED
    BY <2>3, <2>4, <2>5, <2>6 DEF Sound
<1>6. ASSUME NEW p \in Heads(r), Usable(p), k.pc = "buckets",
             Becomes(r, [k EXCEPT !.pc = "hh_head", !.head = p, !.gen = buckets.gen])
      PROVE  \E l : Becomes(r, l) /\ Sound(l, pos)
  <2> DEFINE g == buckets.gen
             l == [k EXCEPT !.pc = "hh_head", !.head = p, !.gen = g]
  <2>1. g \in Nat /\ g <= g
    BY DEF IInv, Types
  <2>2. ~k.disturbed => p = head /\ head # Null
    BY <1>1, UndisturbedState
  <2>3. Becomes(r, l)
    BY <1>6
  <2> HIDE DEF k
  <2>4. /\ l \in Lookup /\ l.pc = "hh_head" /\ l.head = p /\ l.num_buckets = k.num_buckets /\ l.gen = g
        /\ l.key = k.key /\ l.due = k.due /\ l.disturbed = k.disturbed /\ l.result = k.result
    BY <1>1, <1>4, <2>1 DEF Lookup
  <2> HIDE DEF l
  <2>5. LookupOK(l)
    BY <1>1, <1>6, <2>1, <2>4 DEF LookupOK
  <2>6. ReadsTrue(l) /\ Walking(l, pos)
    BY <1>1, <1>6, <2>2, <2>4 DEF ReadsTrue, Walking
  <2> QED
    BY <2>3, <2>4, <2>5, <2>6 DEF Sound
<1>7. CASE ReadNumBuckets(r)
  BY <1>2, <1>3, <1>5, <1>7 DEF ReadNumBuckets
<1>8. CASE ReadBuckets(r)
  BY <1>3, <1>6, <1>8 DEF ReadBuckets
<1> QED
  BY <1>7, <1>8

(* Where an undisturbed lookup walks, the chains are in order.             *)
LEMMA ChainOfLookup ==
  ASSUME IInv, NEW r \in Readers, lookup[r].pc # "idle", ~lookup[r].disturbed,
         NEW pos \in Positions, Chains(pos)
  PROVE  /\ known \in SUBSET Elements
         /\ buckets.cell \in [0..tbl.num_buckets - 1 -> Cell]
         /\ \A b \in 0..tbl.num_buckets - 1 :
              Chained(chain, Members(hashv, known, tbl.num_buckets, b), buckets.cell[b], pos)
<1>1. pc \in {"idle", "link", "expand"} /\ tbl.live
  BY UndisturbedState
<1>2. InTable = known
  BY <1>1 DEF InTable
<1>3. buckets.cell \in [0..tbl.num_buckets - 1 -> Cell]
  BY <1>1 DEF IInv, Types
<1>4. \A b \in 0..tbl.num_buckets - 1 :
        Chained(chain, Members(hashv, known, tbl.num_buckets, b), buckets.cell[b], pos)
  BY <1>1, <1>2 DEF Chains, Table
<1>5. known \in SUBSET Elements
  <2>1. elt \in 0..NumElements /\ known = 1..(IF pc = "link" THEN elt - 1 ELSE elt)
    BY <1>1, Ranges DEF IInv, Types, Control, Adding
  <2> QED
    BY <2>1, Ranges
<1> QED
  BY <1>3, <1>4, <1>5

(* Reading the head of the bucket keeps a lookup sound.                    *)
LEMMA ReadHhHeadSound ==
  ASSUME IInv, NEW r \in Readers, ReadHhHead(r), NEW pos \in Positions, Chains(pos)
  PROVE  \E l : Becomes(r, l) /\ Sound(l, pos)
<1> DEFINE k == lookup[r]
           n == tbl.num_buckets
           b == Bucket(k.key, k.num_buckets)
           first == buckets.cell[b].hh_head
           l == [k EXCEPT !.pc = "walk", !.num_buckets = 0, !.gen = 0, !.out = first]
<1>1. k \in Lookup /\ k.pc = "hh_head" /\ LookupOK(k) /\ ReadsTrue(k) /\ n \in Nat \ {0}
  BY TblFields DEF IInv, Types, Lookups, ReadHhHead
<1>2. CASE k.gen < released
  <2>1. buckets.gen \in Nat /\ Ends(r, "undefined")
    BY <1>2 DEF ReadHhHead, IInv, Types
  <2>2. ASSUME ~k.disturbed PROVE FALSE
    <3>1. released = buckets.gen /\ k.gen = buckets.gen
      BY <1>1, <2>2, UndisturbedState DEF ReadsTrue
    <3> QED
      BY <1>2, <2>1, <3>1
  <2> QED
    BY <2>1, <2>2, EndsSound
<1>3. CASE ~(k.gen < released)
  <2>1. pc # "set_buckets"
    <3>1. k.gen <= buckets.gen /\ k.gen \in Nat /\ buckets.gen \in Nat
      BY <1>1 DEF LookupOK, Lookup, IInv, Types
    <3>2. pc = "set_buckets" => released = buckets.gen + 1
      BY DEF IInv, ArrayInUse
    <3> QED
      BY <1>3, <3>1, <3>2
  <2>2. /\ k.key \in Elements /\ k.num_buckets \in 1..n /\ k.result = "none"
        /\ Rearranging \/ pc = "freed" => k.disturbed
    BY <1>1 DEF LookupOK
  <2>3. b \in 0..n - 1
    <3>1. k.num_buckets \in Nat \ {0}
      BY <1>1, <2>2
    <3>2. b \in 0..k.num_buckets - 1
      BY <2>2, <3>1, BucketInRange DEF IInv
    <3> DEFINE m == k.num_buckets
    <3>3. m \in 1..n /\ b \in 0..m - 1 /\ n \in Nat
      BY <1>1, <2>2, <3>2
    <3> HIDE DEF m, n, b
    <3> QED
      BY <3>3
  <2>4. buckets.cell \in [0..n - 1 -> Cell]
    BY <2>1 DEF IInv, Types
  <2>5. first \in OptionalElement
    BY <2>3, <2>4 DEF Cell
  <2>6. Becomes(r, l)
    BY <1>3 DEF ReadHhHead
  <2>7. ASSUME ~k.disturbed
        PROVE  /\ first # Null => first \in known
               /\ k.due => /\ first # Null /\ Bucket(first, n) = Bucket(k.key, n)
                           /\ pos[k.key] <= pos[first]
               /\ head # Null /\ k.head = head /\ (k.due => k.key \in known)
    <3> DEFINE S == Members(hashv, known, n, b)
               cell == buckets.cell[b]
    <3>1. k.num_buckets = n /\ b = hashv[k.key] % n /\ b = Bucket(k.key, n)
      BY <1>1, <2>7 DEF ReadsTrue, Bucket
    <3>2. /\ Chained(chain, S, cell, pos) /\ cell.count \in Nat /\ Null \notin S
          /\ \A x \in S : x \in known /\ Bucket(x, n) = b
      <4>1. known \in SUBSET Elements /\ Chained(chain, S, cell, pos)
        BY <1>1, <2>3, <2>7, ChainOfLookup
      <4>2. cell.count \in Nat
        BY <2>3, <2>4 DEF Cell
      <4>3. Null \notin S /\ \A x \in S : x \in known /\ Bucket(x, n) = b
        BY <4>1, ElementsArePositive DEF Members, Bucket
      <4> QED
        BY <4>1, <4>2, <4>3
    <3>3. k.due => k.key \in S
      <4>1. k.due => k.key \in known
        BY <1>1, <2>7, UndisturbedState
      <4> QED
        BY <3>1, <4>1 DEF Members
    <3>4. head # Null /\ k.head = head
      BY <1>1, <2>7, UndisturbedState
    <3> HIDE DEF S, cell
    <3>5. Follows(chain, S, cell.hh_head, pos)
      BY <3>2, ChainedFollows
    <3>6. /\ cell.hh_head # Null => cell.hh_head \in S
          /\ k.key \in S => cell.hh_head # Null /\ pos[k.key] <= pos[cell.hh_head]
      BY <3>5 DEF Follows
    <3>7. k.due => k.key \in known
      BY <3>2, <3>3
    <3> QED
      BY <3>1, <3>2, <3>3, <3>4, <3>6, <3>7 DEF cell
  <2> HIDE DEF k, first
  <2>8. /\ l \in Lookup /\ l.pc = "walk" /\ l.out = first /\ l.head = k.head
        /\ l.key = k.key /\ l.due = k.due /\ l.disturbed = k.disturbed /\ l.result = k.result
    BY <1>1, <2>5 DEF Lookup
  <2> HIDE DEF l, n, b
  <2>9. LookupOK(l)
    BY <2>2, <2>8 DEF LookupOK
  <2>10. ReadsTrue(l)
    BY <2>2, <2>7, <2>8 DEF ReadsTrue
  <2>11. Walking(l, pos)
    BY <2>7, <2>8 DEF Walking, n
  <2> QED
    BY <2>6, <2>8, <2>9, <2>10, <2>11 DEF Sound
<1> QED
  BY <1>2, <1>3

(* Comparing a key, and going on to hh_next, keeps a lookup sound.         *)
LEMMA CompareSound ==
  ASSUME IInv, NEW r \in Readers, Compare(r), NEW pos \in Positions, Chains(pos),
         Walking(lookup[r], pos)
  PROVE  \E l : Becomes(r, l) /\ Sound(l, pos)
<1> DEFINE k == lookup[r]
           n == tbl.num_buckets
           out == k.out
           after == chain[out].next
           l == [k EXCEPT !.out = after]
<1>1. /\ k \in Lookup /\ k.pc = "walk" /\ LookupOK(k) /\ ReadsTrue(k) /\ n \in Nat \ {0}
      /\ out \in OptionalElement
  BY TblFields DEF IInv, Types, Lookups, Compare, Lookup
<1>2. CASE out = Null /\ Ends(r, "absent")
  <2>1. k.disturbed \/ ~k.due
    BY <1>1, <1>2 DEF Walking
  <2> QED
    BY <1>2, <2>1, EndsSound
<1>3. CASE out \in freed /\ Ends(r, "undefined")
  <2>1. k.disturbed
    BY <1>1, <1>3, UndisturbedState
  <2> QED
    BY <1>3, <2>1, EndsSound
<1>4. CASE Ends(r, "found")
  BY <1>4, EndsSound
<1>5. CASE out # Null /\ out \notin freed /\ out # k.key /\ Becomes(r, l)
  <2>1. Becomes(r, l)
    BY <1>5
  <2>2. after \in OptionalElement
    <3>1. out \in Elements
      BY <1>1, <1>5 DEF OptionalElement
    <3> QED
      BY <3>1, LinksOf DEF IInv, Types, Chain
  <2>3. ASSUME ~k.disturbed
        PROVE  /\ after # Null => after \in known
               /\ k.due => /\ after # Null /\ Bucket(after, n) = Bucket(k.key, n)
                           /\ pos[k.key] <= pos[after]
    <3> DEFINE b == Bucket(out, n)
               S == Members(hashv, known, n, b)
               cell == buckets.cell[b]
    <3>1. out \in known /\ (k.due => Bucket(out, n) = Bucket(k.key, n) /\ pos[k.key] <= pos[out])
      BY <1>1, <1>5, <2>3 DEF Walking
    <3>2. known \in SUBSET Elements /\ (k.due => k.key \in known)
      BY <1>1, <2>3, ChainOfLookup, UndisturbedState
    <3>3. b \in 0..n - 1
      BY <1>1, <3>1, <3>2, BucketInRange DEF IInv
    <3>4. Chained(chain, S, cell, pos)
      BY <1>1, <2>3, <3>3, ChainOfLookup
    <3>5. /\ out \in S /\ (k.due => k.key \in S)
          /\ \A x \in S : x \in known /\ Bucket(x, n) = b /\ pos[x] \in Nat \ {0}
      BY <3>1, <3>2 DEF Members, Bucket, Positions
    <3> HIDE DEF S, cell
    <3>6. /\ after = Null <=> pos[out] = 1
          /\ after # Null => after \in S /\ pos[after] = pos[out] - 1
          /\ k.key \in S /\ pos[k.key] = pos[out] => k.key = out
      BY <3>4, <3>5 DEF Chained, Numbered
    <3>7. k.due => pos[out] # 1 /\ pos[k.key] <= pos[out] - 1
      BY <1>5, <3>1, <3>5, <3>6
    <3> QED
      BY <3>1, <3>5, <3>6, <3>7
  <2> HIDE DEF k, after
  <2>4. /\ l \in Lookup /\ l.pc = "walk" /\ l.out = after /\ l.head = k.head
        /\ l.key = k.key /\ l.due = k.due /\ l.disturbed = k.disturbed /\ l.result = k.result
    BY <1>1, <2>2 DEF Lookup
  <2> HIDE DEF l
  <2>5. LookupOK(l) /\ ReadsTrue(l)
    BY <1>1, <2>4 DEF LookupOK, ReadsTrue
  <2>6. Walking(l, pos)
    BY <2>3, <2>4 DEF Walking
  <2> QED
    BY <2>1, <2>4, <2>5, <2>6 DEF Sound
<1> QED
  BY <1>2, <1>3, <1>4, <1>5 DEF Compare

(* Every step of a lookup keeps it sound.                                  *)
LEMMA ReaderSound ==
  ASSUME IInv, NEW r \in Readers, Step(r) \/ \E e \in Elements : Find(r, e),
         NEW pos \in Positions, Chains(pos), Walks(pos)
  PROVE  \E l : Becomes(r, l) /\ Sound(l, pos)
<1>1. CASE \E e \in Elements : Find(r, e)
  BY <1>1, FindSound
<1>2. CASE ReadNumBuckets(r) \/ ReadBuckets(r)
  BY <1>2, ReadTableSound
<1>3. CASE ReadHhHead(r)
  BY <1>3, ReadHhHeadSound
<1>4. CASE Compare(r)
  BY <1>4, CompareSound DEF Walks
<1>5. CASE LosesTable(r)
  <2>1. Ends(r, "undefined") /\ lookup[r].pc # "idle" /\ \E p \in Heads(r) : ~Usable(p)
    BY <1>5 DEF LosesTable
  <2>2. lookup[r].disturbed
    BY <2>1, UndisturbedState
  <2> QED
    BY <2>1, <2>2, EndsSound
<1> QED
  BY <1>1, <1>2, <1>3, <1>4, <1>5 DEF Step

(* A step of a lookup changes nothing else.                                *)
LEMMA ReaderKeepsInvariant ==
  ASSUME IInv, NEW r \in Readers, Step(r) \/ \E e \in Elements : Find(r, e)
  PROVE  IInv'
<1>1. PICK pos \in Positions :
        /\ Chains(pos) /\ Walks(pos)
        /\ pc = "relink" => \E moved \in SUBSET Elements : Moving(pos, moved)
        /\ pc \in {"free_old", "set_num", "set_buckets"} => Moved(pos)
  BY DEF IInv, Order, Positions
<1>2. PICK l : Becomes(r, l) /\ Sound(l, pos)
  BY <1>1, ReaderSound
<1>3. /\ lookup' = [lookup EXCEPT ![r] = l]
      /\ hashv' = hashv /\ head' = head /\ list' = list /\ tbl' = tbl /\ buckets' = buckets
      /\ fresh' = fresh /\ cursor' = cursor /\ chain' = chain /\ pc' = pc /\ elt' = elt /\ known' = known
      /\ freed' = freed /\ released' = released
  BY <1>2 DEF Becomes, table
<1>4. lookup \in [Readers -> Lookup] /\ l \in Lookup
  BY <1>2 DEF IInv, Types, Sound
<1>5. lookup' \in [Readers -> Lookup] /\ \A q \in Readers : lookup'[q] = IF q = r THEN l ELSE lookup[q]
  BY <1>3, <1>4
<1>6. Types'
  BY <1>3, <1>5 DEF IInv, Types, Adding
<1>7. Control' /\ ListOrder' /\ ArrayInUse'
  BY <1>3 DEF IInv, Control, ListOrder, ArrayInUse, Adding
<1>8. ASSUME NEW q \in Readers
      PROVE  LookupOK(lookup[q])' /\ ReadsTrue(lookup[q])' /\ Walking(lookup[q], pos)'
  <2> DEFINE k == IF q = r THEN l ELSE lookup[q]
  <2>1. LookupOK(k) /\ ReadsTrue(k) /\ Walking(k, pos)
    BY <1>1, <1>2 DEF Sound, IInv, Lookups, Walks
  <2>2. lookup[q]' = k
    BY <1>5
  <2> HIDE DEF k
  <2>3. LookupOK(lookup[q])'
    BY <1>3, <2>1, <2>2 DEF LookupOK, Rearranging
  <2>4. ReadsTrue(lookup[q])'
    BY <1>3, <2>1, <2>2 DEF ReadsTrue
  <2>5. Walking(lookup[q], pos)'
    BY <1>3, <2>1, <2>2 DEF Walking, Bucket
  <2> QED
    BY <2>3, <2>4, <2>5
<1>9. Lookups' /\ Walks(pos)'
  BY <1>8 DEF Lookups, Walks
<1>10. Order'
  <2>1. Chains(pos)'
    BY <1>1, <1>3 DEF Chains, InTable
  <2>2. pc' = "relink" => \E moved \in SUBSET Elements : Moving(pos, moved)'
    BY <1>1, <1>3 DEF Moving, Bucket
  <2>3. pc' \in {"free_old", "set_num", "set_buckets"} => Moved(pos)'
    BY <1>1, <1>3 DEF Moved
  <2> QED
    BY <1>9, <2>1, <2>2, <2>3 DEF Order, Positions
<1> QED
  BY <1>6, <1>7, <1>9, <1>10 DEF IInv

-----------------------------------------------------------------------------
(* The invariant holds before the first HASH_ADD_PTR.                      *)
LEMMA InitInvariant == Init => IInv
<1> SUFFICES ASSUME Init PROVE IInv
  OBVIOUS
<1>1. InitialBuckets \in Nat \ {0} /\ Null \in OptionalElement
  BY DEF OptionalElement
<1> DEFINE n == InitialBuckets
<1>2. DOMAIN Array(n) = 0..n - 1 /\ Array(n) \in [0..n - 1 -> Cell] /\ Array(0) \in [0..0 - 1 -> Cell]
      /\ DOMAIN Array(0) = 0..0 - 1
  BY <1>1, EmptyTable
<1>3. Types
  <2>1. Unlinked \in Links /\ tbl \in Tbl /\ tbl.num_buckets = n
    BY <1>1 DEF Init, Unlinked, Links, Tbl
  <2>2. NoLookup \in Lookup
    BY NoLookupFields
  <2>3. cursor \in [bkt_i : Nat, thh : OptionalElement]
    BY <1>1 DEF Init
  <2>4. /\ buckets = [gen |-> buckets.gen, cell |-> buckets.cell] /\ buckets.gen \in Nat
        /\ buckets.cell = Array(n) /\ fresh = Array(0)
    BY DEF Init
  <2> HIDE DEF n
  <2>5. /\ hashv \in Hashes /\ head = Null /\ list = [e \in Elements |-> Unlinked]
        /\ chain = [e \in Elements |-> Unlinked] /\ pc = "idle" /\ elt = Null
        /\ lookup = [r \in Readers |-> NoLookup]
    BY DEF Init
  <2> QED
    BY <1>1, <1>2, <2>1, <2>2, <2>3, <2>4, <2>5 DEF Types, Adding
<1>4. Control
  <2>1. pc = "idle" /\ elt = 0 /\ tbl.tail = 0 /\ tbl.num_items = 0 /\ tbl.live /\ known = {} /\ freed = {}
        /\ head = Null /\ Null = 0
    BY DEF Init, Null
  <2> QED
    BY <2>1 DEF Control, Adding
<1>5. ListOrder /\ ArrayInUse
  BY DEF Init, ListOrder, ArrayInUse, Null
<1>6. ASSUME NEW r \in Readers, NEW pos
      PROVE  LookupOK(lookup[r]) /\ ReadsTrue(lookup[r]) /\ Walking(lookup[r], pos)
  <2> DEFINE l == lookup[r]
  <2>1. l.pc = "idle" /\ l.result = "none"
    BY NoLookupFields DEF Init
  <2> HIDE DEF l
  <2>2. LookupOK(l) /\ ReadsTrue(l) /\ Walking(l, pos)
    BY <2>1 DEF LookupOK, ReadsTrue, Walking
  <2> QED
    BY <2>2 DEF l
<1>7. Order
  <2> DEFINE pos == [e \in Elements |-> 1]
  <2>1. pos \in [Elements -> Nat \ {0}]
    OBVIOUS
  <2> HIDE DEF pos
  <2>2. Chains(pos)
    <3>1. InTable = {} /\ tbl.num_buckets = n /\ buckets.cell = Array(n)
      BY DEF Init, InTable
    <3>2. Table(hashv, {}, n, Array(n), chain, pos)
      BY <1>1, EmptyTable
    <3> QED
      BY <3>1, <3>2 DEF Chains
  <2>3. pc = "idle"
    BY DEF Init
  <2>4. Walks(pos)
    BY <1>6 DEF Walks
  <2> QED
    BY <2>1, <2>2, <2>3, <2>4 DEF Order
<1>8. Lookups
  BY <1>6 DEF Lookups
<1> QED
  BY <1>3, <1>4, <1>5, <1>7, <1>8 DEF IInv

(* Every step of main and of the threads keeps the invariant.              *)
LEMMA NextInvariant == IInv /\ [Next]_vars => IInv'
<1> SUFFICES ASSUME IInv, [Next]_vars PROVE IInv'
  OBVIOUS
<1>1. CASE Main
  <2>1. (Add \/ LinkInBucket \/ Expand) \/ Delete
    BY <1>1 DEF Main
  <2>2. Types' /\ Control'
    BY <2>1, AddingKeepsTypes, DeletingKeepsTypes, AddingKeepsControl, DeletingKeepsControl
  <2>3. ListOrder' /\ ArrayInUse' /\ Lookups' /\ Order'
    BY <1>1, MainKeepsListOrder, MainKeepsArrayInUse, MainKeepsLookups, MainKeepsOrder
  <2> QED
    BY <2>2, <2>3 DEF IInv
<1>2. ASSUME NEW r \in Readers, Step(r) \/ \E e \in Elements : Find(r, e)
      PROVE  IInv'
  BY <1>2, ReaderKeepsInvariant
<1>3. CASE UNCHANGED vars
  <2>1. /\ lookup' = lookup /\ hashv' = hashv /\ head' = head /\ list' = list /\ tbl' = tbl
        /\ buckets' = buckets /\ fresh' = fresh /\ cursor' = cursor /\ chain' = chain /\ pc' = pc
        /\ elt' = elt /\ known' = known /\ freed' = freed /\ released' = released
    BY <1>3 DEF vars, table
  <2>2. Types' /\ Control' /\ ListOrder' /\ ArrayInUse'
    BY <2>1 DEF IInv, Types, Control, ListOrder, ArrayInUse, Adding
  <2>3. Lookups'
    BY <2>1 DEF IInv, Lookups, LookupOK, ReadsTrue, Rearranging
  <2>4. Order'
    BY <2>1 DEF IInv, Order, Chains, Moving, Moved, Walks, Walking, InTable, Bucket
  <2> QED
    BY <2>2, <2>3, <2>4 DEF IInv
<1> QED
  BY <1>1, <1>2, <1>3 DEF Next

(* IInv holds in every reachable state, for every number of elements, any  *)
(* hash function and any number of threads.                                *)
THEOREM Invariance == Spec => []IInv
<1>1. Init => IInv
  BY InitInvariant
<1>2. IInv /\ [Next]_vars => IInv'
  BY NextInvariant
<1> QED
  BY <1>1, <1>2, PTL DEF Spec

(* The variables of HashTable keep their types; what is known is never     *)
(* freed.                                                                  *)
THEOREM TypeCorrect == Spec => []TypeOK
<1>1. IInv => TypeOK
  <2> SUFFICES ASSUME IInv PROVE TypeOK
    OBVIOUS
  <2>1. /\ hashv \in Hashes /\ head \in OptionalElement /\ list \in [Elements -> Links]
        /\ chain \in [Elements -> Links] /\ elt \in OptionalElement
        /\ DOMAIN buckets.cell = 0..tbl.num_buckets - 1 \/ pc = "set_buckets"
    BY DEF IInv, Types
  <2>2. IsArray(buckets.cell) /\ IsArray(fresh)
    BY DEF IInv, Types, IsArray, Cell
  <2>3. tbl.tail \in OptionalElement /\ tbl.num_items \in Nat
    BY TblFields DEF IInv
  <2>4. pc \in {"idle", "link", "expand", "freed"} \/ Rearranging
    BY DEF IInv, Types, Adding, Rearranging
  <2>5. known \subseteq Elements \ freed
    <3>1. elt \in 0..NumElements /\ head \in 0..NumElements /\ tbl.tail \in 0..NumElements
          /\ Elements = 1..NumElements
      BY <2>1, <2>3, Ranges
    <3>2. CASE Adding
      BY <3>1, <3>2 DEF IInv, Control
    <3>3. CASE pc \in {"free", "unlink", "release"} /\ head # Null
      <4>1. /\ head <= tbl.tail /\ known = head..tbl.tail
            /\ freed = 1..(IF pc = "free" THEN head - 1 ELSE head - 2)
        BY <3>3 DEF IInv, Control
      <4> QED
        BY <3>1, <3>3, <4>1, Ranges
    <3>4. CASE ~Adding /\ ~(pc \in {"free", "unlink", "release"} /\ head # Null)
      BY <3>4 DEF IInv, Control, Types
    <3> QED
      BY <3>2, <3>3, <3>4
  <2>6. released \in {buckets.gen, buckets.gen + 1}
    BY DEF IInv, ArrayInUse
  <2>7. \A r \in Readers :
          /\ lookup[r].key \in OptionalElement /\ lookup[r].out \in OptionalElement
          /\ lookup[r].result \in {"none", "absent", "found", "undefined"}
    BY DEF IInv, Types, Lookup
  <2> QED
    BY <2>1, <2>2, <2>3, <2>4, <2>5, <2>6, <2>7 DEF TypeOK
<1> QED
  BY <1>1, Invariance, PTL

(* A HASH_FIND that no expansion and no HASH_DEL disturbs finds what has   *)
(* been added and touches nothing that is freed, although main adds        *)
(* elements and links them meanwhile.                                      *)
THEOREM LookupsAreSafe == Spec => []UndisturbedLookups
<1>1. IInv => UndisturbedLookups
  BY DEF IInv, Lookups, ReadsTrue, UndisturbedLookups
<1> QED
  BY <1>1, Invariance, PTL

-----------------------------------------------------------------------------
(* Positions and links agree with the walk along the links by which Fsck   *)
(* checks them.                                                            *)
LEMMA LeastNumber ==
  ASSUME NEW T \in SUBSET Nat, T # {}
  PROVE  \E x \in T : \A y \in T : x <= y
<1>1. PICK x \in T : \A y \in T : ~(<<y, x>> \in OpToRel(<, Nat))
  BY NatLessThanWellFounded, WFMin
<1>2. \A y \in T : y < x => <<y, x>> \in OpToRel(<, Nat)
  BY DEF OpToRel
<1>3. \A y \in T : ~(y < x)
  BY <1>1, <1>2
<1>4. \A y \in T : x <= y
  BY <1>3
<1> QED
  BY <1>4

(* Members that are visited one after the other, as g says, are linked.    *)
LEMMA VisitedInOrder ==
  ASSUME NEW links, NEW members, NEW n \in Nat, Cardinality(members) = n, NEW g,
         \A i \in 1..n : g[i - 1] # Null /\ g[i] = links[g[i - 1]].next,
         g[n] = Null, members = {g[i] : i \in 0..n - 1},
         \A i \in 0..n - 1 : links[g[i]].prev = (IF i = 0 THEN Null ELSE g[i - 1])
  PROVE  WellLinked(g[0], links, members)
<1> DEFINE Body(f, i) == IF i = 0 THEN g[0] ELSE IF f[i - 1] = Null THEN Null ELSE links[f[i - 1]].next
           at[i \in 0..Cardinality(members)] ==
             IF i = 0 THEN g[0] ELSE IF at[i - 1] = Null THEN Null ELSE links[at[i - 1]].next
           walk == [i \in 0..n |-> g[i]]
<1>1. walk = [i \in 0..n |-> Body(walk, i)]
  <2>1. ASSUME NEW i \in 0..n PROVE g[i] = Body(walk, i)
    <3>1. CASE i = 0
      BY <3>1
    <3>2. CASE i # 0
      <4>1. i \in 1..n /\ i - 1 \in 0..n
        BY <3>2
      <4>2. walk[i - 1] = g[i - 1]
        BY <4>1
      <4> QED
        BY <3>2, <4>1, <4>2
    <3> QED
      BY <3>1, <3>2
  <2> QED
    BY <2>1
<1>2. at = [i \in 0..n |-> Body(at, i)]
  <2>1. at = CHOOSE f : f = [i \in 0..n |-> Body(f, i)]
    OBVIOUS
  <2> HIDE DEF walk, at
  <2> QED
    BY <1>1, <2>1
<1> HIDE DEF at
<1>3. \A i \in 0..n : at[i] = g[i]
  <2> DEFINE wrong == {i \in 0..n : at[i] # g[i]}
  <2>1. ASSUME wrong # {} PROVE FALSE
    <3>0. wrong \in SUBSET Nat /\ wrong # {}
      BY <2>1
    <3>1. PICK i \in wrong : \A j \in wrong : i <= j
      <4> HIDE DEF wrong
      <4> QED
        BY <3>0, LeastNumber
    <3>2. i \in 0..n /\ at[i] # g[i] /\ at[i] = Body(at, i)
      BY <1>2
    <3>3. i # 0 /\ i - 1 \in 0..n /\ i \in 1..n
      BY <3>2
    <3>4. at[i - 1] = g[i - 1]
      BY <3>1, <3>2, <3>3
    <3> QED
      BY <3>2, <3>3, <3>4
  <2> QED
    BY <2>1
<1>4. /\ {at[i] : i \in 0..n - 1} = members /\ at[n] = Null
      /\ \A i \in 0..n - 1 : links[at[i]].prev = (IF i = 0 THEN Null ELSE at[i - 1])
  <2>1. \A i \in 0..n - 1 : i \in 0..n /\ at[i] = g[i]
    BY <1>3
  <2>2. \A i \in 0..n - 1 : i # 0 => i - 1 \in 0..n /\ at[i - 1] = g[i - 1]
    BY <1>3
  <2>3. at[n] = g[n]
    BY <1>3
  <2> QED
    BY <2>1, <2>2, <2>3
<1> QED
  BY <1>4 DEF WellLinked, at

(* A set whose elements are numbered from 1 to n has n elements.           *)
LEMMA Counted ==
  ASSUME NEW S, NEW n \in Nat, NEW pos, Numbered(S, n, pos)
  PROVE  IsFiniteSet(S) /\ Cardinality(S) = n
<1> DEFINE f == [i \in 1..n |-> CHOOSE x \in S : pos[x] = i]
<1>1. \A i \in 1..n : f[i] \in S /\ pos[f[i]] = i
  BY DEF Numbered
<1>2. f \in [1..n -> S]
  BY <1>1
<1>3. \A i, j \in 1..n : f[i] = f[j] => i = j
  BY <1>1
<1>4. \A x \in S : pos[x] \in 1..n /\ f[pos[x]] = x
  BY <1>1 DEF Numbered
<1> HIDE DEF f
<1>5. f \in Bijection(1..n, S)
  BY <1>2, <1>3, <1>4, Fun_IsBij
<1>6. IsFiniteSet(1..n) /\ Cardinality(1..n) = n
  <2>1. IsFiniteSet(1..n) /\ Cardinality(1..n) = IF 1 > n THEN 0 ELSE n - 1 + 1
    BY FS_Interval
  <2> QED
    BY <2>1
<1>7. ExistsBijection(1..n, S)
  BY <1>5 DEF ExistsBijection
<1> QED
  BY <1>6, <1>7, FS_Bijection

(* HASH_FSCK accepts the chain of a bucket: walking it from hh_head visits *)
(* the elements by falling position.                                       *)
LEMMA ChainedIsWellLinked ==
  ASSUME NEW S, NEW cell, cell.count \in Nat, NEW links, NEW pos, Null \notin S,
         Chained(links, S, cell, pos)
  PROVE  WellLinked(cell.hh_head, links, S) /\ cell.count = Cardinality(S)
<1> DEFINE n == cell.count
           at(k) == CHOOSE x \in S : pos[x] = k
           g == [i \in 0..n |-> IF i < n THEN at(n - i) ELSE Null]
<1>1. /\ n \in Nat /\ Numbered(S, n, pos)
      /\ \A x, y \in S : pos[x] = pos[y] => x = y
      /\ n = 0 => cell.hh_head = Null
      /\ n # 0 => cell.hh_head \in S /\ pos[cell.hh_head] = n /\ links[cell.hh_head].prev = Null
  BY DEF Chained, Numbered
<1>2. ASSUME NEW x \in S
      PROVE  /\ links[x].next = Null <=> pos[x] = 1
             /\ links[x].next # Null => /\ links[x].next \in S /\ pos[links[x].next] = pos[x] - 1
                                        /\ links[links[x].next].prev = x
  BY DEF Chained
<1>3. Cardinality(S) = n
  BY <1>1, Counted
<1>4. \A k \in 1..n : at(k) \in S /\ pos[at(k)] = k
  BY <1>1 DEF Numbered
<1> HIDE DEF at
<1>5. ASSUME NEW i \in 0..n - 1 PROVE g[i] = at(n - i) /\ g[i] \in S /\ g[i] # Null /\ pos[g[i]] = n - i
  <2>1. n - i \in 1..n /\ i \in 0..n /\ i < n
    BY <1>1
  <2> HIDE DEF n
  <2> QED
    BY <1>4, <2>1
<1>6. g[n] = Null
  BY <1>1
<1> HIDE DEF g
<1>7. g[0] = cell.hh_head
  <2>1. CASE n = 0
    BY <1>1, <1>6, <2>1
  <2>2. CASE n # 0
    <3>1. 0 \in 0..n - 1 /\ n - 0 = n
      BY <1>1, <2>2
    <3> HIDE DEF n
    <3>2. g[0] \in S /\ pos[g[0]] = n
      BY <1>5, <3>1
    <3> QED
      BY <1>1, <2>2, <3>2
  <2> QED
    BY <2>1, <2>2
<1> HIDE DEF n
<1>8. ASSUME NEW i \in 1..n
      PROVE  /\ g[i - 1] # Null /\ g[i] = links[g[i - 1]].next
             /\ i # n => links[g[i]].prev = g[i - 1]
  <2>1. i - 1 \in 0..n - 1 /\ n - (i - 1) = n - i + 1
    BY <1>1
  <2>2. g[i - 1] \in S /\ g[i - 1] # Null /\ pos[g[i - 1]] = n - i + 1
    BY <1>5, <2>1
  <2>3. CASE i = n
    <3>1. pos[g[i - 1]] = 1
      BY <1>1, <2>2, <2>3
    <3> QED
      BY <1>2, <1>6, <2>2, <2>3, <3>1
  <2>4. CASE i # n
    <3>1. i \in 0..n - 1 /\ n - i + 1 # 1 /\ n - i + 1 - 1 = n - i
      BY <1>1, <2>4
    <3>2. g[i] \in S /\ pos[g[i]] = n - i
      BY <1>5, <3>1
    <3> DEFINE x == g[i - 1]
    <3>3. x \in S /\ pos[x] = n - i + 1
      BY <2>2
    <3> HIDE DEF x
    <3>4. pos[x] # 1 /\ pos[x] - 1 = n - i
      <4>1. \A p : p = n - i + 1 => p # 1 /\ p - 1 = n - i
        BY <1>1, <2>4
      <4> QED
        BY <3>3, <4>1, Zenon
    <3>5. links[x].next \in S /\ pos[links[x].next] = n - i /\ links[links[x].next].prev = x
      BY <1>2, <3>3, <3>4
    <3>6. links[x].next = g[i]
      BY <1>1, <3>2, <3>5
    <3> QED
      BY <2>2, <3>5, <3>6 DEF x
  <2> QED
    BY <2>3, <2>4
<1>9. S = {g[i] : i \in 0..n - 1}
  <2>1. ASSUME NEW x \in S PROVE \E i \in 0..n - 1 : x = g[i]
    <3> DEFINE i == n - pos[x]
    <3>1. pos[x] \in 1..n
      BY <1>1 DEF Numbered
    <3>2. i \in 0..n - 1 /\ n - i = pos[x]
      BY <1>1, <3>1
    <3> HIDE DEF i
    <3>3. g[i] \in S /\ pos[g[i]] = pos[x]
      BY <1>5, <3>2
    <3> QED
      BY <1>1, <3>2, <3>3
  <2> QED
    BY <1>5, <2>1
<1>10. \A i \in 0..n - 1 : links[g[i]].prev = (IF i = 0 THEN Null ELSE g[i - 1])
  <2>1. ASSUME NEW i \in 0..n - 1 PROVE links[g[i]].prev = (IF i = 0 THEN Null ELSE g[i - 1])
    <3>1. CASE i = 0
      <4>1. n # 0
        BY <1>1, <3>1
      <4> QED
        BY <1>1, <1>7, <3>1, <4>1
    <3>2. CASE i # 0
      <4>1. i \in 1..n /\ i # n
        BY <1>1, <3>2
      <4> QED
        BY <1>8, <3>2, <4>1
    <3> QED
      BY <3>1, <3>2
  <2> QED
    BY <2>1
<1>11. WellLinked(g[0], links, S)
  BY <1>1, <1>3, <1>6, <1>8, <1>9, <1>10, VisitedInOrder
<1> QED
  BY <1>3, <1>7, <1>11 DEF n

(* The list runs from head to the element that was added last.             *)
LEMMA ListIsWellLinked ==
  ASSUME IInv, head # Null, known = head..tbl.tail, head <= tbl.tail
  PROVE  WellLinked(head, list, known) /\ Cardinality(known) = tbl.tail - head + 1
<1> DEFINE n == tbl.tail - head + 1
           g == [i \in 0..n |-> IF i < n THEN head + i ELSE Null]
<1>1. head \in Nat \ {0} /\ tbl.tail \in Nat /\ n \in Nat \ {0} /\ Null = 0
  <2>1. head \in 0..NumElements /\ tbl.tail \in 0..NumElements
    BY Ranges, TblFields DEF IInv, Types
  <2> QED
    BY <2>1, Ranges
<1>2. Cardinality(known) = n
  <2>1. Cardinality(head..tbl.tail) = IF head > tbl.tail THEN 0 ELSE tbl.tail - head + 1
    <3>1. head \in Int /\ tbl.tail \in Int
      BY <1>1
    <3> QED
      BY <3>1, FS_Interval
  <2> QED
    BY <1>1, <2>1
<1>3. /\ \A i \in 0..n - 1 : g[i] = head + i /\ g[i] \in head..tbl.tail /\ g[i] \in 1..tbl.tail
      /\ g[n] = Null /\ g[0] = head
  BY <1>1
<1>4. /\ \A e \in 1..tbl.tail : list[e].next = (IF e = tbl.tail THEN Null ELSE e + 1)
      /\ \A e \in head..tbl.tail : list[e].prev = (IF e = head THEN Null ELSE e - 1)
  BY DEF IInv, ListOrder
<1> HIDE DEF g
<1>5. \A i \in 1..n : g[i - 1] # Null /\ g[i] = list[g[i - 1]].next
  <2>1. ASSUME NEW i \in 1..n PROVE g[i - 1] # Null /\ g[i] = list[g[i - 1]].next
    <3>1. i - 1 \in 0..n - 1
      BY <1>1
    <3>2. g[i - 1] = head + (i - 1) /\ g[i - 1] \in 1..tbl.tail
      BY <1>3, <3>1
    <3>3. list[g[i - 1]].next = (IF g[i - 1] = tbl.tail THEN Null ELSE g[i - 1] + 1)
      BY <1>4, <3>2
    <3>4. CASE i = n
      BY <1>1, <1>3, <3>2, <3>3, <3>4
    <3>5. CASE i # n
      <4>1. i \in 0..n - 1 /\ head + (i - 1) # tbl.tail
        BY <1>1, <3>5
      <4>2. g[i] = head + i
        BY <1>3, <4>1
      <4> QED
        BY <1>1, <3>2, <3>3, <4>1, <4>2
    <3> QED
      BY <3>4, <3>5
  <2> QED
    BY <2>1
<1>6. known = {g[i] : i \in 0..n - 1}
  <2>1. ASSUME NEW e \in head..tbl.tail PROVE \E i \in 0..n - 1 : e = g[i]
    <3> DEFINE i == e - head
    <3>1. i \in 0..n - 1 /\ head + i = e
      BY <1>1
    <3> HIDE DEF i, n
    <3> QED
      BY <1>3, <3>1
  <2> QED
    BY <1>3, <2>1
<1>7. \A i \in 0..n - 1 : list[g[i]].prev = (IF i = 0 THEN Null ELSE g[i - 1])
  <2>1. ASSUME NEW i \in 0..n - 1 PROVE list[g[i]].prev = (IF i = 0 THEN Null ELSE g[i - 1])
    <3>1. g[i] = head + i /\ list[g[i]].prev = (IF g[i] = head THEN Null ELSE g[i] - 1)
      BY <1>3, <1>4
    <3>2. CASE i = 0
      BY <1>1, <3>1, <3>2
    <3>3. CASE i # 0
      <4>1. i - 1 \in 0..n - 1
        BY <1>1, <3>3
      <4>2. g[i - 1] = head + (i - 1)
        BY <1>3, <4>1
      <4>3. \A p : p = head + i => p # head /\ p - 1 = head + (i - 1)
        BY <1>1, <3>3
      <4>4. g[i] # head /\ g[i] - 1 = head + (i - 1)
        BY <3>1, <4>3, Zenon
      <4> QED
        BY <3>1, <3>3, <4>2, <4>4
    <3> QED
      BY <3>2, <3>3
  <2> QED
    BY <2>1
<1>8. n \in Nat
  BY <1>1
<1> HIDE DEF n
<1>9. WellLinked(g[0], list, known)
  BY <1>2, <1>3, <1>5, <1>6, <1>7, <1>8, VisitedInOrder
<1> QED
  BY <1>2, <1>3, <1>9 DEF n

(* Whenever no macro is under way the table passes HASH_FSCK: every bucket *)
(* holds its elements, each once and in both directions, its counter and   *)
(* the number of items are right, and the list runs through all elements.  *)
(* The walk is a recursive function: LeastNumber stands in for the         *)
(* induction.                                                              *)
THEOREM TablePassesFsck == Spec => []Fsck
<1>1. IInv => Fsck
  <2> SUFFICES ASSUME IInv, pc \in {"idle", "free"}, head # Null
               PROVE  /\ WellLinked(head, list, known)
                      /\ \A e \in known : list[e].next # Null => list[e].next = e + 1
                      /\ \A b \in 0..tbl.num_buckets - 1 :
                           LET members == {e \in known : Bucket(e, tbl.num_buckets) = b}
                           IN /\ WellLinked(buckets.cell[b].hh_head, chain, members)
                              /\ buckets.cell[b].count = Cardinality(members)
                      /\ tbl.num_items = Cardinality(known)
    BY DEF Fsck
  <2>1. /\ head \in 0..NumElements /\ tbl.tail \in 0..NumElements /\ elt \in 0..NumElements /\ Null = 0
        /\ Elements = 1..NumElements /\ NumElements \in Nat
    BY Ranges, TblFields DEF IInv, Types
  <2>2. /\ known = head..tbl.tail /\ head <= tbl.tail /\ tbl.live
        /\ tbl.num_items = tbl.tail - head + 1
    <3>1. CASE pc = "free"
      BY <3>1 DEF IInv, Control
    <3>2. CASE pc = "idle"
      <4>1. /\ elt = tbl.tail /\ tbl.live /\ known = 1..elt /\ tbl.num_items = elt
            /\ head = (IF elt = Null THEN Null ELSE 1)
        BY <3>2 DEF IInv, Control, Adding
      <4> QED
        BY <2>1, <4>1
    <3> QED
      BY <3>1, <3>2
  <2>3. WellLinked(head, list, known) /\ tbl.num_items = Cardinality(known)
    BY <2>2, ListIsWellLinked
  <2>4. \A e \in known : list[e].next # Null => list[e].next = e + 1
    <3>1. \A e \in known : e \in 1..tbl.tail
      BY <2>1, <2>2
    <3> QED
      BY <3>1 DEF IInv, ListOrder
  <2>5. ASSUME NEW b \in 0..tbl.num_buckets - 1
        PROVE  LET members == {e \in known : Bucket(e, tbl.num_buckets) = b}
               IN /\ WellLinked(buckets.cell[b].hh_head, chain, members)
                  /\ buckets.cell[b].count = Cardinality(members)
    <3> DEFINE members == {e \in known : Bucket(e, tbl.num_buckets) = b}
               cell == buckets.cell[b]
    <3>1. PICK pos \in Positions : Chains(pos)
      BY DEF IInv, Order, Positions
    <3>2. Chained(chain, members, cell, pos)
      <4>1. Table(hashv, known, tbl.num_buckets, buckets.cell, chain, pos)
        BY <2>2, <3>1 DEF Chains, InTable
      <4>2. members = Members(hashv, known, tbl.num_buckets, b)
        BY DEF Members, Bucket
      <4> QED
        BY <4>1, <4>2 DEF Table
    <3>3. Null \notin members /\ cell.count \in Nat
      <4>1. cell \in Cell
        BY DEF IInv, Types
      <4>2. \A e \in known : e # Null
        BY <2>1, <2>2
      <4> QED
        BY <4>1, <4>2 DEF Cell
    <3> HIDE DEF members, cell
    <3>4. WellLinked(cell.hh_head, chain, members) /\ cell.count = Cardinality(members)
      BY <3>2, <3>3, ChainedIsWellLinked
    <3> QED
      BY <3>4 DEF members, cell
  <2> QED
    BY <2>3, <2>4, <2>5
<1> QED
  BY <1>1, Invariance, PTL

-----------------------------------------------------------------------------
(* How long the chains are.                                                *)
Within(cell, length) == cell.count <= (cell.expand_mult + 1) * length

LengthInv ==
  /\ pc \in {"idle", "link"} /\ ~tbl.noexpand =>
       \A b \in DOMAIN buckets.cell : Bounded(buckets.cell[b])
  /\ pc = "relink" => tbl.ideal_chain_maxlen # 0
  /\ pc \in {"relink", "free_old", "set_num", "set_buckets"} =>
       \A b \in DOMAIN fresh : Within(fresh[b], tbl.ideal_chain_maxlen)

(* One more element: the multiplier grows in time.                         *)
LEMMA MultipliedIsWithin ==
  ASSUME NEW cell \in Cell, NEW e \in OptionalElement, tbl.ideal_chain_maxlen \in Nat \ {0},
         Within(cell, tbl.ideal_chain_maxlen)
  PROVE  Within([Multiplied([cell EXCEPT !.count = @ + 1]) EXCEPT !.hh_head = e], tbl.ideal_chain_maxlen)
<1> DEFINE ideal == tbl.ideal_chain_maxlen
           k == cell.count
           m == cell.expand_mult
           bucket == [cell EXCEPT !.count = @ + 1]
           cell2 == [Multiplied(bucket) EXCEPT !.hh_head = e]
<1>1. k \in Nat /\ m \in Nat /\ ideal \in Nat \ {0} /\ k <= (m + 1) * ideal
  BY DEF Cell, Within
<1>2. bucket \in Cell /\ bucket.count = k + 1 /\ bucket.expand_mult = m
  BY <1>1 DEF Cell
<1> HIDE DEF ideal, k, m, bucket
<1>3. (m + 1) * ideal = m * ideal + ideal /\ (m + 1 + 1) * ideal = m * ideal + ideal + ideal /\ m * ideal \in Nat
  BY <1>1
<1>4. CASE k + 1 > ideal /\ k + 1 > m * ideal
  <2>1. Multiplied(bucket) = [bucket EXCEPT !.expand_mult = m + 1]
    BY <1>2, <1>4 DEF Multiplied, ideal
  <2>2. cell2.count = k + 1 /\ cell2.expand_mult = m + 1
    BY <1>2, <2>1 DEF Cell
  <2>3. k + 1 <= (m + 1 + 1) * ideal
    BY <1>1, <1>3
  <2> QED
    BY <2>2, <2>3 DEF Within, ideal, bucket
<1>5. CASE ~(k + 1 > ideal /\ k + 1 > m * ideal)
  <2>1. Multiplied(bucket) = bucket
    BY <1>2, <1>5 DEF Multiplied, ideal
  <2>2. cell2.count = k + 1 /\ cell2.expand_mult = m
    BY <1>2, <2>1 DEF Cell
  <2>3. k + 1 <= (m + 1) * ideal
    BY <1>1, <1>3, <1>5
  <2> QED
    BY <2>2, <2>3 DEF Within, ideal, bucket
<1> QED
  BY <1>4, <1>5

(* A table that is expanded is not empty, and its ideal length is not 0.   *)
LEMMA CeilDivIsPositive ==
  ASSUME NEW n \in Nat \ {0}, NEW d \in Nat \ {0}
  PROVE  CeilDiv(n, d) \in Nat \ {0}
<1>1. n + d - 1 \in Nat /\ n + d - 1 >= d
  OBVIOUS
<1>2. ASSUME NEW k \in Nat, k >= d PROVE k \div d \in Nat \ {0}
  BY <1>2
<1> QED
  BY <1>1, <1>2 DEF CeilDiv

LEMMA NextKeepsLengths == IInv /\ IInv' /\ LengthInv /\ [Next]_vars => LengthInv'
<1> SUFFICES ASSUME IInv, IInv', LengthInv, [Next]_vars PROVE LengthInv'
  OBVIOUS
<1>1. Types /\ Control /\ Types'
  BY DEF IInv
<1>2. CASE LinkInBucket
  <2> DEFINE n == tbl.num_buckets
             b == Bucket(elt, n)
  <2>1. /\ b \in 0..n - 1 /\ DOMAIN buckets.cell = 0..n - 1 /\ DOMAIN buckets'.cell = 0..n - 1
        /\ \A c \in 0..n - 1 : c # b => buckets'.cell[c] = buckets.cell[c]
        /\ buckets'.cell[b].count = buckets.cell[b].count + 1
        /\ buckets'.cell[b].expand_mult = buckets.cell[b].expand_mult
        /\ buckets.cell[b] \in Cell
        /\ tbl'.noexpand = tbl.noexpand /\ tbl'.ideal_chain_maxlen = tbl.ideal_chain_maxlen
        /\ pc = "link"
    <3>1. tbl \in Tbl /\ tbl' = [tbl EXCEPT !.num_items = tbl.num_items + 1]
      BY <1>1, <1>2, TblFields, LinkEffect
    <3>2. DOMAIN buckets.cell = 0..n - 1 /\ buckets.cell \in [DOMAIN buckets.cell -> Cell] /\ pc = "link"
      BY <1>1, <1>2 DEF Types, LinkInBucket
    <3> QED
      BY <1>1, <1>2, <3>1, <3>2, LinkEffect DEF Tbl
  <2>2. \/ pc' = "expand"
        \/ pc' = "idle" /\ (tbl.noexpand \/ ~(buckets.cell[b].count + 1 >= (buckets.cell[b].expand_mult + 1) * Threshold))
    BY <1>2 DEF LinkInBucket
  <2>3. CASE pc' = "idle" /\ ~tbl.noexpand
    <3>1. buckets'.cell[b].count < (buckets'.cell[b].expand_mult + 1) * Threshold
      <4> DEFINE k == buckets.cell[b].count
                 m == buckets.cell[b].expand_mult
      <4>1. k \in Nat /\ m \in Nat
        BY <2>1 DEF Cell
      <4>2. ~(k + 1 >= (m + 1) * Threshold)
        BY <2>2, <2>3
      <4> HIDE DEF k, m
      <4>3. (m + 1) * Threshold \in Nat /\ k + 1 < (m + 1) * Threshold
        BY <4>1, <4>2
      <4> QED
        BY <2>1, <4>3 DEF k, m
    <3> HIDE DEF b, n
    <3>2. ASSUME NEW c \in 0..n - 1 PROVE Bounded(buckets.cell[c])'
      <4>1. CASE c = b
        BY <3>1, <4>1 DEF Bounded
      <4>2. CASE c # b
        BY <2>1, <2>3, <4>2 DEF LengthInv, Bounded
      <4> QED
        BY <4>1, <4>2
    <3> QED
      BY <2>1, <2>3, <3>2 DEF LengthInv
  <2> QED
    BY <2>1, <2>2, <2>3 DEF LengthInv
<1>3. CASE ExpandBegin
  <2>1. tbl.num_items \in Nat \ {0} /\ 2 * tbl.num_buckets \in Nat \ {0} /\ tbl \in Tbl
    <3>1. elt # Null /\ tbl.num_items = elt
      BY <1>1, <1>3 DEF ExpandBegin, Control, Adding
    <3> QED
      BY <1>1, <3>1, TblFields DEF Null
  <2>2. tbl'.ideal_chain_maxlen = CeilDiv(tbl.num_items, 2 * tbl.num_buckets) /\ pc' = "relink"
    BY <1>3, <2>1 DEF ExpandBegin, Tbl
  <2>3. tbl'.ideal_chain_maxlen \in Nat \ {0}
    BY <2>1, <2>2, CeilDivIsPositive
  <2>4. \A b \in DOMAIN fresh' : fresh'[b] = EmptyBucket
    BY <1>3, <2>1 DEF ExpandBegin, Array
  <2>5. Within(EmptyBucket, tbl'.ideal_chain_maxlen)
    BY <2>3 DEF Within, EmptyBucket
  <2> QED
    BY <2>2, <2>3, <2>4, <2>5 DEF LengthInv
<1>4. CASE Relink
  <2> DEFINE n == tbl.num_buckets
             e == cursor.thh
             b == Bucket(e, 2 * n)
             ideal == tbl.ideal_chain_maxlen
  <2>1. /\ e \in OptionalElement /\ b \in 0..2 * n - 1 /\ fresh[b] \in Cell
        /\ DOMAIN fresh' = 0..2 * n - 1 /\ DOMAIN fresh = 0..2 * n - 1
        /\ \A c \in 0..2 * n - 1 : c # b => fresh'[c] = fresh[c]
        /\ tbl'.ideal_chain_maxlen = ideal /\ ideal \in Nat \ {0}
        /\ pc = "relink" /\ pc' = "relink"
    <3>1. tbl \in Tbl /\ ideal \in Nat /\ pc = "relink" /\ pc' = pc
      BY <1>1, <1>4, TblFields DEF Relink
    <3>2. ideal # 0 /\ DOMAIN fresh = 0..2 * n - 1
      BY <1>1, <3>1 DEF LengthInv, Types
    <3>3. tbl'.ideal_chain_maxlen = ideal
      BY <1>1, <1>4, <3>1, RelinkEffect DEF Tbl
    <3> QED
      BY <1>1, <1>4, <3>1, <3>2, <3>3, RelinkEffect DEF OptionalElement
  <2>2. fresh'[b] = [Multiplied([fresh[b] EXCEPT !.count = @ + 1]) EXCEPT !.hh_head = e]
    BY <1>4, <2>1 DEF Relink
  <2>3. Within(fresh'[b], ideal)
    <3>1. Within(fresh[b], ideal)
      BY <2>1 DEF LengthInv
    <3> QED
      BY <2>1, <2>2, <3>1, MultipliedIsWithin
  <2>4. \A c \in 0..2 * n - 1 : c # b => Within(fresh'[c], ideal)
    BY <2>1 DEF LengthInv
  <2> QED
    BY <2>1, <2>3, <2>4 DEF LengthInv
<1>5. CASE NextBucket \/ FreeOld
  BY <1>5 DEF NextBucket, FreeOld, table, LengthInv
<1>6. CASE SetNum
  <2>1. tbl'.ideal_chain_maxlen = tbl.ideal_chain_maxlen /\ fresh' = fresh /\ pc' = "set_buckets" /\ pc = "set_num"
    BY <1>1, <1>6, TblFields DEF SetNum, Tbl
  <2> QED
    BY <2>1 DEF LengthInv
<1>7. CASE SetBuckets
  <2>1. /\ tbl'.ideal_chain_maxlen = tbl.ideal_chain_maxlen
        /\ buckets'.cell = fresh /\ pc' = "idle" /\ pc = "set_buckets"
    BY <1>1, <1>7, TblFields DEF SetBuckets, Tbl
  <2>2. \A b \in DOMAIN fresh : Within(fresh[b], tbl.ideal_chain_maxlen)
    BY <2>1 DEF LengthInv
  <2> QED
    BY <2>1, <2>2 DEF LengthInv, Within, Bounded
<1>8. CASE Add
  <2>1. /\ tbl'.ideal_chain_maxlen = tbl.ideal_chain_maxlen /\ tbl'.noexpand = tbl.noexpand
        /\ buckets' = buckets /\ pc = "idle" /\ pc' = "link"
    BY <1>1, <1>8, TblFields DEF Add, Tbl
  <2> QED
    BY <2>1 DEF LengthInv, Bounded
<1>9. CASE Delete
  <2>1. pc' \in {"free", "freed", "unlink", "release", "clear_head"}
    BY <1>9 DEF Delete, BeginFree, DeleteHead, Unlink, Release, DeleteLast, ClearHead
  <2> QED
    BY <2>1 DEF LengthInv
<1>10. CASE UNCHANGED vars \/ \E r \in Readers : Step(r) \/ \E e \in Elements : Find(r, e)
  <2>1. ASSUME NEW r \in Readers, Step(r) \/ \E e \in Elements : Find(r, e)
        PROVE  UNCHANGED <<pc, table>>
    <3>1. PICK pos \in Positions : Chains(pos) /\ Walks(pos)
      BY DEF IInv, Order, Positions
    <3>2. \E l : Becomes(r, l)
      BY <2>1, <3>1, ReaderSound
    <3> QED
      BY <3>2 DEF Becomes
  <2>2. UNCHANGED <<pc, table>>
    BY <1>10, <2>1 DEF vars
  <2> QED
    BY <2>2 DEF table, LengthInv, Bounded, Within
<1> QED
  BY <1>2, <1>3, <1>4, <1>5, <1>6, <1>7, <1>8, <1>9, <1>10 DEF Next, Main, Expand

(* The chains are as short as the comment on expand_mult says, unless an   *)
(* expansion itself has left them longer, for any threshold, hash function *)
(* and number of elements.                                                 *)
THEOREM ChainsAreBounded == Spec => []ChainsBounded
<1>1. Init => LengthInv
  <2>1. Init => \A b \in DOMAIN buckets.cell : buckets.cell[b] = EmptyBucket
    BY DEF Init, Array
  <2>2. Bounded(EmptyBucket)
    BY DEF Bounded, EmptyBucket
  <2> QED
    BY <2>1, <2>2 DEF Init, LengthInv
<1>2. LengthInv => ChainsBounded
  BY DEF LengthInv, ChainsBounded
<1> QED
  BY <1>1, <1>2, NextKeepsLengths, Invariance, PTL DEF Spec
=============================================================================
