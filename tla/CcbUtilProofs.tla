---------------------------- MODULE CcbUtilProofs ----------------------------
(****************************************************************************)
(* For any number of CCBs, objects, operations and names: no pointer of the *)
(* CCB store dangles, no CCB has two objects, no name is freed too early,   *)
(* walks and lookups see the operations in the order of their adding, and   *)
(* the lists implement the store of CcbStore.                               *)
(*                                                                          *)
(* The first two properties need each other.  ccbutil_getCcbData creates an *)
(* object when the list has none with the identity, which is right only if  *)
(* the list holds all live objects; and ccbutil_deleteCcbData, which goes   *)
(* by identity, frees what it unlinks only if the identity is unique.  With *)
(* types they are inductive (IInv).  The invariant is split into what is    *)
(* said of the lists and what is said of a walk, since half of the          *)
(* operations leave one of the two alone.                                   *)
(*                                                                          *)
(* IInv lets a list of operations be a circle, or miss some.  OInv, below,  *)
(* adds that next leads through all operations of the object, each once.    *)
(****************************************************************************)
EXTENDS CcbUtil, SequenceTheorems, FunctionTheorems, FiniteSetTheorems, WellFoundedInduction,
        TLAPS

ListsTyped ==
  /\ ccbList \in Seq(ItemId)
  /\ DOMAIN item \subseteq ItemId
  /\ item \in [DOMAIN item -> ItemRec]
  /\ DOMAIN op \subseteq OpId
  /\ op \in [DOMAIN op -> OpRec]
  /\ heap \subseteq NameMem

ItemsIntact ==
  \A i \in DOMAIN item :
    item[i].head \in Owned(i) \cup {Null} /\ item[i].tail \in Owned(i) \cup {Null}

OpsIntact ==
  \A o \in DOMAIN op :
    op[o].owner \in DOMAIN item /\ op[o].next \in Owned(op[o].owner) \cup {Null}

Lists == ListsTyped /\ ItemsIntact /\ OpsIntact /\ OneItemPerCcb

Walks ==
  /\ walk \in WalkRec
  /\ walk.at # Null => walk.of \in DOMAIN item /\ walk.at \in Owned(walk.of)

IInv == Lists /\ Walks

----------------------------------------------------------------------------
\* What the list says of the objects when it holds all of them.
LEMMA ListIsTotal ==
  ASSUME Lists
  PROVE  /\ Len(ccbList) \in Nat
         /\ DOMAIN item = {ccbList[p] : p \in 1..Len(ccbList)}
         /\ \A i, j \in DOMAIN item : item[i].ccbId = item[j].ccbId => i = j
         /\ \A p, q \in 1..Len(ccbList) : ccbList[p] = ccbList[q] => p = q
BY DEF Lists, ListsTyped, OneItemPerCcb

\* The null pointer is the address of nothing.
LEMMA NullIsNoOperation ==
  ASSUME Lists
  PROVE  Null \notin DOMAIN op /\ Null \notin DOMAIN item
BY CcbUtilAssumption DEF Lists, ListsTyped

\* A search that finds nothing has missed nothing.
LEMMA SearchIsComplete ==
  ASSUME Lists, NEW id, ~Known(id), NEW j \in DOMAIN item
  PROVE  item[j].ccbId # id
<1>1. SUFFICES ASSUME item[j].ccbId = id PROVE FALSE
  OBVIOUS
<1>2. Len(ccbList) \in Nat
  BY ListIsTotal
<1>3. PICK p \in 1..Len(ccbList) : ccbList[p] = j
  BY ListIsTotal
<1>4. ASSUME NEW q \in 1..(p - 1), item[ccbList[q]].ccbId = id PROVE FALSE
  <2>1. q \in 1..Len(ccbList) /\ q # p
    BY <1>2, <1>3, <1>4
  <2>2. ccbList[q] \in DOMAIN item
    BY <2>1, ListIsTotal
  <2>3. ccbList[q] = ccbList[p]
    BY <2>2, <1>1, <1>3, <1>4, ListIsTotal
  <2>4. QED
    BY <2>1, <2>3, <1>3, ListIsTotal
<1>5. Find(id, j)
  BY <1>1, <1>3, <1>4 DEF Find
<1>6. QED
  BY <1>5 DEF Known

\* A new object is put in front, with no operations.
LEMMA CreateKeepsLists ==
  ASSUME Lists, NEW id \in CcbId, NEW i, CreateCcbData(id, i), ~Known(id),
         UNCHANGED <<op, heap>>
  PROVE  Lists' /\ DOMAIN item' = DOMAIN item \cup {i}
<1>1. i \in ItemId /\ i \notin DOMAIN item
  BY DEF CreateCcbData
<1>2. DOMAIN item' = DOMAIN item \cup {i}
  BY DEF CreateCcbData
<1>3. item'[i] = [ccbId |-> id, head |-> Null, tail |-> Null]
  BY DEF CreateCcbData
<1>4. \A x \in DOMAIN item : item'[x] = item[x]
  BY <1>1 DEF CreateCcbData
<1>5. ccbList \in Seq(ItemId) /\ ccbList' = <<i>> \o ccbList
  BY DEF Lists, ListsTyped, CreateCcbData
<1>6. /\ ccbList' \in Seq(ItemId)
      /\ Len(ccbList') = Len(ccbList) + 1
      /\ ccbList'[1] = i
      /\ \A p \in 1..Len(ccbList) : ccbList'[p + 1] = ccbList[p]
  BY <1>1, <1>5
<1>7. ListsTyped'
  <2>1. DOMAIN item \subseteq ItemId /\ \A x \in DOMAIN item : item[x] \in ItemRec
    BY DEF Lists, ListsTyped
  <2>2. item'[i] \in ItemRec
    BY <1>3 DEF ItemRec
  <2>3. \A x \in DOMAIN item' : item'[x] \in ItemRec
    BY <2>1, <2>2, <1>2, <1>4
  <2>4. item' = [x \in DOMAIN item' |-> item'[x]]
    BY <1>2 DEF CreateCcbData
  <2>5. QED
    BY <2>1, <2>3, <2>4, <1>1, <1>2, <1>6 DEF Lists, ListsTyped
<1>8. \A x : Owned(x)' = Owned(x)
  BY DEF Owned
<1>9. ItemsIntact'
  BY <1>2, <1>3, <1>4, <1>8 DEF Lists, ItemsIntact
<1>10. OpsIntact'
  BY <1>2, <1>8 DEF Lists, OpsIntact
<1>11. OneItemPerCcb'
  <2>1. \A x, y \in DOMAIN item' : item'[x].ccbId = item'[y].ccbId => x = y
    <3>1. \A x \in DOMAIN item : item'[x].ccbId # id
      BY <1>4, SearchIsComplete
    <3>2. QED
      BY <3>1, <1>2, <1>3, <1>4, ListIsTotal
  <2>2. ASSUME NEW p \in 1..Len(ccbList'), NEW q \in 1..Len(ccbList'),
               ccbList'[p] = ccbList'[q]
        PROVE  p = q
    <3>1. Len(ccbList) \in Nat
      BY ListIsTotal
    <3>2. \A r \in 1..Len(ccbList') :
            r # 1 => r - 1 \in 1..Len(ccbList) /\ ccbList'[r] = ccbList[r - 1]
      BY <3>1, <1>6
    <3>3. \A r \in 1..Len(ccbList') : r # 1 => ccbList'[r] \in DOMAIN item
      BY <3>2, ListIsTotal
    <3>4. CASE p = 1 \/ q = 1
      BY <3>3, <3>4, <2>2, <1>1, <1>6
    <3>5. CASE p # 1 /\ q # 1
      <4>1. ccbList[p - 1] = ccbList[q - 1]
        BY <3>2, <3>5, <2>2
      <4>2. p - 1 = q - 1
        BY <4>1, <3>2, <3>5, ListIsTotal
      <4>3. QED
        BY <4>2, <3>1, <1>6
    <3>6. QED
      BY <3>4, <3>5
  <2>3. DOMAIN item' = {ccbList'[p] : p \in 1..Len(ccbList')}
    <3>1. Len(ccbList) \in Nat
      BY ListIsTotal
    <3>2. ASSUME NEW x \in DOMAIN item'
          PROVE  \E p \in 1..Len(ccbList') : ccbList'[p] = x
      <4>1. CASE x = i
        BY <4>1, <3>1, <1>6
      <4>2. CASE x \in DOMAIN item
        <5>1. PICK p \in 1..Len(ccbList) : ccbList[p] = x
          BY <4>2, ListIsTotal
        <5>2. p + 1 \in 1..Len(ccbList') /\ ccbList'[p + 1] = x
          BY <5>1, <3>1, <1>6
        <5>3. QED
          BY <5>2
      <4>3. QED
        BY <4>1, <4>2, <1>2
    <3>3. ASSUME NEW p \in 1..Len(ccbList')
          PROVE  ccbList'[p] \in DOMAIN item'
      <4>1. CASE p = 1
        BY <4>1, <1>2, <1>6
      <4>2. CASE p # 1
        <5>1. p - 1 \in 1..Len(ccbList) /\ ccbList'[p] = ccbList[p - 1]
          BY <4>2, <3>1, <1>6
        <5>2. QED
          BY <5>1, <1>2, ListIsTotal
      <4>3. QED
        BY <4>1, <4>2
    <3>4. QED
      BY <3>2, <3>3
  <2>4. QED
    BY <2>1, <2>2, <2>3 DEF OneItemPerCcb
<1>12. QED
  BY <1>2, <1>7, <1>9, <1>10, <1>11 DEF Lists

\* ccbutil_getCcbData: an object that is there afterwards.
LEMMA ObtainKeepsLists ==
  ASSUME Lists, NEW id \in CcbId, NEW i, Obtain(id, i), UNCHANGED <<op, heap>>
  PROVE  /\ Lists'
         /\ i \in DOMAIN item'
         /\ DOMAIN item \subseteq DOMAIN item'
         /\ \A x : Owned(x)' = Owned(x)
<1>1. \A x : Owned(x)' = Owned(x)
  BY DEF Owned
<1>2. CASE Find(id, i) /\ UNCHANGED <<ccbList, item>>
  <2>1. i \in DOMAIN item
    BY <1>2, ListIsTotal DEF Find
  <2>2. Lists'
    BY <1>1, <1>2 DEF Lists, ListsTyped, ItemsIntact, OpsIntact, OneItemPerCcb
  <2>3. QED
    BY <1>1, <1>2, <2>1, <2>2
<1>3. CASE ~Known(id) /\ CreateCcbData(id, i)
  BY <1>1, <1>3, CreateKeepsLists
<1>4. QED
  BY <1>2, <1>3 DEF Obtain

\* newOperationData: the objects stay, the new operation belongs to one of them.
LEMMA AddKeepsLists ==
  ASSUME Lists, NEW i, NEW type \in Type, NEW name \in DN, AddOperation(i, type, name)
  PROVE  /\ Lists'
         /\ DOMAIN item' = DOMAIN item
         /\ \A x : Owned(x) \subseteq Owned(x)'
<1>1. PICK o \in OpId \ DOMAIN op, mem \in NameMem \cup {Null} :
        /\ StoreName(name, mem)
        /\ op' = [x \in DOMAIN op \cup {o} |->
                    IF x = o
                    THEN [owner |-> i, next |-> Null, type |-> type,
                          name |-> name, mem |-> mem]
                    ELSE IF x = item[i].tail THEN [op[x] EXCEPT !.next = o]
                    ELSE op[x]]
        /\ AppendToItem(i, o)
  BY DEF AddOperation
<1>2. i \in DOMAIN item /\ i \in ItemId /\ o \in OpId /\ o \notin DOMAIN op
  BY <1>1 DEF AddOperation, Lists, ListsTyped
<1>3. item \in [DOMAIN item -> ItemRec] /\ op \in [DOMAIN op -> OpRec]
  BY DEF Lists, ListsTyped
<1>4. DOMAIN item' = DOMAIN item /\ DOMAIN op' = DOMAIN op \cup {o}
  BY <1>1 DEF AppendToItem
<1>5. \A x \in DOMAIN item :
        /\ item'[x] \in ItemRec
        /\ item'[x].ccbId = item[x].ccbId
        /\ item'[x].head \in {item[x].head} \cup (IF x = i THEN {o} ELSE {})
        /\ item'[x].tail \in {item[x].tail} \cup (IF x = i THEN {o} ELSE {})
  BY <1>1, <1>2, <1>3 DEF AppendToItem, ItemRec
<1>6. /\ op'[o] \in OpRec
      /\ op'[o].owner = i
      /\ op'[o].next = Null
  BY <1>1, <1>2 DEF OpRec
<1>7. \A x \in DOMAIN op :
        /\ op'[x] \in OpRec
        /\ op'[x].owner = op[x].owner
        /\ op'[x].next = IF x = item[i].tail THEN o ELSE op[x].next
  <2>1. SUFFICES ASSUME NEW x \in DOMAIN op
                 PROVE  /\ op'[x] \in OpRec
                        /\ op'[x].owner = op[x].owner
                        /\ op'[x].next = IF x = item[i].tail THEN o ELSE op[x].next
    OBVIOUS
  <2>2. op[x] \in OpRec /\ x # o
    BY <1>2, <1>3
  <2>3. op'[x] = IF x = item[i].tail THEN [op[x] EXCEPT !.next = o] ELSE op[x]
    BY <1>1, <2>2
  <2>4. QED
    BY <2>2, <2>3, <1>2 DEF OpRec
<1>8. \A x : Owned(x)' = Owned(x) \cup (IF x = i THEN {o} ELSE {})
  BY <1>2, <1>4, <1>6, <1>7 DEF Owned
<1>9. heap' \subseteq NameMem
  BY <1>1 DEF StoreName, Lists, ListsTyped
<1>10. ListsTyped'
  <2>1. item' = [x \in DOMAIN item' |-> item'[x]]
    BY <1>1 DEF AppendToItem
  <2>2. op' = [x \in DOMAIN op' |-> op'[x]]
    BY <1>1
  <2>3. ccbList' = ccbList
    BY DEF AddOperation
  <2>4. item' \in [DOMAIN item' -> ItemRec]
    BY <2>1, <1>4, <1>5
  <2>5. op' \in [DOMAIN op' -> OpRec]
    BY <2>2, <1>4, <1>6, <1>7
  <2>6. DOMAIN item' \subseteq ItemId /\ DOMAIN op' \subseteq OpId
    BY <1>2, <1>4 DEF Lists, ListsTyped
  <2>7. QED
    BY <2>3, <2>4, <2>5, <2>6, <1>9 DEF Lists, ListsTyped
<1>11. ItemsIntact'
  BY <1>4, <1>5, <1>8 DEF Lists, ItemsIntact
<1>12. OpsIntact'
  <2>1. ASSUME NEW x \in DOMAIN op'
        PROVE  /\ op'[x].owner \in DOMAIN item
               /\ \/ op'[x].next = Null
                  \/ op'[x].next \in DOMAIN op' /\ op'[op'[x].next].owner = op'[x].owner
    <3>1. CASE x = o
      BY <3>1, <1>2, <1>6
    <3>2. CASE x \in DOMAIN op /\ x = item[i].tail
      <4>1. op[x].owner = i
        BY <3>2, <1>2, NullIsNoOperation DEF Lists, ItemsIntact, Owned
      <4>2. QED
        BY <4>1, <3>2, <1>2, <1>4, <1>6, <1>7
    <3>3. CASE x \in DOMAIN op /\ x # item[i].tail
      <4>1. /\ op[x].owner \in DOMAIN item
            /\ \/ op[x].next = Null
               \/ op[x].next \in DOMAIN op /\ op[op[x].next].owner = op[x].owner
        BY <3>3 DEF Lists, OpsIntact, Owned
      <4>2. QED
        BY <4>1, <3>3, <1>4, <1>7
    <3>4. QED
      BY <2>1, <3>1, <3>2, <3>3, <1>4
  <2>2. QED
    BY <2>1, <1>4 DEF OpsIntact, Owned
<1>13. OneItemPerCcb'
  BY <1>4, <1>5 DEF AddOperation, Lists, OneItemPerCcb
<1>14. QED
  BY <1>4, <1>8, <1>10, <1>11, <1>12, <1>13 DEF Lists

\* Only the object itself has its identity, so deleteCcbData finds one match.
LEMMA OneMatch ==
  ASSUME Lists, NEW i \in DOMAIN item
  PROVE  \E p \in 1..Len(ccbList) :
           ccbList[p] = i /\ Same(i) = {p} /\ Unlinked(i) = {p}
<1>1. PICK p \in 1..Len(ccbList) : ccbList[p] = i
  BY ListIsTotal
<1>2. ASSUME NEW q \in 1..Len(ccbList), item[ccbList[q]].ccbId = item[i].ccbId
      PROVE  q = p
  <2>1. ccbList[q] \in DOMAIN item
    BY ListIsTotal
  <2>2. ccbList[q] = ccbList[p]
    BY <2>1, <1>1, <1>2, ListIsTotal
  <2>3. QED
    BY <2>2, <1>1, ListIsTotal
<1>3. Same(i) = {p}
  BY <1>1, <1>2 DEF Same
<1>4. p \in 1..p /\ p..p = {p} /\ p - 1 # p /\ (p - p) % 2 = 0
  BY ListIsTotal
<1>5. p \in Unlinked(i)
  BY <1>3, <1>4 DEF Unlinked
<1>6. Unlinked(i) \subseteq Same(i)
  BY DEF Unlinked
<1>7. QED
  BY <1>1, <1>3, <1>5, <1>6

\* How many places stay when one goes.
LEMMA PlacesLeft ==
  ASSUME NEW n \in Nat, NEW p \in 1..n
  PROVE  Cardinality((1..n) \ {p}) = n - 1
<1>1. IsFiniteSet(1..n) /\ Cardinality(1..n) = n
  BY FS_Interval
<1>2. QED
  BY <1>1, FS_RemoveElement

\* How many places stay in front of a place when place p goes.
LEMMA PlacesBefore ==
  ASSUME NEW n \in Nat, NEW p \in 1..n, NEW q \in 1..n, q # p
  PROVE  Cardinality({r \in (1..n) \ {p} : r < q}) = IF q < p THEN q - 1 ELSE q - 2
<1>1. IsFiniteSet(1..(q - 1)) /\ Cardinality(1..(q - 1)) = q - 1
  BY FS_Interval
<1>2. CASE q < p
  <2>1. {r \in (1..n) \ {p} : r < q} = 1..(q - 1)
    BY <1>2
  <2>2. QED
    BY <2>1, <1>1, <1>2
<1>3. CASE p < q
  <2>1. {r \in (1..n) \ {p} : r < q} = (1..(q - 1)) \ {p} /\ p \in 1..(q - 1)
    BY <1>3
  <2>2. Cardinality((1..(q - 1)) \ {p}) = (q - 1) - 1
    BY <2>1, <1>1, FS_RemoveElement
  <2>3. QED
    BY <2>1, <2>2, <1>3
<1>4. QED
  BY <1>2, <1>3

\* What stays linked is the list without the object, in its order.
LEMMA UnlinkRemoves ==
  ASSUME Lists, NEW i \in DOMAIN item, Unlink(i)
  PROVE  \E p \in 1..Len(ccbList) :
           /\ ccbList[p] = i
           /\ ccbList' = [q \in 1..(Len(ccbList) - 1) |->
                            ccbList[IF q < p THEN q ELSE q + 1]]
<1>1. PICK p \in 1..Len(ccbList) : ccbList[p] = i /\ Unlinked(i) = {p}
  BY OneMatch
<1> DEFINE n == Len(ccbList)
           left == (1..n) \ {p}
           Before(q) == {r \in left : r < q}
           Place(k) == IF k < p THEN k ELSE k + 1
           Chosen(k) == CHOOSE q \in left : Cardinality(Before(q)) = k - 1
<1>2. n \in Nat /\ p \in 1..n
  BY ListIsTotal
<1>3. Cardinality(left) = n - 1
  BY <1>2, PlacesLeft
<1>4. ccbList' = [k \in 1..Cardinality(left) |-> ccbList[Chosen(k)]]
  BY <1>1 DEF Unlink
<1>5. ASSUME NEW k \in 1..(n - 1)
      PROVE  Chosen(k) = Place(k)
  <2>1. \A q \in left : Cardinality(Before(q)) = IF q < p THEN q - 1 ELSE q - 2
    BY <1>2, PlacesBefore
  <2> HIDE DEF Before
  <2>2. Place(k) \in left /\ Cardinality(Before(Place(k))) = k - 1
    BY <2>1, <1>2
  <2>3. \A q \in left : Cardinality(Before(q)) = k - 1 => q = Place(k)
    BY <2>1, <1>2
  <2>4. QED
    BY <2>2, <2>3
<1> HIDE DEF left, Before, Chosen, Place
<1>6. ccbList' = [k \in 1..(n - 1) |-> ccbList[Place(k)]]
  BY <1>3, <1>4, <1>5
<1>7. QED
  BY <1>1, <1>6 DEF Place

\* The names freed are those that the loop comes by in the object itself.
LEMMA NamesFreed ==
  ASSUME Lists, NEW i, DeleteCcbData(i)
  PROVE  heap' = heap \ {op[o].mem : o \in FreeLoop(i)}
<1>1. i \in DOMAIN item /\ FreeNames(i)
  BY DEF DeleteCcbData
<1>2. PICK p \in 1..Len(ccbList) : ccbList[p] = i /\ Same(i) = {p}
  BY <1>1, OneMatch
<1>3. UNION {FreeLoop(ccbList[q]) : q \in Same(i)} = FreeLoop(i)
  BY <1>2
<1>4. QED
  BY <1>1, <1>3 DEF FreeNames

\* ccbutil_deleteCcbData: what it unlinks is what it frees, and nothing that
\* stays points to what goes.
LEMMA DeleteKeepsLists ==
  ASSUME Lists, NEW i, DeleteCcbData(i)
  PROVE  /\ Lists'
         /\ DOMAIN item' = DOMAIN item \ {i}
         /\ \A x : x # i => Owned(x) \subseteq Owned(x)'
<1>1. PICK p \in 1..Len(ccbList) :
        /\ ccbList[p] = i
        /\ ccbList' = [q \in 1..(Len(ccbList) - 1) |->
                         ccbList[IF q < p THEN q ELSE q + 1]]
  BY UnlinkRemoves DEF DeleteCcbData
<1>2. ccbList \in Seq(ItemId) /\ Len(ccbList) \in Nat
  BY DEF Lists, ListsTyped
<1>3. /\ ccbList' \in Seq(ItemId)
      /\ Len(ccbList') = Len(ccbList) - 1
      /\ \A q \in 1..Len(ccbList') :
           /\ (IF q < p THEN q ELSE q + 1) \in 1..Len(ccbList)
           /\ ccbList'[q] = ccbList[IF q < p THEN q ELSE q + 1]
  <2>1. Len(ccbList) - 1 \in Nat
    BY <1>1, <1>2
  <2>2. \A q \in 1..(Len(ccbList) - 1) :
          (IF q < p THEN q ELSE q + 1) \in 1..Len(ccbList)
    BY <1>2
  <2>3. \A q \in 1..(Len(ccbList) - 1) :
          ccbList[IF q < p THEN q ELSE q + 1] \in ItemId
    BY <2>2, <1>2
  <2>4. ccbList' \in Seq(ItemId) /\ Len(ccbList') = Len(ccbList) - 1
    BY <2>1, <2>3, <1>1
  <2>5. QED
    BY <2>2, <2>4, <1>1
<1>4. /\ DOMAIN item' = DOMAIN item \ {i}
      /\ \A x \in DOMAIN item' : item'[x] = item[x]
  BY DEF DeleteCcbData
<1>5. /\ DOMAIN op' = DOMAIN op \ Owned(i)
      /\ \A o \in DOMAIN op' : op'[o] = op[o]
  BY DEF DeleteCcbData
<1>6. \A x : x # i => Owned(x)' = Owned(x)
  BY <1>5 DEF Owned
<1>7. ListsTyped'
  <2>1. heap' \subseteq heap
    BY NamesFreed
  <2>2. QED
    BY <2>1, <1>3 DEF DeleteCcbData, Lists, ListsTyped
<1>8. ItemsIntact'
  BY <1>4, <1>6 DEF Lists, ItemsIntact
<1>9. OpsIntact'
  <2>1. ASSUME NEW o \in DOMAIN op'
        PROVE  /\ op'[o].owner \in DOMAIN item'
               /\ \/ op'[o].next = Null
                  \/ op'[o].next \in DOMAIN op' /\ op'[op'[o].next].owner = op'[o].owner
    BY <1>4, <1>5 DEF Lists, OpsIntact, Owned
  <2>2. QED
    BY <2>1 DEF OpsIntact, Owned
<1>10. OneItemPerCcb'
  <2>1. \A x, y \in DOMAIN item' : item'[x].ccbId = item'[y].ccbId => x = y
    BY <1>4, ListIsTotal
  <2>2. ASSUME NEW q \in 1..Len(ccbList'), NEW r \in 1..Len(ccbList'),
               ccbList'[q] = ccbList'[r]
        PROVE  q = r
    <3>1. (IF q < p THEN q ELSE q + 1) = (IF r < p THEN r ELSE r + 1)
      BY <2>2, <1>3, ListIsTotal
    <3>2. QED
      BY <3>1, <1>2, <1>3
  <2>3. ASSUME NEW x \in DOMAIN item'
        PROVE  \E q \in 1..Len(ccbList') : ccbList'[q] = x
    <3>1. x # i /\ x \in DOMAIN item
      BY <1>4
    <3>2. PICK r \in 1..Len(ccbList) : ccbList[r] = x
      BY <3>1, ListIsTotal
    <3>3. r # p
      BY <3>1, <3>2, <1>1
    <3>4. CASE r < p
      BY <3>2, <3>4, <1>2, <1>3
    <3>5. CASE r > p
      <4>1. r - 1 \in 1..Len(ccbList') /\ ~(r - 1 < p) /\ (r - 1) + 1 = r
        BY <3>5, <1>2, <1>3
      <4>2. QED
        BY <4>1, <3>2, <1>3
    <3>6. QED
      BY <3>3, <3>4, <3>5, <1>2
  <2>4. ASSUME NEW q \in 1..Len(ccbList')
        PROVE  ccbList'[q] \in DOMAIN item'
    <3>1. ccbList'[q] \in DOMAIN item
      <4>1. \A r \in 1..Len(ccbList) : ccbList[r] \in DOMAIN item
        BY ListIsTotal
      <4>2. QED
        BY <4>1, <1>3
    <3>2. ccbList'[q] # i
      <4>1. (IF q < p THEN q ELSE q + 1) # p
        BY <1>2, <1>3
      <4>2. QED
        BY <4>1, <1>1, <1>3, ListIsTotal
    <3>3. QED
      BY <3>1, <3>2, <1>4
  <2>5. DOMAIN item' = {ccbList'[q] : q \in 1..Len(ccbList')}
    BY <2>3, <2>4
  <2>6. QED
    BY <2>1, <2>2, <2>5 DEF OneItemPerCcb
<1>11. QED
  BY <1>4, <1>6, <1>7, <1>8, <1>9, <1>10 DEF Lists

----------------------------------------------------------------------------
\* A walk that is left alone stays good while its object and operation stay.
LEMMA WalkLeftAlone ==
  ASSUME Walks, UNCHANGED walk,
         walk.at # Null => walk.of \in DOMAIN item' /\ Owned(walk.of) \subseteq Owned(walk.of)'
  PROVE  Walks'
<1>1. walk' = walk
  OBVIOUS
<1>2. walk.at # Null => walk'.of \in DOMAIN item' /\ walk'.at \in Owned(walk.of)'
  BY <1>1 DEF Walks
<1>3. QED
  BY <1>1, <1>2 DEF Walks, Owned

\* ccbutil_getNextCcbOp(ccbId, NULL)
LEMMA FirstKeepsWalk ==
  ASSUME Lists, NEW i, Lists', i \in DOMAIN item',
         walk' = [of |-> i, at |-> item'[i].head,
                  seen |-> IF item'[i].head = Null THEN <<>> ELSE <<item'[i].head>>]
  PROVE  Walks'
<1>1. /\ i \in ItemId
      /\ \/ item'[i].head = Null
         \/ item'[i].head \in DOMAIN op' /\ op'[item'[i].head].owner = i
  BY DEF Lists, ListsTyped, ItemsIntact, Owned
<1>2. item'[i].head \in OpId \cup {Null}
  BY <1>1 DEF Lists, ListsTyped
<1>3. walk' \in WalkRec
  <2>1. (IF item'[i].head = Null THEN <<>> ELSE <<item'[i].head>>) \in Seq(OpId)
    BY <1>2
  <2>2. QED
    BY <2>1, <1>1, <1>2 DEF WalkRec
<1>4. walk'.at # Null =>
        /\ walk'.of \in DOMAIN item'
        /\ walk'.at \in DOMAIN op'
        /\ op'[walk'.at].owner = walk'.of
  BY <1>1
<1>5. QED
  BY <1>3, <1>4 DEF Walks, Owned

\* ccbutil_getNextCcbOp(ccbId, opData)
LEMMA NextKeepsWalk ==
  ASSUME IInv, GetNextCcbOp
  PROVE  Walks'
<1>1. DEFINE next == op[walk.at].next
<1>2. /\ walk \in WalkRec
      /\ walk.of \in DOMAIN item
      /\ walk.at \in DOMAIN op
      /\ op[walk.at].owner = walk.of
  BY DEF IInv, Walks, GetNextCcbOp, Owned
<1>3. next # Null => next \in DOMAIN op /\ op[next].owner = walk.of
  BY <1>2 DEF IInv, Lists, OpsIntact, Owned
<1>4. next \in OpId \cup {Null}
  BY <1>3 DEF IInv, Lists, ListsTyped
<1>5. walk' = [walk EXCEPT !.at = next,
                           !.seen = IF next = Null THEN @ ELSE Append(@, next)]
  BY DEF GetNextCcbOp
<1>6. walk.seen \in Seq(OpId) /\ walk.of \in ItemId \cup {Null}
  BY <1>2 DEF WalkRec
<1>7. (IF next = Null THEN walk.seen ELSE Append(walk.seen, next)) \in Seq(OpId)
  BY <1>4, <1>6
<1>8. walk'.of = walk.of /\ walk'.at = next /\ walk' \in WalkRec
  BY <1>2, <1>4, <1>5, <1>6, <1>7 DEF WalkRec
<1>9. QED
  BY <1>2, <1>3, <1>8 DEF Walks, Owned, GetNextCcbOp

----------------------------------------------------------------------------
LEMMA InitIInv == Init => IInv
<1>1. SUFFICES ASSUME Init PROVE IInv
  OBVIOUS
<1>2. ListsTyped
  BY <1>1 DEF Init, ListsTyped
<1>3. ItemsIntact /\ OpsIntact
  BY <1>1 DEF Init, ItemsIntact, OpsIntact
<1>4. OneItemPerCcb
  BY <1>1 DEF Init, OneItemPerCcb
<1>5. Walks
  BY <1>1 DEF Init, NoWalk, Walks, WalkRec
<1>6. QED
  BY <1>2, <1>3, <1>4, <1>5 DEF IInv, Lists

LEMMA AddStep ==
  ASSUME IInv, NEW i, NEW type \in Type, NEW name \in DN, AddOperation(i, type, name)
  PROVE  IInv'
<1>1. Lists' /\ DOMAIN item' = DOMAIN item /\ \A x : Owned(x) \subseteq Owned(x)'
  BY AddKeepsLists DEF IInv
<1>2. walk.at # Null => walk.of \in DOMAIN item'
  BY <1>1 DEF IInv, Walks
<1>3. QED
  BY <1>1, <1>2, WalkLeftAlone DEF IInv, AddOperation

LEMMA GetStep ==
  ASSUME IInv, NEW id \in CcbId, GetCcbData(id)
  PROVE  IInv'
<1>1. PICK i : Obtain(id, i)
  BY DEF GetCcbData
<1>2. Lists' /\ DOMAIN item \subseteq DOMAIN item' /\ \A x : Owned(x)' = Owned(x)
  BY <1>1, ObtainKeepsLists DEF IInv, GetCcbData
<1>3. walk.at # Null => walk.of \in DOMAIN item'
  BY <1>2 DEF IInv, Walks
<1>4. QED
  BY <1>2, <1>3, WalkLeftAlone DEF IInv, GetCcbData

LEMMA FirstStep ==
  ASSUME IInv, NEW id \in CcbId, GetFirstCcbOp(id)
  PROVE  IInv'
<1>1. PICK i : /\ Obtain(id, i)
               /\ walk' = [of |-> i, at |-> item'[i].head,
                           seen |-> IF item'[i].head = Null
                                    THEN <<>> ELSE <<item'[i].head>>]
  BY DEF GetFirstCcbOp
<1>2. Lists' /\ i \in DOMAIN item'
  BY <1>1, ObtainKeepsLists DEF IInv, GetFirstCcbOp
<1>3. QED
  BY <1>1, <1>2, FirstKeepsWalk DEF IInv

LEMMA DeleteStep ==
  ASSUME IInv, NEW i, DeleteCcbData(i)
  PROVE  IInv'
<1>1. /\ Lists'
      /\ DOMAIN item' = DOMAIN item \ {i}
      /\ \A x : x # i => Owned(x) \subseteq Owned(x)'
  BY DeleteKeepsLists DEF IInv
<1>2. CASE walk.of = i
  <2>1. walk' = NoWalk
    BY <1>2 DEF DeleteCcbData
  <2>2. Walks'
    BY <2>1 DEF NoWalk, Walks, WalkRec
  <2>3. QED
    BY <2>2, <1>1 DEF IInv
<1>3. CASE walk.of # i
  <2>1. walk' = walk
    BY <1>3 DEF DeleteCcbData
  <2>2. walk.at # Null => walk.of \in DOMAIN item'
    BY <1>1, <1>3 DEF IInv, Walks
  <2>3. Walks'
    BY <2>1, <2>2, <1>1, <1>3, WalkLeftAlone DEF IInv
  <2>4. QED
    BY <2>3, <1>1 DEF IInv
<1>4. QED
  BY <1>2, <1>3

LEMMA NextIInv == IInv /\ [Next]_vars => IInv'
<1>1. SUFFICES ASSUME IInv, [Next]_vars PROVE IInv'
  OBVIOUS
<1>2. ASSUME NEW id \in CcbId, GetCcbData(id) PROVE IInv'
  BY <1>1, <1>2, GetStep
<1>3. ASSUME NEW id \in CcbId, GetFirstCcbOp(id) PROVE IInv'
  BY <1>1, <1>3, FirstStep
<1>4. ASSUME NEW id \in CcbId, GetCcbOpDataByDN(id) PROVE IInv'
  BY <1>1, <1>4, GetStep DEF GetCcbOpDataByDN
<1>5. ASSUME NEW i \in ItemId, AddCreateOperation(i) PROVE IInv'
  BY <1>1, <1>5, AddStep DEF AddCreateOperation, Type, DN
<1>6. ASSUME NEW i \in ItemId, NEW name \in ShortName \cup LongName,
             \/ AddCreateOperation_2(i, name)
             \/ AddDeleteOperation(i, name)
             \/ AddModifyOperation(i, name)
      PROVE IInv'
  BY <1>1, <1>6, AddStep
     DEF AddCreateOperation_2, AddDeleteOperation, AddModifyOperation, Type, DN
<1>7. ASSUME NEW i \in ItemId, DeleteCcbData(i) PROVE IInv'
  BY <1>1, <1>7, DeleteStep
<1>8. ASSUME GetNextCcbOp PROVE IInv'
  <2>1. Walks'
    BY <1>1, <1>8, NextKeepsWalk
  <2>2. Lists'
    BY <1>1, <1>8 DEF GetNextCcbOp, IInv, Lists, ListsTyped, ItemsIntact, OpsIntact,
                      OneItemPerCcb, Owned
  <2>3. QED
    BY <2>1, <2>2 DEF IInv
<1>9. ASSUME UNCHANGED vars PROVE IInv'
  BY <1>1, <1>9 DEF vars, IInv, Lists, Walks, ListsTyped, ItemsIntact, OpsIntact,
                    OneItemPerCcb, Owned
<1>10. QED
  BY <1>1, <1>2, <1>3, <1>4, <1>5, <1>6, <1>7, <1>8, <1>9 DEF Next

(****************************************************************************)
(* The store of immutil.c keeps its lists and its caller's walk intact,     *)
(* whatever the calls and their order.                                      *)
(****************************************************************************)
THEOREM Invariance == Spec => []IInv
BY InitIInv, NextIInv, PTL DEF Spec

\* No pointer of the lists of immutil.c ever dangles.
THEOREM NoDangling == Spec => []NoDanglingPointers
<1>1. IInv => NoDanglingPointers
  <2>1. SUFFICES ASSUME IInv PROVE NoDanglingPointers
    OBVIOUS
  <2>2. \A p \in 1..Len(ccbList) : ccbList[p] \in DOMAIN item
    BY <2>1, ListIsTotal DEF IInv
  <2>3. QED
    BY <2>1, <2>2 DEF IInv, Lists, ItemsIntact, OpsIntact, Walks, NoDanglingPointers
<1>2. QED
  BY <1>1, Invariance, PTL

\* ccbutil_getCcbData never makes a second object for a CCB, and
\* ccbutil_deleteCcbData unlinks the object that it frees.
THEOREM UniqueItems == Spec => []OneItemPerCcb
<1>1. IInv => OneItemPerCcb
  BY DEF IInv, Lists
<1>2. QED
  BY <1>1, Invariance, PTL

\* The types of the structures that immutil.h declares are kept.
THEOREM TypeCorrect == Spec => []TypeOK
<1>1. IInv => TypeOK
  BY DEF IInv, Lists, ListsTyped, Walks, TypeOK
<1>2. QED
  BY <1>1, Invariance, PTL

----------------------------------------------------------------------------
(****************************************************************************)
(* The copied names.  That one copy is never shared needs that an operation *)
(* with a short name has none: the copies that ccbutil_deleteCcbData frees  *)
(* are then those of the operations that go with the object, whichever of   *)
(* them its loop comes by.                                                  *)
(****************************************************************************)
ShortNamesLent == \A o \in DOMAIN op : op[o].name \notin LongName => op[o].mem = Null
NInv == NamesIntact /\ ShortNamesLent

LEMMA AddKeepsNames ==
  ASSUME IInv, NInv, NEW i, NEW type, NEW name, AddOperation(i, type, name)
  PROVE  NInv'
<1>1. PICK o \in OpId \ DOMAIN op, mem \in NameMem \cup {Null} :
        /\ StoreName(name, mem)
        /\ op' = [x \in DOMAIN op \cup {o} |->
                    IF x = o
                    THEN [owner |-> i, next |-> Null, type |-> type,
                          name |-> name, mem |-> mem]
                    ELSE IF x = item[i].tail THEN [op[x] EXCEPT !.next = o]
                    ELSE op[x]]
  BY DEF AddOperation
<1>2. DOMAIN op' = DOMAIN op \cup {o} /\ op'[o].name = name /\ op'[o].mem = mem
  BY <1>1
<1>3. ASSUME NEW x \in DOMAIN op
      PROVE  op'[x].name = op[x].name /\ op'[x].mem = op[x].mem
  <2>1. op[x] \in OpRec /\ x # o
    BY DEF IInv, Lists, ListsTyped
  <2>2. op'[x] = IF x = item[i].tail THEN [op[x] EXCEPT !.next = o] ELSE op[x]
    BY <1>1, <2>1
  <2>3. QED
    BY <2>1, <2>2 DEF OpRec
<1>4. heap \subseteq NameMem /\ Null \notin NameMem
  BY CcbUtilAssumption DEF IInv, Lists, ListsTyped
<1>5. CASE name \in LongName
  <2>1. mem \in NameMem \ heap /\ heap' = heap \cup {mem}
    BY <1>1, <1>5 DEF StoreName
  <2>2. \A x \in DOMAIN op : op[x].mem # mem
    BY <1>4, <2>1 DEF NInv, NamesIntact, ShortNamesLent
  <2>3. QED
    BY <1>2, <1>3, <1>5, <2>1, <2>2 DEF NInv, NamesIntact, ShortNamesLent
<1>6. CASE name \notin LongName
  <2>1. mem = Null /\ heap' = heap
    BY <1>1, <1>6 DEF StoreName
  <2>2. QED
    BY <1>2, <1>3, <1>4, <1>6, <2>1 DEF NInv, NamesIntact, ShortNamesLent
<1>7. QED
  BY <1>5, <1>6

LEMMA DeleteKeepsNames ==
  ASSUME IInv, NInv, NEW i, DeleteCcbData(i)
  PROVE  NInv'
<1>1. /\ heap' = heap \ {op[o].mem : o \in FreeLoop(i)}
      /\ DOMAIN op' = DOMAIN op \ Owned(i)
      /\ \A o \in DOMAIN op' : op'[o] = op[o]
  BY NamesFreed DEF DeleteCcbData, IInv
<1>2. FreeLoop(i) \subseteq Owned(i) /\ Owned(i) \subseteq DOMAIN op
  BY DEF FreeLoop, Owned
<1>3. ASSUME NEW o \in DOMAIN op', op'[o].name \in LongName
      PROVE  op'[o].mem \in heap'
  <2>1. op[o].mem \in heap /\ \A x \in FreeLoop(i) : op[x].mem # op[o].mem
    BY <1>1, <1>2, <1>3 DEF NInv, NamesIntact
  <2>2. QED
    BY <1>1, <2>1
<1>4. QED
  BY <1>1, <1>3 DEF NInv, NamesIntact, ShortNamesLent

LEMMA NextNames ==
  ASSUME IInv, NInv, [Next]_vars
  PROVE  NInv'
<1>1. CASE \E i \in ItemId : DeleteCcbData(i)
  BY <1>1, DeleteKeepsNames
<1>2. CASE \E i, type, name : AddOperation(i, type, name)
  BY <1>2, AddKeepsNames
<1>3. CASE UNCHANGED <<op, heap>>
  BY <1>3 DEF NInv, NamesIntact, ShortNamesLent
<1>4. QED
  BY <1>1, <1>2, <1>3
     DEF Next, GetCcbData, GetFirstCcbOp, GetCcbOpDataByDN, GetNextCcbOp,
         AddCreateOperation, AddCreateOperation_2, AddDeleteOperation, AddModifyOperation, vars

\* A long name stays readable, and is nobody else's, as long as its operation is
\* stored.
THEOREM NamesKept == Spec => []NamesIntact
<1>1. Init => NInv
  BY DEF Init, NInv, NamesIntact, ShortNamesLent
<1>2. IInv /\ NInv /\ [Next]_vars => NInv'
  BY NextNames
<1>3. NInv => NamesIntact
  BY DEF NInv
<1>4. QED
  BY <1>1, <1>2, <1>3, Invariance, PTL DEF Spec

----------------------------------------------------------------------------
(****************************************************************************)
(* The order of the operations.  What the loops of immutil.c compute by     *)
(* following next is stated against a sequence: s is the order of an object *)
(* when it lists its operations, each once, from head to tail, and next     *)
(* leads from each to its successor.  Visit, which is defined by recursion  *)
(* along next, then runs through s and stays at Null (VisitIs).             *)
(****************************************************************************)
Order(i, s) ==
  /\ Owned(i) = {s[k] : k \in 1..Len(s)}
  /\ \A k, l \in 1..Len(s) : s[k] = s[l] => k = l
  /\ item[i].head = IF Len(s) = 0 THEN Null ELSE s[1]
  /\ item[i].tail = IF Len(s) = 0 THEN Null ELSE s[Len(s)]
  /\ \A k \in 1..Len(s) : op[s[k]].next = IF k = Len(s) THEN Null ELSE s[k + 1]

Ordered == \A i \in DOMAIN item : \E s \in Seq(OpId) : Order(i, s)

\* A walk has seen the first operations of the order, up to where it stands.
WalkInOrder ==
  walk.at # Null =>
    \E s \in Seq(OpId) :
      /\ Order(walk.of, s)
      /\ Len(walk.seen) \in 1..Len(s)
      /\ walk.at = s[Len(walk.seen)]
      /\ \A k \in 1..Len(walk.seen) : walk.seen[k] = s[k]

OInv == Ordered /\ WalkInOrder

\* Induction, for a set of numbers.
Less == {p \in Nat \X Nat : p[1] < p[2]}

LEMMA NumbersInductive ==
  ASSUME NEW S, 0 \in S, \A n \in Nat : n \in S => n + 1 \in S
  PROVE  Nat \subseteq S
<1>1. SUFFICES ASSUME Nat \ S # {} PROVE FALSE
  OBVIOUS
<1>2. IsWellFoundedOn(Less, Nat)
  <2>1. OpToRel(<, Nat) = Less
    BY DEF OpToRel, Less
  <2>2. QED
    BY <2>1, NatLessThanWellFounded
<1>3. PICK x \in Nat \ S : \A y \in Nat \ S : <<y, x>> \notin Less
  BY <1>1, <1>2, WFMin
<1>4. x # 0 /\ x - 1 \in Nat /\ <<x - 1, x>> \in Less
  BY <1>3 DEF Less
<1>5. x - 1 \in S
  BY <1>3, <1>4
<1>6. (x - 1) + 1 \in S
  BY <1>4, <1>5
<1>7. QED
  BY <1>3, <1>6

LEMMA OrderHasOperations ==
  ASSUME Lists, NEW i, NEW s \in Seq(OpId), Order(i, s)
  PROVE  /\ Len(s) \in Nat
         /\ \A k \in 1..Len(s) :
              s[k] \in DOMAIN op /\ s[k] \in Owned(i) /\ s[k] # Null /\ op[s[k]].owner = i
<1>1. \A k \in 1..Len(s) : s[k] \in Owned(i)
  BY DEF Order
<1>2. QED
  BY <1>1, NullIsNoOperation DEF Owned

\* A walk along next runs through the order, and ends after it.
LEMMA VisitIs ==
  ASSUME Lists, NEW i, NEW s \in Seq(OpId), Order(i, s), NEW k \in Nat
  PROVE  Visit(i)[k] = IF k < Len(s) THEN s[k + 1] ELSE Null
<1> DEFINE P(g) ==
      g = [n \in Nat |-> IF n = 0 THEN item[i].head
                         ELSE IF g[n - 1] = Null THEN Null ELSE op[g[n - 1]].next]
    f == [n \in Nat |-> IF n < Len(s) THEN s[n + 1] ELSE Null]
<1>1. P(f)
  <2>1. Len(s) \in Nat /\ \A n \in 1..Len(s) : s[n] # Null
    BY OrderHasOperations
  <2>2. f[0] = item[i].head
    BY <2>1 DEF Order
  <2>3. ASSUME NEW n \in Nat, n # 0
        PROVE  f[n] = IF f[n - 1] = Null THEN Null ELSE op[f[n - 1]].next
    <3>1. n - 1 \in Nat /\ (n - 1) + 1 = n
      BY <2>3
    <3>2. f[n - 1] = IF n - 1 < Len(s) THEN s[n] ELSE Null
      BY <3>1
    <3>3. CASE n - 1 < Len(s)
      <4>1. n \in 1..Len(s) /\ f[n - 1] = s[n] /\ s[n] # Null
        BY <2>1, <2>3, <3>2, <3>3
      <4>2. op[s[n]].next = IF n = Len(s) THEN Null ELSE s[n + 1]
        BY <4>1 DEF Order
      <4>3. f[n] = IF n = Len(s) THEN Null ELSE s[n + 1]
        BY <2>1, <4>1
      <4>4. QED
        BY <4>1, <4>2, <4>3
    <3>4. CASE ~(n - 1 < Len(s))
      BY <2>1, <3>2, <3>4
    <3>5. QED
      BY <3>3, <3>4
  <2> DEFINE g == [n \in Nat |-> IF n = 0 THEN item[i].head
                                 ELSE IF f[n - 1] = Null THEN Null ELSE op[f[n - 1]].next]
  <2>4. \A n \in Nat : f[n] = g[n]
    <3> HIDE DEF f
    <3>1. QED
      BY <2>2, <2>3
  <2>5. f = [n \in Nat |-> f[n]] /\ g = [n \in Nat |-> g[n]]
    OBVIOUS
  <2> HIDE DEF f, g
  <2>6. f = g
    BY <2>4, <2>5
  <2>7. QED
    BY <2>6 DEF g
<1>2. Visit(i) = CHOOSE g : P(g)
  BY DEF Visit
<1>3. P(Visit(i))
  <2> HIDE DEF P, f
  <2>1. QED
    BY <1>1, <1>2
<1> DEFINE v == Visit(i)
           S == {n \in Nat : v[n] = f[n]}
<1>4. v[0] = item[i].head /\ \A n \in Nat : v[n + 1] = IF v[n] = Null THEN Null ELSE op[v[n]].next
  <2> HIDE DEF f
  <2>1. v = [n \in Nat |-> IF n = 0 THEN item[i].head
                           ELSE IF v[n - 1] = Null THEN Null ELSE op[v[n - 1]].next]
    BY <1>3
  <2> HIDE DEF v, P
  <2>2. v[0] = item[i].head
    BY <2>1
  <2>3. ASSUME NEW n \in Nat PROVE v[n + 1] = IF v[n] = Null THEN Null ELSE op[v[n]].next
    <3>1. n + 1 \in Nat /\ n + 1 # 0 /\ (n + 1) - 1 = n
      OBVIOUS
    <3>2. QED
      BY <2>1, <3>1
  <2>4. QED
    BY <2>2, <2>3
<1>5. f[0] = item[i].head /\ \A n \in Nat : f[n + 1] = IF f[n] = Null THEN Null ELSE op[f[n]].next
  <2> HIDE DEF v
  <2>1. f = [n \in Nat |-> IF n = 0 THEN item[i].head
                           ELSE IF f[n - 1] = Null THEN Null ELSE op[f[n - 1]].next]
    BY <1>1
  <2> HIDE DEF f, P
  <2>2. f[0] = item[i].head
    BY <2>1
  <2>3. ASSUME NEW n \in Nat PROVE f[n + 1] = IF f[n] = Null THEN Null ELSE op[f[n]].next
    <3>1. n + 1 \in Nat /\ n + 1 # 0 /\ (n + 1) - 1 = n
      OBVIOUS
    <3>2. QED
      BY <2>1, <3>1
  <2>4. QED
    BY <2>2, <2>3
<1>6. Nat \subseteq S
  <2> HIDE DEF f, v, P
  <2>1. 0 \in S
    BY <1>4, <1>5
  <2>2. ASSUME NEW n \in Nat, n \in S PROVE n + 1 \in S
    <3>1. v[n] = f[n] /\ n + 1 \in Nat
      BY <2>2
    <3>2. v[n + 1] = f[n + 1]
      BY <3>1, <1>4, <1>5
    <3>3. QED
      BY <3>1, <3>2
  <2> HIDE DEF S
  <2>3. QED
    BY <2>1, <2>2, NumbersInductive
<1>7. v[k] = f[k]
  <2> HIDE DEF f, v, P
  <2>1. QED
    BY <1>6
<1>8. QED
  BY <1>7

\* There are as many operations as the order is long.
LEMMA OwnedCount ==
  ASSUME NEW i, NEW s \in Seq(OpId), Order(i, s)
  PROVE  Cardinality(Owned(i)) = Len(s) /\ Steps(i) = 0..Len(s)
<1>1. Len(s) \in Nat /\ s \in [1..Len(s) -> Owned(i)]
  <2>1. Len(s) \in Nat /\ s \in [1..Len(s) -> OpId]
    OBVIOUS
  <2>2. \A k \in 1..Len(s) : s[k] \in Owned(i)
    BY DEF Order
  <2>3. QED
    BY <2>1, <2>2
<1>2. s \in Bijection(1..Len(s), Owned(i))
  <2>1. s \in Injection(1..Len(s), Owned(i))
    BY <1>1, Fun_IsInj DEF Order
  <2>2. s \in Surjection(1..Len(s), Owned(i))
    BY <1>1, Fun_IsSurj DEF Order
  <2>3. QED
    BY <2>1, <2>2 DEF Bijection
<1>3. IsFiniteSet(1..Len(s)) /\ Cardinality(1..Len(s)) = Len(s)
  BY <1>1, FS_Interval
<1>4. Cardinality(Owned(i)) = Len(s)
  BY <1>2, <1>3, FS_Bijection DEF ExistsBijection
<1>5. QED
  BY <1>4 DEF Steps

----------------------------------------------------------------------------
(****************************************************************************)
(* Every operation keeps the orders: an addition appends, a deletion takes  *)
(* one away, and a walk goes on along its own.                              *)
(****************************************************************************)
LEMMA OrderUntouched ==
  ASSUME NEW x, NEW s, Order(x, s), Owned(x)' = Owned(x),
         item'[x].head = item[x].head, item'[x].tail = item[x].tail,
         \A o \in Owned(x) : op'[o].next = op[o].next
  PROVE  Order(x, s)'
<1>1. \A k \in 1..Len(s) : op'[s[k]].next = op[s[k]].next
  BY DEF Order
<1>2. Owned(x)' = {s[k] : k \in 1..Len(s)}
  BY DEF Order
<1>3. QED
  BY <1>1, <1>2 DEF Order

\* ccbutil_getCcbData: an object that is new has no operations.
LEMMA ObtainKeepsOrder ==
  ASSUME Lists, NEW id \in CcbId, NEW i, Obtain(id, i), UNCHANGED <<op, heap>>,
         NEW x, NEW s \in Seq(OpId), x \in DOMAIN item, Order(x, s)
  PROVE  Order(x, s)'
<1>1. Owned(x)' = Owned(x)
  BY DEF Owned
<1>2. item'[x] = item[x]
  BY DEF Obtain, CreateCcbData
<1>3. QED
  BY <1>1, <1>2, OrderUntouched

LEMMA ObtainOrders ==
  ASSUME Lists, Ordered, NEW id \in CcbId, NEW i, Obtain(id, i), UNCHANGED <<op, heap>>
  PROVE  Ordered'
<1>1. SUFFICES ASSUME NEW x \in DOMAIN item' PROVE \E s \in Seq(OpId) : Order(x, s)'
  BY DEF Ordered
<1>2. CASE x \in DOMAIN item
  BY <1>2, ObtainKeepsOrder DEF Ordered
<1>3. CASE x \notin DOMAIN item
  <2>1. x = i /\ item'[x].head = Null /\ item'[x].tail = Null
    BY <1>1, <1>3 DEF Obtain, CreateCcbData
  <2>2. Owned(x)' = {}
    BY <1>3 DEF Owned, Lists, OpsIntact
  <2>3. <<>> \in Seq(OpId) /\ Len(<<>>) = 0
    BY EmptySeq
  <2>4. Order(x, <<>>)'
    BY <2>1, <2>2, <2>3 DEF Order
  <2>5. QED
    BY <2>3, <2>4
<1>4. QED
  BY <1>2, <1>3

\* newOperationData, field by field.
LEMMA AddEffect ==
  ASSUME Lists, NEW i, NEW type, NEW name, AddOperation(i, type, name)
  PROVE  \E o \in OpId \ DOMAIN op :
           /\ i \in DOMAIN item /\ DOMAIN item' = DOMAIN item
           /\ DOMAIN op' = DOMAIN op \cup {o}
           /\ item'[i].tail = o
           /\ item'[i].head = IF item[i].tail = Null THEN o ELSE item[i].head
           /\ \A x \in DOMAIN item :
                /\ item'[x].ccbId = item[x].ccbId
                /\ x # i => item'[x] = item[x]
           /\ op'[o].owner = i /\ op'[o].next = Null
           /\ op'[o].type = type /\ op'[o].name = name
           /\ \A x \in DOMAIN op :
                /\ op'[x].owner = op[x].owner /\ op'[x].type = op[x].type
                /\ op'[x].name = op[x].name /\ op'[x].mem = op[x].mem
                /\ op'[x].next = IF x = item[i].tail THEN o ELSE op[x].next
           /\ \A x : Owned(x)' = Owned(x) \cup (IF x = i THEN {o} ELSE {})
           /\ StoreName(name, op'[o].mem)
<1>1. PICK o \in OpId \ DOMAIN op, mem \in NameMem \cup {Null} :
        /\ StoreName(name, mem)
        /\ op' = [x \in DOMAIN op \cup {o} |->
                    IF x = o
                    THEN [owner |-> i, next |-> Null, type |-> type,
                          name |-> name, mem |-> mem]
                    ELSE IF x = item[i].tail THEN [op[x] EXCEPT !.next = o]
                    ELSE op[x]]
        /\ AppendToItem(i, o)
  BY DEF AddOperation
<1>2. i \in DOMAIN item /\ o \notin DOMAIN op
  BY DEF AddOperation
<1>3. item \in [DOMAIN item -> ItemRec] /\ op \in [DOMAIN op -> OpRec]
  BY DEF Lists, ListsTyped
<1>4. DOMAIN item' = DOMAIN item /\ DOMAIN op' = DOMAIN op \cup {o}
  BY <1>1 DEF AppendToItem
<1>5. /\ item'[i].tail = o
      /\ item'[i].head = IF item[i].tail = Null THEN o ELSE item[i].head
      /\ item'[i].ccbId = item[i].ccbId
      /\ \A x \in DOMAIN item : x # i => item'[x] = item[x]
  BY <1>1, <1>2, <1>3 DEF AppendToItem, ItemRec
<1>6. /\ op'[o].owner = i /\ op'[o].next = Null
      /\ op'[o].type = type /\ op'[o].name = name /\ op'[o].mem = mem
  BY <1>1, <1>2
<1>7. ASSUME NEW x \in DOMAIN op
      PROVE  /\ op'[x].owner = op[x].owner /\ op'[x].type = op[x].type
             /\ op'[x].name = op[x].name /\ op'[x].mem = op[x].mem
             /\ op'[x].next = IF x = item[i].tail THEN o ELSE op[x].next
  <2>1. op[x] \in OpRec /\ x # o
    BY <1>2, <1>3
  <2>2. op'[x] = IF x = item[i].tail THEN [op[x] EXCEPT !.next = o] ELSE op[x]
    BY <1>1, <2>1
  <2>3. QED
    BY <2>1, <2>2 DEF OpRec
<1>8. \A x : Owned(x)' = Owned(x) \cup (IF x = i THEN {o} ELSE {})
  BY <1>2, <1>4, <1>6, <1>7 DEF Owned
<1>9. QED
  BY <1>1, <1>2, <1>4, <1>5, <1>6, <1>7, <1>8

\* The order of the object goes on with the new operation; the others stay.
LEMMA AddKeepsOrder ==
  ASSUME Lists, NEW i, NEW type, NEW name, AddOperation(i, type, name),
         NEW o \in OpId \ DOMAIN op, DOMAIN op' = DOMAIN op \cup {o},
         NEW x \in DOMAIN item, NEW s \in Seq(OpId), Order(x, s)
  PROVE  IF x = i THEN Order(x, Append(s, o))' ELSE Order(x, s)'
<1>1. PICK o1 \in OpId \ DOMAIN op :
        /\ DOMAIN op' = DOMAIN op \cup {o1}
        /\ item'[i].tail = o1
        /\ item'[i].head = IF item[i].tail = Null THEN o1 ELSE item[i].head
        /\ \A y \in DOMAIN item : y # i => item'[y] = item[y]
        /\ op'[o1].next = Null
        /\ \A y \in DOMAIN op : op'[y].next = IF y = item[i].tail THEN o1 ELSE op[y].next
        /\ \A y : Owned(y)' = Owned(y) \cup (IF y = i THEN {o1} ELSE {})
  BY AddEffect
<1>2. o1 = o
  BY <1>1
<1>3. /\ Len(s) \in Nat
      /\ \A k \in 1..Len(s) : s[k] \in DOMAIN op /\ s[k] # Null /\ op[s[k]].owner = x
  BY OrderHasOperations
<1>4. CASE x = i
  <2> DEFINE t == Append(s, o)
  <2>1. /\ t \in Seq(OpId) /\ Len(t) = Len(s) + 1 /\ t[Len(s) + 1] = o
        /\ \A k \in 1..Len(s) : t[k] = s[k]
    BY AppendProperties
  <2> HIDE DEF t
  <2>2. Owned(x)' = {t[k] : k \in 1..Len(t)}
    <3>1. Owned(x)' = {s[k] : k \in 1..Len(s)} \cup {o}
      BY <1>1, <1>2, <1>4 DEF Order
    <3>2. \A k \in 1..Len(t) : k \in 1..Len(s) \/ k = Len(s) + 1
      BY <1>3, <2>1
    <3>3. 1..Len(s) \subseteq 1..Len(t) /\ Len(s) + 1 \in 1..Len(t)
      BY <1>3, <2>1
    <3>4. {t[k] : k \in 1..Len(t)} = {s[k] : k \in 1..Len(s)} \cup {o}
      BY <2>1, <3>2, <3>3
    <3>5. QED
      BY <3>1, <3>4
  <2>3. \A k, l \in 1..Len(t) : t[k] = t[l] => k = l
    <3>1. SUFFICES ASSUME NEW k \in 1..Len(t), NEW l \in 1..Len(t), t[k] = t[l]
                   PROVE  k = l
      OBVIOUS
    <3>2. \A m \in 1..Len(s) : t[m] # o
      BY <1>3, <2>1
    <3>3. (k \in 1..Len(s) /\ l \in 1..Len(s)) \/ (k = Len(s) + 1 /\ l = Len(s) + 1)
      BY <1>3, <2>1, <3>1, <3>2
    <3>4. QED
      BY <2>1, <3>1, <3>3 DEF Order
  <2>4. item'[x].tail = t[Len(t)] /\ Len(t) # 0
    BY <1>1, <1>2, <1>3, <1>4, <2>1
  <2>5. item[x].tail = Null <=> Len(s) = 0
    BY <1>3 DEF Order
  <2>6. item'[x].head = t[1]
    <3>1. CASE Len(s) = 0
      BY <1>1, <1>2, <1>4, <2>1, <2>5, <3>1
    <3>2. CASE Len(s) # 0
      <4>1. 1 \in 1..Len(s) /\ item[x].head = s[1]
        BY <1>3, <3>2 DEF Order
      <4>2. QED
        BY <1>1, <1>4, <2>1, <2>5, <3>2, <4>1
    <3>3. QED
      BY <3>1, <3>2
  <2>7. ASSUME NEW k \in 1..Len(t)
        PROVE  op'[t[k]].next = IF k = Len(t) THEN Null ELSE t[k + 1]
    <3>1. CASE k = Len(s) + 1
      BY <1>1, <1>2, <2>1, <3>1
    <3>2. CASE k = Len(s) /\ k # 0
      <4>1. k \in 1..Len(s) /\ t[k] = s[k] /\ item[i].tail = s[k]
        BY <1>3, <1>4, <2>1, <3>2 DEF Order
      <4>2. op'[t[k]].next = o
        BY <1>1, <1>2, <1>3, <4>1
      <4>3. QED
        BY <1>3, <2>1, <3>2, <4>2
    <3>3. CASE k \in 1..Len(s) /\ k # Len(s)
      <4>1. Len(s) \in 1..Len(s) /\ k + 1 \in 1..Len(s) /\ k # Len(t)
        BY <1>3, <2>1, <3>3
      <4>2. t[k] = s[k] /\ t[k + 1] = s[k + 1] /\ s[k] # item[i].tail
        BY <1>3, <1>4, <2>1, <3>3, <4>1 DEF Order
      <4>3. op'[t[k]].next = op[s[k]].next
        BY <1>1, <1>3, <3>3, <4>2
      <4>4. op[s[k]].next = s[k + 1]
        BY <3>3 DEF Order
      <4>5. QED
        BY <4>1, <4>2, <4>3, <4>4
    <3>4. QED
      BY <1>3, <2>1, <3>1, <3>2, <3>3
  <2>8. Order(x, t)'
    BY <2>2, <2>3, <2>4, <2>6, <2>7 DEF Order
  <2>9. QED
    BY <1>4, <2>8 DEF t
<1>5. CASE x # i
  <2>1. Owned(x)' = Owned(x) /\ item'[x] = item[x]
    BY <1>1, <1>5
  <2>2. ASSUME NEW y \in Owned(x) PROVE op'[y].next = op[y].next
    <3>1. y \in DOMAIN op /\ op[y].owner = x
      BY DEF Owned
    <3>2. y # item[i].tail
      <4>1. i \in DOMAIN item
        BY DEF AddOperation
      <4>2. item[i].tail = Null \/ op[item[i].tail].owner = i
        BY <4>1 DEF Lists, ItemsIntact, Owned
      <4>3. QED
        BY <1>5, <3>1, <4>2, NullIsNoOperation
    <3>3. QED
      BY <1>1, <3>1, <3>2
  <2>3. Order(x, s)'
    BY <2>1, <2>2, OrderUntouched
  <2>4. QED
    BY <1>5, <2>3
<1>6. QED
  BY <1>4, <1>5

\* ccbutil_deleteCcbData leaves the orders of the others alone.
LEMMA DeleteKeepsOrder ==
  ASSUME Lists, NEW i, DeleteCcbData(i), NEW x \in DOMAIN item, x # i,
         NEW s \in Seq(OpId), Order(x, s)
  PROVE  Order(x, s)'
<1>1. /\ item'[x] = item[x]
      /\ DOMAIN op' = DOMAIN op \ Owned(i)
      /\ \A o \in DOMAIN op' : op'[o] = op[o]
  BY DEF DeleteCcbData
<1>2. Owned(x)' = Owned(x)
  BY <1>1 DEF Owned
<1>3. \A o \in Owned(x) : op'[o].next = op[o].next
  BY <1>1 DEF Owned
<1>4. QED
  BY <1>1, <1>2, <1>3, OrderUntouched

\* A walk that stands still stays in order when the order only grows.
LEMMA WalkKeepsOrder ==
  ASSUME WalkInOrder, walk' = walk, NEW i, i = walk.of,
         walk.at # Null =>
           \A s \in Seq(OpId) : Order(i, s) =>
             \E t \in Seq(OpId) :
               /\ Order(i, t)' /\ Len(s) <= Len(t)
               /\ \A k \in 1..Len(s) : t[k] = s[k]
  PROVE  WalkInOrder'
<1>1. CASE walk.at = Null
  BY <1>1 DEF WalkInOrder
<1>2. CASE walk.at # Null
  <2>1. PICK s \in Seq(OpId) :
          /\ Order(walk.of, s)
          /\ Len(walk.seen) \in 1..Len(s)
          /\ walk.at = s[Len(walk.seen)]
          /\ \A k \in 1..Len(walk.seen) : walk.seen[k] = s[k]
    BY <1>2 DEF WalkInOrder
  <2>2. PICK t \in Seq(OpId) :
          /\ Order(i, t)' /\ Len(s) <= Len(t)
          /\ \A k \in 1..Len(s) : t[k] = s[k]
    BY <1>2, <2>1
  <2>3. Len(s) \in Nat /\ Len(t) \in Nat /\ 1..Len(walk.seen) \subseteq 1..Len(s)
    BY <2>1
  <2>4. /\ Len(walk.seen) \in 1..Len(t)
        /\ walk.at = t[Len(walk.seen)]
        /\ \A k \in 1..Len(walk.seen) : walk.seen[k] = t[k]
    BY <2>1, <2>2, <2>3
  <2>5. Order(walk.of, t)'
    BY <2>2 DEF Order, Owned
  <2>6. QED
    BY <2>4, <2>5 DEF WalkInOrder
<1>3. QED
  BY <1>1, <1>2

LEMMA AddOrders ==
  ASSUME IInv, OInv, NEW i, NEW type, NEW name, AddOperation(i, type, name)
  PROVE  OInv'
<1>1. Lists /\ Walks
  BY DEF IInv
<1>2. PICK o \in OpId \ DOMAIN op : DOMAIN item' = DOMAIN item /\ DOMAIN op' = DOMAIN op \cup {o}
  BY <1>1, AddEffect
<1>3. ASSUME NEW x \in DOMAIN item, NEW s \in Seq(OpId), Order(x, s)
      PROVE  \E t \in Seq(OpId) :
               /\ Order(x, t)' /\ Len(s) <= Len(t)
               /\ \A k \in 1..Len(s) : t[k] = s[k]
  <2>1. CASE x = i
    <3>1. Order(x, Append(s, o))'
      BY <1>1, <1>2, <1>3, <2>1, AddKeepsOrder
    <3>2. /\ Append(s, o) \in Seq(OpId) /\ Len(s) <= Len(Append(s, o))
          /\ \A k \in 1..Len(s) : Append(s, o)[k] = s[k]
      BY AppendProperties
    <3>3. QED
      BY <3>1, <3>2
  <2>2. CASE x # i
    <3>1. Order(x, s)'
      BY <1>1, <1>2, <1>3, <2>2, AddKeepsOrder
    <3>2. QED
      BY <3>1
  <2>3. QED
    BY <2>1, <2>2
<1>4. Ordered'
  BY <1>2, <1>3 DEF OInv, Ordered
<1>5. walk.at # Null => walk.of \in DOMAIN item
  BY <1>1 DEF Walks
<1>6. walk' = walk
  BY DEF AddOperation
<1>7. WalkInOrder'
  <2>1. PICK x : x = walk.of
    OBVIOUS
  <2>2. QED
    BY <1>3, <1>5, <1>6, <2>1, WalkKeepsOrder DEF OInv
<1>8. QED
  BY <1>4, <1>7 DEF OInv

LEMMA GetOrders ==
  ASSUME IInv, OInv, NEW id \in CcbId, GetCcbData(id)
  PROVE  OInv'
<1>1. PICK i : Obtain(id, i)
  BY DEF GetCcbData
<1>2. Lists /\ UNCHANGED <<op, heap>> /\ walk' = walk
  BY DEF IInv, GetCcbData
<1>3. Ordered'
  BY <1>1, <1>2, ObtainOrders DEF OInv
<1>4. walk.at # Null => walk.of \in DOMAIN item
  BY DEF IInv, Walks
<1>5. PICK x : x = walk.of
  OBVIOUS
<1>6. WalkInOrder'
  <2>1. ASSUME walk.at # Null, NEW s \in Seq(OpId), Order(x, s)
        PROVE  \E t \in Seq(OpId) :
                 /\ Order(x, t)' /\ Len(s) <= Len(t)
                 /\ \A k \in 1..Len(s) : t[k] = s[k]
    <3>1. Order(x, s)' /\ Len(s) \in Nat
      BY <1>1, <1>2, <1>4, <1>5, <2>1, ObtainKeepsOrder
    <3>2. QED
      BY <3>1
  <2>2. QED
    BY <1>2, <1>5, <2>1, WalkKeepsOrder DEF OInv
<1>7. QED
  BY <1>3, <1>6 DEF OInv

LEMMA FirstOrders ==
  ASSUME IInv, OInv, NEW id \in CcbId, GetFirstCcbOp(id)
  PROVE  OInv'
<1>1. PICK i : /\ Obtain(id, i)
               /\ walk' = [of |-> i, at |-> item'[i].head,
                           seen |-> IF item'[i].head = Null
                                    THEN <<>> ELSE <<item'[i].head>>]
  BY DEF GetFirstCcbOp
<1>2. Lists /\ UNCHANGED <<op, heap>>
  BY DEF IInv, GetFirstCcbOp
<1>3. Ordered' /\ i \in DOMAIN item'
  BY <1>1, <1>2, ObtainOrders, ObtainKeepsLists DEF OInv
<1>4. PICK s \in Seq(OpId) : Order(i, s)'
  BY <1>3 DEF Ordered
<1>5. item'[i].head = IF Len(s) = 0 THEN Null ELSE s[1]
  BY <1>4 DEF Order
<1>6. CASE item'[i].head = Null
  BY <1>1, <1>3, <1>6 DEF OInv, WalkInOrder
<1>7. CASE item'[i].head # Null
  <2>1. Len(s) \in Nat /\ Len(s) # 0 /\ 1 \in 1..Len(s)
    BY <1>5, <1>7
  <2>2. walk'.of = i /\ walk'.at = s[1] /\ walk'.seen = <<s[1]>>
    BY <1>1, <1>5, <1>7, <2>1
  <2>3. Len(walk'.seen) = 1 /\ walk'.seen[1] = s[1]
    BY <2>2
  <2>4. Order(walk.of, s)'
    BY <1>4, <2>2 DEF Order, Owned
  <2>5. WalkInOrder'
    BY <2>1, <2>2, <2>3, <2>4 DEF WalkInOrder
  <2>6. QED
    BY <1>3, <2>5 DEF OInv
<1>8. QED
  BY <1>6, <1>7

LEMMA DeleteOrders ==
  ASSUME IInv, OInv, NEW i, DeleteCcbData(i)
  PROVE  OInv'
<1>1. Lists /\ DOMAIN item' = DOMAIN item \ {i}
  BY DEF IInv, DeleteCcbData
<1>2. \A x \in DOMAIN item' : \A s \in Seq(OpId) : Order(x, s) => Order(x, s)'
  BY <1>1, DeleteKeepsOrder
<1>3. Ordered'
  BY <1>1, <1>2 DEF OInv, Ordered
<1>4. WalkInOrder'
  <2>1. CASE walk.of = i
    <3>1. walk'.at = Null
      BY <2>1 DEF DeleteCcbData, NoWalk
    <3>2. QED
      BY <3>1 DEF WalkInOrder
  <2>2. CASE walk.of # i
    <3>1. walk' = walk
      BY <2>2 DEF DeleteCcbData
    <3>2. walk.at # Null => walk.of \in DOMAIN item'
      BY <1>1, <2>2 DEF IInv, Walks
    <3>3. PICK x : x = walk.of
      OBVIOUS
    <3>4. ASSUME walk.at # Null, NEW s \in Seq(OpId), Order(x, s)
          PROVE  \E t \in Seq(OpId) :
                   /\ Order(x, t)' /\ Len(s) <= Len(t)
                   /\ \A k \in 1..Len(s) : t[k] = s[k]
      <4>1. Order(x, s)' /\ Len(s) \in Nat
        BY <1>2, <3>2, <3>3, <3>4
      <4>2. QED
        BY <4>1
    <3>5. QED
      BY <3>1, <3>3, <3>4, WalkKeepsOrder DEF OInv
  <2>3. QED
    BY <2>1, <2>2
<1>5. QED
  BY <1>3, <1>4 DEF OInv

\* The walk goes on to the next operation of the order.
LEMMA NextOrders ==
  ASSUME IInv, OInv, GetNextCcbOp
  PROVE  OInv'
<1> DEFINE next == op[walk.at].next
<1>1. /\ walk.at # Null /\ walk \in WalkRec
      /\ ccbList' = ccbList /\ item' = item /\ op' = op
      /\ walk' = [walk EXCEPT !.at = next,
                              !.seen = IF next = Null THEN @ ELSE Append(@, next)]
  BY DEF GetNextCcbOp, IInv, Walks
<1>2. PICK s \in Seq(OpId) :
        /\ Order(walk.of, s)
        /\ Len(walk.seen) \in 1..Len(s)
        /\ walk.at = s[Len(walk.seen)]
        /\ \A k \in 1..Len(walk.seen) : walk.seen[k] = s[k]
  BY <1>1 DEF OInv, WalkInOrder
<1>3. \A x, t : Order(x, t) => Order(x, t)'
  BY <1>1 DEF Order, Owned
<1>4. Ordered'
  BY <1>1, <1>3 DEF OInv, Ordered
<1>5. WalkInOrder'
  <2>1. SUFFICES ASSUME next # Null PROVE WalkInOrder'
    BY <1>1 DEF WalkInOrder, WalkRec
  <2>2. next = IF Len(walk.seen) = Len(s) THEN Null ELSE s[Len(walk.seen) + 1]
    BY <1>2 DEF Order
  <2>3. /\ Len(s) \in Nat /\ Len(walk.seen) + 1 \in 1..Len(s)
        /\ next = s[Len(walk.seen) + 1] /\ next \in OpId
    BY <1>2, <2>1, <2>2
  <2>4. walk.seen \in Seq(OpId) /\ walk'.seen = Append(walk.seen, next)
        /\ walk'.at = next /\ walk'.of = walk.of
    BY <1>1, <2>1 DEF WalkRec
  <2> HIDE DEF next
  <2>5. /\ Len(walk'.seen) = Len(walk.seen) + 1
        /\ walk'.seen[Len(walk.seen) + 1] = next
        /\ \A k \in 1..Len(walk.seen) : walk'.seen[k] = walk.seen[k]
    BY <2>3, <2>4, AppendProperties
  <2>6. \A k \in 1..Len(walk'.seen) : walk'.seen[k] = s[k]
    BY <1>2, <2>3, <2>5
  <2>7. Order(walk.of, s)'
    <3>1. PICK i : i = walk.of
      OBVIOUS
    <3>2. Order(i, s)'
      BY <1>2, <1>3, <3>1
    <3>3. QED
      BY <2>4, <3>1, <3>2 DEF Order, Owned
  <2>8. QED
    BY <2>3, <2>4, <2>5, <2>6, <2>7 DEF WalkInOrder
<1>6. QED
  BY <1>4, <1>5 DEF OInv

\* The steps of Next, in terms of the calls.
LEMMA CallsOfNext ==
  ASSUME Next
  PROVE  \/ \E id \in CcbId : GetCcbData(id) \/ GetFirstCcbOp(id)
         \/ \E i \in ItemId, type \in Type, name \in DN : AddOperation(i, type, name)
         \/ \E i \in ItemId : DeleteCcbData(i)
         \/ GetNextCcbOp
BY DEF Next, GetCcbOpDataByDN, AddCreateOperation, AddCreateOperation_2,
       AddDeleteOperation, AddModifyOperation, Type, DN

LEMMA NextOInv == IInv /\ OInv /\ [Next]_vars => OInv'
<1>1. SUFFICES ASSUME IInv, OInv, [Next]_vars PROVE OInv'
  OBVIOUS
<1>2. CASE UNCHANGED vars
  <2>1. ccbList' = ccbList /\ item' = item /\ op' = op /\ walk' = walk
    BY <1>2 DEF vars
  <2>2. \A x, t : Order(x, t) => Order(x, t)'
    BY <2>1 DEF Order, Owned
  <2>3. Ordered'
    BY <1>1, <2>1, <2>2 DEF OInv, Ordered
  <2>4. WalkInOrder'
    <3>1. PICK i : i = walk.of
      OBVIOUS
    <3>2. ASSUME NEW s \in Seq(OpId), Order(i, s)
          PROVE  \E t \in Seq(OpId) :
                   /\ Order(i, t)' /\ Len(s) <= Len(t)
                   /\ \A k \in 1..Len(s) : t[k] = s[k]
      BY <2>2, <3>2
    <3>3. QED
      BY <1>1, <2>1, <3>1, <3>2, WalkKeepsOrder DEF OInv
  <2>5. QED
    BY <2>3, <2>4 DEF OInv
<1>3. CASE Next
  BY <1>1, <1>3, CallsOfNext, GetOrders, FirstOrders, AddOrders, DeleteOrders, NextOrders
<1>4. QED
  BY <1>1, <1>2, <1>3

LEMMA InitOInv == Init => OInv
BY DEF Init, OInv, Ordered, WalkInOrder, NoWalk

\* Every CCB object has an order, and a walk follows it.
THEOREM InOrder == Spec => [](IInv /\ OInv)
<1>1. Init => IInv /\ OInv
  BY InitIInv, InitOInv
<1>2. (IInv /\ OInv) /\ [Next]_vars => (IInv /\ OInv)'
  BY NextIInv, NextOInv
<1>3. QED
  BY <1>1, <1>2, PTL DEF Spec

----------------------------------------------------------------------------
(****************************************************************************)
(* What the order gives: the lookup by name, the walk to the end, the names *)
(* that the loop of ccbutil_deleteCcbData misses.                           *)
(****************************************************************************)
\* The operations of an object, as Visit numbers them.
LEMMA VisitedInOrder ==
  ASSUME Lists, NEW i, NEW s \in Seq(OpId), Order(i, s)
  PROVE  /\ Len(s) \in Nat /\ Steps(i) = 0..Len(s)
         /\ \A k \in Steps(i) :
              /\ k < Len(s) => k + 1 \in 1..Len(s) /\ Visit(i)[k] = s[k + 1]
              /\ ~(k < Len(s)) => Visit(i)[k] = Null
         /\ \A k \in 1..Len(s) : k - 1 \in Steps(i) /\ Visit(i)[k - 1] = s[k]
<1>1. Len(s) \in Nat /\ Steps(i) = 0..Len(s)
  BY OwnedCount
<1>2. ASSUME NEW k \in Steps(i)
      PROVE  /\ k < Len(s) => k + 1 \in 1..Len(s) /\ Visit(i)[k] = s[k + 1]
             /\ ~(k < Len(s)) => Visit(i)[k] = Null
  BY <1>1, VisitIs
<1>3. ASSUME NEW k \in 1..Len(s)
      PROVE  k - 1 \in Steps(i) /\ Visit(i)[k - 1] = s[k]
  <2>1. k - 1 \in Steps(i) /\ k - 1 < Len(s) /\ (k - 1) + 1 = k
    BY <1>1
  <2>2. QED
    BY <1>2, <2>1
<1>4. QED
  BY <1>1, <1>2, <1>3

(****************************************************************************)
(* The lookup by name.  Against the order of an object the answer is the    *)
(* operation at the least place of those stored under the name.  An         *)
(* addition appends to the order, so that it can only become the answer     *)
(* where there was none; every other call keeps the order.                  *)
(****************************************************************************)
Places(s, dn) == {k \in 1..Len(s) : op[s[k]].name = dn}
Answer(s, dn) ==
  {s[k] : k \in {m \in Places(s, dn) : \A l \in Places(s, dn) : m <= l}}

LookupInOrder ==
  \A i \in DOMAIN item, s \in Seq(OpId), dn \in DN :
    Order(i, s) => Lookup(i, dn) = Answer(s, dn)

\* A step of Lookup is a place of the order.
LEMMA LookupIsOrdered == Lists => LookupInOrder
<1>1. SUFFICES ASSUME Lists, NEW i \in DOMAIN item, NEW s \in Seq(OpId), NEW dn \in DN,
                      Order(i, s)
               PROVE  Lookup(i, dn) = Answer(s, dn)
  BY DEF LookupInOrder
<1> DEFINE v == Visit(i)
           least == {m \in Places(s, dn) : \A l \in Places(s, dn) : m <= l}
<1>2. /\ Len(s) \in Nat /\ Steps(i) = 0..Len(s)
      /\ \A k \in 1..Len(s) : v[k - 1] = s[k] /\ s[k] \in Owned(i) /\ s[k] # Null
      /\ \A k \in Steps(i) :
           /\ k < Len(s) => k + 1 \in 1..Len(s) /\ v[k] = s[k + 1]
           /\ ~(k < Len(s)) => v[k] = Null
  BY <1>1, VisitedInOrder, OrderHasOperations
<1> HIDE DEF v
<1>3. ASSUME NEW o \in Lookup(i, dn) PROVE \E k \in least : o = s[k]
  <2>1. PICK k \in Steps(i) :
          v[k] = o /\ op[o].name = dn /\ \A j \in 0..(k - 1) : op[v[j]].name # dn
    BY DEF Lookup, v
  <2>2. o # Null
    BY <1>1, NullIsNoOperation DEF Lookup, Owned
  <2>3. k \in 0..Len(s) /\ k + 1 \in 1..Len(s) /\ o = s[k + 1]
    BY <1>2, <2>1, <2>2
  <2>4. ASSUME NEW l \in Places(s, dn) PROVE k + 1 <= l
    <3>1. l \in 1..Len(s) /\ op[v[l - 1]].name = dn
      BY <1>2 DEF Places
    <3>2. l - 1 \notin 0..(k - 1)
      BY <2>1, <3>1
    <3>3. QED
      BY <1>2, <2>3, <3>1, <3>2
  <2>5. k + 1 \in Places(s, dn)
    BY <2>1, <2>3 DEF Places
  <2>6. QED
    BY <2>3, <2>4, <2>5
<1>4. ASSUME NEW k \in least PROVE s[k] \in Lookup(i, dn)
  <2>1. k \in 1..Len(s) /\ op[s[k]].name = dn /\ \A l \in Places(s, dn) : k <= l
    BY DEF Places
  <2>2. k - 1 \in Steps(i) /\ v[k - 1] = s[k] /\ s[k] \in Owned(i)
    BY <1>2, <2>1
  <2>3. ASSUME NEW j \in 0..((k - 1) - 1) PROVE op[v[j]].name # dn
    <3>1. j + 1 \in 1..Len(s) /\ ~(k <= j + 1) /\ v[j] = s[j + 1]
      BY <1>2, <2>1
    <3>2. QED
      BY <2>1, <3>1 DEF Places
  <2>4. QED
    BY <2>1, <2>2, <2>3 DEF Lookup, v
<1>5. QED
  BY <1>3, <1>4 DEF Answer

\* If any operation is stored under the name, there is a first one.
LEMMA FirstExists ==
  ASSUME NEW s \in Seq(OpId), NEW dn, Answer(s, dn) = {}
  PROVE  Places(s, dn) = {}
<1>1. SUFFICES ASSUME Places(s, dn) # {} PROVE FALSE
  OBVIOUS
<1>2. Places(s, dn) \subseteq Nat
  BY DEF Places
<1>3. IsWellFoundedOn(Less, Nat)
  <2>1. OpToRel(<, Nat) = Less
    BY DEF OpToRel, Less
  <2>2. QED
    BY <2>1, NatLessThanWellFounded
<1>4. PICK m \in Places(s, dn) : \A l \in Places(s, dn) : <<l, m>> \notin Less
  BY <1>1, <1>2, <1>3, WFMin
<1>5. ASSUME NEW l \in Places(s, dn) PROVE m <= l
  <2>1. m \in Nat /\ l \in Nat /\ <<l, m>> \notin Less
    BY <1>2, <1>4
  <2>2. QED
    BY <2>1 DEF Less
<1>6. s[m] \in Answer(s, dn)
  BY <1>5 DEF Answer
<1>7. QED
  BY <1>6

\* The order is kept.
LEMMA SameAnswer ==
  ASSUME NEW s, NEW dn, \A k \in 1..Len(s) : op'[s[k]].name = op[s[k]].name
  PROVE  Answer(s, dn)' = Answer(s, dn)
<1>1. Places(s, dn)' = Places(s, dn)
  BY DEF Places
<1>2. QED
  BY <1>1 DEF Answer

\* The order has grown by an operation.
LEMMA AppendAnswer ==
  ASSUME NEW s \in Seq(OpId), NEW o \in OpId, NEW dn,
         \A k \in 1..Len(s) : op'[s[k]].name = op[s[k]].name
  PROVE  Answer(Append(s, o), dn)' =
           IF Answer(s, dn) # {} THEN Answer(s, dn)
           ELSE IF op'[o].name = dn THEN {o} ELSE {}
<1> DEFINE t == Append(s, o)
           n == Len(s) + 1
<1>1. /\ Len(s) \in Nat /\ Len(t) = n /\ t[n] = o
      /\ \A k \in 1..Len(s) : t[k] = s[k]
  BY AppendProperties
<1>2. \A k \in 1..n : k \in 1..Len(s) \/ k = n
  BY <1>1
<1> HIDE DEF t
<1>3. Places(t, dn)' = Places(s, dn) \cup (IF op'[o].name = dn THEN {n} ELSE {})
  <2>1. \A k \in 1..Len(s) : k \in 1..n /\ op'[t[k]].name = op[s[k]].name
    BY <1>1
  <2>2. n \in 1..n /\ n \notin 1..Len(s)
    BY <1>1
  <2>3. Places(t, dn)' = {k \in 1..n : op'[t[k]].name = dn}
    BY <1>1 DEF Places
  <2>4. QED
    BY <1>1, <1>2, <2>1, <2>2, <2>3 DEF Places
<1>4. \A k \in Places(s, dn) : k \in 1..Len(s) /\ k < n /\ t[k] = s[k]
  BY <1>1 DEF Places
<1>5. CASE Places(s, dn) = {}
  <2>1. Answer(s, dn) = {}
    BY <1>5 DEF Answer
  <2>2. CASE op'[o].name = dn
    <3>1. Places(t, dn)' = {n}
      BY <1>3, <1>5, <2>2
    <3>2. Answer(t, dn)' = {o}
      BY <1>1, <3>1 DEF Answer
    <3>3. QED
      BY <2>1, <2>2, <3>2 DEF t
  <2>3. CASE op'[o].name # dn
    <3>1. Places(t, dn)' = {}
      BY <1>3, <1>5, <2>3
    <3>2. Answer(t, dn)' = {}
      BY <3>1 DEF Answer
    <3>3. QED
      BY <2>1, <2>3, <3>2 DEF t
  <2>4. QED
    BY <2>2, <2>3
<1>6. CASE Places(s, dn) # {}
  <2>1. Answer(s, dn) # {}
    BY <1>6, FirstExists
  <2> DEFINE least == {m \in Places(s, dn) : \A l \in Places(s, dn) : m <= l}
             leastT == {m \in Places(t, dn)' : \A l \in Places(t, dn)' : m <= l}
  <2>2. leastT = least
    BY <1>1, <1>3, <1>4, <1>6
  <2>3. \A k \in least : t[k] = s[k]
    BY <1>4
  <2>4. Answer(t, dn)' = {t[k] : k \in leastT} /\ Answer(s, dn) = {s[k] : k \in least}
    BY DEF Answer
  <2> HIDE DEF least, leastT
  <2>5. Answer(t, dn)' = Answer(s, dn)
    BY <2>2, <2>3, <2>4
  <2>6. QED
    BY <2>1, <2>5 DEF t
<1>7. QED
  BY <1>5, <1>6

\* Calls other than an addition keep the order of the objects that stay.
LEMMA OthersKeepAnswer ==
  ASSUME IInv, OInv, LookupInOrder, LookupInOrder',
         NEW i \in DOMAIN item, i \in DOMAIN item', NEW dn \in DN,
         \A s \in Seq(OpId) : Order(i, s) => Order(i, s)',
         \A o \in Owned(i) : op'[o].name = op[o].name
  PROVE  Lookup(i, dn)' = Lookup(i, dn) /\ Owned(i)' = Owned(i)
<1>1. PICK s \in Seq(OpId) : Order(i, s)
  BY DEF OInv, Ordered
<1>2. Order(i, s)'
  BY <1>1
<1>3. Owned(i) = {s[k] : k \in 1..Len(s)} /\ Owned(i)' = {s[k] : k \in 1..Len(s)}
  BY <1>1, <1>2 DEF Order
<1>4. Answer(s, dn)' = Answer(s, dn)
  BY <1>3, SameAnswer
<1>5. Lookup(i, dn) = Answer(s, dn)
  BY <1>1 DEF LookupInOrder
<1>6. Lookup(i, dn)' = Answer(s, dn)'
  BY <1>2 DEF LookupInOrder
<1>7. QED
  BY <1>3, <1>4, <1>5, <1>6

LEMMA LookupSteps ==
  ASSUME IInv, OInv, LookupInOrder, LookupInOrder', [Next]_vars
  PROVE  FoundStep
<1>1. SUFFICES ASSUME NEW i \in DOMAIN item, i \in DOMAIN item', NEW dn \in DN
               PROVE  Lookup(i, dn)' =
                        IF Lookup(i, dn) # {} THEN Lookup(i, dn)
                        ELSE {o \in Owned(i)' \ Owned(i) : op'[o].name = dn}
  BY DEF FoundStep
<1>2. Lists
  BY DEF IInv
<1>3. SUFFICES ASSUME ~ /\ Lookup(i, dn)' = Lookup(i, dn)
                        /\ Owned(i)' = Owned(i)
               PROVE  Lookup(i, dn)' =
                        IF Lookup(i, dn) # {} THEN Lookup(i, dn)
                        ELSE {o \in Owned(i)' \ Owned(i) : op'[o].name = dn}
  OBVIOUS
<1>4. ASSUME NEW id \in CcbId, GetCcbData(id) \/ GetFirstCcbOp(id) PROVE FALSE
  <2>1. PICK j : Obtain(id, j)
    BY <1>4 DEF GetCcbData, GetFirstCcbOp
  <2>2. UNCHANGED <<op, heap>>
    BY <1>4 DEF GetCcbData, GetFirstCcbOp
  <2>3. \A s \in Seq(OpId) : Order(i, s) => Order(i, s)'
    BY <1>1, <1>2, <2>1, <2>2, ObtainKeepsOrder
  <2>4. QED
    BY <1>1, <1>3, <2>2, <2>3, OthersKeepAnswer
<1>5. ASSUME NEW j, DeleteCcbData(j) PROVE FALSE
  <2>1. i # j
    BY <1>1, <1>5 DEF DeleteCcbData
  <2>2. \A s \in Seq(OpId) : Order(i, s) => Order(i, s)'
    BY <1>1, <1>2, <1>5, <2>1, DeleteKeepsOrder
  <2>3. \A o \in Owned(i) : op'[o] = op[o]
    BY <1>5, <2>1 DEF DeleteCcbData, Owned
  <2>4. QED
    BY <1>1, <1>3, <2>2, <2>3, OthersKeepAnswer
<1>6. ASSUME item' = item, op' = op PROVE FALSE
  <2>1. \A s \in Seq(OpId) : Order(i, s) => Order(i, s)'
    BY <1>6 DEF Order, Owned
  <2>2. QED
    BY <1>1, <1>3, <1>6, <2>1, OthersKeepAnswer
<1>7. PICK j \in ItemId, type \in Type, name \in DN : AddOperation(j, type, name)
  BY <1>4, <1>5, <1>6, CallsOfNext DEF GetNextCcbOp, vars
<1>8. PICK o \in OpId \ DOMAIN op :
        /\ DOMAIN op' = DOMAIN op \cup {o}
        /\ op'[o].name = name
        /\ \A x \in DOMAIN op : op'[x].name = op[x].name
        /\ \A x : Owned(x)' = Owned(x) \cup (IF x = j THEN {o} ELSE {})
  BY <1>2, <1>7, AddEffect
<1>9. \A x \in Owned(i) : op'[x].name = op[x].name
  BY <1>8 DEF Owned
<1>10. i = j
  <2>1. SUFFICES ASSUME i # j PROVE FALSE
    OBVIOUS
  <2>2. \A s \in Seq(OpId) : Order(i, s) => Order(i, s)'
    BY <1>1, <1>2, <1>7, <1>8, <2>1, AddKeepsOrder
  <2>3. QED
    BY <1>1, <1>3, <1>9, <2>2, OthersKeepAnswer
<1>11. PICK s \in Seq(OpId) : Order(i, s)
  BY <1>1 DEF OInv, Ordered
<1>12. Order(i, Append(s, o))' /\ Append(s, o) \in Seq(OpId)
  <2>1. Order(i, Append(s, o))'
    BY <1>2, <1>7, <1>8, <1>10, <1>11, AddKeepsOrder
  <2>2. QED
    BY <2>1, AppendProperties
<1>13. \A k \in 1..Len(s) : op'[s[k]].name = op[s[k]].name
  BY <1>9, <1>11 DEF Order
<1>14. Lookup(i, dn) = Answer(s, dn) /\ Lookup(i, dn)' = Answer(Append(s, o), dn)'
  BY <1>1, <1>11, <1>12 DEF LookupInOrder
<1>15. Answer(Append(s, o), dn)' =
         IF Answer(s, dn) # {} THEN Answer(s, dn)
         ELSE IF op'[o].name = dn THEN {o} ELSE {}
  BY <1>13, AppendAnswer
<1>16. Owned(i)' \ Owned(i) = {o}
  BY <1>8, <1>10 DEF Owned
<1>17. QED
  BY <1>14, <1>15, <1>16

\* The lookup by name of ccbutil_getCcbOpDataByDN returns what was stored first
\* under the name, however many operations follow.
THEOREM FirstFound == Spec => LookupKeepsFirst
<1>1. IInv => LookupInOrder
  BY LookupIsOrdered DEF IInv
<1>2. (IInv /\ OInv) /\ LookupInOrder /\ LookupInOrder' /\ [Next]_vars => [FoundStep]_vars
  BY LookupSteps
<1>3. QED
  BY <1>1, <1>2, InOrder, PTL DEF Spec, LookupKeepsFirst

\* The only way for a walk to end is to follow the last next.
LEMMA WalkEnds == IInv /\ OInv /\ [Next]_vars => WalkStep
<1>1. SUFFICES ASSUME IInv, OInv, [Next]_vars,
                      walk.at # Null, walk'.at = Null, walk'.of = walk.of
               PROVE  /\ {walk'.seen[k] : k \in 1..Len(walk'.seen)} = Owned(walk.of)
                      /\ \A k \in 1..Len(walk'.seen) :
                           walk'.seen[k] = Visit(walk.of)[k - 1]
  BY DEF WalkStep
<1>2. PICK s \in Seq(OpId) :
        /\ Order(walk.of, s)
        /\ Len(walk.seen) \in 1..Len(s)
        /\ walk.at = s[Len(walk.seen)]
        /\ \A k \in 1..Len(walk.seen) : walk.seen[k] = s[k]
  BY <1>1 DEF OInv, WalkInOrder
<1>3. /\ Lists /\ walk \in WalkRec /\ walk.of \in DOMAIN item /\ walk.of # Null
  BY <1>1, NullIsNoOperation DEF IInv, Walks
<1>4. Len(s) \in Nat /\ Len(s) # 0 /\ \A k \in 1..Len(s) : s[k] # Null
  BY <1>2, <1>3, OrderHasOperations
<1>5. walk' # walk
  BY <1>1
<1>6. ~ \E id \in CcbId : GetFirstCcbOp(id)
  <2>1. SUFFICES ASSUME NEW id \in CcbId, GetFirstCcbOp(id) PROVE FALSE
    OBVIOUS
  <2>2. PICK i : Obtain(id, i) /\ walk'.of = i /\ walk'.at = item'[i].head
    BY <2>1 DEF GetFirstCcbOp
  <2>3. item'[i].head = item[i].head
    BY <1>1, <1>3, <2>2 DEF Obtain, CreateCcbData
  <2>4. 1 \in 1..Len(s) /\ item[i].head = s[1]
    BY <1>1, <1>2, <1>4, <2>2 DEF Order
  <2>5. QED
    BY <1>1, <1>4, <2>2, <2>3, <2>4
<1>7. ~ \E i \in ItemId : DeleteCcbData(i)
  <2>1. SUFFICES ASSUME NEW i, DeleteCcbData(i) PROVE FALSE
    OBVIOUS
  <2>2. walk' = NoWalk
    BY <1>5, <2>1 DEF DeleteCcbData
  <2>3. QED
    BY <1>1, <1>3, <2>2 DEF NoWalk
<1>8. GetNextCcbOp
  BY <1>1, <1>5, <1>6, <1>7, CallsOfNext DEF GetCcbData, AddOperation, vars
<1>9. op[walk.at].next = Null /\ walk'.seen = walk.seen
  BY <1>1, <1>3, <1>8 DEF GetNextCcbOp, WalkRec
<1>10. Len(walk.seen) = Len(s)
  <2>1. op[walk.at].next = IF Len(walk.seen) = Len(s) THEN Null ELSE s[Len(walk.seen) + 1]
    BY <1>2 DEF Order
  <2>2. QED
    BY <1>2, <1>4, <1>9, <2>1
<1>11. {walk'.seen[k] : k \in 1..Len(walk'.seen)} = Owned(walk.of)
  BY <1>2, <1>9, <1>10 DEF Order
<1>12. \A k \in 1..Len(walk'.seen) : walk'.seen[k] = Visit(walk.of)[k - 1]
  BY <1>2, <1>3, <1>9, <1>10, VisitedInOrder
<1>13. QED
  BY <1>11, <1>12

\* A walk with ccbutil_getNextCcbOp that ends has seen every operation in order.
THEOREM WalksComplete == Spec => WalkIsComplete
<1>1. (IInv /\ OInv) /\ [Next]_vars => [WalkStep]_vars
  BY WalkEnds
<1>2. QED
  BY <1>1, InOrder, PTL DEF Spec, WalkIsComplete

\* The loop of ccbutil_deleteCcbData passes over at most the last of several.
LEMMA LoopMissesTail ==
  ASSUME Lists, NEW i \in DOMAIN item, NEW s \in Seq(OpId), Order(i, s),
         NEW o \in Owned(i), o \notin FreeLoop(i)
  PROVE  o = item[i].tail /\ item[i].head # item[i].tail
<1>1. /\ Len(s) \in Nat /\ Steps(i) = 0..Len(s)
      /\ \A k \in 1..Len(s) : k - 1 \in Steps(i) /\ Visit(i)[k - 1] = s[k]
  BY VisitedInOrder
<1>2. PICK k \in 1..Len(s) : o = s[k]
  BY DEF Order
<1>3. PICK j \in 1..(k - 1) : Visit(i)[j] = item[i].tail
  BY <1>1, <1>2 DEF FreeLoop
<1>4. j + 1 \in 1..Len(s) /\ (j + 1) - 1 = j /\ Len(s) # 0 /\ 1 \in 1..Len(s) /\ Len(s) \in 1..Len(s)
  BY <1>1, <1>2, <1>3
<1>5. item[i].tail = s[Len(s)] /\ item[i].head = s[1]
  BY <1>4 DEF Order
<1>6. s[j + 1] = s[Len(s)]
  BY <1>1, <1>3, <1>4, <1>5
<1>7. j + 1 = Len(s)
  BY <1>4, <1>6 DEF Order
<1>8. k = Len(s) /\ Len(s) # 1
  BY <1>2, <1>3, <1>7
<1>9. s[1] # s[Len(s)]
  BY <1>4, <1>8 DEF Order
<1>10. QED
  BY <1>2, <1>5, <1>8, <1>9

\* A name that nobody holds any more is that of the last of two or more
\* operations of an object that the step has deleted.
LeakStep ==
  \A mem \in (heap' \ Held') \ (heap \ Held) :
    \E i \in DOMAIN item \ DOMAIN item' :
      item[i].head # item[i].tail /\ op[item[i].tail].mem = mem
LeaksOnlyTail == [][LeakStep]_vars

\* Only a deletion leaks, and only what its loop passes over.
LEMMA LeaksOne == IInv /\ OInv /\ [Next]_vars => LeakStep
<1>1. SUFFICES ASSUME IInv, OInv, [Next]_vars,
                      NEW mem \in (heap' \ Held') \ (heap \ Held)
               PROVE  \E i \in DOMAIN item \ DOMAIN item' :
                        item[i].head # item[i].tail /\ op[item[i].tail].mem = mem
  BY DEF LeakStep
<1>2. Lists /\ Ordered
  BY <1>1 DEF IInv, OInv
<1>3. ~ UNCHANGED <<op, heap>>
  BY <1>1 DEF Held
<1>4. ~ \E i \in ItemId, type \in Type, name \in DN : AddOperation(i, type, name)
  <2>1. SUFFICES ASSUME NEW i, NEW type, NEW name, AddOperation(i, type, name) PROVE FALSE
    OBVIOUS
  <2>2. PICK o : /\ DOMAIN op' = DOMAIN op \cup {o}
                 /\ \A x \in DOMAIN op : op'[x].mem = op[x].mem
                 /\ StoreName(name, op'[o].mem)
    BY <1>2, <2>1, AddEffect
  <2>3. mem \in heap' /\ (mem \in heap => mem \in Held)
    BY <1>1
  <2>4. mem \notin Held
    BY <1>1, <2>2 DEF Held
  <2>5. mem = op'[o].mem
    BY <2>2, <2>3, <2>4 DEF StoreName
  <2>6. QED
    BY <1>1, <2>2, <2>5 DEF Held
<1>5. PICK i \in ItemId : DeleteCcbData(i)
  BY <1>1, <1>3, <1>4, CallsOfNext DEF GetCcbData, GetFirstCcbOp, GetNextCcbOp, vars
<1>6. /\ i \in DOMAIN item /\ i \notin DOMAIN item'
      /\ heap' = heap \ {op[o].mem : o \in FreeLoop(i)}
      /\ DOMAIN op' = DOMAIN op \ Owned(i)
      /\ \A o \in DOMAIN op' : op'[o] = op[o]
  BY <1>2, <1>5, NamesFreed DEF DeleteCcbData
<1>7. mem \in heap /\ mem \in Held
  BY <1>1, <1>6
<1>8. PICK o \in DOMAIN op : op[o].mem = mem
  BY <1>7 DEF Held
<1>9. o \in Owned(i)
  BY <1>1, <1>6, <1>8 DEF Held
<1>10. o \notin FreeLoop(i)
  BY <1>1, <1>6, <1>8
<1>11. PICK s \in Seq(OpId) : Order(i, s)
  BY <1>2, <1>6 DEF Ordered
<1>12. o = item[i].tail /\ item[i].head # item[i].tail
  BY <1>2, <1>6, <1>9, <1>10, <1>11, LoopMissesTail
<1>13. QED
  BY <1>6, <1>8, <1>12

\* How far the code is from AllMemoryFreed: what ccbutil_deleteCcbData leaks is
\* the long name of the last of several operations, and nothing else leaks.
THEOREM OneNameLeaks == Spec => LeaksOnlyTail
<1>1. (IInv /\ OInv) /\ [Next]_vars => [LeakStep]_vars
  BY LeaksOne
<1>2. QED
  BY <1>1, InOrder, PTL DEF Spec, LeaksOnlyTail

----------------------------------------------------------------------------
(****************************************************************************)
(* The lists implement CcbStore.  What the abstract store holds for a CCB   *)
(* is a function of the order of its object, so a call that keeps an order  *)
(* keeps what is stored, and an addition appends to it.                     *)
(****************************************************************************)
Ids == {item[i].ccbId : i \in DOMAIN item}
Listed(s) == [k \in 1..Len(s) |-> [type |-> op[s[k]].type, name |-> op[s[k]].name]]

StoredInOrder ==
  /\ DOMAIN Stored = Ids /\ Stored = [id \in Ids |-> Stored[id]]
  /\ \A i \in DOMAIN item, s \in Seq(OpId) : Order(i, s) => Stored[item[i].ccbId] = Listed(s)

\* What is stored for a CCB is what its order lists.
LEMMA StoreIsOrdered == Lists => StoredInOrder
<1>1. SUFFICES ASSUME Lists PROVE StoredInOrder
  OBVIOUS
<1>2. DOMAIN Stored = Ids /\ Stored = [id \in Ids |-> Stored[id]]
  BY DEF Stored, Ids
<1>3. ASSUME NEW i \in DOMAIN item, NEW s \in Seq(OpId), Order(i, s)
      PROVE  Stored[item[i].ccbId] = Listed(s)
  <2>1. ItemOf(item[i].ccbId) = i
    BY <1>1, ListIsTotal DEF ItemOf
  <2>2. Cardinality(Owned(i)) = Len(s)
    BY <1>3, OwnedCount
  <2>3. \A k \in 1..Len(s) : Visit(i)[k - 1] = s[k]
    BY <1>1, <1>3, VisitedInOrder
  <2>4. Stored[item[i].ccbId] =
          [k \in 1..Cardinality(Owned(i)) |->
             [type |-> op[Visit(i)[k - 1]].type, name |-> op[Visit(i)[k - 1]].name]]
    BY <2>1 DEF Stored
  <2>5. QED
    BY <2>2, <2>3, <2>4 DEF Listed
<1>4. QED
  BY <1>2, <1>3 DEF StoredInOrder

\* Two stores with the same CCBs and the same operations for each are the same.
LEMMA SameStore ==
  ASSUME StoredInOrder, StoredInOrder', Ids' = Ids,
         \A id \in Ids : Stored'[id] = Stored[id]
  PROVE  Stored' = Stored
BY DEF StoredInOrder

\* What is stored for a CCB whose order is kept.
LEMMA KeptInOrder ==
  ASSUME StoredInOrder, StoredInOrder',
         NEW x \in DOMAIN item, x \in DOMAIN item', item'[x].ccbId = item[x].ccbId,
         NEW s \in Seq(OpId), Order(x, s), Order(x, s)',
         \A o \in Owned(x) : op'[o].type = op[o].type /\ op'[o].name = op[o].name
  PROVE  Stored'[item[x].ccbId] = Stored[item[x].ccbId]
<1>1. \A k \in 1..Len(s) : op'[s[k]].type = op[s[k]].type /\ op'[s[k]].name = op[s[k]].name
  BY DEF Order
<1>2. Listed(s)' = Listed(s)
  BY <1>1 DEF Listed
<1>3. Stored[item[x].ccbId] = Listed(s)
  BY DEF StoredInOrder
<1>4. Stored'[item'[x].ccbId] = Listed(s)'
  BY DEF StoredInOrder
<1>5. QED
  BY <1>2, <1>3, <1>4

\* ccbutil_getCcbData opens the CCB that it does not find.
LEMMA ObtainRefines ==
  ASSUME Lists, Ordered, StoredInOrder, StoredInOrder',
         NEW id \in CcbId, NEW i, Obtain(id, i), UNCHANGED <<op, heap>>
  PROVE  Store!Open(id) \/ UNCHANGED Stored
<1>1. ASSUME NEW x \in DOMAIN item
      PROVE  x \in DOMAIN item' /\ item'[x] = item[x] /\ Stored'[item[x].ccbId] = Stored[item[x].ccbId]
  <2>1. x \in DOMAIN item' /\ item'[x] = item[x]
    BY DEF Obtain, CreateCcbData
  <2>2. PICK s \in Seq(OpId) : Order(x, s)
    BY DEF Ordered
  <2>3. Order(x, s)'
    BY <2>2, ObtainKeepsOrder
  <2>4. QED
    BY <2>1, <2>2, <2>3, KeptInOrder
<1>2. CASE UNCHANGED item
  <2>1. Ids' = Ids
    BY <1>2 DEF Ids
  <2>2. QED
    BY <1>1, <2>1, SameStore DEF Ids
<1>3. CASE ~Known(id) /\ CreateCcbData(id, i)
  <2>1. /\ DOMAIN item' = DOMAIN item \cup {i} /\ i \notin DOMAIN item
        /\ item'[i].ccbId = id /\ item'[i].head = Null /\ item'[i].tail = Null
    BY <1>3 DEF CreateCcbData
  <2>2. id \notin Ids /\ Ids' = Ids \cup {id}
    BY <1>1, <1>3, <2>1, SearchIsComplete DEF Ids
  <2>3. Owned(i)' = {}
    BY <2>1 DEF Owned, Lists, OpsIntact
  <2>4. <<>> \in Seq(OpId) /\ Len(<<>>) = 0 /\ Order(i, <<>>)'
    BY <2>1, <2>3, EmptySeq DEF Order
  <2>5. Stored'[id] = Listed(<<>>)'
    BY <2>1, <2>4 DEF StoredInOrder
  <2>6. Listed(<<>>)' = <<>>
    BY <2>4 DEF Listed
  <2>7. Stored' = [x \in DOMAIN Stored \cup {id} |-> IF x = id THEN <<>> ELSE Stored[x]]
    <3>1. \A x \in Ids : Stored'[x] = Stored[x] /\ x # id
      BY <1>1, <2>2 DEF Ids
    <3>2. DOMAIN Stored = Ids /\ Stored' = [x \in Ids' |-> Stored'[x]]
      BY DEF StoredInOrder
    <3>3. \A x \in Ids \cup {id} : Stored'[x] = IF x = id THEN <<>> ELSE Stored[x]
      BY <2>5, <2>6, <3>1
    <3>4. QED
      BY <2>2, <3>2, <3>3
  <2>8. id \in CcbId \ DOMAIN Stored
    BY <2>2 DEF StoredInOrder
  <2>9. QED
    BY <2>7, <2>8 DEF Store!Open
<1>4. QED
  BY <1>2, <1>3 DEF Obtain

\* newOperationData appends to what is stored for the CCB.
LEMMA AddRefines ==
  ASSUME Lists, Ordered, StoredInOrder, StoredInOrder',
         NEW i, NEW type, NEW name, AddOperation(i, type, name)
  PROVE  /\ i \in DOMAIN item
         /\ Store!Add(item[i].ccbId, [type |-> type, name |-> name])
<1>1. PICK o \in OpId \ DOMAIN op :
        /\ i \in DOMAIN item /\ DOMAIN item' = DOMAIN item
        /\ DOMAIN op' = DOMAIN op \cup {o}
        /\ \A x \in DOMAIN item : item'[x].ccbId = item[x].ccbId
        /\ op'[o].type = type /\ op'[o].name = name
        /\ \A x \in DOMAIN op : op'[x].type = op[x].type /\ op'[x].name = op[x].name
  BY AddEffect
<1>2. Ids' = Ids
  BY <1>1 DEF Ids
<1> DEFINE id == item[i].ccbId
<1>3. ASSUME NEW x \in DOMAIN item, x # i
      PROVE  Stored'[item[x].ccbId] = Stored[item[x].ccbId]
  <2>1. PICK s \in Seq(OpId) : Order(x, s)
    BY DEF Ordered
  <2>2. Order(x, s)'
    BY <1>1, <1>3, <2>1, AddKeepsOrder
  <2>3. QED
    BY <1>1, <2>1, <2>2, KeptInOrder DEF Owned
<1>4. Stored'[id] = Append(Stored[id], [type |-> type, name |-> name])
  <2>1. PICK s \in Seq(OpId) : Order(i, s)
    BY <1>1 DEF Ordered
  <2> DEFINE t == Append(s, o)
  <2>2. /\ t \in Seq(OpId) /\ Len(s) \in Nat /\ Len(t) = Len(s) + 1
        /\ t[Len(s) + 1] = o /\ \A k \in 1..Len(s) : t[k] = s[k]
    BY AppendProperties
  <2>3. Order(i, t)'
    BY <1>1, <2>1, AddKeepsOrder
  <2> HIDE DEF t
  <2>4. Stored[id] = Listed(s)
    BY <1>1, <2>1 DEF StoredInOrder
  <2>5. Stored'[id] = Listed(t)'
    BY <1>1, <2>2, <2>3 DEF StoredInOrder
  <2>6. \A k \in 1..Len(s) : s[k] \in DOMAIN op
    BY <2>1, OrderHasOperations
  <2>7. Listed(t)' = Append(Listed(s), [type |-> type, name |-> name])
    <3> DEFINE u == Listed(s)
               e == [type |-> type, name |-> name]
               d == [k \in 1..Len(t) |-> [type |-> op'[t[k]].type, name |-> op'[t[k]].name]]
    <3>1. u \in Seq([type : {op[x].type : x \in DOMAIN op} \cup {type},
                     name : {op[x].name : x \in DOMAIN op} \cup {name}]) /\ Len(u) = Len(s)
      BY <2>2, <2>6 DEF Listed
    <3>2. \A k \in 1..Len(s) : d[k] = u[k]
      BY <1>1, <2>2, <2>6 DEF Listed
    <3>3. d[Len(s) + 1] = e
      BY <1>1, <2>2
    <3>4. Append(u, e) = [k \in 1..(Len(s) + 1) |-> IF k = Len(s) + 1 THEN e ELSE u[k]]
      BY <2>2, <3>1
    <3>5. d = [k \in 1..(Len(s) + 1) |-> d[k]]
      BY <2>2
    <3>6. \A k \in 1..(Len(s) + 1) : d[k] = IF k = Len(s) + 1 THEN e ELSE u[k]
      <4> HIDE DEF d, u, e
      <4>1. QED
        BY <2>2, <3>2, <3>3
    <3>7. d = Append(u, e)
      <4> HIDE DEF d, u, e
      <4>1. QED
        BY <3>4, <3>5, <3>6
    <3>8. Listed(t)' = d
      BY DEF Listed
    <3>9. QED
      BY <3>7, <3>8
  <2>8. QED
    BY <2>4, <2>5, <2>7
<1>5. id \in DOMAIN Stored
  BY <1>1 DEF StoredInOrder, Ids
<1>6. \A x \in Ids : x # id => Stored'[x] = Stored[x]
  BY <1>3 DEF Ids
<1>7. Stored' = [Stored EXCEPT ![id] = Append(@, [type |-> type, name |-> name])]
  <2> HIDE DEF id
  <2>1. QED
    BY <1>2, <1>4, <1>5, <1>6 DEF StoredInOrder
<1>8. QED
  BY <1>1, <1>5, <1>7 DEF Store!Add

\* ccbutil_deleteCcbData closes the CCB.
LEMMA DeleteRefines ==
  ASSUME Lists, Ordered, StoredInOrder, StoredInOrder', NEW i, DeleteCcbData(i)
  PROVE  i \in DOMAIN item /\ Store!Close(item[i].ccbId)
<1>1. /\ i \in DOMAIN item /\ DOMAIN item' = DOMAIN item \ {i}
      /\ \A x \in DOMAIN item' : item'[x] = item[x]
      /\ DOMAIN op' = DOMAIN op \ Owned(i)
      /\ \A o \in DOMAIN op' : op'[o] = op[o]
  BY DEF DeleteCcbData
<1> DEFINE id == item[i].ccbId
<1>2. Ids' = Ids \ {id}
  BY <1>1, ListIsTotal DEF Ids
<1>3. ASSUME NEW x \in DOMAIN item'
      PROVE  Stored'[item[x].ccbId] = Stored[item[x].ccbId]
  <2>1. PICK s \in Seq(OpId) : Order(x, s)
    BY <1>1 DEF Ordered
  <2>2. Order(x, s)'
    BY <1>1, <2>1, DeleteKeepsOrder
  <2>3. \A o \in Owned(x) : o \in DOMAIN op'
    BY <1>1 DEF Owned
  <2>4. QED
    BY <1>1, <2>1, <2>2, <2>3, KeptInOrder
<1>4. \A x \in Ids' : Stored'[x] = Stored[x]
  BY <1>1, <1>3 DEF Ids
<1>5. id \in DOMAIN Stored
  BY <1>1 DEF StoredInOrder, Ids
<1>6. Stored' = [x \in DOMAIN Stored \ {id} |-> Stored[x]]
  BY <1>2, <1>4 DEF StoredInOrder
<1>7. QED
  BY <1>1, <1>5, <1>6 DEF Store!Close

LEMMA StoreRefines ==
  ASSUME IInv, IInv', OInv, [Next]_vars
  PROVE  [Store!Next]_Stored
<1>1. Lists /\ Ordered /\ Lists'
  BY DEF IInv, OInv
<1>2. StoredInOrder
  BY <1>1, StoreIsOrdered
<1>3. StoredInOrder'
  <2>1. (Lists => StoredInOrder)'
    BY StoreIsOrdered, PTL
  <2>2. QED
    BY <1>1, <2>1
<1>4. \A x \in DOMAIN item : item[x].ccbId \in CcbId
  BY <1>1 DEF Lists, ListsTyped, ItemRec
<1>5. CASE item' = item /\ op' = op
  BY <1>5 DEF Stored, ItemOf, Owned, Visit
<1>6. CASE \E id \in CcbId : GetCcbData(id) \/ GetFirstCcbOp(id)
  <2>1. PICK id \in CcbId : \E i : Obtain(id, i)
    BY <1>6 DEF GetCcbData, GetFirstCcbOp
  <2>2. UNCHANGED <<op, heap>>
    BY <1>6 DEF GetCcbData, GetFirstCcbOp
  <2>3. Store!Open(id) \/ UNCHANGED Stored
    BY <1>1, <1>2, <1>3, <2>1, <2>2, ObtainRefines
  <2>4. QED
    BY <2>3 DEF Store!Next
<1>7. CASE \E i \in ItemId, type \in Type, name \in DN : AddOperation(i, type, name)
  <2>1. PICK i \in ItemId, type \in Type, name \in DN : AddOperation(i, type, name)
    BY <1>7
  <2>2. i \in DOMAIN item /\ Store!Add(item[i].ccbId, [type |-> type, name |-> name])
    BY <1>1, <1>2, <1>3, <2>1, AddRefines
  <2>3. [type |-> type, name |-> name] \in Store!Operation
    BY <2>1 DEF Store!Operation
  <2>4. QED
    BY <1>4, <2>2, <2>3 DEF Store!Next
<1>8. CASE \E i \in ItemId : DeleteCcbData(i)
  <2>1. PICK i \in ItemId : DeleteCcbData(i)
    BY <1>8
  <2>2. i \in DOMAIN item /\ Store!Close(item[i].ccbId)
    BY <1>1, <1>2, <1>3, <2>1, DeleteRefines
  <2>3. QED
    BY <1>4, <2>2 DEF Store!Next
<1>9. QED
  BY <1>5, <1>6, <1>7, <1>8, CallsOfNext DEF GetNextCcbOp, vars

\* The linked lists are the store that immutil.h promises: each open CCB keeps
\* its operations in the order of their adding until it is deleted, and no call
\* for one CCB touches what is stored for another.
THEOREM Implements == Spec => ImplementsStore
<1>1. Init => Store!Init
  <2>1. SUFFICES ASSUME Init PROVE Store!Init
    OBVIOUS
  <2>2. {item[i].ccbId : i \in DOMAIN item} = {}
    BY <2>1 DEF Init
  <2>3. Stored = [id \in {} |-> <<>>]
    BY <2>2 DEF Stored
  <2>4. QED
    BY <2>3 DEF Store!Init
<1>2. IInv /\ IInv' /\ OInv /\ [Next]_vars => [Store!Next]_Stored
  BY StoreRefines
<1>3. QED
  BY <1>1, <1>2, InOrder, PTL DEF Spec, Store!Spec, ImplementsStore

=============================================================================
