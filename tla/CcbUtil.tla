------------------------------- MODULE CcbUtil -------------------------------
(****************************************************************************)
(* The CCB store of immutil.c: a global list of CCB objects, newest first,  *)
(* each with a singly linked list of operations (operationListHead,         *)
(* operationListTail, next).  An object implementer adds an operation in    *)
(* every CCB callback, walks the list when the CCB is completed or applied, *)
(* and deletes the CCB object at the end.                                   *)
(*                                                                          *)
(* What an operation stores comes from the arena of its CCB object (module  *)
(* Clist) and goes when the object goes.  The exception is objectName: a    *)
(* name of SA_MAX_UNEXTENDED_NAME_LENGTH bytes or more is a strdup of its   *)
(* own, which ccbutil_deleteCcbData has to free by hand.                    *)
(*                                                                          *)
(* The module calls are made by one thread: ccbList has no lock.  The       *)
(* caller owns the rest of the protocol: it passes only pointers to live    *)
(* objects, and does not walk a CCB that it has deleted.                    *)
(****************************************************************************)
EXTENDS Integers, Sequences, FiniteSets

CONSTANTS
  CcbId,      \* the CCB identities the IMM service hands out
  ShortName,  \* object names that fit into SaNameT
  LongName,   \* extended object names
  NoName,     \* "", what ccbutil_ccbAddCreateOperation stores as the name
  ItemId,     \* addresses of CCB objects: bounds the live objects
  OpId,       \* addresses of operations: bounds the live operations
  NameMem,    \* addresses strdup returns: bounds the copied names
  Null        \* the null pointer

ASSUME CcbUtilAssumption ==
  /\ Null \notin ItemId \cup OpId \cup NameMem
  /\ NoName \notin LongName

VARIABLES
  ccbList,    \* the CCB objects in the order of the next pointers
  item,       \* live CCB objects: address -> ccbId, head, tail
  op,         \* live operations: address -> next, type, name, mem
  heap,       \* the strdup'ed names that have not been freed
  walk        \* the caller's walk: the object, the operation it stands at,
              \* the operations it has seen

vars == <<ccbList, item, op, heap, walk>>

DN == ShortName \cup LongName \cup {NoName}
Type == {"CREATE", "DELETE", "MODIFY"}
ItemRec == [ccbId : CcbId, head : OpId \cup {Null}, tail : OpId \cup {Null}]
OpRec == [owner : ItemId, next : OpId \cup {Null}, type : Type, name : DN,
          mem : NameMem \cup {Null}]
WalkRec == [of : ItemId \cup {Null}, at : OpId \cup {Null}, seen : Seq(OpId)]
NoWalk == [of |-> Null, at |-> Null, seen |-> <<>>]

----------------------------------------------------------------------------
\* ccbutil_findCcbData: the first object of the list with this identity.
Find(id, i) ==
  \E p \in 1..Len(ccbList) :
    /\ ccbList[p] = i
    /\ item[i].ccbId = id
    /\ \A q \in 1..(p - 1) : item[ccbList[q]].ccbId # id
Known(id) == \E i \in DOMAIN item : Find(id, i)

\* The operations of an object in the order a walk along next visits them:
\* a function from steps to addresses, Null once the walk has ended.
Visit(i) ==
  LET at[k \in Nat] ==
        IF k = 0 THEN item[i].head
        ELSE IF at[k - 1] = Null THEN Null ELSE op[at[k - 1]].next
  IN at
Owned(i) == {o \in DOMAIN op : op[o].owner = i}

(****************************************************************************)
(* ccbutil_createCcbData: the new object is the first of the list.          *)
(****************************************************************************)
CreateCcbData(id, i) ==
  /\ i \in ItemId \ DOMAIN item
  /\ item' = [x \in DOMAIN item \cup {i} |->
                IF x = i THEN [ccbId |-> id, head |-> Null, tail |-> Null]
                ELSE item[x]]
  /\ ccbList' = <<i>> \o ccbList

ObtainNew(id, i) == CreateCcbData(id, i)                    \* what a mutant does
\* ccbutil_getCcbData, with i as its result
Obtain(id, i) ==
  \/ Find(id, i) /\ UNCHANGED <<ccbList, item>>
  \/ ~Known(id) /\ CreateCcbData(id, i)

(****************************************************************************)
(* newOperationData: append to the list of the object.                      *)
(****************************************************************************)
\* The list afterwards; a mutant forgets to advance the tail.
AppendKeepTail(i, o) ==                                     \* what a mutant does
  item' = [item EXCEPT ![i].head = IF @ = Null THEN o ELSE @,
                       ![i].tail = IF @ = Null THEN o ELSE @]
AppendToNewest(i, o) ==                                     \* what a mutant does
  item' = [item EXCEPT ![ccbList[1]].head = IF @ = Null THEN o ELSE @,
                       ![ccbList[1]].tail = o]
AppendToHead(i, o) ==                                       \* what a mutant does
  item' = [item EXCEPT ![i].head = o,
                       ![i].tail = IF @ = Null THEN o ELSE @]
AppendToItem(i, o) ==
  item' = [item EXCEPT ![i].head = IF item[i].tail = Null THEN o ELSE @,
                       ![i].tail = o]

\* saAisNameLend(len < SA_MAX_UNEXTENDED_NAME_LENGTH ? str : strdup(str), ...)
LendOnly(name, mem) ==                                      \* what a mutant does
  mem = Null /\ UNCHANGED heap
StoreName(name, mem) ==
  IF name \in LongName
  THEN mem \in NameMem \ heap /\ heap' = heap \cup {mem}
  ELSE mem = Null /\ UNCHANGED heap

AddOperation(i, type, name) ==
  /\ i \in DOMAIN item
  /\ \E o \in OpId \ DOMAIN op, mem \in NameMem \cup {Null} :
       /\ StoreName(name, mem)
       /\ op' = [x \in DOMAIN op \cup {o} |->
                   IF x = o
                   THEN [owner |-> i, next |-> Null, type |-> type,
                         name |-> name, mem |-> mem]
                   ELSE IF x = item[i].tail THEN [op[x] EXCEPT !.next = o]
                   ELSE op[x]]
       /\ AppendToItem(i, o)
  /\ UNCHANGED <<ccbList, walk>>

----------------------------------------------------------------------------
Init ==
  /\ ccbList = <<>>
  /\ item = [i \in {} |-> Null]
  /\ op = [o \in {} |-> Null]
  /\ heap = {}
  /\ walk = NoWalk

GetCcbData(id) ==
  /\ \E i \in ItemId : Obtain(id, i)
  /\ UNCHANGED <<op, heap, walk>>

AddCreateOperation(i) == AddOperation(i, "CREATE", NoName)
AddCreateOperation_2(i, name) == AddOperation(i, "CREATE", name)
AddDeleteOperation(i, name) == AddOperation(i, "DELETE", name)
\* The test for an earlier operation on the object is commented out.
AddModifyOperation(i, name) == AddOperation(i, "MODIFY", name)

\* ccbutil_getNextCcbOp(ccbId, NULL): the first operation, if any, of an
\* object that is created if there is none.
GetFirstCcbOp(id) ==
  /\ \E i \in ItemId :
       /\ Obtain(id, i)
       /\ walk' = [of |-> i, at |-> item'[i].head,
                   seen |-> IF item'[i].head = Null THEN <<>> ELSE <<item'[i].head>>]
  /\ UNCHANGED <<op, heap>>

\* ccbutil_getNextCcbOp(ccbId, opData)
GetNextCcbOp ==
  /\ walk.at # Null
  /\ LET next == op[walk.at].next IN
       walk' = [walk EXCEPT !.at = next,
                            !.seen = IF next = Null THEN @ ELSE Append(@, next)]
  /\ UNCHANGED <<ccbList, item, op, heap>>

\* ccbutil_getCcbOpDataByDN walks from NULL: looking up a name in a CCB that
\* nobody has opened opens it.
GetCcbOpDataByDN(id) == GetCcbData(id)

(****************************************************************************)
(* ccbutil_deleteCcbData(ccb), ccb not NULL.  The walk along the list does  *)
(* not stop at the first object with the identity of ccb: every one is      *)
(* unlinked, and its names freed, but only ccb itself is freed.  prev is    *)
(* then the object just unlinked, so that of objects which follow each      *)
(* other every second one would stay linked.                                *)
(*                                                                          *)
(* The loop that frees the names takes the head without a test and stops,   *)
(* before freeing it, at the tail.                                          *)
(****************************************************************************)
Same(i) == {p \in 1..Len(ccbList) : item[ccbList[p]].ccbId = item[i].ccbId}
Unlinked(i) ==
  {p \in Same(i) : \E q \in 1..p :
     q..p \subseteq Same(i) /\ q - 1 \notin Same(i) /\ (p - q) % 2 = 0}
Unlink(i) ==
  LET left == (1..Len(ccbList)) \ Unlinked(i)
      Before(p) == {r \in left : r < p}
  IN ccbList' = [n \in 1..Cardinality(left) |->
                   ccbList[CHOOSE p \in left : Cardinality(Before(p)) = n - 1]]

Steps(i) == 0..Cardinality(Owned(i))
FreeLoop(i) ==
  {o \in Owned(i) : \E k \in Steps(i) :
     Visit(i)[k] = o /\ \A j \in 1..k : Visit(i)[j] # item[i].tail}
FreeNames(i) ==
  heap' = heap \ {op[o].mem : o \in UNION {FreeLoop(ccbList[p]) : p \in Same(i)}}

DeleteCcbData(i) ==
  /\ i \in DOMAIN item
  /\ FreeNames(i)
  /\ Unlink(i)
  /\ item' = [x \in DOMAIN item \ {i} |-> item[x]]
  /\ op' = [o \in DOMAIN op \ Owned(i) |-> op[o]]
  /\ walk' = IF walk.of = i THEN NoWalk ELSE walk

\* The operation ccbutil_getCcbOpDataByDN returns: the first of the walk
\* that was stored under the name.
LookupLast(i, dn) ==                                        \* what a mutant does
  {o \in Owned(i) : op[o].name = dn /\ op[o].next = Null}
Lookup(i, dn) ==
  {o \in Owned(i) : \E k \in Steps(i) :
     /\ Visit(i)[k] = o
     /\ op[o].name = dn
     /\ \A j \in 0..(k - 1) : op[Visit(i)[j]].name # dn}

----------------------------------------------------------------------------
Next ==
  \/ \E id \in CcbId :
       GetCcbData(id) \/ GetFirstCcbOp(id) \/ GetCcbOpDataByDN(id)
  \/ \E i \in ItemId :
       \/ AddCreateOperation(i)
       \/ \E name \in ShortName \cup LongName :
            \/ AddCreateOperation_2(i, name)
            \/ AddDeleteOperation(i, name)
            \/ AddModifyOperation(i, name)
       \/ DeleteCcbData(i)
  \/ GetNextCcbOp

Spec == Init /\ [][Next]_vars

----------------------------------------------------------------------------
TypeOK ==
  /\ ccbList \in Seq(ItemId)
  /\ DOMAIN item \subseteq ItemId
  /\ item \in [DOMAIN item -> ItemRec]
  /\ DOMAIN op \subseteq OpId
  /\ op \in [DOMAIN op -> OpRec]
  /\ heap \subseteq NameMem
  /\ walk \in WalkRec

(****************************************************************************)
(* No pointer dangles: not the list, not an operation list, not the walk of *)
(* a caller that keeps to the protocol; and the operation lists of two CCBs *)
(* never run into each other.                                               *)
(****************************************************************************)
NoDanglingPointers ==
  /\ \A p \in 1..Len(ccbList) : ccbList[p] \in DOMAIN item
  /\ \A i \in DOMAIN item :
       item[i].head \in Owned(i) \cup {Null} /\ item[i].tail \in Owned(i) \cup {Null}
  /\ \A o \in DOMAIN op :
       op[o].owner \in DOMAIN item /\ op[o].next \in Owned(op[o].owner) \cup {Null}
  /\ walk.at # Null => walk.of \in DOMAIN item /\ walk.at \in Owned(walk.of)

(****************************************************************************)
(* There is never a second object for a CCB, so that the operations of one  *)
(* CCB are never spread over two objects of which lookups see only one; and *)
(* deleteCcbData, which compares identities and not pointers, unlinks all   *)
(* of what it frees and nothing else.                                       *)
(****************************************************************************)
OneItemPerCcb ==
  /\ \A i, j \in DOMAIN item : item[i].ccbId = item[j].ccbId => i = j
  /\ \A p, q \in 1..Len(ccbList) : ccbList[p] = ccbList[q] => p = q
  /\ DOMAIN item = {ccbList[p] : p \in 1..Len(ccbList)}

(****************************************************************************)
(* The name stored with an operation stays readable for as long as the      *)
(* operation is stored: a long name has a copy of its own, not freed and    *)
(* not shared.                                                              *)
(****************************************************************************)
NamesIntact ==
  \A o \in DOMAIN op :
    op[o].name \in LongName =>
      /\ op[o].mem \in heap
      /\ \A other \in DOMAIN op : other # o => op[other].mem # op[o].mem

(****************************************************************************)
(* Every copied name is held by a stored operation: what the deletion of a  *)
(* CCB leaves in the heap nobody can free any more.  immutil.h:134 says of  *)
(* ccbutil_deleteCcbData: "All memory associated with the CCB is freed."    *)
(* The code leaks the long name of the last operation of a CCB with two or  *)
(* more, and nothing else: CcbUtilProofs states and proves how much.        *)
(****************************************************************************)
Held == {op[o].mem : o \in DOMAIN op}
AllMemoryFreed == heap \subseteq Held

(****************************************************************************)
(* A walk with getNextCcbOp that reaches the end has seen every operation   *)
(* of the CCB in the order of their adding, those included that were added  *)
(* while it was under way.                                                  *)
(****************************************************************************)
WalkStep ==
  walk.at # Null /\ walk'.at = Null /\ walk'.of = walk.of =>
    /\ {walk'.seen[k] : k \in 1..Len(walk'.seen)} = Owned(walk.of)
    /\ \A k \in 1..Len(walk'.seen) : walk'.seen[k] = Visit(walk.of)[k - 1]
WalkIsComplete == [][WalkStep]_vars

(****************************************************************************)
(* A lookup by name returns the operation that was stored first under that  *)
(* name: no later call changes the answer while the CCB object is there,    *)
(* and as long as there is none the next operation added under the name     *)
(* becomes the answer.  An object implementer that looks for the CREATE of  *)
(* an object it is asked to modify must not get the MODIFY.                 *)
(****************************************************************************)
FoundStep ==
  \A i \in DOMAIN item \cap DOMAIN item', dn \in DN :
    Lookup(i, dn)' = IF Lookup(i, dn) # {} THEN Lookup(i, dn)
                     ELSE {o \in Owned(i)' \ Owned(i) : op'[o].name = dn}
LookupKeepsFirst == [][FoundStep]_vars

(****************************************************************************)
(* The lists implement the abstract store.                                  *)
(****************************************************************************)
ItemOf(id) == CHOOSE i \in DOMAIN item : item[i].ccbId = id
Stored ==
  [id \in {item[i].ccbId : i \in DOMAIN item} |->
     [k \in 1..Cardinality(Owned(ItemOf(id))) |->
        LET o == Visit(ItemOf(id))[k - 1]
        IN [type |-> op[o].type, name |-> op[o].name]]]
Store == INSTANCE CcbStore WITH store <- Stored
ImplementsStore == Store!Spec

=============================================================================
