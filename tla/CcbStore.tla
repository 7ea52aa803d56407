------------------------------ MODULE CcbStore ------------------------------
(****************************************************************************)
(* What ccbutil_* of immutil.h promises to an object implementer: a place   *)
(* where the operations of each open CCB are kept, in the order in which    *)
(* they were added, until the CCB is deleted.  No CCB disturbs another one. *)
(* CcbUtil, with its linked lists, is shown to implement this.              *)
(****************************************************************************)
EXTENDS Sequences

CONSTANTS
  CcbId,      \* the CCB identities the IMM service hands out
  DN,         \* the object names of operations
  Type        \* CCBUTIL_CREATE, CCBUTIL_DELETE, CCBUTIL_MODIFY

VARIABLE store    \* open CCB -> its operations, oldest first

Operation == [type : Type, name : DN]

Init == store = [id \in {} |-> <<>>]

\* A CCB comes into being when it is first asked for.
Open(id) ==
  /\ id \in CcbId \ DOMAIN store
  /\ store' = [x \in DOMAIN store \cup {id} |->
                 IF x = id THEN <<>> ELSE store[x]]

Add(id, operation) ==
  /\ id \in DOMAIN store
  /\ store' = [store EXCEPT ![id] = Append(@, operation)]

Close(id) ==
  /\ id \in DOMAIN store
  /\ store' = [x \in DOMAIN store \ {id} |-> store[x]]

Next ==
  \E id \in CcbId :
    \/ Open(id)
    \/ \E operation \in Operation : Add(id, operation)
    \/ Close(id)

Spec == Init /\ [][Next]_store

=============================================================================
