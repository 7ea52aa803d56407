------------------------------ MODULE ImmSession ------------------------------
(****************************************************************************)
(* What immom.py and its README promise: one admin owner, and under it one  *)
(* CCB at a time; the objects change only when a CCB is applied, and then   *)
(* to what the operations of that CCB have made of them; whatever ends a    *)
(* CCB otherwise aborts it.                                                 *)
(****************************************************************************)
CONSTANTS Contents  \* what the objects may be

VARIABLES
  owner,      \* there is an admin owner
  ccb,        \* there is a CCB
  objects,    \* the objects
  draft       \* what they are with the operations of the CCB

session == <<owner, ccb, objects, draft>>

Init ==
  /\ owner = FALSE /\ ccb = FALSE
  /\ objects \in Contents /\ draft = objects

AdminOwnerInitialize ==
  /\ ~owner /\ owner' = TRUE
  /\ UNCHANGED <<ccb, objects, draft>>

\* "Any ongoing CCB will be aborted."
AdminOwnerFinalize ==
  /\ owner /\ owner' = FALSE
  /\ ccb' = FALSE /\ draft' = objects
  /\ UNCHANGED objects

CcbInitialize ==
  /\ owner /\ ~ccb /\ ccb' = TRUE
  /\ UNCHANGED <<owner, objects, draft>>

Operation ==
  /\ ccb /\ draft' \in Contents
  /\ UNCHANGED <<owner, ccb, objects>>

Apply ==
  /\ ccb /\ objects' = draft
  /\ UNCHANGED <<owner, ccb, draft>>

Finalize ==
  /\ ccb /\ ccb' = FALSE
  /\ draft' = objects
  /\ UNCHANGED <<owner, objects>>

\* The service gives a CCB up.
Abort == draft' = objects /\ UNCHANGED <<owner, ccb, objects>>

Next ==
  \/ AdminOwnerInitialize \/ AdminOwnerFinalize
  \/ CcbInitialize \/ Operation \/ Apply \/ Finalize \/ Abort

Spec == Init /\ [][Next]_session

=============================================================================
