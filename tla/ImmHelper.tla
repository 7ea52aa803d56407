------------------------------ MODULE ImmHelper ------------------------------
(****************************************************************************)
(* The callers of the wrappers of ImmRetry: a program that makes one call   *)
(* after another, and the helpers of immutil.c that string several calls    *)
(* together, immutil_getClassName, immutil_get_className and                *)
(* immutil_get_attrValueType.  A helper opens handles of the service, asks  *)
(* one question, and gives the handles back; two of the calls do not go     *)
(* through a wrapper and are not retried.                                   *)
(*                                                                          *)
(* What the service keeps for the caller are the OM handle, the accessor    *)
(* (which belongs to the OM handle and owns the attributes it has returned) *)
(* and a class description.                                                 *)
(****************************************************************************)
EXTENDS ImmRetry

VARIABLES
  helper,     \* the helper under way, or none
  at,         \* the call it is about to make, or is making
  open,       \* what the service keeps for it
  value,      \* what it will return: nothing, or a copy of its own
  released    \* what it has asked the service to take back

progress == <<helper, at, open, value, released>>
helperVars == <<wrapper, progress>>

Helper == {"getClassName", "get_className", "get_attrValueType"}
Kept == {"om", "accessor", "description"}
Call == {"initialize", "openAccessor", "get", "describe", "freeDescription",
         "closeAccessor", "finalize"}

\* getClassName is given an OM handle; the other two open one.
First == [h \in Helper |-> IF h = "getClassName" THEN "openAccessor" ELSE "initialize"]

KindOf == [c \in Call |-> CASE c = "initialize" -> "version"
                            [] c = "get" -> "lenient"
                            [] OTHER -> "plain"]

\* saImmOmClassDescriptionGet_2 and ...MemoryFree_2 are called without a wrapper.
Unwrapped == {"describe", "freeDescription"}

Opens == [c \in Call |-> CASE c = "initialize" -> {"om"}
                           [] c = "openAccessor" -> {"accessor"}
                           [] c = "describe" -> {"description"}
                           [] OTHER -> {}]
\* saImmOmFinalize takes back what was opened under the handle.
Closes == [c \in Call |-> CASE c = "finalize" -> Kept
                            [] c = "closeAccessor" -> {"accessor"}
                            [] c = "freeDescription" -> {"description"}
                            [] OTHER -> {}]
Needs == [c \in Call |-> CASE c = "initialize" -> {}
                           [] c \in {"openAccessor", "describe"} -> {"om"}
                           [] c \in {"get", "closeAccessor"} -> {"accessor"}
                           [] c = "freeDescription" -> {"description"}
                           [] c = "finalize" -> {"om"}]

(****************************************************************************)
(* Which call follows: the gotos of the three helpers.                      *)
(****************************************************************************)
Finish(h) == IF h = "getClassName" THEN "return" ELSE "finalize"

\* What a mutant does: a failed get leaves at once.
AfterFailureAtOnce(h, c) ==
  CASE c \in {"initialize", "get"} -> "return"
    [] c \in {"openAccessor", "describe", "closeAccessor", "freeDescription"} -> Finish(h)
    [] c = "finalize" -> "return"
\* What a mutant does: a failed release is repeated until it succeeds.
AfterFailureInsist(h, c) ==
  CASE c \in {"initialize"} -> "return"
    [] c \in {"get", "closeAccessor"} -> "closeAccessor"
    [] c \in {"openAccessor", "describe", "freeDescription"} -> Finish(h)
    [] c = "finalize" -> "return"
\* What a mutant does: a failed openAccessor goes one label too far up.
AfterFailureLabel(h, c) ==
  CASE c = "initialize" -> "return"
    [] c = "get" -> "closeAccessor"
    [] c = "openAccessor" -> "closeAccessor"
    [] c \in {"describe", "closeAccessor", "freeDescription"} -> Finish(h)
    [] c = "finalize" -> "return"
AfterFailure(h, c) ==
  CASE c = "initialize" -> "return"
    [] c = "get" -> "closeAccessor"
    [] c \in {"openAccessor", "describe", "closeAccessor", "freeDescription"} -> Finish(h)
    [] c = "finalize" -> "return"
AfterSuccess(h, c) ==
  CASE c = "initialize" -> IF h = "get_attrValueType" THEN "describe" ELSE "openAccessor"
    [] c = "openAccessor" -> "get"
    [] c = "get" -> "closeAccessor"
    [] c = "describe" -> "freeDescription"
    [] c \in {"closeAccessor", "freeDescription"} -> Finish(h)
    [] c = "finalize" -> "return"

----------------------------------------------------------------------------
HelperInit ==
  /\ WrapperInit
  /\ helper = "none"
  /\ at = "return"
  /\ open = {}
  /\ value = "none"
  /\ released = {}

StartHelper(h) ==
  /\ helper = "none" /\ pc = "idle"
  /\ helper' = h
  /\ at' = First[h]
  /\ open' = IF h = "getClassName" THEN {"om"} ELSE {}
  /\ value' = "none"
  /\ released' = {}
  /\ UNCHANGED wrapper

\* The program calls a wrapper itself.
CallDirectly(k) ==
  /\ helper = "none"
  /\ Start(k)
  /\ UNCHANGED progress

CallWrapper ==
  /\ helper # "none" /\ pc = "idle"
  /\ at \in Call \ Unwrapped
  /\ Start(KindOf[at])
  /\ UNCHANGED progress

\* What a mutant does: it keeps a pointer to what the accessor owns.
ContinueBorrowing(a) ==
  /\ at' = IF a = "OK" THEN AfterSuccess(helper, at) ELSE AfterFailure(helper, at)
  /\ open' = IF a = "OK" THEN (open \cup Opens[at]) \ Closes[at] ELSE open
  /\ released' = released \cup Closes[at]
  /\ value' = IF a = "OK" /\ at = "get" THEN "borrowed" ELSE value
  /\ UNCHANGED helper

\* The helper goes on with the answer a to the call it has made.  The value
\* is copied (dupStr, strdup, or the type stored) as soon as it is there.  Two
\* of the helpers test whether what came back holds it; get_className takes the
\* first value of the first attribute unseen, which the service always sends:
\* there is no object without a class.
Continue(a) ==
  /\ at' = IF a = "OK" THEN AfterSuccess(helper, at) ELSE AfterFailure(helper, at)
  /\ open' = IF a = "OK" THEN (open \cup Opens[at]) \ Closes[at] ELSE open
  /\ released' = released \cup Closes[at]
  /\ IF a = "OK" /\ at \in {"get", "describe"}
     THEN value' \in {"copied"} \cup (IF helper = "get_className" THEN {} ELSE {"none"})
     ELSE value' = value
  /\ UNCHANGED helper

WrapperReturns ==
  /\ Return
  /\ IF helper = "none" THEN UNCHANGED progress ELSE Continue(rc)

CallUnwrapped(a) ==
  /\ helper # "none" /\ pc = "idle"
  /\ at \in Unwrapped
  /\ Continue(a)
  /\ UNCHANGED wrapper

HelperReturns ==
  /\ helper # "none" /\ pc = "idle"
  /\ at = "return"
  /\ helper' = "none"
  /\ UNCHANGED <<wrapper, at, open, value, released>>

Advance ==
  \/ CallWrapper
  \/ WrapperReturns
  \/ \E a \in Answer : ServiceAnswers(a) /\ UNCHANGED progress
  \/ (Retry \/ Abort) /\ UNCHANGED progress
  \/ \E a \in Answer : CallUnwrapped(a)
  \/ HelperReturns

HelperNext ==
  \/ Advance
  \/ \E h \in Helper : StartHelper(h)
  \/ \E k \in Kind : CallDirectly(k)

HelperSpec == HelperInit /\ [][HelperNext]_helperVars /\ WF_helperVars(Advance)

----------------------------------------------------------------------------
HelperTypeOK ==
  /\ TypeOK
  /\ helper \in Helper \cup {"none"}
  /\ at \in Call \cup {"return"}
  /\ open \subseteq Kept
  /\ value \in {"none", "copied"}
  /\ released \subseteq Kept

(****************************************************************************)
(* A helper calls only on handles it holds: no failure of an earlier call   *)
(* leads to a call on a handle that was never opened or is closed.          *)
(****************************************************************************)
HandlesValid ==
  helper # "none" /\ at # "return" => Needs[at] \subseteq open

(****************************************************************************)
(* When a helper returns, it has asked the service to take back everything  *)
(* that it opened, on every path; only a failure of that very request can   *)
(* leave something behind.  The handle its caller lent it stays open.       *)
(****************************************************************************)
Lent == IF helper = "getClassName" THEN {"om"} ELSE {}
NothingForgotten ==
  helper # "none" =>
    /\ at = "return" => open \subseteq released \cup Lent
    /\ Lent \subseteq open

(****************************************************************************)
(* Every helper comes back, unless a wrapper ends the program.              *)
(****************************************************************************)
HelperEnds == helper # "none" ~> helper = "none" \/ pc = "aborted"

=============================================================================
