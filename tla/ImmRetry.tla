------------------------------- MODULE ImmRetry -------------------------------
(****************************************************************************)
(* The IMM call wrappers of immutil.c.  Every immutil_saImm... function     *)
(* issues its saImm... call, repeats it while the service answers TRY_AGAIN *)
(* and the profile allows another try, and then returns the last answer or, *)
(* when the profile says so, aborts the program.                            *)
(*                                                                          *)
(* The wrappers differ in four ways, which make the kinds of call below;    *)
(* what they ask for is abstracted to the memory whose content can differ   *)
(* between the first try and a later one: the version, which the service    *)
(* overwrites, the converted names, and the attributes asked for.           *)
(*                                                                          *)
(* The service is external.  TRY_AGAIN and the definite errors mean that it *)
(* has not carried out the call; TIMEOUT leaves that open.                  *)
(****************************************************************************)
EXTENDS Naturals, Sequences

CONSTANT MaxTries   \* bound: the largest nTries a profile is set to

ASSUME ImmRetryAssumption == MaxTries \in Nat

VARIABLES
  profile,    \* immutilWrapperProfile: errorsAreFatal, nTries
  kind,       \* the kind of the wrapper under way
  pc,         \* idle, calling, answered or aborted
  rc,         \* its variable rc
  nTries,     \* its variable nTries
  args,       \* the memory its arguments are in
  asked,      \* what the service has read there on each try, first try first
  executed    \* how often the service has carried out the call

wrapper == <<profile, kind, pc, rc, nTries, args, asked, executed>>

Profile == [errorsAreFatal : BOOLEAN, nTries : 0..MaxTries]

\* plain: most wrappers.  version: ...Initialize, whose version is in/out.
\* lenient: NOT_EXIST is an answer and not an error.  array: the _o2 wrappers
\* that convert a list of names.  config: ...AccessorGetConfigAttrs.
Kind == {"plain", "version", "lenient", "array", "config"}
Answer == {"OK", "TRY_AGAIN", "TIMEOUT", "NOT_EXIST", "OTHER"}
\* localVer, the array of SaNameT of an _o2 wrapper, and the attribute names
Arguments ==
  [version : {"wanted", "supported"}, names : {"none", "converted", "freed"},
   attributes : {"config token", "NULL"}]

----------------------------------------------------------------------------
WrapperInit ==
  /\ profile \in Profile
  /\ kind = "plain"
  /\ pc = "idle"
  /\ rc = "OK"
  /\ nTries = 0
  /\ args = [version |-> "wanted", names |-> "none", attributes |-> "NULL"]
  /\ asked = <<>>
  /\ executed = 0

\* The first try; only immutil_saImmOmAccessorGetConfigAttrs uses the token.
Start(k) ==
  /\ pc = "idle"
  /\ kind' = k
  /\ args' = [version |-> "wanted",
              names |-> IF k = "array" THEN "converted" ELSE "none",
              attributes |-> IF k = "config" THEN "config token" ELSE "NULL"]
  /\ asked' = <<>>
  /\ nTries' = 1
  /\ executed' = 0
  /\ pc' = "calling"
  /\ UNCHANGED <<profile, rc>>

\* The service reads the arguments and answers; before it comes back it writes
\* the version that it supports over the one that was asked for.
ServiceAnswers(a) ==
  /\ pc = "calling"
  /\ rc' = a
  /\ \/ executed' = executed + 1 /\ a \in {"OK", "TIMEOUT"}
     \/ executed' = executed /\ a # "OK"
  /\ asked' = Append(asked, args)
  /\ args' = IF kind = "version" THEN [args EXCEPT !.version = "supported"] ELSE args
  /\ pc' = "answered"
  /\ UNCHANGED <<profile, kind, nTries>>

\* while (rc == SA_AIS_ERR_TRY_AGAIN && nTries < immutilWrapperProfile.nTries)
RetryAlsoTimeout ==                                         \* what a mutant does
  rc \in {"TRY_AGAIN", "TIMEOUT"} /\ nTries < profile.nTries
RetryOneMore == rc = "TRY_AGAIN" /\ nTries <= profile.nTries \* what a mutant does
MayRetry == rc = "TRY_AGAIN" /\ nTries < profile.nTries

\* localVer = *version before the next try
VersionKept == args.version                                 \* what a mutant does
VersionReset == "wanted"

\* The loop of immutil_saImmOmAccessorGetConfigAttrs passes NULL.
Retry ==
  /\ pc = "answered"
  /\ MayRetry
  /\ args' = [args EXCEPT !.version = VersionReset, !.attributes = "NULL"]
  /\ nTries' = nTries + 1
  /\ pc' = "calling"
  /\ UNCHANGED <<profile, kind, rc, asked, executed>>

IsErrorLoose == rc \notin {"OK", "NOT_EXIST"}               \* what a mutant does
IsError ==
  rc \notin (IF kind \in {"lenient", "config"} THEN {"OK", "NOT_EXIST"} ELSE {"OK"})

\* immutilError, which does not return
Abort ==
  /\ pc = "answered"
  /\ ~MayRetry /\ IsError /\ profile.errorsAreFatal
  /\ pc' = "aborted"
  /\ UNCHANGED <<profile, kind, rc, nTries, args, asked, executed>>

\* free(obj_names[i]) for each of them, and free(obj_names)
NamesFreed == [args EXCEPT !.names = IF @ = "converted" THEN "freed" ELSE @]

ReturnUnlessBusy ==                                         \* what a mutant does
  /\ pc = "answered"
  /\ rc # "TRY_AGAIN" /\ ~(IsError /\ profile.errorsAreFatal)
  /\ args' = NamesFreed
  /\ pc' = "idle"
  /\ UNCHANGED <<profile, kind, rc, nTries, asked, executed>>

Return ==
  /\ pc = "answered"
  /\ ~MayRetry /\ ~(IsError /\ profile.errorsAreFatal)
  /\ args' = NamesFreed
  /\ pc' = "idle"
  /\ UNCHANGED <<profile, kind, rc, nTries, asked, executed>>

Wrapper ==
  \/ \E a \in Answer : ServiceAnswers(a)
  \/ Retry
  \/ Abort
  \/ Return

\* Every call of the service returns (its library has timeouts of its own),
\* usleep ends, and the thread runs on.
WrapperFairness == WF_wrapper(Wrapper)

----------------------------------------------------------------------------
Next == (\E k \in Kind : Start(k)) \/ Wrapper

Spec == WrapperInit /\ [][Next]_wrapper /\ WrapperFairness

----------------------------------------------------------------------------
TypeOK ==
  /\ profile \in Profile
  /\ kind \in Kind
  /\ pc \in {"idle", "calling", "answered", "aborted"}
  /\ rc \in Answer
  /\ nTries \in 0..MaxTries \cup {1}
  /\ args \in Arguments
  /\ asked \in Seq(Arguments)
  /\ executed \in Nat

(****************************************************************************)
(* A wrapper issues its call at least once and at most nTries times, and    *)
(* does not come back with TRY_AGAIN before it has used up its tries.       *)
(****************************************************************************)
Allowed == IF profile.nTries = 0 THEN 1 ELSE profile.nTries
TriesAsProfiled ==
  /\ Len(asked) <= Allowed
  /\ pc \in {"idle", "aborted"} /\ asked # <<>> /\ rc = "TRY_AGAIN" => Len(asked) = Allowed

(****************************************************************************)
(* Retrying never carries out a call twice: a CCB is applied, an object     *)
(* created, an admin operation invoked once at the most, and exactly once   *)
(* if the caller is told OK.                                                *)
(****************************************************************************)
CarriedOutOnce ==
  /\ executed <= 1
  /\ pc = "idle" /\ asked # <<>> =>
       /\ rc = "OK" => executed = 1
       /\ rc \in {"TRY_AGAIN", "NOT_EXIST", "OTHER"} => executed = 0

(****************************************************************************)
(* With errorsAreFatal set, code after a wrapper call need not look at the  *)
(* result: it is OK, or NOT_EXIST from a wrapper that reads or searches.    *)
(* Without it, the wrappers never end the program.                          *)
(****************************************************************************)
FatalAsProfiled ==
  /\ pc = "idle" /\ profile.errorsAreFatal =>
       rc = "OK" \/ (rc = "NOT_EXIST" /\ kind \in {"lenient", "config"})
  /\ pc = "aborted" =>
       /\ profile.errorsAreFatal
       /\ rc # "OK"
       /\ rc = "NOT_EXIST" => kind \in {"plain", "version", "array"}

(****************************************************************************)
(* Every try asks for the same as the first: for the version that the       *)
(* caller wants, though the service has overwritten the one of the try      *)
(* before, and for the names, which must not be freed before the last try.  *)
(****************************************************************************)
SameEachTry ==
  \A t \in 1..Len(asked) :
    /\ asked[t].version = "wanted"
    /\ asked[t].names = IF kind = "array" THEN "converted" ELSE "none"

(****************************************************************************)
(* A wrapper comes back or ends the program, whatever the service answers.  *)
(****************************************************************************)
ComesBack == pc = "calling" ~> pc \in {"idle", "aborted"}

(****************************************************************************)
(* immutil.c says of ...AccessorGetConfigAttrs: The user will get ALL       *)
(* config attributes for the object in this way.  So every try has to ask   *)
(* for the config attributes.                                               *)
(****************************************************************************)
ConfigAttributesOnly ==
  kind = "config" => \A t \in 1..Len(asked) : asked[t].attributes = "config token"

=============================================================================
