---------------------------- MODULE ImmCallerProofs ----------------------------
(****************************************************************************)
(* A program with immutil.c, whatever its profile, its data and the answers *)
(* it gets.  Of the call wrappers: one tries as often as the profile        *)
(* allows, never has a call carried out twice, and turns the result into    *)
(* the outcome the profile asks for.  Of the helpers that call them:        *)
(* whichever calls fail, and after however many tries, they call on handles *)
(* they hold, and ask for the release of all that they have opened.  Of the *)
(* searches: for a name of any length, one gives the value of the first     *)
(* item that starts with the key.  Of the copies: they are what was copied, *)
(* and no number is cut, whatever the widths.                               *)
(*                                                                          *)
(* None of the properties is inductive.  Those of the wrappers rest on two  *)
(* facts about a call under way: nTries counts the tries, and a call that   *)
(* is being tried (again) has not been carried out, since only TRY_AGAIN    *)
(* leads to another try.  Those of the helpers rest on how far a helper has *)
(* come: Held says for each of its calls which handles are open.  Those of  *)
(* the searches rest on where the items of a name begin and end (Splits).   *)
(* The loops of the searches are recursive functions; what they compute is  *)
(* shown by induction over the set of positions for which it holds.         *)
(****************************************************************************)
EXTENDS ImmCaller, FiniteSets, FiniteSetTheorems, FunctionTheorems, SequenceTheorems,
        WellFoundedInduction, TLAPS


----------------------------------------------------------------------------
(****************************************************************************)
(* The wrappers: the invariant, and every step of Next.                     *)
(****************************************************************************)
TriesCounted ==
  /\ nTries = Len(asked) + (IF pc = "calling" THEN 1 ELSE 0)
  /\ pc \in {"answered", "aborted"} => asked # <<>>
  /\ nTries <= Allowed
  /\ pc \in {"idle", "aborted"} /\ asked # <<>> /\ rc = "TRY_AGAIN" => Len(asked) = Allowed

Effect ==
  /\ pc = "calling" => executed = 0
  /\ executed <= 1
  /\ pc # "calling" /\ asked # <<>> =>
       /\ rc = "OK" => executed = 1
       /\ rc \in {"TRY_AGAIN", "NOT_EXIST", "OTHER"} => executed = 0

\* What the service is about to read, or may have to read again.
ArgsReady ==
  /\ pc = "calling" => args.version = "wanted"
  /\ pc \in {"calling", "answered"} =>
       args.names = IF kind = "array" THEN "converted" ELSE "none"

IInv ==
  TypeOK /\ TriesCounted /\ Effect /\ FatalAsProfiled /\ ArgsReady /\ SameEachTry

----------------------------------------------------------------------------
\* The number of tries a profile allows: immutil.c tries before it counts.
LEMMA AllowedBounds ==
  ASSUME TypeOK
  PROVE  Allowed \in Nat /\ Allowed >= 1 /\ profile.nTries \in Nat
         /\ profile.nTries <= Allowed /\ profile.nTries <= MaxTries
BY ImmRetryAssumption DEF TypeOK, Profile, Allowed

LEMMA InitIInv == WrapperInit => IInv
<1>1. SUFFICES ASSUME WrapperInit PROVE IInv
  OBVIOUS
<1>2. asked = <<>> /\ pc = "idle"
  BY <1>1 DEF WrapperInit
<1>3. TypeOK
  <2>1. nTries \in 0..MaxTries \cup {1} /\ executed \in Nat
    BY <1>1, ImmRetryAssumption DEF WrapperInit
  <2>2. args \in Arguments
    BY <1>1 DEF WrapperInit, Arguments
  <2>3. QED
    BY <1>1, <1>2, <2>1, <2>2 DEF WrapperInit, TypeOK, Kind, Answer
<1>4. TriesCounted
  BY <1>1, <1>2, <1>3, AllowedBounds DEF WrapperInit, TriesCounted
<1>5. QED
  BY <1>1, <1>2, <1>3, <1>4
     DEF WrapperInit, IInv, Effect, FatalAsProfiled, ArgsReady, SameEachTry

\* A new call: its arguments are what the caller wants.
LEMMA StartStep ==
  ASSUME IInv, NEW k \in Kind, Start(k)
  PROVE  IInv'
<1>1. args' \in Arguments
  BY DEF Start, Arguments
<1>2. ArgsReady'
  BY DEF Start, ArgsReady
<1>3. asked' = <<>> /\ Len(<<>>) = 0 /\ pc' = "calling" /\ executed' = 0 /\ nTries' = 1
  BY DEF Start
<1>4. TypeOK'
  <2>1. kind' = k /\ UNCHANGED <<profile, rc>>
    BY DEF Start
  <2>2. QED
    BY <1>1, <1>3, <2>1 DEF IInv, TypeOK
<1>5. TriesCounted'
  <2>1. Allowed' = Allowed
    BY DEF Start, Allowed
  <2>2. QED
    BY <2>1, <1>3, AllowedBounds DEF IInv, TriesCounted
<1>6. Effect' /\ FatalAsProfiled' /\ SameEachTry'
  BY <1>3 DEF Effect, FatalAsProfiled, SameEachTry
<1>7. QED
  BY <1>2, <1>4, <1>5, <1>6 DEF IInv

\* An answer: what was asked, and whether the call was carried out, as the
\* service promises.
LEMMA AnswerStep ==
  ASSUME IInv, NEW a \in Answer, ServiceAnswers(a)
  PROVE  IInv'
<1>1. pc = "calling" /\ pc' = "answered" /\ kind' = kind /\ nTries' = nTries
  BY DEF ServiceAnswers
<1>2. /\ args \in Arguments /\ args.version = "wanted"
      /\ args.names = IF kind = "array" THEN "converted" ELSE "none"
  BY <1>1 DEF IInv, TypeOK, ArgsReady
<1>3. asked \in Seq(Arguments) /\ asked' = Append(asked, args)
  BY DEF IInv, TypeOK, ServiceAnswers
<1>4. /\ asked' \in Seq(Arguments)
      /\ Len(asked) \in Nat /\ Len(asked') = Len(asked) + 1
      /\ asked' # <<>>
      /\ \A t \in 1..Len(asked) : asked'[t] = asked[t]
      /\ asked'[Len(asked) + 1] = args
  BY <1>2, <1>3
<1>5. args' \in Arguments /\ args'.names = args.names
  BY <1>2 DEF ServiceAnswers, Arguments
<1>6. TypeOK'
  BY <1>4, <1>5 DEF IInv, TypeOK, ServiceAnswers
<1>7. TriesCounted'
  <2>1. Allowed' = Allowed
    BY DEF ServiceAnswers, Allowed
  <2>2. QED
    BY <2>1, <1>1, <1>4 DEF IInv, TriesCounted
<1>8. Effect'
  BY <1>1 DEF IInv, TypeOK, Effect, ServiceAnswers, Answer
<1>9. ArgsReady' /\ FatalAsProfiled'
  BY <1>1, <1>2, <1>5 DEF ArgsReady, FatalAsProfiled
<1>10. SameEachTry'
  <2>1. SUFFICES ASSUME NEW t \in 1..(Len(asked) + 1)
                 PROVE  /\ asked'[t].version = "wanted"
                        /\ asked'[t].names = IF kind = "array" THEN "converted" ELSE "none"
    BY <1>1, <1>4 DEF SameEachTry
  <2>2. CASE t = Len(asked) + 1
    BY <2>2, <1>2, <1>4
  <2>3. CASE t \in 1..Len(asked)
    BY <2>3, <1>4 DEF IInv, SameEachTry
  <2>4. QED
    BY <2>2, <2>3, <1>4
<1>11. QED
  BY <1>6, <1>7, <1>8, <1>9, <1>10 DEF IInv

\* Another try: one more, of a call that was not carried out.
LEMMA RetryStep ==
  ASSUME IInv, Retry
  PROVE  IInv'
<1>1. /\ pc = "answered" /\ pc' = "calling" /\ kind' = kind /\ asked' = asked
      /\ nTries' = nTries + 1 /\ profile' = profile /\ executed' = executed
  BY DEF Retry
<1>2. args' \in Arguments /\ args'.version = "wanted" /\ args'.names = args.names
  BY DEF IInv, TypeOK, Arguments, Retry, VersionReset
<1>3. /\ nTries \in Nat /\ Len(asked) \in Nat
      /\ nTries = Len(asked) /\ nTries < profile.nTries
  BY <1>1, ImmRetryAssumption DEF IInv, TypeOK, TriesCounted, Retry, MayRetry
<1>4. TypeOK'
  <2>1. nTries + 1 \in 0..MaxTries
    BY <1>3, ImmRetryAssumption, AllowedBounds DEF IInv
  <2>2. QED
    BY <2>1, <1>1, <1>2 DEF IInv, TypeOK, Retry
<1>5. TriesCounted'
  <2>1. nTries + 1 <= Allowed
    BY <1>3, AllowedBounds DEF IInv
  <2>2. Allowed' = Allowed
    BY <1>1 DEF Allowed
  <2>3. QED
    BY <2>1, <2>2, <1>1, <1>3 DEF TriesCounted
<1>6. Effect'
  <2>1. executed = 0
    BY <1>1 DEF IInv, TriesCounted, Effect, Retry, MayRetry
  <2>2. QED
    BY <2>1, <1>1 DEF Effect
<1>7. ArgsReady' /\ SameEachTry' /\ FatalAsProfiled'
  BY <1>1, <1>2 DEF IInv, ArgsReady, SameEachTry, FatalAsProfiled
<1>8. QED
  BY <1>4, <1>5, <1>6, <1>7 DEF IInv

\* A call that may not be tried again has had all its tries if the answer is
\* still TRY_AGAIN.
LEMMA TriesUsedUp ==
  ASSUME IInv, ~MayRetry, rc = "TRY_AGAIN", pc = "answered"
  PROVE  Len(asked) = Allowed
<1>1. asked \in Seq(Arguments) /\ Len(asked) \in Nat /\ Len(asked) # 0
  BY DEF IInv, TypeOK, TriesCounted
<1>2. profile.nTries \in Nat /\ ~(Len(asked) < profile.nTries)
  BY AllowedBounds DEF IInv, TriesCounted, MayRetry
<1>3. Len(asked) <= Allowed
  BY DEF IInv, TriesCounted
<1>4. CASE profile.nTries = 0
  <2>1. Allowed = 1
    BY <1>4 DEF Allowed
  <2>2. Len(asked) <= 1
    BY <2>1, <1>3
  <2>3. Len(asked) = 1
    BY <2>2, <1>1
  <2>4. QED
    BY <2>1, <2>3
<1>5. CASE profile.nTries # 0
  BY <1>1, <1>2, <1>3, <1>5 DEF Allowed
<1>6. QED
  BY <1>4, <1>5

\* The two ways a wrapper ends.
LEMMA AbortStep ==
  ASSUME IInv, Abort
  PROVE  IInv'
<1>1. pc = "answered" /\ asked' = asked /\ kind' = kind /\ profile' = profile
  BY DEF Abort
<1>2. TypeOK' /\ Effect' /\ ArgsReady' /\ SameEachTry'
  BY DEF IInv, TypeOK, Arguments, Effect, ArgsReady, SameEachTry, Abort
<1>3. TriesCounted'
  BY <1>1, TriesUsedUp DEF IInv, TriesCounted, Allowed, Abort
<1>4. FatalAsProfiled'
  BY DEF IInv, TypeOK, FatalAsProfiled, Abort, IsError, Kind
<1>5. QED
  BY <1>2, <1>3, <1>4 DEF IInv

LEMMA ReturnStep ==
  ASSUME IInv, Return
  PROVE  IInv'
<1>1. pc = "answered" /\ asked' = asked /\ kind' = kind /\ profile' = profile
  BY DEF Return
<1>2. TypeOK' /\ Effect' /\ ArgsReady' /\ SameEachTry'
  BY DEF IInv, TypeOK, Arguments, Effect, ArgsReady, SameEachTry, Return, NamesFreed
<1>3. TriesCounted'
  BY <1>1, TriesUsedUp DEF IInv, TriesCounted, Allowed, Return
<1>4. FatalAsProfiled'
  BY DEF FatalAsProfiled, Return, IsError
<1>5. QED
  BY <1>2, <1>3, <1>4 DEF IInv

LEMMA NextIInv == IInv /\ [Next]_wrapper => IInv'
<1>1. SUFFICES ASSUME IInv, [Next]_wrapper PROVE IInv'
  OBVIOUS
<1>2. CASE UNCHANGED wrapper
  BY <1>1, <1>2
     DEF wrapper, IInv, TypeOK, TriesCounted, Allowed, Effect, FatalAsProfiled,
         ArgsReady, SameEachTry
<1>3. QED
  BY <1>1, <1>2, StartStep, AnswerStep, RetryStep, AbortStep, ReturnStep
     DEF Next, Wrapper

----------------------------------------------------------------------------
(****************************************************************************)
(* What the wrappers keep true, whatever is called and answered.            *)
(****************************************************************************)
THEOREM Invariance == Spec => []IInv
BY InitIInv, NextIInv, PTL DEF Spec

\* The types are kept; in particular nTries never exceeds the profile's bound.
THEOREM TypeCorrect == Spec => []TypeOK
<1>1. IInv => TypeOK
  BY DEF IInv
<1>2. QED
  BY <1>1, Invariance, PTL

\* nTries counts the tries.
LEMMA CountedTries == IInv => TriesAsProfiled
<1>1. SUFFICES ASSUME IInv PROVE TriesAsProfiled
  OBVIOUS
<1>2. Len(asked) \in Nat /\ Allowed \in Nat
  BY <1>1, AllowedBounds DEF IInv, TypeOK
<1>3. QED
  BY <1>1, <1>2 DEF IInv, TriesCounted, TriesAsProfiled

\* The loop of every wrapper tries as often as the profile allows, no more,
\* and gives up on TRY_AGAIN only then.
THEOREM Tries == Spec => []TriesAsProfiled
BY CountedTries, Invariance, PTL

\* Retrying carries out a call at most once, and exactly once if it returns OK.
THEOREM Once == Spec => []CarriedOutOnce
<1>1. IInv => CarriedOutOnce
  BY DEF IInv, Effect, CarriedOutOnce
<1>2. QED
  BY <1>1, Invariance, PTL

\* A wrapper aborts the program on the errors its profile calls fatal, and
\* returns on all others.
THEOREM Fatal == Spec => []FatalAsProfiled
<1>1. IInv => FatalAsProfiled
  BY DEF IInv
<1>2. QED
  BY <1>1, Invariance, PTL

\* Every try asks for the version that the caller wants, which the service has
\* overwritten on the try before, and finds the converted names there.
THEOREM SameTries == Spec => []SameEachTry
<1>1. IInv => SameEachTry
  BY DEF IInv
<1>2. QED
  BY <1>1, Invariance, PTL

----------------------------------------------------------------------------
(****************************************************************************)
(* The helpers: the invariant, and every step of HelperNext.                *)
(****************************************************************************)
\* The calls of a helper.
CallsOf(h) ==
  CASE h = "getClassName" -> {"openAccessor", "get", "closeAccessor"}
    [] h = "get_className" -> {"initialize", "openAccessor", "get", "closeAccessor", "finalize"}
    [] h = "get_attrValueType" -> {"initialize", "describe", "freeDescription", "finalize"}

ProgressTypes ==
  /\ helper \in Helper \cup {"none"}
  /\ at \in Call \cup {"return"}
  /\ open \subseteq Kept
  /\ value \in {"none", "copied"}
  /\ released \subseteq Kept

Held ==
  /\ at \in CallsOf(helper) \cup {"return"}
  /\ at = "initialize" => open = {}
  /\ at \in {"openAccessor", "describe"} => open = {"om"}
  /\ at \in {"get", "closeAccessor"} => open = {"om", "accessor"}
  /\ at = "freeDescription" => open = {"om", "description"}
  /\ at = "finalize" => "om" \in open /\ open \subseteq released \cup {"om"}
  /\ at = "return" => open \subseteq released \cup Lent /\ Lent \subseteq open

HInv ==
  /\ ProgressTypes
  /\ helper # "none" => Held
  /\ helper # "none" /\ pc # "idle" => at \in Call \ Unwrapped

----------------------------------------------------------------------------
\* What the parts of the invariant say of the properties.
LEMMA HInvImplies == HInv => HandlesValid /\ NothingForgotten
<1>1. SUFFICES ASSUME HInv, helper # "none"
               PROVE  /\ at # "return" => Needs[at] \subseteq open
                      /\ at = "return" => open \subseteq released \cup Lent
                      /\ Lent \subseteq open
  BY DEF HandlesValid, NothingForgotten
<1>2. Held /\ helper \in Helper
  BY <1>1 DEF HInv, ProgressTypes
<1>3. at \in CallsOf(helper) \cup {"return"}
  BY <1>2 DEF Held
<1>4. ASSUME at # "return" PROVE at \in Call /\ Needs[at] \subseteq open
  <2>1. at \in Call
    BY <1>2, <1>3, <1>4 DEF CallsOf, Helper, Call
  <2>2. QED
    BY <1>2, <2>1 DEF Held, Needs, Call
<1>5. Lent \subseteq open
  <2>1. CASE helper = "getClassName"
    BY <1>2, <1>3, <2>1 DEF Held, CallsOf, Lent
  <2>2. CASE helper # "getClassName"
    BY <2>2 DEF Lent
  <2>3. QED
    BY <2>1, <2>2
<1>6. QED
  BY <1>2, <1>4, <1>5 DEF Held

\* A helper goes on, with whatever answer, to a call whose handles it holds.
LEMMA ContinueStep ==
  ASSUME HInv, helper # "none", at \in Call, NEW a, Continue(a)
  PROVE  ProgressTypes' /\ Held'
<1>1. helper \in Helper /\ helper' = helper /\ Held /\ ProgressTypes
  BY DEF HInv, ProgressTypes, Continue
<1>2. at \in CallsOf(helper)
  BY <1>1 DEF Held, Call
<1>3. value' \in {"none", "copied"}
  BY <1>1 DEF ProgressTypes, Continue
<1>4. released' = released \cup Closes[at]
  BY DEF Continue
<1>5. at' = IF a = "OK" THEN AfterSuccess(helper, at) ELSE AfterFailure(helper, at)
  BY DEF Continue
<1>6. open' = IF a = "OK" THEN (open \cup Opens[at]) \ Closes[at] ELSE open
  BY DEF Continue
<1>7. at' \in CallsOf(helper) \cup {"return"} /\ at' \in Call \cup {"return"}
  BY <1>1, <1>2, <1>5 DEF AfterSuccess, AfterFailure, Finish, CallsOf, Helper, Call
<1>8. ProgressTypes'
  BY <1>1, <1>3, <1>4, <1>6, <1>7 DEF ProgressTypes, Opens, Closes, Kept
<1>9. at' \in (CallsOf(helper) \cup {"return"})'
  BY <1>1, <1>7 DEF CallsOf
<1>10. Lent' = Lent
  BY <1>1 DEF Lent
<1>11. CASE at = "initialize"
  <2>1. open = {} /\ helper # "getClassName"
    BY <1>1, <1>2, <1>11 DEF Held, CallsOf, Helper
  <2>2. Opens[at] = {"om"} /\ Closes[at] = {}
    BY <1>11 DEF Opens, Closes, Call
  <2>3. \/ at' \in {"describe", "openAccessor"} /\ open' = {"om"}
        \/ at' = "return" /\ open' = {}
    BY <1>5, <1>6, <1>11, <2>1, <2>2 DEF AfterSuccess, AfterFailure
  <2>4. QED
    BY <1>8, <1>9, <1>10, <2>1, <2>3 DEF Held, Lent
<1>12. CASE at = "describe"
  <2>1. open = {"om"} /\ helper # "getClassName"
    BY <1>1, <1>2, <1>12 DEF Held, CallsOf, Helper
  <2>2. Opens[at] = {"description"} /\ Closes[at] = {}
    BY <1>12 DEF Opens, Closes, Call
  <2>3. \/ at' = "freeDescription" /\ open' = {"om", "description"}
        \/ at' = "finalize" /\ open' = {"om"}
    BY <1>5, <1>6, <1>12, <2>1, <2>2 DEF AfterSuccess, AfterFailure, Finish
  <2>4. QED
    BY <1>8, <1>9, <2>3 DEF Held
<1>13. CASE at = "openAccessor"
  <2>1. open = {"om"}
    BY <1>1, <1>13 DEF Held
  <2>2. Opens[at] = {"accessor"} /\ Closes[at] = {}
    BY <1>13 DEF Opens, Closes, Call
  <2>3. \/ at' = "get" /\ open' = {"om", "accessor"}
        \/ at' = Finish(helper) /\ open' = {"om"}
    BY <1>5, <1>6, <1>13, <2>1, <2>2 DEF AfterSuccess, AfterFailure
  <2>4. QED
    BY <1>8, <1>9, <1>10, <2>3 DEF Held, Finish, Lent
<1>14. CASE at = "get"
  <2>1. open = {"om", "accessor"}
    BY <1>1, <1>14 DEF Held
  <2>2. Opens[at] = {} /\ Closes[at] = {}
    BY <1>14 DEF Opens, Closes, Call
  <2>3. at' = "closeAccessor" /\ open' = {"om", "accessor"}
    BY <1>5, <1>6, <1>14, <2>1, <2>2 DEF AfterSuccess, AfterFailure
  <2>4. QED
    BY <1>8, <1>9, <2>3 DEF Held
<1>15. CASE at = "closeAccessor"
  <2>1. open = {"om", "accessor"}
    BY <1>1, <1>15 DEF Held
  <2>2. Opens[at] = {} /\ Closes[at] = {"accessor"}
    BY <1>15 DEF Opens, Closes, Call
  <2>3. at' = Finish(helper) /\ "om" \in open' /\ open' \subseteq {"om", "accessor"}
    BY <1>5, <1>6, <1>15, <2>1, <2>2 DEF AfterSuccess, AfterFailure
  <2>4. "accessor" \in released'
    BY <1>4, <2>2
  <2>5. QED
    BY <1>8, <1>9, <1>10, <2>3, <2>4 DEF Held, Finish, Lent
<1>16. CASE at = "freeDescription"
  <2>1. open = {"om", "description"} /\ helper # "getClassName"
    BY <1>1, <1>2, <1>16 DEF Held, CallsOf, Helper
  <2>2. Opens[at] = {} /\ Closes[at] = {"description"}
    BY <1>16 DEF Opens, Closes, Call
  <2>3. at' = "finalize" /\ "om" \in open' /\ open' \subseteq {"om", "description"}
    BY <1>5, <1>6, <1>16, <2>1, <2>2 DEF AfterSuccess, AfterFailure, Finish
  <2>4. "description" \in released'
    BY <1>4, <2>2
  <2>5. QED
    BY <1>8, <1>9, <2>3, <2>4 DEF Held
<1>17. CASE at = "finalize"
  <2>1. helper # "getClassName"
    BY <1>1, <1>2, <1>17 DEF CallsOf, Helper
  <2>2. released' = released \cup Kept
    BY <1>4, <1>17 DEF Closes, Call
  <2>3. at' = "return"
    BY <1>5, <1>17 DEF AfterSuccess, AfterFailure
  <2>4. open' \subseteq released' /\ Lent = {}
    BY <1>8, <2>1, <2>2 DEF ProgressTypes, Lent
  <2>5. QED
    BY <1>8, <1>9, <1>10, <2>3, <2>4 DEF Held
<1>18. QED
  BY <1>8, <1>11, <1>12, <1>13, <1>14, <1>15, <1>16, <1>17 DEF Call

LEMMA HelperInitInv == HelperInit => HInv
BY DEF HelperInit, WrapperInit, HInv, ProgressTypes, Kept

\* A step of a wrapper leaves the helper where it is.
LEMMA WrapperStep ==
  ASSUME HInv, UNCHANGED progress,
         helper # "none" /\ pc' # "idle" => at \in Call \ Unwrapped
  PROVE  HInv'
<1>1. /\ helper' = helper /\ at' = at /\ open' = open
      /\ value' = value /\ released' = released
  BY DEF progress
<1>2. ProgressTypes'
  BY <1>1 DEF HInv, ProgressTypes
<1>3. helper' # "none" => Held'
  BY <1>1 DEF HInv, Held, CallsOf, Lent
<1>4. QED
  BY <1>1, <1>2, <1>3 DEF HInv

LEMMA StartHelperStep ==
  ASSUME HInv, NEW h \in Helper, StartHelper(h)
  PROVE  HInv'
<1>1. /\ helper' = h /\ at' = First[h] /\ released' = {} /\ value' = "none"
      /\ open' = IF h = "getClassName" THEN {"om"} ELSE {}
      /\ pc' = "idle"
  BY DEF StartHelper, wrapper
<1>2. at' = IF h = "getClassName" THEN "openAccessor" ELSE "initialize"
  BY <1>1 DEF First
<1>3. ProgressTypes'
  BY <1>1, <1>2 DEF ProgressTypes, Kept, Call
<1>4. Held'
  BY <1>1, <1>2 DEF Held, CallsOf, Helper
<1>5. QED
  BY <1>1, <1>3, <1>4 DEF HInv

LEMMA AdvanceStep ==
  ASSUME HInv, Advance
  PROVE  HInv'
<1>1. CASE CallWrapper
  BY <1>1, WrapperStep DEF CallWrapper, HInv
<1>2. CASE WrapperReturns
  <2>1. Return /\ pc = "answered" /\ pc' = "idle"
    BY <1>2 DEF WrapperReturns, Return
  <2>2. CASE helper = "none"
    BY <1>2, <2>1, <2>2, WrapperStep DEF WrapperReturns
  <2>3. CASE helper # "none"
    <3>1. Continue(rc) /\ at \in Call
      BY <1>2, <2>1, <2>3 DEF WrapperReturns, HInv
    <3>2. ProgressTypes' /\ Held'
      BY <2>3, <3>1, ContinueStep
    <3>3. QED
      BY <2>1, <3>2 DEF HInv
  <2>4. QED
    BY <2>2, <2>3
<1>3. CASE \E a \in Answer : ServiceAnswers(a) /\ UNCHANGED progress
  BY <1>3, WrapperStep DEF ServiceAnswers, HInv
<1>4. CASE (Retry \/ Abort) /\ UNCHANGED progress
  BY <1>4, WrapperStep DEF Retry, Abort, HInv
<1>5. CASE \E a \in Answer : CallUnwrapped(a)
  <2>1. PICK a \in Answer : CallUnwrapped(a)
    BY <1>5
  <2>2. helper # "none" /\ at \in Call /\ pc = "idle" /\ pc' = pc /\ Continue(a)
    BY <2>1 DEF CallUnwrapped, wrapper, Unwrapped, Call
  <2>3. ProgressTypes' /\ Held'
    BY <2>2, ContinueStep
  <2>4. QED
    BY <2>2, <2>3 DEF HInv
<1>6. CASE HelperReturns
  BY <1>6 DEF HelperReturns, HInv, ProgressTypes
<1>7. QED
  BY <1>1, <1>2, <1>3, <1>4, <1>5, <1>6 DEF Advance

LEMMA HelperNextInv == HInv /\ [HelperNext]_helperVars => HInv'
<1>1. SUFFICES ASSUME HInv, [HelperNext]_helperVars PROVE HInv'
  OBVIOUS
<1>2. CASE Advance
  BY <1>1, <1>2, AdvanceStep
<1>3. CASE \E h \in Helper : StartHelper(h)
  BY <1>1, <1>3, StartHelperStep
<1>4. CASE \E k \in Kind : CallDirectly(k)
  BY <1>1, <1>4, WrapperStep DEF CallDirectly
<1>5. CASE UNCHANGED helperVars
  <2>1. UNCHANGED progress /\ pc' = pc
    BY <1>5 DEF helperVars, wrapper
  <2>2. QED
    BY <1>1, <2>1, WrapperStep DEF HInv
<1>6. QED
  BY <1>1, <1>2, <1>3, <1>4, <1>5 DEF HelperNext

\* What a wrapper does for a helper it could do for any caller.
LEMMA HelperIsCaller == [HelperNext]_helperVars => [Next]_wrapper
<1>1. SUFFICES ASSUME [HelperNext]_helperVars PROVE [Next]_wrapper
  OBVIOUS
<1>2. CASE Advance
  <2>1. ASSUME NEW k, k \in Kind, Start(k) PROVE Next
    BY <2>1 DEF Next
  <2>2. ASSUME at \in Call PROVE KindOf[at] \in Kind
    BY <2>2 DEF KindOf, Kind
  <2>3. CASE CallWrapper
    BY <2>1, <2>2, <2>3 DEF CallWrapper
  <2>4. CASE ~CallWrapper
    BY <1>2, <2>4 DEF Advance, Next, Wrapper, WrapperReturns, CallUnwrapped, HelperReturns
  <2>5. QED
    BY <2>3, <2>4
<1>3. CASE \E h \in Helper : StartHelper(h)
  BY <1>3 DEF StartHelper
<1>4. CASE \E k \in Kind : CallDirectly(k)
  BY <1>4 DEF CallDirectly, Next
<1>5. CASE UNCHANGED helperVars
  BY <1>5 DEF helperVars
<1>6. QED
  BY <1>1, <1>2, <1>3, <1>4, <1>5 DEF HelperNext

----------------------------------------------------------------------------
\* The strengthened invariants hold of every program with the helpers.
THEOREM HelperInvariance == HelperSpec => [](HInv /\ IInv)
<1>1. HelperInit => HInv /\ IInv
  BY HelperInitInv, InitIInv DEF HelperInit
<1>2. (HInv /\ IInv) /\ [HelperNext]_helperVars => (HInv /\ IInv)'
  BY HelperNextInv, HelperIsCaller, NextIInv
<1>3. QED
  BY <1>1, <1>2, PTL DEF HelperSpec

\* The types of the helpers; in particular a value that is kept is a copy and
\* never a pointer to what the accessor owns.
THEOREM HelperTypes == HelperSpec => []HelperTypeOK
<1>1. HInv /\ IInv => HelperTypeOK
  BY DEF HInv, IInv, ProgressTypes, HelperTypeOK
<1>2. QED
  BY <1>1, HelperInvariance, PTL

\* A helper calls only on handles it holds, whichever call has failed before.
THEOREM Handles == HelperSpec => []HandlesValid
<1>1. HInv => HandlesValid
  BY HInvImplies
<1>2. QED
  BY <1>1, HelperInvariance, PTL

\* A helper asks for the release of all it has opened, on every path, and
\* never of what it was lent.
THEOREM Released == HelperSpec => []NothingForgotten
<1>1. HInv => NothingForgotten
  BY HInvImplies
<1>2. QED
  BY <1>1, HelperInvariance, PTL

----------------------------------------------------------------------------
(****************************************************************************)
(* Numbers: every set of them has a least one.  This is the induction that  *)
(* the provers can do, over a set and not over an operator.                 *)
(****************************************************************************)
\* A set of numbers that is not empty has a least one.
LEMMA LeastNumber ==
  ASSUME NEW S \in SUBSET Nat, S # {}
  PROVE  \E x \in S : \A y \in S : x <= y
<1> DEFINE R == {p \in Nat \X Nat : p[1] < p[2]}
<1>1. IsWellFoundedOn(R, Nat)
  <2>1. OpToRel(<, Nat) = R
    BY DEF OpToRel
  <2>2. QED
    BY <2>1, NatLessThanWellFounded
<1>2. PICK x \in S : \A y \in S : <<y, x>> \notin R
  BY <1>1, WFMin
<1>3. ASSUME NEW y \in S PROVE x <= y
  <2>1. x \in Nat /\ y \in Nat /\ ~(y < x)
    BY <1>2
  <2>2. QED
    BY <2>1
<1>4. QED
  BY <1>3

\* Induction, over a set.
LEMMA NumbersInductive ==
  ASSUME NEW S, 0 \in S, \A n \in Nat : n \in S => n + 1 \in S
  PROVE  Nat \subseteq S
<1>1. SUFFICES ASSUME Nat \ S # {} PROVE FALSE
  OBVIOUS
<1>2. PICK x \in Nat \ S : \A y \in Nat \ S : x <= y
  BY <1>1, LeastNumber
<1>3. x # 0 /\ x - 1 \in Nat /\ (x - 1) + 1 = x /\ ~(x <= x - 1)
  BY <1>2
<1>4. x - 1 \in S
  BY <1>2, <1>3
<1>5. QED
  BY <1>2, <1>3, <1>4

----------------------------------------------------------------------------
(****************************************************************************)
(* Names: the items of a name, and the searches in terms of them.           *)
(****************************************************************************)
Token == SearchKey \cup Text \cup {Comma}

\* items are what lies between the boundaries c of the first L tokens of a name.
Splits(name, L, items, c) ==
  /\ items \in Seq(Seq(Token)) /\ Len(items) # 0
  /\ c \in [0..Len(items) -> Nat] /\ c[0] = 0 /\ c[Len(items)] = L + 1
  /\ \A i, j \in 0..Len(items) : i < j => c[i] < c[j]
  /\ \A j \in 1..Len(items) :
       /\ j < Len(items) => name[c[j]] = Comma
       /\ \A p \in (c[j - 1] + 1)..(c[j] - 1) : name[p] # Comma
       /\ Len(items[j]) = c[j] - c[j - 1] - 1
       /\ \A k \in 1..Len(items[j]) : items[j][k] = name[c[j - 1] + k]

\* The empty name has one item, which is empty.
LEMMA SplitBegins ==
  ASSUME NEW name
  PROVE  \E c : Splits(name, 0, <<<<>>>>, c)
<1> DEFINE c == [j \in 0..1 |-> j]
<1>1. <<<<>>>> \in Seq(Seq(Token)) /\ Len(<<<<>>>>) = 1 /\ <<<<>>>>[1] = <<>> /\ Len(<<>>) = 0
  OBVIOUS
<1>2. c \in [0..1 -> Nat] /\ c[0] = 0 /\ c[1] = 1
  OBVIOUS
<1> HIDE DEF c
<1>3. Splits(name, 0, <<<<>>>>, c)
  BY <1>1, <1>2 DEF Splits
<1>4. QED
  BY <1>3

\* A comma begins another item.
LEMMA SplitAtComma ==
  ASSUME NEW name, NEW L \in Nat, NEW items, NEW c, Splits(name, L, items, c),
         name[L + 1] = Comma
  PROVE  \E d : Splits(name, L + 1, Append(items, <<>>), d)
<1> DEFINE n == Len(items)
           d == [j \in 0..(n + 1) |-> IF j <= n THEN c[j] ELSE L + 2]
           new == Append(items, <<>>)
<1>1. /\ n \in Nat /\ items \in Seq(Seq(Token)) /\ n # 0
      /\ c \in [0..n -> Nat] /\ c[0] = 0 /\ c[n] = L + 1
      /\ \A i, j \in 0..n : i < j => c[i] < c[j]
      /\ \A j \in 1..n :
           /\ j < n => name[c[j]] = Comma
           /\ \A p \in (c[j - 1] + 1)..(c[j] - 1) : name[p] # Comma
           /\ Len(items[j]) = c[j] - c[j - 1] - 1
           /\ \A k \in 1..Len(items[j]) : items[j][k] = name[c[j - 1] + k]
  BY DEF Splits
<1>2. /\ new \in Seq(Seq(Token)) /\ Len(new) = n + 1 /\ new[n + 1] = <<>>
      /\ \A j \in 1..n : new[j] = items[j]
  <2>1. <<>> \in Seq(Token)
    OBVIOUS
  <2>2. QED
    BY <1>1, <2>1, AppendProperties
<1> HIDE DEF n, new
<1>3. /\ d \in [0..(n + 1) -> Nat] /\ d[n + 1] = L + 2
      /\ \A j \in 0..n : d[j] = c[j]
  BY <1>1
<1> HIDE DEF d
<1>4. ASSUME NEW i \in 0..(n + 1), NEW j \in 0..(n + 1), i < j PROVE d[i] < d[j]
  <2>1. i \in 0..n /\ (j \in 0..n \/ j = n + 1)
    BY <1>1, <1>4
  <2>2. CASE j \in 0..n
    BY <1>1, <1>3, <1>4, <2>1, <2>2
  <2>3. CASE j = n + 1
    <3>1. c[i] <= L + 1 /\ c[i] \in Nat
      <4>1. n \in 0..n /\ (i = n \/ i < n) /\ c[i] \in Nat
        BY <1>1, <2>1
      <4>2. CASE i = n
        BY <1>1, <4>2
      <4>3. CASE i < n
        BY <1>1, <2>1, <4>1, <4>3
      <4>4. QED
        BY <4>1, <4>2, <4>3
    <3>2. QED
      BY <1>3, <2>1, <2>3, <3>1
  <2>4. QED
    BY <2>1, <2>2, <2>3
<1>5. ASSUME NEW j \in 1..(n + 1)
      PROVE  /\ j < n + 1 => name[d[j]] = Comma
             /\ \A p \in (d[j - 1] + 1)..(d[j] - 1) : name[p] # Comma
             /\ Len(new[j]) = d[j] - d[j - 1] - 1
             /\ \A k \in 1..Len(new[j]) : new[j][k] = name[d[j - 1] + k]
  <2>1. CASE j \in 1..n
    <3>1. j \in 0..n /\ j - 1 \in 0..n
      BY <1>1, <2>1
    <3>2. d[j] = c[j] /\ d[j - 1] = c[j - 1] /\ new[j] = items[j]
      BY <1>2, <1>3, <2>1, <3>1
    <3>3. name[c[j]] = Comma
      BY <1>1, <2>1
    <3>4. QED
      BY <1>1, <2>1, <3>2, <3>3
  <2>2. CASE j = n + 1
    <3>1. d[j] = L + 2 /\ d[j - 1] = L + 1 /\ new[j] = <<>>
      BY <1>1, <1>2, <1>3, <2>2
    <3>2. QED
      BY <2>2, <3>1
  <2>3. QED
    BY <1>1, <2>1, <2>2
<1>6. d[0] = 0 /\ d[n + 1] = (L + 1) + 1
  BY <1>1, <1>3
<1>7. PICK m : m = n + 1
  OBVIOUS
<1>8. /\ Len(new) = m /\ m # 0 /\ d \in [0..m -> Nat] /\ d[m] = (L + 1) + 1
      /\ \A i, j \in 0..m : i < j => d[i] < d[j]
  <2>1. n + 1 # 0 /\ d[n + 1] = (L + 1) + 1
    BY <1>1, <1>6
  <2>2. \A i, j \in 0..(n + 1) : i < j => d[i] < d[j]
    BY <1>4
  <2> DEFINE q == n + 1
  <2>3. /\ Len(new) = q /\ q # 0 /\ d \in [0..q -> Nat] /\ d[q] = (L + 1) + 1
        /\ \A i, j \in 0..q : i < j => d[i] < d[j]
    BY <1>2, <1>3, <2>1, <2>2
  <2>4. m = q
    BY <1>7
  <2> HIDE DEF q
  <2>5. QED
    BY <2>3, <2>4
<1>9. ASSUME NEW j \in 1..m
      PROVE  /\ j < m => name[d[j]] = Comma
             /\ \A p \in (d[j - 1] + 1)..(d[j] - 1) : name[p] # Comma
             /\ Len(new[j]) = d[j] - d[j - 1] - 1
             /\ \A k \in 1..Len(new[j]) : new[j][k] = name[d[j - 1] + k]
  BY <1>5, <1>7
<1>10. Splits(name, L + 1, new, d)
  BY <1>2, <1>6, <1>8, <1>9 DEF Splits
<1>11. QED
  BY <1>10 DEF new

\* Other text goes to the last item.
LEMMA SplitGoesOn ==
  ASSUME NEW name, NEW L \in Nat, NEW items, NEW c, Splits(name, L, items, c),
         name[L + 1] # Comma, name[L + 1] \in Token
  PROVE  \E d : Splits(name, L + 1, [items EXCEPT ![Len(items)] = Append(@, name[L + 1])], d)
<1> DEFINE n == Len(items)
           d == [c EXCEPT ![n] = L + 2]
           last == Append(items[n], name[L + 1])
           new == [items EXCEPT ![n] = last]
<1>1. /\ n \in Nat /\ items \in Seq(Seq(Token)) /\ n # 0
      /\ c \in [0..n -> Nat] /\ c[0] = 0 /\ c[n] = L + 1
      /\ \A i, j \in 0..n : i < j => c[i] < c[j]
      /\ \A j \in 1..n :
           /\ j < n => name[c[j]] = Comma
           /\ \A p \in (c[j - 1] + 1)..(c[j] - 1) : name[p] # Comma
           /\ Len(items[j]) = c[j] - c[j - 1] - 1
           /\ \A k \in 1..Len(items[j]) : items[j][k] = name[c[j - 1] + k]
  <2>1. items \in Seq(Seq(Token)) /\ n # 0
    BY DEF Splits
  <2>2. n \in Nat
    BY <2>1
  <2>3. QED
    BY <2>1, <2>2, Zenon DEF Splits
<1>2. n \in 1..n /\ items[n] \in Seq(Token)
  BY <1>1, ElementOfSeq
<1>3. /\ last \in Seq(Token) /\ Len(last) = Len(items[n]) + 1
      /\ last[Len(items[n]) + 1] = name[L + 1]
      /\ \A k \in 1..Len(items[n]) : last[k] = items[n][k]
  BY <1>2, AppendProperties
<1> HIDE DEF last
<1>4. /\ new \in Seq(Seq(Token)) /\ Len(new) = n /\ new[n] = last
      /\ \A j \in 1..n : j # n => new[j] = items[j]
  BY <1>1, <1>2, <1>3, ExceptSeq
<1> HIDE DEF n, new
<1>5. /\ d \in [0..n -> Nat] /\ d[n] = L + 2
      /\ \A j \in 0..n : j # n => d[j] = c[j]
  BY <1>1
<1> HIDE DEF d
<1>6. ASSUME NEW i \in 0..n, NEW j \in 0..n, i < j PROVE d[i] < d[j]
  <2>1. i # n /\ c[i] < c[j] /\ c[i] < L + 1 /\ d[i] = c[i]
    <3>1. i # n /\ i < n /\ n \in 0..n
      BY <1>1, <1>6
    <3>2. QED
      BY <1>1, <1>5, <1>6, <3>1
  <2>2. c[i] \in Nat /\ (d[j] = c[j] \/ d[j] = L + 2)
    BY <1>1, <1>5
  <2>3. QED
    BY <2>1, <2>2
<1>7. ASSUME NEW j \in 1..n
      PROVE  /\ j < n => name[d[j]] = Comma
             /\ \A p \in (d[j - 1] + 1)..(d[j] - 1) : name[p] # Comma
             /\ Len(new[j]) = d[j] - d[j - 1] - 1
             /\ \A k \in 1..Len(new[j]) : new[j][k] = name[d[j - 1] + k]
  <2>1. j - 1 \in 0..n /\ j - 1 # n /\ d[j - 1] = c[j - 1] /\ c[j - 1] \in Nat
    BY <1>1, <1>5
  <2>2. CASE j # n
    <3>1. d[j] = c[j] /\ new[j] = items[j]
      BY <1>1, <1>4, <1>5, <2>2
    <3>2. QED
      BY <1>1, <2>1, <3>1
  <2>3. CASE j = n
    <3>1. d[j] = L + 2 /\ new[j] = last /\ c[j] = L + 1
      BY <1>1, <1>4, <1>5, <2>3
    <3>2. Len(items[n]) = L - c[j - 1] /\ Len(items[n]) \in Nat
      BY <1>1, <1>2, <2>1, <2>3, <3>1
    <3>3. Len(new[j]) = d[j] - d[j - 1] - 1
      BY <1>3, <2>1, <3>1, <3>2
    <3>4. ASSUME NEW p \in (d[j - 1] + 1)..(d[j] - 1) PROVE name[p] # Comma
      <4>1. p = L + 1 \/ p \in (c[j - 1] + 1)..(c[j] - 1)
        BY <2>1, <3>1
      <4>2. QED
        BY <1>1, <4>1
    <3>5. ASSUME NEW k \in 1..Len(new[j]) PROVE new[j][k] = name[d[j - 1] + k]
      <4>1. k \in 1..Len(items[n]) \/ k = Len(items[n]) + 1
        BY <1>3, <3>1, <3>2
      <4>2. CASE k \in 1..Len(items[n])
        BY <1>1, <1>3, <2>1, <2>3, <3>1, <4>2
      <4>3. CASE k = Len(items[n]) + 1
        <5>1. d[j - 1] + k = L + 1
          BY <2>1, <3>2, <4>3
        <5>2. QED
          BY <1>3, <3>1, <4>3, <5>1
      <4>4. QED
        BY <4>1, <4>2, <4>3
    <3>6. QED
      BY <2>3, <3>3, <3>4, <3>5
  <2>4. QED
    BY <2>2, <2>3
<1>8. d[0] = 0 /\ d[n] = (L + 1) + 1
  BY <1>1, <1>5
<1>9. Splits(name, L + 1, new, d)
  BY <1>1, <1>4, <1>5, <1>6, <1>7, <1>8 DEF Splits
<1>10. QED
  BY <1>9 DEF new, last, n

\* Items computes such a split: the recursion has a solution, and every value of
\* it is one.
ItemsUpTo(name, f, L) ==
  f = [p \in 0..L |-> IF p = 0 THEN <<<<>>>>
                      ELSE IF name[p] = Comma THEN Append(f[p - 1], <<>>)
                      ELSE [f[p - 1] EXCEPT ![Len(f[p - 1])] = Append(@, name[p])]]

LEMMA ItemsUpToExists ==
  ASSUME NEW name, NEW L \in Nat
  PROVE  \E f : ItemsUpTo(name, f, L)
<1> DEFINE step(x, p) == IF name[p] = Comma THEN Append(x, <<>>)
                         ELSE [x EXCEPT ![Len(x)] = Append(@, name[p])]
           first == <<<<>>>>
           S == {m \in Nat : \E f : ItemsUpTo(name, f, m)}
<1>0. \A f, m : ItemsUpTo(name, f, m) <=>
                  f = [p \in 0..m |-> IF p = 0 THEN first ELSE step(f[p - 1], p)]
  BY DEF ItemsUpTo
<1> HIDE DEF step, first
<1>1. 0 \in S
  <2> DEFINE f == [p \in 0..0 |-> first]
  <2>1. f = [p \in 0..0 |-> IF p = 0 THEN first ELSE step(f[p - 1], p)]
    <3>1. \A p \in 0..0 : p = 0
      OBVIOUS
    <3>2. QED
      BY <3>1
  <2>2. ItemsUpTo(name, f, 0)
    BY <1>0, <2>1
  <2>3. QED
    BY <2>2
<1>2. ASSUME NEW m \in Nat, m \in S PROVE m + 1 \in S
  <2>1. PICK f : ItemsUpTo(name, f, m)
    BY <1>2
  <2>2. f = [p \in 0..m |-> IF p = 0 THEN first ELSE step(f[p - 1], p)]
    BY <1>0, <2>1
  <2> DEFINE g == [p \in 0..(m + 1) |-> IF p <= m THEN f[p] ELSE step(f[m], m + 1)]
             h == [p \in 0..(m + 1) |-> IF p = 0 THEN first ELSE step(g[p - 1], p)]
  <2>3. ASSUME NEW p \in 0..(m + 1) PROVE g[p] = h[p]
    <3>1. CASE p = 0
      BY <2>2, <3>1
    <3>2. CASE p \in 1..m
      <4>1. p \in 0..m /\ p - 1 \in 0..m /\ p # 0 /\ p - 1 \in 0..(m + 1)
        BY <3>2
      <4>2. g[p] = f[p] /\ g[p - 1] = f[p - 1]
        BY <4>1
      <4>3. f[p] = step(f[p - 1], p)
        BY <2>2, <4>1
      <4>4. QED
        BY <4>1, <4>2, <4>3
    <3>3. CASE p = m + 1
      <4>1. p # 0 /\ ~(p <= m) /\ p - 1 = m /\ m \in 0..(m + 1)
        BY <3>3
      <4>2. g[p] = step(f[m], m + 1) /\ g[m] = f[m]
        BY <4>1
      <4>3. h[p] = step(g[m], m + 1)
        BY <3>3, <4>1
      <4>4. QED
        BY <4>2, <4>3
    <3>4. QED
      BY <3>1, <3>2, <3>3
  <2>4. g = [p \in 0..(m + 1) |-> g[p]] /\ h = [p \in 0..(m + 1) |-> h[p]]
    OBVIOUS
  <2>5. g = h
    <3> HIDE DEF g, h
    <3>1. QED
      BY <2>3, <2>4
  <2>6. ItemsUpTo(name, g, m + 1)
    <3> HIDE DEF g
    <3>1. QED
      BY <1>0, <2>5
  <2>7. QED
    <3> HIDE DEF g
    <3>1. QED
      BY <2>6
<1>3. Nat \subseteq S
  <2> HIDE DEF S
  <2>1. QED
    BY <1>1, <1>2, NumbersInductive
<1>4. QED
  BY <1>3

\* Items splits a name at its commas.
LEMMA ItemsSplit ==
  ASSUME NEW name \in Seq(Token)
  PROVE  \E c : Splits(name, Len(name), Items(name), c)
<1> DEFINE u == CHOOSE f : ItemsUpTo(name, f, Len(name))
           S == {m \in Nat : m <= Len(name) => \E c : Splits(name, m, u[m], c)}
<1>1. Len(name) \in Nat /\ \A p \in 1..Len(name) : name[p] \in Token
  OBVIOUS
<1>2. Items(name) = u[Len(name)]
  BY DEF Items, ItemsUpTo
<1>3. ItemsUpTo(name, u, Len(name))
  BY <1>1, ItemsUpToExists
<1> HIDE DEF u
<1>4. /\ u[0] = <<<<>>>>
      /\ \A p \in 1..Len(name) :
           u[p] = IF name[p] = Comma THEN Append(u[p - 1], <<>>)
                  ELSE [u[p - 1] EXCEPT ![Len(u[p - 1])] = Append(@, name[p])]
  <2> DEFINE step(x, p) == IF name[p] = Comma THEN Append(x, <<>>)
                           ELSE [x EXCEPT ![Len(x)] = Append(@, name[p])]
             first == <<<<>>>>
  <2>1. u = [p \in 0..Len(name) |-> IF p = 0 THEN first ELSE step(u[p - 1], p)]
    BY <1>3 DEF ItemsUpTo
  <2> HIDE DEF step, first
  <2>2. u[0] = first /\ \A p \in 1..Len(name) : u[p] = step(u[p - 1], p)
    BY <1>1, <2>1
  <2>3. QED
    BY <2>2 DEF step, first
<1>5. 0 \in S
  BY <1>4, SplitBegins
<1>6. ASSUME NEW m \in Nat, m \in S PROVE m + 1 \in S
  <2>1. SUFFICES ASSUME m + 1 <= Len(name)
                 PROVE  \E c : Splits(name, m + 1, u[m + 1], c)
    OBVIOUS
  <2>2. PICK c : Splits(name, m, u[m], c)
    BY <1>1, <1>6, <2>1
  <2>3. m + 1 \in 1..Len(name) /\ (m + 1) - 1 = m
    BY <1>1, <2>1
  <2>4. u[m + 1] = IF name[m + 1] = Comma THEN Append(u[m], <<>>)
                   ELSE [u[m] EXCEPT ![Len(u[m])] = Append(@, name[m + 1])]
    BY <1>4, <2>3
  <2>5. CASE name[m + 1] = Comma
    <3>1. \E d : Splits(name, m + 1, Append(u[m], <<>>), d)
      BY <2>2, <2>5, SplitAtComma
    <3>2. QED
      BY <2>4, <2>5, <3>1
  <2>6. CASE name[m + 1] # Comma
    <3>1. name[m + 1] \in Token
      BY <1>1, <2>3
    <3>2. \E d : Splits(name, m + 1, [u[m] EXCEPT ![Len(u[m])] = Append(@, name[m + 1])], d)
      BY <2>2, <2>6, <3>1, SplitGoesOn
    <3>3. u[m + 1] = [u[m] EXCEPT ![Len(u[m])] = Append(@, name[m + 1])]
      BY <2>4, <2>6
    <3>4. QED
      BY <3>2, <3>3
  <2>7. QED
    BY <2>5, <2>6
<1>7. Nat \subseteq S
  <2> HIDE DEF S
  <2>1. QED
    BY <1>5, <1>6, NumbersInductive
<1>8. QED
  BY <1>1, <1>2, <1>7

\* Every position lies in one item, or ends it.
LEMMA SplitCovers ==
  ASSUME NEW name, NEW L \in Nat, NEW items, NEW c, Splits(name, L, items, c),
         NEW p \in 1..(L + 1)
  PROVE  \E j \in 1..Len(items) : c[j - 1] < p /\ p <= c[j]
<1> DEFINE n == Len(items)
           S == {j \in 0..n : p <= c[j]}
<1>1. n \in Nat /\ c \in [0..n -> Nat] /\ c[0] = 0 /\ c[n] = L + 1
  BY DEF Splits
<1>2. S \in SUBSET Nat /\ n \in S
  BY <1>1
<1>3. PICK j \in S : \A k \in S : j <= k
  <2> HIDE DEF S
  <2>1. QED
    BY <1>2, LeastNumber
<1>4. j # 0 /\ j \in 1..n /\ j - 1 \in 0..n
  BY <1>1, <1>3
<1>5. j - 1 \notin S
  BY <1>3, <1>4
<1>6. QED
  BY <1>1, <1>3, <1>4, <1>5

\* The first position of a set, which is there unless the set is empty.
LEMMA FirstInIs ==
  ASSUME NEW set \in SUBSET Nat, NEW name
  PROVE  /\ set = {} => FirstIn(set, name) = Len(name) + 1
         /\ set # {} => FirstIn(set, name) \in set /\ \A q \in set : FirstIn(set, name) <= q
         /\ \A p \in set : (\A q \in set : p <= q) => FirstIn(set, name) = p
<1>1. set # {} => FirstIn(set, name) \in set /\ \A q \in set : FirstIn(set, name) <= q
  <2>1. SUFFICES ASSUME set # {}
                 PROVE  FirstIn(set, name) \in set /\ \A q \in set : FirstIn(set, name) <= q
    OBVIOUS
  <2>2. \E p \in set : \A q \in set : p <= q
    BY <2>1, LeastNumber
  <2>3. QED
    BY <2>1, <2>2 DEF FirstIn
<1>2. ASSUME NEW p \in set, \A q \in set : p <= q PROVE FirstIn(set, name) = p
  <2>1. FirstIn(set, name) \in set /\ FirstIn(set, name) <= p /\ p <= FirstIn(set, name)
    BY <1>1, <1>2
  <2>2. FirstIn(set, name) \in Nat /\ p \in Nat
    BY <2>1
  <2>3. QED
    BY <2>1, <2>2
<1>3. QED
  BY <1>1, <1>2 DEF FirstIn

\* strchr finds the end of the item it starts in.
LEMMA StrchrFinds ==
  ASSUME NEW name \in Seq(Token), NEW items, NEW c, Splits(name, Len(name), items, c),
         NEW j \in 1..Len(items), NEW p \in Nat, c[j - 1] < p, p <= c[j]
  PROVE  Strchr(name, p) = c[j]
<1> DEFINE n == Len(items)
           S == {q \in p..Len(name) : name[q] = Comma}
<1>1. /\ n \in Nat /\ c \in [0..n -> Nat] /\ c[0] = 0 /\ c[n] = Len(name) + 1
      /\ \A i, k \in 0..n : i < k => c[i] < c[k]
      /\ j < n => name[c[j]] = Comma
      /\ \A q \in (c[j - 1] + 1)..(c[j] - 1) : name[q] # Comma
  BY DEF Splits
<1>2. S \in SUBSET Nat /\ Len(name) \in Nat
  OBVIOUS
<1>3. j - 1 \in 0..n /\ j \in 0..n /\ c[j - 1] \in Nat /\ c[j] \in Nat
  <2>1. j - 1 \in 0..n /\ j \in 0..n
    BY <1>1
  <2>2. QED
    BY <1>1, <2>1
<1>4. \A q \in S : c[j] <= q
  <2>1. SUFFICES ASSUME NEW q \in S, q < c[j] PROVE FALSE
    BY <1>2, <1>3
  <2>2. q \in (c[j - 1] + 1)..(c[j] - 1)
    BY <1>2, <1>3, <2>1
  <2>3. QED
    BY <1>1, <2>1, <2>2
<1>5. CASE j < n
  <2>1. c[j] < c[n] /\ n \in 0..n
    BY <1>1, <1>3, <1>5
  <2>2. c[j] \in S
    BY <1>1, <1>2, <1>3, <1>5, <2>1
  <2> HIDE DEF S
  <2>3. FirstIn(S, name) = c[j]
    BY <1>2, <1>4, <2>2, FirstInIs
  <2>4. QED
    BY <2>3 DEF Strchr, S
<1>6. CASE j = n
  <2>1. S = {}
    BY <1>1, <1>2, <1>4, <1>6
  <2>2. FirstIn(S, name) = Len(name) + 1
    BY <2>1 DEF FirstIn
  <2>3. QED
    BY <1>1, <1>6, <2>2 DEF Strchr
<1>7. QED
  BY <1>1, <1>5, <1>6

(****************************************************************************)
(* The searches, in terms of the items.                                     *)
(****************************************************************************)
\* Where the key starts an item.
Begins(key, name) == {q \in 1..Len(name) : name[q] = key /\ (q = 1 \/ name[q - 1] = Comma)}

SearchFrom(key, name, f) ==
  f = [p \in 1..(Len(name) + 1) |->
         LET cp == Strstr(name, p, key)
         IN IF cp > Len(name) \/ cp = 1 THEN cp
            ELSE IF name[cp - 1] = Comma THEN cp
            ELSE f[cp + 1]]

\* The loop of immutil_getStringValue goes on behind a key that starts no item.
LEMMA SearchFinds ==
  ASSUME NEW name \in Seq(Token), NEW key
  PROVE  Search(key, name) = FirstIn(Begins(key, name), name)
<1> DEFINE L == Len(name)
           K(p) == {q \in p..L : name[q] = key}
           B(p) == {q \in Begins(key, name) : p <= q}
           first == [p \in 1..(L + 1) |-> FirstIn(B(p), name)]
           v == CHOOSE f : SearchFrom(key, name, f)
<1>1. L \in Nat
  OBVIOUS
<1>2. ASSUME NEW p \in 1..(L + 1)
      PROVE  LET cp == Strstr(name, p, key)
             IN /\ cp \in p..(L + 1) /\ (cp <= L => cp + 1 \in 1..(L + 1) /\ p < cp + 1)
                /\ FirstIn(B(p), name) =
                     IF cp > L \/ cp = 1 THEN cp
                     ELSE IF name[cp - 1] = Comma THEN cp
                     ELSE FirstIn(B(cp + 1), name)
  <2> DEFINE cp == Strstr(name, p, key)
  <2>1. cp = FirstIn(K(p), name) /\ K(p) \in SUBSET Nat
    BY DEF Strstr
  <2>2. B(p) \in SUBSET Nat /\ B(p) \subseteq K(p)
    BY <1>1 DEF Begins
  <2> HIDE DEF cp
  <2>3. CASE K(p) = {}
    <3>1. cp = L + 1 /\ B(p) = {}
      BY <2>1, <2>2, <2>3, FirstInIs
    <3>2. FirstIn(B(p), name) = L + 1
      BY <2>2, <3>1, FirstInIs
    <3> HIDE DEF B
    <3>3. QED
      BY <1>1, <3>1, <3>2 DEF cp
  <2>4. CASE K(p) # {}
    <3>1. cp \in K(p) /\ \A q \in K(p) : cp <= q
      BY <2>1, <2>4, FirstInIs
    <3>2. cp \in p..L /\ name[cp] = key /\ cp \in 1..L
      BY <1>1, <3>1
    <3>3. CASE cp = 1 \/ name[cp - 1] = Comma
      <4>1. cp \in B(p)
        BY <3>2, <3>3 DEF Begins
      <4>2. FirstIn(B(p), name) = cp
        BY <2>2, <3>1, <4>1, FirstInIs
      <4> HIDE DEF B
      <4>3. QED
        BY <1>1, <3>2, <3>3, <4>2 DEF cp
    <3>4. CASE ~(cp = 1 \/ name[cp - 1] = Comma)
      <4>1. cp \notin Begins(key, name)
        BY <3>4 DEF Begins
      <4>2. B(p) = B(cp + 1)
        <5>1. \A q \in B(p) : q \in Nat /\ cp <= q /\ q # cp
          BY <2>2, <3>1, <4>1
        <5>2. \A q \in Begins(key, name) : cp + 1 <= q => p <= q
          BY <1>1, <3>2 DEF Begins
        <5>3. \A q \in B(p) : cp + 1 <= q
          BY <3>2, <5>1
        <5>4. QED
          BY <5>2, <5>3
      <4> HIDE DEF B
      <4>3. QED
        BY <1>1, <3>2, <3>4, <4>2 DEF cp
    <3>5. QED
      BY <3>3, <3>4
  <2>5. QED
    BY <2>3, <2>4
<1> HIDE DEF L, B, K
<1>3. SearchFrom(key, name, first)
  <2> DEFINE cp(p) == Strstr(name, p, key)
             g == [p \in 1..(L + 1) |->
                     IF cp(p) > L \/ cp(p) = 1 THEN cp(p)
                     ELSE IF name[cp(p) - 1] = Comma THEN cp(p)
                     ELSE first[cp(p) + 1]]
  <2>1. ASSUME NEW p \in 1..(L + 1) PROVE first[p] = g[p]
    <3>1. /\ cp(p) \in p..(L + 1) /\ (cp(p) <= L => cp(p) + 1 \in 1..(L + 1))
          /\ first[p] = IF cp(p) > L \/ cp(p) = 1 THEN cp(p)
                        ELSE IF name[cp(p) - 1] = Comma THEN cp(p)
                        ELSE FirstIn(B(cp(p) + 1), name)
      BY <1>2
    <3> HIDE DEF cp
    <3>2. cp(p) <= L => first[cp(p) + 1] = FirstIn(B(cp(p) + 1), name)
      BY <3>1
    <3> HIDE DEF first
    <3>3. QED
      BY <1>1, <3>1, <3>2
  <2>2. first = [p \in 1..(L + 1) |-> first[p]] /\ g = [p \in 1..(L + 1) |-> g[p]]
    OBVIOUS
  <2>3. first = g
    <3> HIDE DEF first, g
    <3>1. QED
      BY <2>1, <2>2
  <2>4. QED
    <3> HIDE DEF first
    <3>1. QED
      BY <2>3 DEF SearchFrom, L
<1>4. SearchFrom(key, name, v)
  BY <1>3
<1>5. Search(key, name) = v[1]
  BY DEF Search, SearchFrom
<1> HIDE DEF v
<1> DEFINE S == {d \in Nat : \A p \in 1..(L + 1) : L + 1 - p <= d => v[p] = first[p]}
<1>6. ASSUME NEW p \in 1..(L + 1)
      PROVE  LET cp == Strstr(name, p, key)
             IN v[p] = IF cp > L \/ cp = 1 THEN cp
                       ELSE IF name[cp - 1] = Comma THEN cp
                       ELSE v[cp + 1]
  <2> DEFINE e(q) == LET cp == Strstr(name, q, key)
                     IN IF cp > L \/ cp = 1 THEN cp
                        ELSE IF name[cp - 1] = Comma THEN cp
                        ELSE v[cp + 1]
  <2>1. v = [q \in 1..(L + 1) |-> e(q)]
    BY <1>4 DEF SearchFrom, L
  <2> HIDE DEF e
  <2>2. v[p] = e(p)
    BY <2>1
  <2>3. QED
    BY <2>2 DEF e
<1>7. ASSUME NEW p \in 1..(L + 1)
      PROVE  LET cp == Strstr(name, p, key)
             IN (cp <= L /\ v[cp + 1] # first[cp + 1]) \/ v[p] = first[p]
  <2> DEFINE cp == Strstr(name, p, key)
  <2>1. /\ cp \in p..(L + 1) /\ (cp <= L => cp + 1 \in 1..(L + 1))
        /\ first[p] = IF cp > L \/ cp = 1 THEN cp
                      ELSE IF name[cp - 1] = Comma THEN cp
                      ELSE FirstIn(B(cp + 1), name)
    BY <1>2
  <2>2. v[p] = IF cp > L \/ cp = 1 THEN cp
               ELSE IF name[cp - 1] = Comma THEN cp
               ELSE v[cp + 1]
    BY <1>6
  <2> HIDE DEF cp
  <2>3. cp <= L => first[cp + 1] = FirstIn(B(cp + 1), name)
    BY <2>1
  <2> HIDE DEF first
  <2>4. (cp <= L /\ v[cp + 1] # first[cp + 1]) \/ v[p] = first[p]
    BY <1>1, <2>1, <2>2, <2>3
  <2>5. QED
    BY <2>4 DEF cp
<1> HIDE DEF first
<1>8. 0 \in S
  <2>1. SUFFICES ASSUME NEW p \in 1..(L + 1), L + 1 - p <= 0 PROVE v[p] = first[p]
    OBVIOUS
  <2>2. Strstr(name, p, key) \in p..(L + 1) /\ p = L + 1
    BY <1>1, <1>2, <2>1
  <2>3. QED
    BY <1>1, <1>7, <2>2
<1>9. ASSUME NEW d \in Nat, d \in S PROVE d + 1 \in S
  <2>1. SUFFICES ASSUME NEW p \in 1..(L + 1), L + 1 - p <= d + 1 PROVE v[p] = first[p]
    OBVIOUS
  <2> DEFINE cp == Strstr(name, p, key)
  <2>2. cp \in p..(L + 1) /\ (cp <= L => cp + 1 \in 1..(L + 1) /\ p < cp + 1)
    BY <1>2
  <2>3. (cp <= L /\ v[cp + 1] # first[cp + 1]) \/ v[p] = first[p]
    BY <1>7
  <2> HIDE DEF cp
  <2>4. cp <= L => v[cp + 1] = first[cp + 1]
    BY <1>1, <1>9, <2>1, <2>2
  <2>5. QED
    BY <2>3, <2>4
<1>10. Nat \subseteq S
  <2> HIDE DEF S
  <2>1. QED
    BY <1>8, <1>9, NumbersInductive
<1>11. v[1] = first[1]
  <2>1. 1 \in 1..(L + 1) /\ L + 1 - 1 <= L
    BY <1>1
  <2>2. L \in S
    <3> HIDE DEF S
    <3>1. QED
      BY <1>1, <1>10
  <2>3. QED
    BY <2>1, <2>2
<1>12. first[1] = FirstIn(Begins(key, name), name)
  <2>1. B(1) = Begins(key, name)
    BY <1>1 DEF B, Begins
  <2>2. QED
    BY <1>1, <2>1 DEF first
<1>13. QED
  BY <1>5, <1>11, <1>12

\* The key starts an item exactly where the item has it first.
LEMMA KeyStartsItem ==
  ASSUME NEW name \in Seq(Token), NEW items, NEW c, Splits(name, Len(name), items, c),
         NEW key, key # Comma
  PROVE  /\ \A i \in 1..Len(items) :
              (items[i] # <<>> /\ items[i][1] = key) <=> c[i - 1] + 1 \in Begins(key, name)
         /\ \A q \in Begins(key, name) : \E i \in 1..Len(items) : q = c[i - 1] + 1
<1> DEFINE n == Len(items)
           L == Len(name)
<1>1. /\ n \in Nat /\ items \in Seq(Seq(Token))
      /\ c \in [0..n -> Nat] /\ c[0] = 0 /\ c[n] = L + 1
      /\ \A i, j \in 0..n : i < j => c[i] < c[j]
      /\ \A j \in 1..n :
           /\ j < n => name[c[j]] = Comma
           /\ \A p \in (c[j - 1] + 1)..(c[j] - 1) : name[p] # Comma
           /\ Len(items[j]) = c[j] - c[j - 1] - 1
           /\ \A k \in 1..Len(items[j]) : items[j][k] = name[c[j - 1] + k]
  BY DEF Splits
<1>2. L \in Nat
  OBVIOUS
<1>3. ASSUME NEW i \in 1..n
      PROVE  /\ i - 1 \in 0..n /\ i \in 0..n /\ c[i - 1] \in Nat /\ c[i] \in Nat
             /\ c[i - 1] < c[i] /\ c[i] <= L + 1 /\ (i < n => c[i] <= L)
             /\ Len(items[i]) = c[i] - c[i - 1] - 1 /\ items[i] \in Seq(Token)
             /\ i # 1 => i - 1 \in 1..n /\ i - 1 < n
  <2>1. /\ i - 1 \in 0..n /\ i \in 0..n /\ n \in 0..n /\ i - 1 < i /\ (i = n \/ i < n)
        /\ i # 1 => i - 1 \in 1..n /\ i - 1 < n
    BY <1>1
  <2>2. c[i - 1] \in Nat /\ c[i] \in Nat /\ c[i - 1] < c[i] /\ (i < n => c[i] < c[n])
    BY <1>1, <2>1
  <2>3. items[i] \in Seq(Token) /\ Len(items[i]) = c[i] - c[i - 1] - 1
    BY <1>1, ElementOfSeq
  <2>4. QED
    BY <1>1, <1>2, <2>1, <2>2, <2>3
<1> HIDE DEF n, L
<1>4. ASSUME NEW i \in 1..n
      PROVE  (items[i] # <<>> /\ items[i][1] = key) <=> c[i - 1] + 1 \in Begins(key, name)
  <2> DEFINE q == c[i - 1] + 1
  <2>1. ASSUME items[i] # <<>>, items[i][1] = key PROVE q \in Begins(key, name)
    <3>1. 1 \in 1..Len(items[i])
      BY <1>3, <2>1, EmptySeq
    <3>2. q \in 1..L
      <4>1. c[i - 1] \in Nat /\ c[i] \in Nat /\ c[i] <= L + 1 /\ 1 <= c[i] - c[i - 1] - 1
        <5>1. Len(items[i]) = c[i] - c[i - 1] - 1 /\ c[i - 1] \in Nat /\ c[i] \in Nat
              /\ c[i] <= L + 1
          BY <1>3
        <5>2. QED
          BY <3>1, <5>1
      <4>2. c[i - 1] + 1 \in 1..L
        BY <1>2, <4>1
      <4>3. QED
        BY <4>2
    <3>3. name[q] = key
      BY <1>1, <2>1, <3>1
    <3>4. q = 1 \/ name[q - 1] = Comma
      <4>1. CASE i = 1
        BY <1>1, <4>1
      <4>2. CASE i # 1
        <5>1. i - 1 \in 1..n /\ i - 1 < n /\ c[i - 1] \in Nat
          BY <1>3, <4>2
        <5>2. name[c[i - 1]] = Comma
          BY <1>1, <5>1
        <5>3. QED
          BY <5>1, <5>2
      <4>3. QED
        BY <4>1, <4>2
    <3> HIDE DEF q
    <3>5. QED
      BY <3>2, <3>3, <3>4 DEF Begins, L
  <2>2. ASSUME q \in Begins(key, name) PROVE items[i] # <<>> /\ items[i][1] = key
    <3>1. q \in 1..L /\ name[q] = key
      BY <2>2 DEF Begins, L
    <3>2. c[i] # q
      <4>1. SUFFICES ASSUME c[i] = q PROVE FALSE
        OBVIOUS
      <4>2. i = n \/ i < n
        BY <1>1
      <4>3. CASE i = n
        BY <1>1, <1>2, <3>1, <4>1, <4>3
      <4>4. CASE i < n
        BY <1>1, <3>1, <4>1, <4>4
      <4>5. QED
        BY <4>2, <4>3, <4>4
    <3>3. 1 \in 1..Len(items[i])
      BY <1>3, <3>2
    <3>4. items[i][1] = name[q]
      BY <1>1, <3>3
    <3>5. items[i] # <<>>
      BY <3>3
    <3>6. QED
      BY <3>1, <3>4, <3>5
  <2>3. QED
    BY <2>1, <2>2
<1>5. ASSUME NEW q \in Begins(key, name)
      PROVE  \E i \in 1..n : q = c[i - 1] + 1
  <2>1. q \in 1..L /\ q \in Nat /\ (q = 1 \/ name[q - 1] = Comma) /\ q \in 1..(L + 1)
    BY <1>2 DEF Begins, L
  <2>2. PICK i \in 1..n : c[i - 1] < q /\ q <= c[i]
    BY <1>2, <2>1, SplitCovers DEF n, L
  <2>3. ASSUME c[i - 1] # q - 1 PROVE FALSE
    <3>1. q - 1 \in (c[i - 1] + 1)..(c[i] - 1) /\ q # 1
      BY <1>3, <2>1, <2>2, <2>3
    <3>2. QED
      BY <1>1, <2>1, <3>1
  <2>4. q = c[i - 1] + 1
    BY <1>3, <2>1, <2>3
  <2>5. QED
    BY <2>4
<1>6. QED
  BY <1>4, <1>5 DEF n

\* The loop stops at the first item that starts with the key, or at the end.
LEMMA SearchStops ==
  ASSUME NEW name \in Seq(Token), NEW items, NEW c, Splits(name, Len(name), items, c),
         NEW key, key # Comma
  PROVE  LET K == Keyed(key, items)
         IN /\ K \in 1..(Len(items) + 1)
            /\ K <= Len(items) => /\ Search(key, name) = c[K - 1] + 1
                                  /\ items[K] # <<>> /\ items[K][1] = key
            /\ K > Len(items) => Search(key, name) = Len(name) + 1
            /\ \A i \in 1..Len(items) : i < K => ~(items[i] # <<>> /\ items[i][1] = key)
<1> DEFINE n == Len(items)
           D == {i \in 1..n : items[i] # <<>> /\ items[i][1] = key}
           B == Begins(key, name)
           K == FirstIn(D, items)
<1>1. n \in Nat /\ c \in [0..n -> Nat] /\ \A i, j \in 0..n : i < j => c[i] < c[j]
  BY DEF Splits
<1>2. Keyed(key, items) = K
  <2>1. DOMAIN items = 1..n
    BY DEF Splits
  <2>2. QED
    BY <2>1 DEF Keyed
<1>3. /\ \A i \in 1..n : i \in D <=> c[i - 1] + 1 \in B
      /\ \A q \in B : \E i \in 1..n : q = c[i - 1] + 1
  BY KeyStartsItem
<1>4. Search(key, name) = FirstIn(B, name)
  BY SearchFinds
<1>5. D \in SUBSET Nat /\ B \in SUBSET Nat
  BY <1>1 DEF Begins
<1>6. CASE D = {}
  <2>1. B = {}
    BY <1>3, <1>6
  <2>2. K = n + 1 /\ FirstIn(B, name) = Len(name) + 1
    BY <1>5, <1>6, <2>1, FirstInIs
  <2>3. \A i \in 1..n : ~(items[i] # <<>> /\ items[i][1] = key)
    BY <1>6
  <2> HIDE DEF K, B, D
  <2>4. QED
    BY <1>1, <1>2, <1>4, <2>2, <2>3 DEF n
<1>7. CASE D # {}
  <2>1. K \in D /\ \A i \in D : K <= i
    BY <1>5, <1>7, FirstInIs
  <2> HIDE DEF K
  <2>2. K \in 1..n /\ items[K] # <<>> /\ items[K][1] = key
    BY <2>1
  <2>3. c[K - 1] + 1 \in B
    BY <1>3, <2>1
  <2>4. ASSUME NEW q \in B PROVE c[K - 1] + 1 <= q
    <3>1. PICK i \in 1..n : q = c[i - 1] + 1
      BY <1>3
    <3>2. i \in D
      BY <1>3, <3>1
    <3>3. K <= i /\ K - 1 \in 0..n /\ i - 1 \in 0..n
      BY <1>1, <2>1, <2>2, <3>2
    <3>4. c[K - 1] <= c[i - 1] /\ c[K - 1] \in Nat /\ c[i - 1] \in Nat
      <4>1. c[K - 1] \in Nat /\ c[i - 1] \in Nat
        BY <1>1, <3>3
      <4>2. K = i \/ K - 1 < i - 1
        BY <1>1, <2>2, <3>3
      <4>3. QED
        BY <1>1, <3>3, <4>1, <4>2
    <3>5. QED
      BY <3>1, <3>4
  <2>5. FirstIn(B, name) = c[K - 1] + 1
    BY <1>5, <2>3, <2>4, FirstInIs
  <2>6. \A i \in 1..n : i < K => i \notin D
    BY <1>1, <2>1, <2>2
  <2>7. \A i \in 1..n : i < K => ~(items[i] # <<>> /\ items[i][1] = key)
    BY <2>6
  <2> HIDE DEF B, D
  <2>8. QED
    BY <1>1, <1>2, <1>4, <2>2, <2>5, <2>7 DEF n
<1>8. QED
  BY <1>6, <1>7

\* What a search gives is the value of that item, and what it leaves are the items up to it.
LEMMA StringFound ==
  ASSUME NEW name \in Seq(Token), NEW items, NEW c, Splits(name, Len(name), items, c),
         NEW key, key # Comma
  PROVE  LET r == getStringValue(key, name)
             K == Keyed(key, items)
         IN /\ r.value = ValueOf(key, items)
            /\ r.name = name \/ (K \in 1..Len(items) /\ r.name = SubSeq(name, 1, c[K] - 1))
<1> DEFINE n == Len(items)
           L == Len(name)
           K == Keyed(key, items)
           cp == Search(key, name)
           end == Strchr(name, cp + 1)
           r == getStringValue(key, name)
<1>1. /\ n \in Nat /\ items \in Seq(Seq(Token))
      /\ c \in [0..n -> Nat] /\ c[0] = 0 /\ c[n] = L + 1
      /\ \A i, j \in 0..n : i < j => c[i] < c[j]
      /\ \A j \in 1..n :
           /\ Len(items[j]) = c[j] - c[j - 1] - 1
           /\ \A k \in 1..Len(items[j]) : items[j][k] = name[c[j - 1] + k]
  BY DEF Splits
<1>2. L \in Nat /\ \A k \in 1..L : name[k] \in Token
  OBVIOUS
<1>3. /\ K \in 1..(n + 1)
      /\ K <= n => cp = c[K - 1] + 1 /\ items[K] # <<>> /\ items[K][1] = key
      /\ K > n => cp = L + 1
  BY SearchStops
<1>4. r = IF cp > L \/ end = cp + 1 THEN [value |-> NoValue, name |-> name]
          ELSE [value |-> SubSeq(name, cp + 1, end - 1), name |-> SubSeq(name, 1, end - 1)]
  BY DEF getStringValue
<1>5. ValueOf(key, items) = IF K > n THEN NoValue ELSE Tail(items[K])
  BY DEF ValueOf
<1> HIDE DEF r, K
<1>6. CASE K > n
  <2>1. cp > L
    BY <1>2, <1>3, <1>6
  <2> HIDE DEF cp
  <2>2. r.value = NoValue /\ r.name = name
    BY <1>4, <2>1
  <2>3. QED
    BY <1>5, <1>6, <2>2 DEF r
<1>7. CASE ~(K > n)
  <2>1. K \in 1..n /\ cp = c[K - 1] + 1 /\ items[K] # <<>> /\ items[K] \in Seq(Token)
    <3>1. K \in 1..n
      BY <1>1, <1>3, <1>7
    <3>2. items[K] \in Seq(Token)
      BY <1>1, <3>1, ElementOfSeq
    <3>3. QED
      BY <1>1, <1>3, <3>1, <3>2
  <2> HIDE DEF cp
  <2>2. /\ K - 1 \in 0..n /\ K \in 0..n /\ n \in 0..n /\ K - 1 < K /\ (K = n \/ K < n)
        /\ c[K - 1] \in Nat /\ c[K] \in Nat
    <3>1. K - 1 \in 0..n /\ K \in 0..n /\ n \in 0..n /\ K - 1 < K /\ (K = n \/ K < n)
      BY <1>1, <2>1
    <3>2. QED
      BY <1>1, <3>1
  <2>3. c[K] <= L + 1
    BY <1>1, <1>2, <2>2
  <2>4. Len(items[K]) \in Nat /\ Len(items[K]) = c[K] - cp /\ Len(items[K]) # 0
    <3>1. Len(items[K]) = c[K] - c[K - 1] - 1 /\ Len(items[K]) \in Nat /\ Len(items[K]) # 0
      BY <1>1, <2>1, EmptySeq
    <3>2. QED
      BY <2>1, <2>2, <3>1
  <2>5. cp \in 1..L /\ cp + 1 \in Nat /\ c[K - 1] < cp + 1 /\ cp + 1 <= c[K] /\ cp \in Nat
    BY <1>2, <2>1, <2>2, <2>3, <2>4
  <2>6. end = c[K]
    BY <2>1, <2>5, StrchrFinds DEF n
  <2> HIDE DEF end
  <2>7. CASE end = cp + 1
    <3>1. r.value = NoValue /\ r.name = name
      BY <1>4, <2>7
    <3>2. Len(items[K]) = 1
      BY <2>2, <2>4, <2>5, <2>6, <2>7
    <3>3. Tail(items[K]) = <<>>
      <4>1. Tail(items[K]) \in Seq(Token) /\ Len(Tail(items[K])) = 0
        BY <2>1, <3>2
      <4>2. QED
        BY <4>1, EmptySeq
    <3>4. QED
      BY <1>5, <1>7, <3>1, <3>3 DEF r, NoValue
  <2>8. CASE end # cp + 1
    <3>1. r.value = SubSeq(name, cp + 1, end - 1) /\ r.name = SubSeq(name, 1, end - 1)
      <4>1. ~(cp > L)
        BY <1>2, <2>5
      <4>2. QED
        BY <1>4, <2>8, <4>1
    <3> DEFINE a == cp + 1
               b == end - 1
               v == SubSeq(name, a, b)
               t == Tail(items[K])
    <3>2. a \in Nat /\ b \in Nat /\ a <= b /\ 1 <= a /\ b <= L
          /\ a = cp + 1 /\ b = cp + Len(items[K]) - 1
      <4>1. a = cp + 1 /\ b = c[K] - 1 /\ cp + 1 < c[K]
        BY <2>2, <2>5, <2>6, <2>8
      <4>2. Len(items[K]) = c[K] - cp /\ c[K] \in Nat /\ cp \in Nat /\ 1 <= cp /\ c[K] <= L + 1
        BY <1>2, <2>2, <2>3, <2>4, <2>5
      <4> HIDE DEF a, b
      <4>3. QED
        BY <1>2, <4>1, <4>2
    <3> HIDE DEF a, b
    <3>3. /\ v \in Seq(Token) /\ Len(v) = b - a + 1
          /\ \A k \in 1..(b - a + 1) : v[k] = name[a + k - 1]
      <4>1. \A k \in a..b : name[k] \in Token
        BY <1>2, <3>2
      <4>2. QED
        BY <3>2, <4>1, SubSeqProperties
    <3>4. /\ t \in Seq(Token) /\ Len(t) = Len(items[K]) - 1
          /\ \A k \in 1..Len(t) : t[k] = items[K][k + 1]
      BY <2>1
    <3> HIDE DEF v, t
    <3>5. Len(v) = Len(t)
      BY <2>4, <2>5, <3>2, <3>3, <3>4
    <3>6. ASSUME NEW k \in 1..Len(v) PROVE v[k] = t[k]
      <4>1. k + 1 \in 1..Len(items[K]) /\ k \in 1..Len(t) /\ k \in 1..(b - a + 1)
        BY <2>4, <3>3, <3>4, <3>5
      <4>2. t[k] = name[c[K - 1] + (k + 1)]
        BY <1>1, <2>1, <3>4, <4>1
      <4>3. v[k] = name[a + k - 1]
        BY <3>3, <4>1
      <4>4. a + k - 1 = c[K - 1] + (k + 1)
        <5>1. k \in Nat /\ c[K - 1] \in Nat /\ a = (c[K - 1] + 1) + 1
          BY <2>1, <2>2, <3>2, <4>1
        <5>2. QED
          BY <5>1
      <4>5. QED
        BY <4>2, <4>3, <4>4
    <3>7. v = t
      BY <3>3, <3>4, <3>5, <3>6, SeqEqual
    <3>8. QED
      BY <1>5, <1>7, <2>1, <2>6, <3>1, <3>7 DEF r, K, v, t, a, b
  <2>9. QED
    BY <2>7, <2>8
<1>8. QED
  BY <1>6, <1>7

ItemsFrom(name, f, index) ==
  f = [i \in 0..index |->
         IF i = 0 THEN 1
         ELSE IF f[i - 1] = 0 \/ Strchr(name, f[i - 1]) > Len(name) THEN 0
         ELSE Strchr(name, f[i - 1]) + 1]

\* The item of a number starts behind the boundary of that number.
LEMMA ItemAtIs ==
  ASSUME NEW name \in Seq(Token), NEW items, NEW c, Splits(name, Len(name), items, c),
         NEW index \in Nat
  PROVE  ItemAt(name, index) = IF index < Len(items) THEN c[index] + 1 ELSE 0
<1> DEFINE n == Len(items)
           L == Len(name)
           w(i) == IF i < n THEN c[i] + 1 ELSE 0
           next(x) == IF x = 0 \/ Strchr(name, x) > L THEN 0 ELSE Strchr(name, x) + 1
           first == [i \in 0..index |-> w(i)]
           v == CHOOSE f : ItemsFrom(name, f, index)
           S == {i \in Nat : i <= index => v[i] = w(i)}
<1>1. /\ n \in Nat /\ n # 0 /\ c \in [0..n -> Nat] /\ c[0] = 0 /\ c[n] = L + 1
      /\ \A i, j \in 0..n : i < j => c[i] < c[j]
  BY DEF Splits
<1>2. L \in Nat
  OBVIOUS
<1>3. w(0) = 1
  BY <1>1
<1>4. ASSUME NEW i \in Nat PROVE w(i + 1) = next(w(i))
  <2>1. CASE i < n
    <3>1. i \in 0..n /\ i + 1 \in 0..n /\ i + 1 \in 1..n /\ (i + 1) - 1 = i /\ n \in 0..n
      BY <1>1, <2>1
    <3>2. c[i] \in Nat /\ c[i + 1] \in Nat /\ c[i] < c[i + 1]
      BY <1>1, <3>1
    <3> DEFINE p == c[i] + 1
    <3>3. p \in Nat /\ p # 0 /\ c[i] < p /\ p <= c[i + 1]
      BY <3>2
    <3>4. w(i) = p
      BY <2>1
    <3> HIDE DEF p, w
    <3>5. Strchr(name, p) = c[i + 1]
      BY <3>1, <3>3, StrchrFinds DEF n
    <3>6. next(p) = IF c[i + 1] > L THEN 0 ELSE c[i + 1] + 1
      BY <3>3, <3>5
    <3>7. w(i + 1) = IF c[i + 1] > L THEN 0 ELSE c[i + 1] + 1
      <4>1. CASE i + 1 = n
        BY <1>1, <1>2, <4>1 DEF w
      <4>2. CASE i + 1 < n
        <5>1. ~(c[i + 1] > L)
          BY <1>1, <1>2, <3>1, <3>2, <4>2
        <5>2. QED
          BY <4>2, <5>1 DEF w
      <4>3. QED
        BY <1>1, <3>1, <4>1, <4>2
    <3> HIDE DEF next
    <3>8. QED
      BY <3>4, <3>6, <3>7
  <2>2. CASE ~(i < n)
    <3>1. w(i) = 0 /\ w(i + 1) = 0
      BY <1>1, <2>2
    <3> HIDE DEF w
    <3>2. QED
      BY <3>1
  <2>3. QED
    BY <2>1, <2>2
<1> HIDE DEF w
<1>5. ItemsFrom(name, first, index)
  <2> DEFINE g == [i \in 0..index |-> IF i = 0 THEN 1 ELSE next(first[i - 1])]
  <2>1. ASSUME NEW i \in 0..index PROVE first[i] = g[i]
    <3>1. CASE i = 0
      BY <1>3, <3>1
    <3>2. CASE i # 0
      <4>1. i - 1 \in 0..index /\ i - 1 \in Nat /\ (i - 1) + 1 = i
        BY <3>2
      <4>2. first[i - 1] = w(i - 1) /\ first[i] = w(i)
        BY <4>1
      <4>3. w(i) = next(w(i - 1))
        BY <1>4, <4>1
      <4> HIDE DEF first, next
      <4>4. QED
        BY <3>2, <4>2, <4>3
    <3>3. QED
      BY <3>1, <3>2
  <2>2. first = [i \in 0..index |-> first[i]] /\ g = [i \in 0..index |-> g[i]]
    OBVIOUS
  <2>3. first = g
    <3> HIDE DEF first, g
    <3>1. QED
      BY <2>1, <2>2
  <2> HIDE DEF first
  <2>4. QED
    BY <2>3 DEF ItemsFrom
<1>6. ItemsFrom(name, v, index)
  BY <1>5
<1>7. ItemAt(name, index) = v[index]
  BY DEF ItemAt, ItemsFrom
<1> HIDE DEF v
<1>8. ASSUME NEW i \in 0..index
      PROVE  v[i] = IF i = 0 THEN 1 ELSE next(v[i - 1])
  <2> DEFINE e(j) == IF j = 0 THEN 1 ELSE next(v[j - 1])
  <2>1. v = [j \in 0..index |-> e(j)]
    BY <1>6 DEF ItemsFrom
  <2> HIDE DEF e
  <2>2. v[i] = e(i)
    BY <2>1
  <2>3. QED
    BY <2>2 DEF e
<1> HIDE DEF next
<1>9. 0 \in S
  BY <1>3, <1>8
<1>10. ASSUME NEW i \in Nat, i \in S PROVE i + 1 \in S
  <2>1. SUFFICES ASSUME i + 1 <= index PROVE v[i + 1] = w(i + 1)
    OBVIOUS
  <2>2. i + 1 \in 0..index /\ i + 1 # 0 /\ (i + 1) - 1 = i /\ i <= index
    BY <2>1
  <2>3. v[i] = w(i) /\ v[i + 1] = next(v[i])
    BY <1>8, <1>10, <2>2
  <2>4. QED
    BY <1>4, <2>3
<1>11. Nat \subseteq S
  <2> HIDE DEF S
  <2>1. QED
    BY <1>9, <1>10, NumbersInductive
<1>12. v[index] = w(index)
  BY <1>11
<1>13. QED
  BY <1>7, <1>12 DEF w

\* An item is found exactly if the name has as many, and it is that item.
LEMMA ItemFound ==
  ASSUME NEW name \in Seq(Token), NEW items, NEW c, Splits(name, Len(name), items, c),
         NEW index \in Nat
  PROVE  LET r == getDnItem(name, index)
         IN /\ r.found \in BOOLEAN
            /\ r.found <=> index < Len(items)
            /\ r.found => r.item = items[index + 1]
<1> DEFINE n == Len(items)
           L == Len(name)
           p == ItemAt(name, index)
           r == getDnItem(name, index)
<1>1. /\ n \in Nat /\ items \in Seq(Seq(Token))
      /\ c \in [0..n -> Nat] /\ c[0] = 0 /\ c[n] = L + 1
      /\ \A i, j \in 0..n : i < j => c[i] < c[j]
      /\ \A j \in 1..n :
           /\ Len(items[j]) = c[j] - c[j - 1] - 1
           /\ \A k \in 1..Len(items[j]) : items[j][k] = name[c[j - 1] + k]
  BY DEF Splits
<1>2. L \in Nat /\ \A k \in 1..L : name[k] \in Token
  OBVIOUS
<1>3. p = IF index < n THEN c[index] + 1 ELSE 0
  BY ItemAtIs
<1>4. r = IF p = 0 THEN [found |-> FALSE, item |-> NoValue]
          ELSE [found |-> TRUE, item |-> SubSeq(name, p, Strchr(name, p) - 1)]
  BY DEF getDnItem
<1> HIDE DEF p, r
<1>5. CASE ~(index < n)
  BY <1>3, <1>4, <1>5 DEF r
<1>6. CASE index < n
  <2> DEFINE j == index + 1
  <2>1. j \in 1..n /\ j - 1 = index /\ index \in 0..n /\ j \in 0..n /\ n \in 0..n /\ index < j
    BY <1>1, <1>6
  <2> HIDE DEF j
  <2>2. c[index] \in Nat /\ c[j] \in Nat /\ c[index] < c[j] /\ (j < n => c[j] < c[n])
    BY <1>1, <2>1
  <2>3. p = c[index] + 1 /\ p # 0 /\ p \in Nat /\ p <= c[j] /\ c[j] <= L + 1 /\ c[index] < p
    BY <1>1, <1>2, <1>3, <1>6, <2>1, <2>2
  <2>4. Strchr(name, p) = c[j]
    BY <2>1, <2>3, StrchrFinds DEF n
  <2> DEFINE b == c[j] - 1
             t == SubSeq(name, p, b)
  <2>5. b \in Nat /\ p <= b + 1 /\ b <= L /\ 1 <= p
    BY <1>2, <2>2, <2>3
  <2>6. r = [found |-> TRUE, item |-> t]
    BY <1>4, <2>3, <2>4
  <2> HIDE DEF b
  <2>7. /\ t \in Seq(Token) /\ Len(t) = IF p <= b THEN b - p + 1 ELSE 0
        /\ \A k \in 1..(b - p + 1) : t[k] = name[p + k - 1]
    <3>1. \A k \in p..b : name[k] \in Token
      BY <1>2, <2>3, <2>5
    <3>2. QED
      BY <2>3, <2>5, <3>1, SubSeqProperties
  <2> HIDE DEF t
  <2>8. items[j] \in Seq(Token) /\ Len(items[j]) = c[j] - c[index] - 1
        /\ \A k \in 1..Len(items[j]) : items[j][k] = name[c[index] + k]
    <3>1. items[j] \in Seq(Token)
      BY <1>1, <2>1, ElementOfSeq
    <3>2. QED
      BY <1>1, <2>1, <3>1
  <2>9. Len(t) = Len(items[j]) /\ Len(t) = b - p + 1
    <3>1. b - p + 1 = c[j] - c[index] - 1
      BY <2>2, <2>3 DEF b
    <3>2. Len(t) = b - p + 1
      BY <2>3, <2>5, <2>7
    <3>3. QED
      BY <2>8, <3>1, <3>2
  <2>10. ASSUME NEW k \in 1..Len(t) PROVE t[k] = items[j][k]
    <3>1. k \in Nat /\ k \in 1..(b - p + 1) /\ k \in 1..Len(items[j])
      BY <2>5, <2>3, <2>9
    <3>2. p + k - 1 = c[index] + k
      BY <2>2, <2>3, <3>1
    <3>3. QED
      BY <2>7, <2>8, <3>1, <3>2
  <2>11. t = items[j]
    BY <2>7, <2>8, <2>9, <2>10, SeqEqual
  <2>12. QED
    BY <1>6, <2>6, <2>11 DEF r, j, n
<1>7. QED
  BY <1>5, <1>6

----------------------------------------------------------------------------
(****************************************************************************)
(* Values.                                                                  *)
(****************************************************************************)
\* The library's theorem on the subsets of a finite set gives what the provers
\* do not know of powers.
LEMMA Powers ==
  ASSUME NEW n \in Nat
  PROVE  /\ 2^n \in Nat /\ 2^n > 0
         /\ 2^(n + 1) = 2 * 2^n
         /\ \A m \in Nat : n <= m => 2^n <= 2^m
<1>1. ASSUME NEW m \in Nat
      PROVE  /\ IsFiniteSet(1..m) /\ Cardinality(1..m) = m
             /\ IsFiniteSet(SUBSET (1..m)) /\ Cardinality(SUBSET (1..m)) = 2^m
             /\ 2^m \in Nat
  <2>1. IsFiniteSet(1..m) /\ Cardinality(1..m) = m
    BY FS_Interval
  <2>2. IsFiniteSet(SUBSET (1..m)) /\ Cardinality(SUBSET (1..m)) = 2^m
    BY <2>1, FS_SUBSET
  <2>3. QED
    BY <2>1, <2>2, FS_CardinalityType
<1>2. 2^n > 0
  <2>1. {} \in SUBSET (1..n)
    OBVIOUS
  <2>2. Cardinality(SUBSET (1..n)) # 0
    BY <1>1, <2>1, FS_EmptySet
  <2>3. Cardinality(SUBSET (1..n)) = 2^n /\ 2^n \in Nat
    BY <1>1
  <2> DEFINE e == 2^n
  <2>4. e \in Nat /\ e # 0
    BY <2>2, <2>3
  <2> HIDE DEF e
  <2>5. e > 0
    BY <2>4
  <2>6. QED
    BY <2>5 DEF e
<1>3. ASSUME NEW m \in Nat, n <= m PROVE 2^n <= 2^m
  <2>1. SUBSET (1..n) \in SUBSET SUBSET (1..m)
    BY <1>3
  <2>2. IsFiniteSet(SUBSET (1..m)) /\ Cardinality(SUBSET (1..m)) = 2^m
    BY <1>1
  <2>3. Cardinality(SUBSET (1..n)) = 2^n
    BY <1>1
  <2>4. Cardinality(SUBSET (1..n)) <= Cardinality(SUBSET (1..m))
    BY <2>1, <2>2, FS_Subset
  <2>5. QED
    BY <2>2, <2>3, <2>4
<1>4. 2^(n + 1) = 2 * 2^n
  <2> DEFINE A == SUBSET (1..n)
             B == {X \cup {n + 1} : X \in A}
             f == [X \in A |-> X \cup {n + 1}]
  <2>1. SUBSET (1..(n + 1)) = A \cup B
    <3>1. A \subseteq SUBSET (1..(n + 1)) /\ B \subseteq SUBSET (1..(n + 1))
      <4>1. 1..n \subseteq 1..(n + 1) /\ n + 1 \in 1..(n + 1)
        OBVIOUS
      <4>2. QED
        BY <4>1
    <3>2. ASSUME NEW X \in SUBSET (1..(n + 1)), n + 1 \in X PROVE X \in B
      <4>1. X \ {n + 1} \in A
        OBVIOUS
      <4>2. X = (X \ {n + 1}) \cup {n + 1}
        BY <3>2
      <4>3. QED
        BY <4>1, <4>2
    <3>3. ASSUME NEW X \in SUBSET (1..(n + 1)), n + 1 \notin X PROVE X \in A
      BY <3>3
    <3>4. QED
      BY <3>1, <3>2, <3>3
  <2>2. A \cap B = {}
    OBVIOUS
  <2>3. f \in Bijection(A, B)
    <3>1. f \in [A -> B]
      OBVIOUS
    <3>2. ASSUME NEW X \in A, NEW Y \in A, f[X] = f[Y] PROVE X = Y
      <4>1. n + 1 \notin X /\ n + 1 \notin Y
        OBVIOUS
      <4>2. X \cup {n + 1} = Y \cup {n + 1}
        BY <3>2
      <4>3. QED
        BY <4>1, <4>2
    <3>3. f \in Injection(A, B)
      BY <3>1, <3>2, Fun_IsInj
    <3>4. f \in Surjection(A, B)
      BY <3>1, Fun_IsSurj
    <3>5. QED
      BY <3>3, <3>4 DEF Bijection
  <2>4. IsFiniteSet(A) /\ Cardinality(A) = 2^n
    BY <1>1
  <2>5. IsFiniteSet(B) /\ Cardinality(B) = 2^n
    BY <2>3, <2>4, FS_Bijection DEF ExistsBijection
  <2> HIDE DEF A, B
  <2>6. Cardinality(A \cup B) = 2^n + 2^n
    <3>1. Cardinality(A \cap B) = 0
      BY <2>2, FS_EmptySet
    <3>2. Cardinality(A \cup B) = Cardinality(A) + Cardinality(B) - Cardinality(A \cap B)
      BY <2>4, <2>5, FS_Union
    <3>3. QED
      BY <1>1, <2>4, <2>5, <3>1, <3>2
  <2>7. Cardinality(SUBSET (1..(n + 1))) = 2^(n + 1)
    BY <1>1
  <2>8. QED
    BY <1>1, <2>1, <2>6, <2>7
<1>5. QED
  BY <1>1, <1>2, <1>3, <1>4

(****************************************************************************)
(* Copies.                                                                  *)
(****************************************************************************)
\* What an attribute is made of.
LEMMA AttributeIs ==
  ASSUME NEW a \in Attributes
  PROVE  \E type \in ValueType, n \in 0..MaxValues, len \in Length, id \in AttrName :
           a = [name |-> Value("SASTRINGT", id, "short"), type |-> type,
                values |-> [i \in 1..n |-> Value(type, i, len)]]
<1>1. PICK type \in ValueType :
        a \in [name : {Value("SASTRINGT", id, "short") : id \in AttrName},
               type : {type}, values : Values(type)]
  BY DEF Attributes
<1>2. PICK id \in AttrName : a.name = Value("SASTRINGT", id, "short")
  BY <1>1
<1>3. PICK n \in 0..MaxValues, len \in Length : a.values = [i \in 1..n |-> Value(type, i, len)]
  BY <1>1 DEF Values
<1>4. a = [name |-> a.name, type |-> type, values |-> a.values]
  BY <1>1
<1>5. QED
  BY <1>2, <1>3, <1>4

\* One value, as copySaImmAttrValuesT copies it.
Copied(type, v) ==
  CASE type = "SASTRINGT" -> dupStr(v)
    [] type = "SANAMET" -> copyName(v)
    [] type = "SAANYT" -> copyAny(v)
    [] OTHER -> v

\* A value that is copied is the same, and not in the memory of the caller.
LEMMA ValueCopied ==
  ASSUME NEW type \in ValueType, NEW id \in Nat, NEW len \in Length
  PROVE  /\ SameValue(Copied(type, Value(type, id, len)), Value(type, id, len))
         /\ Copied(type, Value(type, id, len)).id = id
BY DEF ValueType, NumberType, Length, Copied, SameValue, Value, Holds, dupStr, copyName, copyAny

\* So is an attribute, with its name and its values in their order.
LEMMA AttributeCopied ==
  ASSUME NEW a \in Attributes
  PROVE  LET c == copySaImmAttrValuesT(a)
         IN /\ SameAttribute(c, a)
            /\ c.type \in ValueType /\ Len(c.values) \in 0..MaxValues
            /\ DOMAIN c.values = 1..Len(c.values)
            /\ \A i \in 1..Len(c.values) : c.values[i].id = i
<1> DEFINE c == copySaImmAttrValuesT(a)
<1>1. MaxValues \in Nat
  BY ImmValuesAssumption
<1>2. PICK type \in ValueType, n \in 0..MaxValues, len \in Length, id \in AttrName :
           a = [name |-> Value("SASTRINGT", id, "short"), type |-> type,
                values |-> [i \in 1..n |-> Value(type, i, len)]]
  BY AttributeIs
<1>3. /\ a.name = Value("SASTRINGT", id, "short") /\ a.type = type
      /\ a.values = [i \in 1..n |-> Value(type, i, len)]
      /\ DOMAIN a.values = 1..n /\ Len(a.values) = n
      /\ \A i \in 1..n : a.values[i] = Value(type, i, len)
  BY <1>1, <1>2
<1>4. c = [name |-> dupStr(a.name), type |-> type,
           values |-> [i \in 1..n |-> Copied(type, a.values[i])]]
  BY <1>3 DEF copySaImmAttrValuesT, Copied
<1>5. /\ c.name = dupStr(a.name) /\ c.type = type
      /\ DOMAIN c.values = 1..n /\ Len(c.values) = n
      /\ \A i \in 1..n : c.values[i] = Copied(type, Value(type, i, len))
  <2> HIDE DEF c
  <2>1. QED
    BY <1>1, <1>3, <1>4
<1>6. SameValue(c.name, a.name)
  BY <1>3, <1>5 DEF SameValue, dupStr, Value
<1> HIDE DEF c
<1>7. ASSUME NEW i \in 1..n
      PROVE  SameValue(c.values[i], a.values[i]) /\ c.values[i].id = i
  BY <1>1, <1>3, <1>5, ValueCopied
<1>8. SameAttribute(c, a)
  BY <1>3, <1>5, <1>6, <1>7 DEF SameAttribute
<1>9. QED
  BY <1>5, <1>7, <1>8 DEF c

\* The lookups of a copy agree.
LEMMA CopyCounted ==
  ASSUME NEW attrs \in Arrays
  PROVE  /\ Len(dupSaImmAttrValuesT_array(attrs)) = Len(attrs)
         /\ Counted(dupSaImmAttrValuesT_array(attrs))
<1> DEFINE d == dupSaImmAttrValuesT_array(attrs)
<1>1. PICK n \in 0..MaxAttributes : attrs \in [1..n -> Attributes]
  BY DEF Arrays
<1>2. n \in Nat /\ MaxValues \in Nat
  BY ImmValuesAssumption
<1>3. /\ DOMAIN d = 1..n /\ Len(d) = n /\ Len(attrs) = n
      /\ \A k \in 1..n : /\ d[k].type \in ValueType /\ Len(d[k].values) \in 0..MaxValues
                         /\ \A i \in 1..Len(d[k].values) : d[k].values[i].id = i
  <2>1. d = [k \in 1..n |-> copySaImmAttrValuesT(attrs[k])]
    BY <1>1 DEF dupSaImmAttrValuesT_array
  <2> HIDE DEF d
  <2>2. DOMAIN d = 1..n /\ Len(d) = n /\ Len(attrs) = n
    BY <1>1, <1>2, <2>1
  <2>3. ASSUME NEW k \in 1..n
        PROVE  /\ d[k].type \in ValueType /\ Len(d[k].values) \in 0..MaxValues
               /\ \A i \in 1..Len(d[k].values) : d[k].values[i].id = i
    <3>1. d[k] = copySaImmAttrValuesT(attrs[k]) /\ attrs[k] \in Attributes
      BY <1>1, <2>1
    <3>2. QED
      BY <3>1, AttributeCopied
  <2>4. QED
    BY <2>2, <2>3
<1> HIDE DEF d
<1>4. d = <<>> <=> n = 0
  <2>1. d = <<>> => n = 0
    BY <1>3
  <2>2. n = 0 => d = <<>>
    <3>1. SUFFICES ASSUME n = 0 PROVE d = <<>>
      OBVIOUS
    <3>2. d = [k \in 1..n |-> copySaImmAttrValuesT(attrs[k])]
      BY <1>1 DEF d, dupSaImmAttrValuesT_array
    <3>3. QED
      BY <3>1, <3>2
  <2>3. QED
    BY <2>1, <2>2
<1>5. ASSUME NEW name \in AttrName, NEW index \in 0..MaxValues
      PROVE  LET count == getAttrValuesNumber(name, d)
                 any == getAttr(name, d, index)
                 typed == {getTypedAttr(d, name, index, t) : t \in TypedLookup} \ {NULL}
             IN /\ any.rc \in {"OK", "abort"} <=> index < count.number
                /\ any.rc = "OK" => any.param.id = index + 1 /\ typed \subseteq {any.param}
                /\ typed # {} => index < count.number /\ \A v \in typed : v.id = index + 1
                /\ count.rc # "OK" => any.rc = count.rc
  <2> DEFINE count == getAttrValuesNumber(name, d)
             any == getAttr(name, d, index)
             got(t) == getTypedAttr(d, name, index, t)
             a == FirstMatch(d, name)
  <2>1. CASE Matches(d, name) = {}
    <3>1. count.number = 0 /\ count.rc # "OK" /\ any.rc = count.rc
          /\ any.rc \notin {"OK", "abort"}
      BY <2>1 DEF getAttrValuesNumber, getAttr
    <3>2. \A t \in TypedLookup : got(t) = NULL
      BY <2>1 DEF getTypedAttr
    <3> HIDE DEF count, any, got
    <3>3. QED
      BY <1>2, <3>1, <3>2 DEF count, any, got
  <2>2. CASE Matches(d, name) # {}
    <3>1. Matches(d, name) \in SUBSET Nat /\ Matches(d, name) \subseteq 1..n
      BY <1>2, <1>3 DEF Matches
    <3>2. \E k \in Matches(d, name) : \A l \in Matches(d, name) : k <= l
      BY <2>2, <3>1, LeastNumber
    <3>3. \E k \in 1..n : a = d[k]
      BY <3>1, <3>2 DEF FirstMatch
    <3> HIDE DEF a
    <3>4. /\ a.type \in ValueType /\ Len(a.values) \in 0..MaxValues
          /\ \A i \in 1..Len(a.values) : a.values[i].id = i
      BY <1>3, <3>3
    <3>5. d # <<>>
      BY <1>2, <1>4, <2>2, <3>1
    <3>6. count = [rc |-> "OK", number |-> Len(a.values)]
      BY <2>2, <3>5 DEF getAttrValuesNumber, a
    <3>7. any = IF index >= Len(a.values) THEN [rc |-> "INVALID_PARAM", param |-> NULL]
                ELSE IF a.type \in {"SASTRINGT", "SAANYT"} THEN [rc |-> "abort", param |-> NULL]
                ELSE [rc |-> "OK", param |-> a.values[index + 1]]
      BY <2>2, <3>5 DEF getAttr, a
    <3>8. \A t \in TypedLookup :
            got(t) = IF index >= Len(a.values) \/ a.type # t THEN NULL ELSE a.values[index + 1]
      BY <2>2 DEF getTypedAttr, a
    <3> HIDE DEF count, any, got
    <3> DEFINE typed == {got(t) : t \in TypedLookup} \ {NULL}
    <3>9. CASE index >= Len(a.values)
      <4>1. typed = {}
        BY <3>8, <3>9
      <4>2. count.number = Len(a.values) /\ count.rc = "OK" /\ any.rc = "INVALID_PARAM"
        BY <3>6, <3>7, <3>9
      <4> HIDE DEF typed
      <4>3. QED
        BY <1>2, <3>4, <3>9, <4>1, <4>2 DEF typed, count, any, got
    <3>10. CASE ~(index >= Len(a.values))
      <4>1. index + 1 \in 1..Len(a.values) /\ index < Len(a.values)
        BY <1>2, <3>4, <3>10
      <4>2. a.values[index + 1].id = index + 1
        BY <3>4, <4>1
      <4>3. typed \subseteq {a.values[index + 1]}
        BY <3>8
      <4>4. count.number = Len(a.values) /\ count.rc = "OK" /\ any.rc \in {"OK", "abort"}
            /\ (any.rc = "OK" => any.param = a.values[index + 1])
        BY <3>6, <3>7, <3>10
      <4> HIDE DEF typed
      <4>5. QED
        BY <4>1, <4>2, <4>3, <4>4 DEF typed, count, any, got
    <3>11. QED
      BY <3>9, <3>10
  <2>3. QED
    BY <2>1, <2>2
<1>6. Counted(d)
  BY <1>5 DEF Counted
<1>7. QED
  BY <1>3, <1>6 DEF d

(****************************************************************************)
(* Numbers.                                                                 *)
(****************************************************************************)
\* What is used of the remainder.
LEMMA Remainders ==
  ASSUME NEW n \in Int, NEW m \in Nat, m > 0
  PROVE  /\ n % m \in 0..(m - 1)
         /\ n \in 0..(m - 1) => n % m = n
         /\ n < 0 /\ -m <= n => n % m = n + m
OBVIOUS

\* What fits into a signed type is what its bits are read as.
LEMMA FitsSigned ==
  ASSUME NEW n \in Int, NEW bits \in Nat \ {0}
  PROVE  n = Signed(n, bits) <=> n \in -(2^(bits - 1))..(2^(bits - 1) - 1)
<1> DEFINE h == 2^(bits - 1)
           m == 2^bits
<1>1. h \in Nat /\ h > 0 /\ m = 2 * h /\ m \in Nat /\ m > 0
  <2>1. bits - 1 \in Nat /\ (bits - 1) + 1 = bits /\ bits \in Nat
    OBVIOUS
  <2>2. 2^((bits - 1) + 1) = 2 * 2^(bits - 1) /\ 2^(bits - 1) \in Nat /\ 2^(bits - 1) > 0
    BY <2>1, Powers
  <2>3. 2^bits = 2 * 2^(bits - 1)
    BY <2>1, <2>2
  <2> HIDE DEF h
  <2>4. h \in Nat /\ h > 0 /\ m = 2 * h
    BY <2>2, <2>3 DEF h
  <2>5. 2 * h \in Nat /\ 2 * h > 0
    BY <2>4
  <2>6. QED
    BY <2>4, <2>5
<1>2. Signed(n, bits) = IF (n % m) >= h THEN (n % m) - m ELSE n % m
  BY DEF Signed
<1> HIDE DEF h, m
<1>3. /\ n % m \in 0..(m - 1)
      /\ n \in 0..(m - 1) => n % m = n
      /\ n < 0 /\ -m <= n => n % m = n + m
  BY <1>1, Remainders
<1>4. n = Signed(n, bits) <=> n \in -h..(h - 1)
  BY <1>1, <1>2, <1>3
<1>5. QED
  BY <1>4 DEF h

\* The same of an unsigned type.
LEMMA FitsUnsigned ==
  ASSUME NEW n \in Int, NEW bits \in Nat
  PROVE  /\ Unsigned(n, bits) \in 0..(2^bits - 1)
         /\ n = Unsigned(n, bits) <=> n \in 0..(2^bits - 1)
<1> DEFINE m == 2^bits
<1>1. m \in Nat /\ m > 0
  BY Powers
<1>2. Unsigned(n, bits) = n % m
  BY DEF Unsigned
<1> HIDE DEF m
<1>3. n % m \in 0..(m - 1) /\ (n \in 0..(m - 1) => n % m = n)
  BY <1>1, Remainders
<1>4. Unsigned(n, bits) \in 0..(m - 1) /\ (n = Unsigned(n, bits) <=> n \in 0..(m - 1))
  BY <1>2, <1>3
<1>5. QED
  BY <1>4 DEF m

\* What strtol and the check of the smaller type let through.
LEMMA NumberInRange ==
  ASSUME NEW type \in NumberType, NEW n \in Int
  PROVE  IF type \in {"SAUINT32T", "SAUINT64T"} /\ n < 0
         THEN newNumber(type, n) \subseteq InRange(type)
         ELSE newNumber(type, n) = {n} \cap InRange(type)
<1> DEFINE w == 2 * IntBits
<1>1. /\ IntBits \in Nat \ {0} /\ LongBits \in Nat \ {0} /\ w \in Nat \ {0}
      /\ IntBits <= LongBits /\ IntBits - 1 \in Nat /\ LongBits - 1 \in Nat
      /\ IntBits - 1 <= LongBits - 1
  BY ImmValuesAssumption
<1>2. strtol(n, LongBits) = {n} \cap -(2^(LongBits - 1))..(2^(LongBits - 1) - 1)
      /\ strtol(n, w) = {n} \cap -(2^(w - 1))..(2^(w - 1) - 1)
  BY <1>1, FitsSigned DEF strtol
<1>3. CASE type = "SAINT32T"
  <2>1. 2^(IntBits - 1) \in Nat /\ 2^(LongBits - 1) \in Nat
        /\ 2^(IntBits - 1) <= 2^(LongBits - 1)
    BY <1>1, Powers
  <2>2. newNumber(type, n) = {v \in strtol(n, LongBits) : v = Signed(v, IntBits)}
    BY <1>3 DEF newNumber
  <2>3. n = Signed(n, IntBits) <=> n \in -(2^(IntBits - 1))..(2^(IntBits - 1) - 1)
    BY <1>1, FitsSigned
  <2>4. InRange(type) = -(2^(IntBits - 1))..(2^(IntBits - 1) - 1)
    BY <1>3 DEF InRange
  <2> DEFINE h == 2^(IntBits - 1)
             l == 2^(LongBits - 1)
  <2>5. /\ newNumber(type, n) = {v \in {n} \cap -l..(l - 1) : v = Signed(v, IntBits)}
        /\ n = Signed(n, IntBits) <=> n \in -h..(h - 1)
        /\ InRange(type) = -h..(h - 1)
        /\ h \in Nat /\ l \in Nat /\ h <= l
    BY <1>2, <2>1, <2>2, <2>3, <2>4
  <2> HIDE DEF h, l
  <2>6. newNumber(type, n) = {n} \cap InRange(type)
    BY <2>5
  <2>7. QED
    BY <1>3, <2>6
<1>4. CASE type \in {"SAINT64T", "SATIMET"}
  <2>1. newNumber(type, n) = strtol(n, w)
    BY <1>4 DEF newNumber
  <2>2. InRange(type) = -(2^(w - 1))..(2^(w - 1) - 1)
    BY <1>4 DEF InRange
  <2>3. newNumber(type, n) = {n} \cap InRange(type)
    BY <1>2, <2>1, <2>2
  <2>4. QED
    BY <1>4, <2>3
<1>5. ASSUME NEW bits \in {LongBits, w}
      PROVE  /\ strtoul(n, bits) \subseteq 0..(2^bits - 1)
             /\ n >= 0 => strtoul(n, bits) = {n} \cap 0..(2^bits - 1)
  <2> DEFINE m == 2^bits
  <2>1. m \in Nat /\ m > 0
    BY <1>1, Powers
  <2>2. Unsigned(n, bits) \in 0..(m - 1) /\ (n = Unsigned(n, bits) <=> n \in 0..(m - 1))
    BY <1>1, FitsUnsigned
  <2>3. strtoul(n, bits) = {v \in {Unsigned(n, bits)} : -m < n /\ n < m}
    BY DEF strtoul
  <2> HIDE DEF m
  <2>4. strtoul(n, bits) \subseteq 0..(m - 1) /\ (n >= 0 => strtoul(n, bits) = {n} \cap 0..(m - 1))
    BY <2>1, <2>2, <2>3
  <2>5. QED
    BY <2>4 DEF m
<1>6. CASE type = "SAUINT64T"
  <2>1. newNumber(type, n) = strtoul(n, w) /\ InRange(type) = 0..(2^w - 1)
    BY <1>6 DEF newNumber, InRange
  <2>2. /\ newNumber(type, n) \subseteq InRange(type)
        /\ n >= 0 => newNumber(type, n) = {n} \cap InRange(type)
    BY <1>5, <2>1
  <2>3. QED
    BY <1>6, <2>2
<1>7. CASE type = "SAUINT32T"
  <2> DEFINE m == 2^IntBits
             l == 2^LongBits
  <2>1. m \in Nat /\ l \in Nat /\ m <= l
    BY <1>1, Powers
  <2>2. newNumber(type, n) = {v \in strtoul(n, LongBits) : v = Unsigned(v, IntBits)}
    BY <1>7 DEF newNumber
  <2>3. InRange(type) = 0..(m - 1)
    BY <1>7 DEF InRange
  <2>4. \A v \in Int : v = Unsigned(v, IntBits) <=> v \in 0..(m - 1)
    BY <1>1, FitsUnsigned
  <2>5. /\ strtoul(n, LongBits) \subseteq 0..(l - 1)
        /\ n >= 0 => strtoul(n, LongBits) = {n} \cap 0..(l - 1)
    BY <1>5
  <2> HIDE DEF m, l
  <2>6. /\ newNumber(type, n) \subseteq InRange(type)
        /\ n >= 0 => newNumber(type, n) = {n} \cap InRange(type)
    BY <2>1, <2>2, <2>3, <2>4, <2>5
  <2>7. QED
    BY <1>7, <2>6
<1>8. QED
  BY <1>3, <1>4, <1>6, <1>7 DEF NumberType

(****************************************************************************)
(* Digits.                                                                  *)
(****************************************************************************)
\* Every digit is half of a byte, in the order they stand in.
LEMMA DigitsRead ==
  ASSUME NEW digits \in Digits
  PROVE  LET bytes == newAny(digits)
             digit(p) == IF p % 2 = 1 THEN bytes[(p + 1) \div 2] \div 16
                         ELSE bytes[p \div 2] % 16
         IN /\ 2 * Len(bytes) \in {Len(digits), Len(digits) + 1}
            /\ \A p \in 1..(2 * Len(bytes)) :
                 digit(p) = IF p \in DOMAIN digits THEN digits[p] ELSE 0
<1> DEFINE bytes == newAny(digits)
           even == Len(digits) % 2 = 0
           len == IF even THEN Len(digits) \div 2 ELSE Len(digits) \div 2 + 1
<1>1. PICK n \in 0..5 : digits \in [1..n -> {0, 1, 15}]
  BY DEF Digits
<1>2. Len(digits) = n /\ DOMAIN digits = 1..n
  BY <1>1
<1>3. /\ len \in Nat /\ (even => 2 * len = n) /\ (~even => 2 * len = n + 1)
  BY <1>2
<1>4. bytes = [i \in 1..len |-> 16 * digits[2 * i - 1]
                                  + (IF even \/ i < len THEN digits[2 * i] ELSE 0)]
  BY DEF newAny
<1> HIDE DEF bytes, len, even
<1>5. Len(bytes) = len
  BY <1>3, <1>4
<1>6. ASSUME NEW i \in 1..len
      PROVE  LET low == IF 2 * i \in DOMAIN digits THEN digits[2 * i] ELSE 0
             IN /\ 2 * i - 1 \in DOMAIN digits
                /\ bytes[i] \div 16 = digits[2 * i - 1]
                /\ bytes[i] % 16 = low
  <2> DEFINE low == IF 2 * i \in DOMAIN digits THEN digits[2 * i] ELSE 0
  <2>1. 2 * i - 1 \in 1..n
    BY <1>3
  <2>2. even \/ i < len <=> 2 * i \in 1..n
    BY <1>2, <1>3 DEF even
  <2>3. bytes[i] = 16 * digits[2 * i - 1] + low
    BY <1>2, <1>4, <2>2
  <2>4. digits[2 * i - 1] \in {0, 1, 15} /\ low \in {0, 1, 15}
    BY <1>1, <1>2, <2>1
  <2> HIDE DEF low
  <2>5. bytes[i] \div 16 = digits[2 * i - 1] /\ bytes[i] % 16 = low
    BY <2>3, <2>4
  <2>6. QED
    BY <1>2, <2>1, <2>5 DEF low
<1>7. ASSUME NEW p \in 1..(2 * len)
      PROVE  (IF p % 2 = 1 THEN bytes[(p + 1) \div 2] \div 16 ELSE bytes[p \div 2] % 16)
               = IF p \in DOMAIN digits THEN digits[p] ELSE 0
  <2>1. CASE p % 2 = 1
    <3>1. (p + 1) \div 2 \in 1..len /\ 2 * ((p + 1) \div 2) - 1 = p
      BY <1>3, <2>1
    <3>2. QED
      BY <1>6, <2>1, <3>1
  <2>2. CASE p % 2 # 1
    <3>1. p \div 2 \in 1..len /\ 2 * (p \div 2) = p
      BY <1>3, <2>2
    <3>2. QED
      BY <1>6, <2>2, <3>1
  <2>3. QED
    BY <2>1, <2>2
<1>8. 2 * Len(bytes) \in {Len(digits), Len(digits) + 1}
  BY <1>2, <1>3, <1>5
<1>9. QED
  BY <1>5, <1>7, <1>8 DEF bytes

\* Text is copied, whatever its length.
LEMMA TextCopied ==
  ASSUME NEW type \in {"SANAMET", "SASTRINGT"}, NEW len \in Length
  PROVE  SameValue(newText(type, Value(type, 1, len)), Value(type, 1, len))
BY DEF Length, newText, SameValue, Value, Holds

----------------------------------------------------------------------------
(****************************************************************************)
(* The program: what it has searched and copied.                            *)
(****************************************************************************)
\* The beginning of a sequence.
LEMMA HeadOf ==
  ASSUME NEW S, NEW s \in Seq(S), NEW e \in Nat, e <= Len(s)
  PROVE  /\ SubSeq(s, 1, e) \in Seq(S) /\ Len(SubSeq(s, 1, e)) = e
         /\ \A k \in 1..e : SubSeq(s, 1, e)[k] = s[k]
<1>1. \A k \in 1..e : s[k] \in S
  OBVIOUS
<1>2. /\ SubSeq(s, 1, e) \in Seq(S) /\ Len(SubSeq(s, 1, e)) = IF 1 <= e THEN e - 1 + 1 ELSE 0
      /\ \A k \in 1..(e - 1 + 1) : SubSeq(s, 1, e)[k] = s[1 + k - 1]
  BY <1>1, SubSeqProperties
<1>3. QED
  BY <1>2

\* A name stays a name, however often it is searched.
NameKnown ==
  /\ data = [kind |-> "name", name |-> data.name, whole |-> data.whole]
  /\ data.name \in Seq(Token)

CallerInv ==
  /\ data.kind \in {"none", "arena"} \/ NameKnown \/ data \in AttrData \cup ModData \cup TextData
  /\ ValuesKept

\* A key is no comma.
LEMMA KeysAndCommas == \A key \in SearchKey : key # Comma
BY ImmNamesAssumption

\* A value is text.
LEMMA ValueIsText ==
  ASSUME NEW name \in Seq(Token), NEW items, NEW c, Splits(name, Len(name), items, c),
         NEW key, key # Comma
  PROVE  ValueOf(key, items) \in Seq(Token)
<1> DEFINE K == Keyed(key, items)
<1>1. K \in 1..(Len(items) + 1) /\ (K <= Len(items) => items[K] # <<>>)
  BY SearchStops
<1>2. ValueOf(key, items) = IF K > Len(items) THEN NoValue ELSE Tail(items[K])
  BY DEF ValueOf
<1>3. items \in Seq(Seq(Token)) /\ Len(items) \in Nat
  BY DEF Splits
<1> HIDE DEF K
<1>4. CASE K > Len(items)
  BY <1>2, <1>4 DEF NoValue
<1>5. CASE ~(K > Len(items))
  <2>1. K \in 1..Len(items) /\ items[K] # <<>>
    BY <1>1, <1>3, <1>5
  <2>2. items[K] \in Seq(Token)
    BY <1>3, <2>1, ElementOfSeq
  <2>3. Tail(items[K]) \in Seq(Token)
    BY <2>1, <2>2
  <2>4. QED
    BY <1>2, <1>5, <2>3
<1>6. QED
  BY <1>4, <1>5

\* What a search answers is the value of the item, and what it leaves is a name.
LEMMA NameSearched ==
  ASSUME NEW name \in Seq(Token), NEW key \in SearchKey
  PROVE  LET r == getStringValue(key, name)
         IN r.value = ValueOf(key, Items(name)) /\ r.value \in Seq(Token) /\ r.name \in Seq(Token)
<1> DEFINE r == getStringValue(key, name)
<1>1. PICK items : items = Items(name)
  OBVIOUS
<1>2. PICK c : Splits(name, Len(name), items, c)
  BY <1>1, ItemsSplit
<1>3. key # Comma
  BY KeysAndCommas
<1>4. r.value \in Seq(Token)
  BY <1>2, <1>3, StringFound, ValueIsText
<1>5. r.name \in Seq(Token)
  <2>1. CASE r.name = name
    BY <2>1
  <2>2. CASE r.name # name
    <3>1. PICK K \in 1..Len(items) : r.name = SubSeq(name, 1, c[K] - 1)
      BY <1>2, <1>3, <2>2, StringFound
    <3>2. /\ Len(items) \in Nat /\ c \in [0..Len(items) -> Nat] /\ c[Len(items)] = Len(name) + 1
          /\ c[0] = 0 /\ \A i, j \in 0..Len(items) : i < j => c[i] < c[j]
      BY <1>2 DEF Splits
    <3>3. 0 < c[K] /\ c[K] <= Len(name) + 1 /\ c[K] \in Nat /\ Len(name) \in Nat
      <4>1. K \in 0..Len(items) /\ 0 \in 0..Len(items) /\ Len(items) \in 0..Len(items) /\ 0 < K
        BY <3>2
      <4>2. K = Len(items) \/ K < Len(items)
        BY <3>2
      <4>3. QED
        BY <3>2, <4>1, <4>2
    <3>4. SubSeq(name, 1, c[K] - 1) \in Seq(Token)
      BY <3>3, HeadOf
    <3>5. QED
      BY <3>1, <3>4
  <2>3. QED
    BY <2>1, <2>2
<1>6. QED
  BY <1>1, <1>2, <1>3, <1>4, <1>5, StringFound

\* What is read of a value as a number.
LEMMA NumberOfValue ==
  ASSUME NEW name, NEW key, NEW v, v = getStringValue(key, name).value, v \in Seq(Token)
  PROVE  LET numbers == {t \in DOMAIN NumberOf : v = <<t>>}
         IN getNumericValue(key, name) \in IF numbers = {} THEN {LONG_MIN}
                                           ELSE {NumberOf[t] : t \in numbers}
<1> DEFINE numbers == {t \in DOMAIN NumberOf : v = <<t>>}
<1>1. getNumericValue(key, name) =
        IF Len(v) = 1 /\ v[1] \in DOMAIN NumberOf THEN NumberOf[v[1]] ELSE LONG_MIN
  BY DEF getNumericValue
<1>2. CASE Len(v) = 1 /\ v[1] \in DOMAIN NumberOf
  <2>1. v = <<v[1]>>
    BY <1>2
  <2>2. v[1] \in numbers
    BY <1>2, <2>1
  <2>3. getNumericValue(key, name) \in {NumberOf[t] : t \in numbers} /\ numbers # {}
    BY <1>1, <1>2, <2>2
  <2> HIDE DEF numbers
  <2>4. QED
    BY <2>3 DEF numbers
<1>3. CASE ~(Len(v) = 1 /\ v[1] \in DOMAIN NumberOf)
  <2>1. ASSUME NEW t \in numbers PROVE FALSE
    <3>1. v = <<t>> /\ t \in DOMAIN NumberOf
      OBVIOUS
    <3>2. Len(<<t>>) = 1 /\ <<t>>[1] = t
      OBVIOUS
    <3>3. QED
      BY <1>3, <3>1, <3>2
  <2>2. numbers = {}
    BY <2>1
  <2>3. getNumericValue(key, name) = LONG_MIN
    BY <1>1, <1>3
  <2> HIDE DEF numbers
  <2>4. QED
    BY <2>2, <2>3 DEF numbers
<1>4. QED
  BY <1>2, <1>3

\* The invariant holds at first,
LEMMA CallerInitInv == CallerInit => CallerInv
<1>1. SUFFICES ASSUME CallerInit PROVE CallerInv
  OBVIOUS
<1>2. answer = [by |-> "none"]
  BY <1>1 DEF CallerInit
<1>3. ValuesKept
  BY <1>2 DEF ValuesKept
<1>4. CASE data \in NameData
  <2>1. PICK n \in Names : data = [kind |-> "name", name |-> n, whole |-> n]
    BY <1>4 DEF NameData
  <2>2. n \in Seq(Token)
    BY ImmNamesAssumption DEF Names, Token
  <2>3. QED
    BY <1>3, <2>1, <2>2 DEF CallerInv, NameKnown
<1>5. CASE data \in AttrData \cup ModData \cup TextData \/ data = NoData \/ data = ArenaData
  BY <1>3, <1>5 DEF CallerInv, NoData, ArenaData
<1>6. QED
  BY <1>1, <1>4, <1>5 DEF CallerInit

\* A search for a value.
LEMMA SearchedData ==
  ASSUME CallerInv, NEW key \in SearchKey, data.kind = "name",
         data' = [data EXCEPT !.name = getStringValue(key, @).name]
  PROVE  LET v == getStringValue(key, data.name).value
         IN NameKnown' /\ v = ValueOf(key, Items(data.name)) /\ v \in Seq(Token)
<1> DEFINE r == getStringValue(key, data.name)
<1>1. NameKnown
  BY DEF CallerInv, AttrData, ModData, TextData
<1>2. r.value = ValueOf(key, Items(data.name)) /\ r.value \in Seq(Token) /\ r.name \in Seq(Token)
  BY <1>1, NameSearched DEF NameKnown
<1>3. data' = [kind |-> "name", name |-> r.name, whole |-> data.whole]
  BY <1>1 DEF NameKnown
<1> HIDE DEF r
<1>4. data'.name = r.name /\ data'.whole = data.whole
  BY <1>3
<1>5. NameKnown'
  <2>1. data' = [kind |-> "name", name |-> data'.name, whole |-> data'.whole]
    BY <1>3, <1>4
  <2>2. QED
    BY <1>2, <1>4, <2>1 DEF NameKnown
<1>6. QED
  BY <1>2, <1>5 DEF r

\* The steps of a program that searches a name.
LEMMA SearchStringStep ==
  ASSUME CallerInv, NEW key \in SearchKey, SearchString(key)
  PROVE  CallerInv' /\ FoundStep
<1> DEFINE v == getStringValue(key, data.name).value
<1>1. /\ data.kind = "name"
      /\ data' = [data EXCEPT !.name = getStringValue(key, @).name]
      /\ answer' = [by |-> "string", key |-> key, value |-> v]
  BY DEF SearchString, Has
<1>2. NameKnown' /\ v = ValueOf(key, Items(data.name))
  BY <1>1, SearchedData
<1> HIDE DEF v
<1>3. answer'.by = "string" /\ answer'.key = key /\ answer'.value = v
  BY <1>1
<1>4. FoundStep
  BY <1>2, <1>3 DEF FoundStep, Answers
<1>5. QED
  BY <1>2, <1>3, <1>4 DEF CallerInv, ValuesKept

LEMMA SearchNumberStep ==
  ASSUME CallerInv, NEW key \in SearchKey, SearchNumber(key)
  PROVE  CallerInv' /\ FoundStep
<1> DEFINE v == getStringValue(key, data.name).value
           number == getNumericValue(key, data.name)
           numbers == {t \in DOMAIN NumberOf : v = <<t>>}
<1>1. /\ data.kind = "name"
      /\ data' = [data EXCEPT !.name = getStringValue(key, @).name]
      /\ answer' = [by |-> "number", key |-> key, value |-> number]
  BY DEF SearchNumber, Has
<1>2. NameKnown' /\ v = ValueOf(key, Items(data.name)) /\ v \in Seq(Token)
  BY <1>1, SearchedData
<1>3. number \in IF numbers = {} THEN {LONG_MIN} ELSE {NumberOf[t] : t \in numbers}
  BY <1>2, NumberOfValue
<1> HIDE DEF number, v
<1>4. answer'.by = "number" /\ answer'.key = key /\ answer'.value = number
  BY <1>1
<1>5. FoundStep
  BY <1>2, <1>3, <1>4 DEF FoundStep, Answers
<1>6. QED
  BY <1>2, <1>4, <1>5 DEF CallerInv, ValuesKept

LEMMA SearchItemStep ==
  ASSUME CallerInv, NEW index \in 0..MaxTokens, SearchItem(index)
  PROVE  CallerInv' /\ FoundStep
<1> DEFINE r == getDnItem(data.name, index)
<1>1. /\ data.kind = "name" /\ data' = data
      /\ answer' = [by |-> "item", index |-> index, value |-> r]
  BY DEF SearchItem, Has
<1>2. NameKnown
  BY <1>1 DEF CallerInv, AttrData, ModData, TextData
<1>3. /\ r.found <=> index < Len(Items(data.name))
      /\ r.found => r.item = Items(data.name)[index + 1]
  <2>1. data.name \in Seq(Token) /\ index \in Nat
    BY <1>2, ImmNamesAssumption DEF NameKnown
  <2>2. PICK c : Splits(data.name, Len(data.name), Items(data.name), c)
    BY <2>1, ItemsSplit
  <2>3. QED
    BY <2>1, <2>2, ItemFound
<1> HIDE DEF r
<1>4. answer'.by = "item" /\ answer'.index = index /\ answer'.value = r
  BY <1>1
<1>5. FoundStep
  BY <1>3, <1>4 DEF FoundStep, Answers
<1>6. QED
  BY <1>1, <1>2, <1>4, <1>5 DEF CallerInv, NameKnown, ValuesKept

\* What is copied is kept.
LEMMA CopyStep ==
  ASSUME CallerInv, CopyAttributes \/ CopyModifications
  PROVE  CallerInv' /\ FoundStep
<1>1. /\ data' = data /\ answer'.by = "copy"
      /\ data.kind = "attrs" \/ data.kind = "mods"
  BY DEF CopyAttributes, CopyModifications, Has
<1>2. data \in AttrData \cup ModData
  BY <1>1 DEF CallerInv, NameKnown, TextData
<1>3. CASE CopyAttributes
  <2>1. /\ data.kind = "attrs"
        /\ answer' = [by |-> "copy", attrs |-> dupSaImmAttrValuesT_array(data.attrs)]
    BY <1>3 DEF CopyAttributes, Has
  <2>2. data.attrs \in Arrays
    BY <1>2, <2>1 DEF AttrData, ModData
  <2> DEFINE d == dupSaImmAttrValuesT_array(data.attrs)
  <2>3. Len(d) = Len(data.attrs) /\ Counted(d)
    BY <2>2, CopyCounted
  <2>4. ASSUME NEW i \in DOMAIN data.attrs PROVE SameAttribute(d[i], data.attrs[i])
    <3>1. PICK n \in 0..MaxAttributes : data.attrs \in [1..n -> Attributes]
      BY <2>2 DEF Arrays
    <3>2. data.attrs[i] \in Attributes
      BY <3>1
    <3>3. d[i] = copySaImmAttrValuesT(data.attrs[i])
      BY DEF dupSaImmAttrValuesT_array
    <3>4. QED
      BY <3>2, <3>3, AttributeCopied
  <2> HIDE DEF d
  <2>5. answer'.attrs = d
    BY <2>1 DEF d
  <2>6. CopyKept'
    BY <1>1, <2>1, <2>3, <2>4, <2>5 DEF CopyKept
  <2>7. QED
    BY <1>1, <1>2, <2>1, <2>6 DEF CallerInv, ValuesKept, FoundStep
<1>4. CASE CopyModifications
  <2>1. /\ data.kind = "mods"
        /\ answer' = [by |-> "copy", mods |-> dupSaImmAttrModificationT_array(data.mods)]
    BY <1>4 DEF CopyModifications, Has
  <2>2. data.mods \in [1..1 -> [modType : {"ADD", "DELETE", "REPLACE"}, attr : Attributes]]
    BY <1>2, <2>1 DEF AttrData, ModData
  <2> DEFINE d == dupSaImmAttrModificationT_array(data.mods)
  <2>3. /\ DOMAIN data.mods = 1..1 /\ Len(data.mods) = 1
        /\ d = [i \in 1..1 |-> [modType |-> data.mods[i].modType,
                                attr |-> copySaImmAttrValuesT(data.mods[i].attr)]]
    BY <2>2 DEF dupSaImmAttrModificationT_array
  <2> HIDE DEF d
  <2>4. Len(d) = Len(data.mods)
    BY <2>3
  <2>5. ASSUME NEW i \in DOMAIN data.mods
        PROVE  d[i].modType = data.mods[i].modType /\ SameAttribute(d[i].attr, data.mods[i].attr)
    <3>1. data.mods[i].attr \in Attributes
      BY <2>2
    <3>2. d[i].modType = data.mods[i].modType /\ d[i].attr = copySaImmAttrValuesT(data.mods[i].attr)
      BY <2>3
    <3>3. QED
      BY <3>1, <3>2, AttributeCopied
  <2>6. answer'.mods = d
    BY <2>1 DEF d
  <2>7. CopyKept'
    BY <1>1, <2>1, <2>4, <2>5, <2>6 DEF CopyKept
  <2>8. QED
    BY <1>1, <1>2, <2>1, <2>7 DEF CallerInv, ValuesKept, FoundStep
<1>5. QED
  BY <1>3, <1>4

\* So is what is made from text.
LEMMA NewValueStep ==
  ASSUME CallerInv, NewValue
  PROVE  CallerInv' /\ FoundStep
<1>1. /\ data' = data /\ answer'.by = "new"
      /\ data.kind \in {"number", "text", "any"}
      /\ data.kind = "number" => answer'.value = newNumber(data.type, data.number)
      /\ data.kind = "text" => answer'.value = newText(data.type, Value(data.type, 1, data.len))
      /\ data.kind = "any" => answer'.value = newAny(data.digits)
  BY DEF NewValue, Has
<1>2. data \in TextData
  BY <1>1 DEF CallerInv, NameKnown, AttrData, ModData
<1>3. ASSUME data.kind = "number" PROVE NumberKept'
  <2>1. data.type \in NumberType /\ data.number \in Numbers
    BY <1>2, <1>3 DEF TextData
  <2>2. data.number \in Int
    <3> DEFINE w == 2^(2 * IntBits)
    <3>1. w \in Nat
      <4>1. 2 * IntBits \in Nat
        BY ImmValuesAssumption
      <4>2. QED
        BY <4>1, Powers
    <3>2. Numbers = -(w + 1)..(w + 1)
      BY DEF Numbers
    <3> HIDE DEF w
    <3>3. QED
      BY <2>1, <3>1, <3>2
  <2>3. IF data.type \in {"SAUINT32T", "SAUINT64T"} /\ data.number < 0
        THEN newNumber(data.type, data.number) \subseteq InRange(data.type)
        ELSE newNumber(data.type, data.number) = {data.number} \cap InRange(data.type)
    BY <2>1, <2>2, NumberInRange
  <2>4. QED
    BY <1>1, <1>3, <2>3 DEF NumberKept
<1>4. ASSUME data.kind = "text"
      PROVE  SameValue(answer'.value, Value(data.type, 1, data.len))
  <2>1. data.type \in {"SANAMET", "SASTRINGT"} /\ data.len \in Length
    BY <1>2, <1>4 DEF TextData
  <2>2. QED
    BY <1>1, <1>4, <2>1, TextCopied
<1>5. ASSUME data.kind = "any" PROVE DigitsKept'
  <2>1. data.digits \in Digits
    BY <1>2, <1>5 DEF TextData
  <2>2. LET bytes == newAny(data.digits)
            digit(p) == IF p % 2 = 1 THEN bytes[(p + 1) \div 2] \div 16
                        ELSE bytes[p \div 2] % 16
        IN /\ 2 * Len(bytes) \in {Len(data.digits), Len(data.digits) + 1}
           /\ \A p \in 1..(2 * Len(bytes)) :
                digit(p) = IF p \in DOMAIN data.digits THEN data.digits[p] ELSE 0
    BY <2>1, DigitsRead
  <2>3. QED
    BY <1>1, <1>5, <2>2 DEF DigitsKept
<1>6. ValuesKept'
  BY <1>1, <1>3, <1>4, <1>5 DEF ValuesKept
<1>7. QED
  BY <1>1, <1>2, <1>6 DEF CallerInv, FoundStep

\* and every step keeps it, and answers for the name as it is.  A step that is
\* no search leaves a program without a name without one.
LEMMA CallerNextInv ==
  CallerInv /\ [CallerNext]_callerVars => CallerInv' /\ [FoundStep]_callerVars
<1>1. SUFFICES ASSUME CallerInv, [CallerNext]_callerVars
               PROVE  CallerInv' /\ [FoundStep]_callerVars
  OBVIOUS
<1>2. ASSUME UNCHANGED <<data, answer>> PROVE CallerInv'
  BY <1>1, <1>2 DEF CallerInv, NameKnown, ValuesKept, CopyKept, NumberKept, DigitsKept
<1>3. CASE Calls \/ UseArena
  <2>1. UNCHANGED <<data, answer>> /\ data.kind # "name"
    BY <1>3 DEF Calls, UseArena, NoData, ArenaData
  <2>2. QED
    BY <1>2, <2>1 DEF FoundStep
<1>4. CASE UNCHANGED callerVars
  BY <1>2, <1>4 DEF callerVars
<1>5. CASE \E key \in SearchKey : SearchString(key) \/ SearchNumber(key)
  BY <1>1, <1>5, SearchStringStep, SearchNumberStep
<1>6. CASE \E index \in 0..MaxTokens : SearchItem(index)
  BY <1>1, <1>6, SearchItemStep
<1>7. CASE CopyAttributes \/ CopyModifications \/ NewValue
  BY <1>1, <1>7, CopyStep, NewValueStep
<1>8. QED
  BY <1>1, <1>3, <1>4, <1>5, <1>6, <1>7 DEF CallerNext

----------------------------------------------------------------------------
\* The strengthened invariant holds of every program, whatever its data.
THEOREM CallerInvariance == CallerSpec => []CallerInv
<1>1. CallerInit => CallerInv
  BY CallerInitInv
<1>2. CallerInv /\ [CallerNext]_callerVars => CallerInv'
  BY CallerNextInv
<1>3. QED
  BY <1>1, <1>2, PTL DEF CallerSpec

\* A search answers for the name that it is given, of any length: the loop over
\* the places of the key stops at the first item that starts with it, and what
\* lies between there and the next comma is that item; nothing that an earlier
\* search has done to the name changes what this one makes of it.
THEOREM AnswersAsNamed == CallerSpec => FoundAsNamed
<1>1. CallerInv /\ [CallerNext]_callerVars => [FoundStep]_callerVars
  BY CallerNextInv
<1>2. QED
  BY <1>1, CallerInvariance, PTL DEF CallerSpec, FoundAsNamed

\* A copy is what it was made of, and no number is cut, whatever the width.
THEOREM CopiesWhole == CallerSpec => []ValuesKept
<1>1. CallerInv => ValuesKept
  BY DEF CallerInv
<1>2. QED
  BY <1>1, CallerInvariance, PTL

\* A program that works on data makes no calls, and one that makes calls is one
\* of those above: what the wrappers and the helpers keep true, it keeps true.
THEOREM ProgramCalls ==
  CallerSpec => [](/\ HelperTypeOK /\ TriesAsProfiled /\ CarriedOutOnce /\ FatalAsProfiled
                   /\ SameEachTry /\ HandlesValid /\ NothingForgotten)
<1>1. CallerInit => HInv /\ IInv
  BY HelperInitInv, InitIInv DEF CallerInit, HelperInit
<1>2. [CallerNext]_callerVars => [HelperNext]_helperVars
  BY DEF CallerNext, Calls, SearchString, SearchNumber, SearchItem, CopyAttributes,
         CopyModifications, NewValue, UseArena, Has, callerVars
<1>3. (HInv /\ IInv) /\ [HelperNext]_helperVars => (HInv /\ IInv)'
  BY HelperNextInv, HelperIsCaller, NextIInv
<1>4. HInv /\ IInv => /\ HelperTypeOK /\ TriesAsProfiled /\ CarriedOutOnce /\ FatalAsProfiled
                      /\ SameEachTry /\ HandlesValid /\ NothingForgotten
  <2>1. HInv /\ IInv => HelperTypeOK
    BY DEF HInv, IInv, ProgressTypes, HelperTypeOK
  <2>2. IInv => TriesAsProfiled /\ CarriedOutOnce /\ FatalAsProfiled /\ SameEachTry
    BY CountedTries DEF IInv, Effect, CarriedOutOnce
  <2>3. QED
    BY <2>1, <2>2, HInvImplies
<1>5. QED
  BY <1>1, <1>2, <1>3, <1>4, PTL DEF CallerSpec

\* The arena of a program is the arena of Clist: what is proved of that one
\* (module ClistProofs) holds of the program.
THEOREM ProgramArena == CallerSpec => ArenaSpec
<1>1. CallerInit => ArenaInit
  BY DEF CallerInit
<1>2. [CallerNext]_callerVars => [ArenaNext]_arena
  BY DEF CallerNext, Calls, SearchString, SearchNumber, SearchItem, CopyAttributes,
         CopyModifications, NewValue, UseArena, Has, callerVars
<1>3. QED
  BY <1>1, <1>2, PTL DEF CallerSpec, ArenaSpec

=============================================================================
