------------------------------ MODULE ImmOmProofs ------------------------------
(****************************************************************************)
(* Every sequence of down-calls, whatever is refused and whatever fails,    *)
(* is a session as the documentation of the binding promises it.            *)
(*                                                                          *)
(* That the flags of immombin.c follow the service is inductive only with   *)
(* what immombin.c has checked before it parses the arguments (Checked) and *)
(* with the order in which the flags can be set (SessionFlags); Memory says *)
(* which down-calls can have taken any, and Ownership what the calls that   *)
(* are left of a function may still count on.                               *)
(****************************************************************************)
EXTENDS ImmOm, SequenceTheorems, TLAPS

DownCall == [f : DownCallName, on : SUBSET Object, scope : {"SA_IMM_ONE", "SA_IMM_SUBTREE"}]

Scripts ==
  /\ script \in Seq(DownCall)
  /\ phase \in {"enter", "parse", "call"}
  /\ args \in {"none", "live", "null", "dangling"}
  /\ phase # "enter" => script # <<>>

Checked == phase # "enter" => ~Refused(Current.f)

TakesMemory == Named \cup Listed
Memory ==
  /\ memChunk \in Seq(Chunk) /\ asked \in 0..MaxAsked
  /\ phase = "enter" => memChunk = <<>> /\ asked = 0 /\ args = "none"
  /\ phase = "parse" => Current.f \in TakesMemory
  /\ phase = "call" /\ Current.f \notin TakesMemory =>
       memChunk = <<>> /\ asked = 0 /\ args = "none"
  /\ args = "live" => memChunk # <<>>
  /\ args = "dangling" => Current.f = "ClassCreate"

FlagTypes ==
  /\ immOmHandle \in BOOLEAN /\ haveAdminOwner \in BOOLEAN /\ haveCcb \in BOOLEAN
  /\ ccbFailed \in BOOLEAN /\ orphaned \in BOOLEAN
SessionFlags ==
  /\ FlagTypes
  /\ haveCcb => haveAdminOwner
  /\ orphaned => haveAdminOwner
  /\ SessionInStep

Objects == objects \in Contents /\ draft \in Contents /\ owned \subseteq Object

\* The objects that a call can be about, with or without the CCB.
Present == Existing(draft) \cup Existing(objects)

(****************************************************************************)
(* The admin owner.  That a call finds the ownership it needs is a fact     *)
(* about the whole function it belongs to: what an object needs later in    *)
(* the script is owned already, or an AdminOwnerSet that is still to come   *)
(* takes it.  The calls that take ownership away are the only ones of their *)
(* function (AloneIn).                                                      *)
(****************************************************************************)
Prepares(c, d) == c.f = "AdminOwnerSet" /\ Needs(d) \subseteq Scope(c)
PreparedAt(s, i) ==
  \/ \E j \in 1..(i - 1) : Prepares(s[j], s[i])
  \/ Needs(s[i]) \cap Present \subseteq owned
Prepared == \A i \in 1..Len(script) : PreparedAt(script, i)

Ending == {"Finalize", "AdminOwnerFinalize", "AdminOwnerClear"}
AloneIn(s) == \A i \in 1..Len(s) : s[i].f \in Ending => Len(s) = 1

Ownership == Prepared /\ AloneIn(script)

IInv == Scripts /\ Checked /\ Memory /\ SessionFlags /\ Objects /\ Ownership

----------------------------------------------------------------------------
(****************************************************************************)
(* The scripts of immom.py.                                                 *)
(****************************************************************************)
LEMMA OnIsDownCall ==
  \A f \in DownCallName : \A os :
    os \subseteq Object =>
      /\ On(f, os) \in DownCall
      /\ [On(f, os) EXCEPT !.scope = "SA_IMM_SUBTREE"] \in DownCall
      /\ [On(f, os) EXCEPT !.scope = "SA_IMM_ONE"] \in DownCall
BY DEF On, DownCall

LEMMA FunctionsAreScripts == Functions \subseteq Seq(DownCall)
<1>1. ASSUME NEW d \in DownCall PROVE <<d>> \in Seq(DownCall)
  OBVIOUS
<1>2. ASSUME NEW os, os \subseteq Object PROVE SetOwner(os) \in Seq(DownCall)
  <2>1. On("AdminOwnerSet", os) \in DownCall
    BY <1>2, OnIsDownCall DEF DownCallName, Named, Listed
  <2>2. QED
    BY <2>1 DEF SetOwner
<1>3. Read \in DownCall
  BY OnIsDownCall DEF Read, DownCallName, Named, Listed
<1>4. ASSUME NEW o \in Object PROVE createobject(o) \in Seq(DownCall)
  <2>1. {Parent[o]} \ {Absent} \subseteq Object
    BY ImmOmAssumption
  <2>2. <<Read>> \o SetOwner({Parent[o]} \ {Absent}) \in Seq(DownCall)
    BY <1>1, <1>2, <1>3, <2>1, ConcatProperties
  <2>3. <<On("CcbObjectCreate", {o})>> \in Seq(DownCall)
    BY <1>1, OnIsDownCall DEF DownCallName, Named, Listed
  <2>4. QED
    BY <2>2, <2>3, ConcatProperties DEF createobject
<1>5. ASSUME NEW o \in Object PROVE copyobject(o) \in Seq(DownCall)
  BY <1>1, <1>3, <1>4, ConcatProperties DEF copyobject
<1>6. ASSUME NEW o \in Object PROVE adminoperation(o) \in Seq(DownCall)
  <2>1. <<On("AdminOperationInvoke", {o})>> \in Seq(DownCall)
    BY <1>1, OnIsDownCall DEF DownCallName, Named, Listed
  <2>2. QED
    BY <1>2, <2>1, ConcatProperties DEF adminoperation
<1>7. ASSUME NEW o \in Object, NEW scope \in {"SA_IMM_ONE", "SA_IMM_SUBTREE"}
      PROVE  adminowner_clear(o, scope) \in Seq(DownCall)
  BY <1>1, OnIsDownCall DEF adminowner_clear, DownCallName, Named, Listed
<1>8. ASSUME NEW o \in Object
      PROVE  deletesubtree(o) \in Seq(DownCall) /\ modifyobject(o) \in Seq(DownCall)
  <2>1. deletesubtree(o)[1] \in DownCall /\ deletesubtree(o)[2] \in DownCall
    BY OnIsDownCall DEF deletesubtree, DownCallName, Named, Listed
  <2>2. deletesubtree(o) \in Seq(DownCall)
    BY <2>1 DEF deletesubtree
  <2>3. On("CcbObjectModify", {o}) \in DownCall
    BY OnIsDownCall DEF DownCallName, Named, Listed
  <2>4. modifyobject(o) \in Seq(DownCall)
    BY <1>1, <2>3 DEF modifyobject
  <2>5. QED
    BY <2>2, <2>4
<1>9. ASSUME NEW l \in Lists PROVE deleteobjects(l) \in Seq(DownCall)
  <2>1. l \in Seq(Object)
    <3>1. CASE \E o \in Object : l = <<o>>
      BY <3>1
    <3>2. CASE \E o, p \in Object : l = <<o, p>>
      BY <3>2
    <3>3. QED
      BY <3>1, <3>2 DEF Lists
  <2>2. DOMAIN l = 1..Len(l) /\ Len(l) \in Nat /\ \A i \in 1..Len(l) : l[i] \in Object
    BY <2>1
  <2>3. [i \in DOMAIN l |-> On("CcbObjectDelete", {l[i]})] \in Seq(DownCall)
    <3>1. \A i \in 1..Len(l) : On("CcbObjectDelete", {l[i]}) \in DownCall
      BY <2>2, OnIsDownCall DEF DownCallName, Named, Listed
    <3>2. [i \in 1..Len(l) |-> On("CcbObjectDelete", {l[i]})] \in [1..Len(l) -> DownCall]
      BY <3>1
    <3>3. QED
      BY <2>2, <3>2, SeqDef
  <2>4. <<On("AdminOwnerSet", {l[i] : i \in DOMAIN l})>> \in Seq(DownCall)
    BY <1>1, <2>2, OnIsDownCall DEF DownCallName, Named, Listed
  <2>5. QED
    BY <2>3, <2>4, ConcatProperties DEF deleteobjects
<1>10. ASSUME NEW f \in DownCallName PROVE Plain(f) \in Seq(DownCall)
  BY <1>1, OnIsDownCall DEF Plain
<1>11. /\ Connection \cup OwnerFunctions \subseteq Seq(DownCall)
       /\ CcbFunctions \cup ClassFunctions \cup {<<Read>>} \subseteq Seq(DownCall)
  BY <1>1, <1>3, <1>10
     DEF Connection, OwnerFunctions, CcbFunctions, ClassFunctions, DownCallName, Named, Listed
<1>12. QED
  BY <1>4, <1>5, <1>6, <1>7, <1>8, <1>9, <1>11 DEF Functions

----------------------------------------------------------------------------
(****************************************************************************)
(* The two actions that stand for several kinds of down-call.               *)
(****************************************************************************)
LEMMA EnterDoes ==
  ASSUME Enter
  PROVE  /\ In("enter") /\ ~Refused(Current.f) /\ script' = script /\ KeepSession
         /\ \/ Current.f \in TakesMemory /\ FirstMemory
            \/ Current.f \notin TakesMemory /\ phase' = "call" /\ UNCHANGED <<args, mem>>
BY DEF Enter, EnterNames, EnterList, EnterPlain, Enters, TakesMemory

LEMMA OtherDoes ==
  ASSUME Other
  PROVE  /\ In("call") /\ Return /\ KeepSession
         /\ Current.f \in {"ClassCreate", "ClassDelete", "Read"}
BY DEF Other, ClassCreate, ClassDelete, ReadObjects, Served

(****************************************************************************)
(* What a step does to the running function and to the memory.              *)
(****************************************************************************)
LEMMA Shape ==
  ASSUME Next
  PROVE  \/ Call
         \/ Refuse \/ ParseFails
         \/ Enter
         \/ \E n \in Size : Parse(n)
         \/ NamesFail \/ DefaultFails \/ ParseDone
         \/ In("call") /\ (Raise \/ Return)
BY OtherDoes DEF Next, ServiceFails, Initialize, Finalize, AdminOwnerInitialize,
       AdminOwnerFinalize, AdminOwnerSet, AdminOwnerClear, CcbInitialize, CcbApply,
       CcbAborted, CcbFinalize, CcbObjectDelete, CcbObjectCreate, CcbObjectModify,
       AdminOperationInvoke, Served, InCcb

LEMMA ScriptsStep ==
  ASSUME Scripts, [Next]_vars
  PROVE  Scripts'
<1>1. CASE UNCHANGED vars
  BY <1>1 DEF Scripts, vars, call
<1>2. CASE Call
  <2>1. script' \in Seq(DownCall) /\ phase' = phase /\ args' = args
    BY <1>2, FunctionsAreScripts DEF Call
  <2>2. phase = "enter"
    BY <1>2 DEF Call, Scripts
  <2>3. QED
    BY <2>1, <2>2 DEF Scripts
<1>3. CASE In("call") /\ Return
  <2>1. script' = Tail(script) /\ script # <<>> /\ phase' = "enter" /\ args' = "none"
    BY <1>3 DEF Return, In
  <2>2. script' \in Seq(DownCall)
    BY <2>1, HeadTailProperties DEF Scripts
  <2>3. QED
    BY <2>1, <2>2 DEF Scripts
<1>4. CASE Refuse \/ ParseFails \/ (In("call") /\ Raise)
  BY <1>4, EmptySeq DEF Refuse, ParseFails, Raise, Scripts
<1>5. CASE Enter
  BY <1>5, EnterDoes DEF FirstMemory, In, Scripts
<1>6. CASE \E n \in Size : Parse(n)
  BY <1>6 DEF Parse, call, Scripts
<1>7. CASE NamesFail \/ DefaultFails \/ ParseDone
  BY <1>7 DEF NamesFail, DefaultFails, ParseDone, In, Scripts
<1>8. QED
  BY <1>1, <1>2, <1>3, <1>4, <1>5, <1>6, <1>7, Shape

LEMMA CheckedStep ==
  ASSUME Scripts, Checked, [Next]_vars
  PROVE  Checked'
<1>1. ASSUME phase' # "enter"
      PROVE  /\ script' = script /\ UNCHANGED binding
             /\ phase = "enter" => ~Refused(Current.f)
  <2>1. CASE UNCHANGED vars
    BY <1>1, <2>1 DEF vars, call
  <2>2. CASE Call
    BY <1>1, <2>2 DEF Call, Scripts
  <2>3. CASE In("call") /\ (Raise \/ Return)
    BY <1>1, <2>3 DEF Raise, Return
  <2>4. CASE Refuse \/ ParseFails
    BY <1>1, <2>4 DEF Refuse, ParseFails, Raise
  <2>5. CASE Enter
    BY <2>5, EnterDoes DEF KeepSession
  <2>6. CASE \E n \in Size : Parse(n)
    BY <2>6 DEF Parse, In, call, KeepSession
  <2>7. CASE NamesFail \/ DefaultFails \/ ParseDone
    BY <2>7 DEF NamesFail, DefaultFails, ParseDone, In, KeepSession
  <2>8. QED
    BY <2>1, <2>2, <2>3, <2>4, <2>5, <2>6, <2>7, Shape
<1>2. SUFFICES ASSUME phase' # "enter" PROVE ~Refused(Current.f)'
  BY DEF Checked
<1>3. ~Refused(Current.f)
  BY <1>1, <1>2 DEF Checked
<1>4. Current' = Current
  BY <1>1, <1>2 DEF Current
<1>5. /\ immOmHandle' = immOmHandle
      /\ haveAdminOwner' = haveAdminOwner
      /\ haveCcb' = haveCcb
  BY <1>1, <1>2 DEF binding
<1>6. QED
  BY <1>3, <1>4, <1>5, Zenon DEF Refused

\* memget hands out memory of a chunk, an old or a new one.
LEMMA MemGetKeepsTypes ==
  ASSUME NEW n \in Size, memChunk \in Seq(Chunk), asked \in Nat, MemGet(n)
  PROVE  memChunk' \in Seq(Chunk) /\ memChunk' # <<>> /\ asked' = asked + n
<1>1. n \in Nat /\ Word \in Nat \ {0} /\ MEM_MINSIZE \in Nat
  BY MemGetAssumption
<1>2. NewChunk(n) \in Chunk
  BY <1>1 DEF NewChunk, Chunk
<1>3. <<NewChunk(n)>> \in Seq(Chunk) /\ Len(<<NewChunk(n)>>) = 1
  BY <1>2
<1>4. <<NewChunk(n)>> \o memChunk \in Seq(Chunk) /\ Len(<<NewChunk(n)>> \o memChunk) # 0
  BY <1>3, ConcatProperties, LenProperties
<1>5. Chunks(n) \in Seq(Chunk) /\ Chunks(n) # <<>>
  <2>1. CASE memChunk = <<>> \/ HasRoom(n)
    BY <1>4, <2>1, EmptySeq DEF Chunks
  <2>2. CASE ~(memChunk = <<>> \/ HasRoom(n))
    BY <2>2 DEF Chunks
  <2>3. QED
    BY <2>1, <2>2
<1>6. 1 \in 1..Len(Chunks(n)) /\ Chunks(n)[1] \in Chunk
  BY <1>5, EmptySeq, ElementOfSeq, LenProperties
<1>7. (Chunks(n)[1].used + n) % Word \in Nat
  BY <1>1, <1>6 DEF Chunk
<1>8. DEFINE c == [Chunks(n)[1] EXCEPT !.used = (@ + n) % Word]
<1>9. c \in Chunk
  BY <1>6, <1>7 DEF Chunk
<1>10. memChunk' = [Chunks(n) EXCEPT ![1] = c]
  BY DEF MemGet
<1>11. memChunk' \in Seq(Chunk) /\ Len(memChunk') = Len(Chunks(n))
  BY <1>5, <1>6, <1>9, <1>10, ExceptSeq
<1>12. QED
  BY <1>6, <1>11, EmptySeq DEF MemGet

LEMMA MemoryStep ==
  ASSUME Scripts, Memory, [Next]_vars
  PROVE  Memory'
<1> DEFINE Freed == phase' = "enter" /\ args' = "none" /\ MemFreeAll
<1>1. ASSUME Freed PROVE Memory'
  BY <1>1, EmptySeq, ImmOmAssumption DEF Memory, MemFreeAll
<1>2. CASE UNCHANGED vars
  BY <1>2 DEF Memory, vars, call, mem, Current
<1>3. CASE Call
  <2>1. phase = "enter" /\ UNCHANGED <<phase, args, mem>>
    BY <1>3 DEF Call, Scripts
  <2>2. QED
    BY <2>1 DEF Memory, mem
<1>4. CASE Refuse \/ ParseFails \/ (In("call") /\ Raise)
  BY <1>1, <1>4 DEF Refuse, ParseFails, Raise
<1>5. CASE In("call") /\ Return
  <2>1. CASE Current.f \in FreesAtReturn
    BY <1>1, <1>5, <2>1 DEF Return
  <2>2. CASE Current.f \notin FreesAtReturn
    <3>1. memChunk = <<>> /\ asked = 0
      BY <1>5, <2>2 DEF In, Memory, TakesMemory, FreesAtReturn
    <3>2. phase' = "enter" /\ args' = "none" /\ memChunk' = <<>> /\ asked' = 0
      BY <1>5, <2>2, <3>1 DEF Return, mem
    <3>3. QED
      BY <1>1, <3>2 DEF MemFreeAll
  <2>3. QED
    BY <2>1, <2>2
<1>6. CASE Enter
  <2>1. phase = "enter" /\ memChunk = <<>> /\ asked = 0 /\ args = "none"
    BY <1>6, EnterDoes DEF In, Memory
  <2>2. script' = script
    BY <1>6, EnterDoes
  <2>3. CASE Current.f \in TakesMemory
    <3>1. PICK n \in Size : n <= MaxAsked /\ MemGet(n)
      BY <1>6, <2>3, EnterDoes DEF FirstMemory
    <3>2. memChunk' \in Seq(Chunk) /\ memChunk' # <<>> /\ asked' = n
      BY <2>1, <3>1, MemGetKeepsTypes, MemGetAssumption DEF Memory
    <3>3. asked' \in 0..MaxAsked
      BY <3>1, <3>2, MemGetAssumption, ImmOmAssumption
    <3>4. phase' = "parse" /\ args' = "live"
      BY <1>6, <2>3, EnterDoes DEF FirstMemory
    <3>5. QED
      BY <2>2, <2>3, <3>2, <3>3, <3>4 DEF Memory, Current
  <2>4. CASE Current.f \notin TakesMemory
    <3>1. phase' = "call" /\ args' = args /\ UNCHANGED mem
      BY <1>6, <2>4, EnterDoes DEF FirstMemory
    <3>2. QED
      BY <2>1, <2>2, <2>4, <3>1 DEF Memory, mem, Current
  <2>5. QED
    BY <2>3, <2>4
<1>7. CASE \E n \in Size : Parse(n)
  <2>1. PICK n \in Size : asked + n <= MaxAsked /\ MemGet(n) /\ UNCHANGED call
    BY <1>7 DEF Parse
  <2>2. memChunk' \in Seq(Chunk) /\ memChunk' # <<>> /\ asked' = asked + n
    BY <2>1, MemGetKeepsTypes DEF Memory
  <2>3. asked' \in 0..MaxAsked
    BY <2>1, <2>2, MemGetAssumption, ImmOmAssumption DEF Memory
  <2>4. phase = "parse"
    BY <1>7 DEF Parse, In
  <2>5. QED
    BY <2>1, <2>2, <2>3, <2>4 DEF Memory, call, Current
<1>8. CASE NamesFail
  <2>1. /\ phase' = "call" /\ args' = "null" /\ script' = script
        /\ Current.f \in TakesMemory
    BY <1>8 DEF NamesFail, TakesMemory
  <2>2. memChunk' \in Seq(Chunk) /\ asked' \in 0..MaxAsked
    <3>1. CASE MemFreeAll
      BY <3>1, EmptySeq, ImmOmAssumption DEF MemFreeAll
    <3>2. CASE UNCHANGED mem
      BY <3>2 DEF mem, Memory
    <3>3. QED
      BY <1>8, <3>1, <3>2 DEF NamesFail
  <2>3. QED
    BY <2>1, <2>2 DEF Memory, Current
<1>9. CASE DefaultFails
  <2>1. /\ phase = "parse" /\ phase' = "parse" /\ args' = "dangling" /\ script' = script
        /\ Current.f = "ClassCreate"
    BY <1>9 DEF DefaultFails, In
  <2>2. memChunk' = <<>> /\ asked' = 0
    BY <1>9 DEF DefaultFails, MemFreeAll
  <2>3. QED
    BY <2>1, <2>2, EmptySeq, ImmOmAssumption DEF Memory, Current
<1>10. CASE ParseDone
  <2>1. phase = "parse" /\ phase' = "call" /\ UNCHANGED <<script, args, mem>>
    BY <1>10 DEF ParseDone, In
  <2>2. QED
    BY <2>1 DEF Memory, Current, mem
<1>11. QED
  BY <1>2, <1>3, <1>4, <1>5, <1>6, <1>7, <1>8, <1>9, <1>10, Shape

----------------------------------------------------------------------------
(****************************************************************************)
(* What a step does to the session.                                         *)
(****************************************************************************)
Flags == <<binding, owners, ccbs, ccbFailed, orphaned>>

\* What the invariant says of the numbers.
LEMMA Numbers ==
  ASSUME SessionFlags
  PROVE  /\ owners \in {0, 1} /\ ccbs \in {0, 1}
         /\ owners = 1 <=> haveAdminOwner /\ ~orphaned
         /\ ccbs = 1 <=> haveCcb /\ ~orphaned
         /\ ccbs = 1 => owners = 1
         /\ owners = 1 => immOmHandle
BY DEF SessionFlags, FlagTypes, SessionInStep

LEMMA SessionInit == ASSUME Init PROVE SessionFlags
<1>1. FlagTypes
  BY Zenon DEF Init, FlagTypes
<1>2. ~haveAdminOwner /\ ~haveCcb /\ ~orphaned
  BY Zenon DEF Init
<1>3. owners = 0 /\ ccbs = 0
  BY DEF Init
<1>4. QED
  BY <1>1, <1>2, <1>3 DEF SessionFlags, FlagTypes, SessionInStep

LEMMA FinalizeStep ==
  ASSUME SessionFlags, Finalize
  PROVE  SessionFlags'
<1>1. /\ immOmHandle' = FALSE /\ haveAdminOwner' = haveAdminOwner /\ haveCcb' = haveCcb
      /\ owners' = 0 /\ ccbs' = 0 /\ ccbFailed' = FALSE
  BY DEF Finalize, OwnerGone
<1>2. orphaned' = (orphaned \/ haveAdminOwner)
  BY Zenon DEF Finalize
<1>3. FlagTypes'
  BY <1>1, <1>2, Zenon DEF SessionFlags, FlagTypes
<1>4. orphaned' <=> haveAdminOwner
  BY <1>2, Zenon DEF SessionFlags, FlagTypes
<1>5. haveCcb' => haveAdminOwner
  BY <1>1, Zenon DEF SessionFlags
<1>6. haveAdminOwner' <=> haveAdminOwner
  BY <1>1, Zenon
<1>7. QED
  BY <1>1, <1>3, <1>4, <1>5, <1>6 DEF SessionFlags, FlagTypes, SessionInStep

LEMMA SessionStep ==
  ASSUME SessionFlags, Checked, [Next]_vars
  PROVE  SessionFlags'
<1>1. ASSUME UNCHANGED Flags PROVE SessionFlags'
  BY <1>1 DEF Flags, binding, SessionFlags, FlagTypes, SessionInStep
<1>2. ASSUME NEW f, Served(f) PROVE phase # "enter" /\ Current.f = f
  BY <1>2 DEF Served, In
<1>3. CASE UNCHANGED vars
  BY <1>1, <1>3 DEF vars, service, Flags
<1>4. CASE Call \/ AdminOwnerSet \/ AdminOwnerClear \/ CcbApply
  BY <1>1, <1>4 DEF Call, AdminOwnerSet, AdminOwnerClear, CcbApply, Flags, service
<1>5. CASE \/ Refuse \/ Enter \/ ParseFails \/ NamesFail \/ DefaultFails \/ ParseDone
           \/ ServiceFails \/ AdminOperationInvoke \/ Other
           \/ \E n \in Size : Parse(n)
  BY <1>1, <1>5, EnterDoes, OtherDoes
     DEF Refuse, ParseFails, NamesFail, DefaultFails, ParseDone, ServiceFails,
         AdminOperationInvoke, Parse, KeepSession, Flags, service
<1>6. CASE CcbObjectDelete \/ CcbObjectCreate \/ CcbObjectModify
  BY <1>1, <1>6
     DEF CcbObjectDelete, CcbObjectCreate, CcbObjectModify, KeepObjects, Flags
<1>7. CASE Initialize
  <2>1. /\ immOmHandle' = TRUE /\ haveAdminOwner' = haveAdminOwner /\ haveCcb' = haveCcb
        /\ owners' = owners /\ ccbs' = ccbs /\ ccbFailed' = ccbFailed
        /\ orphaned' = orphaned
    BY <1>7 DEF Initialize, service
  <2>2. QED
    BY <2>1 DEF SessionFlags, FlagTypes, SessionInStep
<1>8. CASE Finalize
  BY <1>8, FinalizeStep
<1>9. CASE AdminOwnerInitialize
  <2>1. ~haveAdminOwner
    BY <1>2, <1>9 DEF AdminOwnerInitialize, Checked, Refused
  <2>2. /\ immOmHandle /\ immOmHandle' = immOmHandle
        /\ haveAdminOwner' = TRUE /\ haveCcb' = haveCcb
        /\ owners' = owners + 1 /\ ccbs' = ccbs /\ ccbFailed' = ccbFailed
        /\ orphaned' = orphaned
    BY <1>9 DEF AdminOwnerInitialize
  <2>3. owners = 0 /\ ~orphaned /\ ~haveCcb
    BY <2>1, Numbers DEF SessionFlags
  <2>4. QED
    BY <2>2, <2>3, Numbers DEF SessionFlags, FlagTypes, SessionInStep
<1>10. CASE AdminOwnerFinalize
  <2>1. /\ immOmHandle' = immOmHandle /\ haveAdminOwner' = FALSE /\ haveCcb' = FALSE
        /\ owners > 0 /\ owners' = 0 /\ ccbs' = 0 /\ ccbFailed' = FALSE
        /\ orphaned' = orphaned
    BY <1>10 DEF AdminOwnerFinalize, OwnerGone
  <2>2. ~orphaned
    BY <2>1, Numbers
  <2>3. QED
    BY <2>1, <2>2 DEF SessionFlags, FlagTypes, SessionInStep
<1>11. CASE CcbInitialize
  <2>1. ~haveCcb
    BY <1>2, <1>11 DEF CcbInitialize, Checked, Refused
  <2>2. /\ immOmHandle' = immOmHandle /\ haveAdminOwner' = haveAdminOwner
        /\ haveCcb' = TRUE /\ owners > 0 /\ owners' = owners
        /\ ccbs' = ccbs + 1 /\ ccbFailed' = FALSE /\ orphaned' = orphaned
    BY <1>11 DEF CcbInitialize
  <2>3. ccbs = 0 /\ haveAdminOwner /\ ~orphaned /\ owners = 1 /\ immOmHandle
    BY <2>1, <2>2, Numbers
  <2>4. FlagTypes'
    BY <2>2, Zenon DEF SessionFlags, FlagTypes
  <2>5. haveCcb' /\ haveAdminOwner' /\ ~orphaned' /\ immOmHandle'
    BY <2>2, <2>3, Zenon
  <2>6. ccbs' = 1 /\ owners' = 1
    BY <2>2, <2>3
  <2>7. QED
    BY <2>4, <2>5, <2>6 DEF SessionFlags, FlagTypes, SessionInStep
<1>12. CASE CcbAborted
  <2>1. UNCHANGED <<binding, owners, ccbs, orphaned>> /\ ccbFailed' = TRUE
    BY <1>12 DEF CcbAborted
  <2>2. QED
    BY <2>1 DEF binding, SessionFlags, FlagTypes, SessionInStep
<1>13. CASE CcbFinalize
  <2>1. /\ immOmHandle' = immOmHandle /\ haveAdminOwner' = haveAdminOwner
        /\ haveCcb' = FALSE /\ owners' = owners /\ ccbs > 0
        /\ ccbs' = ccbs - 1 /\ ccbFailed' = FALSE /\ orphaned' = orphaned
    BY <1>13 DEF CcbFinalize
  <2>2. ccbs' = 0
    BY <2>1, Numbers
  <2>3. FlagTypes'
    BY <2>1, Zenon DEF SessionFlags, FlagTypes
  <2>4. ~haveCcb'
    BY <2>1, Zenon
  <2>5. /\ immOmHandle' <=> immOmHandle
        /\ haveAdminOwner' <=> haveAdminOwner
        /\ orphaned' <=> orphaned
    BY <2>1, Zenon
  <2>6. QED
    BY <2>1, <2>2, <2>3, <2>4, <2>5 DEF SessionFlags, FlagTypes, SessionInStep
<1>14. QED
  BY <1>3, <1>4, <1>5, <1>6, <1>7, <1>8, <1>9, <1>10, <1>11, <1>12, <1>13 DEF Next

----------------------------------------------------------------------------
(****************************************************************************)
(* What a step does to the objects.                                         *)
(****************************************************************************)
LEMMA CurrentIsDownCall ==
  ASSUME Scripts, script # <<>>
  PROVE  Current.on \subseteq Object
<1>1. Current \in DownCall
  BY HeadTailProperties DEF Scripts, Current
<1>2. QED
  BY <1>1 DEF DownCall

\* A subtree leaves no object without its parent: there are two levels.
LEMMA DeleteKeepsContents ==
  ASSUME NEW c \in Contents, NEW o \in Object,
         NEW d, d = [p \in Object |-> IF p \in Subtree(o) THEN Absent ELSE c[p]]
  PROVE  d \in Contents
<1>1. d \in [Object -> Value \cup {Absent}]
  BY DEF Contents
<1>2. ASSUME NEW p \in Existing(d) PROVE Parent[p] \in Existing(d) \cup {Absent}
  <2>1. p \in Object /\ p \notin Subtree(o) /\ c[p] # Absent
    BY <1>2 DEF Existing
  <2>2. CASE Parent[p] = Absent
    BY <2>2
  <2>3. CASE Parent[p] # Absent
    <3>1. Parent[p] \in Object /\ c[Parent[p]] # Absent
      BY <2>1, <2>3 DEF Contents, Existing
    <3>2. Parent[p] # o
      BY <2>1 DEF Subtree
    <3>3. Parent[Parent[p]] # o
      BY <2>1, <2>3, ImmOmAssumption
    <3>4. Parent[p] \notin Subtree(o)
      BY <3>2, <3>3 DEF Subtree
    <3>5. QED
      BY <3>1, <3>4 DEF Existing
  <2>4. QED
    BY <2>2, <2>3
<1>3. QED
  BY <1>1, <1>2 DEF Contents

\* An object is created, or modified, below a parent that exists.
LEMMA AssignKeepsContents ==
  ASSUME NEW c \in Contents, NEW o \in Object, NEW v \in Value,
         Parent[o] \in Existing(c) \cup {Absent}
  PROVE  [c EXCEPT ![o] = v] \in Contents
<1> DEFINE d == [c EXCEPT ![o] = v]
<1>1. c \in [Object -> Value \cup {Absent}] /\ v # Absent
  BY ImmOmAssumption DEF Contents
<1>2. d \in [Object -> Value \cup {Absent}]
  BY <1>1
<1>3. Existing(d) = Existing(c) \cup {o}
  BY <1>1 DEF Existing
<1>4. \A p \in Existing(d) : Parent[p] \in Existing(d) \cup {Absent}
  BY <1>3 DEF Contents
<1>5. QED
  BY <1>2, <1>4 DEF Contents

LEMMA ObjectsStep ==
  ASSUME Scripts, Objects, [Next]_vars
  PROVE  Objects'
<1>1. ASSUME UNCHANGED tree PROVE Objects'
  BY <1>1 DEF tree, Objects, Contents, Existing
<1>2. ASSUME NEW c \in Contents PROVE c \in Contents'
  BY DEF Contents, Existing
<1>3. ASSUME objects' \in Contents, draft' \in Contents, owned' \subseteq Object
      PROVE  Objects'
  BY <1>2, <1>3 DEF Objects
<1>4. ASSUME In("call") PROVE Current.on \subseteq Object
  BY <1>4, CurrentIsDownCall DEF In
<1>5. CASE UNCHANGED vars
  BY <1>1, <1>5 DEF vars, service
<1>6. CASE \/ Call \/ Refuse \/ Enter \/ ParseFails \/ NamesFail \/ DefaultFails
           \/ ParseDone \/ ServiceFails \/ AdminOperationInvoke \/ Other
           \/ \E n \in Size : Parse(n)
  BY <1>1, <1>6, EnterDoes, OtherDoes
     DEF Call, Refuse, ParseFails, NamesFail, DefaultFails, ParseDone,
         ServiceFails, AdminOperationInvoke, Parse, KeepSession, service
<1>7. CASE Initialize \/ AdminOwnerInitialize \/ CcbInitialize
  BY <1>1, <1>7 DEF Initialize, AdminOwnerInitialize, CcbInitialize, service
<1>8. CASE Finalize \/ AdminOwnerFinalize \/ CcbAborted \/ CcbFinalize
  <2>1. objects' = objects /\ draft' = objects /\ owned' \subseteq owned
    BY <1>8 DEF Finalize, AdminOwnerFinalize, CcbAborted, CcbFinalize, OwnerGone
  <2>2. QED
    BY <1>3, <2>1 DEF Objects
<1>9. CASE AdminOwnerSet
  <2>1. /\ objects' = objects /\ draft' = draft
        /\ owned' \subseteq owned \cup Existing(draft) \cup Existing(objects)
    BY <1>9 DEF AdminOwnerSet
  <2>2. QED
    BY <1>3, <2>1 DEF Objects, Existing
<1>10. CASE AdminOwnerClear
  BY <1>3, <1>10 DEF AdminOwnerClear, Objects
<1>11. CASE CcbApply
  BY <1>3, <1>11 DEF CcbApply, Objects
<1>12. CASE CcbObjectDelete
  <2>1. objects' = objects /\ owned' = owned /\ Current.on \subseteq Object
    BY <1>4, <1>12 DEF CcbObjectDelete, InCcb, Served, KeepObjects
  <2>2. PICK o \in Current.on :
          draft' = [p \in Object |-> IF p \in Subtree(o) THEN Absent ELSE draft[p]]
    BY <1>12 DEF CcbObjectDelete
  <2>3. draft' \in Contents
    BY <2>1, <2>2, DeleteKeepsContents DEF Objects
  <2>4. QED
    BY <1>3, <2>1, <2>3 DEF Objects
<1>13. CASE CcbObjectCreate
  <2>1. objects' = objects /\ Current.on \subseteq Object
    BY <1>4, <1>13 DEF CcbObjectCreate, InCcb, Served, KeepObjects
  <2>2. PICK o \in Current.on, v \in Value :
          /\ Parent[o] \in (owned \cap Existing(draft)) \cup {Absent}
          /\ draft' = [draft EXCEPT ![o] = v]
          /\ owned' = owned \cup {o}
    BY <1>13 DEF CcbObjectCreate
  <2>3. draft' \in Contents
    BY <2>1, <2>2, AssignKeepsContents DEF Objects
  <2>4. QED
    BY <1>3, <2>1, <2>2, <2>3 DEF Objects
<1>14. CASE CcbObjectModify
  <2>1. objects' = objects /\ owned' = owned
    BY <1>14 DEF CcbObjectModify, KeepObjects
  <2>2. PICK o \in Existing(draft), v \in Value : draft' = [draft EXCEPT ![o] = v]
    BY <1>14 DEF CcbObjectModify
  <2>3. o \in Object /\ Parent[o] \in Existing(draft) \cup {Absent}
    BY <2>2 DEF Objects, Contents, Existing
  <2>4. draft' \in Contents
    BY <2>2, <2>3, AssignKeepsContents DEF Objects
  <2>5. QED
    BY <1>3, <2>1, <2>4 DEF Objects
<1>15. QED
  BY <1>5, <1>6, <1>7, <1>8, <1>9, <1>10, <1>11, <1>12, <1>13, <1>14 DEF Next

----------------------------------------------------------------------------
(****************************************************************************)
(* The admin owner: every function of immom.py prepares its calls, and what *)
(* a call does leaves the rest of them prepared.                            *)
(****************************************************************************)
\* A function takes the ownership that its later calls need.
Ready(s) ==
  /\ \A i \in 1..Len(s) : Needs(s[i]) = {} \/ \E j \in 1..(i - 1) : Prepares(s[j], s[i])
  /\ AloneIn(s)

LEMMA NeedsOf ==
  ASSUME NEW os
  PROVE  /\ On("AdminOwnerSet", os).f = "AdminOwnerSet"
         /\ Needs(On("AdminOwnerSet", os)) = {} /\ Scope(On("AdminOwnerSet", os)) = os
         /\ On("CcbObjectDelete", os).f = "CcbObjectDelete"
         /\ Needs(On("CcbObjectDelete", os)) = os
         /\ On("AdminOperationInvoke", os).f = "AdminOperationInvoke"
         /\ Needs(On("AdminOperationInvoke", os)) = os
         /\ On("CcbObjectCreate", os).f = "CcbObjectCreate"
         /\ Needs(On("CcbObjectCreate", os)) = {Parent[o] : o \in os} \ {Absent}
         /\ Read.f = "Read" /\ Needs(Read) = {}
BY DEF Needs, On, Scope, Read

\* A function of one call that needs nothing.
LEMMA OneIsReady ==
  ASSUME NEW c, c.f \notin {"CcbObjectDelete", "AdminOperationInvoke", "CcbObjectCreate"}
  PROVE  Ready(<<c>>)
<1>1. Needs(c) = {}
  BY DEF Needs
<1>2. Len(<<c>>) = 1 /\ \A i \in 1..1 : <<c>>[i] = c
  OBVIOUS
<1>3. QED
  BY <1>1, <1>2 DEF Ready, AloneIn

\* The calls of s, once c has been made, find what they need.
After(c, s) ==
  \A i \in 1..Len(s) :
    /\ s[i].f \notin Ending
    /\ \/ Needs(s[i]) = {} \/ Prepares(c, s[i])
       \/ \E j \in 1..(i - 1) : Prepares(s[j], s[i])

LEMMA Prepend ==
  ASSUME NEW S, NEW c \in S, NEW s \in Seq(S),
         Needs(c) = {}, c.f \notin Ending, After(c, s)
  PROVE  Ready(<<c>> \o s) /\ \A d : After(d, <<c>> \o s)
<1> DEFINE t == <<c>> \o s
<1>1. /\ Len(s) \in Nat /\ Len(t) = Len(s) + 1 /\ t[1] = c
      /\ \A i \in 1..Len(s) : t[i + 1] = s[i]
  <2>1. <<c>> \in Seq(S) /\ Len(<<c>>) = 1 /\ <<c>>[1] = c /\ Len(s) \in Nat
    OBVIOUS
  <2>2. QED
    BY <2>1, ConcatProperties
<1> HIDE DEF t
<1>2. ASSUME NEW i \in 1..Len(t)
      PROVE  /\ t[i].f \notin Ending
             /\ Needs(t[i]) = {} \/ \E j \in 1..(i - 1) : Prepares(t[j], t[i])
  <2>1. CASE i = 1
    BY <1>1, <2>1
  <2>2. CASE i # 1
    <3>1. i - 1 \in 1..Len(s) /\ t[i] = s[i - 1]
      <4>1. i - 1 \in 1..Len(s) /\ (i - 1) + 1 = i
        BY <1>1, <2>2
      <4>2. QED
        BY <1>1, <4>1
    <3>2. CASE Prepares(c, s[i - 1])
      <4>1. 1 \in 1..(i - 1)
        BY <1>1, <2>2
      <4>2. QED
        BY <1>1, <3>1, <3>2, <4>1 DEF After
    <3>3. CASE \E j \in 1..(i - 1 - 1) : Prepares(s[j], s[i - 1])
      <4>1. PICK j \in 1..(i - 1 - 1) : Prepares(s[j], s[i - 1])
        BY <3>3
      <4>2. j \in 1..Len(s) /\ j + 1 \in 1..(i - 1)
        BY <1>1
      <4>3. Prepares(t[j + 1], t[i])
        BY <1>1, <3>1, <4>1, <4>2
      <4>4. QED
        BY <3>1, <4>2, <4>3 DEF After
    <3>4. QED
      BY <3>1, <3>2, <3>3 DEF After
  <2>3. QED
    BY <2>1, <2>2
<1>3. QED
  BY <1>2 DEF Ready, AloneIn, After, t

LEMMA OneAfter ==
  ASSUME NEW S, NEW c \in S, NEW d \in S, c.f \notin Ending,
         Needs(c) = {} \/ Prepares(d, c)
  PROVE  <<c>> \in Seq(S) /\ After(d, <<c>>)
<1>1. <<c>> \in Seq(S) /\ Len(<<c>>) = 1 /\ \A i \in 1..1 : <<c>>[i] = c
  OBVIOUS
<1>2. QED
  BY <1>1 DEF After

LEMMA CreateIsReady ==
  ASSUME NEW o \in Object
  PROVE  Ready(createobject(o)) /\ Ready(copyobject(o))
<1> DEFINE create == On("CcbObjectCreate", {o})
           own == On("AdminOwnerSet", {Parent[o]})
           S == {Read, own, create}
<1>1. create.f = "CcbObjectCreate" /\ Needs(create) = {Parent[o]} \ {Absent}
  <2>1. {Parent[p] : p \in {o}} = {Parent[o]}
    OBVIOUS
  <2>2. QED
    BY <2>1, NeedsOf
<1>2. Read.f = "Read" /\ Needs(Read) = {}
  BY NeedsOf
<1>3. own.f = "AdminOwnerSet" /\ Needs(own) = {} /\ Scope(own) = {Parent[o]}
  BY NeedsOf
<1>4. createobject(o) = (<<Read>> \o SetOwner({Parent[o]} \ {Absent})) \o <<create>>
  BY DEF createobject
<1> HIDE DEF create, own
<1>5. <<Read>> \in Seq(S) /\ <<create>> \in Seq(S) /\ Read \in S /\ own \in S /\ create \in S
  OBVIOUS
<1>6. SetOwner({Parent[o]} \ {Absent}) = IF Parent[o] = Absent THEN <<>> ELSE <<own>>
  BY DEF SetOwner, own
<1>7. DEFINE rest == SetOwner({Parent[o]} \ {Absent}) \o <<create>>
<1>8. createobject(o) = <<Read>> \o rest
  <2>1. SetOwner({Parent[o]} \ {Absent}) \in Seq(S)
    <3>1. <<own>> \in Seq(S) /\ <<>> \in Seq(S)
      BY <1>5
    <3> HIDE DEF S
    <3>2. QED
      BY <1>6, <3>1
  <2>2. QED
    BY <1>4, <1>5, <2>1, ConcatAssociative
<1>9. rest \in Seq(S) /\ After(Read, rest)
  <2>1. CASE Parent[o] = Absent
    <3>1. rest = <<create>>
      BY <1>5, <1>6, <2>1, ConcatEmptySeq
    <3>2. Needs(create) = {} /\ create.f \notin Ending
      BY <1>1, <2>1 DEF Ending
    <3>3. QED
      BY <1>5, <3>1, <3>2, OneAfter
  <2>2. CASE Parent[o] # Absent
    <3>1. rest = <<own>> \o <<create>>
      BY <1>6, <2>2
    <3>2. Prepares(own, create) /\ own.f \notin Ending /\ create.f \notin Ending
      BY <1>1, <1>3 DEF Prepares, Ending
    <3>3. <<create>> \in Seq(S) /\ After(own, <<create>>)
      BY <1>5, <3>2, OneAfter
    <3>4. After(Read, rest)
      BY <1>3, <1>5, <3>1, <3>2, <3>3, Prepend
    <3>5. <<own>> \in Seq(S)
      BY <1>5
    <3>6. QED
      BY <3>1, <3>3, <3>4, <3>5, ConcatProperties
  <2>3. QED
    BY <2>1, <2>2
<1>10. Read.f \notin Ending
  BY <1>2 DEF Ending
<1> HIDE DEF rest, S
<1>11. Ready(createobject(o)) /\ \A d : After(d, createobject(o))
  BY <1>2, <1>5, <1>8, <1>9, <1>10, Prepend
<1>12. createobject(o) \in Seq(S)
  BY <1>5, <1>8, <1>9, ConcatProperties
<1>13. Ready(<<Read>> \o createobject(o))
  BY <1>2, <1>5, <1>10, <1>11, <1>12, Prepend
<1>14. QED
  BY <1>11, <1>13 DEF copyobject

LEMMA DeleteIsReady ==
  ASSUME NEW l \in Lists
  PROVE  Ready(deleteobjects(l))
<1> DEFINE on == {l[i] : i \in DOMAIN l}
           own == On("AdminOwnerSet", on)
           rest == [i \in DOMAIN l |-> On("CcbObjectDelete", {l[i]})]
           S == {own} \cup {On("CcbObjectDelete", {x}) : x \in on}
<1>1. DOMAIN l = 1..Len(l) /\ Len(l) \in Nat
  <2>1. CASE \E o \in Object : l = <<o>>
    BY <2>1
  <2>2. CASE \E o, p \in Object : l = <<o, p>>
    BY <2>2
  <2>3. QED
    BY <2>1, <2>2 DEF Lists
<1>2. own.f = "AdminOwnerSet" /\ Needs(own) = {} /\ Scope(own) = on
  BY NeedsOf
<1>3. rest \in Seq(S) /\ Len(rest) = Len(l) /\ own \in S
  <2>1. own \in S /\ rest \in [1..Len(l) -> S]
    BY <1>1
  <2> HIDE DEF own, rest, S
  <2>2. rest \in Seq(S)
    BY <1>1, <2>1, SeqDef
  <2>3. QED
    BY <1>1, <2>1, <2>2
<1>4. ASSUME NEW i \in 1..Len(rest)
      PROVE  rest[i].f \notin Ending /\ Prepares(own, rest[i])
  <2>1. i \in DOMAIN l /\ l[i] \in on
    BY <1>1, <1>3
  <2>2. rest[i] = On("CcbObjectDelete", {l[i]})
    BY <2>1
  <2>3. rest[i].f = "CcbObjectDelete" /\ Needs(rest[i]) = {l[i]}
    BY <2>2, NeedsOf
  <2>4. QED
    BY <1>2, <2>1, <2>3 DEF Prepares, Ending
<1>5. deleteobjects(l) = <<own>> \o rest
  BY DEF deleteobjects
<1> HIDE DEF own, rest, S
<1>6. After(own, rest)
  BY <1>4 DEF After
<1>7. own.f \notin Ending
  BY <1>2 DEF Ending
<1>8. QED
  BY <1>2, <1>3, <1>5, <1>6, <1>7, Prepend

LEMMA SubtreeIsReady ==
  ASSUME NEW o \in Object
  PROVE  Ready(deletesubtree(o))
<1> DEFINE own == [On("AdminOwnerSet", {o}) EXCEPT !.scope = "SA_IMM_SUBTREE"]
           delete == [On("CcbObjectDelete", {o}) EXCEPT !.scope = "SA_IMM_SUBTREE"]
<1>1. own.f = "AdminOwnerSet" /\ own.scope = "SA_IMM_SUBTREE" /\ own.on = {o}
  BY DEF On
<1>2. /\ delete.f = "CcbObjectDelete" /\ delete.scope = "SA_IMM_SUBTREE"
      /\ delete.on = {o}
  BY DEF On
<1>3. deletesubtree(o) = <<own, delete>>
  BY DEF deletesubtree
<1> HIDE DEF own, delete
<1>4. Needs(own) = {} /\ Needs(delete) = Scope(own)
  BY <1>1, <1>2 DEF Needs, Scope
<1>5. Prepares(own, delete)
  BY <1>1, <1>4 DEF Prepares
<1>6. /\ Len(<<own, delete>>) = 2
      /\ <<own, delete>>[1] = own /\ <<own, delete>>[2] = delete
  OBVIOUS
<1>7. QED
  BY <1>1, <1>2, <1>3, <1>4, <1>5, <1>6 DEF Ready, AloneIn, Ending

LEMMA FunctionsAreReady == \A s \in Functions : Ready(s)
<1>1. ASSUME NEW f \in DownCallName \ {"CcbObjectDelete", "AdminOperationInvoke", "CcbObjectCreate"}
      PROVE  Ready(Plain(f))
  <2>1. On(f, {}).f = f
    BY DEF On
  <2>2. QED
    BY <2>1, OneIsReady DEF Plain
<1>2. \A s \in Connection \cup OwnerFunctions \cup CcbFunctions \cup ClassFunctions : Ready(s)
  BY <1>1 DEF Connection, OwnerFunctions, CcbFunctions, ClassFunctions, DownCallName, Named, Listed
<1>7. Ready(<<Read>>)
  BY <1>1 DEF Plain, Read, DownCallName
<1>3. ASSUME NEW o \in Object PROVE Ready(adminoperation(o))
  <2> DEFINE own == On("AdminOwnerSet", {o})
             invoke == On("AdminOperationInvoke", {o})
             S == {own, invoke}
  <2>1. own.f = "AdminOwnerSet" /\ Needs(own) = {} /\ Scope(own) = {o}
    BY NeedsOf
  <2>2. invoke.f = "AdminOperationInvoke" /\ Needs(invoke) = {o}
    BY NeedsOf
  <2>3. adminoperation(o) = <<own>> \o <<invoke>>
    BY DEF adminoperation, SetOwner
  <2> HIDE DEF own, invoke
  <2>4. Prepares(own, invoke) /\ own.f \notin Ending /\ invoke.f \notin Ending
    BY <2>1, <2>2 DEF Prepares, Ending
  <2>5. own \in S /\ invoke \in S
    OBVIOUS
  <2>6. <<invoke>> \in Seq(S) /\ After(own, <<invoke>>)
    BY <2>4, <2>5, OneAfter
  <2>7. QED
    BY <2>1, <2>3, <2>4, <2>5, <2>6, Prepend
<1>4. ASSUME NEW o \in Object PROVE Ready(modifyobject(o))
  <2>1. On("CcbObjectModify", {o}).f = "CcbObjectModify"
    BY DEF On
  <2>2. QED
    BY <2>1, OneIsReady DEF modifyobject
<1>5. ASSUME NEW o \in Object, NEW scope PROVE Ready(adminowner_clear(o, scope))
  <2>1. [On("AdminOwnerClear", {o}) EXCEPT !.scope = scope].f = "AdminOwnerClear"
    BY DEF On
  <2>2. QED
    BY <2>1, OneIsReady DEF adminowner_clear
<1>6. QED
  BY <1>2, <1>3, <1>4, <1>5, <1>7, SubtreeIsReady, CreateIsReady, DeleteIsReady DEF Functions

\* What names an AdminOwnerSet is one, unless it ends the function.
LEMMA ReturnsAsNamed ==
  ASSUME Next, In("call"), Return, Current.f = "AdminOwnerSet"
  PROVE  AdminOwnerSet \/ script' = <<>>
BY EnterDoes, OtherDoes
   DEF Next, Call, Refuse, Parse, ParseFails, NamesFail, DefaultFails, ParseDone,
       ServiceFails, Raise, CcbAborted,
       Initialize, Finalize, AdminOwnerInitialize, AdminOwnerFinalize,
       AdminOwnerClear, CcbInitialize, CcbApply, CcbFinalize, CcbObjectDelete,
       CcbObjectCreate, CcbObjectModify, AdminOperationInvoke, Served, InCcb, In,
       Return

\* A call that is not alone takes no ownership away from what is there.
LEMMA KeepsOwned ==
  ASSUME Scripts, Objects, Next, In("call"), Return, Current.f \notin Ending,
         NEW D, D \cap Present \subseteq owned
  PROVE  D \cap Present' \subseteq owned'
<1>1. script' = Tail(script) /\ script # <<>> /\ phase = "call" /\ phase' = "enter"
  BY DEF Return, In
<1>2. CASE UNCHANGED tree
  BY <1>2 DEF tree, Present, Existing
<1>3. CASE AdminOwnerSet
  BY <1>3 DEF AdminOwnerSet, Present, Existing
<1>4. CASE CcbApply \/ CcbFinalize
  BY <1>4 DEF CcbApply, CcbFinalize, Present, Existing
<1>5. CASE CcbAborted
  <2>1. owned' = owned \cap Existing(objects) /\ draft' = objects /\ objects' = objects
    BY <1>5 DEF CcbAborted
  <2>2. QED
    BY <2>1 DEF Present, Existing
<1>6. CASE CcbObjectDelete
  <2>1. objects' = objects /\ owned' = owned
    BY <1>6 DEF CcbObjectDelete, KeepObjects
  <2>2. PICK o : draft' = [p \in Object |-> IF p \in Subtree(o) THEN Absent ELSE draft[p]]
    BY <1>6 DEF CcbObjectDelete
  <2>3. Existing(draft') \subseteq Existing(draft)
    BY <2>2 DEF Existing
  <2>4. QED
    BY <2>1, <2>3 DEF Present, Existing
<1>7. CASE CcbObjectCreate
  <2>1. objects' = objects
    BY <1>7 DEF CcbObjectCreate, KeepObjects
  <2>2. PICK o \in Current.on, v \in Value :
          draft' = [draft EXCEPT ![o] = v] /\ owned' = owned \cup {o}
    BY <1>7 DEF CcbObjectCreate
  <2>3. Existing(draft') \subseteq Existing(draft) \cup {o}
    BY <2>2 DEF Existing, Objects, Contents
  <2>4. QED
    BY <2>1, <2>2, <2>3 DEF Present, Existing
<1>8. CASE CcbObjectModify
  <2>1. objects' = objects /\ owned' = owned
    BY <1>8 DEF CcbObjectModify, KeepObjects
  <2>2. PICK o \in Existing(draft), v \in Value : draft' = [draft EXCEPT ![o] = v]
    BY <1>8 DEF CcbObjectModify
  <2>3. Existing(draft') \subseteq Existing(draft)
    BY <2>2 DEF Existing, Objects, Contents
  <2>4. QED
    BY <2>1, <2>3 DEF Present, Existing
<1>9. CASE Finalize \/ AdminOwnerFinalize \/ AdminOwnerClear
  BY <1>9 DEF Finalize, AdminOwnerFinalize, AdminOwnerClear, Served, Ending
<1>10. QED
  BY <1>1, <1>2, <1>3, <1>4, <1>5, <1>6, <1>7, <1>8, <1>9, EnterDoes, OtherDoes
     DEF Next, Call, Refuse, Parse, ParseFails, NamesFail, DefaultFails, ParseDone,
         ServiceFails, Initialize, AdminOwnerInitialize, CcbInitialize,
         AdminOperationInvoke, KeepSession, service, In

\* What the AdminOwnerSet at the head of the script has taken is owned.
LEMMA SetTakes ==
  ASSUME AdminOwnerSet, NEW d, Prepares(Current, d)
  PROVE  Needs(d) \cap Present' \subseteq owned'
<1>1. /\ Needs(d) \subseteq Scope(Current) /\ Present' = Present
      /\ owned' = owned \cup (Scope(Current) \cap Present)
  BY DEF AdminOwnerSet, Prepares, Present, Existing
<1>2. QED
  BY <1>1

\* A down-call that returns goes on to the next one of its function.
LEMMA ReturnStep ==
  ASSUME Scripts, Objects, Ownership, Next, In("call"), Return
  PROVE  Ownership'
<1>1. script \in Seq(DownCall) /\ script # <<>> /\ script' = Tail(script)
  BY DEF Scripts, In, Return
<1>2. /\ Len(script) \in Nat /\ Len(script) >= 1 /\ Len(script') = Len(script) - 1
      /\ Current = script[1]
      /\ \A i \in 1..Len(script') : script'[i] = script[i + 1]
  BY <1>1, HeadTailProperties DEF Current
<1>3. AloneIn(script')
  <2>1. SUFFICES ASSUME NEW i \in 1..Len(script'), script'[i].f \in Ending
                 PROVE  FALSE
    BY DEF AloneIn
  <2>2. i + 1 \in 1..Len(script) /\ script[i + 1].f \in Ending /\ Len(script) >= 2
    BY <1>2, <2>1
  <2>3. QED
    BY <2>2 DEF Ownership, AloneIn
<1>4. ASSUME NEW i \in 1..Len(script') PROVE PreparedAt(script, i)'
  <2>1. /\ i + 1 \in 1..Len(script) /\ 1 \in 1..Len(script) /\ Len(script) # 1
        /\ script'[i] = script[i + 1]
    BY <1>2
  <2>2. Current.f \notin Ending
    BY <1>2, <2>1 DEF Ownership, AloneIn
  <2>3. PreparedAt(script, i + 1)
    BY <2>1 DEF Ownership, Prepared
  <2>4. CASE Needs(script[i + 1]) \cap Present \subseteq owned
    <3>1. Needs(script[i + 1]) \cap Present' \subseteq owned'
      BY <2>2, <2>4, KeepsOwned
    <3>2. QED
      BY <2>1, <3>1 DEF PreparedAt
  <2>5. CASE \E j \in 1..i : Prepares(script[j], script[i + 1])
    <3>1. PICK j \in 1..i : Prepares(script[j], script[i + 1])
      BY <2>5
    <3>2. CASE j = 1
      <4>1. Current.f = "AdminOwnerSet" /\ Prepares(Current, script[i + 1])
        BY <1>2, <3>1, <3>2 DEF Prepares
      <4>2. AdminOwnerSet \/ ~(script' # <<>>)
        BY <4>1, ReturnsAsNamed
      <4>3. script' # <<>>
        BY <1>2
      <4>4. Needs(script[i + 1]) \cap Present' \subseteq owned'
        BY <4>1, <4>2, <4>3, SetTakes
      <4>5. QED
        BY <2>1, <4>4 DEF PreparedAt
    <3>3. CASE j # 1
      <4>1. j - 1 \in 1..(i - 1) /\ j - 1 \in 1..Len(script') /\ (j - 1) + 1 = j
        BY <1>2, <3>3
      <4>2. script'[j - 1] = script[j]
        BY <1>2, <4>1
      <4>3. Prepares(script'[j - 1], script'[i])
        BY <2>1, <3>1, <4>2
      <4>4. QED
        BY <4>1, <4>3 DEF PreparedAt, Prepares, Needs, Scope
    <3>4. QED
      BY <3>2, <3>3
  <2>6. \/ Needs(script[i + 1]) \cap Present \subseteq owned
        \/ \E j \in 1..i : Prepares(script[j], script[i + 1])
    <3>1. (i + 1) - 1 = i
      BY <2>1
    <3>2. QED
      BY <2>3, <3>1 DEF PreparedAt
  <2>7. QED
    BY <2>4, <2>5, <2>6
<1>5. QED
  BY <1>3, <1>4 DEF Ownership, Prepared, AloneIn

LEMMA OwnershipStep ==
  ASSUME Scripts, Objects, Ownership, [Next]_vars
  PROVE  Ownership'
<1>1. CASE script' = script /\ UNCHANGED tree
  <2>1. Present' = Present /\ owned' = owned
    BY <1>1 DEF tree, Present, Existing
  <2>2. QED
    BY <1>1, <2>1 DEF Ownership, Prepared, PreparedAt, AloneIn, Prepares, Needs, Scope
<1>2. CASE script' = <<>>
  BY <1>2 DEF Ownership, Prepared, AloneIn
<1>3. CASE Call
  <2>1. Ready(script')
    BY <1>3, FunctionsAreReady DEF Call
  <2>2. QED
    BY <2>1 DEF Ready, Ownership, Prepared, PreparedAt, AloneIn, Prepares, Needs, Scope
<1>4. CASE Next /\ In("call") /\ Return
  BY <1>4, ReturnStep
<1>5. CASE UNCHANGED vars
  BY <1>1, <1>5 DEF vars, call, service
<1>6. CASE Refuse \/ ParseFails \/ (In("call") /\ Raise)
  BY <1>2, <1>6 DEF Refuse, ParseFails, Raise
<1>7. CASE Enter \/ NamesFail \/ DefaultFails \/ ParseDone \/ \E n \in Size : Parse(n)
  BY <1>1, <1>7, EnterDoes
     DEF NamesFail, DefaultFails, ParseDone, Parse, call, KeepSession, service
<1>8. QED
  BY <1>2, <1>3, <1>4, <1>5, <1>6, <1>7, Shape


----------------------------------------------------------------------------
LEMMA InitIInv == Init => IInv
<1>1. SUFFICES ASSUME Init PROVE IInv
  OBVIOUS
<1>2. /\ script = <<>> /\ phase = "enter" /\ args = "none"
      /\ memChunk = <<>> /\ asked = 0
      /\ objects \in Contents /\ draft = objects /\ owned = {}
  BY <1>1 DEF Init, MemInit
<1>3. Scripts /\ Checked
  BY <1>2, EmptySeq DEF Scripts, Checked
<1>4. Memory
  BY <1>2, EmptySeq, ImmOmAssumption DEF Memory
<1>5. Objects
  BY <1>2 DEF Objects
<1>6. Ownership
  BY <1>2 DEF Ownership, Prepared, AloneIn
<1>7. QED
  BY <1>1, <1>3, <1>4, <1>5, <1>6, SessionInit DEF IInv

LEMMA NextIInv == IInv /\ [Next]_vars => IInv'
BY ScriptsStep, CheckedStep, MemoryStep, SessionStep, ObjectsStep, OwnershipStep DEF IInv

(****************************************************************************)
(* What immombin.c knows of the session, holds of the memory and makes of   *)
(* the objects, whatever is called, refused and failed.                     *)
(****************************************************************************)
THEOREM Invariance == Spec => []IInv
BY InitIInv, NextIInv, PTL DEF Spec

\* The types are kept; in particular the objects always form a tree.
THEOREM TypeCorrect == Spec => []TypeOK
<1>1. IInv => TypeOK
  <2>1. SUFFICES ASSUME IInv PROVE TypeOK
    OBVIOUS
  <2>2. FlagTypes
    BY <2>1 DEF IInv, SessionFlags
  <2>3. {immOmHandle, haveAdminOwner, haveCcb, ccbFailed, orphaned} \subseteq BOOLEAN
    BY <2>2, Zenon DEF FlagTypes
  <2>4. owners \in Nat /\ ccbs \in Nat
    BY <2>1, Numbers DEF IInv
  <2>5. QED
    BY <2>1, <2>3, <2>4 DEF IInv, Scripts, Memory, Objects, TypeOK
<1>2. QED
  BY <1>1, Invariance, PTL

\* The flags of immombin.c follow what the service holds, but for what the end
\* of the handle took away.
THEOREM InStep == Spec => []SessionInStep
<1>1. IInv => SessionInStep
  BY DEF IInv, SessionFlags
<1>2. QED
  BY <1>1, Invariance, PTL

\* The chunks of memget live exactly as long as the down-call, and the service
\* reads no memory that memfreeall has given back, but in ClassCreate.
THEOREM Arena == Spec => []ArenaOutlivesCall
<1>1. IInv => ArenaOutlivesCall
  BY DEF IInv, Memory, ArenaOutlivesCall
<1>2. QED
  BY <1>1, Invariance, PTL

\* What a call of immom.py changes has the admin owner when the service is
\* asked.
THEOREM Owned == Spec => []OwnedWhenChanged
<1>1. IInv => OwnedWhenChanged
  <2>1. SUFFICES ASSUME IInv, In("call") PROVE Needs(Current) \cap Present \subseteq owned
    BY DEF OwnedWhenChanged, Present
  <2>2. script \in Seq(DownCall) /\ script # <<>>
    BY <2>1 DEF IInv, Scripts, In
  <2>3. 1 \in 1..Len(script) /\ Current = script[1]
    BY <2>2, HeadTailProperties DEF Current
  <2>4. PreparedAt(script, 1)
    BY <2>1, <2>3 DEF IInv, Ownership, Prepared
  <2>5. QED
    BY <2>3, <2>4 DEF PreparedAt
<1>2. QED
  BY <1>1, Invariance, PTL

----------------------------------------------------------------------------
(****************************************************************************)
(* The refinement.  A down-call that changes neither flag nor object is a   *)
(* step that the session does not take; saImmOmFinalize, which takes the    *)
(* CCB away, is its Abort.                                                  *)
(****************************************************************************)
LEMMA SessionStutters ==
  ASSUME haveAdminOwner' = haveAdminOwner, haveCcb' = haveCcb,
         objects' = objects, draft' = draft
  PROVE  UNCHANGED Session!session
BY DEF Session!session

LEMMA SessionRefines ==
  ASSUME IInv, IInv', [Next]_vars
  PROVE  [Session!Next]_(Session!session)
<1>1. ASSUME NEW f, Served(f) PROVE phase # "enter" /\ Current.f = f
  BY <1>1 DEF Served, In
<1>2. SessionFlags /\ Checked
  BY DEF IInv
<1>3. draft \in Contents /\ draft' \in Contents
  BY DEF IInv, Objects
<1>4. CASE UNCHANGED vars
  BY <1>4, SessionStutters DEF vars, binding, service, tree
<1>5. CASE \/ Call \/ Refuse \/ Enter \/ ParseFails \/ NamesFail \/ DefaultFails
           \/ ParseDone \/ ServiceFails \/ AdminOperationInvoke \/ Other
           \/ \E n \in Size : Parse(n)
  BY <1>5, SessionStutters, EnterDoes, OtherDoes
     DEF Call, Refuse, ParseFails, NamesFail, DefaultFails, ParseDone,
         ServiceFails, AdminOperationInvoke, Parse, KeepSession,
         binding, service, tree
<1>6. CASE Initialize \/ AdminOwnerSet \/ AdminOwnerClear
  BY <1>6, SessionStutters
     DEF Initialize, AdminOwnerSet, AdminOwnerClear, binding, service, tree
<1>7. CASE Finalize \/ CcbAborted
  <2>1. /\ draft' = objects
        /\ haveAdminOwner' = haveAdminOwner /\ haveCcb' = haveCcb /\ objects' = objects
    BY <1>7 DEF Finalize, CcbAborted, OwnerGone, binding
  <2>2. Session!Abort
    BY <2>1 DEF Session!Abort
  <2>3. QED
    BY <2>2 DEF Session!Next
<1>8. CASE AdminOwnerInitialize
  <2>1. ~haveAdminOwner
    BY <1>1, <1>2, <1>8 DEF AdminOwnerInitialize, Checked, Refused
  <2>2. /\ haveAdminOwner' = TRUE /\ haveCcb' = haveCcb
        /\ objects' = objects /\ draft' = draft
    BY <1>8 DEF AdminOwnerInitialize, tree
  <2>3. Session!AdminOwnerInitialize
    BY <2>1, <2>2, Zenon DEF Session!AdminOwnerInitialize
  <2>4. QED
    BY <2>3 DEF Session!Next
<1>9. CASE AdminOwnerFinalize
  <2>1. haveAdminOwner
    BY <1>1, <1>2, <1>9 DEF AdminOwnerFinalize, Checked, Refused
  <2>2. /\ haveAdminOwner' = FALSE /\ haveCcb' = FALSE
        /\ objects' = objects /\ draft' = objects
    BY <1>9 DEF AdminOwnerFinalize, OwnerGone
  <2>3. Session!AdminOwnerFinalize
    BY <2>1, <2>2, Zenon DEF Session!AdminOwnerFinalize
  <2>4. QED
    BY <2>3 DEF Session!Next
<1>10. CASE CcbInitialize
  <2>1. haveAdminOwner /\ ~haveCcb
    BY <1>1, <1>2, <1>10 DEF CcbInitialize, Checked, Refused
  <2>2. /\ haveAdminOwner' = haveAdminOwner /\ haveCcb' = TRUE
        /\ objects' = objects /\ draft' = draft
    BY <1>10 DEF CcbInitialize, tree
  <2>3. Session!CcbInitialize
    BY <2>1, <2>2, Zenon DEF Session!CcbInitialize
  <2>4. QED
    BY <2>3 DEF Session!Next
<1>11. CASE CcbApply
  <2>1. haveCcb
    BY <1>1, <1>2, <1>11 DEF CcbApply, Checked, Refused
  <2>2. /\ haveAdminOwner' = haveAdminOwner /\ haveCcb' = haveCcb
        /\ objects' = draft /\ draft' = draft
    BY <1>11 DEF CcbApply, binding
  <2>3. Session!Apply
    BY <2>1, <2>2, Zenon DEF Session!Apply
  <2>4. QED
    BY <2>3 DEF Session!Next
<1>12. CASE CcbFinalize
  <2>1. haveCcb
    BY <1>1, <1>2, <1>12 DEF CcbFinalize, Checked, Refused
  <2>2. /\ haveAdminOwner' = haveAdminOwner /\ haveCcb' = FALSE
        /\ objects' = objects /\ draft' = objects
    BY <1>12 DEF CcbFinalize
  <2>3. Session!Finalize
    BY <2>1, <2>2, Zenon DEF Session!Finalize
  <2>4. QED
    BY <2>3 DEF Session!Next
<1>13. CASE CcbObjectDelete \/ CcbObjectCreate \/ CcbObjectModify
  <2>1. haveCcb
    BY <1>1, <1>2, <1>13
       DEF CcbObjectDelete, CcbObjectCreate, CcbObjectModify, InCcb, Checked, Refused, Served, In
  <2>2. /\ haveAdminOwner' = haveAdminOwner /\ haveCcb' = haveCcb /\ objects' = objects
    BY <1>13 DEF CcbObjectDelete, CcbObjectCreate, CcbObjectModify, KeepObjects, binding
  <2>3. Session!Operation
    BY <1>3, <2>1, <2>2, Zenon DEF Session!Operation
  <2>4. QED
    BY <2>3 DEF Session!Next
<1>14. QED
  BY <1>4, <1>5, <1>6, <1>7, <1>8, <1>9, <1>10, <1>11, <1>12, <1>13 DEF Next

(****************************************************************************)
(* The flags of immombin.c and the objects are a session of ImmSession:     *)
(* objects change only when a CCB is applied, and to what its operations    *)
(* made of them.                                                            *)
(****************************************************************************)
THEOREM Implements == Spec => ImplementsSession
<1>1. Init => Session!Init
  <2>1. SUFFICES ASSUME Init PROVE Session!Init
    OBVIOUS
  <2>2. QED
    BY <2>1, Zenon DEF Init, Session!Init
<1>2. IInv /\ IInv' /\ [Next]_vars => [Session!Next]_(Session!session)
  BY SessionRefines
<1>3. QED
  BY <1>1, <1>2, Invariance, PTL DEF Spec, Session!Spec, ImplementsSession

=============================================================================
