-------------------------------- MODULE ImmOm --------------------------------
(****************************************************************************)
(* The IMM object manager in Python.  A function of immom.py is a script of *)
(* down-calls into immombin.c; an exception of one drops the rest.  A       *)
(* down-call checks what immombin.c knows of the session, takes the memory  *)
(* of its arguments while it parses them, calls the service and gives the   *)
(* memory back.  One Python program uses the module; the service (external) *)
(* may refuse any call.                                                     *)
(****************************************************************************)
EXTENDS MemGet

CONSTANTS
  Object, Value,
  Absent,         \* the value of an object that does not exist
  Parent,         \* [Object -> Object \cup {Absent}]; Absent above the roots
                  \* bound: two levels of objects
  MaxAsked        \* bound: bytes asked for in one down-call

ASSUME ImmOmAssumption ==
  /\ Absent \notin Value \cup Object
  /\ Parent \in [Object -> Object \cup {Absent}]
  /\ \A o \in Object : Parent[o] # Absent => Parent[Parent[o]] = Absent
  /\ MaxAsked \in Nat

VARIABLES
  immOmHandle, haveAdminOwner, haveCcb,   \* immombin.c: the session
  script,     \* down-calls that the running function still has to make
  phase,      \* of the first of them: "enter", "parse" or "call"
  args,       \* its arguments: "none", "live", "null" or "dangling"
  owners, ccbs,     \* service: admin owners and CCBs that exist
  ccbFailed,        \* service: the CCB has failed
  objects, draft,   \* service: the objects, and what the CCB makes of them
  owned,            \* service: the objects that have the admin owner
  orphaned          \* history: saImmOmFinalize took an admin owner with it

binding == <<immOmHandle, haveAdminOwner, haveCcb>>
call == <<script, phase, args>>
tree == <<objects, draft, owned>>
service == <<owners, ccbs, ccbFailed, tree>>
vars == <<mem, binding, call, service, orphaned>>

(****************************************************************************)
(* Objects.                                                                 *)
(****************************************************************************)
Existing(c) == {o \in Object : c[o] # Absent}
Contents ==
  {c \in [Object -> Value \cup {Absent}] :
     \A o \in Existing(c) : Parent[o] \in Existing(c) \cup {Absent}}

\* the objects at and below o, for a tree of two levels
Subtree(o) == {o} \cup {p \in Object : Parent[p] = o}
Scope(c) == IF c.scope = "SA_IMM_SUBTREE" THEN UNION {Subtree(o) : o \in c.on} ELSE c.on

(****************************************************************************)
(* The functions of immom.py.                                               *)
(****************************************************************************)
On(f, os) == [f |-> f, on |-> os, scope |-> "SA_IMM_ONE"]
Plain(f) == <<On(f, {})>>
Read == On("Read", {})
SetOwner(os) == IF os = {} THEN <<>> ELSE <<On("AdminOwnerSet", os)>>

deleteobjects(l) ==
  <<On("AdminOwnerSet", {l[i] : i \in DOMAIN l})>>
    \o [i \in DOMAIN l |-> On("CcbObjectDelete", {l[i]})]

deletesubtreeOne(o) ==                                      \* what a mutant does
  <<On("AdminOwnerSet", {o}),
    [On("CcbObjectDelete", {o}) EXCEPT !.scope = "SA_IMM_SUBTREE"]>>
deletesubtree(o) ==
  <<[On("AdminOwnerSet", {o}) EXCEPT !.scope = "SA_IMM_SUBTREE"],
    [On("CcbObjectDelete", {o}) EXCEPT !.scope = "SA_IMM_SUBTREE"]>>

createobject(o) ==
  <<Read>> \o SetOwner({Parent[o]} \ {Absent}) \o <<On("CcbObjectCreate", {o})>>

copyobject(o) == <<Read>> \o createobject(o)
modifyobject(o) == <<On("CcbObjectModify", {o})>>
adminoperation(o) == SetOwner({o}) \o <<On("AdminOperationInvoke", {o})>>

adminowner_clear(o, scope) == <<[On("AdminOwnerClear", {o}) EXCEPT !.scope = scope]>>

\* functions of one down-call; the module is imported with Initialize, and a
\* program may make the down-calls of the connection itself
Connection == {Plain(f) : f \in {"Initialize", "Finalize"}}
OwnerFunctions == {Plain(f) : f \in {"AdminOwnerInitialize", "AdminOwnerFinalize"}}
CcbFunctions == {Plain(f) : f \in {"CcbInitialize", "CcbApply", "CcbFinalize"}}
ClassFunctions == {Plain(f) : f \in {"ClassCreate", "ClassDelete"}}

Lists == {<<o>> : o \in Object} \cup {<<o, p>> : o, p \in Object}

Functions ==
  Connection \cup OwnerFunctions \cup CcbFunctions \cup ClassFunctions \cup {<<Read>>}
    \cup {deleteobjects(l) : l \in Lists}
    \cup UNION {{deletesubtree(o), createobject(o), copyobject(o), modifyobject(o),
                 adminoperation(o), adminowner_clear(o, "SA_IMM_ONE"),
                 adminowner_clear(o, "SA_IMM_SUBTREE")} : o \in Object}

(****************************************************************************)
(* A down-call.                                                             *)
(****************************************************************************)
Init ==
  /\ MemInit
  /\ immOmHandle = FALSE /\ haveAdminOwner = FALSE /\ haveCcb = FALSE
  /\ script = <<>> /\ phase = "enter" /\ args = "none"
  /\ owners = 0 /\ ccbs = 0 /\ ccbFailed = FALSE
  /\ objects \in Contents /\ draft = objects /\ owned = {}
  /\ orphaned = FALSE

Named == {"AdminOwnerSet", "AdminOwnerClear"}
Listed == {"ClassCreate", "CcbObjectCreate", "CcbObjectModify", "AdminOperationInvoke"}
DownCallName ==
  Named \cup Listed
    \cup {"Initialize", "Finalize", "AdminOwnerInitialize", "AdminOwnerFinalize",
          "CcbInitialize", "CcbApply", "CcbFinalize", "CcbObjectDelete", "ClassDelete",
          "Read"}
\* these return with immom_return_None
FreesAtReturn == Named \cup Listed \cup {"CcbObjectDelete"}

Current == Head(script)

\* what immombin.c refuses before it looks at the arguments
RefusedLoose(f) ==                                          \* what a mutant does
  \/ f = "Initialize" /\ immOmHandle
  \/ f = "AdminOwnerInitialize" /\ haveAdminOwner
  \/ f = "CcbInitialize" /\ ~haveAdminOwner
Refused(f) ==
  \/ f = "Initialize" /\ immOmHandle
  \/ f = "AdminOwnerInitialize" /\ haveAdminOwner
  \/ f \in {"AdminOwnerFinalize", "AdminOwnerSet", "AdminOperationInvoke"} /\ ~haveAdminOwner
  \/ f = "CcbInitialize" /\ (~haveAdminOwner \/ haveCcb)
  \/ f \in {"CcbApply", "CcbFinalize", "CcbObjectDelete",
            "CcbObjectCreate", "CcbObjectModify"} /\ ~haveCcb

\* an exception ends the Python function
RaiseKeeps ==                                               \* what a mutant does
  /\ script' = <<>> /\ phase' = "enter" /\ args' = "none" /\ UNCHANGED mem
Raise == script' = <<>> /\ phase' = "enter" /\ args' = "none" /\ MemFreeAll

Return ==
  /\ script' = Tail(script) /\ phase' = "enter" /\ args' = "none"
  /\ IF Current.f \in FreesAtReturn THEN MemFreeAll ELSE UNCHANGED mem

Call ==
  /\ script = <<>> /\ script' \in Functions
  /\ UNCHANGED <<phase, args, mem, binding, service, orphaned>>

In(p) == script # <<>> /\ phase = p
KeepSession == UNCHANGED <<binding, service, orphaned>>

Refuse == In("enter") /\ Refused(Current.f) /\ Raise /\ KeepSession

Enters(fs) ==
  In("enter") /\ Current.f \in fs /\ ~Refused(Current.f) /\ UNCHANGED script /\ KeepSession
FirstMemory ==
  /\ \E n \in Size : n <= MaxAsked /\ MemGet(n)
  /\ phase' = "parse" /\ args' = "live"

\* immom_parseNames takes one block for all of them
EnterNames == Enters(Named) /\ FirstMemory
\* the array of pointers, one for every element of the list
EnterList == Enters(Listed) /\ FirstMemory
\* strings and numbers stay where Python has them
EnterPlain ==
  /\ Enters(DownCallName \ (Named \cup Listed))
  /\ phase' = "call" /\ UNCHANGED <<args, mem>>
Enter == EnterNames \/ EnterList \/ EnterPlain

\* the lists of names and of attributes; names take one memget
Parse(n) ==
  /\ In("parse") /\ Current.f \in Listed
  /\ asked + n <= MaxAsked /\ MemGet(n)
  /\ UNCHANGED call /\ KeepSession

ParseFails == In("parse") /\ Current.f \in Listed /\ Raise /\ KeepSession

\* immom_parseNames has failed, with or without the memory freed; the service is called
NamesFail ==
  /\ In("parse") /\ Current.f \in Named
  /\ phase' = "call" /\ args' = "null"
  /\ MemFreeAll \/ UNCHANGED mem
  /\ UNCHANGED script /\ KeepSession

\* immom_return_null without return: the memory is gone, the parsing goes on
DefaultFails ==
  /\ In("parse") /\ Current.f = "ClassCreate"
  /\ args' = "dangling" /\ MemFreeAll
  /\ UNCHANGED <<script, phase>> /\ KeepSession

ParseDone ==
  /\ In("parse") /\ phase' = "call"
  /\ UNCHANGED <<script, args, mem>> /\ KeepSession

(****************************************************************************)
(* The service call and the return from it.                                 *)
(****************************************************************************)
\* the service is called with arguments that it can accept
Served(f) == In("call") /\ Current.f = f /\ args # "null" /\ Return

ServiceFails == In("call") /\ Raise /\ KeepSession

Initialize ==
  /\ Served("Initialize") /\ immOmHandle' = TRUE
  /\ UNCHANGED <<haveAdminOwner, haveCcb, service, orphaned>>

\* what ends the admin owner also ends its CCB, unapplied
OwnerGone ==
  /\ owners' = 0 /\ ccbs' = 0 /\ ccbFailed' = FALSE
  /\ draft' = objects /\ owned' = {} /\ UNCHANGED objects

Finalize ==
  /\ Served("Finalize") /\ immOmHandle
  /\ immOmHandle' = FALSE /\ OwnerGone
  /\ orphaned' = (orphaned \/ haveAdminOwner)
  /\ UNCHANGED <<haveAdminOwner, haveCcb>>

AdminOwnerInitialize ==
  /\ Served("AdminOwnerInitialize") /\ immOmHandle
  /\ haveAdminOwner' = TRUE /\ owners' = owners + 1
  /\ UNCHANGED <<immOmHandle, haveCcb, ccbs, ccbFailed, tree, orphaned>>

\* the handle is of no use any more once saImmOmFinalize has taken the owner
AdminOwnerFinalizeKeeps ==                                  \* what a mutant does
  /\ Served("AdminOwnerFinalize") /\ owners > 0
  /\ haveAdminOwner' = FALSE /\ OwnerGone
  /\ UNCHANGED <<immOmHandle, haveCcb, orphaned>>
AdminOwnerFinalize ==
  /\ Served("AdminOwnerFinalize") /\ owners > 0
  /\ haveAdminOwner' = FALSE /\ haveCcb' = FALSE /\ OwnerGone
  /\ UNCHANGED <<immOmHandle, orphaned>>

AdminOwnerSet ==
  /\ Served("AdminOwnerSet") /\ owners > 0
  /\ Current.on \subseteq Existing(draft) \cup Existing(objects)
  /\ owned' = owned \cup (Scope(Current) \cap (Existing(draft) \cup Existing(objects)))
  /\ UNCHANGED <<binding, owners, ccbs, ccbFailed, objects, draft, orphaned>>

AdminOwnerClear ==
  /\ Served("AdminOwnerClear") /\ immOmHandle
  /\ draft = objects      \* not while a CCB changes them
  /\ owned' = owned \ Scope(Current)
  /\ UNCHANGED <<binding, owners, ccbs, ccbFailed, objects, draft, orphaned>>

CcbInitialize ==
  /\ Served("CcbInitialize") /\ owners > 0
  /\ haveCcb' = TRUE /\ ccbs' = ccbs + 1 /\ ccbFailed' = FALSE
  /\ UNCHANGED <<immOmHandle, haveAdminOwner, owners, tree, orphaned>>

CcbApply ==
  /\ Served("CcbApply") /\ ccbs > 0 /\ ~ccbFailed
  /\ objects' = draft /\ owned' = owned \cap Existing(draft)
  /\ UNCHANGED <<binding, owners, ccbs, ccbFailed, draft, orphaned>>

\* an apply or an operation that an implementer refuses aborts the CCB for good
CcbAborted ==
  /\ In("call") /\ ccbs > 0
  /\ Current.f \in {"CcbApply", "CcbObjectDelete", "CcbObjectCreate", "CcbObjectModify"}
  /\ Raise /\ ccbFailed' = TRUE
  /\ draft' = objects /\ owned' = owned \cap Existing(objects)
  /\ UNCHANGED <<binding, owners, ccbs, objects, orphaned>>

CcbFinalize ==
  /\ Served("CcbFinalize") /\ ccbs > 0
  /\ haveCcb' = FALSE /\ ccbs' = ccbs - 1 /\ ccbFailed' = FALSE
  /\ draft' = objects /\ owned' = owned \cap Existing(objects)
  /\ UNCHANGED <<immOmHandle, haveAdminOwner, owners, objects, orphaned>>

\* the CCB of the call takes an operation
InCcb(f) == Served(f) /\ ccbs > 0 /\ ~ccbFailed
KeepObjects ==
  UNCHANGED <<binding, owners, ccbs, ccbFailed, objects, orphaned>>

CcbObjectDelete ==
  /\ InCcb("CcbObjectDelete")
  /\ \E o \in Current.on :
       /\ draft[o] # Absent
       /\ Subtree(o) \cap Existing(draft) \subseteq owned
       /\ draft' = [p \in Object |-> IF p \in Subtree(o) THEN Absent ELSE draft[p]]
  /\ UNCHANGED owned /\ KeepObjects

CcbObjectCreate ==
  /\ InCcb("CcbObjectCreate")
  /\ \E o \in Current.on, v \in Value :
       /\ draft[o] = Absent /\ objects[o] = Absent
       /\ Parent[o] \in (owned \cap Existing(draft)) \cup {Absent}
       /\ draft' = [draft EXCEPT ![o] = v]
       /\ owned' = owned \cup {o}
  /\ KeepObjects

CcbObjectModify ==
  /\ InCcb("CcbObjectModify")
  /\ \E o \in Current.on \cap owned \cap Existing(draft), v \in Value :
       draft' = [draft EXCEPT ![o] = v]
  /\ UNCHANGED owned /\ KeepObjects

AdminOperationInvoke ==
  /\ Served("AdminOperationInvoke") /\ owners > 0
  /\ Current.on \subseteq owned
  /\ KeepSession

\* nothing of the session changes
ClassCreate == immOmHandle /\ Served("ClassCreate") /\ KeepSession
ClassDelete == immOmHandle /\ Served("ClassDelete") /\ KeepSession
\* searches, the accessor and class descriptions, each with a handle of its own
\* that it closes (not modelled: a read that Python has no list for raises, and
\* leaves that handle open)
ReadObjects == immOmHandle /\ Served("Read") /\ KeepSession
Other == ClassCreate \/ ClassDelete \/ ReadObjects

Next ==
  \/ Call \/ Refuse \/ Enter
  \/ (\E n \in Size : Parse(n)) \/ ParseFails \/ NamesFail \/ DefaultFails \/ ParseDone
  \/ ServiceFails \/ Initialize \/ Finalize
  \/ AdminOwnerInitialize \/ AdminOwnerFinalize \/ AdminOwnerSet \/ AdminOwnerClear
  \/ CcbInitialize \/ CcbApply \/ CcbAborted \/ CcbFinalize
  \/ CcbObjectDelete \/ CcbObjectCreate \/ CcbObjectModify
  \/ AdminOperationInvoke \/ Other

Spec == Init /\ [][Next]_vars

(****************************************************************************)
(* Properties.                                                              *)
(****************************************************************************)
\* Types, and the memory of a call is bounded by MaxAsked.
TypeOK ==
  /\ memChunk \in Seq(Chunk) /\ asked \in 0..MaxAsked
  /\ {immOmHandle, haveAdminOwner, haveCcb, ccbFailed, orphaned} \subseteq BOOLEAN
  /\ phase \in {"enter", "parse", "call"}
  /\ args \in {"none", "live", "null", "dangling"}
  /\ owners \in Nat /\ ccbs \in Nat /\ owned \subseteq Object
  /\ {objects, draft} \subseteq Contents

(****************************************************************************)
(* immombin.c and the service agree on the session after every sequence of  *)
(* calls, refusals and failures: there is one admin owner, and one CCB,     *)
(* exactly while the flag says so, but for what saImmOmFinalize has taken   *)
(* away, of which the flags never hear.                                     *)
(****************************************************************************)
SessionInStep ==
  /\ owners = (IF haveAdminOwner /\ ~orphaned THEN 1 ELSE 0)
  /\ ccbs = (IF haveCcb /\ ~orphaned THEN 1 ELSE 0)
  /\ owners > 0 => immOmHandle

(****************************************************************************)
(* The memory of the arguments lives exactly as long as the down-call: it   *)
(* is all given back on every way out, and a service call never reads what  *)
(* was given back, but for that of ClassCreate after a bad default value.   *)
(****************************************************************************)
ArenaOutlivesCall ==
  /\ phase = "enter" => memChunk = <<>>
  /\ phase = "call" /\ args = "live" => memChunk # <<>>
  /\ args = "dangling" => Current.f = "ClassCreate"

(****************************************************************************)
(* immom.py takes the ownership it needs before it needs it: what it        *)
(* deletes (a subtree with all that is below) or operates on, and the       *)
(* parent of what it creates, has the admin owner when the service is       *)
(* asked.                                                                   *)
(****************************************************************************)
Needs(c) ==
  CASE c.f \in {"CcbObjectDelete", "AdminOperationInvoke"} -> Scope(c)
    [] c.f = "CcbObjectCreate" -> {Parent[o] : o \in c.on} \ {Absent}
    [] OTHER -> {}

OwnedWhenChanged ==
  In("call") => Needs(Current) \cap (Existing(draft) \cup Existing(objects)) \subseteq owned

(****************************************************************************)
(* What the flags of immombin.c tell the program, and what happens to the   *)
(* objects, is a session as ImmSession has it.                              *)
(****************************************************************************)
Session == INSTANCE ImmSession WITH owner <- haveAdminOwner, ccb <- haveCcb
ImplementsSession == Session!Spec

=============================================================================
