# Verification of the OpenSAF samples

The repository holds sample programs for the services of OpenSAF. Most of its
logic is in four places: `immutil.c`, a library for programs that implement or
manage IMM objects, the AMF sample components, the Python binding of the
IMM object manager, and the demos of the message and event services. This
directory models them in TLA+, checks the models with
TLC and proves some of the results with TLAPS.

## The system

| part | state it keeps | operations | what is hard |
|---|---|---|---|
| **immutil: CCB store** (`immutil.c` 81-280) | a list of CCB objects, each with a list of operations; copies of long names | get, add create/delete/modify, walk, look up by name, delete | list surgery, ownership of the names, deletion by identity |
| **immutil: chunk arena** (`immutil.c` 1017-1074) | a list of chunks per CCB object | allocate, free all | rounding, a chunk for large blocks, chunks linked behind the first |
| **immutil: call wrappers** (`immutil.c` 1082-2607) | the profile | one wrapper per IMM call | retries, in/out arguments, fatal errors |
| **immutil: helpers** (`immutil.c` 292-327, 587-669) | handles of the IMM service | class of an object, type of an attribute | failure of one of several calls |
| **immutil: names and values** (`immutil.c` 329-576, 671-1011) | a static buffer | search in names, convert, copy and look up values | in-place modification, ownership, widths |
| **AMF wrapper** (`amf/wrapper`) | HA state, pid of the wrapped service | CSI set and remove, health check, terminate, cleanup | every step can fail, service and AMF act at the same time |
| **AMF proxy** (`amf/proxy`) | two AMF handles, the registered proxied components | callbacks on two handles | half-done registration, overwritten status, one loop for two queues |
| **AMF demo** (`amf/sa_aware`) | HA state | CSI set, remove and attribute change, health check, terminate, for several CSIs | HA state of one CSI and of the component |
| **IMM Python binding** (`immsv/immom_python`) | OM handle, admin owner, CCB, an arena | session calls in any order | flags against what the service holds, memory on every way out |
| **Message demo** (`mqsv`) | the scenario each of two programs is in, a thread; queues of the service | send, receive, reply, callbacks | two programs and the service side by side, priorities, timeouts, a poll that ends by counting |
| **Event demo** (`edsv`) | one run of the program; events of the service | subscribe, publish, wait, handle | runs that meet on one channel, retained events, a callback with many ways out |
| Lock, checkpoint, SMF demos | none of their own | one pass each | errors ignored |

The parts in bold are modelled. They meet in the services and nowhere else,
with one exception: a CCB object and everything stored in it lives in one chunk
arena, and the helpers and every user of the store call IMM through the
wrappers. The AMF components are called back by AMF, one callback at a time,
and answer it. The Python binding does not use `immutil.c`. The two message
programs meet in their queues, the runs of the event demo in their channel.

The behaviours that are hard to test, each with its line, are the `hazards` of
`PROJECT.json`; the properties below are stated for them.

## The modules

    Clist          the chunk arena
    CcbStore       what the CCB store promises
    CcbUtil        its linked lists; implements CcbStore
    ImmRetry       the call wrappers
    ImmHelper      the helpers, and any program, calling the wrappers
    ImmNames       searches in distinguished names
    ImmValues      attribute values: copies, lookups, conversions
    ImmCaller      a program with ImmHelper, ImmNames, ImmValues and Clist
    AmfWrapper     the wrapper component with AMF and the wrapped service
    AmfProxy       the proxy with AMF and the two proxied components
    AmfDemo        the SA-aware demo with AMF and its service
    MsgDemo        the sender and the receiver of the message demo, and the queues
    EvtDemo        runs of the event demo on one channel
    MemGet         the arena of a down-call of the Python binding
    ImmSession     what the Python binding promises of a session
    ImmOm          the binding, its arena and the IMM service; implements ImmSession
    ...Proofs      theorems about the module of that name, and, in
                   ImmCallerProofs, about those it is composed of
    MC...          instances for TLC

Operators marked `what a mutant does` are deliberate mistakes, kept beside the
definition they stand in for. They are used to see that a property notices
them, and never by a specification.

### Clist

`chunk`, `chain` and `memref` are the chunks, the order of their `next`
pointers and the first chunk, which is all that the owner of the list
remembers (`ccb->memref`). `block` is history: what has been handed out. The
three ways through `clistMalloc` are three actions, because what can go wrong
differs: a block larger than `CHUNK` (`MallocLarge`), room found
(`MallocFit`), no room (`MallocNew`). A block is recorded with the size asked
for, since those are the bytes that the caller goes on to write.

`BlocksInBounds`, `BlocksDisjoint`: what callers write stays in their blocks.
`FreedTogether`: every chunk can be reached from `memref`, so that
`deleteClist` frees them all. Failure of `malloc` aborts the program and is left
out. Addresses within a chunk are offsets; their alignment in memory is left out
too. TLC checks the arena as part of a program with `immutil.c` (`ImmCaller`,
run `imm_calls`).

### CcbStore and CcbUtil

`CcbStore` maps each open CCB to the sequence of its operations. `CcbUtil` has
the pointers: `ccbList`, the objects with head and tail, the operations with
`next`, and the set `heap` of names that were copied with `strdup`. An
operation's `owner` (the object in whose arena it lies) and `walk` are history;
`walk` is a caller that calls `ccbutil_getNextCcbOp` until it returns NULL,
while other operations are added or other CCBs deleted. Its caller keeps to
two rules that the code cannot check: it passes pointers to live objects only,
and does not continue a walk in an object it has deleted.

Names are short or long (`SA_MAX_UNEXTENDED_NAME_LENGTH`), or empty, as
`ccbutil_ccbAddCreateOperation` leaves them. What operations store besides
their name lives and dies with the arena and is left to `Clist`.

| property | what it says |
|---|---|
| `NoDanglingPointers` | all pointers, a walk's included, lead to live data of the right CCB |
| `NamesIntact` | the long name of a stored operation is a live copy of its own |
| `LookupKeepsFirst` | a lookup by name gives the operation that was added first under that name: once there is one, nothing changes the answer while the CCB is open, and while there is none the next one added becomes it |
| `WalkIsComplete` | a walk that ends has seen all operations in order |
| `ImplementsStore` | the lists implement `CcbStore` |

That a CCB has one object, and the list holds the live objects, each once
(`OneItemPerCcb`), is part of the inductive invariant of `CcbUtilProofs` and
proved there; `ImplementsStore` rests on it, and so does deletion.
`ccbutil_deleteCcbData` compares identities and does not stop at a match
(`immutil.c` 128-144): `Unlink` takes out of the list every object of the
identity (every second one, should they follow each other, as `prev` then is the
object just taken out), `FreeNames` frees the names of all of them, and only the
object that was passed goes. `Stored` is what the lists stand for in `CcbStore`.

`immutil.h` and the code part in three places. The last long name of a deleted
CCB is not freed although "All memory associated with the CCB is freed" (134):
`ccb_mem` shows it, and the theorem `OneNameLeaks` says that this name is all
that ever leaks. The modify of an object
created in the same CCB is not refused (161; the test is commented out at
`immutil.c` 238): `CcbStore` takes it, as the code does. The comment at
`immutil.h` 418 gives a default of 5 tries, the code (`immutil.c` 1082) has 25.

### ImmRetry and ImmHelper

All wrappers are the same loop. `ImmRetry` has one call under way: `Start`
issues the first try, `ServiceAnswers` is any answer of the service, `Retry`,
`Abort` and `Return` are what the wrapper does with it. The wrappers differ in
four ways, the kinds of call: an in/out version that has to be reset, NOT_EXIST
as an answer, an array of names that is converted first and freed last, and the
token of `immutil_saImmOmAccessorGetConfigAttrs`. `args` is the memory that the
arguments of the call are in, and `asked` what the service has found there on
each try: it overwrites the version, and the names are freed. `map` gives for
each part of the loop one wrapper that has it; the other seventy are the same.

The service is external: TRY_AGAIN and definite errors mean that nothing was
done, TIMEOUT that nobody knows. `ImmHelper` adds the callers: the helpers as
chains of calls whose `goto`s are the tables `AfterSuccess` and
`AfterFailure`, and a program that calls any wrapper on its own.

| property | what it says |
|---|---|
| `TriesAsProfiled` | between one and `nTries` tries; TRY_AGAIN is returned only when they are used up |
| `CarriedOutOnce` | retrying never has a call carried out twice |
| `FatalAsProfiled` | which results end the program, and which the caller gets to see |
| `SameEachTry` | on every try the service reads the version the caller wants and names that are still allocated |
| `HandlesValid` | a helper uses only handles it holds, whichever call failed before |
| `NothingForgotten` | it asks for the release of all it opened, and never of what it was lent |
| `ComesBack`, `HelperEnds` | every wrapper and helper ends |

Fairness: a call of the service returns (the IMM library has its own timeout),
`usleep` ends and the thread is scheduled, so what the wrapper can do it does:
weak fairness of `Advance`. Nothing makes the program start another call, nor
the service answer OK. Deadlock is not checked, as an aborted program stops.
`imm_config_attrs` shows that a retry of
`immutil_saImmOmAccessorGetConfigAttrs` asks for something else than its first
try. `immutil_get_className` takes the first value of the first attribute without
a test (`immutil.c` 624); the service is taken to send one, as every object has a
class.

### ImmNames, ImmValues and ImmCaller

These are the helpers that make no calls. `ImmNames` has the searches in a
distinguished name, as functions over tokens (keys, commas, other text; a key
may stand in the middle of an item): the loop of `immutil_getStringValue`,
which also cuts the name of its caller where the value ends,
`immutil_getNumericValue` on top of it, and `immutil_getDnItem`. `ImmValues`
has the copies of attribute values (`dupSaImmAttrValuesT_array` and its
companion for modifications), with where each value has its bytes, the lookups
by name and index, and `immutil_new_attrValue`, with the widths of `long` and of
the attribute types scaled down. `ImmCaller` is a program that makes calls, or
works on data with these helpers, one after the other, or with an arena.

| property | what it says |
|---|---|
| `FoundAsNamed` | whatever earlier searches have cut off, every search answers for the name that it is given, compared with a definition that splits that name at its commas |
| `ValuesKept` | copies have the same values in the same order and nothing of the caller's memory; lookups agree with each other; numbers that do not fit are refused, never cut |

`immutil.h` says of `immutil_getStringValue`, whose name is `const`, that NULL is
returned "if the key is not found or the value empty" (226), and that the value
is "statically allocated" (230). It is a part of the caller's name, which the
code cuts behind it (`immutil.c` 348): `imm_names` has a second search miss a key
that was in the name. Floating point numbers, `immutil_strnchr` and the regular expressions of `immutil_matchName`
are left out, and `immutil_update_one_rattr` is a wrapper call like any other.

### AmfWrapper

One thread takes callbacks from the queue of AMF. Each step that AMF, the
service or a failure can come between is an action: of the start, the script,
`saAmfHealthcheckStart`, the wait for the pid file and `saAmfPmStart`; of the
stop, `saAmfPmStop`, `saAmfHealthcheckStop` and the script; then the answer.
`pc` is the step, `cb` the callback, `status` what it will answer.

AMF is modelled as this code uses it: it sends one CSI callback at a time,
health checks between them once they are started, takes an OK for the state it
asked for, and recovers from anything else with `wrapper.sh cleanup`, which
kills the wrapper and runs the stop script; when that fails, it does not assign
the work elsewhere. The scripts belong to the integrator: one that fails is
taken to change nothing, one that succeeds to do what it says (a stop also
removes the pid file, as stale pid files would be read otherwise), one that a
signal kills to have done its work or not, and all to end within AMF's timeout.
The service may die, create its pid file, and write it, at any time.

`exec_command` applies WEXITSTATUS without WIFEXITED (`wrapper.c` 87), so that a
killed script counts as one that succeeded: a killed stop script is answered OK
while the service may run on, a killed start script is followed by the
supervision of a service that may not be there, and a killed health script
finds the service healthy. All three are in the model; `killed` is history, and
says that a stop script was killed and none has succeeded since.
`NeverRunsUnassigned` exempts that case, which no text of the repository speaks
of, and no other.

| property | what it says |
|---|---|
| `NeverRunsUnassigned` | when AMF takes the component for not active and is not recovering it, the service does not run, unless a signal killed its stop script |
| `SupervisedWhileActive` | when AMF takes it for active, health checks run and, with a pid file, a process is watched |
| `AgreeOnActive` | `my_ha_state` agrees with AMF on being active whenever no callback is under way |
| `CallbackEnds` | every CSI or terminate callback is answered or the component recovered |

Fairness: the wrapper's thread goes on when it can, AMF ends a callback that
waits for ever, and AMF does recover. Nothing makes the service write its pid
file: `getpidfromfile` would wait for ever, and only the timeout of AMF ends
the assignment. `wrapper_pid` shows that a pid file found empty has AMF watch
an uninitialised pid.

### AmfProxy

One thread polls two AMF handles, the proxy's own and that of the proxied
components X and Y. `ready` is what `poll` reported: the loop takes one callback
of each handle that was ready, its own first, before it polls again. `cb` is
the callback under way, `todo` the calls to AMF that it still has to make (two
registrations, or two health checks), and `status` what it will answer. Each of
those calls may fail, and is an action of its own, since AMF can queue further
callbacks between them. A failed registration skips the second; a failed stop
of a health check does not keep the component from being stopped, and its
status is overwritten, as in the code. An `exit` and a crash are the same to
AMF: `Gone` drops all it knows of the process.

AMF is modelled as for the wrapper, with these additions. The README and
`test.sh` of the sample give the order: X and Y are released, or given up as
faulty, before AMF quiesces the proxy. A second registration or a second start
of the same health check is refused. The cleanup callback of a proxied
component is sent and never answered (the code only logs it), so that a faulty
X stays faulty until the proxy itself is recovered. "Runs" means: was started by
this process and not stopped.

| property | what it says |
|---|---|
| `RegisteredAsAssigned` | both X and Y are registered when AMF takes the proxy for active, neither when it takes it for anything else |
| `ServedAsAssigned` | a proxied component that AMF takes for active runs and has both health checks, any other does not run |
| `CallbackEnds` | every CSI or terminate callback is answered, or the proxy is cleaned up: neither handle starves the other |

Fairness: the loop has no step that waits for anything but a callback (weak
fairness of `ProxyStep`), and AMF recovers a faulty proxy. Nothing makes AMF send
callbacks, and each call to it may fail every time. `CallbackEnds` rests on the
order of the loop: a proxy that polled its other handle only when its own is
empty could serve health checks for ever.

### AmfDemo

The SA-aware demo with several CSIs. The component's own idea of its state,
`my_ha_state`, is set in three places only: when quiescing is complete, when a
quiescing CSI is asked for, and when a CSI is removed. `csiState` is what AMF
holds. The run `demo_health` shows that `amf_healthcheck_callback` therefore
never looks at an active service, which its comment says it does. There is no
passing run for this module: all other state is AMF's. AMF sends the four HA
states and the two forms of removal; what the code does with others
(`amf_demo.c` 141-150 and 215) is left out.

### MsgDemo

Two programs: `sScen`, `sPc` say where the sender is in its four scenarios,
`rScen`, `rPc` where the receiver is. The four functions of each side are the
same sequence of calls with gaps, so that a call is one action for all
scenarios that make it (`QueueOpen`, `QueueUnlink`, ...), and `AfterOpen` and
the guards say which come in which. Every call may fail, and goes where its
`goto` goes. `got` is what the receiver has read in the scenario, `excused` is
history: one of the calls failed after which the queue may stay.
`message_send_async` has a second thread, `thread`, which may end the process
at any time (`exit` after a failed poll).

The message service is external: `queue`, with messages handed out by priority
and then by age, the asynchronous messages `transit`, the callbacks `due`. A send
or an open that times out may have taken effect; a queue that is closed and not
unlinked goes away after its retention time; a queue that is unlinked is unknown
to the sender at once and goes away when it is closed.

| property | what it says |
|---|---|
| `ReceivedInOrder` | in the first two scenarios the i-th message read is the i-th one sent, whatever call of either side fails |
| `QueuesRemoved` | the receiver leaves each scenario without its queue, by whichever label, unless one of four calls failed |
| `SenderEnds` | the sender ends even if nobody reads or replies |
| `AsyncLoopEnds` | when all has been sent, a receiver that polls without a timeout, a fixed number of times, leaves its loop |

Fairness: the sender's calls return and its user presses the keys; the service
delivers what it took; a poll that finds a callback is followed by its
dispatch. Nothing is assumed of the receiver's user, nor that anything is
replied.

The program announces acknowledgements for messages 2 to 4
(`mqsv_demo_app.c` 394) and overwrites `ackFlags` by 0 (397): `AckFlags` is empty
in the model, no delivered callback is ever due, and `thread` only waits.

### EvtDemo

`Process` are runs of the program, on several nodes or one after the other; all
use the same channel, and an event is named by the run that published it. `pc`
is the call a run makes next: `Then` is the straight part of `ncs_edsv_run`,
which any failure leaves to the menu, releasing nothing. `edsv_evt_delv_callback`
has an action for each of its calls, as another run may clear, or the service
drop, what it holds in between; `held` is the event and the two buffers that it
has not freed. A callback that cannot allocate them, or not read the event,
returns at once and frees nothing, which is exempted (`refused`). The test of the
retention time (492) is there, and the program's constant takes it the same way
every time. The patterns and filters are those of the
program, with the rules of the service for prefix, suffix and pass-all.

| property | what it says |
|---|---|
| `EventsFreed` | the callback frees its event, its data and its patterns on every way out but those where the event cannot be read or freed, also when another run has cleared the retention time before |
| `NothingStale` | an event that was handled, all calls OK, does not come to a later subscriber |
| `DemoEnds` | who published is woken and ends: its own event passes its own filters |

Fairness: a call returns, the key is pressed and the service brings the events
it took. Two messages of the program say more than it does. "Rcvd the published
event, now escape" (`edsv_demo_app.c` 301) is printed after the first wake-up,
which the event of another run brings about as well; `Dispatch` has no guard on
whose event it is. "Published event on demo channel successfully" (266) is
printed after a failed publication too, and the run then waits without a timeout
for what nobody sends: `Publish` goes to the poll either way, and `DemoEnds`
claims an end only for who published.

### MemGet, ImmSession and ImmOm

`immom.py` offers functions to a Python program; each is a sequence of
down-calls into `immombin.c` (`script`), and an exception of one drops the rest
(`Raise`). A down-call first tests its flags (`Refused`), then takes memory for
its arguments while it parses them (in one block for names, `EnterNames`, block
by block for attributes, `EnterList`, none for the rest, `EnterPlain`), calls the
service, and gives the memory back (`Return`). `immOmHandle`, `haveAdminOwner` and `haveCcb` are the binding's
idea of the session, `owners`, `ccbs`, `objects`, `draft` and `owned` the
service's. `MemGet` is the arena: chunks cut from the front, the first chunk
only, arithmetic modulo the width of `unsigned`.

Two mistakes of the code are part of the model. A bad default value of a class
attribute calls `immom_return_null` without returning (`immombin.c` 598), so
that parsing goes on with memory that was given back (`DefaultFails`); and
`saImmOmFinalize` takes the admin owner and the CCB with it while the flags stay
(`orphaned`). Both are exempted by name in the properties below, and nothing
else is.

| property | what it says |
|---|---|
| `SessionInStep` | flags and service agree on handle, admin owner and CCB after every sequence of calls, refusals and failures |
| `ArenaOutlivesCall` | arguments live as long as their down-call and are given back on every way out |
| `OwnedWhenChanged` | what `immom.py` deletes, operates on or creates below has the admin owner when the service is asked |
| `ImplementsSession` | the binding implements `ImmSession`: one admin owner, one CCB under it, and objects that change only when a CCB is applied |

The service is external: it may refuse any call, it wants the admin owner of
what is changed, and it aborts a CCB for good when an implementer refuses a part
of it. One program uses it; other object managers are left out, as the binding
cannot see them. Values are only written and never read, the read functions are
one action (`ReadObjects`). A read for which Python has no list left returns
without closing its search or its accessor (`immombin.c` 434-436, 478-480,
973-975); such failures of Python itself are not modelled.

`memget` has the test for room the wrong way round (`immombin.c` 59): a piece
that fits takes a chunk of its own, where the comment at line 23 speaks of one
or a few mallocs, and a piece that does not fit is cut out of what is left.
`MemGet` does the same; it records how much of a chunk is used, and so its
arithmetic is modulo the width. No property is about how many chunks there are.

## Runs and bounds

| run | instance | why it is enough |
|---|---|---|
| `ccb`, `ccb_mem` | 2 CCBs, 2 objects, 3 operations, 2 copies of names, a short and a long name | a CCB with head, middle and tail beside another one; deletion of the first and of a later object; addresses are used again |
| `imm_calls` | up to 3 tries; names of up to 5 tokens with 2 keys; arrays of 2 attributes with 2 values; `int` of 3 bits and `long` of 6; 4 chunks of 8 bytes, requests of 0, 1, 4, 5, 8 and 9, 4 blocks | the loop entered not at all, once and repeatedly, every kind and helper, every answer; keys at the start and in the middle of an item, items before, between and behind commas, empty ones; every type with every place its bytes can be; numbers on both sides of every width; requests on both sides of a multiple of 4 and of `CHUNK`, first, middle and last chunk of a list |
| `imm_config_attrs` | up to 2 tries | one retry |
| `imm_names` | names of up to 5 tokens with 2 keys, no calls and no arena | two keys with a value each |
| `wrapper`, `wrapper_pid` | 2 pids, with and without a pid file | a watched process that is gone beside the one that runs; AMF bounds the queue to a CSI callback and a health check |
| `proxy` | the proxy, X and Y; one health check at a time in a queue | AMF itself has at most one CSI callback per component under way; a second health check meets the same states as the first |
| `msg` | 3 messages with 2 priorities | one message overtakes another, and two of one priority do not, as in the 5 messages of the program; every pair of scenarios side by side |
| `evt` | 2 runs | side by side and one after the other; a third run meets the same states with more events |
| `demo_health` | 2 CSIs | one CSI and the component differ |
| `immom` | 2 roots and an object below one of them, 2 values; pieces of 3 and 6 bytes, chunks of 8, 12 bytes in a call | a subtree and something outside of it; a chunk that is left with room, one that is not, one made for a large piece |

`ccb` and `ccb_mem` use the symmetry of addresses and of CCB identities; they
check no liveness property. `CHECK_DEADLOCK FALSE` is used for the runs of
`MCImmHelper`, whose program may have been aborted, and for `msg` and `evt`, whose
programs end.

Five runs end in a violation, each of what a line of the repository says of the
code: `ccb_mem`, `imm_config_attrs`, `imm_names`, `wrapper_pid` and `demo_health`.
The `findings` of `PROJECT.json` quote these lines.

The runs check a type invariant where it says more than types: `HelperTypeOK`,
by which a helper returns a copy and never what an accessor owns, and that of
`evt`, by which events wait only for a run that has subscribed. All type
invariants but that of `AmfDemo` are theorems.

## What is proved

TLAPS checks the theorems for all values of the constants.

* `ClistProofs`: `BlocksInBounds`, `BlocksDisjoint`, `FreedTogether` and types,
  for any `CHUNK`, requests and number of blocks. Disjointness is not
  inductive, as it says nothing of the bytes a chunk still has to give: the
  invariant adds that every block ends below the used part of its chunk, that
  later blocks lie above earlier ones, and that the chain starts at `memref`
  and links exactly the allocated chunks.
* `CcbUtilProofs`: all five properties of the store, `OneItemPerCcb`, types, and
  that a deletion leaks at most the last long name (`OneNameLeaks`), for any
  number of CCBs and operations. `NoDanglingPointers` and
  `OneItemPerCcb` need each other: a search that finds nothing has missed
  nothing only if the list holds all live objects, and deletion by identity
  frees what it unlinks only if the identity is unique (lemmas
  `SearchIsComplete`, `DeleteKeepsLists`). For the names the invariant adds that
  an operation with a short name has no copy. The others and the
  refinement are about what a walk along `next` computes. `Order` says how the
  list of an object is spread over memory: there is a sequence that starts at
  the head, ends at the tail, follows `next`, and has each operation of the
  object once. An operation that is added extends it, and what the recursive
  functions of `CcbUtil` return is read off it (`VisitIs` and the lemmas after
  it). `Implements` then shows that every call on the lists is one on the
  sequences of `CcbStore`, or none.
* `ImmCallerProofs`: `TriesAsProfiled`, `CarriedOutOnce`, `FatalAsProfiled`,
  `SameEachTry` and types of the wrappers, for any
  `MaxTries`; `HandlesValid`, `NothingForgotten` and types of the helpers;
  `FoundAsNamed` and `ValuesKept`, for names, arrays, numbers and text of any
  length; and that a program with all of these keeps what the wrappers and the
  helpers keep (`ProgramCalls`), and behaves as an arena has to
  (`ProgramArena`), which is what `imm_calls` checks. The invariant
  of the wrappers adds that `nTries` counts the tries, that a call that is
  being tried has not been carried out, since only TRY_AGAIN leads to another
  try, and that what is asked for next is wanted and not freed. What is open
  depends on how far a helper has come: `Held` says it for each of its calls, on
  the way forward and on the way out.
  For the searches, `Splits` says that certain items are what lies between
  certain boundaries of a name. The reference definition `Items` gives such
  items (`ItemsSplit`), and the loops of the code stop at their boundaries
  (`SearchStops`, `ItemAtIs`).
  For the numbers, `Powers` derives what is needed of powers of two, of which
  the provers know nothing, from the library's theorem on the number of subsets.
* `ImmOmProofs`: `SessionInStep`, `ArenaOutlivesCall`, `OwnedWhenChanged`,
  types, and `ImplementsSession`, the refinement, in which every step of the
  binding is shown to be one of `ImmSession` or none. The flags follow the
  service only because a down-call has tested them before it parses its
  arguments (`Checked`), and nothing changes them in between; `Memory` says which
  down-calls can hold any. `OwnedWhenChanged` is about whole functions of
  `immom.py`: `Ownership` says of every call still in the script that what
  it needs is owned already or is claimed by a call before it in the script
  (`Prepared`), and that a call that takes ownership away is alone in its
  function (`AloneIn`).
* `EvtDemoProofs`: `EventsFreed`, `NothingStale` and types, for any number of
  runs on the one channel. A run holds nothing but what belongs to the event its
  callback is at work on, and to events it could not read or free
  (`HeldInCallback`). An event is published
  once, by a run that has not come to its loop before, and only what is published
  is delivered, retained or handled (`Once`): nothing puts an event back on the
  channel after a callback cleared its retention time. What was handled, or is
  about to be freed with every call OK, is not retained (`Cleared`).
* `AmfWrapperProofs`: `NeverRunsUnassigned`, `SupervisedWhileActive`,
  `AgreeOnActive` and types, for any number of pids. The properties speak of the
  time between two callbacks. The invariant follows the callback under way: it
  is the one AMF waits for and is not queued again (`Calls`), it has come to a
  step that belongs to it (`Steps`), and what each step leaves is what the
  answer will say (`Running`, `Supervised`), or the status is FAILED, which
  becomes a fault.
* `AmfProxyProofs`: `RegisteredAsAssigned`, `ServedAsAssigned` and types. The
  invariant has the same two halves, for three components on two queues: the
  callbacks (`Structure`), and the state half-way between the one before a
  callback and the one it answers for (`RegSound`, `ServSound`). That the
  unregistration, with which AMF forgets the health checks, takes them from
  nobody needs the order of `test.sh`: X and Y are released before the proxy is
  quiesced (`WindingDown`). The bounds on the queues in `TypeOK` are a
  consequence of it too.
* `MsgDemoProofs`: `ReceivedInOrder`, `QueuesRemoved` and types, for any number
  of messages and any range of priorities. The invariant puts what was read,
  what the queue holds, what is under way and what is sent next in one line
  without gaps, as long as the service knows the queue (`Line`); that the service
  hands out its head although it goes by priority is the lemma `FirstInLine`.
  Before the queue is open nothing was sent to it (`Fresh`), since the sender may
  be ahead of the receiver. For the queues it adds what unlinking leaves until
  the handle is finalized (`Unlinking`).

The assumptions are those the modules name (`ClistAssumption`,
`CcbUtilAssumption`, `ImmRetryAssumption`, `ImmNamesAssumption`,
`ImmValuesAssumption`, `AmfWrapperAssumption`, `AmfProxyAssumption`,
`MemGetAssumption`, `ImmOmAssumption`, `MsgDemoAssumption`): constants are
numbers where they are used as such, null is no address, a comma is neither a key
nor text, X, Y and the proxy are different components, `long` is as wide as
`int` or twice as wide; and, of `ImmOm`, that the tree of objects has two levels,
as `Subtree` is written for. A deeper tree would change what is deleted below an
object, not the session.

The theorems cite the library's theorems on sequences, functions, finite sets and
well-founded relations. Those of them that take an operator as a parameter, the
usual forms of induction, are out of the installed provers' reach. What a
recursive function computes is proved all the same: the lemma `LeastNumber`,
from the library's `WFMin`, gives a set of numbers its least member, and a set
with 0 that is closed under successor is therefore all of them
(`NumbersInductive`).

Only model-checked:

* liveness (`ComesBack`, `HelperEnds`, the two `CallbackEnds`, `SenderEnds`,
  `AsyncLoopEnds`, `DemoEnds`): it needs fairness and ENABLED, which these
  provers do not handle;
* what the five runs that end in a violation show.

## Plan

Done: the parts in bold above, with the runs and theorems listed here. Every
property of a run that passes is a theorem, but for liveness. What could follow:

1. A type invariant and the correctness of the answers of `AmfDemo`, whose state
   is nearly all AMF's.
2. The safety part of the liveness properties as theorems: of each step that the
   fairness is stated for, that it brings its process closer to the end.
3. The lock demo, which goes on after a lock that was not granted
   (`glsv_demo_app.c` 174): a sequence of calls in which nearly all that happens
   is the service's.

## Not modelled

* Logging, printing and layout, the pid files of the AMF samples and the
  environment they read.
* The demos of the lock, checkpoint and software management services: one pass
  over their service, whose answers they print or ignore. A model of them would
  be a model of the service, which is not in this repository.
* Of the Python binding, the conversion of values to and from Python, and the
  functions of `immom.py` that print objects and classes; of `immutil.c`,
  floating point numbers, `immutil_strnchr` and `immutil_matchName`.
* `amf/non_sa_aware` and the campaigns (a shell script and configuration),
  `go-cpsv` (an empty submodule), the build system.
