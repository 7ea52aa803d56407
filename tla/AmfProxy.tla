------------------------------- MODULE AmfProxy -------------------------------
(****************************************************************************)
(* proxy.c: an AMF component that stands for two others, X and Y, which     *)
(* know nothing of AMF.  It has one AMF handle for itself and one for both  *)
(* of them; one thread polls the two and takes one callback of each that is *)
(* ready, its own first.  Active, it registers X and Y with AMF, and then   *)
(* gets their callbacks: it starts and stops them and has AMF call for two  *)
(* health checks of each.  Every call to AMF may fail, and the proxy may    *)
(* die at any time.                                                         *)
(*                                                                          *)
(* External, and modelled as this code and its README use them: AMF sends   *)
(* one CSI callback at a time to a component, and health checks             *)
(* independently of that; it takes the assignments of X and Y away before   *)
(* it quiesces the proxy (the order of test.sh); it answers a second        *)
(* registration or start of a health check, and the undoing of what is not  *)
(* there, with an error; a failed callback, or the death of the proxy, is a *)
(* fault, from which the clean-up of the proxy recovers.                    *)
(****************************************************************************)
EXTENDS Naturals, Sequences

CONSTANTS Proxy, X, Y
ASSUME AmfProxyAssumption == X # Y /\ X # Proxy /\ Y # Proxy

Proxied == {X, Y}
Comp == {Proxy} \cup Proxied
Key == {"shallow", "deep"}
Handle == {"proxy", "proxied"}
HandleOf(c) == IF c = Proxy THEN "proxy" ELSE "proxied"

VARIABLES
  \* the proxy process
  pc,         \* "down", or what it does
  ready,      \* handles that poll reported and that are not dispatched yet
  cb,         \* the callback under way
  todo,       \* its calls to AMF that are left
  status,     \* what it will answer
  \* AMF
  queue,      \* callbacks not yet dispatched, per handle
  pending,    \* the CSI callback AMF waits for, per component
  assigned,   \* the state it was last told is reached
  registered,
  hc,         \* the health checks it calls for
  fault,      \* components it has to recover
  \* X and Y
  running     \* what the proxy has started and not stopped

proxyVars == <<pc, ready, cb, todo, status>>
amfVars == <<queue, pending, assigned, registered, hc, fault>>
vars == <<proxyVars, amfVars, running>>

HaState == {"none", "ACTIVE", "STANDBY", "QUIESCED", "QUIESCING"}
Type == {"none", "set", "remove", "terminate", "health", "cleanup"}
Callback == [comp : Comp, type : Type, ha : HaState]
Cb(c, type, ha) == [comp |-> c, type |-> type, ha |-> ha]
None(c) == Cb(c, "none", "none")

Init ==
  /\ pc = "init" /\ ready = {} /\ cb = None(Proxy) /\ todo = <<>> /\ status = "OK"
  /\ queue = [h \in Handle |-> <<>>]
  /\ pending = [c \in Comp |-> None(c)] /\ assigned = [c \in Comp |-> "none"]
  /\ registered = {} /\ hc = [c \in Comp |-> {}] /\ fault = {}
  /\ running = {}

(****************************************************************************)
(* main: the start, and the loop.                                           *)
(****************************************************************************)
At(step) == pc = step
Goto(step) == pc' = step /\ UNCHANGED <<ready, cb, todo, status>>

Idle == cb' = None(Proxy) /\ todo' = <<>> /\ status' = "OK"

\* the process ends, and all that AMF has of it and of what it stands for
Gone ==
  /\ pc' = "down" /\ ready' = {} /\ Idle
  /\ queue' = [h \in Handle |-> <<>>]
  /\ pending' = [c \in Comp |-> None(c)] /\ assigned' = [c \in Comp |-> "none"]
  /\ registered' = {} /\ hc' = [c \in Comp |-> {}]
  /\ running' = {}

\* it ends and AMF has not asked for it
Die == Gone /\ fault' = {Proxy}

\* registers the proxy and has AMF call for its health check
ProxyAmfInitialize ==
  /\ At("init")
  /\ \/ /\ registered' = registered \cup {Proxy}
        /\ hc' = [hc EXCEPT ![Proxy] = {"default"}]
        /\ Goto("initProxied")
        /\ UNCHANGED <<queue, pending, assigned, fault, running>>
     \/ Die

ProxiedAmfInitialize ==
  /\ At("initProxied")
  /\ \/ Goto("loop") /\ UNCHANGED <<amfVars, running>>
     \/ Die

PollOwnFirst ==                                             \* what a mutant does
  /\ At("loop") /\ ready = {}
  /\ ready' = (IF queue["proxy"] # <<>> THEN {"proxy"}
               ELSE {h \in {"proxied"} : queue[h] # <<>>})
  /\ ready' # {}
  /\ UNCHANGED <<pc, cb, todo, status, amfVars, running>>
Poll ==
  /\ At("loop") /\ ready = {}
  /\ ready' = {h \in Handle : queue[h] # <<>>} /\ ready' # {}
  /\ UNCHANGED <<pc, cb, todo, status, amfVars, running>>

\* the handle whose turn it is
Turn == IF "proxy" \in ready THEN "proxy" ELSE "proxied"

Dispatch ==
  /\ At("loop") /\ ready # {}
  /\ \/ /\ cb' = Head(queue[Turn]) /\ queue' = [queue EXCEPT ![Turn] = Tail(@)]
        /\ ready' = ready \ {Turn} /\ pc' = "callback" /\ status' = "OK"
        /\ UNCHANGED <<todo, pending, assigned, registered, hc, fault, running>>
     \/ Die

(****************************************************************************)
(* The callbacks.                                                           *)
(****************************************************************************)
Called(cs, type) == At("callback") /\ cb.comp \in cs /\ cb.type = type

Begin(step, calls) == pc' = step /\ todo' = calls /\ UNCHANGED status
Answer(s) == pc' = "respond" /\ status' = s /\ UNCHANGED todo

ProxyCsiSet ==
  /\ Called({Proxy}, "set")
  /\ CASE cb.ha = "ACTIVE" -> Begin("register", <<X, Y>>)
       [] cb.ha = "QUIESCED" -> Begin("unregister", <<X, Y>>)
       [] cb.ha = "STANDBY" -> Answer("OK")
       [] OTHER -> Answer("FAILED")
  /\ UNCHANGED <<ready, cb, amfVars, running>>

\* removal, health check and termination of the proxy, health check and
\* termination of X and Y: just a response
JustRespond ==
  /\ Called({Proxy}, "remove") \/ Called(Comp, "health") \/ Called(Comp, "terminate")
  /\ Answer("OK")
  /\ UNCHANGED <<ready, cb, amfVars, running>>

\* instantiate_proxied_comp, which always succeeds, then the health checks
ProxiedCsiSet ==
  /\ Called(Proxied, "set")
  /\ CASE cb.ha = "ACTIVE" -> Begin("startHc", <<"shallow", "deep">>)
       [] cb.ha = "QUIESCED" -> Begin("stopHc", <<"shallow", "deep">>)
       [] cb.ha = "STANDBY" -> Answer("OK")
       [] OTHER -> Answer("FAILED")
  /\ running' = IF cb.ha = "ACTIVE" THEN running \cup {cb.comp} ELSE running
  /\ UNCHANGED <<ready, cb, amfVars>>

ProxiedCsiRemove ==
  /\ Called(Proxied, "remove")
  /\ Begin("stopHc", <<"shallow", "deep">>)
  /\ UNCHANGED <<ready, cb, amfVars, running>>

\* the callback logs and does not respond
ProxiedCleanup ==
  /\ Called(Proxied, "cleanup")
  /\ pc' = "loop" /\ Idle
  /\ UNCHANGED <<ready, amfVars, running>>

----------------------------------------------------------------------------
\* One of the two calls to AMF of a callback.
OneDone == todo' = Tail(todo) /\ UNCHANGED <<ready, cb, status>>
Last == Len(todo) = 1

\* it fails: the other one is not made
Failed(step, s) ==
  /\ pc' = step /\ todo' = <<>> /\ status' = s
  /\ UNCHANGED <<ready, cb, amfVars>>

RegisterAnyway ==                                           \* what a mutant does
  /\ At("register")
  /\ \/ /\ Head(todo) \notin registered
        /\ registered' = registered \cup {Head(todo)}
        /\ pc' = (IF Last THEN "respond" ELSE "register") /\ OneDone
        /\ UNCHANGED <<queue, pending, assigned, hc, fault>>
     \/ Failed("respond", "OK")
  /\ UNCHANGED running
RegisterProxied ==
  /\ At("register")
  /\ \/ /\ Head(todo) \notin registered
        /\ registered' = registered \cup {Head(todo)}
        /\ pc' = (IF Last THEN "respond" ELSE "register") /\ OneDone
        /\ UNCHANGED <<queue, pending, assigned, hc, fault>>
     \/ Failed("respond", "FAILED")
  /\ UNCHANGED running

UnregisterProxied ==
  /\ At("unregister")
  /\ \/ /\ Head(todo) \in registered
        /\ registered' = registered \ {Head(todo)}
        /\ hc' = [hc EXCEPT ![Head(todo)] = {}]
        /\ pc' = (IF Last THEN "respond" ELSE "unregister") /\ OneDone
        /\ UNCHANGED <<queue, pending, assigned, fault>>
     \/ Failed("respond", "FAILED")
  /\ UNCHANGED running

StartHcAnyway ==                                            \* what a mutant does
  /\ At("startHc")
  /\ \/ /\ Head(todo) \notin hc[cb.comp]
        /\ hc' = [hc EXCEPT ![cb.comp] = @ \cup {Head(todo)}]
        /\ pc' = (IF Last THEN "respond" ELSE "startHc") /\ OneDone
        /\ UNCHANGED <<queue, pending, assigned, registered, fault>>
     \/ Failed("respond", "OK")
  /\ UNCHANGED running
StartHc ==
  /\ At("startHc")
  /\ \/ /\ Head(todo) \notin hc[cb.comp]
        /\ hc' = [hc EXCEPT ![cb.comp] = @ \cup {Head(todo)}]
        /\ pc' = (IF Last THEN "respond" ELSE "startHc") /\ OneDone
        /\ UNCHANGED <<queue, pending, assigned, registered, fault>>
     \/ Failed("respond", "FAILED")
  /\ UNCHANGED running

StopHc ==
  /\ At("stopHc")
  /\ \/ /\ Head(todo) \in hc[cb.comp]
        /\ hc' = [hc EXCEPT ![cb.comp] = @ \ {Head(todo)}]
        /\ pc' = (IF Last THEN "stop" ELSE "stopHc") /\ OneDone
        /\ UNCHANGED <<queue, pending, assigned, registered, fault>>
     \/ Failed("stop", "FAILED")
  /\ UNCHANGED running

\* terminate_proxied_comp always succeeds, and its status is the answer
TerminateProxiedComp ==
  /\ At("stop") /\ running' = running \ {cb.comp}
  /\ Answer("OK") /\ UNCHANGED <<ready, cb, amfVars>>

(****************************************************************************)
(* The response, and what AMF makes of it.                                  *)
(****************************************************************************)
Expected == pending[cb.comp] = cb

Told ==
  /\ pending' = IF Expected THEN [pending EXCEPT ![cb.comp] = None(cb.comp)] ELSE pending
  /\ assigned' = IF Expected /\ status = "OK" /\ cb.type \in {"set", "remove"}
                   THEN [assigned EXCEPT ![cb.comp] = cb.ha] ELSE assigned
  /\ fault' = IF status = "FAILED" THEN fault \cup {cb.comp} ELSE fault

Respond ==
  /\ At("respond")
  /\ \/ /\ Told /\ ~(cb.comp = Proxy /\ cb.type = "terminate")
        /\ pc' = "loop" /\ Idle
        /\ UNCHANGED <<ready, queue, registered, hc, running>>
     \/ Die

\* the proxy answers its termination and exits
RespondAndExit ==
  /\ At("respond") /\ cb.comp = Proxy /\ cb.type = "terminate"
  /\ Gone /\ fault' = {}

Crash == pc # "down" /\ Die

(****************************************************************************)
(* AMF.                                                                     *)
(****************************************************************************)
Quiet(c) == pending[c].type = "none" /\ c \notin fault

Send(c, type, ha) ==
  /\ queue' = [queue EXCEPT ![HandleOf(c)] = Append(@, Cb(c, type, ha))]
  /\ pending' = IF type = "health" THEN pending
                ELSE [pending EXCEPT ![c] = Cb(c, type, ha)]
  /\ UNCHANGED <<proxyVars, assigned, registered, hc, fault, running>>

\* the changes of state AMF makes; X and Y, which are not pre-instantiable, are
\* never standby; a removal gives "none"
Changes ==
  {<<"none", "ACTIVE">>, <<"none", "STANDBY">>, <<"STANDBY", "ACTIVE">>,
   <<"ACTIVE", "QUIESCED">>, <<"ACTIVE", "QUIESCING">>, <<"QUIESCED", "ACTIVE">>}

Served(c) == c \in registered /\ Quiet(c) /\ Quiet(Proxy) /\ pc # "down"
ProxyServes(c) == Served(c) /\ (c = Proxy \/ assigned[Proxy] = "ACTIVE")

\* X and Y have no assignment, or are given up
Released == \A c \in Proxied : c \in fault \/ (Quiet(c) /\ assigned[c] = "none")

AmfSets(c) ==
  \E ha \in HaState :
    /\ ProxyServes(c) /\ <<assigned[c], ha>> \in Changes
    /\ c # Proxy => ha # "STANDBY"
    /\ c = Proxy /\ assigned[c] = "ACTIVE" => Released
    /\ Send(c, "set", ha)

AmfRemoves(c) ==
  /\ ProxyServes(c)
  /\ assigned[c] \in (IF c = Proxy THEN {"STANDBY", "QUIESCED"} ELSE HaState \ {"none"})
  /\ Send(c, "remove", "none")

AmfTerminates(c) ==
  /\ ProxyServes(c) /\ assigned[c] = "none"
  /\ Send(c, "terminate", "none")

\* bound: one call for a health check at a time in a queue
AmfChecksHealth(c) ==
  /\ c \in registered /\ hc[c] # {} /\ {c, Proxy} \cap fault = {}
  /\ \A i \in DOMAIN queue[HandleOf(c)] : queue[HandleOf(c)][i].type # "health"
  /\ Send(c, "health", "none")

AmfCleansUp(c) ==
  /\ c \in Proxied \cap registered \cap fault /\ pending[c].type = "none"
  /\ Quiet(Proxy) /\ pc # "down"
  /\ Send(c, "cleanup", "none")

CleanUpProxy == Proxy \in fault /\ Gone /\ fault' = {}

Instantiate ==
  /\ At("down") /\ Proxy \notin fault
  /\ Goto("init") /\ UNCHANGED <<amfVars, running>>

----------------------------------------------------------------------------
ProxyStep ==
  \/ ProxyAmfInitialize \/ ProxiedAmfInitialize \/ Poll \/ Dispatch
  \/ ProxyCsiSet \/ JustRespond \/ ProxiedCsiSet \/ ProxiedCsiRemove \/ ProxiedCleanup
  \/ RegisterProxied \/ UnregisterProxied \/ StartHc \/ StopHc \/ TerminateProxiedComp
  \/ Respond \/ RespondAndExit

AmfStep ==
  \/ CleanUpProxy \/ Instantiate
  \/ \E c \in Comp : AmfSets(c) \/ AmfRemoves(c) \/ AmfTerminates(c)
                       \/ AmfChecksHealth(c) \/ AmfCleansUp(c)

Next == ProxyStep \/ AmfStep \/ Crash

(****************************************************************************)
(* The loop of main is never left but through an exit, and none of its      *)
(* steps waits for anything but a callback; AMF recovers from faults.       *)
(****************************************************************************)
Spec == Init /\ [][Next]_vars /\ WF_vars(ProxyStep) /\ WF_vars(CleanUpProxy)

(****************************************************************************)
(* Properties.                                                              *)
(****************************************************************************)
\* Types; a handle has at most a CSI callback per component, and a health check.
TypeOK ==
  /\ pc \in {"down", "init", "initProxied", "loop", "callback", "register",
             "unregister", "startHc", "stopHc", "stop", "respond"}
  /\ ready \subseteq Handle /\ cb \in Callback /\ status \in {"OK", "FAILED"}
  /\ todo \in Seq(Proxied) \cup Seq(Key)
  /\ queue \in [Handle -> Seq(Callback)]
  /\ Len(queue["proxy"]) <= 2 /\ Len(queue["proxied"]) <= 3
  /\ pending \in [Comp -> Callback] /\ assigned \in [Comp -> HaState]
  /\ registered \subseteq Comp /\ hc \in [Comp -> SUBSET (Key \cup {"default"})]
  /\ fault \subseteq Comp /\ running \subseteq Proxied

(****************************************************************************)
(* Both X and Y are registered when AMF takes the proxy for active, and     *)
(* neither is when it takes it for standby, quiesced or not assigned: what  *)
(* fails between X and Y is never answered with OK.                         *)
(****************************************************************************)
RegisteredAsAssigned ==
  Quiet(Proxy) =>
    /\ assigned[Proxy] = "ACTIVE" => Proxied \subseteq registered
    /\ assigned[Proxy] # "ACTIVE" => Proxied \cap registered = {}

(****************************************************************************)
(* A proxied component that AMF takes for active runs and has both health   *)
(* checks; one that AMF takes for anything else does not run.               *)
(****************************************************************************)
ServedAsAssigned ==
  \A c \in Proxied : Quiet(c) /\ Proxy \notin fault =>
    IF assigned[c] = "ACTIVE" THEN c \in running /\ hc[c] = Key ELSE c \notin running

(****************************************************************************)
(* Whatever else is queued, a CSI callback is answered, or the proxy is     *)
(* cleaned up: neither handle starves the other.                            *)
(****************************************************************************)
CallbackEnds ==
  \A c \in Comp :
    pending[c].type \in {"set", "remove", "terminate"} ~> pending[c].type = "none"

=============================================================================
