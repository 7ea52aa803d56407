------------------------------- MODULE EvtDemo -------------------------------
(****************************************************************************)
(* edsv_demo_app.c: a program that subscribes to an event channel,          *)
(* publishes one event on it, waits until it is woken, handles what it was  *)
(* sent and leaves.  The channel has the same name for every run of the     *)
(* program: runs on several nodes, or shortly after one another, meet on    *)
(* it.  An event is named by the run that publishes it.                     *)
(*                                                                          *)
(* External, as this code uses it: the event service.  It brings an event   *)
(* to every subscriber whose filters match, in any order, and keeps it for  *)
(* later subscribers until its retention time is over or cleared.  Any call *)
(* may fail.                                                                *)
(****************************************************************************)
EXTENDS Naturals, Sequences

CONSTANTS Process

VARIABLES
  pc,          \* per run: the call it makes next, "poll", "dispatch", ...
  cb,          \* per run: the event its callback has, and whether all went well
  held,        \* per run: what it has not freed of the events it received
  refused,     \* history: the events a run could not read, or not free
  \* the service
  subscribed,  \* the runs with a subscription
  coming,      \* per run: events on their way to it
  inbox,       \* per run: events that wait for saEvtDispatch
  retained,    \* the events kept for later subscribers
  published,   \* history: the events published
  handled      \* history: the events some run handled with every call OK

callVars == <<cb, held, refused, handled>>
svcVars == <<subscribed, coming, inbox, retained, published>>
vars == <<pc, callVars, svcVars>>

----------------------------------------------------------------------------
(****************************************************************************)
(* gl_trap_pattern_array and gl_trap_filter_array.  A pattern that is not   *)
(* there is empty.                                                          *)
(****************************************************************************)
gl_trap_pattern_array == <<"trap xyz here", "", "abcde">>
Filter(kind, text) == [kind |-> kind, text |-> text]
\* What a mutant does: one more filter before the last suffix.
FilterInserted ==
  <<Filter("PREFIX", "trap"), Filter("SUFFIX", ""), Filter("SUFFIX", ""),
    Filter("SUFFIX", "bcde"), Filter("PASS_ALL", "fooy"), Filter("PASS_ALL", "")>>
gl_trap_filter_array ==
  <<Filter("PREFIX", "trap"), Filter("SUFFIX", ""), Filter("SUFFIX", "bcde"),
    Filter("SUFFIX", ""), Filter("PASS_ALL", "fooy"), Filter("PASS_ALL", "")>>

Starts == {<<"trap", "trap xyz here">>}
Ends == {<<"bcde", "abcde">>}
Passes(f, p) ==
  \/ f.kind = "PASS_ALL" \/ f.text = ""
  \/ f.kind = "PREFIX" /\ <<f.text, p>> \in Starts
  \/ f.kind = "SUFFIX" /\ <<f.text, p>> \in Ends
Pattern(i) ==
  IF i \in DOMAIN gl_trap_pattern_array THEN gl_trap_pattern_array[i] ELSE ""
Matches ==
  \A i \in DOMAIN gl_trap_filter_array : Passes(gl_trap_filter_array[i], Pattern(i))

----------------------------------------------------------------------------
retention_time == 10    \* seconds
Buffers == {"data", "patterns"}

NoEvent == [e |-> {}, ok |-> TRUE]
Init ==
  /\ pc = [p \in Process |-> "Initialize"]
  /\ cb = [p \in Process |-> NoEvent]
  /\ held = [p \in Process |-> {}]
  /\ coming = [p \in Process |-> {}] /\ inbox = [p \in Process |-> <<>>]
  /\ refused = {} /\ subscribed = {} /\ retained = {}
  /\ published = {} /\ handled = {}

\* The calls that ncs_edsv_run makes one after another: when one fails it
\* returns to the menu, and releases nothing.
Then ==
  [Initialize |-> "SelectionObjectGet", SelectionObjectGet |-> "ChannelOpen",
   ChannelOpen |-> "EventSubscribe", EventSubscribe |-> "EventAllocate",
   EventAllocate |-> "AttributesSet", AttributesSet |-> "Publish",
   EventFree |-> "EventUnsubscribe", EventUnsubscribe |-> "ChannelClose",
   ChannelClose |-> "Finalize", Finalize |-> "menu"]
Goes(p, to) == pc' = [pc EXCEPT ![p] = to]
Plain == DOMAIN Then \ {"EventSubscribe", "EventUnsubscribe"}

Call(p) ==
  /\ pc[p] \in Plain
  /\ Goes(p, Then[pc[p]]) \/ Goes(p, "menu")
  /\ UNCHANGED <<callVars, svcVars>>

\* Events that are still retained come to a new subscriber.
EventSubscribe(p) ==
  /\ pc[p] = "EventSubscribe"
  /\ \/ /\ Goes(p, Then[pc[p]])
        /\ subscribed' = subscribed \cup {p}
        /\ coming' = [coming EXCEPT ![p] = IF Matches THEN retained ELSE {}]
     \/ Goes(p, "menu") /\ UNCHANGED <<subscribed, coming>>
  /\ UNCHANGED <<callVars, inbox, retained, published>>

\* A publication that failed is waited for as well.
Publish(p) ==
  /\ pc[p] = "Publish" /\ Goes(p, "poll")
  /\ \/ /\ published' = published \cup {p}
        /\ retained' = IF retention_time = 0 THEN retained ELSE retained \cup {p}
        /\ coming' = [q \in Process |->
             IF q \in subscribed /\ Matches THEN coming[q] \cup {p} ELSE coming[q]]
     \/ UNCHANGED <<published, retained, coming>>
  /\ UNCHANGED <<callVars, subscribed, inbox>>

\* SA_DISPATCH_ALL; the loop is left even if this failed
Dispatch(p) ==
  /\ pc[p] = "poll" /\ inbox[p] # <<>>
  /\ Goes(p, "dispatch") \/ Goes(p, "EventFree")
  /\ UNCHANGED <<callVars, svcVars>>

\* What a mutant does: the events that wait still come.
OnlyUnsubscribed(p) == subscribed' = subscribed \ {p} /\ UNCHANGED <<coming, inbox>>
Forgotten(p) ==
  /\ subscribed' = subscribed \ {p}
  /\ coming' = [coming EXCEPT ![p] = {}] /\ inbox' = [inbox EXCEPT ![p] = <<>>]

\* exit(1)
PollFails(p) ==
  /\ pc[p] = "poll" /\ Goes(p, "gone") /\ Forgotten(p)
  /\ UNCHANGED <<callVars, retained, published>>

DispatchDone(p) ==
  /\ pc[p] = "dispatch" /\ inbox[p] = <<>> /\ Goes(p, "EventFree")
  /\ UNCHANGED <<callVars, svcVars>>

EventUnsubscribe(p) ==
  /\ pc[p] = "EventUnsubscribe"
  /\ \/ Goes(p, Then[pc[p]]) /\ Forgotten(p)
     \/ Goes(p, "menu") /\ UNCHANGED <<subscribed, coming, inbox>>
  /\ UNCHANGED <<callVars, retained, published>>

\* main waits for 'q', and the process ends
Quit(p) ==
  /\ pc[p] = "menu" /\ Goes(p, "gone") /\ Forgotten(p)
  /\ held' = [held EXCEPT ![p] = {}]
  /\ UNCHANGED <<cb, refused, handled, retained, published>>

----------------------------------------------------------------------------
(****************************************************************************)
(* edsv_evt_delv_callback, once for every event that waits.                 *)
(****************************************************************************)
Called(p) ==
  /\ pc[p] = "dispatch" /\ inbox[p] # <<>> /\ Goes(p, "allocate")
  /\ LET e == Head(inbox[p]) IN
       /\ cb' = [cb EXCEPT ![p] = [e |-> {e}, ok |-> TRUE]]
       /\ held' = [held EXCEPT ![p] = @ \cup {<<"event", e>>}]
  /\ inbox' = [inbox EXCEPT ![p] = Tail(@)]
  /\ UNCHANGED <<refused, handled, subscribed, coming, retained, published>>

\* The callback returns at once, and frees neither the event nor the buffers.
Returns(p) ==
  /\ Goes(p, "dispatch") /\ cb' = [cb EXCEPT ![p] = NoEvent]
  /\ UNCHANGED <<handled, svcVars>>
Refuses(p) == refused' = refused \cup ({p} \X cb[p].e)
Drops(p) == Refuses(p) /\ Returns(p) /\ UNCHANGED held

\* malloc, then alloc_pattern_array; what it had got when it failed is lost too
Allocate(p) ==
  /\ pc[p] = "allocate"
  /\ \E got \in {{}, {"data"}, Buffers} :
       /\ held' = [held EXCEPT ![p] = @ \cup (got \X cb[p].e)]
       /\ IF got = Buffers
          THEN Goes(p, "AttributesGet") /\ UNCHANGED <<cb, refused, handled, svcVars>>
          ELSE Refuses(p) /\ Returns(p)

AttributesGet(p) ==
  /\ pc[p] = "AttributesGet"
  /\ \/ Drops(p)
     \/ Goes(p, "DataGet") /\ UNCHANGED <<callVars, svcVars>>

DataGet(p) ==
  /\ pc[p] = "DataGet"
  /\ \/ Drops(p)
     \/ Goes(p, "enter") /\ UNCHANGED <<callVars, svcVars>>

\* getchar
Enter(p) ==
  /\ pc[p] = "enter"
  /\ Goes(p, IF retention_time = 0 THEN "free" ELSE "RetentionTimeClear")
  /\ UNCHANGED <<callVars, svcVars>>

\* What mutants do: they return instead of going to done, or do not clear.
RetentionClearReturns(p) ==
  /\ pc[p] = "RetentionTimeClear"
  /\ \/ /\ cb[p].e \subseteq retained /\ retained' = retained \ cb[p].e
        /\ Goes(p, "free")
        /\ UNCHANGED <<callVars, subscribed, coming, inbox, published>>
     \/ Returns(p) /\ UNCHANGED <<held, refused>>
RetentionKept(p) ==
  /\ pc[p] = "RetentionTimeClear" /\ Goes(p, "free")
  /\ UNCHANGED <<callVars, svcVars>>

\* It fails, too, when the event is not retained any more: goto done.
RetentionTimeClear(p) ==
  /\ pc[p] = "RetentionTimeClear" /\ Goes(p, "free")
  /\ \/ /\ cb[p].e \subseteq retained /\ retained' = retained \ cb[p].e
        /\ UNCHANGED cb
     \/ cb' = [cb EXCEPT ![p].ok = FALSE] /\ UNCHANGED retained
  /\ UNCHANGED <<held, refused, handled, subscribed, coming, inbox, published>>

\* free(p_data), saEvtEventFree, free_pattern_array
ReceivedEventFree(p) ==
  /\ pc[p] = "free" /\ Goes(p, "dispatch") /\ cb' = [cb EXCEPT ![p] = NoEvent]
  /\ \/ /\ held' = [held EXCEPT ![p] = @ \ ((Buffers \cup {"event"}) \X cb[p].e)]
        /\ handled' = IF cb[p].ok THEN handled \cup cb[p].e ELSE handled
        /\ UNCHANGED refused
     \/ /\ held' = [held EXCEPT ![p] = @ \ (Buffers \X cb[p].e)]
        /\ Refuses(p) /\ UNCHANGED handled
  /\ UNCHANGED svcVars

----------------------------------------------------------------------------
\* The service.
Arrive(p) ==
  /\ \E e \in coming[p] :
       /\ coming' = [coming EXCEPT ![p] = @ \ {e}]
       /\ inbox' = [inbox EXCEPT ![p] = Append(@, e)]
  /\ UNCHANGED <<pc, callVars, subscribed, retained, published>>

RetentionExpires ==
  /\ \E e \in retained : retained' = retained \ {e}
  /\ UNCHANGED <<pc, callVars, subscribed, coming, inbox, published>>

Run(p) ==
  \/ Call(p) \/ EventSubscribe(p) \/ Publish(p) \/ Dispatch(p) \/ DispatchDone(p)
  \/ EventUnsubscribe(p) \/ Called(p) \/ Allocate(p) \/ AttributesGet(p) \/ DataGet(p)
  \/ Enter(p) \/ RetentionTimeClear(p) \/ ReceivedEventFree(p)

Next ==
  \/ \E p \in Process : Run(p) \/ Arrive(p) \/ PollFails(p) \/ Quit(p)
  \/ RetentionExpires

(****************************************************************************)
(* A call returns, the user presses the key the callback asks for, and the  *)
(* service brings the events it has taken.                                  *)
(****************************************************************************)
Fairness == \A p \in Process : WF_vars(Run(p)) /\ WF_vars(Arrive(p))
Spec == Init /\ [][Next]_vars /\ Fairness

----------------------------------------------------------------------------
Callback == {"allocate", "AttributesGet", "DataGet", "enter", "RetentionTimeClear", "free"}
Pc == DOMAIN Then \cup Callback \cup {"Publish", "poll", "dispatch", "menu", "gone"}
TypeOK ==
  /\ pc \in [Process -> Pc]
  /\ cb \in [Process -> [e : SUBSET Process, ok : BOOLEAN]]
  /\ held \in [Process -> SUBSET ((Buffers \cup {"event"}) \X Process)]
  /\ inbox \in [Process -> Seq(Process)] /\ coming \in [Process -> SUBSET Process]
  /\ refused \subseteq Process \X Process
  /\ \A s \in {subscribed, retained, published, handled} : s \subseteq Process
  /\ \A p \in Process : inbox[p] # <<>> \/ coming[p] # {} => p \in subscribed

(****************************************************************************)
(* The callback frees the event it was given, its data and its patterns, on *)
(* every way out but those that are taken when the event cannot be read, or *)
(* not be freed: also when another run has been quicker to clear its        *)
(* retention time.                                                          *)
(****************************************************************************)
EventsFreed ==
  \A p \in Process : pc[p] \notin Callback =>
    \A h \in held[p] : <<p, h[2]>> \in refused

(****************************************************************************)
(* An event that has been handled once, with every call OK, does not come   *)
(* to a run that subscribes afterwards: the callback clears the retention   *)
(* time so that the next run of the demo does not begin with an old event.  *)
(****************************************************************************)
NothingStale ==
  [][\A p \in subscribed' \ subscribed : coming'[p] \cap handled = {}]_vars

(****************************************************************************)
(* A run that published its event comes to its end: it polls without a      *)
(* timeout, and what wakes it is its own event, which passes its filters.   *)
(****************************************************************************)
DemoEnds == \A p \in Process : p \in published ~> pc[p] \in {"menu", "gone"}

=============================================================================
