----------------------------- MODULE EvtDemoProofs -----------------------------
(****************************************************************************)
(* For any number of runs of the demo on the one channel, and whichever     *)
(* calls fail: a callback frees its event and its buffers unless the event  *)
(* could not be read or freed, and an event that was handled does not come  *)
(* to a later run.                                                          *)
(*                                                                          *)
(* The second is about one step, the subscription, and needs what has       *)
(* happened to every event before it: an event is published once (Once), so *)
(* it is not kept again after a callback has cleared its retention time,    *)
(* and a callback that comes to the free with every call OK has cleared it  *)
(* (Cleared).                                                               *)
(****************************************************************************)
EXTENDS EvtDemo, TLAPS

\* A run holds nothing but what belongs to the event its callback is at work
\* on, and to events it could not read or free.
Item == (Buffers \cup {"event"}) \X Process
HeldInCallback ==
  \A p \in Process :
    /\ pc[p] \in Callback =>
         \A h \in held[p] : h[2] \in cb[p].e \/ <<p, h[2]>> \in refused
    /\ pc[p] \notin Callback => \A h \in held[p] : <<p, h[2]>> \in refused

Before ==
  {"Initialize", "SelectionObjectGet", "ChannelOpen", "EventSubscribe",
   "EventAllocate", "AttributesSet", "Publish"}

\* An event is published once, and only what is published is anywhere.
Once ==
  /\ \A p \in Process : pc[p] \in Before => p \notin published
  /\ retained \subseteq published /\ handled \subseteq published
  /\ \A p \in Process :
       /\ cb[p].e \subseteq published /\ coming[p] \subseteq published
       /\ \A i \in 1..Len(inbox[p]) : inbox[p][i] \in published

\* What was handled, or is about to be, is not kept for later subscribers.
Cleared ==
  /\ handled \cap retained = {}
  /\ \A p \in Process : pc[p] = "free" /\ cb[p].ok => cb[p].e \cap retained = {}

IInv == TypeOK /\ HeldInCallback /\ Once /\ Cleared

----------------------------------------------------------------------------
LEMMA InitIInv == Init => IInv
<1>1. SUFFICES ASSUME Init PROVE IInv
  OBVIOUS
<1>2. TypeOK
  <2>1. cb \in [Process -> [e : SUBSET Process, ok : BOOLEAN]]
    BY <1>1 DEF Init, NoEvent
  <2>2. inbox \in [Process -> Seq(Process)] /\ coming \in [Process -> SUBSET Process]
    BY <1>1 DEF Init
  <2>3. pc \in [Process -> Pc]
    BY <1>1 DEF Init, Pc, Then
  <2>4. QED
    BY <1>1, <2>1, <2>2, <2>3 DEF Init, TypeOK, Buffers
<1>3. HeldInCallback
  BY <1>1 DEF Init, HeldInCallback
<1>4. Once
  BY <1>1 DEF Init, Once, NoEvent
<1>5. Cleared
  BY <1>1 DEF Init, Cleared
<1>6. QED
  BY <1>2, <1>3, <1>4, <1>5 DEF IInv

\* A call that changes nothing but how far a run has come.
LEMMA SilentStep ==
  ASSUME IInv, NEW p \in Process, NEW to \in Pc, Goes(p, to),
         UNCHANGED <<callVars, svcVars>>,
         to \in Before => pc[p] \in Before,
         to \in Callback <=> pc[p] \in Callback,
         to # "free"
  PROVE  IInv'
<1>1. /\ cb' = cb /\ held' = held /\ refused' = refused /\ handled' = handled
      /\ subscribed' = subscribed /\ coming' = coming /\ inbox' = inbox
      /\ retained' = retained /\ published' = published
  BY DEF callVars, svcVars
<1>2. /\ pc' \in [Process -> Pc] /\ pc'[p] = to
      /\ \A q \in Process : q # p => pc'[q] = pc[q]
  BY DEF IInv, TypeOK, Goes
<1>3. TypeOK'
  BY <1>1, <1>2 DEF IInv, TypeOK
<1>4. HeldInCallback'
  BY <1>1, <1>2 DEF IInv, HeldInCallback
<1>5. Once'
  BY <1>1, <1>2 DEF IInv, Once
<1>6. Cleared'
  BY <1>1, <1>2 DEF IInv, Cleared
<1>7. QED
  BY <1>3, <1>4, <1>5, <1>6 DEF IInv

\* What a call leads to.
LEMMA AfterCall ==
  ASSUME NEW a \in DOMAIN Then
  PROVE  /\ a \in Pc /\ a \notin Callback
         /\ Then[a] \in Pc /\ Then[a] \notin Callback
         /\ Then[a] \in Before => a \in Before
BY DEF Then, Pc, Callback, Before

LEMMA CallStep ==
  ASSUME IInv, NEW p \in Process, Call(p)
  PROVE  IInv'
<1>1. pc[p] \in DOMAIN Then
  BY DEF Call, Plain
<1>2. CASE Goes(p, Then[pc[p]])
  BY <1>1, <1>2, AfterCall, SilentStep DEF Call, Callback
<1>3. CASE Goes(p, "menu")
  <2>1. "menu" \in Pc /\ "menu" \notin Before /\ "menu" \notin Callback
    BY DEF Pc, Before, Callback
  <2>2. QED
    BY <1>1, <1>3, <2>1, AfterCall, SilentStep DEF Call
<1>4. QED
  BY <1>2, <1>3 DEF Call

LEMMA SubscribeStep ==
  ASSUME IInv, NEW p \in Process, EventSubscribe(p)
  PROVE  IInv'
<1>1. CASE Goes(p, "menu") /\ UNCHANGED <<subscribed, coming>>
  <2>1. "menu" \in Pc /\ "menu" \notin Before /\ "menu" \notin Callback
    BY DEF Pc, Before, Callback
  <2>2. QED
    BY <1>1, <2>1, SilentStep DEF EventSubscribe, svcVars, Callback
<1>2. CASE ~(Goes(p, "menu") /\ UNCHANGED <<subscribed, coming>>)
  <2>1. /\ pc[p] = "EventSubscribe" /\ pc' = [pc EXCEPT ![p] = "EventAllocate"]
        /\ subscribed' = subscribed \cup {p}
        /\ coming' = [coming EXCEPT ![p] = IF Matches THEN retained ELSE {}]
        /\ cb' = cb /\ held' = held /\ refused' = refused /\ handled' = handled
        /\ inbox' = inbox /\ retained' = retained /\ published' = published
    BY <1>2 DEF EventSubscribe, Goes, Then, callVars
  <2>2. /\ pc' \in [Process -> Pc] /\ pc'[p] = "EventAllocate"
        /\ \A q \in Process : q # p => pc'[q] = pc[q]
    BY <2>1 DEF IInv, TypeOK, Pc, Then
  <2>3. /\ coming' \in [Process -> SUBSET Process] /\ coming'[p] \subseteq retained
        /\ \A q \in Process : q # p => coming'[q] = coming[q]
    BY <2>1 DEF IInv, TypeOK
  <2>4. TypeOK'
    BY <2>1, <2>2, <2>3 DEF IInv, TypeOK
  <2>5. HeldInCallback'
    BY <2>1, <2>2 DEF IInv, HeldInCallback, Callback
  <2>6. Once'
    BY <2>1, <2>2, <2>3 DEF IInv, Once, Before
  <2>7. Cleared'
    BY <2>1, <2>2 DEF IInv, Cleared
  <2>8. QED
    BY <2>4, <2>5, <2>6, <2>7 DEF IInv
<1>3. QED
  BY <1>1, <1>2

\* The event is new: it was neither handled nor is any callback at work on it.
LEMMA PublishStep ==
  ASSUME IInv, NEW p \in Process, Publish(p)
  PROVE  IInv'
<1>1. /\ pc[p] = "Publish" /\ pc' = [pc EXCEPT ![p] = "poll"]
      /\ cb' = cb /\ held' = held /\ refused' = refused /\ handled' = handled
      /\ subscribed' = subscribed /\ inbox' = inbox
  BY DEF Publish, Goes, callVars
<1>2. /\ pc' \in [Process -> Pc] /\ pc'[p] = "poll"
      /\ \A q \in Process : q # p => pc'[q] = pc[q]
  BY <1>1 DEF IInv, TypeOK, Pc
<1>3. /\ published \subseteq published' /\ published' \subseteq published \cup {p}
      /\ retained' = retained \/ (retained' = retained \cup {p} /\ p \in published')
      /\ coming' \in [Process -> SUBSET Process]
      /\ \A q \in Process :
           coming'[q] = coming[q]
             \/ (coming'[q] = coming[q] \cup {p} /\ p \in published' /\ q \in subscribed)
  BY DEF Publish, IInv, TypeOK, retention_time
<1>4. p \notin published
  BY <1>1 DEF IInv, Once, Before
<1>5. TypeOK'
  BY <1>1, <1>2, <1>3 DEF IInv, TypeOK
<1>6. HeldInCallback'
  BY <1>1, <1>2 DEF IInv, HeldInCallback, Callback
<1>7. Once'
  BY <1>1, <1>2, <1>3 DEF IInv, Once, Before
<1>8. Cleared'
  BY <1>1, <1>2, <1>3, <1>4 DEF IInv, Cleared, Once
<1>9. QED
  BY <1>5, <1>6, <1>7, <1>8 DEF IInv

LEMMA DispatchStep ==
  ASSUME IInv, NEW p \in Process, Dispatch(p) \/ DispatchDone(p)
  PROVE  IInv'
<1>1. {"dispatch", "EventFree"} \subseteq Pc
  BY DEF Pc, Then
<1>2. {"dispatch", "EventFree", "poll"} \cap (Before \cup Callback) = {}
  BY DEF Before, Callback
<1>3. pc[p] \in {"dispatch", "poll"} /\ UNCHANGED <<callVars, svcVars>>
  BY DEF Dispatch, DispatchDone
<1>4. \E to \in {"dispatch", "EventFree"} : Goes(p, to)
  BY DEF Dispatch, DispatchDone
<1>5. QED
  BY <1>1, <1>2, <1>3, <1>4, SilentStep

\* A run leaves the channel: nothing waits for it any more.
LEMMA LeavingStep ==
  ASSUME IInv, NEW p \in Process, NEW to \in Pc \ (Callback \cup Before),
         pc[p] \notin Callback, Goes(p, to), Forgotten(p),
         UNCHANGED <<cb, refused, handled, retained, published>>,
         held' = held \/ held' = [held EXCEPT ![p] = {}]
  PROVE  IInv'
<1>1. /\ cb' = cb /\ refused' = refused /\ handled' = handled
      /\ retained' = retained /\ published' = published
      /\ subscribed' = subscribed \ {p}
  BY DEF Forgotten
<1>2. /\ pc' \in [Process -> Pc] /\ pc'[p] = to
      /\ \A q \in Process : q # p => pc'[q] = pc[q]
  BY DEF IInv, TypeOK, Goes
<1>3. /\ held' \in [Process -> SUBSET Item]
      /\ \A q \in Process : held'[q] \subseteq held[q]
  BY DEF IInv, TypeOK, Item
<1>4. /\ coming' \in [Process -> SUBSET Process] /\ coming'[p] = {}
      /\ inbox' \in [Process -> Seq(Process)] /\ inbox'[p] = <<>>
      /\ \A q \in Process : q # p => coming'[q] = coming[q] /\ inbox'[q] = inbox[q]
  BY DEF IInv, TypeOK, Forgotten
<1>5. TypeOK'
  <2>1. \A q \in Process : inbox'[q] # <<>> \/ coming'[q] # {} => q \in subscribed'
    BY <1>1, <1>4 DEF IInv, TypeOK
  <2>2. /\ \A s \in {subscribed', retained', published', handled'} : s \subseteq Process
        /\ refused' \subseteq Process \X Process
    BY <1>1 DEF IInv, TypeOK
  <2>3. cb' \in [Process -> [e : SUBSET Process, ok : BOOLEAN]]
    BY <1>1 DEF IInv, TypeOK
  <2>4. QED
    BY <1>2, <1>3, <1>4, <2>1, <2>2, <2>3 DEF TypeOK, Item
<1>6. HeldInCallback'
  BY <1>1, <1>2, <1>3 DEF IInv, HeldInCallback
<1>7. Once'
  <2>1. \A q \in Process : pc'[q] \in Before => q \notin published
    BY <1>2 DEF IInv, Once
  <2>2. coming'[p] \subseteq published /\ \A i \in 1..Len(inbox'[p]) : inbox'[p][i] \in published
    BY <1>4
  <2>3. \A q \in Process :
          /\ coming'[q] \subseteq published
          /\ \A i \in 1..Len(inbox'[q]) : inbox'[q][i] \in published
    BY <1>4, <2>2 DEF IInv, Once
  <2>4. QED
    BY <1>1, <2>1, <2>3 DEF IInv, Once
<1>8. Cleared'
  BY <1>1, <1>2 DEF IInv, Cleared, Callback
<1>9. QED
  BY <1>5, <1>6, <1>7, <1>8 DEF IInv

LEMMA UnsubscribeStep ==
  ASSUME IInv, NEW p \in Process, EventUnsubscribe(p)
  PROVE  IInv'
<1>1. {"menu", "ChannelClose"} \subseteq Pc \ (Callback \cup Before)
  BY DEF Pc, Then, Callback, Before
<1>2. pc[p] = "EventUnsubscribe" /\ pc[p] \notin Callback
  BY DEF EventUnsubscribe, Callback
<1>3. CASE Goes(p, "ChannelClose") /\ Forgotten(p)
  BY <1>1, <1>2, <1>3, LeavingStep DEF EventUnsubscribe, callVars
<1>4. CASE Goes(p, "menu") /\ UNCHANGED <<subscribed, coming, inbox>>
  BY <1>1, <1>2, <1>4, SilentStep DEF EventUnsubscribe, svcVars, Callback
<1>5. QED
  BY <1>2, <1>3, <1>4 DEF EventUnsubscribe, Then

LEMMA GoneStep ==
  ASSUME IInv, NEW p \in Process, PollFails(p) \/ Quit(p)
  PROVE  IInv'
<1>1. "gone" \in Pc \ (Callback \cup Before)
  BY DEF Pc, Callback, Before
<1>2. pc[p] \notin Callback
  BY DEF PollFails, Quit, Callback
<1>3. QED
  BY <1>1, <1>2, LeavingStep DEF PollFails, Quit, callVars

\* The callback begins with an event, which it now holds.
LEMMA CalledStep ==
  ASSUME IInv, NEW p \in Process, Called(p)
  PROVE  IInv'
<1>1. DEFINE e == Head(inbox[p])
<1>2. inbox[p] \in Seq(Process) /\ inbox[p] # <<>>
  BY DEF Called, IInv, TypeOK
<1>3. e \in Process /\ e = inbox[p][1] /\ 1 \in 1..Len(inbox[p])
  BY <1>2
<1>4. /\ pc[p] = "dispatch" /\ pc' = [pc EXCEPT ![p] = "allocate"]
      /\ cb' = [cb EXCEPT ![p] = [e |-> {e}, ok |-> TRUE]]
      /\ held' = [held EXCEPT ![p] = @ \cup {<<"event", e>>}]
      /\ inbox' = [inbox EXCEPT ![p] = Tail(@)]
      /\ refused' = refused /\ handled' = handled /\ subscribed' = subscribed
      /\ coming' = coming /\ retained' = retained /\ published' = published
  BY DEF Called, Goes
<1>5. /\ pc' \in [Process -> Pc] /\ pc'[p] = "allocate"
      /\ \A q \in Process : q # p => pc'[q] = pc[q]
  BY <1>4 DEF IInv, TypeOK, Pc, Callback
<1>6. /\ cb' \in [Process -> [e : SUBSET Process, ok : BOOLEAN]]
      /\ cb'[p].e = {e} /\ \A q \in Process : q # p => cb'[q] = cb[q]
  BY <1>3, <1>4 DEF IInv, TypeOK
<1>7. /\ held' \in [Process -> SUBSET Item]
      /\ held'[p] = held[p] \cup {<<"event", e>>}
      /\ \A q \in Process : q # p => held'[q] = held[q]
  <2>1. held \in [Process -> SUBSET Item] /\ <<"event", e>> \in Item
    BY <1>3 DEF IInv, TypeOK, Item
  <2>2. QED
    BY <1>4, <2>1
<1>8. /\ inbox' \in [Process -> Seq(Process)] /\ inbox'[p] = Tail(inbox[p])
      /\ \A q \in Process : q # p => inbox'[q] = inbox[q]
  BY <1>2, <1>4 DEF IInv, TypeOK
<1>9. \A i \in 1..Len(inbox'[p]) : i + 1 \in 1..Len(inbox[p]) /\ inbox'[p][i] = inbox[p][i + 1]
  BY <1>2, <1>8
<1>10. TypeOK'
  BY <1>2, <1>4, <1>5, <1>6, <1>7, <1>8 DEF IInv, TypeOK, Item
<1>11. HeldInCallback'
  BY <1>4, <1>5, <1>6, <1>7 DEF IInv, HeldInCallback, Callback
<1>12. Once'
  <2>1. e \in published
    BY <1>3 DEF IInv, Once
  <2>2. \A i \in 1..Len(inbox'[p]) : inbox'[p][i] \in published
    BY <1>9 DEF IInv, Once
  <2>3. QED
    BY <1>4, <1>5, <1>6, <1>8, <2>1, <2>2 DEF IInv, Once, Before
<1>13. Cleared'
  BY <1>4, <1>5, <1>6 DEF IInv, Cleared
<1>14. QED
  BY <1>10, <1>11, <1>12, <1>13 DEF IInv

\* The callback returns early: what it holds is not freed, and refused says so.
LEMMA ReturnsStep ==
  ASSUME IInv, NEW p \in Process, pc[p] \in Callback, Refuses(p), Returns(p),
         NEW got \in SUBSET Buffers,
         held' = [held EXCEPT ![p] = @ \cup (got \X cb[p].e)]
  PROVE  IInv'
<1>1. /\ pc' = [pc EXCEPT ![p] = "dispatch"] /\ cb' = [cb EXCEPT ![p] = NoEvent]
      /\ refused' = refused \cup ({p} \X cb[p].e) /\ handled' = handled
      /\ subscribed' = subscribed /\ coming' = coming /\ inbox' = inbox
      /\ retained' = retained /\ published' = published
  BY DEF Returns, Refuses, Goes, svcVars
<1>2. /\ pc' \in [Process -> Pc] /\ pc'[p] = "dispatch"
      /\ \A q \in Process : q # p => pc'[q] = pc[q]
  BY <1>1 DEF IInv, TypeOK, Pc
<1>3. /\ cb' \in [Process -> [e : SUBSET Process, ok : BOOLEAN]]
      /\ cb'[p].e = {} /\ \A q \in Process : q # p => cb'[q] = cb[q]
  BY <1>1 DEF IInv, TypeOK, NoEvent
<1>4. cb[p].e \subseteq Process
  BY DEF IInv, TypeOK
<1>5. /\ refused \subseteq refused' /\ refused' \subseteq Process \X Process
      /\ \A e \in cb[p].e : <<p, e>> \in refused'
  BY <1>1, <1>4 DEF IInv, TypeOK
<1>6. /\ held' \in [Process -> SUBSET Item]
      /\ \A h \in held'[p] : h \in held[p] \/ h[2] \in cb[p].e
      /\ \A q \in Process : q # p => held'[q] = held[q]
  <2>1. held \in [Process -> SUBSET Item] /\ got \X cb[p].e \subseteq Item
    BY <1>4 DEF IInv, TypeOK, Item
  <2>2. QED
    BY <2>1
<1>7. TypeOK'
  BY <1>1, <1>2, <1>3, <1>5, <1>6 DEF IInv, TypeOK, Item
<1>8. HeldInCallback'
  BY <1>1, <1>2, <1>3, <1>5, <1>6 DEF IInv, HeldInCallback, Callback
<1>9. Once'
  BY <1>1, <1>2, <1>3 DEF IInv, Once, Before
<1>10. Cleared'
  BY <1>1, <1>2, <1>3 DEF IInv, Cleared
<1>11. QED
  BY <1>7, <1>8, <1>9, <1>10 DEF IInv

LEMMA DropsStep ==
  ASSUME IInv, NEW p \in Process, pc[p] \in Callback, Drops(p)
  PROVE  IInv'
<1>1. held \in [Process -> SUBSET Item]
  BY DEF IInv, TypeOK, Item
<1>2. held' = [held EXCEPT ![p] = @ \cup ({} \X cb[p].e)]
  BY <1>1 DEF Drops
<1>3. {} \in SUBSET Buffers
  OBVIOUS
<1>4. Refuses(p) /\ Returns(p)
  BY DEF Drops
<1>5. QED
  BY <1>2, <1>3, <1>4, ReturnsStep

\* Both buffers are there, or the callback returns.
LEMMA AllocateStep ==
  ASSUME IInv, NEW p \in Process, Allocate(p)
  PROVE  IInv'
<1>1. PICK got \in {{}, {"data"}, Buffers} :
        /\ held' = [held EXCEPT ![p] = @ \cup (got \X cb[p].e)]
        /\ IF got = Buffers
           THEN Goes(p, "AttributesGet") /\ UNCHANGED <<cb, refused, handled, svcVars>>
           ELSE Refuses(p) /\ Returns(p)
  BY DEF Allocate
<1>2. got \in SUBSET Buffers /\ pc[p] = "allocate" /\ pc[p] \in Callback
  BY <1>1 DEF Buffers, Allocate, Callback
<1>3. CASE got # Buffers
  BY <1>1, <1>2, <1>3, ReturnsStep
<1>4. CASE got = Buffers
  <2>1. /\ pc' = [pc EXCEPT ![p] = "AttributesGet"] /\ cb' = cb /\ refused' = refused
        /\ handled' = handled /\ subscribed' = subscribed /\ coming' = coming
        /\ inbox' = inbox /\ retained' = retained /\ published' = published
    BY <1>1, <1>4 DEF Goes, svcVars
  <2>2. /\ pc' \in [Process -> Pc] /\ pc'[p] = "AttributesGet"
        /\ \A q \in Process : q # p => pc'[q] = pc[q]
    BY <2>1 DEF IInv, TypeOK, Pc, Callback
  <2>3. held \in [Process -> SUBSET Item] /\ got \X cb[p].e \subseteq Item
    BY <1>2 DEF IInv, TypeOK, Item
  <2>4. /\ held' \in [Process -> SUBSET Item]
        /\ \A h \in held'[p] : h \in held[p] \/ h[2] \in cb[p].e
        /\ \A q \in Process : q # p => held'[q] = held[q]
    BY <1>1, <2>3
  <2>5. TypeOK'
    BY <2>1, <2>2, <2>4 DEF IInv, TypeOK, Item
  <2>6. HeldInCallback'
    BY <1>2, <2>1, <2>2, <2>4 DEF IInv, HeldInCallback, Callback
  <2>7. Once' /\ Cleared'
    BY <2>1, <2>2 DEF IInv, Once, Cleared, Before
  <2>8. QED
    BY <2>5, <2>6, <2>7 DEF IInv
<1>5. QED
  BY <1>3, <1>4

LEMMA ReadingStep ==
  ASSUME IInv, NEW p \in Process, AttributesGet(p) \/ DataGet(p) \/ Enter(p)
  PROVE  IInv'
<1>1. pc[p] \in Callback
  BY DEF AttributesGet, DataGet, Enter, Callback
<1>2. CASE Drops(p)
  BY <1>1, <1>2, DropsStep
<1>3. CASE ~Drops(p)
  <2>1. \E to \in {"DataGet", "enter", "RetentionTimeClear"} : Goes(p, to)
    BY <1>3 DEF AttributesGet, DataGet, Enter, retention_time
  <2>2. UNCHANGED <<callVars, svcVars>>
    BY <1>3 DEF AttributesGet, DataGet, Enter
  <2>3. \A to \in {"DataGet", "enter", "RetentionTimeClear"} :
          to \in Pc /\ to \in Callback /\ to \notin Before /\ to # "free"
    BY DEF Pc, Callback, Before
  <2>4. QED
    BY <1>1, <2>1, <2>2, <2>3, SilentStep
<1>4. QED
  BY <1>2, <1>3

\* Either the event is kept no more, or the callback does not count as OK.
LEMMA ClearStep ==
  ASSUME IInv, NEW p \in Process, RetentionTimeClear(p)
  PROVE  IInv'
<1>1. /\ pc[p] = "RetentionTimeClear" /\ pc' = [pc EXCEPT ![p] = "free"]
      /\ held' = held /\ refused' = refused /\ handled' = handled
      /\ subscribed' = subscribed /\ coming' = coming /\ inbox' = inbox
      /\ published' = published
  BY DEF RetentionTimeClear, Goes
<1>2. /\ pc' \in [Process -> Pc] /\ pc'[p] = "free"
      /\ \A q \in Process : q # p => pc'[q] = pc[q]
  BY <1>1 DEF IInv, TypeOK, Pc, Callback
<1>3. /\ cb' \in [Process -> [e : SUBSET Process, ok : BOOLEAN]]
      /\ cb'[p].e = cb[p].e /\ \A q \in Process : q # p => cb'[q] = cb[q]
      /\ retained' \subseteq retained
      /\ cb'[p].ok => cb[p].e \cap retained' = {}
  <2>1. cb \in [Process -> [e : SUBSET Process, ok : BOOLEAN]]
    BY DEF IInv, TypeOK
  <2>2. CASE retained' = retained \ cb[p].e /\ UNCHANGED cb
    BY <2>1, <2>2
  <2>3. CASE cb' = [cb EXCEPT ![p].ok = FALSE] /\ UNCHANGED retained
    BY <2>1, <2>3
  <2>4. QED
    BY <2>2, <2>3 DEF RetentionTimeClear
<1>4. TypeOK'
  BY <1>1, <1>2, <1>3 DEF IInv, TypeOK
<1>5. HeldInCallback'
  BY <1>1, <1>2, <1>3 DEF IInv, HeldInCallback, Callback
<1>6. Once'
  BY <1>1, <1>2, <1>3 DEF IInv, Once, Before
<1>7. Cleared'
  BY <1>1, <1>2, <1>3 DEF IInv, Cleared
<1>8. QED
  BY <1>4, <1>5, <1>6, <1>7 DEF IInv

LEMMA FreeStep ==
  ASSUME IInv, NEW p \in Process, ReceivedEventFree(p)
  PROVE  IInv'
<1>1. /\ pc[p] = "free" /\ pc' = [pc EXCEPT ![p] = "dispatch"]
      /\ cb' = [cb EXCEPT ![p] = NoEvent]
      /\ subscribed' = subscribed /\ coming' = coming /\ inbox' = inbox
      /\ retained' = retained /\ published' = published
  BY DEF ReceivedEventFree, Goes, svcVars
<1>2. /\ pc' \in [Process -> Pc] /\ pc'[p] = "dispatch"
      /\ \A q \in Process : q # p => pc'[q] = pc[q]
  BY <1>1 DEF IInv, TypeOK, Pc
<1>3. /\ cb' \in [Process -> [e : SUBSET Process, ok : BOOLEAN]]
      /\ cb'[p].e = {} /\ \A q \in Process : q # p => cb'[q] = cb[q]
  BY <1>1 DEF IInv, TypeOK, NoEvent
<1>4. cb[p].e \subseteq Process
  BY DEF IInv, TypeOK
<1>5. /\ held' \in [Process -> SUBSET Item] /\ held'[p] \subseteq held[p]
      /\ \A q \in Process : q # p => held'[q] = held[q]
      /\ refused \subseteq refused' /\ refused' \subseteq Process \X Process
      /\ \A h \in held'[p] : h[2] \in cb[p].e => <<p, h[2]>> \in refused'
  <2>1. held \in [Process -> SUBSET Item] /\ refused \subseteq Process \X Process
    BY DEF IInv, TypeOK, Item
  <2>2. CASE /\ held' = [held EXCEPT ![p] = @ \ ((Buffers \cup {"event"}) \X cb[p].e)]
             /\ UNCHANGED refused
    <3>1. held'[p] = held[p] \ ((Buffers \cup {"event"}) \X cb[p].e)
      BY <2>1, <2>2
    <3>2. \A h \in held'[p] : h \in Item /\ h[2] \notin cb[p].e
      BY <2>1, <3>1 DEF Item
    <3>3. QED
      BY <2>1, <2>2, <3>1, <3>2
  <2>3. CASE /\ held' = [held EXCEPT ![p] = @ \ (Buffers \X cb[p].e)]
             /\ refused' = refused \cup ({p} \X cb[p].e)
    BY <1>4, <2>1, <2>3
  <2>4. QED
    BY <2>2, <2>3 DEF ReceivedEventFree, Refuses
<1>6. handled' = handled \/ (cb[p].ok /\ handled' = handled \cup cb[p].e)
  BY DEF ReceivedEventFree
<1>7. TypeOK'
  <2>1. handled' \subseteq Process
    BY <1>4, <1>6 DEF IInv, TypeOK
  <2>2. QED
    BY <1>1, <1>2, <1>3, <1>5, <2>1 DEF IInv, TypeOK, Item
<1>8. HeldInCallback'
  BY <1>1, <1>2, <1>3, <1>5 DEF IInv, HeldInCallback, Callback
<1>9. Once'
  BY <1>1, <1>2, <1>3, <1>6 DEF IInv, Once, Before
<1>10. Cleared'
  BY <1>1, <1>2, <1>3, <1>6 DEF IInv, Cleared
<1>11. QED
  BY <1>7, <1>8, <1>9, <1>10 DEF IInv

\* The service brings an event to a run that has subscribed.
LEMMA ArriveStep ==
  ASSUME IInv, NEW p \in Process, Arrive(p)
  PROVE  IInv'
<1>1. PICK e \in coming[p] : /\ coming' = [coming EXCEPT ![p] = @ \ {e}]
                             /\ inbox' = [inbox EXCEPT ![p] = Append(@, e)]
  BY DEF Arrive
<1>2. /\ pc' = pc /\ cb' = cb /\ held' = held /\ refused' = refused
      /\ handled' = handled /\ subscribed' = subscribed
      /\ retained' = retained /\ published' = published
  BY DEF Arrive, callVars
<1>3. e \in Process /\ e \in published /\ p \in subscribed
  BY DEF IInv, TypeOK, Once
<1>4. /\ coming' \in [Process -> SUBSET Process] /\ coming'[p] \subseteq coming[p]
      /\ \A q \in Process : q # p => coming'[q] = coming[q]
  BY <1>1 DEF IInv, TypeOK
<1>5. /\ inbox' \in [Process -> Seq(Process)] /\ inbox'[p] = Append(inbox[p], e)
      /\ \A q \in Process : q # p => inbox'[q] = inbox[q]
  BY <1>1, <1>3 DEF IInv, TypeOK
<1>6. \A i \in 1..Len(inbox'[p]) :
        inbox'[p][i] = e \/ (i \in 1..Len(inbox[p]) /\ inbox'[p][i] = inbox[p][i])
  BY <1>3, <1>5 DEF IInv, TypeOK
<1>7. TypeOK'
  BY <1>2, <1>3, <1>4, <1>5 DEF IInv, TypeOK
<1>8. HeldInCallback' /\ Cleared'
  BY <1>2 DEF IInv, HeldInCallback, Cleared
<1>9. Once'
  <2>1. \A i \in 1..Len(inbox'[p]) : inbox'[p][i] \in published
    BY <1>3, <1>6 DEF IInv, Once
  <2>2. QED
    BY <1>2, <1>4, <1>5, <2>1 DEF IInv, Once
<1>10. QED
  BY <1>7, <1>8, <1>9 DEF IInv

LEMMA ExpiresStep ==
  ASSUME IInv, RetentionExpires
  PROVE  IInv'
<1>1. /\ retained' \subseteq retained
      /\ pc' = pc /\ cb' = cb /\ held' = held /\ refused' = refused
      /\ handled' = handled /\ subscribed' = subscribed
      /\ coming' = coming /\ inbox' = inbox /\ published' = published
  BY DEF RetentionExpires, callVars
<1>2. QED
  BY <1>1 DEF IInv, TypeOK, HeldInCallback, Once, Cleared

LEMMA NextIInv == IInv /\ [Next]_vars => IInv'
<1>1. SUFFICES ASSUME IInv, [Next]_vars PROVE IInv'
  OBVIOUS
<1>2. CASE UNCHANGED vars
  BY <1>1, <1>2
     DEF vars, callVars, svcVars, IInv, TypeOK, HeldInCallback, Once, Cleared
<1>3. ASSUME NEW p \in Process, Run(p) PROVE IInv'
  BY <1>1, <1>3, CallStep, SubscribeStep, PublishStep, DispatchStep, UnsubscribeStep,
     CalledStep, AllocateStep, ReadingStep, ClearStep, FreeStep DEF Run
<1>4. QED
  BY <1>1, <1>2, <1>3, ArriveStep, GoneStep, ExpiresStep DEF Next

----------------------------------------------------------------------------
(****************************************************************************)
(* What the program keeps true, for any number of runs of it.               *)
(****************************************************************************)
THEOREM Invariance == Spec => []IInv
BY InitIInv, NextIInv, PTL DEF Spec

\* The types are kept; in particular events wait only for a run that has
\* subscribed, and none is left for one that has gone.
THEOREM TypeCorrect == Spec => []TypeOK
<1>1. IInv => TypeOK
  BY DEF IInv
<1>2. QED
  BY <1>1, Invariance, PTL

\* The callback frees its event, the data and the patterns on every way out
\* but those where the event could not be read or freed.
THEOREM Freed == Spec => []EventsFreed
<1>1. IInv => EventsFreed
  BY DEF IInv, HeldInCallback, EventsFreed
<1>2. QED
  BY <1>1, Invariance, PTL

\* No step subscribes a run and brings it an event that was handled before.
LEMMA SubscribesToFresh ==
  ASSUME IInv, [Next]_vars, NEW p \in subscribed' \ subscribed
  PROVE  coming'[p] \cap handled = {}
<1>1. ~UNCHANGED vars
  BY DEF vars, svcVars
<1>2. PICK q \in Process : Run(q) \/ Arrive(q) \/ PollFails(q) \/ Quit(q)
  <2>1. ~RetentionExpires
    BY DEF RetentionExpires
  <2>2. QED
    BY <1>1, <2>1 DEF Next
<1>3. EventSubscribe(q)
  BY <1>2 DEF Run, Call, Publish, Dispatch, DispatchDone, EventUnsubscribe, Called, Allocate,
     AttributesGet, DataGet, Enter, RetentionTimeClear, ReceivedEventFree, Arrive,
     PollFails, Quit, Forgotten, Drops, Refuses, Returns, svcVars
<1>4. /\ p = q
      /\ coming' = [coming EXCEPT ![q] = IF Matches THEN retained ELSE {}]
  BY <1>3 DEF EventSubscribe
<1>5. coming'[p] \subseteq retained
  BY <1>4 DEF IInv, TypeOK
<1>6. QED
  BY <1>5 DEF IInv, Cleared

\* A handled event does not come to a run that subscribes afterwards.
THEOREM Fresh == Spec => NothingStale
<1>1. IInv /\ [Next]_vars
        => [\A p \in subscribed' \ subscribed : coming'[p] \cap handled = {}]_vars
  BY SubscribesToFresh
<1>2. QED
  BY <1>1, Invariance, PTL DEF Spec, NothingStale

=============================================================================
