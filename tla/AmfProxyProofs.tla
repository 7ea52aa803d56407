----------------------------- MODULE AmfProxyProofs -----------------------------
(****************************************************************************)
(* The proxy answers OK only when both of what it stands for are where AMF  *)
(* wants them, whatever call to AMF fails between the first and the second. *)
(*                                                                          *)
(* Structure says what is queued and which callback is under way, as for    *)
(* the wrapper, but here for three components with two queues.  Half-way    *)
(* through a callback the answer is not yet true; RegSound and ServSound    *)
(* follow each of its calls, from the state before it to the one that it    *)
(* answers for.  What is quiesced with the proxy no longer needs its health *)
(* checks (WindingDown), or the unregistration would take them from an      *)
(* active component.                                                        *)
(****************************************************************************)
EXTENDS AmfProxy, SequenceTheorems, TLAPS

Working == {"callback", "register", "unregister", "startHc", "stopHc", "stop", "respond"}
Pc == {"down", "init", "initProxied", "loop"} \cup Working
Todo == {<<>>, <<X, Y>>, <<Y>>, <<"shallow", "deep">>, <<"deep">>}

Types ==
  /\ pc \in Pc
  /\ ready \subseteq Handle /\ cb \in Callback /\ status \in {"OK", "FAILED"}
  /\ todo \in Todo
  /\ queue \in [Handle -> Seq(Callback)]
  /\ pending \in [Comp -> Callback] /\ assigned \in [Comp -> HaState]
  /\ registered \subseteq Comp /\ hc \in [Comp -> SUBSET (Key \cup {"default"})]
  /\ \A c \in Proxied : hc[c] \subseteq Key
  /\ fault \subseteq Comp /\ running \subseteq Proxied

Csi(c) == c.type # "health"

\* A queue of a handle has at most the callback that AMF waits for of each of its
\* components, and one health check.
Fits(h, q, p) ==
  /\ \A k \in 1..Len(q) :
       /\ HandleOf(q[k].comp) = h /\ q[k].type # "none"
       /\ Csi(q[k]) => q[k] = p[q[k].comp]
  /\ \A j, k \in 1..Len(q) :
       /\ ~Csi(q[j]) /\ ~Csi(q[k]) => j = k
       /\ Csi(q[j]) /\ Csi(q[k]) /\ q[j].comp = q[k].comp => j = k
Queued ==
  /\ \A h \in Handle : Fits(h, queue[h], pending)
  /\ \A h \in ready : queue[h] # <<>>

Free(q, c) == \A k \in 1..Len(q) : Csi(q[k]) => q[k].comp # c

Pending ==
  \A c \in Comp :
    /\ pending[c].comp = c /\ Csi(pending[c])
    /\ pending[c].type = "set" => <<assigned[c], pending[c].ha>> \in Changes
    /\ pending[c].type # "set" => pending[c].ha = "none"
    /\ c = Proxy /\ pending[c].type = "remove" => assigned[c] \in {"STANDBY", "QUIESCED"}
    /\ pending[c].type = "cleanup" => c \in Proxied

To(ha) == cb.type = "set" /\ cb.ha = ha

\* The callback under way.
Steps ==
  /\ pc \in Working /\ Csi(cb) =>
       /\ cb = pending[cb.comp]
       /\ Free(queue[HandleOf(cb.comp)], cb.comp)
  /\ pc \in Working => cb.type # "none"
  /\ pc = "register" => cb.comp = Proxy /\ To("ACTIVE") /\ todo \in {<<X, Y>>, <<Y>>}
  /\ pc = "unregister" => cb.comp = Proxy /\ To("QUIESCED") /\ todo \in {<<X, Y>>, <<Y>>}
  /\ pc = "startHc" =>
       cb.comp \in Proxied /\ To("ACTIVE") /\ todo \in {<<"shallow", "deep">>, <<"deep">>}
  /\ pc = "stopHc" =>
       /\ cb.comp \in Proxied /\ todo \in {<<"shallow", "deep">>, <<"deep">>}
       /\ cb.type = "remove" \/ To("QUIESCED")
  /\ pc = "stop" => cb.comp \in Proxied /\ (cb.type = "remove" \/ To("QUIESCED"))
  /\ pc \notin {"register", "unregister", "startHc", "stopHc"} => todo = <<>>

\* There is nothing of a process that does not run.
Nothing ==
  /\ registered = {} /\ running = {} /\ ready = {}
  /\ \A c \in Comp : pending[c] = None(c) /\ assigned[c] = "none" /\ hc[c] = {}
  /\ \A h \in Handle : queue[h] = <<>>
Down == pc \in {"down", "init"} => Nothing

WindingDown ==
  pending[Proxy].type = "set" /\ assigned[Proxy] = "ACTIVE" => Released

Structure == Types /\ Queued /\ Pending /\ Steps /\ Down /\ WindingDown

Responding(c) == pc = "respond" /\ cb.comp = c /\ cb.type \in {"set", "remove"}

RegisteredAs(ha) ==
  IF ha = "ACTIVE" THEN Proxied \subseteq registered ELSE Proxied \cap registered = {}
RegSound ==
  /\ pc \notin {"register", "unregister"} /\ ~Responding(Proxy) =>
       RegisteredAs(assigned[Proxy])
  /\ Responding(Proxy) /\ status = "OK" => RegisteredAs(cb.ha)
  /\ pc = "register" =>
       Proxied \cap registered = (IF todo = <<X, Y>> THEN {} ELSE {X})
  /\ pc = "unregister" =>
       Proxied \cap registered = (IF todo = <<X, Y>> THEN Proxied ELSE {Y})

ServedAs(c, ha) ==
  IF ha = "ACTIVE" THEN c \in running /\ hc[c] = Key ELSE c \notin running
ServSound(c) ==
  /\ ~(cb.comp = c /\ pc \in {"startHc", "stopHc", "stop"}) /\ ~Responding(c) =>
       ServedAs(c, assigned[c])
  /\ Responding(c) /\ status = "OK" => ServedAs(c, cb.ha)
  /\ pc = "startHc" /\ cb.comp = c =>
       c \in running /\ (todo = <<"deep">> => "shallow" \in hc[c])

\* What holds as long as the proxy, and for each of the two that component, has
\* no fault.
Sound ==
  Proxy \notin fault => RegSound /\ \A c \in Proxied \ fault : ServSound(c)

IInv == Structure /\ Sound

----------------------------------------------------------------------------
(****************************************************************************)
(* The queues.                                                              *)
(****************************************************************************)
LEMMA TailFits ==
  ASSUME NEW h, NEW q \in Seq(Callback), q # <<>>, NEW p, Fits(h, q, p)
  PROVE  /\ Head(q) \in Callback /\ Tail(q) \in Seq(Callback)
         /\ Fits(h, Tail(q), p)
         /\ HandleOf(Head(q).comp) = h /\ Head(q).type # "none"
         /\ Csi(Head(q)) => Head(q) = p[Head(q).comp] /\ Free(Tail(q), Head(q).comp)
<1> DEFINE t == Tail(q)
<1>1. /\ Head(q) \in Callback /\ t \in Seq(Callback) /\ Head(q) = q[1]
      /\ Len(q) \in Nat /\ Len(q) >= 1 /\ Len(t) = Len(q) - 1
      /\ \A k \in 1..Len(t) : t[k] = q[k + 1]
  BY HeadTailProperties, LenProperties, EmptySeq
<1>2. 1 \in 1..Len(q) /\ \A k \in 1..Len(t) : k + 1 \in 1..Len(q) /\ k + 1 # 1
  BY <1>1
<1>3. ASSUME NEW k \in 1..Len(t)
      PROVE  /\ HandleOf(t[k].comp) = h /\ t[k].type # "none"
             /\ Csi(t[k]) => t[k] = p[t[k].comp]
             /\ Csi(Head(q)) /\ Csi(t[k]) => t[k].comp # Head(q).comp
  <2>1. k + 1 \in 1..Len(q) /\ k + 1 # 1 /\ t[k] = q[k + 1]
    BY <1>1, <1>2
  <2>2. QED
    BY <1>1, <1>2, <2>1 DEF Fits
<1>4. ASSUME NEW j \in 1..Len(t), NEW k \in 1..Len(t),
             \/ ~Csi(t[j]) /\ ~Csi(t[k])
             \/ Csi(t[j]) /\ Csi(t[k]) /\ t[j].comp = t[k].comp
      PROVE  j = k
  <2>1. /\ j + 1 \in 1..Len(q) /\ t[j] = q[j + 1]
        /\ k + 1 \in 1..Len(q) /\ t[k] = q[k + 1]
    BY <1>1, <1>2
  <2>2. j + 1 = k + 1
    BY <1>4, <2>1 DEF Fits
  <2>3. QED
    BY <2>2
<1>5. Fits(h, t, p)
  BY <1>3, <1>4 DEF Fits
<1>6. Csi(Head(q)) => Free(t, Head(q).comp)
  BY <1>3 DEF Free
<1>7. QED
  BY <1>1, <1>2, <1>5, <1>6 DEF Fits

LEMMA PendingFits ==
  ASSUME NEW h, NEW q, NEW p \in [Comp -> Callback], NEW c \in Comp, NEW e,
         Fits(h, q, p), Free(q, c)
  PROVE  Fits(h, q, [p EXCEPT ![c] = e])
BY DEF Fits, Free

LEMMA AppendFits ==
  ASSUME NEW h, NEW q \in Seq(Callback), NEW p \in [Comp -> Callback], NEW e \in Callback,
         Fits(h, q, p), HandleOf(e.comp) = h, e.type # "none",
         ~Csi(e) => \A k \in 1..Len(q) : Csi(q[k]),
         Csi(e) => p[e.comp] = e /\ Free(q, e.comp)
  PROVE  Append(q, e) \in Seq(Callback) /\ Fits(h, Append(q, e), p)
<1> DEFINE r == Append(q, e)
<1>1. /\ r \in Seq(Callback) /\ Len(q) \in Nat /\ Len(r) = Len(q) + 1
      /\ \A k \in 1..Len(q) : r[k] = q[k]
      /\ r[Len(q) + 1] = e
  BY AppendProperties, LenProperties
<1>2. ASSUME NEW k \in 1..Len(r) PROVE k \in 1..Len(q) \/ k = Len(q) + 1
  BY <1>1
<1>3. ASSUME NEW k \in 1..Len(r)
      PROVE  /\ HandleOf(r[k].comp) = h /\ r[k].type # "none"
             /\ Csi(r[k]) => r[k] = p[r[k].comp]
  <2>1. CASE k \in 1..Len(q)
    BY <1>1, <2>1 DEF Fits
  <2>2. CASE k = Len(q) + 1
    BY <1>1, <2>2
  <2>3. QED
    BY <1>2, <2>1, <2>2
<1>4. ASSUME NEW j \in 1..Len(r), NEW k \in 1..Len(r),
             \/ ~Csi(r[j]) /\ ~Csi(r[k])
             \/ Csi(r[j]) /\ Csi(r[k]) /\ r[j].comp = r[k].comp
      PROVE  j = k
  <2>1. CASE j \in 1..Len(q) /\ k \in 1..Len(q)
    BY <1>1, <1>4, <2>1 DEF Fits
  <2>2. CASE j = Len(q) + 1 /\ k = Len(q) + 1
    BY <2>2
  <2>3. CASE j \in 1..Len(q) /\ k = Len(q) + 1
    BY <1>1, <1>4, <2>3 DEF Free
  <2>4. CASE k \in 1..Len(q) /\ j = Len(q) + 1
    BY <1>1, <1>4, <2>4 DEF Free
  <2>5. QED
    BY <1>2, <2>1, <2>2, <2>3, <2>4
<1>5. QED
  BY <1>1, <1>3, <1>4 DEF Fits

\* A component of whose callbacks AMF waits for none has none queued.
LEMMA NothingQueued ==
  ASSUME Structure, NEW c \in Comp, NEW h \in Handle, pending[c].type = "none"
  PROVE  Free(queue[h], c)
BY DEF Structure, Queued, Fits, Free

LEMMA NoneIs ==
  ASSUME NEW c \in Comp
  PROVE  /\ None(c) \in Callback /\ None(c).comp = c
         /\ None(c).type = "none" /\ None(c).ha = "none"
BY DEF None, Cb, Callback, Type, HaState

\* The two calls of a callback, one after the other.
LEMMA ComponentsLeft ==
  ASSUME todo \in {<<X, Y>>, <<Y>>}
  PROVE  \/ todo = <<X, Y>> /\ Head(todo) = X /\ Tail(todo) = <<Y>> /\ ~Last
         \/ todo = <<Y>> /\ Head(todo) = Y /\ Tail(todo) = <<>> /\ Last
<1>1. CASE todo = <<X, Y>>
  <2>1. Head(todo) = X
    BY <1>1
  <2>2. Tail(todo) = <<Y>>
    BY <1>1
  <2>3. ~Last
    BY <1>1 DEF Last
  <2>4. QED
    BY <1>1, <2>1, <2>2, <2>3
<1>2. CASE todo = <<Y>>
  <2>1. Head(todo) = Y
    BY <1>2
  <2>2. Tail(todo) = <<>>
    BY <1>2
  <2>3. Last
    BY <1>2 DEF Last
  <2>4. QED
    BY <1>2, <2>1, <2>2, <2>3
<1>3. QED
  BY <1>1, <1>2

LEMMA ChecksLeft ==
  ASSUME todo \in {<<"shallow", "deep">>, <<"deep">>}
  PROVE  \/ todo = <<"shallow", "deep">> /\ Head(todo) = "shallow" /\ ~Last
            /\ Tail(todo) = <<"deep">>
         \/ todo = <<"deep">> /\ Head(todo) = "deep" /\ Tail(todo) = <<>> /\ Last
<1>1. CASE todo = <<"shallow", "deep">>
  <2>1. Head(todo) = "shallow"
    BY <1>1
  <2>2. Tail(todo) = <<"deep">>
    BY <1>1
  <2>3. ~Last
    BY <1>1 DEF Last
  <2>4. QED
    BY <1>1, <2>1, <2>2, <2>3
<1>2. CASE todo = <<"deep">>
  <2>1. Head(todo) = "deep"
    BY <1>2
  <2>2. Tail(todo) = <<>>
    BY <1>2
  <2>3. Last
    BY <1>2 DEF Last
  <2>4. QED
    BY <1>2, <2>1, <2>2, <2>3
<1>3. QED
  BY <1>1, <1>2

\* The handle of a component is not that of another one's queue.
LEMMA FreeElsewhere ==
  ASSUME NEW h \in Handle, NEW q, NEW p, NEW c, Fits(h, q, p), HandleOf(c) # h
  PROVE  Free(q, c)
BY DEF Fits, Free

----------------------------------------------------------------------------
(****************************************************************************)
(* The structure, action by action.                                         *)
(****************************************************************************)
LEMMA GoneKeepsStructure ==
  ASSUME Gone, fault' \subseteq Comp
  PROVE  Structure'
<1>1. /\ pc' = "down" /\ ready' = {} /\ cb' = None(Proxy) /\ todo' = <<>> /\ status' = "OK"
      /\ queue' = [h \in Handle |-> <<>>]
      /\ pending' = [c \in Comp |-> None(c)] /\ assigned' = [c \in Comp |-> "none"]
      /\ registered' = {} /\ hc' = [c \in Comp |-> {}] /\ running' = {}
  BY DEF Gone, Idle
<1>2. Proxy \in Comp /\ Proxied \subseteq Comp
  BY DEF Comp
<1>3. /\ pending' \in [Comp -> Callback]
      /\ \A c \in Comp : /\ pending'[c].comp = c /\ pending'[c].type = "none"
                         /\ pending'[c].ha = "none"
  BY <1>1, NoneIs
<1>4. Types'
  BY <1>1, <1>2, <1>3, NoneIs, EmptySeq DEF Types, Pc, Todo, HaState
<1>5. Queued'
  BY <1>1, EmptySeq DEF Queued, Fits
<1>6. Pending'
  BY <1>3 DEF Pending, Csi
<1>7. Steps' /\ Down'
  BY <1>1 DEF Steps, Working, Down, Nothing
<1>8. WindingDown'
  BY <1>2, <1>3 DEF WindingDown
<1>9. QED
  BY <1>4, <1>5, <1>6, <1>7, <1>8 DEF Structure

LEMMA DieKeepsStructure ==
  ASSUME Die
  PROVE  Structure'
BY GoneKeepsStructure DEF Die, Comp

\* What a step that leaves AMF alone leaves as it was.
LEMMA AmfLeftAlone ==
  ASSUME Structure, UNCHANGED <<queue, pending, assigned, fault>>, ready' = ready
  PROVE  Queued' /\ Pending' /\ WindingDown'
BY DEF Structure, Queued, Fits, Pending, WindingDown, Released, Quiet

LEMMA StartKeepsStructure ==
  ASSUME Structure, ProxyAmfInitialize \/ ProxiedAmfInitialize \/ Instantiate
  PROVE  Structure'
<1>1. CASE Die
  BY <1>1, DieKeepsStructure
<1>2. CASE ProxyAmfInitialize /\ ~Die
  <2>1. /\ pc = "init" /\ pc' = "initProxied" /\ registered' = registered \cup {Proxy}
        /\ hc' = [hc EXCEPT ![Proxy] = {"default"}]
        /\ UNCHANGED <<ready, cb, todo, status, queue, pending, assigned, fault, running>>
    BY <1>2 DEF ProxyAmfInitialize, At, Goto
  <2>2. Types'
    BY <2>1, AmfProxyAssumption DEF Structure, Types, Pc, Comp, Proxied
  <2>3. Steps' /\ Down'
    BY <2>1 DEF Structure, Steps, Working, Down
  <2>4. QED
    BY <2>1, <2>2, <2>3, AmfLeftAlone DEF Structure
<1>3. CASE (ProxiedAmfInitialize \/ Instantiate) /\ ~Die
  <2>1. /\ \/ pc = "initProxied" /\ pc' = "loop"
           \/ pc = "down" /\ pc' = "init"
        /\ UNCHANGED <<ready, cb, todo, status, queue, pending, assigned, registered, hc,
                       fault, running>>
    BY <1>3 DEF ProxiedAmfInitialize, Instantiate, At, Goto, amfVars
  <2>2. Types'
    BY <2>1 DEF Structure, Types, Pc
  <2>3. Steps' /\ Down'
    BY <2>1 DEF Structure, Steps, Working, Down, Nothing
  <2>4. QED
    BY <2>1, <2>2, <2>3, AmfLeftAlone DEF Structure
<1>4. QED
  BY <1>1, <1>2, <1>3

LEMMA PollKeepsStructure ==
  ASSUME Structure, Poll
  PROVE  Structure'
<1>1. /\ pc = "loop" /\ ready' = {h \in Handle : queue[h] # <<>>}
      /\ UNCHANGED <<pc, cb, todo, status, queue, pending, assigned, registered, hc,
                     fault, running>>
  BY DEF Poll, At, amfVars
<1>2. Types' /\ Steps' /\ Down'
  BY <1>1 DEF Structure, Types, Steps, Working, Down
<1>3. Queued'
  BY <1>1 DEF Structure, Queued, Fits
<1>4. Pending' /\ WindingDown'
  BY <1>1 DEF Structure, Pending, WindingDown, Released, Quiet
<1>5. QED
  BY <1>2, <1>3, <1>4 DEF Structure

LEMMA DispatchKeepsStructure ==
  ASSUME Structure, Dispatch
  PROVE  Structure'
<1>1. CASE Die
  BY <1>1, DieKeepsStructure
<1>2. CASE ~Die
  <2> DEFINE h == Turn
  <2>1. /\ pc = "loop" /\ ready # {}
        /\ cb' = Head(queue[h]) /\ queue' = [queue EXCEPT ![h] = Tail(@)]
        /\ ready' = ready \ {h} /\ pc' = "callback" /\ status' = "OK"
        /\ UNCHANGED <<todo, pending, assigned, registered, hc, fault, running>>
    BY <1>2 DEF Dispatch, At
  <2>2. h \in ready /\ h \in Handle
    BY <2>1 DEF Structure, Types, Handle, Turn
  <2>3. queue[h] \in Seq(Callback) /\ queue[h] # <<>> /\ Fits(h, queue[h], pending)
    BY <2>2 DEF Structure, Types, Queued
  <2> HIDE DEF h
  <2>4. /\ cb' \in Callback /\ Tail(queue[h]) \in Seq(Callback)
        /\ Fits(h, Tail(queue[h]), pending)
        /\ HandleOf(cb'.comp) = h /\ cb'.type # "none"
        /\ Csi(cb') => cb' = pending[cb'.comp] /\ Free(Tail(queue[h]), cb'.comp)
    BY <2>1, <2>3, TailFits
  <2>5. /\ queue'[h] = Tail(queue[h])
        /\ \A g \in Handle : g # h => queue'[g] = queue[g]
        /\ queue' \in [Handle -> Seq(Callback)]
    BY <2>1, <2>2, <2>4 DEF Structure, Types
  <2>6. Types'
    BY <2>1, <2>4, <2>5 DEF Structure, Types, Pc, Working
  <2>7. Queued'
    <3>1. \A g \in Handle : Fits(g, queue'[g], pending)
      BY <2>4, <2>5 DEF Structure, Queued
    <3>2. \A g \in ready' : queue'[g] # <<>>
      BY <2>1, <2>5 DEF Structure, Queued, Types
    <3>3. QED
      BY <2>1, <3>1, <3>2 DEF Queued
  <2>8. Steps' /\ Down'
    BY <2>1, <2>4, <2>5 DEF Structure, Steps, Down
  <2>9. Pending' /\ WindingDown'
    BY <2>1 DEF Structure, Pending, WindingDown, Released, Quiet
  <2>10. QED
    BY <2>6, <2>7, <2>8, <2>9 DEF Structure
<1>3. QED
  BY <1>1, <1>2

LEMMA CallbackKeepsStructure ==
  ASSUME Structure,
         \/ ProxyCsiSet \/ JustRespond \/ ProxiedCsiSet \/ ProxiedCsiRemove \/ ProxiedCleanup
  PROVE  Structure'
<1>1. /\ pc = "callback" /\ todo = <<>> /\ cb.type # "none"
      /\ UNCHANGED <<ready, queue, pending, assigned, registered, hc, fault>>
  BY DEF ProxyCsiSet, JustRespond, ProxiedCsiSet, ProxiedCsiRemove, ProxiedCleanup,
         Called, At, amfVars, Structure, Steps, Working
<1>2. Queued' /\ Pending' /\ WindingDown'
  BY <1>1, AmfLeftAlone
<1>3. ASSUME cb' = cb, pc' \in Working \ {"callback"},
             running' = running \/ (cb.comp \in Proxied /\ running' = running \cup {cb.comp}),
             status' \in {"OK", "FAILED"}, todo' \in Todo, Steps'
      PROVE  Structure'
  <2>1. Types'
    BY <1>1, <1>3 DEF Structure, Types, Pc
  <2>2. Down'
    BY <1>3 DEF Down, Working
  <2>3. QED
    BY <1>2, <1>3, <2>1, <2>2 DEF Structure
<1>4. /\ Csi(cb) => cb = pending[cb.comp] /\ Free(queue[HandleOf(cb.comp)], cb.comp)
      /\ status \in {"OK", "FAILED"} /\ cb \in Callback
  BY <1>1 DEF Structure, Steps, Types, Working
<1>5. CASE ProxyCsiSet
  <2>1. /\ cb' = cb /\ cb.comp = Proxy /\ cb.type = "set" /\ running' = running
        /\ \/ /\ cb.ha = "ACTIVE" /\ pc' = "register" /\ todo' = <<X, Y>> /\ status' = status
           \/ /\ cb.ha = "QUIESCED" /\ pc' = "unregister" /\ todo' = <<X, Y>>
              /\ status' = status
           \/ pc' = "respond" /\ status' \in {"OK", "FAILED"} /\ todo' = todo
    BY <1>5, <1>1 DEF ProxyCsiSet, Called, Begin, Answer
  <2>2. Steps'
    BY <1>1, <1>4, <2>1 DEF Steps, To, Working
  <2>3. QED
    BY <1>1, <1>3, <1>4, <2>1, <2>2 DEF Working, Todo
<1>6. CASE JustRespond
  <2>1. /\ cb' = cb /\ pc' = "respond" /\ status' = "OK" /\ todo' = todo /\ running' = running
    BY <1>6 DEF JustRespond, Answer
  <2>2. Steps'
    BY <1>1, <1>4, <2>1 DEF Steps, To, Working
  <2>3. QED
    BY <1>1, <1>3, <1>4, <2>1, <2>2 DEF Working, Todo
<1>7. CASE ProxiedCsiSet
  <2>1. /\ cb' = cb /\ cb.comp \in Proxied /\ cb.type = "set"
        /\ running' \in {running, running \cup {cb.comp}}
        /\ \/ /\ cb.ha = "ACTIVE" /\ pc' = "startHc" /\ todo' = <<"shallow", "deep">>
              /\ status' = status
           \/ /\ cb.ha = "QUIESCED" /\ pc' = "stopHc" /\ todo' = <<"shallow", "deep">>
              /\ status' = status
           \/ pc' = "respond" /\ status' \in {"OK", "FAILED"} /\ todo' = todo
    BY <1>7, <1>1 DEF ProxiedCsiSet, Called, Begin, Answer
  <2>2. Steps'
    BY <1>1, <1>4, <2>1 DEF Steps, To, Working
  <2>3. QED
    BY <1>1, <1>3, <1>4, <2>1, <2>2 DEF Working, Todo
<1>8. CASE ProxiedCsiRemove
  <2>1. /\ cb' = cb /\ cb.comp \in Proxied /\ cb.type = "remove" /\ running' = running
        /\ pc' = "stopHc" /\ todo' = <<"shallow", "deep">> /\ status' = status
    BY <1>8, <1>1 DEF ProxiedCsiRemove, Called, Begin
  <2>2. Steps'
    BY <1>1, <1>4, <2>1 DEF Steps, To, Working
  <2>3. QED
    BY <1>1, <1>3, <1>4, <2>1, <2>2 DEF Working, Todo
<1>9. CASE ProxiedCleanup
  <2>1. /\ pc' = "loop" /\ cb' = None(Proxy) /\ todo' = <<>> /\ status' = "OK"
        /\ running' = running
    BY <1>9 DEF ProxiedCleanup, Idle
  <2>2. cb' \in Callback
    BY <2>1, NoneIs DEF Comp
  <2>3. Types' /\ Steps' /\ Down'
    BY <1>1, <2>1, <2>2 DEF Structure, Types, Pc, Todo, Steps, Working, Down
  <2>4. QED
    BY <1>2, <2>3 DEF Structure
<1>10. QED
  BY <1>5, <1>6, <1>7, <1>8, <1>9

Inner == RegisterProxied \/ UnregisterProxied \/ StartHc \/ StopHc \/ TerminateProxiedComp

LEMMA InnerLeavesAlone ==
  ASSUME Inner
  PROVE  UNCHANGED <<ready, cb, queue, pending, assigned, fault>>
<1>1. CASE RegisterProxied \/ UnregisterProxied
  BY <1>1 DEF RegisterProxied, UnregisterProxied, OneDone, Failed, amfVars
<1>2. CASE StartHc \/ StopHc
  BY <1>2 DEF StartHc, StopHc, OneDone, Failed, amfVars
<1>3. CASE TerminateProxiedComp
  BY <1>3 DEF TerminateProxiedComp, amfVars
<1>4. QED
  BY <1>1, <1>2, <1>3 DEF Inner

\* What the two calls of a callback do, each with what was left before it.
LEMMA RegisterDoes ==
  ASSUME Structure, RegisterProxied
  PROVE  /\ pc = "register" /\ UNCHANGED <<hc, running>>
         /\ \/ /\ todo = <<X, Y>> /\ pc' = "register" /\ todo' = <<Y>> /\ status' = status
               /\ registered' = registered \cup {X}
            \/ /\ todo = <<Y>> /\ pc' = "respond" /\ todo' = <<>> /\ status' = status
               /\ registered' = registered \cup {Y}
            \/ /\ pc' = "respond" /\ todo' = <<>> /\ status' = "FAILED"
               /\ registered' = registered
<1>1. pc = "register" /\ todo \in {<<X, Y>>, <<Y>>}
  BY DEF RegisterProxied, At, Structure, Steps
<1>2. \/ /\ todo = <<X, Y>> /\ Head(todo) = X /\ Tail(todo) = <<Y>> /\ ~Last
      \/ /\ todo = <<Y>> /\ Head(todo) = Y /\ Tail(todo) = <<>> /\ Last
  BY <1>1, ComponentsLeft
<1>3. \/ Failed("respond", "FAILED")
      \/ OneDone /\ registered' = registered \cup {Head(todo)} /\ hc' = hc
         /\ pc' = (IF Last THEN "respond" ELSE "register")
  BY DEF RegisterProxied
<1>4. CASE Failed("respond", "FAILED")
  BY <1>1, <1>4 DEF RegisterProxied, Failed, amfVars
<1>5. CASE OneDone /\ registered' = registered \cup {Head(todo)} /\ hc' = hc
         /\ pc' = (IF Last THEN "respond" ELSE "register")
  BY <1>1, <1>2, <1>5 DEF RegisterProxied, OneDone
<1>6. QED
  BY <1>3, <1>4, <1>5

LEMMA UnregisterDoes ==
  ASSUME Structure, UnregisterProxied
  PROVE  /\ pc = "unregister" /\ UNCHANGED running
         /\ \/ /\ todo = <<X, Y>> /\ pc' = "unregister" /\ todo' = <<Y>> /\ status' = status
               /\ registered' = registered \ {X} /\ hc' = [hc EXCEPT ![X] = {}]
            \/ /\ todo = <<Y>> /\ pc' = "respond" /\ todo' = <<>> /\ status' = status
               /\ registered' = registered \ {Y} /\ hc' = [hc EXCEPT ![Y] = {}]
            \/ /\ pc' = "respond" /\ todo' = <<>> /\ status' = "FAILED"
               /\ UNCHANGED <<registered, hc>>
<1>1. pc = "unregister" /\ todo \in {<<X, Y>>, <<Y>>}
  BY DEF UnregisterProxied, At, Structure, Steps
<1>2. \/ /\ todo = <<X, Y>> /\ Head(todo) = X /\ Tail(todo) = <<Y>> /\ ~Last
      \/ /\ todo = <<Y>> /\ Head(todo) = Y /\ Tail(todo) = <<>> /\ Last
  BY <1>1, ComponentsLeft
<1>3. \/ Failed("respond", "FAILED")
      \/ OneDone /\ registered' = registered \ {Head(todo)}
         /\ hc' = [hc EXCEPT ![Head(todo)] = {}]
         /\ pc' = (IF Last THEN "respond" ELSE "unregister")
  BY DEF UnregisterProxied
<1>4. CASE Failed("respond", "FAILED")
  BY <1>1, <1>4 DEF UnregisterProxied, Failed, amfVars
<1>5. CASE OneDone /\ registered' = registered \ {Head(todo)}
         /\ hc' = [hc EXCEPT ![Head(todo)] = {}]
         /\ pc' = (IF Last THEN "respond" ELSE "unregister")
  BY <1>1, <1>2, <1>5 DEF UnregisterProxied, OneDone
<1>6. QED
  BY <1>3, <1>4, <1>5

LEMMA StartHcDoes ==
  ASSUME Structure, StartHc
  PROVE  /\ pc = "startHc" /\ cb.comp \in Proxied /\ UNCHANGED <<registered, running>>
         /\ \/ /\ todo = <<"shallow", "deep">> /\ pc' = "startHc" /\ todo' = <<"deep">>
               /\ status' = status
               /\ hc' = [hc EXCEPT ![cb.comp] = @ \cup {"shallow"}]
            \/ /\ todo = <<"deep">> /\ pc' = "respond" /\ todo' = <<>> /\ status' = status
               /\ hc' = [hc EXCEPT ![cb.comp] = @ \cup {"deep"}]
            \/ /\ pc' = "respond" /\ todo' = <<>> /\ status' = "FAILED" /\ hc' = hc
<1>1. pc = "startHc" /\ cb.comp \in Proxied /\ todo \in {<<"shallow", "deep">>, <<"deep">>}
  BY DEF StartHc, At, Structure, Steps
<1>2. \/ /\ todo = <<"shallow", "deep">> /\ Head(todo) = "shallow" /\ ~Last
         /\ Tail(todo) = <<"deep">>
      \/ /\ todo = <<"deep">> /\ Head(todo) = "deep" /\ Tail(todo) = <<>> /\ Last
  BY <1>1, ChecksLeft
<1>3. \/ Failed("respond", "FAILED")
      \/ OneDone /\ hc' = [hc EXCEPT ![cb.comp] = @ \cup {Head(todo)}]
         /\ pc' = (IF Last THEN "respond" ELSE "startHc") /\ registered' = registered
  BY DEF StartHc
<1>4. CASE Failed("respond", "FAILED")
  BY <1>1, <1>4 DEF StartHc, Failed, amfVars
<1>5. CASE OneDone /\ hc' = [hc EXCEPT ![cb.comp] = @ \cup {Head(todo)}]
         /\ pc' = (IF Last THEN "respond" ELSE "startHc") /\ registered' = registered
  BY <1>1, <1>2, <1>5 DEF StartHc, OneDone
<1>6. QED
  BY <1>3, <1>4, <1>5

LEMMA StopHcDoes ==
  ASSUME Structure, StopHc
  PROVE  /\ pc = "stopHc" /\ cb.comp \in Proxied /\ UNCHANGED <<registered, running>>
         /\ status' \in {status, "FAILED"}
         /\ \/ \E k \in Key : hc' = [hc EXCEPT ![cb.comp] = @ \ {k}]
            \/ hc' = hc
         /\ \/ pc' = "stopHc" /\ todo' = <<"deep">>
            \/ pc' = "stop" /\ todo' = <<>>
<1>1. pc = "stopHc" /\ cb.comp \in Proxied /\ todo \in {<<"shallow", "deep">>, <<"deep">>}
  BY DEF StopHc, At, Structure, Steps
<1>2. \/ /\ todo = <<"shallow", "deep">> /\ Head(todo) = "shallow" /\ ~Last
         /\ Tail(todo) = <<"deep">>
      \/ /\ todo = <<"deep">> /\ Head(todo) = "deep" /\ Tail(todo) = <<>> /\ Last
  BY <1>1, ChecksLeft
<1>3. \/ Failed("stop", "FAILED")
      \/ OneDone /\ hc' = [hc EXCEPT ![cb.comp] = @ \ {Head(todo)}]
         /\ pc' = (IF Last THEN "stop" ELSE "stopHc") /\ registered' = registered
  BY DEF StopHc
<1>4. CASE Failed("stop", "FAILED")
  BY <1>1, <1>4 DEF StopHc, Failed, amfVars
<1>5. CASE OneDone /\ hc' = [hc EXCEPT ![cb.comp] = @ \ {Head(todo)}]
         /\ pc' = (IF Last THEN "stop" ELSE "stopHc") /\ registered' = registered
  <2>1. Head(todo) \in Key /\ IF Last THEN Tail(todo) = <<>> ELSE Tail(todo) = <<"deep">>
    BY <1>2 DEF Key
  <2>2. QED
    BY <1>1, <1>5, <2>1 DEF StopHc, OneDone
<1>6. QED
  BY <1>3, <1>4, <1>5

LEMMA InnerKeepsStructure ==
  ASSUME Structure, Inner
  PROVE  Structure'
<1>1. UNCHANGED <<ready, cb, queue, pending, assigned, fault>>
  BY InnerLeavesAlone
<1>2. Queued' /\ Pending' /\ WindingDown'
  BY <1>1, AmfLeftAlone
<1>3. Types /\ Steps /\ X \in Comp /\ Y \in Comp /\ Proxied \subseteq Comp
  BY DEF Structure, Comp, Proxied
<1>4. ASSUME pc' \in Working PROVE Down'
  BY <1>4 DEF Down, Working
<1>5. SUFFICES Types' /\ Steps' /\ Down'
  BY <1>2 DEF Structure
<1>6. CASE RegisterProxied
  <2>1. Types'
    BY <1>1, <1>3, <1>6, RegisterDoes DEF Types, Pc, Todo, Working
  <2>2. pc' \in Working /\ Steps'
    BY <1>1, <1>3, <1>6, RegisterDoes DEF Steps, Working, To
  <2>3. QED
    BY <1>4, <2>1, <2>2
<1>7. CASE UnregisterProxied
  <2>1. hc' \in [Comp -> SUBSET (Key \cup {"default"})] /\ \A c \in Proxied : hc'[c] \subseteq Key
    BY <1>3, <1>7, UnregisterDoes DEF Types
  <2>2. Types'
    BY <1>1, <1>3, <1>7, <2>1, UnregisterDoes DEF Types, Pc, Todo, Working
  <2>3. pc' \in Working /\ Steps'
    BY <1>1, <1>3, <1>7, UnregisterDoes DEF Steps, Working, To
  <2>4. QED
    BY <1>4, <2>2, <2>3
<1>8. CASE StartHc
  <2>1. hc' \in [Comp -> SUBSET (Key \cup {"default"})] /\ \A c \in Proxied : hc'[c] \subseteq Key
    <3>1. hc' = hc \/ \E k \in Key : hc' = [hc EXCEPT ![cb.comp] = @ \cup {k}]
      BY <1>8, StartHcDoes DEF Key
    <3>2. cb.comp \in Comp
      BY <1>3, <1>8, StartHcDoes
    <3>3. hc \in [Comp -> SUBSET (Key \cup {"default"})] /\ \A c \in Proxied : hc[c] \subseteq Key
      BY <1>3 DEF Types
    <3>4. CASE hc' = hc
      BY <3>3, <3>4
    <3>5. ASSUME NEW k \in Key, hc' = [hc EXCEPT ![cb.comp] = @ \cup {k}]
          PROVE  hc' \in [Comp -> SUBSET (Key \cup {"default"})]
                 /\ \A c \in Proxied : hc'[c] \subseteq Key
      BY <1>3, <3>2, <3>3, <3>5
    <3>6. QED
      BY <3>1, <3>4, <3>5
  <2>2. Types'
    BY <1>1, <1>3, <1>8, <2>1, StartHcDoes DEF Types, Pc, Todo, Working
  <2>3. pc' \in Working /\ Steps'
    BY <1>1, <1>3, <1>8, StartHcDoes DEF Steps, Working, To
  <2>4. QED
    BY <1>4, <2>2, <2>3
<1>9. CASE StopHc
  <2>1. hc' \in [Comp -> SUBSET (Key \cup {"default"})] /\ \A c \in Proxied : hc'[c] \subseteq Key
    BY <1>3, <1>9, StopHcDoes DEF Types
  <2>2. Types'
    BY <1>1, <1>3, <1>9, <2>1, StopHcDoes DEF Types, Pc, Todo, Working
  <2>3. pc' \in Working /\ Steps'
    BY <1>1, <1>3, <1>9, StopHcDoes DEF Steps, Working, To
  <2>4. QED
    BY <1>4, <2>2, <2>3
<1>10. CASE TerminateProxiedComp
  <2>1. /\ pc = "stop" /\ pc' = "respond" /\ todo' = todo /\ status' = "OK"
        /\ running' = running \ {cb.comp} /\ UNCHANGED <<registered, hc>>
    BY <1>10 DEF TerminateProxiedComp, At, Answer, amfVars
  <2>2. Types'
    BY <1>1, <1>3, <2>1 DEF Types, Pc, Working
  <2>3. pc' \in Working /\ Steps'
    BY <1>1, <1>3, <2>1 DEF Steps, Working, To
  <2>4. QED
    BY <1>4, <2>2, <2>3
<1>11. QED
  BY <1>6, <1>7, <1>8, <1>9, <1>10 DEF Inner

\* A response that AMF waits for is to the callback that it sent last; any other
\* one is to a health check.
LEMMA RespondedTo ==
  ASSUME Structure, pc = "respond"
  PROVE  /\ cb \in Callback /\ cb.comp \in Comp /\ cb.type # "none" /\ cb.ha \in HaState
         /\ status \in {"OK", "FAILED"} /\ todo = <<>>
         /\ Expected <=> Csi(cb)
         /\ Expected => \A h \in Handle : Free(queue[h], cb.comp)
<1>1. /\ cb \in Callback /\ cb.comp \in Comp /\ cb.type # "none" /\ cb.ha \in HaState
      /\ status \in {"OK", "FAILED"} /\ todo = <<>>
      /\ Csi(cb) => /\ cb = pending[cb.comp]
                    /\ Free(queue[HandleOf(cb.comp)], cb.comp)
  BY DEF Structure, Types, Steps, Working, Callback
<1>2. Expected <=> Csi(cb)
  BY <1>1 DEF Expected, Structure, Pending
<1>3. ASSUME NEW h \in Handle, Csi(cb) PROVE Free(queue[h], cb.comp)
  <2>1. CASE h = HandleOf(cb.comp)
    BY <1>1, <1>3, <2>1
  <2>2. CASE h # HandleOf(cb.comp)
    BY <2>2, FreeElsewhere DEF Structure, Queued
  <2>3. QED
    BY <2>1, <2>2
<1>4. QED
  BY <1>1, <1>2, <1>3

LEMMA RespondKeepsStructure ==
  ASSUME Structure, Respond
  PROVE  Structure'
<1>1. CASE Die
  BY <1>1, DieKeepsStructure
<1>2. CASE ~Die
  <2> DEFINE c == cb.comp
  <2>1. /\ pc = "respond" /\ pc' = "loop" /\ cb' = None(Proxy) /\ todo' = <<>>
        /\ status' = "OK" /\ Told /\ UNCHANGED <<ready, queue, registered, hc, running>>
    BY <1>2 DEF Respond, At, Idle
  <2>2. /\ cb \in Callback /\ c \in Comp /\ cb.type # "none" /\ cb.ha \in HaState
        /\ status \in {"OK", "FAILED"}
        /\ Expected => Csi(cb) /\ \A h \in Handle : Free(queue[h], c)
    BY <2>1, RespondedTo
  <2>3. /\ pending' = IF Expected THEN [pending EXCEPT ![c] = None(c)] ELSE pending
        /\ assigned' = assigned \/ (Expected /\ assigned' = [assigned EXCEPT ![c] = cb.ha])
        /\ fault' = fault \/ fault' = fault \cup {c}
    BY <2>1 DEF Told
  <2> HIDE DEF c
  <2>4. Types'
    <3>1. pending' \in [Comp -> Callback] /\ assigned' \in [Comp -> HaState]
      BY <2>2, <2>3, NoneIs DEF Structure, Types
    <3>2. cb' \in Callback /\ fault' \subseteq Comp
      BY <2>1, <2>2, <2>3, NoneIs DEF Structure, Types, Comp
    <3>3. QED
      BY <2>1, <3>1, <3>2 DEF Structure, Types, Pc, Todo
  <2>5. Queued'
    <3>1. ASSUME NEW h \in Handle PROVE Fits(h, queue[h], pending')
      <4>1. Fits(h, queue[h], pending) /\ pending \in [Comp -> Callback]
        BY DEF Structure, Queued, Types
      <4>2. QED
        BY <2>2, <2>3, <4>1, PendingFits
    <3>2. QED
      BY <2>1, <3>1 DEF Structure, Queued
  <2>6. Pending'
    <3>1. ASSUME NEW d \in Comp
          PROVE  \/ pending'[d] = pending[d] /\ assigned'[d] = assigned[d]
                 \/ pending'[d] = None(d)
      BY <2>2, <2>3 DEF Structure, Types
    <3>2. QED
      BY <3>1, NoneIs DEF Structure, Pending, Csi
  <2>7. Steps' /\ Down'
    BY <2>1 DEF Steps, Working, Down
  <2>8. WindingDown'
    <3>1. SUFFICES ASSUME pending'[Proxy].type = "set", assigned'[Proxy] = "ACTIVE",
                          NEW d \in Proxied
                   PROVE  d \in fault' \/ (Quiet(d)' /\ assigned'[d] = "none")
      BY DEF WindingDown, Released
    <3>2. Proxy \in Comp /\ d \in Comp
      BY DEF Comp
    <3>3. pending'[Proxy] = pending[Proxy] /\ assigned'[Proxy] = assigned[Proxy]
      BY <2>2, <2>3, <3>1, <3>2, NoneIs DEF Structure, Types
    <3>4. d \in fault \/ (pending[d].type = "none" /\ assigned[d] = "none")
      BY <3>1, <3>3 DEF Structure, WindingDown, Released, Quiet
    <3>5. CASE d \in fault
      BY <2>3, <3>5
    <3>6. CASE pending[d].type = "none" /\ assigned[d] = "none"
      <4>1. ~(Expected /\ c = d)
        BY <2>2, <3>6 DEF Expected, c
      <4>2. pending'[d] = pending[d] /\ assigned'[d] = assigned[d]
        BY <2>2, <2>3, <3>2, <4>1 DEF Structure, Types
      <4>3. QED
        BY <3>6, <4>2 DEF Quiet
    <3>7. QED
      BY <3>4, <3>5, <3>6
  <2>9. QED
    BY <2>4, <2>5, <2>6, <2>7, <2>8 DEF Structure
<1>3. QED
  BY <1>1, <1>2

LEMMA SendKeepsStructure ==
  ASSUME Structure, NEW c \in registered, NEW type \in Type \ {"none"}, NEW ha \in HaState,
         Send(c, type, ha),
         IF type = "health"
           THEN \A k \in 1..Len(queue[HandleOf(c)]) : Csi(queue[HandleOf(c)][k])
           ELSE pending[c].type = "none",
         type = "set" => <<assigned[c], ha>> \in Changes,
         type # "set" => ha = "none",
         c = Proxy /\ type = "remove" => assigned[c] \in {"STANDBY", "QUIESCED"},
         type = "cleanup" => c \in Proxied,
         WindingDown'
  PROVE  Structure'
<1> DEFINE e == Cb(c, type, ha)
           g == HandleOf(c)
<1>1. /\ c \in Comp /\ g \in Handle /\ pc \notin {"down", "init"}
      /\ Types /\ Queued /\ Pending /\ Steps
  BY DEF Structure, Types, Down, Nothing, HandleOf, Handle
<1>2. e \in Callback /\ e.comp = c /\ e.type = type /\ e.ha = ha
  BY <1>1 DEF Cb, Callback
<1>3. /\ queue' = [queue EXCEPT ![g] = Append(@, e)]
      /\ pending' = IF type = "health" THEN pending ELSE [pending EXCEPT ![c] = e]
      /\ UNCHANGED <<pc, ready, cb, todo, status, assigned, registered, hc, fault,
                     running>>
  BY DEF Send, proxyVars
<1>4. g = HandleOf(e.comp)
  BY <1>2
<1> HIDE DEF e, g
<1>5. ASSUME NEW h \in Handle
      PROVE  /\ queue[h] \in Seq(Callback) /\ Fits(h, queue[h], pending')
             /\ type # "health" => Free(queue[h], c)
  <2>1. queue[h] \in Seq(Callback) /\ Fits(h, queue[h], pending) /\ pending \in [Comp -> Callback]
    BY <1>1 DEF Types, Queued
  <2>2. type # "health" => Free(queue[h], c)
    BY <1>1, NothingQueued
  <2>3. QED
    BY <1>1, <1>3, <2>1, <2>2, PendingFits
<1>6. pending' \in [Comp -> Callback] /\ (type # "health" => pending'[c] = e)
  BY <1>1, <1>2, <1>3 DEF Types
<1>7. Append(queue[g], e) \in Seq(Callback) /\ Fits(g, Append(queue[g], e), pending')
  <2>1. type = "health" => \A k \in 1..Len(queue[g]) : Csi(queue[g][k])
    BY DEF g
  <2>2. QED
    BY <1>1, <1>2, <1>4, <1>5, <1>6, <2>1, AppendFits DEF Csi
<1>8. /\ queue'[g] = Append(queue[g], e)
      /\ \A h \in Handle : h # g => queue'[h] = queue[h]
      /\ queue' \in [Handle -> Seq(Callback)]
  BY <1>1, <1>3, <1>7 DEF Types
<1>9. Types'
  BY <1>1, <1>3, <1>6, <1>8 DEF Types
<1>10. Queued'
  <2>1. ASSUME NEW h \in Handle PROVE Fits(h, queue'[h], pending')
    BY <1>5, <1>7, <1>8
  <2>2. Append(queue[g], e) # <<>>
    BY <1>1, <1>2, AppendProperties DEF Types
  <2>3. \A h \in ready' : queue'[h] # <<>>
    BY <1>1, <1>3, <1>8, <2>2 DEF Queued, Types
  <2>4. QED
    BY <2>1, <2>3 DEF Queued
<1>11. Pending'
  <2>1. ASSUME NEW d \in Comp
        PROVE  pending'[d] = pending[d] \/ (d = c /\ type # "health" /\ pending'[d] = e)
    BY <1>1, <1>3, <1>6 DEF Types
  <2>2. QED
    BY <1>1, <1>2, <1>3, <2>1 DEF Pending, Csi
<1>12. Steps'
  <2>1. ASSUME pc \in Working, Csi(cb)
        PROVE  cb = pending'[cb.comp] /\ Free(queue'[HandleOf(cb.comp)], cb.comp)
    <3>1. /\ cb = pending[cb.comp] /\ cb.type # "none" /\ cb.comp \in Comp
          /\ Free(queue[HandleOf(cb.comp)], cb.comp)
      BY <1>1, <2>1 DEF Steps, Types, Callback
    <3>2. type # "health" => cb.comp # c
      BY <3>1
    <3>3. cb = pending'[cb.comp]
      BY <1>1, <1>3, <3>1, <3>2 DEF Types
    <3>4. HandleOf(cb.comp) \in Handle
      BY DEF HandleOf, Handle
    <3>5. CASE HandleOf(cb.comp) = g
      <4>1. /\ Len(queue[g]) \in Nat /\ Len(Append(queue[g], e)) = Len(queue[g]) + 1
            /\ \A k \in 1..Len(queue[g]) : Append(queue[g], e)[k] = queue[g][k]
            /\ Append(queue[g], e)[Len(queue[g]) + 1] = e
        BY <1>1, <1>2, AppendProperties, LenProperties DEF Types
      <4>2. Csi(e) => e.comp # cb.comp
        BY <1>2, <3>2 DEF Csi
      <4>3. Free(Append(queue[g], e), cb.comp)
        BY <3>1, <3>5, <4>1, <4>2 DEF Free
      <4>4. QED
        BY <1>8, <3>3, <3>5, <4>3
    <3>6. CASE HandleOf(cb.comp) # g
      BY <1>8, <3>1, <3>3, <3>4, <3>6
    <3>7. QED
      BY <3>5, <3>6
  <2>2. QED
    BY <1>1, <1>3, <2>1 DEF Steps, To
<1>13. Down'
  BY <1>1, <1>3 DEF Down
<1>14. QED
  BY <1>9, <1>10, <1>11, <1>12, <1>13 DEF Structure
LEMMA AmfKeepsStructure ==
  ASSUME Structure, NEW c \in Comp,
         AmfSets(c) \/ AmfRemoves(c) \/ AmfTerminates(c) \/ AmfChecksHealth(c) \/ AmfCleansUp(c)
  PROVE  Structure'
<1>1. Types /\ Proxy \in Comp /\ Proxy \notin Proxied /\ Proxied \subseteq Comp
  BY AmfProxyAssumption DEF Structure, Comp, Proxied
<1>2. "set" \in Type /\ "remove" \in Type /\ "terminate" \in Type /\ "health" \in Type
      /\ "cleanup" \in Type /\ "none" \in HaState
  BY DEF Type, HaState
<1>3. ASSUME NEW type \in Type \ {"none", "health"}, NEW ha \in HaState, Send(c, type, ha)
      PROVE  /\ pending'[c].type = type
             /\ \A d \in Comp \ {c} : pending'[d] = pending[d]
             /\ UNCHANGED <<assigned, fault>>
  BY <1>1, <1>3 DEF Send, Types, Cb
<1>4. CASE AmfSets(c)
  <2>1. PICK ha \in HaState :
           /\ ProxyServes(c) /\ <<assigned[c], ha>> \in Changes
           /\ c = Proxy /\ assigned[c] = "ACTIVE" => Released
           /\ Send(c, "set", ha)
    BY <1>4 DEF AmfSets
  <2>2. c \in registered /\ pending[c].type = "none" /\ pending[Proxy].type = "none"
    BY <2>1 DEF ProxyServes, Served, Quiet
  <2>3. WindingDown'
    <3>1. CASE c = Proxy
      BY <1>1, <1>2, <1>3, <2>1, <3>1 DEF WindingDown, Released, Quiet
    <3>2. CASE c # Proxy
      BY <1>1, <1>2, <1>3, <2>1, <2>2, <3>2 DEF WindingDown
    <3>3. QED
      BY <3>1, <3>2
  <2>4. QED
    BY <1>2, <2>1, <2>2, <2>3, SendKeepsStructure
<1>5. CASE AmfRemoves(c)
  <2>1. /\ c \in registered /\ pending[c].type = "none" /\ pending[Proxy].type = "none"
        /\ Send(c, "remove", "none")
        /\ c = Proxy => assigned[c] \in {"STANDBY", "QUIESCED"}
    BY <1>5 DEF AmfRemoves, ProxyServes, Served, Quiet
  <2>2. WindingDown'
    BY <1>1, <1>2, <1>3, <2>1 DEF WindingDown
  <2>3. QED
    BY <1>2, <2>1, <2>2, SendKeepsStructure
<1>6. CASE AmfTerminates(c)
  <2>1. /\ c \in registered /\ pending[c].type = "none" /\ pending[Proxy].type = "none"
        /\ Send(c, "terminate", "none")
    BY <1>6 DEF AmfTerminates, ProxyServes, Served, Quiet
  <2>2. WindingDown'
    BY <1>1, <1>2, <1>3, <2>1 DEF WindingDown
  <2>3. QED
    BY <1>2, <2>1, <2>2, SendKeepsStructure
<1>7. CASE AmfChecksHealth(c)
  <2>1. /\ c \in registered /\ Send(c, "health", "none")
        /\ \A k \in 1..Len(queue[HandleOf(c)]) : Csi(queue[HandleOf(c)][k])
    <3>1. HandleOf(c) \in Handle
      BY DEF HandleOf, Handle
    <3>2. DOMAIN queue[HandleOf(c)] = 1..Len(queue[HandleOf(c)])
      BY <1>1, <3>1, LenProperties DEF Types
    <3>3. QED
      BY <1>7, <3>2 DEF AmfChecksHealth, Csi
  <2>2. UNCHANGED <<pending, assigned, fault>>
    BY <2>1 DEF Send
  <2>3. WindingDown'
    BY <2>2 DEF Structure, WindingDown, Released, Quiet
  <2>4. QED
    BY <1>2, <2>1, <2>3, SendKeepsStructure
<1>8. CASE AmfCleansUp(c)
  <2>1. /\ c \in registered /\ c \in Proxied /\ pending[c].type = "none"
        /\ pending[Proxy].type = "none" /\ Send(c, "cleanup", "none")
    BY <1>8 DEF AmfCleansUp, Quiet
  <2>2. WindingDown'
    BY <1>1, <1>2, <1>3, <2>1 DEF WindingDown
  <2>3. QED
    BY <1>2, <2>1, <2>2, SendKeepsStructure
<1>9. QED
  BY <1>4, <1>5, <1>6, <1>7, <1>8

LEMMA StructureStep ==
  ASSUME Structure, [Next]_vars
  PROVE  Structure'
<1>1. CASE ProxyStep
  <2>1. CASE RespondAndExit
    BY <2>1, GoneKeepsStructure DEF RespondAndExit
  <2>2. QED
    BY <1>1, <2>1, StartKeepsStructure, PollKeepsStructure, DispatchKeepsStructure,
       CallbackKeepsStructure, InnerKeepsStructure, RespondKeepsStructure
       DEF ProxyStep, Inner
<1>2. CASE CleanUpProxy
  BY <1>2, GoneKeepsStructure DEF CleanUpProxy
<1>3. CASE AmfStep /\ ~CleanUpProxy
  BY <1>3, StartKeepsStructure, AmfKeepsStructure DEF AmfStep
<1>4. CASE Crash
  BY <1>4, DieKeepsStructure DEF Crash
<1>5. CASE UNCHANGED vars
  <2>1. UNCHANGED <<pc, ready, cb, todo, status, queue, pending, assigned, registered, hc,
                    fault, running>>
    BY <1>5 DEF vars, proxyVars, amfVars
  <2>2. Types' /\ Steps' /\ Down'
    BY <2>1 DEF Structure, Types, Steps, To, Down, Nothing
  <2>3. QED
    BY <2>1, <2>2, AmfLeftAlone DEF Structure
<1>6. QED
  BY <1>1, <1>2, <1>3, <1>4, <1>5 DEF Next

----------------------------------------------------------------------------
(****************************************************************************)
(* The answers.                                                             *)
(****************************************************************************)
LEMMA GoneIsSound ==
  ASSUME Gone
  PROVE  Sound'
<1>1. /\ pc' = "down" /\ assigned' = [c \in Comp |-> "none"] /\ registered' = {}
      /\ running' = {}
  BY DEF Gone
<1>2. RegSound'
  BY <1>1 DEF RegSound, Responding, RegisteredAs, Comp
<1>3. \A c \in Proxied : ServSound(c)'
  BY <1>1 DEF ServSound, Responding, ServedAs, Comp
<1>4. QED
  BY <1>2, <1>3 DEF Sound

\* Where nothing is under way, before and after a step, it is enough that it
\* leaves what is registered, run and checked.
Between == {"down", "init", "initProxied", "loop", "callback"}
LEMMA BetweenIsSound ==
  ASSUME Sound, pc \in Between, pc' \in Between,
         UNCHANGED <<assigned, fault, running>>,
         Proxied \cap registered' = Proxied \cap registered,
         \A c \in Proxied : hc'[c] = hc[c]
  PROVE  Sound'
<1>1. Proxied \subseteq registered' <=> Proxied \subseteq registered
  OBVIOUS
<1>2. RegSound => RegSound'
  BY <1>1 DEF RegSound, Between, Responding, RegisteredAs
<1>3. \A c \in Proxied : ServSound(c) => ServSound(c)'
  BY DEF ServSound, Between, Responding, ServedAs
<1>4. QED
  BY <1>2, <1>3 DEF Sound

LEMMA StartIsSound ==
  ASSUME Structure, Sound,
         ProxyAmfInitialize \/ ProxiedAmfInitialize \/ Instantiate \/ Poll \/ Dispatch
  PROVE  Sound'
<1>1. CASE Die
  BY <1>1, GoneIsSound DEF Die
<1>2. CASE ~Die
  <2>1. Types /\ Proxy \notin Proxied /\ Proxied \subseteq Comp
    BY AmfProxyAssumption DEF Structure, Comp, Proxied
  <2>2. CASE ProxyAmfInitialize
    <3>1. /\ pc \in Between /\ pc' \in Between /\ UNCHANGED <<assigned, fault, running>>
          /\ registered' = registered \cup {Proxy} /\ hc' = [hc EXCEPT ![Proxy] = {"default"}]
      BY <1>2, <2>2 DEF ProxyAmfInitialize, At, Goto, Between
    <3>2. QED
      BY <2>1, <3>1, BetweenIsSound DEF Types
  <2>3. CASE ProxiedAmfInitialize \/ Instantiate \/ Poll \/ Dispatch
    <3>1. /\ pc \in Between /\ pc' \in Between
          /\ UNCHANGED <<assigned, fault, running, registered, hc>>
      BY <1>2, <2>3 DEF ProxiedAmfInitialize, Instantiate, Poll, Dispatch, At, Goto, Between,
                        amfVars
    <3>2. QED
      BY <3>1, BetweenIsSound
  <2>4. QED
    BY <2>2, <2>3
<1>3. QED
  BY <1>1, <1>2

\* At the start of a callback all is as AMF has it; what AMF asks for follows on that.
LEMMA AtCallback ==
  ASSUME Structure, Sound, Proxy \notin fault, pc = "callback"
  PROVE  /\ RegisteredAs(assigned[Proxy]) /\ todo = <<>>
         /\ \A c \in Proxied \ fault : ServedAs(c, assigned[c])
         /\ cb.comp \in Comp
         /\ cb.type = "set" => <<assigned[cb.comp], cb.ha>> \in Changes
         /\ cb.type = "remove" =>
              cb.ha = "none" /\ (cb.comp = Proxy => assigned[Proxy] # "ACTIVE")
<1>1. RegSound /\ \A c \in Proxied \ fault : ServSound(c)
  BY DEF Sound
<1>2. RegisteredAs(assigned[Proxy]) /\ \A c \in Proxied \ fault : ServedAs(c, assigned[c])
  BY <1>1 DEF RegSound, ServSound, Responding
<1>3. cb.comp \in Comp /\ (Csi(cb) => cb = pending[cb.comp]) /\ todo = <<>>
  BY DEF Structure, Steps, Types, Callback, Working
<1>4. QED
  BY <1>2, <1>3 DEF Structure, Pending, Csi

LEMMA CallbackIsSound ==
  ASSUME Structure, Sound,
         \/ ProxyCsiSet \/ JustRespond \/ ProxiedCsiSet \/ ProxiedCsiRemove \/ ProxiedCleanup
  PROVE  Sound'
<1>1. SUFFICES ASSUME Proxy \notin fault' PROVE RegSound' /\ \A c \in Proxied \ fault : ServSound(c)'
  <2>1. fault' = fault
    BY DEF ProxyCsiSet, JustRespond, ProxiedCsiSet, ProxiedCsiRemove, ProxiedCleanup, amfVars
  <2>2. QED
    BY <1>1, <2>1 DEF Sound
<1>2. pc = "callback" /\ UNCHANGED <<pending, assigned, registered, hc, fault>>
  BY DEF ProxyCsiSet, JustRespond, ProxiedCsiSet, ProxiedCsiRemove, ProxiedCleanup,
         Called, At, amfVars
<1>3. /\ RegisteredAs(assigned[Proxy]) /\ todo = <<>>
      /\ \A c \in Proxied \ fault : ServedAs(c, assigned[c])
      /\ cb.comp \in Comp
      /\ cb.type = "set" => <<assigned[cb.comp], cb.ha>> \in Changes
      /\ cb.type = "remove" =>
           cb.ha = "none" /\ (cb.comp = Proxy => assigned[Proxy] # "ACTIVE")
  BY <1>1, <1>2, AtCallback
<1>4. Proxy \notin Proxied
  BY AmfProxyAssumption DEF Proxied
<1>5. CASE ProxyCsiSet
  <2>1. /\ cb' = cb /\ cb.comp = Proxy /\ cb.type = "set" /\ running' = running
        /\ \/ /\ cb.ha = "ACTIVE" /\ pc' = "register" /\ todo' = <<X, Y>>
           \/ /\ cb.ha = "QUIESCED" /\ pc' = "unregister" /\ todo' = <<X, Y>>
           \/ /\ cb.ha = "STANDBY" /\ pc' = "respond"
           \/ pc' = "respond" /\ status' = "FAILED"
    BY <1>5, <1>3 DEF ProxyCsiSet, Called, Begin, Answer
  <2>2. ASSUME NEW c \in Proxied \ fault PROVE ServSound(c)'
    BY <1>2, <1>3, <1>4, <2>1 DEF ServSound, Responding, ServedAs
  <2>3. CASE cb.ha = "ACTIVE" /\ pc' = "register" /\ todo' = <<X, Y>>
    <3>1. assigned[Proxy] # "ACTIVE"
      BY <1>3, <2>1, <2>3 DEF Changes
    <3>2. Proxied \cap registered = {}
      BY <1>3, <3>1 DEF RegisteredAs
    <3>3. RegSound'
      BY <1>2, <2>3, <3>2 DEF RegSound, Responding
    <3>4. QED
      BY <2>2, <3>3
  <2>4. CASE cb.ha = "QUIESCED" /\ pc' = "unregister" /\ todo' = <<X, Y>>
    <3>1. assigned[Proxy] = "ACTIVE"
      BY <1>3, <2>1, <2>4 DEF Changes
    <3>2. Proxied \cap registered = Proxied
      BY <1>3, <3>1 DEF RegisteredAs
    <3>3. RegSound'
      BY <1>2, <2>4, <3>2 DEF RegSound, Responding
    <3>4. QED
      BY <2>2, <3>3
  <2>5. CASE cb.ha = "STANDBY" /\ pc' = "respond"
    <3>1. assigned[Proxy] # "ACTIVE"
      BY <1>3, <2>1, <2>5 DEF Changes
    <3>2. Proxied \cap registered = {}
      BY <1>3, <3>1 DEF RegisteredAs
    <3>3. RegSound'
      BY <1>2, <2>1, <2>5, <3>2 DEF RegSound, Responding, RegisteredAs
    <3>4. QED
      BY <2>2, <3>3
  <2>6. CASE pc' = "respond" /\ status' = "FAILED"
    <3>1. RegSound'
      BY <2>1, <2>6 DEF RegSound, Responding
    <3>2. QED
      BY <2>2, <3>1
  <2>7. QED
    BY <2>1, <2>3, <2>4, <2>5, <2>6
<1>6. CASE JustRespond
  <2>1. /\ cb' = cb /\ pc' = "respond" /\ running' = running
        /\ (cb.comp = Proxy /\ cb.type = "remove") \/ cb.type \in {"health", "terminate"}
    BY <1>6 DEF JustRespond, Answer, Called
  <2>2. ASSUME NEW c \in Proxied \ fault PROVE ServSound(c)'
    BY <1>2, <1>3, <1>4, <2>1 DEF ServSound, Responding, ServedAs
  <2>3. RegSound'
    BY <1>2, <1>3, <2>1 DEF RegSound, Responding, RegisteredAs
  <2>4. QED
    BY <2>2, <2>3
<1>7. CASE ProxiedCsiSet
  <2>1. /\ cb' = cb /\ cb.comp \in Proxied /\ cb.type = "set"
        /\ running' = IF cb.ha = "ACTIVE" THEN running \cup {cb.comp} ELSE running
        /\ \/ /\ cb.ha = "ACTIVE" /\ pc' = "startHc" /\ todo' = <<"shallow", "deep">>
           \/ /\ cb.ha = "QUIESCED" /\ pc' = "stopHc"
           \/ /\ cb.ha = "STANDBY" /\ pc' = "respond"
           \/ pc' = "respond" /\ status' = "FAILED"
    BY <1>7 DEF ProxiedCsiSet, Called, Begin, Answer
  <2>2. RegSound'
    BY <1>2, <1>3, <1>4, <2>1 DEF RegSound, Responding, RegisteredAs
  <2>3. ASSUME NEW c \in Proxied \ fault PROVE ServSound(c)'
    <3>1. ServedAs(c, assigned[c])
      BY <1>3
    <3>2. CASE c # cb.comp
      BY <1>2, <2>1, <3>1, <3>2 DEF ServSound, Responding, ServedAs
    <3>3. CASE c = cb.comp /\ pc' = "startHc"
      <4>1. c \in running' /\ todo' # <<"deep">>
        BY <2>1, <3>3
      <4>2. QED
        BY <2>1, <3>3, <4>1 DEF ServSound, Responding
    <3>4. CASE c = cb.comp /\ pc' = "stopHc"
      BY <2>1, <3>4 DEF ServSound, Responding
    <3>5. CASE c = cb.comp /\ pc' = "respond"
      <4>1. status' # "OK" \/ (cb.ha = "STANDBY" /\ assigned[c] # "ACTIVE")
        BY <1>3, <2>1, <3>5 DEF Changes
      <4>2. QED
        BY <2>1, <3>1, <3>5, <4>1 DEF ServSound, Responding, ServedAs
    <3>6. QED
      BY <2>1, <3>2, <3>3, <3>4, <3>5
  <2>4. QED
    BY <2>2, <2>3
<1>8. CASE ProxiedCsiRemove
  <2>1. /\ cb' = cb /\ cb.comp \in Proxied /\ running' = running /\ pc' = "stopHc"
    BY <1>8 DEF ProxiedCsiRemove, Called, Begin
  <2>2. RegSound'
    BY <1>2, <1>3, <2>1 DEF RegSound, Responding, RegisteredAs
  <2>3. ASSUME NEW c \in Proxied \ fault PROVE ServSound(c)'
    BY <1>2, <1>3, <2>1 DEF ServSound, Responding, ServedAs
  <2>4. QED
    BY <2>2, <2>3
<1>9. CASE ProxiedCleanup
  <2>1. pc' = "loop" /\ running' = running
    BY <1>9 DEF ProxiedCleanup
  <2>2. RegSound'
    BY <1>2, <1>3, <2>1 DEF RegSound, Responding, RegisteredAs
  <2>3. ASSUME NEW c \in Proxied \ fault PROVE ServSound(c)'
    BY <1>2, <1>3, <2>1 DEF ServSound, Responding, ServedAs
  <2>4. QED
    BY <2>2, <2>3
<1>10. QED
  BY <1>5, <1>6, <1>7, <1>8, <1>9
LEMMA InnerIsSound ==
  ASSUME Structure, Sound, Inner
  PROVE  Sound'
<1>1. UNCHANGED <<ready, cb, queue, pending, assigned, fault>>
  BY InnerLeavesAlone
<1>2. SUFFICES ASSUME Proxy \notin fault PROVE RegSound' /\ \A c \in Proxied \ fault : ServSound(c)'
  BY <1>1 DEF Sound
<1>3. RegSound /\ \A c \in Proxied \ fault : ServSound(c)
  BY <1>2 DEF Sound
<1>4. Proxy \notin Proxied /\ X # Y /\ Proxied = {X, Y}
  BY AmfProxyAssumption DEF Proxied
<1>5. Types /\ Steps /\ Proxied \subseteq Comp
  BY DEF Structure, Comp
<1>6. <<Y>> # <<X, Y>>
  BY Len(<<Y>>) = 1, Len(<<X, Y>>) = 2
<1>7. CASE RegisterProxied
  <2>1. /\ pc = "register" /\ UNCHANGED <<hc, running>>
        /\ \/ /\ todo = <<X, Y>> /\ pc' = "register" /\ todo' = <<Y>>
              /\ registered' = registered \cup {X}
           \/ /\ todo = <<Y>> /\ pc' = "respond" /\ registered' = registered \cup {Y}
           \/ /\ pc' = "respond" /\ status' = "FAILED"
    BY <1>7, RegisterDoes
  <2>2. cb.comp = Proxy /\ cb.type = "set" /\ cb.ha = "ACTIVE"
    BY <1>5, <2>1 DEF Steps, To
  <2>3. ASSUME NEW c \in Proxied \ fault PROVE ServSound(c)'
    BY <1>1, <1>3, <1>4, <2>1, <2>2 DEF ServSound, Responding, ServedAs
  <2>4. Proxied \cap registered = (IF todo = <<X, Y>> THEN {} ELSE {X})
    BY <1>3, <2>1 DEF RegSound
  <2>5. CASE todo = <<X, Y>> /\ pc' = "register" /\ todo' = <<Y>>
             /\ registered' = registered \cup {X}
    <3>1. Proxied \cap registered' = {X}
      BY <1>4, <2>4, <2>5
    <3>2. QED
      BY <1>6, <2>3, <2>5, <3>1 DEF RegSound, Responding
  <2>6. CASE todo = <<Y>> /\ pc' = "respond" /\ registered' = registered \cup {Y}
    <3>1. Proxied \subseteq registered'
      BY <1>4, <1>6, <2>4, <2>6
    <3>2. QED
      BY <1>1, <2>2, <2>3, <2>6, <3>1 DEF RegSound, Responding, RegisteredAs
  <2>7. CASE pc' = "respond" /\ status' = "FAILED"
    BY <1>1, <2>2, <2>3, <2>7 DEF RegSound, Responding
  <2>8. QED
    BY <2>1, <2>5, <2>6, <2>7
<1>8. CASE UnregisterProxied
  <2>1. /\ pc = "unregister" /\ running' = running
        /\ \/ /\ todo = <<X, Y>> /\ pc' = "unregister" /\ todo' = <<Y>>
              /\ registered' = registered \ {X}
           \/ /\ todo = <<Y>> /\ pc' = "respond" /\ registered' = registered \ {Y}
           \/ /\ pc' = "respond" /\ status' = "FAILED"
    BY <1>8, UnregisterDoes
  <2>2. cb.comp = Proxy /\ cb.type = "set" /\ cb.ha = "QUIESCED"
    BY <1>5, <2>1 DEF Steps, To
  <2>3. pending[Proxy].type = "set" /\ assigned[Proxy] = "ACTIVE"
    <3>1. cb = pending[Proxy] /\ Proxy \in Comp
      BY <1>5, <2>1, <2>2 DEF Steps, Working, Csi, Comp
    <3>2. QED
      BY <2>2, <3>1 DEF Structure, Pending, Changes
  <2>4. ASSUME NEW c \in Proxied \ fault PROVE ServSound(c)'
    <3>1. assigned[c] = "none"
      BY <2>3 DEF Structure, WindingDown, Released
    <3>2. c \notin running
      BY <1>3, <1>4, <2>1, <2>2, <3>1 DEF ServSound, Responding, ServedAs
    <3>3. QED
      BY <1>1, <1>4, <2>1, <2>2, <3>1, <3>2 DEF ServSound, Responding, ServedAs
  <2>5. Proxied \cap registered = (IF todo = <<X, Y>> THEN Proxied ELSE {Y})
    BY <1>3, <2>1 DEF RegSound
  <2>6. CASE todo = <<X, Y>> /\ pc' = "unregister" /\ todo' = <<Y>>
             /\ registered' = registered \ {X}
    <3>1. Proxied \cap registered' = {Y}
      BY <1>4, <2>5, <2>6
    <3>2. QED
      BY <1>6, <2>4, <2>6, <3>1 DEF RegSound, Responding
  <2>7. CASE todo = <<Y>> /\ pc' = "respond" /\ registered' = registered \ {Y}
    <3>1. Proxied \cap registered' = {}
      BY <1>4, <1>6, <2>5, <2>7
    <3>2. QED
      BY <1>1, <2>2, <2>4, <2>7, <3>1 DEF RegSound, Responding, RegisteredAs
  <2>8. CASE pc' = "respond" /\ status' = "FAILED"
    BY <1>1, <2>2, <2>4, <2>8 DEF RegSound, Responding
  <2>9. QED
    BY <2>1, <2>6, <2>7, <2>8
<1>9. ASSUME cb.comp \in Proxied, registered' = registered, pc' \in Working,
             pc \in {"startHc", "stopHc", "stop"},
             pc' \in {"startHc", "stopHc", "stop", "respond"},
             \A c \in Proxied : c # cb.comp =>
               hc'[c] = hc[c] /\ (c \in running' <=> c \in running),
             cb.comp \notin fault => ServSound(cb.comp)'
      PROVE  RegSound' /\ \A c \in Proxied \ fault : ServSound(c)'
  <2>1. RegSound'
    BY <1>1, <1>3, <1>4, <1>9 DEF RegSound, Responding, RegisteredAs
  <2>2. ASSUME NEW c \in Proxied \ fault, c # cb.comp PROVE ServSound(c)'
    BY <1>1, <1>3, <1>9, <2>2 DEF ServSound, Responding, ServedAs
  <2>3. QED
    BY <1>1, <1>9, <2>1, <2>2
<1>10. CASE StartHc
  <2>1. /\ pc = "startHc" /\ cb.comp \in Proxied /\ UNCHANGED <<registered, running>>
        /\ \/ /\ todo = <<"shallow", "deep">> /\ pc' = "startHc" /\ todo' = <<"deep">>
              /\ hc' = [hc EXCEPT ![cb.comp] = @ \cup {"shallow"}]
           \/ /\ todo = <<"deep">> /\ pc' = "respond"
              /\ hc' = [hc EXCEPT ![cb.comp] = @ \cup {"deep"}]
           \/ /\ pc' = "respond" /\ status' = "FAILED" /\ hc' = hc
    BY <1>10, StartHcDoes
  <2>2. cb.type = "set" /\ cb.ha = "ACTIVE"
    BY <1>5, <2>1 DEF Steps, To
  <2>3. /\ \A c \in Proxied : c # cb.comp => hc'[c] = hc[c]
        /\ cb.comp \in Comp /\ hc \in [Comp -> SUBSET (Key \cup {"default"})]
    BY <1>5, <2>1 DEF Types
  <2>4. ASSUME cb.comp \notin fault PROVE ServSound(cb.comp)'
    <3>1. /\ cb.comp \in running
          /\ todo = <<"deep">> => "shallow" \in hc[cb.comp]
      BY <1>3, <2>1, <2>4 DEF ServSound
    <3>2. CASE pc' = "startHc" /\ hc' = [hc EXCEPT ![cb.comp] = @ \cup {"shallow"}]
      <4>1. "shallow" \in hc'[cb.comp]
        BY <2>3, <3>2
      <4>2. QED
        BY <1>1, <2>1, <3>1, <3>2, <4>1 DEF ServSound, Responding
    <3>3. CASE /\ todo = <<"deep">> /\ pc' = "respond"
               /\ hc' = [hc EXCEPT ![cb.comp] = @ \cup {"deep"}]
      <4>1. hc'[cb.comp] = Key
        BY <1>5, <2>1, <2>3, <3>1, <3>3 DEF Types, Key
      <4>2. QED
        BY <1>1, <2>1, <2>2, <3>1, <3>3, <4>1 DEF ServSound, Responding, ServedAs
    <3>4. CASE pc' = "respond" /\ status' = "FAILED"
      BY <1>1, <2>2, <3>4 DEF ServSound, Responding
    <3>5. QED
      BY <2>1, <3>2, <3>3, <3>4
  <2>5. QED
    BY <1>9, <2>1, <2>3, <2>4 DEF Working
<1>11. CASE StopHc
  <2>1. /\ pc = "stopHc" /\ cb.comp \in Proxied /\ UNCHANGED <<registered, running>>
        /\ (\E k \in Key : hc' = [hc EXCEPT ![cb.comp] = @ \ {k}]) \/ hc' = hc
        /\ pc' \in {"stopHc", "stop"}
    BY <1>11, StopHcDoes
  <2>2. \A c \in Proxied : c # cb.comp => hc'[c] = hc[c]
    BY <1>5, <2>1 DEF Types
  <2>3. ServSound(cb.comp)'
    BY <1>1, <2>1 DEF ServSound, Responding
  <2>4. QED
    BY <1>9, <2>1, <2>2, <2>3 DEF Working
<1>12. CASE TerminateProxiedComp
  <2>1. /\ pc = "stop" /\ pc' = "respond" /\ running' = running \ {cb.comp}
        /\ UNCHANGED <<registered, hc>>
    BY <1>12 DEF TerminateProxiedComp, At, Answer, amfVars
  <2>2. /\ cb.comp \in Proxied /\ Csi(cb) /\ cb = pending[cb.comp]
        /\ cb.type = "remove" \/ (cb.type = "set" /\ cb.ha = "QUIESCED")
    BY <1>5, <2>1 DEF Steps, To, Working, Csi
  <2>3. cb.ha # "ACTIVE"
    BY <1>5, <2>2 DEF Structure, Pending
  <2>4. ServSound(cb.comp)'
    BY <1>1, <2>1, <2>2, <2>3 DEF ServSound, Responding, ServedAs
  <2>5. QED
    BY <1>9, <2>1, <2>2, <2>4 DEF Working
<1>13. QED
  BY <1>7, <1>8, <1>10, <1>11, <1>12 DEF Inner

LEMMA RespondIsSound ==
  ASSUME Structure, Sound, Respond
  PROVE  Sound'
<1>1. CASE Die
  BY <1>1, GoneIsSound DEF Die
<1>2. CASE ~Die
  <2>1. /\ pc = "respond" /\ pc' = "loop" /\ Told /\ UNCHANGED <<registered, hc, running>>
    BY <1>2 DEF Respond, At
  <2>2. /\ cb.comp \in Comp /\ status \in {"OK", "FAILED"} /\ (Expected <=> Csi(cb))
    BY <2>1, RespondedTo
  <2>3. /\ fault' = IF status = "FAILED" THEN fault \cup {cb.comp} ELSE fault
        /\ assigned' = IF Expected /\ status = "OK" /\ cb.type \in {"set", "remove"}
                         THEN [assigned EXCEPT ![cb.comp] = cb.ha] ELSE assigned
    BY <2>1 DEF Told
  <2>4. Proxied \subseteq Comp /\ Proxy \in Comp /\ assigned \in [Comp -> HaState]
    BY DEF Structure, Types, Comp
  <2>5. ASSUME NEW c \in Comp \ fault'
        PROVE  /\ c \notin fault
               /\ Responding(c) => status = "OK" /\ assigned'[c] = cb.ha
               /\ ~Responding(c) => assigned'[c] = assigned[c]
    <3>1. c \notin fault /\ (cb.comp = c => status = "OK")
      BY <2>2, <2>3
    <3>2. CASE Responding(c)
      BY <2>2, <2>3, <2>4, <3>1, <3>2 DEF Responding, Csi
    <3>3. CASE ~Responding(c)
      BY <2>1, <2>2, <2>3, <2>4, <3>1, <3>3 DEF Responding
    <3>4. QED
      BY <3>1, <3>2, <3>3
  <2>6. SUFFICES ASSUME Proxy \notin fault'
                 PROVE  RegSound' /\ \A c \in Proxied \ fault' : ServSound(c)'
    BY DEF Sound
  <2>7. RegSound /\ \A c \in Proxied \ fault' : ServSound(c)
    BY <2>4, <2>5, <2>6 DEF Sound
  <2>8. RegisteredAs(assigned'[Proxy])
    BY <2>1, <2>4, <2>5, <2>6, <2>7 DEF RegSound
  <2>9. RegSound'
    BY <2>1, <2>8 DEF RegSound, Responding, RegisteredAs
  <2>10. ASSUME NEW c \in Proxied \ fault' PROVE ServSound(c)'
    <3>1. ServedAs(c, assigned'[c])
      BY <2>1, <2>4, <2>5, <2>7 DEF ServSound
    <3>2. QED
      BY <2>1, <3>1 DEF ServSound, Responding, ServedAs
  <2>11. QED
    BY <2>9, <2>10
<1>3. QED
  BY <1>1, <1>2

LEMMA SoundStep ==
  ASSUME IInv, [Next]_vars
  PROVE  Sound'
<1>1. Structure /\ Sound
  BY DEF IInv
<1>2. ASSUME UNCHANGED <<pc, cb, todo, status, assigned, registered, hc, fault, running>>
      PROVE  Sound'
  <2>1. RegSound => RegSound'
    BY <1>2 DEF RegSound, Responding, RegisteredAs
  <2>2. \A c \in Proxied : ServSound(c) => ServSound(c)'
    BY <1>2 DEF ServSound, Responding, ServedAs
  <2>3. QED
    BY <1>1, <1>2, <2>1, <2>2 DEF Sound
<1>3. CASE ProxyStep
  <2>1. CASE RespondAndExit
    BY <2>1, GoneIsSound DEF RespondAndExit
  <2>2. QED
    BY <1>1, <1>3, <2>1, StartIsSound, CallbackIsSound, InnerIsSound, RespondIsSound
       DEF ProxyStep, Inner
<1>4. CASE CleanUpProxy
  BY <1>4, GoneIsSound DEF CleanUpProxy
<1>5. CASE Instantiate
  BY <1>1, <1>5, StartIsSound
<1>6. CASE \E c \in Comp : AmfSets(c) \/ AmfRemoves(c) \/ AmfTerminates(c)
                             \/ AmfChecksHealth(c) \/ AmfCleansUp(c)
  <2>1. \E c \in Comp, type \in Type, ha \in HaState : Send(c, type, ha)
    BY <1>6 DEF AmfSets, AmfRemoves, AmfTerminates, AmfChecksHealth, AmfCleansUp, Type, HaState
  <2>2. QED
    BY <1>2, <2>1 DEF Send, proxyVars
<1>7. CASE Crash
  BY <1>7, GoneIsSound DEF Crash, Die
<1>8. CASE UNCHANGED vars
  BY <1>2, <1>8 DEF vars, proxyVars, amfVars
<1>9. QED
  BY <1>3, <1>4, <1>5, <1>6, <1>7, <1>8 DEF Next, AmfStep

----------------------------------------------------------------------------
LEMMA InitIInv ==
  ASSUME Init
  PROVE  IInv
<1>1. Proxy \in Comp /\ Proxied \subseteq Comp
  BY DEF Comp
<1>2. /\ pending \in [Comp -> Callback]
      /\ \A c \in Comp : /\ pending[c].comp = c /\ pending[c].type = "none"
                         /\ pending[c].ha = "none"
  BY NoneIs DEF Init
<1>3. Types
  BY <1>1, <1>2, NoneIs, EmptySeq DEF Init, Types, Pc, Todo, HaState
<1>4. Queued /\ Pending
  BY <1>2, EmptySeq DEF Init, Queued, Fits, Pending, Csi
<1>5. Steps /\ Down
  BY DEF Init, Steps, Working, Down, Nothing
<1>6. WindingDown
  BY <1>1, <1>2 DEF WindingDown
<1>7. RegSound /\ \A c \in Proxied : ServSound(c)
  BY <1>1 DEF Init, RegSound, ServSound, Responding, RegisteredAs, ServedAs
<1>8. QED
  BY <1>3, <1>4, <1>5, <1>6, <1>7 DEF IInv, Structure, Sound

LEMMA NextIInv == IInv /\ [Next]_vars => IInv'
BY StructureStep, SoundStep DEF IInv

(****************************************************************************)
(* How callbacks, answers, registrations and health checks hang together,   *)
(* whatever call fails and whenever the proxy dies.                         *)
(****************************************************************************)
THEOREM Invariance == Spec => []IInv
<1>1. Init => IInv
  BY InitIInv
<1>2. QED
  BY <1>1, NextIInv, PTL DEF Spec

\* What no callback is under way for is where the last answer put it.
LEMMA NotUnderWay ==
  ASSUME IInv, NEW c \in Comp, pending[c].type = "none", pc \in Working, Csi(cb)
  PROVE  cb.comp # c
BY DEF IInv, Structure, Steps

\* The types are kept; in particular a handle has no more queued than a callback
\* of each of its components and one health check.
THEOREM TypeCorrect == Spec => []TypeOK
<1>1. IInv => TypeOK
  <2>1. SUFFICES ASSUME IInv PROVE TypeOK
    OBVIOUS
  <2>2. ASSUME NEW h \in Handle
        PROVE  queue[h] \in Seq(Callback) /\ Len(queue[h]) \in Nat /\ Fits(h, queue[h], pending)
    BY <2>1, LenProperties DEF IInv, Structure, Types, Queued
  <2>3. "proxy" \in Handle /\ "proxied" \in Handle
    BY DEF Handle
  <2>4. Len(queue["proxy"]) <= 2
    <3> DEFINE q == queue["proxy"]
    <3>1. SUFFICES ASSUME Len(q) > 2 PROVE FALSE
      BY <2>2, <2>3
    <3>2. 1 \in 1..Len(q) /\ 2 \in 1..Len(q) /\ 3 \in 1..Len(q)
      BY <2>2, <2>3, <3>1
    <3>3. \A k \in 1..Len(q) : q[k].comp = Proxy
      BY <2>2, <2>3 DEF HandleOf, Fits
    <3>4. \A j, k \in 1..Len(q) : (Csi(q[j]) <=> Csi(q[k])) => j = k
      BY <2>2, <2>3, <3>3 DEF Fits
    <3> HIDE DEF q
    <3>5. QED
      BY <3>2, <3>4
  <2>5. Len(queue["proxied"]) <= 3
    <3> DEFINE q == queue["proxied"]
    <3>1. SUFFICES ASSUME Len(q) > 3 PROVE FALSE
      BY <2>2, <2>3
    <3>2. 1 \in 1..Len(q) /\ 2 \in 1..Len(q) /\ 3 \in 1..Len(q) /\ 4 \in 1..Len(q)
      BY <2>2, <2>3, <3>1
    <3>3. \A k \in 1..Len(q) : q[k] \in Callback
      BY <2>2, <2>3, ElementOfSeq
    <3>4. \A k \in 1..Len(q) : q[k].comp \in {X, Y}
      BY <2>2, <2>3, <3>3 DEF HandleOf, Fits, Callback, Comp, Proxied
    <3>5. \A j, k \in 1..Len(q) :
            (~Csi(q[j]) /\ ~Csi(q[k])) \/ (Csi(q[j]) /\ Csi(q[k]) /\ q[j].comp = q[k].comp)
              => j = k
      BY <2>2, <2>3 DEF Fits
    <3> HIDE DEF q
    <3>6. QED
      BY <3>2, <3>4, <3>5
  <2>6. todo \in Seq(Proxied) \cup Seq(Key)
    <3>1. todo \in {<<>>, <<X, Y>>, <<Y>>, <<"shallow", "deep">>, <<"deep">>}
      BY <2>1 DEF IInv, Structure, Types, Todo
    <3>2. <<>> \in Seq(Key) /\ <<X, Y>> \in Seq(Proxied) /\ <<Y>> \in Seq(Proxied)
      BY DEF Proxied
    <3>3. <<"shallow", "deep">> \in Seq(Key) /\ <<"deep">> \in Seq(Key)
      BY DEF Key
    <3>4. QED
      BY <3>1, <3>2, <3>3
  <2>7. QED
    BY <2>1, <2>4, <2>5, <2>6 DEF IInv, Structure, Types, TypeOK, Pc, Working
<1>2. QED
  BY <1>1, Invariance, PTL

\* What fails between X and Y is not answered with OK.
THEOREM Registered == Spec => []RegisteredAsAssigned
<1>1. IInv => RegisteredAsAssigned
  <2>1. SUFFICES ASSUME IInv, Quiet(Proxy) PROVE RegisteredAs(assigned[Proxy])
    BY DEF RegisteredAsAssigned, RegisteredAs
  <2>2. RegSound /\ pending[Proxy].type = "none" /\ Proxy \in Comp
    BY <2>1 DEF IInv, Sound, Quiet, Comp
  <2>3. pc \notin {"register", "unregister"} /\ ~Responding(Proxy)
    <3>1. pc \in {"register", "unregister"} => cb.comp = Proxy /\ Csi(cb) /\ pc \in Working
      BY <2>1 DEF IInv, Structure, Steps, To, Csi, Working
    <3>2. Responding(Proxy) => cb.comp = Proxy /\ Csi(cb) /\ pc \in Working
      BY DEF Responding, Csi, Working
    <3>3. QED
      BY <2>1, <2>2, <3>1, <3>2, NotUnderWay
  <2>4. QED
    BY <2>2, <2>3 DEF RegSound
<1>2. QED
  BY <1>1, Invariance, PTL

\* A proxied component that AMF takes for active runs with both its health
\* checks, and no other runs.
THEOREM Serving == Spec => []ServedAsAssigned
<1>1. IInv => ServedAsAssigned
  <2>1. SUFFICES ASSUME IInv, NEW c \in Proxied, Quiet(c), Proxy \notin fault
                 PROVE  ServedAs(c, assigned[c])
    BY DEF ServedAsAssigned, ServedAs
  <2>2. ServSound(c) /\ pending[c].type = "none" /\ c \in Comp
    BY <2>1 DEF IInv, Sound, Quiet, Comp
  <2>3. ~(cb.comp = c /\ pc \in {"startHc", "stopHc", "stop"}) /\ ~Responding(c)
    <3>1. pc \in {"startHc", "stopHc", "stop"} => Csi(cb) /\ pc \in Working
      BY <2>1 DEF IInv, Structure, Steps, To, Csi, Working
    <3>2. Responding(c) => cb.comp = c /\ Csi(cb) /\ pc \in Working
      BY DEF Responding, Csi, Working
    <3>3. QED
      BY <2>1, <2>2, <3>1, <3>2, NotUnderWay
  <2>4. QED
    BY <2>2, <2>3 DEF ServSound
<1>2. QED
  BY <1>1, Invariance, PTL

=============================================================================
