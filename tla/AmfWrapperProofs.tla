---------------------------- MODULE AmfWrapperProofs ----------------------------
(****************************************************************************)
(* The wrapper never leaves its service running where AMF takes it for      *)
(* stopped, or unwatched where AMF takes it for active, in whatever order   *)
(* callbacks arrive, scripts fail and processes die.                        *)
(*                                                                          *)
(* None of this is inductive.  What holds between two callbacks follows     *)
(* from where the callback under way has come to (Steps), that it is the    *)
(* one AMF waits for, and not queued again (Calls), and from what each step *)
(* leaves for the response (Running, Supervised): a step that fails either  *)
(* leaves status FAILED, which becomes a fault, or is made good by the stop *)
(* script, whose status is the last word, unless a signal has killed it.    *)
(****************************************************************************)
EXTENDS AmfWrapper, SequenceTheorems, TLAPS

Types ==
  /\ up \in BOOLEAN
  /\ pc \in Step
  /\ cb \in Callback
  /\ status \in {"OK", "FAILED"}
  /\ my_ha_state \in HaState
  /\ pid \in PID \cup {NoPid}
  /\ pidfile \in BOOLEAN
  /\ queue \in Seq(Callback)
  /\ pending \in Callback
  /\ assigned \in HaState \ {"QUIESCING"}
  /\ hc \in BOOLEAN
  /\ pm \in PID \cup {NoPid}
  /\ fault \in BOOLEAN
  /\ svc \in PID \cup {NoPid}
  /\ file \in PID \cup {Absent, Empty}
  /\ killed \in BOOLEAN

\* A queue holds the callback AMF waits for, at most, and one health check.
Queued ==
  /\ \A k \in 1..Len(queue) : queue[k].type # "health" =>
       queue[k] = pending /\ pending.type # "none"
  /\ \A j, k \in 1..Len(queue) :
       (queue[j].type = "health" <=> queue[k].type = "health") => j = k

Pending ==
  /\ pending.type # "health"
  /\ pending.type = "none" => pending = NoCallback
  /\ pending.type = "set" => <<assigned, pending.ha>> \in Follows
  /\ pending.type = "remove" => pending.ha = "none"
  /\ pending.type = "terminate" => assigned = "none"

Answerable == cb.type \in {"set", "remove"}
Calls ==
  up /\ Answerable =>
    /\ cb = pending
    /\ \A k \in 1..Len(queue) : queue[k].type = "health"

To(ha) == cb.type = "set" /\ cb.ha = ha
Ends == cb.type = "remove" \/ To("QUIESCED")
Steps ==
  up =>
    /\ pc = "poll" <=> cb.type = "none"
    /\ cb.type = "none" => cb = NoCallback
    /\ pc \in {"start", "hcStart", "getpid", "pmStart"} => To("ACTIVE")
    /\ pc \in {"pmStop", "hcStop", "stop"} => Ends \/ To("QUIESCING")
    /\ pc = "complete" => To("QUIESCING")
    /\ pc = "health" => cb.type = "health"
    /\ cb.type # "terminate"

Structure == Types /\ Queued /\ Pending /\ Calls /\ Steps

Winding == To("QUIESCING") /\ pc # "respond"
Agreed ==
  /\ Winding => my_ha_state # "ACTIVE"
  /\ ~Winding => (my_ha_state = "ACTIVE" <=> assigned = "ACTIVE")

Running ==
  /\ svc # NoPid => assigned = "ACTIVE" \/ To("ACTIVE") \/ killed
  /\ pc = "respond" /\ status = "OK" /\ Ends => svc = NoPid \/ killed
  /\ pc = "complete" /\ status = "OK" => svc = NoPid \/ killed

Watched == hc /\ (pidfile => pm # NoPid)
Supervised ==
  /\ assigned = "ACTIVE" /\ ~Answerable => Watched
  /\ pc \in {"getpid", "pmStart"} => hc
  /\ pc = "pmStart" => pid \in PID
  /\ pc = "respond" /\ status = "OK" /\ To("ACTIVE") => Watched

\* What holds as long as there is nothing to recover.
Sound ==
  ~fault =>
    /\ up => Agreed /\ Running /\ Supervised
    /\ ~up => assigned = "none" /\ (svc = NoPid \/ killed)

IInv == Structure /\ Sound

----------------------------------------------------------------------------
\* The stop script stops the service, fails and changes nothing, or is killed.
LEMMA Stopped ==
  ASSUME NEW outcome \in Outcome, StopEffect(outcome)
  PROVE  /\ svc' \in {svc, NoPid} /\ file' \in {file, Absent}
         /\ \/ svc' = NoPid /\ killed' = FALSE
            \/ outcome = "failure" /\ UNCHANGED <<svc, killed>>
            \/ outcome = "killed" /\ killed' = TRUE
BY DEF Outcome, StopEffect, svcVars

\* The dispatch of a callback: the first of the queue, which is either the one
\* AMF waits for, the only one of its kind, or a health check.
LEMMA Dispatched ==
  ASSUME Structure, NEW type \in {"set", "remove", "health", "terminate"}, Begin(type)
  PROVE  /\ cb' \in Callback /\ queue' \in Seq(Callback) /\ status' = "OK"
         /\ cb'.type = type /\ cb.type = "none"
         /\ type # "health" =>
              /\ cb' = pending
              /\ \A k \in 1..Len(queue') : queue'[k].type = "health"
         /\ \A k \in 1..Len(queue') : queue'[k].type # "health" =>
              queue'[k] = pending /\ pending.type # "none"
         /\ \A j, k \in 1..Len(queue') :
              (queue'[j].type = "health" <=> queue'[k].type = "health") => j = k
<1>1. /\ queue \in Seq(Callback) /\ queue # <<>>
      /\ cb' = Head(queue) /\ queue' = Tail(queue) /\ Head(queue).type = type
      /\ status' = "OK" /\ up /\ pc = "poll"
  BY DEF Structure, Types, Begin
<1>2. /\ Head(queue) \in Callback /\ Tail(queue) \in Seq(Callback)
      /\ Len(queue) \in Nat /\ Len(queue) >= 1
      /\ Len(queue') = Len(queue) - 1
      /\ \A k \in 1..Len(queue') : queue'[k] = queue[k + 1]
  BY <1>1, HeadTailProperties, LenProperties, EmptySeq
<1>3. cb' = queue[1] /\ 1 \in 1..Len(queue)
  BY <1>1, <1>2
<1>4. \A k \in 1..Len(queue') : k + 1 \in 1..Len(queue) /\ k + 1 # 1
  BY <1>2
<1>5. cb.type = "none"
  BY <1>1 DEF Structure, Steps
<1>6. ASSUME NEW k \in 1..Len(queue') 
      PROVE  /\ queue'[k].type # "health" => queue'[k] = pending /\ pending.type # "none"
             /\ type # "health" => queue'[k].type = "health"
  <2>1. k + 1 \in 1..Len(queue) /\ k + 1 # 1 /\ queue'[k] = queue[k + 1]
    BY <1>2, <1>4
  <2>2. queue[1].type = type
    BY <1>1, <1>3
  <2>3. QED
    BY <1>3, <2>1, <2>2 DEF Structure, Queued
<1>7. ASSUME NEW j \in 1..Len(queue'), NEW k \in 1..Len(queue'),
             queue'[j].type = "health" <=> queue'[k].type = "health"
      PROVE  j = k
  <2>1. j + 1 \in 1..Len(queue) /\ k + 1 \in 1..Len(queue)
    BY <1>4
  <2>2. queue[j + 1].type = "health" <=> queue[k + 1].type = "health"
    BY <1>2, <1>7
  <2>3. j + 1 = k + 1
    BY <2>1, <2>2 DEF Structure, Queued
  <2>4. QED
    BY <2>3
<1>8. type # "health" => cb' = pending
  BY <1>1, <1>3 DEF Structure, Queued
<1>9. QED
  BY <1>1, <1>2, <1>5, <1>6, <1>7, <1>8

----------------------------------------------------------------------------
(****************************************************************************)
(* The structure: what is queued, answered and done in which order.         *)
(****************************************************************************)
Inner ==
  \/ StartScript \/ HealthcheckStart \/ GetPid \/ PmStart
  \/ PmStop \/ HealthcheckStop \/ StopScript \/ HealthScript

\* A step within a callback leaves the callbacks alone.
LEMMA InnerKeepsCalls ==
  ASSUME Inner
  PROVE  up /\ UNCHANGED <<up, cb, queue, pending, assigned, my_ha_state, pidfile>>
<1>1. CASE StartScript \/ HealthcheckStart \/ GetPid \/ PmStart
  BY <1>1 DEF StartScript, HealthcheckStart, GetPid, PmStart, At, amfVars
<1>2. CASE PmStop \/ HealthcheckStop \/ StopScript \/ HealthScript
  BY <1>2 DEF PmStop, HealthcheckStop, StopScript, HealthScript, At, amfVars
<1>3. QED
  BY <1>1, <1>2 DEF Inner

LEMMA CallsLeftAlone ==
  ASSUME Queued, Pending, Calls,
         UNCHANGED <<up, cb, queue, pending, assigned>>
  PROVE  Queued' /\ Pending' /\ Calls'
BY DEF Queued, Pending, Calls, Answerable

LEMMA InnerKeepsTypes ==
  ASSUME Types, Inner
  PROVE  Types'
<1>1. UNCHANGED <<up, cb, queue, pending, assigned, my_ha_state, pidfile>>
  BY InnerKeepsCalls
<1>2. CASE StartScript
  <2>1. /\ svc' \in PID \cup {NoPid} /\ pc' \in Step /\ status' \in {"OK", "FAILED"}
        /\ UNCHANGED <<pid, hc, pm, fault, file, killed>>
    BY <1>2 DEF StartScript, Outcome, exec_command, Failed, amfVars, Types, Step
  <2>2. QED
    BY <1>1, <2>1 DEF Types
<1>3. CASE HealthcheckStart
  BY <1>1, <1>3 DEF HealthcheckStart, Failed, svcVars, Types, Step
<1>4. CASE GetPid
  BY <1>1, <1>4 DEF GetPid, amfVars, svcVars, Types, Step
<1>5. CASE PmStart
  BY <1>1, <1>5 DEF PmStart, Failed, svcVars, Types, Step
<1>6. CASE PmStop
  BY <1>1, <1>6 DEF PmStop, svcVars, Types, Step
<1>7. CASE HealthcheckStop
  <2>1. /\ hc' \in {FALSE, hc} /\ pc' = "stop"
        /\ UNCHANGED <<status, pid, pm, fault, svc, file, killed>>
    BY <1>7 DEF HealthcheckStop, svcVars
  <2>2. hc' \in BOOLEAN
    BY <2>1, Zenon DEF Types
  <2>3. QED
    BY <1>1, <2>1, <2>2 DEF Types, Step
<1>8. CASE StopScript
  <2>1. PICK outcome \in Outcome :
          /\ status' = IF exec_command(outcome) = 0 THEN "OK" ELSE "FAILED"
          /\ StopEffect(outcome)
    BY <1>8 DEF StopScript
  <2>2. svc' \in {svc, NoPid} /\ file' \in {file, Absent} /\ killed' \in BOOLEAN
    BY <2>1, Stopped DEF Types
  <2>3. pc' \in {"complete", "respond"} /\ UNCHANGED <<pid, hc, pm, fault>>
    BY <1>8 DEF StopScript, AfterStop, amfVars
  <2>4. QED
    BY <1>1, <2>1, <2>2, <2>3 DEF Types, Step
<1>9. CASE HealthScript
  BY <1>1, <1>9 DEF HealthScript, svcVars, Types, Step
<1>10. QED
  BY <1>2, <1>3, <1>4, <1>5, <1>6, <1>7, <1>8, <1>9 DEF Inner

LEMMA InnerKeepsSteps ==
  ASSUME Structure, Inner
  PROVE  Steps'
<1>1. up /\ up' = up /\ cb' = cb
  BY InnerKeepsCalls
<1>2. Steps
  BY DEF Structure
<1>3. CASE StartScript \/ HealthcheckStart \/ GetPid \/ PmStart
  BY <1>1, <1>2, <1>3
     DEF StartScript, HealthcheckStart, GetPid, PmStart, Failed, At, Steps, To, Ends
<1>4. CASE PmStop \/ HealthcheckStop \/ HealthScript
  BY <1>1, <1>2, <1>4 DEF PmStop, HealthcheckStop, HealthScript, At, Steps, To, Ends
<1>5. CASE StopScript
  <2>1. pc = "stop" /\ pc' = AfterStop
    BY <1>5 DEF StopScript, At
  <2>2. cb.type = "remove" => cb.ha = "none"
    BY <1>1 DEF Structure, Calls, Answerable, Pending
  <2>3. cb.type = "remove" \/ To("QUIESCED") \/ To("QUIESCING")
    BY <1>1, <1>2, <2>1 DEF Steps, Ends
  <2>4. IF To("QUIESCING") THEN pc' = "complete" ELSE pc' = "respond"
    BY <2>1, <2>2, <2>3 DEF AfterStop, To
  <2>5. QED
    BY <1>1, <1>2, <2>3, <2>4 DEF Steps, To, Ends
<1>6. QED
  BY <1>3, <1>4, <1>5 DEF Inner

LEMMA InnerKeepsStructure ==
  ASSUME Structure, Inner
  PROVE  Structure'
BY InnerKeepsCalls, CallsLeftAlone, InnerKeepsTypes, InnerKeepsSteps DEF Structure

LEMMA DispatchKeepsStructure ==
  ASSUME Structure, CsiSet \/ CsiRemove \/ Healthcheck \/ Terminate
  PROVE  Structure'
<1>1. CASE CsiSet
  <2>1. /\ Begin("set") /\ up
        /\ UNCHANGED <<up, my_ha_state, pid, pidfile, pending, assigned, hc, pm, fault,
                       svc, file, killed>>
    BY <1>1 DEF CsiSet, Begin, svcVars
  <2>2. cb' = pending /\ cb'.type = "set" /\ <<assigned, cb'.ha>> \in Follows
    BY <2>1, Dispatched DEF Structure, Pending
  <2>3. cb'.ha \in {"ACTIVE", "QUIESCED", "STANDBY", "QUIESCING"}
    BY <2>2 DEF Follows
  <2>4. /\ cb'.ha = "ACTIVE" => pc' = "start"
        /\ cb'.ha = "QUIESCED" => pc' = "pmStop"
        /\ cb'.ha \in {"STANDBY", "QUIESCING"} => pc' = "respond"
    BY <1>1 DEF CsiSet
  <2>5. Types'
    <3>1. cb' \in Callback /\ queue' \in Seq(Callback) /\ status' = "OK"
      BY <2>1, Dispatched
    <3>2. Types /\ pc' \in Step
      BY <2>3, <2>4 DEF Structure, Step
    <3>3. QED
      BY <2>1, <3>1, <3>2 DEF Types
  <2>6. Queued' /\ Pending' /\ Calls'
    BY <2>1, Dispatched DEF Structure, Queued, Pending, Calls
  <2>7. Steps'
    BY <2>2, <2>3, <2>4 DEF Steps, To, Ends
  <2>8. QED
    BY <2>5, <2>6, <2>7 DEF Structure
<1>2. CASE CsiRemove
  <2>1. /\ Begin("remove") /\ up
        /\ UNCHANGED <<up, my_ha_state, pid, pidfile, pending, assigned, hc, pm, fault,
                       svc, file, killed>>
    BY <1>2 DEF CsiRemove, Begin, svcVars
  <2>2. pc' \in {"pmStop", "respond"}
    BY <1>2 DEF CsiRemove
  <2>3. Types'
    <3>1. cb' \in Callback /\ queue' \in Seq(Callback) /\ status' = "OK"
      BY <2>1, Dispatched
    <3>2. Types /\ pc' \in Step
      BY <2>2 DEF Structure, Step
    <3>3. QED
      BY <2>1, <3>1, <3>2 DEF Types
  <2>4. Queued' /\ Pending' /\ Calls'
    BY <2>1, Dispatched DEF Structure, Queued, Pending, Calls
  <2>5. Steps'
    BY <2>1, <2>2, Dispatched DEF Steps, To, Ends
  <2>6. QED
    BY <2>3, <2>4, <2>5 DEF Structure
<1>3. CASE Healthcheck
  <2>1. /\ Begin("health") /\ pc' = "health"
        /\ UNCHANGED <<up, my_ha_state, pid, pidfile, pending, assigned, hc, pm, fault,
                       svc, file, killed>>
    BY <1>3 DEF Healthcheck, svcVars
  <2>2. Types'
    <3>1. cb' \in Callback /\ queue' \in Seq(Callback) /\ status' = "OK"
      BY <2>1, Dispatched
    <3>2. Types /\ pc' \in Step
      BY <2>1 DEF Structure, Step
    <3>3. QED
      BY <2>1, <3>1, <3>2 DEF Types
  <2>3. Queued' /\ Pending' /\ Calls'
    BY <2>1, Dispatched DEF Structure, Queued, Pending, Calls, Answerable
  <2>4. Steps'
    BY <2>1, Dispatched DEF Steps, To, Ends
  <2>5. QED
    BY <2>2, <2>3, <2>4 DEF Structure
<1>4. CASE Terminate
  <2>1. /\ Begin("terminate") /\ up' = FALSE /\ pending' = NoCallback
        /\ hc' = FALSE /\ pm' = NoPid
        /\ UNCHANGED <<pc, my_ha_state, pid, pidfile, assigned, fault, svc, file, killed>>
    BY <1>4 DEF Terminate, svcVars
  <2>2. Types'
    <3>1. NoCallback \in Callback
      BY DEF NoCallback, Callback, HaState
    <3>2. cb' \in Callback /\ queue' \in Seq(Callback) /\ status' = "OK"
      BY <2>1, Dispatched
    <3>3. Types
      BY DEF Structure
    <3>4. QED
      BY <2>1, <3>1, <3>2, <3>3 DEF Types
  <2>3. Queued'
    BY <2>1, Dispatched DEF Queued
  <2>4. Pending'
    BY <2>1 DEF Pending, NoCallback
  <2>5. Calls' /\ Steps'
    BY <2>1 DEF Calls, Steps
  <2>6. QED
    BY <2>2, <2>3, <2>4, <2>5 DEF Structure
<1>5. QED
  BY <1>1, <1>2, <1>3, <1>4

\* A response, to the callback that AMF waits for or to a health check, and
\* saAmfCSIQuiescingComplete.
LEMMA AnsweredKeepsTypes ==
  ASSUME Types, NEW reached \in HaState \ {"QUIESCING"}, Answered(reached)
  PROVE  /\ pending' \in Callback /\ assigned' \in HaState \ {"QUIESCING"}
         /\ fault' \in BOOLEAN
<1>1. NoCallback \in Callback
  BY DEF NoCallback, Callback, HaState
<1>2. CASE status = "OK"
  BY <1>1, <1>2 DEF Answered, Types
<1>3. CASE status # "OK"
  BY <1>1, <1>3 DEF Answered, Types
<1>4. QED
  BY <1>2, <1>3

LEMMA RespondKeepsStructure ==
  ASSUME Structure, Respond
  PROVE  Structure'
<1>1. /\ up /\ pc = "respond" /\ my_ha_state' = NextHaState
      /\ UNCHANGED <<up, status, pid, pidfile, queue, hc, pm, svc, file, killed>>
  BY DEF Respond, At, svcVars
<1>2. cb.type \in {"set", "remove", "health"} /\ cb \in Callback
  BY <1>1 DEF Structure, Types, Steps, Callback
<1>3. my_ha_state' \in HaState
  BY <1>1, <1>2 DEF NextHaState, Structure, Types, Callback, HaState
<1>4. NoCallback \in Callback /\ NoCallback.type = "none"
  BY DEF NoCallback, Callback, HaState
<1>5. CASE Quiescing
  <2>1. cb' = cb /\ pc' = "pmStop" /\ UNCHANGED <<pending, assigned, fault>>
    BY <1>5 DEF Respond
  <2>2. Types'
    BY <1>1, <1>3, <2>1 DEF Structure, Types, Step
  <2>3. Queued' /\ Pending' /\ Calls'
    BY <1>1, <2>1, CallsLeftAlone DEF Structure
  <2>4. Steps'
    BY <1>1, <1>5, <2>1 DEF Steps, Quiescing, To
  <2>5. QED
    BY <2>2, <2>3, <2>4 DEF Structure
<1>6. CASE cb.type = "health"
  <2>1. cb' = NoCallback /\ pc' = "poll" /\ UNCHANGED <<pending, assigned, fault>>
    BY <1>6 DEF Respond, Quiescing
  <2>2. Types'
    BY <1>1, <1>3, <1>4, <2>1 DEF Structure, Types, Step
  <2>3. Queued' /\ Pending' /\ Calls'
    BY <1>1, <1>4, <2>1 DEF Structure, Queued, Pending, Calls, Answerable
  <2>4. Steps'
    BY <1>1, <1>4, <2>1 DEF Steps, To, Ends
  <2>5. QED
    BY <2>2, <2>3, <2>4 DEF Structure
<1>7. CASE Answerable /\ ~Quiescing
  <2>1. cb' = NoCallback /\ pc' = "poll" /\ Answered(pending.ha)
    BY <1>7 DEF Respond, Answerable
  <2>2. cb = pending /\ \A k \in 1..Len(queue) : queue[k].type = "health"
    BY <1>1, <1>7 DEF Structure, Calls
  <2>3. pending.ha \in HaState \ {"QUIESCING"}
    BY <1>2, <1>7, <2>2 DEF Quiescing, Answerable, Structure, Pending, Callback, HaState
  <2>4. Types'
    BY <1>1, <1>3, <1>4, <2>1, <2>3, AnsweredKeepsTypes DEF Structure, Types, Step
  <2>5. pending' = NoCallback
    BY <2>1 DEF Answered
  <2>6. Queued' /\ Pending' /\ Calls'
    BY <1>1, <1>4, <2>1, <2>2, <2>5 DEF Structure, Queued, Pending, Calls, Answerable
  <2>7. Steps'
    BY <1>1, <1>4, <2>1 DEF Steps, To, Ends
  <2>8. QED
    BY <2>4, <2>6, <2>7 DEF Structure
<1>8. QED
  BY <1>2, <1>5, <1>6, <1>7 DEF Answerable

LEMMA CompleteKeepsStructure ==
  ASSUME Structure, QuiescingComplete
  PROVE  Structure'
<1>1. /\ up /\ pc = "complete" /\ Answered("QUIESCED") /\ pc' = "poll" /\ cb' = NoCallback
      /\ UNCHANGED <<up, status, my_ha_state, pid, pidfile, queue, hc, pm, svc, file, killed>>
  BY DEF QuiescingComplete, At, svcVars
<1>2. NoCallback \in Callback /\ NoCallback.type = "none"
  BY DEF NoCallback, Callback, HaState
<1>3. \A k \in 1..Len(queue) : queue[k].type = "health"
  BY <1>1 DEF Structure, Steps, To, Calls, Answerable
<1>4. "QUIESCED" \in HaState \ {"QUIESCING"}
  BY DEF HaState
<1>5. Types'
  BY <1>1, <1>2, <1>4, AnsweredKeepsTypes DEF Structure, Types, Step
<1>6. pending' = NoCallback
  BY <1>1 DEF Answered
<1>7. Queued' /\ Pending' /\ Calls'
  BY <1>1, <1>2, <1>3, <1>6 DEF Structure, Queued, Pending, Calls, Answerable
<1>8. Steps'
  BY <1>1, <1>2 DEF Steps, To, Ends
<1>9. QED
  BY <1>5, <1>7, <1>8 DEF Structure

\* A callback joins the queue.
LEMMA Sent ==
  ASSUME Structure, NEW callback \in Callback, Send(callback),
         callback.type = "health" =>
           pending' = pending /\ \A k \in 1..Len(queue) : queue[k].type # "health",
         callback.type # "health" =>
           /\ callback.type # "none" /\ pending = NoCallback /\ pending' = callback
  PROVE  queue' \in Seq(Callback) /\ Queued'
<1>1. queue \in Seq(Callback) /\ queue' = Append(queue, callback)
  BY DEF Structure, Types, Send
<1>2. /\ queue' \in Seq(Callback) /\ Len(queue) \in Nat /\ Len(queue') = Len(queue) + 1
      /\ \A k \in 1..Len(queue) : queue'[k] = queue[k]
      /\ queue'[Len(queue) + 1] = callback
  BY <1>1, AppendProperties, LenProperties
<1>3. ASSUME NEW k \in 1..Len(queue') PROVE k \in 1..Len(queue) \/ k = Len(queue) + 1
  BY <1>2
<1>4. \A k \in 1..Len(queue) : queue[k].type # "health" <=> callback.type = "health"
  BY DEF Structure, Queued, NoCallback
<1>5. ASSUME NEW k \in 1..Len(queue'), queue'[k].type # "health"
      PROVE  queue'[k] = pending' /\ pending'.type # "none"
  <2>1. CASE k \in 1..Len(queue)
    BY <1>2, <1>4, <1>5, <2>1 DEF Structure, Queued
  <2>2. CASE k = Len(queue) + 1
    BY <1>2, <1>5, <2>2
  <2>3. QED
    BY <1>3, <2>1, <2>2
<1>6. ASSUME NEW j \in 1..Len(queue'), NEW k \in 1..Len(queue'),
             queue'[j].type = "health" <=> queue'[k].type = "health"
      PROVE  j = k
  <2>1. CASE j \in 1..Len(queue) /\ k \in 1..Len(queue)
    BY <1>2, <1>6, <2>1 DEF Structure, Queued
  <2>2. CASE j = Len(queue) + 1 /\ k = Len(queue) + 1
    BY <2>2
  <2>3. CASE j \in 1..Len(queue) /\ k = Len(queue) + 1
    BY <1>2, <1>4, <1>6, <2>3
  <2>4. CASE k \in 1..Len(queue) /\ j = Len(queue) + 1
    BY <1>2, <1>4, <1>6, <2>4
  <2>5. QED
    BY <1>3, <2>1, <2>2, <2>3, <2>4
<1>7. QED
  BY <1>2, <1>5, <1>6 DEF Queued

LEMMA AmfKeepsStructure ==
  ASSUME Structure, Amf
  PROVE  Structure'
<1>1. ASSUME NEW ha \in HaState, AmfSet(ha) PROVE Structure'
  <2>1. /\ Send(Set(ha)) /\ pending = NoCallback /\ pending' = Set(ha)
        /\ <<assigned, ha>> \in Follows
        /\ UNCHANGED <<wrapperVars, assigned, hc, pm, fault, svcVars>>
    BY <1>1 DEF AmfSet
  <2>2. Set(ha) \in Callback /\ Set(ha).type = "set" /\ Set(ha).ha = ha
    BY DEF Set, Callback
  <2>3. queue' \in Seq(Callback) /\ Queued'
    BY <2>1, <2>2, Sent
  <2>4. Types' /\ Steps'
    BY <2>1, <2>2, <2>3 DEF Structure, Types, Steps, To, Ends, wrapperVars, svcVars
  <2>5. Pending' /\ Calls'
    BY <2>1, <2>2
       DEF Structure, Pending, Calls, Answerable, NoCallback, wrapperVars
  <2>6. QED
    BY <2>3, <2>4, <2>5 DEF Structure
<1>2. ASSUME NEW type \in {"remove", "terminate"}, AmfSend(type) PROVE Structure'
  <2>1. /\ Send(Other(type)) /\ pending = NoCallback /\ pending' = Other(type)
        /\ type = "terminate" => assigned = "none"
        /\ UNCHANGED <<wrapperVars, assigned, hc, pm, fault, svcVars>>
    BY <1>2 DEF AmfSend
  <2>2. Other(type) \in Callback /\ Other(type).type = type /\ Other(type).ha = "none"
    BY DEF Other, Callback, HaState
  <2>3. queue' \in Seq(Callback) /\ Queued'
    BY <2>1, <2>2, Sent
  <2>4. Types' /\ Steps'
    BY <2>1, <2>2, <2>3 DEF Structure, Types, Steps, To, Ends, wrapperVars, svcVars
  <2>5. Pending' /\ Calls'
    BY <2>1, <2>2
       DEF Structure, Pending, Calls, Answerable, NoCallback, wrapperVars
  <2>6. QED
    BY <2>3, <2>4, <2>5 DEF Structure
<1>3. ASSUME AmfSend("health") PROVE Structure'
  <2>1. /\ Send(Other("health")) /\ pending' = pending
        /\ \A k \in 1..Len(queue) : queue[k].type # "health"
        /\ UNCHANGED <<wrapperVars, assigned, hc, pm, fault, svcVars>>
    BY <1>3 DEF AmfSend
  <2>2. Other("health") \in Callback /\ Other("health").type = "health"
    BY DEF Other, Callback, HaState
  <2>3. queue' \in Seq(Callback) /\ Queued'
    BY <2>1, <2>2, Sent
  <2>4. Types' /\ Steps'
    BY <2>1, <2>3 DEF Structure, Types, Steps, To, Ends, wrapperVars, svcVars
  <2>5. \A k \in 1..Len(queue') :
          queue'[k].type # "health" => k \in 1..Len(queue) /\ queue[k].type # "health"
    BY <2>1, <2>2, AppendProperties, LenProperties DEF Structure, Types, Send
  <2>6. Pending' /\ Calls'
    BY <2>1, <2>5 DEF Structure, Pending, Calls, Answerable, wrapperVars
  <2>7. QED
    BY <2>3, <2>4, <2>6 DEF Structure
<1>4. CASE AmfProcessGone \/ AmfTimeout
  <2>1. /\ fault' = TRUE
        /\ UNCHANGED <<wrapperVars, queue, pending, assigned, hc, pm, svcVars>>
    BY <1>4 DEF AmfProcessGone, AmfTimeout
  <2>2. Types' /\ Steps'
    BY <2>1 DEF Structure, Types, Steps, To, Ends, wrapperVars, svcVars
  <2>3. QED
    BY <2>1, <2>2, CallsLeftAlone DEF Structure, wrapperVars
<1>5. CASE Cleanup
  <2>1. /\ up' = FALSE /\ queue' = <<>> /\ pending' = NoCallback /\ assigned' = "none"
        /\ hc' = FALSE /\ pm' = NoPid
        /\ UNCHANGED <<pc, cb, status, my_ha_state, pid, pidfile>>
    BY <1>5 DEF Cleanup
  <2>2. /\ fault' \in BOOLEAN /\ killed' \in BOOLEAN
        /\ svc' \in PID \cup {NoPid} /\ file' \in PID \cup {Absent, Empty}
    BY <1>5, Stopped DEF Cleanup, Structure, Types
  <2>3. NoCallback \in Callback /\ NoCallback.type = "none"
    BY DEF NoCallback, Callback, HaState
  <2>4. Types'
    BY <2>1, <2>2, <2>3, EmptySeq DEF Structure, Types, HaState
  <2>5. Queued' /\ Pending' /\ Calls' /\ Steps'
    BY <2>1, <2>3, EmptySeq DEF Queued, Pending, Calls, Steps
  <2>6. QED
    BY <2>4, <2>5 DEF Structure
<1>6. CASE Instantiate
  <2>1. /\ ~up /\ up' = TRUE /\ pc' = "poll" /\ cb' = NoCallback /\ status' = "OK"
        /\ my_ha_state' = "none" /\ pid' = NoPid /\ queue' = <<>>
        /\ UNCHANGED <<pidfile, pending, assigned, hc, pm, fault, svcVars>>
    BY <1>6 DEF Instantiate
  <2>2. NoCallback \in Callback /\ NoCallback.type = "none"
    BY DEF NoCallback, Callback, HaState
  <2>3. Types'
    BY <2>1, <2>2, EmptySeq DEF Structure, Types, HaState, Step, svcVars
  <2>4. Queued' /\ Pending' /\ Calls' /\ Steps'
    BY <2>1, <2>2, EmptySeq
       DEF Structure, Queued, Pending, Calls, Answerable, Steps, To, Ends
  <2>5. QED
    BY <2>3, <2>4 DEF Structure
<1>7. QED
  BY <1>1, <1>2, <1>3, <1>4, <1>5, <1>6 DEF Amf

LEMMA StructureStep ==
  ASSUME Structure, [Next]_vars
  PROVE  Structure'
<1>1. CASE Handler
  <2>1. Handler => \/ CsiSet \/ CsiRemove \/ Healthcheck \/ Terminate
                   \/ Inner \/ Respond \/ QuiescingComplete
    BY DEF Handler, Inner
  <2>2. QED
    BY <1>1, <2>1, InnerKeepsStructure, DispatchKeepsStructure, RespondKeepsStructure,
       CompleteKeepsStructure
<1>2. CASE Exit
  <2>1. /\ up' = FALSE /\ fault' = TRUE
        /\ UNCHANGED <<pc, cb, status, my_ha_state, pid, pidfile, queue, pending, assigned,
                       hc, pm, svc, file, killed>>
    BY <1>2 DEF Exit, svcVars
  <2>2. Types'
    BY <2>1 DEF Structure, Types
  <2>3. Queued' /\ Pending' /\ Calls' /\ Steps'
    BY <2>1 DEF Structure, Queued, Pending, Calls, Steps
  <2>4. QED
    BY <2>2, <2>3 DEF Structure
<1>3. CASE Amf
  BY <1>3, AmfKeepsStructure
<1>4. CASE Service
  <2>1. /\ svc' \in PID \cup {NoPid} /\ file' \in PID \cup {Absent, Empty}
        /\ UNCHANGED <<wrapperVars, amfVars, killed>>
    BY <1>4 DEF Service, ServiceOpensPidFile, ServiceWritesPidFile, ServiceDies,
                Structure, Types
  <2>2. Types' /\ Steps'
    BY <2>1 DEF Structure, Types, Steps, To, Ends, wrapperVars, amfVars
  <2>3. QED
    BY <2>1, <2>2, CallsLeftAlone DEF Structure, wrapperVars, amfVars
<1>5. CASE UNCHANGED vars
  <2>1. Types' /\ Steps'
    BY <1>5 DEF Structure, Types, Steps, To, Ends, vars, wrapperVars, amfVars, svcVars
  <2>2. QED
    BY <1>5, <2>1, CallsLeftAlone DEF Structure, vars, wrapperVars, amfVars
<1>6. QED
  BY <1>1, <1>2, <1>3, <1>4, <1>5 DEF Next

----------------------------------------------------------------------------
(****************************************************************************)
(* What holds as long as there is nothing to recover.                       *)
(****************************************************************************)
LEMMA SoundWhileUp ==
  ASSUME ~fault, Sound, up
  PROVE  Agreed /\ Running /\ Supervised
BY DEF Sound

\* A fault excuses, until the clean-up.
LEMMA SoundWithFault == ASSUME fault' = TRUE PROVE Sound'
BY DEF Sound

LEMMA DispatchIsSound ==
  ASSUME IInv, CsiSet \/ CsiRemove \/ Healthcheck \/ Terminate
  PROVE  Sound'
<1>1. SUFFICES ASSUME ~fault' PROVE Sound'
  BY DEF Sound
<1>2. /\ fault' = fault /\ up
      /\ UNCHANGED <<my_ha_state, pid, pidfile, assigned, svc, killed>>
  BY DEF CsiSet, CsiRemove, Healthcheck, Terminate, Begin, svcVars
<1>3. Structure /\ Agreed /\ Running /\ Supervised
  BY <1>1, <1>2, SoundWhileUp DEF IInv
<1>4. pc = "poll" /\ cb.type = "none"
  BY <1>3 DEF CsiSet, CsiRemove, Healthcheck, Terminate, Begin, Structure, Steps
<1>5. /\ my_ha_state = "ACTIVE" <=> assigned = "ACTIVE"
      /\ svc # NoPid => assigned = "ACTIVE" \/ killed
      /\ assigned = "ACTIVE" => Watched
  BY <1>3, <1>4 DEF Agreed, Winding, To, Running, Supervised, Answerable
<1>6. CASE CsiSet
  <2>1. Begin("set") /\ up' = up /\ UNCHANGED <<hc, pm>>
    BY <1>6 DEF CsiSet
  <2>2. cb'.type = "set" /\ <<assigned, cb'.ha>> \in Follows
    BY <1>3, <2>1, Dispatched DEF Structure, Pending
  <2>3. cb'.ha \in {"ACTIVE", "QUIESCED", "STANDBY", "QUIESCING"}
    BY <2>2 DEF Follows
  <2>4. /\ cb'.ha = "ACTIVE" => pc' = "start"
        /\ cb'.ha = "QUIESCED" => pc' = "pmStop"
        /\ cb'.ha \in {"STANDBY", "QUIESCING"} => pc' = "respond"
    BY <1>6 DEF CsiSet
  <2>5. Agreed'
    BY <1>2, <1>5, <2>3, <2>4 DEF Agreed, Winding, To
  <2>6. Running'
    BY <1>2, <1>5, <2>2, <2>3, <2>4 DEF Running, To, Ends
  <2>7. Supervised'
    BY <2>2, <2>3, <2>4 DEF Supervised, Answerable, To
  <2>8. QED
    BY <1>2, <2>1, <2>5, <2>6, <2>7 DEF Sound
<1>7. CASE CsiRemove
  <2>1. Begin("remove") /\ up' = up /\ UNCHANGED <<hc, pm>>
    BY <1>7 DEF CsiRemove
  <2>2. cb'.type = "remove"
    BY <1>3, <2>1, Dispatched
  <2>3. pc' = IF my_ha_state = "ACTIVE" THEN "pmStop" ELSE "respond"
    BY <1>7 DEF CsiRemove
  <2>4. Agreed'
    BY <1>2, <1>5, <2>2 DEF Agreed, Winding, To
  <2>5. Running'
    BY <1>2, <1>5, <2>2, <2>3 DEF Running, To, Ends
  <2>6. Supervised'
    BY <2>2, <2>3 DEF Supervised, Answerable, To
  <2>7. QED
    BY <1>2, <2>1, <2>4, <2>5, <2>6 DEF Sound
<1>8. CASE Healthcheck
  <2>1. Begin("health") /\ pc' = "health" /\ up' = up /\ UNCHANGED <<hc, pm>>
    BY <1>8 DEF Healthcheck
  <2>2. cb'.type = "health"
    BY <1>3, <2>1, Dispatched
  <2>3. Agreed' /\ Running'
    BY <1>2, <1>5, <2>1, <2>2 DEF Agreed, Winding, Running, To, Ends
  <2>4. Supervised'
    BY <1>2, <1>5, <2>1, <2>2 DEF Supervised, Answerable, Watched, To
  <2>5. QED
    BY <1>2, <2>1, <2>3, <2>4 DEF Sound
<1>9. CASE Terminate
  <2>1. Begin("terminate") /\ up' = FALSE
    BY <1>9 DEF Terminate
  <2>2. assigned = "none"
    BY <1>3, <2>1, Dispatched DEF Structure, Pending
  <2>3. QED
    BY <1>2, <1>5, <2>1, <2>2 DEF Sound
<1>10. QED
  BY <1>6, <1>7, <1>8, <1>9

LEMMA InnerIsSound ==
  ASSUME IInv, Inner
  PROVE  Sound'
<1>1. SUFFICES ASSUME ~fault' PROVE Sound'
  BY DEF Sound
<1>2. /\ up /\ UNCHANGED <<up, cb, queue, pending, assigned, my_ha_state, pidfile>>
  BY InnerKeepsCalls
<1>3. fault' = fault
  BY <1>1 DEF Inner, StartScript, HealthcheckStart, GetPid, PmStart, PmStop,
              HealthcheckStop, StopScript, HealthScript, amfVars
<1>4. Structure /\ Agreed /\ Running /\ Supervised
  BY <1>1, <1>2, <1>3, SoundWhileUp DEF IInv
<1>5. Steps /\ Types
  BY <1>4 DEF Structure
<1>6. SUFFICES Agreed' /\ Running' /\ Supervised'
  BY <1>2 DEF Sound
<1>7. CASE StartScript
  <2>1. /\ pc = "start" /\ To("ACTIVE") /\ UNCHANGED <<hc, pm, pid>>
        /\ \/ pc' = "hcStart"
           \/ pc' = "respond" /\ status' = "FAILED"
    BY <1>2, <1>5, <1>7 DEF StartScript, Outcome, exec_command, At, Failed, Steps, amfVars
  <2>2. Agreed'
    BY <1>2, <1>4, <2>1 DEF Agreed, Winding, To
  <2>3. Running' /\ Supervised'
    BY <1>2, <2>1 DEF Running, Supervised, Answerable, To, Ends
  <2>4. QED
    BY <2>2, <2>3
<1>8. CASE HealthcheckStart
  <2>1. /\ pc = "hcStart" /\ To("ACTIVE") /\ UNCHANGED <<pm, pid, svc, killed>>
        /\ \/ hc' = TRUE /\ pc' = IF pidfile THEN "getpid" ELSE "respond"
           \/ pc' = "respond" /\ status' = "FAILED"
    BY <1>2, <1>5, <1>8 DEF HealthcheckStart, At, Failed, Steps, svcVars
  <2>2. Agreed'
    BY <1>2, <1>4, <2>1 DEF Agreed, Winding, To
  <2>3. Running'
    BY <1>2, <2>1 DEF Running, To, Ends
  <2>4. Supervised'
    BY <1>2, <2>1 DEF Supervised, Answerable, Watched, To
  <2>5. QED
    BY <2>2, <2>3, <2>4
<1>9. CASE GetPid
  <2>1. /\ pc = "getpid" /\ To("ACTIVE") /\ pc' = "pmStart"
        /\ UNCHANGED <<hc, pm, svc, killed>>
        /\ file # Absent /\ IF file = Empty THEN pid' \in PID ELSE pid' = file
    BY <1>2, <1>5, <1>9 DEF GetPid, At, Steps, amfVars, svcVars
  <2>2. pid' \in PID /\ hc' = hc /\ hc
    BY <1>4, <1>5, <2>1 DEF Supervised, Types
  <2>3. Agreed' /\ Running'
    BY <1>2, <1>4, <2>1 DEF Agreed, Winding, Running, To, Ends
  <2>4. Supervised'
    BY <1>2, <2>1, <2>2 DEF Supervised, Answerable, To
  <2>5. QED
    BY <2>3, <2>4
<1>10. CASE PmStart
  <2>1. /\ pc = "pmStart" /\ To("ACTIVE") /\ pc' = "respond"
        /\ UNCHANGED <<hc, pid, svc, killed>>
        /\ pm' = pid \/ status' = "FAILED"
    BY <1>2, <1>5, <1>10 DEF PmStart, At, Failed, Steps, svcVars
  <2>2. pid # NoPid /\ hc' = hc /\ hc
    BY <1>4, <2>1, AmfWrapperAssumption DEF Supervised
  <2>3. Agreed' /\ Running'
    BY <1>2, <1>4, <2>1 DEF Agreed, Winding, Running, To, Ends
  <2>4. Supervised'
    BY <1>2, <2>1, <2>2 DEF Supervised, Answerable, Watched, To
  <2>5. QED
    BY <2>3, <2>4
<1>11. CASE PmStop \/ HealthcheckStop
  <2>1. /\ pc \in {"pmStop", "hcStop"} /\ pc' \in {"hcStop", "stop"}
        /\ UNCHANGED <<svc, killed>>
    BY <1>11 DEF PmStop, HealthcheckStop, At, svcVars
  <2>2. Ends \/ To("QUIESCING")
    BY <1>2, <1>5, <2>1 DEF Steps
  <2>3. Agreed' /\ Running'
    BY <1>2, <1>4, <2>1 DEF Agreed, Winding, Running, To, Ends
  <2>4. Supervised'
    BY <1>2, <2>1, <2>2 DEF Supervised, Answerable, To, Ends
  <2>5. QED
    BY <2>3, <2>4
<1>12. CASE StopScript
  <2>1. /\ pc = "stop" /\ pc' \in {"complete", "respond"}
        /\ cb.ha = "QUIESCING" => pc' = "complete"
        /\ \/ svc' = NoPid
           \/ status' = "FAILED" /\ UNCHANGED <<svc, killed>>
           \/ killed' = TRUE
    <3>1. PICK outcome \in Outcome :
            /\ status' = IF exec_command(outcome) = 0 THEN "OK" ELSE "FAILED"
            /\ StopEffect(outcome)
      BY <1>12 DEF StopScript
    <3>2. \/ svc' = NoPid
          \/ status' = "FAILED" /\ UNCHANGED <<svc, killed>>
          \/ killed' = TRUE
      <4>1. \/ svc' = NoPid
            \/ outcome = "failure" /\ UNCHANGED <<svc, killed>>
            \/ killed' = TRUE
        BY <3>1, Stopped
      <4>2. outcome = "failure" => status' = "FAILED"
        BY <3>1 DEF exec_command
      <4>3. QED
        BY <4>1, <4>2
    <3>3. /\ pc = "stop" /\ pc' \in {"complete", "respond"}
          /\ cb.ha = "QUIESCING" => pc' = "complete"
      BY <1>12 DEF StopScript, At, AfterStop
    <3>4. QED
      BY <3>2, <3>3
  <2>2. Ends \/ To("QUIESCING")
    BY <1>2, <1>5, <2>1 DEF Steps
  <2>3. Agreed'
    BY <1>2, <1>4, <2>1 DEF Agreed, Winding, To
  <2>4. Running'
    BY <1>2, <1>4, <2>1 DEF Running, To, Ends
  <2>5. Supervised'
    BY <1>2, <2>1, <2>2 DEF Supervised, Answerable, To, Ends
  <2>6. QED
    BY <2>3, <2>4, <2>5
<1>13. CASE HealthScript
  <2>1. /\ pc = "health" /\ pc' = "respond" /\ cb.type = "health"
        /\ UNCHANGED <<hc, pm, svc, killed>>
    BY <1>2, <1>5, <1>13 DEF HealthScript, At, Steps, svcVars
  <2>2. Agreed' /\ Running'
    BY <1>2, <1>4, <2>1 DEF Agreed, Winding, Running, To, Ends
  <2>3. Supervised'
    BY <1>2, <1>4, <2>1 DEF Supervised, Answerable, Watched, To
  <2>4. QED
    BY <2>2, <2>3
<1>14. QED
  BY <1>7, <1>8, <1>9, <1>10, <1>11, <1>12, <1>13 DEF Inner

LEMMA RespondIsSound ==
  ASSUME IInv, Respond
  PROVE  Sound'
<1>1. SUFFICES ASSUME ~fault' PROVE Sound'
  BY DEF Sound
<1>2. /\ up /\ pc = "respond" /\ my_ha_state' = NextHaState
      /\ UNCHANGED <<up, status, pid, pidfile, queue, hc, pm, svc, file, killed>>
  BY DEF Respond, At, svcVars
<1>3. ~fault
  BY <1>1 DEF Respond, Answered
<1>4. Structure /\ Agreed /\ Running /\ Supervised
  BY <1>2, <1>3, SoundWhileUp DEF IInv
<1>5. cb.type \in {"set", "remove", "health"} /\ cb \in Callback
  BY <1>2, <1>4 DEF Structure, Types, Steps, Callback
<1>6. my_ha_state = "ACTIVE" <=> assigned = "ACTIVE"
  BY <1>2, <1>4 DEF Agreed, Winding
<1>7. NoCallback.type = "none"
  BY DEF NoCallback
<1>8. SUFFICES Agreed' /\ Running' /\ Supervised'
  BY <1>2 DEF Sound
<1>9. CASE Quiescing
  <2>1. /\ cb' = cb /\ pc' = "pmStop" /\ assigned' = assigned
        /\ my_ha_state' = "QUIESCING" /\ To("QUIESCING")
    BY <1>2, <1>9 DEF Respond, NextHaState, Quiescing, To
  <2>2. Agreed' /\ Running'
    BY <1>2, <1>4, <2>1 DEF Agreed, Winding, Running, To, Ends
  <2>3. Supervised'
    BY <2>1 DEF Supervised, Answerable, To
  <2>4. QED
    BY <2>2, <2>3
<1>10. CASE cb.type = "health"
  <2>1. cb' = NoCallback /\ pc' = "poll" /\ assigned' = assigned /\ my_ha_state' = my_ha_state
    BY <1>2, <1>10 DEF Respond, Quiescing, NextHaState
  <2>2. Agreed'
    BY <1>6, <1>7, <2>1 DEF Agreed, Winding, To
  <2>3. Running'
    BY <1>2, <1>4, <1>7, <1>10, <2>1 DEF Running, To, Ends
  <2>4. Supervised'
    BY <1>2, <1>4, <1>7, <1>10, <2>1 DEF Supervised, Answerable, Watched, To
  <2>5. QED
    BY <2>2, <2>3, <2>4
<1>11. CASE Answerable /\ ~Quiescing
  <2>1. cb' = NoCallback /\ pc' = "poll" /\ Answered(pending.ha)
    BY <1>11 DEF Respond, Answerable
  <2>2. cb = pending
    BY <1>2, <1>4, <1>11 DEF Structure, Calls
  <2>3. status = "OK" /\ assigned' = cb.ha
    BY <1>1, <2>1, <2>2 DEF Answered
  <2>4. my_ha_state' = cb.ha
    BY <1>2, <1>4, <1>11, <2>2 DEF NextHaState, Answerable, Structure, Pending
  <2>5. Agreed'
    BY <1>7, <2>1, <2>3, <2>4 DEF Agreed, Winding, To
  <2>6. CASE To("ACTIVE")
    <3>1. Watched
      BY <1>2, <1>4, <2>3, <2>6 DEF Supervised
    <3>2. Running'
      BY <2>1, <2>3, <2>6 DEF Running, To, Ends
    <3>3. Supervised'
      BY <1>2, <2>1, <3>1 DEF Supervised, Watched, To
    <3>4. QED
      BY <2>5, <3>2, <3>3
  <2>7. CASE ~To("ACTIVE")
    <3>1. cb.ha # "ACTIVE"
      BY <1>4, <1>11, <2>2, <2>7 DEF Answerable, To, Structure, Pending
    <3>2. svc = NoPid \/ killed
      <4>1. CASE Ends
        BY <1>2, <1>4, <2>3, <4>1 DEF Running
      <4>2. CASE ~Ends
        <5>1. cb.type = "set" /\ cb.ha \notin {"ACTIVE", "QUIESCED", "QUIESCING"}
          BY <1>11, <3>1, <4>2 DEF Answerable, Ends, Quiescing, To
        <5>2. assigned # "ACTIVE"
          BY <1>4, <2>2, <5>1 DEF Structure, Pending, Follows
        <5>3. QED
          BY <1>4, <2>7, <5>2 DEF Running
      <4>3. QED
        BY <4>1, <4>2
    <3>3. Running'
      BY <1>2, <2>1, <3>2 DEF Running
    <3>4. Supervised'
      BY <2>1, <2>3, <3>1 DEF Supervised
    <3>5. QED
      BY <2>5, <3>3, <3>4
  <2>8. QED
    BY <2>6, <2>7
<1>12. QED
  BY <1>5, <1>9, <1>10, <1>11 DEF Answerable

LEMMA CompleteIsSound ==
  ASSUME IInv, QuiescingComplete
  PROVE  Sound'
<1>1. SUFFICES ASSUME ~fault' PROVE Sound'
  BY DEF Sound
<1>2. /\ up /\ pc = "complete" /\ Answered("QUIESCED") /\ pc' = "poll" /\ cb' = NoCallback
      /\ UNCHANGED <<up, status, my_ha_state, pid, pidfile, queue, hc, pm, svc, file, killed>>
  BY DEF QuiescingComplete, At, svcVars
<1>3. ~fault /\ status = "OK" /\ assigned' = "QUIESCED"
  BY <1>1, <1>2 DEF Answered
<1>4. Structure /\ Agreed /\ Running
  BY <1>2, <1>3, SoundWhileUp DEF IInv
<1>5. To("QUIESCING") /\ my_ha_state # "ACTIVE" /\ (svc = NoPid \/ killed)
  BY <1>2, <1>3, <1>4 DEF Structure, Steps, Agreed, Winding, Running
<1>6. NoCallback.type = "none"
  BY DEF NoCallback
<1>7. Agreed' /\ Running'
  BY <1>2, <1>3, <1>5, <1>6 DEF Agreed, Winding, To, Running
<1>8. Supervised'
  BY <1>2, <1>3 DEF Supervised
<1>9. QED
  BY <1>2, <1>7, <1>8 DEF Sound

\* AMF and the service do nothing to a callback under way.
LEMMA OthersKeepSound ==
  ASSUME IInv, UNCHANGED <<wrapperVars, assigned, hc, pm, fault, killed>>,
         svc' \in {svc, NoPid}
  PROVE  Sound'
<1>1. UNCHANGED <<up, pc, cb, status, my_ha_state, pid, pidfile>>
  BY DEF wrapperVars
<1>2. Sound
  BY DEF IInv
<1>3. Agreed => Agreed'
  BY <1>1 DEF Agreed, Winding, To
<1>4. Running => Running'
  BY <1>1 DEF Running, To, Ends
<1>5. Supervised => Supervised'
  BY <1>1 DEF Supervised, Watched, Answerable, To
<1>6. QED
  BY <1>1, <1>2, <1>3, <1>4, <1>5 DEF Sound

LEMMA SoundStep ==
  ASSUME IInv, [Next]_vars
  PROVE  Sound'
<1>1. CASE Handler
  <2>1. Handler => \/ CsiSet \/ CsiRemove \/ Healthcheck \/ Terminate
                   \/ Inner \/ Respond \/ QuiescingComplete
    BY DEF Handler, Inner
  <2>2. QED
    BY <1>1, <2>1, DispatchIsSound, InnerIsSound, RespondIsSound, CompleteIsSound
<1>2. CASE Exit
  BY <1>2, SoundWithFault DEF Exit
<1>3. CASE \/ \E ha \in HaState : AmfSet(ha)
           \/ \E type \in {"remove", "health", "terminate"} : AmfSend(type)
  BY <1>3, OthersKeepSound DEF AmfSet, AmfSend, svcVars
<1>4. CASE AmfProcessGone \/ AmfTimeout
  BY <1>4, SoundWithFault DEF AmfProcessGone, AmfTimeout
<1>5. CASE Cleanup
  <2>1. PICK outcome \in Outcome : StopEffect(outcome) /\ fault' = (outcome # "success")
    BY <1>5 DEF Cleanup
  <2>2. fault' \/ svc' = NoPid
    BY <2>1, Stopped
  <2>3. up' = FALSE /\ assigned' = "none"
    BY <1>5 DEF Cleanup
  <2>4. QED
    BY <2>2, <2>3 DEF Sound
<1>6. CASE Instantiate
  <2>1. /\ ~up /\ ~fault /\ up' = TRUE /\ pc' = "poll" /\ cb' = NoCallback
        /\ my_ha_state' = "none" /\ UNCHANGED <<assigned, svc, killed>>
    BY <1>6 DEF Instantiate, svcVars
  <2>2. assigned = "none" /\ (svc = NoPid \/ killed)
    BY <2>1 DEF IInv, Sound
  <2>3. NoCallback.type = "none"
    BY DEF NoCallback
  <2>4. Agreed' /\ Running' /\ Supervised'
    BY <2>1, <2>2, <2>3 DEF Agreed, Winding, To, Running, Supervised
  <2>5. QED
    BY <2>1, <2>4 DEF Sound
<1>7. CASE Service
  <2>1. UNCHANGED <<wrapperVars, assigned, hc, pm, fault, killed>> /\ svc' \in {svc, NoPid}
    BY <1>7 DEF Service, ServiceOpensPidFile, ServiceWritesPidFile, ServiceDies, amfVars
  <2>2. QED
    BY <2>1, OthersKeepSound
<1>8. CASE UNCHANGED vars
  BY <1>8, OthersKeepSound DEF vars, amfVars, svcVars
<1>9. QED
  BY <1>1, <1>2, <1>3, <1>4, <1>5, <1>6, <1>7, <1>8 DEF Next, Amf

----------------------------------------------------------------------------
LEMMA InitIInv ==
  ASSUME Init
  PROVE  IInv
<1>1. NoCallback \in Callback /\ NoCallback.type = "none"
  BY DEF NoCallback, Callback, HaState
<1>2. /\ up = TRUE /\ pidfile \in BOOLEAN /\ hc = FALSE /\ fault = FALSE
      /\ pc = "poll" /\ cb = NoCallback /\ status = "OK" /\ my_ha_state = "none"
      /\ pid = NoPid /\ queue = <<>> /\ pending = NoCallback /\ assigned = "none"
      /\ pm = NoPid /\ svc = NoPid /\ file = Absent /\ killed = FALSE
  BY DEF Init, Fresh
<1>3. Types
  BY <1>1, <1>2, EmptySeq DEF Types, Step, HaState
<1>4. Queued /\ Pending /\ Calls /\ Steps
  BY <1>1, <1>2, EmptySeq DEF Queued, Pending, Calls, Answerable, Steps, To, Ends
<1>5. Sound
  BY <1>1, <1>2 DEF Sound, Agreed, Winding, To, Running, Supervised
<1>6. QED
  BY <1>3, <1>4, <1>5 DEF IInv, Structure

LEMMA NextIInv == IInv /\ [Next]_vars => IInv'
BY StructureStep, SoundStep DEF IInv

(****************************************************************************)
(* How callbacks, answers, the service and its supervision hang together,   *)
(* whatever fails and dies.                                                 *)
(****************************************************************************)
THEOREM Invariance == Spec => []IInv
<1>1. Init => IInv
  BY InitIInv
<1>2. QED
  BY <1>1, NextIInv, PTL DEF Spec

\* The types are kept; in particular no more than a CSI callback and a health
\* check are ever queued.
THEOREM TypeCorrect == Spec => []TypeOK
<1>1. IInv => TypeOK
  <2>1. SUFFICES ASSUME IInv PROVE TypeOK
    OBVIOUS
  <2>2. Len(queue) \in Nat
    BY <2>1, LenProperties DEF IInv, Structure, Types
  <2>3. ASSUME Len(queue) > 2 PROVE FALSE
    <3>1. 1 \in 1..Len(queue) /\ 2 \in 1..Len(queue) /\ 3 \in 1..Len(queue)
      BY <2>2, <2>3
    <3>2. QED
      BY <2>1, <3>1 DEF IInv, Structure, Queued
  <2>4. Len(queue) <= 2
    BY <2>2, <2>3
  <2>5. QED
    BY <2>1, <2>4 DEF IInv, Structure, Types, TypeOK
<1>2. QED
  BY <1>1, Invariance, PTL

\* The service does not run where AMF takes it for stopped, so that its peer
\* can be started, unless a stop script was killed and taken for successful.
THEOREM NoTwoActives == Spec => []NeverRunsUnassigned
<1>1. IInv => NeverRunsUnassigned
  <2>1. SUFFICES ASSUME IInv, pending = NoCallback, ~fault, assigned # "ACTIVE", ~killed
                 PROVE  svc = NoPid
    BY DEF NeverRunsUnassigned, Settled
  <2>2. CASE up
    <3>1. pending.type = "none" /\ Running
      BY <2>1, <2>2 DEF NoCallback, IInv, Sound
    <3>2. ~To("ACTIVE")
      BY <2>1, <2>2, <3>1 DEF IInv, Structure, Calls, Answerable, To
    <3>3. QED
      BY <2>1, <3>1, <3>2 DEF Running
  <2>3. CASE ~up
    BY <2>1, <2>3 DEF IInv, Sound
  <2>4. QED
    BY <2>2, <2>3
<1>2. QED
  BY <1>1, Invariance, PTL

\* A service that AMF takes for active is watched, so that its death is noticed.
THEOREM Watching == Spec => []SupervisedWhileActive
<1>1. IInv => SupervisedWhileActive
  <2>1. SUFFICES ASSUME IInv, pending = NoCallback, ~fault, assigned = "ACTIVE"
                 PROVE  up /\ Watched
    BY DEF SupervisedWhileActive, Settled, Watched
  <2>2. up /\ Supervised
    BY <2>1 DEF IInv, Sound
  <2>3. ~Answerable
    BY <2>1, <2>2 DEF NoCallback, IInv, Structure, Calls, Answerable
  <2>4. QED
    BY <2>1, <2>2, <2>3 DEF Supervised
<1>2. QED
  BY <1>1, Invariance, PTL

\* my_ha_state says what AMF takes for granted, whenever a callback arrives.
THEOREM Agreement == Spec => []AgreeOnActive
<1>1. IInv => AgreeOnActive
  BY DEF IInv, Sound, Agreed, Winding, To, NoCallback, AgreeOnActive, Settled
<1>2. QED
  BY <1>1, Invariance, PTL

=============================================================================
