------------------------------ MODULE AmfWrapper ------------------------------
(****************************************************************************)
(* wrapper.c with wrapper.sh: an SA-aware AMF component that stands for a   *)
(* program which knows nothing of AMF.  One thread takes a callback at a    *)
(* time from AMF; to become active it runs the start script, has AMF call   *)
(* for health checks, waits for the pid file and has AMF watch that pid; to *)
(* stop it undoes this.  Every step of a callback can fail, and between two *)
(* of them the service may die, write its pid file or have further          *)
(* callbacks queued behind the one under way.                               *)
(*                                                                          *)
(* External, and modelled as this code uses them: AMF sends CSI callbacks   *)
(* one at a time, health checks independently of them, and recovers from a  *)
(* fault by wrapper.sh cleanup, which kills the wrapper and runs the stop   *)
(* script.  The scripts are the integrator's: a script that fails changes   *)
(* nothing, one that is killed by a signal may have done its work or not, a *)
(* stop that succeeds also removes the pid file, a script ends within the   *)
(* time AMF allows for a callback.                                          *)
(****************************************************************************)
EXTENDS Naturals, Sequences

CONSTANTS
  PID,        \* process ids of the wrapped service
  NoPid,      \* no process
  Absent,     \* there is no pid file
  Empty       \* the pid file is created but not written yet

ASSUME AmfWrapperAssumption ==
  /\ PID # {}
  /\ {NoPid, Absent, Empty} \cap PID = {}

VARIABLES
  \* the wrapper process
  up,         \* it runs
  pc,         \* poll, or the step of the callback under way
  cb,         \* the callback under way
  status,     \* what it will answer
  my_ha_state,
  pid,        \* the pid read from the file
  pidfile,    \* whether PIDFILE is configured
  \* AMF
  queue,      \* callbacks not yet dispatched
  pending,    \* the CSI callback AMF waits for, if any
  assigned,   \* the state it was last told is reached
  hc,         \* it calls for health checks
  pm,         \* the pid it watches
  fault,      \* it has to recover the component
  \* the wrapped service
  svc,        \* its process
  file,       \* the pid file
  killed      \* history: a signal has killed a stop script, and none has succeeded since

wrapperVars == <<up, pc, cb, status, my_ha_state, pid, pidfile>>
amfVars == <<queue, pending, assigned, hc, pm, fault>>
svcVars == <<svc, file, killed>>
vars == <<wrapperVars, amfVars, svcVars>>

HaState == {"none", "ACTIVE", "STANDBY", "QUIESCED", "QUIESCING"}
Callback == [type : {"set", "remove", "health", "terminate", "none"}, ha : HaState]
NoCallback == [type |-> "none", ha |-> "none"]
Set(ha) == [type |-> "set", ha |-> ha]
Other(type) == [type |-> type, ha |-> "none"]
Step == {"poll", "start", "hcStart", "getpid", "pmStart", "pmStop", "hcStop",
         "stop", "health", "respond", "complete"}

----------------------------------------------------------------------------
Fresh ==
  /\ pc = "poll" /\ cb = NoCallback /\ status = "OK"
  /\ my_ha_state = "none" /\ pid = NoPid
Init ==
  /\ up = TRUE /\ Fresh /\ pidfile \in BOOLEAN
  /\ queue = <<>> /\ pending = NoCallback /\ assigned = "none"
  /\ hc = FALSE /\ pm = NoPid /\ fault = FALSE
  /\ svc = NoPid /\ file = Absent /\ killed = FALSE

(****************************************************************************)
(* The callbacks, from their dispatch to the first external step.           *)
(****************************************************************************)
Begin(type) ==
  /\ up /\ pc = "poll"
  /\ queue # <<>> /\ Head(queue).type = type
  /\ cb' = Head(queue)
  /\ queue' = Tail(queue)
  /\ status' = "OK"

CsiSet ==
  /\ Begin("set")
  /\ pc' = CASE cb'.ha = "ACTIVE" -> "start"
             [] cb'.ha = "QUIESCED" -> "pmStop"
             [] cb'.ha \in {"STANDBY", "QUIESCING"} -> "respond"
  /\ UNCHANGED <<up, my_ha_state, pid, pidfile, pending, assigned, hc, pm, fault, svcVars>>

CsiRemoveKeeps ==                                           \* what a mutant does
  /\ Begin("remove")
  /\ pc' = "respond"
  /\ UNCHANGED <<up, my_ha_state, pid, pidfile, pending, assigned, hc, pm, fault, svcVars>>
CsiRemove ==
  /\ Begin("remove")
  /\ pc' = IF my_ha_state = "ACTIVE" THEN "pmStop" ELSE "respond"
  /\ UNCHANGED <<up, my_ha_state, pid, pidfile, pending, assigned, hc, pm, fault, svcVars>>

Healthcheck ==
  /\ Begin("health")
  /\ pc' = "health"
  /\ UNCHANGED <<up, my_ha_state, pid, pidfile, pending, assigned, hc, pm, fault, svcVars>>

\* exit(0), with neither an answer nor a look at the service
Terminate ==
  /\ Begin("terminate")
  /\ up' = FALSE
  /\ pending' = NoCallback
  /\ hc' = FALSE /\ pm' = NoPid
  /\ UNCHANGED <<pc, my_ha_state, pid, pidfile, assigned, fault, svcVars>>

(****************************************************************************)
(* exec_command: WEXITSTATUS is 0 also of a status that is no exit, so a    *)
(* script killed by a signal counts as one that succeeded.                  *)
(****************************************************************************)
Outcome == {"success", "failure", "killed"}
exec_command(outcome) == IF outcome = "failure" THEN 1 ELSE 0

\* What the stop script does to the service.
StopEffect(outcome) ==
  CASE outcome = "success" -> svc' = NoPid /\ file' = Absent /\ killed' = FALSE
    [] outcome = "failure" -> UNCHANGED svcVars
    [] outcome = "killed" ->
         svc' \in {svc, NoPid} /\ file' \in {file, Absent} /\ killed' = TRUE

(****************************************************************************)
(* service_start                                                            *)
(****************************************************************************)
At(step) == up /\ pc = step
Failed == status' = "FAILED" /\ pc' = "respond"

\* The script has ended; the service may still have to write its pid file.
StartScript ==
  /\ At("start")
  /\ \E outcome \in Outcome :
       /\ IF exec_command(outcome) = 0 THEN pc' = "hcStart" /\ UNCHANGED status ELSE Failed
       /\ CASE outcome = "success" -> svc' \in PID
            [] outcome = "failure" -> UNCHANGED svc
            [] outcome = "killed" -> svc' \in PID \cup {NoPid}
  /\ UNCHANGED <<up, cb, my_ha_state, pid, pidfile, amfVars, file, killed>>

HealthcheckStartLate ==                                     \* what a mutant does
  /\ At("hcStart")
  /\ pc' = IF pidfile THEN "getpid" ELSE "respond"
  /\ hc' = ~pidfile
  /\ UNCHANGED <<up, cb, status, my_ha_state, pid, pidfile, queue, pending, assigned, pm,
                 fault, svcVars>>
HealthcheckStart ==
  /\ At("hcStart")
  /\ \/ /\ hc' = TRUE
        /\ pc' = IF pidfile THEN "getpid" ELSE "respond"
        /\ UNCHANGED status
     \/ Failed /\ UNCHANGED hc
  /\ UNCHANGED <<up, cb, my_ha_state, pid, pidfile, queue, pending, assigned, pm, fault,
                 svcVars>>

\* getpidfromfile waits while there is no file.  fscanf returns EOF, not 0,
\* for a file that is still empty: the local pid is returned uninitialised.
GetPid ==
  /\ At("getpid")
  /\ file # Absent
  /\ IF file = Empty THEN pid' \in PID ELSE pid' = file
  /\ pc' = "pmStart"
  /\ UNCHANGED <<up, cb, status, my_ha_state, pidfile, amfVars, svcVars>>

PmStart ==
  /\ At("pmStart")
  /\ \/ pm' = pid /\ pc' = "respond" /\ UNCHANGED status
     \/ Failed /\ UNCHANGED pm
  /\ UNCHANGED <<up, cb, my_ha_state, pid, pidfile, queue, pending, assigned, hc, fault,
                 svcVars>>

(****************************************************************************)
(* service_stop: failures of the first two steps are logged, no more.       *)
(****************************************************************************)
PmStop ==
  /\ At("pmStop")
  /\ pm' \in IF pidfile THEN {NoPid, pm} ELSE {pm}
  /\ pc' = "hcStop"
  /\ UNCHANGED <<up, cb, status, my_ha_state, pid, pidfile, queue, pending, assigned, hc,
                 fault, svcVars>>

HealthcheckStop ==
  /\ At("hcStop")
  /\ hc' \in {FALSE, hc}
  /\ pc' = "stop"
  /\ UNCHANGED <<up, cb, status, my_ha_state, pid, pidfile, queue, pending, assigned, pm,
                 fault, svcVars>>

AfterStop == IF cb.ha = "QUIESCING" THEN "complete" ELSE "respond"
StopScript ==
  /\ At("stop")
  /\ \E outcome \in Outcome :
       /\ status' = IF exec_command(outcome) = 0 THEN "OK" ELSE "FAILED"
       /\ StopEffect(outcome)
  /\ pc' = AfterStop
  /\ UNCHANGED <<up, cb, my_ha_state, pid, pidfile, amfVars>>

(****************************************************************************)
(* healthcheck_callback: a script that fails is reported to AMF.  It cannot *)
(* succeed when the service does not run, but it can be killed.             *)
(****************************************************************************)
HealthScript ==
  /\ At("health")
  /\ \E outcome \in Outcome :
       /\ outcome = "success" => svc # NoPid
       /\ IF exec_command(outcome) = 0
          THEN UNCHANGED <<status, fault>>
          ELSE status' = "FAILED" /\ fault' = TRUE
  /\ pc' = "respond"
  /\ UNCHANGED <<up, cb, my_ha_state, pid, pidfile, queue, pending, assigned, hc, pm, svcVars>>

(****************************************************************************)
(* saAmfResponse.  AMF takes an OK for the state it asked for, except that  *)
(* after QUIESCING it waits for saAmfCSIQuiescingComplete, and recovers     *)
(* from anything else.                                                      *)
(****************************************************************************)
Answered(reached) ==
  /\ pending' = NoCallback
  /\ IF status = "OK"
     THEN assigned' = reached /\ UNCHANGED fault
     ELSE fault' = TRUE /\ UNCHANGED assigned

HaStateLost == my_ha_state                                  \* what a mutant does
\* my_ha_state = ha_state, or 0 once the CSI is removed
NextHaState ==
  CASE cb.type = "set" -> cb.ha
    [] cb.type = "remove" -> "none"
    [] OTHER -> my_ha_state

Quiescing == cb.type = "set" /\ cb.ha = "QUIESCING"

\* What a mutant does: there is no answer to a STANDBY assignment.
RespondUnlessStandby ==
  /\ At("respond")
  /\ my_ha_state' = NextHaState
  /\ pc' = IF Quiescing THEN "pmStop" ELSE "poll"
  /\ CASE Quiescing \/ cb.ha = "STANDBY" -> UNCHANGED <<pending, assigned, fault>>
       [] cb.type = "health" -> UNCHANGED <<pending, assigned, fault>>
       [] OTHER -> Answered(pending.ha)
  /\ cb' = IF Quiescing THEN cb ELSE NoCallback
  /\ UNCHANGED <<up, status, pid, pidfile, queue, hc, pm, svcVars>>

Respond ==
  /\ At("respond")
  /\ my_ha_state' = NextHaState
  /\ pc' = IF Quiescing THEN "pmStop" ELSE "poll"
  /\ CASE Quiescing \/ cb.type = "health" -> UNCHANGED <<pending, assigned, fault>>
       [] OTHER -> Answered(pending.ha)
  /\ cb' = IF Quiescing THEN cb ELSE NoCallback
  /\ UNCHANGED <<up, status, pid, pidfile, queue, hc, pm, svcVars>>

QuiescingComplete ==
  /\ At("complete")
  /\ Answered("QUIESCED")
  /\ pc' = "poll"
  /\ cb' = NoCallback
  /\ UNCHANGED <<up, status, my_ha_state, pid, pidfile, queue, hc, pm, svcVars>>

\* exit(1): a call of AMF fails that has to succeed, or the pid file cannot
\* be read or holds no number.  AMF sees a registered process die.
Exit ==
  /\ up /\ pc \in {"poll", "getpid", "respond", "complete", "health"}
  /\ up' = FALSE
  /\ fault' = TRUE
  /\ UNCHANGED <<pc, cb, status, my_ha_state, pid, pidfile, queue, pending, assigned, hc, pm,
                 svcVars>>

----------------------------------------------------------------------------
(****************************************************************************)
(* AMF                                                                      *)
(****************************************************************************)
Follows == {<<"none", "ACTIVE">>, <<"none", "STANDBY">>, <<"STANDBY", "ACTIVE">>,
            <<"ACTIVE", "QUIESCED">>, <<"ACTIVE", "QUIESCING">>,
            <<"QUIESCED", "STANDBY">>, <<"QUIESCED", "ACTIVE">>}

Send(callback) ==
  /\ up /\ ~fault
  /\ queue' = Append(queue, callback)

AmfSet(ha) ==
  /\ pending = NoCallback /\ <<assigned, ha>> \in Follows
  /\ Send(Set(ha))
  /\ pending' = Set(ha)
  /\ UNCHANGED <<wrapperVars, assigned, hc, pm, fault, svcVars>>

AmfSend(type) ==
  /\ CASE type = "remove" -> pending = NoCallback /\ assigned # "none"
       [] type = "terminate" -> pending = NoCallback /\ assigned = "none"
       [] type = "health" -> hc /\ cb.type # "health"
                             /\ \A k \in 1..Len(queue) : queue[k].type # "health"
  /\ Send(Other(type))
  /\ pending' = IF type = "health" THEN pending ELSE Other(type)
  /\ UNCHANGED <<wrapperVars, assigned, hc, pm, fault, svcVars>>

\* The process that is watched has gone.
AmfProcessGone ==
  /\ up /\ pm # NoPid /\ pm # svc /\ ~fault
  /\ fault' = TRUE
  /\ UNCHANGED <<wrapperVars, queue, pending, assigned, hc, pm, svcVars>>

\* The callback timeout; every step but the wait for the pid file is shorter.
AmfTimeout ==
  /\ At("getpid") /\ file = Absent /\ ~fault
  /\ fault' = TRUE
  /\ UNCHANGED <<wrapperVars, queue, pending, assigned, hc, pm, svcVars>>

\* cleanup of wrapper.sh: killproc, then the stop script.  Its $? is not 0 of a
\* script that was killed.  If that fails, AMF does not reassign the work of
\* the component.
Cleanup ==
  /\ fault
  /\ up' = FALSE
  /\ queue' = <<>> /\ pending' = NoCallback /\ assigned' = "none"
  /\ hc' = FALSE /\ pm' = NoPid
  /\ \E outcome \in Outcome : StopEffect(outcome) /\ fault' = (outcome # "success")
  /\ UNCHANGED <<pc, cb, status, my_ha_state, pid, pidfile>>

\* wrapper.sh instantiate, then main: a new process registers.
Instantiate ==
  /\ ~up /\ ~fault
  /\ up' = TRUE
  /\ pc' = "poll" /\ cb' = NoCallback /\ status' = "OK"
  /\ my_ha_state' = "none" /\ pid' = NoPid
  /\ queue' = <<>>
  /\ UNCHANGED <<pidfile, pending, assigned, hc, pm, fault, svcVars>>

----------------------------------------------------------------------------
(****************************************************************************)
(* The wrapped service                                                      *)
(****************************************************************************)
ServiceOpensPidFile ==
  /\ svc # NoPid /\ file \notin {Empty, svc}
  /\ file' = Empty
  /\ UNCHANGED <<wrapperVars, amfVars, svc, killed>>

ServiceWritesPidFile ==
  /\ svc # NoPid /\ file = Empty
  /\ file' = svc
  /\ UNCHANGED <<wrapperVars, amfVars, svc, killed>>

ServiceDies ==
  /\ svc # NoPid
  /\ svc' = NoPid
  /\ UNCHANGED <<wrapperVars, amfVars, file, killed>>

----------------------------------------------------------------------------
Handler ==
  \/ CsiSet \/ CsiRemove \/ Healthcheck \/ Terminate
  \/ StartScript \/ HealthcheckStart \/ GetPid \/ PmStart
  \/ PmStop \/ HealthcheckStop \/ StopScript
  \/ HealthScript \/ Respond \/ QuiescingComplete

Amf ==
  \/ \E ha \in HaState : AmfSet(ha)
  \/ \E type \in {"remove", "health", "terminate"} : AmfSend(type)
  \/ AmfProcessGone \/ AmfTimeout \/ Cleanup \/ Instantiate

Service == ServiceOpensPidFile \/ ServiceWritesPidFile \/ ServiceDies

Next == Handler \/ Exit \/ Amf \/ Service

\* The wrapper runs whenever it can; AMF does end a callback that waits for
\* ever, and does recover.  Nothing makes the service write its pid file.
Fairness == WF_vars(Handler) /\ WF_vars(AmfTimeout) /\ WF_vars(Cleanup)

Spec == Init /\ [][Next]_vars /\ Fairness

----------------------------------------------------------------------------
TypeOK ==
  /\ up \in BOOLEAN
  /\ pc \in Step
  /\ cb \in Callback
  /\ status \in {"OK", "FAILED"}
  /\ my_ha_state \in HaState
  /\ pid \in PID \cup {NoPid}
  /\ pidfile \in BOOLEAN
  /\ queue \in Seq(Callback) /\ Len(queue) <= 2
  /\ pending \in Callback
  /\ assigned \in HaState \ {"QUIESCING"}
  /\ hc \in BOOLEAN
  /\ pm \in PID \cup {NoPid}
  /\ fault \in BOOLEAN
  /\ svc \in PID \cup {NoPid}
  /\ file \in PID \cup {Absent, Empty}
  /\ killed \in BOOLEAN

Settled == pending = NoCallback /\ ~fault

(****************************************************************************)
(* AMF makes a peer active as soon as this component is quiesced, removed,  *)
(* terminated or cleaned up: then the service must not be running here,     *)
(* whatever failed, died or timed out on the way.  There is one case in     *)
(* which it may be: exec_command cannot tell a stop script that a signal    *)
(* has killed from one that succeeded, and the wrapper answers OK.          *)
(****************************************************************************)
NeverRunsUnassigned == Settled /\ assigned # "ACTIVE" /\ ~killed => svc = NoPid

(****************************************************************************)
(* While AMF takes the component for active, it calls for its health checks *)
(* and, if a pid file is configured, watches a process: the death of the    *)
(* service cannot stay unnoticed.                                           *)
(****************************************************************************)
SupervisedWhileActive ==
  Settled /\ assigned = "ACTIVE" => up /\ hc /\ (pidfile => pm # NoPid)

(****************************************************************************)
(* The wrapper and AMF agree on whether the component is active: on this    *)
(* csi_remove_callback decides whether there is something to stop.          *)
(****************************************************************************)
AgreeOnActive ==
  Settled /\ up /\ cb = NoCallback => (my_ha_state = "ACTIVE" <=> assigned = "ACTIVE")

(****************************************************************************)
(* Every CSI callback is answered, or AMF recovers the component.           *)
(****************************************************************************)
CallbackEnds == pending # NoCallback ~> pending = NoCallback

(****************************************************************************)
(* README of the wrapper: AMF passive monitoring using the PID contained in *)
(* the file will be started.                                                *)
(****************************************************************************)
MonitorsPidOfFile == [][pm' \notin {pm, NoPid} => pm' = file]_vars

=============================================================================
