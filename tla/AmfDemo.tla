------------------------------- MODULE AmfDemo -------------------------------
(****************************************************************************)
(* amf_demo.c: an SA-aware AMF component with a service of its own (the     *)
(* foo functions, dummies that always succeed but for the health check).    *)
(* One thread takes a callback at a time from AMF.                          *)
(*                                                                          *)
(* External, as this code uses it: AMF sends the workloads (CSIs) one by    *)
(* one or all at once, one CSI callback at a time, and health checks        *)
(* independently of them; it keeps the HA state of every CSI, and may take  *)
(* a while to count one that has finished quiescing as quiesced; the        *)
(* clean-up recovers from an error report, a failed answer or an exit.  It  *)
(* sends the four HA states, and removals of one CSI or of all: the answer  *)
(* FAILED_OPERATION to an unknown state and the abort() on other flags are  *)
(* code that these never reach, and are left out.                           *)
(****************************************************************************)
EXTENDS Naturals, Sequences

CONSTANTS CSI   \* the workloads

VARIABLES
  \* the process
  pc,           \* "down", "init", "poll", "callback", "complete" or "haStateGet"
  cb,           \* the callback under way
  my_ha_state,
  \* AMF
  queue,        \* callbacks not yet dispatched
  pending,      \* it waits for a CSI callback, or the termination, to be answered
  csiState,     \* the HA state of every CSI
  fault,        \* it has to recover the component
  \* the service
  serving,      \* it is activated
  sick,         \* foo_healthcheck finds an error
  overlooked    \* history: a sick active service was answered to be healthy

amfVars == <<queue, pending, csiState, fault>>
svcVars == <<serving, sick>>
vars == <<pc, cb, my_ha_state, amfVars, svcVars, overlooked>>

HaState == {"none", "ACTIVE", "STANDBY", "QUIESCED", "QUIESCING"}
Cb(type, on, ha, flag) == [type |-> type, on |-> on, ha |-> ha, flag |-> flag]
NoCallback == Cb("none", {}, "none", "none")
Healthcheck == Cb("health", {}, "none", "none")

Fresh ==
  /\ cb' = NoCallback /\ my_ha_state' = "none"
  /\ queue' = <<>> /\ pending' = FALSE /\ csiState' = [c \in CSI |-> "none"]
  /\ serving' = FALSE

Init ==
  /\ pc = "init" /\ cb = NoCallback /\ my_ha_state = "none"
  /\ queue = <<>> /\ pending = FALSE /\ csiState = [c \in CSI |-> "none"]
  /\ fault = FALSE /\ serving = FALSE /\ sick = FALSE /\ overlooked = FALSE

----------------------------------------------------------------------------
Exit == pc' = "down" /\ Fresh /\ fault' = TRUE /\ UNCHANGED <<sick, overlooked>>

amf_initialize ==
  /\ pc = "init"
  /\ \/ pc' = "poll" /\ UNCHANGED <<cb, my_ha_state, amfVars, svcVars, overlooked>>
     \/ Exit

Dispatch ==
  /\ pc = "poll" /\ queue # <<>>
  /\ \/ /\ pc' = "callback" /\ cb' = Head(queue) /\ queue' = Tail(queue)
        /\ UNCHANGED <<my_ha_state, pending, csiState, fault, svcVars, overlooked>>
     \/ Exit

Called(type) == pc = "callback" /\ cb.type = type
Answered(ok) ==
  /\ pending' = FALSE /\ fault' = (fault \/ ~ok)
  /\ csiState' = IF ok THEN [c \in CSI |-> IF c \in cb.on THEN cb.ha ELSE csiState[c]]
                 ELSE csiState
  /\ UNCHANGED queue

\* every response may fail, and then the process exits
amf_csi_set_callback ==
  /\ Called("set")
  /\ \/ /\ serving' = CASE cb.ha = "ACTIVE" -> TRUE
                        [] cb.ha = "QUIESCED" -> FALSE
                        [] OTHER -> serving
        /\ Answered(TRUE)
        /\ pc' = IF cb.ha = "QUIESCING" THEN "complete" ELSE "poll"
        /\ UNCHANGED <<cb, my_ha_state, sick, overlooked>>
     \/ Exit

\* saAmfCSIQuiescingComplete
QuiescingComplete ==
  /\ pc = "complete"
  /\ \/ /\ csiState' \in {csiState,
          [c \in CSI |-> IF c \in cb.on THEN "QUIESCED" ELSE csiState[c]]}
        /\ IF cb.flag = "TARGET_ALL"
             THEN pc' = "poll" /\ my_ha_state' = "QUIESCED"
             ELSE pc' = (IF cb.flag = "TARGET_ONE" THEN "haStateGet" ELSE "poll")
                    /\ UNCHANGED my_ha_state
        /\ UNCHANGED <<cb, queue, pending, fault, svcVars, overlooked>>
     \/ Exit

HAStateGet ==
  /\ pc = "haStateGet"
  /\ \/ /\ \E c \in cb.on : my_ha_state' = csiState[c]
        /\ pc' = "poll"
        /\ UNCHANGED <<cb, amfVars, svcVars, overlooked>>
     \/ Exit

\* the state is reset whichever CSI is removed; the service is left as it is
amf_csi_remove_callback ==
  /\ Called("remove")
  /\ \/ /\ my_ha_state' = "none" /\ Answered(TRUE) /\ pc' = "poll"
        /\ UNCHANGED <<cb, svcVars, overlooked>>
     \/ Exit

amf_csi_attr_change_callback ==
  /\ Called("attr")
  /\ \/ Answered(TRUE) /\ pc' = "poll" /\ UNCHANGED <<cb, my_ha_state, svcVars, overlooked>>
     \/ Exit

\* an error found is reported to AMF and answered
ErrorFound == my_ha_state = "ACTIVE" /\ sick
Active == \E c \in CSI : csiState[c] = "ACTIVE"

amf_healthcheck_callback ==
  /\ Called("health")
  /\ \/ /\ fault' = (fault \/ ErrorFound)
        /\ overlooked' = (overlooked \/ (Active /\ sick /\ ~ErrorFound))
        /\ pc' = "poll"
        /\ UNCHANGED <<cb, my_ha_state, queue, pending, csiState, svcVars>>
     \/ Exit

amf_comp_terminate_callback ==
  /\ Called("terminate")
  /\ \/ pc' = "down" /\ Fresh /\ UNCHANGED <<fault, sick, overlooked>>
     \/ Exit

----------------------------------------------------------------------------
\* AMF.
Send(c) ==
  /\ pc \notin {"down", "init"} /\ ~fault
  /\ queue' = Append(queue, c) /\ pending' = (pending \/ c # Healthcheck)
  /\ UNCHANGED <<pc, cb, my_ha_state, csiState, fault, svcVars, overlooked>>

Change ==
  {<<"ACTIVE", "QUIESCED">>, <<"ACTIVE", "QUIESCING">>, <<"STANDBY", "ACTIVE">>,
   <<"QUIESCED", "ACTIVE">>, <<"QUIESCING", "QUIESCED">>}
Assigned == {c \in CSI : csiState[c] # "none"}

AmfAdds ==
  \E c \in CSI \ Assigned, ha \in {"ACTIVE", "STANDBY"} :
    ~pending /\ Send(Cb("set", {c}, ha, "ADD_ONE"))

AmfChanges ==
  \E ha \in HaState : ~pending /\
    \/ \E c \in CSI : <<csiState[c], ha>> \in Change /\ Send(Cb("set", {c}, ha, "TARGET_ONE"))
    \/ /\ Assigned # {} /\ \A c \in Assigned : <<csiState[c], ha>> \in Change
       /\ Send(Cb("set", Assigned, ha, "TARGET_ALL"))

AmfRemoves ==
  /\ ~pending /\ Assigned # {}
  /\ \/ \E c \in Assigned : Send(Cb("remove", {c}, "none", "TARGET_ONE"))
     \/ Send(Cb("remove", Assigned, "none", "TARGET_ALL"))

AmfChangesAttr ==
  ~pending /\ Assigned # {} /\ Send(Cb("attr", {}, "none", "none"))

AmfChecksHealth == Healthcheck \notin {queue[i] : i \in DOMAIN queue} /\ Send(Healthcheck)

AmfTerminates == ~pending /\ Assigned = {} /\ Send(Cb("terminate", {}, "none", "none"))

\* clean-up, and instantiation
AmfRecovers ==
  /\ fault \/ pc = "down"
  /\ pc' = "init" /\ Fresh /\ fault' = FALSE /\ sick' = FALSE
  /\ UNCHANGED overlooked

Sicken ==
  /\ serving /\ sick' = TRUE
  /\ UNCHANGED <<pc, cb, my_ha_state, amfVars, serving, overlooked>>

Next ==
  \/ amf_initialize \/ Dispatch \/ amf_csi_set_callback \/ QuiescingComplete \/ HAStateGet
  \/ amf_csi_remove_callback \/ amf_csi_attr_change_callback
  \/ amf_healthcheck_callback \/ amf_comp_terminate_callback
  \/ AmfAdds \/ AmfChanges \/ AmfRemoves \/ AmfChangesAttr \/ AmfChecksHealth
  \/ AmfTerminates \/ AmfRecovers \/ Sicken

Spec == Init /\ [][Next]_vars

(****************************************************************************)
(* Comment of amf_healthcheck_callback: "Check the status of our service    *)
(* but only if active".  An active service is checked, then: no health      *)
(* check of a component that AMF has active finds a sick service healthy.   *)
(****************************************************************************)
ActiveIsChecked == ~overlooked

=============================================================================
