------------------------------- MODULE MsgDemo -------------------------------
(****************************************************************************)
(* mqsv_demo_app.c: two programs, a sender and a receiver, that go through  *)
(* the same four scenarios, each at the pace of its user, over a message    *)
(* queue per scenario.  The receiver makes, reads and removes the queue of  *)
(* a scenario; the sender fills it.                                         *)
(*   1  the messages sent and got by calls that wait                        *)
(*   2  the messages sent asynchronously, got from a callback               *)
(*   3  one message that is replied to, with a call that waits              *)
(*   4  one message that is replied to asynchronously                       *)
(*                                                                          *)
(* External, as this code uses it: the message service.  A queue hands out  *)
(* the oldest message of the most urgent priority.  A queue that is closed  *)
(* without having been unlinked goes away after its retention time.  Any    *)
(* call may fail; a send or an open that times out may have taken effect.   *)
(****************************************************************************)
EXTENDS Integers, Sequences

CONSTANTS
  NUM_MESSAGES_SENT,  \* 5 in the demo
  LOWEST              \* the lowest priority: 3 in the message service

ASSUME MsgDemoAssumption ==
  NUM_MESSAGES_SENT \in Nat \ {0} /\ LOWEST \in Nat

VARIABLES
  \* the sender
  sScen, sPc,   \* the scenario, and where it is in it
  sNext,        \* the message to send next
  thread,       \* select_thread: "none", "start" or "poll"
  \* the receiver
  rScen, rPc,
  rNext,        \* i of message_rcv_sync, num_messages of message_rcv_async
  got,          \* the messages read in this scenario
  excused,      \* history: a call failed that lets the queue of the scenario stay
  \* the service
  queue,        \* the queue of each scenario
  transit,      \* asynchronous messages on their way to queue 2
  due,          \* received callbacks not yet dispatched
  reply         \* a reply has come for the sender that waits for one

sVars == <<sScen, sPc, sNext, thread>>
rVars == <<rScen, rPc, rNext, got, excused>>
svcVars == <<queue, transit, due, reply>>
vars == <<sVars, rVars, svcVars>>

Scenario == 1..4
Message == 1..NUM_MESSAGES_SENT
SenderPc == {"init", "send", "wait", "finalize", "key", "over"}
ReceiverPc == {"init", "open", "retention", "ready", "get", "selobj", "poll",
               "reply", "close", "unlink", "finalize", "key", "over"}

----------------------------------------------------------------------------
(****************************************************************************)
(* The messages and the queues.                                             *)
(****************************************************************************)
\* Every message is less urgent than the one before it, down to the lowest.
Priority(m) == IF m <= LOWEST THEN m - 1 ELSE LOWEST

NoQueue == [state |-> "absent", unlinked |-> FALSE, messages |-> <<>>]
Known(k) == queue[k].state # "absent" /\ ~queue[k].unlinked
\* Nobody reads a queue whose scenario the receiver has left: what such a queue
\* holds is not kept.
Put(k, m) ==
  queue' = IF k = rScen THEN [queue EXCEPT ![k].messages = Append(@, m)] ELSE queue
Emptied(q) == [q EXCEPT !.messages = <<>>]

\* The place of the message that a queue with messages s hands out.
First(s, p) ==
  /\ p \in 1..Len(s)
  /\ \A i \in 1..Len(s) :
       /\ Priority(s[p]) <= Priority(s[i])
       /\ i < p => Priority(s[p]) < Priority(s[i])
Without(s, p) == SubSeq(s, 1, p - 1) \o SubSeq(s, p + 1, Len(s))

Take(k) ==
  \E p \in 1..Len(queue[k].messages) :
    /\ First(queue[k].messages, p)
    /\ got' = Append(got, queue[k].messages[p])
    /\ queue' = [queue EXCEPT ![k].messages = Without(@, p)]

Closed(q) ==
  IF q.state # "open" THEN q
  ELSE IF q.unlinked THEN NoQueue ELSE [q EXCEPT !.state = "closed"]
Unlinked(q) ==
  IF q.state = "open" THEN [q EXCEPT !.unlinked = TRUE] ELSE NoQueue

Init ==
  /\ sScen = 1 /\ sPc = "init" /\ sNext = 1
  /\ thread = "none"
  /\ rScen = 1 /\ rPc = "init" /\ rNext = 1
  /\ got = <<>> /\ excused = FALSE
  /\ queue = [k \in Scenario |-> NoQueue]
  /\ transit = <<>> /\ due = 0 /\ reply = FALSE

----------------------------------------------------------------------------
(****************************************************************************)
(* The sender.                                                              *)
(****************************************************************************)
\* In the second scenario the thread is created, which may fail.
SenderInitialize ==
  /\ sPc = "init"
  /\ \/ /\ sPc' = "send" /\ sNext' = 1
        /\ thread' \in (IF sScen = 2 THEN {"start", "none"} ELSE {thread})
     \/ sPc' = "key" /\ UNCHANGED <<sNext, thread>>
  /\ UNCHANGED <<sScen, rVars, svcVars>>

\* One more message is sent; after the last one the scenario is over.
Sent ==
  /\ sNext' = sNext + 1
  /\ sPc' = IF sNext = NUM_MESSAGES_SENT THEN "finalize" ELSE "send"
SendFailedOn == Sent                                        \* what a mutant does
\* goto finalize
SendFailed == sPc' = "finalize" /\ UNCHANGED sNext

MessageSend ==
  /\ sPc = "send" /\ sScen = 1
  /\ \/ Known(1) /\ Put(1, sNext) /\ Sent
     \/ SendFailed /\ (UNCHANGED queue \/ (Known(1) /\ Put(1, sNext)))
  /\ UNCHANGED <<sScen, thread, rVars, transit, due, reply>>

\* SA_MSG_MESSAGE_DELIVERED_ACK is assigned to ackFlags, and then 0.
AckFlags(m) == {}

MessageSendAsync ==
  /\ sPc = "send" /\ sScen = 2
  /\ \/ /\ Known(2) /\ Sent
        /\ transit' = Append(transit, [m |-> sNext, ack |-> AckFlags(sNext)])
     \/ SendFailed /\ UNCHANGED transit
  /\ UNCHANGED <<sScen, thread, rVars, queue, due, reply>>

MessageSendReceive ==
  /\ sPc = "send" /\ sScen \in {3, 4}
  /\ \/ /\ Known(sScen) /\ Put(sScen, NUM_MESSAGES_SENT)
        /\ sPc' = "wait" /\ UNCHANGED sNext
     \/ SendFailed /\ UNCHANGED queue
  /\ UNCHANGED <<sScen, thread, rVars, transit, due, reply>>

ReplyReceived ==
  /\ sPc = "wait" /\ reply
  /\ sPc' = "finalize" /\ reply' = FALSE
  /\ UNCHANGED <<sScen, sNext, thread, rVars, queue, transit, due>>

\* What a mutant does: without a timeout, it ends when there is a reply.
ReplyAwaited == ReplyReceived
ReplyTimeout ==
  /\ sPc = "wait" /\ SendFailed /\ reply' = FALSE
  /\ UNCHANGED <<sScen, thread, rVars, queue, transit, due>>

SenderFinalize ==
  /\ sPc = "finalize" /\ sPc' = "key"
  /\ UNCHANGED <<sScen, sNext, thread, rVars, svcVars>>

\* getchar, and the next scenario; the thread dies with the process
SenderKey ==
  /\ sPc = "key"
  /\ IF sScen = 4
       THEN sPc' = "over" /\ thread' = "none" /\ UNCHANGED sScen
       ELSE sPc' = "init" /\ sScen' = sScen + 1 /\ UNCHANGED thread
  /\ UNCHANGED <<sNext, rVars, svcVars>>

(****************************************************************************)
(* select_thread.  It reads the handle from a variable of                   *)
(* message_send_async, which may have returned by then: whatever it finds   *)
(* there is a handle the service knows, or it is not.  No callback is ever  *)
(* due, as no acknowledgement is asked for, and poll either blocks, or      *)
(* returns without POLLIN after saMsgFinalize, or fails.                    *)
(****************************************************************************)
ThreadStart ==
  /\ thread = "start" /\ thread' \in {"none", "poll"}
  /\ UNCHANGED <<sScen, sPc, sNext, rVars, svcVars>>

\* exit(1), in whatever scenario the main thread is
ThreadExit ==
  /\ thread = "poll" /\ thread' = "none" /\ sPc' = "over" /\ reply' = FALSE
  /\ UNCHANGED <<sScen, sNext, rVars, queue, transit, due>>

----------------------------------------------------------------------------
(****************************************************************************)
(* The receiver.                                                            *)
(****************************************************************************)
Excused == excused' = TRUE
Goes(to) == rPc' = to /\ UNCHANGED <<rScen, rNext>>

ReceiverInitialize ==
  /\ rPc = "init" /\ rPc' \in {"open", "key"}
  /\ rNext' = 1 /\ got' = <<>> /\ excused' = FALSE
  /\ UNCHANGED <<rScen, sVars, svcVars>>

Opened == [NoQueue EXCEPT !.state = "open"]
AfterOpen == CASE rScen = 1 -> "retention" [] rScen = 2 -> "selobj" [] OTHER -> "get"

QueueOpen ==
  /\ rPc = "open"
  /\ \/ Goes(AfterOpen) /\ queue' = [queue EXCEPT ![rScen] = Opened] /\ UNCHANGED excused
     \/ /\ Goes("finalize") /\ Excused
        /\ queue' \in {queue, [queue EXCEPT ![rScen] = Opened]}
  /\ UNCHANGED <<sVars, got, transit, due, reply>>

\* The queue is not unlinked when this fails.
RetentionTimeSet ==
  /\ rPc = "retention"
  /\ \/ Goes("ready") /\ UNCHANGED excused
     \/ Goes("finalize") /\ Excused
  /\ UNCHANGED <<sVars, got, svcVars>>

\* getchar, before the messages of the first scenario are read
ReadyKey ==
  /\ rPc = "ready"
  /\ Goes("get")
  /\ UNCHANGED <<got, excused, sVars, svcVars>>

MessageGet ==
  /\ rPc = "get"
  /\ \/ /\ Take(rScen) /\ UNCHANGED rScen
        /\ IF rScen = 1
             THEN /\ rNext' = rNext + 1
                  /\ rPc' = IF rNext = NUM_MESSAGES_SENT THEN "close" ELSE "get"
             ELSE rPc' = "reply" /\ UNCHANGED rNext
     \/ Goes("unlink") /\ UNCHANGED <<got, queue>>
  /\ UNCHANGED <<excused, sVars, transit, due, reply>>

SelectionObjectGet ==
  /\ rPc = "selobj"
  /\ Goes("poll") \/ Goes("unlink")
  /\ UNCHANGED <<got, excused, sVars, svcVars>>

\* A turn of the loop of message_rcv_async ends, however it went.
Turn ==
  /\ rNext' = rNext + 1
  /\ rPc' = IF rNext = NUM_MESSAGES_SENT THEN "unlink" ELSE "poll"
  /\ UNCHANGED rScen

\* EINTR: continue, with one turn less to go
Interrupted ==
  /\ rPc = "poll" /\ Turn
  /\ UNCHANGED <<got, excused, sVars, svcVars>>

\* What a mutant does: SA_DISPATCH_ALL, with a callback that reads one message.
DispatchAll ==
  /\ rPc = "poll" /\ due > 0 /\ Turn
  /\ due' = 0 /\ Take(2)
  /\ UNCHANGED <<excused, sVars, transit, reply>>

\* SA_DISPATCH_ONE, and saMsgMessageReceivedCallback, which reads a message:
\* both went well, the read failed, or the dispatch did
Dispatch ==
  /\ rPc = "poll" /\ due > 0 /\ Turn
  /\ \/ due' = due - 1 /\ Take(2)
     \/ due' = due - 1 /\ UNCHANGED <<got, queue>>
     \/ UNCHANGED <<due, got, queue>>
  /\ UNCHANGED <<excused, sVars, transit, reply>>

\* exit(1): the service closes what the process has open
ClosedAll == queue' = [k \in Scenario |-> Closed(queue[k])] /\ due' = 0
PollFails ==
  /\ rPc = "poll" /\ Goes("over") /\ ClosedAll
  /\ UNCHANGED <<got, excused, sVars, transit, reply>>

\* A reply for a sender that has stopped waiting is refused or dropped.
MessageReply ==
  /\ rPc = "reply"
  /\ \/ /\ Goes(IF rScen = 3 THEN "unlink" ELSE "close")
        /\ reply' = (sPc = "wait" /\ sScen = rScen)
     \/ Goes("unlink") /\ UNCHANGED reply
  /\ UNCHANGED <<got, excused, sVars, queue, transit, due>>

\* What a mutant does: the label api_error is for errors only.
QueueCloseReturns ==
  /\ rPc = "close"
  /\ \/ Goes("finalize") /\ queue' = [queue EXCEPT ![rScen] = Closed(@)]
     \/ Goes("unlink") /\ UNCHANGED queue
  /\ UNCHANGED <<got, excused, sVars, transit, due, reply>>
QueueClose ==
  /\ rPc = "close" /\ Goes("unlink")
  /\ queue' \in {queue, [queue EXCEPT ![rScen] = Closed(@)]}
  /\ UNCHANGED <<got, excused, sVars, transit, due, reply>>

QueueUnlink ==
  /\ rPc = "unlink" /\ Goes("finalize")
  /\ \/ queue' = [queue EXCEPT ![rScen] = Unlinked(@)] /\ UNCHANGED excused
     \/ Excused /\ UNCHANGED queue
  /\ UNCHANGED <<got, sVars, transit, due, reply>>

\* saMsgFinalize closes what the handle has open.
ReceiverFinalize ==
  /\ rPc = "finalize" /\ Goes("key")
  /\ \/ /\ queue' = [queue EXCEPT ![rScen] = Closed(@)] /\ due' = 0
        /\ UNCHANGED excused
     \/ Excused /\ UNCHANGED <<queue, due>>
  /\ UNCHANGED <<got, sVars, transit, reply>>

\* getchar, and the next scenario
ReceiverKey ==
  /\ rPc = "key" /\ UNCHANGED rNext
  /\ IF rScen = 4
       THEN rPc' = "over" /\ UNCHANGED rScen /\ ClosedAll
       ELSE /\ rPc' = "init" /\ rScen' = rScen + 1
            /\ queue' = [queue EXCEPT ![rScen] = Emptied(@)] /\ UNCHANGED due
  /\ UNCHANGED <<got, excused, sVars, transit, reply>>

----------------------------------------------------------------------------
(****************************************************************************)
(* The service.                                                             *)
(****************************************************************************)
\* An asynchronous message arrives, if its queue is still there.
Deliver ==
  /\ transit # <<>> /\ transit' = Tail(transit)
  /\ IF Known(2)
       THEN /\ Put(2, Head(transit).m)
            /\ due' = IF queue[2].state = "open" THEN due + 1 ELSE due
       ELSE UNCHANGED <<queue, due>>
  /\ UNCHANGED <<sVars, rVars, reply>>

RetentionExpires ==
  /\ \E k \in Scenario :
       queue[k].state = "closed" /\ queue' = [queue EXCEPT ![k] = NoQueue]
  /\ UNCHANGED <<sVars, rVars, transit, due, reply>>

Sender ==
  \/ SenderInitialize \/ MessageSend \/ MessageSendAsync \/ MessageSendReceive
  \/ ReplyReceived \/ ReplyTimeout \/ SenderFinalize \/ SenderKey
Thread == ThreadStart \/ ThreadExit
Receiver ==
  \/ ReceiverInitialize \/ QueueOpen \/ RetentionTimeSet \/ ReadyKey
  \/ MessageGet \/ SelectionObjectGet \/ Interrupted \/ Dispatch \/ PollFails
  \/ MessageReply \/ QueueClose \/ QueueUnlink \/ ReceiverFinalize \/ ReceiverKey

Next == Sender \/ Thread \/ Receiver \/ Deliver \/ RetentionExpires

(****************************************************************************)
(* The sender's calls return and its user presses the keys; the service     *)
(* delivers what it took, and a poll that finds something is followed by    *)
(* its turn.  Nothing is assumed of the receiver's user.                    *)
(****************************************************************************)
Fairness == WF_vars(Sender) /\ WF_vars(Deliver) /\ WF_vars(Dispatch)
Spec == Init /\ [][Next]_vars /\ Fairness

----------------------------------------------------------------------------
QueueRec ==
  [state : {"absent", "open", "closed"}, unlinked : BOOLEAN, messages : Seq(Message)]
Sending == [m : Message, ack : SUBSET {"DELIVERED_ACK"}]
TypeOK ==
  /\ sScen \in Scenario /\ sPc \in SenderPc
  /\ sNext \in 1..(NUM_MESSAGES_SENT + 1)
  /\ thread \in {"none", "start", "poll"}
  /\ rScen \in Scenario /\ rPc \in ReceiverPc
  /\ rNext \in 1..(NUM_MESSAGES_SENT + 1)
  /\ got \in Seq(Message) /\ excused \in BOOLEAN
  /\ queue \in [Scenario -> QueueRec]
  /\ transit \in Seq(Sending)
  /\ due \in Nat /\ reply \in BOOLEAN

(****************************************************************************)
(* message_rcv_sync numbers the messages by its loop: what it prints as the *)
(* i-th message is the i-th one of the sender, and the callbacks of the     *)
(* second scenario read them in that order too, however sending and         *)
(* reading overlap, whichever call of either side fails, and although a     *)
(* more urgent message overtakes the others in the queue.                   *)
(****************************************************************************)
ReceivedInOrder ==
  rScen \in {1, 2} => \A i \in 1..Len(got) : got[i] = i

(****************************************************************************)
(* The receiver leaves a scenario without its queue, by whichever label it  *)
(* leaves: only when opening, setting the retention time, unlinking or      *)
(* finalizing failed may the service still keep it.                         *)
(****************************************************************************)
QueuesRemoved == rPc = "key" /\ ~excused => queue[rScen] = NoQueue

(****************************************************************************)
(* The sender comes to its end, even when nobody reads or replies.          *)
(****************************************************************************)
SenderEnds == <>(sPc = "over")

(****************************************************************************)
(* When all messages of the second scenario have been sent, a receiver that *)
(* polls for them is woken often enough to leave its loop: it polls without *)
(* a timeout, a fixed number of times.                                      *)
(****************************************************************************)
AllSent == sScen = 2 /\ sPc = "finalize" /\ sNext > NUM_MESSAGES_SENT
AsyncLoopEnds == (rPc = "poll" /\ AllSent) ~> (rPc # "poll")

=============================================================================
