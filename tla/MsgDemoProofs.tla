---------------------------- MODULE MsgDemoProofs ----------------------------
(****************************************************************************)
(* The receiver of the message demo reads in the order of sending and       *)
(* leaves no queue, for every number of messages and every range of         *)
(* priorities.                                                              *)
(*                                                                          *)
(* ReceivedInOrder is not inductive: it says nothing of what is still to be *)
(* read.  The strengthening puts all of a scenario in one line, what was    *)
(* read, what the queue holds, what is under way and what is sent next, for *)
(* as long as the service knows the queue (Line); before the queue is there *)
(* nothing has been sent (Fresh), nor before the sender is in the scenario  *)
(* (NotSent).  For QueuesRemoved it adds what unlinking leaves behind until *)
(* the handle is finalized (Unlinking).                                     *)
(****************************************************************************)
EXTENDS MsgDemo, SequenceTheorems, TLAPS

\* The queue of scenario k has not been opened.
Unmade(k) == rScen < k \/ (rScen = k /\ rPc \in {"init", "open"})
Fresh ==
  \A k \in Scenario : Unmade(k) =>
    /\ queue[k] = NoQueue
    /\ k = 2 => transit = <<>>
    /\ k \in {1, 2} /\ sScen = k /\ sPc = "send" => sNext = 1

Counters ==
  /\ sPc = "send" => sNext \in Message
  /\ rPc \in {"open", "retention", "ready", "get", "selobj", "poll"} => rNext \in Message
  /\ rPc = "open" => got = <<>>

Ahead(k) == IF k = 2 THEN Len(transit) ELSE 0
Line(k) ==
  LET s == queue[k].messages IN
    /\ \A i \in 1..Len(got) : got[i] = i
    /\ \A i \in 1..Len(s) : s[i] = Len(got) + i
    /\ Known(k) =>
         /\ k = 2 => \A i \in 1..Len(transit) : transit[i].m = Len(got) + Len(s) + i
         /\ sScen = k /\ sPc = "send" => sNext = Len(got) + Len(s) + Ahead(k) + 1

NotSent(k) ==
  sScen < k \/ (sScen = k /\ sPc = "init") =>
    /\ queue[k].messages = <<>> /\ (k = 2 => transit = <<>>)
    /\ rPc # "init" => got = <<>>

InLine == \A k \in {1, 2} : k = rScen => Line(k) /\ NotSent(k)

Unlinking ==
  /\ rPc = "key" /\ ~excused => queue[rScen] = NoQueue
  /\ rPc = "finalize" /\ ~excused =>
       queue[rScen] = NoQueue \/ (queue[rScen].state = "open" /\ queue[rScen].unlinked)

IInv == TypeOK /\ Counters /\ Fresh /\ InLine /\ Unlinking

----------------------------------------------------------------------------
(****************************************************************************)
(* Of messages in the order of sending, the one handed out is the first:    *)
(* none after it is more urgent.                                            *)
(****************************************************************************)
LEMMA PriorityRises ==
  ASSUME NEW a \in Message, NEW b \in Message, a <= b
  PROVE  Priority(a) \in Int /\ Priority(b) \in Int /\ Priority(a) <= Priority(b)
BY MsgDemoAssumption DEF Message, Priority

LEMMA FirstInLine ==
  ASSUME NEW s \in Seq(Message), NEW n \in Nat,
         \A i \in 1..Len(s) : s[i] = n + i,
         NEW p, First(s, p)
  PROVE  p = 1 /\ Len(s) > 0
<1>1. p \in 1..Len(s) /\ Len(s) \in Nat
  BY LenProperties DEF First
<1>2. SUFFICES ASSUME p > 1 PROVE FALSE
  BY <1>1, <1>2
<1>3. s[1] \in Message /\ s[p] \in Message /\ s[1] <= s[p]
  BY <1>1, <1>2, ElementOfSeq
<1>4. Priority(s[1]) <= Priority(s[p]) /\ Priority(s[1]) \in Int /\ Priority(s[p]) \in Int
  BY <1>3, PriorityRises
<1>5. Priority(s[p]) < Priority(s[1])
  BY <1>1, <1>2 DEF First
<1> QED
  BY <1>4, <1>5

\* A queue loses the message that is read, and nothing else.
LEMMA WithoutType ==
  ASSUME NEW s \in Seq(Message), NEW p \in 1..Len(s)
  PROVE  Without(s, p) \in Seq(Message)
<1>1. \A i \in 1..Len(s) : s[i] \in Message
  BY ElementOfSeq
<1>2. Len(s) \in Nat
  BY LenProperties
<1>3. SubSeq(s, 1, p - 1) \in Seq(Message)
  BY <1>1, <1>2, SubSeqProperties
<1>4. SubSeq(s, p + 1, Len(s)) \in Seq(Message)
  BY <1>1, <1>2, SubSeqProperties
<1> QED
  BY <1>3, <1>4, ConcatProperties DEF Without

LEMMA WithoutFirst ==
  ASSUME NEW s \in Seq(Message), Len(s) > 0
  PROVE  /\ Without(s, 1) \in Seq(Message)
         /\ Len(Without(s, 1)) = Len(s) - 1
         /\ \A i \in 1..(Len(s) - 1) : Without(s, 1)[i] = s[i + 1]
<1>1. Len(s) \in Nat /\ s # <<>>
  BY LenProperties, EmptySeq
<1>2. SubSeq(s, 1, 0) = <<>>
  BY SubSeqEmpty
<1>3. Tail(s) = SubSeq(s, 2, Len(s)) /\ Tail(s) \in Seq(Message)
  BY <1>1, TailIsSubSeq, HeadTailProperties
<1>4. Without(s, 1) = Tail(s)
  BY <1>2, <1>3, ConcatEmptySeq DEF Without
<1> QED
  BY <1>1, <1>4, HeadTailProperties

\* What reading and filling do to the types.
LEMMA TakeType ==
  ASSUME TypeOK, NEW k \in Scenario, Take(k)
  PROVE  got' \in Seq(Message) /\ queue' \in [Scenario -> QueueRec]
<1>1. queue[k].messages \in Seq(Message)
  BY DEF TypeOK, QueueRec
<1>2. PICK p \in 1..Len(queue[k].messages) :
        /\ got' = Append(got, queue[k].messages[p])
        /\ queue' = [queue EXCEPT ![k].messages = Without(@, p)]
  BY DEF Take
<1>3. queue[k].messages[p] \in Message /\ Without(queue[k].messages, p) \in Seq(Message)
  BY <1>1, ElementOfSeq, WithoutType
<1>4. got' \in Seq(Message)
  BY <1>2, <1>3, AppendProperties DEF TypeOK
<1>5. queue' \in [Scenario -> QueueRec]
  BY <1>2, <1>3 DEF TypeOK, QueueRec
<1> QED
  BY <1>4, <1>5

LEMMA PutType ==
  ASSUME TypeOK, NEW k \in Scenario, NEW m \in Message, Put(k, m)
  PROVE  queue' \in [Scenario -> QueueRec]
<1>1. queue[k].messages \in Seq(Message)
  BY DEF TypeOK, QueueRec
<1>2. Append(queue[k].messages, m) \in Seq(Message)
  BY <1>1, AppendProperties
<1> QED
  BY <1>2 DEF Put, TypeOK, QueueRec

LEMMA QueueTypes ==
  ASSUME NEW q \in QueueRec
  PROVE  /\ NoQueue \in QueueRec /\ Opened \in QueueRec
         /\ Closed(q) \in QueueRec /\ Unlinked(q) \in QueueRec /\ Emptied(q) \in QueueRec
<1>1. <<>> \in Seq(Message)
  BY EmptySeq
<1> QED
  BY <1>1 DEF QueueRec, NoQueue, Opened, Closed, Unlinked, Emptied

----------------------------------------------------------------------------
(****************************************************************************)
(* The types, with the bounds of the two counters.                          *)
(****************************************************************************)
LEMMA TypeStep ==
  ASSUME TypeOK, Counters, [Next]_vars
  PROVE  TypeOK'
<1> USE MsgDemoAssumption DEF Scenario, SenderPc, ReceiverPc, sVars, rVars, svcVars
<1>q. \A k \in Scenario : queue[k] \in QueueRec
  BY DEF TypeOK
<1>1. CASE SenderInitialize
  BY <1>1 DEF TypeOK, SenderInitialize
<1>2. CASE MessageSend
  <2>1. sNext \in Message /\ 1 \in Scenario
    BY <1>2 DEF Counters, MessageSend
  <2>2. queue' \in [Scenario -> QueueRec]
    BY <1>2, <2>1, PutType DEF MessageSend, TypeOK
  <2> HIDE DEF Scenario
  <2> QED
    BY <1>2, <2>1, <2>2 DEF TypeOK, MessageSend, Sent, SendFailed, Message
<1>3. CASE MessageSendAsync
  <2>1. sNext \in Message
    BY <1>3 DEF Counters, MessageSendAsync
  <2>2. [m |-> sNext, ack |-> AckFlags(sNext)] \in Sending
    BY <2>1 DEF AckFlags, Sending
  <2>3. transit' \in Seq(Sending)
    <3>1. transit \in Seq(Sending)
      BY DEF TypeOK
    <3>2. \/ transit' = Append(transit, [m |-> sNext, ack |-> AckFlags(sNext)])
          \/ transit' = transit
      BY ONLY <1>3 DEF MessageSendAsync
    <3>3. Append(transit, [m |-> sNext, ack |-> AckFlags(sNext)]) \in Seq(Sending)
      BY ONLY <2>2, <3>1, AppendProperties
    <3> QED
      BY ONLY <3>1, <3>2, <3>3
  <2>4. sNext' \in 1..(NUM_MESSAGES_SENT + 1) /\ sPc' \in SenderPc
    BY <1>3, <2>1 DEF TypeOK, MessageSendAsync, Sent, SendFailed, Message
  <2>5. UNCHANGED <<sScen, thread, rVars, queue, due, reply>>
    BY <1>3 DEF MessageSendAsync
  <2> QED
    BY <2>3, <2>4, <2>5 DEF TypeOK
<1>4. CASE MessageSendReceive
  <2>1. NUM_MESSAGES_SENT \in Message /\ sScen \in Scenario
    BY DEF Message, TypeOK
  <2>2. queue' \in [Scenario -> QueueRec]
    BY <1>4, <2>1, PutType DEF MessageSendReceive, TypeOK
  <2> QED
    BY <1>4, <2>2 DEF TypeOK, MessageSendReceive, SendFailed
<1>5. CASE ReplyReceived \/ ReplyTimeout \/ SenderFinalize
  BY <1>5 DEF TypeOK, ReplyReceived, ReplyTimeout, SenderFinalize, SendFailed
<1>6. CASE SenderKey
  BY <1>6 DEF TypeOK, SenderKey
<1>7. CASE Thread
  BY <1>7 DEF TypeOK, Thread, ThreadStart, ThreadExit
<1>8. CASE ReceiverInitialize
  <2>1. got' \in Seq(Message)
    BY <1>8, EmptySeq DEF ReceiverInitialize
  <2>2. excused' \in BOOLEAN
    BY <1>8, Zenon DEF ReceiverInitialize
  <2>3. /\ rPc' \in {"open", "key"} /\ rNext' = 1
        /\ UNCHANGED <<rScen, sVars, svcVars>>
    BY <1>8 DEF ReceiverInitialize
  <2> QED
    BY <2>1, <2>2, <2>3 DEF TypeOK
<1>9. CASE QueueOpen
  <2>1. queue' \in [Scenario -> QueueRec]
    BY <1>9, <1>q, QueueTypes DEF TypeOK, QueueOpen
  <2> QED
    BY <1>9, <2>1 DEF TypeOK, QueueOpen, Goes, Excused, AfterOpen
<1>10. CASE RetentionTimeSet \/ ReadyKey \/ SelectionObjectGet
  BY <1>10 DEF TypeOK, RetentionTimeSet, ReadyKey, SelectionObjectGet, Goes, Excused
<1>11. CASE MessageGet
  <2>1. CASE Take(rScen) /\ UNCHANGED rScen
    <3>1. got' \in Seq(Message) /\ queue' \in [Scenario -> QueueRec]
      BY <2>1, TakeType DEF TypeOK
    <3> QED
      BY <1>11, <2>1, <3>1 DEF TypeOK, MessageGet, Counters, Message, Goes
  <2>2. CASE Goes("unlink") /\ UNCHANGED <<got, queue>>
    BY <1>11, <2>2 DEF TypeOK, MessageGet, Goes
  <2> QED
    BY <1>11, <2>1, <2>2 DEF MessageGet
<1>12. CASE Interrupted
  BY <1>12 DEF TypeOK, Interrupted, Turn, Counters, Message
<1>13. CASE Dispatch
  <2>1. got' \in Seq(Message) /\ queue' \in [Scenario -> QueueRec]
    BY <1>13, TakeType DEF TypeOK, Dispatch
  <2> QED
    BY <1>13, <2>1 DEF TypeOK, Dispatch, Turn, Counters, Message
<1>14. CASE PollFails
  <2>1. queue' \in [Scenario -> QueueRec]
    BY <1>14, <1>q, QueueTypes DEF PollFails, ClosedAll
  <2> QED
    BY <1>14, <2>1 DEF TypeOK, PollFails, ClosedAll, Goes
<1>15. CASE MessageReply
  BY <1>15 DEF TypeOK, MessageReply, Goes
<1>16. CASE QueueClose
  <2>1. queue' \in [Scenario -> QueueRec]
    BY <1>16, <1>q, QueueTypes DEF QueueClose, TypeOK
  <2> QED
    BY <1>16, <2>1 DEF TypeOK, QueueClose, Goes
<1>17. CASE QueueUnlink
  <2>1. queue' \in [Scenario -> QueueRec]
    BY <1>17, <1>q, QueueTypes DEF QueueUnlink, TypeOK
  <2> QED
    BY <1>17, <2>1 DEF TypeOK, QueueUnlink, Goes, Excused
<1>18. CASE ReceiverFinalize
  <2>1. queue' \in [Scenario -> QueueRec]
    BY <1>18, <1>q, QueueTypes DEF ReceiverFinalize, TypeOK
  <2>2. due' \in Nat
    BY <1>18 DEF TypeOK, ReceiverFinalize
  <2>4. excused' \in BOOLEAN
    BY <1>18, Zenon DEF TypeOK, ReceiverFinalize, Excused
  <2>3. rPc' = "key" /\ UNCHANGED <<rScen, rNext, got, sVars, transit, reply>>
    BY <1>18 DEF ReceiverFinalize, Goes
  <2> QED
    BY <2>1, <2>2, <2>3, <2>4 DEF TypeOK
<1>19. CASE ReceiverKey
  <2>1. queue' \in [Scenario -> QueueRec]
    BY <1>19, <1>q, QueueTypes DEF ReceiverKey, ClosedAll, TypeOK
  <2> QED
    BY <1>19, <2>1 DEF TypeOK, ReceiverKey, ClosedAll
<1>20. CASE Deliver
  <2>1. /\ Head(transit) \in Sending
        /\ transit' \in Seq(Sending)
    BY <1>20, HeadTailProperties DEF Deliver, TypeOK
  <2>2. Head(transit).m \in Message /\ 2 \in Scenario
    BY <2>1 DEF Sending
  <2>3. queue' \in [Scenario -> QueueRec]
    BY <1>20, <2>2, PutType DEF Deliver, TypeOK
  <2> QED
    BY <1>20, <2>1, <2>3 DEF TypeOK, Deliver
<1>21. CASE RetentionExpires
  <2>1. queue' \in [Scenario -> QueueRec]
    BY <1>21, <1>q, QueueTypes DEF RetentionExpires, TypeOK
  <2> QED
    BY <1>21, <2>1 DEF TypeOK, RetentionExpires
<1>22. CASE UNCHANGED vars
  BY <1>22 DEF TypeOK, vars
<1> QED
  BY <1>1, <1>2, <1>3, <1>4, <1>5, <1>6, <1>7, <1>8, <1>9, <1>10, <1>11, <1>12,
     <1>13, <1>14, <1>15, <1>16, <1>17, <1>18, <1>19, <1>20, <1>21, <1>22
  DEF Next, Sender, Receiver

LEMMA CountersStep ==
  ASSUME TypeOK, Counters, [Next]_vars
  PROVE  Counters'
<1> USE MsgDemoAssumption DEF TypeOK, Counters, Message, sVars, rVars, svcVars
<1>1. CASE Sender
  BY <1>1 DEF Sender, SenderInitialize, MessageSend, MessageSendAsync,
     MessageSendReceive, ReplyReceived, ReplyTimeout, SenderFinalize, SenderKey,
     Sent, SendFailed
<1>2. CASE Thread \/ Deliver \/ RetentionExpires
  BY <1>2 DEF Thread, ThreadStart, ThreadExit, Deliver, RetentionExpires
<1>3. CASE ReceiverInitialize \/ QueueOpen \/ RetentionTimeSet \/ ReadyKey \/ SelectionObjectGet
  BY <1>3 DEF ReceiverInitialize, QueueOpen, RetentionTimeSet, ReadyKey,
     SelectionObjectGet, Goes, AfterOpen
<1>4. CASE MessageGet
  BY <1>4 DEF MessageGet, Goes
<1>5. CASE Interrupted \/ Dispatch \/ PollFails
  BY <1>5 DEF Interrupted, Dispatch, PollFails, Turn, Goes
<1>6. CASE MessageReply \/ QueueClose \/ QueueUnlink \/ ReceiverFinalize \/ ReceiverKey
  BY <1>6 DEF MessageReply, QueueClose, QueueUnlink, ReceiverFinalize, ReceiverKey, Goes
<1>7. CASE UNCHANGED vars
  BY <1>7 DEF vars
<1> QED
  BY <1>1, <1>2, <1>3, <1>4, <1>5, <1>6, <1>7 DEF Next, Receiver

----------------------------------------------------------------------------
(****************************************************************************)
(* Nothing is sent to a queue before it has been opened.                    *)
(****************************************************************************)
LEMMA UnmadeBefore ==
  ASSUME TypeOK, [Next]_vars, NEW k \in Scenario, Unmade(k)'
  PROVE  Unmade(k)
<1> USE DEF Unmade, TypeOK, Scenario, sVars, rVars, svcVars
<1>1. CASE Sender
  BY <1>1 DEF Sender, SenderInitialize, MessageSend, MessageSendAsync,
     MessageSendReceive, ReplyReceived, ReplyTimeout, SenderFinalize, SenderKey
<1>2. CASE Thread \/ Deliver \/ RetentionExpires
  BY <1>2 DEF Thread, ThreadStart, ThreadExit, Deliver, RetentionExpires
<1>3. CASE ReceiverInitialize \/ QueueOpen \/ RetentionTimeSet \/ ReadyKey \/ SelectionObjectGet
  BY <1>3 DEF ReceiverInitialize, QueueOpen, RetentionTimeSet, ReadyKey,
     SelectionObjectGet, Goes
<1>4. CASE MessageGet
  BY <1>4 DEF MessageGet, Goes
<1>5. CASE Interrupted \/ Dispatch \/ PollFails
  BY <1>5 DEF Interrupted, Dispatch, PollFails, Turn, Goes
<1>6. CASE MessageReply \/ QueueClose \/ QueueUnlink \/ ReceiverFinalize
  BY <1>6 DEF MessageReply, QueueClose, QueueUnlink, ReceiverFinalize, Goes
<1>7. CASE ReceiverKey
  BY <1>7 DEF ReceiverKey
<1>8. CASE UNCHANGED vars
  BY <1>8 DEF vars
<1> QED
  BY <1>1, <1>2, <1>3, <1>4, <1>5, <1>6, <1>7, <1>8 DEF Next, Receiver

\* A queue that is not there stays so but for QueueOpen.
LEMMA QueueStays ==
  ASSUME TypeOK, Next, ~QueueOpen, NEW k \in Scenario, queue[k] = NoQueue
  PROVE  queue'[k] = NoQueue
<1>0. ~Known(k) /\ k \in DOMAIN queue /\ rScen \in Scenario /\ DOMAIN queue = Scenario
  BY DEF Known, NoQueue, TypeOK
<1>p. ASSUME NEW j \in Scenario, NEW m, Known(j), Put(j, m) PROVE queue'[k] = NoQueue
  BY <1>0, <1>p DEF Put
<1>c. Closed(NoQueue) = NoQueue /\ Unlinked(NoQueue) = NoQueue /\ Emptied(NoQueue) = NoQueue
  BY DEF Closed, Unlinked, Emptied, NoQueue
<1>1. CASE Sender
  <2>1. CASE MessageSend
    BY <2>1, <1>p DEF MessageSend, Scenario
  <2>2. CASE MessageSendReceive
    BY <2>2, <1>p DEF MessageSendReceive, Scenario
  <2> QED
    BY <1>1, <2>1, <2>2 DEF Sender, SenderInitialize, MessageSendAsync,
       ReplyReceived, ReplyTimeout, SenderFinalize, SenderKey, rVars, svcVars
<1>2. CASE Deliver
  BY <1>2, <1>p DEF Deliver, Scenario
<1>3. CASE Thread \/ RetentionExpires
  BY <1>3, <1>0 DEF Thread, ThreadStart, ThreadExit, RetentionExpires, svcVars
<1>4. CASE MessageGet \/ Dispatch
  <2>1. ASSUME NEW j \in Scenario, Take(j) PROVE queue'[k] = NoQueue
    <3>1. PICK p \in 1..Len(queue[j].messages) :
            queue' = [queue EXCEPT ![j].messages = Without(@, p)]
      BY <2>1 DEF Take
    <3>2. j # k
      <4>1. SUFFICES ASSUME j = k PROVE FALSE
        OBVIOUS
      <4>2. Len(queue[j].messages) = 0
        BY <4>1, EmptySeq DEF NoQueue
      <4> QED
        BY <3>1, <4>2
    <3> QED
      BY <3>1, <3>2, <1>0
  <2> QED
    BY <1>4, <2>1, <1>0 DEF MessageGet, Dispatch, Scenario
<1>5. CASE PollFails \/ QueueClose \/ QueueUnlink \/ ReceiverFinalize \/ ReceiverKey
  BY <1>5, <1>0, <1>c DEF PollFails, ClosedAll, QueueClose, QueueUnlink,
     ReceiverFinalize, ReceiverKey
<1>6. CASE \/ ReceiverInitialize \/ RetentionTimeSet \/ ReadyKey \/ SelectionObjectGet
           \/ Interrupted \/ MessageReply
  BY <1>6 DEF ReceiverInitialize, RetentionTimeSet, ReadyKey, SelectionObjectGet,
     Interrupted, MessageReply, svcVars
<1> QED
  BY <1>1, <1>2, <1>3, <1>4, <1>5, <1>6 DEF Next, Receiver

LEMMA FreshStep ==
  ASSUME TypeOK, Fresh, [Next]_vars
  PROVE  Fresh'
<1> SUFFICES ASSUME NEW k \in Scenario, Unmade(k)'
             PROVE  /\ queue'[k] = NoQueue
                    /\ k = 2 => transit' = <<>>
                    /\ k \in {1, 2} /\ sScen' = k /\ sPc' = "send" => sNext' = 1
  BY DEF Fresh
<1>1. /\ queue[k] = NoQueue /\ ~Known(k)
      /\ k = 2 => transit = <<>>
      /\ k \in {1, 2} /\ sScen = k /\ sPc = "send" => sNext = 1
  BY UnmadeBefore DEF Fresh, Known, NoQueue
<1>2. CASE UNCHANGED vars
  BY <1>1, <1>2 DEF vars, sVars, svcVars
<1>3. CASE Next
  <2>1. queue'[k] = NoQueue
    <3>1. CASE QueueOpen
      <4>0. AfterOpen \notin {"init", "open"}
        BY DEF AfterOpen
      <4>1. k # rScen
        BY <3>1, <4>0 DEF QueueOpen, Goes, Unmade, TypeOK, Scenario
      <4> QED
        BY <3>1, <4>1, <1>1 DEF QueueOpen, TypeOK
    <3> QED
      BY <1>1, <1>3, <3>1, QueueStays
  <2>2. k = 2 => transit' = <<>>
    BY <1>1, <1>3 DEF Next, Sender, Thread, Receiver, SenderInitialize, MessageSend,
       MessageSendAsync, MessageSendReceive, ReplyReceived, ReplyTimeout,
       SenderFinalize, SenderKey, ThreadStart, ThreadExit, ReceiverInitialize,
       QueueOpen, RetentionTimeSet, ReadyKey, MessageGet, SelectionObjectGet,
       Interrupted, Dispatch, PollFails, MessageReply, QueueClose, QueueUnlink,
       ReceiverFinalize, ReceiverKey, Deliver, RetentionExpires, svcVars
  <2>3. k \in {1, 2} /\ sScen' = k /\ sPc' = "send" => sNext' = 1
    <3>1. CASE Sender
      BY <1>1, <3>1 DEF Sender, SenderInitialize, MessageSend, MessageSendAsync,
         MessageSendReceive, ReplyReceived, ReplyTimeout, SenderFinalize, SenderKey,
         SendFailed
    <3>2. CASE Thread
      BY <1>1, <3>2 DEF Thread, ThreadStart, ThreadExit
    <3>3. CASE Receiver \/ Deliver \/ RetentionExpires
      BY <1>1, <3>3 DEF Receiver, ReceiverInitialize, QueueOpen, RetentionTimeSet,
         ReadyKey, MessageGet, SelectionObjectGet, Interrupted, Dispatch, PollFails,
         MessageReply, QueueClose, QueueUnlink, ReceiverFinalize, ReceiverKey,
         Deliver, RetentionExpires, sVars
    <3> QED
      BY <1>3, <3>1, <3>2, <3>3 DEF Next
  <2> QED
    BY <2>1, <2>2, <2>3
<1> QED
  BY <1>2, <1>3

----------------------------------------------------------------------------
(****************************************************************************)
(* The queue goes once it is unlinked and closed.                           *)
(****************************************************************************)
\* What the receiver is done with is not filled, and stays what it is.
Going(q) == q = NoQueue \/ (q.state = "open" /\ q.unlinked)
LEMMA GoingStays ==
  ASSUME TypeOK, Sender \/ Thread \/ Deliver \/ RetentionExpires,
         NEW k \in Scenario, Going(queue[k])
  PROVE  queue'[k] = queue[k]
<1>1. ~Known(k) /\ DOMAIN queue = Scenario
  BY DEF Known, Going, NoQueue, TypeOK
<1>p. ASSUME NEW j \in Scenario, NEW m, Known(j), Put(j, m) PROVE queue'[k] = queue[k]
  BY <1>1, <1>p DEF Put
<1>2. CASE Sender
  <2>1. CASE MessageSend
    BY <2>1, <1>p DEF MessageSend, Scenario
  <2>2. CASE MessageSendReceive
    BY <2>2, <1>p DEF MessageSendReceive, Scenario
  <2> QED
    BY <1>2, <2>1, <2>2 DEF Sender, SenderInitialize, MessageSendAsync,
       ReplyReceived, ReplyTimeout, SenderFinalize, SenderKey, rVars, svcVars
<1>3. CASE Deliver
  BY <1>3, <1>p DEF Deliver, Scenario
<1>4. CASE Thread
  BY <1>4 DEF Thread, ThreadStart, ThreadExit, svcVars
<1>5. CASE RetentionExpires
  BY <1>5, <1>1 DEF RetentionExpires, Going, NoQueue
<1> QED
  BY <1>2, <1>3, <1>4, <1>5

LEMMA UnlinkingStep ==
  ASSUME TypeOK, Fresh, Unlinking, [Next]_vars
  PROVE  Unlinking'
<1>0. rScen \in Scenario /\ DOMAIN queue = Scenario /\ queue[rScen] \in QueueRec
  BY DEF TypeOK
<1>1. CASE UNCHANGED vars
  BY <1>1 DEF vars, rVars, svcVars, Unlinking
<1>2. CASE Sender \/ Thread \/ Deliver \/ RetentionExpires
  <2>1. UNCHANGED rVars
    BY <1>2 DEF Sender, SenderInitialize, MessageSend, MessageSendAsync,
       MessageSendReceive, ReplyReceived, ReplyTimeout, SenderFinalize, SenderKey,
       Thread, ThreadStart, ThreadExit, Deliver, RetentionExpires
  <2> QED
    BY <2>1, <1>0, <1>2, GoingStays DEF Unlinking, Going, rVars
<1>3. CASE ReceiverInitialize
  <2>1. queue[rScen] = NoQueue /\ UNCHANGED <<rScen, queue>> /\ rPc' # "finalize"
    BY <1>0, <1>3 DEF ReceiverInitialize, Fresh, Unmade, svcVars
  <2> QED
    BY <2>1 DEF Unlinking
<1>4. CASE QueueOpen \/ RetentionTimeSet
  BY <1>4 DEF QueueOpen, RetentionTimeSet, Goes, Excused, Unlinking, AfterOpen
<1>5. CASE QueueUnlink
  <2>1. Unlinked(queue[rScen]) = NoQueue \/ (Unlinked(queue[rScen]).state = "open" /\ Unlinked(queue[rScen]).unlinked)
    BY <1>0 DEF Unlinked, QueueRec
  <2> QED
    BY <2>1, <1>0, <1>5 DEF QueueUnlink, Goes, Excused, Unlinking
<1>6. CASE ReceiverFinalize
  <2>1. CASE excused' = FALSE
    <3>0. ~excused
      BY <1>6, <2>1, Zenon DEF ReceiverFinalize, Excused
    <3>1. Going(queue[rScen]) /\ UNCHANGED rScen /\ rPc' = "key"
      BY <1>6, <3>0 DEF ReceiverFinalize, Unlinking, Going, Goes
    <3>2. queue'[rScen] = Closed(queue[rScen])
      BY <1>0, <1>6, <2>1 DEF ReceiverFinalize, Excused
    <3>3. queue'[rScen] = NoQueue
      BY <3>1, <3>2 DEF Going, Closed, NoQueue
    <3> QED
      BY <3>1, <3>3 DEF Unlinking
  <2>2. CASE excused' # FALSE
    <3>1. excused' /\ rPc' = "key"
      BY <1>6, <2>2 DEF ReceiverFinalize, Excused, Goes, TypeOK
    <3> QED
      BY <3>1 DEF Unlinking
  <2> QED
    BY <2>1, <2>2
<1>7. CASE ReceiverKey
  BY <1>7 DEF ReceiverKey, Unlinking
<1>8. CASE \/ ReadyKey \/ MessageGet \/ SelectionObjectGet \/ Interrupted \/ Dispatch
           \/ PollFails \/ MessageReply \/ QueueClose
  BY <1>8 DEF ReadyKey, MessageGet, SelectionObjectGet, Interrupted, Dispatch,
     PollFails, MessageReply, QueueClose, Turn, Goes, Unlinking
<1> QED
  BY <1>1, <1>2, <1>3, <1>4, <1>5, <1>6, <1>7, <1>8 DEF Next, Receiver

----------------------------------------------------------------------------
(****************************************************************************)
(* The line of what is read, queued, under way and to be sent.              *)
(****************************************************************************)
\* Reading takes the next message of the line.
LEMMA TakeInLine ==
  ASSUME TypeOK, NEW k \in {1, 2}, k = rScen, Line(k), Take(k)
  PROVE  /\ Len(queue[k].messages) > 0
         /\ got' \in Seq(Message) /\ Len(got') = Len(got) + 1
         /\ \A i \in 1..Len(got') : got'[i] = i
         /\ Len(queue'[k].messages) = Len(queue[k].messages) - 1
         /\ \A i \in 1..Len(queue'[k].messages) : queue'[k].messages[i] = Len(got') + i
         /\ queue'[k].state = queue[k].state /\ queue'[k].unlinked = queue[k].unlinked
<1> DEFINE s == queue[k].messages
<1>1. k \in Scenario /\ s \in Seq(Message) /\ got \in Seq(Message) /\ queue[k] \in QueueRec
  BY DEF TypeOK, QueueRec, Scenario
<1>2. PICK p : /\ First(s, p)
               /\ got' = Append(got, s[p])
               /\ queue' = [queue EXCEPT ![k].messages = Without(@, p)]
  BY DEF Take
<1>3. /\ Len(got) \in Nat /\ Len(s) \in Nat
      /\ \A i \in 1..Len(got) : got[i] = i
      /\ \A i \in 1..Len(s) : s[i] = Len(got) + i
  BY <1>1, LenProperties DEF Line
<1>4. p = 1 /\ Len(s) > 0
  <2> HIDE DEF s
  <2> QED
    BY <1>1, <1>2, <1>3, FirstInLine
<1>5. s[1] = Len(got) + 1 /\ s[1] \in Message
  BY <1>1, <1>3, <1>4, ElementOfSeq
<1>6. /\ got' \in Seq(Message) /\ Len(got') = Len(got) + 1
      /\ \A i \in 1..Len(got) : got'[i] = got[i]
      /\ got'[Len(got) + 1] = s[1]
  BY <1>1, <1>2, <1>4, <1>5, AppendProperties
<1>7. \A i \in 1..Len(got') : got'[i] = i
  BY <1>3, <1>5, <1>6
<1>8. /\ queue'[k].messages = Without(s, 1)
      /\ queue'[k].state = queue[k].state /\ queue'[k].unlinked = queue[k].unlinked
  BY <1>1, <1>2, <1>4 DEF TypeOK, QueueRec
<1>9. /\ Without(s, 1) \in Seq(Message) /\ Len(Without(s, 1)) = Len(s) - 1
      /\ \A i \in 1..(Len(s) - 1) : Without(s, 1)[i] = s[i + 1]
  BY <1>1, <1>4, WithoutFirst
<1>10. \A i \in 1..(Len(s) - 1) : Without(s, 1)[i] = Len(got') + i
  <2>1. SUFFICES ASSUME NEW i \in 1..(Len(s) - 1) PROVE Without(s, 1)[i] = Len(got') + i
    OBVIOUS
  <2>2. Without(s, 1)[i] = s[i + 1]
    BY <1>9
  <2>3. s[i + 1] = Len(got) + (i + 1)
    BY <1>3
  <2> QED
    BY <1>3, <1>6, <2>2, <2>3
<1> QED
  <2>1. /\ Len(queue'[k].messages) = Len(s) - 1
        /\ \A i \in 1..Len(queue'[k].messages) : queue'[k].messages[i] = Len(got') + i
    BY <1>8, <1>9, <1>10
  <2> QED
    BY <1>4, <1>6, <1>7, <1>8, <2>1

\* Filling puts the next message behind what the queue holds.
LEMMA PutInLine ==
  ASSUME TypeOK, NEW k \in {1, 2}, k = rScen, NEW m \in Message, Put(k, m),
         \A i \in 1..Len(queue[k].messages) : queue[k].messages[i] = Len(got) + i,
         m = Len(got) + Len(queue[k].messages) + 1
  PROVE  /\ Len(queue'[k].messages) = Len(queue[k].messages) + 1
         /\ \A i \in 1..Len(queue'[k].messages) : queue'[k].messages[i] = Len(got) + i
         /\ queue'[k].state = queue[k].state /\ queue'[k].unlinked = queue[k].unlinked
<1> DEFINE s == queue[k].messages
<1>1. k \in Scenario /\ s \in Seq(Message) /\ queue[k] \in QueueRec
  BY DEF TypeOK, QueueRec, Scenario
<1>2. /\ queue'[k].messages = Append(s, m)
      /\ queue'[k].state = queue[k].state /\ queue'[k].unlinked = queue[k].unlinked
  BY <1>1 DEF Put, TypeOK, QueueRec
<1>3. /\ Len(Append(s, m)) = Len(s) + 1
      /\ \A i \in 1..Len(s) : Append(s, m)[i] = s[i]
      /\ Append(s, m)[Len(s) + 1] = m
  BY <1>1, AppendProperties
<1>4. Len(s) \in Nat /\ Len(got) \in Nat
  BY <1>1, LenProperties DEF TypeOK
<1>5. \A i \in 1..Len(Append(s, m)) : Append(s, m)[i] = Len(got) + i
  BY <1>3, <1>4
<1> QED
  BY <1>2, <1>3, <1>5

\* A step that takes nothing out of the line, but the queue, keeps it.
LEMMA LineKept ==
  ASSUME NEW k \in {1, 2}, Line(k), NotSent(k), UNCHANGED got,
         k = 2 => UNCHANGED transit,
         queue'[k].messages \in {queue[k].messages, <<>>},
         Known(k)' => Known(k) /\ queue'[k].messages = queue[k].messages,
         sScen' = k /\ sPc' = "send" => sScen = k /\ sPc = "send" /\ sNext' = sNext,
         sScen' < k \/ (sScen' = k /\ sPc' = "init") =>
           sScen < k \/ (sScen = k /\ sPc = "init"),
         rPc' # "init" => rPc # "init"
  PROVE  Line(k)' /\ NotSent(k)'
<1>1. Len(<<>>) = 0
  OBVIOUS
<1>2. NotSent(k)'
  BY DEF NotSent
<1>3. \A i \in 1..Len(queue'[k].messages) : queue'[k].messages[i] = Len(got') + i
  BY <1>1 DEF Line
<1>4. Known(k)' => /\ k = 2 => \A i \in 1..Len(transit') :
                                  transit'[i].m = Len(got') + Len(queue'[k].messages) + i
                   /\ sScen' = k /\ sPc' = "send" =>
                        sNext' = Len(got') + Len(queue'[k].messages) + Ahead(k)' + 1
  BY DEF Line, Ahead
<1>5. \A i \in 1..Len(got') : got'[i] = i
  BY DEF Line
<1> QED
  BY <1>2, <1>3, <1>4, <1>5 DEF Line

\* What closing and unlinking leave of a queue.
LEMMA ClosingKeeps ==
  ASSUME NEW q \in QueueRec, NEW r \in {q, Closed(q), Unlinked(q), NoQueue}
  PROVE  /\ r.messages \in {q.messages, <<>>}
         /\ r.state # "absent" /\ ~r.unlinked =>
              q.state # "absent" /\ ~q.unlinked /\ r.messages = q.messages
BY DEF QueueRec, Closed, Unlinked, NoQueue

LEMMA SenderInLine ==
  ASSUME TypeOK, Counters, Fresh, Sender \/ Thread,
         NEW k \in {1, 2}, k = rScen, Line(k), NotSent(k)
  PROVE  Line(k)' /\ NotSent(k)'
<1>0. /\ k \in Scenario /\ queue[k] \in QueueRec /\ sScen \in Scenario
      /\ Len(got) \in Nat /\ Len(queue[k].messages) \in Nat /\ Len(transit) \in Nat
  BY LenProperties DEF TypeOK, QueueRec, Scenario
<1>1. CASE SenderInitialize
  <2>1. CASE sPc' = "send" /\ sScen = k
    <3>1. queue[k].messages = <<>> /\ (k = 2 => transit = <<>>) /\ (rPc # "init" => got = <<>>)
      BY <1>1, <2>1 DEF NotSent, SenderInitialize
    <3>2. Known(k) => rPc # "init"
      BY <1>0 DEF Known, Fresh, Unmade, NoQueue
    <3>3. Known(k)' => sNext' = Len(got') + Len(queue'[k].messages) + Ahead(k)' + 1
      BY <1>1, <2>1, <3>1, <3>2 DEF SenderInitialize, Ahead, Known, rVars, svcVars
    <3> QED
      BY <1>1, <2>1, <3>3 DEF Line, NotSent, SenderInitialize, Known, rVars, svcVars
  <2>2. CASE ~(sPc' = "send" /\ sScen = k)
    BY <1>1, <2>2, LineKept DEF SenderInitialize, Known, rVars, svcVars
  <2> QED
    BY <2>1, <2>2
<1>2. CASE MessageSend
  <2>1. CASE k = 1 /\ Known(1) /\ Put(1, sNext)
    <3>1. sNext \in Message /\ sNext = Len(got) + Len(queue[1].messages) + 1
      BY <1>0, <1>2, <2>1 DEF Counters, MessageSend, Line, Ahead
    <3>2. /\ Len(queue'[1].messages) = Len(queue[1].messages) + 1
          /\ \A i \in 1..Len(queue'[1].messages) : queue'[1].messages[i] = Len(got) + i
      BY <2>1, <3>1, PutInLine DEF Line
    <3>3. sPc' = "send" => sNext' = Len(got) + Len(queue'[1].messages) + 1
      BY <1>0, <1>2, <3>1, <3>2 DEF MessageSend, Sent, SendFailed
    <3> QED
      BY <1>0, <1>2, <2>1, <3>2, <3>3 DEF Line, NotSent, MessageSend, Sent, SendFailed,
         Ahead, rVars
  <2>2. CASE UNCHANGED queue /\ SendFailed
    BY <1>2, <2>2, LineKept DEF MessageSend, SendFailed, Known, rVars
  <2>3. CASE k = 2
    <3>1. UNCHANGED queue
      BY <1>2, <2>3 DEF MessageSend, Put
    <3> QED
      BY <1>2, <2>3, <3>1, LineKept DEF MessageSend, SendFailed, Sent, Known, rVars
  <2> QED
    BY <1>2, <2>1, <2>2, <2>3 DEF MessageSend
<1>3. CASE MessageSendAsync
  <2>1. CASE k = 2 /\ Known(2) /\ Sent
    <3> DEFINE held == Len(got) + Len(queue[2].messages)
               sent == Len(transit)
    <3>1. held \in Nat /\ sent \in Nat
      BY <1>0, <2>1
    <3>2. sNext = held + sent + 1
      BY <1>3, <2>1 DEF MessageSendAsync, Line, Ahead
    <3>3. PICK t \in Sending : t.m = sNext /\ transit' = Append(transit, t)
      <4>1. sNext \in Message
        BY <1>3 DEF Counters, MessageSendAsync
      <4>2. [m |-> sNext, ack |-> AckFlags(sNext)] \in Sending
        BY <4>1 DEF AckFlags, Sending
      <4>3. transit' = Append(transit, [m |-> sNext, ack |-> AckFlags(sNext)])
        BY <1>3, <2>1 DEF MessageSendAsync, Sent, SendFailed
      <4> QED
        BY <4>2, <4>3
    <3>4. /\ Len(transit') = sent + 1
          /\ \A i \in 1..sent : transit'[i] = transit[i]
          /\ transit'[sent + 1] = t
      BY <3>3, AppendProperties DEF TypeOK
    <3>5. \A i \in 1..sent : transit[i].m = held + i
      BY <2>1 DEF Line
    <3>6. sNext' = sNext + 1
      BY <2>1 DEF Sent
    <3> HIDE DEF held, sent
    <3>7. sNext' = held + Len(transit') + 1
      BY <3>1, <3>2, <3>4, <3>6
    <3>8. \A i \in 1..Len(transit') : transit'[i].m = held + i
      <4>1. SUFFICES ASSUME NEW i \in 1..(sent + 1) PROVE transit'[i].m = held + i
        BY <3>4
      <4>2. CASE i \in 1..sent
        BY <3>4, <3>5, <4>2
      <4>3. CASE i = sent + 1
        <5>1. transit'[i].m = sNext
          BY <3>3, <3>4, <4>3
        <5> QED
          BY <3>1, <3>2, <4>3, <5>1
      <4> QED
        BY <3>1, <4>2, <4>3
    <3> QED
      BY <1>3, <2>1, <3>7, <3>8 DEF held, Line, NotSent, MessageSendAsync, Sent, Ahead, rVars
  <2>2. CASE k = 2 /\ SendFailed /\ UNCHANGED transit
    BY <1>3, <2>2, LineKept DEF MessageSendAsync, SendFailed, Known, rVars
  <2>3. CASE k = 1
    BY <1>3, <2>3, LineKept DEF MessageSendAsync, Known, rVars
  <2> QED
    BY <1>3, <2>1, <2>2, <2>3 DEF MessageSendAsync
<1>4. CASE MessageSendReceive
  <2>1. UNCHANGED queue
    BY <1>4 DEF MessageSendReceive, Put
  <2> QED
    BY <1>4, <2>1, LineKept DEF MessageSendReceive, SendFailed, Known, rVars
<1>5. CASE ReplyReceived \/ ReplyTimeout \/ SenderFinalize \/ Thread
  BY <1>5, LineKept DEF ReplyReceived, ReplyTimeout, SenderFinalize, SendFailed,
     Thread, ThreadStart, ThreadExit, Known, rVars, svcVars
<1>6. CASE SenderKey
  BY <1>0, <1>6, LineKept DEF SenderKey, Known, rVars, svcVars, Scenario
<1> QED
  BY <1>1, <1>2, <1>3, <1>4, <1>5, <1>6 DEF Sender

LEMMA DeliverInLine ==
  ASSUME TypeOK, Fresh, Deliver, NEW k \in {1, 2}, k = rScen, Line(k), NotSent(k)
  PROVE  Line(k)' /\ NotSent(k)'
<1> DEFINE held == Len(got) + Len(queue[2].messages)
           sent == Len(transit)
<1>0. queue[2] \in QueueRec /\ held \in Nat /\ sent \in Nat
  BY LenProperties DEF TypeOK, QueueRec, Scenario
<1>1. /\ transit # <<>> /\ transit' = Tail(transit)
      /\ UNCHANGED <<sScen, sPc, sNext, rScen, rPc, got>>
  BY DEF Deliver, sVars, rVars
<1>2. /\ Head(transit) \in Sending /\ Head(transit) = transit[1]
      /\ Len(transit') = sent - 1 /\ sent > 0
      /\ \A i \in 1..(sent - 1) : transit'[i] = transit[i + 1]
  <2>1. transit \in Seq(Sending)
    BY DEF TypeOK
  <2>2. sent > 0
    BY <1>1, <2>1, EmptySeq
  <2>3. Head(transit) \in Sending /\ Len(Tail(transit)) = sent - 1
    BY <1>1, <2>1, HeadTailProperties
  <2>4. \A i \in 1..Len(Tail(transit)) : Tail(transit)[i] = transit[i + 1]
    BY <1>1, <2>1, HeadTailProperties
  <2> QED
    BY <1>1, <2>1, <2>2, <2>3, <2>4
<1>3. CASE k = 1
  <2>1. UNCHANGED queue
    BY <1>3 DEF Deliver, Put
  <2> QED
    BY <1>1, <1>3, <2>1, LineKept DEF Known
<1>4. CASE k = 2 /\ ~Known(2)
  <2>1. UNCHANGED queue /\ ~Known(2)'
    BY <1>4 DEF Deliver, Known
  <2>2. NotSent(2)'
    BY <1>1, <1>4, <2>1 DEF NotSent
  <2> QED
    BY <1>1, <1>4, <2>1, <2>2 DEF Line
<1>5. CASE k = 2 /\ Known(2)
  <2>1. Put(2, Head(transit).m) /\ Head(transit).m \in Message
    BY <1>2, <1>5 DEF Deliver, Sending
  <2>2. /\ \A i \in 1..sent : transit[i].m = held + i
        /\ \A i \in 1..Len(queue[2].messages) : queue[2].messages[i] = Len(got) + i
        /\ sScen = k /\ sPc = "send" => sNext = held + sent + 1
    BY <1>5 DEF Line, Ahead
  <2>3. Head(transit).m = held + 1
    <3> HIDE DEF held, sent
    <3> QED
      BY <1>0, <1>2, <2>2
  <2>4. /\ Len(queue'[2].messages) = Len(queue[2].messages) + 1
        /\ \A i \in 1..Len(queue'[2].messages) : queue'[2].messages[i] = Len(got) + i
    BY <1>5, <2>1, <2>2, <2>3, PutInLine
  <2> DEFINE heldNow == Len(got') + Len(queue'[2].messages)
  <2>5. heldNow = held + 1
    <3>1. Len(got) \in Nat /\ Len(queue[2].messages) \in Nat
      BY <1>0, LenProperties DEF TypeOK, QueueRec
    <3> QED
      BY <1>1, <2>4, <3>1
  <2>6. /\ \A i \in 1..Len(transit') : transit'[i].m = heldNow + i
        /\ sScen' = k /\ sPc' = "send" => sNext' = heldNow + Len(transit') + 1
    <3> HIDE DEF held, heldNow, sent
    <3>1. ASSUME NEW i \in 1..(sent - 1) PROVE transit'[i].m = heldNow + i
      <4>1. transit'[i] = transit[i + 1] /\ i + 1 \in 1..sent
        BY <1>0, <1>2
      <4>2. transit[i + 1].m = held + (i + 1)
        BY <2>2, <4>1
      <4> QED
        BY <1>0, <2>5, <4>1, <4>2
    <3>2. sScen' = k /\ sPc' = "send" => sNext' = heldNow + Len(transit') + 1
      BY <1>0, <1>1, <1>2, <2>2, <2>5
    <3> QED
      BY <1>2, <3>1, <3>2
  <2>7. ~(sScen' < k \/ (sScen' = k /\ sPc' = "init"))
    BY <1>1, <1>5 DEF NotSent
  <2> QED
    BY <1>1, <1>5, <2>2, <2>4, <2>6, <2>7 DEF Line, NotSent, Ahead
<1> QED
  BY <1>3, <1>4, <1>5

LEMMA ReadInLine ==
  ASSUME TypeOK, NEW k \in {1, 2}, k = rScen, Line(k), NotSent(k), Take(k),
         UNCHANGED <<rScen, sVars, transit>>
  PROVE  Line(k)' /\ NotSent(k)'
<1> DEFINE held == Len(got) + Len(queue[k].messages)
           heldNow == Len(got') + Len(queue'[k].messages)
<1>1. /\ Len(queue[k].messages) > 0 /\ Len(got') = Len(got) + 1
      /\ \A i \in 1..Len(got') : got'[i] = i
      /\ Len(queue'[k].messages) = Len(queue[k].messages) - 1
      /\ \A i \in 1..Len(queue'[k].messages) : queue'[k].messages[i] = Len(got') + i
      /\ queue'[k].state = queue[k].state /\ queue'[k].unlinked = queue[k].unlinked
  BY TakeInLine
<1>2. Len(got) \in Nat /\ Len(queue[k].messages) \in Nat
  <2>1. got \in Seq(Message) /\ queue[k].messages \in Seq(Message)
    BY DEF TypeOK, QueueRec, Scenario
  <2> QED
    BY <2>1, LenProperties
<1>3. heldNow = held
  <2>1. \A a, b \in Nat : (a + 1) + (b - 1) = a + b
    OBVIOUS
  <2> QED
    BY <1>1, <1>2, <2>1
<1>4. Known(k)' =>
        /\ k = 2 => \A i \in 1..Len(transit') : transit'[i].m = heldNow + i
        /\ sScen' = k /\ sPc' = "send" => sNext' = heldNow + Ahead(k)' + 1
  <2>1. Known(k) =>
          /\ k = 2 => \A i \in 1..Len(transit) : transit[i].m = held + i
          /\ sScen = k /\ sPc = "send" => sNext = held + Ahead(k) + 1
    BY DEF Line
  <2>2. Known(k)' => Known(k)
    BY <1>1 DEF Known
  <2> HIDE DEF held, heldNow
  <2> QED
    BY <1>3, <2>1, <2>2 DEF Ahead, sVars
<1>5. queue[k].messages # <<>>
  BY <1>1, EmptySeq
<1> QED
  BY <1>1, <1>4, <1>5 DEF Line, NotSent, sVars

LEMMA ReceiverInLine ==
  ASSUME TypeOK, Counters, Fresh, Receiver \/ RetentionExpires,
         NEW k \in {1, 2}, k = rScen, UNCHANGED rScen, Line(k), NotSent(k)
  PROVE  Line(k)' /\ NotSent(k)'
<1>0. k \in Scenario /\ DOMAIN queue = Scenario /\ queue[k] \in QueueRec
  BY DEF TypeOK, Scenario
<1>1. CASE ReceiverInitialize
  <2>1. queue'[k] = NoQueue /\ (k = 2 => transit' = <<>>)
    BY <1>0, <1>1 DEF ReceiverInitialize, Fresh, Unmade, svcVars
  <2> QED
    BY <1>1, <2>1 DEF Line, NotSent, ReceiverInitialize, Known, NoQueue
<1>2. CASE QueueOpen
  <2>1. /\ queue[k] = NoQueue /\ got = <<>> /\ (k = 2 => transit = <<>>)
        /\ sScen = k /\ sPc = "send" => sNext = 1
    BY <1>0, <1>2 DEF QueueOpen, Counters, Fresh, Unmade
  <2>2. queue'[k].messages = <<>>
    BY <1>0, <1>2, <2>1 DEF QueueOpen, Opened, NoQueue
  <2>3. got' = <<>> /\ transit' = transit /\ UNCHANGED <<sScen, sPc, sNext>>
    BY <1>2, <2>1 DEF QueueOpen, sVars
  <2>4. sScen' = k /\ sPc' = "send" => sNext' = Len(got') + Len(queue'[k].messages) + Ahead(k)' + 1
    BY <2>1, <2>2, <2>3 DEF Ahead
  <2> QED
    BY <2>1, <2>2, <2>3, <2>4 DEF Line, NotSent
<1>3. CASE RetentionTimeSet \/ ReadyKey \/ SelectionObjectGet \/ Interrupted \/ MessageReply
  BY <1>3, LineKept DEF RetentionTimeSet, ReadyKey, SelectionObjectGet, Interrupted,
     MessageReply, Goes, sVars, svcVars, Known
<1>4. CASE MessageGet
  <2>1. CASE Take(rScen)
    BY <1>4, <2>1, ReadInLine DEF MessageGet
  <2>2. CASE UNCHANGED <<got, queue>>
    BY <1>4, <2>2, LineKept DEF MessageGet, sVars, Known
  <2> QED
    BY <1>4, <2>1, <2>2 DEF MessageGet
<1>5. CASE Dispatch
  <2>1. CASE Take(2)
    <3>1. CASE k = 2
      BY <1>5, <2>1, <3>1, ReadInLine DEF Dispatch
    <3>2. CASE k = 1
      <4>1. queue[2] = NoQueue
        BY <3>2 DEF Fresh, Unmade, Scenario
      <4>2. Len(queue[2].messages) = 0
        BY <4>1, EmptySeq DEF NoQueue
      <4> QED
        BY <2>1, <4>2 DEF Take
    <3> QED
      BY <3>1, <3>2
  <2>2. CASE UNCHANGED <<got, queue>>
    BY <1>5, <2>2, LineKept DEF Dispatch, sVars, Known
  <2> QED
    BY <1>5, <2>1, <2>2 DEF Dispatch
<1>6. CASE PollFails \/ QueueClose \/ QueueUnlink \/ ReceiverFinalize \/ RetentionExpires
  <2>1. queue'[k] \in {queue[k], Closed(queue[k]), Unlinked(queue[k]), NoQueue}
    BY <1>0, <1>6 DEF PollFails, ClosedAll, QueueClose, QueueUnlink, ReceiverFinalize,
       RetentionExpires
  <2>2. /\ queue'[k].messages \in {queue[k].messages, <<>>}
        /\ Known(k)' => Known(k) /\ queue'[k].messages = queue[k].messages
    BY <1>0, <2>1, ClosingKeeps DEF Known
  <2>3. /\ UNCHANGED <<got, transit, sScen, sPc, sNext>>
        /\ rPc' # "init" => rPc # "init"
    BY <1>6 DEF PollFails, QueueClose, QueueUnlink, ReceiverFinalize, RetentionExpires,
       sVars, rVars
  <2> QED
    BY <2>2, <2>3, LineKept
<1>7. CASE ReceiverKey
  BY <1>7 DEF ReceiverKey, TypeOK, Scenario
<1> QED
  BY <1>1, <1>2, <1>3, <1>4, <1>5, <1>6, <1>7 DEF Receiver

LEMMA InLineStep ==
  ASSUME TypeOK, Counters, Fresh, InLine, [Next]_vars
  PROVE  InLine'
<1> SUFFICES ASSUME NEW k \in {1, 2}, k = rScen' PROVE Line(k)' /\ NotSent(k)'
  BY DEF InLine
<1>1. CASE ~UNCHANGED rScen
  <2>1. ReceiverKey
    BY <1>1 DEF Next, Sender, Thread, Receiver, SenderInitialize, MessageSend,
       MessageSendAsync, MessageSendReceive, ReplyReceived, ReplyTimeout,
       SenderFinalize, SenderKey, ThreadStart, ThreadExit, ReceiverInitialize,
       QueueOpen, RetentionTimeSet, ReadyKey, MessageGet, SelectionObjectGet,
       Interrupted, Dispatch, PollFails, MessageReply, QueueClose, QueueUnlink,
       ReceiverFinalize, Deliver, RetentionExpires, Goes, Turn, vars, rVars
  <2>2. /\ k = 2 /\ rScen = 1 /\ rPc' = "init"
        /\ queue' = [queue EXCEPT ![1] = Emptied(@)]
        /\ UNCHANGED <<got, transit>>
    BY <1>1, <2>1 DEF ReceiverKey, TypeOK, Scenario
  <2>3. queue[2] = NoQueue /\ transit = <<>>
    BY <2>2 DEF Fresh, Unmade, Scenario
  <2>4. queue'[2] = NoQueue
    BY <2>2, <2>3 DEF TypeOK, Scenario
  <2>5. \A i \in 1..Len(got') : got'[i] = i
    BY <2>2 DEF InLine, Line
  <2> QED
    BY <2>2, <2>3, <2>4, <2>5 DEF Line, NotSent, Known, NoQueue
<1>2. CASE UNCHANGED rScen
  <2>1. Line(k) /\ NotSent(k)
    BY <1>2 DEF InLine
  <2>2. CASE UNCHANGED vars
    BY <2>1, <2>2, LineKept DEF vars, sVars, rVars, svcVars, Known
  <2>3. CASE Next
    BY <1>2, <2>1, <2>3, SenderInLine, DeliverInLine, ReceiverInLine DEF Next
  <2> QED
    BY <2>2, <2>3
<1> QED
  BY <1>1, <1>2

----------------------------------------------------------------------------
LEMMA InitInv == Init => IInv
<1> SUFFICES ASSUME Init PROVE IInv
  OBVIOUS
<1>1. <<>> \in Seq(Message) /\ <<>> \in Seq(Sending) /\ Len(<<>>) = 0
  BY EmptySeq
<1>2. NoQueue \in QueueRec
  BY <1>1 DEF NoQueue, QueueRec
<1>3. TypeOK
  <2>1. excused \in BOOLEAN /\ reply \in BOOLEAN
    BY Zenon DEF Init
  <2>2. got \in Seq(Message) /\ transit \in Seq(Sending)
    BY <1>1 DEF Init
  <2>3. queue \in [Scenario -> QueueRec]
    BY <1>2 DEF Init
  <2>4. /\ sScen \in Scenario /\ sPc \in SenderPc /\ sNext \in 1..(NUM_MESSAGES_SENT + 1)
        /\ rScen \in Scenario /\ rPc \in ReceiverPc /\ rNext \in 1..(NUM_MESSAGES_SENT + 1)
        /\ thread \in {"none", "start", "poll"} /\ due \in Nat
    BY MsgDemoAssumption DEF Init, Scenario, SenderPc, ReceiverPc
  <2> QED
    BY <2>1, <2>2, <2>3, <2>4 DEF TypeOK
<1>4. Counters /\ Unlinking
  <2>1. sPc = "init" /\ rPc = "init"
    BY DEF Init
  <2> QED
    BY <2>1 DEF Counters, Unlinking
<1>5. Fresh
  <2>1. /\ transit = <<>> /\ sPc = "init"
        /\ \A k \in Scenario : queue[k] = NoQueue
    BY DEF Init
  <2> QED
    BY <2>1 DEF Fresh
<1>6. InLine
  BY <1>1 DEF Init, InLine, Line, NotSent, Known, NoQueue, Scenario
<1> QED
  BY <1>3, <1>4, <1>5, <1>6 DEF IInv

LEMMA StepInv == IInv /\ [Next]_vars => IInv'
BY TypeStep, CountersStep, FreshStep, InLineStep, UnlinkingStep DEF IInv

LEMMA Invariance == Spec => []IInv
BY InitInv, StepInv, PTL DEF Spec

(****************************************************************************)
(* The counters of both loops, the queues and the handles stay what their   *)
(* types say: no loop runs past its last message.                           *)
(****************************************************************************)
THEOREM TypeCorrect == Spec => []TypeOK
<1>1. IInv => TypeOK
  BY DEF IInv
<1> QED
  BY <1>1, Invariance, PTL

(****************************************************************************)
(* The i-th message read in the first two scenarios is the i-th one sent,   *)
(* whatever fails: Line says so of what was read.                           *)
(****************************************************************************)
THEOREM InOrder == Spec => []ReceivedInOrder
<1>1. IInv => ReceivedInOrder
  BY DEF IInv, InLine, Line, ReceivedInOrder
<1> QED
  BY <1>1, Invariance, PTL

(****************************************************************************)
(* The receiver leaves no queue behind unless one of four calls failed.     *)
(****************************************************************************)
THEOREM Removed == Spec => []QueuesRemoved
<1>1. IInv => QueuesRemoved
  BY DEF IInv, Unlinking, QueuesRemoved
<1> QED
  BY <1>1, Invariance, PTL

=============================================================================
