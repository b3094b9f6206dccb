--------------------------- MODULE EventFateProofs ---------------------------
(***************************************************************************)
(* What becomes of the messages of sub_channel, for every set of events    *)
(* and every bound: each event has one fate, each loss leaves one stray    *)
(* signal, the first subscription is clean, and IpcSession implements      *)
(* EventFeed.                                                              *)
(***************************************************************************)
EXTENDS IpcSessionProofs, FiniteSetTheorems

\* The parts of a queue and of a signal history that the theorems count.
EventsIn(q) == {q[i].id : i \in {j \in 1..Len(q) : q[j].kind = "event"}}
RepliesIn(q) == {i \in 1..Len(q) : q[i].kind = "reply"}
ChangesIn(s) == {s[i].id : i \in {j \in 1..Len(s) : s[j].change}}
StraysIn(s) == {i \in 1..Len(s) : s[i].signal # "ipc_shutdown" /\ ~s[i].change}

\* The events of a queue, and of the history, are in the order of their numbers.
QueueAscends(q) ==
    \A i, j \in 1..Len(q) :
        i < j /\ q[i].kind = "event" /\ q[j].kind = "event" => q[i].id < q[j].id
HistoryAscends(s) ==
    \A i, j \in 1..Len(s) : i < j /\ s[i].change /\ s[j].change => s[i].id < s[j].id

-----------------------------------------------------------------------------
(* Queues and histories.                                                   *)

\* A message written behind the others adds its event, if it is one.
LEMMA EventsAppended ==
    ASSUME NEW q \in Seq(Message), NEW m \in Message
    PROVE  EventsIn(Append(q, m)) =
               IF m.kind = "event" THEN EventsIn(q) \cup {m.id} ELSE EventsIn(q)
<1> DEFINE longer == Append(q, m)
<1>1. /\ Len(longer) = Len(q) + 1 /\ Len(q) \in Nat
      /\ longer[Len(longer)] = m
      /\ \A i \in 1..Len(q) : longer[i] = q[i]
  OBVIOUS
<1> HIDE DEF longer
<1>2. \A i : i \in 1..Len(longer) <=> i \in 1..Len(q) \/ i = Len(longer)
  BY <1>1
<1>3. Len(longer) \notin 1..Len(q)
  BY <1>1
<1> QED
  BY <1>1, <1>2, <1>3 DEF EventsIn, longer

\* The first message of a queue takes its event, if it is one, from the rest.
LEMMA EventsTaken ==
    ASSUME NEW q \in Seq(Message), q # <<>>
    PROVE  EventsIn(q) = IF Head(q).kind = "event"
                         THEN EventsIn(Tail(q)) \cup {Head(q).id}
                         ELSE EventsIn(Tail(q))
<1> DEFINE t == Tail(q)
           h == Head(q)
<1>1. /\ Len(q) \in Nat /\ Len(t) = Len(q) - 1 /\ Len(t) \in Nat
      /\ h = q[1] /\ 1 \in 1..Len(q)
      /\ \A i \in 1..Len(t) : t[i] = q[i + 1]
  OBVIOUS
<1> HIDE DEF t, h
<1>2. ASSUME NEW x \in EventsIn(q)
      PROVE  x \in EventsIn(t) \/ (h.kind = "event" /\ x = h.id)
  <2>1. PICK i \in 1..Len(q) : q[i].kind = "event" /\ x = q[i].id
    BY <1>2 DEF EventsIn
  <2>2. CASE i = 1
    BY <2>1, <2>2, <1>1
  <2>3. CASE i # 1
    <3>1. i - 1 \in 1..Len(t) /\ t[i - 1] = q[i]
      BY <2>3, <1>1
    <3> QED
      BY <2>1, <3>1 DEF EventsIn
  <2> QED
    BY <2>2, <2>3
<1>3. ASSUME NEW x \in EventsIn(t) PROVE x \in EventsIn(q)
  <2>1. PICK i \in 1..Len(t) : t[i].kind = "event" /\ x = t[i].id
    BY <1>3 DEF EventsIn
  <2>2. i + 1 \in 1..Len(q) /\ q[i + 1] = t[i]
    BY <1>1
  <2> QED
    BY <2>1, <2>2 DEF EventsIn
<1>4. h.kind = "event" => h.id \in EventsIn(q)
  BY <1>1 DEF EventsIn
<1> QED
  BY <1>2, <1>3, <1>4 DEF t, h

\* The number of replies in a queue grows with a reply written.
LEMMA RepliesAppended ==
    ASSUME NEW q \in Seq(Message), NEW m \in Message
    PROVE  /\ IsFiniteSet(RepliesIn(q)) /\ Cardinality(RepliesIn(q)) \in Nat
           /\ Cardinality(RepliesIn(Append(q, m))) =
                  Cardinality(RepliesIn(q)) + (IF m.kind = "reply" THEN 1 ELSE 0)
<1> DEFINE longer == Append(q, m)
<1>1. /\ Len(longer) = Len(q) + 1 /\ Len(q) \in Nat
      /\ longer[Len(longer)] = m
      /\ \A i \in 1..Len(q) : longer[i] = q[i]
  OBVIOUS
<1> HIDE DEF longer
<1>2. IsFiniteSet(RepliesIn(q)) /\ Cardinality(RepliesIn(q)) \in Nat
  <2>1. IsFiniteSet(1..Len(q))
    BY <1>1, FS_Interval
  <2>2. RepliesIn(q) \in SUBSET (1..Len(q))
    BY DEF RepliesIn
  <2> QED
    BY <2>1, <2>2, FS_Subset, FS_CardinalityType
<1>3. RepliesIn(longer) =
          IF m.kind = "reply" THEN RepliesIn(q) \cup {Len(longer)} ELSE RepliesIn(q)
  BY <1>1 DEF RepliesIn
<1>4. Len(longer) \notin RepliesIn(q)
  BY <1>1 DEF RepliesIn
<1>5. Cardinality(RepliesIn(q) \cup {Len(longer)}) = Cardinality(RepliesIn(q)) + 1
  BY <1>2, <1>4, FS_AddElement
<1> QED
  BY <1>2, <1>3, <1>5 DEF longer

\* The number of replies in a queue shrinks with a reply taken.
LEMMA RepliesTaken ==
    ASSUME NEW q \in Seq(Message), q # <<>>
    PROVE  Cardinality(RepliesIn(Tail(q))) =
               Cardinality(RepliesIn(q)) - (IF Head(q).kind = "reply" THEN 1 ELSE 0)
<1> DEFINE t == Tail(q)
           h == Head(q)
           R == RepliesIn(t)
           S == RepliesIn(q) \ {1}
           f == [i \in R |-> i + 1]
<1>1. /\ Len(q) \in Nat /\ Len(t) = Len(q) - 1 /\ Len(t) \in Nat
      /\ h = q[1] /\ 1 \in 1..Len(q)
      /\ \A i \in 1..Len(t) : t[i] = q[i + 1]
  OBVIOUS
<1> HIDE DEF t, h
<1>2. IsFiniteSet(RepliesIn(q)) /\ Cardinality(RepliesIn(q)) \in Nat /\ IsFiniteSet(R)
  <2>1. IsFiniteSet(1..Len(q)) /\ IsFiniteSet(1..Len(t))
    BY <1>1, FS_Interval
  <2>2. RepliesIn(q) \in SUBSET (1..Len(q)) /\ R \in SUBSET (1..Len(t))
    BY DEF RepliesIn
  <2> QED
    BY <2>1, <2>2, FS_Subset, FS_CardinalityType
<1>3. f \in Bijection(R, S)
  <2>1. \A i \in R : i \in 1..Len(t) /\ t[i].kind = "reply"
    BY DEF RepliesIn
  <2>2. \A i \in R : i + 1 \in S
    BY <2>1, <1>1 DEF RepliesIn
  <2>3. \A k \in S : k - 1 \in R /\ (k - 1) + 1 = k
    BY <1>1 DEF RepliesIn
  <2>4. f \in [R -> S]
    BY <2>2
  <2>5. \A a, b \in R : f[a] = f[b] => a = b
    BY <2>1
  <2>6. \A k \in S : \E i \in R : f[i] = k
    BY <2>3
  <2> QED
    BY <2>4, <2>5, <2>6 DEF Bijection, Injection, Surjection, IsInjective
<1>4. Cardinality(S) = Cardinality(R)
  BY <1>2, <1>3, FS_Bijection DEF ExistsBijection
<1>5. 1 \in RepliesIn(q) <=> h.kind = "reply"
  BY <1>1 DEF RepliesIn
<1>6. Cardinality(S) = IF 1 \in RepliesIn(q) THEN Cardinality(RepliesIn(q)) - 1
                                            ELSE Cardinality(RepliesIn(q))
  BY <1>2, FS_RemoveElement
<1> QED
  BY <1>2, <1>4, <1>5, <1>6 DEF t, h

\* A signal emitted adds its event, if it is built from one, and otherwise
\* counts as a stray unless it is ipc_shutdown.
LEMMA SignalAppended ==
    ASSUME NEW s \in Seq(Signal), NEW g \in Signal
    PROVE  /\ ChangesIn(Append(s, g)) =
                  IF g.change THEN ChangesIn(s) \cup {g.id} ELSE ChangesIn(s)
           /\ IsFiniteSet(StraysIn(s)) /\ Cardinality(StraysIn(s)) \in Nat
           /\ Cardinality(StraysIn(Append(s, g))) = Cardinality(StraysIn(s))
                  + (IF g.signal # "ipc_shutdown" /\ ~g.change THEN 1 ELSE 0)
<1> DEFINE longer == Append(s, g)
           last == Len(s) + 1
<1>1. /\ Len(longer) = last /\ Len(s) \in Nat
      /\ longer[last] = g
      /\ \A i \in 1..Len(s) : longer[i] = s[i]
  OBVIOUS
<1> HIDE DEF longer
<1>2. \A i : i \in 1..Len(longer) <=> i \in 1..Len(s) \/ i = last
  BY <1>1
<1>3. last \notin 1..Len(s)
  BY <1>1
<1>4. ChangesIn(longer) = IF g.change THEN ChangesIn(s) \cup {g.id} ELSE ChangesIn(s)
  <2>1. \A x : x \in ChangesIn(longer) <=>
                   \E i \in 1..Len(longer) : longer[i].change /\ x = longer[i].id
    BY DEF ChangesIn
  <2>2. \A x : x \in ChangesIn(s) <=> \E i \in 1..Len(s) : s[i].change /\ x = s[i].id
    BY DEF ChangesIn
  <2>3. ASSUME NEW x, x \in ChangesIn(longer)
        PROVE  x \in ChangesIn(s) \/ (g.change /\ x = g.id)
    <3>1. PICK i \in 1..Len(longer) : longer[i].change /\ x = longer[i].id
      BY <2>1, <2>3
    <3>2. CASE i \in 1..Len(s)
      <4>1. longer[i] = s[i]
        BY <1>1, <3>2
      <4> QED
        BY <2>2, <3>1, <3>2, <4>1, Zenon
    <3>3. CASE i = last
      BY <1>1, <3>1, <3>3, Zenon
    <3> QED
      BY <1>2, <3>2, <3>3
  <2>4. ASSUME NEW x, x \in ChangesIn(s) PROVE x \in ChangesIn(longer)
    <3>1. PICK i \in 1..Len(s) : s[i].change /\ x = s[i].id
      BY <2>2, <2>4
    <3>2. i \in 1..Len(longer) /\ longer[i] = s[i]
      BY <1>1, <1>2
    <3> QED
      BY <2>1, <3>1, <3>2, Zenon
  <2>5. g.change => g.id \in ChangesIn(longer)
    BY <1>1, <1>2, <2>1, Zenon
  <2> QED
    BY <2>3, <2>4, <2>5, Zenon
<1>5. IsFiniteSet(StraysIn(s)) /\ Cardinality(StraysIn(s)) \in Nat
  <2>1. IsFiniteSet(1..Len(s))
    BY <1>1, FS_Interval
  <2>2. StraysIn(s) \in SUBSET (1..Len(s))
    BY DEF StraysIn
  <2> QED
    BY <2>1, <2>2, FS_Subset, FS_CardinalityType
<1>6. StraysIn(longer) = IF g.signal # "ipc_shutdown" /\ ~g.change
                         THEN StraysIn(s) \cup {last} ELSE StraysIn(s)
  <2>1. \A x : x \in StraysIn(longer) <=>
            \/ x \in StraysIn(s)
            \/ x = last /\ g.signal # "ipc_shutdown" /\ ~g.change
    BY <1>1, <1>2, Zenon DEF StraysIn
  <2> QED
    BY <2>1, Zenon
<1>7. last \notin StraysIn(s)
  BY <1>3 DEF StraysIn
<1>8. Cardinality(StraysIn(s) \cup {last}) = Cardinality(StraysIn(s)) + 1
  BY <1>5, <1>7, FS_AddElement
<1> QED
  BY <1>4, <1>5, <1>6, <1>8 DEF longer

-----------------------------------------------------------------------------
(* What the steps of IpcSession do to sub_channel.  Every step is of one   *)
(* of these kinds.                                                         *)

queue == fromI3["sub"]

\* The calls that wait on sub_channel, less the requests i3 has not read there.
Balance == Waiting - Len(toI3["sub"])

\* Nothing is written or taken; a call that waits may give up at the end of
\* the stream, leaving its request unread.
Kept ==
    /\ UNCHANGED <<queue, signals, swallowed, published, alive, watch>>
    /\ Balance' = Balance \/ (~alive /\ queue = <<>>)

Exited ==
    /\ alive /\ alive' = FALSE
    /\ UNCHANGED <<queue, signals, swallowed, published, watch, Balance>>

Published ==
    /\ alive
    /\ published' = published + 1
    /\ \E e \in Events : queue' = Append(queue, EventMessage(e, published'))
    /\ UNCHANGED <<signals, swallowed, alive, watch, Balance>>

Replied ==
    /\ alive
    /\ \E n \in Nat : queue' = Append(queue, ReplyMessage("sub", n))
    /\ Balance' = Balance + 1
    /\ UNCHANGED <<signals, swallowed, published, alive, watch>>

Signalled ==
    /\ watch
    /\ queue # <<>> /\ queue' = Tail(queue)
    /\ \E g \in Signal :
          /\ g.signal # "ipc_shutdown"
          /\ g.change = (Head(queue).kind = "event")
          /\ g.id = Head(queue).id
          /\ signals' = Append(signals, g)
    /\ Balance <= 0
    /\ UNCHANGED <<swallowed, published, alive, watch, Balance>>

Taken ==
    /\ queue # <<>> /\ queue' = Tail(queue)
    /\ swallowed' = IF Head(queue).kind = "event" THEN swallowed \cup {Head(queue)}
                                                  ELSE swallowed
    /\ Balance' = Balance - 1
    /\ UNCHANGED <<signals, published, alive, watch>>

Announced ==
    /\ watch /\ ~alive /\ queue = <<>>
    /\ watch' = FALSE
    /\ signals' = Append(signals, [signal |-> "ipc_shutdown", change |-> FALSE, id |-> 0])
    /\ UNCHANGED <<queue, swallowed, published, alive, Balance>>

Effect == Kept \/ Exited \/ Published \/ Replied \/ Signalled \/ Taken \/ Announced

\* A request on sub_channel makes one more call wait and one more request
\* unread; one on cmd_channel does neither.
LEMMA EffectOfMessage ==
    ASSUME TypeOK, NEW op \in {"command", "subscribe", "on"},
           NEW events \in SUBSET Events, i3ipc_connection_message(op, events)
    PROVE  Kept
<1> DEFINE n == requests[ChannelOf(op)] + 1
           request == [id |-> n, events |-> NewEvents(events)]
<1>1. UNCHANGED <<queue, signals, swallowed, published, alive, watch>>
  BY DEF i3ipc_connection_message, i3Vars, queue
<1>2. Waiting = 0 /\ toI3["sub"] \in Seq(Request)
  BY DEF i3ipc_connection_message, Idle, NoCall, Waiting, TypeOK, Channel
<1>3. CASE alive
  <2>1. /\ toI3' = [toI3 EXCEPT ![ChannelOf(op)] = Append(@, request)]
        /\ call'.op = op
    BY <1>3 DEF i3ipc_connection_message, Flushed
  <2>2. CASE op = "command"
    <3>1. ChannelOf(op) = "cmd"
      BY <2>2 DEF ChannelOf, MessageNumber
    <3>2. toI3'["sub"] = toI3["sub"] /\ Waiting' = 0
      BY <2>1, <2>2, <3>1 DEF TypeOK, Channel, Waiting
    <3> QED
      BY <1>1, <1>2, <3>2 DEF Kept, Balance
  <2>3. CASE op # "command"
    <3>1. ChannelOf(op) = "sub"
      BY <2>3 DEF ChannelOf, MessageNumber
    <3>2. toI3'["sub"] = Append(toI3["sub"], request) /\ Waiting' = 1
      BY <2>1, <2>3, <3>1 DEF TypeOK, Channel, Waiting
    <3>3. Len(toI3'["sub"]) = Len(toI3["sub"]) + 1 /\ Len(toI3["sub"]) \in Nat
      BY <1>2, <3>2
    <3>4. Balance' = Balance
      BY <1>2, <3>2, <3>3 DEF Balance
    <3> QED
      BY <1>1, <3>4 DEF Kept
  <2> QED
    BY <2>2, <2>3
<1>4. CASE ~alive
  BY <1>1, <1>4 DEF i3ipc_connection_message, Kept, Balance, Waiting
<1> QED
  BY <1>3, <1>4 DEF TypeOK

\* A call takes the first message of its channel: of cmd_channel, an answer;
\* of sub_channel, whatever is there.
LEMMA EffectOfReply == ASSUME TypeOK, CommandInv, ReceiveReply PROVE Effect
<1> DEFINE c == ChannelOf(call.op)
<1>1. /\ Waiting' = 0 /\ Len(toI3["sub"]) \in Nat
      /\ UNCHANGED <<signals, published, alive, watch, toI3>>
  BY DEF ReceiveReply, NoCall, Waiting, i3Vars, TypeOK, Channel
<1>2. CASE call.op = "command"
  <2>1. c = "cmd"
    BY <1>2 DEF ChannelOf, MessageNumber
  <2>2. fromI3["cmd"] = <<ReplyMessage("cmd", call.id)>>
    BY <1>2, <2>1 DEF ReceiveReply, HasMessage, CommandInv, CommandChannelExclusive
  <2>3. Head(fromI3["cmd"]).kind = "reply"
    BY <2>2 DEF ReplyMessage
  <2>4. swallowed' = swallowed /\ queue' = queue
    BY <2>1, <2>3 DEF ReceiveReply, Take, TypeOK, Channel, queue
  <2>5. Waiting = 0
    BY <1>2 DEF Waiting
  <2> QED
    BY <1>1, <2>4, <2>5 DEF Effect, Kept, Balance
<1>3. CASE call.op # "command"
  <2>1. fromI3["cmd"] = <<>>
    BY <1>3 DEF CommandInv, CommandChannelExclusive
  <2>2. c = "sub"
    BY <2>1 DEF ReceiveReply, HasMessage, ChannelOf
  <2>3. call.op \in {"subscribe", "on"}
    BY <1>3 DEF ReceiveReply, TypeOK, Call
  <2> QED
    BY <1>1, <2>2, <2>3
       DEF ReceiveReply, HasMessage, Take, TypeOK, Channel, queue, Effect, Taken,
           Balance, Waiting
<1> QED
  BY <1>2, <1>3

\* ipc_on_data emits one signal for a message, named by its type alone.
LEMMA EffectOfDispatch == ASSUME TypeOK, DispatchMessage PROVE Signalled
<1> DEFINE m == Head(queue)
           g == [signal |-> SignalOf(m.number), change |-> m.kind = "event", id |-> m.id]
<1>1. queue \in Seq(Message) /\ queue # <<>>
  BY DEF DispatchMessage, HasMessage, TypeOK, Channel, queue
<1>2. m \in Message
  BY <1>1
<1>3. SignalOf(m.number) \in EventName /\ m.id \in Nat /\ (m.kind = "event") \in BOOLEAN
  BY <1>2, SignalOfType DEF Message
<1>4. g \in Signal
  BY <1>3 DEF Signal
<1>5. g.signal # "ipc_shutdown"
  <2>1. "ipc_shutdown" \notin EventName
    BY DEF EventName, EventNumber
  <2> QED
    BY <1>3, <2>1
<1>6. signals' = signals \o <<g>> /\ signals \in Seq(Signal)
  BY DEF DispatchMessage, Emission, TypeOK, queue
<1>7. signals' = Append(signals, g)
  BY <1>4, <1>6
<1>8. queue' = Tail(queue)
  BY DEF DispatchMessage, Take, TypeOK, Channel, queue
<1>9. /\ watch
      /\ UNCHANGED <<swallowed, published, alive, watch, Balance>>
  BY DEF DispatchMessage, InMainLoop, i3Vars, Balance, Waiting
<1>10. g.change = (m.kind = "event") /\ g.id = m.id
  OBVIOUS
<1>11. Balance <= 0
  <2>1. Waiting = 0 /\ Len(toI3["sub"]) \in Nat
    BY DEF DispatchMessage, InMainLoop, Idle, NoCall, Waiting, TypeOK, Channel
  <2> QED
    BY <2>1 DEF Balance
<1> QED
  BY <1>1, <1>4, <1>5, <1>7, <1>8, <1>9, <1>10, <1>11 DEF Signalled

\* What i3 does to sub_channel.
LEMMA EffectOfI3 ==
    ASSUME TypeOK,
           (\E c \in Channel : I3Answer(c)) \/ (\E e \in Events : I3Publish(e)) \/ I3Exit
    PROVE  Effect
<1>1. ASSUME NEW c \in Channel, I3Answer(c) PROVE Effect
  <2>1. UNCHANGED <<signals, swallowed, published, alive, watch, call>> /\ alive
    BY <1>1 DEF I3Answer, clientVars
  <2>2. Waiting' = Waiting /\ Waiting \in {0, 1}
    BY <2>1 DEF Waiting
  <2>3. CASE c = "sub"
    <3>1. toI3["sub"] \in Seq(Request) /\ toI3["sub"] # <<>>
      BY <1>1, <2>3 DEF I3Answer, TypeOK
    <3>2. Head(toI3["sub"]) \in Request
      BY <3>1
    <3>3. Head(toI3["sub"]).id \in Nat
      BY <3>2 DEF Request
    <3>4. toI3'["sub"] = Tail(toI3["sub"])
      BY <1>1, <2>3 DEF I3Answer, TypeOK
    <3>5. Len(toI3'["sub"]) = Len(toI3["sub"]) - 1 /\ Len(toI3["sub"]) \in Nat
      BY <3>1, <3>4
    <3>6. queue' = Append(queue, ReplyMessage("sub", Head(toI3["sub"]).id))
      BY <1>1, <2>3 DEF I3Answer, TypeOK, queue
    <3>7. Balance' = Balance + 1
      BY <2>2, <3>5 DEF Balance
    <3> QED
      BY <2>1, <3>3, <3>6, <3>7 DEF Effect, Replied
  <2>4. CASE c # "sub"
    <3>1. toI3'["sub"] = toI3["sub"] /\ queue' = queue
      BY <1>1, <2>4 DEF I3Answer, TypeOK, Channel, queue
    <3> QED
      BY <2>1, <2>2, <3>1 DEF Effect, Kept, Balance
  <2> QED
    BY <2>3, <2>4
<1>2. ASSUME NEW e \in Events, I3Publish(e) PROVE Effect
  <2>1. UNCHANGED <<signals, swallowed, alive, watch, Balance>> /\ alive
    BY <1>2 DEF I3Publish, clientVars, Balance, Waiting
  <2>2. /\ published' = published + 1
        /\ queue' = Append(queue, EventMessage(e, published'))
    BY <1>2 DEF I3Publish, TypeOK, Channel, queue
  <2> QED
    BY <2>1, <2>2 DEF Effect, Published
<1>3. CASE I3Exit
  BY <1>3 DEF I3Exit, clientVars, Effect, Exited, Balance, Waiting, queue
<1> QED
  BY <1>1, <1>2, <1>3

\* Every step is of one of the kinds.
LEMMA EffectStep == TypeOK /\ CommandInv /\ [Next]_vars => Effect
<1> SUFFICES ASSUME TypeOK, CommandInv, [Next]_vars PROVE Effect
  OBVIOUS
<1>1. CASE i3ipc_connection_command
  BY <1>1, EffectOfMessage DEF i3ipc_connection_command, Effect
<1>2. ASSUME NEW op \in {"subscribe", "on"}, NEW events \in SUBSET Events,
             i3ipc_connection_message(op, events)
      PROVE  Effect
  BY <1>2, EffectOfMessage DEF Effect
<1>3. ASSUME NEW op \in {"subscribe", "on"}, NEW events, SubscribeKnown(op, events)
      PROVE  Effect
  BY <1>3 DEF SubscribeKnown, i3Vars, Effect, Kept, Balance, Waiting, queue
<1>4. CASE ReceiveReply
  BY <1>4, EffectOfReply
<1>5. CASE ReceiveEof \/ ReceiveError
  <2>1. UNCHANGED <<queue, signals, swallowed, published, alive, watch, toI3>>
    BY <1>5 DEF ReceiveEof, ReceiveError, i3Vars, queue
  <2>2. CASE call.op \in {"subscribe", "on"}
    <3>1. ChannelOf(call.op) = "sub"
      BY <2>2 DEF ChannelOf, MessageNumber
    <3>2. ~alive /\ queue = <<>>
      BY <1>5, <3>1 DEF ReceiveEof, ReceiveError, AtEof, AtReset, queue
    <3> QED
      BY <2>1, <3>2 DEF Effect, Kept
  <2>3. CASE call.op \notin {"subscribe", "on"}
    <3>0. call' = NoCall
      BY <1>5 DEF ReceiveEof, ReceiveError
    <3>1. call'.op = "none"
      BY <3>0 DEF NoCall
    <3>2. Waiting' = Waiting
      BY <2>3, <3>1 DEF Waiting
    <3> QED
      BY <2>1, <3>2 DEF Effect, Kept, Balance
  <2> QED
    BY <2>2, <2>3
<1>6. CASE DispatchMessage
  BY <1>6, EffectOfDispatch DEF Effect
<1>7. CASE DispatchEof
  BY <1>7 DEF DispatchEof, InMainLoop, AtEof, i3Vars, Effect, Announced, Balance,
              Waiting, queue
<1>8. CASE DispatchError
  BY <1>8 DEF DispatchError, i3Vars, Effect, Kept, Balance, Waiting, queue
<1>9. ASSUME (\E c \in Channel : I3Answer(c)) \/ (\E e \in Events : I3Publish(e)) \/ I3Exit
      PROVE  Effect
  BY <1>9, EffectOfI3
<1>10. CASE Halted \/ UNCHANGED vars
  BY <1>10 DEF Halted, vars, Effect, Kept, Balance, Waiting, queue
<1> QED
  BY <1>1, <1>2, <1>3, <1>4, <1>5, <1>6, <1>7, <1>8, <1>9, <1>10
     DEF Next, i3ipc_connection_subscribe, i3ipc_connection_on, SubscribeNew,
         Receive, ipc_on_data

-----------------------------------------------------------------------------
(* Each event has one fate.                                                *)

\* An event numbered above those in the queue may be written behind them.
LEMMA AscendsAppended ==
    ASSUME NEW q \in Seq(Message), QueueAscends(q), NEW m \in Message,
           m.kind = "event" => \A k \in EventsIn(q) : k < m.id
    PROVE  QueueAscends(Append(q, m))
<1> DEFINE longer == Append(q, m)
<1>1. /\ Len(longer) = Len(q) + 1 /\ Len(q) \in Nat
      /\ longer[Len(longer)] = m
      /\ \A i \in 1..Len(q) : longer[i] = q[i]
  OBVIOUS
<1> HIDE DEF longer
<1>2. SUFFICES ASSUME NEW i \in 1..Len(longer), NEW j \in 1..Len(longer), i < j,
                      longer[i].kind = "event", longer[j].kind = "event"
               PROVE  longer[i].id < longer[j].id
  BY DEF QueueAscends, longer
<1>3. i \in 1..Len(q) /\ longer[i] = q[i]
  BY <1>1, <1>2
<1>4. CASE j \in 1..Len(q)
  BY <1>1, <1>2, <1>3, <1>4 DEF QueueAscends
<1>5. CASE j = Len(longer)
  <2>1. q[i].id \in EventsIn(q)
    BY <1>2, <1>3 DEF EventsIn
  <2> QED
    BY <1>1, <1>2, <1>3, <1>5, <2>1
<1> QED
  BY <1>1, <1>4, <1>5

\* The first event of the queue is the oldest, and the rest stays in order.
LEMMA AscendsTaken ==
    ASSUME NEW q \in Seq(Message), QueueAscends(q), q # <<>>
    PROVE  /\ QueueAscends(Tail(q))
           /\ Head(q).kind = "event" => \A k \in EventsIn(Tail(q)) : Head(q).id < k
<1> DEFINE t == Tail(q)
           h == Head(q)
<1>1. /\ Len(q) \in Nat /\ Len(t) = Len(q) - 1 /\ Len(t) \in Nat
      /\ h = q[1] /\ 1 \in 1..Len(q)
      /\ \A i \in 1..Len(t) : t[i] = q[i + 1]
  OBVIOUS
<1> HIDE DEF t, h
<1>2. \A i \in 1..Len(t) : i + 1 \in 1..Len(q) /\ 1 < i + 1
  BY <1>1
<1>3. QueueAscends(t)
  <2> SUFFICES ASSUME NEW i \in 1..Len(t), NEW j \in 1..Len(t), i < j,
                      t[i].kind = "event", t[j].kind = "event"
               PROVE  t[i].id < t[j].id
    BY DEF QueueAscends
  <2>1. i + 1 < j + 1 /\ t[i] = q[i + 1] /\ t[j] = q[j + 1]
    BY <1>1
  <2> QED
    BY <1>2, <2>1 DEF QueueAscends
<1>4. ASSUME h.kind = "event", NEW k \in EventsIn(t) PROVE h.id < k
  <2>1. PICK i \in 1..Len(t) : t[i].kind = "event" /\ k = t[i].id
    BY <1>4 DEF EventsIn
  <2> QED
    BY <1>1, <1>2, <1>4, <2>1 DEF QueueAscends
<1> QED
  BY <1>3, <1>4 DEF t, h

\* An event numbered above those signalled may be signalled next.
LEMMA HistoryAppended ==
    ASSUME NEW s \in Seq(Signal), HistoryAscends(s), NEW g \in Signal,
           g.change => \A n \in ChangesIn(s) : n < g.id
    PROVE  HistoryAscends(Append(s, g))
<1> DEFINE longer == Append(s, g)
<1>1. /\ Len(longer) = Len(s) + 1 /\ Len(s) \in Nat
      /\ longer[Len(longer)] = g
      /\ \A i \in 1..Len(s) : longer[i] = s[i]
  OBVIOUS
<1> HIDE DEF longer
<1>2. SUFFICES ASSUME NEW i \in 1..Len(longer), NEW j \in 1..Len(longer), i < j,
                      longer[i].change, longer[j].change
               PROVE  longer[i].id < longer[j].id
  BY DEF HistoryAscends, longer
<1>3. i \in 1..Len(s) /\ longer[i] = s[i]
  BY <1>1, <1>2
<1>4. CASE j \in 1..Len(s)
  BY <1>1, <1>2, <1>3, <1>4 DEF HistoryAscends
<1>5. CASE j = Len(longer)
  <2>1. s[i].id \in ChangesIn(s)
    BY <1>2, <1>3 DEF ChangesIn
  <2> QED
    BY <1>1, <1>2, <1>3, <1>5, <2>1
<1> QED
  BY <1>1, <1>4, <1>5

Gone == SignalledEvents \cup SwallowedEvents

\* EventFate with what makes it inductive: the queue is in order and behind
\* all that is gone, and a number swallowed belongs to one message.
FateInv ==
    /\ QueueAscends(queue) /\ HistoryAscends(signals)
    /\ Gone \cup QueuedEvents = 1..published
    /\ SignalledEvents \cap SwallowedEvents = {}
    /\ \A n \in Gone, k \in QueuedEvents : n < k
    /\ IsFiniteSet(swallowed) /\ IsFiniteSet(SwallowedEvents)
    /\ Cardinality(SwallowedEvents) = Cardinality(swallowed)

\* The parts the properties speak of, before and after a step.
LEMMA Parts ==
    /\ QueuedEvents = EventsIn(queue) /\ QueuedEvents' = EventsIn(queue')
    /\ SignalledEvents = ChangesIn(signals) /\ SignalledEvents' = ChangesIn(signals')
    /\ QueuedReplies = RepliesIn(queue) /\ QueuedReplies' = RepliesIn(queue')
    /\ StraySignals = StraysIn(signals) /\ StraySignals' = StraysIn(signals')
BY DEF QueuedEvents, EventsIn, SignalledEvents, ChangesIn, QueuedReplies, RepliesIn,
       StraySignals, StraysIn, queue

\* The steps that touch neither the events of the queue nor their fates.
LEMMA FateUntouched ==
    ASSUME FateInv, QueueAscends(queue)', EventsIn(queue)' = EventsIn(queue),
           HistoryAscends(signals)', ChangesIn(signals)' = ChangesIn(signals),
           UNCHANGED <<swallowed, published>>
    PROVE  FateInv'
<1>1. UNCHANGED <<QueuedEvents, SignalledEvents, SwallowedEvents>>
  BY Parts DEF SwallowedEvents
<1> QED
  BY <1>1 DEF FateInv, Gone

\* An event i3 sends is the youngest.
LEMMA FatePublished == ASSUME TypeOK, FateInv, Published PROVE FateInv'
<1>1. PICK e \in Events : queue' = Append(queue, EventMessage(e, published'))
  BY DEF Published
<1> DEFINE m == EventMessage(e, published')
<1>2. published \in Nat /\ published' = published + 1 /\ queue \in Seq(Message)
  BY DEF Published, TypeOK, Channel, queue
<1>3. m \in Message /\ m.kind = "event" /\ m.id = published'
  <2>1. m \in Message
    BY <1>2, MessagesTyped
  <2> QED
    BY <2>1 DEF EventMessage
<1> HIDE DEF m
<1>4. UNCHANGED <<SignalledEvents, SwallowedEvents, signals, swallowed>>
  BY DEF Published, SignalledEvents, SwallowedEvents
<1>5. QueuedEvents' = QueuedEvents \cup {published'}
  BY <1>1, <1>2, <1>3, EventsAppended, Parts DEF m
<1>6. \A n \in Gone \cup QueuedEvents : n < published'
  BY <1>2 DEF FateInv
<1>7. QueueAscends(queue)'
  BY <1>1, <1>2, <1>3, <1>6, AscendsAppended, Parts DEF FateInv, m
<1>8. Gone' = Gone /\ (Gone \cup QueuedEvents)' = 1..published'
  BY <1>2, <1>4, <1>5 DEF FateInv, Gone
<1>9. \A n \in Gone', k \in QueuedEvents' : n < k
  BY <1>5, <1>6, <1>8 DEF FateInv
<1> QED
  BY <1>4, <1>7, <1>8, <1>9 DEF FateInv

\* What taking the first message of the queue does to the events in it.
LEMMA QueueTaken ==
    ASSUME TypeOK, FateInv, queue # <<>>, queue' = Tail(queue)
    PROVE  /\ Head(queue) \in Message
           /\ QueueAscends(queue)'
           /\ Head(queue).kind # "event" => QueuedEvents' = QueuedEvents
           /\ Head(queue).kind = "event" =>
                  /\ QueuedEvents = QueuedEvents' \cup {Head(queue).id}
                  /\ \A k \in QueuedEvents' : Head(queue).id < k
                  /\ \A n \in Gone : n < Head(queue).id
                  /\ Head(queue).id \notin Gone \cup QueuedEvents'
<1>1. queue \in Seq(Message)
  BY DEF TypeOK, Channel, queue
<1>2. Head(queue) \in Message
  BY <1>1
<1>3. Head(queue).id \in Nat
  BY <1>2 DEF Message
<1>4. QueueAscends(queue)
  BY DEF FateInv
<1>5. /\ QueueAscends(Tail(queue))
      /\ Head(queue).kind = "event" => \A k \in EventsIn(Tail(queue)) : Head(queue).id < k
  BY <1>1, <1>4, AscendsTaken
<1>6. EventsIn(queue) = IF Head(queue).kind = "event"
                        THEN EventsIn(Tail(queue)) \cup {Head(queue).id}
                        ELSE EventsIn(Tail(queue))
  BY <1>1, EventsTaken
<1>7. QueuedEvents' = EventsIn(Tail(queue)) /\ QueuedEvents = EventsIn(queue)
  BY Parts
<1>8. Head(queue).kind = "event" => \A n \in Gone : n < Head(queue).id
  BY <1>6, <1>7 DEF FateInv
<1>9. Head(queue).kind = "event" => Head(queue).id \notin Gone \cup QueuedEvents'
  BY <1>3, <1>5, <1>7, <1>8
<1> QED
  BY <1>2, <1>5, <1>6, <1>7, <1>8, <1>9

\* ipc_on_data signals the oldest event of the queue, or none.
LEMMA FateSignalled == ASSUME TypeOK, FateInv, Signalled PROVE FateInv'
<1>1. PICK g \in Signal : /\ g.change = (Head(queue).kind = "event")
                          /\ g.id = Head(queue).id
                          /\ signals' = Append(signals, g)
  BY DEF Signalled
<1>2. queue # <<>> /\ queue' = Tail(queue) /\ UNCHANGED <<swallowed, published>>
  BY DEF Signalled
<1>3. signals \in Seq(Signal) /\ HistoryAscends(signals)
  BY DEF TypeOK, FateInv
<1>4. SwallowedEvents' = SwallowedEvents
  BY <1>2 DEF SwallowedEvents
<1>5. CASE Head(queue).kind = "event"
  <2>1. g.change
    BY <1>1, <1>5, Zenon
  <2>2. SignalledEvents' = SignalledEvents \cup {g.id}
    BY <1>1, <1>3, <2>1, SignalAppended, Parts
  <2>3. \A n \in ChangesIn(signals) : n < g.id
    BY <1>1, <1>2, <1>5, QueueTaken, Parts DEF Gone
  <2>4. HistoryAscends(signals)'
    BY <1>1, <1>3, <2>3, HistoryAppended
  <2>5. /\ QueueAscends(queue)'
        /\ QueuedEvents = QueuedEvents' \cup {g.id}
        /\ \A k \in QueuedEvents' : g.id < k
        /\ g.id \notin Gone \cup QueuedEvents'
    BY <1>1, <1>2, <1>5, QueueTaken
  <2>6. Gone' = Gone \cup {g.id}
    BY <1>4, <2>2 DEF Gone
  <2>7. \A n \in Gone', k \in QueuedEvents' : n < k
    BY <2>5, <2>6 DEF FateInv
  <2>8. (Gone \cup QueuedEvents)' = 1..published'
    BY <1>2, <2>5, <2>6 DEF FateInv
  <2>9. SignalledEvents' \cap SwallowedEvents' = {}
    BY <1>4, <2>2, <2>5 DEF FateInv, Gone
  <2> QED
    BY <1>2, <1>4, <2>4, <2>5, <2>7, <2>8, <2>9 DEF FateInv
<1>6. CASE Head(queue).kind # "event"
  <2>1. ~g.change
    BY <1>1, <1>6, Zenon
  <2>2. ChangesIn(signals)' = ChangesIn(signals)
    BY <1>1, <1>3, <2>1, SignalAppended
  <2>3. HistoryAscends(signals)'
    BY <1>1, <1>3, <2>1, HistoryAppended
  <2>4. QueueAscends(queue)' /\ EventsIn(queue)' = EventsIn(queue)
    BY <1>2, <1>6, QueueTaken, Parts
  <2> QED
    BY <1>2, <2>2, <2>3, <2>4, FateUntouched
<1> QED
  BY <1>5, <1>6

\* A call takes the oldest event of the queue, or none.
LEMMA FateTaken == ASSUME TypeOK, FateInv, Taken PROVE FateInv'
<1> DEFINE m == Head(queue)
<1>1. queue # <<>> /\ queue' = Tail(queue) /\ UNCHANGED <<signals, published>>
  BY DEF Taken
<1>2. SignalledEvents' = SignalledEvents
  BY <1>1 DEF SignalledEvents
<1>3. CASE m.kind = "event"
  <2>1. swallowed' = swallowed \cup {m}
    BY <1>3 DEF Taken
  <2>2. SwallowedEvents' = SwallowedEvents \cup {m.id}
    BY <2>1 DEF SwallowedEvents
  <2>3. /\ QueueAscends(queue)'
        /\ QueuedEvents = QueuedEvents' \cup {m.id}
        /\ \A k \in QueuedEvents' : m.id < k
        /\ m.id \notin Gone \cup QueuedEvents'
    BY <1>1, <1>3, QueueTaken
  <2>4. Gone' = Gone \cup {m.id}
    BY <1>2, <2>2 DEF Gone
  <2>5. \A n \in Gone', k \in QueuedEvents' : n < k
    BY <2>3, <2>4 DEF FateInv
  <2>6. (Gone \cup QueuedEvents)' = 1..published'
    BY <1>1, <2>3, <2>4 DEF FateInv
  <2>7. SignalledEvents' \cap SwallowedEvents' = {}
    BY <1>2, <2>2, <2>3 DEF FateInv, Gone
  <2>8. m \notin swallowed /\ m.id \notin SwallowedEvents
    BY <2>3 DEF Gone, SwallowedEvents
  <2>9. /\ IsFiniteSet(swallowed') /\ IsFiniteSet(SwallowedEvents')
        /\ Cardinality(SwallowedEvents') = Cardinality(swallowed')
    <3>1. IsFiniteSet(swallowed) /\ IsFiniteSet(SwallowedEvents)
      BY DEF FateInv
    <3>2. /\ IsFiniteSet(swallowed \cup {m})
          /\ Cardinality(swallowed \cup {m}) = Cardinality(swallowed) + 1
      BY <2>8, <3>1, FS_AddElement
    <3>3. /\ IsFiniteSet(SwallowedEvents \cup {m.id})
          /\ Cardinality(SwallowedEvents \cup {m.id}) = Cardinality(SwallowedEvents) + 1
      BY <2>8, <3>1, FS_AddElement
    <3>4. Cardinality(SwallowedEvents) = Cardinality(swallowed)
      BY DEF FateInv
    <3> QED
      BY <2>1, <2>2, <3>2, <3>3, <3>4
  <2> QED
    BY <1>1, <2>3, <2>5, <2>6, <2>7, <2>9 DEF FateInv
<1>4. CASE m.kind # "event"
  <2>1. swallowed' = swallowed
    BY <1>4 DEF Taken
  <2>2. QueueAscends(queue)' /\ EventsIn(queue)' = EventsIn(queue)
    BY <1>1, <1>4, QueueTaken, Parts
  <2> QED
    BY <1>1, <2>1, <2>2, FateUntouched DEF FateInv
<1> QED
  BY <1>3, <1>4

\* Every kind of step keeps FateInv.
LEMMA FateStep == TypeOK /\ FateInv /\ Effect => FateInv'
<1> SUFFICES ASSUME TypeOK, FateInv, Effect PROVE FateInv'
  OBVIOUS
<1>0. queue \in Seq(Message) /\ signals \in Seq(Signal)
  BY DEF TypeOK, Channel, queue
<1>1. CASE Kept \/ Exited
  BY <1>1, FateUntouched DEF Kept, Exited, FateInv
<1>2. CASE Published
  BY <1>2, FatePublished
<1>3. CASE Replied
  <2>1. PICK n \in Nat : queue' = Append(queue, ReplyMessage("sub", n))
    BY <1>3 DEF Replied
  <2>2. ReplyMessage("sub", n) \in Message /\ ReplyMessage("sub", n).kind = "reply"
    <3>1. ReplyMessage("sub", n) \in Message
      BY MessagesTyped DEF Channel
    <3> QED
      BY <3>1 DEF ReplyMessage
  <2>3. QueueAscends(queue)' /\ EventsIn(queue)' = EventsIn(queue)
    BY <1>0, <2>1, <2>2, AscendsAppended, EventsAppended DEF FateInv
  <2> QED
    BY <1>3, <2>3, FateUntouched DEF Replied, FateInv
<1>4. CASE Signalled
  BY <1>4, FateSignalled
<1>5. CASE Taken
  BY <1>5, FateTaken
<1>6. CASE Announced
  <2> DEFINE g == [signal |-> "ipc_shutdown", change |-> FALSE, id |-> 0]
  <2>1. g \in Signal /\ ~g.change
    BY DEF Signal
  <2>2. signals' = Append(signals, g)
    BY <1>6 DEF Announced
  <2>3. HistoryAscends(signals)' /\ ChangesIn(signals)' = ChangesIn(signals)
    BY <1>0, <2>1, <2>2, HistoryAppended, SignalAppended DEF FateInv
  <2> QED
    BY <1>6, <2>3, FateUntouched DEF Announced, FateInv
<1> QED
  BY <1>1, <1>2, <1>3, <1>4, <1>5, <1>6 DEF Effect

\* A connection just established has had no event.
LEMMA FateInit == Init => FateInv
<1> SUFFICES ASSUME Init PROVE FateInv
  OBVIOUS
<1>1. /\ queue = <<>> /\ signals = <<>> /\ swallowed = {} /\ published = 0
  BY DEF Init, queue, Channel
<1>2. QueuedEvents = {} /\ SignalledEvents = {} /\ SwallowedEvents = {}
  BY <1>1, Parts DEF EventsIn, ChangesIn, SwallowedEvents
<1>3. QueueAscends(queue) /\ HistoryAscends(signals)
  BY <1>1 DEF QueueAscends, HistoryAscends
<1> QED
  BY <1>1, <1>2, <1>3, FS_EmptySet DEF FateInv, Gone

\* CommandInv and TypeOK hold throughout: cmd_channel never interferes.
LEMMA Sound == Spec => [](TypeOK /\ CommandInv /\ FateInv)
<1>1. Init => CommandInv
  BY DEF Init, NoCall, Returned, Channel, CommandInv, CommandChannelExclusive,
         CommandReplyIsOwn
<1>2. TypeOK /\ CommandInv /\ FateInv /\ [Next]_vars => (CommandInv /\ FateInv)'
  BY CommandStep, EffectStep, FateStep
<1> QED
  BY <1>1, <1>2, FateInit, TypeCorrect, PTL DEF Spec

\* Each event i3 sent is signalled once, in order, or lost to one call, or
\* still on its way, whatever calls the application makes in between.
THEOREM EveryEventHasOneFate == Spec => []EventFate
<1>1. TypeOK /\ FateInv => EventFate
  <2> SUFFICES ASSUME TypeOK, FateInv PROVE EventFate
    OBVIOUS
  <2>1. Gone \cap QueuedEvents = {}
    <3>1. ASSUME NEW n \in Gone \cap QueuedEvents PROVE FALSE
      <4>1. n < n /\ n \in Nat
        BY <3>1 DEF FateInv, TypeOK
      <4> QED
        BY <4>1
    <3> QED
      BY <3>1
  <2> QED
    BY <2>1 DEF FateInv, EventFate, Gone, HistoryAscends
<1> QED
  BY <1>1, Sound, PTL

-----------------------------------------------------------------------------
(* Each loss leaves one stray.                                             *)

\* EachLossLeavesOneStray for as long as anybody counts: at the end of the
\* stream a call gives up without the answer to its request.
StrayInv ==
    /\ Cardinality(StraySignals) <= Cardinality(swallowed)
    /\ \/ Cardinality(swallowed) + Balance
             = Cardinality(QueuedReplies) + Cardinality(StraySignals)
       \/ ~alive /\ queue = <<>>

\* What the accounts of StrayInv are kept in are numbers.
LEMMA Accounts ==
    ASSUME TypeOK, FateInv
    PROVE  /\ queue \in Seq(Message) /\ signals \in Seq(Signal)
           /\ IsFiniteSet(swallowed) /\ Cardinality(swallowed) \in Nat
           /\ Cardinality(QueuedReplies) \in Nat /\ Cardinality(StraySignals) \in Nat
           /\ Balance \in Int
<1>1. queue \in Seq(Message) /\ signals \in Seq(Signal) /\ Len(toI3["sub"]) \in Nat
  BY DEF TypeOK, Channel, queue
<1>2. IsFiniteSet(swallowed) /\ Cardinality(swallowed) \in Nat
  BY FS_CardinalityType DEF FateInv
<1>3. Cardinality(QueuedReplies) \in Nat
  <2>1. ReplyMessage("sub", 0) \in Message
    BY MessagesTyped DEF Channel
  <2> QED
    BY <1>1, <2>1, RepliesAppended, Parts
<1>4. Cardinality(StraySignals) \in Nat
  <2>1. [signal |-> "ipc_shutdown", change |-> FALSE, id |-> 0] \in Signal
    BY DEF Signal
  <2> QED
    BY <1>1, <2>1, SignalAppended, Parts
<1>5. Balance \in Int
  <2>1. Waiting \in {0, 1}
    BY DEF Waiting
  <2> QED
    BY <1>1, <2>1 DEF Balance
<1> QED
  BY <1>1, <1>2, <1>3, <1>4, <1>5

\* Every kind of step keeps the accounts balanced.
LEMMA StrayStep == TypeOK /\ FateInv /\ StrayInv /\ Effect => StrayInv'
<1> SUFFICES ASSUME TypeOK, FateInv, StrayInv, Effect PROVE StrayInv'
  OBVIOUS
<1> DEFINE m == Head(queue)
           R == Cardinality(QueuedReplies)
           S == Cardinality(StraySignals)
           W == Cardinality(swallowed)
<1>0. /\ queue \in Seq(Message) /\ signals \in Seq(Signal) /\ IsFiniteSet(swallowed)
      /\ W \in Nat /\ R \in Nat /\ S \in Nat /\ Balance \in Int
  BY Accounts
<1>a. S <= W /\ (W + Balance = R + S \/ (~alive /\ queue = <<>>))
  BY DEF StrayInv
<1>b. queue # <<>> => m \in Message
  BY <1>0
<1>c. m \in Message => m.kind \in {"event", "reply"}
  BY DEF Message
<1>1. CASE Kept \/ Exited
  <2>1. R' = R /\ S' = S /\ W' = W /\ queue' = queue
    BY <1>1, Parts DEF Kept, Exited
  <2>2. \/ Balance' = Balance /\ alive' = alive
        \/ Balance' = Balance /\ ~alive'
        \/ ~alive' /\ queue = <<>>
    BY <1>1 DEF Kept, Exited
  <2> QED
    BY <1>a, <2>1, <2>2 DEF StrayInv
<1>2. CASE Published
  <2>1. PICK e \in Events : queue' = Append(queue, EventMessage(e, published'))
    BY <1>2 DEF Published
  <2>2. published' \in Nat
    BY <1>2 DEF Published, TypeOK
  <2>3. EventMessage(e, published') \in Message
    BY <2>2, MessagesTyped
  <2>4. EventMessage(e, published').kind # "reply"
    BY DEF EventMessage
  <2>5. R' = R
    BY <1>0, <2>1, <2>3, <2>4, RepliesAppended, Parts
  <2>6. S' = S /\ W' = W /\ Balance' = Balance /\ alive
    BY <1>2, Parts DEF Published
  <2> QED
    BY <1>a, <2>5, <2>6 DEF StrayInv
<1>3. CASE Replied
  <2>1. PICK n \in Nat : queue' = Append(queue, ReplyMessage("sub", n))
    BY <1>3 DEF Replied
  <2>2. ReplyMessage("sub", n) \in Message
    BY MessagesTyped DEF Channel
  <2>3. ReplyMessage("sub", n).kind = "reply"
    BY DEF ReplyMessage
  <2>4. R' = R + 1
    BY <1>0, <2>1, <2>2, <2>3, RepliesAppended, Parts
  <2>5. S' = S /\ W' = W /\ Balance' = Balance + 1 /\ alive
    BY <1>3, Parts DEF Replied
  <2> QED
    BY <1>0, <1>a, <2>4, <2>5 DEF StrayInv
<1>4. CASE Signalled
  <2>1. PICK g \in Signal : /\ g.signal # "ipc_shutdown"
                            /\ g.change = (m.kind = "event")
                            /\ signals' = Append(signals, g)
    BY <1>4 DEF Signalled
  <2>2. queue # <<>> /\ queue' = Tail(queue) /\ Balance <= 0 /\ Balance' = Balance /\ W' = W
    BY <1>4 DEF Signalled
  <2>3. R' = R - (IF m.kind = "reply" THEN 1 ELSE 0)
    BY <1>0, <2>2, RepliesTaken, Parts
  <2>4. S' = S + (IF g.signal # "ipc_shutdown" /\ ~g.change THEN 1 ELSE 0)
    BY <1>0, <2>1, SignalAppended, Parts
  <2>5. CASE m.kind = "event"
    <3>1. g.change
      BY <2>1, <2>5, Zenon
    <3> QED
      BY <1>0, <1>a, <2>2, <2>3, <2>4, <2>5, <3>1 DEF StrayInv
  <2>6. CASE m.kind = "reply"
    <3>1. ~g.change
      BY <2>1, <2>6, Zenon
    <3>2. R' = R - 1 /\ R' \in Nat
      <4>1. Tail(queue) \in Seq(Message) /\ ReplyMessage("sub", 0) \in Message
        BY <1>0, <2>2, MessagesTyped DEF Channel
      <4>2. R' \in Nat
        BY <2>2, <4>1, RepliesAppended, Parts
      <4> QED
        BY <2>3, <2>6, <4>2
    <3>3. S' = S + 1
      BY <2>1, <2>4, <3>1
    <3>4. W + Balance = R + S
      BY <1>a, <2>2
    <3>5. S + 1 <= W /\ W + Balance = (R - 1) + (S + 1)
      BY <1>0, <2>2, <3>2, <3>4
    <3> QED
      BY <2>2, <3>2, <3>3, <3>5 DEF StrayInv
  <2> QED
    BY <1>b, <1>c, <2>2, <2>5, <2>6
<1>5. CASE Taken
  <2>1. queue # <<>> /\ queue' = Tail(queue) /\ Balance' = Balance - 1 /\ S' = S
    BY <1>5, Parts DEF Taken
  <2>2. R' = R - (IF m.kind = "reply" THEN 1 ELSE 0)
    BY <1>0, <2>1, RepliesTaken, Parts
  <2>3. CASE m.kind = "event"
    <3>1. m \notin swallowed
      <4>1. m.id \notin Gone
        BY <2>1, <2>3, QueueTaken
      <4> QED
        BY <4>1 DEF Gone, SwallowedEvents
    <3>2. swallowed' = swallowed \cup {m}
      BY <1>5, <2>3 DEF Taken
    <3>3. W' = W + 1
      BY <1>0, <3>1, <3>2, FS_AddElement
    <3> QED
      BY <1>0, <1>a, <2>1, <2>2, <2>3, <3>3 DEF StrayInv
  <2>4. CASE m.kind = "reply"
    <3>1. W' = W
      BY <1>5, <2>4 DEF Taken
    <3>2. R' = R - 1 /\ W + (Balance - 1) = (R - 1) + S
      BY <1>0, <1>a, <2>1, <2>2, <2>4
    <3> QED
      BY <1>a, <2>1, <3>1, <3>2 DEF StrayInv
  <2> QED
    BY <1>b, <1>c, <2>1, <2>3, <2>4
<1>6. CASE Announced
  <2> DEFINE g == [signal |-> "ipc_shutdown", change |-> FALSE, id |-> 0]
  <2>1. g \in Signal /\ g.signal = "ipc_shutdown"
    BY DEF Signal
  <2>2. signals' = Append(signals, g)
    BY <1>6 DEF Announced
  <2>3. S' = S
    BY <1>0, <2>1, <2>2, SignalAppended, Parts
  <2>4. W' = W /\ queue' = queue /\ alive' = alive /\ ~alive /\ queue = <<>>
    BY <1>6 DEF Announced
  <2> QED
    BY <1>a, <2>3, <2>4 DEF StrayInv
<1> QED
  BY <1>1, <1>2, <1>3, <1>4, <1>5, <1>6 DEF Effect

\* A connection just established owes nothing.
LEMMA StrayInit == Init => StrayInv
<1> SUFFICES ASSUME Init PROVE StrayInv
  OBVIOUS
<1>1. queue = <<>> /\ signals = <<>> /\ swallowed = {} /\ toI3["sub"] = <<>>
      /\ call = NoCall
  BY DEF Init, queue, Channel
<1>2. QueuedReplies = {} /\ StraySignals = {}
  BY <1>1, Parts DEF RepliesIn, StraysIn
<1>3. Balance = 0
  BY <1>1 DEF Balance, Waiting, NoCall
<1> QED
  BY <1>1, <1>2, <1>3, FS_EmptySet DEF StrayInv

LEMMA Balanced == Spec => [](TypeOK /\ CommandInv /\ FateInv /\ StrayInv)
<1>1. TypeOK /\ CommandInv /\ FateInv /\ StrayInv /\ [Next]_vars => StrayInv'
  BY EffectStep, StrayStep
<1> QED
  BY <1>1, StrayInit, Sound, PTL DEF Spec

\* While i3 runs, the events lost to calls and the replies displaced by them
\* balance: every loss has put one reply out of its turn, to be signalled as
\* an event that is none unless another call takes it first.
THEOREM LossesBalanceStrays == Spec => []EachLossLeavesOneStray
<1>1. TypeOK /\ FateInv /\ StrayInv => EachLossLeavesOneStray
  <2> SUFFICES ASSUME TypeOK, FateInv, StrayInv, alive
               PROVE  Cardinality(swallowed) + Waiting
                        = Len(toI3["sub"]) + Cardinality(QueuedReplies)
                            + Cardinality(StraySignals)
    BY DEF EachLossLeavesOneStray
  <2>1. Cardinality(swallowed) + Balance
             = Cardinality(QueuedReplies) + Cardinality(StraySignals)
    BY DEF StrayInv
  <2>2. Len(toI3["sub"]) \in Nat /\ Waiting \in {0, 1}
    BY DEF TypeOK, Channel, Waiting
  <2>3. /\ Cardinality(swallowed) \in Nat /\ Cardinality(QueuedReplies) \in Nat
        /\ Cardinality(StraySignals) \in Nat
    BY Accounts
  <2>4. Cardinality(swallowed) + (Waiting - Len(toI3["sub"]))
             = Cardinality(QueuedReplies) + Cardinality(StraySignals)
    BY <2>1 DEF Balance
  <2>5. Waiting \in Nat
    BY ONLY <2>2
  <2> QED
    BY ONLY <2>2, <2>3, <2>4, <2>5
<1> QED
  BY <1>1, Balanced, PTL

-----------------------------------------------------------------------------
(* The first subscription is clean.                                        *)

\* Until a second request is written on sub_channel, the call that waits there
\* finds its own answer first: i3 sends no event before it has read the only
\* request that asks for one.
FirstInv ==
    /\ requests["sub"] = 0 =>
           /\ Waiting = 0 /\ srvSubs = {}
           /\ toI3["sub"] = <<>> /\ queue = <<>>
    /\ requests["sub"] <= 1 =>
           /\ swallowed = {} /\ StraySignals = {}
           /\ Waiting = 1 =>
                  \/ toI3["sub"] # <<>> /\ srvSubs = {} /\ queue = <<>>
                  \/ queue # <<>> /\ Head(queue).kind = "reply"

\* The steps that write and take nothing on sub_channel.
LEMMA FirstUntouched ==
    ASSUME FirstInv, UNCHANGED <<requests, toI3, queue, srvSubs, swallowed, signals>>,
           Waiting' = Waiting \/ Waiting' = 0
    PROVE  FirstInv'
<1>1. StraySignals' = StraySignals
  BY Parts
<1> QED
  BY <1>1 DEF FirstInv

\* The first request finds sub_channel silent.
LEMMA FirstSent ==
    ASSUME TypeOK, FirstInv, NEW op \in {"command", "subscribe", "on"},
           NEW events \in SUBSET Events, i3ipc_connection_message(op, events)
    PROVE  FirstInv'
<1> DEFINE c == ChannelOf(op)
           n == requests[c] + 1
           request == [id |-> n, events |-> NewEvents(events)]
<1>1. UNCHANGED <<queue, srvSubs, swallowed, signals, StraySignals>>
  BY DEF i3ipc_connection_message, i3Vars, queue, StraySignals
<1>2. requests \in [Channel -> Nat] /\ toI3["sub"] \in Seq(Request)
  BY DEF TypeOK, Channel
<1>3. CASE alive
  <2>1. /\ requests' = [requests EXCEPT ![c] = n]
        /\ toI3' = [toI3 EXCEPT ![c] = Append(@, request)]
        /\ call'.op = op
    BY <1>3 DEF i3ipc_connection_message, Flushed
  <2>2. CASE op = "command"
    <3>1. c = "cmd"
      BY <2>2 DEF ChannelOf, MessageNumber
    <3>2. /\ requests'["sub"] = requests["sub"] /\ toI3'["sub"] = toI3["sub"]
          /\ Waiting' = 0
      BY <2>1, <2>2, <3>1 DEF TypeOK, Channel, Waiting
    <3> QED
      BY <1>1, <3>2 DEF FirstInv
  <2>3. CASE op # "command"
    <3>1. c = "sub"
      BY <2>3 DEF ChannelOf, MessageNumber
    <3>2. requests'["sub"] = requests["sub"] + 1 /\ requests["sub"] \in Nat
      BY <1>2, <2>1, <3>1 DEF Channel
    <3>3. toI3'["sub"] = Append(toI3["sub"], request)
      BY <2>1, <3>1 DEF TypeOK, Channel
    <3>4. toI3'["sub"] # <<>>
      BY <1>2, <3>3
    <3> QED
      BY <1>1, <3>2, <3>4 DEF FirstInv
  <2> QED
    BY <2>2, <2>3
<1>4. CASE ~alive
  BY <1>1, <1>4, FirstUntouched DEF i3ipc_connection_message, Waiting
<1> QED
  BY <1>3, <1>4 DEF TypeOK

\* i3 reads the only request that asks for events, and answers it at once.
LEMMA FirstAnswered ==
    ASSUME TypeOK, CommandInv, FirstInv, NEW c \in Channel, I3Answer(c)
    PROVE  FirstInv'
<1>1. UNCHANGED <<requests, swallowed, signals, StraySignals, call>> /\ alive
  BY DEF I3Answer, clientVars, StraySignals
<1>2. Waiting' = Waiting
  BY <1>1 DEF Waiting
<1>3. CASE c = "sub"
  <2>1. toI3["sub"] # <<>> /\ requests["sub"] # 0
    BY <1>3 DEF I3Answer, FirstInv
  <2>2. queue \in Seq(Message)
    BY DEF TypeOK, Channel, queue
  <2>3. queue' = Append(queue, ReplyMessage("sub", Head(toI3["sub"]).id))
    BY <1>3 DEF I3Answer, TypeOK, queue
  <2>4. ReplyMessage("sub", Head(toI3["sub"]).id).kind = "reply"
    BY DEF ReplyMessage
  <2>5. /\ queue' # <<>>
        /\ queue = <<>> => Head(queue').kind = "reply"
        /\ queue # <<>> => Head(queue') = Head(queue)
    BY <2>2, <2>3, <2>4
  <2> QED
    BY <1>1, <1>2, <2>1, <2>5 DEF FirstInv
<1>4. CASE c = "cmd"
  <2>1. toI3'["sub"] = toI3["sub"] /\ queue' = queue
    BY <1>4 DEF I3Answer, TypeOK, Channel, queue
  <2>2. srvSubs' = srvSubs
    <3>1. toI3["cmd"] = <<[id |-> call.id, events |-> {}]>>
      BY <1>1, <1>4 DEF I3Answer, CommandInv, CommandChannelExclusive
    <3>2. Head(toI3["cmd"]).events = {}
      BY <3>1
    <3> QED
      BY <1>4, <3>2 DEF I3Answer
  <2> QED
    BY <1>1, <1>2, <2>1, <2>2 DEF FirstInv
<1> QED
  BY <1>3, <1>4 DEF Channel

\* The first signals are events: no answer is left for ipc_on_data.
LEMMA FirstSignalled ==
    ASSUME TypeOK, FateInv, StrayInv, FirstInv, DispatchMessage PROVE FirstInv'
<1>1. Signalled
  BY EffectOfDispatch
<1>2. /\ queue # <<>> /\ Balance <= 0 /\ swallowed' = swallowed
      /\ UNCHANGED <<requests, toI3, srvSubs>> /\ Waiting' = 0
  BY <1>1 DEF Signalled, DispatchMessage, InMainLoop, Idle, NoCall, Waiting, i3Vars
<1>3. requests["sub"] # 0
  BY <1>2 DEF FirstInv
<1>4. ASSUME requests["sub"] <= 1 PROVE StraySignals' = {}
  <2>1. swallowed = {} /\ StraySignals = {}
    BY <1>4 DEF FirstInv
  <2>2. Cardinality(QueuedReplies) = 0
    <3>1. Cardinality(swallowed) = 0 /\ Cardinality(StraySignals) = 0
      BY <2>1, FS_EmptySet
    <3>2. Cardinality(swallowed) + Balance
              = Cardinality(QueuedReplies) + Cardinality(StraySignals)
      BY <1>2 DEF StrayInv
    <3> QED
      BY <1>2, <3>1, <3>2, Accounts
  <2>3. queue \in Seq(Message) /\ signals \in Seq(Signal)
    BY Accounts
  <2>4. Head(queue).kind # "reply"
    <3>1. IsFiniteSet(QueuedReplies)
      <4>1. ReplyMessage("sub", 0) \in Message
        BY MessagesTyped DEF Channel
      <4> QED
        BY <2>3, <4>1, RepliesAppended, Parts
    <3>2. QueuedReplies = {}
      BY <2>2, <3>1, FS_EmptySet
    <3>3. 1 \in 1..Len(queue) /\ Head(queue) = queue[1]
      BY <1>2, <2>3
    <3> QED
      BY <3>2, <3>3, Parts DEF RepliesIn
  <2>5. Head(queue).kind = "event"
    <3>1. Head(queue) \in Message
      BY <1>2, <2>3
    <3> QED
      BY <2>4, <3>1 DEF Message
  <2>6. PICK g \in Signal : /\ g.change = (Head(queue).kind = "event")
                            /\ signals' = Append(signals, g)
    BY <1>1 DEF Signalled
  <2>7. g.change
    BY <2>5, <2>6, Zenon
  <2>8. Cardinality(StraySignals') = Cardinality(StraySignals) + 0
    BY <2>3, <2>6, <2>7, SignalAppended, Parts
  <2>9. IsFiniteSet(StraySignals')
    <3>1. signals' \in Seq(Signal)
      BY <2>3, <2>6
    <3> QED
      BY <2>6, <3>1, SignalAppended, Parts
  <2> QED
    BY <2>1, <2>8, <2>9, FS_EmptySet
<1> QED
  BY <1>2, <1>3, <1>4 DEF FirstInv

\* ipc_shutdown is no stray.
LEMMA SilentEnd ==
    ASSUME NEW s \in Seq(Signal), NEW g \in Signal, g.signal = "ipc_shutdown"
    PROVE  StraysIn(Append(s, g)) = StraysIn(s)
<1> DEFINE longer == Append(s, g)
<1>1. /\ Len(longer) = Len(s) + 1 /\ Len(s) \in Nat
      /\ longer[Len(longer)] = g
      /\ \A i \in 1..Len(s) : longer[i] = s[i]
  OBVIOUS
<1> HIDE DEF longer
<1>2. \A i : i \in 1..Len(longer) <=> i \in 1..Len(s) \/ i = Len(longer)
  BY <1>1
<1>3. \A x : x \in StraysIn(longer) <=> x \in StraysIn(s)
  BY <1>1, <1>2, Zenon DEF StraysIn
<1> QED
  BY <1>3, Zenon DEF longer

\* Every step keeps FirstInv.
LEMMA FirstStep ==
    TypeOK /\ CommandInv /\ FateInv /\ StrayInv /\ FirstInv /\ [Next]_vars => FirstInv'
<1> SUFFICES ASSUME TypeOK, CommandInv, FateInv, StrayInv, FirstInv, [Next]_vars
             PROVE  FirstInv'
  OBVIOUS
<1>1. CASE i3ipc_connection_command
  BY <1>1, FirstSent DEF i3ipc_connection_command
<1>2. ASSUME NEW op \in {"subscribe", "on"}, NEW events \in SUBSET Events,
             i3ipc_connection_message(op, events)
      PROVE  FirstInv'
  BY <1>2, FirstSent
<1>3. ASSUME NEW op \in {"subscribe", "on"}, NEW events, SubscribeKnown(op, events)
      PROVE  FirstInv'
  BY <1>3, FirstUntouched DEF SubscribeKnown, i3Vars, Waiting, queue
<1>4. CASE ReceiveReply
  <2>1. UNCHANGED <<requests, toI3, srvSubs, signals, StraySignals>> /\ Waiting' = 0
    BY <1>4 DEF ReceiveReply, NoCall, Waiting, i3Vars, StraySignals
  <2>2. call.op \in {"command", "subscribe", "on"}
    BY <1>4 DEF ReceiveReply, TypeOK, Call
  <2>3. CASE call.op = "command"
    <3>1. ChannelOf(call.op) = "cmd"
      BY <2>3 DEF ChannelOf, MessageNumber
    <3>2. Head(fromI3["cmd"]).kind = "reply"
      <4>1. fromI3["cmd"] = <<ReplyMessage("cmd", call.id)>>
        BY <1>4, <2>3, <3>1 DEF ReceiveReply, HasMessage, CommandInv, CommandChannelExclusive
      <4> QED
        BY <4>1 DEF ReplyMessage
    <3>3. swallowed' = swallowed /\ queue' = queue
      BY <1>4, <3>1, <3>2 DEF ReceiveReply, Take, TypeOK, Channel, queue
    <3> QED
      BY <2>1, <3>3, FirstUntouched
  <2>4. CASE call.op # "command"
    <3>1. ChannelOf(call.op) = "sub" /\ Waiting = 1
      BY <2>2, <2>4 DEF ChannelOf, MessageNumber, Waiting
    <3>2. queue # <<>>
      BY <1>4, <3>1 DEF ReceiveReply, HasMessage, queue
    <3>3. requests["sub"] # 0
      BY <3>1 DEF FirstInv
    <3>4. requests["sub"] <= 1 => swallowed' = swallowed
      BY <1>4, <3>1, <3>2 DEF FirstInv, ReceiveReply, queue
    <3> QED
      BY <2>1, <3>3, <3>4 DEF FirstInv
  <2> QED
    BY <2>3, <2>4
<1>5. CASE ReceiveEof \/ ReceiveError
  <2>1. UNCHANGED <<requests, toI3, queue, srvSubs, swallowed, signals>> /\ call' = NoCall
    BY <1>5 DEF ReceiveEof, ReceiveError, i3Vars, queue
  <2>2. Waiting' = 0
    BY <2>1 DEF Waiting, NoCall
  <2> QED
    BY <2>1, <2>2, FirstUntouched
<1>6. CASE DispatchMessage
  BY <1>6, FirstSignalled
<1>7. CASE DispatchEof
  <2>1. UNCHANGED <<requests, toI3, queue, srvSubs, swallowed, Waiting>>
    BY <1>7 DEF DispatchEof, i3Vars, queue, Waiting
  <2>2. StraySignals' = StraySignals
    <3>1. [signal |-> "ipc_shutdown", change |-> FALSE, id |-> 0] \in Signal
      BY DEF Signal
    <3>2. signals' = Append(signals, [signal |-> "ipc_shutdown", change |-> FALSE, id |-> 0])
      BY <1>7 DEF DispatchEof
    <3>3. signals \in Seq(Signal)
      BY DEF TypeOK
    <3> QED
      BY <3>1, <3>2, <3>3, SilentEnd, Parts
  <2> QED
    BY <2>1, <2>2 DEF FirstInv
<1>8. CASE DispatchError
  BY <1>8, FirstUntouched DEF DispatchError, i3Vars, queue, Waiting
<1>9. ASSUME NEW c \in Channel, I3Answer(c) PROVE FirstInv'
  BY <1>9, FirstAnswered
<1>10. ASSUME NEW e \in Events, I3Publish(e) PROVE FirstInv'
  <2>1. UNCHANGED <<requests, toI3, srvSubs, swallowed, StraySignals, Waiting>> /\ srvSubs # {}
    BY <1>10 DEF I3Publish, clientVars, StraySignals, Waiting
  <2>2. queue \in Seq(Message)
    BY Accounts
  <2>3. queue' = Append(queue, EventMessage(e, published'))
    BY <1>10 DEF I3Publish, TypeOK, Channel, queue
  <2>4. queue # <<>> => queue' # <<>> /\ Head(queue') = Head(queue)
    BY <2>2, <2>3
  <2> QED
    BY <2>1, <2>4 DEF FirstInv
<1>11. CASE I3Exit
  BY <1>11, FirstUntouched DEF I3Exit, clientVars, queue, Waiting
<1>12. CASE Halted \/ UNCHANGED vars
  BY <1>12, FirstUntouched DEF Halted, vars, queue, Waiting
<1> QED
  BY <1>1, <1>2, <1>3, <1>4, <1>5, <1>6, <1>7, <1>8, <1>9, <1>10, <1>11, <1>12
     DEF Next, i3ipc_connection_subscribe, i3ipc_connection_on, SubscribeNew,
         Receive, ipc_on_data

\* A program that subscribes once loses no event and sees no stray signal.
THEOREM FirstSubscriptionClean == Spec => []FirstSubscribeIsClean
<1>1. Init => FirstInv
  <2> SUFFICES ASSUME Init PROVE FirstInv
    OBVIOUS
  <2>1. queue = <<>> /\ toI3["sub"] = <<>> /\ swallowed = {} /\ signals = <<>> /\ srvSubs = {}
    BY DEF Init, queue, Channel
  <2>2. Waiting = 0
    BY DEF Init, NoCall, Waiting
  <2>3. StraySignals = {}
    BY <2>1, Parts DEF StraysIn
  <2> QED
    BY <2>1, <2>2, <2>3 DEF FirstInv
<1>2. FirstInv => FirstSubscribeIsClean
  BY DEF FirstInv, FirstSubscribeIsClean
<1> QED
  BY <1>1, <1>2, FirstStep, Balanced, PTL DEF Spec

-----------------------------------------------------------------------------
(* The refinement: IpcSession implements EventFeed.                        *)

\* The oldest event coming is the first of the queue; taking it removes it.
LEMMA OldestTaken ==
    ASSUME TypeOK, FateInv, queue # <<>>, queue' = Tail(queue),
           Head(queue).kind = "event"
    PROVE  /\ Head(queue).id \in QueuedEvents
           /\ \A k \in QueuedEvents : Head(queue).id <= k
           /\ QueuedEvents' = QueuedEvents \ {Head(queue).id}
<1>1. /\ Head(queue) \in Message
      /\ QueuedEvents = QueuedEvents' \cup {Head(queue).id}
      /\ \A k \in QueuedEvents' : Head(queue).id < k
      /\ Head(queue).id \notin QueuedEvents'
  BY QueueTaken
<1>2. Head(queue).id \in Nat
  BY <1>1 DEF Message
<1>3. QueuedEvents \subseteq Nat
  BY DEF FateInv, TypeOK
<1>4. \A k \in QueuedEvents : Head(queue).id <= k
  BY <1>1, <1>2, <1>3
<1> QED
  BY <1>1, <1>4

\* A signal for an event delivers it; any other takes the place of one lost.
LEMMA FeedSignalled ==
    ASSUME TypeOK, FateInv, StrayInv, Signalled PROVE Feed!Deliver \/ Feed!Stray
<1> DEFINE m == Head(queue)
<1>1. PICK g \in Signal : /\ g.signal # "ipc_shutdown"
                          /\ g.change = (m.kind = "event")
                          /\ g.id = m.id
                          /\ signals' = Append(signals, g)
  BY DEF Signalled
<1>2. queue # <<>> /\ queue' = Tail(queue) /\ watch = TRUE /\ Balance <= 0
      /\ UNCHANGED <<swallowed, published, alive, watch>>
  BY DEF Signalled, TypeOK
<1>3. signals \in Seq(Signal)
  BY DEF TypeOK
<1>4. UNCHANGED <<published, SwallowedEvents, alive, ~watch>>
  BY <1>2 DEF SwallowedEvents
<1>5. CASE m.kind = "event"
  <2>1. g.change
    BY <1>1, <1>5, Zenon
  <2>2. SignalledEvents' = SignalledEvents \cup {m.id}
    BY <1>1, <1>3, <2>1, SignalAppended, Parts
  <2>3. Cardinality(StraySignals)' = Cardinality(StraySignals)
    <3>1. Cardinality(StraySignals)' = Cardinality(StraySignals) + 0
      BY <1>1, <1>3, <2>1, SignalAppended, Parts
    <3> QED
      BY <3>1, Accounts
  <2>4. /\ m.id \in QueuedEvents
        /\ \A k \in QueuedEvents : m.id <= k
        /\ QueuedEvents' = QueuedEvents \ {m.id}
    BY <1>2, <1>5, OldestTaken
  <2> QED
    BY <1>2, <1>4, <2>2, <2>3, <2>4 DEF Feed!Deliver, Feed!Oldest
<1>6. CASE m.kind # "event"
  <2>1. ~g.change
    BY <1>1, <1>6, Zenon
  <2>2. SignalledEvents' = SignalledEvents
    BY <1>1, <1>3, <2>1, SignalAppended, Parts
  <2>3. Cardinality(StraySignals)' = Cardinality(StraySignals) + 1
    BY <1>1, <1>3, <2>1, SignalAppended, Parts
  <2>4. QueuedEvents' = QueuedEvents
    BY <1>2, <1>6, QueueTaken
  <2>5. Cardinality(StraySignals) < Cardinality(SwallowedEvents)
    <3>1. Cardinality(swallowed) + Balance
              = Cardinality(QueuedReplies) + Cardinality(StraySignals)
      BY <1>2 DEF StrayInv
    <3>2. Cardinality(RepliesIn(queue')) = Cardinality(QueuedReplies) - 1
      <4>1. m \in Message /\ queue \in Seq(Message)
        BY <1>2, QueueTaken, Accounts
      <4>2. m.kind = "reply"
        BY <1>6, <4>1 DEF Message
      <4> QED
        BY <1>2, <4>1, <4>2, RepliesTaken, Parts
    <3>3. Cardinality(RepliesIn(queue')) \in Nat
      <4>1. queue \in Seq(Message)
        BY Accounts
      <4>2. Tail(queue) \in Seq(Message) /\ ReplyMessage("sub", 0) \in Message
        BY <1>2, <4>1, MessagesTyped DEF Channel
      <4> QED
        BY <1>2, <4>2, RepliesAppended
    <3>4. Cardinality(StraySignals) < Cardinality(swallowed)
      BY <1>2, <3>1, <3>2, <3>3, Accounts
    <3> QED
      BY <3>4 DEF FateInv
  <2>6. Feed!Cardinality(SwallowedEvents) = Cardinality(SwallowedEvents)
    BY DEF Feed!Cardinality, Cardinality
  <2> QED
    BY <1>2, <1>4, <2>2, <2>3, <2>4, <2>5, <2>6 DEF Feed!Stray
<1> QED
  BY <1>5, <1>6

\* A call that takes an event loses it; one that takes a reply does nothing
\* the feed can tell.
LEMMA FeedTaken ==
    ASSUME TypeOK, FateInv, Taken PROVE Feed!Lose \/ UNCHANGED Feed!vars
<1> DEFINE m == Head(queue)
<1>1. queue # <<>> /\ queue' = Tail(queue) /\ UNCHANGED <<signals, published, alive, watch>>
  BY DEF Taken
<1>2. UNCHANGED <<SignalledEvents, Cardinality(StraySignals), published, alive, ~watch>>
  BY <1>1 DEF SignalledEvents, StraySignals
<1>3. CASE m.kind = "event"
  <2>1. SwallowedEvents' = SwallowedEvents \cup {m.id}
    BY <1>3 DEF Taken, SwallowedEvents
  <2>2. /\ m.id \in QueuedEvents
        /\ \A k \in QueuedEvents : m.id <= k
        /\ QueuedEvents' = QueuedEvents \ {m.id}
    BY <1>1, <1>3, OldestTaken
  <2> QED
    BY <1>2, <2>1, <2>2 DEF Feed!Lose, Feed!Oldest
<1>4. CASE m.kind # "event"
  <2>1. SwallowedEvents' = SwallowedEvents
    BY <1>4 DEF Taken, SwallowedEvents
  <2>2. QueuedEvents' = QueuedEvents
    BY <1>1, <1>4, QueueTaken
  <2> QED
    BY <1>2, <2>1, <2>2 DEF Feed!vars
<1> QED
  BY <1>3, <1>4

\* Every kind of step is a step of the feed or none.
LEMMA FeedStep ==
    TypeOK /\ FateInv /\ StrayInv /\ Effect => [Feed!Next]_(Feed!vars)
<1> SUFFICES ASSUME TypeOK, FateInv, StrayInv, Effect PROVE [Feed!Next]_(Feed!vars)
  OBVIOUS
<1>0. queue \in Seq(Message) /\ signals \in Seq(Signal) /\ Cardinality(StraySignals) \in Nat
  BY Accounts
<1>1. CASE Kept
  <2>1. UNCHANGED <<QueuedEvents, SignalledEvents, SwallowedEvents,
                    Cardinality(StraySignals), published, alive, ~watch>>
    BY <1>1, Parts DEF Kept, SwallowedEvents
  <2> QED
    BY <2>1 DEF Feed!vars
<1>2. CASE Exited
  <2>1. /\ UNCHANGED <<QueuedEvents, SignalledEvents, SwallowedEvents,
                       Cardinality(StraySignals), published, ~watch>>
        /\ alive /\ alive' = FALSE
    BY <1>2, Parts DEF Exited, SwallowedEvents
  <2> QED
    BY <2>1 DEF Feed!Next, Feed!Close
<1>3. CASE Published
  <2>1. UNCHANGED <<SignalledEvents, SwallowedEvents, Cardinality(StraySignals),
                    alive, ~watch>> /\ alive /\ published' = published + 1
    BY <1>3, Parts DEF Published, SwallowedEvents
  <2>2. QueuedEvents' = QueuedEvents \cup {published'}
    <3>1. PICK e \in Events : queue' = Append(queue, EventMessage(e, published'))
      BY <1>3 DEF Published
    <3>2. published' \in Nat
      BY <2>1 DEF TypeOK
    <3>3. EventMessage(e, published') \in Message
      BY <3>2, MessagesTyped
    <3>4. EventMessage(e, published').kind = "event" /\ EventMessage(e, published').id = published'
      BY DEF EventMessage
    <3> QED
      BY <1>0, <3>1, <3>3, <3>4, EventsAppended, Parts
  <2> QED
    BY <2>1, <2>2 DEF Feed!Next, Feed!Publish
<1>4. CASE Replied
  <2>1. PICK n \in Nat : queue' = Append(queue, ReplyMessage("sub", n))
    BY <1>4 DEF Replied
  <2>2. ReplyMessage("sub", n) \in Message
    BY MessagesTyped DEF Channel
  <2>3. ReplyMessage("sub", n).kind # "event"
    BY DEF ReplyMessage
  <2>4. QueuedEvents' = QueuedEvents
    BY <1>0, <2>1, <2>2, <2>3, EventsAppended, Parts
  <2>5. UNCHANGED <<SignalledEvents, SwallowedEvents, Cardinality(StraySignals),
                    published, alive, ~watch>>
    BY <1>4, Parts DEF Replied, SwallowedEvents
  <2> QED
    BY <2>4, <2>5 DEF Feed!vars
<1>5. CASE Signalled
  BY <1>5, FeedSignalled DEF Feed!Next
<1>6. CASE Taken
  BY <1>6, FeedTaken DEF Feed!Next
<1>7. CASE Announced
  <2> DEFINE g == [signal |-> "ipc_shutdown", change |-> FALSE, id |-> 0]
  <2>1. g \in Signal /\ g.signal = "ipc_shutdown" /\ g.change = FALSE
    BY DEF Signal
  <2>2. signals' = Append(signals, g)
    BY <1>7 DEF Announced
  <2>3. SignalledEvents' = SignalledEvents
    BY <1>0, <2>1, <2>2, SignalAppended, Parts
  <2>4. Cardinality(StraySignals)' = Cardinality(StraySignals)
    <3>1. Cardinality(StraySignals)' = Cardinality(StraySignals) + 0
      BY <1>0, <2>1, <2>2, SignalAppended, Parts
    <3> QED
      BY <1>0, <3>1
  <2>5. /\ UNCHANGED <<QueuedEvents, SwallowedEvents, published, alive>>
        /\ ~alive /\ watch /\ watch' = FALSE /\ QueuedEvents = {}
    BY <1>7, Parts DEF Announced, SwallowedEvents, EventsIn
  <2> QED
    BY <2>3, <2>4, <2>5 DEF Feed!Next, Feed!End
<1> QED
  BY <1>1, <1>2, <1>3, <1>4, <1>5, <1>6, <1>7 DEF Effect

\* A connection just established is an empty feed.
LEMMA FeedInit == Init => Feed!Init
<1> SUFFICES ASSUME Init PROVE Feed!Init
  OBVIOUS
<1>1. queue = <<>> /\ signals = <<>> /\ swallowed = {} /\ published = 0
      /\ alive = TRUE /\ watch = TRUE
  BY DEF Init, queue, Channel
<1>2. QueuedEvents = {} /\ SignalledEvents = {} /\ SwallowedEvents = {}
      /\ Cardinality(StraySignals) = 0
  BY <1>1, Parts, FS_EmptySet DEF EventsIn, ChangesIn, StraysIn, SwallowedEvents
<1> QED
  BY <1>1, <1>2 DEF Feed!Init

\* To the application, sub_channel with its calls and its main loop is a feed
\* of events: signalled in order or lost to a call, at most one stray signal
\* for each loss, and ended once, when nothing is left in it.
THEOREM SessionImplementsFeed == Spec => ImplementsFeed
<1>1. TypeOK /\ CommandInv /\ FateInv /\ StrayInv /\ [Next]_vars => [Feed!Next]_(Feed!vars)
  BY EffectStep, FeedStep
<1> QED
  BY <1>1, FeedInit, Balanced, PTL DEF Spec, ImplementsFeed, Feed!Spec
=============================================================================
