-------------------------- MODULE IpcSessionProofs --------------------------
(***************************************************************************)
(* Theorems about IpcSession, for every set of events and every bound.     *)
(***************************************************************************)
EXTENDS IpcSession, SequenceTheorems, TLAPS

\* Each number ipc_on_data can read off a message belongs to one signal.
LEMMA SignalOfType == \A n \in 0..5 : SignalOf(n) \in EventName
<1>1. SUFFICES ASSUME NEW n \in 0..5 PROVE \E e \in EventName : EventNumber[e] = n
  BY DEF SignalOf
<1>2. EventName = {"workspace", "output", "mode", "window", "barconfig_update", "binding"}
  BY DEF EventName, EventNumber
<1>3. /\ EventNumber["workspace"] = 0 /\ EventNumber["output"] = 1
      /\ EventNumber["mode"] = 2 /\ EventNumber["window"] = 3
      /\ EventNumber["barconfig_update"] = 4 /\ EventNumber["binding"] = 5
  BY DEF EventNumber
<1> QED
  BY <1>2, <1>3

\* The messages i3 writes are messages.
LEMMA MessagesTyped ==
    /\ \A e \in Events, n \in Nat : EventMessage(e, n) \in Message
    /\ \A c \in Channel, n \in Nat : ReplyMessage(c, n) \in Message
<1>1. ASSUME NEW e \in Events, NEW n \in Nat PROVE EventMessage(e, n) \in Message
  <2>1. e \in EventName
    BY EventsAssumption
  <2>2. EventNumber[e] \in 0..5
    BY <2>1 DEF EventName, EventNumber
  <2> QED
    BY <2>2 DEF EventMessage, Message
<1> QED
  BY <1>1 DEF ReplyMessage, Message, Channel

\* The channel of a request is one of the two.
LEMMA ChannelOfType == \A op : ChannelOf(op) \in Channel
BY DEF ChannelOf, Channel

-----------------------------------------------------------------------------
\* A connection just established has the types.
LEMMA TypeInit == Init => TypeOK
<1> SUFFICES ASSUME Init PROVE TypeOK
  OBVIOUS
<1>1. call \in Call /\ result \in Result
  BY DEF Init, NoCall, Call, Returned, Result
<1>2. signals \in Seq(Signal) /\ toI3 \in [Channel -> Seq(Request)]
      /\ fromI3 \in [Channel -> Seq(Message)]
  BY DEF Init
<1> QED
  BY <1>1, <1>2 DEF Init, TypeOK

\* A request, sent or refused, keeps the types.
LEMMA TypeMessage ==
    ASSUME TypeOK, NEW op \in {"command", "subscribe", "on"},
           NEW events \in SUBSET Events,
           i3ipc_connection_message(op, events)
    PROVE  TypeOK'
<1> DEFINE c == ChannelOf(op)
           n == requests[c] + 1
           request == [id |-> n, events |-> NewEvents(events)]
<1>0. c \in Channel /\ n \in Nat
  BY ChannelOfType DEF TypeOK
<1>1. request \in Request
  BY <1>0 DEF Request, NewEvents
<1>2. CASE alive
  <2>1. /\ requests' = [requests EXCEPT ![c] = n]
        /\ toI3' = [toI3 EXCEPT ![c] = Append(@, request)]
        /\ call' = [op |-> op, events |-> events, id |-> n]
        /\ UNCHANGED <<result, unsent>>
    BY <1>2 DEF i3ipc_connection_message, Flushed
  <2>2. requests' \in [Channel -> Nat] /\ toI3' \in [Channel -> Seq(Request)]
    BY <2>1, <1>0, <1>1 DEF TypeOK
  <2>3. call' \in Call
    BY <2>1, <1>0 DEF Call
  <2> QED
    BY <2>1, <2>2, <2>3
       DEF TypeOK, i3ipc_connection_message, SubscriptionsOnSend, i3Vars
<1>3. CASE ~alive
  <2>1. result' = Returned(op, "error", FALSE) /\ unsent' = unsent \cup {c}
    BY <1>3 DEF i3ipc_connection_message
  <2>2. result' \in Result /\ unsent' \in SUBSET Channel
    BY <1>0, <2>1 DEF Returned, Result, TypeOK
  <2> QED
    BY <1>3, <2>2
       DEF TypeOK, i3ipc_connection_message, SubscriptionsOnSend, i3Vars
<1> QED
  BY <1>2, <1>3

\* A subscription to nothing new keeps the types.
LEMMA TypeKnown ==
    ASSUME TypeOK, NEW op \in {"subscribe", "on"}, NEW events \in SUBSET Events,
           SubscribeKnown(op, events)
    PROVE  TypeOK'
<1>1. result' \in Result
  BY DEF SubscribeKnown, Returned, Result
<1>2. handlers' \in SUBSET Events
  BY DEF SubscribeKnown, Connected, TypeOK
<1> QED
  BY <1>1, <1>2 DEF SubscribeKnown, TypeOK, i3Vars

\* Every step keeps the types: one step of the proof for each action.
LEMMA TypeStep == TypeOK /\ [Next]_vars => TypeOK'
<1> SUFFICES ASSUME TypeOK, [Next]_vars PROVE TypeOK'
  OBVIOUS
<1>1. CASE i3ipc_connection_command
  BY <1>1, TypeMessage DEF i3ipc_connection_command
<1>2. ASSUME NEW events \in SUBSET Events, i3ipc_connection_subscribe(events)
      PROVE  TypeOK'
  BY <1>2, TypeMessage, TypeKnown DEF i3ipc_connection_subscribe, SubscribeNew
<1>3. ASSUME NEW e \in Events, i3ipc_connection_on(e) PROVE TypeOK'
  BY <1>3, TypeMessage, TypeKnown DEF i3ipc_connection_on, SubscribeNew
<1>4. CASE ReceiveReply
  <2> DEFINE c == ChannelOf(call.op)
             m == Head(fromI3[c])
  <2>1. c \in Channel /\ fromI3[c] \in Seq(Message) /\ fromI3[c] # <<>>
    BY <1>4, ChannelOfType DEF ReceiveReply, HasMessage, TypeOK
  <2>2. m \in Message /\ Tail(fromI3[c]) \in Seq(Message)
    BY <2>1
  <2>3. call.op \in {"none", "command", "subscribe", "on"} /\ call.events \in SUBSET Events
    BY DEF TypeOK, Call, NoCall
  <2>4. result' \in Result
    BY <1>4, <2>2, <2>3 DEF ReceiveReply, Returned, Result, Message
  <2>5. fromI3' \in [Channel -> Seq(Message)]
    BY <1>4, <2>1, <2>2 DEF ReceiveReply, Take, TypeOK
  <2>6. /\ subscriptions' \in SUBSET Events /\ handlers' \in SUBSET Events
        /\ swallowed' \in SUBSET Message
    BY <1>4, <2>2, <2>3 DEF ReceiveReply, Connected, TypeOK
  <2>7. call' \in Call
    BY <1>4 DEF ReceiveReply, NoCall, Call
  <2> QED
    BY <1>4, <2>4, <2>5, <2>6, <2>7 DEF ReceiveReply, TypeOK, i3Vars
<1>5. CASE ReceiveEof
  <2>1. call.op \in {"none", "command", "subscribe", "on"} /\ call.events \in SUBSET Events
    BY DEF TypeOK, Call, NoCall
  <2>2. result' \in Result /\ call' \in Call /\ handlers' \in SUBSET Events
    BY <1>5, <2>1
       DEF ReceiveEof, Returned, Result, NoCall, Call, Connected, TypeOK
  <2> QED
    BY <1>5, <2>2 DEF ReceiveEof, TypeOK, i3Vars
<1>6. CASE ReceiveError
  <2>1. call.op \in {"none", "command", "subscribe", "on"}
    BY DEF TypeOK, Call, NoCall
  <2>2. result' \in Result /\ call' \in Call
    BY <1>6, <2>1 DEF ReceiveError, Returned, Result, NoCall, Call
  <2>3. reset' \in [Channel -> BOOLEAN]
    BY <1>6 DEF ReceiveError, TypeOK
  <2> QED
    BY <1>6, <2>2, <2>3 DEF ReceiveError, TypeOK, i3Vars
<1>7. CASE DispatchMessage
  <2> DEFINE m == Head(fromI3["sub"])
  <2>1. fromI3["sub"] \in Seq(Message) /\ fromI3["sub"] # <<>>
    BY <1>7 DEF DispatchMessage, HasMessage, TypeOK, Channel
  <2>2. m \in Message /\ Tail(fromI3["sub"]) \in Seq(Message)
    BY <2>1
  <2>3. SignalOf(m.number) \in EventName /\ m.id \in Nat
    BY <2>2, SignalOfType DEF Message
  <2>4. Emission(m) \in Seq(Signal)
    BY <2>3 DEF Emission, Signal
  <2>5. signals' \in Seq(Signal)
    BY <1>7, <2>4, ConcatProperties DEF DispatchMessage, TypeOK
  <2>6. fromI3' \in [Channel -> Seq(Message)]
    BY <1>7, <2>2 DEF DispatchMessage, Take, TypeOK
  <2> QED
    BY <1>7, <2>5, <2>6 DEF DispatchMessage, TypeOK, i3Vars
<1>8. CASE DispatchEof
  <2>1. signals' \in Seq(Signal)
    BY <1>8 DEF DispatchEof, TypeOK, Signal
  <2> QED
    BY <1>8, <2>1 DEF DispatchEof, TypeOK, i3Vars
<1>9. CASE DispatchError
  BY <1>9 DEF DispatchError, TypeOK, i3Vars
<1>10. ASSUME NEW c \in Channel, I3Answer(c) PROVE TypeOK'
  <2>1. toI3[c] \in Seq(Request) /\ toI3[c] # <<>>
    BY <1>10 DEF I3Answer, TypeOK
  <2>2. Head(toI3[c]) \in Request /\ Tail(toI3[c]) \in Seq(Request)
    BY <2>1
  <2>3. ReplyMessage(c, Head(toI3[c]).id) \in Message
    BY <2>2, MessagesTyped DEF Request
  <2>4. srvSubs' \in SUBSET Events
    BY <1>10, <2>2 DEF I3Answer, Request, TypeOK
  <2>5. /\ toI3' \in [Channel -> Seq(Request)]
        /\ fromI3' \in [Channel -> Seq(Message)]
    BY <1>10, <2>2, <2>3 DEF I3Answer, TypeOK
  <2> QED
    BY <1>10, <2>4, <2>5 DEF I3Answer, TypeOK, clientVars
<1>11. ASSUME NEW e \in Events, I3Publish(e) PROVE TypeOK'
  <2>1. published' \in Nat
    BY <1>11 DEF I3Publish, TypeOK
  <2>2. EventMessage(e, published') \in Message
    BY <2>1, MessagesTyped
  <2>3. fromI3["sub"] \in Seq(Message)
    BY DEF TypeOK, Channel
  <2>4. Append(fromI3["sub"], EventMessage(e, published')) \in Seq(Message)
    BY <2>2, <2>3
  <2>5. fromI3' \in [Channel -> Seq(Message)]
    BY <1>11, <2>4 DEF I3Publish, TypeOK
  <2> QED
    BY <1>11, <2>1, <2>5 DEF I3Publish, TypeOK, clientVars
<1>12. CASE I3Exit
  BY <1>12 DEF I3Exit, TypeOK, clientVars
<1>13. CASE Halted \/ UNCHANGED vars
  BY <1>13 DEF Halted, vars, TypeOK
<1> QED
  BY <1>1, <1>2, <1>3, <1>4, <1>5, <1>6, <1>7, <1>8, <1>9, <1>10, <1>11,
     <1>12, <1>13 DEF Next, Receive, ipc_on_data

\* Every variable keeps its type; in particular each signal that ipc_on_data
\* emits is one of those i3ipc_connection_class_init declares.
THEOREM TypeCorrect == Spec => []TypeOK
BY TypeInit, TypeStep, PTL DEF Spec

-----------------------------------------------------------------------------
(* Requests and answers keep what was asked for at i3 or on the way there. *)

\* A request written behind others adds its events to what i3 is asked for.
LEMMA AskedByAppend ==
    ASSUME NEW queue \in Seq(Request), NEW r \in Request
    PROVE  AskedBy(Append(queue, r)) = AskedBy(queue) \cup r.events
<1> DEFINE longer == Append(queue, r)
<1>1. /\ Len(longer) = Len(queue) + 1 /\ Len(queue) \in Nat
      /\ longer[Len(longer)] = r
      /\ \A i \in 1..Len(queue) : longer[i] = queue[i]
  OBVIOUS
<1> HIDE DEF longer
<1>2. AskedBy(longer) \subseteq AskedBy(queue) \cup r.events
  <2> SUFFICES ASSUME NEW i \in 1..Len(longer)
               PROVE  longer[i].events \subseteq AskedBy(queue) \cup r.events
    BY DEF AskedBy
  <2>1. CASE i \in 1..Len(queue)
    BY <2>1, <1>1 DEF AskedBy
  <2>2. CASE i = Len(longer)
    BY <2>2, <1>1
  <2> QED
    BY <1>1, <2>1, <2>2
<1>3. AskedBy(queue) \subseteq AskedBy(longer)
  <2> SUFFICES ASSUME NEW i \in 1..Len(queue)
               PROVE  queue[i].events \subseteq AskedBy(longer)
    BY DEF AskedBy
  <2>1. i \in 1..Len(longer) /\ longer[i] = queue[i]
    BY <1>1
  <2> QED
    BY <2>1 DEF AskedBy
<1>4. r.events \subseteq AskedBy(longer)
  <2>1. Len(longer) \in 1..Len(longer)
    BY <1>1
  <2> QED
    BY <2>1, <1>1 DEF AskedBy
<1> QED
  BY <1>2, <1>3, <1>4 DEF longer

\* What i3 is asked for is in the request it reads or in those behind it.
LEMMA AskedByTail ==
    ASSUME NEW queue \in Seq(Request), queue # <<>>
    PROVE  AskedBy(queue) \subseteq Head(queue).events \cup AskedBy(Tail(queue))
<1> SUFFICES ASSUME NEW i \in 1..Len(queue)
             PROVE  queue[i].events \subseteq Head(queue).events \cup AskedBy(Tail(queue))
  BY DEF AskedBy
<1>1. CASE i = 1
  BY <1>1
<1>2. CASE i # 1
  <2>1. i - 1 \in 1..Len(Tail(queue)) /\ Tail(queue)[i - 1] = queue[i]
    BY <1>2
  <2> QED
    BY <2>1 DEF AskedBy
<1> QED
  BY <1>1, <1>2

\* A new call asks i3 for just the events it has not been asked for.
LEMMA ToldMessage ==
    ASSUME TypeOK, ToldToI3, NEW op \in {"command", "subscribe", "on"},
           NEW events \in SUBSET Events, op = "command" => events = {},
           i3ipc_connection_message(op, events)
    PROVE  ToldToI3'
<1> DEFINE c == ChannelOf(op)
           n == requests[c] + 1
           request == [id |-> n, events |-> NewEvents(events)]
<1>1. CASE alive /\ c = "sub"
  <2>1. /\ toI3["sub"] \in Seq(Request) /\ request \in Request
        /\ request.events = events \ subscriptions
    BY <1>1 DEF TypeOK, Channel, Request, NewEvents
  <2>2. toI3'["sub"] = Append(toI3["sub"], request)
    BY <1>1 DEF i3ipc_connection_message, Flushed, TypeOK, Channel
  <2>3. Pending' = Pending \cup (events \ subscriptions)
    BY <2>1, <2>2, AskedByAppend DEF Pending
  <2>4. call'.events = events
    BY <1>1 DEF i3ipc_connection_message
  <2>5. UNCHANGED <<subscriptions, handlers, srvSubs>>
    BY DEF i3ipc_connection_message, SubscriptionsOnSend, i3Vars
  <2> QED
    BY <2>3, <2>4, <2>5 DEF ToldToI3
<1>2. CASE alive /\ c # "sub"
  <2>1. c = "cmd" /\ events = {}
    BY <1>2 DEF ChannelOf, MessageNumber
  <2>2. toI3'["sub"] = toI3["sub"]
    BY <1>2, <2>1 DEF i3ipc_connection_message, Flushed, TypeOK, Channel
  <2>3. call'.events = {}
    BY <1>2, <2>1 DEF i3ipc_connection_message
  <2>4. UNCHANGED <<subscriptions, handlers, srvSubs>>
    BY DEF i3ipc_connection_message, SubscriptionsOnSend, i3Vars
  <2> QED
    BY <2>2, <2>3, <2>4 DEF ToldToI3, Pending
<1>3. CASE ~alive
  BY <1>3 DEF i3ipc_connection_message, SubscriptionsOnSend, i3Vars, ToldToI3, Pending
<1> QED
  BY <1>1, <1>2, <1>3

\* A closure connected without a request is for an event i3 was told of.
LEMMA ToldKnown ==
    ASSUME ToldToI3, NEW op, NEW events \in SUBSET Events, SubscribeKnown(op, events)
    PROVE  ToldToI3'
<1>1. events \subseteq subscriptions
  BY DEF SubscribeKnown, NewEvents
<1>2. handlers' \subseteq handlers \cup subscriptions
  BY <1>1 DEF SubscribeKnown, Connected
<1>3. UNCHANGED <<subscriptions, call, toI3, srvSubs>>
  BY DEF SubscribeKnown, i3Vars
<1> QED
  BY <1>2, <1>3 DEF ToldToI3, Pending

\* Whatever a call gets, it records only events that it asked for.
LEMMA ToldReceive == ASSUME ToldToI3, Receive PROVE ToldToI3'
<1>1. /\ subscriptions' \subseteq subscriptions \cup call.events
      /\ handlers' \subseteq handlers \cup call.events
  BY DEF Receive, ReceiveReply, ReceiveEof, ReceiveError, Connected
<1>2. call' = NoCall /\ UNCHANGED <<toI3, srvSubs>>
  BY DEF Receive, ReceiveReply, ReceiveEof, ReceiveError, i3Vars
<1>3. call'.events = {}
  BY <1>2 DEF NoCall
<1> QED
  BY <1>1, <1>2, <1>3 DEF ToldToI3, Pending

\* i3 puts in force what it reads, so nothing asked for is dropped.
LEMMA ToldAnswer == ASSUME TypeOK, ToldToI3, NEW c \in Channel, I3Answer(c) PROVE ToldToI3'
<1>1. UNCHANGED <<subscriptions, handlers, call>>
  BY DEF I3Answer, clientVars
<1>2. toI3["sub"] \in Seq(Request)
  BY DEF TypeOK, Channel
<1>3. CASE c = "sub"
  <2>1. /\ toI3["sub"] # <<>> /\ toI3'["sub"] = Tail(toI3["sub"])
        /\ srvSubs' = srvSubs \cup Head(toI3["sub"]).events
    BY <1>3 DEF I3Answer, TypeOK
  <2>2. Pending \subseteq Head(toI3["sub"]).events \cup Pending'
    BY <1>2, <2>1, AskedByTail DEF Pending
  <2> QED
    BY <1>1, <2>1, <2>2 DEF ToldToI3
<1>4. CASE c # "sub"
  <2>1. toI3'["sub"] = toI3["sub"] /\ srvSubs \subseteq srvSubs'
    BY <1>4 DEF I3Answer, TypeOK, Channel
  <2> QED
    BY <1>1, <2>1 DEF ToldToI3, Pending
<1> QED
  BY <1>3, <1>4

\* Every step keeps ToldToI3.
LEMMA ToldStep == TypeOK /\ ToldToI3 /\ [Next]_vars => ToldToI3'
<1> SUFFICES ASSUME TypeOK, ToldToI3, [Next]_vars PROVE ToldToI3'
  OBVIOUS
<1>1. CASE i3ipc_connection_command
  BY <1>1, ToldMessage DEF i3ipc_connection_command
<1>2. ASSUME NEW events \in SUBSET Events, i3ipc_connection_subscribe(events)
      PROVE  ToldToI3'
  BY <1>2, ToldMessage, ToldKnown DEF i3ipc_connection_subscribe, SubscribeNew
<1>3. ASSUME NEW e \in Events, i3ipc_connection_on(e) PROVE ToldToI3'
  BY <1>3, ToldMessage, ToldKnown DEF i3ipc_connection_on, SubscribeNew
<1>4. CASE Receive
  BY <1>4, ToldReceive
<1>5. CASE ipc_on_data
  BY <1>5 DEF ipc_on_data, DispatchMessage, DispatchEof, DispatchError, i3Vars,
              ToldToI3, Pending
<1>6. ASSUME NEW c \in Channel, I3Answer(c) PROVE ToldToI3'
  BY <1>6, ToldAnswer
<1>7. ASSUME NEW e \in Events, I3Publish(e) PROVE ToldToI3'
  BY <1>7 DEF I3Publish, clientVars, ToldToI3, Pending
<1>8. CASE I3Exit
  BY <1>8 DEF I3Exit, clientVars, ToldToI3, Pending
<1>9. CASE Halted \/ UNCHANGED vars
  BY <1>9 DEF Halted, vars, ToldToI3, Pending
<1> QED
  BY <1>1, <1>2, <1>3, <1>4, <1>5, <1>6, <1>7, <1>8, <1>9 DEF Next

\* Whatever is mistaken for a reply, the connection never skips a request for
\* an event, and never leaves a closure waiting for one, that i3 was not asked
\* to send.
THEOREM SubscriptionsToldToI3 == Spec => []ToldToI3
<1>1. Init => ToldToI3
  BY DEF Init, ToldToI3, NoCall
<1> QED
  BY <1>1, ToldStep, TypeCorrect, PTL DEF Spec

-----------------------------------------------------------------------------
(* The end of the stream.                                                  *)

\* ipc_shutdown is emitted once i3 is gone and every message it wrote on
\* sub_channel has been taken, and nothing is written there afterwards.
THEOREM ShutdownAfterDrain == Spec => []DrainedBeforeShutdown
<1>1. Init => DrainedBeforeShutdown
  BY DEF Init, DrainedBeforeShutdown
<1>2. TypeOK /\ DrainedBeforeShutdown /\ [Next]_vars => DrainedBeforeShutdown'
  <2> SUFFICES ASSUME TypeOK, DrainedBeforeShutdown, [Next]_vars
               PROVE  DrainedBeforeShutdown'
    OBVIOUS
  <2>1. ASSUME NEW op, NEW events, i3ipc_connection_message(op, events)
        PROVE  DrainedBeforeShutdown'
    BY <2>1 DEF i3ipc_connection_message, i3Vars, DrainedBeforeShutdown
  <2>2. ASSUME NEW op, NEW events, SubscribeKnown(op, events)
        PROVE  DrainedBeforeShutdown'
    BY <2>2 DEF SubscribeKnown, i3Vars, DrainedBeforeShutdown
  <2>3. CASE ReceiveReply
    <3>1. CASE fromI3["sub"] = <<>>
      <4>1. ChannelOf(call.op) # "sub"
        BY <2>3, <3>1 DEF ReceiveReply, HasMessage
      <4>2. fromI3'["sub"] = fromI3["sub"]
        BY <2>3, <4>1 DEF ReceiveReply, Take, TypeOK, Channel
      <4> QED
        BY <2>3, <4>2 DEF ReceiveReply, i3Vars, DrainedBeforeShutdown
    <3>2. CASE fromI3["sub"] # <<>>
      BY <2>3, <3>2 DEF ReceiveReply, DrainedBeforeShutdown
    <3> QED
      BY <3>1, <3>2
  <2>4. CASE ReceiveEof \/ ReceiveError
    BY <2>4 DEF ReceiveEof, ReceiveError, i3Vars, DrainedBeforeShutdown
  <2>5. CASE DispatchMessage
    BY <2>5 DEF DispatchMessage, InMainLoop, DrainedBeforeShutdown
  <2>6. CASE DispatchEof
    BY <2>6 DEF DispatchEof, AtEof, i3Vars, DrainedBeforeShutdown
  <2>7. CASE DispatchError
    BY <2>7 DEF DispatchError, i3Vars, DrainedBeforeShutdown
  <2>8. ASSUME NEW c \in Channel, I3Answer(c) PROVE DrainedBeforeShutdown'
    BY <2>8 DEF I3Answer, clientVars, DrainedBeforeShutdown
  <2>9. ASSUME NEW e \in Events, I3Publish(e) PROVE DrainedBeforeShutdown'
    BY <2>9 DEF I3Publish, clientVars, DrainedBeforeShutdown
  <2>10. CASE I3Exit
    BY <2>10 DEF I3Exit, clientVars, DrainedBeforeShutdown
  <2>11. CASE Halted \/ UNCHANGED vars
    BY <2>11 DEF Halted, vars, DrainedBeforeShutdown
  <2> QED
    BY <2>1, <2>2, <2>3, <2>4, <2>5, <2>6, <2>7, <2>8, <2>9, <2>10, <2>11
       DEF Next, i3ipc_connection_command, i3ipc_connection_subscribe,
           i3ipc_connection_on, SubscribeNew, Receive, ipc_on_data
<1> QED
  BY <1>1, <1>2, TypeCorrect, PTL DEF Spec

-----------------------------------------------------------------------------
(* Commands.                                                               *)

CommandInv == CommandChannelExclusive /\ CommandReplyIsOwn

\* A command starts on an empty cmd_channel; other requests leave it alone.
LEMMA CommandSends ==
    ASSUME TypeOK, CommandInv, NEW op \in {"command", "subscribe", "on"}, NEW events,
           op = "command" => events = {}, i3ipc_connection_message(op, events)
    PROVE  CommandInv'
<1> DEFINE n == requests[ChannelOf(op)] + 1
           request == [id |-> n, events |-> NewEvents(events)]
<1>0. call.op = "none" /\ fromI3["cmd"] = <<>> /\ (alive => toI3["cmd"] = <<>>)
  BY DEF i3ipc_connection_message, Idle, NoCall, CommandInv, CommandChannelExclusive
<1>1. fromI3' = fromI3 /\ alive' = alive
  BY DEF i3ipc_connection_message, i3Vars
<1>2. CASE alive
  <2>1. /\ toI3' = [toI3 EXCEPT ![ChannelOf(op)] = Append(@, request)]
        /\ call' = [op |-> op, events |-> events, id |-> n]
        /\ result' = result
    BY <1>2 DEF i3ipc_connection_message, Flushed
  <2>2. CASE op = "command"
    <3>1. ChannelOf(op) = "cmd" /\ request = [id |-> n, events |-> {}]
      BY <2>2 DEF ChannelOf, MessageNumber, NewEvents
    <3>2. toI3'["cmd"] = Append(toI3["cmd"], request)
      BY <2>1, <3>1 DEF TypeOK, Channel
    <3>3. toI3["cmd"] = <<>> /\ call'.id = n
      BY <1>0, <1>2, <2>1
    <3>4. toI3'["cmd"] = <<[id |-> call'.id, events |-> {}]>>
      BY <3>1, <3>2, <3>3
    <3> QED
      BY <1>0, <1>1, <2>1, <2>2, <3>4 DEF CommandInv, CommandChannelExclusive, CommandReplyIsOwn
  <2>3. CASE op # "command"
    <3>1. ChannelOf(op) = "sub"
      BY <2>3 DEF ChannelOf, MessageNumber
    <3>2. toI3'["cmd"] = toI3["cmd"]
      BY <2>1, <3>1 DEF TypeOK, Channel
    <3> QED
      BY <1>0, <1>1, <2>1, <2>3, <3>2 DEF CommandInv, CommandChannelExclusive, CommandReplyIsOwn
  <2> QED
    BY <2>2, <2>3
<1>3. CASE ~alive
  <2>1. result'.got = "error" /\ UNCHANGED <<toI3, call>>
    BY <1>3 DEF i3ipc_connection_message, Returned
  <2> QED
    BY <1>0, <1>1, <1>3, <2>1 DEF CommandInv, CommandChannelExclusive, CommandReplyIsOwn
<1> QED
  BY <1>2, <1>3 DEF TypeOK

\* A command takes the only message of cmd_channel, its own answer.
LEMMA CommandReceives ==
    ASSUME TypeOK, CommandInv, ReceiveReply PROVE CommandInv'
<1> DEFINE c == ChannelOf(call.op)
           m == Head(fromI3[c])
<1>1. call'.op = "none" /\ UNCHANGED <<toI3, alive>>
  BY DEF ReceiveReply, NoCall, i3Vars
<1>2. CASE call.op = "command"
  <2>1. c = "cmd"
    BY <1>2 DEF ChannelOf, MessageNumber
  <2>2. toI3["cmd"] = <<>> /\ fromI3["cmd"] = <<ReplyMessage("cmd", call.id)>>
    BY <1>2, <2>1 DEF ReceiveReply, HasMessage, CommandInv, CommandChannelExclusive
  <2>3. m.kind = "reply" /\ m.id = call.id
    BY <2>1, <2>2 DEF ReplyMessage
  <2>4. fromI3'["cmd"] = <<>>
    BY <2>1, <2>2 DEF ReceiveReply, Take, TypeOK, Channel
  <2>5. result'.own = (m.kind = "reply" /\ m.id = call.id)
    BY DEF ReceiveReply, Returned
  <2> QED
    BY <1>1, <2>2, <2>3, <2>4, <2>5
       DEF CommandInv, CommandChannelExclusive, CommandReplyIsOwn
<1>3. CASE call.op # "command"
  <2>2. fromI3["cmd"] = <<>> /\ (alive => toI3["cmd"] = <<>>)
    BY <1>3 DEF CommandInv, CommandChannelExclusive
  <2>3. c # "cmd"
    BY <2>2 DEF ReceiveReply, HasMessage
  <2>4. fromI3'["cmd"] = <<>>
    BY <2>2, <2>3 DEF ReceiveReply, Take, TypeOK, Channel
  <2>5. result'.op = call.op
    BY DEF ReceiveReply, Returned
  <2> QED
    BY <1>1, <1>3, <2>2, <2>4, <2>5
       DEF CommandInv, CommandChannelExclusive, CommandReplyIsOwn
<1> QED
  BY <1>2, <1>3

\* i3 turns the only request of cmd_channel into its answer.
LEMMA CommandAnswered ==
    ASSUME TypeOK, CommandInv, NEW c \in Channel, I3Answer(c) PROVE CommandInv'
<1>1. UNCHANGED <<call, result, alive>>
  BY DEF I3Answer, clientVars
<1>2. CASE c = "cmd"
  <2>1. /\ call.op = "command"
        /\ toI3["cmd"] = <<[id |-> call.id, events |-> {}]>>
        /\ fromI3["cmd"] = <<>>
    BY <1>2 DEF I3Answer, CommandInv, CommandChannelExclusive
  <2>2. Head(toI3["cmd"]).id = call.id
    BY <2>1
  <2>3. toI3'["cmd"] = <<>> /\ fromI3'["cmd"] = <<ReplyMessage("cmd", call.id)>>
    BY <1>2, <2>1, <2>2 DEF I3Answer, TypeOK, Channel
  <2> QED
    BY <1>1, <2>1, <2>3 DEF CommandInv, CommandChannelExclusive, CommandReplyIsOwn
<1>3. CASE c # "cmd"
  <2>1. toI3'["cmd"] = toI3["cmd"] /\ fromI3'["cmd"] = fromI3["cmd"]
    BY <1>3 DEF I3Answer, TypeOK, Channel
  <2> QED
    BY <1>1, <2>1 DEF CommandInv, CommandChannelExclusive, CommandReplyIsOwn
<1> QED
  BY <1>2, <1>3

\* The steps that leave cmd_channel and the command in progress alone.
LEMMA CommandUntouched ==
    ASSUME CommandInv, UNCHANGED <<call, result, alive, toI3>>,
           fromI3'["cmd"] = fromI3["cmd"]
    PROVE  CommandInv'
BY DEF CommandInv, CommandChannelExclusive, CommandReplyIsOwn

\* Every step keeps CommandInv: one step of the proof for each action.
LEMMA CommandStep == TypeOK /\ CommandInv /\ [Next]_vars => CommandInv'
<1> SUFFICES ASSUME TypeOK, CommandInv, [Next]_vars PROVE CommandInv'
  OBVIOUS
<1>1. CASE i3ipc_connection_command
  BY <1>1, CommandSends DEF i3ipc_connection_command
<1>2. ASSUME NEW op \in {"subscribe", "on"}, NEW events,
             i3ipc_connection_message(op, events)
      PROVE  CommandInv'
  BY <1>2, CommandSends
<1>3. ASSUME NEW op \in {"subscribe", "on"}, NEW events, SubscribeKnown(op, events)
      PROVE  CommandInv'
  <2>1. result'.op # "command" /\ UNCHANGED <<call, alive, toI3, fromI3>>
    BY <1>3 DEF SubscribeKnown, Returned, i3Vars
  <2> QED
    BY <2>1 DEF CommandInv, CommandChannelExclusive, CommandReplyIsOwn
<1>4. CASE ReceiveReply
  BY <1>4, CommandReceives
<1>5. CASE ReceiveEof \/ ReceiveError
  <2>1. /\ result'.got \in {"eof", "error"} /\ call'.op = "none" /\ ~alive
        /\ UNCHANGED <<toI3, fromI3, alive>>
    BY <1>5 DEF ReceiveEof, ReceiveError, AtEof, AtReset, Returned, NoCall, i3Vars
  <2>2. fromI3["cmd"] = <<>>
    <3>1. CASE call.op = "command"
      <4>1. ChannelOf(call.op) = "cmd"
        BY <3>1 DEF ChannelOf, MessageNumber
      <4>2. AtEof("cmd") \/ AtReset("cmd")
        BY <1>5, <4>1 DEF ReceiveEof, ReceiveError
      <4> QED
        BY <4>2 DEF AtEof, AtReset
    <3>2. CASE call.op # "command"
      BY <3>2 DEF CommandInv, CommandChannelExclusive
    <3> QED
      BY <3>1, <3>2
  <2> QED
    BY <2>1, <2>2 DEF CommandInv, CommandChannelExclusive, CommandReplyIsOwn
<1>6. CASE DispatchMessage
  <2>1. fromI3'["cmd"] = fromI3["cmd"]
    BY <1>6 DEF DispatchMessage, Take, TypeOK, Channel
  <2> QED
    BY <1>6, <2>1, CommandUntouched DEF DispatchMessage, i3Vars
<1>7. CASE DispatchEof \/ DispatchError
  BY <1>7, CommandUntouched DEF DispatchEof, DispatchError, i3Vars
<1>8. ASSUME NEW c \in Channel, I3Answer(c) PROVE CommandInv'
  BY <1>8, CommandAnswered
<1>9. ASSUME NEW e \in Events, I3Publish(e) PROVE CommandInv'
  <2>1. fromI3'["cmd"] = fromI3["cmd"]
    BY <1>9 DEF I3Publish, TypeOK, Channel
  <2> QED
    BY <1>9, <2>1, CommandUntouched DEF I3Publish, clientVars
<1>10. CASE I3Exit
  BY <1>10 DEF I3Exit, clientVars, CommandInv, CommandChannelExclusive, CommandReplyIsOwn
<1>11. CASE Halted \/ UNCHANGED vars
  BY <1>11, CommandUntouched DEF Halted, vars
<1> QED
  BY <1>1, <1>2, <1>3, <1>4, <1>5, <1>6, <1>7, <1>8, <1>9, <1>10, <1>11
     DEF Next, i3ipc_connection_subscribe, i3ipc_connection_on, SubscribeNew,
         Receive, ipc_on_data

\* A command or query that gets a message gets the answer to its own request,
\* although i3ipc_connection_message never checks: cmd_channel holds nothing
\* else.
THEOREM CommandsGetTheirAnswer == Spec => []CommandReplyIsOwn
<1>1. Init => CommandInv
  BY DEF Init, NoCall, Returned, Channel, CommandInv, CommandChannelExclusive,
         CommandReplyIsOwn
<1>2. CommandInv => CommandReplyIsOwn
  BY DEF CommandInv
<1> QED
  BY <1>1, <1>2, CommandStep, TypeCorrect, PTL DEF Spec

-----------------------------------------------------------------------------
(* The answer to the call in progress.                                     *)

\* A request written is in the queue, and those before it stay.
LEMMA RequestAppended ==
    ASSUME NEW queue \in Seq(Request), NEW r \in Request
    PROVE  /\ RequestIn(Append(queue, r), r.id)
           /\ \A n : RequestIn(queue, n) => RequestIn(Append(queue, r), n)
<1> DEFINE longer == Append(queue, r)
<1>1. /\ Len(longer) = Len(queue) + 1 /\ Len(queue) \in Nat
      /\ longer[Len(longer)] = r
      /\ \A i \in 1..Len(queue) : longer[i] = queue[i]
  OBVIOUS
<1> HIDE DEF longer
<1>2. Len(longer) \in 1..Len(longer) /\ 1..Len(queue) \subseteq 1..Len(longer)
  BY <1>1
<1>3. RequestIn(longer, r.id)
  BY <1>1, <1>2 DEF RequestIn
<1>4. \A n : RequestIn(queue, n) => RequestIn(longer, n)
  BY <1>1, <1>2 DEF RequestIn
<1> QED
  BY <1>3, <1>4 DEF longer

\* A reply written is in the queue, and those before it stay.
LEMMA ReplyAppended ==
    ASSUME NEW queue \in Seq(Message), NEW m \in Message
    PROVE  /\ m.kind = "reply" => ReplyIn(Append(queue, m), m.id)
           /\ \A n : ReplyIn(queue, n) => ReplyIn(Append(queue, m), n)
<1> DEFINE longer == Append(queue, m)
<1>1. /\ Len(longer) = Len(queue) + 1 /\ Len(queue) \in Nat
      /\ longer[Len(longer)] = m
      /\ \A i \in 1..Len(queue) : longer[i] = queue[i]
  OBVIOUS
<1> HIDE DEF longer
<1>2. Len(longer) \in 1..Len(longer) /\ 1..Len(queue) \subseteq 1..Len(longer)
  BY <1>1
<1>3. m.kind = "reply" => ReplyIn(longer, m.id)
  BY <1>1, <1>2 DEF ReplyIn
<1>4. \A n : ReplyIn(queue, n) => ReplyIn(longer, n)
  BY <1>1, <1>2 DEF ReplyIn
<1> QED
  BY <1>3, <1>4 DEF longer

\* A request in the queue is the first or is among the rest.
LEMMA RequestTaken ==
    ASSUME NEW queue \in Seq(Request), NEW n, RequestIn(queue, n), queue # <<>>
    PROVE  Head(queue).id = n \/ RequestIn(Tail(queue), n)
<1>1. PICK i \in 1..Len(queue) : queue[i].id = n
  BY DEF RequestIn
<1>2. CASE i = 1
  BY <1>1, <1>2
<1>3. CASE i # 1
  <2>1. i - 1 \in 1..Len(Tail(queue)) /\ Tail(queue)[i - 1] = queue[i]
    BY <1>3
  <2> QED
    BY <1>1, <2>1 DEF RequestIn
<1> QED
  BY <1>2, <1>3

\* A call that begins to wait has its request in the queue.
LEMMA AwaitedSent ==
    ASSUME TypeOK, AwaitedReplyComing, NEW op, NEW events \in SUBSET Events,
           i3ipc_connection_message(op, events)
    PROVE  AwaitedReplyComing'
<1> DEFINE c == ChannelOf(op)
           n == requests[c] + 1
           request == [id |-> n, events |-> NewEvents(events)]
<1>1. CASE alive
  <2>0. c \in Channel /\ toI3[c] \in Seq(Request) /\ n \in Nat
    BY ChannelOfType DEF TypeOK
  <2>1. request \in Request
    BY <2>0 DEF Request, NewEvents
  <2>2. toI3'[c] = Append(toI3[c], request)
    BY <1>1, <2>0 DEF i3ipc_connection_message, Flushed, TypeOK
  <2>3. call'.op = op /\ call'.id = n
    BY <1>1 DEF i3ipc_connection_message
  <2>4. RequestIn(toI3'[c], n)
    BY <2>0, <2>1, <2>2, RequestAppended
  <2> QED
    BY <2>3, <2>4 DEF AwaitedReplyComing
<1>2. CASE ~alive
  BY <1>2 DEF i3ipc_connection_message, i3Vars, AwaitedReplyComing
<1> QED
  BY <1>1, <1>2

\* The request i3 reads becomes a reply with the same number.
LEMMA AwaitedAnswered ==
    ASSUME TypeOK, AwaitedReplyComing, NEW c \in Channel, I3Answer(c)
    PROVE  AwaitedReplyComing'
<1> DEFINE r == Head(toI3[c])
           reply == ReplyMessage(c, r.id)
           a == ChannelOf(call.op)
<1>1. UNCHANGED <<call, alive>>
  BY DEF I3Answer, clientVars
<1>2. toI3[c] \in Seq(Request) /\ toI3[c] # <<>> /\ fromI3[c] \in Seq(Message)
  BY DEF I3Answer, TypeOK
<1>3. reply \in Message /\ reply.kind = "reply" /\ reply.id = r.id
  <2>1. r \in Request
    BY <1>2
  <2>2. r.id \in Nat
    BY <2>1 DEF Request
  <2>3. reply \in Message
    BY <2>2, MessagesTyped
  <2> QED
    BY <2>3 DEF ReplyMessage
<1>4. toI3'[c] = Tail(toI3[c]) /\ fromI3'[c] = Append(fromI3[c], reply)
  BY DEF I3Answer, TypeOK
<1>5. SUFFICES ASSUME alive, call # NoCall
               PROVE  RequestIn(toI3'[a], call.id) \/ ReplyIn(fromI3'[a], call.id)
  BY <1>1 DEF AwaitedReplyComing
<1>6. RequestIn(toI3[a], call.id) \/ ReplyIn(fromI3[a], call.id)
  BY <1>5 DEF AwaitedReplyComing
<1>7. CASE a = c
  <2>1. CASE RequestIn(toI3[c], call.id)
    <3>1. r.id = call.id \/ RequestIn(toI3'[c], call.id)
      BY <1>2, <1>4, <2>1, RequestTaken
    <3> QED
      BY <1>2, <1>3, <1>4, <1>7, <3>1, ReplyAppended
  <2>2. CASE ReplyIn(fromI3[c], call.id)
    BY <1>2, <1>3, <1>4, <1>7, <2>2, ReplyAppended
  <2> QED
    BY <1>6, <1>7, <2>1, <2>2
<1>8. CASE a # c
  <2>1. a \in Channel
    BY ChannelOfType
  <2>2. toI3'[a] = toI3[a] /\ fromI3'[a] = fromI3[a]
    BY <1>8, <2>1 DEF I3Answer, TypeOK
  <2> QED
    BY <1>6, <2>2
<1> QED
  BY <1>7, <1>8

\* An event written behind the replies displaces none of them.
LEMMA AwaitedPublished ==
    ASSUME TypeOK, AwaitedReplyComing, NEW e \in Events, I3Publish(e)
    PROVE  AwaitedReplyComing'
<1> DEFINE m == EventMessage(e, published')
           a == ChannelOf(call.op)
<1>1. UNCHANGED <<call, alive, toI3>>
  BY DEF I3Publish, clientVars
<1>2. fromI3["sub"] \in Seq(Message) /\ m \in Message
  BY MessagesTyped DEF I3Publish, TypeOK, Channel
<1>3. \A n : ReplyIn(fromI3["sub"], n) => ReplyIn(fromI3'["sub"], n)
  <2>1. fromI3'["sub"] = Append(fromI3["sub"], m)
    BY DEF I3Publish, TypeOK, Channel
  <2> QED
    BY <1>2, <2>1, ReplyAppended
<1>4. fromI3'["cmd"] = fromI3["cmd"]
  BY DEF I3Publish, TypeOK, Channel
<1>5. a = "cmd" \/ a = "sub"
  BY DEF ChannelOf
<1> QED
  BY <1>1, <1>3, <1>4, <1>5 DEF AwaitedReplyComing

\* Every step keeps AwaitedReplyComing.
LEMMA AwaitedStep == TypeOK /\ AwaitedReplyComing /\ [Next]_vars => AwaitedReplyComing'
<1> SUFFICES ASSUME TypeOK, AwaitedReplyComing, [Next]_vars PROVE AwaitedReplyComing'
  OBVIOUS
<1>1. CASE i3ipc_connection_command
  BY <1>1, AwaitedSent DEF i3ipc_connection_command
<1>2. ASSUME NEW op \in {"subscribe", "on"}, NEW events \in SUBSET Events,
             i3ipc_connection_message(op, events)
      PROVE  AwaitedReplyComing'
  BY <1>2, AwaitedSent
<1>3. ASSUME NEW op \in {"subscribe", "on"}, NEW events, SubscribeKnown(op, events)
      PROVE  AwaitedReplyComing'
  BY <1>3 DEF SubscribeKnown, i3Vars, AwaitedReplyComing
<1>4. CASE Receive
  BY <1>4 DEF Receive, ReceiveReply, ReceiveEof, ReceiveError, AwaitedReplyComing
<1>5. CASE DispatchMessage
  BY <1>5 DEF DispatchMessage, InMainLoop, Idle, AwaitedReplyComing
<1>6. CASE DispatchEof \/ DispatchError
  BY <1>6 DEF DispatchEof, DispatchError, i3Vars, AwaitedReplyComing
<1>7. ASSUME NEW c \in Channel, I3Answer(c) PROVE AwaitedReplyComing'
  BY <1>7, AwaitedAnswered
<1>8. ASSUME NEW e \in Events, I3Publish(e) PROVE AwaitedReplyComing'
  BY <1>8, AwaitedPublished
<1>9. CASE I3Exit
  BY <1>9 DEF I3Exit, AwaitedReplyComing
<1>10. CASE Halted \/ UNCHANGED vars
  BY <1>10 DEF Halted, vars, AwaitedReplyComing
<1> QED
  BY <1>1, <1>2, <1>3, <1>4, <1>5, <1>6, <1>7, <1>8, <1>9, <1>10
     DEF Next, i3ipc_connection_subscribe, i3ipc_connection_on, SubscribeNew,
         ipc_on_data

\* The blocking read of i3ipc_connection_message never waits for a message
\* that cannot come: while i3 runs, the answer to the call's own request is in
\* one of the two queues of its channel.
THEOREM CallsHaveAnAnswerComing == Spec => []AwaitedReplyComing
<1>1. Init => AwaitedReplyComing
  BY DEF Init, AwaitedReplyComing
<1> QED
  BY <1>1, AwaitedStep, TypeCorrect, PTL DEF Spec
=============================================================================
