----------------------------- MODULE IpcSession -----------------------------
(***************************************************************************)
(* One established i3ipcConnection talking to one i3 process.              *)
(*                                                                         *)
(* The connection owns two sockets.  Commands and queries use cmd_channel, *)
(* SUBSCRIBE requests use sub_channel, and i3 also writes its events on    *)
(* sub_channel.  i3ipc_connection_message writes a request and then takes  *)
(* whatever message comes next on the same channel for its reply; when no  *)
(* call is in progress the main loop runs ipc_on_data, which takes         *)
(* whatever message comes next on sub_channel for an event.  Everything    *)
(* this module checks follows from who takes which message.                *)
(*                                                                         *)
(* The client is one thread: a call blocks it, so ipc_on_data never runs   *)
(* during a call.  A signal handler that calls into the library behaves as *)
(* the same call made right after the emission, since ipc_on_data reads no *)
(* connection state after emitting an event signal.                        *)
(***************************************************************************)
EXTENDS Integers, Sequences, FiniteSets

CONSTANTS
    Events,      \* the i3ipcEvent values the application asks for
    MaxEvents,   \* bound: events i3 publishes in a behaviour
    MaxRequests  \* bound: requests the client writes on each channel

VARIABLES
    subscriptions, \* priv->subscriptions
    handlers,      \* events whose closure i3ipc_connection_on has connected
    watch,         \* the ipc_on_data source of sub_channel is attached
    crashed,       \* the process died of undefined behaviour
    call,          \* the blocking call in progress, or NoCall
    result,        \* what the last call returned
    requests,      \* [Channel -> requests written so far]; numbers them
    signals,       \* history: the signals emitted, in order
    swallowed,     \* history: the events that calls took for their replies
    toI3,          \* [Channel -> requests i3 has not read]
    fromI3,        \* [Channel -> messages the client has not read]
    reset,         \* [Channel -> the next read of it fails with ECONNRESET]
    unsent,        \* the channels whose write buffer has a request i3 did not take
    alive,         \* the i3 process is running
    srvSubs,       \* the events i3 sends to sub_channel
    published      \* events i3 has sent so far; numbers them

clientVars == <<subscriptions, handlers, watch, crashed, call, result,
                requests, signals, swallowed, unsent>>
i3Vars == <<alive, srvSubs, published>>
vars == <<subscriptions, handlers, watch, crashed, call, result, requests,
          signals, swallowed, unsent, toI3, fromI3, reset, alive, srvSubs,
          published>>

-----------------------------------------------------------------------------
(* Message and event types.                                                *)

Channel == {"cmd", "sub"}

\* i3ipcEvent, by the position of its bit.
EventNumber == [workspace |-> 0, output |-> 1, mode |-> 2,
                window |-> 3, barconfig_update |-> 4, binding |-> 5]

EventName == DOMAIN EventNumber

ASSUME EventsAssumption == Events \subseteq EventName
ASSUME BoundsAssumption == MaxEvents \in Nat /\ MaxRequests \in Nat

\* i3ipcMessageType of the requests: COMMAND (standing for every query) and
\* SUBSCRIBE.
MessageNumber == [command |-> 0, subscribe |-> 2, on |-> 2]

EventMessage(e, n) == [kind |-> "event", number |-> EventNumber[e], id |-> n]
ReplyMessage(c, n) ==
    [kind |-> "reply", number |-> IF c = "sub" THEN 2 ELSE 0, id |-> n]

Message == [kind : {"event", "reply"}, number : 0..5, id : Nat]
Request == [id : Nat, events : SUBSET Events]

NoCall == [op |-> "none", events |-> {}, id |-> 0]
Call == {NoCall} \cup [op : {"command", "subscribe", "on"},
                       events : SUBSET Events, id : Nat]

\* got: nothing new to ask for, a reply, an event taken for a reply, the end
\* of the stream (NULL without an error), or NULL with the error set.
\* own: the message was the answer to this very request.
Result == [op : {"none", "command", "subscribe", "on"},
           got : {"nothing", "known", "reply", "event", "eof", "error"},
           own : BOOLEAN]

Returned(op, got, own) == [op |-> op, got |-> got, own |-> own]

\* change: the event object's fields come from an event, and are not NULL.
Signal == [signal : EventName \cup {"ipc_shutdown"}, change : BOOLEAN, id : Nat]

-----------------------------------------------------------------------------
Init ==
    /\ subscriptions = {}
    /\ handlers = {}
    /\ watch = TRUE
    /\ crashed = FALSE
    /\ call = NoCall
    /\ result = Returned("none", "nothing", FALSE)
    /\ requests = [c \in Channel |-> 0]
    /\ signals = <<>>
    /\ swallowed = {}
    /\ unsent = {}
    /\ toI3 = [c \in Channel |-> <<>>]
    /\ fromI3 = [c \in Channel |-> <<>>]
    /\ reset = [c \in Channel |-> FALSE]
    /\ alive = TRUE
    /\ srvSubs = {}
    /\ published = 0

Idle == call = NoCall /\ ~crashed

\* Variant: every request goes over the channel that carries the events.
OneChannel(op) == "sub"

ChannelOf(op) == IF MessageNumber[op] = MessageNumber.subscribe THEN "sub" ELSE "cmd"

\* The events of a subscription i3 has not confirmed yet.
NewEvents(events) == events \ subscriptions

\* The closure is connected on every path of i3ipc_connection_on that has no
\* error, whatever the reply said.
Connected(op, events) == IF op = "on" THEN handlers \cup events ELSE handlers

-----------------------------------------------------------------------------
(* Sending.  ipc_send_message fills the channel's write buffer and the     *)
(* flush that opens ipc_recv_message writes it out, so to i3 the two are   *)
(* one step.  On a socket i3 has closed the write fails, and the request   *)
(* stays in the buffer: every later flush of that channel fails too.       *)

\* Variant: the subscription is recorded before the request is written.
EagerSubscriptions(op, events) == subscriptions \cup events

\* What a request that is only just being sent makes of priv->subscriptions.
SubscriptionsOnSend(op, events) == subscriptions

\* Variant: the write buffer is not flushed before the reply is awaited.
Unflushed(c, request) == toI3

\* The request reaches the socket before the reply is awaited.
Flushed(c, request) == [toI3 EXCEPT ![c] = Append(@, request)]

i3ipc_connection_message(op, events) ==
    LET c == ChannelOf(op)
        n == requests[c] + 1
    IN  /\ Idle
        /\ \/ /\ alive
              /\ n <= MaxRequests
              /\ requests' = [requests EXCEPT ![c] = n]
              /\ toI3' = Flushed(c, [id |-> n, events |-> NewEvents(events)])
              /\ call' = [op |-> op, events |-> events, id |-> n]
              /\ UNCHANGED <<result, unsent>>
           \/ /\ ~alive
              /\ unsent' = unsent \cup {c}
              /\ result' = Returned(op, "error", FALSE)
              /\ UNCHANGED <<requests, toI3, call>>
        /\ subscriptions' = SubscriptionsOnSend(op, events)
        /\ UNCHANGED <<handlers, watch, crashed, signals, swallowed, fromI3, reset>>
        /\ UNCHANGED i3Vars

\* i3ipc_connection_command and every query.
i3ipc_connection_command == i3ipc_connection_message("command", {})

\* No new events: success without a word to i3.
SubscribeKnown(op, events) ==
    /\ Idle
    /\ NewEvents(events) = {}
    /\ handlers' = Connected(op, events)
    /\ result' = Returned(op, "known", FALSE)
    /\ UNCHANGED <<subscriptions, watch, crashed, call, requests, signals,
                   swallowed, unsent, toI3, fromI3, reset>>
    /\ UNCHANGED i3Vars

SubscribeNew(op, events) ==
    /\ NewEvents(events) # {}
    /\ i3ipc_connection_message(op, events)

i3ipc_connection_subscribe(events) ==
    SubscribeKnown("subscribe", events) \/ SubscribeNew("subscribe", events)

i3ipc_connection_on(e) == SubscribeKnown("on", {e}) \/ SubscribeNew("on", {e})

-----------------------------------------------------------------------------
(* Receiving.  A read returns the next message if there is one; only then  *)
(* does the death of i3 show, first as ECONNRESET if i3 left requests      *)
(* unread, and as the end of the stream after that.                        *)

HasMessage(c) == fromI3[c] # <<>>
AtReset(c) == ~alive /\ fromI3[c] = <<>> /\ reset[c]

\* Variant: the hang-up is acted on before the data that preceded it.
HungUp(c) == ~alive /\ ~reset[c]

\* Variant: the read loop tests for an error but not for the end of file.
NoEofCheck(c) == FALSE

AtEof(c) == ~alive /\ fromI3[c] = <<>> /\ ~reset[c]

Take(c) == fromI3' = [fromI3 EXCEPT ![c] = Tail(@)]

\* The "success" member that i3ipc_connection_subscribe looks for.  An event
\* has none, which json-glib reads as FALSE.
Success(m) == m.kind = "reply"

\* The blocking read of i3ipc_connection_message, and what the callers do
\* with its outcome.  Nothing compares the message's type or the request.
ReceiveReply ==
    LET c == ChannelOf(call.op)
        m == Head(fromI3[c])
    IN  /\ call # NoCall
        /\ HasMessage(c)
        /\ Take(c)
        /\ subscriptions' = IF Success(m) THEN subscriptions \cup call.events
                                          ELSE subscriptions
        /\ handlers' = Connected(call.op, call.events)
        /\ swallowed' = IF m.kind = "event" THEN swallowed \cup {m} ELSE swallowed
        /\ result' = Returned(call.op, m.kind, m.kind = "reply" /\ m.id = call.id)
        /\ call' = NoCall
        /\ UNCHANGED <<watch, crashed, requests, signals, unsent, toI3, reset>>
        /\ UNCHANGED i3Vars

\* End of the stream: the reply is NULL and no error is set, so the callers
\* go on; i3ipc_connection_subscribe reports success = FALSE and
\* i3ipc_connection_on connects the closure.
ReceiveEof ==
    /\ call # NoCall
    /\ AtEof(ChannelOf(call.op))
    /\ handlers' = Connected(call.op, call.events)
    /\ result' = Returned(call.op, "eof", FALSE)
    /\ call' = NoCall
    /\ UNCHANGED <<subscriptions, watch, crashed, requests, signals, swallowed,
                   unsent, toI3, fromI3, reset>>
    /\ UNCHANGED i3Vars

ReceiveError ==
    LET c == ChannelOf(call.op)
    IN  /\ call # NoCall
        /\ AtReset(c)
        /\ reset' = [reset EXCEPT ![c] = FALSE]
        /\ result' = Returned(call.op, "error", FALSE)
        /\ call' = NoCall
        /\ UNCHANGED <<subscriptions, handlers, watch, crashed, requests,
                       signals, swallowed, unsent, toI3, fromI3>>
        /\ UNCHANGED i3Vars

Receive == ReceiveReply \/ ReceiveEof \/ ReceiveError

-----------------------------------------------------------------------------
(* ipc_on_data, run by the main loop.                                      *)

\* The switch on 1 << (reply_type & 0x7F).  The mask drops bit 31, the only
\* bit that tells an event from a reply.
SignalOf(number) == CHOOSE e \in EventName : EventNumber[e] = number

\* Variant: an event without a closure of i3ipc_connection_on is dropped.
OnlyWithHandler(m) ==
    IF SignalOf(m.number) \in handlers
    THEN <<[signal |-> SignalOf(m.number), change |-> m.kind = "event", id |-> m.id]>>
    ELSE <<>>

\* Variant: the default case falls through to the emission.
EmitUnknown(m) ==
    <<[signal |-> IF m.kind = "event" THEN SignalOf(m.number) ELSE "unknown",
       change |-> m.kind = "event", id |-> m.id]>>

\* The "change" member is missing from a reply, which json-glib reads as NULL.
Emission(m) ==
    <<[signal |-> SignalOf(m.number), change |-> m.kind = "event", id |-> m.id]>>

\* Variant: a call that waits for its reply runs the main loop.
Reentrant == watch /\ ~crashed

\* The main loop polls the source, and no call blocks the thread.
InMainLoop == watch /\ Idle

\* The flush that comes before the read of ipc_on_data: all is well unless a
\* request is left in the write buffer of sub_channel.
Flushable == "sub" \notin unsent

DispatchMessage ==
    /\ InMainLoop
    /\ Flushable
    /\ HasMessage("sub")
    /\ Take("sub")
    /\ signals' = signals \o Emission(Head(fromI3["sub"]))
    /\ UNCHANGED <<subscriptions, handlers, watch, crashed, call, result,
                   requests, swallowed, unsent, toI3, reset>>
    /\ UNCHANGED i3Vars

\* End of the stream: ipc_shutdown, and the source is removed.
DispatchEof ==
    /\ InMainLoop
    /\ Flushable
    /\ AtEof("sub")
    /\ signals' = Append(signals, [signal |-> "ipc_shutdown", change |-> FALSE, id |-> 0])
    /\ watch' = FALSE
    /\ UNCHANGED <<subscriptions, handlers, crashed, call, result, requests,
                   swallowed, unsent, toI3, fromI3, reset>>
    /\ UNCHANGED i3Vars

\* The flush or the read fails: the source stays, and `reply', which
\* ipc_recv_message has not set, is freed.  What that does depends on what the
\* stack held.  A flush that fails reads nothing, and fails again next time.
DispatchError ==
    /\ InMainLoop
    /\ \/ ~Flushable /\ UNCHANGED reset
       \/ Flushable /\ AtReset("sub") /\ reset' = [reset EXCEPT !["sub"] = FALSE]
    /\ crashed' \in BOOLEAN
    /\ UNCHANGED <<subscriptions, handlers, watch, call, result, requests,
                   signals, swallowed, unsent, toI3, fromI3>>
    /\ UNCHANGED i3Vars

ipc_on_data == DispatchMessage \/ DispatchEof \/ DispatchError

-----------------------------------------------------------------------------
(* i3.  It reads requests in order, answers each on the channel it came    *)
(* on, and writes an event to sub_channel whenever a subscribed one        *)
(* happens, which may be between a request and its answer.                 *)

I3Answer(c) ==
    /\ alive
    /\ toI3[c] # <<>>
    /\ toI3' = [toI3 EXCEPT ![c] = Tail(@)]
    /\ srvSubs' = srvSubs \cup Head(toI3[c]).events
    /\ fromI3' = [fromI3 EXCEPT ![c] = Append(@, ReplyMessage(c, Head(toI3[c]).id))]
    /\ UNCHANGED <<reset, alive, published>>
    /\ UNCHANGED clientVars

I3Publish(e) ==
    /\ alive
    /\ e \in srvSubs
    /\ published < MaxEvents
    /\ published' = published + 1
    /\ fromI3' = [fromI3 EXCEPT !["sub"] = Append(@, EventMessage(e, published'))]
    /\ UNCHANGED <<toI3, reset, alive, srvSubs>>
    /\ UNCHANGED clientVars

\* i3 exits or restarts, maybe because of the request it has just read and so
\* never answers.  What it wrote stays readable.
I3Exit ==
    /\ alive
    /\ alive' = FALSE
    /\ reset' \in [Channel -> BOOLEAN]
    /\ \E handled \in {{}} \cup {{c} : c \in Channel} :
          \A c \in Channel : reset'[c] <=> Len(toI3[c]) > Cardinality(handled \cap {c})
    /\ UNCHANGED <<toI3, fromI3, srvSubs, published>>
    /\ UNCHANGED clientVars

\* A process that died of undefined behaviour stays dead.
Halted == crashed /\ UNCHANGED vars

-----------------------------------------------------------------------------
Next ==
    \/ i3ipc_connection_command
    \/ \E events \in SUBSET Events : i3ipc_connection_subscribe(events)
    \/ \E e \in Events : i3ipc_connection_on(e)
    \/ Receive
    \/ ipc_on_data
    \/ \E c \in Channel : I3Answer(c)
    \/ \E e \in Events : I3Publish(e)
    \/ I3Exit
    \/ Halted

Spec == Init /\ [][Next]_vars

\* A blocking read returns once it can, the application gets back to its main
\* loop, and i3 keeps serving requests until it exits.  Undefined behaviour
\* need not ever kill the process.
Fairness ==
    /\ WF_vars(Receive)
    /\ WF_vars(ipc_on_data /\ ~crashed')
    /\ \A c \in Channel : WF_vars(I3Answer(c))

FairSpec == Spec /\ Fairness

-----------------------------------------------------------------------------
(* Properties.                                                             *)

\* Every variable has the type its declaration promises; in particular only
\* the signals of i3ipc_connection_class_init are ever emitted.
TypeOK ==
    /\ subscriptions \in SUBSET Events
    /\ handlers \in SUBSET Events
    /\ watch \in BOOLEAN
    /\ crashed \in BOOLEAN
    /\ call \in Call
    /\ result \in Result
    /\ requests \in [Channel -> Nat]
    /\ signals \in Seq(Signal)
    /\ swallowed \in SUBSET Message
    /\ unsent \in SUBSET Channel
    /\ toI3 \in [Channel -> Seq(Request)]
    /\ fromI3 \in [Channel -> Seq(Message)]
    /\ reset \in [Channel -> BOOLEAN]
    /\ alive \in BOOLEAN
    /\ srvSubs \in SUBSET Events
    /\ published \in Nat

AskedBy(queue) == UNION {queue[i].events : i \in 1..Len(queue)}
Pending == AskedBy(toI3["sub"])

\* Although nothing pairs replies with requests, the connection never believes
\* in a subscription (the guard of i3ipc_connection_subscribe that skips the
\* request), and never leaves a closure connected, for an event i3 was not
\* asked for: each is in force at i3 or in a request on its way there.
ToldToI3 ==
    subscriptions \cup handlers \cup call.events \subseteq srvSubs \cup Pending

RequestIn(queue, n) == \E i \in 1..Len(queue) : queue[i].id = n
ReplyIn(queue, n) == \E i \in 1..Len(queue) : queue[i].kind = "reply" /\ queue[i].id = n

\* A blocked call is never stuck while i3 runs: the answer to its own request
\* is still ahead of it, even when earlier events and answers were mistaken
\* for one another.
AwaitedReplyComing ==
    alive /\ call # NoCall =>
        LET c == ChannelOf(call.op)
        IN  RequestIn(toI3[c], call.id) \/ ReplyIn(fromI3[c], call.id)

\* Commands and queries, which share no channel with the events, always get
\* the answer to their own request, whatever went wrong on sub_channel.
CommandReplyIsOwn ==
    result.op = "command" /\ result.got \in {"reply", "event"} => result.own

\* Why: cmd_channel is empty between commands, and during one it holds either
\* the request or its answer.
CommandChannelExclusive ==
    LET own == [id |-> call.id, events |-> {}]
    IN  \/ /\ call.op # "command"
           /\ fromI3["cmd"] = <<>>
           /\ alive => toI3["cmd"] = <<>>
        \/ /\ call.op = "command"
           /\ \/ toI3["cmd"] = <<own>> /\ fromI3["cmd"] = <<>>
              \/ toI3["cmd"] = <<>> /\ fromI3["cmd"] = <<ReplyMessage("cmd", call.id)>>

StraySignals == {i \in 1..Len(signals) :
                    signals[i].signal # "ipc_shutdown" /\ ~signals[i].change}

\* A program that makes one subscription and no more is safe: no event is
\* lost to a call and no reply is emitted as a signal.
FirstSubscribeIsClean ==
    requests["sub"] <= 1 => swallowed = {} /\ StraySignals = {}

QueuedReplies == {i \in 1..Len(fromI3["sub"]) : fromI3["sub"][i].kind = "reply"}
Waiting == IF call.op \in {"subscribe", "on"} THEN 1 ELSE 0

\* Every event lost to a subscription displaces exactly one reply, which is
\* either still on its way or has been emitted as a signal with a NULL change.
EachLossLeavesOneStray ==
    alive => Cardinality(swallowed) + Waiting
                = Len(toI3["sub"]) + Cardinality(QueuedReplies)
                    + Cardinality(StraySignals)

SignalledEvents == {signals[i].id : i \in {j \in 1..Len(signals) : signals[j].change}}
SwallowedEvents == {m.id : m \in swallowed}
QueuedEvents == {fromI3["sub"][i].id :
                    i \in {j \in 1..Len(fromI3["sub"]) : fromI3["sub"][j].kind = "event"}}

\* Each event i3 sent is emitted once, or was taken by one call, or is still
\* queued; and the signals come in the order i3 sent the events.
EventFate ==
    /\ SignalledEvents \cup SwallowedEvents \cup QueuedEvents = 1..published
    /\ SignalledEvents \cap SwallowedEvents = {}
    /\ (SignalledEvents \cup SwallowedEvents) \cap QueuedEvents = {}
    /\ \A i, j \in 1..Len(signals) :
          i < j /\ signals[i].change /\ signals[j].change => signals[i].id < signals[j].id

\* To the application, the connection is a feed of events (EventFeed): whatever
\* calls it makes in between, sub_channel behaves as a queue whose events are
\* signalled in order or lost, with at most one stray signal for each loss.
Feed == INSTANCE EventFeed WITH
            coming <- QueuedEvents,
            delivered <- SignalledEvents,
            lost <- SwallowedEvents,
            strays <- Cardinality(StraySignals),
            open <- alive,
            ended <- ~watch

ImplementsFeed == Feed!Spec

\* ipc_shutdown comes after every message i3 wrote before it exited.
DrainedBeforeShutdown == ~watch => ~alive /\ fromI3["sub"] = <<>>

\* Every blocking call returns, with or without i3.
CallsReturn == call # NoCall ~> call = NoCall

\* An application in its main loop hears of the end of i3, whatever calls are
\* in progress or made then and whether or not a read error comes first, unless
\* the process died in DispatchError or it made a subscription that the dead i3
\* did not take: the flush of ipc_on_data then fails before the end is read.
ShutdownSignalled == ~alive ~> (~watch \/ crashed \/ "sub" \in unsent)

\* "A i3ipcGenericEvent contains a description of what has changed": the
\* object emitted with a signal was built from an event.
EventDescribesChange == StraySignals = {}
=============================================================================
