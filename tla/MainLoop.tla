------------------------------ MODULE MainLoop ------------------------------
(***************************************************************************)
(* The convenience main loop of an i3ipcConnection: i3ipc_connection_main, *)
(* i3ipc_connection_main_with_context and i3ipc_connection_main_quit, and  *)
(* the end of it in ipc_on_data when i3 exits.                             *)
(*                                                                         *)
(* The connection has one main_loop field; the thread has a stack, on      *)
(* which a loop runs a handler that may start a loop.  A loop polls, and   *)
(* dispatches every source the poll found ready before it looks whether it *)
(* has been told to quit.  A source that is being dispatched is not        *)
(* dispatched again from a loop inside its handler, and the source of the  *)
(* connection belongs to the default context whatever context a loop is    *)
(* given (g_io_add_watch).                                                 *)
(***************************************************************************)
EXTENDS Naturals, Sequences, SequencesExt

CONSTANTS
    Contexts,   \* the contexts the application runs loops on
    Nesters,    \* the handlers from which the application starts loops
    MaxLoops,   \* bound: loops started in a behaviour
    MaxDepth,   \* bound: height of the stack
    MaxEvents,  \* bound: events i3 sends in a behaviour
    MaxReady    \* bound: sources of the application ready in one poll

ASSUME ContextsAssumption == Contexts \subseteq {"default", "custom"}
ASSUME NestersAssumption == Nesters \subseteq {"event", "shutdown", "app"}
ASSUME BoundsAssumption == {MaxLoops, MaxDepth, MaxEvents, MaxReady} \subseteq Nat

VARIABLES
    stack,     \* loops and handlers, the innermost last
    main_loop, \* priv->main_loop, by the number of the loop
    started,   \* loops started so far; numbers them
    watch,     \* the ipc_on_data source is attached
    crashed,   \* the process died of undefined behaviour
    unsent,    \* sub_channel's write buffer has a request i3 did not take
    alive,     \* i3 runs
    reset,     \* the read of sub_channel after the last event fails once
    unread,    \* events on sub_channel the client has not read
    sent       \* events i3 has sent so far

i3Vars == <<alive, unread, sent, reset>>
vars == <<stack, main_loop, started, watch, crashed, unsent, alive, reset,
          unread, sent>>

Null == 0

\* What an iteration has still to dispatch: the source of the connection
\* (polled) and so many of the application's (apps).
Loop(n, context) == [kind |-> "loop", id |-> n, context |-> context, running |-> TRUE,
                     polled |-> FALSE, apps |-> 0]
\* A handler of an event signal, of ipc_shutdown, or of the application's own.
Handler(of) == [kind |-> "handler", of |-> of]

LoopFrame == [kind : {"loop"}, id : 1..MaxLoops, context : Contexts, running : BOOLEAN,
              polled : BOOLEAN, apps : 0..MaxReady]
HandlerFrame == [kind : {"handler"}, of : {"event", "shutdown", "app"}]

Innermost == stack[Len(stack)]
LoopsOnStack == {i \in 1..Len(stack) : stack[i].kind = "loop"}
InMain(n) == \E i \in LoopsOnStack : stack[i].id = n

Init ==
    /\ stack = <<>>
    /\ main_loop = Null
    /\ started = 0
    /\ watch = TRUE
    /\ crashed = FALSE
    /\ unsent = FALSE
    /\ alive = TRUE
    /\ reset = FALSE
    /\ unread = 0
    /\ sent = 0

-----------------------------------------------------------------------------
(* Calls of the application, from its top level or from a handler.         *)

ApplicationRuns == ~crashed /\ (stack # <<>> => Innermost.kind = "handler")

\* A loop that iterates inside another on the same context discards what the
\* iteration of that one has still to dispatch.
Discarded(frames, context) ==
    [i \in 1..Len(frames) |->
        IF frames[i].kind = "loop" /\ frames[i].context = context
        THEN [frames[i] EXCEPT !.polled = FALSE, !.apps = 0]
        ELSE frames[i]]

\* A loop is created, becomes priv->main_loop, whatever that was, and runs.
i3ipc_connection_main_with_context(context) ==
    /\ ApplicationRuns
    /\ stack # <<>> => Innermost.of \in Nesters
    /\ started < MaxLoops
    /\ Len(stack) < MaxDepth
    /\ started' = started + 1
    /\ main_loop' = started'
    /\ stack' = Append(Discarded(stack, context), Loop(started', context))
    /\ UNCHANGED <<watch, crashed, unsent>>
    /\ UNCHANGED i3Vars

i3ipc_connection_main ==
    "default" \in Contexts /\ i3ipc_connection_main_with_context("default")

\* The loop of priv->main_loop, if there is one, is told to quit.
Quit(frames) ==
    [i \in 1..Len(frames) |-> IF frames[i].kind = "loop" /\ frames[i].id = main_loop
                              THEN [frames[i] EXCEPT !.running = FALSE]
                              ELSE frames[i]]

i3ipc_connection_main_quit ==
    /\ ApplicationRuns
    /\ stack' = Quit(stack)
    /\ UNCHANGED <<main_loop, started, watch, crashed, unsent>>
    /\ UNCHANGED i3Vars

\* A subscription that i3 is no longer there to take: the flush fails and the
\* request stays in the write buffer of sub_channel.
RefusedSubscription ==
    /\ ApplicationRuns
    /\ ~alive
    /\ unsent' = TRUE
    /\ UNCHANGED <<stack, main_loop, started, watch, crashed>>
    /\ UNCHANGED i3Vars

\* Variant: the field keeps the loop that has ended.
LeaveMainLoop == main_loop

ForgetMainLoop == Null

LoopRuns == ~crashed /\ stack # <<>> /\ Innermost.kind = "loop"
Dispatched == ~Innermost.polled /\ Innermost.apps = 0

\* The rest of i3ipc_connection_main, once its loop has been told to quit and
\* has finished its iteration.
MainReturns ==
    /\ LoopRuns
    /\ ~Innermost.running
    /\ Dispatched
    /\ stack' = Front(stack)
    /\ main_loop' = ForgetMainLoop
    /\ UNCHANGED <<started, watch, crashed, unsent>>
    /\ UNCHANGED i3Vars

-----------------------------------------------------------------------------
(* Dispatching.                                                            *)

\* Some handler of ipc_on_data's source has not returned.
WatchInUse ==
    \E i \in 1..Len(stack) :
        stack[i].kind = "handler" /\ stack[i].of \in {"event", "shutdown"}

\* Variant: ipc_on_data goes on to read whatever the poll reported.
AlwaysReads == alive

EventToRead == unread > 0

\* The poll finds the connection's source ready: input or a hang-up.
WatchReady == watch /\ ~WatchInUse /\ (EventToRead \/ ~alive)

\* An iteration of the innermost loop begins.
Poll ==
    /\ LoopRuns
    /\ Innermost.running
    /\ Dispatched
    /\ \E apps \in 0..MaxReady :
          LET polled == Innermost.context = "default" /\ WatchReady
          IN  /\ polled \/ apps > 0
              /\ stack' = [stack EXCEPT ![Len(stack)].polled = polled,
                                       ![Len(stack)].apps = apps]
    /\ UNCHANGED <<main_loop, started, watch, crashed, unsent>>
    /\ UNCHANGED i3Vars

\* The stack once a source is no longer to be dispatched.
WatchTaken == [stack EXCEPT ![Len(stack)].polled = FALSE]
AppTaken == [stack EXCEPT ![Len(stack)].apps = @ - 1]

\* ipc_on_data: an event, the end of the stream, or a flush or a read that
\* fails.  The latter leaves the source and emits nothing, and may be the end
\* of the process, because `reply', which has not been set, is freed.
DispatchWatch ==
    /\ LoopRuns
    /\ Innermost.polled
    /\ Len(stack) < MaxDepth
    /\ \/ /\ ~unsent /\ EventToRead
          /\ unread' = unread - 1
          /\ stack' = Append(WatchTaken, Handler("event"))
          /\ UNCHANGED <<reset, crashed>>
       \/ /\ ~unsent /\ unread = 0 /\ ~alive /\ ~reset
          /\ stack' = Append(WatchTaken, Handler("shutdown"))
          /\ UNCHANGED <<unread, reset, crashed>>
       \/ /\ unsent \/ (unread = 0 /\ ~alive /\ reset)
          /\ stack' = WatchTaken
          /\ reset' = (reset /\ unsent)
          /\ crashed' \in BOOLEAN
          /\ UNCHANGED unread
    /\ UNCHANGED <<main_loop, started, watch, unsent, alive, sent>>

\* A timeout, an idle function or another source of the application.
DispatchApplication ==
    /\ LoopRuns
    /\ Innermost.apps > 0
    /\ Len(stack) < MaxDepth
    /\ stack' = Append(AppTaken, Handler("app"))
    /\ UNCHANGED <<main_loop, started, watch, crashed, unsent>>
    /\ UNCHANGED i3Vars

\* Variant: the end of the stream leaves the loop running.
KeepRunning(frames) == frames

\* After ipc_shutdown the loop is told to quit.
QuitAfterShutdown(frames) == Quit(frames)

\* The handlers of a dispatch have returned.
HandlerReturns ==
    /\ ~crashed
    /\ stack # <<>>
    /\ Innermost.kind = "handler"
    /\ \/ /\ Innermost.of = "shutdown"
          /\ stack' = QuitAfterShutdown(Front(stack))
          /\ watch' = FALSE
       \/ /\ Innermost.of # "shutdown"
          /\ stack' = Front(stack)
          /\ UNCHANGED watch
    /\ UNCHANGED <<main_loop, started, crashed, unsent>>
    /\ UNCHANGED i3Vars

-----------------------------------------------------------------------------
I3Event ==
    /\ alive
    /\ sent < MaxEvents
    /\ sent' = sent + 1
    /\ unread' = unread + 1
    /\ UNCHANGED <<stack, main_loop, started, watch, crashed, unsent, alive, reset>>

\* i3 exits, maybe with a subscription it has not read.
I3Exit ==
    /\ alive
    /\ alive' = FALSE
    /\ reset' \in BOOLEAN
    /\ UNCHANGED <<stack, main_loop, started, watch, crashed, unsent, unread, sent>>

\* A process that died of undefined behaviour stays dead.
Halted == crashed /\ UNCHANGED vars

Next ==
    \/ i3ipc_connection_main
    \/ \E context \in Contexts : i3ipc_connection_main_with_context(context)
    \/ i3ipc_connection_main_quit
    \/ RefusedSubscription
    \/ MainReturns
    \/ Poll
    \/ DispatchWatch
    \/ DispatchApplication
    \/ HandlerReturns
    \/ I3Event
    \/ I3Exit
    \/ Halted

Spec == Init /\ [][Next]_vars

\* Handlers return, a loop polls, what a poll found is dispatched, and a loop
\* told to quit ends.  That the source of the connection gets its turn follows,
\* since an iteration dispatches all that was ready.  Undefined behaviour need
\* not ever kill the process.
Fairness ==
    /\ WF_vars(HandlerReturns)
    /\ WF_vars(MainReturns)
    /\ WF_vars(Poll /\ WatchReady)
    /\ WF_vars((DispatchWatch \/ DispatchApplication) /\ ~crashed')

FairSpec == Spec /\ Fairness

-----------------------------------------------------------------------------
(* Properties.                                                             *)

\* Every variable has the type its declaration promises.
TypeOK ==
    /\ stack \in Seq(LoopFrame \cup HandlerFrame)
    /\ main_loop \in 0..MaxLoops
    /\ started \in 0..MaxLoops
    /\ watch \in BOOLEAN /\ crashed \in BOOLEAN /\ unsent \in BOOLEAN
    /\ alive \in BOOLEAN /\ reset \in BOOLEAN
    /\ unread \in 0..MaxEvents /\ sent \in 0..MaxEvents

\* i3ipc_connection_main_quit and the end of the stream never touch a loop that
\* has ended, nor one that is waiting for a loop inside it: the field is NULL
\* or has the innermost loop.
QuitReachesInnermost ==
    main_loop # Null =>
        \E i \in LoopsOnStack :
            stack[i].id = main_loop /\ \A j \in LoopsOnStack : j <= i

InDefaultLoop(n) ==
    \E i \in LoopsOnStack : stack[i].id = n /\ stack[i].context = "default"

\* A loop on the default context that is the current one, and was not started by
\* a handler of the connection's own source, returns when i3 is gone and the end
\* of the stream still to be reported, whatever other sources the application
\* has and whether or not a read fails first, unless the process died in
\* DispatchWatch, the application runs another loop in it (the field then no
\* longer leads to it), or it made a subscription that the dead i3 did not take
\* (ipc_on_data then fails before it sees the end).
LossEndsWaitingMain ==
    \A n \in 1..MaxLoops :
        (InDefaultLoop(n) /\ main_loop = n /\ watch /\ ~WatchInUse /\ ~alive)
            ~> (~InMain(n) \/ main_loop # n \/ unsent \/ crashed)

\* "The main loop will terminate when the connection to the ipc is lost, such
\* as when i3 shuts down or restarts" (i3ipc_connection_main and
\* i3ipc_connection_main_with_context).  Even where the loss is still to be
\* reported and no request was refused.
LossEndsMain ==
    \A n \in 1..MaxLoops : (InMain(n) /\ watch /\ ~unsent /\ ~alive) ~> ~InMain(n)
=============================================================================
