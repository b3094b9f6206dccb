------------------------------ MODULE Lifecycle ------------------------------
(***************************************************************************)
(* The construction, use and destruction of one i3ipcConnection, while i3  *)
(* starts and exits at any moment.                                         *)
(*                                                                         *)
(* GObject runs i3ipc_connected_constructed for every new object, and that *)
(* calls i3ipc_connection_initable_init.  i3ipc_connection_new goes        *)
(* through g_initable_new, which constructs the object and then calls the  *)
(* same function again: there the initialisation runs twice on one object. *)
(* Each run opens its own two sockets and, at its end, attaches its own    *)
(* ipc_on_data source; dispose knows of one pair and of no source.         *)
(***************************************************************************)
EXTENDS Naturals, FiniteSets

CONSTANTS
    Paths,      \* socket paths
    NoPath,     \* the NULL path
    MaxStarts,  \* bound: i3 processes started in a behaviour
    MaxHeld     \* bound: callers that hold an error at the same time

ASSUME PathsAssumption == NoPath \notin Paths
ASSUME BoundsAssumption == MaxStarts \in Nat /\ MaxHeld \in Nat

VARIABLES
    via,         \* how the application makes the object
    ret,         \* what it got: "none" yet, "object" or "null"
    live,        \* the object exists (constructed, not finalized)
    pc,          \* the next step of the initialisation in progress
    run,         \* which initialisation of the object that is
    socket_path, \* priv->socket_path
    connected,   \* priv->connected; kept after the end of the object
    cmd,         \* priv->cmd_channel, by the socket it wraps
    sub,         \* priv->sub_channel, by the socket it wraps
    open,        \* the sockets the process has open
    hungUp,      \* the sockets whose i3 has exited
    resets,      \* of these, the ones whose next read fails with ECONNRESET
    unsent,      \* of these, the ones with a request i3 did not take in the
                 \* write buffer of their channel
    watches,     \* the sockets with an ipc_on_data source
    initError,   \* priv->init_error is not NULL
    errorHeld,   \* callers that hold the same GError as their own
    errorFreed,  \* that GError has been freed
    shutdowns,   \* ipc_shutdown signals emitted
    fault,       \* undefined behaviour, or an endless loop, was reached
    i3Path,      \* the path the running i3 listens on, or NoPath
    rootProperty,\* I3_SOCKET_PATH of the root window, or NoPath
    starts       \* i3 processes started so far

channelVars == <<connected, cmd, sub, open, watches>>
errorVars == <<initError, errorHeld, errorFreed>>
i3Vars == <<hungUp, resets, unsent, i3Path, rootProperty, starts>>
vars == <<via, ret, live, pc, run, socket_path, connected, cmd, sub, open,
          hungUp, resets, unsent, watches, initError, errorHeld, errorFreed,
          shutdowns, fault, i3Path, rootProperty, starts>>

Null == 0
\* The two sockets of each initialisation.
CmdSocket(r) == 2 * r - 1
SubSocket(r) == 2 * r
Socket == 1..4

\* How often initable_init runs on one object.
Inits(v) == IF v = "i3ipc_connection_new" THEN 2 ELSE 1

Init ==
    /\ via \in {"g_object_new", "i3ipc_connection_new"}
    /\ ret = "none" /\ live = FALSE
    /\ pc = "start" /\ run = 0
    /\ socket_path = NoPath
    /\ connected = FALSE
    /\ cmd = Null /\ sub = Null
    /\ open = {} /\ hungUp = {} /\ watches = {}
    /\ resets = {} /\ unsent = {}
    /\ initError = FALSE /\ errorHeld = 0 /\ errorFreed = FALSE
    /\ shutdowns = 0 /\ fault = "none"
    /\ i3Path = NoPath /\ rootProperty = NoPath /\ starts = 0

-----------------------------------------------------------------------------
(* Destruction.                                                            *)

\* Variant: the event channel is left to its source.
DisposeCmdOnly == {cmd}

\* The sockets i3ipc_connection_dispose shuts down.
DisposedSockets == {cmd, sub}

\* i3ipc_connection_dispose and _finalize, at the last unref, with the sockets
\* `opened'.  The sources stay attached.
Destroy(opened) ==
    /\ live' = FALSE
    /\ fault' = IF initError /\ errorFreed THEN "error" ELSE fault
    /\ errorFreed' = (errorFreed \/ initError)
    /\ initError' = FALSE
    /\ open' = IF connected THEN opened \ DisposedSockets ELSE opened
    /\ cmd' = IF connected THEN Null ELSE cmd
    /\ sub' = IF connected THEN Null ELSE sub
    /\ UNCHANGED <<connected, watches, errorHeld, shutdowns>>

-----------------------------------------------------------------------------
(* Construction.  The thread is inside the constructor: only i3 moves      *)
(* between these steps.                                                    *)

Construct(path) ==
    /\ pc = "start"
    /\ pc' = "path" /\ run' = 1 /\ live' = TRUE
    /\ socket_path' = path
    /\ UNCHANGED <<via, ret, channelVars, errorVars, shutdowns, fault, i3Vars>>

\* Variant: one initialisation too many.
OneMore ==
    IF run <= Inits(via)
    THEN pc' = "path" /\ run' = run + 1 /\ UNCHANGED ret
    ELSE pc' = "done" /\ UNCHANGED run /\ ret' = "object"

\* Where the constructor goes when an initialisation is over: g_initable_new
\* runs another one after the one of `constructed', whatever became of that.
NextStep ==
    IF run < Inits(via)
    THEN pc' = "path" /\ run' = run + 1 /\ UNCHANGED ret
    ELSE pc' = "done" /\ UNCHANGED run /\ ret' = "object"

\* Variant: `constructed' ignores the error.
ErrorIgnored == FALSE

ErrorKept == TRUE

\* i3ipc_connected_constructed keeps the error of its initialisation; that of
\* g_initable_new's is returned, and the object released.
InitFails(opened) ==
    IF run = 1
    THEN /\ initError' = ErrorKept
         /\ open' = opened
         /\ NextStep
         /\ UNCHANGED <<live, connected, cmd, sub, watches, errorHeld,
                        errorFreed, shutdowns, fault>>
    ELSE /\ pc' = "done" /\ ret' = "null"
         /\ Destroy(opened)
         /\ UNCHANGED run

\* i3ipc_connection_get_socket_path: the path it has, or the one i3 left on
\* the root window; either may be that of an i3 long gone.
GetSocketPath ==
    LET path == IF socket_path # NoPath THEN socket_path ELSE rootProperty
    IN  /\ pc = "path"
        /\ socket_path' = path
        /\ \/ /\ path # NoPath
              /\ pc' = "cmd"
              /\ UNCHANGED <<ret, live, run, channelVars, errorVars, shutdowns, fault>>
           \/ /\ path = NoPath
              /\ InitFails(open)
        /\ UNCHANGED <<via, i3Vars>>

\* get_file_descriptor without a connection: there was no socket to be had, or
\* there was one and it stays open.
LeftOpen(socket) == {open, open \cup {socket}}

ConnectCmd ==
    LET socket == CmdSocket(run)
    IN  /\ pc = "cmd"
        /\ \/ /\ i3Path = socket_path
              /\ open' = open \cup {socket}
              /\ cmd' = socket
              /\ pc' = "sub"
              /\ UNCHANGED <<ret, live, run, connected, sub, watches, errorVars,
                             shutdowns, fault>>
           \/ \E opened \in LeftOpen(socket) : InitFails(opened)
        /\ UNCHANGED <<via, socket_path, i3Vars>>

ConnectSub ==
    LET socket == SubSocket(run)
    IN  /\ pc = "sub"
        /\ \/ /\ i3Path = socket_path
              /\ open' = open \cup {socket}
              /\ sub' = socket
              /\ pc' = "watch"
              /\ UNCHANGED <<ret, live, run, connected, cmd, watches, errorVars,
                             shutdowns, fault>>
           \/ \E opened \in LeftOpen(socket) : InitFails(opened)
        /\ UNCHANGED <<via, socket_path, i3Vars>>

\* Variant: the source is attached to the channel of the first initialisation.
AttachedFirst == {SubSocket(1)}

\* Variant: no source is attached.
AttachedNone == {}

Attached == {sub}

AddWatch ==
    /\ pc = "watch"
    /\ watches' = watches \cup Attached
    /\ connected' = TRUE
    /\ NextStep
    /\ UNCHANGED <<via, live, socket_path, cmd, sub, open, errorVars, shutdowns,
                   fault, i3Vars>>

-----------------------------------------------------------------------------
(* Use.                                                                    *)

Usable == pc = "done" /\ live /\ fault = "none"

\* i3ipc_connection_message on an object whose first initialisation failed:
\* the error itself, not a copy, goes to the caller, who owns it, or is freed
\* at once for a caller without a GError; and priv->init_error keeps it.
i3ipc_connection_message(err) ==
    /\ Usable
    /\ initError
    /\ errorHeld < MaxHeld
    /\ \/ /\ err = "location"
          /\ errorHeld' = errorHeld + 1
          /\ UNCHANGED <<errorFreed, fault>>
       \/ /\ err = "NULL"
          /\ fault' = IF errorFreed THEN "error" ELSE fault
          /\ errorFreed' = TRUE
          /\ UNCHANGED errorHeld
    /\ UNCHANGED <<via, ret, live, pc, run, socket_path, channelVars, initError,
                   shutdowns, i3Vars>>

\* A caller is done with the error it was given.
FreeError ==
    /\ errorHeld > 0
    /\ fault = "none"
    /\ fault' = IF errorFreed THEN "error" ELSE fault
    /\ errorFreed' = TRUE
    /\ errorHeld' = errorHeld - 1
    /\ UNCHANGED <<via, ret, live, pc, run, socket_path, channelVars, initError,
                   shutdowns, i3Vars>>

\* The application releases its reference, the last one.
Unref ==
    /\ Usable
    /\ Destroy(open)
    /\ UNCHANGED <<via, ret, pc, run, socket_path, i3Vars>>

\* The main loop runs whenever the application is not inside a constructor.
InMainLoop == pc = "done" /\ fault = "none"

\* Variant: the source stays attached after the end of the stream.
KeepWatch(socket) == watches

WatchesAfterEof(socket) == watches \ {socket}

\* A subscription of an object whose i3 has exited: the flush fails, and the
\* request stays in the write buffer.
RefusedSubscription ==
    /\ Usable
    /\ ~initError
    /\ sub \in hungUp
    /\ unsent' = unsent \cup {sub}
    /\ UNCHANGED <<via, ret, live, pc, run, socket_path, channelVars, errorVars,
                   shutdowns, fault, hungUp, resets, i3Path, rootProperty, starts>>

\* ipc_on_data when neither its flush nor its read fails: the end of the
\* stream.  The source has the address of the object, not a reference to it;
\* nor has ipc_on_data, which reads conn->priv->main_loop after a handler of
\* ipc_shutdown may have released it.
OnEof(socket) ==
    /\ socket \notin resets \cup unsent
    /\ watches' = WatchesAfterEof(socket)
    /\ \/ live /\ shutdowns' = shutdowns + 1 /\ UNCHANGED fault
       \/ live /\ shutdowns' = shutdowns + 1 /\ fault' = "released"
       \/ ~live /\ fault' = "self" /\ UNCHANGED shutdowns
    /\ UNCHANGED resets

\* The flush fails, now and every other time, or the read does, once: the
\* source stays and nothing is emitted.  `reply', which has not been set, is
\* freed.
OnError(socket) ==
    /\ socket \in resets \cup unsent
    /\ resets' = IF socket \in unsent THEN resets ELSE resets \ {socket}
    /\ fault' \in {fault, "reply"}
    /\ UNCHANGED <<watches, shutdowns>>

ipc_on_data(socket) ==
    /\ InMainLoop
    /\ socket \in watches \cap open \cap hungUp
    /\ OnEof(socket) \/ OnError(socket)
    /\ UNCHANGED <<via, ret, live, pc, run, socket_path, connected, cmd, sub, open,
                   errorVars, hungUp, unsent, i3Path, rootProperty, starts>>

\* dispose has closed the file descriptor its source still polls.  When the
\* number is given to another file, data there runs ipc_on_data on the channel
\* that was shut down: each read is refused without an error, and the loop of
\* ipc_recv_message never ends.
ReusedDescriptor ==
    /\ InMainLoop
    /\ watches \ open # {}
    /\ fault' = "spin"
    /\ UNCHANGED <<via, ret, live, pc, run, socket_path, channelVars, errorVars,
                   shutdowns, i3Vars>>

-----------------------------------------------------------------------------
(* i3.                                                                     *)

\* i3 listens before it sets the property of the root window.
I3Start(path) ==
    /\ i3Path = NoPath
    /\ starts < MaxStarts
    /\ starts' = starts + 1
    /\ i3Path' = path
    /\ rootProperty' = path
    /\ UNCHANGED <<via, ret, live, pc, run, socket_path, channelVars, errorVars,
                   shutdowns, fault, hungUp, resets, unsent>>

\* A crash leaves the property behind.  i3 may leave a subscription unread.
I3Exit ==
    /\ i3Path # NoPath
    /\ i3Path' = NoPath
    /\ rootProperty' \in {rootProperty, NoPath}
    /\ hungUp' = hungUp \cup open
    /\ \/ UNCHANGED resets
       \/ Usable /\ ~initError /\ resets' = resets \cup ({sub} \ hungUp)
    /\ UNCHANGED <<via, ret, live, pc, run, socket_path, channelVars, errorVars,
                   shutdowns, fault, unsent, starts>>

-----------------------------------------------------------------------------
Initialise == GetSocketPath \/ ConnectCmd \/ ConnectSub \/ AddWatch

Next ==
    \/ \E path \in Paths \cup {NoPath} : Construct(path)
    \/ Initialise
    \/ \E err \in {"location", "NULL"} : i3ipc_connection_message(err)
    \/ FreeError
    \/ Unref
    \/ RefusedSubscription
    \/ \E socket \in Socket : ipc_on_data(socket)
    \/ ReusedDescriptor
    \/ \E path \in Paths : I3Start(path)
    \/ I3Exit

Spec == Init /\ [][Next]_vars

\* A constructor returns, and the application gets back to its main loop.  The
\* free of a reply that was not set need not do any harm.
Fairness ==
    /\ WF_vars(Initialise)
    /\ \A socket \in Socket : WF_vars(ipc_on_data(socket) /\ fault' # "reply")

FairSpec == Spec /\ Fairness

-----------------------------------------------------------------------------
(* Properties.                                                             *)

\* Every variable has the type its declaration promises.
TypeOK ==
    /\ via \in {"g_object_new", "i3ipc_connection_new"}
    /\ ret \in {"none", "object", "null"}
    /\ live \in BOOLEAN /\ connected \in BOOLEAN
    /\ pc \in {"start", "path", "cmd", "sub", "watch", "done"}
    /\ run \in 0..2
    /\ socket_path \in Paths \cup {NoPath}
    /\ cmd \in Socket \cup {Null} /\ sub \in Socket \cup {Null}
    /\ open \subseteq Socket /\ hungUp \subseteq Socket /\ watches \subseteq Socket
    /\ resets \subseteq Socket /\ unsent \subseteq Socket
    /\ initError \in BOOLEAN /\ errorFreed \in BOOLEAN
    /\ errorHeld \in 0..MaxHeld
    /\ shutdowns \in Nat
    /\ fault \in {"none", "error", "reply", "self", "released", "spin"}
    /\ i3Path \in Paths \cup {NoPath} /\ rootProperty \in Paths \cup {NoPath}
    /\ starts \in 0..MaxStarts

\* i3ipc_connection_message tests init_error only: an object without one has
\* two different open sockets, whichever initialisation they come from.
MessageHasChannels ==
    Usable /\ ~initError => cmd # sub /\ {cmd, sub} \subseteq open

\* The events of a usable object are listened for on the very channel it
\* subscribes on, until the end of the stream has been reported there.
EventsAreWatched ==
    Usable /\ connected /\ sub \notin watches => sub \in hungUp /\ shutdowns > 0

\* An object that was initialised once owns every socket it opened, and its end
\* closes them all.
OneInitOwnsItsSockets ==
    via = "g_object_new" /\ connected => open = IF live THEN {cmd, sub} ELSE {}

\* Each initialisation that succeeds announces the end of i3 at most once.
ShutdownOncePerInit == shutdowns + Cardinality(watches) <= Inits(via)

\* When i3 exits, a connected object hears of it, whatever its initialisations
\* did and whether or not a read fails first (unless it is released, the process
\* has reached undefined behaviour, or the object made a subscription that the
\* dead i3 did not take: ipc_on_data then fails before it sees the end).
ShutdownHeard ==
    (Usable /\ connected /\ sub \in hungUp) ~> (shutdowns > 0 \/ ~Usable \/ sub \in unsent)

\* "Sent when the Connection receives notice that the ipc has shut down."
\* There is one shutdown of the ipc to a connection.
ShutdownSignalledOnce == shutdowns <= 1

\* "@err: (allow-none): return location for a GError, or NULL": any number of
\* calls with or without a location are allowed.
ErrorsFreedOnce == fault # "error"

\* "@self: the i3ipcConnection on which the signal was emitted": the main loop
\* never emits on a connection that is gone.
EmittedOnLiveConnection == fault # "self"
=============================================================================
