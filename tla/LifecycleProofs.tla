--------------------------- MODULE LifecycleProofs ---------------------------
(***************************************************************************)
(* Theorems about Lifecycle, for every set of paths and every bound.       *)
(***************************************************************************)
EXTENDS Lifecycle, FiniteSetTheorems, TLAPS

Constructing == pc \in {"path", "cmd", "sub", "watch"}

\* The object exists during its initialisations, and the main loop only after.
Progress ==
    /\ pc = "start" => /\ run = 0 /\ ~live /\ ~connected
                       /\ open = {} /\ watches = {} /\ shutdowns = 0
    /\ Constructing => live /\ shutdowns = 0
    /\ pc # "start" => run \in 1..Inits(via)

\* The channels are those of the initialisation in progress, and in the end
\* those of the last one.
Channels ==
    /\ pc = "sub" => cmd = CmdSocket(run) /\ cmd \in open
    /\ pc = "watch" => cmd = CmdSocket(run) /\ sub = SubSocket(run) /\ {cmd, sub} \subseteq open
    /\ pc = "done" /\ live =>
          \/ via = "g_object_new" /\ initError /\ ~connected
          \/ connected /\ cmd = CmdSocket(run) /\ sub = SubSocket(run) /\ {cmd, sub} \subseteq open

\* An object with one initialisation has at most the sockets of that.
OneInit ==
    via = "g_object_new" =>
        /\ connected => pc = "done" /\ open = IF live THEN {cmd, sub} ELSE {}
        /\ pc \in {"path", "cmd"} => open = {}
        /\ pc = "sub" => open = {cmd}
        /\ pc = "watch" => open = {cmd, sub}

\* Each initialisation that has come to its end has added one source.
Sources ==
    /\ watches \subseteq {SubSocket(1), SubSocket(2)}
    /\ Constructing => IF run = 1 THEN watches = {} ELSE watches \subseteq {SubSocket(1)}
    /\ shutdowns + Cardinality(watches) <= run
    /\ pc = "done" /\ live /\ connected /\ sub \notin watches => sub \in hungUp /\ shutdowns > 0

LifeInv == TypeOK /\ Progress /\ Channels /\ OneInit /\ Sources

-----------------------------------------------------------------------------
\* The sockets are four different numbers.
LEMMA Numbers ==
    /\ CmdSocket(1) = 1 /\ SubSocket(1) = 2 /\ CmdSocket(2) = 3 /\ SubSocket(2) = 4
    /\ Socket = {1, 2, 3, 4}
BY DEF CmdSocket, SubSocket, Socket

\* An object is initialised once or twice.
LEMMA OnceOrTwice ==
    /\ via = "g_object_new" => Inits(via) = 1
    /\ Inits(via) \in {1, 2}
BY DEF Inits

\* How many sources there can be.
LEMMA FewSources ==
    /\ Cardinality({}) = 0
    /\ \A S \in SUBSET {2} : IsFiniteSet(S) /\ Cardinality(S) \in 0..1
    /\ \A S \in SUBSET {2, 4} : IsFiniteSet(S) /\ Cardinality(S) \in 0..2
<1>1. IsFiniteSet({2}) /\ Cardinality({2}) = 1
  BY FS_Singleton
<1>2. IsFiniteSet({2, 4}) /\ Cardinality({2, 4}) = 2
  <2>1. {2, 4} = {2} \cup {4} /\ 4 \notin {2}
    OBVIOUS
  <2>2. Cardinality({2} \cup {4}) = Cardinality({2}) + 1 /\ IsFiniteSet({2} \cup {4})
    BY <1>1, <2>1, FS_AddElement
  <2> QED
    BY <1>1, <2>1, <2>2
<1>3. ASSUME NEW T, IsFiniteSet(T), NEW S \in SUBSET T
      PROVE  IsFiniteSet(S) /\ Cardinality(S) \in Nat /\ Cardinality(S) <= Cardinality(T)
  BY <1>3, FS_Subset, FS_CardinalityType
<1>4. ASSUME NEW S \in SUBSET {2} PROVE IsFiniteSet(S) /\ Cardinality(S) \in 0..1
  <2>1. IsFiniteSet(S) /\ Cardinality(S) \in Nat /\ Cardinality(S) <= Cardinality({2})
    BY <1>1, <1>3
  <2> QED
    BY <1>1, <2>1
<1>5. ASSUME NEW S \in SUBSET {2, 4} PROVE IsFiniteSet(S) /\ Cardinality(S) \in 0..2
  <2>1. IsFiniteSet(S) /\ Cardinality(S) \in Nat /\ Cardinality(S) <= Cardinality({2, 4})
    BY <1>2, <1>3
  <2> QED
    BY <1>2, <2>1
<1> QED
  BY <1>4, <1>5, FS_EmptySet

LEMMA LifeInit == Init => LifeInv
<1> SUFFICES ASSUME Init PROVE LifeInv
  OBVIOUS
<1>1. TypeOK
  <2>1. 0 \in 0..MaxHeld /\ 0 \in 0..MaxStarts /\ 0 \in 0..2 /\ 0 \in Nat
    BY BoundsAssumption
  <2> QED
    BY <2>1, Zenon DEF Init, TypeOK, Null
<1>2. Progress /\ Channels /\ OneInit
  BY DEF Init, Progress, Channels, OneInit, Constructing
<1>3. Sources
  BY FewSources DEF Init, Sources, Constructing
<1> QED
  BY <1>1, <1>2, <1>3 DEF LifeInv

-----------------------------------------------------------------------------
(* Steps of an initialisation.                                             *)

\* An initialisation that fails, the first one or the last one.
LEMMA InitFailsStep ==
    ASSUME LifeInv, pc \in {"path", "cmd", "sub"}, NEW opened \in SUBSET Socket,
           InitFails(opened), socket_path' \in Paths \cup {NoPath},
           UNCHANGED <<via, i3Vars>>
    PROVE  LifeInv'
<1> USE DEF LifeInv
<1>0. run \in 1..Inits(via) /\ run \in {1, 2} /\ Constructing /\ live /\ shutdowns = 0
  BY OnceOrTwice DEF Progress, Constructing
<1>1. CASE run = 1
  <2>1. /\ initError' /\ open' = opened
        /\ UNCHANGED <<live, connected, cmd, sub, watches, errorHeld, errorFreed, shutdowns, fault>>
        /\ NextStep
    BY <1>1 DEF InitFails, ErrorKept
  <2>2. \/ run < Inits(via) /\ pc' = "path" /\ run' = 2 /\ ret' = ret
        \/ Inits(via) = 1 /\ pc' = "done" /\ run' = 1 /\ ret' = "object"
    BY <1>1, <2>1, OnceOrTwice DEF NextStep
  <2>3. initError' = TRUE
    BY <1>1 DEF InitFails, ErrorKept
  <2>4. TypeOK'
    BY <2>1, <2>2, <2>3 DEF TypeOK, i3Vars
  <2>5. Progress'
    BY <1>0, <2>1, <2>2, OnceOrTwice DEF Progress, Constructing, Inits
  <2>6. watches = {}
    BY <1>0, <1>1 DEF Sources
  <2>7. Inits(via) = 1 => via = "g_object_new" /\ ~connected
    BY <1>0 DEF OneInit, Inits, TypeOK
  <2>8. Channels'
    BY <2>1, <2>2, <2>7 DEF Channels
  <2>9. OneInit'
    BY <1>0, <2>1, <2>2, <2>7, OnceOrTwice DEF OneInit, Constructing
  <2>10. Sources'
    BY <1>0, <1>1, <2>1, <2>2, <2>6, <2>7, FewSources DEF Sources, Constructing
  <2> QED
    BY <2>4, <2>5, <2>8, <2>9, <2>10
<1>2. CASE run = 2
  <2>1. pc' = "done" /\ ret' = "null" /\ run' = run /\ Destroy(opened)
    BY <1>2 DEF InitFails
  <2>2. /\ live' = FALSE /\ initError' = FALSE
        /\ UNCHANGED <<connected, watches, errorHeld, shutdowns>>
    BY <2>1 DEF Destroy
  <2>3. TypeOK'
    BY <2>1, <2>2 DEF Destroy, DisposedSockets, TypeOK, i3Vars, Null
  <2>4. Progress' /\ Channels'
    BY <1>0, <2>1, <2>2, OnceOrTwice DEF Progress, Channels, Constructing
  <2>5. OneInit'
    BY <1>0, <1>2, OnceOrTwice DEF OneInit
  <2>6. Sources'
    BY <1>0, <1>2, <2>1, <2>2, Numbers DEF Sources, Constructing
  <2> QED
    BY <2>3, <2>4, <2>5, <2>6
<1> QED
  BY <1>0, <1>1, <1>2

LEMMA ConstructStep ==
    ASSUME LifeInv, NEW path \in Paths \cup {NoPath}, Construct(path)
    PROVE  LifeInv'
<1> USE DEF LifeInv, Construct, channelVars, errorVars, i3Vars
<1>1. TypeOK'
  BY DEF TypeOK
<1>2. Progress' /\ Channels'
  BY OnceOrTwice DEF Progress, Channels, Constructing
<1>3. OneInit'
  BY DEF OneInit, Progress
<1>4. Sources'
  BY FewSources DEF Sources, Progress, Constructing
<1> QED
  BY <1>1, <1>2, <1>3, <1>4

LEMMA GetSocketPathStep == ASSUME LifeInv, GetSocketPath PROVE LifeInv'
<1> DEFINE path == IF socket_path # NoPath THEN socket_path ELSE rootProperty
<1>0. path \in Paths \cup {NoPath} /\ socket_path' = path /\ pc = "path"
  BY DEF GetSocketPath, LifeInv, TypeOK
<1>1. CASE pc' = "cmd" /\ UNCHANGED <<ret, live, run, channelVars, errorVars, shutdowns, fault>>
  <2> USE <1>0, <1>1 DEF LifeInv, GetSocketPath, channelVars, errorVars, i3Vars
  <2>1. TypeOK'
    BY DEF TypeOK
  <2>2. Progress' /\ Channels'
    BY DEF Progress, Channels, Constructing
  <2>3. OneInit' /\ Sources'
    BY DEF OneInit, Sources, Constructing
  <2> QED
    BY <2>1, <2>2, <2>3
<1>2. CASE InitFails(open)
  <2>1. open \in SUBSET Socket
    BY DEF LifeInv, TypeOK
  <2> QED
    BY <1>0, <1>2, <2>1, InitFailsStep DEF GetSocketPath
<1> QED
  BY <1>1, <1>2 DEF GetSocketPath

\* The sockets that get_file_descriptor may have left.
LEMMA LeftOpenType ==
    ASSUME LifeInv, NEW socket \in Socket, NEW opened \in LeftOpen(socket)
    PROVE  opened \in SUBSET Socket
BY DEF LeftOpen, LifeInv, TypeOK

LEMMA RunTyped == ASSUME LifeInv, pc # "start" PROVE run \in {1, 2}
BY OnceOrTwice DEF LifeInv, Progress

LEMMA ConnectCmdStep == ASSUME LifeInv, ConnectCmd PROVE LifeInv'
<1>0. pc = "cmd" /\ run \in {1, 2} /\ CmdSocket(run) \in Socket
  BY RunTyped, Numbers DEF ConnectCmd
<1>1. CASE /\ open' = open \cup {CmdSocket(run)} /\ cmd' = CmdSocket(run) /\ pc' = "sub"
           /\ UNCHANGED <<ret, live, run, connected, sub, watches, errorVars, shutdowns, fault>>
  <2> USE <1>0, <1>1 DEF LifeInv, ConnectCmd, errorVars, i3Vars
  <2>1. TypeOK'
    BY DEF TypeOK
  <2>2. Progress' /\ Channels'
    BY DEF Progress, Channels, Constructing
  <2>3. OneInit' /\ Sources'
    BY DEF OneInit, Sources, Constructing
  <2> QED
    BY <2>1, <2>2, <2>3
<1>2. CASE \E opened \in LeftOpen(CmdSocket(run)) : InitFails(opened)
  BY <1>0, <1>2, LeftOpenType, InitFailsStep DEF ConnectCmd, LifeInv, TypeOK
<1> QED
  BY <1>1, <1>2 DEF ConnectCmd

LEMMA ConnectSubStep == ASSUME LifeInv, ConnectSub PROVE LifeInv'
<1>0. pc = "sub" /\ run \in {1, 2} /\ SubSocket(run) \in Socket
  BY RunTyped, Numbers DEF ConnectSub
<1>1. CASE /\ open' = open \cup {SubSocket(run)} /\ sub' = SubSocket(run) /\ pc' = "watch"
           /\ UNCHANGED <<ret, live, run, connected, cmd, watches, errorVars, shutdowns, fault>>
  <2> USE <1>0, <1>1 DEF LifeInv, ConnectSub, errorVars, i3Vars
  <2>1. TypeOK'
    BY DEF TypeOK
  <2>2. Progress' /\ Channels'
    BY DEF Progress, Channels, Constructing
  <2>3. OneInit' /\ Sources'
    BY DEF OneInit, Sources, Constructing
  <2> QED
    BY <2>1, <2>2, <2>3
<1>2. CASE \E opened \in LeftOpen(SubSocket(run)) : InitFails(opened)
  BY <1>0, <1>2, LeftOpenType, InitFailsStep DEF ConnectSub, LifeInv, TypeOK
<1> QED
  BY <1>1, <1>2 DEF ConnectSub

LEMMA AddWatchStep == ASSUME LifeInv, AddWatch PROVE LifeInv'
<1> USE DEF LifeInv
<1>0. /\ pc = "watch" /\ run \in {1, 2} /\ run \in 1..Inits(via) /\ live /\ shutdowns = 0
      /\ cmd = CmdSocket(run) /\ sub = SubSocket(run) /\ {cmd, sub} \subseteq open
  BY RunTyped DEF AddWatch, Progress, Channels, Constructing
<1>1. /\ watches' = watches \cup {sub} /\ connected' = TRUE
      /\ UNCHANGED <<via, live, socket_path, cmd, sub, open, shutdowns, fault, initError,
                     errorHeld, errorFreed, hungUp, resets, unsent, i3Path, rootProperty, starts>>
  BY DEF AddWatch, Attached, errorVars, i3Vars
<1>2. \/ run = 1 /\ Inits(via) = 2 /\ pc' = "path" /\ run' = 2 /\ ret' = ret
      \/ run = Inits(via) /\ pc' = "done" /\ run' = run /\ ret' = "object"
  BY <1>0, OnceOrTwice DEF AddWatch, NextStep
<1>3. TypeOK'
  BY <1>0, <1>1, <1>2 DEF TypeOK
<1>4. Progress' /\ Channels'
  BY <1>0, <1>1, <1>2, OnceOrTwice DEF Progress, Channels, Constructing, Inits
<1>5. OneInit'
  BY <1>0, <1>1, <1>2, OnceOrTwice DEF OneInit
<1>6. CASE run = 1
  <2>1. watches' = {2}
    BY <1>0, <1>1, <1>6, Numbers DEF Sources, Constructing
  <2>2. Cardinality(watches') <= 1
    BY <2>1, FewSources
  <2> QED
    BY <1>0, <1>1, <1>2, <1>3, <1>4, <1>5, <1>6, <2>1, <2>2, FewSources, Numbers
    DEF Sources, Constructing
<1>7. CASE run = 2
  <2>1. watches' \in SUBSET {2, 4} /\ sub' \in watches'
    BY <1>0, <1>1, <1>7, Numbers DEF Sources
  <2>2. Cardinality(watches') <= 2 /\ Cardinality(watches') \in Nat
    BY <2>1, FewSources
  <2>3. pc' = "done" /\ run' = 2 /\ shutdowns' = 0
    BY <1>0, <1>1, <1>2, <1>7, OnceOrTwice
  <2>4. Sources'
    BY <2>1, <2>2, <2>3, Numbers DEF Sources, Constructing
  <2> QED
    BY <1>3, <1>4, <1>5, <2>4
<1> QED
  BY <1>0, <1>6, <1>7

-----------------------------------------------------------------------------
(* Steps of use.                                                           *)

\* The steps that leave sockets, sources and the object alone.
LEMMA ErrorStep ==
    ASSUME LifeInv, TypeOK',
           UNCHANGED <<via, ret, live, pc, run, socket_path, channelVars, initError,
                       shutdowns, hungUp>>
    PROVE  LifeInv'
<1> USE DEF LifeInv, channelVars
<1>1. Progress' /\ Channels'
  BY DEF Progress, Channels, Constructing
<1>2. OneInit' /\ Sources'
  BY DEF OneInit, Sources, Constructing
<1> QED
  BY <1>1, <1>2

LEMMA UnrefStep == ASSUME LifeInv, Unref PROVE LifeInv'
<1> USE DEF LifeInv
<1>1. /\ pc = "done" /\ live' = FALSE /\ initError' = FALSE
      /\ open' = (IF connected THEN open \ {cmd, sub} ELSE open)
      /\ UNCHANGED <<via, ret, pc, run, socket_path, i3Vars, connected, watches, errorHeld, shutdowns>>
  BY DEF Unref, Usable, Destroy, DisposedSockets
<1>2. TypeOK'
  BY <1>1 DEF Unref, Destroy, TypeOK, i3Vars, Null
<1>3. Progress' /\ Channels'
  BY <1>1 DEF Progress, Channels, Constructing
<1>4. OneInit'
  BY <1>1 DEF OneInit, Unref, Usable
<1>5. Sources'
  BY <1>1 DEF Sources, Constructing
<1> QED
  BY <1>2, <1>3, <1>4, <1>5

\* The end of the stream: a source goes, and maybe a signal with it.
LEMMA OnEofStep ==
    ASSUME LifeInv, NEW socket \in Socket, ipc_on_data(socket), OnEof(socket)
    PROVE  LifeInv'
<1> USE DEF LifeInv
<1>1. /\ pc = "done" /\ socket \in watches /\ socket \in hungUp
      /\ watches' = watches \ {socket}
      /\ UNCHANGED <<via, ret, live, pc, run, socket_path, connected, cmd, sub, open, initError,
                     errorHeld, errorFreed, hungUp, resets, unsent, i3Path, rootProperty, starts>>
  BY DEF ipc_on_data, OnEof, InMainLoop, WatchesAfterEof, errorVars
<1>2. \/ live /\ shutdowns' = shutdowns + 1 /\ fault' \in {fault, "released"}
      \/ ~live /\ shutdowns' = shutdowns /\ fault' = "self"
  BY DEF OnEof
<1>3. TypeOK'
  BY <1>1, <1>2 DEF TypeOK
<1>4. Progress' /\ Channels' /\ OneInit'
  BY <1>1 DEF Progress, Channels, OneInit, Constructing
<1>5. /\ IsFiniteSet(watches) /\ Cardinality(watches) \in Nat
      /\ Cardinality(watches') = Cardinality(watches) - 1
  BY <1>1, FewSources, Numbers, FS_RemoveElement DEF Sources
<1>6. shutdowns \in Nat /\ run \in Nat
  BY DEF TypeOK
<1>7. shutdowns' + Cardinality(watches') <= run'
  BY <1>1, <1>2, <1>5, <1>6 DEF Sources
<1>8. Sources'
  BY <1>1, <1>2, <1>6, <1>7 DEF Sources, Constructing
<1> QED
  BY <1>3, <1>4, <1>8

\* A flush or a read that fails leaves the sources.
LEMMA OnErrorStep ==
    ASSUME LifeInv, NEW socket \in Socket, ipc_on_data(socket), OnError(socket)
    PROVE  LifeInv'
<1>1. UNCHANGED <<via, ret, live, pc, run, socket_path, channelVars, errorVars,
                  shutdowns, hungUp, unsent, i3Path, rootProperty, starts>>
  BY DEF ipc_on_data, OnError, channelVars
<1>2. resets' \subseteq resets /\ fault' \in {fault, "reply"}
  BY DEF OnError
<1>3. TypeOK'
  BY <1>1, <1>2 DEF LifeInv, TypeOK, channelVars, errorVars
<1> QED
  BY <1>1, <1>3, ErrorStep DEF errorVars

LEMMA I3Step ==
    ASSUME LifeInv, I3Exit \/ \E path \in Paths : I3Start(path)
    PROVE  LifeInv'
<1> USE DEF LifeInv
<1>1. /\ UNCHANGED <<via, ret, live, pc, run, socket_path, connected, cmd, sub, open, watches,
                     initError, errorHeld, errorFreed, shutdowns, fault>>
      /\ hungUp \subseteq hungUp'
  BY DEF I3Exit, I3Start, channelVars, errorVars
<1>2. /\ hungUp' \subseteq hungUp \cup open
      /\ unsent' = unsent
      /\ resets' \subseteq resets \cup {sub} /\ ((Usable /\ ~initError) \/ resets' = resets)
      /\ i3Path' \in Paths \cup {NoPath} /\ rootProperty' \in Paths \cup {NoPath}
      /\ starts' \in 0..MaxStarts
  BY BoundsAssumption DEF TypeOK, I3Exit, I3Start
<1>a. Usable /\ ~initError => sub \in open
  BY RunTyped DEF Usable, Channels
<1>b. resets' \subseteq Socket
  BY <1>2, <1>a DEF TypeOK
<1>c. TypeOK'
  BY <1>1, <1>2, <1>b DEF TypeOK
<1>3. Progress' /\ Channels'
  BY <1>1 DEF Progress, Channels, Constructing
<1>4. OneInit' /\ Sources'
  BY <1>1 DEF OneInit, Sources, Constructing
<1> QED
  BY <1>c, <1>3, <1>4

\* Every step keeps the invariant.
LEMMA LifeStep == LifeInv /\ [Next]_vars => LifeInv'
<1> SUFFICES ASSUME LifeInv, [Next]_vars PROVE LifeInv'
  OBVIOUS
<1>1. CASE \E path \in Paths \cup {NoPath} : Construct(path)
  BY <1>1, ConstructStep
<1>2. CASE Initialise
  BY <1>2, GetSocketPathStep, ConnectCmdStep, ConnectSubStep, AddWatchStep DEF Initialise
<1>3. CASE \E err \in {"location", "NULL"} : i3ipc_connection_message(err)
  <2> PICK err \in {"location", "NULL"} : i3ipc_connection_message(err)
    BY <1>3
  <2>1. errorHeld' \in 0..MaxHeld /\ errorFreed' \in BOOLEAN
    <3>1. errorHeld \in 0..MaxHeld /\ errorHeld < MaxHeld /\ errorFreed \in BOOLEAN
      BY DEF i3ipc_connection_message, LifeInv, TypeOK
    <3>2. /\ errorHeld' = errorHeld + 1 \/ errorHeld' = errorHeld
          /\ (errorFreed' = errorFreed) \/ (errorFreed' = TRUE)
      BY DEF i3ipc_connection_message
    <3>3. errorHeld' \in 0..MaxHeld
      BY <3>1, <3>2, BoundsAssumption
    <3> QED
      BY <3>1, <3>2, <3>3, Zenon
  <2>2. fault' \in {fault, "error"}
    BY DEF i3ipc_connection_message
  <2>3. TypeOK'
    BY <2>1, <2>2 DEF i3ipc_connection_message, LifeInv, TypeOK, channelVars, i3Vars
  <2> QED
    BY <2>3, ErrorStep DEF i3ipc_connection_message, i3Vars
<1>4. CASE FreeError
  <2>1. TypeOK'
    BY <1>4, BoundsAssumption DEF FreeError, LifeInv, TypeOK, channelVars, i3Vars
  <2> QED
    BY <1>4, <2>1, ErrorStep DEF FreeError, i3Vars
<1>5. CASE Unref
  BY <1>5, UnrefStep
<1>6. CASE \E socket \in Socket : ipc_on_data(socket)
  BY <1>6, OnEofStep, OnErrorStep DEF ipc_on_data
<1>7. CASE ReusedDescriptor
  <2>1. TypeOK'
    BY <1>7 DEF ReusedDescriptor, LifeInv, TypeOK, channelVars, errorVars, i3Vars
  <2> QED
    BY <1>7, <2>1, ErrorStep DEF ReusedDescriptor, errorVars, i3Vars
<1>8. CASE I3Exit \/ \E path \in Paths : I3Start(path)
  BY <1>8, I3Step
<1>9. CASE UNCHANGED vars
  <2>1. TypeOK'
    BY <1>9 DEF vars, LifeInv, TypeOK
  <2> QED
    BY <1>9, <2>1, ErrorStep DEF vars, channelVars
<1>10. CASE RefusedSubscription
  <2>1. sub \in Socket
    BY <1>10 DEF RefusedSubscription, LifeInv, TypeOK
  <2>2. TypeOK'
    BY <1>10, <2>1 DEF RefusedSubscription, LifeInv, TypeOK, channelVars, errorVars
  <2> QED
    BY <1>10, <2>2, ErrorStep DEF RefusedSubscription, errorVars
<1> QED
  BY <1>1, <1>2, <1>3, <1>4, <1>5, <1>6, <1>7, <1>8, <1>9, <1>10 DEF Next

LEMMA LifeInvariant == Spec => []LifeInv
BY LifeInit, LifeStep, PTL DEF Spec

-----------------------------------------------------------------------------
\* The state of a connection has the types it was declared with.
THEOREM TypeCorrect == Spec => []TypeOK
<1>1. LifeInv => TypeOK
  BY DEF LifeInv
<1> QED
  BY <1>1, LifeInvariant, PTL

\* However often and wherever the initialisations fail, an object that does not
\* report an error has the two channels its methods use.
THEOREM ChannelsOpen == Spec => []MessageHasChannels
<1>1. LifeInv => MessageHasChannels
  BY RunTyped, Numbers DEF LifeInv, Channels, MessageHasChannels, Usable
<1> QED
  BY <1>1, LifeInvariant, PTL

\* The source of a connected object is on its own event channel until the end
\* of the stream has been reported there.
THEOREM Watched == Spec => []EventsAreWatched
<1>1. LifeInv => EventsAreWatched
  BY DEF LifeInv, Sources, EventsAreWatched, Usable
<1> QED
  BY <1>1, LifeInvariant, PTL

\* An object with one initialisation leaves no socket behind.
THEOREM OwnSockets == Spec => []OneInitOwnsItsSockets
<1>1. LifeInv => OneInitOwnsItsSockets
  BY DEF LifeInv, OneInit, OneInitOwnsItsSockets
<1> QED
  BY <1>1, LifeInvariant, PTL

\* There are no more shutdown signals than initialisations.
THEOREM ShutdownPerInit == Spec => []ShutdownOncePerInit
<1>1. ASSUME LifeInv PROVE ShutdownOncePerInit
  <2>1. run <= Inits(via) /\ run \in Nat /\ Inits(via) \in Nat
    BY <1>1, OnceOrTwice DEF LifeInv, Progress, TypeOK
  <2>2. watches \in SUBSET {2, 4} /\ Cardinality(watches) \in Nat /\ shutdowns \in Nat
    BY <1>1, FewSources, Numbers DEF LifeInv, Sources, TypeOK
  <2> QED
    BY <1>1, <2>1, <2>2 DEF LifeInv, Sources, ShutdownOncePerInit
<1> QED
  BY <1>1, LifeInvariant, PTL
=============================================================================
