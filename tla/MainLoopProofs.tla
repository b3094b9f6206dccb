--------------------------- MODULE MainLoopProofs ---------------------------
(***************************************************************************)
(* Theorems about MainLoop, for every set of contexts and every bound.     *)
(***************************************************************************)
EXTENDS MainLoop, SequenceTheorems, TLAPS

Frame == LoopFrame \cup HandlerFrame

\* The events still unread are among the ones sent.
LoopInv == TypeOK /\ unread <= sent

-----------------------------------------------------------------------------
(* Frames and stacks.                                                      *)

\* A loop is not a handler.
LEMMA FrameKinds ==
    ASSUME NEW frame \in Frame
    PROVE  /\ frame.kind = "loop" => frame \in LoopFrame
           /\ frame.kind = "handler" => frame \in HandlerFrame
           /\ frame.kind \in {"loop", "handler"}
BY DEF Frame, LoopFrame, HandlerFrame

\* Telling loops to quit changes nothing but running.
LEMMA QuitFrames ==
    ASSUME NEW frames \in Seq(Frame)
    PROVE  /\ Quit(frames) \in Seq(Frame)
           /\ Len(Quit(frames)) = Len(frames)
           /\ \A i \in 1..Len(frames) :
                 /\ Quit(frames)[i].kind = frames[i].kind
                 /\ frames[i].kind = "loop" => Quit(frames)[i].id = frames[i].id
<1>1. ASSUME NEW i \in 1..Len(frames)
      PROVE  /\ Quit(frames)[i] \in Frame
             /\ Quit(frames)[i].kind = frames[i].kind
             /\ frames[i].kind = "loop" => Quit(frames)[i].id = frames[i].id
  <2>1. frames[i] \in Frame
    OBVIOUS
  <2>2. CASE frames[i].kind = "loop" /\ frames[i].id = main_loop
    <3>1. Quit(frames)[i] = [frames[i] EXCEPT !.running = FALSE]
      BY <2>2 DEF Quit
    <3>2. frames[i] \in LoopFrame
      BY <2>1, <2>2, FrameKinds
    <3> QED
      BY <3>1, <3>2 DEF Frame, LoopFrame
  <2>3. CASE ~(frames[i].kind = "loop" /\ frames[i].id = main_loop)
    BY <2>1, <2>3 DEF Quit
  <2> QED
    BY <2>2, <2>3
<1>2. /\ DOMAIN Quit(frames) = 1..Len(frames)
      /\ Quit(frames) = [i \in 1..Len(frames) |-> Quit(frames)[i]]
  BY DEF Quit
<1>3. Quit(frames) \in Seq(Frame) /\ Len(Quit(frames)) = Len(frames)
  BY <1>1, <1>2
<1> QED
  BY <1>1, <1>3

\* Discarding what loops had still to dispatch changes nothing else of them.
LEMMA DiscardedFrames ==
    ASSUME NEW frames \in Seq(Frame), NEW context
    PROVE  /\ Discarded(frames, context) \in Seq(Frame)
           /\ Len(Discarded(frames, context)) = Len(frames)
<1>1. ASSUME NEW i \in 1..Len(frames) PROVE Discarded(frames, context)[i] \in Frame
  <2>1. frames[i] \in Frame /\ 0 \in 0..MaxReady
    BY BoundsAssumption
  <2>2. CASE frames[i].kind = "loop" /\ frames[i].context = context
    <3>1. Discarded(frames, context)[i] = [frames[i] EXCEPT !.polled = FALSE, !.apps = 0]
      BY <2>2 DEF Discarded
    <3>2. frames[i] \in LoopFrame
      BY <2>1, <2>2, FrameKinds
    <3> QED
      BY <2>1, <3>1, <3>2 DEF Frame, LoopFrame
  <2>3. CASE ~(frames[i].kind = "loop" /\ frames[i].context = context)
    BY <2>1, <2>3 DEF Discarded
  <2> QED
    BY <2>2, <2>3
<1>2. /\ DOMAIN Discarded(frames, context) = 1..Len(frames)
      /\ Discarded(frames, context) = [i \in 1..Len(frames) |-> Discarded(frames, context)[i]]
  BY DEF Discarded
<1> QED
  BY <1>1, <1>2

\* The stack without its top.
LEMMA FrontFrames ==
    ASSUME NEW frames \in Seq(Frame), frames # <<>>
    PROVE  /\ Front(frames) \in Seq(Frame)
           /\ Len(Front(frames)) = Len(frames) - 1
           /\ \A i \in 1..(Len(frames) - 1) : Front(frames)[i] = frames[i]
<1>1. Len(frames) \in Nat \ {0}
  BY EmptySeq
<1>2. /\ SubSeq(frames, 1, Len(frames) - 1) \in Seq(Frame)
      /\ Len(SubSeq(frames, 1, Len(frames) - 1)) = Len(frames) - 1
      /\ \A i \in 1..(Len(frames) - 1) : SubSeq(frames, 1, Len(frames) - 1)[i] = frames[i]
  BY <1>1, SubSeqProperties
<1> QED
  BY <1>2 DEF Front

\* The top of a stack that has one.
LEMMA InnermostFrame ==
    ASSUME stack \in Seq(Frame), stack # <<>>
    PROVE  Innermost \in Frame /\ Len(stack) \in 1..Len(stack)
BY EmptySeq DEF Innermost

\* A poll and a dispatch change what the innermost loop has still to dispatch.
LEMMA IterationFrames ==
    ASSUME stack \in Seq(Frame), LoopRuns, NEW loop \in LoopFrame, loop.id = Innermost.id,
           NEW frames, frames = [stack EXCEPT ![Len(stack)] = loop]
    PROVE  /\ frames \in Seq(Frame)
           /\ Len(frames) = Len(stack)
           /\ \A i \in 1..Len(stack) :
                 /\ frames[i].kind = stack[i].kind
                 /\ stack[i].kind = "loop" => frames[i].id = stack[i].id
<1>1. Len(stack) \in 1..Len(stack)
  BY InnermostFrame DEF LoopRuns
<1>2. loop \in Frame /\ loop.kind = "loop"
  BY DEF LoopFrame, Frame
<1>3. /\ frames \in Seq(Frame) /\ Len(frames) = Len(stack)
      /\ \A i \in 1..Len(stack) : frames[i] = IF i = Len(stack) THEN loop ELSE stack[i]
  BY <1>1, <1>2, ExceptSeq
<1>4. Innermost.kind = "loop" /\ Innermost = stack[Len(stack)]
  BY DEF LoopRuns, Innermost
<1> QED
  BY <1>1, <1>2, <1>3, <1>4

\* The innermost loop.
LEMMA InnermostLoop ==
    ASSUME stack \in Seq(Frame), LoopRuns
    PROVE  /\ Innermost \in LoopFrame
           /\ Innermost = stack[Len(stack)]
           /\ Len(stack) \in 1..Len(stack)
BY InnermostFrame, FrameKinds DEF LoopRuns, Innermost

\* A poll.
LEMMA PollFrames ==
    ASSUME stack \in Seq(Frame), Poll
    PROVE  /\ stack' \in Seq(Frame)
           /\ Len(stack') = Len(stack)
           /\ \A i \in 1..Len(stack) :
                 /\ stack'[i].kind = stack[i].kind
                 /\ stack[i].kind = "loop" => stack'[i].id = stack[i].id
<1> DEFINE polled == Innermost.context = "default" /\ WatchReady
<1>1. PICK apps \in 0..MaxReady :
          stack' = [stack EXCEPT ![Len(stack)].polled = polled, ![Len(stack)].apps = apps]
  BY DEF Poll
<1>2. polled \in BOOLEAN
  BY DEF WatchReady
<1>3. LoopRuns
  BY DEF Poll
<1> HIDE DEF polled
<1> DEFINE loop == [Innermost EXCEPT !.polled = polled, !.apps = apps]
<1>4. loop \in LoopFrame /\ loop.id = Innermost.id
  BY <1>2, <1>3, InnermostLoop DEF LoopFrame
<1>5. stack' = [stack EXCEPT ![Len(stack)] = loop]
  BY <1>1, <1>3, InnermostLoop
<1> HIDE DEF loop
<1> QED
  BY <1>3, <1>4, <1>5, IterationFrames

\* What is left to dispatch once the connection's source has been.
LEMMA WatchTakenFrames ==
    ASSUME stack \in Seq(Frame), LoopRuns
    PROVE  /\ WatchTaken \in Seq(Frame)
           /\ Len(WatchTaken) = Len(stack)
           /\ \A i \in 1..Len(stack) :
                 /\ WatchTaken[i].kind = stack[i].kind
                 /\ stack[i].kind = "loop" => WatchTaken[i].id = stack[i].id
<1> DEFINE loop == [Innermost EXCEPT !.polled = FALSE]
<1>1. loop \in LoopFrame /\ loop.id = Innermost.id
  BY InnermostLoop DEF LoopFrame
<1>2. WatchTaken = [stack EXCEPT ![Len(stack)] = loop]
  BY InnermostLoop DEF WatchTaken
<1> HIDE DEF loop
<1> QED
  BY <1>1, <1>2, IterationFrames

\* What is left to dispatch once a source of the application has been.
LEMMA AppTakenFrames ==
    ASSUME stack \in Seq(Frame), LoopRuns, Innermost.apps > 0
    PROVE  /\ AppTaken \in Seq(Frame)
           /\ Len(AppTaken) = Len(stack)
           /\ \A i \in 1..Len(stack) :
                 /\ AppTaken[i].kind = stack[i].kind
                 /\ stack[i].kind = "loop" => AppTaken[i].id = stack[i].id
<1> DEFINE loop == [Innermost EXCEPT !.apps = @ - 1]
<1>1. Innermost.apps - 1 \in 0..MaxReady
  BY InnermostLoop, BoundsAssumption DEF LoopFrame
<1>2. loop \in LoopFrame /\ loop.id = Innermost.id
  BY <1>1, InnermostLoop DEF LoopFrame
<1>3. AppTaken = [stack EXCEPT ![Len(stack)] = loop]
  BY InnermostLoop DEF AppTaken
<1> HIDE DEF loop
<1> QED
  BY <1>2, <1>3, IterationFrames

-----------------------------------------------------------------------------
(* Type correctness.                                                       *)

LEMMA TypeInit == Init => LoopInv
<1> SUFFICES ASSUME Init PROVE LoopInv
  OBVIOUS
<1>1. /\ stack \in Seq(Frame) /\ main_loop \in 0..MaxLoops /\ started \in 0..MaxLoops
      /\ unread \in 0..MaxEvents /\ sent \in 0..MaxEvents /\ unread <= sent
  BY BoundsAssumption DEF Init, Null
<1>2. /\ watch \in BOOLEAN /\ crashed \in BOOLEAN /\ unsent \in BOOLEAN
      /\ alive \in BOOLEAN /\ reset \in BOOLEAN
  BY DEF Init
<1> QED
  BY <1>1, <1>2 DEF LoopInv, TypeOK, Frame

\* A loop that is started.
LEMMA TypeMain ==
    ASSUME LoopInv, NEW context \in Contexts,
           i3ipc_connection_main_with_context(context)
    PROVE  LoopInv'
<1>1. started' \in 1..MaxLoops
  BY BoundsAssumption DEF LoopInv, TypeOK, i3ipc_connection_main_with_context
<1>2. Loop(started', context) \in Frame
  BY <1>1, BoundsAssumption DEF Loop, Frame, LoopFrame
<1>3. Discarded(stack, context) \in Seq(Frame)
  BY DiscardedFrames DEF LoopInv, TypeOK, Frame
<1>4. stack' \in Seq(Frame)
  BY <1>2, <1>3, AppendProperties DEF i3ipc_connection_main_with_context
<1> QED
  BY <1>1, <1>4 DEF LoopInv, TypeOK, Frame, i3Vars, i3ipc_connection_main_with_context

\* Every step keeps the types.
LEMMA TypeStep == LoopInv /\ [Next]_vars => LoopInv'
<1> SUFFICES ASSUME LoopInv, [Next]_vars PROVE LoopInv'
  OBVIOUS
<1>0. stack \in Seq(Frame)
  BY DEF LoopInv, TypeOK, Frame
<1> DEFINE Handlers == {Handler("event"), Handler("shutdown"), Handler("app")}
<1>a. \A frame \in Handlers : frame \in Frame
  BY DEF Handler, Frame, HandlerFrame
<1>1. CASE i3ipc_connection_main
  BY <1>1, TypeMain DEF i3ipc_connection_main
<1>2. CASE \E context \in Contexts : i3ipc_connection_main_with_context(context)
  BY <1>2, TypeMain
<1>3. CASE i3ipc_connection_main_quit
  BY <1>0, <1>3, QuitFrames DEF i3ipc_connection_main_quit, i3Vars, LoopInv, TypeOK, Frame
<1>4. CASE MainReturns
  <2>1. stack # <<>>
    BY <1>4 DEF MainReturns, LoopRuns
  <2>2. stack' \in Seq(Frame)
    BY <1>0, <1>4, <2>1, FrontFrames DEF MainReturns
  <2> QED
    BY <1>4, <2>2, BoundsAssumption DEF MainReturns, ForgetMainLoop, Null, i3Vars, LoopInv, TypeOK, Frame
<1>5. CASE DispatchWatch
  <2>1. stack' \in Seq(Frame)
    <3>1. WatchTaken \in Seq(Frame)
      BY <1>0, <1>5, WatchTakenFrames DEF DispatchWatch
    <3> QED
      BY <1>5, <1>a, <3>1, AppendProperties DEF DispatchWatch
  <2>2. unread' \in 0..MaxEvents /\ unread' <= sent
    <3>1. unread \in 0..MaxEvents /\ unread <= sent /\ sent \in 0..MaxEvents /\ MaxEvents \in Nat
      BY BoundsAssumption DEF LoopInv, TypeOK
    <3>2. (unread > 0 /\ unread' = unread - 1) \/ unread' = unread
      BY <1>5 DEF DispatchWatch, EventToRead
    <3> QED
      BY <3>1, <3>2
  <2>3. crashed' \in BOOLEAN /\ reset' \in BOOLEAN
    BY <1>5 DEF DispatchWatch, LoopInv, TypeOK
  <2> QED
    BY <1>5, <2>1, <2>2, <2>3 DEF DispatchWatch, LoopInv, TypeOK, Frame
<1>6. CASE DispatchApplication
  <2>1. stack' \in Seq(Frame)
    <3>1. AppTaken \in Seq(Frame)
      BY <1>0, <1>6, AppTakenFrames DEF DispatchApplication
    <3> QED
      BY <1>6, <1>a, <3>1, AppendProperties DEF DispatchApplication
  <2> QED
    BY <1>6, <2>1 DEF DispatchApplication, i3Vars, LoopInv, TypeOK, Frame
<1>7. CASE HandlerReturns
  <2>1. Front(stack) \in Seq(Frame)
    BY <1>0, <1>7, FrontFrames DEF HandlerReturns
  <2>2. stack' \in Seq(Frame)
    BY <1>7, <2>1, QuitFrames DEF HandlerReturns, QuitAfterShutdown
  <2> QED
    BY <1>7, <2>2 DEF HandlerReturns, i3Vars, LoopInv, TypeOK, Frame
<1>8. CASE I3Event
  BY <1>8, BoundsAssumption DEF I3Event, LoopInv, TypeOK
<1>9. CASE I3Exit
  BY <1>9 DEF I3Exit, LoopInv, TypeOK
<1>10. CASE UNCHANGED vars
  BY <1>10 DEF vars, LoopInv, TypeOK
<1>11. CASE RefusedSubscription
  BY <1>11 DEF RefusedSubscription, i3Vars, LoopInv, TypeOK
<1>12. CASE Poll
  <2>1. stack' \in Seq(Frame)
    BY <1>0, <1>12, PollFrames
  <2> QED
    BY <1>12, <2>1 DEF Poll, i3Vars, LoopInv, TypeOK, Frame
<1> QED
  BY <1>1, <1>2, <1>3, <1>4, <1>5, <1>6, <1>7, <1>8, <1>9, <1>10, <1>11, <1>12
     DEF Next, Halted

LEMMA LoopInvariant == Spec => []LoopInv
BY TypeInit, TypeStep, PTL DEF Spec

\* The variables of the main loop have the types they were declared with, for
\* any contexts and any nesting.
THEOREM TypeCorrect == Spec => []TypeOK
<1>1. LoopInv => TypeOK
  BY DEF LoopInv
<1> QED
  BY <1>1, LoopInvariant, PTL

-----------------------------------------------------------------------------
(* The field and the stack.                                                *)

\* What the invariant needs of a step that neither ends nor starts a loop.
LEMMA SameLoops ==
    ASSUME stack \in Seq(Frame), stack' \in Seq(Frame),
           QuitReachesInnermost, main_loop' = main_loop,
           \A i \in LoopsOnStack : i \in LoopsOnStack' /\ stack'[i].id = stack[i].id,
           \A i \in LoopsOnStack' : i \in LoopsOnStack
    PROVE  QuitReachesInnermost'
BY DEF QuitReachesInnermost

\* A started loop is the innermost.
LEMMA MainReached ==
    ASSUME LoopInv, NEW context \in Contexts,
           i3ipc_connection_main_with_context(context)
    PROVE  QuitReachesInnermost'
<1>1. stack \in Seq(Frame) /\ started' \in 1..MaxLoops
  BY BoundsAssumption DEF LoopInv, TypeOK, Frame, i3ipc_connection_main_with_context
<1>2. Loop(started', context) \in Frame
  BY <1>1, BoundsAssumption DEF Loop, Frame, LoopFrame
<1>3. /\ Len(stack') = Len(stack) + 1
      /\ stack'[Len(stack) + 1] = Loop(started', context)
  BY <1>1, <1>2, AppendProperties, DiscardedFrames DEF i3ipc_connection_main_with_context
<1>4. /\ Len(stack) + 1 \in LoopsOnStack'
      /\ \A j \in LoopsOnStack' : j <= Len(stack) + 1
  BY <1>1, <1>3 DEF LoopsOnStack, Loop
<1>5. stack'[Len(stack) + 1].id = main_loop'
  BY <1>3 DEF Loop, i3ipc_connection_main_with_context
<1> QED
  BY <1>4, <1>5 DEF QuitReachesInnermost

\* A stack that has the same loops at the same places.
LEMMA SameFrames ==
    ASSUME stack \in Seq(Frame), stack' \in Seq(Frame), Len(stack') = Len(stack),
           \A i \in 1..Len(stack) :
              /\ stack'[i].kind = stack[i].kind
              /\ stack[i].kind = "loop" => stack'[i].id = stack[i].id,
           main_loop' = main_loop, QuitReachesInnermost
    PROVE  QuitReachesInnermost'
<1>1. \A i \in LoopsOnStack : i \in LoopsOnStack' /\ stack'[i].id = stack[i].id
  BY DEF LoopsOnStack
<1>2. \A i \in LoopsOnStack' : i \in LoopsOnStack
  BY DEF LoopsOnStack
<1> QED
  BY <1>1, <1>2, SameLoops

\* A handler on top of the stack is no loop.
LEMMA HandlerPushed ==
    ASSUME stack \in Seq(Frame), NEW of \in {"event", "shutdown", "app"},
           NEW frames \in Seq(Frame), Len(frames) = Len(stack),
           \A i \in 1..Len(stack) :
              /\ frames[i].kind = stack[i].kind
              /\ stack[i].kind = "loop" => frames[i].id = stack[i].id,
           stack' = Append(frames, Handler(of)), main_loop' = main_loop,
           QuitReachesInnermost
    PROVE  QuitReachesInnermost'
<1>1. Handler(of) \in Frame /\ Handler(of).kind # "loop"
  BY DEF Handler, Frame, HandlerFrame
<1>2. /\ stack' \in Seq(Frame)
      /\ Len(stack') = Len(stack) + 1
      /\ \A i \in 1..Len(stack) : stack'[i] = frames[i]
      /\ stack'[Len(stack) + 1] = Handler(of)
  BY <1>1, AppendProperties
<1>3. \A i \in LoopsOnStack : i \in LoopsOnStack' /\ stack'[i].id = stack[i].id
  BY <1>2 DEF LoopsOnStack
<1>4. \A i \in LoopsOnStack' : i \in LoopsOnStack
  BY <1>1, <1>2 DEF LoopsOnStack
<1> QED
  BY <1>2, <1>3, <1>4, SameLoops

LEMMA HandlerPopped ==
    ASSUME LoopInv, QuitReachesInnermost, HandlerReturns
    PROVE  QuitReachesInnermost'
<1>1. stack \in Seq(Frame) /\ stack # <<>> /\ stack[Len(stack)].kind = "handler"
  BY DEF LoopInv, TypeOK, Frame, HandlerReturns, Innermost
<1>2. /\ Front(stack) \in Seq(Frame)
      /\ Len(Front(stack)) = Len(stack) - 1
      /\ \A i \in 1..(Len(stack) - 1) : Front(stack)[i] = stack[i]
  BY <1>1, FrontFrames
<1>3. stack' = Front(stack) \/ stack' = Quit(Front(stack))
  BY DEF HandlerReturns, QuitAfterShutdown
<1>4. /\ stack' \in Seq(Frame)
      /\ Len(stack') = Len(stack) - 1
      /\ \A i \in 1..(Len(stack) - 1) :
            /\ stack'[i].kind = stack[i].kind
            /\ stack[i].kind = "loop" => stack'[i].id = stack[i].id
  BY <1>2, <1>3, QuitFrames
<1>5. \A i \in LoopsOnStack : i \in 1..(Len(stack) - 1)
  BY <1>1 DEF LoopsOnStack
<1>6. \A i \in LoopsOnStack : i \in LoopsOnStack' /\ stack'[i].id = stack[i].id
  BY <1>4, <1>5 DEF LoopsOnStack
<1>7. \A i \in LoopsOnStack' : i \in LoopsOnStack
  BY <1>1, <1>4 DEF LoopsOnStack
<1> QED
  BY <1>1, <1>4, <1>6, <1>7, SameLoops DEF HandlerReturns

LEMMA ReachStep == LoopInv /\ QuitReachesInnermost /\ [Next]_vars => QuitReachesInnermost'
<1> SUFFICES ASSUME LoopInv, QuitReachesInnermost, [Next]_vars
             PROVE  QuitReachesInnermost'
  OBVIOUS
<1>0. stack \in Seq(Frame)
  BY DEF LoopInv, TypeOK, Frame
<1>1. CASE i3ipc_connection_main
  BY <1>1, MainReached DEF i3ipc_connection_main
<1>2. CASE \E context \in Contexts : i3ipc_connection_main_with_context(context)
  BY <1>2, MainReached
<1>3. CASE i3ipc_connection_main_quit
  <2>1. /\ stack' \in Seq(Frame) /\ Len(stack') = Len(stack)
        /\ \A i \in 1..Len(stack) :
              /\ stack'[i].kind = stack[i].kind
              /\ stack[i].kind = "loop" => stack'[i].id = stack[i].id
    BY <1>0, <1>3, QuitFrames DEF i3ipc_connection_main_quit
  <2> QED
    BY <1>0, <1>3, <2>1, SameFrames DEF i3ipc_connection_main_quit
<1>4. CASE MainReturns
  BY <1>4 DEF MainReturns, ForgetMainLoop, QuitReachesInnermost
<1>5. CASE DispatchWatch
  <2>1. /\ WatchTaken \in Seq(Frame) /\ Len(WatchTaken) = Len(stack)
        /\ \A i \in 1..Len(stack) :
              /\ WatchTaken[i].kind = stack[i].kind
              /\ stack[i].kind = "loop" => WatchTaken[i].id = stack[i].id
    BY <1>0, <1>5, WatchTakenFrames DEF DispatchWatch
  <2>2. main_loop' = main_loop
    BY <1>5 DEF DispatchWatch
  <2>3. CASE stack' = WatchTaken
    BY <1>0, <2>1, <2>2, <2>3, SameFrames
  <2>4. CASE \E of \in {"event", "shutdown"} : stack' = Append(WatchTaken, Handler(of))
    BY <1>0, <2>1, <2>2, <2>4, HandlerPushed
  <2> QED
    BY <1>5, <2>3, <2>4 DEF DispatchWatch
<1>6. CASE DispatchApplication
  <2>1. /\ AppTaken \in Seq(Frame) /\ Len(AppTaken) = Len(stack)
        /\ \A i \in 1..Len(stack) :
              /\ AppTaken[i].kind = stack[i].kind
              /\ stack[i].kind = "loop" => AppTaken[i].id = stack[i].id
    BY <1>0, <1>6, AppTakenFrames DEF DispatchApplication
  <2>2. stack' = Append(AppTaken, Handler("app")) /\ main_loop' = main_loop
    BY <1>6 DEF DispatchApplication
  <2> QED
    BY <1>0, <2>1, <2>2, HandlerPushed
<1>7. CASE HandlerReturns
  BY <1>7, HandlerPopped
<1>8. CASE I3Event \/ I3Exit \/ RefusedSubscription \/ UNCHANGED vars
  <2>1. stack' = stack /\ main_loop' = main_loop
    BY <1>8 DEF I3Event, I3Exit, RefusedSubscription, vars
  <2> QED
    BY <2>1 DEF QuitReachesInnermost, LoopsOnStack
<1>9. CASE Poll
  BY <1>0, <1>9, PollFrames, SameFrames DEF Poll
<1> QED
  BY <1>1, <1>2, <1>3, <1>4, <1>5, <1>6, <1>7, <1>8, <1>9 DEF Next, Halted

\* The field has the innermost loop or nothing, however loops are nested, told
\* to quit and ended by the end of the stream, on any contexts.
THEOREM QuitsInnermost == Spec => []QuitReachesInnermost
<1>1. Init => QuitReachesInnermost
  BY DEF Init, QuitReachesInnermost
<1> QED
  BY <1>1, ReachStep, LoopInvariant, PTL DEF Spec
=============================================================================
