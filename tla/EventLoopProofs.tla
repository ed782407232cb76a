--------------------------- MODULE EventLoopProofs ---------------------------
(***************************************************************************)
(* Safety of EventLoop for every set of callers, every bound and whatever  *)
(* user code throws.                                                       *)
(***************************************************************************)
EXTENDS EventLoop, TLAPS

USE ThreadsAssumption, ThrowsAssumption, BoundsAssumption

\* Types, to begin with.
LEMMA InitTypeOK == Init => TypeOK
<1> SUFFICES ASSUME Init PROVE TypeOK
  OBVIOUS
<1>1. /\ funcs_ \in Seq(FuncIds) /\ linking \in SUBSET FuncIds
      /\ funcsOnQuit_ \in Seq(FuncIds) /\ linkingOnQuit \in SUBSET FuncIds
  BY DEF Init, Funcs!Init, OnQuit!Init
<1>2. made \in [Threads -> 0 .. MaxFuncs] /\ loops \in 0 .. MaxLoops
  BY DEF Init
<1>3. cpc \in [Callers -> {"idle", "link", "testThread", "testLooping", "wake",
                           "testQuit", "linkOnQuit", "inline"}]
  BY DEF Init
<1> QED
  BY <1>1, <1>2, <1>3, Zenon DEF Init, TypeOK, Iterating

\* A function handed over by t has a name of its own.
LEMMA HandTyped ==
  ASSUME TypeOK, NEW t \in Threads, Hand(t)
  PROVE  NextFunc(t) \in FuncIds /\ made' \in [Threads -> 0 .. MaxFuncs]
BY DEF TypeOK, Hand, NextFunc, FuncIds

\* Types, step by step.
LEMMA StepTypeOK == TypeOK /\ [Next]_vars => TypeOK'
<1> SUFFICES ASSUME TypeOK, [Next]_vars PROVE TypeOK'
  OBVIOUS
<1> USE DEF handed, flags, loopVars, Iterating
<1>1. ASSUME NEW c \in Callers, Call(c) PROVE TypeOK'
  <2> c \in Threads
    BY DEF Threads
  <2> USE DEF Calls, CallerMoves
  <2>1. CASE CallQueue(c)
    BY <2>1, HandTyped DEF CallQueue, Funcs!Reserve, TypeOK
  <2>2. CASE CallQuit(c)
    BY <2>2 DEF CallQuit, TypeOK
  <2>3. CASE CallRunOnQuit(c)
    BY <2>3, HandTyped DEF CallRunOnQuit, OnQuit!Reserve, TypeOK
  <2>4. CASE CallRunInline(c)
    BY <2>4 DEF CallRunInline, TypeOK
  <2> QED
    BY <1>1, <2>1, <2>2, <2>3, <2>4 DEF Call
<1>2. ASSUME NEW c \in Callers, CallerStep(c) PROVE TypeOK'
  <2> USE DEF CallerMoves
  <2>1. CASE QueueLink(c)
    BY <2>1 DEF QueueLink, Funcs!Publish, TypeOK
  <2>2. CASE QueueTestThread(c)
    BY <2>2 DEF QueueTestThread, TypeOK
  <2>3. CASE QueueTestLooping(c)
    BY <2>3 DEF QueueTestLooping, TypeOK
  <2>4. CASE Wakeup(c)
    BY <2>4 DEF Wakeup, TypeOK
  <2>5. CASE QuitTest(c)
    BY <2>5 DEF QuitTest, TypeOK
  <2>6. CASE RunOnQuitLink(c)
    BY <2>6 DEF RunOnQuitLink, OnQuit!Publish, TypeOK
  <2>7. CASE InlineReturn(c)
    BY <2>7 DEF InlineReturn, TypeOK
  <2> QED
    BY <1>2, <2>1, <2>2, <2>3, <2>4, <2>5, <2>6, <2>7 DEF CallerStep
<1>3. CASE UserCode
  <2> LoopThread \in Threads
    BY DEF Threads
  <2>1. CASE LoopThreadQueue
    BY <2>1, HandTyped DEF LoopThreadQueue, Funcs!Enqueue, TypeOK
  <2>2. CASE LoopThreadRunOnQuit
    BY <2>2, HandTyped DEF LoopThreadRunOnQuit, OnQuit!Enqueue, TypeOK
  <2>3. CASE LoopThreadQuit
    BY <2>3 DEF LoopThreadQuit, TypeOK
  <2>4. CASE MoveToCurrentThread
    BY <2>4 DEF MoveToCurrentThread, TypeOK
  <2>5. ASSUME NEW kind \in Throws, Throw(kind) PROVE TypeOK'
    BY <2>5 DEF Throw, TypeOK
  <2>6. CASE ThrowOnQuit
    BY <2>6 DEF ThrowOnQuit, TypeOK
  <2> QED
    BY <1>3, <2>1, <2>2, <2>3, <2>4, <2>5, <2>6 DEF UserCode
<1>4. CASE LoopEnter
  BY <1>4 DEF LoopEnter, LoopMoves, queues, polled, TypeOK
<1>5. CASE LoopStep
  <2> USE DEF LoopMoves, queues, polled
  <2>1. CASE LoopClearQuit
    BY <2>1 DEF LoopClearQuit, TypeOK
  <2>2. CASE LoopCheck
    BY <2>2 DEF LoopCheck, TypeOK
  <2>3. CASE PollWakeup
    BY <2>3 DEF PollWakeup, PollReturns, TypeOK
  <2>4. CASE HandleWakeup \/ HandleDone
    BY <2>4 DEF HandleWakeup, HandleDone, TypeOK
  <2>5. CASE DrainTake
    BY <2>5 DEF DrainTake, Funcs!Take, Funcs!Visible, TypeOK
  <2>6. CASE FuncReturn \/ DrainDone
    BY <2>6 DEF FuncReturn, DrainDone, TypeOK
  <2>7. CASE OnQuitTake
    BY <2>7 DEF OnQuitTake, OnQuit!Take, OnQuit!Visible, TypeOK
  <2>8. CASE QuitFuncReturn \/ LoopReturn
    BY <2>8 DEF QuitFuncReturn, LoopReturn, TypeOK
  <2> QED
    BY <1>5, <2>1, <2>2, <2>3, <2>4, <2>5, <2>6, <2>7, <2>8 DEF LoopStep
<1>6. CASE PollEvents \/ PollTimeout
  BY <1>6 DEF PollEvents, PollTimeout, PollReturns, LoopMoves, queues, TypeOK
<1>7. CASE DestroyBegin \/ DestroyEnd
  <2>1. CASE DestroyBegin
    BY <2>1 DEF DestroyBegin, TypeOK
  <2>2. CASE DestroyEnd
    BY <2>2 DEF DestroyEnd, TypeOK
  <2> QED
    BY <1>7, <2>1, <2>2
<1>8. CASE UNCHANGED vars
  BY <1>8 DEF vars, TypeOK
<1> QED
  BY <1>1, <1>2, <1>3, <1>4, <1>5, <1>6, <1>7, <1>8 DEF Next

\* Every variable of the loop keeps its type.
THEOREM TypeCorrect == Spec => []TypeOK
BY InitTypeOK, StepTypeOK, PTL DEF Spec

------------------------------------------------------------------------------
(* The flag looping_ tells where the loop thread is.                       *)

\* looping_ is set exactly while the loop thread is between the store that
\* sets it and the scope exit that clears it, the process never ends on the
\* loop's own thread, and a destroyed loop is not looping.
FlagInv ==
  /\ lpc \in Iterating \cup {"entered"} <=> looping_
  /\ LoopCanRestart
  /\ dtor = "done" => ~looping_

\* A loop that is not run.
LEMMA InitFlagInv == Init => FlagInv
BY DEF Init, FlagInv, LoopCanRestart, Iterating

\* looping_ follows the place of the loop thread.
LEMMA StepFlagInv == TypeOK /\ FlagInv /\ [Next]_vars => FlagInv'
<1> SUFFICES ASSUME TypeOK, FlagInv, [Next]_vars PROVE FlagInv'
  OBVIOUS
<1> USE DEF handed, flags, loopVars, Iterating, FlagInv, LoopCanRestart, TypeOK
<1>1. ASSUME NEW c \in Callers, Call(c) PROVE FlagInv'
  BY <1>1 DEF Call, CallQueue, CallQuit, CallRunOnQuit, CallRunInline, Calls,
     CallerMoves
<1>2. ASSUME NEW c \in Callers, CallerStep(c) PROVE FlagInv'
  BY <1>2 DEF CallerStep, QueueLink, QueueTestThread, QueueTestLooping, Wakeup,
     QuitTest, RunOnQuitLink, InlineReturn, CallerMoves
<1>3. CASE UserCode
  <2>1. CASE LoopThreadQueue \/ LoopThreadRunOnQuit \/ LoopThreadQuit
    BY <2>1 DEF LoopThreadQueue, LoopThreadRunOnQuit, LoopThreadQuit
  <2>2. CASE MoveToCurrentThread \/ ThrowOnQuit
    BY <2>2 DEF MoveToCurrentThread, ThrowOnQuit
  <2>3. ASSUME NEW kind \in Throws, Throw(kind) PROVE FlagInv'
    BY <2>3 DEF Throw
  <2> QED
    BY <1>3, <2>1, <2>2, <2>3 DEF UserCode
<1>4. CASE LoopEnter
  BY <1>4 DEF LoopEnter, LoopMoves
<1>5. CASE LoopStep
  <2> USE DEF LoopMoves
  <2>1. CASE LoopClearQuit \/ LoopCheck \/ PollWakeup
    BY <2>1 DEF LoopClearQuit, LoopCheck, PollWakeup, PollReturns
  <2>2. CASE HandleWakeup \/ HandleDone \/ DrainTake \/ FuncReturn \/ DrainDone
    BY <2>2 DEF HandleWakeup, HandleDone, DrainTake, FuncReturn, DrainDone
  <2>3. CASE OnQuitTake \/ QuitFuncReturn \/ LoopReturn
    BY <2>3 DEF OnQuitTake, QuitFuncReturn, LoopReturn
  <2> QED
    BY <1>5, <2>1, <2>2, <2>3 DEF LoopStep
<1>6. CASE PollEvents \/ PollTimeout
  BY <1>6 DEF PollEvents, PollTimeout, PollReturns, LoopMoves
<1>7. CASE DestroyBegin \/ DestroyEnd
  BY <1>7 DEF DestroyBegin, DestroyEnd
<1>8. CASE UNCHANGED vars
  BY <1>8 DEF vars
<1> QED
  BY <1>1, <1>2, <1>3, <1>4, <1>5, <1>6, <1>7, <1>8 DEF Next

\* looping_ and the types, always.
LEMMA SpecFlagInv == Spec => [](TypeOK /\ FlagInv)
BY InitTypeOK, StepTypeOK, InitFlagInv, StepFlagInv, PTL DEF Spec

\* loop() can be called again on its own thread after quit() and after every
\* kind of exception: the assertion on looping_ never fails.
THEOREM Restartable == Spec => []LoopCanRestart
<1>1. FlagInv => LoopCanRestart
  BY DEF FlagInv
<1> QED
  BY <1>1, SpecFlagInv, PTL

\* The destructor never frees the members under an iterating loop.
THEOREM DestructorWaits == Spec => []SpinProtectsTheLoop
<1>1. TypeOK /\ FlagInv => SpinProtectsTheLoop
  BY DEF FlagInv, SpinProtectsTheLoop, TypeOK
<1> QED
  BY <1>1, SpecFlagInv, PTL

------------------------------------------------------------------------------
(* No lost wakeup, for a loop that its own thread constructed.             *)

OnTheWay == \E c \in Callers : cpc[c] \in {"testThread", "wake"}

\* NoSleepWithWork is not inductive: the wakeup must already be certain when
\* the loop thread enters poll, hence at every place from which it gets there
\* without draining the queue first.
WakeInv ==
  /\ threadId_ = LoopThread
  /\ Funcs!Visible /\ ~thrown /\ lpc \notin {"handle", "drain", "func"} =>
        wakeupFd_ \/ OnTheWay

\* The queue is empty.
LEMMA InitWakeInv == Creator = LoopThread /\ Init => WakeInv
BY DEF Init, WakeInv, Funcs!Init, Funcs!Visible

\* A reservation never makes a function visible.
LEMMA ReserveHides ==
  ASSUME TypeOK, NEW f \in FuncIds, Funcs!Reserve(f), Funcs!Visible'
  PROVE  Funcs!Visible
<1>1. /\ funcs_ \in Seq(FuncIds) /\ linking' = linking \cup {f}
      /\ funcs_' = Append(funcs_, f)
  BY DEF TypeOK, Funcs!Reserve
<1>2. CASE funcs_ = <<>>
  <2>1. Head(funcs_') = f
    BY <1>1, <1>2
  <2> QED
    BY <1>1, <2>1 DEF Funcs!Visible
<1>3. CASE funcs_ # <<>>
  <2>1. Head(funcs_') = Head(funcs_)
    BY <1>1, <1>3
  <2> QED
    BY <1>1, <1>3, <2>1 DEF Funcs!Visible
<1> QED
  BY <1>2, <1>3

\* Each step of a caller leaves somebody who will wake the loop thread, and
\* each step of the loop thread looks at the queue before it sleeps.
LEMMA StepWakeInv == TypeOK /\ FlagInv /\ WakeInv /\ [Next]_vars => WakeInv'
<1> SUFFICES ASSUME TypeOK, FlagInv, WakeInv, [Next]_vars PROVE WakeInv'
  OBVIOUS
<1> USE DEF handed, flags, loopVars, WakeInv, OnTheWay
<1>1. ASSUME NEW c \in Callers, Call(c) PROVE WakeInv'
  <2> c \in Threads
    BY DEF Threads
  <2> USE DEF Calls, CallerMoves
  <2>1. CASE CallQueue(c)
    <3>1. Funcs!Visible' => Funcs!Visible
      BY <2>1, HandTyped, ReserveHides DEF CallQueue
    <3>2. OnTheWay => OnTheWay'
      BY <2>1 DEF CallQueue, TypeOK
    <3> QED
      BY <2>1, <3>1, <3>2 DEF CallQueue
  <2>2. CASE CallQuit(c) \/ CallRunOnQuit(c) \/ CallRunInline(c)
    <3>1. OnTheWay => OnTheWay'
      BY <2>2 DEF CallQuit, CallRunOnQuit, CallRunInline, TypeOK
    <3> QED
      BY <2>2, <3>1 DEF CallQuit, CallRunOnQuit, CallRunInline, Funcs!Visible
  <2> QED
    BY <1>1, <2>1, <2>2 DEF Call
<1>2. ASSUME NEW c \in Callers, CallerStep(c) PROVE WakeInv'
  <2> USE DEF CallerMoves
  <2>1. CASE QueueLink(c)
    <3>1. cpc'[c] = "testThread"
      BY <2>1 DEF QueueLink, TypeOK
    <3> QED
      BY <2>1, <3>1 DEF QueueLink
  <2>2. CASE QueueTestThread(c)
    <3>1. cpc'[c] = "wake"
      BY <2>2 DEF QueueTestThread, TypeOK
    <3> QED
      BY <2>2, <3>1 DEF QueueTestThread
  <2>3. CASE Wakeup(c)
    BY <2>3 DEF Wakeup
  <2>4. CASE QueueTestLooping(c) \/ QuitTest(c) \/ RunOnQuitLink(c) \/ InlineReturn(c)
    <3>1. OnTheWay => OnTheWay'
      BY <2>4 DEF QueueTestLooping, QuitTest, RunOnQuitLink, InlineReturn, TypeOK
    <3> QED
      BY <2>4, <3>1
         DEF QueueTestLooping, QuitTest, RunOnQuitLink, InlineReturn, Funcs!Visible
  <2> QED
    BY <1>2, <2>1, <2>2, <2>3, <2>4 DEF CallerStep
<1>3. CASE UserCode
  <2>1. CASE LoopThreadQueue
    BY <2>1 DEF LoopThreadQueue, InUserCode, FlagInv, Iterating
  <2>2. CASE LoopThreadRunOnQuit \/ LoopThreadQuit \/ MoveToCurrentThread
    BY <2>2 DEF LoopThreadRunOnQuit, LoopThreadQuit, MoveToCurrentThread,
       Funcs!Visible
  <2>3. ASSUME NEW kind \in Throws, Throw(kind) PROVE WakeInv'
    BY <2>3 DEF Throw
  <2>4. CASE ThrowOnQuit
    BY <2>4 DEF ThrowOnQuit
  <2> QED
    BY <1>3, <2>1, <2>2, <2>3, <2>4 DEF UserCode
<1>4. CASE LoopEnter
  BY <1>4 DEF LoopEnter, LoopMoves, queues, Funcs!Visible
<1>5. CASE LoopStep
  <2> USE DEF LoopMoves, queues, Funcs!Visible
  <2>1. CASE LoopClearQuit \/ LoopCheck \/ PollWakeup
    BY <2>1 DEF LoopClearQuit, LoopCheck, PollWakeup, PollReturns
  <2>2. CASE HandleWakeup \/ HandleDone \/ DrainTake \/ FuncReturn
    BY <2>2 DEF HandleWakeup, HandleDone, DrainTake, FuncReturn
  <2>3. CASE DrainDone
    BY <2>3 DEF DrainDone
  <2>4. CASE OnQuitTake \/ QuitFuncReturn \/ LoopReturn
    BY <2>4 DEF OnQuitTake, QuitFuncReturn, LoopReturn
  <2> QED
    BY <1>5, <2>1, <2>2, <2>3, <2>4 DEF LoopStep
<1>6. CASE PollEvents \/ PollTimeout
  BY <1>6 DEF PollEvents, PollTimeout, PollReturns, LoopMoves, queues
<1>7. CASE DestroyBegin \/ DestroyEnd
  BY <1>7 DEF DestroyBegin, DestroyEnd, Funcs!Visible
<1>8. CASE UNCHANGED vars
  BY <1>8 DEF vars, Funcs!Visible
<1> QED
  BY <1>1, <1>2, <1>3, <1>4, <1>5, <1>6, <1>7, <1>8 DEF Next

\* A loop made by the thread that runs it never sleeps in poll on a visible
\* function unless its wakeup is certain.  (For a loop that was moved the
\* statement is false.)
THEOREM NoLostWakeup ==
  ASSUME Creator = LoopThread
  PROVE  Spec => []NoSleepWithWork
<1>1. Init => WakeInv
  BY InitWakeInv
<1>2. WakeInv => NoSleepWithWork
  BY DEF WakeInv, OnTheWay, NoSleepWithWork
<1> QED
  BY <1>1, <1>2, StepWakeInv, SpecFlagInv, PTL DEF Spec
==============================================================================
