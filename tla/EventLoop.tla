------------------------------ MODULE EventLoop ------------------------------
(***************************************************************************)
(* event/EventLoop.{h,cpp}: one event loop, the thread that runs loop() on *)
(* it, and the threads that call it.  A caller queues a function with one  *)
(* exchange and one link, then reads threadId_ and looping_ to decide      *)
(* whether to write the eventfd that ends a poll; the loop thread clears   *)
(* the eventfd and drains the queue.  Each of these accesses is one step.  *)
(*                                                                         *)
(* User code runs on the loop thread outside loop(), inside a dispatcher's *)
(* callback, inside a queued function and inside a quit function; at each  *)
(* of these places it may queue, quit, register and throw.  What it does   *)
(* to the loop from the loop thread touches state that only that thread    *)
(* writes, so one call is one step.  moveToCurrentThread is called by the  *)
(* thread that will loop, as in main.cpp and test_eventloop.cpp.           *)
(*                                                                         *)
(* Left out: t_loopInThisThread and threadLocalLoopPtr_, which only tell   *)
(* one EventLoop from a second one; callingFuncs_, eventHandling_ and      *)
(* currentActiveDispatcher_, which nothing reads; the early return for an  *)
(* empty std::function.                                                    *)
(***************************************************************************)
EXTENDS Naturals, Sequences

CONSTANTS
  LoopThread,   \* the thread that calls loop()
  Callers,      \* the other threads
  Creator,      \* the thread that constructed the EventLoop
  Destroyer,    \* the thread that destroys it, or NoThread
  NoThread,
  Throws,       \* what user code on the loop thread may throw
  MaxFuncs,     \* bound: functions a thread hands over (of both kinds)
  MaxLoops      \* bound: calls of loop()

Threads == Callers \cup {LoopThread}

ASSUME ThreadsAssumption ==
  /\ LoopThread \notin Callers
  /\ Creator \in Threads
  /\ NoThread \notin Threads
  /\ Destroyer \in Threads \cup {NoThread}

\* std::exception and everything else: loop() catches only the former.
ASSUME ThrowsAssumption == Throws \subseteq {"std", "other"}

ASSUME BoundsAssumption == MaxFuncs \in Nat /\ MaxLoops \in Nat

FuncIds == Threads \X (1 .. MaxFuncs)

VARIABLES
  looping_, quit_, threadId_,
  wakeupFd_,        \* the eventfd's counter is not zero
  timerfd,          \* the TimerQueue's timerfd is open
  funcs_, linking,  \* MPSCQueue funcs_, as a FifoQueue
  funcsOnQuit_, linkingOnQuit,
  made,             \* per thread: functions handed over, to name them
  lpc,              \* where the loop thread is
  active,           \* activeDispatchers_ still holds wakeupDispatcherPtr_
  events,           \* activeDispatchers_ holds other dispatchers
  thrown,           \* user code on the loop thread has thrown
  loops,            \* calls of loop() so far
  cpc,              \* per caller: where it is inside a call
  dtor              \* "no", "spin" or "done": the progress of ~EventLoop

handed   == <<funcs_, linking, funcsOnQuit_, linkingOnQuit, made>>
flags    == <<looping_, quit_, threadId_, wakeupFd_>>
loopVars == <<lpc, active, events, thrown, loops>>
vars     == <<handed, flags, loopVars, timerfd, cpc, dtor>>

Funcs  == INSTANCE FifoQueue
            WITH Values <- FuncIds, queue <- funcs_, pending <- linking
OnQuit == INSTANCE FifoQueue
            WITH Values <- FuncIds, queue <- funcsOnQuit_,
                 pending <- linkingOnQuit

\* The loop thread is inside the try block of loop(), past both stores.
Iterating == {"check", "poll", "handle", "drain", "func"}

TypeOK ==
  /\ looping_ \in BOOLEAN
  /\ quit_ \in BOOLEAN
  /\ threadId_ \in Threads
  /\ wakeupFd_ \in BOOLEAN
  /\ timerfd \in BOOLEAN
  /\ funcs_ \in Seq(FuncIds)
  /\ linking \in SUBSET FuncIds
  /\ funcsOnQuit_ \in Seq(FuncIds)
  /\ linkingOnQuit \in SUBSET FuncIds
  /\ made \in [Threads -> 0 .. MaxFuncs]
  /\ lpc \in {"idle", "entered", "onQuit", "quitFunc", "aborted"} \cup Iterating
  /\ active \in BOOLEAN
  /\ events \in BOOLEAN
  /\ thrown \in BOOLEAN
  /\ loops \in 0 .. MaxLoops
  /\ cpc \in [Callers -> {"idle", "link", "testThread", "testLooping", "wake",
                          "testQuit", "linkOnQuit", "inline"}]
  /\ dtor \in {"no", "spin", "done"}

Init ==
  /\ looping_ = FALSE
  /\ quit_ = FALSE
  /\ threadId_ = Creator
  /\ wakeupFd_ = FALSE
  /\ timerfd = TRUE
  /\ Funcs!Init
  /\ OnQuit!Init
  /\ made = [t \in Threads |-> 0]
  /\ lpc = "idle"
  /\ active = FALSE
  /\ events = FALSE
  /\ thrown = FALSE
  /\ loops = 0
  /\ cpc = [c \in Callers |-> "idle"]
  /\ dtor = "no"

------------------------------------------------------------------------------
(* Calls made by the other threads.  A thread calls only an object whose   *)
(* destruction has not begun, and destruction begins when no caller is     *)
(* inside a call: anything else is undefined in C++.                       *)

\* The process has not been ended by ABSL_LOG(FATAL).
Running == lpc # "aborted"

CallerMoves(c, from, to) ==
  /\ Running
  /\ cpc[c] = from
  /\ cpc' = [cpc EXCEPT ![c] = to]
  /\ UNCHANGED <<looping_, threadId_, loopVars, timerfd, dtor>>

Calls(c, to) == dtor = "no" /\ CallerMoves(c, "idle", to)

\* One more function is handed over by t, to funcs_ or to funcsOnQuit_.
NextFunc(t) == <<t, made[t] + 1>>
Hand(t) == made[t] < MaxFuncs /\ made' = [made EXCEPT ![t] = @ + 1]

\* queueInLoop, and runInLoop off the loop thread: the exchange of enqueue.
CallQueue(c) ==
  /\ Calls(c, "link")
  /\ Hand(c)
  /\ Funcs!Reserve(NextFunc(c))
  /\ UNCHANGED <<funcsOnQuit_, linkingOnQuit, quit_, wakeupFd_>>

\* The function becomes visible and the caller returns without a wakeup.
QueueLinkNoWakeup(c) ==
  /\ CallerMoves(c, "link", "idle")
  /\ Funcs!Publish(<<c, made[c]>>)
  /\ UNCHANGED <<funcsOnQuit_, linkingOnQuit, made, quit_, wakeupFd_>>

\* The link of enqueue.
QueueLink(c) ==
  /\ CallerMoves(c, "link", "testThread")
  /\ Funcs!Publish(<<c, made[c]>>)
  /\ UNCHANGED <<funcsOnQuit_, linkingOnQuit, made, quit_, wakeupFd_>>

\* if (!isInLoopThread() ||
QueueTestThread(c) ==
  /\ CallerMoves(c, "testThread", IF threadId_ # c THEN "wake" ELSE "testLooping")
  /\ UNCHANGED <<handed, quit_, wakeupFd_>>

\*     !looping_.load())
QueueTestLooping(c) ==
  /\ CallerMoves(c, "testLooping", IF looping_ THEN "idle" ELSE "wake")
  /\ UNCHANGED <<handed, quit_, wakeupFd_>>

\* wakeup()
Wakeup(c) ==
  /\ CallerMoves(c, "wake", "idle")
  /\ wakeupFd_' = TRUE
  /\ UNCHANGED <<handed, quit_>>

\* quit(): the store, then the test of isInLoopThread().
CallQuit(c) ==
  /\ Calls(c, "testQuit")
  /\ quit_' = TRUE
  /\ UNCHANGED <<handed, wakeupFd_>>

\* quit() only stores the flag.
QuitTestNoWakeup(c) ==
  CallerMoves(c, "testQuit", "idle") /\ UNCHANGED <<handed, quit_, wakeupFd_>>

QuitTest(c) ==
  /\ CallerMoves(c, "testQuit", IF threadId_ # c THEN "wake" ELSE "idle")
  /\ UNCHANGED <<handed, quit_, wakeupFd_>>

\* runOnQuit(): the exchange and the link of funcsOnQuit_.enqueue.
CallRunOnQuit(c) ==
  /\ Calls(c, "linkOnQuit")
  /\ Hand(c)
  /\ OnQuit!Reserve(NextFunc(c))
  /\ UNCHANGED <<funcs_, linking, quit_, wakeupFd_>>

RunOnQuitLink(c) ==
  /\ CallerMoves(c, "linkOnQuit", "idle")
  /\ OnQuit!Publish(<<c, made[c]>>)
  /\ UNCHANGED <<funcs_, linking, made, quit_, wakeupFd_>>

\* runInLoop by the thread that owns the loop: f() runs in the call itself.
CallRunInline(c) ==
  /\ threadId_ = c
  /\ Calls(c, "inline")
  /\ UNCHANGED <<handed, quit_, wakeupFd_>>

InlineReturn(c) ==
  CallerMoves(c, "inline", "idle") /\ UNCHANGED <<handed, quit_, wakeupFd_>>

Call(c) ==
  CallQueue(c) \/ CallQuit(c) \/ CallRunOnQuit(c) \/ CallRunInline(c)

CallerStep(c) ==
  \/ QueueLink(c)
  \/ QueueTestThread(c)
  \/ QueueTestLooping(c)
  \/ Wakeup(c)
  \/ QuitTest(c)
  \/ RunOnQuitLink(c)
  \/ InlineReturn(c)

------------------------------------------------------------------------------
(* User code on the loop thread *)

InUserCode ==
  \/ lpc = "idle" /\ dtor = "no"
  \/ lpc = "handle" /\ events
  \/ lpc \in {"func", "quitFunc"}

\* queueInLoop
LoopThreadQueue ==
  /\ InUserCode
  /\ Hand(LoopThread)
  /\ Funcs!Enqueue(NextFunc(LoopThread))
  /\ wakeupFd_' = (wakeupFd_ \/ threadId_ # LoopThread \/ ~looping_)
  /\ UNCHANGED <<funcsOnQuit_, linkingOnQuit, looping_, quit_, threadId_,
                 loopVars, timerfd, cpc, dtor>>

\* runOnQuit
LoopThreadRunOnQuit ==
  /\ InUserCode
  /\ Hand(LoopThread)
  /\ OnQuit!Enqueue(NextFunc(LoopThread))
  /\ UNCHANGED <<funcs_, linking, flags, loopVars, timerfd, cpc, dtor>>

\* quit
LoopThreadQuit ==
  /\ InUserCode
  /\ quit_' = TRUE
  /\ wakeupFd_' = (wakeupFd_ \/ threadId_ # LoopThread)
  /\ UNCHANGED <<handed, looping_, threadId_, loopVars, timerfd, cpc, dtor>>

\* moveToCurrentThread, by the thread that is about to loop.  isRunning() is
\* false there: only this thread sets looping_.
MoveToCurrentThread ==
  /\ lpc = "idle" /\ dtor = "no"
  /\ threadId_ # LoopThread
  /\ threadId_' = LoopThread
  /\ UNCHANGED <<handed, looping_, quit_, wakeupFd_, loopVars, timerfd, cpc,
                 dtor>>

\* The flag is not cleared on the way out of an exception.
ThrowKeepsLooping(kind) ==
  /\ lpc \in {"handle", "func"} /\ InUserCode
  /\ thrown' = TRUE
  /\ active' = FALSE
  /\ events' = FALSE
  /\ lpc' = IF kind = "std" THEN "onQuit" ELSE "idle"
  /\ UNCHANGED <<handed, flags, loops, timerfd, cpc, dtor>>

\* An exception leaves a callback or a function run by loop().  ScopeExit
\* clears looping_; a std::exception is kept for after the quit functions,
\* anything else passes them by.
Throw(kind) ==
  /\ lpc \in {"handle", "func"} /\ InUserCode
  /\ thrown' = TRUE
  /\ looping_' = FALSE
  /\ active' = FALSE
  /\ events' = FALSE
  /\ lpc' = IF kind = "std" THEN "onQuit" ELSE "idle"
  /\ UNCHANGED <<handed, quit_, threadId_, wakeupFd_, loops, timerfd, cpc, dtor>>

\* Whatever a quit function throws leaves loop() at once.
ThrowOnQuit ==
  /\ Throws # {}
  /\ lpc = "quitFunc"
  /\ thrown' = TRUE
  /\ lpc' = "idle"
  /\ UNCHANGED <<handed, flags, active, events, loops, timerfd, cpc, dtor>>

UserCode ==
  \/ LoopThreadQueue
  \/ LoopThreadRunOnQuit
  \/ LoopThreadQuit
  \/ MoveToCurrentThread
  \/ \E kind \in Throws : Throw(kind)
  \/ ThrowOnQuit

------------------------------------------------------------------------------
(* loop() *)

LoopMoves(from, to) ==
  /\ lpc = from
  /\ lpc' = to
  /\ UNCHANGED <<threadId_, made, thrown, timerfd, cpc, dtor>>

queues == <<funcs_, linking, funcsOnQuit_, linkingOnQuit>>
polled == <<active, events>>

\* assert(!looping_) and assertInLoopThread(), each of which may end the
\* process, then the store of looping_.
LoopEnter ==
  /\ dtor = "no"
  /\ loops < MaxLoops
  /\ loops' = loops + 1
  /\ looping_' = (looping_ \/ threadId_ = LoopThread)
  /\ LoopMoves("idle", IF ~looping_ /\ threadId_ = LoopThread THEN "entered"
                                                             ELSE "aborted")
  /\ UNCHANGED <<queues, polled, quit_, wakeupFd_>>

LoopClearQuit ==
  /\ LoopMoves("entered", "check")
  /\ quit_' = FALSE
  /\ UNCHANGED <<queues, polled, loops, looping_, wakeupFd_>>

\* while (!quit_): into poll, or out of the scope that holds loopFlagCleaner.
LoopCheck ==
  /\ LoopMoves("check", IF quit_ THEN "onQuit" ELSE "poll")
  /\ looping_' = ~quit_
  /\ UNCHANGED <<queues, polled, loops, quit_, wakeupFd_>>

\* poller_->poll(kPollTimeMs, &activeDispatchers_)
PollReturns(wakeup, others) ==
  /\ LoopMoves("poll", "handle")
  /\ active' = wakeup
  /\ events' = others
  /\ UNCHANGED <<queues, loops, looping_, quit_, wakeupFd_>>

PollWakeup == wakeupFd_ /\ PollReturns(TRUE, FALSE)

\* Other dispatchers are ready; with a full event list they may crowd out the
\* eventfd, which stays readable.
PollEvents == \E wakeup \in {FALSE, wakeupFd_} : PollReturns(wakeup, TRUE)

\* kPollTimeMs have passed and nothing is ready.
PollTimeout == ~wakeupFd_ /\ PollReturns(FALSE, FALSE)

\* wakeupRead(): one read resets the counter.
HandleWakeup ==
  /\ LoopMoves("handle", "handle")
  /\ active
  /\ active' = FALSE
  /\ wakeupFd_' = FALSE
  /\ UNCHANGED <<queues, events, loops, looping_, quit_>>

HandleDone ==
  /\ LoopMoves("handle", "drain")
  /\ ~active
  /\ events' = FALSE
  /\ UNCHANGED <<queues, active, loops, looping_, quit_, wakeupFd_>>

\* doRunInLoopFuncs(): dequeue until the queue shows nothing.
DrainTake ==
  /\ LoopMoves("drain", "func")
  /\ Funcs!Take
  /\ UNCHANGED <<funcsOnQuit_, linkingOnQuit, polled, loops, looping_, quit_,
                 wakeupFd_>>

FuncReturn ==
  /\ LoopMoves("func", "drain")
  /\ UNCHANGED <<queues, polled, loops, looping_, quit_, wakeupFd_>>

\* Runs a bounded number of functions and leaves the rest for later.
DrainDoneEarly ==
  /\ LoopMoves("drain", "check")
  /\ UNCHANGED <<queues, polled, loops, looping_, quit_, wakeupFd_>>

DrainDone ==
  /\ LoopMoves("drain", "check")
  /\ ~Funcs!Visible
  /\ UNCHANGED <<queues, polled, loops, looping_, quit_, wakeupFd_>>

\* The quit functions, and the return or the rethrow after them.
OnQuitTake ==
  /\ LoopMoves("onQuit", "quitFunc")
  /\ OnQuit!Take
  /\ UNCHANGED <<funcs_, linking, polled, loops, looping_, quit_, wakeupFd_>>

QuitFuncReturn ==
  /\ LoopMoves("quitFunc", "onQuit")
  /\ UNCHANGED <<queues, polled, loops, looping_, quit_, wakeupFd_>>

LoopReturn ==
  /\ LoopMoves("onQuit", "idle")
  /\ ~OnQuit!Visible
  /\ UNCHANGED <<queues, polled, loops, looping_, quit_, wakeupFd_>>

\* What the loop thread does by itself; nothing obliges it to call loop().
LoopStep ==
  \/ LoopClearQuit
  \/ LoopCheck
  \/ PollWakeup
  \/ HandleWakeup
  \/ HandleDone
  \/ DrainTake
  \/ FuncReturn
  \/ DrainDone
  \/ OnQuitTake
  \/ QuitFuncReturn
  \/ LoopReturn

------------------------------------------------------------------------------
(* ~EventLoop *)

\* The destructor does not wait for looping_.
DestroyEndNoSpin ==
  /\ Running
  /\ dtor = "spin"
  /\ dtor' = "done"
  /\ timerfd' = (threadId_ # Destroyer)
  /\ UNCHANGED <<handed, flags, loopVars, cpc>>

\* quit() and the first look at looping_.
DestroyBegin ==
  /\ Running
  /\ dtor = "no"
  /\ Destroyer # NoThread
  /\ Destroyer = LoopThread => lpc = "idle"
  /\ \A c \in Callers : cpc[c] = "idle"
  /\ dtor' = "spin"
  /\ quit_' = TRUE
  /\ wakeupFd_' = (wakeupFd_ \/ threadId_ # Destroyer)
  /\ UNCHANGED <<handed, looping_, threadId_, loopVars, timerfd, cpc>>

\* The spin ends when looping_ is clear; then the members go.  ~TimerQueue
\* hands the closing of the timerfd to runInLoop: the loop's own thread does
\* it at once, any other one queues it in funcs_, which is destroyed next.
DestroyEnd ==
  /\ Running
  /\ dtor = "spin"
  /\ ~looping_
  /\ dtor' = "done"
  /\ timerfd' = (threadId_ # Destroyer)
  /\ UNCHANGED <<handed, flags, loopVars, cpc>>

------------------------------------------------------------------------------
Next ==
  \/ \E c \in Callers : Call(c) \/ CallerStep(c)
  \/ UserCode
  \/ LoopEnter
  \/ LoopStep
  \/ PollEvents
  \/ PollTimeout
  \/ DestroyBegin
  \/ DestroyEnd

\* Every thread inside a call or inside loop() keeps running and user code
\* returns.  A poll is only sure to return when the eventfd is readable.
Fairness ==
  /\ \A c \in Callers : WF_vars(CallerStep(c))
  /\ WF_vars(LoopStep)
  /\ WF_vars(DestroyEnd)

Spec == Init /\ [][Next]_vars /\ Fairness

\* The same, relying on epoll_wait's own time-out as well.
TimeoutSpec == Spec /\ WF_vars(PollTimeout)

------------------------------------------------------------------------------
(* Properties *)

\* The loop thread never sleeps in poll on a function it could run, unless the
\* eventfd is already readable or a caller is on its way to write it
\* (EventLoop.cpp:347-351): there is no lost wakeup.  An exception that leaves
\* a function leaves the rest of the queue behind (EventLoop.cpp:118-120), so
\* the promise ends with the first exception.
NoSleepWithWork ==
  lpc = "poll" /\ Funcs!Visible /\ ~thrown =>
     wakeupFd_ \/ \E c \in Callers : cpc[c] \in {"testThread", "wake"}

\* A function queued on a running loop is run or the loop is left
\* (EventLoop.cpp:341-364).  Under Spec that is without the help of the poll's
\* time-out, and true of a loop that is run by its maker; a loop that was moved
\* may need the time-out, under TimeoutSpec.
QueuedFuncRuns ==
  \A f \in FuncIds :
     (f \in {funcs_[i] : i \in DOMAIN funcs_} /\ lpc \in Iterating /\ ~thrown) ~>
     (f \notin {funcs_[i] : i \in DOMAIN funcs_} \/ lpc \notin Iterating)

\* quit() ends a loop that is past its entry, from whichever thread it is
\* called and whatever the loop is waiting for (EventLoop.cpp:302-310).
QuitStops == (quit_ /\ lpc \in Iterating) ~> (lpc \notin Iterating)

\* However loop() was left before, by quit() or by an exception, calling it
\* again on its own thread does not trip assert(!looping_)
\* (EventLoop.cpp:190, 199-200).
LoopCanRestart == lpc = "aborted" => threadId_ # LoopThread

\* The destructor's spin on looping_ keeps the members alive for as long as
\* loop() iterates over them, whichever thread destroys the loop and at whatever
\* point of loop() it starts (EventLoop.cpp:65-70).
SpinProtectsTheLoop ==
  dtor = "done" => lpc \notin Iterating \cup {"entered"}

\* When the destructor has finished, no thread is inside loop() any more
\* (EventLoop.cpp:65-70).
DestroyedNotInUse == dtor = "done" => lpc = "idle"

\* The destructor's wait for the loop ends (EventLoop.cpp:64-70).
DestructorReturns == (dtor = "spin") ~> (dtor = "done")

\* Destroying the loop releases the timerfd of its TimerQueue.
TimerfdReleased == dtor = "done" => ~timerfd

\* loop() is not left by an exception while a quit function still waits
\* (EventLoop.cpp:235-242).
QuitFuncsRunOnException ==
  [][(lpc \in Iterating /\ lpc' = "idle") => ~OnQuit!Visible]_vars

\* A function that runInLoop runs in the call itself runs on the loop's thread
\* (EventLoop.h:95).
InlineOnLoopThread == \A c \in Callers : cpc[c] = "inline" => threadId_ = c
==============================================================================
