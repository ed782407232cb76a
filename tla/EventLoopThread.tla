-------------------------- MODULE EventLoopThread --------------------------
(***************************************************************************)
(* event/EventLoopThread.cpp: a thread that owns an EventLoop, and the     *)
(* three promises by which its constructor, run() and its destructor meet  *)
(* it.  The EventLoop itself is what module EventLoop shows of one made    *)
(* and looped by the same thread: loop() stores quit_ = false once, then   *)
(* drains the queue and looks at quit_ in turn; no wakeup is lost.         *)
(*                                                                         *)
(* There are several such objects, as in a pool: the variables are         *)
(* functions of the object, and a user is in one call on one of them,      *)
(* upc[u] = <<step, object>>.  A step is told where its call ends, since   *)
(* the calls are made from the loops of EventLoopThreadPool.  Left out:    *)
(* thread names; a queued function that throws, which leaves loopFuncs and *)
(* terminates the process.                                                 *)
(***************************************************************************)
EXTENDS Naturals, Sequences, FiniteSets

CONSTANTS
  Users,    \* the threads that use the objects,
  Owner,    \* one of them, which constructs and destroys them
  Funcs,    \* functions that users queue, each once
  MaxThreads,
  EarlyQuit \* whether a user may quit a loop before run() has returned

ASSUME OwnerAssumption == Owner \in Users

ASSUME ThreadsAssumption == MaxThreads \in Nat

ASSUME QuitAssumption == EarlyQuit \in BOOLEAN

SetPromise == "set promiseForLoop_"

ASSUME FuncsAssumption == SetPromise \notin Funcs

Threads == 1..MaxThreads

VARIABLES
  tpc,                    \* where the thread is in loopFuncs
  loop_,                  \* whether the member loop_ points to the loop
  promiseForLoopPointer_, promiseForRun_, promiseForLoop_,
  once_,                  \* "new", "running" or "done"
  joined,                 \* thread_ is not joinable any more
  quit_,                  \* of the loop
  funcs_,                 \* of the loop
  upc,                    \* where each user is
  held,                   \* the destructor's copy of loop_ is not null
  queued, ran             \* history: who was handed a function, what has run

promises == <<promiseForLoopPointer_, promiseForRun_, promiseForLoop_>>
loopVars == <<quit_, funcs_, queued, ran>>
thread == <<loop_, promises, once_, joined, held>>
threadVars == <<tpc, thread, loopVars, upc>>

\* loopPtr, the thread-local reference, lives from start to end of the thread.
LoopAlive(t) == tpc[t] \notin {"none", "start", "ended"} \/ loop_[t] \/ held[t]

\* The steps of a user's calls, those of the pool's calls included.
Steps == {"constructing", "run", "runwait", "wait", "destroy", "runs", "lock",
          "quit", "join", "idle", "indexed", "gone"}

TypeOK ==
  /\ tpc \in [Threads -> {"none", "start", "made", "await", "enter", "check",
                          "drain", "looped", "leave", "ended"}]
  /\ \A v \in {loop_, held, joined, quit_, promiseForLoopPointer_,
               promiseForRun_, promiseForLoop_} : v \in [Threads -> BOOLEAN]
  /\ once_ \in [Threads -> {"new", "running", "done"}]
  /\ funcs_ \in [Threads -> Seq(Funcs \cup {SetPromise})]
  /\ upc \in [Users -> Steps \X Nat]
  /\ queued \in [Funcs -> Threads \cup {0}] /\ ran \subseteq Funcs

None == [t \in Threads |-> FALSE]

InitThreads ==
  /\ tpc = [t \in Threads |-> "none"]
  /\ loop_ = None /\ held = None /\ joined = None /\ quit_ = None
  /\ promiseForLoopPointer_ = None /\ promiseForRun_ = None /\ promiseForLoop_ = None
  /\ once_ = [t \in Threads |-> "new"]
  /\ funcs_ = [t \in Threads |-> <<>>]
  /\ queued = [f \in Funcs |-> 0] /\ ran = {}

(***************************************************************************)
(* The thread: loopFuncs.                                                  *)
(***************************************************************************)
TMoves(t, from, to) == tpc[t] = from /\ tpc' = [tpc EXCEPT ![t] = to]

\* A mutant of MakeLoop: the promise is kept before the loop is entered.
MakeLoopPromisesEarly(t) ==
  /\ TMoves(t, "start", "made")
  /\ promiseForLoop_' = [promiseForLoop_ EXCEPT ![t] = TRUE]
  /\ UNCHANGED <<loop_, promiseForLoopPointer_, promiseForRun_, once_, joined,
                 held, loopVars, upc>>

MakeLoop(t) ==
  /\ TMoves(t, "start", "made")
  /\ funcs_' = [funcs_ EXCEPT ![t] = <<SetPromise>>]
  /\ UNCHANGED <<thread, quit_, queued, ran, upc>>

PublishLoop(t) ==
  /\ TMoves(t, "made", "await")
  /\ promiseForLoopPointer_' = [promiseForLoopPointer_ EXCEPT ![t] = TRUE]
  /\ UNCHANGED <<loop_, promiseForRun_, promiseForLoop_, once_, joined, held,
                 loopVars, upc>>

AwaitRun(t) ==
  /\ promiseForRun_[t]
  /\ TMoves(t, "await", "enter")
  /\ UNCHANGED <<thread, loopVars, upc>>

\* loop() stores quit_ = false, whoever has called quit() before.
EnterLoop(t) ==
  /\ TMoves(t, "enter", "check")
  /\ quit_' = [quit_ EXCEPT ![t] = FALSE]
  /\ UNCHANGED <<thread, funcs_, queued, ran, upc>>

CheckQuit(t) ==
  /\ TMoves(t, "check", IF quit_[t] THEN "looped" ELSE "drain")
  /\ quit_[t] \/ funcs_[t] # <<>>
  /\ UNCHANGED <<thread, loopVars, upc>>

RunFront(t) ==
  /\ funcs_' = [funcs_ EXCEPT ![t] = Tail(@)]
  /\ IF Head(funcs_[t]) = SetPromise
       THEN promiseForLoop_' = [promiseForLoop_ EXCEPT ![t] = TRUE] /\ UNCHANGED ran
       ELSE ran' = ran \cup {Head(funcs_[t])} /\ UNCHANGED promiseForLoop_

\* A mutant of Drain: the drain looks at quit_ between two functions.
DrainStops(t) ==
  /\ tpc[t] = "drain"
  /\ \/ /\ funcs_[t] = <<>> \/ quit_[t]
        /\ TMoves(t, "drain", "check")
        /\ UNCHANGED <<funcs_, promiseForLoop_, ran>>
     \/ ~quit_[t] /\ funcs_[t] # <<>> /\ RunFront(t) /\ UNCHANGED tpc
  /\ UNCHANGED <<loop_, promiseForLoopPointer_, promiseForRun_, once_, joined,
                 held, quit_, queued, upc>>

\* doRunInLoopFuncs: one function, or the queue is empty.
Drain(t) ==
  /\ tpc[t] = "drain"
  /\ \/ /\ funcs_[t] = <<>>
        /\ TMoves(t, "drain", "check")
        /\ UNCHANGED <<funcs_, promiseForLoop_, ran>>
     \/ funcs_[t] # <<>> /\ RunFront(t) /\ UNCHANGED tpc
  /\ UNCHANGED <<loop_, promiseForLoopPointer_, promiseForRun_, once_, joined,
                 held, quit_, queued, upc>>

ClearLoop(t) ==
  /\ TMoves(t, "looped", "leave")
  /\ loop_' = [loop_ EXCEPT ![t] = FALSE]
  /\ UNCHANGED <<promises, once_, joined, held, loopVars, upc>>

EndThread(t) ==
  /\ TMoves(t, "leave", "ended")
  /\ UNCHANGED <<thread, loopVars, upc>>

Thread(t) == \/ MakeLoop(t) \/ PublishLoop(t) \/ AwaitRun(t) \/ EnterLoop(t)
             \/ CheckQuit(t) \/ Drain(t) \/ ClearLoop(t) \/ EndThread(t)

(***************************************************************************)
(* The calls.                                                              *)
(***************************************************************************)
UMoves(u, from, to) == upc[u] = from /\ upc' = [upc EXCEPT ![u] = to]

\* The constructor: start the thread, and wait for the loop's pointer.
StartThread(t) ==
  /\ upc[Owner] = <<"constructing", t>>
  /\ TMoves(t, "none", "start")
  /\ UNCHANGED <<thread, loopVars, upc>>

ConstructorReturns(t, to) ==
  /\ promiseForLoopPointer_[t]
  /\ UMoves(Owner, <<"constructing", t>>, to)
  /\ loop_' = [loop_ EXCEPT ![t] = TRUE]
  /\ UNCHANGED <<tpc, promises, once_, joined, held, loopVars>>

\* run(): call_once lets one caller in, and the others wait for it.
RunOnce(u, t, from, to) ==
  /\ once_[t] = "new"
  /\ UMoves(u, from, to)
  /\ once_' = [once_ EXCEPT ![t] = "running"]
  /\ promiseForRun_' = [promiseForRun_ EXCEPT ![t] = TRUE]
  /\ UNCHANGED <<tpc, loop_, promiseForLoopPointer_, promiseForLoop_, joined,
                 held, loopVars>>

RunAwaits(u, t, from, to) ==
  /\ promiseForLoop_[t]
  /\ UMoves(u, from, to)
  /\ once_' = [once_ EXCEPT ![t] = "done"]
  /\ UNCHANGED <<tpc, loop_, promises, joined, held, loopVars>>

RunPasses(u, t, from, to) ==
  /\ once_[t] = "done"
  /\ UMoves(u, from, to)
  /\ UNCHANGED <<tpc, thread, loopVars>>

Run(u, t, to) ==
  \/ RunOnce(u, t, <<"run", t>>, <<"runwait", t>>)
  \/ RunAwaits(u, t, <<"runwait", t>>, to)
  \/ RunPasses(u, t, <<"run", t>>, to)

\* wait(): join.  A second one throws std::system_error out of the caller.
Wait(t, to, thrown) ==
  /\ IF joined[t] THEN UMoves(Owner, <<"wait", t>>, thrown)
                  ELSE tpc[t] = "ended" /\ UMoves(Owner, <<"wait", t>>, to)
  /\ joined' = [joined EXCEPT ![t] = TRUE]
  /\ UNCHANGED <<tpc, loop_, promises, once_, held, loopVars>>

\* The destructor: run(), copy loop_ under the mutex, quit, join.
DestroyRun(t) ==
  \/ RunOnce(Owner, t, <<"destroy", t>>, <<"runs", t>>)
  \/ RunAwaits(Owner, t, <<"runs", t>>, <<"lock", t>>)
  \/ RunPasses(Owner, t, <<"destroy", t>>, <<"lock", t>>)

\* A mutant of DestroyLock: a raw pointer instead of a reference.
DestroyLockRaw(t) ==
  /\ UMoves(Owner, <<"lock", t>>, <<IF loop_[t] THEN "quit" ELSE "join", t>>)
  /\ UNCHANGED <<tpc, thread, loopVars>>

DestroyLock(t) ==
  /\ UMoves(Owner, <<"lock", t>>, <<IF loop_[t] THEN "quit" ELSE "join", t>>)
  /\ held' = [held EXCEPT ![t] = loop_[t]]
  /\ UNCHANGED <<tpc, loop_, promises, once_, joined, loopVars>>

DestroyQuit(t) ==
  /\ UMoves(Owner, <<"quit", t>>, <<"join", t>>)
  /\ quit_' = [quit_ EXCEPT ![t] = TRUE]
  /\ UNCHANGED <<tpc, thread, funcs_, queued, ran>>

DestroyJoin(t, to) ==
  /\ joined[t] \/ tpc[t] = "ended"
  /\ UMoves(Owner, <<"join", t>>, to)
  /\ held' = [held EXCEPT ![t] = FALSE]
  /\ joined' = [joined EXCEPT ![t] = TRUE]
  /\ UNCHANGED <<tpc, loop_, promises, once_, loopVars>>

(***************************************************************************)
(* queueInLoop and quit on a loop, by a thread that has its pointer.       *)
(***************************************************************************)
Queue(t, f) ==
  /\ LoopAlive(t) /\ queued[f] = 0
  /\ queued' = [queued EXCEPT ![f] = t]
  /\ funcs_' = [funcs_ EXCEPT ![t] = Append(@, f)]
  /\ UNCHANGED <<tpc, thread, quit_, ran, upc>>

Quit(t) ==
  /\ EarlyQuit \/ once_[t] = "done"
  /\ LoopAlive(t)
  /\ quit_' = [quit_ EXCEPT ![t] = TRUE]
  /\ UNCHANGED <<tpc, thread, funcs_, queued, ran, upc>>

(***************************************************************************)
(* Properties.                                                             *)
(***************************************************************************)
\* The destructor's quit() finds the EventLoop alive, although the thread may
\* have left loop() and ended since loop_ was read.
QuitFindsTheLoop == \A t \in Threads : upc[Owner] = <<"quit", t>> => LoopAlive(t)

\* A loop that was never run and that run() or the destructor starts, and a loop
\* in the middle of a drain, run every function they hold, whoever quits them
\* meanwhile, the destructor included, provided nobody does before run() has
\* returned (EventLoopThread.cpp:22-27, 48-64).  Nothing is said of a loop that
\* is about to look at quit_: it leaves what it holds (EventLoop.cpp:201).
QueuedIsDrained ==
  \A f \in Funcs, t \in Threads :
    (/\ queued[f] = t
     /\ tpc[t] \in {"made", "await", "enter", "drain"}
     /\ promiseForRun_[t] \/ upc[Owner] = <<"destroy", t>>) ~> f \in ran
=============================================================================
