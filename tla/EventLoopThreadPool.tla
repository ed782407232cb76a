------------------------ MODULE EventLoopThreadPool ------------------------
(***************************************************************************)
(* event/EventLoopThreadPool.cpp: a vector of EventLoopThreads that the    *)
(* owner constructs, starts, waits for and destroys one after another, and *)
(* the round robin by which any thread is given the next loop.             *)
(*                                                                         *)
(* start() may be called by any number of threads, wait() by the owner     *)
(* after start().  EventLoopThread::getLoop() is declared and not defined; *)
(* it is taken to return the object's loop.  The destructor, which the     *)
(* compiler writes, destroys the vector's elements from the first to the   *)
(* last; it begins when nobody is inside a call.                           *)
(***************************************************************************)
EXTENDS EventLoopThread

CONSTANTS
  IndexBits, \* the width of size_t
  MaxPicks   \* a bound on calls of getNextLoop

ASSUME BoundsAssumption == IndexBits \in Nat /\ MaxPicks \in Nat

\* The range of size_t is a positive number: arithmetic that a proof needs named.
ASSUME RangeAssumption == 2^IndexBits \in Nat \ {0}

ASSUME UsersAssumption == IsFiniteSet(Users)

VARIABLES
  size,       \* loopThreadVec_.size()
  loopIndex_,
  picks,      \* history: calls of getNextLoop,
  handed      \* and which loops they returned

pool == <<size, loopIndex_, picks, handed>>
vars == <<threadVars, pool>>

\* Where the call that walks the vector goes after object t.
After(t, step, end) == IF t < size THEN <<step, t + 1>> ELSE <<end, 0>>

Init ==
  /\ InitThreads
  /\ size \in 0..MaxThreads
  /\ upc = [u \in Users |->
              IF u = Owner THEN After(0, "constructing", "idle") ELSE <<"idle", 0>>]
  /\ loopIndex_ = 0
  /\ picks = 0 /\ handed = [t \in Threads |-> 0]

Idle(u) == upc[u] = <<"idle", 0>>

\* The owner has constructed the pool and not begun to destroy it.
InUse == upc[Owner][1] \in {"idle", "run", "runwait", "wait", "indexed"}

Construct(t) == ConstructorReturns(t, After(t, "constructing", "idle"))

\* start().
Start(u) ==
  /\ InUse
  /\ UMoves(u, <<"idle", 0>>, After(0, "run", "idle"))
  /\ UNCHANGED <<tpc, thread, loopVars, pool>>

StartOne(u, t) == Run(u, t, After(t, "run", "idle"))

\* wait().
CallWait ==
  /\ \A t \in 1..size : once_[t] = "done"
  /\ UMoves(Owner, <<"idle", 0>>, After(0, "wait", "idle"))
  /\ UNCHANGED <<tpc, thread, loopVars, pool>>

WaitOne(t) == Wait(t, After(t, "wait", "idle"), <<"idle", 0>>)

\* ~EventLoopThreadPool.
Destroy ==
  /\ \A u \in Users : Idle(u)
  /\ UMoves(Owner, <<"idle", 0>>, After(0, "destroy", "gone"))
  /\ UNCHANGED <<tpc, thread, loopVars, pool>>

DestroyOne(t) ==
  \/ DestroyRun(t) \/ DestroyLock(t) \/ DestroyQuit(t)
  \/ DestroyJoin(t, After(t, "destroy", "gone"))

\* getNextLoop(): fetch_add, on an atomic size_t that wraps round,
GetNextLoop(u) ==
  /\ InUse /\ size > 0 /\ picks < MaxPicks
  /\ UMoves(u, <<"idle", 0>>, <<"indexed", loopIndex_>>)
  /\ picks' = picks + 1
  /\ loopIndex_' = (loopIndex_ + 1) % 2^IndexBits
  /\ UNCHANGED <<tpc, thread, loopVars, size, handed>>

\* A mutant of NextLoop: the member is read again instead of fetch_add's answer.
NextLoopReadsAgain(u) ==
  /\ upc[u][1] = "indexed"
  /\ UMoves(u, upc[u], <<"idle", 0>>)
  /\ handed' = [handed EXCEPT ![1 + (loopIndex_ % size)] = @ + 1]
  /\ UNCHANGED <<tpc, thread, loopVars, size, loopIndex_, picks>>

\* and then the loop at that index.
NextLoop(u) ==
  /\ upc[u][1] = "indexed"
  /\ UMoves(u, upc[u], <<"idle", 0>>)
  /\ handed' = [handed EXCEPT ![1 + (upc[u][2] % size)] = @ + 1]
  /\ UNCHANGED <<tpc, thread, loopVars, size, loopIndex_, picks>>

\* getLoop(id) and getLoops() give pointers to the loops of the vector.
UseLoop(u, t) ==
  /\ InUse /\ Idle(u) /\ t <= size
  /\ Quit(t) \/ \E f \in Funcs : Queue(t, f)

\* What a thread in the middle of a call does next.
Step(u) ==
  \/ \E t \in Threads : /\ \/ StartOne(u, t)
                           \/ u = Owner /\ (\/ StartThread(t) \/ Construct(t)
                                            \/ WaitOne(t) \/ DestroyOne(t))
                        /\ UNCHANGED pool
  \/ NextLoop(u)

Next ==
  \/ \E t \in Threads : Thread(t) /\ UNCHANGED pool
  \/ CallWait \/ Destroy
  \/ \E u \in Users : \/ Step(u) \/ Start(u) \/ GetNextLoop(u)
                      \/ \E t \in Threads : UseLoop(u, t) /\ UNCHANGED pool

\* Threads are scheduled.
Fairness ==
  /\ \A t \in Threads : WF_vars(Thread(t) /\ UNCHANGED pool)
  /\ \A u \in Users : WF_vars(Step(u))

Spec == Init /\ [][Next]_vars /\ Fairness

(***************************************************************************)
(* Properties.                                                             *)
(***************************************************************************)
\* The pool's constructor, start() of any thread, and the destructor return:
\* none waits for a promise that is not kept, nor joins a loop that does not
\* stop.
CallsReturn ==
  /\ upc[Owner][1] = "constructing" ~> upc[Owner][1] # "constructing"
  /\ \A u \in Users : upc[u][1] = "run" ~> Idle(u)
  /\ upc[Owner][1] = "destroy" ~> upc[Owner][1] = "gone"

\* getNextLoop spreads its callers over the loops: two loops are never further
\* apart than one call, the calls that are between their two steps, and one for
\* every time that the index wrapped round, when size() does not divide its
\* range.
RoundRobin ==
  LET wraps == IF size > 0 /\ 2^IndexBits % size # 0 THEN picks \div 2^IndexBits ELSE 0
      inside == Cardinality({u \in Users : upc[u][1] = "indexed"})
  IN \A s, t \in 1..size : handed[s] <= handed[t] + 1 + inside + wraps
=============================================================================
