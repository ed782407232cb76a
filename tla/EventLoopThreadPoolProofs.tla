--------------------- MODULE EventLoopThreadPoolProofs ---------------------
(***************************************************************************)
(* Proofs about EventLoopThread and EventLoopThreadPool, for any number of *)
(* threads, users, functions and calls and for any width of size_t: the    *)
(* types, that the destructor's quit() finds the loop alive, and that      *)
(* getNextLoop spreads its callers evenly over the loops.                  *)
(***************************************************************************)
EXTENDS EventLoopThreadPool, FiniteSetTheorems, TLAPS

USE OwnerAssumption, ThreadsAssumption DEF Threads

(***************************************************************************)
(* Types.                                                                  *)
(***************************************************************************)
PoolTypeOK ==
  /\ size \in 0 .. MaxThreads
  /\ loopIndex_ \in 0 .. 2^IndexBits - 1
  /\ picks \in Nat
  /\ handed \in [Threads -> Nat]

Types == TypeOK /\ PoolTypeOK

\* A call that walks the vector goes on with a place of the right type.
LEMMA AfterType ==
  ASSUME NEW t \in Nat, NEW step \in Steps, NEW end \in Steps
  PROVE  After(t, step, end) \in Steps \X Nat
BY DEF After

\* A user's move keeps the types.
LEMMA MoveType ==
  ASSUME TypeOK, NEW u \in Users, NEW from, NEW to \in Steps \X Nat, UMoves(u, from, to)
  PROVE  upc' \in [Users -> Steps \X Nat]
BY DEF UMoves, TypeOK

\* Types, to begin with.
LEMMA InitTypes == Init => Types
<1> SUFFICES ASSUME Init PROVE Types
  OBVIOUS
<1>1. size \in 0 .. MaxThreads /\ picks \in Nat /\ handed \in [Threads -> Nat]
  BY DEF Init
<1>2. loopIndex_ \in 0 .. 2^IndexBits - 1
  BY RangeAssumption DEF Init
<1>3. upc \in [Users -> Steps \X Nat]
  <2>1. "constructing" \in Steps /\ "idle" \in Steps
    BY DEF Steps
  <2>2. After(0, "constructing", "idle") \in Steps \X Nat
    BY <2>1, AfterType
  <2> QED
    BY <2>1, <2>2 DEF Init
<1>4. /\ tpc \in [Threads -> {"none", "start", "made", "await", "enter", "check",
                          "drain", "looped", "leave", "ended"}]
      /\ loop_ \in [Threads -> BOOLEAN] /\ held \in [Threads -> BOOLEAN]
      /\ joined \in [Threads -> BOOLEAN] /\ quit_ \in [Threads -> BOOLEAN]
      /\ promiseForLoopPointer_ \in [Threads -> BOOLEAN]
      /\ promiseForRun_ \in [Threads -> BOOLEAN]
      /\ promiseForLoop_ \in [Threads -> BOOLEAN]
      /\ once_ \in [Threads -> {"new", "running", "done"}]
  BY DEF Init, InitThreads, None
<1>5. funcs_ \in [Threads -> Seq(Funcs \cup {SetPromise})]
  BY DEF Init, InitThreads
<1>6. queued \in [Funcs -> Threads \cup {0}] /\ ran \subseteq Funcs
  BY DEF Init, InitThreads
<1> QED BY <1>1, <1>2, <1>3, <1>4, <1>5, <1>6 DEF Types, TypeOK, PoolTypeOK
\* Each step of a thread in loopFuncs keeps the types.
LEMMA ThreadTypes ==
  ASSUME Types, NEW t \in Threads, Thread(t), UNCHANGED pool
  PROVE  Types'
<1> USE DEF thread, promises, loopVars, pool
<1>1. PoolTypeOK'
  BY DEF Types, PoolTypeOK
<1>2. CASE MakeLoop(t)
  <2>1. <<SetPromise>> \in Seq(Funcs \cup {SetPromise})
    OBVIOUS
  <2> QED BY <1>1, <1>2, <2>1 DEF Types, TypeOK, MakeLoop, TMoves
<1>3. CASE PublishLoop(t)
  BY <1>1, <1>3 DEF Types, TypeOK, PublishLoop, TMoves
<1>4. CASE AwaitRun(t)
  BY <1>1, <1>4 DEF Types, TypeOK, AwaitRun, TMoves
<1>5. CASE EnterLoop(t)
  BY <1>1, <1>5 DEF Types, TypeOK, EnterLoop, TMoves
<1>6. CASE CheckQuit(t)
  BY <1>1, <1>6 DEF Types, TypeOK, CheckQuit, TMoves
<1>7. CASE Drain(t)
  <2>1. CASE funcs_[t] = <<>> /\ TMoves(t, "drain", "check")
             /\ UNCHANGED <<funcs_, promiseForLoop_, ran>>
    BY <1>1, <1>7, <2>1 DEF Types, TypeOK, Drain, TMoves
  <2>2. CASE funcs_[t] # <<>> /\ RunFront(t) /\ UNCHANGED tpc
    <3>1. funcs_[t] \in Seq(Funcs \cup {SetPromise})
      BY DEF Types, TypeOK
    <3>2. /\ Tail(funcs_[t]) \in Seq(Funcs \cup {SetPromise})
          /\ Head(funcs_[t]) \in Funcs \cup {SetPromise}
      BY <2>2, <3>1
    <3>3. funcs_' \in [Threads -> Seq(Funcs \cup {SetPromise})]
      BY <2>2, <3>2 DEF Types, TypeOK, RunFront
    <3>4. ran' \subseteq Funcs /\ promiseForLoop_' \in [Threads -> BOOLEAN]
      BY <2>2, <3>2 DEF Types, TypeOK, RunFront
    <3> QED BY <1>1, <1>7, <2>2, <3>3, <3>4 DEF Types, TypeOK, Drain
  <2> QED BY <1>7, <2>1, <2>2 DEF Drain
<1>8. CASE ClearLoop(t)
  BY <1>1, <1>8 DEF Types, TypeOK, ClearLoop, TMoves
<1>9. CASE EndThread(t)
  BY <1>1, <1>9 DEF Types, TypeOK, EndThread, TMoves
<1> QED BY <1>2, <1>3, <1>4, <1>5, <1>6, <1>7, <1>8, <1>9 DEF Thread

\* Each step of run(), whoever calls it.
LEMMA RunTypes ==
  ASSUME Types, NEW t \in Threads, NEW u \in Users, NEW from, NEW to \in Steps \X Nat,
         RunOnce(u, t, from, to) \/ RunAwaits(u, t, from, to) \/ RunPasses(u, t, from, to),
         UNCHANGED pool
  PROVE  Types'
<1> USE DEF thread, promises, loopVars, pool
<1>1. PoolTypeOK'
  BY DEF Types, PoolTypeOK
<1>2. upc' \in [Users -> Steps \X Nat]
  BY MoveType DEF Types, RunOnce, RunAwaits, RunPasses
<1>3. CASE RunOnce(u, t, from, to)
  BY <1>1, <1>2, <1>3 DEF Types, TypeOK, RunOnce
<1>4. CASE RunAwaits(u, t, from, to)
  BY <1>1, <1>2, <1>4 DEF Types, TypeOK, RunAwaits
<1>5. CASE RunPasses(u, t, from, to)
  BY <1>1, <1>2, <1>5 DEF Types, TypeOK, RunPasses
<1> QED BY <1>3, <1>4, <1>5

\* Each of the owner's steps on one object.
LEMMA OwnerTypes ==
  ASSUME Types, NEW t \in Threads, UNCHANGED pool,
         StartThread(t) \/ Construct(t) \/ WaitOne(t) \/ DestroyOne(t)
  PROVE  Types'
<1> USE DEF thread, promises, loopVars, pool
<1>1. PoolTypeOK' /\ t \in Nat
  BY DEF Types, PoolTypeOK
<1>2. /\ \A step, end \in Steps : After(t, step, end) \in Steps \X Nat
      /\ \A step \in Steps : <<step, t>> \in Steps \X Nat
      /\ <<"idle", 0>> \in Steps \X Nat
  BY <1>1, AfterType DEF Steps
<1>3. CASE StartThread(t)
  BY <1>1, <1>3 DEF Types, TypeOK, StartThread, TMoves
<1>4. CASE Construct(t)
  <2>1. upc' \in [Users -> Steps \X Nat]
    BY <1>2, <1>4, MoveType DEF Types, Construct, ConstructorReturns, Steps
  <2> QED BY <1>1, <1>4, <2>1 DEF Types, TypeOK, Construct, ConstructorReturns
<1>5. CASE WaitOne(t)
  <2>1. upc' \in [Users -> Steps \X Nat]
    BY <1>2, <1>5, MoveType DEF Types, WaitOne, Wait, Steps
  <2> QED BY <1>1, <1>5, <2>1 DEF Types, TypeOK, WaitOne, Wait
<1>6. CASE DestroyRun(t)
  <2>1. <<"runs", t>> \in Steps \X Nat /\ <<"lock", t>> \in Steps \X Nat
    BY <1>2 DEF Steps
  <2> QED BY <1>6, <2>1, RunTypes DEF DestroyRun
<1>7. CASE DestroyLock(t)
  <2>1. upc' \in [Users -> Steps \X Nat]
    BY <1>2, <1>7, MoveType DEF Types, DestroyLock, Steps
  <2>2. held' \in [Threads -> BOOLEAN]
    BY <1>7 DEF Types, TypeOK, DestroyLock
  <2> QED BY <1>1, <1>7, <2>1, <2>2 DEF Types, TypeOK, DestroyLock
<1>8. CASE DestroyQuit(t)
  <2>1. upc' \in [Users -> Steps \X Nat]
    BY <1>2, <1>8, MoveType DEF Types, DestroyQuit, Steps
  <2> QED BY <1>1, <1>8, <2>1 DEF Types, TypeOK, DestroyQuit
<1>9. CASE DestroyJoin(t, After(t, "destroy", "gone"))
  <2>1. upc' \in [Users -> Steps \X Nat]
    BY <1>2, <1>9, MoveType DEF Types, DestroyJoin, Steps
  <2> QED BY <1>1, <1>9, <2>1 DEF Types, TypeOK, DestroyJoin
<1> QED BY <1>3, <1>4, <1>5, <1>6, <1>7, <1>8, <1>9 DEF DestroyOne

\* The calls on the pool that begin, and the use of a loop.
LEMMA CallTypes ==
  ASSUME Types, NEW u \in Users,
         \/ Start(u) \/ CallWait \/ Destroy \/ GetNextLoop(u) \/ NextLoop(u)
         \/ \E t \in Threads : UseLoop(u, t) /\ UNCHANGED pool
  PROVE  Types'
<1> USE DEF thread, promises, loopVars, pool
<1>1. /\ \A step, end \in Steps : After(0, step, end) \in Steps \X Nat
      /\ \A n \in Nat : <<"indexed", n>> \in Steps \X Nat
      /\ <<"idle", 0>> \in Steps \X Nat
  BY AfterType DEF Steps
<1>2. CASE Start(u)
  <2>1. upc' \in [Users -> Steps \X Nat]
    BY <1>1, <1>2, MoveType DEF Types, Start, Steps
  <2> QED BY <1>2, <2>1 DEF Types, TypeOK, PoolTypeOK, Start
<1>3. CASE CallWait
  <2>1. upc' \in [Users -> Steps \X Nat]
    BY <1>1, <1>3, MoveType DEF Types, CallWait, Steps
  <2> QED BY <1>3, <2>1 DEF Types, TypeOK, PoolTypeOK, CallWait
<1>4. CASE Destroy
  <2>1. upc' \in [Users -> Steps \X Nat]
    BY <1>1, <1>4, MoveType DEF Types, Destroy, Steps
  <2> QED BY <1>4, <2>1 DEF Types, TypeOK, PoolTypeOK, Destroy
<1>5. CASE GetNextLoop(u)
  <2>1. loopIndex_ \in Nat /\ picks' \in Nat
    BY <1>5, RangeAssumption DEF Types, PoolTypeOK, GetNextLoop
  <2>2. upc' \in [Users -> Steps \X Nat]
    BY <1>1, <1>5, <2>1, MoveType DEF Types, GetNextLoop
  <2>3. loopIndex_' \in 0 .. 2^IndexBits - 1
    BY <1>5, <2>1, RangeAssumption DEF GetNextLoop
  <2> QED BY <1>5, <2>1, <2>2, <2>3 DEF Types, TypeOK, PoolTypeOK, GetNextLoop
<1>6. CASE NextLoop(u)
  <2>1. upc' \in [Users -> Steps \X Nat]
    BY <1>1, <1>6, MoveType DEF Types, NextLoop
  <2>2. handed' \in [Threads -> Nat]
    <3>1. PICK i : handed' = [handed EXCEPT ![i] = @ + 1]
      BY <1>6 DEF NextLoop
    <3>2. i \in Threads => handed[i] + 1 \in Nat
      BY DEF Types, PoolTypeOK
    <3> QED BY <3>1, <3>2 DEF Types, PoolTypeOK
  <2> QED BY <1>6, <2>1, <2>2 DEF Types, TypeOK, PoolTypeOK, NextLoop
<1>7. ASSUME NEW t \in Threads, UseLoop(u, t), UNCHANGED pool
      PROVE  Types'
  <2>1. CASE Quit(t)
    <3>1. quit_' \in [Threads -> BOOLEAN] /\ PoolTypeOK'
      BY <1>7, <2>1 DEF Types, TypeOK, PoolTypeOK, Quit
    <3> QED BY <2>1, <3>1 DEF Types, TypeOK, Quit
  <2>2. ASSUME NEW f \in Funcs, Queue(t, f)
        PROVE  Types'
    <3>1. Append(funcs_[t], f) \in Seq(Funcs \cup {SetPromise})
      <4>1. funcs_[t] \in Seq(Funcs \cup {SetPromise}) /\ f \in Funcs \cup {SetPromise}
        BY DEF Types, TypeOK
      <4> QED BY <4>1
    <3>2. funcs_' \in [Threads -> Seq(Funcs \cup {SetPromise})]
      BY <2>2, <3>1 DEF Types, TypeOK, Queue
    <3>3. queued' \in [Funcs -> Threads \cup {0}]
      BY <2>2 DEF Types, TypeOK, Queue
    <3> QED BY <1>7, <2>2, <3>2, <3>3 DEF Types, TypeOK, PoolTypeOK, Queue
  <2> QED BY <1>7, <2>1, <2>2 DEF UseLoop
<1> QED BY <1>2, <1>3, <1>4, <1>5, <1>6, <1>7
\* Types, step by step.
LEMMA StepTypes ==
  ASSUME Types, [Next]_vars
  PROVE  Types'
<1>1. ASSUME NEW t \in Threads, Thread(t), UNCHANGED pool
      PROVE  Types'
  BY <1>1, ThreadTypes
<1>2. CASE CallWait \/ Destroy
  BY <1>2, CallTypes
<1>3. ASSUME NEW u \in Users, Start(u) \/ GetNextLoop(u) \/ NextLoop(u)
      PROVE  Types'
  BY <1>3, CallTypes
<1>4. ASSUME NEW u \in Users, NEW t \in Threads, UseLoop(u, t), UNCHANGED pool
      PROVE  Types'
  BY <1>4, CallTypes
<1>5. ASSUME NEW u \in Users, NEW t \in Threads, StartOne(u, t), UNCHANGED pool
      PROVE  Types'
  <2>1. After(t, "run", "idle") \in Steps \X Nat /\ <<"runwait", t>> \in Steps \X Nat
    <3>1. t \in Nat
      OBVIOUS
    <3> QED BY <3>1, AfterType DEF Steps
  <2> QED BY <1>5, <2>1, RunTypes DEF StartOne, Run
<1>6. ASSUME NEW t \in Threads, UNCHANGED pool,
             StartThread(t) \/ Construct(t) \/ WaitOne(t) \/ DestroyOne(t)
      PROVE  Types'
  BY <1>6, OwnerTypes
<1>7. CASE UNCHANGED vars
  BY <1>7
  DEF vars, threadVars, thread, promises, loopVars, pool, Types, TypeOK, PoolTypeOK
<1>8. ASSUME NEW u \in Users, Step(u)
      PROVE  Types'
  BY <1>3, <1>5, <1>6, <1>8 DEF Step
<1> QED BY <1>1, <1>2, <1>3, <1>4, <1>7, <1>8 DEF Next

\* Types, always.
LEMMA AlwaysTypes == Spec => []Types
BY InitTypes, StepTypes, PTL DEF Spec

\* The threads, their promises, the users' places and the pool keep their types.
THEOREM TypeCorrect == Spec => []TypeOK
<1>1. Spec => []Types
  BY AlwaysTypes
<1>2. Types => TypeOK
  BY DEF Types
<1> QED BY <1>1, <1>2, PTL
(***************************************************************************)
(* The destructor's quit() finds the loop.  The loop lives on after its    *)
(* thread has ended because the destructor holds a reference to it.        *)
(***************************************************************************)
HeldInv == \A t \in Threads : upc[Owner] = <<"quit", t>> => held[t]

\* A move to another step than quit keeps HeldInv.
LEMMA MoveHeld ==
  ASSUME Types, HeldInv, NEW u \in Users, NEW from, NEW to, UMoves(u, from, to),
         \A t \in Threads : to # <<"quit", t>>, held' = held
  PROVE  HeldInv'
BY DEF Types, TypeOK, UMoves, HeldInv

\* Only the destructor's own steps go to quit or change the reference.
LEMMA StepHeld ==
  ASSUME Types, HeldInv, [Next]_vars
  PROVE  HeldInv'
<1> USE DEF thread
<1>1. \A n \in Nat, t \in Threads : /\ After(n, "constructing", "idle") # <<"quit", t>>
                                     /\ After(n, "run", "idle") # <<"quit", t>>
                                     /\ After(n, "wait", "idle") # <<"quit", t>>
                                     /\ After(n, "destroy", "gone") # <<"quit", t>>
  BY DEF After
<1>2. ASSUME NEW t \in Threads, Thread(t)
      PROVE  HeldInv'
  <2>1. UNCHANGED <<upc, held>>
    BY <1>2 DEF Thread, MakeLoop, PublishLoop, AwaitRun, EnterLoop, CheckQuit, Drain,
       ClearLoop, EndThread
  <2> QED BY <2>1 DEF HeldInv
<1>3. CASE CallWait
  BY <1>1, <1>3, MoveHeld DEF CallWait
<1>4. CASE Destroy
  BY <1>1, <1>4, MoveHeld DEF Destroy
<1>5. ASSUME NEW u \in Users, Start(u)
      PROVE  HeldInv'
  BY <1>1, <1>5, MoveHeld DEF Start
<1>6. ASSUME NEW u \in Users, GetNextLoop(u)
      PROVE  HeldInv'
  <2>1. \A t \in Threads : <<"indexed", loopIndex_>> # <<"quit", t>>
    OBVIOUS
  <2> QED BY <1>6, <2>1, MoveHeld DEF GetNextLoop
<1>7. ASSUME NEW u \in Users, NextLoop(u)
      PROVE  HeldInv'
  BY <1>7, MoveHeld DEF NextLoop
<1>8. ASSUME NEW u \in Users, NEW t \in Threads, UseLoop(u, t)
      PROVE  HeldInv'
  <2>1. UNCHANGED <<upc, held>>
    BY <1>8 DEF UseLoop, Quit, Queue
  <2> QED BY <2>1 DEF HeldInv
<1>9. ASSUME NEW u \in Users, NEW t \in Threads, NEW from, NEW to,
             RunOnce(u, t, from, to) \/ RunAwaits(u, t, from, to) \/ RunPasses(u, t, from, to),
             \A s \in Threads : to # <<"quit", s>>
      PROVE  HeldInv'
  BY <1>9, MoveHeld DEF RunOnce, RunAwaits, RunPasses
<1>10. ASSUME NEW u \in Users, NEW t \in Threads, StartOne(u, t)
       PROVE  HeldInv'
  <2>1. \A s \in Threads : /\ <<"runwait", t>> # <<"quit", s>>
                           /\ After(t, "run", "idle") # <<"quit", s>>
    <3>1. t \in Nat
      OBVIOUS
    <3> QED BY <1>1, <3>1
  <2> QED BY <1>9, <1>10, <2>1 DEF StartOne, Run
<1>11. ASSUME NEW t \in Threads,
              StartThread(t) \/ Construct(t) \/ WaitOne(t) \/ DestroyOne(t)
       PROVE  HeldInv'
  <2>1. t \in Nat
    OBVIOUS
  <2>2. CASE StartThread(t)
    BY <2>2 DEF StartThread, HeldInv
  <2>3. CASE Construct(t)
    BY <1>1, <2>1, <2>3, MoveHeld DEF Construct, ConstructorReturns
  <2>4. CASE WaitOne(t)
    BY <1>1, <2>1, <2>4, MoveHeld DEF WaitOne, Wait
  <2>5. CASE DestroyRun(t)
    <3>1. \A s \in Threads : <<"runs", t>> # <<"quit", s>> /\ <<"lock", t>> # <<"quit", s>>
      OBVIOUS
    <3> QED BY <1>9, <2>5, <3>1 DEF DestroyRun
  <2>6. CASE DestroyLock(t)
    <3>1. upc'[Owner] = <<IF loop_[t] THEN "quit" ELSE "join", t>> /\ held'[t] = loop_[t]
      BY <2>6 DEF DestroyLock, UMoves, Types, TypeOK
    <3> QED BY <3>1 DEF HeldInv
  <2>7. CASE DestroyQuit(t)
    BY <2>7, MoveHeld DEF DestroyQuit
  <2>8. CASE DestroyJoin(t, After(t, "destroy", "gone"))
    <3>1. upc'[Owner] = After(t, "destroy", "gone")
      BY <2>8 DEF DestroyJoin, UMoves, Types, TypeOK
    <3> QED BY <1>1, <2>1, <3>1 DEF HeldInv
  <2> QED BY <1>11, <2>2, <2>3, <2>4, <2>5, <2>6, <2>7, <2>8 DEF DestroyOne
<1>12. CASE UNCHANGED vars
  BY <1>12 DEF vars, threadVars, HeldInv
<1>13. ASSUME NEW u \in Users, Step(u)
       PROVE  HeldInv'
  BY <1>7, <1>10, <1>11, <1>13 DEF Step
<1> QED BY <1>2, <1>3, <1>4, <1>5, <1>6, <1>8, <1>12, <1>13 DEF Next

\* The EventLoop is alive when the destructor of its EventLoopThread calls quit(),
\* although its thread may have left loop() and ended since loop_ was read.
THEOREM DestructorFindsTheLoop == Spec => []QuitFindsTheLoop
<1>1. Init => HeldInv
  BY DEF Init, After, HeldInv
<1>2. HeldInv => QuitFindsTheLoop
  BY DEF HeldInv, QuitFindsTheLoop, LoopAlive
<1> QED BY <1>1, <1>2, AlwaysTypes, StepHeld, PTL DEF Spec
(***************************************************************************)
(* Arithmetic.                                                             *)
(***************************************************************************)
\* What % and \div mean.
LEMMA Division ==
  ASSUME NEW r \in Nat, NEW n \in Nat \ {0}
  PROVE  r % n \in 0 .. n - 1 /\ r \div n \in Nat /\ r = n * (r \div n) + (r % n)
OBVIOUS

\* Two divisions by n of the same number have the same quotient and remainder.
LEMMA NoLessQuotient ==
  ASSUME NEW n \in Nat \ {0}, NEW p \in Int, NEW q \in Int,
         NEW a \in 0 .. n - 1, NEW b \in 0 .. n - 1, n * p + a = n * q + b
  PROVE  ~(p < q)
<1> SUFFICES ASSUME p < q PROVE FALSE
  OBVIOUS
<1>1. p + 1 <= q
  OBVIOUS
<1>2. n * (p + 1) <= n * q
  BY <1>1
<1>3. n * (p + 1) = n * p + n
  OBVIOUS
<1> QED BY <1>2, <1>3

\* Quotient and remainder are determined.
LEMMA UniqueDivision ==
  ASSUME NEW n \in Nat \ {0}, NEW r \in Nat, NEW q \in Nat, NEW a \in 0 .. n - 1,
         r = n * q + a
  PROVE  r % n = a /\ r \div n = q
<1>1. PICK p \in Int, b \in 0 .. n - 1 : p = r \div n /\ b = r % n /\ r = n * p + b
  BY Division
<1>2. n * p + b = n * q + a
  BY <1>1
<1>3. ~(p < q) /\ ~(q < p)
  BY <1>2, NoLessQuotient
<1>4. p = q
  BY <1>3
<1>5. a = b
  BY <1>2, <1>4
<1> QED BY <1>1, <1>4, <1>5

\* How remainder and quotient go on from r to r + 1.
LEMMA NextIndex ==
  ASSUME NEW r \in Nat, NEW n \in Nat \ {0}
  PROVE  /\ (r % n) + 1 < n => (r + 1) % n = (r % n) + 1 /\ (r + 1) \div n = r \div n
         /\ (r % n) + 1 = n => (r + 1) % n = 0 /\ (r + 1) \div n = (r \div n) + 1
<1>1. PICK q \in Nat, a \in 0 .. n - 1 : q = r \div n /\ a = r % n /\ r = n * q + a
  BY Division
<1>2. PICK m \in Nat : m = r + 1
  OBVIOUS
<1>3. ASSUME a + 1 < n PROVE m % n = a + 1 /\ m \div n = q
  <2>1. a + 1 \in 0 .. n - 1 /\ m = n * q + (a + 1)
    BY <1>1, <1>2, <1>3
  <2> QED BY <2>1, UniqueDivision
<1>4. ASSUME a + 1 = n PROVE m % n = 0 /\ m \div n = q + 1
  <2>1. PICK p \in Nat : p = q + 1
    OBVIOUS
  <2>2. n * p = n * q + n
    BY <2>1
  <2>3. 0 \in 0 .. n - 1 /\ m = n * p + 0
    BY <1>1, <1>2, <1>4, <2>2
  <2> QED BY <2>1, <2>3, UniqueDivision
<1> QED BY <1>1, <1>2, <1>3, <1>4

\* The index behind the last one is the first.
LEMMA SmallIndex ==
  ASSUME NEW n \in Nat \ {0}
  PROVE  n % n = 0 /\ \A r \in 0 .. n - 1 : r % n = r
<1>1. n % n = 0
  <2>1. n = n * 1 + 0 /\ 0 \in 0 .. n - 1
    OBVIOUS
  <2> QED BY <2>1, UniqueDivision
<1>2. ASSUME NEW r \in 0 .. n - 1 PROVE r % n = r
  <2>1. r \in Nat /\ r = n * 0 + r
    OBVIOUS
  <2> QED BY <2>1, UniqueDivision
<1> QED BY <1>1, <1>2

(***************************************************************************)
(* Round robin.  A call counts for its loop from the fetch_add on; loops   *)
(* up to the remainder of the index are one call ahead in the current      *)
(* round; and each time the index wraps round within a round, the loops    *)
(* that this round did not reach fall behind by one.                       *)
(***************************************************************************)
Ahead(t, r) == IF t <= r THEN 1 ELSE 0

InSlot(t) == {u \in Users : upc[u][1] = "indexed" /\ 1 + (upc[u][2] % size) = t}

Assigned(t) == handed[t] + Cardinality(InSlot(t))

Wraps == IF size > 0 /\ 2^IndexBits % size # 0 THEN picks \div 2^IndexBits ELSE 0

SpreadInv ==
  /\ \A u \in Users : upc[u][1] = "indexed" => size > 0
  /\ loopIndex_ = picks % 2^IndexBits
  /\ size > 0 => \A s, t \in 1 .. size :
       Assigned(s) + Ahead(t, loopIndex_ % size)
         <= Assigned(t) + Wraps + Ahead(s, loopIndex_ % size)

\* The calls between their two steps are finitely many.
LEMMA InSlotFinite ==
  ASSUME NEW t
  PROVE  IsFiniteSet(InSlot(t)) /\ Cardinality(InSlot(t)) \in Nat
<1>1. InSlot(t) \subseteq Users
  BY DEF InSlot
<1> QED BY <1>1, UsersAssumption, FS_Subset, FS_CardinalityType
\* A step outside getNextLoop: at most one user moves, from a step of another
\* call to a step of another call.
QuietMove ==
  /\ UNCHANGED pool
  /\ \/ UNCHANGED upc
     \/ \E u \in Users : \E from, to : /\ UMoves(u, from, to)
                                      /\ from[1] # "indexed" /\ to[1] # "indexed"

\* Steps that neither take an index nor use one.
LEMMA QuietSpread ==
  ASSUME Types, SpreadInv, QuietMove
  PROVE  SpreadInv'
<1>1. \A u \in Users : \/ upc'[u] = upc[u]
                       \/ upc[u][1] # "indexed" /\ upc'[u][1] # "indexed"
  BY DEF QuietMove, UMoves, Types, TypeOK
<1>2. UNCHANGED <<size, loopIndex_, picks, handed>>
  BY DEF QuietMove, pool
<1>3. ASSUME NEW t PROVE Assigned(t)' = Assigned(t)
  <2>1. InSlot(t)' = InSlot(t)
    BY <1>1, <1>2, Zenon DEF InSlot
  <2> QED BY <1>2, <2>1 DEF Assigned
<1>4. Wraps' = Wraps
  BY <1>2 DEF Wraps
<1>5. (\A u \in Users : upc[u][1] = "indexed" => size > 0)'
  BY <1>1, <1>2 DEF SpreadInv
<1>6. ASSUME size' > 0, NEW a \in 1 .. size', NEW b \in 1 .. size'
      PROVE  Assigned(a)' + Ahead(b, loopIndex_' % size')
               <= Assigned(b)' + Wraps' + Ahead(a, loopIndex_' % size')
  BY <1>2, <1>3, <1>4, <1>6, Zenon DEF SpreadInv
<1> QED BY <1>2, <1>5, <1>6, Zenon DEF SpreadInv

\* fetch_add: the caller counts for the loop that it will be given.
LEMMA FetchSpread ==
  ASSUME Types, SpreadInv, NEW u \in Users, GetNextLoop(u)
  PROVE  SpreadInv'
<1>1. PICK R \in Nat \ {0} : R = 2^IndexBits
  BY RangeAssumption
<1>2. PICK n \in Nat \ {0} : n = size
  BY DEF Types, PoolTypeOK, GetNextLoop
<1>3. PICK r \in 0 .. R - 1 : r = loopIndex_ /\ r \in Nat
  BY <1>1 DEF Types, PoolTypeOK
<1>4. PICK k \in Nat : k = picks /\ r = k % R
  BY <1>1, <1>3 DEF Types, PoolTypeOK, SpreadInv
<1>5. /\ upc[u] = <<"idle", 0>> /\ upc' = [upc EXCEPT ![u] = <<"indexed", r>>]
      /\ picks' = k + 1 /\ loopIndex_' = (r + 1) % R /\ size' = n /\ handed' = handed
  BY <1>1, <1>2, <1>3, <1>4 DEF GetNextLoop, UMoves
<1>6. PICK a \in 0 .. n - 1 : a = r % n
  BY <1>3, Division
<1>7. ASSUME NEW t \in 1 .. n
      PROVE  /\ Assigned(t) \in Nat
             /\ Assigned(t)' = IF t = a + 1 THEN Assigned(t) + 1 ELSE Assigned(t)
  <2>1. IsFiniteSet(InSlot(t)) /\ Cardinality(InSlot(t)) \in Nat /\ handed[t] \in Nat
    BY <1>2, InSlotFinite DEF Types, PoolTypeOK
  <2>2. /\ \A v \in Users : v # u => upc'[v] = upc[v]
        /\ upc'[u][1] = "indexed" /\ upc'[u][2] = r /\ upc[u][1] # "indexed"
    BY <1>5 DEF Types, TypeOK
  <2>3. u \notin InSlot(t)
    BY <2>2 DEF InSlot
  <2>4. CASE t = a + 1
    <3>1. 1 + (upc'[u][2] % n) = t
      BY <1>6, <2>2, <2>4
    <3>2. InSlot(t)' = InSlot(t) \cup {u}
      BY <1>2, <1>5, <2>2, <3>1, Zenon DEF InSlot
    <3>3. Cardinality(InSlot(t)') = Cardinality(InSlot(t)) + 1
      BY <2>1, <2>3, <3>2, FS_AddElement
    <3> QED BY <1>5, <2>1, <2>4, <3>3 DEF Assigned
  <2>5. CASE t # a + 1
    <3>1. 1 + (upc'[u][2] % n) # t
      BY <1>6, <2>2, <2>5
    <3>2. InSlot(t)' = InSlot(t)
      BY <1>2, <1>5, <2>2, <3>1, Zenon DEF InSlot
    <3> QED BY <1>5, <2>1, <2>5, <3>2 DEF Assigned
  <2> QED BY <2>4, <2>5
<1>8. PICK W \in Nat : W = Wraps /\ W = IF R % n # 0 THEN k \div R ELSE 0
  <2>1. k \div R \in Nat /\ n > 0
    BY Division
  <2>2. Wraps = IF R % n # 0 THEN k \div R ELSE 0
    BY <1>1, <1>2, <1>4, <2>1 DEF Wraps
  <2>3. Wraps \in Nat
    BY <2>1, <2>2
  <2> QED BY <2>2, <2>3, Zenon
<1>9. Wraps' = IF R % n # 0 THEN (k + 1) \div R ELSE 0
  BY <1>1, <1>2, <1>5 DEF Wraps
<1>10. (r + 1) % n \in 0 .. n - 1
  <2>1. r + 1 \in Nat
    BY <1>3
  <2> QED BY <2>1, Division, Zenon
<1>11. ASSUME NEW s \in 1 .. n, NEW t \in 1 .. n
       PROVE  Assigned(s)' + Ahead(t, (r + 1) % n)
                <= Assigned(t)' + W + Ahead(s, (r + 1) % n)
  <2>1. Assigned(s) + Ahead(t, a) <= Assigned(t) + W + Ahead(s, a)
    BY <1>2, <1>3, <1>6, <1>8 DEF SpreadInv
  <2>2. /\ a + 1 < n => (r + 1) % n = a + 1
        /\ a + 1 = n => (r + 1) % n = 0
    BY <1>3, <1>6, NextIndex
  <2>3. PICK A \in Nat, B \in Nat, r1 \in 0 .. n - 1 :
          A = Assigned(s) /\ B = Assigned(t) /\ r1 = (r + 1) % n
    BY <1>7, <1>10, Zenon
  <2>4. (IF s = a + 1 THEN Assigned(s) + 1 ELSE Assigned(s)) + Ahead(t, (r + 1) % n)
          <= (IF t = a + 1 THEN Assigned(t) + 1 ELSE Assigned(t)) + W
               + Ahead(s, (r + 1) % n)
    <3>1. A + Ahead(t, a) <= B + W + Ahead(s, a)
      BY <2>1, <2>3, Zenon
    <3>2. (a + 1 < n => r1 = a + 1) /\ (a + 1 = n => r1 = 0)
      BY <2>2, <2>3, Zenon
    <3>3. (IF s = a + 1 THEN A + 1 ELSE A) + Ahead(t, r1)
            <= (IF t = a + 1 THEN B + 1 ELSE B) + W + Ahead(s, r1)
      BY <3>1, <3>2 DEF Ahead
    <3> QED BY <2>3, <3>3, Zenon
  <2> QED BY <1>7, <2>4, Zenon
<1>12. (\A v \in Users : upc[v][1] = "indexed" => size > 0)'
  BY <1>5
<1>13. CASE r + 1 < R
  <2>1. (k + 1) % R = r + 1 /\ (k + 1) \div R = k \div R
    BY <1>4, <1>13, NextIndex
  <2>2. (r + 1) % R = r + 1
    BY <1>3, <1>13, SmallIndex
  <2>3. Wraps' = W
    BY <1>8, <1>9, <2>1
  <2>4. loopIndex_' = r + 1 /\ loopIndex_' = picks' % 2^IndexBits
    BY <1>1, <1>5, <2>1, <2>2
  <2>5. ASSUME NEW s \in 1 .. n, NEW t \in 1 .. n
        PROVE  Assigned(s)' + Ahead(t, loopIndex_' % n)
                 <= Assigned(t)' + Wraps' + Ahead(s, loopIndex_' % n)
    BY <1>11, <2>3, <2>4, Zenon
  <2> QED BY <1>5, <1>12, <2>4, <2>5, Zenon DEF SpreadInv
<1>14. CASE r + 1 = R
  <2>1. (k + 1) % R = 0 /\ (k + 1) \div R = (k \div R) + 1
    BY <1>4, <1>14, NextIndex
  <2>2. loopIndex_' = 0 /\ loopIndex_' = picks' % 2^IndexBits
    BY <1>1, <1>5, <1>14, <2>1, SmallIndex
  <2>3. loopIndex_' % n = 0
    BY <2>2, SmallIndex
  <2>4. ASSUME NEW s \in 1 .. n, NEW t \in 1 .. n
        PROVE  Assigned(s)' + Ahead(t, loopIndex_' % n)
                 <= Assigned(t)' + Wraps' + Ahead(s, loopIndex_' % n)
    <3>1. Assigned(s)' + Ahead(t, R % n) <= Assigned(t)' + W + Ahead(s, R % n)
      BY <1>11, <1>14
    <3>2. Assigned(s)' \in Nat /\ Assigned(t)' \in Nat
      BY <1>7
    <3>3. /\ Ahead(t, R % n) \in {0, 1} /\ Ahead(s, R % n) \in {0, 1}
          /\ Ahead(t, 0) = 0 /\ Ahead(s, 0) = 0
      BY DEF Ahead
    <3>4. CASE R % n = 0
      BY <1>8, <1>9, <2>3, <3>1, <3>4
    <3>5. CASE R % n # 0
      <4>1. Wraps' = W + 1
        BY <1>8, <1>9, <2>1, <3>5
      <4> QED BY <2>3, <3>1, <3>2, <3>3, <4>1
    <3> QED BY <3>4, <3>5
  <2> QED BY <1>5, <1>12, <2>2, <2>4, Zenon DEF SpreadInv
<1> QED BY <1>3, <1>13, <1>14
\* The loop is returned: the caller has counted for it already.
LEMMA ReturnSpread ==
  ASSUME Types, SpreadInv, NEW u \in Users, NextLoop(u)
  PROVE  SpreadInv'
<1>1. PICK n \in Nat \ {0} : n = size
  BY DEF Types, PoolTypeOK, NextLoop, SpreadInv
<1>2. PICK i \in Nat : i = upc[u][2]
  BY DEF Types, TypeOK
<1>3. PICK j \in 1 .. n : j = 1 + (i % n)
  <2>1. i % n \in 0 .. n - 1
    BY Division
  <2> QED BY <2>1
<1>4. /\ upc[u][1] = "indexed" /\ upc' = [upc EXCEPT ![u] = <<"idle", 0>>]
      /\ handed' = [handed EXCEPT ![j] = @ + 1]
      /\ UNCHANGED <<size, loopIndex_, picks>>
  BY <1>1, <1>2, <1>3 DEF NextLoop, UMoves
<1>5. /\ \A v \in Users : v # u => upc'[v] = upc[v]
      /\ upc'[u][1] # "indexed"
  BY <1>4 DEF Types, TypeOK
<1>6. ASSUME NEW t \in 1 .. n
      PROVE  Assigned(t)' = Assigned(t)
  <2>1. IsFiniteSet(InSlot(t)) /\ Cardinality(InSlot(t)) \in Nat /\ handed[t] \in Nat
    BY <1>1, InSlotFinite DEF Types, PoolTypeOK
  <2>2. CASE t = j
    <3>1. 1 + (upc[u][2] % size) = t
      BY <1>1, <1>2, <1>3, <2>2
    <3>2. u \in InSlot(t) /\ InSlot(t)' = InSlot(t) \ {u}
      BY <1>4, <1>5, <3>1, Zenon DEF InSlot
    <3>3. Cardinality(InSlot(t)') = Cardinality(InSlot(t)) - 1
      BY <2>1, <3>2, FS_RemoveElement
    <3>4. handed'[t] = handed[t] + 1
      BY <1>1, <1>4, <2>2 DEF Types, PoolTypeOK
    <3> QED BY <2>1, <3>3, <3>4 DEF Assigned
  <2>3. CASE t # j
    <3>1. 1 + (upc[u][2] % size) # t
      BY <1>1, <1>2, <1>3, <2>3
    <3>2. InSlot(t)' = InSlot(t)
      BY <1>4, <1>5, <3>1, Zenon DEF InSlot
    <3>3. handed'[t] = handed[t]
      BY <1>1, <1>4, <2>3 DEF Types, PoolTypeOK
    <3> QED BY <3>2, <3>3 DEF Assigned
  <2> QED BY <2>2, <2>3
<1>7. Wraps' = Wraps
  BY <1>4 DEF Wraps
<1>8. (\A v \in Users : upc[v][1] = "indexed" => size > 0)'
  BY <1>1, <1>4
<1>9. ASSUME size' > 0, NEW a \in 1 .. size', NEW b \in 1 .. size'
      PROVE  Assigned(a)' + Ahead(b, loopIndex_' % size')
               <= Assigned(b)' + Wraps' + Ahead(a, loopIndex_' % size')
  BY <1>1, <1>4, <1>6, <1>7, <1>9, Zenon DEF SpreadInv
<1>10. loopIndex_' = picks' % 2^IndexBits
  BY <1>4 DEF SpreadInv
<1> QED BY <1>8, <1>9, <1>10, Zenon DEF SpreadInv

\* Every other step leaves getNextLoop alone.
LEMMA OtherSteps ==
  ASSUME Types, [Next]_vars, \A u \in Users : ~GetNextLoop(u) /\ ~NextLoop(u)
  PROVE  QuietMove
<1>1. \A n \in Nat : /\ After(n, "constructing", "idle")[1] # "indexed"
                     /\ After(n, "run", "idle")[1] # "indexed"
                     /\ After(n, "wait", "idle")[1] # "indexed"
                     /\ After(n, "destroy", "gone")[1] # "indexed"
  BY DEF After
<1>2. ASSUME NEW u \in Users, NEW from, NEW to, UMoves(u, from, to),
             from[1] # "indexed", to[1] # "indexed", UNCHANGED pool
      PROVE  QuietMove
  BY <1>2 DEF QuietMove
<1>3. ASSUME NEW t \in Threads, Thread(t), UNCHANGED pool
      PROVE  QuietMove
  BY <1>3 DEF QuietMove, Thread, MakeLoop, PublishLoop, AwaitRun, EnterLoop, CheckQuit,
     Drain, ClearLoop, EndThread
<1>4. CASE CallWait
  BY <1>1, <1>2, <1>4 DEF CallWait
<1>5. CASE Destroy
  BY <1>1, <1>2, <1>5 DEF Destroy
<1>6. ASSUME NEW u \in Users, Start(u)
      PROVE  QuietMove
  BY <1>1, <1>2, <1>6 DEF Start
<1>7. ASSUME NEW u \in Users, NEW t \in Threads, UseLoop(u, t), UNCHANGED pool
      PROVE  QuietMove
  BY <1>7 DEF UseLoop, Quit, Queue, QuietMove
<1>8. ASSUME NEW u \in Users, NEW t \in Threads, NEW from, NEW to, UNCHANGED pool,
             RunOnce(u, t, from, to) \/ RunAwaits(u, t, from, to) \/ RunPasses(u, t, from, to),
             from[1] # "indexed", to[1] # "indexed"
      PROVE  QuietMove
  BY <1>2, <1>8 DEF RunOnce, RunAwaits, RunPasses
<1>9. ASSUME NEW u \in Users, NEW t \in Threads, StartOne(u, t), UNCHANGED pool
      PROVE  QuietMove
  <2>1. After(t, "run", "idle")[1] # "indexed"
    BY DEF After
  <2>2. <<"run", t>>[1] # "indexed" /\ <<"runwait", t>>[1] # "indexed"
    OBVIOUS
  <2> QED BY <1>8, <1>9, <2>1, <2>2 DEF StartOne, Run
<1>10. ASSUME NEW t \in Threads, UNCHANGED pool,
              StartThread(t) \/ Construct(t) \/ WaitOne(t) \/ DestroyOne(t)
       PROVE  QuietMove
  <2>1. t \in Nat
    OBVIOUS
  <2>2. CASE StartThread(t)
    BY <1>10, <2>2 DEF StartThread, QuietMove
  <2>3. CASE Construct(t)
    BY <1>1, <1>2, <1>10, <2>1, <2>3 DEF Construct, ConstructorReturns
  <2>4. CASE WaitOne(t)
    BY <1>1, <1>2, <1>10, <2>1, <2>4 DEF WaitOne, Wait
  <2>5. CASE DestroyRun(t)
    <3>1. /\ <<"destroy", t>>[1] # "indexed" /\ <<"runs", t>>[1] # "indexed"
          /\ <<"lock", t>>[1] # "indexed"
      OBVIOUS
    <3> QED BY <1>8, <1>10, <2>5, <3>1 DEF DestroyRun
  <2>6. CASE DestroyLock(t)
    BY <1>2, <1>10, <2>6 DEF DestroyLock
  <2>7. CASE DestroyQuit(t)
    BY <1>2, <1>10, <2>7 DEF DestroyQuit
  <2>8. CASE DestroyJoin(t, After(t, "destroy", "gone"))
    BY <1>1, <1>2, <1>10, <2>1, <2>8 DEF DestroyJoin
  <2> QED BY <1>10, <2>2, <2>3, <2>4, <2>5, <2>6, <2>7, <2>8 DEF DestroyOne
<1>11. CASE UNCHANGED vars
  BY <1>11 DEF vars, threadVars, QuietMove
<1>12. ASSUME NEW u \in Users, Step(u)
       PROVE  QuietMove
  BY <1>9, <1>10, <1>12 DEF Step
<1> QED BY <1>3, <1>4, <1>5, <1>6, <1>7, <1>11, <1>12 DEF Next

\* getNextLoop in its two steps, for callers that overtake each other.
LEMMA StepSpread ==
  ASSUME Types, SpreadInv, [Next]_vars
  PROVE  SpreadInv'
BY FetchSpread, ReturnSpread, OtherSteps, QuietSpread

\* Nobody has picked a loop.
LEMMA InitSpread == Init => SpreadInv
<1> SUFFICES ASSUME Init PROVE SpreadInv
  OBVIOUS
<1>1. \A u \in Users : upc[u][1] # "indexed"
  BY DEF Init, After
<1>2. loopIndex_ = 0 /\ picks = 0 /\ size \in 0 .. MaxThreads
  BY DEF Init
<1>3. 0 % 2^IndexBits = 0 /\ 0 \div 2^IndexBits \in Nat
  BY RangeAssumption, SmallIndex, Division
<1>4. ASSUME size > 0, NEW s \in 1 .. size, NEW t \in 1 .. size
      PROVE  Assigned(s) + Ahead(t, loopIndex_ % size)
               <= Assigned(t) + Wraps + Ahead(s, loopIndex_ % size)
  <2>1. InSlot(s) = {} /\ InSlot(t) = {}
    BY <1>1 DEF InSlot
  <2>2. Assigned(s) = 0 /\ Assigned(t) = 0
    BY <1>2, <2>1, FS_EmptySet DEF Init, Assigned
  <2>3. Wraps \in Nat
    BY <1>2, <1>3 DEF Wraps
  <2>4. loopIndex_ % size = 0
    BY <1>2, <1>4, SmallIndex
  <2> QED BY <2>2, <2>3, <2>4 DEF Ahead
<1> QED BY <1>1, <1>2, <1>3, <1>4 DEF SpreadInv

\* getNextLoop spreads its callers over the loops: two loops are never further
\* apart than one call, the calls between their two steps, and one for every time
\* that the index wrapped round when size() does not divide its range.
THEOREM LoopsAreSpread == Spec => []RoundRobin
<1>1. ASSUME Types, SpreadInv PROVE RoundRobin
  <2> DEFINE Inside == {u \in Users : upc[u][1] = "indexed"}
  <2>1. SUFFICES ASSUME NEW s \in 1 .. size, NEW t \in 1 .. size
                 PROVE  handed[s] <= handed[t] + 1 + Cardinality(Inside) + Wraps
    BY DEF RoundRobin, Wraps
  <2>2. size \in Nat \ {0} /\ handed[s] \in Nat /\ handed[t] \in Nat
    BY <1>1 DEF Types, PoolTypeOK
  <2>3. Assigned(s) + Ahead(t, loopIndex_ % size)
          <= Assigned(t) + Wraps + Ahead(s, loopIndex_ % size)
    BY <1>1, <2>2 DEF SpreadInv
  <2>4. Cardinality(InSlot(s)) \in Nat /\ Cardinality(InSlot(t)) \in Nat
    BY InSlotFinite
  <2>5. /\ Cardinality(Inside) \in Nat
        /\ Cardinality(InSlot(t)) <= Cardinality(Inside)
    <3>1. IsFiniteSet(Inside)
      BY UsersAssumption, FS_Subset
    <3>2. InSlot(t) \subseteq Inside
      BY DEF InSlot
    <3> QED BY <3>1, <3>2, FS_Subset, FS_CardinalityType
  <2>6. Wraps \in Nat
    <3>1. picks \div 2^IndexBits \in Nat
      BY <1>1, RangeAssumption, Division DEF Types, PoolTypeOK
    <3> QED BY <3>1 DEF Wraps
  <2>7. /\ Ahead(t, loopIndex_ % size) \in {0, 1}
        /\ Ahead(s, loopIndex_ % size) \in {0, 1}
    BY DEF Ahead
  <2> HIDE DEF Inside
  <2> QED BY <2>2, <2>3, <2>4, <2>5, <2>6, <2>7 DEF Assigned
<1> QED BY <1>1, InitSpread, StepSpread, AlwaysTypes, PTL DEF Spec
=============================================================================
