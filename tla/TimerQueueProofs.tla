--------------------------- MODULE TimerQueueProofs ---------------------------
(***************************************************************************)
(* Safety of TimerQueue for every number of timers, every clock, every set *)
(* of delays and intervals, whatever the threads do and callbacks throw.   *)
(***************************************************************************)
EXTENDS TimerQueue, WellFoundedInduction, TLAPS

USE BoundsAssumption

------------------------------------------------------------------------------
(* Lemmas about the operators of the model.                                *)

\* A nonempty set of naturals has a least element.
LEMMA LeastNatural ==
  ASSUME NEW S, S \subseteq Nat, S # {}
  PROVE  \E x \in S : \A y \in S : x <= y
<1> DEFINE R == OpToRel(<, Nat)
<1>1. IsWellFoundedOn(R, Nat)
  BY NatLessThanWellFounded
<1> HIDE DEF R
<1>2. PICK x \in S : \A y \in S : ~ (<<y, x>> \in R)
  BY <1>1, WFMin
<1>3. \A y \in S : <<y, x>> \in R <=> y < x
  BY DEF OpToRel, R
<1>4. \A y \in S : ~ (y < x)
  BY <1>2, <1>3
<1>5. \A y \in S : x <= y
  BY <1>4
<1> QED
  BY <1>5

\* The top of a heap that is not empty is the due time of one of its timers and
\* not after any other.
LEMMA TopIsLeast ==
  ASSUME NEW S \in SUBSET Timers, S # {}, NEW due \in [Timers -> Nat]
  PROVE  /\ Top(S, due) \in Nat
         /\ \E u \in S : Top(S, due) = due[u]
         /\ \A u \in S : Top(S, due) <= due[u]
<1> DEFINE D == {due[t] : t \in S}
<1>1. D \subseteq Nat /\ D # {}
  OBVIOUS
<1>2. PICK w \in D : \A y \in D : w <= y
  BY <1>1, LeastNatural
<1>3. \A t \in S : w <= due[t]
  BY <1>2
<1>4. Top(S, due) \in D /\ \A t \in S : Top(S, due) <= due[t]
  BY <1>3 DEF Top
<1> QED
  BY <1>1, <1>4

\* Whatever has been created is a timer.
LEMMA KnownAreTimers ==
  ASSUME NEW n \in 0 .. MaxTimers, NEW S, S \subseteq 1 .. n
  PROVE  S \in SUBSET Timers
BY DEF Timers

\* resetTimerfd arms the timerfd for no moment after `when' and the shortest
\* delay.
LEMMA ResetTimerfdArms ==
  ASSUME NEW when \in Nat, now \in Nat, ResetTimerfd(when)
  PROVE  /\ timerfd_' \in Nat /\ timerfd_' \in 0 .. Max2(when, now + 1)
         /\ readable' = FALSE
BY DEF ResetTimerfd, Max2

\* addTimerInLoop keeps the types.
LEMMA AddTimerInLoopTyped ==
  ASSUME TypeOK, NEW t \in Timers, AddTimerInLoop(t), when_' \in [Timers -> Nat]
  PROVE  timerfd_' \in {Off} \cup Nat /\ readable' \in BOOLEAN
<1>1. when_'[t] \in Nat /\ now \in Nat
  BY DEF TypeOK
<1>2. CASE ResetTimerfd(when_'[t])
  BY <1>1, <1>2, ResetTimerfdArms
<1>3. CASE UNCHANGED fd
  BY <1>3 DEF fd, TypeOK
<1> QED
  BY <1>2, <1>3 DEF AddTimerInLoop

\* An interval is a number of ticks.
LEMMA IntervalIsNatural ==
  ASSUME TypeOK, NEW t \in Timers
  PROVE  interval_[t] \in Nat
<1>1. interval_[t] \in Intervals \/ interval_[t] = 0
  BY DEF TypeOK
<1>2. CASE interval_[t] \in Intervals
  BY <1>2, DelaysAssumption, Zenon
<1> QED
  BY <1>1, <1>2

------------------------------------------------------------------------------
\* Types, to begin with.
LEMMA InitTypeOK == Init => TypeOK
<1> SUFFICES ASSUME Init PROVE TypeOK
  OBVIOUS
<1>1. /\ timersCreated_ \in 0 .. MaxTimers /\ now \in 0 .. MaxTime
      /\ readAt \in 0 .. MaxTime /\ loops \in 0 .. MaxLoops
  BY DEF Init
<1>2. /\ when_ \in [Timers -> Nat] /\ interval_ \in [Timers -> Intervals \cup {0}]
      /\ since \in [Timers -> Nat] /\ ran \in [Timers -> Nat]
  BY DEF Init
<1>3. funcs \in Seq({"add", "invalidate"} \X (1 .. timersCreated_))
  BY DEF Init
<1> QED
  BY <1>1, <1>2, <1>3, Zenon DEF Init, TypeOK

\* A new timer is the next one of the catalog.
LEMMA NewTimerTyped ==
  ASSUME TypeOK, NEW d \in Delays, NEW i \in Intervals, NewTimer(d, i)
  PROVE  /\ timersCreated_ + 1 \in Timers
         /\ timersCreated_' = timersCreated_ + 1
         /\ timersCreated_' \in 0 .. MaxTimers
         /\ when_' \in [Timers -> Nat]
         /\ interval_' \in [Timers -> Intervals \cup {0}]
         /\ since' \in [Timers -> Nat]
<1>1. timersCreated_ + 1 \in Timers
  BY DEF NewTimer, TypeOK, Timers
<1>2. now + d \in Nat /\ now \in Nat
  BY DelaysAssumption DEF TypeOK
<1> QED
  BY <1>1, <1>2 DEF NewTimer, TypeOK

\* Types, step by step.
LEMMA StepTypeOK == TypeOK /\ [Next]_vars => TypeOK'
<1> SUFFICES ASSUME TypeOK, [Next]_vars PROVE TypeOK'
  OBVIOUS
<1> USE DEF fd, batch, catalog, calls, runs
<1>1. CASE Tick \/ Expire
  <2>1. CASE Tick
    BY <2>1 DEF Tick, TypeOK
  <2>2. CASE Expire
    BY <2>2 DEF Expire, TypeOK
  <2> QED
    BY <1>1, <2>1, <2>2
<1>2. ASSUME NEW d \in Delays, NEW i \in Intervals, LoopThreadAdd(d, i) PROVE TypeOK'
  <2>1. NewTimer(d, i) /\ AddTimerInLoop(timersCreated_ + 1)
    BY <1>2 DEF LoopThreadAdd
  <2>2. timerfd_' \in {Off} \cup Nat /\ readable' \in BOOLEAN
    BY <2>1, NewTimerTyped, AddTimerInLoopTyped
  <2>3. 1 .. timersCreated_ \subseteq 1 .. timersCreated_'
    BY <2>1, NewTimerTyped DEF TypeOK
  <2>4. funcs' \in Seq({"add", "invalidate"} \X (1 .. timersCreated_'))
    BY <1>2, <2>3 DEF LoopThreadAdd, TypeOK
  <2>5. /\ timers_' \subseteq 1 .. timersCreated_'
        /\ timerIdSet_' \subseteq 1 .. timersCreated_'
    <3>1. /\ timers_' = timers_ \cup {timersCreated_ + 1}
          /\ timerIdSet_' = timerIdSet_ \cup {timersCreated_ + 1}
      BY <2>1 DEF AddTimerInLoop
    <3>2. timersCreated_ + 1 \in 1 .. timersCreated_'
      BY <2>1, NewTimerTyped DEF TypeOK
    <3>3. timers_ \subseteq 1 .. timersCreated_ /\ timerIdSet_ \subseteq 1 .. timersCreated_
      BY DEF TypeOK
    <3> QED
      BY <2>3, <3>1, <3>2, <3>3
  <2> QED
    BY <2>1, <2>2, <2>3, <2>4, <2>5, NewTimerTyped DEF NewTimer, TypeOK
<1>3. ASSUME NEW t \in Timers, LoopThreadInvalidate(t) PROVE TypeOK'
  <2>1. t \in 1 .. timersCreated_
    BY <1>3 DEF LoopThreadInvalidate, TypeOK, Timers
  <2>2. timerIdSet_' \subseteq 1 .. timersCreated_ /\ erased' \subseteq 1 .. timersCreated_
    BY <1>3, <2>1 DEF LoopThreadInvalidate, EraseTimer, TypeOK
  <2> QED
    BY <1>3, <2>1, <2>2 DEF LoopThreadInvalidate, TypeOK
<1>4. CASE Loop \/ Quit \/ Leave \/ Throw
  <2>1. CASE Loop
    <3>1. loops \in 0 .. MaxLoops /\ loops < MaxLoops /\ loops' = loops + 1
      BY <2>1 DEF Loop, TypeOK
    <3>2. loops' \in 0 .. MaxLoops
      BY <3>1
    <3>3. quit_' \in BOOLEAN /\ lpc' = "poll"
      BY <2>1 DEF Loop
    <3> QED
      BY <2>1, <3>2, <3>3 DEF Loop, TypeOK
  <2>2. CASE Quit
    BY <2>2 DEF Quit, TypeOK
  <2>3. CASE Throw
    BY <2>3 DEF Throw, TypeOK
  <2>4. CASE Leave
    BY <2>4 DEF Leave, TypeOK
  <2> QED
    BY <1>4, <2>1, <2>2, <2>3, <2>4
<1>5. CASE ResetTimerQueue
  <2>1. timers_ \in SUBSET Timers /\ when_ \in [Timers -> Nat] /\ now \in Nat
    BY DEF TypeOK, Timers
  <2>2. timers_ # {} => Top(timers_, when_) \in Nat
    BY <2>1, TopIsLeast
  <2>3. timerfd_' \in {Off} \cup Nat /\ readable' \in BOOLEAN
    <3>1. CASE timers_ = {}
      BY <1>5, <3>1 DEF ResetTimerQueue
    <3>2. CASE timers_ # {}
      <4>1. ResetTimerfd(Top(timers_, when_))
        BY <1>5, <3>2 DEF ResetTimerQueue
      <4> QED
        BY <2>1, <2>2, <3>2, <4>1, ResetTimerfdArms
    <3> QED
      BY <3>1, <3>2
  <2> QED
    BY <1>5, <2>3 DEF ResetTimerQueue, TypeOK
<1>6. ASSUME NEW d \in Delays, NEW i \in Intervals, CallerAdd(d, i) PROVE TypeOK'
  <2>1. NewTimer(d, i)
    BY <1>6 DEF CallerAdd
  <2>2. 1 .. timersCreated_ \subseteq 1 .. timersCreated_'
    BY <2>1, NewTimerTyped DEF TypeOK
  <2>3. Add(timersCreated_ + 1) \in {"add", "invalidate"} \X (1 .. timersCreated_')
    <3>1. timersCreated_ + 1 \in 1 .. timersCreated_'
      BY <2>1, NewTimerTyped DEF TypeOK
    <3> QED
      BY <3>1 DEF Add
  <2>4. funcs' \in Seq({"add", "invalidate"} \X (1 .. timersCreated_'))
    BY <1>6, <2>2, <2>3 DEF CallerAdd, TypeOK
  <2> QED
    BY <1>6, <2>1, <2>2, <2>4, NewTimerTyped DEF CallerAdd, NewTimer, TypeOK
<1>7. ASSUME NEW t \in Timers, CallerInvalidate(t) PROVE TypeOK'
  <2>1. t \in 1 .. timersCreated_
    BY <1>7 DEF CallerInvalidate, TypeOK, Timers
  <2>2. funcs' \in Seq({"add", "invalidate"} \X (1 .. timersCreated_))
    <3>1. funcs' = funcs \/ funcs' = Append(funcs, Invalidate(t))
      BY <1>7 DEF CallerInvalidate
    <3>2. Invalidate(t) \in {"add", "invalidate"} \X (1 .. timersCreated_)
      BY <2>1 DEF Invalidate
    <3>3. funcs \in Seq({"add", "invalidate"} \X (1 .. timersCreated_))
      BY DEF TypeOK
    <3> QED
      BY <3>1, <3>2, <3>3
  <2> QED
    BY <1>7, <2>1, <2>2 DEF CallerInvalidate, TypeOK
<1>8. CASE RunQueued
  <2>1. /\ Head(funcs)[2] \in 1 .. timersCreated_ /\ Head(funcs)[2] \in Timers
        /\ funcs' \in Seq({"add", "invalidate"} \X (1 .. timersCreated_))
    <3>1. funcs # <<>> /\ funcs' = Tail(funcs)
      BY <1>8 DEF RunQueued
    <3>2. funcs \in Seq({"add", "invalidate"} \X (1 .. timersCreated_))
      BY DEF TypeOK
    <3>3. /\ Head(funcs) \in {"add", "invalidate"} \X (1 .. timersCreated_)
          /\ funcs' \in Seq({"add", "invalidate"} \X (1 .. timersCreated_))
      BY <3>1, <3>2
    <3>4. 1 .. timersCreated_ \subseteq Timers
      BY DEF TypeOK, Timers
    <3> QED
      BY <3>3, <3>4
  <2> DEFINE t == Head(funcs)[2]
  <2>2. CASE Head(funcs) = Add(t)
    BY <1>8, <2>1, <2>2, AddTimerInLoopTyped DEF RunQueued, AddTimerInLoop, TypeOK
  <2>3. CASE Head(funcs) # Add(t)
    BY <1>8, <2>1, <2>3 DEF RunQueued, EraseTimer, TypeOK
  <2> QED
    BY <2>2, <2>3
<1>9. CASE HandleRead
  BY <1>9 DEF HandleRead, TakeBatch, TypeOK
<1>10. ASSUME NEW t \in Timers, RunExpired(t) PROVE TypeOK'
  <2>1. ran' \in [Timers -> Nat] /\ since' \in [Timers -> Nat] /\ lpc' \in {"batch", "callback"}
    <3>1. readAt \in Nat
      BY DEF TypeOK
    <3> QED
      BY <1>10, <3>1 DEF RunExpired, LookAt, TypeOK
  <2>2. /\ todo' = todo \ {t}
        /\ UNCHANGED <<catalog, when_, timers_, timerIdSet_, fd, now, funcs, expired,
                       readAt, thrown, calls, cancelled, erased>>
    BY <1>10 DEF RunExpired, LookAt
  <2> QED
    BY <2>1, <2>2 DEF TypeOK
<1>11. CASE CallbackReturn
  BY <1>11 DEF CallbackReturn, TypeOK
<1>12. CASE Reset
  <2> DEFINE again == Repeating \cap timerIdSet_
             due   == [t \in Timers |-> readAt + interval_[t]]
  <2>1. Requeue(again, due)
    BY <1>12 DEF Reset
  <2>2. again \subseteq 1 .. timersCreated_ /\ due \in [Timers -> Nat]
    <3>1. readAt \in Nat
      BY DEF TypeOK
    <3>2. \A t \in Timers : readAt + interval_[t] \in Nat
      BY <3>1, IntervalIsNatural
    <3>3. expired \subseteq 1 .. timersCreated_
      BY DEF TypeOK
    <3> QED
      BY <3>2, <3>3 DEF Repeating
  <2> HIDE DEF again, due
  <2>3. when_' \in [Timers -> Nat] /\ timers_' \subseteq 1 .. timersCreated_
    BY <2>1, <2>2 DEF Requeue, TypeOK
  <2>4. timers_' # {} => Top(timers_', when_') \in Nat
    <3>1. timers_' \in SUBSET Timers
      BY <2>3 DEF TypeOK, Timers
    <3> QED
      BY <2>3, <3>1, TopIsLeast
  <2>5. timerfd_' \in {Off} \cup Nat /\ readable' \in BOOLEAN
    <3>1. CASE timers_' = {}
      BY <2>1, <3>1 DEF Requeue, TypeOK
    <3>2. CASE timers_' # {}
      <4>1. ResetTimerfd(Top(timers_', when_')) /\ now \in Nat
        BY <2>1, <3>2 DEF Requeue, TypeOK
      <4> QED
        BY <2>4, <3>2, <4>1, ResetTimerfdArms
    <3> QED
      BY <3>1, <3>2
  <2>6. timerIdSet_' \subseteq 1 .. timersCreated_ /\ readAt' \in 0 .. MaxTime
    <3>1. timerIdSet_' \subseteq timerIdSet_ /\ readAt' = 0
      BY <2>1, Zenon DEF Requeue
    <3> QED
      BY <3>1 DEF TypeOK
  <2>7. expired' \subseteq 1 .. timersCreated_ /\ todo' \subseteq expired'
    BY <2>1, Zenon DEF Requeue
  <2> QED
    BY <2>1, <2>3, <2>5, <2>6, <2>7 DEF Requeue, TypeOK
<1>13. CASE UNCHANGED vars
  BY <1>13 DEF vars, TypeOK
<1> QED
  BY <1>1, <1>2, <1>3, <1>4, <1>5, <1>6, <1>7, <1>8, <1>9, <1>10, <1>11, <1>12,
     <1>13 DEF Next, UserStep, CallerStep, LoopStep

\* Every variable of the timer queue keeps its type.
THEOREM TypeCorrect == Spec => []TypeOK
BY InitTypeOK, StepTypeOK, PTL DEF Spec

------------------------------------------------------------------------------
(* The life of an id.                                                      *)

\* An addTimer of another thread has not yet reached the loop.
Queued(t) == \E i \in 1 .. Len(funcs) : funcs[i] = Add(t)

\* A timer is queued at most once, and before it is anywhere else; an id that
\* an invalidation has taken out does not come back; a timer of the batch is
\* not in the heap.
IdsInv ==
  /\ \A t \in Timers : Queued(t) => t \notin timerIdSet_ \cup timers_ \cup expired \cup erased
  /\ \A i, j \in 1 .. Len(funcs) : funcs[i][1] = "add" /\ funcs[i] = funcs[j] => i = j
  /\ erased \cap timerIdSet_ = {}
  /\ expired \cap timers_ = {}

\* No timer exists.
LEMMA InitIdsInv == Init => IdsInv
BY DEF Init, IdsInv, Queued

\* An entry that is appended to the loop's queue is queued, and nothing else.
LEMMA QueuedAfterAppend ==
  ASSUME TypeOK, NEW x, funcs' = Append(funcs, x)
  PROVE  /\ Len(funcs') = Len(funcs) + 1 /\ Len(funcs) \in Nat
         /\ \A i \in 1 .. Len(funcs) : funcs'[i] = funcs[i]
         /\ funcs'[Len(funcs')] = x
         /\ \A t : Queued(t)' <=> Queued(t) \/ x = Add(t)
<1>1. /\ Len(funcs') = Len(funcs) + 1 /\ Len(funcs) \in Nat
      /\ \A i \in 1 .. Len(funcs) : funcs'[i] = funcs[i]
      /\ funcs'[Len(funcs')] = x
  BY DEF TypeOK
<1>2. ASSUME NEW t, Queued(t) PROVE Queued(t)'
  BY <1>1, <1>2 DEF Queued, Add
<1>3. ASSUME NEW t, x = Add(t) PROVE Queued(t)'
  BY <1>1, <1>3 DEF Queued, Add
<1>4. ASSUME NEW t, Queued(t)' PROVE Queued(t) \/ x = Add(t)
  <2>1. PICK i \in 1 .. Len(funcs') : funcs'[i] = Add(t)
    BY <1>4 DEF Queued, Add
  <2>2. i \in 1 .. Len(funcs) \/ i = Len(funcs')
    BY <1>1
  <2> QED
    BY <1>1, <2>1, <2>2 DEF Queued
<1> QED
  BY <1>1, <1>2, <1>3, <1>4

\* The entry that RunQueued takes from the loop's queue is not queued again.
LEMMA QueuedAfterTail ==
  ASSUME TypeOK, IdsInv, funcs # <<>>, funcs' = Tail(funcs)
  PROVE  /\ \A t : Queued(t)' => Queued(t) /\ Head(funcs) # Add(t)
         /\ \A t : Head(funcs) = Add(t) => Queued(t)
         /\ \A i, j \in 1 .. Len(funcs') :
               funcs'[i][1] = "add" /\ funcs'[i] = funcs'[j] => i = j
<1>1. /\ Len(funcs) \in Nat /\ Len(funcs) >= 1 /\ Len(funcs') = Len(funcs) - 1
      /\ Head(funcs) = funcs[1]
      /\ \A i \in 1 .. Len(funcs') : i + 1 \in 1 .. Len(funcs) /\ funcs'[i] = funcs[i + 1]
  BY DEF TypeOK
<1>2. ASSUME NEW t, Queued(t)' PROVE Queued(t) /\ Head(funcs) # Add(t)
  <2>1. PICK i \in 1 .. Len(funcs') : funcs'[i] = Add(t)
    BY <1>2 DEF Queued, Add
  <2>2. funcs[i + 1] = Add(t) /\ i + 1 \in 1 .. Len(funcs) /\ i + 1 # 1
    BY <1>1, <2>1
  <2>3. funcs[i + 1][1] = "add"
    BY <2>2 DEF Add
  <2>4. 1 \in 1 .. Len(funcs)
    BY <1>1
  <2>5. funcs[1] # Add(t)
    BY <2>2, <2>3, <2>4 DEF IdsInv
  <2> QED
    BY <1>1, <2>2, <2>5 DEF Queued
<1>3. ASSUME NEW t, Head(funcs) = Add(t) PROVE Queued(t)
  BY <1>1, <1>3 DEF Queued
<1>4. ASSUME NEW i \in 1 .. Len(funcs'), NEW j \in 1 .. Len(funcs'),
             funcs'[i][1] = "add", funcs'[i] = funcs'[j]
      PROVE  i = j
  <2>1. i + 1 = j + 1
    BY <1>1, <1>4 DEF IdsInv
  <2> QED
    BY <2>1
<1> QED
  BY <1>1, <1>2, <1>3, <1>4

\* A timer that is queued has been created.
LEMMA QueuedIsKnown ==
  ASSUME TypeOK, NEW t, Queued(t)
  PROVE  t \in 1 .. timersCreated_
<1>1. PICK i \in 1 .. Len(funcs) : funcs[i] = Add(t)
  BY DEF Queued
<1>2. funcs[i] \in {"add", "invalidate"} \X (1 .. timersCreated_)
  BY DEF TypeOK
<1>3. funcs[i][2] \in 1 .. timersCreated_
  BY <1>2
<1> QED
  BY <1>1, <1>3 DEF Add

\* An erased id never gets back into timerIdSet_.
LEMMA StepIdsInv == TypeOK /\ IdsInv /\ [Next]_vars => IdsInv'
<1> SUFFICES ASSUME TypeOK, IdsInv, [Next]_vars PROVE IdsInv'
  OBVIOUS
<1> USE DEF fd, batch, catalog, calls, runs
<1>1. CASE Tick \/ Expire \/ Loop \/ Quit \/ Leave \/ CallbackReturn \/ ResetTimerQueue
  BY <1>1 DEF Tick, Expire, Loop, Quit, Leave, CallbackReturn, ResetTimerQueue, IdsInv, Queued
<1>2. CASE Throw
  BY <1>2 DEF Throw, IdsInv, Queued
<1>3. ASSUME NEW d \in Delays, NEW i \in Intervals, LoopThreadAdd(d, i) PROVE IdsInv'
  <2> DEFINE n == timersCreated_ + 1
  <2>1. /\ timers_' = timers_ \cup {n} /\ timerIdSet_' = timerIdSet_ \cup {n}
        /\ UNCHANGED <<funcs, expired, erased>>
    BY <1>3 DEF LoopThreadAdd, NewTimer, AddTimerInLoop
  <2>2. n \notin 1 .. timersCreated_
    BY DEF TypeOK
  <2>3. n \notin expired \cup erased /\ ~Queued(n)
    BY <2>2, QueuedIsKnown DEF TypeOK
  <2>4. \A t : Queued(t)' <=> Queued(t)
    BY <2>1 DEF Queued, Add
  <2> HIDE DEF n
  <2> QED
    BY <2>1, <2>3, <2>4 DEF IdsInv
<1>4. ASSUME NEW t \in Timers, LoopThreadInvalidate(t) PROVE IdsInv'
  <2>1. /\ timerIdSet_' \subseteq timerIdSet_
        /\ erased' \subseteq erased \cup timerIdSet_ /\ erased' \cap timerIdSet_' = {}
        /\ UNCHANGED <<funcs, timers_, expired>>
    BY <1>4 DEF LoopThreadInvalidate, EraseTimer, IdsInv
  <2>2. \A u : Queued(u)' <=> Queued(u)
    BY <2>1 DEF Queued, Add
  <2> QED
    BY <2>1, <2>2 DEF IdsInv
<1>5. ASSUME NEW d \in Delays, NEW i \in Intervals, CallerAdd(d, i) PROVE IdsInv'
  <2> DEFINE n == timersCreated_ + 1
  <2>1. /\ funcs' = Append(funcs, Add(n))
        /\ UNCHANGED <<timers_, timerIdSet_, expired, erased>>
    BY <1>5 DEF CallerAdd, NewTimer
  <2>2. n \notin 1 .. timersCreated_
    BY DEF TypeOK
  <2>3. n \notin timerIdSet_ \cup timers_ \cup expired \cup erased /\ ~Queued(n)
    BY <2>2, QueuedIsKnown DEF TypeOK
  <2> HIDE DEF n
  <2>4. \A t : Add(n) = Add(t) => t = n
    BY DEF Add
  <2>5. \A t \in Timers : Queued(t)' =>
           t \notin timerIdSet_' \cup timers_' \cup expired' \cup erased'
    BY <2>1, <2>3, <2>4, QueuedAfterAppend DEF IdsInv
  <2>6. \A j \in 1 .. Len(funcs) : funcs[j] # Add(n)
    BY <2>3 DEF Queued
  <2>7. \A j, k \in 1 .. Len(funcs') :
           funcs'[j][1] = "add" /\ funcs'[j] = funcs'[k] => j = k
    <3> SUFFICES ASSUME NEW j \in 1 .. Len(funcs'), NEW k \in 1 .. Len(funcs'),
                        funcs'[j][1] = "add", funcs'[j] = funcs'[k]
                 PROVE  j = k
      OBVIOUS
    <3>1. /\ j \in 1 .. Len(funcs) \/ j = Len(funcs')
          /\ k \in 1 .. Len(funcs) \/ k = Len(funcs')
      BY <2>1, QueuedAfterAppend
    <3> QED
      BY <2>1, <2>6, <3>1, QueuedAfterAppend DEF IdsInv
  <2> QED
    BY <2>1, <2>5, <2>7 DEF IdsInv
<1>6. ASSUME NEW t \in Timers, CallerInvalidate(t) PROVE IdsInv'
  <2>1. UNCHANGED <<timers_, timerIdSet_, expired, erased>>
    BY <1>6 DEF CallerInvalidate
  <2>2. CASE UNCHANGED funcs
    BY <2>1, <2>2 DEF IdsInv, Queued
  <2>3. CASE funcs' = Append(funcs, Invalidate(t))
    <3>1. Invalidate(t)[1] # "add" /\ \A u : Invalidate(t) # Add(u)
      BY DEF Invalidate, Add
    <3>2. \A u \in Timers : Queued(u)' => Queued(u)
      BY <2>3, <3>1, QueuedAfterAppend
    <3>3. \A j, k \in 1 .. Len(funcs') :
             funcs'[j][1] = "add" /\ funcs'[j] = funcs'[k] => j = k
      <4> SUFFICES ASSUME NEW j \in 1 .. Len(funcs'), NEW k \in 1 .. Len(funcs'),
                          funcs'[j][1] = "add", funcs'[j] = funcs'[k]
                   PROVE  j = k
        OBVIOUS
      <4>1. j \in 1 .. Len(funcs) /\ k \in 1 .. Len(funcs)
        BY <2>3, <3>1, QueuedAfterAppend
      <4> QED
        BY <2>3, <4>1, QueuedAfterAppend DEF IdsInv
    <3> QED
      BY <2>1, <3>2, <3>3 DEF IdsInv
  <2> QED
    BY <1>6, <2>2, <2>3 DEF CallerInvalidate
<1>7. CASE RunQueued
  <2>1. funcs # <<>> /\ funcs' = Tail(funcs) /\ UNCHANGED expired
    BY <1>7 DEF RunQueued
  <2>2. PICK t \in Timers : t = Head(funcs)[2]
    <3>1. funcs \in Seq({"add", "invalidate"} \X (1 .. timersCreated_))
      BY DEF TypeOK
    <3>2. Head(funcs) \in {"add", "invalidate"} \X (1 .. timersCreated_)
      BY <2>1, <3>1
    <3>3. 1 .. timersCreated_ \subseteq Timers
      BY DEF TypeOK, Timers
    <3> QED
      BY <3>2, <3>3
  <2>3. CASE Head(funcs) = Add(t)
    <3>1. /\ timers_' = timers_ \cup {t} /\ timerIdSet_' = timerIdSet_ \cup {t}
          /\ UNCHANGED erased
      BY <1>7, <2>2, <2>3 DEF RunQueued, AddTimerInLoop
    <3>2. Queued(t) /\ ~Queued(t)'
      BY <2>1, <2>3, QueuedAfterTail
    <3>3. \A u \in Timers : Queued(u)' => Queued(u) /\ u # t
      BY <2>1, <3>2, QueuedAfterTail
    <3>4. t \notin timerIdSet_ \cup timers_ \cup expired \cup erased
      BY <2>2, <3>2 DEF IdsInv
    <3>5. \A i, j \in 1 .. Len(funcs') :
             funcs'[i][1] = "add" /\ funcs'[i] = funcs'[j] => i = j
      BY <2>1, QueuedAfterTail
    <3> QED
      BY <2>1, <3>1, <3>3, <3>4, <3>5 DEF IdsInv
  <2>4. CASE Head(funcs) # Add(t)
    <3>1. /\ timerIdSet_' \subseteq timerIdSet_
          /\ erased' \subseteq erased \cup timerIdSet_ /\ erased' \cap timerIdSet_' = {}
          /\ UNCHANGED timers_
      BY <1>7, <2>2, <2>4 DEF RunQueued, EraseTimer, IdsInv
    <3>2. \A u \in Timers : Queued(u)' => Queued(u)
      BY <2>1, QueuedAfterTail
    <3>3. \A i, j \in 1 .. Len(funcs') :
             funcs'[i][1] = "add" /\ funcs'[i] = funcs'[j] => i = j
      BY <2>1, QueuedAfterTail
    <3> QED
      BY <2>1, <3>1, <3>2, <3>3 DEF IdsInv
  <2> QED
    BY <2>3, <2>4
<1>8. CASE HandleRead
  <2>1. /\ expired' \subseteq timers_ /\ timers_' = timers_ \ expired'
        /\ UNCHANGED <<funcs, timerIdSet_, erased>>
    BY <1>8 DEF HandleRead, TakeBatch
  <2>2. \A u : Queued(u)' <=> Queued(u)
    BY <2>1 DEF Queued, Add
  <2> QED
    BY <2>1, <2>2 DEF IdsInv
<1>9. ASSUME NEW t \in Timers, RunExpired(t) PROVE IdsInv'
  BY <1>9 DEF RunExpired, LookAt, IdsInv, Queued
<1>10. CASE Reset
  <2>1. /\ timers_ \subseteq timers_' /\ timers_' \subseteq timers_ \cup expired
        /\ timerIdSet_' \subseteq timerIdSet_ /\ expired' = {}
        /\ UNCHANGED <<funcs, erased>>
    BY <1>10 DEF Reset, Requeue, Repeating
  <2>2. \A u : Queued(u)' <=> Queued(u)
    BY <2>1 DEF Queued, Add
  <2> QED
    BY <2>1, <2>2 DEF IdsInv
<1>11. CASE UNCHANGED vars
  BY <1>11 DEF vars, IdsInv, Queued
<1> QED
  BY <1>1, <1>2, <1>3, <1>4, <1>5, <1>6, <1>7, <1>8, <1>9, <1>10, <1>11
     DEF Next, UserStep, CallerStep, LoopStep

\* A timer that an invalidation has erased on the loop's thread never runs
\* again: not when it is next due, not when it is already in the batch
\* (TimerQueue.cpp:120-125, 137, 206).
THEOREM ErasedTimersNeverRun == Spec => ErasedNeverRuns
<1> DEFINE Quiet == \A t \in erased : ran'[t] = ran[t]
<1>1. TypeOK /\ IdsInv /\ [Next]_vars => [Quiet]_vars
  <2> SUFFICES ASSUME TypeOK, IdsInv, Next, NEW t \in erased PROVE ran'[t] = ran[t]
    OBVIOUS
  <2>1. ASSUME NEW u \in Timers, RunExpired(u) PROVE ran'[t] = ran[t]
    <3>1. erased \subseteq 1 .. timersCreated_ /\ timersCreated_ \in 0 .. MaxTimers
      BY DEF TypeOK
    <3>2. t \in Timers /\ t \notin timerIdSet_
      BY <3>1 DEF IdsInv, Timers
    <3> QED
      BY <2>1, <3>2 DEF RunExpired, LookAt, TypeOK, runs
  <2>2. (\A u \in Timers : ~RunExpired(u)) => UNCHANGED ran
    BY DEF Next, UserStep, CallerStep, LoopStep, Tick, Expire, LoopThreadAdd, NewTimer,
       LoopThreadInvalidate, Loop, Quit, Leave, Throw, ResetTimerQueue, CallerAdd,
       CallerInvalidate, RunQueued, HandleRead, TakeBatch, CallbackReturn, Reset, Requeue,
       runs
  <2> QED
    BY <2>1, <2>2
<1> QED
  BY <1>1, InitTypeOK, StepTypeOK, InitIdsInv, StepIdsInv, PTL DEF Spec, ErasedNeverRuns

------------------------------------------------------------------------------
(* How often a timer runs.                                                 *)

\* The timer may still run: it is on its way to the heap, in the heap, or in
\* the part of the batch that was not yet looked at.
Pending(t) == Queued(t) \/ t \in timers_ \/ t \in todo

\* The batch is of the past, and what is left of it was due when it was taken.
BatchInv == readAt <= now /\ \A t \in todo : when_[t] <= readAt

\* A timer not yet created has not run.  A one-shot timer that may still run has
\* not run; a repeating one is due an interval after the batch of its last run,
\* and the batch that it is in is not before that one.
Paced(t) ==
  /\ t > timersCreated_ => ran[t] = 0 /\ interval_[t] = 0
  /\ interval_[t] = 0 /\ Pending(t) => ran[t] = 0
  /\ interval_[t] > 0 =>
       /\ t \in expired => since[t] <= readAt
       /\ Pending(t) => since[t] + interval_[t] <= when_[t]

PaceInv == BatchInv /\ \A t \in Timers : Paced(t)

\* The types of one timer.
LEMMA TimerTyped ==
  ASSUME TypeOK, NEW t \in Timers
  PROVE  /\ ran[t] \in Nat /\ interval_[t] \in Nat /\ when_[t] \in Nat
         /\ since[t] \in Nat /\ t \in Nat
         /\ now \in Nat /\ readAt \in Nat /\ timersCreated_ \in Nat
<1>1. /\ ran[t] \in Nat /\ when_[t] \in Nat /\ since[t] \in Nat /\ t \in Nat
      /\ now \in Nat /\ readAt \in Nat /\ timersCreated_ \in Nat
  BY DEF TypeOK, Timers
<1> QED
  BY <1>1, IntervalIsNatural

\* No timer has run.
LEMMA InitPaceInv == Init => PaceInv
<1> SUFFICES ASSUME Init PROVE PaceInv
  OBVIOUS
<1>1. BatchInv
  BY DEF Init, BatchInv
<1>2. ASSUME NEW t \in Timers PROVE Paced(t)
  BY DEF Init, Paced
<1> QED
  BY <1>1, <1>2 DEF PaceInv

\* A step that does not run t nor renew it, while time passes, leaves it paced.
LEMMA PacedStays ==
  ASSUME TypeOK, TypeOK', NEW t \in Timers, Paced(t),
         ran'[t] = ran[t], interval_'[t] = interval_[t],
         since'[t] = since[t], when_'[t] = when_[t],
         timersCreated_ <= timersCreated_',
         Pending(t)' => Pending(t),
         t \in expired' => t \in expired /\ readAt' = readAt
  PROVE  Paced(t)'
<1>1. timersCreated_ \in Nat /\ timersCreated_' \in Nat /\ t \in Nat
  BY TimerTyped DEF TypeOK
<1> QED
  BY <1>1 DEF Paced

\* A new timer is paced, and so are the others.
LEMMA NewTimerPaced ==
  ASSUME TypeOK, TypeOK', PaceInv, NEW d \in Delays, NEW i \in Intervals,
         NewTimer(d, i), NEW t \in Timers,
         t # timersCreated_ + 1 /\ Pending(t)' => Pending(t)
  PROVE  Paced(t)'
<1>1. /\ t \in Nat /\ timersCreated_ \in Nat /\ timersCreated_' = timersCreated_ + 1
      /\ UNCHANGED <<ran, now, expired, readAt>>
  BY TimerTyped, NewTimerTyped DEF NewTimer, batch
<1>2. CASE t = timersCreated_ + 1
  <2>1. /\ when_'[t] = now + d /\ interval_'[t] = i /\ since'[t] = now
        /\ i > 0 => d = i
    BY <1>2 DEF NewTimer, TypeOK
  <2>2. ran[t] = 0 /\ t \notin expired
    BY <1>1, <1>2 DEF PaceInv, Paced, TypeOK
  <2>3. i \in Nat /\ now \in Nat
    BY DelaysAssumption DEF TypeOK
  <2> QED
    BY <1>1, <1>2, <2>1, <2>2, <2>3 DEF Paced
<1>3. CASE t # timersCreated_ + 1
  <2>1. when_'[t] = when_[t] /\ interval_'[t] = interval_[t] /\ since'[t] = since[t]
    BY <1>3 DEF NewTimer, TypeOK
  <2>2. timersCreated_ <= timersCreated_'
    BY <1>1 DEF TypeOK
  <2> QED
    BY <1>1, <1>3, <2>1, <2>2, PacedStays DEF PaceInv
<1> QED
  BY <1>2, <1>3

\* Whatever makes a timer pending makes it due late enough.
LEMMA StepPaceInv == TypeOK /\ IdsInv /\ PaceInv /\ [Next]_vars => PaceInv'
<1> SUFFICES ASSUME TypeOK, IdsInv, PaceInv, [Next]_vars PROVE PaceInv'
  OBVIOUS
<1> TypeOK'
  BY StepTypeOK
<1> USE DEF fd, batch, catalog, calls, runs
<1>1. CASE Tick
  <2>1. /\ now \in Nat /\ now' = now + 1 /\ timersCreated_ \in Nat /\ readAt \in Nat
        /\ UNCHANGED <<ran, interval_, since, when_, timersCreated_, expired, todo,
                       readAt, funcs, timers_>>
    BY <1>1 DEF Tick, TypeOK
  <2>2. ASSUME NEW t \in Timers PROVE Pending(t)' <=> Pending(t)
    BY <2>1 DEF Pending, Queued, Add
  <2>3. ASSUME NEW t \in Timers PROVE Paced(t)'
    BY <2>1, <2>2, PacedStays DEF PaceInv
  <2>4. BatchInv'
    BY <2>1 DEF PaceInv, BatchInv
  <2> QED
    BY <2>3, <2>4 DEF PaceInv
<1>2. CASE \/ Expire \/ Loop \/ Quit \/ Leave \/ CallbackReturn \/ ResetTimerQueue
           \/ UNCHANGED vars
  <2>1. UNCHANGED <<now, ran, interval_, since, when_, timersCreated_, expired,
                    todo, readAt, funcs, timers_>>
    BY <1>2 DEF Expire, Loop, Quit, Leave, CallbackReturn, ResetTimerQueue, vars
  <2> QED
    BY <2>1 DEF PaceInv, BatchInv, Paced, Pending, Queued
<1>3. CASE Throw
  <2>1. /\ UNCHANGED <<now, ran, interval_, since, when_, timersCreated_, funcs, timers_>>
        /\ expired' = {} /\ todo' = {} /\ readAt' = 0 /\ now \in Nat /\ timersCreated_ \in Nat
    BY <1>3 DEF Throw, TypeOK
  <2>2. ASSUME NEW t \in Timers PROVE Pending(t)' => Pending(t)
    BY <2>1 DEF Pending, Queued, Add
  <2>3. ASSUME NEW t \in Timers PROVE Paced(t)'
    BY <2>1, <2>2, PacedStays DEF PaceInv
  <2>4. BatchInv'
    BY <2>1 DEF BatchInv
  <2> QED
    BY <2>3, <2>4 DEF PaceInv
<1>4. ASSUME NEW d \in Delays, NEW i \in Intervals,
             LoopThreadAdd(d, i) \/ CallerAdd(d, i)
      PROVE  PaceInv'
  <2>1. NewTimer(d, i) /\ UNCHANGED <<now, expired, todo, readAt>>
    BY <1>4 DEF LoopThreadAdd, CallerAdd, NewTimer
  <2>2. ASSUME NEW t \in Timers, t # timersCreated_ + 1, Pending(t)' PROVE Pending(t)
    <3>1. CASE LoopThreadAdd(d, i)
      BY <2>1, <2>2, <3>1 DEF LoopThreadAdd, AddTimerInLoop, Pending, Queued, Add
    <3>2. CASE CallerAdd(d, i)
      <4>1. funcs' = Append(funcs, Add(timersCreated_ + 1)) /\ UNCHANGED timers_
        BY <3>2 DEF CallerAdd
      <4>2. Add(timersCreated_ + 1) # Add(t)
        BY <2>2 DEF Add
      <4>3. Queued(t)' => Queued(t)
        BY <4>1, <4>2, QueuedAfterAppend
      <4> QED
        BY <2>1, <2>2, <4>1, <4>3 DEF Pending
    <3> QED
      BY <1>4, <3>1, <3>2
  <2>3. ASSUME NEW t \in Timers PROVE Paced(t)'
    BY <2>1, <2>2, NewTimerPaced
  <2>4. \A t \in todo : t \in Timers /\ t # timersCreated_ + 1
    BY DEF TypeOK, Timers
  <2>5. \A t \in todo : when_'[t] = when_[t]
    BY <2>1, <2>4 DEF NewTimer, TypeOK
  <2>6. BatchInv'
    BY <2>1, <2>5 DEF PaceInv, BatchInv
  <2> QED
    BY <2>3, <2>6 DEF PaceInv
<1>5. ASSUME NEW u \in Timers, LoopThreadInvalidate(u) \/ CallerInvalidate(u)
      PROVE  PaceInv'
  <2>1. /\ UNCHANGED <<now, ran, interval_, since, when_, timersCreated_, expired, todo,
                       readAt, timers_>>
        /\ UNCHANGED funcs \/ funcs' = Append(funcs, Invalidate(u))
        /\ now \in Nat /\ timersCreated_ \in Nat
    BY <1>5 DEF LoopThreadInvalidate, CallerInvalidate, TypeOK
  <2>2. ASSUME NEW t \in Timers PROVE Pending(t)' => Pending(t)
    <3>1. Invalidate(u) # Add(t)
      BY DEF Invalidate, Add
    <3>2. Queued(t)' => Queued(t)
      BY <2>1, <3>1, QueuedAfterAppend DEF Queued, Add
    <3> QED
      BY <2>1, <3>2 DEF Pending
  <2>3. ASSUME NEW t \in Timers PROVE Paced(t)'
    BY <2>1, <2>2, PacedStays DEF PaceInv
  <2>4. BatchInv'
    BY <2>1 DEF PaceInv, BatchInv
  <2> QED
    BY <2>3, <2>4 DEF PaceInv
<1>6. CASE RunQueued
  <2>1. /\ UNCHANGED <<now, ran, interval_, since, when_, timersCreated_, expired, todo,
                       readAt>>
        /\ funcs # <<>> /\ funcs' = Tail(funcs)
        /\ now \in Nat /\ timersCreated_ \in Nat
    BY <1>6 DEF RunQueued, TypeOK
  <2>2. ASSUME NEW t \in Timers PROVE Pending(t)' => Pending(t)
    <3>1. Queued(t)' => Queued(t)
      BY <2>1, QueuedAfterTail
    <3>2. t \in timers_' => t \in timers_ \/ Head(funcs) = Add(t)
      BY <1>6 DEF RunQueued, AddTimerInLoop
    <3>3. Head(funcs) = Add(t) => Queued(t)
      BY <2>1, QueuedAfterTail
    <3> QED
      BY <2>1, <3>1, <3>2, <3>3 DEF Pending
  <2>3. ASSUME NEW t \in Timers PROVE Paced(t)'
    BY <2>1, <2>2, PacedStays DEF PaceInv
  <2>4. BatchInv'
    BY <2>1 DEF PaceInv, BatchInv
  <2> QED
    BY <2>3, <2>4 DEF PaceInv
<1>7. CASE HandleRead
  <2>1. /\ UNCHANGED <<now, ran, interval_, since, when_, timersCreated_, funcs>>
        /\ expired' = {t \in timers_ : when_[t] <= now} /\ todo' = expired'
        /\ timers_' = timers_ \ expired' /\ readAt' = now
        /\ now \in Nat /\ timersCreated_ \in Nat
    BY <1>7 DEF HandleRead, TakeBatch, TypeOK
  <2>2. ASSUME NEW t \in Timers PROVE Pending(t)' => Pending(t)
    BY <2>1 DEF Pending, Queued, Add
  <2>3. ASSUME NEW t \in Timers PROVE Paced(t)'
    <3>1. CASE t \in expired'
      <4>1. Pending(t) /\ when_[t] <= now
        BY <2>1, <3>1 DEF Pending
      <4> QED
        BY <2>1, <2>2, <4>1, TimerTyped DEF PaceInv, Paced
    <3>2. CASE t \notin expired'
      BY <2>1, <2>2, <3>2, PacedStays DEF PaceInv
    <3> QED
      BY <3>1, <3>2
  <2>4. BatchInv'
    BY <2>1 DEF BatchInv
  <2> QED
    BY <2>3, <2>4 DEF PaceInv
<1>8. ASSUME NEW u \in Timers, RunExpired(u) PROVE PaceInv'
  <2>1. /\ UNCHANGED <<now, interval_, when_, timersCreated_, expired, readAt, funcs,
                       timers_>>
        /\ u \in todo /\ todo' = todo \ {u}
        /\ \/ ran' = [ran EXCEPT ![u] = @ + 1] /\ since' = [since EXCEPT ![u] = readAt]
           \/ UNCHANGED <<ran, since>>
        /\ now \in Nat /\ timersCreated_ \in Nat
    BY <1>8 DEF RunExpired, LookAt, TypeOK
  <2>2. ASSUME NEW t \in Timers PROVE Pending(t)' => Pending(t)
    BY <2>1 DEF Pending, Queued, Add
  <2>3. ASSUME NEW t \in Timers PROVE Paced(t)'
    <3>1. CASE ran'[t] = ran[t]
      <4>1. CASE ran' = [ran EXCEPT ![u] = @ + 1] /\ since' = [since EXCEPT ![u] = readAt]
        <5>1. t # u
          <6>1. ran[t] \in Nat /\ ran \in [Timers -> Nat]
            BY DEF TypeOK
          <6> QED
            BY <3>1, <4>1, <6>1
        <5>2. since'[t] = since[t]
          BY <4>1, <5>1 DEF TypeOK
        <5> QED
          BY <2>1, <2>2, <3>1, <5>2, PacedStays DEF PaceInv
      <4>2. CASE UNCHANGED <<ran, since>>
        BY <2>1, <2>2, <4>2, PacedStays DEF PaceInv
      <4> QED
        BY <2>1, <4>1, <4>2
    <3>2. CASE ran'[t] # ran[t]
      <4>1. t = u /\ since'[t] = readAt
        BY <2>1, <3>2 DEF TypeOK
      <4>2. t \in expired /\ t \in 1 .. timersCreated_
        BY <2>1, <4>1 DEF TypeOK
      <4>3. ~Pending(t)'
        BY <2>1, <4>1, <4>2 DEF Pending, IdsInv, Queued, Add
      <4>4. ~(t > timersCreated_)
        BY <2>1, <4>2
      <4> QED
        BY <2>1, <4>1, <4>3, <4>4, TimerTyped DEF Paced
    <3> QED
      BY <3>1, <3>2
  <2>4. BatchInv'
    BY <2>1 DEF PaceInv, BatchInv
  <2> QED
    BY <2>3, <2>4 DEF PaceInv
<1>9. CASE Reset
  <2> DEFINE again == Repeating \cap timerIdSet_
             due   == [t \in Timers |-> readAt + interval_[t]]
  <2>1. /\ UNCHANGED <<now, ran, interval_, since, timersCreated_, funcs>>
        /\ todo = {} /\ todo' = {} /\ expired' = {} /\ readAt' = 0
        /\ timers_' = timers_ \cup again
        /\ when_' = [t \in Timers |-> IF t \in again THEN due[t] ELSE when_[t]]
        /\ now \in Nat /\ timersCreated_ \in Nat
    BY <1>9 DEF Reset, Requeue, TypeOK
  <2>2. ASSUME NEW t \in Timers PROVE Paced(t)'
    <3>1. CASE t \in again
      <4>1. t \in expired /\ interval_[t] > 0 /\ when_'[t] = readAt + interval_[t]
        BY <2>1, <3>1 DEF Repeating
      <4>2. /\ since[t] <= readAt
            /\ t > timersCreated_ => ran[t] = 0 /\ interval_[t] = 0
        BY <4>1 DEF PaceInv, Paced
      <4> QED
        BY <2>1, <4>1, <4>2, TimerTyped DEF Paced
    <3>2. CASE t \notin again
      <4>1. Pending(t)' => Pending(t)
        BY <2>1, <3>2 DEF Pending, Queued, Add
      <4>2. when_'[t] = when_[t]
        BY <2>1, <3>2
      <4> QED
        BY <2>1, <4>1, <4>2, PacedStays DEF PaceInv
    <3> QED
      BY <3>1, <3>2
  <2>3. BatchInv'
    BY <2>1 DEF BatchInv
  <2> QED
    BY <2>2, <2>3 DEF PaceInv
<1> QED
  BY <1>1, <1>2, <1>3, <1>4, <1>5, <1>6, <1>7, <1>8, <1>9
     DEF Next, UserStep, CallerStep, LoopStep

\* A one-shot timer runs at most once, and a repeating one in batches that are
\* taken a whole interval apart, however late the loop is, whatever is added,
\* invalidated or thrown (TimerQueue.cpp:200-218, Timer.cpp:54-62).
THEOREM TimersDoNotRunTooOften == Spec => NotTooOften
<1> DEFINE Apart ==
      \A t \in Timers :
        ran'[t] # ran[t] => IF interval_[t] = 0 THEN ran[t] = 0
                            ELSE readAt >= since[t] + interval_[t]
<1>1. TypeOK /\ PaceInv /\ [Next]_vars => [Apart]_vars
  <2> SUFFICES ASSUME TypeOK, PaceInv, Next, NEW t \in Timers, ran'[t] # ran[t]
               PROVE  IF interval_[t] = 0 THEN ran[t] = 0
                      ELSE readAt >= since[t] + interval_[t]
    OBVIOUS
  <2>1. PICK u \in Timers : RunExpired(u)
    BY DEF Next, UserStep, CallerStep, LoopStep, Tick, Expire, LoopThreadAdd, NewTimer,
       LoopThreadInvalidate, Loop, Quit, Leave, Throw, ResetTimerQueue, CallerAdd,
       CallerInvalidate, RunQueued, HandleRead, TakeBatch, CallbackReturn, Reset, Requeue,
       runs
  <2>2. t = u /\ t \in todo
    BY <2>1 DEF RunExpired, LookAt, TypeOK, runs
  <2>3. Pending(t) /\ when_[t] <= readAt
    BY <2>2 DEF Pending, PaceInv, BatchInv
  <2>4. Paced(t)
    BY DEF PaceInv
  <2> QED
    BY <2>3, <2>4, TimerTyped DEF Paced
<1> QED
  BY <1>1, InitTypeOK, StepTypeOK, InitIdsInv, StepIdsInv, InitPaceInv, StepPaceInv,
     PTL DEF Spec, NotTooOften

------------------------------------------------------------------------------
(* The timerfd.                                                            *)

\* The alarm is not after the earliest timer and the shortest delay.
Alarmed == readable \/ timerfd_ \in 0 .. Max2(Top(timers_, when_), now + 1)

\* ArmedForEarliest, and the same while loop() is not running.  In the middle of
\* a batch the alarm may be missing: Reset sets it at the end.
ArmedInv == lpc \in {"poll", "stopped"} /\ timers_ # {} /\ ~thrown => Alarmed

\* The heap is empty.
LEMMA InitArmedInv == Init => ArmedInv
BY DEF Init, ArmedInv

\* Arming the timerfd for the heap's top sets the alarm.
LEMMA ResetToTopAlarms ==
  ASSUME TypeOK, TypeOK', timers_' # {}, UNCHANGED now, NEW w \in Nat,
         ResetTimerfd(w), w <= Top(timers_', when_')
  PROVE  Alarmed'
<1>1. timers_' \in SUBSET Timers /\ when_' \in [Timers -> Nat] /\ now \in Nat
  <2>1. timers_' \in SUBSET Timers
    BY KnownAreTimers DEF TypeOK
  <2> QED
    BY <2>1 DEF TypeOK
<1>2. Top(timers_', when_') \in Nat
  BY <1>1, TopIsLeast
<1>3. timerfd_' \in Nat /\ timerfd_' \in 0 .. Max2(w, now + 1)
  BY <1>1, ResetTimerfdArms
<1>4. timerfd_' \in 0 .. Max2(Top(timers_', when_'), now' + 1)
  BY <1>1, <1>2, <1>3 DEF Max2
<1> QED
  BY <1>4 DEF Alarmed

\* insert and the test of its answer: a timer that comes before the heap's top
\* moves the alarm, and one that does not leaves it right.
LEMMA AddTimerInLoopAlarms ==
  ASSUME TypeOK, TypeOK', NEW t \in Timers, AddTimerInLoop(t), UNCHANGED now,
         \A u \in timers_ : when_'[u] = when_[u],
         timers_ # {} => Alarmed
  PROVE  Alarmed'
<1>1. /\ timers_ \in SUBSET Timers /\ when_ \in [Timers -> Nat] /\ now \in Nat
      /\ timers_' \in SUBSET Timers /\ when_' \in [Timers -> Nat]
  <2>1. timers_ \in SUBSET Timers /\ timers_' \in SUBSET Timers
    BY KnownAreTimers DEF TypeOK
  <2> QED
    BY <2>1 DEF TypeOK
<1>2. timers_' = timers_ \cup {t} /\ timers_' # {}
  BY DEF AddTimerInLoop
<1> DEFINE old == Top(timers_, when_)
           new == Top(timers_', when_')
<1>3. PICK u \in timers_' : new \in Nat /\ new = when_'[u]
  BY <1>1, <1>2, TopIsLeast
<1>4. timers_ # {} => old \in Nat /\ \A x \in timers_ : old <= when_[x]
  BY <1>1, TopIsLeast
<1>5. when_'[t] \in Nat
  BY <1>1
<1> HIDE DEF old, new
<1>6. CASE timers_ = {} \/ when_'[t] < old
  <2>1. ResetTimerfd(when_'[t])
    BY <1>6 DEF AddTimerInLoop, old
  <2>2. when_'[t] <= new
    BY <1>1, <1>2, <1>3, <1>4, <1>5, <1>6
  <2> QED
    BY <1>2, <1>5, <2>1, <2>2, ResetToTopAlarms DEF new
<1>7. CASE timers_ # {} /\ ~(when_'[t] < old)
  <2>1. UNCHANGED <<timerfd_, readable>>
    BY <1>7 DEF AddTimerInLoop, fd, old
  <2>2. old <= new
    BY <1>1, <1>2, <1>3, <1>4, <1>5, <1>7
  <2>3. readable \/ timerfd_ \in 0 .. Max2(old, now + 1)
    BY <1>7 DEF Alarmed, old
  <2>4. readable' \/ timerfd_' \in 0 .. Max2(new, now' + 1)
    BY <1>1, <1>3, <1>4, <1>7, <2>1, <2>2, <2>3 DEF Max2
  <2> QED
    BY <2>4 DEF Alarmed, new
<1> QED
  BY <1>6, <1>7

\* Whatever puts a timer at the top of the heap arms the timerfd, or is
\* followed by what does.
LEMMA StepArmedInv == TypeOK /\ ArmedInv /\ [Next]_vars => ArmedInv'
<1> SUFFICES ASSUME TypeOK, ArmedInv, [Next]_vars PROVE ArmedInv'
  OBVIOUS
<1> TypeOK'
  BY StepTypeOK
<1> timers_ \in SUBSET Timers /\ timers_' \in SUBSET Timers
  BY KnownAreTimers DEF TypeOK
<1> when_ \in [Timers -> Nat] /\ when_' \in [Timers -> Nat]
  BY DEF TypeOK
<1> USE DEF fd, batch, catalog, calls, runs
<1>1. CASE Tick
  <2>1. /\ UNCHANGED <<lpc, timers_, thrown, readable, timerfd_, when_>>
        /\ now \in Nat /\ now' = now + 1
    BY <1>1 DEF Tick, TypeOK
  <2>2. ASSUME timers_ # {}, Alarmed PROVE Alarmed'
    <3>1. Top(timers_, when_) \in Nat
      BY <2>2, TopIsLeast
    <3>2. Top(timers_', when_') = Top(timers_, when_)
      BY <2>1
    <3> QED
      BY <2>1, <2>2, <3>1, <3>2 DEF Alarmed, Max2
  <2> QED
    BY <2>1, <2>2 DEF ArmedInv
<1>2. CASE Expire
  BY <1>2 DEF Expire, ArmedInv, Alarmed
<1>3. CASE \/ Loop \/ Quit \/ Leave \/ \E t \in Timers : LoopThreadInvalidate(t) \/ CallerInvalidate(t)
  <2>1. /\ UNCHANGED <<timers_, thrown, readable, timerfd_, when_, now>>
        /\ lpc' \in {"poll", "stopped"} => lpc \in {"poll", "stopped"}
    BY <1>3 DEF Loop, Quit, Leave, LoopThreadInvalidate, CallerInvalidate
  <2>2. Alarmed => Alarmed'
    BY <2>1 DEF Alarmed
  <2> QED
    BY <2>1, <2>2 DEF ArmedInv
<1>4. CASE Throw
  BY <1>4 DEF Throw, ArmedInv
<1>5. CASE ResetTimerQueue
  <2> SUFFICES ASSUME timers_ # {} PROVE Alarmed'
    BY <1>5 DEF ResetTimerQueue, ArmedInv
  <2>1. /\ UNCHANGED <<timers_, when_, now>> /\ ResetTimerfd(Top(timers_, when_))
        /\ Top(timers_', when_') = Top(timers_, when_)
    BY <1>5 DEF ResetTimerQueue
  <2>2. Top(timers_, when_) \in Nat
    BY TopIsLeast
  <2> QED
    BY <2>1, <2>2, ResetToTopAlarms
<1>6. ASSUME NEW d \in Delays, NEW i \in Intervals, LoopThreadAdd(d, i) PROVE ArmedInv'
  <2>1. /\ NewTimer(d, i) /\ AddTimerInLoop(timersCreated_ + 1)
        /\ UNCHANGED <<lpc, thrown, now>>
    BY <1>6 DEF LoopThreadAdd, NewTimer
  <2>2. timersCreated_ + 1 \in Timers
    BY <2>1, NewTimerTyped
  <2>3. \A u \in timers_ : u \in Timers /\ u # timersCreated_ + 1
    BY DEF TypeOK, Timers
  <2>4. \A u \in timers_ : when_'[u] = when_[u]
    BY <2>1, <2>3 DEF NewTimer, TypeOK
  <2> QED
    BY <2>1, <2>2, <2>4, AddTimerInLoopAlarms DEF ArmedInv
<1>7. ASSUME NEW d \in Delays, NEW i \in Intervals, CallerAdd(d, i) PROVE ArmedInv'
  <2>1. /\ NewTimer(d, i) /\ UNCHANGED <<lpc, thrown, now, timers_, timerfd_, readable>>
    BY <1>7 DEF CallerAdd, NewTimer
  <2>2. \A u \in timers_ : u \in Timers /\ u # timersCreated_ + 1
    BY DEF TypeOK, Timers
  <2>3. \A u \in timers_ : when_'[u] = when_[u]
    BY <2>1, <2>2 DEF NewTimer, TypeOK
  <2>4. Top(timers_', when_') = Top(timers_, when_)
    BY <2>1, <2>3 DEF Top
  <2> QED
    BY <2>1, <2>4 DEF ArmedInv, Alarmed
<1>8. CASE RunQueued
  <2>1. UNCHANGED <<lpc, thrown, now, when_>>
    BY <1>8 DEF RunQueued
  <2>2. Head(funcs)[2] \in Timers
    <3>1. Head(funcs)[2] \in 1 .. timersCreated_
      <4>1. funcs # <<>>
        BY <1>8 DEF RunQueued
      <4>2. funcs \in Seq({"add", "invalidate"} \X (1 .. timersCreated_))
        BY DEF TypeOK
      <4> QED
        BY <4>1, <4>2
    <3> QED
      BY <3>1 DEF TypeOK, Timers
  <2>3. CASE AddTimerInLoop(Head(funcs)[2])
    BY <2>1, <2>2, <2>3, AddTimerInLoopAlarms DEF ArmedInv
  <2>4. CASE UNCHANGED <<timers_, fd>>
    BY <2>1, <2>4 DEF ArmedInv, Alarmed
  <2> QED
    BY <1>8, <2>3, <2>4 DEF RunQueued
<1>9. CASE HandleRead \/ \E t \in Timers : RunExpired(t)
  BY <1>9 DEF HandleRead, TakeBatch, RunExpired, LookAt, ArmedInv
<1>10. CASE CallbackReturn
  BY <1>10 DEF CallbackReturn, ArmedInv
<1>11. CASE Reset
  <2> SUFFICES ASSUME timers_' # {} PROVE Alarmed'
    BY DEF ArmedInv
  <2>1. UNCHANGED now /\ ResetTimerfd(Top(timers_', when_'))
    BY <1>11 DEF Reset, Requeue
  <2>2. Top(timers_', when_') \in Nat
    BY TopIsLeast
  <2> QED
    BY <2>1, <2>2, ResetToTopAlarms
<1>12. CASE UNCHANGED vars
  BY <1>12 DEF vars, ArmedInv, Alarmed
<1> QED
  BY <1>1, <1>2, <1>3, <1>4, <1>5, <1>6, <1>7, <1>8, <1>9, <1>10, <1>11, <1>12
     DEF Next, UserStep, CallerStep, LoopStep

\* Whenever the loop polls and the heap is not empty, the timerfd has expired or
\* is armed for the earliest timer, whatever was added or invalidated in the
\* middle of a batch (TimerQueue.cpp:112-117, 219-222).
THEOREM TimerfdIsArmed == Spec => []ArmedForEarliest
<1>1. ArmedInv => ArmedForEarliest
  BY DEF ArmedInv, Alarmed, ArmedForEarliest
<1> QED
  BY <1>1, InitTypeOK, StepTypeOK, InitArmedInv, StepArmedInv, PTL DEF Spec
===============================================================================
