----------------------------- MODULE TimerQueue -----------------------------
(***************************************************************************)
(* time/TimerQueue.cpp and time/Timer.cpp: the timers of one EventLoop.  A *)
(* priority queue of timers by due time, the set of the ids that are still *)
(* valid, and one timerfd armed for the earliest timer.  Another thread's  *)
(* addTimer and invalidateTimer travel through the loop's queue (module    *)
(* EventLoop shows that they arrive); the loop's own thread performs them  *)
(* at once, also in the middle of a batch of expired timers.               *)
(*                                                                         *)
(* One unit of time is the shortest delay the code arms, 100 microseconds. *)
(* The clock's last value MaxTime stands for every later moment.           *)
(***************************************************************************)
EXTENDS Integers, Sequences, FiniteSets

CONSTANTS
  Callers,     \* the threads other than the loop's own
  MaxTimers,   \* bound: timers created
  MaxTime,     \* bound: the clock
  Delays,      \* how far ahead a timer's first due time may lie
  Intervals,   \* the intervals of timers, 0 for a one-shot timer
  Throwing,    \* whether callbacks may throw
  MaxLoops     \* bound: calls of loop()

Timers == 1 .. MaxTimers
Off    == -1
Max2(a, b) == IF a > b THEN a ELSE b

ASSUME BoundsAssumption ==
  MaxTimers \in Nat /\ MaxTime \in Nat /\ MaxLoops \in Nat

ASSUME DelaysAssumption == Delays \subseteq Nat /\ Intervals \subseteq Nat

ASSUME ThrowingAssumption == Throwing \in BOOLEAN

VARIABLES
  timersCreated_, \* the counter that names timers
  when_,          \* per timer: when it is due
  interval_,      \* per timer
  timers_,        \* the priority queue
  timerIdSet_,    \* the valid ids
  timerfd_,       \* the moment the timerfd is armed for, or Off
  readable,       \* the timerfd has expired and was not read
  now,            \* steady_clock
  funcs,          \* the loop's queue: adds and invalidations of other threads
  lpc,            \* the loop thread: "stopped", "poll", "batch" or "callback"
  expired,        \* locals of handleRead: the batch,
  todo,           \*   the part of it not yet looked at,
  readAt,         \*   and the moment it was taken
  loops,          \* calls of loop() so far
  quit_,          \* EventLoop's flag
  thrown,         \* a callback has thrown and the queue was not reset since
  since,          \* history: when each timer was created or, once it has run,
                  \*   when the batch of its last run was taken
  ran,            \* history: how often each timer ran
  cancelled,      \* history: ids for which EventLoop::invalidateTimer returned
  erased          \* history: ids taken out of timerIdSet_ by an invalidation

fd      == <<timerfd_, readable>>
batch   == <<lpc, expired, todo, readAt, thrown>>
catalog == <<timersCreated_, interval_>>
calls   == <<loops, quit_>>
runs    == <<ran, since>>
vars == <<catalog, when_, timers_, timerIdSet_, fd, now, funcs, batch, calls,
          runs, cancelled, erased>>

Add(t)        == <<"add", t>>
Invalidate(t) == <<"invalidate", t>>

TypeOK ==
  /\ timersCreated_ \in 0 .. MaxTimers
  /\ when_ \in [Timers -> Nat]
  /\ interval_ \in [Timers -> Intervals \cup {0}]
  /\ timers_ \subseteq 1 .. timersCreated_
  /\ timerIdSet_ \subseteq 1 .. timersCreated_
  /\ timerfd_ \in {Off} \cup Nat
  /\ readable \in BOOLEAN
  /\ now \in 0 .. MaxTime
  /\ funcs \in Seq({"add", "invalidate"} \X (1 .. timersCreated_))
  /\ lpc \in {"stopped", "poll", "batch", "callback"}
  /\ expired \subseteq 1 .. timersCreated_
  /\ todo \subseteq expired
  /\ readAt \in 0 .. MaxTime
  /\ loops \in 0 .. MaxLoops
  /\ quit_ \in BOOLEAN
  /\ thrown \in BOOLEAN
  /\ since \in [Timers -> Nat]
  /\ ran \in [Timers -> Nat]
  /\ cancelled \subseteq 1 .. timersCreated_
  /\ erased \subseteq 1 .. timersCreated_

Init ==
  /\ timersCreated_ = 0
  /\ when_ = [t \in Timers |-> 0]
  /\ interval_ = [t \in Timers |-> 0]
  /\ timers_ = {} /\ timerIdSet_ = {}
  /\ timerfd_ = Off /\ readable = FALSE
  /\ now = 0
  /\ funcs = <<>>
  /\ lpc = "stopped"
  /\ expired = {} /\ todo = {} /\ readAt = 0
  /\ loops = 0 /\ quit_ = FALSE /\ thrown = FALSE
  /\ since = [t \in Timers |-> 0]
  /\ ran = [t \in Timers |-> 0]
  /\ cancelled = {} /\ erased = {}

------------------------------------------------------------------------------
(* The clock and the kernel's side of the timerfd *)

Tick ==
  /\ now < MaxTime
  /\ now' = now + 1
  /\ UNCHANGED <<catalog, when_, timers_, timerIdSet_, fd, funcs, batch, calls,
                 runs, cancelled, erased>>

Expire ==
  /\ timerfd_ # Off
  /\ now >= timerfd_ \/ now = MaxTime
  /\ timerfd_' = Off
  /\ readable' = TRUE
  /\ UNCHANGED <<catalog, when_, timers_, timerIdSet_, now, funcs, batch, calls,
                 runs, cancelled, erased>>

\* resetTimerfd(when): never less than one unit ahead.  howMuchTimeFromNow
\* cuts the delay to whole microseconds, so the timerfd may expire a little
\* before `when'.  timerfd_settime discards an expiration that was not read.
ResetTimerfd(when) ==
  /\ \E early \in {0, 1} : timerfd_' = Max2(when - early, now + 1)
  /\ readable' = FALSE

------------------------------------------------------------------------------
(* Operations on the loop's thread *)

Top(S, due) == CHOOSE w \in {due[t] : t \in S} : \A t \in S : w <= due[t]

\* insert does not notice that the timer becomes the earliest.
AddTimerInLoopNoReset(t) ==
  /\ timers_' = timers_ \cup {t}
  /\ timerIdSet_' = timerIdSet_ \cup {t}
  /\ IF timers_ = {} THEN ResetTimerfd(when_'[t]) ELSE UNCHANGED fd

AddTimerInLoop(t) ==
  /\ timers_' = timers_ \cup {t}
  /\ timerIdSet_' = timerIdSet_ \cup {t}
  /\ IF timers_ = {} \/ when_'[t] < Top(timers_, when_)
       THEN ResetTimerfd(when_'[t])
       ELSE UNCHANGED fd

\* invalidateTimer's function: the heap keeps the timer.
EraseTimer(t) ==
  /\ timerIdSet_' = timerIdSet_ \ {t}
  /\ erased' = erased \cup ({t} \cap timerIdSet_)

\* The constructor of Timer, called by runAt, runAfter and runEvery.
NewTimer(delay, interval) ==
  LET t == timersCreated_ + 1 IN
  /\ timersCreated_ < MaxTimers
  /\ interval > 0 => delay = interval
  /\ timersCreated_' = t
  /\ when_' = [when_ EXCEPT ![t] = now + delay]
  /\ interval_' = [interval_ EXCEPT ![t] = interval]
  /\ since' = [since EXCEPT ![t] = now]
  /\ UNCHANGED <<now, batch, calls, ran, cancelled, erased>>

\* addTimer on the loop's thread: in a callback, in a queued function, or
\* before loop() is called.
LoopThreadAdd(delay, interval) ==
  /\ lpc # "batch"
  /\ NewTimer(delay, interval)
  /\ AddTimerInLoop(timersCreated_ + 1)
  /\ UNCHANGED funcs

\* EventLoop::isRunning.
IsRunning == lpc # "stopped" /\ ~quit_

\* EventLoop::invalidateTimer does nothing unless the loop isRunning().
LoopThreadInvalidate(t) ==
  /\ lpc # "batch"
  /\ t <= timersCreated_
  /\ cancelled' = cancelled \cup {t}
  /\ IF IsRunning THEN EraseTimer(t) ELSE UNCHANGED <<timerIdSet_, erased>>
  /\ UNCHANGED <<catalog, when_, timers_, fd, now, funcs, batch, calls, runs>>

\* The functions that other threads queued, run between two polls.
RunQueued ==
  /\ lpc = "poll"
  /\ funcs # <<>>
  /\ funcs' = Tail(funcs)
  /\ LET t == Head(funcs)[2] IN
     IF Head(funcs) = Add(t)
       THEN UNCHANGED <<when_, erased>> /\ AddTimerInLoop(t)
       ELSE UNCHANGED <<when_, timers_, fd>> /\ EraseTimer(t)
  /\ UNCHANGED <<catalog, now, batch, calls, runs, cancelled>>

------------------------------------------------------------------------------
(* Operations of other threads *)

CallerAdd(delay, interval) ==
  /\ NewTimer(delay, interval)
  /\ funcs' = Append(funcs, Add(timersCreated_ + 1))
  /\ UNCHANGED <<timers_, timerIdSet_, fd>>

CallerInvalidate(t) ==
  /\ t <= timersCreated_
  /\ t \notin cancelled
  /\ cancelled' = cancelled \cup {t}
  /\ funcs' = IF IsRunning THEN Append(funcs, Invalidate(t)) ELSE funcs
  /\ UNCHANGED <<catalog, when_, timers_, timerIdSet_, fd, now, batch, calls,
                 runs, erased>>

------------------------------------------------------------------------------
(* handleRead *)

\* now, readTimerfd and getExpired(now)
TakeBatch(then) ==
  /\ lpc = "poll"
  /\ readable
  /\ readable' = FALSE
  /\ readAt' = now
  /\ expired' = {t \in timers_ : when_[t] <= now}
  /\ todo' = expired'
  /\ timers_' = timers_ \ expired'
  /\ lpc' = then
  /\ UNCHANGED <<catalog, when_, timerIdSet_, timerfd_, now, funcs, thrown,
                 calls, runs, cancelled, erased>>

\* Returns at once when nothing is due.
HandleReadEarlyReturn ==
  TakeBatch(IF \E t \in timers_ : when_[t] <= now THEN "batch" ELSE "poll")

HandleRead == TakeBatch("batch")

\* The next timer of the batch, in heap order: run() if its id is valid.
LookAt(t, valid) ==
  /\ lpc = "batch"
  /\ t \in todo
  /\ \A u \in todo : when_[t] <= when_[u]
  /\ todo' = todo \ {t}
  /\ lpc' = IF valid THEN "callback" ELSE "batch"
  /\ IF valid THEN /\ ran' = [ran EXCEPT ![t] = @ + 1]
                   /\ since' = [since EXCEPT ![t] = readAt]
              ELSE UNCHANGED runs
  /\ UNCHANGED <<catalog, when_, timers_, timerIdSet_, fd, now, funcs, expired,
                 readAt, thrown, calls, cancelled, erased>>

\* Checks the ids once, when the batch is taken.
RunExpiredUnchecked(t) == LookAt(t, TRUE)

RunExpired(t) == LookAt(t, t \in timerIdSet_)

CallbackReturn ==
  /\ lpc = "callback"
  /\ lpc' = "batch"
  /\ UNCHANGED <<catalog, when_, timers_, timerIdSet_, fd, now, funcs, expired,
                 todo, readAt, thrown, calls, runs, cancelled, erased>>

\* The timers `again' go back into the heap with new due times, the other valid
\* timers of the batch lose their ids, and the timerfd is armed for the top.
Requeue(again, due) ==
  /\ lpc = "batch"
  /\ todo = {}
  /\ when_' = [t \in Timers |-> IF t \in again THEN due[t] ELSE when_[t]]
  /\ timers_' = timers_ \cup again
  /\ timerIdSet_' = timerIdSet_ \ (expired \ again)
  /\ IF timers_' = {} THEN UNCHANGED fd ELSE ResetTimerfd(Top(timers_', when_'))
  /\ lpc' = "poll"
  /\ expired' = {} /\ readAt' = 0
  /\ UNCHANGED <<catalog, now, funcs, todo, thrown, calls, runs, cancelled,
                 erased>>

Repeating == {t \in expired : interval_[t] > 0}

\* A repeating timer catches up: it is due one interval after it was last due.
ResetCatchUp ==
  Requeue(Repeating \cap timerIdSet_, [t \in Timers |-> when_[t] + interval_[t]])

\* reset(expired, now): valid repeating timers restart one interval after the
\* moment the batch was taken.
Reset ==
  Requeue(Repeating \cap timerIdSet_, [t \in Timers |-> readAt + interval_[t]])

------------------------------------------------------------------------------
(* The loop around it *)

\* loop() starts and, after quit(), returns; what arrives later stays queued.
Loop ==
  /\ lpc = "stopped"
  /\ loops < MaxLoops
  /\ loops' = loops + 1
  /\ quit_' = FALSE
  /\ lpc' = "poll"
  /\ UNCHANGED <<catalog, when_, timers_, timerIdSet_, fd, now, funcs, expired,
                 todo, readAt, thrown, runs, cancelled, erased>>

\* quit(), of any thread, also in the middle of a batch, which loop() finishes.
Quit ==
  /\ IsRunning
  /\ quit_' = TRUE
  /\ UNCHANGED <<catalog, when_, timers_, timerIdSet_, fd, now, funcs, batch,
                 loops, runs, cancelled, erased>>

\* loop() returns between two polls.  The poll that quit() may have interrupted
\* or come before need not be the last, so that a batch may still be taken.
Leave ==
  /\ lpc = "poll"
  /\ quit_
  /\ lpc' = "stopped"
  /\ UNCHANGED <<catalog, when_, timers_, timerIdSet_, fd, now, funcs, expired,
                 todo, readAt, thrown, calls, runs, cancelled, erased>>

\* A callback throws: handleRead and loop() are left at once.
Throw ==
  /\ Throwing
  /\ lpc = "callback"
  /\ thrown' = TRUE
  /\ lpc' = "stopped"
  /\ expired' = {} /\ todo' = {} /\ readAt' = 0
  /\ UNCHANGED <<catalog, when_, timers_, timerIdSet_, fd, now, funcs, calls,
                 runs, cancelled, erased>>

\* EventLoop::resetTimerQueue: a new timerfd, armed for the heap's top.
ResetTimerQueue ==
  /\ lpc = "stopped"
  /\ IF timers_ = {} THEN readable' = FALSE /\ timerfd_' = Off
                     ELSE ResetTimerfd(Top(timers_, when_))
  /\ thrown' = FALSE
  /\ UNCHANGED <<catalog, when_, timers_, timerIdSet_, now, funcs, lpc, expired,
                 todo, readAt, calls, runs, cancelled, erased>>

------------------------------------------------------------------------------
UserStep ==
  \/ \E d \in Delays, i \in Intervals : LoopThreadAdd(d, i)
  \/ \E t \in Timers : LoopThreadInvalidate(t)
  \/ Loop \/ Quit \/ Leave \/ Throw \/ ResetTimerQueue

CallerStep ==
  /\ Callers # {}
  /\ \/ \E d \in Delays, i \in Intervals : CallerAdd(d, i)
     \/ \E t \in Timers : CallerInvalidate(t)

LoopStep ==
  \/ RunQueued
  \/ HandleRead
  \/ \E t \in Timers : RunExpired(t)
  \/ CallbackReturn
  \/ Reset

Next == Tick \/ Expire \/ UserStep \/ CallerStep \/ LoopStep

\* Time passes, the kernel signals an expiration, the loop thread runs and
\* callbacks return.
Fairness ==
  /\ WF_vars(Tick)
  /\ WF_vars(Expire)
  /\ WF_vars(RunQueued)
  /\ WF_vars(HandleRead)
  /\ WF_vars((\E t \in Timers : RunExpired(t)) \/ CallbackReturn \/ Reset)

Spec == Init /\ [][Next]_vars /\ Fairness

------------------------------------------------------------------------------
(* Properties *)

\* While the loop waits in poll and the heap is not empty, the timerfd has
\* expired or is armed for a moment that is not after the earliest timer and
\* the shortest delay: whatever was added or invalidated in the middle of a
\* batch, no timer is left without an alarm (TimerQueue.cpp:112-117, 219-222).
ArmedForEarliest ==
  (lpc = "poll" /\ timers_ # {} /\ ~thrown) =>
    \/ readable
    \/ timerfd_ \in 0 .. Max2(Top(timers_, when_), now + 1)

\* A one-shot timer runs at most once.  A repeating one first runs in a batch
\* taken a whole interval after it was created, and again only in a batch taken a
\* whole interval after the batch of its last run: a loop that was delayed does
\* not make up for what it missed by a burst (TimerQueue.cpp:200-218,
\* Timer.cpp:54-62).
NotTooOften ==
  [][\A t \in Timers :
       ran'[t] # ran[t] => IF interval_[t] = 0 THEN ran[t] = 0
                           ELSE readAt >= since[t] + interval_[t]]_vars

\* A timer that was invalidated on the loop's thread never runs again: not the
\* next time it is due, not if it is already in the batch being run, and not if
\* it invalidated itself (TimerQueue.cpp:120-125, 137, 206).
ErasedNeverRuns == [][\A t \in erased : ran'[t] = ran[t]]_vars

\* Once EventLoop::invalidateTimer has returned, the timer does not run again
\* (TimerQueue.h:109).
InvalidateIsFinal == [][\A t \in cancelled : ran'[t] = ran[t]]_vars

\* The loop thread may have to give up on a timer: it stopped, or a callback
\* threw away the batch.
Excused(t) == t \in erased \/ lpc = "stopped" \/ thrown

\* Every timer due within the clock's range runs once more, unless it is
\* invalidated or the loop stops (TimerQueue.cpp:127-145).
TimerFires ==
  \A t \in Timers, k \in 0 .. MaxTime :
    (/\ t \in timers_ \cap timerIdSet_ /\ when_[t] <= MaxTime
     /\ ran[t] = k /\ lpc # "stopped")
      ~> (ran[t] > k \/ Excused(t))
==============================================================================
