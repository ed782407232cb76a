---------------------------- MODULE EpollPoller ----------------------------
(***************************************************************************)
(* poll/EpollPoller.cpp and event/EventDispatcher.cpp: the dispatchers of  *)
(* one EventLoop, their registration with epoll, and the dispatch of one   *)
(* batch of events by EventLoop::loop.  Everything runs on the loop thread *)
(* (assertInLoopThread); what can go wrong is the order of things: user    *)
(* code in one dispatcher's callback enables, disables and removes other   *)
(* dispatchers that are in the same batch, a dispatcher is destroyed and   *)
(* its descriptor's number is reused, and epoll keeps a raw pointer.       *)
(*                                                                         *)
(* External: epoll_ctl, epoll_wait and the descriptors.  An interest is    *)
(* the mask and the data pointer of one descriptor; it goes with the       *)
(* descriptor.  epoll reports hup and err whatever the mask.               *)
(*                                                                         *)
(* Owners act in any callback and between batches.  disconnect() removes a *)
(* dispatcher and closes its descriptor while the dispatcher lives; after  *)
(* handleClosed() the last reference to a connection may be dropped, also  *)
(* by its own callback or by that of another connection, and the dropped   *)
(* connection destroys its dispatcher and closes what is still open.  A    *)
(* dispatcher whose descriptor is closed is not enabled again.             *)
(*                                                                         *)
(* loop() may thus come to a dispatcher that has been destroyed.  What it  *)
(* reads there is undefined: either the freed memory is as it was, or      *)
(* anything may happen, and the model follows the program no further.      *)
(***************************************************************************)
EXTENDS Naturals, FiniteSets, Sequences

CONSTANTS
  Dispatchers,
  Fds,
  General,     \* the dispatchers with an eventCallback_
  Conditions,  \* what may happen to a descriptor
  NoFd, NoOne,
  InitSize,    \* kInitEventListSize
  MaxSize      \* bound: the event list's growth

ASSUME DispatchersAssumption ==
  /\ NoOne \notin Dispatchers /\ NoFd \notin Fds
  /\ General \subseteq Dispatchers

ASSUME FdsAssumption == IsFiniteSet(Fds)

ASSUME ConditionsAssumption == Conditions \subseteq {"in", "out", "hup", "err"}

ASSUME SizeAssumption ==
  InitSize \in Nat \ {0} /\ MaxSize \in Nat /\ InitSize <= MaxSize

VARIABLES
  fd_,          \* per dispatcher; NoFd before it is constructed
  destroyed,    \* dispatchers whose destructor has run
  closed,       \* dispatchers whose owner has closed the descriptor
  events_, state_,
  size,         \* of the event list handed to epoll_wait
  active,       \* activeDispatchers_ from the current one on, with
                \*   which fillActiveDispatchers sets and only this batch reads
  cb,           \* the callback of the current dispatcher that is running
  killed,       \* history: dispatchers that, since the last poll, a callback
                \*   of another one or their own read callback has destroyed
  open,         \* external: the open descriptors,
  interest,     \*   epoll's interest in each
  ready         \*   and what has happened to each

dispVars == <<fd_, destroyed, closed, events_, state_>>
kernel   == <<open, interest, ready>>
vars == <<dispVars, size, active, cb, killed, kernel>>

Masks     == SUBSET {"in", "out"}
Uninteresting == [mask |-> {}, ptr |-> NoOne]
Running   == {"event", "close", "error", "read", "write"}

TypeOK ==
  /\ fd_ \in [Dispatchers -> Fds \cup {NoFd}]
  /\ destroyed \subseteq Dispatchers
  /\ closed \subseteq Dispatchers
  /\ events_ \in [Dispatchers -> Masks]
  /\ state_ \in [Dispatchers -> {"kNew", "kAdded", "kDeleted"}]
  /\ size \in Nat \ {0}
  /\ active \in Seq([ptr : Dispatchers, realEvents_ : SUBSET Conditions])
  /\ cb \in Running \cup {"none", "undefined"}
  /\ cb # "none" => active # <<>>
  /\ killed \subseteq Dispatchers
  /\ open \subseteq Fds
  /\ interest \in [Fds -> [mask : Masks, ptr : Dispatchers \cup {NoOne}]]
  /\ ready \in [Fds -> SUBSET Conditions]

Init ==
  /\ fd_ = [d \in Dispatchers |-> NoFd]
  /\ destroyed = {} /\ closed = {}
  /\ events_ = [d \in Dispatchers |-> {}]
  /\ state_ = [d \in Dispatchers |-> "kNew"]
  /\ size = InitSize
  /\ active = <<>>
  /\ cb = "none" /\ killed = {}
  /\ open = {}
  /\ interest = [f \in Fds |-> Uninteresting]
  /\ ready = [f \in Fds |-> {}]

Alive(d) == fd_[d] # NoFd /\ d \notin destroyed

\* User code runs in a callback, or between two batches (doRunInLoopFuncs).
UserCode == active = <<>> \/ cb \in Running

(***************************************************************************)
(* External: epoll_ctl.  A call that fails changes nothing.                *)
(***************************************************************************)
Registered(f) == interest[f].ptr # NoOne

EpollCtl(op, d, e) ==
  LET f == fd_[d] IN
  interest' =
    IF \/ op = "ADD" /\ f \in open /\ ~Registered(f)
       \/ op = "MOD" /\ Registered(f)
      THEN [interest EXCEPT ![f] = [mask |-> e, ptr |-> d]]
    ELSE IF op = "DEL" THEN [interest EXCEPT ![f] = Uninteresting]
    ELSE interest

(***************************************************************************)
(* Operations of a dispatcher's owner.                                     *)
(***************************************************************************)
\* The owner opens a descriptor and constructs the dispatcher.
Construct(d, f) ==
  /\ UserCode
  /\ fd_[d] = NoFd /\ f \notin open
  /\ fd_' = [fd_ EXCEPT ![d] = f]
  /\ open' = open \cup {f}
  /\ UNCHANGED <<destroyed, closed, events_, state_, size, active, cb, killed,
                 interest, ready>>

\* A mutant of RegisterEventDispatcher: an empty mask is a modification.
RegisterEventDispatcherModOnly(d, e) ==
  IF state_[d] \in {"kNew", "kDeleted"}
    THEN state_' = [state_ EXCEPT ![d] = "kAdded"] /\ EpollCtl("ADD", d, e)
  ELSE IF e = {}
    THEN state_' = [state_ EXCEPT ![d] = "kDeleted"] /\ EpollCtl("MOD", d, e)
  ELSE UNCHANGED state_ /\ EpollCtl("MOD", d, e)

\* EpollPoller::registerEventDispatcher for a dispatcher with events_ = e.
RegisterEventDispatcher(d, e) ==
  IF state_[d] \in {"kNew", "kDeleted"}
    THEN state_' = [state_ EXCEPT ![d] = "kAdded"] /\ EpollCtl("ADD", d, e)
  ELSE IF e = {}
    THEN state_' = [state_ EXCEPT ![d] = "kDeleted"] /\ EpollCtl("DEL", d, e)
  ELSE UNCHANGED state_ /\ EpollCtl("MOD", d, e)

\* enableReading, disableWriting, disableAll, updateEvents...: each assigns
\* events_ and calls update().
SetEvents(d, e) ==
  /\ UserCode
  /\ Alive(d) /\ d \notin closed
  /\ events_' = [events_ EXCEPT ![d] = e]
  /\ RegisterEventDispatcher(d, e)
  /\ UNCHANGED <<fd_, destroyed, closed, size, active, cb, killed, open, ready>>

\* EpollPoller::removeEventDispatcher.
RemoveEventDispatcher(d) ==
  /\ state_' = [state_ EXCEPT ![d] = "kNew"]
  /\ IF state_[d] = "kAdded" THEN EpollCtl("DEL", d, {}) ELSE UNCHANGED interest

\* EventDispatcher::remove, where its asserts hold.
Remove(d) ==
  /\ UserCode
  /\ Alive(d)
  /\ events_[d] = {} /\ state_[d] \in {"kAdded", "kDeleted"}
  /\ RemoveEventDispatcher(d)
  /\ UNCHANGED <<fd_, destroyed, closed, events_, size, active, cb, killed, open,
                 ready>>

\* The destructor of a dispatcher that has been removed.
Destroyed(d) ==
  /\ UserCode
  /\ Alive(d)
  /\ destroyed' = destroyed \cup {d}
  /\ killed' = IF active # <<>> /\ (d # Head(active).ptr \/ cb = "read")
                 THEN killed \cup {d} ELSE killed
  /\ UNCHANGED <<fd_, events_, state_, size, active, cb>>

\* close(): the interest goes with the descriptor.
Closed(d) ==
  /\ d \notin closed
  /\ closed' = closed \cup {d}
  /\ open' = open \ {fd_[d]}
  /\ interest' = [interest EXCEPT ![fd_[d]] = Uninteresting]
  /\ ready' = [ready EXCEPT ![fd_[d]] = {}]

\* A dispatcher that has been removed is destroyed.
Destroy(d) ==
  /\ state_[d] = "kNew"
  /\ Destroyed(d)
  /\ UNCHANGED <<closed, kernel>>

\* disconnect() and ~TimerQueue() close the descriptor of a dispatcher they have
\* removed and which still lives; it may also have been destroyed before.
CloseFd(d) ==
  /\ UserCode
  /\ fd_[d] # NoFd /\ state_[d] = "kNew"
  /\ Closed(d)
  /\ UNCHANGED <<fd_, destroyed, events_, state_, size, active, cb, killed>>

\* The last reference to a connection that was never removed is dropped: its
\* destructor destroys the dispatcher and closes the descriptor.
Drop(d) ==
  /\ Destroyed(d)
  /\ Closed(d)

(***************************************************************************)
(* One iteration of the loop.                                              *)
(***************************************************************************)
\* External: something happens to an open descriptor.
Happens(f, c) ==
  /\ f \in open /\ c \notin ready[f]
  /\ ready' = [ready EXCEPT ![f] = @ \cup {c}]
  /\ UNCHANGED <<dispVars, size, active, cb, killed, open, interest>>

Reported(f) ==
  IF Registered(f) THEN ready[f] \cap (interest[f].mask \cup {"hup", "err"})
                   ELSE {}

\* epoll_wait and fillActiveDispatchers, for the descriptors F in some order;
\* a full event list doubles.
PollBatch(F) ==
  /\ active = <<>>
  /\ F # {} /\ \A f \in F : Reported(f) # {}
  /\ \/ Cardinality(F) = size
     \/ Cardinality(F) < size /\ \A f \in Fds \ F : Reported(f) = {}
  /\ \E order \in [1 .. Cardinality(F) -> F] :
        /\ \A i, j \in DOMAIN order : order[i] = order[j] => i = j
        /\ active' = [i \in DOMAIN order |-> [ptr |-> interest[order[i]].ptr,
                                              realEvents_ |-> Reported(order[i])]]
  /\ size' = IF Cardinality(F) = size /\ 2 * size <= MaxSize THEN 2 * size ELSE size
  /\ killed' = {}
  /\ UNCHANGED <<dispVars, cb, kernel>>

Poll == \E F \in SUBSET Fds : PollBatch(F)

Current     == Head(active).ptr
realEvents_ == Head(active).realEvents_

\* The first callback that handleEventSafely calls for realEvents_ r.
FirstCallback(d, r) ==
  IF d \in General THEN "event"
  ELSE IF "hup" \in r /\ "in" \notin r THEN "close"
  ELSE IF "err" \in r THEN "error"
  ELSE IF "in" \in r THEN "read"
  ELSE "write"

PassOver  == active' = Tail(active) /\ cb' = "none"
Call(c)   == cb' = c /\ UNCHANGED active
Undefined == Call("undefined")

\* A mutant of HandleEvent: events_ is not looked at again.
HandleEventUnchecked ==
  /\ active # <<>> /\ cb = "none"
  /\ \/ Current \notin destroyed /\ Call(FirstCallback(Current, realEvents_))
     \/ Current \in destroyed /\ Undefined
  /\ UNCHANGED <<dispVars, size, killed, kernel>>

\* EventDispatcher::handleEvent of the current dispatcher.
HandleEvent ==
  /\ active # <<>> /\ cb = "none"
  /\ \/ events_[Current] = {} /\ PassOver
     \/ /\ events_[Current] # {} /\ Current \notin destroyed
        /\ Call(FirstCallback(Current, realEvents_))
     \/ Current \in destroyed /\ Undefined
  /\ UNCHANGED <<dispVars, size, killed, kernel>>

\* What a callback consumes; hup and err stay.  A callback leaves the
\* descriptors of other dispatchers as they are.
Consumes == CASE cb = "event" -> {"in", "out"}
              [] cb = "read"  -> {"in"}
              [] cb = "write" -> {"out"}
              [] OTHER        -> {}

Consumed ==
  ready' = IF Current \in closed THEN ready
                                 ELSE [ready EXCEPT ![fd_[Current]] = @ \ Consumes]

\* After `looksAgain', handleEventSafely tests realEvents_ once more.
Returns(looksAgain) ==
  /\ cb \in Running
  /\ Consumed
  /\ \/ cb = "read" /\ "out" \in realEvents_ /\ Current \notin destroyed /\ Call("write")
     \/ (cb = "read" => "out" \notin realEvents_) /\ PassOver
     \/ cb \in looksAgain /\ Current \in destroyed /\ Undefined
  /\ UNCHANGED <<dispVars, size, killed, open, interest>>

\* A mutant of CallbackReturns: a dispatcher is asked again after its read callback.
CallbackReturnsAgain ==
  /\ cb \in Running
  /\ Consumed
  /\ IF cb = "read" THEN Call("none") ELSE PassOver
  /\ UNCHANGED <<dispVars, size, killed, open, interest>>

\* A mutant of CallbackReturns: no return after eventCallback_().
CallbackReturnsFallsThrough == Returns({"event", "read"})

CallbackReturns == Returns({"read"})

Owner ==
  \E d \in Dispatchers :
    \/ \E f \in Fds : Construct(d, f)
    \/ \E e \in Masks : SetEvents(d, e)
    \/ Remove(d)
    \/ Destroy(d)
    \/ CloseFd(d)
    \/ Drop(d)

Next ==
  \/ Owner
  \/ \E f \in Fds, c \in Conditions : Happens(f, c)
  \/ Poll \/ HandleEvent \/ CallbackReturns

\* The loop polls and dispatches; epoll rotates its ready list, so that no
\* descriptor is left out for ever.
Fairness ==
  /\ WF_vars(HandleEvent)
  /\ WF_vars(CallbackReturns)
  /\ \A f \in Fds : SF_vars(\E F \in SUBSET Fds : f \in F /\ PollBatch(F))

Spec == Init /\ [][Next]_vars /\ Fairness

(***************************************************************************)
(* Properties.                                                             *)
(***************************************************************************)
\* The conditions for which handleEventSafely calls c, of those in r.
Cause(c, r) ==
  CASE c = "event" -> r
    [] c = "close" -> {"hup"}
    [] c = "error" -> {"err"}
    [] c = "read"  -> {"in"}
    [] c = "write" -> {"out"}

\* epoll's interests are exactly those of the dispatchers in state kAdded, with
\* their masks: what EpollPoller keeps in state_ is what the kernel has.
RegistrationMatches ==
  /\ \A d \in Dispatchers : Alive(d) /\ state_[d] = "kAdded" =>
        interest[fd_[d]] = [mask |-> events_[d], ptr |-> d]
  /\ \A f \in Fds : Registered(f) =>
        LET d == interest[f].ptr
        IN Alive(d) /\ fd_[d] = f /\ state_[d] = "kAdded"

\* loop() reads a dispatcher that has been destroyed only when the callback of
\* another one has destroyed it in the middle of the batch.  A connection that
\* is dropped between two batches or by its own callback is safe, and epoll
\* never brings a destroyed dispatcher back (EpollPoller.cpp:93-103,
\* EventLoop.cpp:211-217, EventDispatcher.cpp:133-137).  Only the read callback
\* of a dispatcher without eventCallback_ may not destroy its own dispatcher:
\* realEvents_ is read again after it (EventDispatcher.cpp:162).
OnlyOthersLeaveItDangling == cb = "undefined" => Current \in killed

\* epoll_wait's list is older than the callbacks it is walked with, but a callback
\* begins only for what happened to the descriptor that its dispatcher still has
\* and what no callback has consumed: not for a descriptor that was closed in the
\* same batch, nor for one that took over its number.  The write callback that
\* follows a read callback is called whatever that one did, also if it closed
\* the descriptor (EventDispatcher.cpp:155-168).
CallbackHasCause ==
  [][cb' \in Running /\ cb' # cb =>
        \/ /\ Current \notin closed
           /\ Cause(cb', realEvents_) \subseteq ready[fd_[Current]]
        \/ cb = "read" /\ Current \in closed]_vars

\* The callback for what has happened to an enabled descriptor runs, however
\* short the event list is; an error or a hang-up is reported instead.  The loop
\* may have come to a destroyed dispatcher before.
ReadyIsDispatched ==
  \A d \in Dispatchers :
    (Alive(d) /\ "out" \in events_[d] /\ "out" \in ready[fd_[d]])
      ~> \/ active # <<>> /\ Current = d /\ cb \in {"write", "event", "close", "error"}
         \/ "out" \notin events_[d] \/ ~Alive(d)
         \/ cb = "undefined"

\* EventDispatcher.h: disableAll disables the listening for all events.
DisabledIsUnregistered ==
  \A d \in Dispatchers :
    Alive(d) /\ d \notin closed /\ events_[d] = {} => ~Registered(fd_[d])

\* No dispatcher of the batch that loop() walks has been destroyed.
NoDanglingDispatcher == \A i \in DOMAIN active : Alive(active[i].ptr)
=============================================================================
