-------------------------- MODULE EpollPollerProofs --------------------------
(***************************************************************************)
(* Safety of EpollPoller and EventDispatcher for every set of dispatchers  *)
(* and every finite set of descriptors, whatever the sizes of the event    *)
(* list.                                                                   *)
(***************************************************************************)
EXTENDS EpollPoller, FiniteSetTheorems, TLAPS

USE DispatchersAssumption, FdsAssumption, ConditionsAssumption, SizeAssumption

Batch == [ptr : Dispatchers, realEvents_ : SUBSET Conditions]

\* Tail drops the first entry, and what is left keeps its type.
LEMMA TailOfBatch ==
  ASSUME active \in Seq(Batch), active # <<>>
  PROVE  /\ Tail(active) \in Seq(Batch)
         /\ Head(active) \in Batch /\ Head(active) = active[1]
         /\ 1 \in DOMAIN active
         /\ \A i \in DOMAIN Tail(active) :
               i + 1 \in DOMAIN active /\ Tail(active)[i] = active[i + 1]
OBVIOUS

\* What epoll_ctl leaves is an interest again.
LEMMA EpollCtlTyped ==
  ASSUME TypeOK, NEW d \in Dispatchers, NEW e \in Masks, NEW op,
         EpollCtl(op, d, e)
  PROVE  interest' \in [Fds -> [mask : Masks, ptr : Dispatchers \cup {NoOne}]]
<1>1. Uninteresting \in [mask : Masks, ptr : Dispatchers \cup {NoOne}]
  BY DEF Uninteresting, Masks
<1>2. [mask |-> e, ptr |-> d] \in [mask : Masks, ptr : Dispatchers \cup {NoOne}]
  OBVIOUS
<1> QED
  BY <1>1, <1>2 DEF EpollCtl, TypeOK

\* The entries of a batch are those of different descriptors that epoll reports,
\* each with the dispatcher that epoll has for it and what has happened to it.
LEMMA PollBatchTyped ==
  ASSUME TypeOK, NEW F \in SUBSET Fds, PollBatch(F)
  PROVE  /\ active' \in Seq(Batch)
         /\ \E order \in [DOMAIN active' -> F] :
              /\ \A i, j \in DOMAIN active' : order[i] = order[j] => i = j
              /\ \A i \in DOMAIN active' :
                   /\ Registered(order[i])
                   /\ active'[i].ptr = interest[order[i]].ptr
                   /\ active'[i].realEvents_ = Reported(order[i])
                   /\ Reported(order[i]) # {}
<1>1. Cardinality(F) \in Nat
  BY FS_Subset, FS_CardinalityType
<1>2. PICK order \in [1 .. Cardinality(F) -> F] :
        /\ \A i, j \in DOMAIN order : order[i] = order[j] => i = j
        /\ active' = [i \in DOMAIN order |-> [ptr |-> interest[order[i]].ptr,
                                              realEvents_ |-> Reported(order[i])]]
  BY DEF PollBatch
<1>3. ASSUME NEW f \in F
      PROVE  /\ Registered(f) /\ interest[f].ptr \in Dispatchers
             /\ Reported(f) \in SUBSET Conditions /\ Reported(f) # {}
  BY DEF PollBatch, Reported, Registered, TypeOK
<1>4. \A i \in 1 .. Cardinality(F) :
        [ptr |-> interest[order[i]].ptr, realEvents_ |-> Reported(order[i])] \in Batch
  BY <1>2, <1>3 DEF Batch
<1>5. DOMAIN order = 1 .. Cardinality(F)
  OBVIOUS
<1>6. active' \in [1 .. Cardinality(F) -> Batch]
  BY <1>2, <1>4, <1>5
<1>7. active' \in Seq(Batch)
  BY <1>1, <1>6
<1>8. DOMAIN active' = 1 .. Cardinality(F)
  BY <1>6
<1>9. ASSUME NEW i \in DOMAIN active'
      PROVE  /\ Registered(order[i])
             /\ active'[i].ptr = interest[order[i]].ptr
             /\ active'[i].realEvents_ = Reported(order[i])
             /\ Reported(order[i]) # {}
  <2>1. i \in 1 .. Cardinality(F) /\ order[i] \in F
    BY <1>8, <1>9
  <2>2. active'[i] = [ptr |-> interest[order[i]].ptr, realEvents_ |-> Reported(order[i])]
    BY <1>2, <1>5, <2>1
  <2> QED
    BY <1>3, <2>1, <2>2
<1>10. order \in [DOMAIN active' -> F] /\ DOMAIN order = DOMAIN active'
  BY <1>5, <1>8
<1>11. \A i, j \in DOMAIN active' : order[i] = order[j] => i = j
  BY <1>2, <1>10
<1>12. \E o \in [DOMAIN active' -> F] :
         /\ \A i, j \in DOMAIN active' : o[i] = o[j] => i = j
         /\ \A i \in DOMAIN active' :
              /\ Registered(o[i])
              /\ active'[i].ptr = interest[o[i]].ptr
              /\ active'[i].realEvents_ = Reported(o[i])
              /\ Reported(o[i]) # {}
  BY <1>9, <1>10, <1>11, Zenon
<1> QED
  BY <1>7, <1>12, Zenon

\* Types, to begin with.
LEMMA InitTypeOK == Init => TypeOK
BY DEF Init, TypeOK, Masks, Running, Uninteresting

\* Types, step by step.
LEMMA StepTypeOK == TypeOK /\ [Next]_vars => TypeOK'
<1> SUFFICES ASSUME TypeOK, [Next]_vars PROVE TypeOK'
  OBVIOUS
<1> USE DEF dispVars, kernel
<1>1. ASSUME NEW d \in Dispatchers, NEW f \in Fds, Construct(d, f) PROVE TypeOK'
  BY <1>1 DEF Construct, TypeOK
<1>2. ASSUME NEW d \in Dispatchers, NEW e \in Masks, SetEvents(d, e) PROVE TypeOK'
  <2>1. interest' \in [Fds -> [mask : Masks, ptr : Dispatchers \cup {NoOne}]]
    BY <1>2, EpollCtlTyped DEF SetEvents, RegisterEventDispatcher
  <2>2. state_' \in [Dispatchers -> {"kNew", "kAdded", "kDeleted"}]
    BY <1>2 DEF SetEvents, RegisterEventDispatcher, TypeOK
  <2> QED
    BY <1>2, <2>1, <2>2 DEF SetEvents, TypeOK
<1>3. ASSUME NEW d \in Dispatchers, Remove(d) PROVE TypeOK'
  <2>1. interest' \in [Fds -> [mask : Masks, ptr : Dispatchers \cup {NoOne}]]
    BY <1>3, EpollCtlTyped DEF Remove, RemoveEventDispatcher, Masks, TypeOK
  <2> QED
    BY <1>3, <2>1 DEF Remove, RemoveEventDispatcher, TypeOK
<1>4. ASSUME NEW d \in Dispatchers, Destroyed(d)
      PROVE  destroyed' \subseteq Dispatchers /\ killed' \subseteq Dispatchers
  BY <1>4 DEF Destroyed, TypeOK
<1>5. ASSUME NEW d \in Dispatchers, Closed(d)
      PROVE  /\ closed' \subseteq Dispatchers /\ open' \subseteq Fds
             /\ interest' \in [Fds -> [mask : Masks, ptr : Dispatchers \cup {NoOne}]]
             /\ ready' \in [Fds -> SUBSET Conditions]
  BY <1>5 DEF Closed, TypeOK, Uninteresting, Masks
<1>6. ASSUME NEW d \in Dispatchers, Destroy(d) \/ CloseFd(d) \/ Drop(d) PROVE TypeOK'
  BY <1>4, <1>5, <1>6 DEF Destroy, CloseFd, Drop, Destroyed, TypeOK
<1>7. ASSUME NEW f \in Fds, NEW c \in Conditions, Happens(f, c) PROVE TypeOK'
  BY <1>7 DEF Happens, TypeOK
<1>8. CASE Poll
  <2>1. PICK F \in SUBSET Fds : PollBatch(F)
    BY <1>8 DEF Poll
  <2>2. active' \in Seq(Batch)
    BY <2>1, PollBatchTyped
  <2>3. size' \in Nat \ {0}
    BY <2>1 DEF PollBatch, TypeOK
  <2>4. cb = "none"
    BY <2>1 DEF PollBatch, TypeOK
  <2> QED
    BY <2>1, <2>2, <2>3, <2>4 DEF PollBatch, TypeOK, Batch
<1>9. CASE HandleEvent
  <2>1. /\ active' \in Seq(Batch) /\ (cb' # "none" => active' # <<>>)
        /\ cb' \in Running \cup {"none", "undefined"}
    BY <1>9, TailOfBatch
       DEF HandleEvent, FirstCallback, PassOver, Call, Undefined, Running, TypeOK, Batch
  <2> QED
    BY <1>9, <2>1 DEF HandleEvent, TypeOK, Batch
<1>10. CASE CallbackReturns
  <2>1. active # <<>>
    BY <1>10 DEF CallbackReturns, Returns, Running, TypeOK
  <2>2. /\ active' \in Seq(Batch) /\ (cb' # "none" => active' # <<>>)
        /\ cb' \in Running \cup {"none", "undefined"}
    BY <1>10, <2>1, TailOfBatch
       DEF CallbackReturns, Returns, PassOver, Call, Undefined, Running, TypeOK, Batch
  <2>3. ready' \in [Fds -> SUBSET Conditions]
    BY <1>10 DEF CallbackReturns, Returns, Consumed, TypeOK
  <2> QED
    BY <1>10, <2>2, <2>3 DEF CallbackReturns, Returns, TypeOK, Batch
<1>11. CASE UNCHANGED vars
  BY <1>11 DEF vars, TypeOK
<1> QED
  BY <1>1, <1>2, <1>3, <1>6, <1>7, <1>8, <1>9, <1>10, <1>11 DEF Next, Owner

\* Every variable of the poller keeps its type.
THEOREM TypeCorrect == Spec => []TypeOK
BY InitTypeOK, StepTypeOK, PTL DEF Spec

------------------------------------------------------------------------------
(* The registrations.                                                      *)

\* A dispatcher has its descriptor until its owner closes it.
Owns(d) == fd_[d] # NoFd /\ d \notin closed

\* A descriptor is closed after it was opened; a living dispatcher that is known
\* to epoll has not lost its descriptor, and listens to something only in state
\* kAdded.
StateFollowsLife ==
  \A d \in Dispatchers :
    /\ fd_[d] = NoFd => d \notin closed /\ d \notin destroyed
    /\ d \notin destroyed /\ state_[d] # "kNew" => Owns(d)
    /\ d \notin destroyed /\ events_[d] # {} => state_[d] = "kAdded"

\* A descriptor that was not closed is open, and no two dispatchers have it.
OwnDescriptor ==
  /\ \A d \in Dispatchers : Owns(d) => fd_[d] \in open
  /\ \A d, x \in Dispatchers : Owns(d) /\ Owns(x) /\ fd_[d] = fd_[x] => d = x

\* The inductive invariant: a descriptor's number identifies its dispatcher, so
\* an epoll_ctl for one dispatcher disturbs the interest of no other.
PollerInv ==
  /\ StateFollowsLife
  /\ OwnDescriptor
  /\ RegistrationMatches

\* Nothing is registered yet.
LEMMA InitPollerInv == Init => PollerInv
BY DEF Init, PollerInv, StateFollowsLife, OwnDescriptor, RegistrationMatches,
   Owns, Alive, Registered, Uninteresting

\* A descriptor that a dispatcher has is registered for it or not at all, and
\* registered exactly while that dispatcher lives in state kAdded.
LEMMA RegisteredForItsOwner ==
  ASSUME TypeOK, PollerInv, NEW d \in Dispatchers, Owns(d)
  PROVE  /\ fd_[d] \in Fds /\ fd_[d] \in open
         /\ Registered(fd_[d]) <=> Alive(d) /\ state_[d] = "kAdded"
         /\ Registered(fd_[d]) => interest[fd_[d]].ptr = d
<1>1. fd_[d] \in Fds /\ fd_[d] \in open
  BY DEF TypeOK, PollerInv, OwnDescriptor, Owns
<1>2. ASSUME Alive(d), state_[d] = "kAdded" PROVE Registered(fd_[d])
  <2>1. interest[fd_[d]] = [mask |-> events_[d], ptr |-> d]
    BY <1>2 DEF PollerInv, RegistrationMatches
  <2> QED
    BY <2>1 DEF Registered
<1>3. ASSUME Registered(fd_[d])
      PROVE  interest[fd_[d]].ptr = d /\ Alive(d) /\ state_[d] = "kAdded"
  <2>1. interest[fd_[d]].ptr \in Dispatchers
    BY <1>1, <1>3 DEF TypeOK, Registered
  <2>2. PICK x \in Dispatchers : x = interest[fd_[d]].ptr
    BY <2>1
  <2>3. Alive(x) /\ fd_[x] = fd_[d] /\ state_[x] = "kAdded"
    BY <1>1, <1>3, <2>2 DEF PollerInv, RegistrationMatches
  <2>4. Owns(x)
    BY <2>3 DEF PollerInv, StateFollowsLife, Alive
  <2> QED
    BY <2>2, <2>3, <2>4 DEF PollerInv, OwnDescriptor
<1> QED
  BY <1>1, <1>2, <1>3

\* A living dispatcher with a registration has its descriptor.
LEMMA AddedOwns ==
  ASSUME PollerInv, NEW d \in Dispatchers, Alive(d), state_[d] = "kAdded"
  PROVE  Owns(d)
BY DEF PollerInv, StateFollowsLife, Alive

\* Closing a descriptor that no living dispatcher has registered, and the
\* descriptor of one that dies, takes the interest with it.
LEMMA ClosedKeepsInv ==
  ASSUME TypeOK, PollerInv, NEW d \in Dispatchers, Owns(d), Closed(d),
         UNCHANGED <<fd_, events_, state_>>,
         \/ destroyed' = destroyed \cup {d}
         \/ destroyed' = destroyed /\ state_[d] = "kNew"
  PROVE  PollerInv'
<1>1. \A x \in Dispatchers : Owns(x)' <=> Owns(x) /\ x # d
  BY DEF Closed, Owns
<1>2. StateFollowsLife'
  BY <1>1 DEF Closed, StateFollowsLife, PollerInv, TypeOK, Owns
<1>3. \A x \in Dispatchers : Owns(x) /\ x # d => fd_[x] # fd_[d]
  BY DEF PollerInv, OwnDescriptor
<1>4. OwnDescriptor'
  BY <1>1, <1>3 DEF Closed, OwnDescriptor, PollerInv
<1>5. \A x \in Dispatchers : Alive(x)' /\ state_[x] = "kAdded" => Alive(x) /\ x # d
  BY DEF Alive, Closed
<1>6. fd_[d] \in Fds
  BY RegisteredForItsOwner
<1>7. ASSUME NEW x \in Dispatchers, Alive(x)', state_[x] = "kAdded"
      PROVE  interest'[fd_[x]] = [mask |-> events_[x], ptr |-> x]
  <2>1. fd_[x] \in Fds /\ fd_[x] # fd_[d]
    BY <1>3, <1>5, <1>7, AddedOwns, RegisteredForItsOwner
  <2>2. interest'[fd_[x]] = interest[fd_[x]]
    BY <2>1 DEF Closed, TypeOK
  <2> QED
    BY <1>5, <1>7, <2>2 DEF PollerInv, RegistrationMatches
<1>8. ASSUME NEW f \in Fds, Registered(f)'
      PROVE  /\ f # fd_[d] /\ interest'[f] = interest[f] /\ Registered(f)
             /\ interest[f].ptr \in Dispatchers
             /\ interest[f].ptr # d
  <2>1. f # fd_[d]
    BY <1>6, <1>8 DEF Closed, Registered, Uninteresting, TypeOK
  <2>2. interest'[f] = interest[f]
    BY <2>1 DEF Closed, TypeOK
  <2>3. Registered(f) /\ interest[f].ptr \in Dispatchers
    BY <1>8, <2>2 DEF Registered, TypeOK
  <2>4. fd_[interest[f].ptr] = f
    BY <2>3 DEF PollerInv, RegistrationMatches
  <2> QED
    BY <2>1, <2>2, <2>3, <2>4
<1>9. ASSUME NEW f \in Fds, Registered(f)'
      PROVE  \E x \in Dispatchers :
               /\ interest'[f].ptr = x
               /\ fd_'[x] # NoFd /\ x \notin destroyed'
               /\ fd_'[x] = f /\ state_'[x] = "kAdded"
  <2>1. PICK x \in Dispatchers : x = interest[f].ptr /\ x # d /\ interest'[f].ptr = x
    BY <1>8, <1>9
  <2>2. Alive(x) /\ fd_[x] = f /\ state_[x] = "kAdded"
    BY <1>8, <1>9, <2>1 DEF PollerInv, RegistrationMatches
  <2> QED
    BY <2>1, <2>2 DEF Alive
<1>10. RegistrationMatches'
  <2>1. \A x \in Dispatchers : Alive(x)' /\ state_'[x] = "kAdded" =>
          interest'[fd_'[x]] = [mask |-> events_'[x], ptr |-> x]
    BY <1>7
  <2>2. \A f \in Fds : Registered(f)' =>
          LET x == interest[f].ptr
          IN  (Alive(x) /\ fd_[x] = f /\ state_[x] = "kAdded")'
    BY <1>9 DEF Alive
  <2> QED
    BY <2>1, <2>2 DEF RegistrationMatches
<1> QED
  BY <1>2, <1>4, <1>10 DEF PollerInv

\* Each call of a callback and of the poller keeps the table and state_
\* together.
LEMMA StepPollerInv == TypeOK /\ PollerInv /\ [Next]_vars => PollerInv'
<1> SUFFICES ASSUME TypeOK, PollerInv, [Next]_vars PROVE PollerInv'
  OBVIOUS
<1> TypeOK'
  BY StepTypeOK
<1> USE DEF dispVars, kernel
<1>1. ASSUME NEW d \in Dispatchers, NEW f \in Fds, Construct(d, f) PROVE PollerInv'
  <2>1. StateFollowsLife'
    BY <1>1 DEF Construct, StateFollowsLife, PollerInv, Owns, TypeOK
  <2>2. OwnDescriptor'
    BY <1>1 DEF Construct, OwnDescriptor, PollerInv, Owns, TypeOK
  <2>3. RegistrationMatches'
    BY <1>1 DEF Construct, RegistrationMatches, StateFollowsLife, PollerInv, Alive,
       Owns, TypeOK, Registered
  <2> QED
    BY <2>1, <2>2, <2>3 DEF PollerInv
<1>2. ASSUME NEW d \in Dispatchers, NEW e \in Masks, SetEvents(d, e) PROVE PollerInv'
  <2>1. Alive(d) /\ Owns(d)
    BY <1>2 DEF SetEvents, Alive, Owns
  <2>2. StateFollowsLife'
    BY <1>2, <2>1 DEF SetEvents, RegisterEventDispatcher, StateFollowsLife, PollerInv,
       Owns, TypeOK
  <2>3. OwnDescriptor'
    BY <1>2 DEF SetEvents, OwnDescriptor, PollerInv, Owns
  <2>4. RegistrationMatches'
    <3>1. CASE state_'[d] = "kAdded"
      <4>1. interest' = [interest EXCEPT ![fd_[d]] = [mask |-> e, ptr |-> d]]
        BY <1>2, <2>1, <3>1, RegisteredForItsOwner
           DEF SetEvents, RegisterEventDispatcher, EpollCtl, TypeOK
      <4> QED
        BY <1>2, <2>1, <3>1, <4>1, RegisteredForItsOwner, AddedOwns
           DEF SetEvents, RegisterEventDispatcher, RegistrationMatches, OwnDescriptor,
               PollerInv, Alive, TypeOK, Registered
    <3>2. CASE state_'[d] # "kAdded"
      <4>1. interest' = [interest EXCEPT ![fd_[d]] = Uninteresting]
        BY <1>2, <3>2 DEF SetEvents, RegisterEventDispatcher, EpollCtl, TypeOK
      <4> QED
        BY <1>2, <2>1, <3>2, <4>1, RegisteredForItsOwner, AddedOwns
           DEF SetEvents, RegisterEventDispatcher, RegistrationMatches, OwnDescriptor,
               PollerInv, Alive, TypeOK, Registered, Uninteresting
    <3> QED
      BY <3>1, <3>2
  <2> QED
    BY <2>2, <2>3, <2>4 DEF PollerInv
<1>3. ASSUME NEW d \in Dispatchers, Remove(d) PROVE PollerInv'
  <2>1. Alive(d) /\ Owns(d)
    BY <1>3 DEF Remove, Alive, PollerInv, StateFollowsLife
  <2>2. StateFollowsLife'
    BY <1>3 DEF Remove, RemoveEventDispatcher, StateFollowsLife, PollerInv, Owns, TypeOK
  <2>3. OwnDescriptor'
    BY <1>3 DEF Remove, OwnDescriptor, PollerInv, Owns
  <2>4. RegistrationMatches'
    <3>1. interest' = [interest EXCEPT ![fd_[d]] = Uninteresting] \/ interest' = interest
      BY <1>3 DEF Remove, RemoveEventDispatcher, EpollCtl
    <3>2. interest' = interest => ~Registered(fd_[d])
      BY <1>3, <2>1, RegisteredForItsOwner
         DEF Remove, RemoveEventDispatcher, EpollCtl, Registered, Uninteresting, TypeOK
    <3>3. \A x \in Dispatchers : x # d /\ Alive(x) /\ state_[x] = "kAdded" =>
            fd_[x] \in Fds /\ fd_[x] # fd_[d]
      BY <2>1, RegisteredForItsOwner, AddedOwns DEF PollerInv, OwnDescriptor
    <3>4. \A f \in Fds : Registered(f)' => f # fd_[d] /\ interest'[f] = interest[f]
      BY <3>1, <3>2 DEF Registered, Uninteresting, TypeOK
    <3>5. /\ UNCHANGED <<fd_, destroyed, events_>>
          /\ state_' = [state_ EXCEPT ![d] = "kNew"]
      BY <1>3 DEF Remove, RemoveEventDispatcher
    <3>6. \A x \in Dispatchers : Alive(x)' /\ state_'[x] = "kAdded" =>
            interest'[fd_'[x]] = [mask |-> events_'[x], ptr |-> x]
      BY <3>1, <3>3, <3>5 DEF Alive, PollerInv, RegistrationMatches, TypeOK
    <3>7. \A f \in Fds : Registered(f)' =>
            LET x == interest[f].ptr
            IN  (Alive(x) /\ fd_[x] = f /\ state_[x] = "kAdded")'
      BY <3>4, <3>5 DEF Alive, PollerInv, RegistrationMatches, TypeOK, Registered
    <3> QED
      BY <3>6, <3>7 DEF RegistrationMatches
  <2> QED
    BY <2>2, <2>3, <2>4 DEF PollerInv
<1>4. ASSUME NEW d \in Dispatchers, Destroy(d) PROVE PollerInv'
  <2>1. StateFollowsLife' /\ OwnDescriptor'
    BY <1>4 DEF Destroy, Destroyed, StateFollowsLife, OwnDescriptor, PollerInv, Owns,
       Alive, TypeOK
  <2>2. RegistrationMatches'
    BY <1>4 DEF Destroy, Destroyed, RegistrationMatches, PollerInv, Alive, TypeOK, Registered
  <2> QED
    BY <2>1, <2>2 DEF PollerInv
<1>5. ASSUME NEW d \in Dispatchers, CloseFd(d) PROVE PollerInv'
  BY <1>5, ClosedKeepsInv DEF CloseFd, Closed, Owns
<1>6. ASSUME NEW d \in Dispatchers, Drop(d) PROVE PollerInv'
  BY <1>6, ClosedKeepsInv DEF Drop, Destroyed, Closed, Owns, Alive
<1>7. ASSUME NEW f \in Fds, NEW c \in Conditions, Happens(f, c) PROVE PollerInv'
  BY <1>7 DEF Happens, PollerInv, StateFollowsLife, OwnDescriptor,
     RegistrationMatches, Owns, Alive, Registered
<1>8. CASE Poll \/ HandleEvent \/ CallbackReturns
  <2>1. UNCHANGED <<dispVars, open, interest>>
    BY <1>8 DEF Poll, PollBatch, HandleEvent, CallbackReturns, Returns
  <2> QED
    BY <2>1 DEF PollerInv, StateFollowsLife, OwnDescriptor, RegistrationMatches,
       Owns, Alive, Registered
<1>9. CASE UNCHANGED vars
  BY <1>9 DEF vars, PollerInv, StateFollowsLife, OwnDescriptor,
     RegistrationMatches, Owns, Alive, Registered
<1> QED
  BY <1>1, <1>2, <1>3, <1>4, <1>5, <1>6, <1>7, <1>8, <1>9 DEF Next, Owner

\* epoll's interests are exactly those of the living dispatchers in state
\* kAdded, with their masks (EpollPoller.cpp: registerEventDispatcher,
\* removeEventDispatcher), however descriptors are closed and reused.
THEOREM RegistrationsMatch == Spec => []RegistrationMatches
<1>1. PollerInv => RegistrationMatches
  BY DEF PollerInv
<1> QED
  BY <1>1, InitTypeOK, StepTypeOK, InitPollerInv, StepPollerInv, PTL DEF Spec

------------------------------------------------------------------------------
(* The batch that loop() walks.                                            *)

\* What entry i was made for and is not yet done: behind the read callback of
\* the current dispatcher the write callback is left.
Due(i) == active[i].realEvents_ \ (IF i = 1 /\ cb = "write" THEN {"in"} ELSE {})

\* No dispatcher is in the list twice, and each has been given a descriptor.
OneEntryEach ==
  /\ \A i, j \in DOMAIN active : active[i].ptr = active[j].ptr => i = j
  /\ \A i \in DOMAIN active : fd_[active[i].ptr] # NoFd /\ active[i].realEvents_ # {}

\* A destroyed dispatcher in the list was destroyed by a callback of another one
\* or by its own, which is still running.
DeadWereKilled ==
  \A i \in DOMAIN active :
    active[i].ptr \in destroyed =>
      active[i].ptr \in killed \/ (i = 1 /\ cb \in Running \ {"read"})

\* What is due has happened to the descriptor that the dispatcher still has.
DueIsReady ==
  cb # "undefined" =>
    \A i \in DOMAIN active :
      active[i].ptr \notin closed => Due(i) \subseteq ready[fd_[active[i].ptr]]

\* The inductive invariant of the batch.
BatchInv ==
  /\ OneEntryEach
  /\ DeadWereKilled
  /\ DueIsReady
  /\ OnlyOthersLeaveItDangling

\* There is no batch yet.
LEMMA InitBatchInv == Init => BatchInv
BY DEF Init, BatchInv, OneEntryEach, DeadWereKilled, DueIsReady, OnlyOthersLeaveItDangling

\* An entry of the list is one of a batch.
LEMMA EntryTyped ==
  ASSUME TypeOK, NEW i \in DOMAIN active
  PROVE  active[i].ptr \in Dispatchers /\ active[i].realEvents_ \subseteq Conditions
<1>1. active \in Seq(Batch)
  BY DEF TypeOK, Batch
<1>2. active[i] \in Batch
  BY <1>1
<1> QED
  BY <1>2 DEF Batch

\* Steps of owners and of the kernel that close nothing and destroy nothing keep
\* the invariant, as they change neither the list nor what has happened.
LEMMA QuietKeepsBatch ==
  ASSUME TypeOK, BatchInv,
         UNCHANGED <<active, cb, destroyed, closed, killed>>,
         \A d \in Dispatchers : fd_[d] # NoFd => fd_'[d] = fd_[d],
         \A f \in Fds : ready[f] \subseteq ready'[f]
  PROVE  BatchInv'
<1>1. \A i \in DOMAIN active :
        /\ active[i].ptr \in Dispatchers
        /\ fd_'[active[i].ptr] = fd_[active[i].ptr] /\ fd_[active[i].ptr] \in Fds
  BY EntryTyped DEF TypeOK, BatchInv, OneEntryEach
<1>2. OneEntryEach'
  BY <1>1 DEF OneEntryEach, BatchInv
<1>3. DeadWereKilled' /\ OnlyOthersLeaveItDangling'
  BY DEF DeadWereKilled, OnlyOthersLeaveItDangling, BatchInv, Current
<1>4. DueIsReady'
  BY <1>1 DEF DueIsReady, Due, BatchInv
<1> QED
  BY <1>2, <1>3, <1>4 DEF BatchInv

\* The destructor of a dispatcher, and close() of its own descriptor if it
\* has it.
LEMMA EndKeepsBatch ==
  ASSUME TypeOK, PollerInv, BatchInv, NEW d \in Dispatchers, UserCode,
         Destroyed(d) \/ UNCHANGED <<fd_, destroyed, killed, active, cb>>,
         (Owns(d) /\ Closed(d)) \/ UNCHANGED <<closed, ready>>
  PROVE  BatchInv'
<1>1. UNCHANGED <<fd_, active, cb>>
  BY DEF Destroyed
<1>2. \A i \in DOMAIN active : active[i].ptr \in Dispatchers /\ fd_[active[i].ptr] \in Fds
  BY EntryTyped DEF TypeOK, BatchInv, OneEntryEach
<1>3. OneEntryEach'
  BY <1>1 DEF OneEntryEach, BatchInv
<1>4. DeadWereKilled'
  <2> SUFFICES ASSUME NEW i \in DOMAIN active, active[i].ptr \in destroyed'
               PROVE  active[i].ptr \in killed' \/ (i = 1 /\ cb \in Running \ {"read"})
    BY <1>1 DEF DeadWereKilled
  <2>1. CASE active[i].ptr \in destroyed
    BY <2>1 DEF Destroyed, DeadWereKilled, BatchInv
  <2>2. CASE active[i].ptr \notin destroyed
    <3>1. Destroyed(d) /\ active[i].ptr = d
      BY <2>2 DEF Destroyed
    <3>2. active # <<>> /\ cb \in Running /\ active[1] = Head(active) /\ 1 \in DOMAIN active
      BY TailOfBatch DEF UserCode, TypeOK, Batch
    <3>3. CASE d # active[1].ptr \/ cb = "read"
      BY <3>1, <3>2, <3>3 DEF Destroyed
    <3>4. CASE d = active[1].ptr /\ cb # "read"
      BY <3>1, <3>2, <3>4 DEF BatchInv, OneEntryEach
    <3> QED
      BY <3>3, <3>4
  <2> QED
    BY <2>1, <2>2
<1>5. DueIsReady'
  <2> SUFFICES ASSUME NEW i \in DOMAIN active, active[i].ptr \notin closed', cb # "undefined"
               PROVE  Due(i) \subseteq ready'[fd_[active[i].ptr]]
    BY <1>1 DEF DueIsReady, Due
  <2>1. active[i].ptr \notin closed /\ Due(i) \subseteq ready[fd_[active[i].ptr]]
    BY DEF BatchInv, DueIsReady, Closed
  <2>2. CASE Owns(d) /\ Closed(d)
    <3>1. active[i].ptr # d /\ Owns(active[i].ptr)
      BY <2>1, <2>2 DEF Closed, Owns, BatchInv, OneEntryEach
    <3>2. fd_[active[i].ptr] # fd_[d]
      BY <1>2, <2>2, <3>1 DEF PollerInv, OwnDescriptor
    <3> QED
      BY <1>2, <2>1, <2>2, <3>2 DEF Closed, TypeOK
  <2>3. CASE UNCHANGED <<closed, ready>>
    BY <2>1, <2>3
  <2> QED
    BY <2>2, <2>3
<1>6. OnlyOthersLeaveItDangling'
  BY <1>1 DEF OnlyOthersLeaveItDangling, BatchInv, Current, UserCode, Running, Destroyed
<1> QED
  BY <1>3, <1>4, <1>5, <1>6 DEF BatchInv

\* A new batch: one entry for each descriptor, with its living owner.
LEMMA PollKeepsBatch ==
  ASSUME TypeOK, PollerInv, NEW F \in SUBSET Fds, PollBatch(F)
  PROVE  BatchInv'
<1>1. PICK order \in [DOMAIN active' -> F] :
        /\ \A i, j \in DOMAIN active' : order[i] = order[j] => i = j
        /\ \A i \in DOMAIN active' :
             /\ Registered(order[i])
             /\ active'[i].ptr = interest[order[i]].ptr
             /\ active'[i].realEvents_ = Reported(order[i])
             /\ Reported(order[i]) # {}
  BY PollBatchTyped
<1>2. UNCHANGED <<fd_, destroyed, closed, ready>> /\ cb = "none" /\ cb' = "none"
  BY DEF PollBatch, dispVars, kernel, TypeOK
<1>3. ASSUME NEW i \in DOMAIN active'
      PROVE  /\ Alive(active'[i].ptr) /\ fd_[active'[i].ptr] = order[i]
             /\ active'[i].realEvents_ # {} /\ order[i] \in Fds
             /\ active'[i].realEvents_ \subseteq ready[order[i]]
  <2>1. order[i] \in Fds
    BY <1>1, <1>3
  <2>2. Alive(interest[order[i]].ptr) /\ fd_[interest[order[i]].ptr] = order[i]
    BY <1>1, <1>3, <2>1 DEF PollerInv, RegistrationMatches
  <2>3. Reported(order[i]) \subseteq ready[order[i]]
    BY DEF Reported
  <2> QED
    BY <1>1, <1>3, <2>1, <2>2, <2>3
<1>4. OneEntryEach'
  BY <1>1, <1>2, <1>3 DEF OneEntryEach, Alive
<1>5. DeadWereKilled' /\ OnlyOthersLeaveItDangling'
  BY <1>2, <1>3 DEF DeadWereKilled, OnlyOthersLeaveItDangling, Alive
<1>6. DueIsReady'
  BY <1>2, <1>3 DEF DueIsReady, Due
<1> QED
  BY <1>4, <1>5, <1>6 DEF BatchInv

\* Behind a passed entry the others are as they were.
LEMMA PassOverKeepsBatch ==
  ASSUME TypeOK, BatchInv, active # <<>>, PassOver, cb # "undefined",
         UNCHANGED <<fd_, destroyed, closed, killed>>,
         \A i \in DOMAIN active : i # 1 /\ active[i].ptr \notin closed =>
            ready'[fd_[active[i].ptr]] = ready[fd_[active[i].ptr]]
  PROVE  BatchInv'
<1>1. \A i \in DOMAIN active' :
        /\ i + 1 \in DOMAIN active /\ i \in Nat /\ i + 1 # 1
        /\ active'[i] = active[i + 1]
  BY TailOfBatch DEF PassOver, TypeOK, Batch
<1>2. OneEntryEach'
  <2>1. \A i, j \in DOMAIN active' : active'[i].ptr = active'[j].ptr => i = j
    BY <1>1 DEF OneEntryEach, BatchInv
  <2>2. \A i \in DOMAIN active' :
          fd_'[active'[i].ptr] # NoFd /\ active'[i].realEvents_ # {}
    BY <1>1 DEF OneEntryEach, BatchInv
  <2> QED
    BY <2>1, <2>2 DEF OneEntryEach
<1>3. DeadWereKilled'
  BY <1>1 DEF DeadWereKilled, BatchInv
<1>4. DueIsReady'
  BY <1>1 DEF DueIsReady, Due, BatchInv, PassOver
<1>5. OnlyOthersLeaveItDangling'
  BY DEF OnlyOthersLeaveItDangling, PassOver
<1> QED
  BY <1>2, <1>3, <1>4, <1>5 DEF BatchInv

\* A callback that begins, and a stop at a destroyed dispatcher.
LEMMA CallKeepsBatch ==
  ASSUME TypeOK, BatchInv, active # <<>>, cb # "undefined", NEW c, Call(c),
         UNCHANGED <<fd_, destroyed, closed, killed>>,
         Current \in destroyed => c = "undefined" /\ Current \in killed,
         c = "undefined" => Current \in destroyed,
         \A i \in DOMAIN active : i # 1 /\ active[i].ptr \notin closed =>
            ready'[fd_[active[i].ptr]] = ready[fd_[active[i].ptr]],
         c # "undefined" /\ Current \notin closed =>
            realEvents_ \ (IF c = "write" THEN {"in"} ELSE {}) \subseteq ready'[fd_[Current]]
  PROVE  BatchInv'
<1>1. Head(active) = active[1] /\ 1 \in DOMAIN active
  BY TailOfBatch DEF TypeOK, Batch
<1>2. OneEntryEach'
  BY DEF OneEntryEach, BatchInv, Call
<1>3. DeadWereKilled'
  BY <1>1 DEF DeadWereKilled, BatchInv, Call, Current
<1>4. DueIsReady'
  <2> SUFFICES ASSUME c # "undefined", NEW i \in DOMAIN active, active[i].ptr \notin closed
               PROVE  Due(i)' \subseteq ready'[fd_[active[i].ptr]]
    BY DEF DueIsReady, Call
  <2>1. CASE i = 1
    <3>1. Due(1)' = active[1].realEvents_ \ (IF c = "write" THEN {"in"} ELSE {})
      BY DEF Due, Call
    <3> QED
      BY <1>1, <2>1, <3>1 DEF Current, realEvents_
  <2>2. CASE i # 1
    BY <2>2 DEF Due, Call, BatchInv, DueIsReady
  <2> QED
    BY <2>1, <2>2
<1>5. OnlyOthersLeaveItDangling'
  BY DEF OnlyOthersLeaveItDangling, Call, Current
<1> QED
  BY <1>2, <1>3, <1>4, <1>5 DEF BatchInv

\* What a callback consumes was reported for its own dispatcher only.
LEMMA ConsumedIsOwn ==
  ASSUME TypeOK, PollerInv, BatchInv, active # <<>>, Consumed,
         NEW i \in DOMAIN active, i # 1, active[i].ptr \notin closed
  PROVE  ready'[fd_[active[i].ptr]] = ready[fd_[active[i].ptr]]
<1>1. Current = active[1].ptr /\ 1 \in DOMAIN active
  BY TailOfBatch DEF TypeOK, Batch, Current
<1>2. active[i].ptr # Current
  BY <1>1 DEF BatchInv, OneEntryEach
<1>3. active[i].ptr \in Dispatchers /\ Current \in Dispatchers
  BY <1>1, EntryTyped
<1>4. Owns(active[i].ptr) /\ fd_[active[i].ptr] \in Fds
  BY <1>3 DEF BatchInv, OneEntryEach, Owns, TypeOK
<1>5. CASE Current \in closed
  BY <1>5 DEF Consumed
<1>6. CASE Current \notin closed
  <2>1. Owns(Current)
    BY <1>1, <1>6 DEF BatchInv, OneEntryEach, Owns
  <2>2. fd_[active[i].ptr] # fd_[Current]
    BY <1>2, <1>3, <1>4, <2>1 DEF PollerInv, OwnDescriptor
  <2> QED
    BY <1>4, <1>6, <2>2 DEF Consumed, TypeOK
<1> QED
  BY <1>5, <1>6

\* Each step keeps the invariant of the batch.
LEMMA StepBatchInv == TypeOK /\ PollerInv /\ BatchInv /\ [Next]_vars => BatchInv'
<1> SUFFICES ASSUME TypeOK, PollerInv, BatchInv, [Next]_vars PROVE BatchInv'
  OBVIOUS
<1> USE DEF dispVars, kernel
<1>1. ASSUME NEW d \in Dispatchers, NEW f \in Fds, Construct(d, f) PROVE BatchInv'
  <2>1. \A x \in Dispatchers : fd_[x] # NoFd => fd_'[x] = fd_[x]
    BY <1>1 DEF Construct, TypeOK
  <2>2. UNCHANGED <<active, cb, destroyed, closed, killed>> /\ ready' = ready
    BY <1>1 DEF Construct
  <2> QED
    BY <2>1, <2>2, QuietKeepsBatch
<1>2. ASSUME NEW d \in Dispatchers, NEW e \in Masks, SetEvents(d, e) \/ Remove(d)
      PROVE  BatchInv'
  <2>1. UNCHANGED <<fd_, active, cb, destroyed, closed, killed>> /\ ready' = ready
    BY <1>2 DEF SetEvents, Remove
  <2> QED
    BY <2>1, QuietKeepsBatch
<1>3. ASSUME NEW d \in Dispatchers, Destroy(d) PROVE BatchInv'
  <2>1. UserCode /\ Destroyed(d) /\ UNCHANGED <<closed, ready>>
    BY <1>3 DEF Destroy, Destroyed
  <2> QED
    BY <2>1, EndKeepsBatch
<1>4. ASSUME NEW d \in Dispatchers, CloseFd(d) PROVE BatchInv'
  <2>1. UserCode /\ Owns(d) /\ Closed(d) /\ UNCHANGED <<fd_, destroyed, killed, active, cb>>
    BY <1>4 DEF CloseFd, Closed, Owns
  <2> QED
    BY <2>1, EndKeepsBatch
<1>5. ASSUME NEW d \in Dispatchers, Drop(d) PROVE BatchInv'
  <2>1. UserCode /\ Destroyed(d) /\ Owns(d) /\ Closed(d)
    BY <1>5 DEF Drop, Destroyed, Closed, Owns, Alive
  <2> QED
    BY <2>1, EndKeepsBatch
<1>6. ASSUME NEW f \in Fds, NEW c \in Conditions, Happens(f, c) PROVE BatchInv'
  <2>1. UNCHANGED <<fd_, active, cb, destroyed, closed, killed>>
    BY <1>6 DEF Happens
  <2>2. \A g \in Fds : ready[g] \subseteq ready'[g]
    BY <1>6 DEF Happens, TypeOK
  <2> QED
    BY <2>1, <2>2, QuietKeepsBatch
<1>7. CASE Poll
  BY <1>7, PollKeepsBatch DEF Poll
<1>8. CASE HandleEvent
  <2>1. /\ active # <<>> /\ cb = "none"
        /\ UNCHANGED <<fd_, destroyed, closed, killed>> /\ ready' = ready
    BY <1>8 DEF HandleEvent
  <2>2. Current = active[1].ptr /\ realEvents_ = active[1].realEvents_ /\ 1 \in DOMAIN active
    BY <2>1, TailOfBatch DEF TypeOK, Batch, Current, realEvents_
  <2>3. Current \in destroyed => Current \in killed
    BY <2>1, <2>2 DEF BatchInv, DeadWereKilled, Running
  <2>4. Current \notin closed => realEvents_ \subseteq ready[fd_[Current]]
    BY <2>1, <2>2 DEF BatchInv, DueIsReady, Due
  <2>5. CASE PassOver
    BY <2>1, <2>5, PassOverKeepsBatch
  <2>6. ASSUME Current \notin destroyed, Call(FirstCallback(Current, realEvents_))
        PROVE  BatchInv'
    <3>1. FirstCallback(Current, realEvents_) # "undefined"
      BY DEF FirstCallback
    <3> QED
      BY <2>1, <2>4, <2>6, <3>1, CallKeepsBatch
  <2>7. CASE Current \in destroyed /\ Undefined
    BY <2>1, <2>3, <2>7, CallKeepsBatch DEF Undefined
  <2> QED
    BY <1>8, <2>5, <2>6, <2>7 DEF HandleEvent
<1>9. CASE CallbackReturns
  <2>1. /\ cb \in Running /\ cb # "undefined" /\ active # <<>> /\ Consumed
        /\ UNCHANGED <<fd_, destroyed, closed, killed>>
    BY <1>9 DEF CallbackReturns, Returns, Running, TypeOK
  <2>2. Current = active[1].ptr /\ realEvents_ = active[1].realEvents_ /\ 1 \in DOMAIN active
    BY <2>1, TailOfBatch DEF TypeOK, Batch, Current, realEvents_
  <2>3. \A i \in DOMAIN active : i # 1 /\ active[i].ptr \notin closed =>
          ready'[fd_[active[i].ptr]] = ready[fd_[active[i].ptr]]
    BY <2>1, ConsumedIsOwn
  <2>4. CASE PassOver
    BY <2>1, <2>3, <2>4, PassOverKeepsBatch
  <2>5. ASSUME cb = "read", Current \notin destroyed, Call("write") PROVE BatchInv'
    <3>1. Current \notin closed => realEvents_ \subseteq ready[fd_[Current]]
      BY <2>2, <2>5 DEF BatchInv, DueIsReady, Due
    <3>2. Current \in Dispatchers /\ fd_[Current] \in Fds
      BY <2>2, EntryTyped DEF BatchInv, OneEntryEach, TypeOK
    <3>3. Consumes = {"in"}
      BY <2>5 DEF Consumes
    <3>4. Current \notin closed => realEvents_ \ {"in"} \subseteq ready'[fd_[Current]]
      BY <2>1, <3>1, <3>2, <3>3 DEF Consumed, TypeOK
    <3> QED
      BY <2>1, <2>3, <2>5, <3>4, CallKeepsBatch
  <2>6. CASE cb = "read" /\ Current \in destroyed /\ Undefined
    <3>1. Current \in killed
      BY <2>2, <2>6 DEF BatchInv, DeadWereKilled
    <3> QED
      BY <2>1, <2>3, <2>6, <3>1, CallKeepsBatch DEF Undefined
  <2> QED
    BY <1>9, <2>4, <2>5, <2>6 DEF CallbackReturns, Returns
<1>10. CASE UNCHANGED vars
  BY <1>10, QuietKeepsBatch DEF vars
<1> QED
  BY <1>1, <1>2, <1>3, <1>4, <1>5, <1>6, <1>7, <1>8, <1>9, <1>10 DEF Next, Owner, Masks

\* loop() reads a destroyed dispatcher only when a callback of another one, or its
\* own read callback, destroyed it since the poll (EventLoop.cpp: loop;
\* EpollPoller.cpp: fillActiveDispatchers; EventDispatcher.cpp: handleEvent).
THEOREM DanglingNeedsAnother == Spec => []OnlyOthersLeaveItDangling
<1>1. BatchInv => OnlyOthersLeaveItDangling
  BY DEF BatchInv
<1> QED
  BY <1>1, InitTypeOK, StepTypeOK, InitPollerInv, StepPollerInv, InitBatchInv,
     StepBatchInv, PTL DEF Spec

\* A callback begins only for what happened to the descriptor its dispatcher still
\* has, except for a write callback after a read callback that closed it
\* (EventDispatcher.cpp: handleEvent, handleEventSafely).
THEOREM CallbacksHaveCauses == Spec => CallbackHasCause
<1> DEFINE Caused == cb' \in Running /\ cb' # cb =>
                       \/ /\ Current \notin closed
                          /\ Cause(cb', realEvents_) \subseteq ready[fd_[Current]]
                       \/ cb = "read" /\ Current \in closed
<1>1. TypeOK /\ PollerInv /\ BatchInv /\ [Next]_vars => [Caused]_vars
  <2> SUFFICES ASSUME TypeOK, PollerInv, BatchInv, Next, cb' \in Running, cb' # cb
               PROVE  \/ /\ Current \notin closed
                         /\ Cause(cb', realEvents_) \subseteq ready[fd_[Current]]
                      \/ cb = "read" /\ Current \in closed
    OBVIOUS
  <2>1. HandleEvent \/ CallbackReturns
    BY DEF Next, Owner, Construct, SetEvents, Remove, Destroy, Destroyed, CloseFd,
       Drop, Happens, Poll, PollBatch, Running
  <2>2. active # <<>>
    BY <2>1 DEF HandleEvent, CallbackReturns, Returns, Running, TypeOK
  <2>3. Current = active[1].ptr /\ realEvents_ = active[1].realEvents_ /\ 1 \in DOMAIN active
    BY <2>2, TailOfBatch DEF TypeOK, Batch, Current, realEvents_
  <2>4. /\ Current \in Dispatchers /\ fd_[Current] # NoFd
        /\ realEvents_ # {} /\ realEvents_ \subseteq {"in", "out", "hup", "err"}
    BY <2>3, EntryTyped DEF BatchInv, OneEntryEach
  <2>5. cb \in {"none", "read"} =>
          (Current \notin closed => realEvents_ \subseteq ready[fd_[Current]])
    BY <2>3 DEF BatchInv, DueIsReady, Due
  <2>6. CASE HandleEvent
    <3>1. /\ events_[Current] # {} /\ Current \notin destroyed
          /\ cb' = FirstCallback(Current, realEvents_) /\ cb = "none"
      BY <2>6 DEF HandleEvent, PassOver, Undefined, Call, Running
    <3>2. Current \notin closed
      BY <2>4, <3>1 DEF PollerInv, StateFollowsLife, Owns
    <3>3. Cause(FirstCallback(Current, realEvents_), realEvents_) \subseteq realEvents_
      BY <2>4 DEF Cause, FirstCallback
    <3> QED
      BY <2>5, <3>1, <3>2, <3>3
  <2>7. CASE CallbackReturns
    <3>1. cb = "read" /\ cb' = "write" /\ "out" \in realEvents_
      BY <2>7 DEF CallbackReturns, Returns, PassOver, Undefined, Call, Running
    <3>2. Cause("write", realEvents_) = {"out"}
      BY DEF Cause
    <3> QED
      BY <2>5, <3>1, <3>2
  <2> QED
    BY <2>1, <2>6, <2>7
<1> QED
  BY <1>1, InitTypeOK, StepTypeOK, InitPollerInv, StepPollerInv, InitBatchInv,
     StepBatchInv, PTL DEF Spec, CallbackHasCause
==============================================================================
