--------------------------- MODULE MPSCQueueProofs ---------------------------
(***************************************************************************)
(* Safety of MPSCQueue for every set of producers and every number of      *)
(* enqueues.  The inductive invariant says what the list looks like: the   *)
(* allocated nodes are exactly those from tail_ to head_, each is linked   *)
(* to its successor or waits for the one producer that will link it, and   *)
(* data is held exactly behind the consumer's front.                       *)
(***************************************************************************)
EXTENDS MPSCQueue, TLAPS

\* The nodes between the two ends are allocated, and nothing else is.
Extent ==
  /\ tail_ <= head_
  /\ consumer # "destroyed" => live = tail_ .. head_
  /\ \A n \in Nodes : n >= head_ => next_[n] = nullptr
  /\ \A p \in Producers : sent[p] <= head_

\* A producer between exchange and link owns the gap behind its prevhead.
Gaps ==
  /\ \A p \in Producers : pc[p] = "link" =>
        /\ prevhead[p] \in tail_ .. (head_ - 1)
        /\ newNode[p] = prevhead[p] + 1
        /\ next_[prevhead[p]] = nullptr
  /\ \A p, q \in Producers :
        pc[p] = "link" /\ pc[q] = "link" /\ p # q => prevhead[p] # prevhead[q]

\* The consumer inside dequeue, and the destructor.
Consuming ==
  /\ consumer = "advance" =>
        tail_ < head_ /\ next = tail_ + 1 /\ next_[tail_] = next
  /\ dtor => \A p \in Producers : pc[p] = "idle"
  /\ consumer = "destroyed" => dtor /\ tail_ = head_ /\ live = {}

\* Only the nodes behind the front still hold an element.
Held == \A n \in Nodes : dataPtr_[n] # NoData => n > Front /\ n <= head_

\* The inductive invariant.
IInv ==
  /\ TypeOK
  /\ Extent
  /\ OnlyEnqueuesInProgressBreakTheList
  /\ Gaps
  /\ Consuming
  /\ Held

\* The node of the constructor.
LEMMA InitIInv == Init => IInv
<1> SUFFICES ASSUME Init PROVE IInv
  OBVIOUS
<1> USE MaxNodesAssumption DEF Init, Nodes, nullptr
<1>1. TypeOK
  <2>1. 0 \in Nodes /\ live \in SUBSET Nodes
    OBVIOUS
  <2>2. next_ \in [Nodes -> Nodes \cup {nullptr}]
    BY Zenon
  <2>3. dataPtr_ \in [Nodes -> Elements \cup {NoData}]
    BY Zenon
  <2>4. /\ pc \in [Producers -> {"idle", "link"}]
        /\ sent \in [Producers -> Nat]
    OBVIOUS
  <2>5. /\ newNode \in [Producers -> Nodes]
        /\ prevhead \in [Producers -> Nodes]
    BY <2>1
  <2> QED
    BY <2>1, <2>2, <2>3, <2>4, <2>5, Zenon DEF TypeOK
<1>2. live = tail_ .. head_
  <2>1. 0 .. 0 = {0}
    OBVIOUS
  <2> QED
    BY <2>1
<1>3. Extent /\ OnlyEnqueuesInProgressBreakTheList
  BY <1>2 DEF Extent, OnlyEnqueuesInProgressBreakTheList
<1>4. Gaps /\ Consuming /\ Held
  BY DEF Gaps, Consuming, Held
<1> QED
  BY <1>1, <1>3, <1>4 DEF IInv

\* One step for each action, and in it one for each part that the action
\* disturbs.
LEMMA StepIInv == IInv /\ [Next]_vars => IInv'
<1> SUFFICES ASSUME IInv, [Next]_vars PROVE IInv'
  OBVIOUS
<1> USE MaxNodesAssumption
<1>1. ASSUME NEW p \in Producers, EnqueueExchange(p) PROVE IInv'
  <2> USE <1>1 DEF EnqueueExchange, Nodes, nullptr
  <2>1. TypeOK'
    <3>1. sent[p] + 1 \in 1 .. MaxNodes
      BY DEF IInv, TypeOK, Extent
    <3>2. <<p, sent[p] + 1>> \in Elements
      BY <3>1 DEF Elements
    <3> QED
      BY <3>2 DEF IInv, TypeOK
  <2>2. Extent' /\ Consuming'
    <3>1. head_ \in Nat /\ tail_ \in Nat /\ head_' = head_ + 1 /\ tail_ <= head_
      BY DEF IInv, TypeOK, Extent
    <3>2. consumer # "destroyed"
      BY DEF IInv, Consuming
    <3>3. live' = tail_' .. head_'
      BY <3>1, <3>2 DEF IInv, Extent
    <3>4. \A n \in Nodes : n >= head_' => next_'[n] = nullptr
      BY <3>1 DEF IInv, Extent
    <3>5. \A q \in Producers : sent'[q] <= head_'
      BY <3>1 DEF IInv, TypeOK, Extent
    <3>6. Extent'
      BY <3>1, <3>3, <3>4, <3>5 DEF Extent
    <3>7. Consuming'
      BY <3>1, <3>2 DEF IInv, Consuming
    <3> QED
      BY <3>6, <3>7
  <2>3. OnlyEnqueuesInProgressBreakTheList'
    <3>1. SUFFICES ASSUME NEW n \in tail_ .. head_
                   PROVE  \/ next_[n] = n + 1
                          \/ /\ next_[n] = nullptr
                             /\ \E q \in Producers : /\ pc'[q] = "link"
                                                     /\ prevhead'[q] = n
                                                     /\ newNode'[q] = n + 1
      BY DEF IInv, TypeOK, OnlyEnqueuesInProgressBreakTheList
    <3>2. CASE n = head_
      <4>1. next_[n] = nullptr
        BY <3>2 DEF IInv, TypeOK, Extent
      <4>2. pc'[p] = "link" /\ prevhead'[p] = n /\ newNode'[p] = n + 1
        BY <3>2 DEF IInv, TypeOK
      <4> QED
        BY <4>1, <4>2
    <3>3. CASE n # head_
      <4>1. n \in tail_ .. (head_ - 1)
        BY <3>3 DEF IInv, TypeOK
      <4>2. \A q \in Producers : pc[q] = "link" =>
               pc'[q] = pc[q] /\ prevhead'[q] = prevhead[q] /\ newNode'[q] = newNode[q]
        BY DEF IInv, TypeOK
      <4>3. \/ next_[n] = n + 1
            \/ /\ next_[n] = nullptr
               /\ \E q \in Producers :
                     pc[q] = "link" /\ prevhead[q] = n /\ newNode[q] = n + 1
        BY <4>1 DEF IInv, OnlyEnqueuesInProgressBreakTheList
      <4> QED
        BY <4>2, <4>3
    <3> QED
      BY <3>2, <3>3
  <2>4. Gaps'
    <3>1. /\ prevhead' = [prevhead EXCEPT ![p] = head_]
          /\ newNode' = [newNode EXCEPT ![p] = head_ + 1]
          /\ pc' = [pc EXCEPT ![p] = "link"]
          /\ next_' = next_ /\ tail_' = tail_ /\ head_' = head_ + 1
      OBVIOUS
    <3>2. next_[head_] = nullptr /\ tail_ <= head_ /\ head_ \in Nat /\ tail_ \in Nat
      BY DEF IInv, TypeOK, Extent
    <3>3. ASSUME NEW q \in Producers, pc'[q] = "link"
          PROVE  /\ prevhead'[q] \in tail_' .. (head_' - 1)
                 /\ newNode'[q] = prevhead'[q] + 1
                 /\ next_'[prevhead'[q]] = nullptr
      BY <3>1, <3>2, <3>3 DEF IInv, TypeOK, Gaps
    <3>4. ASSUME NEW q \in Producers, NEW r \in Producers,
                 pc'[q] = "link", pc'[r] = "link", q # r
          PROVE  prevhead'[q] # prevhead'[r]
      <4>1. /\ prevhead \in [Producers -> Nodes] /\ pc \in [Producers -> {"idle", "link"}]
            /\ prevhead'[p] = head_
            /\ \A x \in Producers : x # p => prevhead'[x] = prevhead[x] /\ pc'[x] = pc[x]
        BY <3>1 DEF IInv, TypeOK
      <4>2. \A x \in Producers : pc[x] = "link" => prevhead[x] # head_
        BY <3>2 DEF IInv, Gaps
      <4>3. CASE q = p \/ r = p
        BY <3>4, <4>1, <4>2, <4>3
      <4>4. CASE q # p /\ r # p
        BY <3>4, <4>1, <4>4 DEF IInv, Gaps
      <4> QED
        BY <4>3, <4>4
    <3> QED
      BY <3>3, <3>4 DEF Gaps
  <2>5. Held'
    BY DEF IInv, TypeOK, Extent, Held, Front, Consuming
  <2> QED
    BY <2>1, <2>2, <2>3, <2>4, <2>5 DEF IInv
<1>2. ASSUME NEW p \in Producers, EnqueueLink(p) PROVE IInv'
  <2> USE <1>2 DEF EnqueueLink, Nodes, nullptr
  <2>1. TypeOK'
    BY DEF IInv, TypeOK
  <2>2. /\ prevhead[p] \in tail_ .. (head_ - 1)
        /\ newNode[p] = prevhead[p] + 1
        /\ next_[prevhead[p]] = nullptr
    BY DEF IInv, Gaps
  <2>5. Extent'
    BY <2>2 DEF IInv, TypeOK, Extent
  <2>6. Consuming'
    <3>1. pc[p] # "idle"
      OBVIOUS
    <3>2. ~dtor /\ consumer # "destroyed"
      BY <3>1 DEF IInv, Consuming
    <3>3. ASSUME consumer = "advance"
          PROVE  tail_ < head_ /\ next = tail_ + 1 /\ next_'[tail_] = next
      <4>1. tail_ < head_ /\ next = tail_ + 1 /\ next_[tail_] = next
        BY <3>3 DEF IInv, Consuming
      <4>2. prevhead[p] # tail_
        BY <2>2, <4>1 DEF IInv, TypeOK
      <4> QED
        BY <4>1, <4>2 DEF IInv, TypeOK
    <3> QED
      BY <3>2, <3>3 DEF Consuming
  <2>7. Held'
    BY DEF IInv, Held, Front
  <2>3. OnlyEnqueuesInProgressBreakTheList'
    <3> SUFFICES ASSUME NEW n \in tail_ .. (head_ - 1)
                 PROVE  \/ next_'[n] = n + 1
                        \/ /\ next_'[n] = nullptr
                           /\ \E q \in Producers : /\ pc'[q] = "link"
                                                   /\ prevhead'[q] = n
                                                   /\ newNode'[q] = n + 1
      BY DEF OnlyEnqueuesInProgressBreakTheList
    <3>1. n \in Nodes
      BY DEF IInv, TypeOK
    <3>2. CASE n = prevhead[p]
      BY <2>2, <3>1, <3>2 DEF IInv, TypeOK
    <3>3. CASE n # prevhead[p]
      <4>1. next_'[n] = next_[n]
        BY <3>1, <3>3 DEF IInv, TypeOK
      <4>2. CASE next_[n] = n + 1
        BY <4>1, <4>2
      <4>3. CASE next_[n] # n + 1
        <5>1. PICK q \in Producers : /\ next_[n] = nullptr /\ pc[q] = "link"
                                     /\ prevhead[q] = n /\ newNode[q] = n + 1
          BY <4>3 DEF IInv, OnlyEnqueuesInProgressBreakTheList
        <5>2. pc'[q] = "link"
          BY <5>1, <3>3 DEF IInv, TypeOK
        <5> QED
          BY <4>1, <5>1, <5>2
      <4> QED
        BY <4>2, <4>3
    <3> QED
      BY <3>2, <3>3
  <2>4. Gaps'
    BY DEF IInv, TypeOK, Extent, Gaps
  <2> QED
    BY <2>1, <2>5, <2>6, <2>7, <2>3, <2>4 DEF IInv
<1>3. ASSUME DequeueTake PROVE IInv'
  <2> USE <1>3 DEF DequeueTake, Empty, Nodes, nullptr, producerVars
  <2>1. tail_ < head_ /\ next_[tail_] = tail_ + 1
    BY DEF IInv, TypeOK, Extent, OnlyEnqueuesInProgressBreakTheList
  <2>2. TypeOK'
    BY <2>1 DEF IInv, TypeOK
  <2>3. Extent' /\ Consuming' /\ Held'
    BY <2>1 DEF IInv, TypeOK, Extent, Consuming, Held, Front
  <2>4. OnlyEnqueuesInProgressBreakTheList' /\ Gaps'
    BY DEF IInv, TypeOK, OnlyEnqueuesInProgressBreakTheList, Gaps
  <2> QED
    BY <2>2, <2>3, <2>4 DEF IInv
<1>4. ASSUME DequeueAdvance PROVE IInv'
  <2> USE <1>4 DEF DequeueAdvance, Nodes, nullptr, producerVars
  <2>1. tail_ < head_ /\ next = tail_ + 1 /\ next_[tail_] = next
    BY DEF IInv, Consuming
  <2>2. TypeOK'
    BY <2>1 DEF IInv, TypeOK
  <2>3. Extent' /\ Consuming' /\ Held'
    BY <2>1 DEF IInv, TypeOK, Extent, Consuming, Held, Front
  <2>4. OnlyEnqueuesInProgressBreakTheList' /\ Gaps'
    BY <2>1 DEF IInv, TypeOK, OnlyEnqueuesInProgressBreakTheList, Gaps
  <2> QED
    BY <2>2, <2>3, <2>4 DEF IInv
<1>5. CASE DestroyBegin
  BY <1>5 DEF DestroyBegin, IInv, TypeOK, Extent, Gaps, Consuming, Held, Front,
     OnlyEnqueuesInProgressBreakTheList, producerVars
<1>6. CASE DestroyFront
  <2> USE <1>6 DEF DestroyFront, Empty, Nodes, nullptr, producerVars
  <2>1. \A p \in Producers : pc[p] = "idle"
    BY DEF IInv, Consuming
  <2>2. tail_ = head_
    <3>1. tail_ \in Nat /\ head_ \in Nat /\ tail_ <= head_ /\ next_[tail_] = -1
      BY DEF IInv, TypeOK, Extent
    <3>2. ASSUME tail_ < head_ PROVE FALSE
      <4>1. tail_ \in tail_ .. (head_ - 1)
        BY <3>1, <3>2
      <4>2. next_[tail_] = tail_ + 1
        BY <2>1, <4>1 DEF IInv, OnlyEnqueuesInProgressBreakTheList
      <4> QED
        BY <3>1, <4>2
    <3> QED
      BY <3>1, <3>2
  <2>3. live' = {}
    BY <2>2 DEF IInv, TypeOK, Extent
  <2> QED
    BY <2>1, <2>2, <2>3 DEF IInv, TypeOK, Extent, Gaps, Consuming, Held, Front,
       OnlyEnqueuesInProgressBreakTheList
<1>7. CASE UNCHANGED vars
  BY <1>7 DEF vars, IInv, TypeOK, Extent, Gaps, Consuming, Held, Front,
     OnlyEnqueuesInProgressBreakTheList
<1> QED
  BY <1>1, <1>2, <1>3, <1>4, <1>5, <1>6, <1>7 DEF Next

\* The invariant holds always.
LEMMA SpecIInv == Spec => []IInv
BY InitIInv, StepIInv, PTL DEF Spec

\* Every variable of the queue keeps its type: the consumer never follows a
\* null link and no index leaves the nodes ever allocated.
THEOREM TypeCorrect == Spec => []TypeOK
<1>1. IInv => TypeOK
  BY DEF IInv
<1> QED
  BY <1>1, SpecIInv, PTL

\* No producer and no dequeue touches a freed node, whatever the number of
\* producers that are inside enqueue while the consumer frees nodes.
THEOREM MemorySafe == Spec => []NoUseAfterFree
<1>1. IInv => NoUseAfterFree
  BY MaxNodesAssumption
     DEF IInv, TypeOK, Extent, Gaps, Consuming, NoUseAfterFree, Front, Nodes
<1> QED
  BY <1>1, SpecIInv, PTL

\* The list is never cut except at an enqueue in progress.
THEOREM ListWhole == Spec => []OnlyEnqueuesInProgressBreakTheList
<1>1. IInv => OnlyEnqueuesInProgressBreakTheList
  BY DEF IInv
<1> QED
  BY <1>1, SpecIInv, PTL

\* The destructor leaves neither a node nor an element allocated.
THEOREM NothingLeaks == Spec => []DestructorFreesEverything
<1>1. IInv => DestructorFreesEverything
  BY DEF IInv, TypeOK, Consuming, Held, Front, DestructorFreesEverything, Nodes
<1> QED
  BY <1>1, SpecIInv, PTL

------------------------------------------------------------------------------
(* The refinement of FifoQueue.  The abstract queue is what lies behind the *)
(* front, and its pending elements are named by their values: that needs    *)
(* that every node there holds an element and that no two hold the same.    *)

\* The nodes behind the front hold elements that were sent, each its own.
Distinct ==
  /\ \A n \in Nodes : n > Front /\ n <= head_ => dataPtr_[n] # NoData
  /\ \A n \in Nodes : \A p \in Producers : \A k \in Nat :
        dataPtr_[n] = <<p, k>> => k <= sent[p]
  /\ \A m, n \in Nodes :
        dataPtr_[m] # NoData /\ dataPtr_[m] = dataPtr_[n] => m = n

\* What the invariant says about an enqueue in progress: its node lies behind
\* the front, so that its element is still in the queue.
LEMMA LinkingIsBehindTheFront ==
  ASSUME IInv, NEW p \in Producers, pc[p] = "link"
  PROVE  newNode[p] \in Nodes /\ newNode[p] > Front /\ newNode[p] <= head_
<1>1. /\ prevhead[p] \in tail_ .. (head_ - 1)
      /\ newNode[p] = prevhead[p] + 1
      /\ next_[prevhead[p]] = nullptr
  BY DEF IInv, Gaps
<1>2. head_ \in Nat /\ tail_ \in Nat /\ newNode[p] \in Nodes
  BY MaxNodesAssumption DEF IInv, TypeOK, Nodes
<1>3. CASE consumer = "advance"
  <2>1. next = tail_ + 1 /\ next_[tail_] # nullptr
    BY <1>2, <1>3 DEF IInv, Consuming, nullptr
  <2> QED BY <1>1, <1>2, <1>3, <2>1 DEF Front
<1>4. CASE consumer # "advance"
  BY <1>1, <1>2, <1>4 DEF Front
<1> QED BY <1>3, <1>4

\* The front is a node no later than head_.
LEMMA FrontIsANode ==
  ASSUME IInv PROVE Front \in Nat /\ head_ \in Nat /\ Front <= head_ /\ head_ <= MaxNodes
BY MaxNodesAssumption DEF IInv, TypeOK, Extent, Consuming, Front, Nodes

\* What lies behind the front, as a sequence of elements.
Sequenced ==
  /\ queueBar \in Seq(Elements)
  /\ Len(queueBar) = head_ - Front
  /\ \A i \in 1 .. (head_ - Front) : queueBar[i] = dataPtr_[Front + i]

\* The queue read off the heap has no holes.
LEMMA QueueIsASequence == IInv /\ Distinct => Sequenced
<1> SUFFICES ASSUME IInv, Distinct PROVE Sequenced
  OBVIOUS
<1>1. Front \in Nat /\ head_ \in Nat /\ Front <= head_ /\ head_ <= MaxNodes
  BY FrontIsANode
<1>2. \A i \in 1 .. (head_ - Front) : dataPtr_[Front + i] \in Elements
  <2> SUFFICES ASSUME NEW i \in 1 .. (head_ - Front) PROVE dataPtr_[Front + i] \in Elements
    OBVIOUS
  <2>1. Front + i \in Nodes /\ Front + i > Front /\ Front + i <= head_
    BY <1>1, MaxNodesAssumption DEF Nodes
  <2>2. dataPtr_[Front + i] # NoData
    BY <2>1 DEF Distinct
  <2> QED BY <2>1, <2>2 DEF IInv, TypeOK
<1>3. queueBar \in [1 .. (head_ - Front) -> Elements]
  BY <1>2, Zenon DEF queueBar
<1>4. head_ - Front \in Nat
  BY <1>1
<1> QED BY <1>3, <1>4 DEF queueBar, Sequenced

\* No node holds an element.
LEMMA InitDistinct == Init => Distinct
<1> SUFFICES ASSUME Init PROVE Distinct
  OBVIOUS
<1>1. \A n \in Nodes : dataPtr_[n] = NoData
  BY DEF Init
<1>2. \A n \in Nodes : ~(n > Front /\ n <= head_)
  BY MaxNodesAssumption DEF Init, Front, Nodes
<1>3. \A p, k : <<p, k>> # NoData
  BY DEF NoData
<1> QED BY <1>1, <1>2, <1>3 DEF Distinct

\* A new element differs from all that were sent before.
LEMMA StepDistinct == IInv /\ Distinct /\ [Next]_vars => Distinct'
<1> SUFFICES ASSUME IInv, Distinct, [Next]_vars PROVE Distinct'
  OBVIOUS
<1> USE MaxNodesAssumption
<1>1. ASSUME NEW p \in Producers, EnqueueExchange(p) PROVE Distinct'
  <2>1. PICK h, v : h = head_ + 1 /\ v = <<p, sent[p] + 1>>
    OBVIOUS
  <2>2. /\ head_' = h /\ h \in Nodes /\ head_ \in Nat /\ sent[p] \in Nat
        /\ dataPtr_' = [dataPtr_ EXCEPT ![h] = v]
        /\ dataPtr_ \in [Nodes -> Elements \cup {NoData}]
        /\ sent' = [sent EXCEPT ![p] = @ + 1] /\ sent \in [Producers -> Nat]
        /\ UNCHANGED <<consumer, next, tail_>>
    BY <1>1, <2>1 DEF EnqueueExchange, IInv, TypeOK, Nodes
  <2>3. Front' = Front
    BY <2>2 DEF Front
  <2>4. /\ dataPtr_'[h] = v
        /\ \A n \in Nodes : n # h => dataPtr_'[n] = dataPtr_[n]
    BY <2>2
  <2>5. \A n \in Nodes : dataPtr_[n] # v
    <3>1. ~(sent[p] + 1 <= sent[p]) /\ sent[p] + 1 \in Nat
      BY <2>2
    <3> QED BY <2>1, <3>1 DEF Distinct
  <2>6. v # NoData
    BY <2>1 DEF NoData
  <2>7. \A n \in Nodes : n > Front' /\ n <= head_' => dataPtr_'[n] # NoData
    <3> SUFFICES ASSUME NEW n \in Nodes, n > Front', n <= head_', n # h
                 PROVE  dataPtr_[n] # NoData
      BY <2>4, <2>6
    <3>1. n > Front /\ n <= head_
      BY <2>1, <2>2, <2>3 DEF Nodes
    <3> QED BY <3>1 DEF Distinct
  <2>8. ASSUME NEW n \in Nodes, NEW q \in Producers, NEW k \in Nat, dataPtr_'[n] = <<q, k>>
        PROVE  k <= sent'[q]
    <3>1. CASE n = h
      <4>1. q = p /\ k = sent[p] + 1
        BY <2>1, <2>4, <2>8, <3>1
      <4> QED BY <2>2, <4>1
    <3>2. CASE n # h
      <4>1. k <= sent[q]
        BY <2>4, <2>8, <3>2 DEF Distinct
      <4> QED BY <2>2, <4>1
    <3> QED BY <3>1, <3>2
  <2>9. \A m, n \in Nodes : dataPtr_'[m] # NoData /\ dataPtr_'[m] = dataPtr_'[n] => m = n
    BY <2>4, <2>5, <2>6, Zenon DEF Distinct
  <2> QED BY <2>7, <2>8, <2>9 DEF Distinct, Nodes
<1>2. ASSUME NEW p \in Producers, EnqueueLink(p) PROVE Distinct'
  BY <1>2 DEF EnqueueLink, Distinct, Front, Nodes
<1>3. CASE DequeueTake
  <2>1. tail_ < head_ /\ next_[tail_] = tail_ + 1
    BY <1>3 DEF DequeueTake, Empty, IInv, TypeOK, Extent,
       OnlyEnqueuesInProgressBreakTheList, Nodes, nullptr
  <2>2. /\ Front = tail_ /\ Front' = tail_ + 1 /\ tail_ + 1 \in Nodes
        /\ dataPtr_' = [dataPtr_ EXCEPT ![tail_ + 1] = NoData]
        /\ UNCHANGED <<head_, sent>>
    BY <1>3, <2>1 DEF DequeueTake, Front, IInv, TypeOK, Nodes, producerVars
  <2>3. PICK h : h = tail_ + 1
    OBVIOUS
  <2>4. /\ dataPtr_'[h] = NoData
        /\ \A n \in Nodes : n # h => dataPtr_'[n] = dataPtr_[n]
    BY <2>2, <2>3 DEF IInv, TypeOK
  <2>5. \A n \in Nodes : n > h => n > Front /\ n # h
    BY <2>2, <2>3 DEF IInv, TypeOK, Nodes
  <2>6. \A q, k : <<q, k>> # NoData
    BY DEF NoData
  <2> QED BY <2>2, <2>3, <2>4, <2>5, <2>6, Zenon DEF Distinct, Nodes
<1>4. CASE DequeueAdvance
  <2>1. UNCHANGED <<head_, sent, dataPtr_, Front>>
    BY <1>4 DEF DequeueAdvance, producerVars, Front
  <2> QED BY <2>1 DEF Distinct, Nodes
<1>5. CASE DestroyBegin \/ DestroyFront \/ UNCHANGED vars
  <2>1. UNCHANGED <<head_, sent, dataPtr_, Front>>
    BY <1>5 DEF DestroyBegin, DestroyFront, vars, producerVars, Front
  <2> QED BY <2>1 DEF Distinct, Nodes
<1> QED
  BY <1>1, <1>2, <1>3, <1>4, <1>5 DEF Next

\* Exchanging head_ reserves the element's place at the end of the queue.
LEMMA ExchangeReserves ==
  ASSUME IInv, Distinct, Sequenced, Sequenced', TypeOK',
         NEW p \in Producers, EnqueueExchange(p)
  PROVE  \E v \in Elements : Fifo!Reserve(v)
<1>1. PICK h, v : h = head_ + 1 /\ v = <<p, sent[p] + 1>>
  OBVIOUS
<1>2. /\ head_' = h /\ h \in Nodes /\ head_ \in Nat
      /\ dataPtr_' = [dataPtr_ EXCEPT ![h] = v]
      /\ dataPtr_ \in [Nodes -> Elements \cup {NoData}]
      /\ newNode' = [newNode EXCEPT ![p] = h] /\ newNode \in [Producers -> Nodes]
      /\ pc' = [pc EXCEPT ![p] = "link"] /\ pc \in [Producers -> {"idle", "link"}]
      /\ pc[p] = "idle"
      /\ UNCHANGED <<consumer, next, tail_>>
  BY <1>1, MaxNodesAssumption DEF EnqueueExchange, IInv, TypeOK, Nodes
<1>3. Front' = Front
  BY <1>2 DEF Front
<1>4. /\ dataPtr_'[h] = v
      /\ \A n \in Nodes : n # h => dataPtr_'[n] = dataPtr_[n]
  BY <1>2
<1>5. v \in Elements
  <2>1. v # NoData
    BY <1>1 DEF NoData
  <2> QED BY <1>2, <1>4, <2>1 DEF TypeOK
<1>6. queueBar' = Append(queueBar, v)
  <2>1. Front \in Nat /\ head_ \in Nat /\ Front <= head_ /\ head_ <= MaxNodes
    BY FrontIsANode
  <2>2. /\ queueBar \in Seq(Elements) /\ Len(queueBar) = head_ - Front
        /\ \A i \in 1 .. (head_ - Front) : queueBar[i] = dataPtr_[Front + i]
    BY DEF Sequenced
  <2>3. /\ queueBar' \in Seq(Elements) /\ Len(queueBar') = head_' - Front'
        /\ \A i \in 1 .. (head_' - Front') : queueBar'[i] = dataPtr_'[Front' + i]
    BY DEF Sequenced
  <2>4. PICK s, t : s = queueBar /\ t = queueBar'
    OBVIOUS
  <2>5. \A i \in 1 .. Len(t) : t[i] = Append(s, v)[i]
    <3> SUFFICES ASSUME NEW i \in 1 .. Len(t) PROVE t[i] = Append(s, v)[i]
      OBVIOUS
    <3>1. t[i] = dataPtr_'[Front + i]
      BY <1>3, <2>3, <2>4
    <3>2. CASE i = head_ - Front + 1
      <4>1. Front + i = h
        BY <1>1, <2>1, <3>2
      <4> QED BY <1>4, <1>5, <2>1, <2>2, <2>4, <3>1, <3>2, <4>1
    <3>3. CASE i # head_ - Front + 1
      <4>1. i \in 1 .. (head_ - Front)
        BY <1>1, <1>2, <1>3, <2>1, <2>3, <2>4, <3>3
      <4>2. Front + i \in Nodes /\ Front + i # h
        BY <1>1, <2>1, <4>1, MaxNodesAssumption DEF Nodes
      <4> QED BY <1>4, <1>5, <2>1, <2>2, <2>4, <3>1, <4>1, <4>2
    <3> QED BY <3>2, <3>3
  <2>6. Len(t) = Len(Append(s, v))
    BY <1>1, <1>2, <1>3, <1>5, <2>1, <2>2, <2>3, <2>4
  <2>7. s \in Seq(Elements) /\ t \in Seq(Elements) /\ Append(s, v) \in Seq(Elements)
    BY <1>5, <2>2, <2>3, <2>4
  <2>8. t = Append(s, v)
    BY <2>5, <2>6, <2>7
  <2> QED BY <2>4, <2>8
<1>7. pendingBar' = pendingBar \cup {v}
  <2>1. \A q \in Producers : pc[q] = "link" => newNode[q] \in Nodes /\ newNode[q] # h
    BY <1>1, <1>2, LinkingIsBehindTheFront DEF Nodes
  <2>2. \A q \in Producers : q # p => pc'[q] = pc[q] /\ newNode'[q] = newNode[q]
    BY <1>2
  <2>3. pc'[p] = "link" /\ newNode'[p] = h /\ pc[p] # "link"
    BY <1>2
  <2>4. \A q \in Producers :
           pc'[q] = "link" => \/ q = p /\ dataPtr_'[newNode'[q]] = v
                              \/ pc[q] = "link" /\ dataPtr_'[newNode'[q]] = dataPtr_[newNode[q]]
    BY <1>4, <2>1, <2>2, <2>3
  <2>5. \A q \in Producers :
           pc[q] = "link" => pc'[q] = "link" /\ dataPtr_'[newNode'[q]] = dataPtr_[newNode[q]]
    BY <1>4, <2>1, <2>2, <2>3
  <2>6. pendingBar' \subseteq pendingBar \cup {v}
    BY <2>4, Zenon DEF pendingBar
  <2>7. v \in pendingBar'
    BY <1>4, <2>3, Zenon DEF pendingBar
  <2>8. pendingBar \subseteq pendingBar'
    <3>1. SUFFICES ASSUME NEW q \in Producers, pc[q] = "link"
                   PROVE  dataPtr_[newNode[q]] \in pendingBar'
      BY Zenon DEF pendingBar
    <3>2. pc'[q] = "link" /\ dataPtr_'[newNode'[q]] = dataPtr_[newNode[q]]
      BY <2>5, <3>1, Zenon
    <3>3. dataPtr_'[newNode'[q]] \in pendingBar'
      BY <3>2, Zenon DEF pendingBar
    <3> QED BY <3>2, <3>3, Zenon
  <2> QED BY <2>6, <2>7, <2>8, Zenon
<1> QED BY <1>5, <1>6, <1>7 DEF Fifo!Reserve

\* Linking publishes it.
LEMMA LinkPublishes ==
  ASSUME IInv, Distinct, NEW p \in Producers, EnqueueLink(p)
  PROVE  \E v \in Elements : Fifo!Publish(v)
<1>1. /\ pc[p] = "link" /\ pc' = [pc EXCEPT ![p] = "idle"]
      /\ pc \in [Producers -> {"idle", "link"}]
      /\ UNCHANGED <<head_, tail_, dataPtr_, newNode, consumer, next>>
  BY DEF EnqueueLink, IInv, TypeOK
<1>2. \A q \in Producers : pc[q] = "link" =>
         newNode[q] \in Nodes /\ dataPtr_[newNode[q]] # NoData
  BY LinkingIsBehindTheFront DEF Distinct
<1>3. \A q \in Producers : pc[q] = "link" /\ q # p => newNode[q] # newNode[p]
  BY <1>1, MaxNodesAssumption DEF IInv, TypeOK, Gaps, Nodes
<1>4. \A q \in Producers : pc[q] = "link" /\ q # p =>
         dataPtr_[newNode[q]] # dataPtr_[newNode[p]]
  BY <1>1, <1>2, <1>3, Zenon DEF Distinct
<1>5. PICK v : v = dataPtr_[newNode[p]]
  OBVIOUS
<1>6. v \in Elements
  BY <1>1, <1>2, <1>5 DEF IInv, TypeOK
<1>7. pc'[p] # "link" /\ \A q \in Producers : q # p => pc'[q] = pc[q]
  BY <1>1
<1>8. v \in pendingBar /\ pendingBar' = pendingBar \ {v}
  <2>1. v \in pendingBar
    BY <1>1, <1>5, Zenon DEF pendingBar
  <2>2. \A q \in Producers : pc'[q] = "link" <=> pc[q] = "link" /\ q # p
    BY <1>1, <1>7
  <2>3. UNCHANGED <<dataPtr_, newNode>>
    BY <1>1
  <2>4. ASSUME NEW q \in Producers, pc'[q] = "link"
        PROVE  dataPtr_'[newNode'[q]] \in pendingBar \ {v}
    <3>1. pc[q] = "link" /\ dataPtr_[newNode[q]] # v
      BY <1>4, <1>5, <2>2, <2>4, Zenon
    <3>2. dataPtr_[newNode[q]] \in pendingBar
      BY <3>1, Zenon DEF pendingBar
    <3> QED BY <2>3, <3>1, <3>2
  <2>5. ASSUME NEW q \in Producers, pc[q] = "link", dataPtr_[newNode[q]] # v
        PROVE  dataPtr_[newNode[q]] \in pendingBar'
    <3>1. pc'[q] = "link"
      BY <1>5, <2>2, <2>5, Zenon
    <3>2. dataPtr_'[newNode'[q]] \in pendingBar'
      BY <3>1, Zenon DEF pendingBar
    <3> QED BY <2>3, <3>2
  <2>6. pendingBar' \subseteq pendingBar \ {v}
    BY <2>4, Zenon DEF pendingBar
  <2>7. pendingBar \ {v} \subseteq pendingBar'
    BY <2>5, Zenon DEF pendingBar
  <2> QED BY <2>1, <2>6, <2>7, Zenon
<1>9. queueBar' = queueBar
  BY <1>1 DEF queueBar, Front
<1> QED BY <1>6, <1>8, <1>9 DEF Fifo!Publish

\* A dequeue that finds a link takes the oldest element, and that one is published.
LEMMA DequeueTakes ==
  ASSUME IInv, Distinct, Sequenced, Sequenced', DequeueTake
  PROVE  Fifo!Take
<1>1. tail_ < head_ /\ next_[tail_] = tail_ + 1
  BY MaxNodesAssumption DEF DequeueTake, Empty, IInv, TypeOK, Extent,
     OnlyEnqueuesInProgressBreakTheList, Nodes, nullptr
<1>2. PICK h : h = tail_ + 1
  OBVIOUS
<1>3. /\ Front = tail_ /\ Front' = h /\ h \in Nodes /\ tail_ \in Nat /\ head_ \in Nat
      /\ dataPtr_' = [dataPtr_ EXCEPT ![h] = NoData]
      /\ UNCHANGED <<head_, pc, newNode>>
  BY <1>1, <1>2, MaxNodesAssumption DEF DequeueTake, Front, IInv, TypeOK, Nodes, producerVars
<1>4. \A n \in Nodes : n # h => dataPtr_'[n] = dataPtr_[n]
  BY <1>3 DEF IInv, TypeOK
<1>5. \A q \in Producers : pc[q] = "link" => newNode[q] \in Nodes /\ newNode[q] # h
  <2> SUFFICES ASSUME NEW q \in Producers, pc[q] = "link"
               PROVE  newNode[q] \in Nodes /\ newNode[q] # h
    OBVIOUS
  <2>1. prevhead[q] # tail_ /\ newNode[q] = prevhead[q] + 1
    BY <1>1, <1>3 DEF IInv, Gaps, nullptr
  <2> QED BY <1>2, <1>3, <2>1 DEF IInv, TypeOK, Nodes
<1>6. /\ queueBar \in Seq(Elements) /\ Len(queueBar) = head_ - tail_
      /\ \A i \in 1 .. (head_ - tail_) : queueBar[i] = dataPtr_[tail_ + i]
  BY <1>3 DEF Sequenced
<1>7. /\ queueBar' \in Seq(Elements) /\ Len(queueBar') = head_ - h
      /\ \A i \in 1 .. (head_ - h) : queueBar'[i] = dataPtr_'[h + i]
  BY <1>3 DEF Sequenced
<1>8. PICK s, t : s = queueBar /\ t = queueBar'
  OBVIOUS
<1>9. s # <<>> /\ Head(s) = dataPtr_[h]
  BY <1>1, <1>2, <1>3, <1>6, <1>8
<1>10. dataPtr_[h] \notin pendingBar
  <2>1. dataPtr_[h] # NoData
    BY <1>1, <1>2, <1>3 DEF Distinct
  <2>2. \A q \in Producers : pc[q] = "link" => dataPtr_[newNode[q]] # dataPtr_[h]
    BY <1>3, <1>5, <2>1, Zenon DEF Distinct
  <2> QED BY <2>2, Zenon DEF pendingBar
<1>11. t = Tail(s)
  <2>1. Tail(s) \in Seq(Elements) /\ Len(Tail(s)) = Len(t) /\ t \in Seq(Elements)
    BY <1>1, <1>2, <1>3, <1>6, <1>7, <1>8, <1>9
  <2>2. ASSUME NEW i \in 1 .. Len(t) PROVE t[i] = Tail(s)[i]
    <3>1. t[i] = dataPtr_'[h + i] /\ i \in 1 .. (head_ - h)
      BY <1>7, <1>8
    <3>2. i + 1 \in 1 .. (head_ - tail_) /\ tail_ + (i + 1) = h + i
      BY <1>2, <1>3, <3>1
    <3>3. Tail(s)[i] = s[i + 1]
      BY <1>6, <1>8, <1>9, <2>1
    <3>4. s[i + 1] = dataPtr_[h + i]
      BY <1>6, <1>8, <3>2
    <3>5. h + i \in Nodes /\ h + i # h
      BY <1>3, <3>1, MaxNodesAssumption DEF IInv, TypeOK, Nodes
    <3> QED BY <1>4, <3>1, <3>3, <3>4, <3>5
  <2> QED BY <2>1, <2>2
<1>12. pendingBar' = pendingBar
  BY <1>3, <1>4, <1>5, Zenon DEF pendingBar
<1> QED BY <1>8, <1>9, <1>10, <1>11, <1>12 DEF Fifo!Take, Fifo!Visible

\* MPSCQueue implements FifoQueue: elements come out in the order of the
\* exchanges of head_, each once, none lost, invented or taken before its enqueue
\* has linked it, for any number of producers that overtake each other.
THEOREM QueueImplementsFifo == Spec => ImplementsFifo
<1>1. Init => Fifo!Init
  <2> SUFFICES ASSUME Init PROVE Fifo!Init
    OBVIOUS
  <2>1. queueBar = <<>>
    BY DEF Init, queueBar, Front
  <2>2. pendingBar = {}
    BY DEF Init, pendingBar
  <2> QED BY <2>1, <2>2 DEF Fifo!Init
<1>2. IInv /\ Distinct /\ Sequenced /\ Sequenced' /\ TypeOK' /\ [Next]_vars
        => [Fifo!Next]_(Fifo!vars)
  <2> SUFFICES ASSUME IInv, Distinct, Sequenced, Sequenced', TypeOK', [Next]_vars
               PROVE  Fifo!Next \/ UNCHANGED Fifo!vars
    OBVIOUS
  <2>1. ASSUME NEW p \in Producers, EnqueueExchange(p) PROVE Fifo!Next
    BY <2>1, ExchangeReserves DEF Fifo!Next
  <2>2. ASSUME NEW p \in Producers, EnqueueLink(p) PROVE Fifo!Next
    BY <2>2, LinkPublishes DEF Fifo!Next
  <2>3. CASE DequeueTake
    BY <2>3, DequeueTakes DEF Fifo!Next
  <2>4. CASE DequeueAdvance \/ DestroyBegin \/ DestroyFront \/ UNCHANGED vars
    <3>1. UNCHANGED <<head_, dataPtr_, pc, newNode, Front>>
      BY <2>4 DEF DequeueAdvance, DestroyBegin, DestroyFront, vars, producerVars, Front
    <3> QED BY <3>1 DEF Fifo!vars, queueBar, pendingBar
  <2> QED BY <2>1, <2>2, <2>3, <2>4 DEF Next
<1> QED
  BY <1>1, <1>2, SpecIInv, TypeCorrect, InitDistinct, StepDistinct,
     QueueIsASequence, PTL
  DEF Spec, ImplementsFifo, Fifo!Spec
==============================================================================
