------------------------------ MODULE MPSCQueue ------------------------------
(***************************************************************************)
(* utils/MPSCQueue.h: the lock-free queue with many producers and one      *)
(* consumer that carries the functions of an EventLoop.  It is a linked    *)
(* list of nodes from tail_ (a dummy whose data was already taken) to      *)
(* head_.  A producer exchanges head_ for its new node and then links the  *)
(* previous head to it; between the two the list is broken at that place.  *)
(*                                                                         *)
(* Nodes are named by the order of their exchanges, 0 being the node the   *)
(* constructor makes: a freed node is never reused under its old name, so  *)
(* every access to freed memory is visible as an access to a node outside  *)
(* `live'.  The next_ link is written with release and read with acquire   *)
(* and head_ is exchanged with acq_rel, so the steps of the two threads    *)
(* that can observe each other are exactly the atomic steps below.         *)
(***************************************************************************)
EXTENDS Integers, Sequences, FiniteSets

CONSTANTS
  Producers,   \* the threads that enqueue
  MaxNodes     \* bound: the number of enqueues in a behaviour

ASSUME MaxNodesAssumption == MaxNodes \in Nat

Nodes   == 0 .. MaxNodes
nullptr == -1
NoData  == <<>>

VARIABLES
  head_, tail_,  \* the two ends, as nodes
  next_,         \* per node: the link, or nullptr
  dataPtr_,      \* per node: the element it holds, or NoData
  live,          \* the nodes that are allocated
  pc,            \* per producer: "idle", or "link" inside enqueue
  newNode,       \* per producer: the local of enqueue
  prevhead,      \* per producer: the local of enqueue
  sent,          \* per producer: the number of its enqueues, to name elements
  consumer,      \* "idle", "advance" inside dequeue, or "destroyed"
  next,          \* the consumer's local of dequeue
  output,        \* the element the last dequeue returned
  dtor           \* the destructor is running

vars == <<head_, tail_, next_, dataPtr_, live, pc, newNode, prevhead, sent,
          consumer, next, output, dtor>>

producerVars == <<pc, newNode, prevhead, sent>>

Elements == Producers \X (1 .. MaxNodes)

TypeOK ==
  /\ head_ \in Nodes
  /\ tail_ \in Nodes
  /\ next_ \in [Nodes -> Nodes \cup {nullptr}]
  /\ dataPtr_ \in [Nodes -> Elements \cup {NoData}]
  /\ live \in SUBSET Nodes
  /\ pc \in [Producers -> {"idle", "link"}]
  /\ newNode \in [Producers -> Nodes]
  /\ prevhead \in [Producers -> Nodes]
  /\ sent \in [Producers -> Nat]
  /\ consumer \in {"idle", "advance", "destroyed"}
  /\ next \in Nodes
  /\ output \in Elements \cup {NoData}
  /\ dtor \in BOOLEAN

Init ==
  /\ head_ = 0
  /\ tail_ = 0
  /\ next_ = [n \in Nodes |-> nullptr]
  /\ dataPtr_ = [n \in Nodes |-> NoData]
  /\ live = {0}
  /\ pc = [p \in Producers |-> "idle"]
  /\ newNode = [p \in Producers |-> 0]
  /\ prevhead = [p \in Producers |-> 0]
  /\ sent = [p \in Producers |-> 0]
  /\ consumer = "idle"
  /\ next = 0
  /\ output = NoData
  /\ dtor = FALSE

------------------------------------------------------------------------------
(* Producers *)

\* The element is lost: dataPtr_ of the new node stays unset.
EnqueueExchangeNoData(p) ==
  /\ pc[p] = "idle" /\ ~dtor /\ head_ < MaxNodes
  /\ head_' = head_ + 1
  /\ live' = live \cup {head_ + 1}
  /\ newNode' = [newNode EXCEPT ![p] = head_ + 1]
  /\ prevhead' = [prevhead EXCEPT ![p] = head_]
  /\ sent' = [sent EXCEPT ![p] = @ + 1]
  /\ pc' = [pc EXCEPT ![p] = "link"]
  /\ UNCHANGED <<tail_, next_, dataPtr_, consumer, next, output, dtor>>

\* new BufferNode(output) and head_.exchange(newNode).  The allocation is
\* private to the thread until the exchange publishes it.
EnqueueExchange(p) ==
  /\ pc[p] = "idle"
  /\ ~dtor                  \* no call is in progress or made during ~MPSCQueue
  /\ head_ < MaxNodes
  /\ head_' = head_ + 1
  /\ live' = live \cup {head_ + 1}
  /\ dataPtr_' = [dataPtr_ EXCEPT ![head_ + 1] = <<p, sent[p] + 1>>]
  /\ newNode' = [newNode EXCEPT ![p] = head_ + 1]
  /\ prevhead' = [prevhead EXCEPT ![p] = head_]
  /\ sent' = [sent EXCEPT ![p] = @ + 1]
  /\ pc' = [pc EXCEPT ![p] = "link"]
  /\ UNCHANGED <<tail_, next_, consumer, next, output, dtor>>

\* The link is made from whatever head_ is now, not from the node exchanged.
EnqueueLinkFromHead(p) ==
  /\ pc[p] = "link"
  /\ next_' = [next_ EXCEPT ![head_] = newNode[p]]
  /\ pc' = [pc EXCEPT ![p] = "idle"]
  /\ UNCHANGED <<head_, tail_, dataPtr_, live, newNode, prevhead, sent,
                 consumer, next, output, dtor>>

\* prevhead->next_.store(newNode)
EnqueueLink(p) ==
  /\ pc[p] = "link"
  /\ next_' = [next_ EXCEPT ![prevhead[p]] = newNode[p]]
  /\ pc' = [pc EXCEPT ![p] = "idle"]
  /\ UNCHANGED <<head_, tail_, dataPtr_, live, newNode, prevhead, sent,
                 consumer, next, output, dtor>>

------------------------------------------------------------------------------
(* The consumer *)

\* empty(), and the test with which dequeue returns false.
Empty == next_[tail_] = nullptr

\* Forgets to delete next->dataPtr_.
DequeueTakeLeaky ==
  /\ consumer = "idle" /\ ~Empty
  /\ next' = next_[tail_]
  /\ output' = dataPtr_[next_[tail_]]
  /\ consumer' = "advance"
  /\ UNCHANGED <<head_, tail_, next_, dataPtr_, live, producerVars, dtor>>

\* dequeue up to the deletion of dataPtr_: both loads, the null test, the move
\* of the element out of the next node.
DequeueTake ==
  /\ consumer = "idle"
  /\ ~Empty
  /\ next' = next_[tail_]
  /\ output' = dataPtr_[next_[tail_]]
  /\ dataPtr_' = [dataPtr_ EXCEPT ![next_[tail_]] = NoData]
  /\ consumer' = "advance"
  /\ UNCHANGED <<head_, tail_, next_, live, producerVars, dtor>>

\* Frees the node it advances to instead of the one it leaves.
DequeueAdvanceFreesNext ==
  /\ consumer = "advance"
  /\ tail_' = next
  /\ live' = live \ {next}
  /\ consumer' = "idle"
  /\ UNCHANGED <<head_, next_, dataPtr_, producerVars, next, output, dtor>>

\* tail_.store(next); delete tail
DequeueAdvance ==
  /\ consumer = "advance"
  /\ tail_' = next
  /\ live' = live \ {tail_}
  /\ consumer' = "idle"
  /\ UNCHANGED <<head_, next_, dataPtr_, producerVars, next, output, dtor>>

------------------------------------------------------------------------------
(* ~MPSCQueue: dequeues until dequeue returns false, then deletes head_.   *)
(* Destroying an object while another thread is inside one of its calls is *)
(* undefined in C++, so the destructor starts when no call is in progress. *)

DestroyBegin ==
  /\ consumer = "idle"
  /\ ~dtor
  /\ \A p \in Producers : pc[p] = "idle"
  /\ dtor' = TRUE
  /\ UNCHANGED <<head_, tail_, next_, dataPtr_, live, producerVars,
                 consumer, next, output>>

DestroyFront ==
  /\ dtor
  /\ consumer = "idle"
  /\ Empty
  /\ live' = live \ {head_}
  /\ consumer' = "destroyed"
  /\ UNCHANGED <<head_, tail_, next_, dataPtr_, producerVars, next, output,
                 dtor>>

------------------------------------------------------------------------------
Next ==
  \/ \E p \in Producers : EnqueueExchange(p) \/ EnqueueLink(p)
  \/ DequeueTake
  \/ DequeueAdvance
  \/ DestroyBegin
  \/ DestroyFront

\* A producer inside enqueue and the consumer keep running; nobody is obliged
\* to call enqueue or to destroy the queue.
Fairness ==
  /\ \A p \in Producers : WF_vars(EnqueueLink(p))
  /\ WF_vars(DequeueTake \/ DequeueAdvance)

Spec == Init /\ [][Next]_vars /\ Fairness

------------------------------------------------------------------------------
(* Properties *)

\* The node from which the consumer's next dequeue reads the link.
Front == IF consumer = "advance" THEN next ELSE tail_

\* No thread is about to touch a freed node: the node a producer will link from
\* (MPSCQueue.h:42) and the tail node the consumer loads from (MPSCQueue.h:54)
\* are allocated, although the consumer deletes nodes while producers hold
\* pointers to them.
NoUseAfterFree ==
  /\ \A p \in Producers : pc[p] = "link" => {prevhead[p], newNode[p]} \subseteq live
  /\ consumer # "destroyed" => {tail_, Front, head_} \subseteq live

\* The list from tail_ to head_ is whole except where a producer is between its
\* exchange and its link: no interleaving of enqueues cuts off a node for good.
OnlyEnqueuesInProgressBreakTheList ==
  \A n \in tail_ .. (head_ - 1) :
     \/ next_[n] = n + 1
     \/ /\ next_[n] = nullptr
        /\ \E p \in Producers :
              pc[p] = "link" /\ prevhead[p] = n /\ newNode[p] = n + 1

\* ~MPSCQueue frees every node and every element that was enqueued and never
\* dequeued (MPSCQueue.h:28-36).
DestructorFreesEverything ==
  consumer = "destroyed" => live = {} /\ \A n \in Nodes : dataPtr_[n] = NoData

\* MPSCQueue implements the two-step first-in first-out queue: elements come
\* out in the order of the exchanges, each once, none invented or lost.
queueBar   == [i \in 1 .. (head_ - Front) |-> dataPtr_[Front + i]]
pendingBar == {dataPtr_[newNode[p]] : p \in {q \in Producers : pc[q] = "link"}}
Fifo == INSTANCE FifoQueue
          WITH Values <- Elements, queue <- queueBar, pending <- pendingBar
ImplementsFifo == Fifo!Spec

\* Whatever has been enqueued is dequeued, by the consumer or the destructor,
\* even if the producers overtake each other between exchange and link.
EverythingIsDequeued == (Front # head_) ~> (Front = head_)
==============================================================================
