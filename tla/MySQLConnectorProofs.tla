------------------------ MODULE MySQLConnectorProofs ------------------------
(***************************************************************************)
(* Proofs about MySQLConnector, for any set of queries, any number of      *)
(* result sets and of suspensions, any caller and any server: the types,   *)
(* the safety properties of the runs, and that the connection implements   *)
(* DbConnection.                                                           *)
(*                                                                         *)
(* All of them rest on one inductive invariant, Good.  A status field says *)
(* what libmariadb is doing only together with the place in the handler    *)
(* the loop thread is at, with the functions that are still queued, and    *)
(* with the account of the result sets, so none of the properties is       *)
(* inductive alone.                                                        *)
(***************************************************************************)
EXTENDS MySQLConnector, TLAPS

(***************************************************************************)
(* The inductive invariant.                                                *)
(***************************************************************************)
InQueue(s) == {s[i] : i \in 1 .. Len(s)}
Once(s)    == \A i, j \in 1 .. Len(s) : s[i] = s[j] => i = j

Waiting == InQueue(funcs)

\* What libmariadb's operation says about waitStatus_.
LibraryInv ==
  /\ op \in Ops => waitStatus_ \in Waits(op)
  /\ op = "none" => waitStatus_ = {}
  /\ waitStatus_ # {} => "timeout" \in waitStatus_ /\ waitNo > 0

\* Before the function that init() queued has run, it is the first of the queue
\* and nothing else has happened; afterwards it is not queued again.
UnbornInv ==
  /\ Closure("init") \in Waiting => status_ = "None"
  /\ status_ = "None" =>
       /\ op = "none" /\ lpc = "poll" /\ state_ = "null" /\ events_ = {}
       /\ timers = {} /\ ~isWorking_ /\ called = {}
       /\ funcs # <<>> /\ Head(funcs) = Closure("init")

\* The status fields name the suspended operation, wherever the loop thread is.
OpInv ==
  /\ op = "connect" => status_ = "Connecting"
  /\ op = "charset" => status_ = "SettingCharacterSet"
  /\ op \in {"query", "store", "next"} => isWorking_
  /\ op = "query" => execStatus_ = "RealQuery"
  /\ op = "store" => execStatus_ = "StoreResult"
  /\ op = "next"  => execStatus_ = "NextResult"
  /\ op = "gone" => status_ = "Bad" /\ state_ = "kNew" /\ events_ = {}
  /\ isWorking_ => status_ \in {"Ok", "Bad"}

\* The loop thread is between two calls into libmariadb for one query.
Answering == lpc \in {"store", "result", "callback", "more"}

PlaceInv ==
  /\ lpc = "charset" => op = "none" /\ status_ = "Connecting" /\ "read" \in events_
  /\ Answering => isWorking_ /\ op \in {"none", "gone"}
  /\ lpc = "store" => op = "none"

\* Reading is enabled from the first answer on: this is what a wait that no
\* setEventDispatcher follows relies on.
WatchInv ==
  /\ status_ = "Ok" => "read" \in events_
  /\ op \in Ops /\ status_ # "Bad" /\ lpc # "update" =>
       waitStatus_ \ {"timeout"} \subseteq events_

Answers == {Closure("getResult"), Closure("outputError")}

\* No function is queued twice; a queued answer is the only one, and belongs to
\* the query at work, for which libmariadb does nothing meanwhile.
QueueInv ==
  /\ Once(funcs)
  /\ \A f \in Answers : f \in Waiting =>
        /\ isWorking_ /\ op \in {"none", "gone"} /\ ~Answering
        /\ \A g \in Answers : g \in Waiting => g = f
  /\ \A q \in Queries : Exec(q) \in Waiting =>
        q \in called \ idled /\ q # callback_ /\ status_ \in {"Ok", "Bad"}

\* The server answers the query whose callback is set, or none.  Results handed
\* over and sets to come add up to that query's result sets; the set whose
\* callback runs is counted in both.
AccountInv ==
  /\ ~isWorking_ => sets = 0
  /\ isWorking_ =>
       /\ callback_ \in called \ idled /\ callback_ = served
       /\ sets \in 1 .. total[callback_]
       /\ got[callback_] + sets
            = total[callback_] + (IF lpc \in {"callback", "more"} THEN 1 ELSE 0)
  /\ \A q \in Queries : q \notin idled /\ q # callback_ => got[q] = 0

\* What careful callers keep true.
CarefulInv == careful =>
  /\ isWorking_ => \A q \in called \ idled : q = callback_
  /\ Closure("disconnect") \in Waiting => called = idled /\ status_ \in {"Ok", "Bad"}
  /\ op = "gone" => called = idled /\ waitStatus_ = {}
  /\ \A q \in Queries : Exec(q) \in Waiting =>
        ~isWorking_ /\ op # "gone" /\ \A r \in called \ idled : r = q

LiveInv == /\ UnbornInv /\ OpInv /\ PlaceInv /\ WatchInv
           /\ QueueInv /\ AccountInv /\ CarefulInv

Good == /\ TypeOK /\ LibraryInv /\ ResultsAreComplete /\ CarefulIsSafe
        /\ ended = "no" => LiveInv

(***************************************************************************)
(* The queue of functions.                                                 *)
(***************************************************************************)
\* Queued functions are told apart by what they do and by their query.
LEMMA ClosuresDiffer ==
  /\ \A f, g \in {"init", "getResult", "outputError", "disconnect"} :
        /\ Closure(f) \in Closures
        /\ Closure(f) = Closure(g) => f = g
        /\ \A q \in Queries : Closure(f) # Exec(q)
  /\ \A q, r \in Queries : Exec(q) = Exec(r) => q = r
  /\ \A q \in Queries : Exec(q) \in Closures
BY DEF Closure, Exec, Closures

\* Running the first function of the queue removes it and nothing else.
LEMMA TailOfQueue ==
  ASSUME NEW s \in Seq(Closures), s # <<>>, Once(s)
  PROVE  /\ Tail(s) \in Seq(Closures) /\ Once(Tail(s))
         /\ Head(s) \in InQueue(s)
         /\ InQueue(Tail(s)) = InQueue(s) \ {Head(s)}
<1>1. /\ Tail(s) \in Seq(Closures) /\ Len(Tail(s)) = Len(s) - 1
      /\ Head(s) = s[1] /\ Len(s) \in Nat \ {0}
      /\ \A i \in 1 .. Len(s) - 1 : Tail(s)[i] = s[i + 1]
  OBVIOUS
<1>2. Once(Tail(s))
  BY <1>1 DEF Once
<1>3. Head(s) \in InQueue(s)
  BY <1>1 DEF InQueue
<1>4. ASSUME NEW f \in InQueue(Tail(s))
      PROVE  f \in InQueue(s) /\ f # Head(s)
  <2>1. PICK i \in 1 .. Len(s) - 1 : f = Tail(s)[i]
    BY <1>1, <1>4 DEF InQueue
  <2>2. f = s[i + 1] /\ i + 1 \in 1 .. Len(s) /\ 1 \in 1 .. Len(s) /\ i + 1 # 1
    BY <2>1, <1>1
  <2> QED BY <2>2, <1>1 DEF InQueue, Once
<1>5. ASSUME NEW f \in InQueue(s), f # Head(s)
      PROVE  f \in InQueue(Tail(s))
  <2>1. PICK i \in 1 .. Len(s) : f = s[i]
    BY <1>5 DEF InQueue
  <2>2. i - 1 \in 1 .. Len(s) - 1 /\ (i - 1) + 1 = i
    BY <2>1, <1>5, <1>1
  <2>3. f = Tail(s)[i - 1]
    BY <2>1, <2>2, <1>1
  <2> QED BY <2>2, <2>3, <1>1 DEF InQueue
<1> QED BY <1>1, <1>2, <1>3, <1>4, <1>5

\* Queueing a function adds it at the end.
LEMMA AppendToQueue ==
  ASSUME NEW s \in Seq(Closures), NEW f \in Closures, Once(s), f \notin InQueue(s)
  PROVE  /\ Append(s, f) \in Seq(Closures) /\ Once(Append(s, f))
         /\ Append(s, f) # <<>>
         /\ s # <<>> => Head(Append(s, f)) = Head(s)
         /\ InQueue(Append(s, f)) = InQueue(s) \cup {f}
<1>1. /\ Append(s, f) \in Seq(Closures) /\ Len(Append(s, f)) = Len(s) + 1
      /\ Len(s) \in Nat
      /\ \A i \in 1 .. Len(s) : Append(s, f)[i] = s[i]
      /\ Append(s, f)[Len(s) + 1] = f
  OBVIOUS
<1>2. \A i \in 1 .. Len(s) : s[i] # f
  BY DEF InQueue
<1>3. Once(Append(s, f))
  <2>1. SUFFICES ASSUME NEW i \in 1 .. Len(s) + 1, NEW j \in 1 .. Len(s) + 1,
                        Append(s, f)[i] = Append(s, f)[j]
                 PROVE  i = j
    BY <1>1 DEF Once
  <2>2. CASE i \in 1 .. Len(s) /\ j \in 1 .. Len(s)
    BY <1>1, <2>1, <2>2 DEF Once
  <2>3. CASE i \notin 1 .. Len(s) \/ j \notin 1 .. Len(s)
    BY <1>1, <1>2, <2>1, <2>3
  <2> QED BY <2>2, <2>3
<1>4. Append(s, f) # <<>> /\ (s # <<>> => Head(Append(s, f)) = Head(s))
  <2>1. Append(s, f) # <<>>
    BY <1>1
  <2>2. ASSUME s # <<>> PROVE Head(Append(s, f)) = Head(s)
    <3>1. Len(s) # 0 /\ Head(s) = s[1]
      BY <2>2
    <3>2. Head(Append(s, f)) = Append(s, f)[1]
      BY <1>1, <2>1
    <3> QED BY <3>1, <3>2, <1>1
  <2> QED BY <2>1, <2>2
<1>5. InQueue(Append(s, f)) = InQueue(s) \cup {f}
  BY <1>1 DEF InQueue
<1> QED BY <1>1, <1>3, <1>4, <1>5

(***************************************************************************)
(* The calls into libmariadb and the dispatcher.                           *)
(***************************************************************************)
\* A _start suspends its operation or leaves none behind.
LEMMA StartOutcome ==
  ASSUME TypeOK, NEW o \in Ops, NEW outcome, Started(o, outcome)
  PROVE  /\ outcome = "wait" => op' = o /\ waitStatus_' \in Waits(o)
         /\ outcome # "wait" => op' = "none" /\ waitStatus_' = {}
         /\ waitNo' \in 0 .. MaxWaits /\ waitNo <= waitNo'
         /\ waitStatus_' \subseteq {"read", "write", "timeout"}
         /\ sock' = sock
         /\ LibraryInv'
<1>1. CASE outcome = "wait"
  <2>1. Suspend(o) /\ sock' = sock
    BY <1>1 DEF Started
  <2>2. waitNo \in 0 .. MaxWaits /\ waitNo < MaxWaits /\ waitNo' = waitNo + 1
    BY <2>1 DEF Suspend, TypeOK
  <2>3. waitNo' \in 0 .. MaxWaits /\ waitNo <= waitNo' /\ waitNo' > 0
    BY <2>2, BoundsAssumption
  <2>4. op' = o /\ waitStatus_' \in Waits(o)
    BY <2>1 DEF Suspend
  <2>5. waitStatus_' \subseteq {"read", "write", "timeout"} /\ "timeout" \in waitStatus_'
    BY <2>4 DEF Waits
  <2> QED BY <1>1, <2>1, <2>3, <2>4, <2>5 DEF LibraryInv, Ops
<1>2. CASE outcome # "wait"
  <2>1. op' = "none" /\ waitStatus_' = {} /\ waitNo' = waitNo /\ sock' = sock
    BY <1>2 DEF Started, Finish
  <2>2. waitNo' \in 0 .. MaxWaits /\ waitNo <= waitNo'
    BY <2>1, BoundsAssumption DEF TypeOK
  <2> QED BY <1>2, <2>1, <2>2 DEF LibraryInv, Ops
<1> QED BY <1>1, <1>2

\* A _cont goes on only with the operation that is suspended, and finishes it
\* only when the socket has become readable.
LEMMA ContinueOutcome ==
  ASSUME TypeOK, NEW o \in Ops, NEW status, NEW outcome,
         Continued(o, status, outcome)
  PROVE  /\ outcome = "wait" => op' = o /\ waitStatus_' \in Waits(o)
         /\ outcome # "wait" => op' = "none" /\ waitStatus_' = {}
         /\ outcome \in {"wait", "done"} => op = o
         /\ outcome = "done" => "read" \in status
         /\ waitNo' \in 0 .. MaxWaits /\ waitNo <= waitNo'
         /\ waitStatus_' \subseteq {"read", "write", "timeout"}
         /\ sock' \in {"quiet", "data", "closed"}
         /\ LibraryInv'
<1>1. CASE outcome = "wait"
  <2>1. Suspend(o) /\ op = o
    BY <1>1 DEF Continued
  <2>2. waitNo \in 0 .. MaxWaits /\ waitNo < MaxWaits /\ waitNo' = waitNo + 1
    BY <2>1 DEF Suspend, TypeOK
  <2>3. waitNo' \in 0 .. MaxWaits /\ waitNo <= waitNo' /\ waitNo' > 0
    BY <2>2, BoundsAssumption
  <2>4. op' = o /\ waitStatus_' \in Waits(o)
    BY <2>1 DEF Suspend
  <2>5. waitStatus_' \subseteq {"read", "write", "timeout"} /\ "timeout" \in waitStatus_'
    BY <2>4 DEF Waits
  <2>6. sock' \in {"quiet", "data", "closed"}
    BY <1>1 DEF Continued, TypeOK
  <2> QED BY <1>1, <2>1, <2>3, <2>4, <2>5, <2>6 DEF LibraryInv, Ops
<1>2. CASE outcome # "wait"
  <2>1. op' = "none" /\ waitStatus_' = {} /\ waitNo' = waitNo
    BY <1>2 DEF Continued, Finish
  <2>2. waitNo' \in 0 .. MaxWaits /\ waitNo <= waitNo'
    BY <2>1, BoundsAssumption DEF TypeOK
  <2>3. sock' \in {"quiet", "data", "closed"}
    BY <1>2 DEF Continued, TypeOK
  <2>4. outcome = "done" => op = o /\ "read" \in status /\ sock = "data"
    BY DEF Continued
  <2> QED BY <1>2, <2>1, <2>2, <2>3, <2>4 DEF LibraryInv, Ops
<1> QED BY <1>1, <1>2

\* setEventDispatcher enables what is waited for and keeps reading enabled.
LEMMA DispatcherFollows ==
  ASSUME TypeOK, LibraryInv', waitNo' \in 0 .. MaxWaits, waitNo <= waitNo',
         waitStatus_' \subseteq {"read", "write", "timeout"},
         SetEventDispatcher
  PROVE  /\ events_' \subseteq {"read", "write"}
         /\ state_' \in {"null", "kNew", "kAdded", "kDeleted"}
         /\ events_' # {} => state_' = "kAdded"
         /\ state_' = "null" => state_ = "null"
         /\ waitStatus_' \ {"timeout"} \subseteq events_'
         /\ "read" \in events_ => "read" \in events_'
         /\ timers' \subseteq 1 .. waitNo'
<1>1. /\ events_' = (events_ \ {"write"}) \cup (waitStatus_' \ {"timeout"})
      /\ \/ events_' = events_ /\ state_' = state_
         \/ state_' \in {"kAdded", "kDeleted"} /\ (events_' # {} => state_' = "kAdded")
  BY DEF SetEventDispatcher, Update, disp
<1>2. timers' \subseteq 1 .. waitNo'
  <2>1. timers \subseteq 1 .. waitNo' 
    BY BoundsAssumption DEF TypeOK
  <2>2. "timeout" \in waitStatus_' => waitNo' \in 1 .. waitNo'
    BY BoundsAssumption DEF LibraryInv
  <2> QED BY <2>1, <2>2, Zenon DEF SetEventDispatcher
<1> QED BY <1>1, <1>2 DEF TypeOK
(***************************************************************************)
(* Every step keeps the invariant: one lemma for each action.              *)
(***************************************************************************)
LEMMA InitGood == Init => Good
<1> SUFFICES ASSUME Init PROVE Good
  OBVIOUS
<1>1. TypeOK
  <2>1. funcs \in Seq(Closures)
    BY ClosuresDiffer DEF Init
  <2>2. /\ got \in [Queries -> 0 .. MaxSets] /\ total \in [Queries -> 0 .. MaxSets]
        /\ sets \in 0 .. MaxSets /\ waitNo \in 0 .. MaxWaits /\ timers \subseteq 1 .. waitNo
    BY BoundsAssumption DEF Init
  <2> QED BY <2>1, <2>2 DEF Init, TypeOK, Statuses
<1>2. LibraryInv /\ ResultsAreComplete /\ CarefulIsSafe
  BY DEF Init, LibraryInv, ResultsAreComplete, CarefulIsSafe, Ops
<1>3. /\ funcs # <<>> /\ Head(funcs) = Closure("init") /\ Once(funcs)
      /\ Waiting = {Closure("init")}
  BY DEF Init, Once, Waiting, InQueue
<1>4. /\ \A q \in Queries : Exec(q) \notin Waiting
      /\ \A f \in {"getResult", "outputError", "disconnect"} : Closure(f) \notin Waiting
  BY <1>3, ClosuresDiffer
<1>5. UnbornInv /\ OpInv /\ PlaceInv /\ WatchInv
  BY <1>3 DEF Init, UnbornInv, OpInv, PlaceInv, WatchInv, Answering, Ops
<1>6. QueueInv /\ AccountInv /\ CarefulInv
  BY <1>3, <1>4 DEF Init, QueueInv, Answers, AccountInv, CarefulInv
<1> QED BY <1>1, <1>2, <1>5, <1>6 DEF Good, LiveInv

\* The server only makes the socket readable or closes it.
LEMMA ServerGood ==
  ASSUME Good, ServerAnswers \/ ServerCloses, UNCHANGED careful
  PROVE  Good'
<1>1. /\ ended = "no" /\ sock' \in {"quiet", "data", "closed"}
      /\ UNCHANGED <<conn, disp, waitStatus_, op, served, sets, waitNo, funcs,
                     timers, lpc, tail, ended, history>>
  BY DEF ServerAnswers, ServerCloses
<1> USE <1>1 DEF conn, disp, history
<1>2. TypeOK'
  BY DEF Good, TypeOK
<1>3. LibraryInv' /\ ResultsAreComplete' /\ CarefulIsSafe'
  BY DEF Good, LibraryInv, ResultsAreComplete, CarefulIsSafe
<1>4. LiveInv'
  BY DEF Good, LiveInv, UnbornInv, OpInv, PlaceInv, WatchInv, QueueInv, AccountInv,
     CarefulInv, Waiting, Answering
<1> QED BY <1>2, <1>3, <1>4 DEF Good

\* The call of setEventDispatcher at the end of a handler.
LEMMA UpdateDispatcherGood ==
  ASSUME Good, UpdateDispatcher, UNCHANGED careful
  PROVE  Good'
<1> USE DEF UpdateDispatcher, conn, lib, history
<1>1. /\ TypeOK /\ LibraryInv /\ ResultsAreComplete /\ CarefulIsSafe /\ LiveInv
      /\ ended = "no" /\ lpc = "update"
  BY DEF Good
<1>2. LibraryInv' /\ ResultsAreComplete'
  <2>1. lpc' # "callback"
    BY <1>1 DEF Goto, End
  <2> QED BY <1>1, <2>1 DEF LibraryInv, ResultsAreComplete
<1>3. CASE op = "gone" /\ "timeout" \in waitStatus_
  <2>1. ended' = "null" /\ UNCHANGED <<events_, state_, timers, lpc>>
    BY <1>3 DEF End, disp
  <2>2. TypeOK'
    BY <1>1, <2>1 DEF TypeOK
  <2>3. CarefulIsSafe'
    BY <1>1, <1>3 DEF CarefulIsSafe, LiveInv, CarefulInv
  <2> QED BY <1>2, <2>1, <2>2, <2>3 DEF Good
<1>4. CASE ~(op = "gone" /\ "timeout" \in waitStatus_)
  <2>1. SetEventDispatcher /\ lpc' = "poll" /\ ended' = "no"
    BY <1>1, <1>4 DEF Goto
  <2>2. waitNo' \in 0 .. MaxWaits /\ waitNo <= waitNo'
        /\ waitStatus_' \subseteq {"read", "write", "timeout"}
    BY <1>1, BoundsAssumption DEF TypeOK
  <2>3. /\ events_' \subseteq {"read", "write"}
        /\ state_' \in {"null", "kNew", "kAdded", "kDeleted"}
        /\ events_' # {} => state_' = "kAdded"
        /\ state_' = "null" => state_ = "null"
        /\ waitStatus_' \ {"timeout"} \subseteq events_'
        /\ "read" \in events_ => "read" \in events_'
        /\ timers' \subseteq 1 .. waitNo'
    BY <1>1, <1>2, <2>1, <2>2, DispatcherFollows
  <2>4. op = "gone" => events_' = events_ /\ state_' = state_
    <3>1. op = "gone" => waitStatus_' = {} /\ events_ = {}
      BY <1>1, <1>4 DEF LibraryInv, LiveInv, OpInv
    <3> QED BY <2>1, <3>1 DEF SetEventDispatcher, Update, disp
  <2>5. TypeOK'
    BY <1>1, <2>1, <2>3 DEF TypeOK
  <2>6. CarefulIsSafe'
    BY <2>1 DEF CarefulIsSafe
  <2>7. UnbornInv' /\ OpInv' /\ PlaceInv' /\ WatchInv'
    BY <1>1, <2>1, <2>3, <2>4
    DEF LiveInv, UnbornInv, OpInv, PlaceInv, WatchInv, Answering, Waiting
  <2>8. QueueInv' /\ AccountInv' /\ CarefulInv'
    BY <1>1, <2>1
    DEF LiveInv, QueueInv, AccountInv, CarefulInv, Answering, Waiting
  <2> QED BY <1>2, <2>5, <2>6, <2>7, <2>8 DEF Good, LiveInv
<1> QED BY <1>3, <1>4
\* What every handler is entered with.
LEMMA AliveFacts ==
  ASSUME Good, ended = "no"
  PROVE  /\ TypeOK /\ LibraryInv /\ ResultsAreComplete /\ CarefulIsSafe
         /\ UnbornInv /\ OpInv /\ PlaceInv /\ WatchInv
         /\ QueueInv /\ AccountInv /\ CarefulInv
BY DEF Good, LiveInv

\* The function that init() queues.
LEMMA InitInLoopGood ==
  ASSUME Good, InitInLoop, UNCHANGED careful
  PROVE  Good'
<1>1. /\ ended = "no" /\ lpc = "poll" /\ funcs # <<>> /\ Head(funcs) = Closure("init")
      /\ funcs' = Tail(funcs) /\ status_' = "Connecting"
      /\ UNCHANGED <<execStatus_, isWorking_, callback_, characterSet_, events_,
                     served, sets, timers, tail, called, got, total, idled>>
  BY DEF InitInLoop, Dequeue, history
<1>2. PICK outcome :
        /\ Started("connect", outcome)
        /\ outcome = "fail" => ended' = "fatal" /\ UNCHANGED <<lpc, state_>>
        /\ outcome # "fail" => ended' = "no" /\ lpc' = "update" /\ state_' = "kNew"
  BY <1>1 DEF InitInLoop, End, Goto
<1>3. /\ op' \in {"connect", "none"}
      /\ waitNo' \in 0 .. MaxWaits /\ waitNo <= waitNo'
      /\ waitStatus_' \subseteq {"read", "write", "timeout"}
      /\ sock' = sock /\ LibraryInv'
  BY <1>1, <1>2, AliveFacts, StartOutcome DEF Ops
<1>4. /\ TypeOK /\ ResultsAreComplete /\ UnbornInv /\ QueueInv /\ AccountInv
      /\ CarefulInv /\ OpInv
  BY <1>1, AliveFacts
<1>5. /\ status_ = "None" /\ op = "none" /\ state_ = "null" /\ events_ = {}
      /\ timers = {} /\ ~isWorking_ /\ called = {}
  BY <1>1, <1>4, TailOfQueue DEF UnbornInv, Waiting, TypeOK, QueueInv
<1>6. /\ funcs' \in Seq(Closures) /\ Once(funcs')
      /\ Waiting' = Waiting \ {Closure("init")}
  BY <1>1, <1>4, TailOfQueue DEF TypeOK, QueueInv, Waiting
<1>7. TypeOK'
  BY <1>1, <1>2, <1>3, <1>4, <1>5, <1>6 DEF TypeOK, Statuses, Ops
<1>8. ResultsAreComplete' /\ CarefulIsSafe'
  BY <1>1, <1>2, <1>4 DEF ResultsAreComplete, CarefulIsSafe
<1>9. ASSUME ended' = "no" PROVE LiveInv'
  <2>1. outcome # "fail" /\ lpc' = "update" /\ state_' = "kNew"
    BY <1>2, <1>9
  <2>2. UnbornInv' /\ OpInv' /\ PlaceInv' /\ WatchInv'
    BY <1>1, <1>3, <1>5, <1>6, <2>1
    DEF UnbornInv, OpInv, PlaceInv, WatchInv, Answering
  <2>3. QueueInv'
    BY <1>1, <1>4, <1>5, <1>6, <2>1 DEF QueueInv, Answering
  <2>4. AccountInv' /\ CarefulInv'
    BY <1>1, <1>3, <1>4, <1>5, <1>6, <2>1, QueriesAssumption
    DEF AccountInv, CarefulInv, QueueInv
  <2> QED BY <2>2, <2>3, <2>4 DEF LiveInv
<1> QED BY <1>3, <1>7, <1>8, <1>9 DEF Good

\* startSetCharacterSet.
LEMMA StartSetCharacterSetGood ==
  ASSUME Good, StartSetCharacterSet, UNCHANGED careful
  PROVE  Good'
<1>1. /\ ended = "no" /\ lpc = "charset"
      /\ UNCHANGED <<execStatus_, isWorking_, callback_, characterSet_, events_,
                     state_, served, sets, funcs, timers, tail, called, got,
                     total, idled>>
  BY DEF StartSetCharacterSet, disp, history
<1>2. PICK outcome :
        /\ Started("charset", outcome)
        /\ \/ /\ outcome = "wait" /\ status_' = "SettingCharacterSet"
              /\ lpc' = "update" /\ ended' = "no"
           \/ /\ outcome = "done" /\ status_' = "Ok"
              /\ lpc' = "okCallback" /\ ended' = "no"
           \/ outcome = "fail" /\ UNCHANGED <<status_, lpc>> /\ ended' = "fatal"
  BY <1>1 DEF StartSetCharacterSet, End, Goto
<1>3. /\ outcome = "wait" => op' = "charset"
      /\ outcome # "wait" => op' = "none"
      /\ waitNo' \in 0 .. MaxWaits /\ waitNo <= waitNo'
      /\ waitStatus_' \subseteq {"read", "write", "timeout"}
      /\ sock' = sock /\ LibraryInv'
  BY <1>1, <1>2, AliveFacts, StartOutcome DEF Ops
<1>4. /\ TypeOK /\ ResultsAreComplete /\ UnbornInv /\ OpInv /\ PlaceInv /\ WatchInv
      /\ QueueInv /\ AccountInv /\ CarefulInv
  BY <1>1, AliveFacts
<1>5. op = "none" /\ status_ = "Connecting" /\ ~isWorking_ /\ "read" \in events_
  BY <1>1, <1>4 DEF PlaceInv, OpInv
<1>6. TypeOK'
  BY <1>1, <1>2, <1>3, <1>4, <1>5, BoundsAssumption DEF TypeOK, Statuses, Ops
<1>7. ResultsAreComplete' /\ CarefulIsSafe'
  BY <1>1, <1>2, <1>4 DEF ResultsAreComplete, CarefulIsSafe
<1>8. ASSUME ended' = "no" PROVE LiveInv'
  <2>1. UnbornInv' /\ OpInv' /\ PlaceInv' /\ WatchInv'
    BY <1>1, <1>2, <1>3, <1>4, <1>5, <1>8
    DEF UnbornInv, OpInv, PlaceInv, WatchInv, Answering, Waiting, Ops
  <2>2. QueueInv'
    BY <1>1, <1>2, <1>3, <1>4, <1>5, <1>8 DEF QueueInv, Answering, Waiting
  <2>3. AccountInv' /\ CarefulInv'
    BY <1>1, <1>2, <1>3, <1>4, <1>5, <1>8 DEF AccountInv, CarefulInv, Waiting, QueueInv
  <2> QED BY <2>1, <2>2, <2>3 DEF LiveInv
<1> QED BY <1>3, <1>6, <1>7, <1>8 DEF Good
\* The parts of handleEvent and handleTimeout for a connection that is not yet
\* established.
LEMMA ContinueConnectGood ==
  ASSUME Good, ended = "no", lpc = "poll", NEW status, ContinueConnect(status),
         "read" \in status => "read" \in events_,
         timers' \subseteq timers,
         UNCHANGED <<callback_, characterSet_, served, sets, funcs, called, got,
                     total, idled, careful>>
  PROVE  Good'
<1>1. status_ = "Connecting" /\ UNCHANGED <<execStatus_, isWorking_, events_, state_, tail>>
  BY DEF ContinueConnect, disp
<1>2. PICK outcome :
        /\ Continued("connect", status, outcome)
        /\ \/ /\ outcome = "wait" /\ status_' = status_
              /\ lpc' = "update" /\ ended' = "no"
           \/ /\ outcome = "done" /\ status_' = status_
              /\ lpc' = "charset" /\ ended' = "no"
           \/ /\ outcome = "done" /\ status_' = "Ok"
              /\ lpc' = "okCallback" /\ ended' = "no"
           \/ outcome = "fail" /\ UNCHANGED <<status_, lpc>> /\ ended' = "fatal"
  BY DEF ContinueConnect, End, Goto
<1>3. /\ outcome = "wait" => op' = "connect"
      /\ outcome # "wait" => op' = "none"
      /\ outcome = "done" => "read" \in events_
      /\ waitNo' \in 0 .. MaxWaits /\ waitNo <= waitNo'
      /\ waitStatus_' \subseteq {"read", "write", "timeout"}
      /\ sock' \in {"quiet", "data", "closed"} /\ LibraryInv'
  BY <1>2, AliveFacts, ContinueOutcome DEF Ops
<1>4. /\ TypeOK /\ ResultsAreComplete /\ UnbornInv /\ OpInv /\ PlaceInv /\ WatchInv
      /\ QueueInv /\ AccountInv /\ CarefulInv
  BY AliveFacts
<1>5. ~isWorking_ /\ op # "gone"
  BY <1>1, <1>4 DEF OpInv
<1>6. TypeOK'
  <2>1. timers' \subseteq 1 .. waitNo'
    BY <1>3, <1>4, BoundsAssumption DEF TypeOK
  <2>2. /\ status_' \in Statuses \ {"None"} /\ lpc' \in {"poll", "update", "charset", "okCallback"}
        /\ ended' \in {"no", "fatal"} /\ op' \in Ops \cup {"none", "gone"}
    BY <1>1, <1>2, <1>3, <1>4 DEF TypeOK, Statuses, Ops
  <2>3. state_ = "null" => status_' \in {"None", "Connecting"}
    BY <1>1, <1>2, <1>3, <1>4 DEF TypeOK
  <2> QED BY <1>1, <1>3, <1>4, <2>1, <2>2, <2>3 DEF TypeOK
<1>7. ResultsAreComplete' /\ CarefulIsSafe'
  BY <1>2, <1>4 DEF ResultsAreComplete, CarefulIsSafe
<1>8. ASSUME ended' = "no" PROVE LiveInv'
  <2>1. UnbornInv' /\ OpInv' /\ PlaceInv' /\ WatchInv'
    BY <1>1, <1>2, <1>3, <1>4, <1>5, <1>8
    DEF UnbornInv, OpInv, PlaceInv, WatchInv, Answering, Waiting, Ops
  <2>2. QueueInv'
    BY <1>1, <1>2, <1>3, <1>4, <1>5, <1>8 DEF QueueInv, Answering, Waiting
  <2>3. AccountInv' /\ CarefulInv'
    BY <1>1, <1>2, <1>3, <1>4, <1>5, <1>8 DEF AccountInv, CarefulInv, Waiting, QueueInv
  <2> QED BY <2>1, <2>2, <2>3 DEF LiveInv
<1> QED BY <1>3, <1>6, <1>7, <1>8 DEF Good

\* continueSetCharacterSet.
LEMMA ContinueSetCharacterSetGood ==
  ASSUME Good, ended = "no", lpc = "poll", NEW status, ContinueSetCharacterSet(status),
         "read" \in status => "read" \in events_,
         timers' \subseteq timers,
         UNCHANGED <<callback_, characterSet_, served, sets, funcs, called, got,
                     total, idled, careful>>
  PROVE  Good'
<1>1. status_ = "SettingCharacterSet" /\ UNCHANGED <<execStatus_, isWorking_, events_, state_, tail>>
  BY DEF ContinueSetCharacterSet, disp
<1>2. PICK outcome :
        /\ Continued("charset", status, outcome)
        /\ \/ /\ outcome = "wait" /\ status_' = status_
              /\ lpc' = "update" /\ ended' = "no"
           \/ /\ outcome = "done" /\ status_' = "Ok"
              /\ lpc' = "okCallback" /\ ended' = "no"
           \/ outcome = "fail" /\ UNCHANGED <<status_, lpc>> /\ ended' = "fatal"
  BY DEF ContinueSetCharacterSet, End, Goto
<1>3. /\ outcome = "wait" => op' = "charset"
      /\ outcome # "wait" => op' = "none"
      /\ outcome = "done" => "read" \in events_
      /\ waitNo' \in 0 .. MaxWaits /\ waitNo <= waitNo'
      /\ waitStatus_' \subseteq {"read", "write", "timeout"}
      /\ sock' \in {"quiet", "data", "closed"} /\ LibraryInv'
  BY <1>2, AliveFacts, ContinueOutcome DEF Ops
<1>4. /\ TypeOK /\ ResultsAreComplete /\ UnbornInv /\ OpInv /\ PlaceInv /\ WatchInv
      /\ QueueInv /\ AccountInv /\ CarefulInv
  BY AliveFacts
<1>5. ~isWorking_ /\ op # "gone"
  BY <1>1, <1>4 DEF OpInv
<1>6. TypeOK'
  <2>1. timers' \subseteq 1 .. waitNo'
    BY <1>3, <1>4, BoundsAssumption DEF TypeOK
  <2>2. /\ status_' \in Statuses \ {"None"} /\ lpc' \in {"poll", "update", "charset", "okCallback"}
        /\ ended' \in {"no", "fatal"} /\ op' \in Ops \cup {"none", "gone"}
    BY <1>1, <1>2, <1>3, <1>4 DEF TypeOK, Statuses, Ops
  <2>3. state_ = "null" => status_' \in {"None", "Connecting"}
    BY <1>1, <1>2, <1>3, <1>4 DEF TypeOK
  <2> QED BY <1>1, <1>3, <1>4, <2>1, <2>2, <2>3 DEF TypeOK
<1>7. ResultsAreComplete' /\ CarefulIsSafe'
  BY <1>2, <1>4 DEF ResultsAreComplete, CarefulIsSafe
<1>8. ASSUME ended' = "no" PROVE LiveInv'
  <2>1. UnbornInv' /\ OpInv' /\ PlaceInv' /\ WatchInv'
    BY <1>1, <1>2, <1>3, <1>4, <1>5, <1>8
    DEF UnbornInv, OpInv, PlaceInv, WatchInv, Answering, Waiting, Ops
  <2>2. QueueInv'
    BY <1>1, <1>2, <1>3, <1>4, <1>5, <1>8 DEF QueueInv, Answering, Waiting
  <2>3. AccountInv' /\ CarefulInv'
    BY <1>1, <1>2, <1>3, <1>4, <1>5, <1>8 DEF AccountInv, CarefulInv, Waiting, QueueInv
  <2> QED BY <2>1, <2>2, <2>3 DEF LiveInv
<1> QED BY <1>3, <1>6, <1>7, <1>8 DEF Good
\* The branches of handleCmd that resume an operation.
LEMMA ContinueCmdGood ==
  ASSUME Good, ended = "no", lpc = "poll", status_ = "Ok",
         NEW o \in {"query", "store", "next"}, NEW status,
         NEW next \in {"store", "result"}, ContinueCmd(o, status, next),
         o = "query" => execStatus_ = "RealQuery",
         o = "store" => execStatus_ = "StoreResult",
         o = "next" => execStatus_ = "NextResult",
         UNCHANGED <<isWorking_, callback_, characterSet_, served, sets, funcs,
                     timers, called, got, total, idled, careful>>
  PROVE  Good'
<1>1. tail' = TRUE /\ UNCHANGED <<status_, events_, state_>>
  BY DEF ContinueCmd, disp
<1>2. PICK outcome :
        /\ Continued(o, status, outcome)
        /\ \/ /\ outcome = "wait" /\ execStatus_' = execStatus_
              /\ lpc' = "update" /\ ended' = "no"
           \/ /\ outcome = "done" /\ execStatus_' = execStatus_
              /\ lpc' = next /\ ended' = "no"
           \/ outcome = "fail" /\ execStatus_' = "None" /\ lpc' = lpc /\ ended' = "fatal"
  BY DEF ContinueCmd, End, Goto
<1>3. o \in Ops
  BY DEF Ops
<1>4. /\ outcome = "wait" => op' = o
      /\ outcome # "wait" => op' = "none"
      /\ outcome \in {"wait", "done"} => op = o
      /\ waitNo' \in 0 .. MaxWaits /\ waitNo <= waitNo'
      /\ waitStatus_' \subseteq {"read", "write", "timeout"}
      /\ sock' \in {"quiet", "data", "closed"} /\ LibraryInv'
  BY <1>2, <1>3, AliveFacts, ContinueOutcome
<1>5. /\ TypeOK /\ ResultsAreComplete /\ UnbornInv /\ OpInv /\ PlaceInv /\ WatchInv
      /\ QueueInv /\ AccountInv /\ CarefulInv
  BY AliveFacts
<1>6. TypeOK'
  <2>1. timers' \subseteq 1 .. waitNo'
    BY <1>4, <1>5, BoundsAssumption DEF TypeOK
  <2>2. /\ execStatus_' \in {"None", "RealQuery", "StoreResult", "NextResult"}
        /\ lpc' \in {"poll", "update", "store", "result"}
        /\ ended' \in {"no", "fatal"} /\ op' \in Ops \cup {"none", "gone"}
    BY <1>2, <1>3, <1>4, <1>5 DEF TypeOK
  <2> QED BY <1>1, <1>4, <1>5, <2>1, <2>2 DEF TypeOK
<1>7. ResultsAreComplete' /\ CarefulIsSafe'
  BY <1>2, <1>5 DEF ResultsAreComplete, CarefulIsSafe
<1>8. ASSUME ended' = "no" PROVE LiveInv'
  <2>1. outcome \in {"wait", "done"} /\ op = o /\ isWorking_
    BY <1>2, <1>4, <1>5, <1>8 DEF OpInv
  <2>2. UnbornInv' /\ OpInv'
    BY <1>1, <1>2, <1>4, <1>5, <1>8, <2>1 DEF UnbornInv, OpInv, Waiting
  <2>3. PlaceInv'
    BY <1>1, <1>2, <1>4, <1>8, <2>1 DEF PlaceInv, Answering
  <2>4. WatchInv'
    BY <1>1, <1>2, <1>4, <1>5, <1>8, <2>1 DEF WatchInv, Ops
  <2>5. QueueInv'
    BY <1>1, <1>2, <1>4, <1>5, <1>8, <2>1 DEF QueueInv, Answering, Waiting
  <2>6. AccountInv' /\ CarefulInv'
    BY <1>1, <1>2, <1>4, <1>5, <1>8, <2>1 DEF AccountInv, CarefulInv, Waiting
  <2> QED BY <2>2, <2>3, <2>4, <2>5, <2>6 DEF LiveInv
<1> QED BY <1>4, <1>6, <1>7, <1>8 DEF Good

\* handleClosed, when handleCmd finds nothing to resume.
LEMMA HandleClosedGood ==
  ASSUME Good, ended = "no", lpc = "poll", status_ = "Ok", HandleClosed,
         execStatus_ = "None", waitStatus_ = {},
         UNCHANGED <<execStatus_, waitStatus_, op, sock, waitNo, tail, isWorking_,
                     callback_, characterSet_, served, sets, funcs,
                     timers, called, got, total, idled, careful>>
  PROVE  Good'
<1>1. /\ status_' = "Bad" /\ events_' = {} /\ state_' = "kNew"
      /\ lpc' = "closeCallback" /\ ended' = "no"
  BY DEF HandleClosed, DisableAllAndRemove, Goto
<1>2. /\ TypeOK /\ LibraryInv /\ ResultsAreComplete /\ UnbornInv /\ OpInv /\ PlaceInv
      /\ WatchInv /\ QueueInv /\ AccountInv /\ CarefulInv
  BY AliveFacts
<1>3. TypeOK'
  BY <1>1, <1>2 DEF TypeOK, Statuses
<1>4. LibraryInv' /\ ResultsAreComplete' /\ CarefulIsSafe'
  BY <1>1, <1>2 DEF LibraryInv, ResultsAreComplete, CarefulIsSafe
<1>5. op = "none"
  <2>1. op \notin Ops /\ op # "gone"
    BY <1>2 DEF LibraryInv, Waits, OpInv
  <2> QED BY <1>2, <2>1 DEF TypeOK
<1>6. UnbornInv' /\ OpInv' /\ PlaceInv' /\ WatchInv'
  BY <1>1, <1>2, <1>5
  DEF UnbornInv, OpInv, PlaceInv, WatchInv, Answering, Waiting, Ops
<1>7. QueueInv' /\ AccountInv' /\ CarefulInv'
  BY <1>1, <1>2, <1>5 DEF QueueInv, AccountInv, CarefulInv, Answering, Waiting
<1> QED BY <1>3, <1>4, <1>6, <1>7 DEF Good, LiveInv

\* handleEvent, which goes on with the operation that status_ and execStatus_
\* name.
LEMMA HandleEventGood ==
  ASSUME Good, HandleEvent, UNCHANGED careful
  PROVE  Good'
<1>1. /\ ended = "no" /\ lpc = "poll"
      /\ UNCHANGED <<callback_, characterSet_, served, sets, funcs, timers, called,
                     got, total, idled>>
  BY DEF HandleEvent, history
<1>2. PICK revents \in SUBSET events_ :
        \/ ContinueConnect(revents \cap waitStatus_)
        \/ ContinueSetCharacterSet(revents \cap waitStatus_)
        \/ /\ status_ = "Ok" /\ HandleCmd(revents \cap waitStatus_)
           /\ UNCHANGED isWorking_
  BY DEF HandleEvent
<1> DEFINE status == revents \cap waitStatus_
<1>3. "read" \in status => "read" \in events_
  OBVIOUS
<1> HIDE DEF status
<1>4. CASE ContinueConnect(status)
  BY <1>1, <1>3, <1>4, ContinueConnectGood
<1>5. CASE ContinueSetCharacterSet(status)
  BY <1>1, <1>3, <1>5, ContinueSetCharacterSetGood
<1>6. CASE status_ = "Ok" /\ HandleCmd(status) /\ UNCHANGED isWorking_
  <2>1. CASE execStatus_ = "RealQuery" /\ ContinueCmd("query", status, "store")
    BY <1>1, <1>6, <2>1, ContinueCmdGood
  <2>2. CASE execStatus_ = "StoreResult" /\ ContinueCmd("store", status, "result")
    BY <1>1, <1>6, <2>2, ContinueCmdGood
  <2>3. CASE execStatus_ = "NextResult" /\ ContinueCmd("next", status, "store")
    BY <1>1, <1>6, <2>3, ContinueCmdGood
  <2>4. CASE /\ execStatus_ = "None" /\ waitStatus_ = {} /\ HandleClosed
             /\ UNCHANGED <<execStatus_, waitStatus_, op, sock, waitNo, tail>>
    BY <1>1, <1>6, <2>4, HandleClosedGood
  <2> QED BY <1>6, <2>1, <2>2, <2>3, <2>4 DEF HandleCmd
<1> QED BY <1>2, <1>4, <1>5, <1>6 DEF status

\* handleTimeout, also of a wait that is over.
LEMMA HandleTimeoutGood ==
  ASSUME Good, HandleTimeout, UNCHANGED careful
  PROVE  Good'
<1>1. /\ ended = "no" /\ lpc = "poll" /\ timers' \subseteq timers
      /\ UNCHANGED <<callback_, characterSet_, served, sets, funcs, called, got,
                     total, idled>>
  BY DEF HandleTimeout, history
<1>2. CASE ContinueConnect({"timeout"})
  BY <1>1, <1>2, ContinueConnectGood
<1>3. CASE ContinueSetCharacterSet({"timeout"})
  BY <1>1, <1>3, ContinueSetCharacterSetGood
<1>4. CASE /\ status_ \in {"Ok", "Bad"}
           /\ UNCHANGED <<conn, disp, lib, lpc, tail, ended>>
  <2> USE <1>1, <1>4 DEF conn, disp, lib
  <2>1. TypeOK'
    BY AliveFacts DEF TypeOK
  <2>2. LibraryInv' /\ ResultsAreComplete' /\ CarefulIsSafe'
    BY AliveFacts DEF LibraryInv, ResultsAreComplete, CarefulIsSafe
  <2>3. UnbornInv' /\ OpInv' /\ PlaceInv' /\ WatchInv'
    BY AliveFacts DEF UnbornInv, OpInv, PlaceInv, WatchInv, Answering, Waiting
  <2>4. QueueInv' /\ AccountInv' /\ CarefulInv'
    BY AliveFacts DEF QueueInv, AccountInv, CarefulInv, Answering, Waiting
  <2> QED BY <2>1, <2>2, <2>3, <2>4 DEF Good, LiveInv
<1> QED BY <1>2, <1>3, <1>4 DEF HandleTimeout

\* startStoreResult.
LEMMA StartStoreResultGood ==
  ASSUME Good, StartStoreResult, UNCHANGED careful
  PROVE  Good'
<1>1. /\ ended = "no" /\ lpc = "store"
      /\ UNCHANGED <<status_, isWorking_, callback_, characterSet_, events_,
                     state_, served, sets, funcs, timers, tail, called, got,
                     total, idled>>
  BY DEF StartStoreResult, disp, history
<1>2. PICK outcome :
        /\ Started("store", outcome)
        /\ \/ /\ outcome = "wait" /\ execStatus_' = "StoreResult"
              /\ lpc' \in {"update", "poll"} /\ ended' = "no"
           \/ /\ outcome = "done" /\ execStatus_' = "None"
              /\ lpc' = "result" /\ ended' = "no"
           \/ outcome = "fail" /\ execStatus_' = "None" /\ lpc' = lpc /\ ended' = "fatal"
  BY <1>1 DEF StartStoreResult, End, Goto, Return
<1>3. /\ outcome = "wait" => op' = "store" /\ waitStatus_' = {"read", "timeout"}
      /\ outcome # "wait" => op' = "none"
      /\ waitNo' \in 0 .. MaxWaits /\ waitNo <= waitNo'
      /\ waitStatus_' \subseteq {"read", "write", "timeout"}
      /\ sock' = sock /\ LibraryInv'
  BY <1>1, <1>2, AliveFacts, StartOutcome DEF Ops, Waits
<1>4. /\ TypeOK /\ ResultsAreComplete /\ UnbornInv /\ OpInv /\ PlaceInv /\ WatchInv
      /\ QueueInv /\ AccountInv /\ CarefulInv
  BY <1>1, AliveFacts
<1>5. op = "none" /\ isWorking_ /\ status_ \in {"Ok", "Bad"}
  BY <1>1, <1>4 DEF PlaceInv, OpInv, Answering
<1>6. TypeOK'
  <2>1. timers' \subseteq 1 .. waitNo'
    BY <1>1, <1>3, <1>4, BoundsAssumption DEF TypeOK
  <2> QED BY <1>1, <1>2, <1>3, <1>4, <1>5, <2>1 DEF TypeOK, Ops
<1>7. ResultsAreComplete' /\ CarefulIsSafe'
  BY <1>1, <1>2, <1>4 DEF ResultsAreComplete, CarefulIsSafe
<1>8. ASSUME ended' = "no" PROVE LiveInv'
  <2>1. UnbornInv' /\ OpInv' /\ PlaceInv' /\ WatchInv'
    BY <1>1, <1>2, <1>3, <1>4, <1>5, <1>8
    DEF UnbornInv, OpInv, PlaceInv, WatchInv, Answering, Waiting, Ops
  <2>2. QueueInv'
    BY <1>1, <1>2, <1>3, <1>4, <1>5, <1>8 DEF QueueInv, Answering, Waiting
  <2>3. AccountInv' /\ CarefulInv'
    BY <1>1, <1>2, <1>3, <1>4, <1>5, <1>8 DEF AccountInv, CarefulInv, Waiting
  <2> QED BY <2>1, <2>2, <2>3 DEF LiveInv
<1> QED BY <1>3, <1>6, <1>7, <1>8 DEF Good
\* getResult.
LEMMA GetResultGood ==
  ASSUME Good, GetResult, UNCHANGED careful
  PROVE  Good'
<1>1. /\ ended = "no" /\ lpc = "result"
      /\ UNCHANGED <<conn, disp, lib, funcs, timers, tail, called, total, idled>>
  BY DEF GetResult
<1>2. /\ TypeOK /\ LibraryInv /\ ResultsAreComplete /\ CarefulIsSafe /\ UnbornInv
      /\ OpInv /\ PlaceInv /\ WatchInv /\ QueueInv /\ AccountInv /\ CarefulInv
  BY <1>1, AliveFacts
<1>3. isWorking_ /\ callback_ \in Queries /\ callback_ \in called \ idled
  BY <1>1, <1>2 DEF PlaceInv, Answering, TypeOK, AccountInv
<1> USE DEF conn, disp, lib
<1>4. LibraryInv'
  BY <1>1, <1>2 DEF LibraryInv
<1>5. CASE op = "gone"
  <2>1. ended' = "null" /\ UNCHANGED <<lpc, got>>
    BY <1>1, <1>5 DEF GetResult, End
  <2>2. ~careful
    BY <1>2, <1>3, <1>5 DEF CarefulInv
  <2>3. TypeOK' /\ ResultsAreComplete' /\ CarefulIsSafe'
    BY <1>1, <1>2, <2>1, <2>2 DEF TypeOK, ResultsAreComplete, CarefulIsSafe
  <2> QED BY <1>4, <2>1, <2>3 DEF Good
<1>6. CASE op # "gone"
  <2>1. /\ got' = [got EXCEPT ![callback_] = @ + 1]
        /\ lpc' = "callback" /\ ended' = "no"
    BY <1>1, <1>3, <1>6 DEF GetResult, Goto
  <2>2. /\ got[callback_] \in Nat /\ total[callback_] \in 0 .. MaxSets
        /\ sets \in 1 .. total[callback_] /\ got[callback_] + sets = total[callback_]
    BY <1>1, <1>2, <1>3, BoundsAssumption DEF AccountInv, TypeOK
  <2>3. got[callback_] + 1 \in 0 .. MaxSets /\ got[callback_] + 1 <= total[callback_]
    BY <2>2, BoundsAssumption
  <2>4. /\ got'[callback_] = got[callback_] + 1
        /\ \A q \in Queries : q # callback_ => got'[q] = got[q]
        /\ got' \in [Queries -> 0 .. MaxSets]
    BY <1>2, <1>3, <2>1, <2>3 DEF TypeOK
  <2>5. TypeOK'
    BY <1>1, <1>2, <2>1, <2>4 DEF TypeOK
  <2>6. ResultsAreComplete' /\ CarefulIsSafe'
    <3>1. callback_' = served'
      BY <1>1, <1>2, <1>3 DEF AccountInv
    <3> QED BY <1>1, <1>2, <1>3, <2>1, <2>3, <2>4, <3>1
            DEF ResultsAreComplete, CarefulIsSafe
  <2>7. UnbornInv' /\ OpInv' /\ PlaceInv' /\ WatchInv'
    BY <1>1, <1>2, <2>1 DEF UnbornInv, OpInv, PlaceInv, WatchInv, Answering, Waiting
  <2>8. QueueInv' /\ CarefulInv'
    BY <1>1, <1>2, <2>1 DEF QueueInv, CarefulInv, Answering, Waiting
  <2>9. AccountInv'
    BY <1>1, <1>2, <1>3, <2>1, <2>2, <2>4 DEF AccountInv
  <2> QED BY <1>4, <2>5, <2>6, <2>7, <2>8, <2>9 DEF Good, LiveInv
<1> QED BY <1>5, <1>6

\* The test for more results after one was delivered.
LEMMA MoreResultsGood ==
  ASSUME Good, MoreResults, UNCHANGED careful
  PROVE  Good'
<1>1. /\ ended = "no" /\ lpc = "more"
      /\ UNCHANGED <<status_, characterSet_, events_, state_, served, funcs,
                     timers, tail, called, got, total>>
  BY DEF MoreResults, disp
<1>2. /\ TypeOK /\ LibraryInv /\ ResultsAreComplete /\ CarefulIsSafe /\ UnbornInv
      /\ OpInv /\ PlaceInv /\ WatchInv /\ QueueInv /\ AccountInv /\ CarefulInv
  BY <1>1, AliveFacts
<1>3. /\ isWorking_ /\ callback_ \in Queries /\ callback_ \in called \ idled
      /\ op \in {"none", "gone"} /\ status_ \in {"Ok", "Bad"}
  BY <1>1, <1>2 DEF PlaceInv, Answering, TypeOK, AccountInv, OpInv
<1>4. /\ got[callback_] \in Nat /\ total[callback_] \in 0 .. MaxSets /\ sets \in Nat
      /\ sets \in 1 .. total[callback_] /\ got[callback_] + sets = total[callback_] + 1
  BY <1>1, <1>2, <1>3, BoundsAssumption DEF AccountInv, TypeOK
<1>5. CASE op = "gone"
  <2>1. /\ ended' = "null" /\ UNCHANGED <<lpc, execStatus_, isWorking_, callback_,
                idled, waitStatus_, op, sock, sets, waitNo>>
    BY <1>5 DEF MoreResults, End
  <2>2. ~careful
    BY <1>2, <1>3, <1>5 DEF CarefulInv
  <2>3. TypeOK'
    BY <1>1, <1>2, <2>1 DEF TypeOK
  <2>4. LibraryInv' /\ ResultsAreComplete' /\ CarefulIsSafe'
    BY <1>1, <1>2, <2>1, <2>2 DEF LibraryInv, ResultsAreComplete, CarefulIsSafe
  <2> QED BY <2>1, <2>3, <2>4 DEF Good
<1>6. CASE op # "gone" /\ sets = 1
  <2>1. /\ callback_' = NoQuery /\ isWorking_' = FALSE
        /\ idled' = idled \cup {callback_} /\ sets' = 0
        /\ lpc' = "idle" /\ ended' = "no"
        /\ UNCHANGED <<execStatus_, waitStatus_, op, sock, waitNo>>
    BY <1>1, <1>6 DEF MoreResults, Goto
  <2>2. TypeOK'
    <3>1. sets' \in 0 .. MaxSets
      BY <2>1, BoundsAssumption
    <3>2. idled' \subseteq called'
      BY <1>1, <1>2, <1>3, <2>1 DEF TypeOK
    <3> QED BY <1>1, <1>2, <2>1, <3>1, <3>2, ZenonT(60) DEF TypeOK
  <2>3. got[callback_] = total[callback_]
    BY <1>4, <1>6
  <2>4. LibraryInv' /\ ResultsAreComplete' /\ CarefulIsSafe'
    BY <1>1, <1>2, <1>3, <2>1, <2>3 DEF LibraryInv, ResultsAreComplete, CarefulIsSafe
  <2>5. UnbornInv' /\ OpInv' /\ PlaceInv' /\ WatchInv'
    BY <1>1, <1>2, <1>3, <1>6, <2>1
    DEF UnbornInv, OpInv, PlaceInv, WatchInv, Answering, Waiting, Ops
  <2>6. QueueInv'
    BY <1>1, <1>2, <1>3, <2>1, QueriesAssumption DEF QueueInv, Answering, Waiting
  <2>7. AccountInv'
    BY <1>1, <1>2, <1>3, <2>1 DEF AccountInv
  <2>8. CarefulInv'
    BY <1>1, <1>2, <1>3, <1>6, <2>1 DEF CarefulInv, Waiting
  <2> QED BY <2>2, <2>4, <2>5, <2>6, <2>7, <2>8 DEF Good, LiveInv
<1>7. CASE op # "gone" /\ sets > 1
  <2>1. sets' = sets - 1 /\ UNCHANGED <<isWorking_, callback_, idled>>
    BY <1>4, <1>7 DEF MoreResults
  <2>2. PICK outcome :
          /\ Started("next", outcome)
          /\ \/ /\ outcome = "wait" /\ execStatus_' = "NextResult"
                /\ lpc' \in {"update", "poll"} /\ ended' = "no"
             \/ /\ outcome = "done" /\ execStatus_' = "NextResult"
                /\ lpc' = "store" /\ ended' = "no"
             \/ outcome = "fail" /\ execStatus_' = "None" /\ lpc' = lpc /\ ended' = "fatal"
    BY <1>1, <1>4, <1>7 DEF MoreResults, End, Goto, Return
  <2>3. /\ outcome = "wait" => op' = "next" /\ waitStatus_' = {"read", "timeout"}
        /\ outcome # "wait" => op' = "none"
        /\ waitNo' \in 0 .. MaxWaits /\ waitNo <= waitNo'
        /\ waitStatus_' \subseteq {"read", "write", "timeout"}
        /\ sock' = sock /\ LibraryInv'
    BY <1>2, <2>2, StartOutcome DEF Ops, Waits
  <2>4. /\ sets' \in 0 .. MaxSets /\ sets' \in 1 .. total[callback_]
        /\ got[callback_] + sets' = total[callback_]
    BY <1>4, <1>7, <2>1, BoundsAssumption
  <2>5. TypeOK'
    <3>1. timers' \subseteq 1 .. waitNo'
      BY <1>1, <1>2, <2>3, BoundsAssumption DEF TypeOK
    <3> QED BY <1>1, <1>2, <2>1, <2>2, <2>3, <2>4, <3>1 DEF TypeOK, Ops
  <2>6. ResultsAreComplete' /\ CarefulIsSafe'
    BY <1>1, <1>2, <2>1, <2>2 DEF ResultsAreComplete, CarefulIsSafe
  <2>7. ASSUME ended' = "no" PROVE LiveInv'
    <3>1. UnbornInv' /\ OpInv' /\ PlaceInv' /\ WatchInv'
      BY <1>1, <1>2, <1>3, <2>1, <2>2, <2>3, <2>7
      DEF UnbornInv, OpInv, PlaceInv, WatchInv, Answering, Waiting, Ops
    <3>2. QueueInv'
      BY <1>1, <1>2, <1>3, <2>1, <2>2, <2>3, <2>7 DEF QueueInv, Answering, Waiting
    <3>3. AccountInv'
      BY <1>1, <1>2, <1>3, <1>4, <2>1, <2>2, <2>4, <2>7 DEF AccountInv
    <3>4. CarefulInv'
      BY <1>1, <1>2, <1>3, <1>7, <2>1, <2>2, <2>3, <2>7 DEF CarefulInv, Waiting
    <3> QED BY <3>1, <3>2, <3>3, <3>4 DEF LiveInv
  <2> QED BY <2>3, <2>5, <2>6, <2>7 DEF Good
<1> QED BY <1>4, <1>5, <1>6, <1>7

\* A function is taken from the queue: it was there once, and init() has run.
LEMMA Dequeued ==
  ASSUME Good, NEW f, Dequeue(f), funcs' = Tail(funcs), f # Closure("init")
  PROVE  /\ ended = "no" /\ lpc = "poll" /\ status_ # "None" /\ f \in Waiting
         /\ funcs' \in Seq(Closures) /\ Once(funcs') /\ Waiting' = Waiting \ {f}
<1>1. ended = "no" /\ lpc = "poll" /\ funcs # <<>> /\ Head(funcs) = f
  BY DEF Dequeue
<1>2. TypeOK /\ UnbornInv /\ QueueInv
  BY <1>1, AliveFacts
<1>3. funcs \in Seq(Closures) /\ Once(funcs)
  BY <1>2 DEF TypeOK, QueueInv
<1> QED BY <1>1, <1>2, <1>3, TailOfQueue DEF UnbornInv, Waiting

\* The function that init() queued is none of the others.
LEMMA InitIsOther ==
  \A f \in {"getResult", "outputError", "disconnect"} : Closure(f) # Closure("init")
BY ClosuresDiffer

\* The function that getResult() queued.
LEMMA GetResultInLoopGood ==
  ASSUME Good, GetResultInLoop, UNCHANGED careful
  PROVE  Good'
<1>1. /\ tail' = FALSE /\ lpc' = "result"
      /\ UNCHANGED <<conn, disp, lib, timers, history, ended>>
  BY DEF GetResultInLoop, Goto
<1>2. /\ ended = "no" /\ lpc = "poll" /\ status_ # "None"
      /\ Closure("getResult") \in Waiting
      /\ funcs' \in Seq(Closures) /\ Once(funcs')
      /\ Waiting' = Waiting \ {Closure("getResult")}
  BY Dequeued, InitIsOther DEF GetResultInLoop
<1>3. /\ TypeOK /\ LibraryInv /\ ResultsAreComplete /\ CarefulIsSafe /\ UnbornInv
      /\ OpInv /\ PlaceInv /\ WatchInv /\ QueueInv /\ AccountInv /\ CarefulInv
  BY <1>2, AliveFacts
<1>4. /\ isWorking_ /\ op \in {"none", "gone"}
      /\ \A g \in Answers : g \notin Waiting'
  BY <1>2, <1>3 DEF QueueInv, Answers
<1> USE DEF conn, disp, lib, history
<1>5. TypeOK'
  BY <1>1, <1>2, <1>3, ZenonT(60) DEF TypeOK
<1>6. LibraryInv' /\ ResultsAreComplete' /\ CarefulIsSafe'
  BY <1>1, <1>3 DEF LibraryInv, ResultsAreComplete, CarefulIsSafe
<1>7. UnbornInv' /\ OpInv' /\ PlaceInv' /\ WatchInv'
  BY <1>1, <1>2, <1>3, <1>4 DEF UnbornInv, OpInv, PlaceInv, WatchInv, Answering, Ops
<1>8. QueueInv' /\ AccountInv' /\ CarefulInv'
  BY <1>1, <1>2, <1>3, <1>4 DEF QueueInv, AccountInv, CarefulInv
<1> QED BY <1>5, <1>6, <1>7, <1>8 DEF Good, LiveInv

\* The function that outputError() queued, which ends the process.
LEMMA OutputErrorInLoopGood ==
  ASSUME Good, OutputErrorInLoop, UNCHANGED careful
  PROVE  Good'
<1>1. /\ events_' = {} /\ state_' \in {"kAdded", "kDeleted"} /\ ended' = "fatal"
      /\ UNCHANGED <<conn, lib, timers, tail, history, lpc>>
  BY DEF OutputErrorInLoop, End, Update
<1>2. ended = "no" /\ funcs' \in Seq(Closures)
  BY Dequeued, InitIsOther DEF OutputErrorInLoop
<1>3. TypeOK /\ LibraryInv /\ ResultsAreComplete
  BY <1>2, AliveFacts
<1> USE DEF conn, lib, history
<1>4. TypeOK'
  BY <1>1, <1>2, <1>3 DEF TypeOK
<1>5. LibraryInv' /\ ResultsAreComplete' /\ CarefulIsSafe'
  BY <1>1, <1>3 DEF LibraryInv, ResultsAreComplete, CarefulIsSafe
<1> QED BY <1>1, <1>4, <1>5 DEF Good
\* The body of disconnect, from the queue or from a callback.
LEMMA DisconnectedGood ==
  ASSUME Good, ended = "no", status_ # "None", lpc \notin {"store", "charset"},
         Disconnected, UNCHANGED careful,
         funcs' \in Seq(Closures), Once(funcs'), Waiting' \subseteq Waiting,
         careful => called = idled /\ status_ \in {"Ok", "Bad"}
  PROVE  Good'
<1>1. /\ status_' = "Bad" /\ events_' = {} /\ state_' = "kNew"
      /\ op' = "gone" /\ sock' = "quiet"
      /\ UNCHANGED <<execStatus_, isWorking_, callback_, characterSet_, waitStatus_,
                     served, sets, waitNo, timers, lpc, tail, ended, history>>
  BY DEF Disconnected, DisableAllAndRemove
<1>2. /\ TypeOK /\ LibraryInv /\ ResultsAreComplete /\ CarefulIsSafe /\ UnbornInv
      /\ OpInv /\ PlaceInv /\ WatchInv /\ QueueInv /\ AccountInv /\ CarefulInv
  BY AliveFacts
<1> USE DEF history
<1>3. careful => waitStatus_ = {} /\ ~isWorking_
  <2>1. careful => ~isWorking_
    BY <1>2 DEF AccountInv
  <2>2. careful => op \notin Ops
    BY <1>2, <2>1 DEF OpInv, Ops
  <2> QED BY <1>2, <2>1, <2>2 DEF LibraryInv, CarefulInv, TypeOK
<1>4. TypeOK'
  BY <1>1, <1>2 DEF TypeOK, Statuses
<1>5. LibraryInv' /\ ResultsAreComplete' /\ CarefulIsSafe'
  BY <1>1, <1>2 DEF LibraryInv, ResultsAreComplete, CarefulIsSafe, Ops
<1>6. UnbornInv' /\ OpInv' /\ PlaceInv' /\ WatchInv'
  BY <1>1, <1>2 DEF UnbornInv, OpInv, PlaceInv, WatchInv, Answering, Ops
<1>7. QueueInv' /\ AccountInv'
  BY <1>1, <1>2 DEF QueueInv, AccountInv, Answering
<1>8. CarefulInv'
  BY <1>1, <1>2, <1>3 DEF CarefulInv, QueueInv
<1> QED BY <1>4, <1>5, <1>6, <1>7, <1>8 DEF Good, LiveInv

\* The function that disconnect() queued.
LEMMA DisconnectInLoopGood ==
  ASSUME Good, DisconnectInLoop, UNCHANGED careful
  PROVE  Good'
<1>1. /\ ended = "no" /\ lpc = "poll" /\ status_ # "None"
      /\ Closure("disconnect") \in Waiting
      /\ funcs' \in Seq(Closures) /\ Once(funcs')
      /\ Waiting' = Waiting \ {Closure("disconnect")}
  BY Dequeued, InitIsOther DEF DisconnectInLoop
<1>2. careful => called = idled /\ status_ \in {"Ok", "Bad"}
  BY <1>1, AliveFacts DEF CarefulInv
<1> QED BY <1>1, <1>2, DisconnectedGood DEF DisconnectInLoop

\* User code on the loop thread runs after init().
LEMMA CallbackFacts ==
  ASSUME Good, InCallback
  PROVE  /\ ended = "no" /\ lpc \in {"okCallback", "idle", "closeCallback", "callback"}
         /\ status_ # "None" /\ funcs \in Seq(Closures) /\ Once(funcs)
BY AliveFacts DEF InCallback, UnbornInv, TypeOK, QueueInv

\* A caller that is idle has no query and no disconnect on its way.
LEMMA IdleFacts ==
  ASSUME Idle
  PROVE  status_ = "Ok" /\ called = idled /\ Closure("disconnect") \notin Waiting
BY DEF Idle, Waiting, InQueue

\* disconnect() inside a callback.
LEMMA CallbackDisconnectsGood ==
  ASSUME Good, CallbackDisconnects, UNCHANGED careful
  PROVE  Good'
<1>1. Disconnected /\ funcs' = funcs
  BY DEF CallbackDisconnects
<1>2. /\ ended = "no" /\ lpc \in {"okCallback", "idle", "closeCallback", "callback"}
      /\ status_ # "None" /\ funcs \in Seq(Closures) /\ Once(funcs)
  BY CallbackFacts DEF CallbackDisconnects
<1>3. careful => called = idled /\ status_ \in {"Ok", "Bad"}
  BY IdleFacts DEF CallbackDisconnects, MayDisconnect
<1>4. Waiting' = Waiting
  BY <1>1 DEF Waiting
<1> QED BY <1>1, <1>2, <1>3, <1>4, DisconnectedGood

\* A callback returns to the handler.
LEMMA CallbackReturnsGood ==
  ASSUME Good, CallbackReturns, UNCHANGED careful
  PROVE  Good'
<1>1. /\ ended = "no" /\ ended' = "no"
      /\ UNCHANGED <<conn, disp, lib, funcs, timers, tail, history>>
      /\ \/ lpc \in {"okCallback", "idle", "closeCallback"} /\ lpc' \in {"update", "poll"}
         \/ lpc = "callback" /\ lpc' = "more"
      /\ lpc = "okCallback" => lpc' = "update"
  BY CallbackFacts DEF CallbackReturns, Goto, Return
<1>2. /\ TypeOK /\ LibraryInv /\ ResultsAreComplete /\ CarefulIsSafe /\ UnbornInv
      /\ OpInv /\ PlaceInv /\ WatchInv /\ QueueInv /\ AccountInv /\ CarefulInv
  BY <1>1, AliveFacts
<1> USE DEF conn, disp, lib, history
<1>3. TypeOK'
  BY <1>1, <1>2 DEF TypeOK
<1>4. LibraryInv' /\ ResultsAreComplete' /\ CarefulIsSafe'
  BY <1>1, <1>2 DEF LibraryInv, ResultsAreComplete, CarefulIsSafe
<1>5. UnbornInv' /\ OpInv' /\ PlaceInv' /\ WatchInv'
  BY <1>1, <1>2 DEF UnbornInv, OpInv, PlaceInv, WatchInv, Answering, Waiting
<1>6. QueueInv' /\ AccountInv' /\ CarefulInv'
  BY <1>1, <1>2 DEF QueueInv, AccountInv, CarefulInv, Answering, Waiting
<1> QED BY <1>3, <1>4, <1>5, <1>6 DEF Good, LiveInv

\* execSql from another thread.
LEMMA CallExecSqlGood ==
  ASSUME Good, NEW q \in Queries, CallExecSql(q), UNCHANGED careful
  PROVE  Good'
<1>1. /\ ended = "no" /\ q \notin called /\ called' = called \cup {q}
      /\ funcs' = Append(funcs, Exec(q))
      /\ UNCHANGED <<conn, disp, lib, timers, lpc, tail, ended, got, total, idled>>
  BY DEF CallExecSql
<1>2. /\ TypeOK /\ LibraryInv /\ ResultsAreComplete /\ CarefulIsSafe /\ UnbornInv
      /\ OpInv /\ PlaceInv /\ WatchInv /\ QueueInv /\ AccountInv /\ CarefulInv
  BY <1>1, AliveFacts
<1>3. /\ status_ \in {"Ok", "Bad"}
      /\ careful => status_ = "Ok" /\ called = idled /\ Closure("disconnect") \notin Waiting
  BY IdleFacts DEF CallExecSql, MayExec
<1>4. Exec(q) \notin Waiting /\ Exec(q) \in Closures
  BY <1>1, <1>2, ClosuresDiffer DEF QueueInv
<1>5. /\ funcs' \in Seq(Closures) /\ Once(funcs') /\ funcs' # <<>>
      /\ Waiting' = Waiting \cup {Exec(q)}
  BY <1>1, <1>2, <1>4, AppendToQueue DEF TypeOK, QueueInv, Waiting
<1>6. /\ \A f \in {"init", "getResult", "outputError", "disconnect"} :
            Closure(f) \in Waiting' => Closure(f) \in Waiting
      /\ \A r \in Queries : Exec(r) \in Waiting' => Exec(r) \in Waiting \/ r = q
  BY <1>5, ClosuresDiffer
<1>7. q # callback_
  BY <1>1, <1>2, QueriesAssumption DEF AccountInv, TypeOK
<1> USE DEF conn, disp, lib
<1>8. TypeOK'
  BY <1>1, <1>2, <1>5 DEF TypeOK
<1>9. LibraryInv' /\ ResultsAreComplete' /\ CarefulIsSafe'
  BY <1>1, <1>2 DEF LibraryInv, ResultsAreComplete, CarefulIsSafe
<1>10. UnbornInv' /\ OpInv' /\ PlaceInv' /\ WatchInv'
  BY <1>1, <1>2, <1>3, <1>6 DEF UnbornInv, OpInv, PlaceInv, WatchInv, Answering
<1>11. QueueInv'
  <2>1. \A f \in Answers : f \in Waiting' => f \in Waiting
    BY <1>6 DEF Answers
  <2>2. q \notin idled
    BY <1>1, <1>2 DEF TypeOK
  <2> QED BY <1>1, <1>2, <1>3, <1>5, <1>6, <1>7, <2>1, <2>2 DEF QueueInv, Answering
<1>12. AccountInv'
  BY <1>1, <1>2 DEF AccountInv
<1>13. CarefulInv'
  <2>1. careful => ~isWorking_ /\ op # "gone"
    BY <1>2, <1>3 DEF AccountInv, OpInv
  <2>2. careful => \A r \in Queries : Exec(r) \notin Waiting
    BY <1>2, <1>3 DEF QueueInv
  <2> QED BY <1>1, <1>3, <1>6, <2>1, <2>2 DEF CarefulInv
<1> QED BY <1>8, <1>9, <1>10, <1>11, <1>12, <1>13 DEF Good, LiveInv

\* disconnect from another thread.
LEMMA CallDisconnectGood ==
  ASSUME Good, CallDisconnect, UNCHANGED careful
  PROVE  Good'
<1>1. /\ ended = "no" /\ funcs' = Append(funcs, Closure("disconnect"))
      /\ UNCHANGED <<conn, disp, lib, timers, lpc, tail, ended, history>>
      /\ Closure("disconnect") \notin Waiting
  BY DEF CallDisconnect, Waiting, InQueue
<1>2. /\ TypeOK /\ LibraryInv /\ ResultsAreComplete /\ CarefulIsSafe /\ UnbornInv
      /\ OpInv /\ PlaceInv /\ WatchInv /\ QueueInv /\ AccountInv /\ CarefulInv
  BY <1>1, AliveFacts
<1>3. careful => status_ = "Ok" /\ called = idled
  BY IdleFacts DEF CallDisconnect, MayDisconnect
<1>4. /\ funcs' \in Seq(Closures) /\ Once(funcs') /\ funcs' # <<>>
      /\ funcs # <<>> => Head(funcs') = Head(funcs)
      /\ Waiting' = Waiting \cup {Closure("disconnect")}
  BY <1>1, <1>2, AppendToQueue, ClosuresDiffer DEF TypeOK, QueueInv, Waiting
<1>5. /\ \A f \in {"init", "getResult", "outputError"} :
            Closure(f) \in Waiting' => Closure(f) \in Waiting
      /\ \A r \in Queries : Exec(r) \in Waiting' => Exec(r) \in Waiting
  BY <1>4, ClosuresDiffer
<1> USE DEF conn, disp, lib, history
<1>6. TypeOK'
  BY <1>1, <1>2, <1>4 DEF TypeOK
<1>7. LibraryInv' /\ ResultsAreComplete' /\ CarefulIsSafe'
  BY <1>1, <1>2 DEF LibraryInv, ResultsAreComplete, CarefulIsSafe
<1>8. UnbornInv' /\ OpInv' /\ PlaceInv' /\ WatchInv'
  BY <1>1, <1>2, <1>4, <1>5 DEF UnbornInv, OpInv, PlaceInv, WatchInv, Answering
<1>9. QueueInv'
  <2>1. \A f \in Answers : f \in Waiting' => f \in Waiting
    BY <1>5 DEF Answers
  <2> QED BY <1>1, <1>2, <1>4, <1>5, <2>1 DEF QueueInv, Answering
<1>10. AccountInv' /\ CarefulInv'
  BY <1>1, <1>2, <1>3, <1>5 DEF AccountInv, CarefulInv
<1> QED BY <1>6, <1>7, <1>8, <1>9, <1>10 DEF Good, LiveInv
(***************************************************************************)
(* execSqlInLoop for q, with the queue rest that it leaves.                *)
(***************************************************************************)
\* What holds when execSqlInLoop is entered, from the queue or from a callback.
Entered(q, rest) ==
  /\ ended = "no"
  /\ status_ \in {"Ok", "Bad"} /\ q \notin idled /\ q # callback_
  /\ called' = called \cup {q}
  /\ rest \in Seq(Closures) /\ Once(rest)
  /\ InQueue(rest) \subseteq Waiting /\ Exec(q) \notin InQueue(rest)
  /\ careful => /\ ~isWorking_ /\ op # "gone"
                /\ \A r \in called \ idled : r = q
                /\ Closure("disconnect") \notin InQueue(rest)
  /\ lpc \notin {"update", "charset"}

\* The branches that end the process.
LEMMA ExecEndsGood ==
  ASSUME Good, NEW q \in Queries, NEW rest, Entered(q, rest),
         ExecSqlInLoop(q, rest), ended' # "no", UNCHANGED careful
  PROVE  Good'
<1>1. /\ TypeOK /\ LibraryInv /\ ResultsAreComplete
      /\ funcs' = rest /\ rest \in Seq(Closures) /\ called' = called \cup {q}
      /\ UNCHANGED <<status_, characterSet_, tail, lpc, got, idled>>
  BY AliveFacts DEF Entered, ExecSqlInLoop
<1>2. CASE /\ isWorking_ \/ op = "gone"
           /\ ended' = IF isWorking_ THEN "assert" ELSE "null"
           /\ UNCHANGED <<execStatus_, isWorking_, callback_, disp, lib, timers, total>>
  <2>1. TypeOK'
    BY <1>1, <1>2 DEF TypeOK, disp, lib
  <2>2. LibraryInv' /\ ResultsAreComplete'
    BY <1>1, <1>2 DEF LibraryInv, ResultsAreComplete, lib
  <2>3. CarefulIsSafe'
    BY <1>2 DEF CarefulIsSafe, Entered
  <2> QED BY <2>1, <2>2, <2>3 DEF Good
<1>3. CASE /\ isWorking_' = TRUE /\ callback_' = q /\ served' = q
           /\ Started("query", "fail")
           /\ execStatus_' = "RealQuery" /\ ended' = "fatal"
           /\ UNCHANGED <<disp, timers, sets, total>>
  <2>1. /\ op' = "none" /\ waitNo' \in 0 .. MaxWaits /\ waitNo <= waitNo'
        /\ waitStatus_' \subseteq {"read", "write", "timeout"}
        /\ sock' = sock /\ LibraryInv'
    BY <1>1, <1>3, StartOutcome DEF Ops
  <2>2. timers' \subseteq 1 .. waitNo'
    BY <1>1, <1>3, <2>1, BoundsAssumption DEF TypeOK
  <2>3. TypeOK'
    BY <1>1, <1>3, <2>1, <2>2, QueriesAssumption DEF TypeOK, disp
  <2>4. ResultsAreComplete' /\ CarefulIsSafe'
    BY <1>1, <1>3 DEF ResultsAreComplete, CarefulIsSafe
  <2> QED BY <1>3, <2>1, <2>3, <2>4 DEF Good
<1> QED BY <1>2, <1>3 DEF ExecSqlInLoop, Entered

\* What startQuery leaves: libmariadb waits, or a function that hands over the
\* result, or the error, is queued.
LEMMA QueryStarted ==
  ASSUME Good, NEW q \in Queries, NEW rest, Entered(q, rest), ~isWorking_,
         StartQuery(q, rest)
  PROVE  /\ LibraryInv' /\ sock' = sock
         /\ waitNo' \in 0 .. MaxWaits /\ waitNo <= waitNo'
         /\ waitStatus_' \subseteq {"read", "write", "timeout"}
         /\ funcs' \in Seq(Closures) /\ Once(funcs')
         /\ \/ op' = "query" /\ execStatus_' = "RealQuery" /\ funcs' = rest
            \/ op' = "store" /\ execStatus_' = "StoreResult" /\ funcs' = rest
            \/ /\ op' = "none" /\ execStatus_' = "None"
               /\ \E f \in Answers : Waiting' = InQueue(rest) \cup {f}
<1>1. TypeOK /\ QueueInv /\ rest \in Seq(Closures) /\ Once(rest)
  BY AliveFacts DEF Entered
<1>2. \A f \in Answers : f \notin InQueue(rest) /\ f \in Closures
  BY <1>1, ClosuresDiffer DEF QueueInv, Entered, Answers
<1>3. CASE /\ Started("query", "wait")
           /\ execStatus_' = "RealQuery" /\ funcs' = rest
  BY <1>1, <1>3, StartOutcome DEF Ops
<1>4. CASE /\ Started("store", "wait")
           /\ execStatus_' = "StoreResult" /\ funcs' = rest
  BY <1>1, <1>4, StartOutcome DEF Ops
<1>5. CASE \E outcome \in {"done", "fail"}, f \in Answers :
           /\ Started("store", outcome)
           /\ execStatus_' = "None" /\ funcs' = Append(rest, f)
  <2>1. PICK outcome \in {"done", "fail"}, f \in Answers :
           /\ Started("store", outcome)
           /\ execStatus_' = "None" /\ funcs' = Append(rest, f)
    BY <1>5
  <2>2. /\ LibraryInv' /\ sock' = sock /\ op' = "none"
        /\ waitNo' \in 0 .. MaxWaits /\ waitNo <= waitNo'
        /\ waitStatus_' \subseteq {"read", "write", "timeout"}
    BY <1>1, <2>1, StartOutcome DEF Ops
  <2>3. /\ funcs' \in Seq(Closures) /\ Once(funcs')
        /\ Waiting' = InQueue(rest) \cup {f}
    BY <1>1, <1>2, <2>1, AppendToQueue DEF Waiting
  <2> QED BY <2>1, <2>2, <2>3
<1> QED BY <1>3, <1>4, <1>5 DEF StartQuery, Answers

\* The branch that starts the query.
LEMMA ExecStartsGood ==
  ASSUME Good, NEW q \in Queries, NEW rest, Entered(q, rest),
         ExecSqlInLoop(q, rest), ended' = "no", UNCHANGED careful
  PROVE  Good'
<1>1. /\ ~isWorking_ /\ op # "gone" /\ StartQuery(q, rest) /\ SetEventDispatcher
      /\ UNCHANGED <<status_, characterSet_, tail, lpc, got, idled>>
  BY DEF ExecSqlInLoop
<1>2. /\ TypeOK /\ LibraryInv /\ ResultsAreComplete /\ UnbornInv /\ OpInv /\ PlaceInv
      /\ WatchInv /\ QueueInv /\ AccountInv /\ CarefulInv
  BY AliveFacts DEF Entered
<1>3. /\ isWorking_' = TRUE /\ callback_' = q /\ served' = q
      /\ sets' \in 1 .. MaxSets /\ total' = [total EXCEPT ![q] = sets']
  BY <1>1, <1>2 DEF StartQuery, Sent, AccountInv
<1>4. /\ LibraryInv' /\ sock' = sock
      /\ waitNo' \in 0 .. MaxWaits /\ waitNo <= waitNo'
      /\ waitStatus_' \subseteq {"read", "write", "timeout"}
      /\ funcs' \in Seq(Closures) /\ Once(funcs')
      /\ \/ op' = "query" /\ execStatus_' = "RealQuery" /\ funcs' = rest
         \/ op' = "store" /\ execStatus_' = "StoreResult" /\ funcs' = rest
         \/ /\ op' = "none" /\ execStatus_' = "None"
            /\ \E f \in Answers : Waiting' = InQueue(rest) \cup {f}
  BY <1>1, QueryStarted
<1>5. /\ events_' \subseteq {"read", "write"}
      /\ state_' \in {"null", "kNew", "kAdded", "kDeleted"}
      /\ events_' # {} => state_' = "kAdded"
      /\ state_' = "null" => state_ = "null"
      /\ waitStatus_' \ {"timeout"} \subseteq events_'
      /\ "read" \in events_ => "read" \in events_'
      /\ timers' \subseteq 1 .. waitNo'
  BY <1>1, <1>2, <1>4, DispatcherFollows
<1>6. /\ got[q] = 0 /\ total'[q] = sets' /\ total' \in [Queries -> 0 .. MaxSets]
      /\ \A r \in Queries : r # q => total'[r] = total[r]
      /\ sets' \in Nat
  BY <1>2, <1>3, BoundsAssumption DEF AccountInv, Entered, TypeOK
<1>7. ~Answering
  BY <1>1, <1>2 DEF PlaceInv
<1>8. /\ \A g \in Answers : g \notin InQueue(rest)
      /\ op' # "none" => \A g \in Answers : g \notin Waiting'
      /\ \A f, g \in Answers : f \in Waiting' /\ g \in Waiting' => f = g
  <2>1. \A g \in Answers : g \notin InQueue(rest)
    BY <1>1, <1>2 DEF QueueInv, Entered
  <2>2. funcs' = rest => Waiting' = InQueue(rest)
    BY DEF Waiting
  <2> QED BY <1>4, <2>1, <2>2
<1>9. /\ Closure("init") \in Waiting' => Closure("init") \in Waiting
      /\ Closure("disconnect") \in Waiting' => Closure("disconnect") \in InQueue(rest)
      /\ \A r \in Queries : Exec(r) \in Waiting' => Exec(r) \in InQueue(rest)
  <2>1. funcs' = rest => Waiting' = InQueue(rest)
    BY DEF Waiting
  <2>2. \A f \in Answers : /\ Closure("init") # f /\ Closure("disconnect") # f
                           /\ \A r \in Queries : Exec(r) # f
    BY ClosuresDiffer DEF Answers
  <2>3. InQueue(rest) \subseteq Waiting
    BY DEF Entered
  <2> QED BY <1>4, <2>1, <2>2, <2>3
<1>10. TypeOK'
  <2>1. sets' \in 0 .. MaxSets
    BY <1>3, BoundsAssumption
  <2>2. called' \subseteq Queries /\ idled' \subseteq called' /\ state_' # "null"
    BY <1>1, <1>2, <1>5 DEF TypeOK, Entered
  <2>3. op' \in Ops \cup {"none"} /\ execStatus_' \in {"None", "RealQuery", "StoreResult"}
    BY <1>4 DEF Ops
  <2> QED BY <1>1, <1>2, <1>3, <1>4, <1>5, <1>6, <2>1, <2>2, <2>3, QueriesAssumption
          DEF TypeOK
<1>11. ResultsAreComplete' /\ CarefulIsSafe'
  BY <1>1, <1>2, <1>3, <1>6 DEF ResultsAreComplete, CarefulIsSafe, Entered
<1>12. UnbornInv' /\ OpInv'
  BY <1>1, <1>2, <1>3, <1>4, <1>9 DEF UnbornInv, OpInv, Entered
<1>13. PlaceInv' /\ WatchInv'
  BY <1>1, <1>2, <1>3, <1>4, <1>5, <1>7 DEF PlaceInv, WatchInv, Answering, Entered
<1>14. QueueInv'
  <2>1. \A f \in Answers : f \in Waiting' => op' = "none" /\ ~Answering'
    BY <1>1, <1>4, <1>7, <1>8 DEF Answering
  <2>2. ASSUME NEW r \in Queries, Exec(r) \in Waiting'
        PROVE  r \in called' \ idled' /\ r # callback_' /\ status_' \in {"Ok", "Bad"}
    <3>1. Exec(r) \in InQueue(rest) /\ Exec(r) \in Waiting /\ r # q
      BY <1>9, <2>2 DEF Entered
    <3> QED BY <1>1, <1>2, <1>3, <3>1 DEF QueueInv, Entered
  <2> QED BY <1>3, <1>4, <1>8, <2>1, <2>2 DEF QueueInv
<1>15. AccountInv'
  <2>1. callback_' \in called' \ idled'
    BY <1>1, <1>3 DEF Entered
  <2>2. lpc' \notin {"callback", "more"}
    BY <1>1, <1>7 DEF Answering
  <2>3. \A r \in Queries : r \notin idled' /\ r # callback_' => got'[r] = 0
    BY <1>1, <1>2, <1>3, QueriesAssumption DEF AccountInv, TypeOK
  <2> QED BY <1>1, <1>3, <1>6, <2>1, <2>2, <2>3 DEF AccountInv
<1>16. CarefulInv'
  <2>1. careful => \A r \in Queries : Exec(r) \notin Waiting'
    BY <1>2, <1>9 DEF QueueInv, Entered
  <2>2. careful => \A r \in called' \ idled' : r = q
    BY <1>1 DEF Entered
  <2> QED BY <1>3, <1>4, <1>9, <2>1, <2>2 DEF CarefulInv, Entered
<1> QED BY <1>4, <1>10, <1>11, <1>12, <1>13, <1>14, <1>15, <1>16 DEF Good, LiveInv

\* The function that execSql() queued.
LEMMA ExecQueuedGood ==
  ASSUME Good, NEW q \in Queries, ExecQueued(q), UNCHANGED careful
  PROVE  Good'
<1>1. /\ ended = "no" /\ lpc = "poll" /\ funcs # <<>> /\ Head(funcs) = Exec(q)
      /\ ExecSqlInLoop(q, Tail(funcs)) /\ called' = called
  BY DEF ExecQueued, Dequeue
<1>2. TypeOK /\ QueueInv /\ CarefulInv
  BY <1>1, AliveFacts
<1>3. /\ Tail(funcs) \in Seq(Closures) /\ Once(Tail(funcs)) /\ Exec(q) \in Waiting
      /\ InQueue(Tail(funcs)) = Waiting \ {Exec(q)}
  BY <1>1, <1>2, TailOfQueue DEF TypeOK, QueueInv, Waiting
<1>4. q \in called \ idled /\ q # callback_ /\ status_ \in {"Ok", "Bad"}
  BY <1>2, <1>3 DEF QueueInv
<1>5. careful => /\ ~isWorking_ /\ op # "gone"
                 /\ \A r \in called \ idled : r = q
                 /\ Closure("disconnect") \notin Waiting
  BY <1>2, <1>3, <1>4 DEF CarefulInv
<1>6. Entered(q, Tail(funcs))
  BY <1>1, <1>3, <1>4, <1>5 DEF Entered
<1> QED BY <1>1, <1>6, ExecEndsGood, ExecStartsGood

\* execSql() inside a callback.
LEMMA CallbackExecsGood ==
  ASSUME Good, NEW q \in Queries, CallbackExecs(q), UNCHANGED careful
  PROVE  Good'
<1>1. /\ ended = "no" /\ lpc \in {"okCallback", "idle", "closeCallback", "callback"}
      /\ funcs \in Seq(Closures) /\ Once(funcs)
      /\ q \notin called /\ called' = called \cup {q} /\ ExecSqlInLoop(q, funcs)
  BY CallbackFacts DEF CallbackExecs
<1>2. TypeOK /\ QueueInv /\ CarefulInv /\ AccountInv /\ OpInv
  BY <1>1, AliveFacts
<1>3. /\ status_ \in {"Ok", "Bad"}
      /\ careful => status_ = "Ok" /\ called = idled /\ Closure("disconnect") \notin Waiting
  BY IdleFacts DEF CallbackExecs, MayExec
<1>4. q \notin idled /\ q # callback_ /\ Exec(q) \notin Waiting
  BY <1>1, <1>2, QueriesAssumption DEF TypeOK, AccountInv, QueueInv
<1>5. careful => ~isWorking_ /\ op # "gone"
  BY <1>2, <1>3 DEF AccountInv, OpInv
<1>6. Entered(q, funcs)
  BY <1>1, <1>3, <1>4, <1>5 DEF Entered, Waiting
<1> QED BY <1>1, <1>6, ExecEndsGood, ExecStartsGood
(***************************************************************************)
(* The invariant, and the properties that follow from it.                  *)
(***************************************************************************)
LEMMA StepGood ==
  ASSUME Good, [Next]_vars
  PROVE  Good'
<1>1. CASE Next
  <2>1. UNCHANGED careful
    BY <1>1 DEF Next
  <2>2. CASE ServerAnswers \/ ServerCloses
    BY <2>1, <2>2, ServerGood
  <2>3. CASE InitInLoop
    BY <2>1, <2>3, InitInLoopGood
  <2>4. CASE UpdateDispatcher
    BY <2>1, <2>4, UpdateDispatcherGood
  <2>5. CASE StartSetCharacterSet
    BY <2>1, <2>5, StartSetCharacterSetGood
  <2>6. CASE HandleEvent
    BY <2>1, <2>6, HandleEventGood
  <2>7. CASE HandleTimeout
    BY <2>1, <2>7, HandleTimeoutGood
  <2>8. CASE StartStoreResult
    BY <2>1, <2>8, StartStoreResultGood
  <2>9. CASE GetResult
    BY <2>1, <2>9, GetResultGood
  <2>10. CASE MoreResults
    BY <2>1, <2>10, MoreResultsGood
  <2>11. CASE GetResultInLoop
    BY <2>1, <2>11, GetResultInLoopGood
  <2>12. CASE OutputErrorInLoop
    BY <2>1, <2>12, OutputErrorInLoopGood
  <2>13. CASE DisconnectInLoop
    BY <2>1, <2>13, DisconnectInLoopGood
  <2>14. CASE \E q \in Queries : ExecQueued(q)
    BY <2>1, <2>14, ExecQueuedGood
  <2>15. CASE CallbackReturns
    BY <2>1, <2>15, CallbackReturnsGood
  <2>16. CASE CallbackDisconnects
    BY <2>1, <2>16, CallbackDisconnectsGood
  <2>17. CASE CallDisconnect
    BY <2>1, <2>17, CallDisconnectGood
  <2>18. CASE \E q \in Queries : CallbackExecs(q)
    BY <2>1, <2>18, CallbackExecsGood
  <2>19. CASE \E q \in Queries : CallExecSql(q)
    BY <2>1, <2>19, CallExecSqlGood
  <2>20. CASE LoopStep
    BY <2>3, <2>4, <2>5, <2>6, <2>7, <2>8, <2>9, <2>10, <2>11, <2>12, <2>13, <2>14,
       <2>15, <2>20 DEF LoopStep
  <2> QED BY <1>1, <2>2, <2>16, <2>17, <2>18, <2>19, <2>20 DEF Next
<1>2. CASE UNCHANGED vars
  <2> USE <1>2 DEF vars, conn, disp, lib, history
  <2>1. TypeOK'
    BY DEF Good, TypeOK
  <2>2. LibraryInv' /\ ResultsAreComplete' /\ CarefulIsSafe'
    BY DEF Good, LibraryInv, ResultsAreComplete, CarefulIsSafe
  <2>3. ended = "no" => LiveInv'
    BY DEF Good, LiveInv, UnbornInv, OpInv, PlaceInv, WatchInv, QueueInv, AccountInv,
       CarefulInv, Waiting, Answering
  <2> QED BY <2>1, <2>2, <2>3 DEF Good
<1> QED BY <1>1, <1>2

\* Good is an invariant of the connection.
THEOREM ConnectionIsGood == Spec => []Good
BY InitGood, StepGood, PTL DEF Spec

\* Every field of the connection keeps its type, isWorking_ says whether callback_
\* is set, events are enabled only while the dispatcher is registered, and no
\* query is handed more results than it may have.
THEOREM TypeCorrect == Spec => []TypeOK
<1>1. Good => TypeOK
  BY DEF Good
<1> QED BY <1>1, ConnectionIsGood, PTL

\* status_, execStatus_ and waitStatus_ name the operation that libmariadb has
\* suspended whenever the loop polls, so the next event resumes that one.
THEOREM StatusNamesTheOperation == Spec => []StatusMatchesLibrary
<1>1. Good => StatusMatchesLibrary
  <2> SUFFICES ASSUME Good, ended = "no", lpc = "poll", op # "gone"
               PROVE  StatusMatchesLibrary
    BY DEF StatusMatchesLibrary, Polling
  <2>1. TypeOK /\ LibraryInv /\ OpInv
    BY AliveFacts
  <2>2. op \in Ops <=> waitStatus_ # {}
    BY <2>1 DEF LibraryInv, Waits, TypeOK
  <2> QED BY <2>1, <2>2 DEF StatusMatchesLibrary, OpInv
<1> QED BY <1>1, ConnectionIsGood, PTL

\* Whenever the loop polls, the dispatcher is registered for all that the
\* suspended operation waits for, and for nothing after disconnect().
THEOREM WaitsAreAlwaysWatched == Spec => []WaitsAreWatched
<1>1. Good => WaitsAreWatched
  <2> SUFFICES ASSUME Good, ended = "no", lpc = "poll"
               PROVE  WaitsAreWatched
    BY DEF WaitsAreWatched, Polling
  <2>1. TypeOK /\ LibraryInv /\ OpInv /\ WatchInv
    BY AliveFacts
  <2>2. ASSUME op \in Ops, status_ # "Bad"
        PROVE  state_ = "kAdded" /\ waitStatus_ \ {"timeout"} \subseteq events_
    <3>1. waitStatus_ \ {"timeout"} \subseteq events_
      BY <2>1, <2>2 DEF WatchInv
    <3>2. waitStatus_ \ {"timeout"} # {}
      BY <2>1, <2>2 DEF LibraryInv, Waits
    <3> QED BY <2>1, <3>1, <3>2 DEF TypeOK
  <2> QED BY <2>1, <2>2 DEF WaitsAreWatched, OpInv
<1> QED BY <1>1, ConnectionIsGood, PTL

\* callback_ is called with results of its own query only, and idleCb_ after it
\* only when it has had all the result sets.
THEOREM QueriesGetAllResults == Spec => []ResultsAreComplete
<1>1. Good => ResultsAreComplete
  BY DEF Good
<1> QED BY <1>1, ConnectionIsGood, PTL

\* A caller that waits for okCallback_ and idleCb_ meets no failing assert and no
\* null MYSQL.
THEOREM CarefulCallersAreSafe == Spec => []CarefulIsSafe
<1>1. Good => CarefulIsSafe
  BY DEF Good
<1> QED BY <1>1, ConnectionIsGood, PTL
(***************************************************************************)
(* MySQLConnector implements DbConnection.                                 *)
(***************************************************************************)
\* A step that changes nothing DbConnection knows of, apart from ending the
\* process.
Quiet == /\ UNCHANGED <<status_, called, callback_, got, idled>>
         /\ op = "gone" <=> op' = "gone"

\* What DbConnection does not see is a stutter, or the end of the process.
LEMMA QuietImplements ==
  ASSUME ended = "no", status_ # "None", Quiet
  PROVE  Abstract!Die \/ UNCHANGED Abstract!dbVars
BY DEF Quiet, Abstract!Die, Abstract!Ends, Abstract!dbVars

\* init() connects.
LEMMA InitInLoopImplements ==
  ASSUME Good, InitInLoop
  PROVE  Abstract!Connect
<1>1. /\ ended = "no" /\ funcs # <<>> /\ Head(funcs) = Closure("init")
      /\ status_' = "Connecting"
      /\ UNCHANGED <<callback_, called, got, idled>>
      /\ \E outcome : Started("connect", outcome)
  BY DEF InitInLoop, Dequeue, history
<1>2. TypeOK /\ UnbornInv /\ QueueInv
  BY <1>1, AliveFacts
<1>3. status_ = "None" /\ op = "none"
  BY <1>1, <1>2, TailOfQueue DEF UnbornInv, Waiting, TypeOK, QueueInv
<1>4. op' # "gone"
  BY <1>1, <1>2, StartOutcome DEF Ops
<1> QED BY <1>1, <1>3, <1>4 DEF Abstract!Connect

\* Setting the character set establishes the connection, or is not finished.
LEMMA StartSetCharacterSetImplements ==
  ASSUME Good, StartSetCharacterSet
  PROVE  Abstract!Establish \/ Abstract!Die \/ UNCHANGED Abstract!dbVars
<1>1. /\ ended = "no" /\ lpc = "charset"
      /\ UNCHANGED <<callback_, called, got, idled>>
  BY DEF StartSetCharacterSet, history
<1>2. PICK outcome :
        /\ Started("charset", outcome)
        /\ \/ status_' = "SettingCharacterSet" /\ ended' = "no"
           \/ status_' = "Ok" /\ ended' = "no"
           \/ status_' = status_
  BY <1>1 DEF StartSetCharacterSet, End, Goto
<1>3. TypeOK /\ PlaceInv
  BY <1>1, AliveFacts
<1>4. op = "none" /\ status_ = "Connecting" /\ op' # "gone"
  BY <1>1, <1>2, <1>3, StartOutcome DEF PlaceInv, Ops
<1>5. CASE status_' = "Ok" /\ ended' = "no"
  BY <1>1, <1>4, <1>5 DEF Abstract!Establish
<1>6. CASE status_' = "SettingCharacterSet" /\ ended' = "no"
  BY <1>1, <1>4, <1>6 DEF Abstract!dbVars
<1>7. CASE status_' = status_
  BY <1>1, <1>4, <1>7, QuietImplements DEF Quiet
<1> QED BY <1>2, <1>5, <1>6, <1>7

\* Both ways a connection that is not established goes on.
LEMMA ContinueImplements ==
  ASSUME Good, ended = "no", NEW status,
         ContinueConnect(status) \/ ContinueSetCharacterSet(status),
         UNCHANGED <<callback_, called, got, idled>>
  PROVE  Abstract!Establish \/ Abstract!Die \/ UNCHANGED Abstract!dbVars
<1>1. PICK o, outcome :
        /\ o \in {"connect", "charset"} /\ Continued(o, status, outcome)
        /\ (status_' = "Ok" /\ ended' = "no") \/ status_' = status_
  BY DEF ContinueConnect, ContinueSetCharacterSet, End, Goto
<1>2. status_ \in {"Connecting", "SettingCharacterSet"}
  BY DEF ContinueConnect, ContinueSetCharacterSet
<1>3. TypeOK /\ OpInv
  BY AliveFacts
<1>4. op # "gone" /\ op' # "gone"
  BY <1>1, <1>2, <1>3, ContinueOutcome DEF OpInv, Ops
<1>5. CASE status_' = "Ok" /\ ended' = "no"
  BY <1>2, <1>4, <1>5 DEF Abstract!Establish
<1>6. CASE status_' = status_
  BY <1>2, <1>4, <1>6, QuietImplements DEF Quiet
<1> QED BY <1>1, <1>5, <1>6

\* An event goes on with what was begun.
LEMMA HandleEventImplements ==
  ASSUME Good, HandleEvent
  PROVE  \/ Abstract!Establish \/ Abstract!Close \/ Abstract!Die
         \/ UNCHANGED Abstract!dbVars
<1>1. ended = "no" /\ UNCHANGED <<callback_, called, got, idled>>
  BY DEF HandleEvent, history
<1>2. PICK revents \in SUBSET events_ :
        \/ ContinueConnect(revents \cap waitStatus_)
        \/ ContinueSetCharacterSet(revents \cap waitStatus_)
        \/ status_ = "Ok" /\ HandleCmd(revents \cap waitStatus_)
  BY DEF HandleEvent
<1> DEFINE status == revents \cap waitStatus_
<1> HIDE DEF status
<1>3. CASE ContinueConnect(status) \/ ContinueSetCharacterSet(status)
  BY <1>1, <1>3, ContinueImplements
<1>4. CASE status_ = "Ok" /\ HandleCmd(status)
  <2>1. TypeOK /\ OpInv /\ op # "gone"
    BY <1>1, <1>4, AliveFacts DEF OpInv
  <2>2. CASE \E o \in {"query", "store", "next"} : \E next : ContinueCmd(o, status, next)
    <3>1. PICK o, outcome : o \in {"query", "store", "next"} /\ Continued(o, status, outcome)
      BY <2>2 DEF ContinueCmd
    <3>2. op' # "gone"
      BY <2>1, <3>1, ContinueOutcome DEF Ops
    <3>3. status_' = status_
      BY <2>2 DEF ContinueCmd
    <3> QED BY <1>1, <1>4, <2>1, <3>2, <3>3, QuietImplements DEF Quiet
  <2>3. CASE HandleClosed /\ UNCHANGED op
    <3>1. status_' = "Bad" /\ ended' = ended
      BY <2>3 DEF HandleClosed, Goto
    <3> QED BY <1>1, <1>4, <2>1, <2>3, <3>1 DEF Abstract!Close
  <2> QED BY <1>4, <2>2, <2>3 DEF HandleCmd
<1> QED BY <1>2, <1>3, <1>4 DEF status

\* So does a timeout, whichever wait it was set for.
LEMMA HandleTimeoutImplements ==
  ASSUME Good, HandleTimeout
  PROVE  Abstract!Establish \/ Abstract!Die \/ UNCHANGED Abstract!dbVars
<1>1. ended = "no" /\ UNCHANGED <<callback_, called, got, idled>>
  BY DEF HandleTimeout, history
<1>2. CASE ContinueConnect({"timeout"}) \/ ContinueSetCharacterSet({"timeout"})
  BY <1>1, <1>2, ContinueImplements
<1>3. CASE status_ \in {"Ok", "Bad"} /\ UNCHANGED <<conn, lib>>
  BY <1>1, <1>3, QuietImplements DEF Quiet, conn, lib
<1> QED BY <1>2, <1>3 DEF HandleTimeout

\* A result is delivered to the query that was begun.
LEMMA GetResultImplements ==
  ASSUME Good, GetResult
  PROVE  Abstract!Deliver \/ Abstract!Die
<1>1. /\ ended = "no" /\ lpc = "result"
      /\ UNCHANGED <<status_, callback_, op, called, total, idled>>
  BY DEF GetResult, conn, lib
<1>2. TypeOK /\ PlaceInv /\ OpInv /\ AccountInv
  BY <1>1, AliveFacts
<1>3. isWorking_ /\ callback_ \in Queries /\ callback_ # NoQuery /\ status_ # "None"
  BY <1>1, <1>2 DEF PlaceInv, Answering, TypeOK, OpInv
<1>4. CASE op = "gone"
  BY <1>1, <1>3, <1>4 DEF GetResult, End, Abstract!Die, Abstract!Ends
<1>5. CASE op # "gone"
  <2>1. ended' = "no" /\ got' = [got EXCEPT ![callback_] = @ + 1]
    BY <1>1, <1>3, <1>5 DEF GetResult, Goto
  <2>2. /\ got[callback_] \in Nat /\ total[callback_] \in 0 .. MaxSets
        /\ sets \in 1 .. total[callback_] /\ got[callback_] + sets = total[callback_]
    BY <1>1, <1>2, <1>3, BoundsAssumption DEF AccountInv, TypeOK
  <2>3. got[callback_] < MaxSets
    BY <2>2, BoundsAssumption
  <2> QED BY <1>1, <1>3, <1>5, <2>1, <2>3 DEF Abstract!Deliver
<1> QED BY <1>4, <1>5

\* More results leave the query begun.
LEMMA MoreResultsImplements ==
  ASSUME Good, MoreResults
  PROVE  Abstract!Finish \/ Abstract!Die \/ UNCHANGED Abstract!dbVars
<1>1. ended = "no" /\ lpc = "more" /\ UNCHANGED <<status_, called, got>>
  BY DEF MoreResults
<1>2. TypeOK /\ PlaceInv /\ OpInv /\ AccountInv
  BY <1>1, AliveFacts
<1>3. isWorking_ /\ callback_ \in Queries /\ callback_ # NoQuery /\ status_ # "None"
  BY <1>1, <1>2 DEF PlaceInv, Answering, TypeOK, OpInv
<1>4. CASE UNCHANGED <<callback_, idled>> /\ (op = "gone" <=> op' = "gone")
  BY <1>1, <1>3, <1>4, QuietImplements DEF Quiet
<1>5. CASE /\ op # "gone" /\ sets = 1 /\ callback_' = NoQuery
           /\ idled' = idled \cup {callback_} /\ UNCHANGED <<ended, op>>
  <2>1. /\ got[callback_] \in Nat /\ total[callback_] \in Nat /\ sets \in Nat
        /\ sets \in 1 .. total[callback_] /\ got[callback_] + sets = total[callback_] + 1
    BY <1>1, <1>2, <1>3, BoundsAssumption DEF AccountInv, TypeOK
  <2>2. got[callback_] > 0
    BY <1>5, <2>1
  <2> QED BY <1>1, <1>3, <1>5, <2>2 DEF Abstract!Finish
<1>6. (\E outcome : Started("next", outcome)) => op' # "gone"
  BY <1>2, StartOutcome DEF Ops
<1> QED BY <1>4, <1>5, <1>6 DEF MoreResults, Goto

\* execSqlInLoop begins a query.
LEMMA ExecImplements ==
  ASSUME Good, NEW q \in Queries, NEW rest, ended = "no",
         status_ \in {"Ok", "Bad"}, q \notin idled,
         called' = called \cup {q}, ExecSqlInLoop(q, rest)
  PROVE  \/ Abstract!Die \/ Abstract!AskAndDie(q)
         \/ Abstract!Begin(q) \/ Abstract!AskAndBegin(q)
<1>1. UNCHANGED <<status_, got, idled>> /\ TypeOK
  BY AliveFacts DEF ExecSqlInLoop
<1>2. CASE /\ ended' = IF isWorking_ THEN "assert" ELSE "null"
           /\ UNCHANGED <<callback_, lib>>
  <2>1. Abstract!Ends
    BY <1>1, <1>2 DEF Abstract!Ends, lib
  <2> QED BY <2>1 DEF Abstract!AskAndDie
<1>3. CASE ~isWorking_ /\ op # "gone" /\ callback_' = q /\ op' # "gone"
  <2>1. callback_ = NoQuery
    BY <1>1, <1>3 DEF TypeOK
  <2>2. Abstract!Begins(q)
    BY <1>1, <1>3, <2>1 DEF Abstract!Begins
  <2> QED BY <2>2 DEF Abstract!Begin, Abstract!AskAndBegin
<1>4. StartQuery(q, rest) => op' # "gone"
  BY <1>1, StartOutcome DEF StartQuery, Ops
<1>5. Started("query", "fail") => op' # "gone"
  BY <1>1, StartOutcome DEF Ops
<1> QED BY <1>2, <1>3, <1>4, <1>5 DEF ExecSqlInLoop, StartQuery

\* A disconnect is final.
LEMMA DisconnectedImplements ==
  ASSUME Good, ended = "no", Disconnected
  PROVE  Abstract!Disconnect \/ UNCHANGED Abstract!dbVars
<1>1. /\ status_' = "Bad" /\ op' = "gone"
      /\ UNCHANGED <<callback_, ended, called, got, idled>>
  BY DEF Disconnected, history
<1>2. op = "gone" => status_ = "Bad"
  BY AliveFacts DEF OpInv
<1> QED BY <1>1, <1>2 DEF Abstract!Disconnect, Abstract!dbVars
\* Every step is a step of DbConnection or a stutter.
LEMMA StepImplements ==
  ASSUME Good, [Next]_vars
  PROVE  [Abstract!DbNext]_Abstract!dbVars
<1> USE DEF Abstract!DbNext
<1>1. CASE InitInLoop
  BY <1>1, InitInLoopImplements
<1>2. CASE StartSetCharacterSet
  BY <1>2, StartSetCharacterSetImplements
<1>3. CASE HandleEvent
  BY <1>3, HandleEventImplements
<1>4. CASE HandleTimeout
  BY <1>4, HandleTimeoutImplements
<1>5. CASE GetResult
  BY <1>5, GetResultImplements
<1>6. CASE MoreResults
  BY <1>6, MoreResultsImplements
<1>7. CASE UpdateDispatcher
  <2>1. ended = "no" /\ lpc = "update" /\ Quiet
    BY <1>7 DEF UpdateDispatcher, Quiet, conn, lib, history
  <2>2. status_ # "None"
    BY <2>1, AliveFacts DEF UnbornInv
  <2> QED BY <2>1, <2>2, QuietImplements
<1>8. CASE StartStoreResult
  <2>1. /\ ended = "no" /\ lpc = "store" /\ \E outcome : Started("store", outcome)
        /\ UNCHANGED <<status_, callback_, called, got, idled>>
    BY <1>8 DEF StartStoreResult, history
  <2>2. status_ # "None" /\ op # "gone" /\ TypeOK
    BY <2>1, AliveFacts DEF UnbornInv, PlaceInv
  <2>3. op' # "gone"
    BY <2>1, <2>2, StartOutcome DEF Ops
  <2> QED BY <2>1, <2>2, <2>3, QuietImplements DEF Quiet
<1>9. CASE GetResultInLoop \/ OutputErrorInLoop
  <2>1. Quiet /\ ended = "no"
    BY <1>9 DEF GetResultInLoop, OutputErrorInLoop, Dequeue, Quiet, conn, lib, history
  <2>2. status_ # "None"
    BY <1>9, Dequeued, InitIsOther DEF GetResultInLoop, OutputErrorInLoop
  <2> QED BY <2>1, <2>2, QuietImplements
<1>10. CASE DisconnectInLoop \/ CallbackDisconnects
  <2>1. ended = "no" /\ Disconnected
    BY <1>10 DEF DisconnectInLoop, CallbackDisconnects, Dequeue, InCallback
  <2> QED BY <2>1, DisconnectedImplements
<1>11. ASSUME NEW q \in Queries, ExecQueued(q)
       PROVE  Abstract!DbNext
  <2>1. /\ ended = "no" /\ funcs # <<>> /\ Head(funcs) = Exec(q)
        /\ ExecSqlInLoop(q, Tail(funcs)) /\ called' = called
    BY <1>11 DEF ExecQueued, Dequeue
  <2>2. TypeOK /\ QueueInv
    BY <2>1, AliveFacts
  <2>3. Exec(q) \in Waiting
    BY <2>1, <2>2, TailOfQueue DEF TypeOK, QueueInv, Waiting
  <2>4. q \in called /\ q \notin idled /\ status_ \in {"Ok", "Bad"}
    BY <2>2, <2>3 DEF QueueInv
  <2> QED BY <2>1, <2>4, ExecImplements
<1>12. ASSUME NEW q \in Queries, CallbackExecs(q)
       PROVE  Abstract!DbNext
  <2>1. /\ ended = "no" /\ q \notin called /\ called' = called \cup {q}
        /\ ExecSqlInLoop(q, funcs) /\ status_ \in {"Ok", "Bad"}
    BY <1>12 DEF CallbackExecs, InCallback, MayExec, Idle
  <2>2. q \notin idled
    BY <2>1, AliveFacts DEF TypeOK
  <2> QED BY <2>1, <2>2, ExecImplements
<1>13. ASSUME NEW q \in Queries, CallExecSql(q)
       PROVE  Abstract!DbNext
  <2>1. Abstract!Ask(q)
    BY <1>13 DEF CallExecSql, Abstract!Ask, conn, lib
  <2> QED BY <2>1
<1>14. CASE CallDisconnect \/ CallbackReturns \/ ServerAnswers \/ ServerCloses
  <2>1. UNCHANGED <<status_, called, callback_, got, idled, op, ended>>
    BY <1>14
    DEF CallDisconnect, CallbackReturns, ServerAnswers, ServerCloses, conn, lib,
        history, Goto, Return
  <2> QED BY <2>1 DEF Abstract!dbVars
<1>15. CASE UNCHANGED vars
  BY <1>15 DEF vars, conn, lib, history, Abstract!dbVars
<1> HIDE DEF Abstract!DbNext
<1>16. CASE LoopStep
  BY <1>1, <1>2, <1>3, <1>4, <1>5, <1>6, <1>7, <1>8, <1>9, <1>10, <1>11, <1>14, <1>16
  DEF LoopStep
<1>17. CASE \/ CallbackDisconnects \/ CallDisconnect \/ ServerAnswers \/ ServerCloses
  BY <1>10, <1>14, <1>17
<1>18. CASE \E q \in Queries : CallbackExecs(q) \/ CallExecSql(q)
  BY <1>12, <1>13, <1>18
<1> QED BY <1>15, <1>16, <1>17, <1>18 DEF Next

\* MySQLConnector is a DbConnection: one query at a time gets results, status_ only
\* moves forward, and after disconnect() or the end of the process no query is begun
\* and no callback called, whatever timers and queued functions are left.
THEOREM ConnectorImplementsDbConnection == Spec => ImplementsDbConnection
<1>1. Init => Abstract!DbInit
  BY DEF Init, Abstract!DbInit
<1>2. Good /\ [Next]_vars => [Abstract!DbNext]_Abstract!dbVars
  BY StepImplements
<1> QED BY <1>1, <1>2, ConnectionIsGood, PTL DEF Spec, ImplementsDbConnection, Abstract!DbSpec
=============================================================================
