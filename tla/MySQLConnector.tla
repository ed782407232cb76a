--------------------------- MODULE MySQLConnector ---------------------------
(***************************************************************************)
(* MySQLImpl/MySQLConnector.cpp: one asynchronous MySQL connection driven  *)
(* by an event loop over libmariadb's non-blocking calls.  Other threads   *)
(* reach it only through the loop's queue (modules EventLoop and FifoQueue *)
(* show that a queued function arrives); every handler runs on the loop    *)
(* thread.  A handler that calls into libmariadb several times, or into    *)
(* user code, is several steps of lpc, between which no other handler of   *)
(* this connection runs.                                                   *)
(*                                                                         *)
(* External: libmariadb, the socket and the server.  A call _start or      *)
(* _cont finishes, fails, or suspends the operation and names what it      *)
(* waits for; a _cont of an operation that is not suspended fails          *)
(* (CR_COMMANDS_OUT_OF_SYNC); one that is resumed by a timeout fails,      *)
(* except that a connect may turn to the host's next address.              *)
(*                                                                         *)
(* Every ABSL_LOG(FATAL) ends the process: what the code does after one is *)
(* unreachable, and `ended' tells how the process ended.  asserts are on   *)
(* in both build types (CMakeLists.txt never defines NDEBUG).              *)
(***************************************************************************)
EXTENDS Naturals, Sequences, FiniteSetsExt

CONSTANTS
  Queries,         \* the calls of execSql
  NoQuery,
  MaxSets,         \* bound: result sets of a query
  MaxWaits,        \* bound: how often libmariadb suspends
  ConnectAtOnce,   \* whether mysql_real_connect_start may finish at once
  ServerMayClose,  \* whether the server may close the connection
  Careful          \* whether callers use a connection only when it is idle and Ok:
                   \* {TRUE}, {FALSE} or both

ASSUME QueriesAssumption == NoQuery \notin Queries

ASSUME BoundsAssumption == MaxSets \in Nat \ {0} /\ MaxWaits \in Nat

ASSUME SwitchesAssumption ==
  {ConnectAtOnce, ServerMayClose} \cup Careful \subseteq BOOLEAN

VARIABLES
  status_, execStatus_, waitStatus_, isWorking_, callback_,
  characterSet_,   \* whether a client_encoding was given
  events_, state_, \* of eventDispatcherPtr_; state_ is "null" before init
  funcs,           \* this connection's functions in the loop's queue
  timers,          \* its pending timeouts, each named by the wait it is for
  lpc,             \* where the loop thread is inside a handler
  tail,            \* the handler ends with setEventDispatcher
  ended,           \* "no", "fatal", "assert" or "null": the process's end
  op,              \* external: the suspended libmariadb operation
  sock,            \* external: what the socket has to read
  served, sets,    \* external: the query being answered, its sets to come
  waitNo,          \* the number of suspensions so far
  called,          \* queries for which execSql was called
  got,             \* history: results handed to each query's callback
  total,           \* history: result sets of each query
  idled,           \* history: queries after which idleCb_ was called
  careful          \* the callers of this behaviour are careful

conn    == <<status_, execStatus_, isWorking_, callback_, characterSet_>>
disp    == <<events_, state_>>
lib     == <<waitStatus_, op, sock, served, sets, waitNo>>
history == <<called, got, total, idled>>
vars == <<conn, disp, lib, funcs, timers, lpc, tail, ended, history, careful>>

Statuses == {"None", "Connecting", "SettingCharacterSet", "Ok", "Bad"}

Ops == {"connect", "charset", "query", "store", "next"}

Exec(q)   == <<"exec", q>>
Closure(f) == <<f, NoQuery>>
Closures  == {Exec(q) : q \in Queries}
               \cup {Closure(f) : f \in {"init", "getResult", "outputError",
                                         "disconnect"}}

TypeOK ==
  /\ status_ \in Statuses
  /\ execStatus_ \in {"None", "RealQuery", "StoreResult", "NextResult"}
  /\ waitStatus_ \subseteq {"read", "write", "timeout"}
  /\ isWorking_ \in BOOLEAN
  /\ callback_ \in Queries \cup {NoQuery}
  /\ isWorking_ <=> callback_ # NoQuery
  /\ characterSet_ \in BOOLEAN
  /\ events_ \subseteq {"read", "write"}
  /\ state_ \in {"null", "kNew", "kAdded", "kDeleted"}
  /\ state_ = "null" => status_ \in {"None", "Connecting"}
  /\ events_ # {} => state_ = "kAdded"
  /\ funcs \in Seq(Closures)
  /\ timers \subseteq 1 .. waitNo
  /\ lpc \in {"poll", "charset", "okCallback", "store", "result", "callback",
              "more", "idle", "update", "closeCallback"}
  /\ tail \in BOOLEAN
  /\ ended \in {"no", "fatal", "assert", "null"}
  /\ op \in Ops \cup {"none", "gone"}
  /\ sock \in {"quiet", "data", "closed"}
  /\ served \in Queries \cup {NoQuery}
  /\ sets \in 0 .. MaxSets
  /\ waitNo \in 0 .. MaxWaits
  /\ called \subseteq Queries
  /\ got \in [Queries -> 0 .. MaxSets]
  /\ total \in [Queries -> 0 .. MaxSets]
  /\ idled \subseteq called /\ careful \in Careful

Init ==
  /\ status_ = "None" /\ execStatus_ = "None" /\ waitStatus_ = {}
  /\ isWorking_ = FALSE /\ callback_ = NoQuery
  /\ characterSet_ \in BOOLEAN
  /\ events_ = {} /\ state_ = "null"
  /\ funcs = <<Closure("init")>>
  /\ timers = {}
  /\ lpc = "poll" /\ tail = FALSE /\ ended = "no"
  /\ op = "none" /\ sock = "quiet" /\ served = NoQuery /\ sets = 0
  /\ waitNo = 0
  /\ called = {} /\ idled = {}
  /\ careful \in Careful
  /\ got = [q \in Queries |-> 0]
  /\ total = [q \in Queries |-> 0]

(***************************************************************************)
(* External: libmariadb.                                                   *)
(***************************************************************************)
\* What an operation may wait for: connecting, setting the character set and
\* sending a query write to the socket before they read.  The timeouts that
\* init sets make every wait carry MYSQL_WAIT_TIMEOUT.
Waits(o) ==
  {{"read", "timeout"}}
    \cup (IF o \in {"connect", "charset", "query"} THEN {{"write", "timeout"}}
                                                   ELSE {})

\* The last suspension within the bound is one that can finish.
Suspend(o) ==
  /\ waitNo < MaxWaits
  /\ waitNo' = waitNo + 1
  /\ op' = o
  /\ waitStatus_' \in Waits(o)
  /\ waitNo' = MaxWaits => "read" \in waitStatus_'

Finish == op' = "none" /\ waitStatus_' = {} /\ UNCHANGED waitNo

\* The outcomes of mysql_..._start.
Started(o, outcome) ==
  /\ \/ outcome = "wait" /\ Suspend(o)
     \/ outcome \in {"done", "fail"} /\ Finish
  /\ UNCHANGED sock

\* The outcomes of mysql_..._cont for what has happened, status.
Continued(o, status, outcome) ==
  \/ /\ op # o
     /\ outcome = "fail" /\ Finish /\ UNCHANGED sock
  \/ /\ op = o /\ "timeout" \in status
     /\ \/ outcome = "fail" /\ Finish
        \/ outcome = "wait" /\ o = "connect" /\ Suspend(o)
     /\ UNCHANGED sock
  \/ /\ op = o /\ "timeout" \notin status /\ "read" \notin status
     /\ outcome = "wait" /\ Suspend(o) /\ UNCHANGED sock
  \/ /\ op = o /\ "read" \in status /\ sock = "closed"
     /\ outcome = "fail" /\ Finish /\ UNCHANGED sock
  \/ /\ op = o /\ "read" \in status /\ sock = "data"
     /\ \/ outcome = "wait" /\ Suspend(o)
        \/ outcome \in {"done", "fail"} /\ Finish
     /\ sock' = "quiet"

\* The server answers queries in turn: one that is sent while sets of another are
\* to come does not replace them.  (libmariadb may refuse it, too.)
Sent(q) ==
  IF sets = 0
    THEN /\ served' = q
         /\ sets' \in 1 .. MaxSets
         /\ total' = [total EXCEPT ![q] = sets']
    ELSE UNCHANGED <<served, sets, total>>

\* The server answers what it was asked, or closes the connection.
ServerAnswers ==
  /\ ended = "no"
  /\ op \in Ops /\ sock = "quiet"
  /\ sock' = "data"
  /\ UNCHANGED <<conn, disp, waitStatus_, op, served, sets, waitNo, funcs,
                 timers, lpc, tail, ended, history>>

ServerCloses ==
  /\ ServerMayClose
  /\ ended = "no"
  /\ status_ = "Ok" /\ op # "gone" /\ sock # "closed"
  /\ sock' = "closed"
  /\ UNCHANGED <<conn, disp, waitStatus_, op, served, sets, waitNo, funcs,
                 timers, lpc, tail, ended, history>>

(***************************************************************************)
(* The dispatcher, as EventDispatcher and EpollPoller keep it.             *)
(***************************************************************************)
\* EventDispatcher::update with mask e.
Update(e) ==
  /\ events_' = e
  /\ state_' = IF state_ = "kAdded" /\ e = {} THEN "kDeleted" ELSE "kAdded"

\* disableAll and then remove, which finds state_ kAdded or kDeleted.
DisableAllAndRemove == events_' = {} /\ state_' = "kNew"

\* A mutant of SetEventDispatcher: reading is disabled when it is not waited for.
SetEventDispatcherExactly ==
  LET w == waitStatus_'
      e == w \ {"timeout"}
  IN /\ IF e = events_ THEN UNCHANGED disp ELSE Update(e)
     /\ timers' = IF "timeout" \in w THEN timers \cup {waitNo'} ELSE timers

\* Reading stays enabled once it is; every timeout gets a timer of its own
\* that nothing cancels.  mysql_get_timeout_value needs the MYSQL handle.
SetEventDispatcher ==
  LET w == waitStatus_'
      e == (events_ \ {"write"}) \cup (w \ {"timeout"})
  IN /\ IF e = events_ THEN UNCHANGED disp ELSE Update(e)
     /\ timers' = IF "timeout" \in w THEN timers \cup {waitNo'} ELSE timers

\* The loop thread goes on inside the current handler.
Goto(l) == lpc' = l /\ UNCHANGED ended
\* ABSL_LOG(FATAL), a failing assert, a null pointer: the process is gone.
End(how) == ended' = how /\ UNCHANGED lpc

\* The end of getResult's callers.
Return == Goto(IF tail THEN "update" ELSE "poll")

(***************************************************************************)
(* Handlers.                                                               *)
(***************************************************************************)
Dequeue(f) ==
  /\ ended = "no" /\ lpc = "poll"
  /\ funcs # <<>> /\ Head(funcs) = f

\* The function that init() queues.  A connect that finishes at once leaves
\* status_ Connecting and nothing to wait for.
InitInLoop ==
  /\ Dequeue(Closure("init"))
  /\ funcs' = Tail(funcs)
  /\ status_' = "Connecting"
  /\ \E outcome \in {"wait", "fail"}
                      \cup (IF ConnectAtOnce THEN {"done"} ELSE {}) :
        /\ Started("connect", outcome)
        /\ IF outcome = "fail"
             THEN End("fatal") /\ UNCHANGED state_
             ELSE Goto("update") /\ state_' = "kNew"
  /\ UNCHANGED <<execStatus_, isWorking_, callback_, characterSet_, events_,
                 served, sets, timers, tail, history>>

\* The call of setEventDispatcher that ends a handler.
UpdateDispatcher ==
  /\ ended = "no" /\ lpc = "update"
  /\ UNCHANGED <<lib, conn, funcs, tail, history>>
  /\ IF op = "gone" /\ "timeout" \in waitStatus_
       THEN End("null") /\ UNCHANGED <<disp, timers>>
       ELSE SetEventDispatcher /\ Goto("poll")

\* startSetCharacterSet.
StartSetCharacterSet ==
  /\ ended = "no" /\ lpc = "charset"
  /\ \E outcome \in {"wait", "done", "fail"} :
        /\ Started("charset", outcome)
        /\ \/ outcome = "wait" /\ status_' = "SettingCharacterSet" /\ Goto("update")
           \/ outcome = "done" /\ status_' = "Ok" /\ Goto("okCallback")
           \/ outcome = "fail" /\ UNCHANGED status_ /\ End("fatal")
  /\ UNCHANGED <<execStatus_, isWorking_, callback_, characterSet_, disp,
                 served, sets, funcs, timers, tail, history>>

\* A mutant of ContinueConnect: no setEventDispatcher after another wait.
ContinueConnectUnwatched(status) ==
  /\ status_ = "Connecting"
  /\ \E outcome \in {"wait", "done", "fail"} :
        /\ Continued("connect", status, outcome)
        /\ \/ outcome = "wait" /\ UNCHANGED status_ /\ Goto("poll")
           \/ outcome = "done" /\ characterSet_ /\ UNCHANGED status_ /\ Goto("charset")
           \/ outcome = "done" /\ ~characterSet_ /\ status_' = "Ok" /\ Goto("okCallback")
           \/ outcome = "fail" /\ UNCHANGED status_ /\ End("fatal")
  /\ UNCHANGED <<execStatus_, isWorking_, disp, tail>>

\* The parts of handleEvent and handleTimeout for each status_.
ContinueConnect(status) ==
  /\ status_ = "Connecting"
  /\ \E outcome \in {"wait", "done", "fail"} :
        /\ Continued("connect", status, outcome)
        /\ \/ outcome = "wait" /\ UNCHANGED status_ /\ Goto("update")
           \/ outcome = "done" /\ characterSet_ /\ UNCHANGED status_ /\ Goto("charset")
           \/ outcome = "done" /\ ~characterSet_ /\ status_' = "Ok" /\ Goto("okCallback")
           \/ outcome = "fail" /\ UNCHANGED status_ /\ End("fatal")
  /\ UNCHANGED <<execStatus_, isWorking_, disp, tail>>

ContinueSetCharacterSet(status) ==
  /\ status_ = "SettingCharacterSet"
  /\ \E outcome \in {"wait", "done", "fail"} :
        /\ Continued("charset", status, outcome)
        /\ \/ outcome = "wait" /\ UNCHANGED status_ /\ Goto("update")
           \/ outcome = "done" /\ status_' = "Ok" /\ Goto("okCallback")
           \/ outcome = "fail" /\ UNCHANGED status_ /\ End("fatal")
  /\ UNCHANGED <<execStatus_, isWorking_, disp, tail>>

\* handleClosed, called when the connection is not yet Bad.
HandleClosed ==
  /\ status_' = "Bad"
  /\ DisableAllAndRemove
  /\ Goto("closeCallback")

\* One branch of handleCmd: resume operation o and go on at `next'.
ContinueCmd(o, status, next) ==
  /\ \E outcome \in {"wait", "done", "fail"} :
        /\ Continued(o, status, outcome)
        /\ \/ outcome = "wait" /\ UNCHANGED execStatus_ /\ Goto("update")
           \/ outcome = "done" /\ UNCHANGED execStatus_ /\ Goto(next)
           \/ outcome = "fail" /\ execStatus_' = "None" /\ End("fatal")
  /\ tail' = TRUE
  /\ UNCHANGED <<status_, disp>>

\* handleCmd.  The result that mysql_store_result_cont finishes leaves
\* execStatus_ at StoreResult.
HandleCmd(status) ==
  \/ execStatus_ = "RealQuery"   /\ ContinueCmd("query", status, "store")
  \/ execStatus_ = "StoreResult" /\ ContinueCmd("store", status, "result")
  \/ execStatus_ = "NextResult"  /\ ContinueCmd("next", status, "store")
  \/ /\ execStatus_ = "None" /\ waitStatus_ = {}
     /\ HandleClosed
     /\ UNCHANGED <<execStatus_, waitStatus_, op, sock, waitNo, tail>>

\* handleEvent, for what poll reports of the enabled events.
HandleEvent ==
  /\ ended = "no" /\ lpc = "poll" /\ state_ = "kAdded"
  /\ \E revents \in SUBSET events_ :
       /\ revents # {}
       /\ "read" \in revents => sock # "quiet"
       /\ "read" \in events_ /\ sock # "quiet" => "read" \in revents
       /\ LET status == revents \cap waitStatus_
          IN \/ ContinueConnect(status)
             \/ ContinueSetCharacterSet(status)
             \/ status_ = "Ok" /\ HandleCmd(status) /\ UNCHANGED isWorking_
  /\ UNCHANGED <<callback_, characterSet_, served, sets, funcs, timers, history>>

\* handleTimeout.  Timers fire in the order they were set: all three timeout
\* options have the same value.
HandleTimeout ==
  /\ ended = "no" /\ lpc = "poll" /\ timers # {}
  /\ timers' = timers \ {Min(timers)}
  /\ \/ ContinueConnect({"timeout"})
     \/ ContinueSetCharacterSet({"timeout"})
     \/ /\ status_ \in {"Ok", "Bad"}
        /\ UNCHANGED <<conn, disp, lib, lpc, tail, ended>>
  /\ UNCHANGED <<callback_, characterSet_, served, sets, funcs, history>>

\* A mutant of StartStoreResult: execStatus_ is None also while it waits.
StartStoreResultNone ==
  /\ ended = "no" /\ lpc = "store"
  /\ execStatus_' = "None"
  /\ \E outcome \in {"wait", "done", "fail"} :
        /\ Started("store", outcome)
        /\ \/ outcome = "wait" /\ Return
           \/ outcome = "done" /\ Goto("result")
           \/ outcome = "fail" /\ End("fatal")
  /\ UNCHANGED <<status_, isWorking_, callback_, characterSet_, disp, served,
                 sets, funcs, timers, tail, history>>

\* startStoreResult(false).
StartStoreResult ==
  /\ ended = "no" /\ lpc = "store"
  /\ \E outcome \in {"wait", "done", "fail"} :
        /\ Started("store", outcome)
        /\ \/ outcome = "wait" /\ execStatus_' = "StoreResult" /\ Return
           \/ outcome = "done" /\ execStatus_' = "None" /\ Goto("result")
           \/ outcome = "fail" /\ execStatus_' = "None" /\ End("fatal")
  /\ UNCHANGED <<status_, isWorking_, callback_, characterSet_, disp, served,
                 sets, funcs, timers, tail, history>>

\* getResult up to the call of callback_.
GetResult ==
  /\ ended = "no" /\ lpc = "result"
  /\ UNCHANGED <<conn, disp, lib, funcs, timers, tail, called, total, idled>>
  /\ IF op = "gone" THEN End("null") /\ UNCHANGED got
     ELSE IF ~isWorking_ THEN Return /\ UNCHANGED got
     ELSE /\ got' = [got EXCEPT ![callback_] = @ + 1]
          /\ Goto("callback")

\* A mutant of MoreResults: isWorking_ stays set after the last result.
MoreResultsKeepsWorking ==
  /\ ended = "no" /\ lpc = "more" /\ op # "gone" /\ sets = 1
  /\ callback_' = NoQuery
  /\ idled' = idled \cup {callback_}
  /\ sets' = 0
  /\ Goto("idle")
  /\ UNCHANGED <<status_, characterSet_, disp, served, funcs, timers, tail, called,
                 got, total, isWorking_, execStatus_, waitStatus_, op, sock, waitNo>>

\* getResult after callback_ has returned: the query is over, or
\* mysql_next_result_start.
MoreResults ==
  /\ ended = "no" /\ lpc = "more"
  /\ UNCHANGED <<status_, characterSet_, disp, served, funcs, timers, tail,
                 called, got, total>>
  /\ \/ /\ op = "gone"
        /\ End("null")
        /\ UNCHANGED <<execStatus_, isWorking_, callback_, idled, waitStatus_, op,
                       sock, sets, waitNo>>
     \/ /\ op # "gone" /\ sets = 1
        /\ callback_' = NoQuery /\ isWorking_' = FALSE
        /\ idled' = idled \cup {callback_}
        /\ sets' = 0
        /\ Goto("idle")
        /\ UNCHANGED <<execStatus_, waitStatus_, op, sock, waitNo>>
     \/ /\ op # "gone" /\ sets > 1
        /\ sets' = sets - 1
        /\ \E outcome \in {"wait", "done", "fail"} :
             /\ Started("next", outcome)
             /\ \/ outcome = "wait" /\ execStatus_' = "NextResult" /\ Return
                \/ outcome = "done" /\ execStatus_' = "NextResult" /\ Goto("store")
                \/ outcome = "fail" /\ execStatus_' = "None" /\ End("fatal")
        /\ UNCHANGED <<isWorking_, callback_, idled>>

\* The functions that startStoreResult(true) queues.
GetResultInLoop ==
  /\ Dequeue(Closure("getResult"))
  /\ funcs' = Tail(funcs)
  /\ tail' = FALSE
  /\ Goto("result")
  /\ UNCHANGED <<conn, disp, lib, timers, history>>

OutputErrorInLoop ==
  /\ Dequeue(Closure("outputError"))
  /\ funcs' = Tail(funcs)
  /\ Update({})
  /\ End("fatal")
  /\ UNCHANGED <<conn, lib, timers, tail, history>>

\* A mutant of StartQuery: getResult is not queued but forgotten.
StartQueryForgets(q, rest) ==
  /\ isWorking_' = TRUE /\ callback_' = q
  /\ Sent(q)
  /\ \/ /\ Started("query", "wait")
        /\ execStatus_' = "RealQuery" /\ funcs' = rest
     \/ /\ Started("store", "wait")
        /\ execStatus_' = "StoreResult" /\ funcs' = rest
     \/ /\ Started("store", "done")
        /\ execStatus_' = "None" /\ funcs' = rest

\* The state after execSqlInLoop's assignments and startQuery, when neither
\* fails at once; `rest' is the queue the handler found.
StartQuery(q, rest) ==
  /\ isWorking_' = TRUE /\ callback_' = q
  /\ Sent(q)
  /\ \/ /\ Started("query", "wait")
        /\ execStatus_' = "RealQuery" /\ funcs' = rest
     \/ /\ Started("store", "wait")
        /\ execStatus_' = "StoreResult" /\ funcs' = rest
     \/ /\ Started("store", "done")
        /\ execStatus_' = "None"
        /\ funcs' = Append(rest, Closure("getResult"))
     \/ /\ Started("store", "fail")
        /\ execStatus_' = "None"
        /\ funcs' = Append(rest, Closure("outputError"))

\* A mutant of ExecSqlInLoop: it does not look at isWorking_.
ExecSqlInLoopUnchecked(q, rest) ==
  /\ UNCHANGED <<status_, characterSet_, tail, lpc, got, idled>>
  /\ \/ /\ op = "gone"
        /\ ended' = "null"
        /\ funcs' = rest
        /\ UNCHANGED <<execStatus_, isWorking_, callback_, disp, lib, timers, total>>
     \/ /\ op # "gone"
        /\ StartQuery(q, rest)
        /\ SetEventDispatcher
        /\ UNCHANGED ended

\* execSqlInLoop with the queue it leaves behind.
ExecSqlInLoop(q, rest) ==
  /\ UNCHANGED <<status_, characterSet_, tail, lpc, got, idled>>
  /\ \/ /\ isWorking_ \/ op = "gone"
        /\ ended' = IF isWorking_ THEN "assert" ELSE "null"
        /\ funcs' = rest
        /\ UNCHANGED <<execStatus_, isWorking_, callback_, disp, lib, timers, total>>
     \/ /\ ~isWorking_ /\ op # "gone"
        /\ StartQuery(q, rest)
        /\ SetEventDispatcher
        /\ UNCHANGED ended
     \/ /\ ~isWorking_ /\ op # "gone"
        /\ isWorking_' = TRUE /\ callback_' = q
        /\ served' = q
        /\ Started("query", "fail")
        /\ execStatus_' = "RealQuery"
        /\ ended' = "fatal"
        /\ funcs' = rest
        /\ UNCHANGED <<disp, timers, sets, total>>

ExecQueued(q) ==
  /\ Dequeue(Exec(q))
  /\ ExecSqlInLoop(q, Tail(funcs))
  /\ UNCHANGED called

\* The body of disconnect, run on the loop thread.
Disconnected ==
  /\ status_' = "Bad"
  /\ DisableAllAndRemove
  /\ op' = "gone"
  /\ sock' = "quiet"
  /\ UNCHANGED <<execStatus_, isWorking_, callback_, characterSet_, waitStatus_,
                 served, sets, waitNo, timers, lpc, tail, ended, history>>

DisconnectInLoop ==
  /\ Dequeue(Closure("disconnect"))
  /\ funcs' = Tail(funcs)
  /\ Disconnected

(***************************************************************************)
(* User code: the four callbacks on the loop thread and the other threads. *)
(***************************************************************************)
\* A careful user has seen okCallback_ and waits for idleCb_.  A careless one
\* executes at any time after the connect and disconnects at any time.
Idle == /\ status_ = "Ok" /\ called = idled
        /\ \A i \in 1 .. Len(funcs) : funcs[i] # Closure("disconnect")

MayExec       == IF careful THEN Idle ELSE status_ \in {"Ok", "Bad"}
MayDisconnect == careful => Idle

\* In okCallback_, closeCallback_ and idleCb_ a user may call on; a careful one
\* does not from the result callback, which runs before isWorking_ is cleared.
InCallback ==
  /\ ended = "no"
  /\ lpc \in {"okCallback", "idle", "closeCallback", "callback"}

CallbackExecs(q) ==
  /\ InCallback
  /\ MayExec
  /\ q \notin called
  /\ called' = called \cup {q}
  /\ ExecSqlInLoop(q, funcs)

CallbackDisconnects ==
  /\ InCallback
  /\ MayDisconnect
  /\ op # "gone"
  /\ Disconnected
  /\ UNCHANGED funcs

CallbackReturns ==
  /\ InCallback
  /\ \/ lpc = "okCallback" /\ Goto("update")
     \/ lpc = "callback" /\ Goto("more")
     \/ lpc = "idle" /\ Return
     \/ lpc = "closeCallback" /\ Goto("poll")
  /\ UNCHANGED <<conn, disp, lib, funcs, timers, tail, history>>

\* execSql and disconnect (once) from another thread.
CallExecSql(q) ==
  /\ ended = "no"
  /\ MayExec
  /\ q \notin called
  /\ called' = called \cup {q}
  /\ funcs' = Append(funcs, Exec(q))
  /\ UNCHANGED <<conn, disp, lib, timers, lpc, tail, ended, got, total, idled>>

CallDisconnect ==
  /\ ended = "no"
  /\ MayDisconnect
  /\ op # "gone"
  /\ \A i \in 1 .. Len(funcs) : funcs[i] # Closure("disconnect")
  /\ funcs' = Append(funcs, Closure("disconnect"))
  /\ UNCHANGED <<conn, disp, lib, timers, lpc, tail, ended, history>>

\* One step of the loop thread that is not a choice of user code.
LoopStep ==
  \/ InitInLoop \/ UpdateDispatcher \/ StartSetCharacterSet
  \/ HandleEvent \/ HandleTimeout
  \/ StartStoreResult \/ GetResult \/ MoreResults
  \/ GetResultInLoop \/ OutputErrorInLoop \/ DisconnectInLoop
  \/ \E q \in Queries : ExecQueued(q)
  \/ CallbackReturns

Next ==
  /\ \/ LoopStep
     \/ CallbackDisconnects \/ CallDisconnect
     \/ \E q \in Queries : CallbackExecs(q) \/ CallExecSql(q)
     \/ ServerAnswers \/ ServerCloses
  /\ UNCHANGED careful

Spec == Init /\ [][Next]_vars

\* The loop runs its handlers and polls again; the server answers or closes.
FairSpec == /\ Spec
            /\ WF_vars(LoopStep /\ UNCHANGED careful)
            /\ WF_vars(ServerAnswers /\ UNCHANGED careful)

(***************************************************************************)
(* Properties.                                                             *)
(***************************************************************************)
Polling == ended = "no" /\ lpc = "poll"

\* Whenever the loop polls for a live connection, the dispatcher is registered
\* for everything the suspended operation waits for, also after a queued getResult
\* has started mysql_next_result without a setEventDispatcher of its own; and for
\* a connection that disconnect() closed it is registered for nothing, whatever
\* timers and queued functions were left, since the descriptor may be another's.
WaitsAreWatched ==
  Polling =>
    /\ op \in Ops /\ status_ # "Bad" =>
         state_ = "kAdded" /\ waitStatus_ \ {"timeout"} \subseteq events_
    /\ op = "gone" => state_ = "kNew" /\ events_ = {}

\* status_, execStatus_ and waitStatus_ name the operation that libmariadb has
\* suspended, so that the next event resumes that operation and no other.
StatusMatchesLibrary ==
  Polling /\ op # "gone" =>
    /\ op \in Ops <=> waitStatus_ # {}
    /\ op = "connect" => status_ = "Connecting"
    /\ op = "charset" => status_ = "SettingCharacterSet"
    /\ op \in {"query", "store", "next"} => status_ \in {"Ok", "Bad"} /\ isWorking_
    /\ op = "query" => execStatus_ = "RealQuery"
    /\ op = "store" => execStatus_ = "StoreResult"
    /\ op = "next"  => execStatus_ = "NextResult"

\* The result that callback_ is called with is of its own query: of the one that
\* the server is answering, not of one that execSql has begun before or since.
\* When idleCb_ runs after a query, its callback has had every result set.
ResultsAreComplete ==
  /\ lpc = "callback" => callback_ = served
  /\ \A q \in Queries : /\ got[q] <= total[q]
                        /\ q \in idled => got[q] = total[q]

\* A caller that uses an idle connection, also from okCallback_ and idleCb_,
\* meets no failing assert and no null MYSQL.
CarefulIsSafe == careful => ended \notin {"assert", "null"}

\* The connection is what module DbConnection says: one query at a time gets
\* results, in the order of its life; status_ only moves forward; after
\* disconnect() no query is begun and no callback is called, whatever timers and
\* queued functions are left.  DbConnection.h does not say that last part: it is
\* how this development reads mysqlPtr_.reset() (MySQLConnector.cpp:252).
Abstract == INSTANCE DbConnection
  WITH MaxResults <- MaxSets,
       status  <- IF status_ = "SettingCharacterSet" THEN "Connecting" ELSE status_,
       asked   <- called,
       current <- callback_,
       results <- got,
       over    <- idled,
       gone    <- op = "gone",
       dead    <- ended # "no"

ImplementsDbConnection == Abstract!DbSpec

\* A connection that is initialised becomes usable, is closed, or the process
\* ends with the error.
ConnectSettles == <>(status_ \in {"Ok", "Bad"} \/ ended # "no")

\* A query that execSql was called for gets all its results, up to idleCb_, or
\* the connection is known to be closed, or the process ends with the error.
QueryAnswered ==
  \A q \in Queries :
     q \in called ~> (q \in idled \/ status_ = "Bad" \/ ended # "no")

\* DbConnection.h: execSql returns the result through the callback.  A query is
\* answered also when the connection is closed under it.
QueryCallsBack ==
  \A q \in Queries : q \in called ~> (q \in idled \/ ended # "no")

\* DbConnection.h: the close callback is called when the connection is closed.
\* An idle connection that the server closes does not end the process.
IdleCloseIsReported == ended = "fatal" /\ status_ = "Ok" => isWorking_

\* DbConnection.h: exceptCallback handles what goes wrong while a query runs.
QueryErrorIsReported == ended = "fatal" => ~isWorking_

\* The timeout of a wait that is over does not fail a later wait.
TimeoutIsForItsWait ==
  [][(timers' # timers /\ ended' # ended) => Min(timers) = waitNo]_vars
=============================================================================
