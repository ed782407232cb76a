-------------------------------- MODULE Main --------------------------------
(***************************************************************************)
(* main.cpp: the main thread makes a loop and a connection, hands the loop *)
(* to a detached thread, connects, executes one query, waits for its       *)
(* result and quits the loop, whose quit function releases the connection. *)
(*                                                                         *)
(* The connection is what DbConnection specifies and MySQLConnector        *)
(* implements, the loop's queue is FIFO and every function in it is run    *)
(* (EventLoop, run loop_moved).  Nothing orders the end of the second's    *)
(* sleep after the connect.  exceptionPtr is never set, since a failing    *)
(* query ends the process.  The locals live until main returns; the        *)
(* detached thread refers to them by reference.                            *)
(***************************************************************************)
EXTENDS DbConnection, Sequences

CONSTANT PromptThread  \* the new thread is in loop() within main's sleep

ASSUME PromptThreadAssumption == PromptThread \in BOOLEAN

VARIABLES
  mpc,          \* where the main thread is
  lpc,          \* where the detached thread is
  funcs,        \* the loop's queue
  quit_,
  okSet, closeSet,                        \* the callbacks have been set
  connectionEstablished_, connectionClosed_,
  resultPromise,                          \* its value is set
  connection_,                            \* main's pointer is not null
  touched       \* history: a local was used after main had returned

threads == <<mpc, lpc, funcs, quit_>>
locals == <<okSet, closeSet, connectionEstablished_, connectionClosed_,
            resultPromise, connection_, touched>>
vars == <<dbVars, threads, locals>>

TypeOK ==
  /\ mpc \in {"thread", "queue", "init", "setOk", "setClose", "sleep", "check",
              "get", "quit", "spin", "return", "exited"}
  /\ lpc \in {"none", "new", "looping", "quitting", "done"}
  /\ funcs \in Seq({"log", "init", "exec"})
  /\ \A b \in {quit_, okSet, closeSet, connectionEstablished_, connectionClosed_,
               resultPromise, connection_, touched} : b \in BOOLEAN

\* make_shared of the loop and the connection, and runOnQuit.
Init ==
  /\ DbInit
  /\ mpc = "thread" /\ lpc = "none" /\ funcs = <<>> /\ quit_ = FALSE
  /\ okSet = FALSE /\ closeSet = FALSE
  /\ connectionEstablished_ = FALSE /\ connectionClosed_ = FALSE
  /\ resultPromise = FALSE /\ connection_ = TRUE /\ touched = FALSE

Running == ~dead /\ mpc # "exited"
InScope == mpc \notin {"return", "exited"}

(***************************************************************************)
(* The main thread.                                                        *)
(***************************************************************************)
Moves(from, to) == Running /\ mpc = from /\ mpc' = to

StartThread ==
  /\ Moves("thread", "queue")
  /\ lpc' = "new"
  /\ UNCHANGED <<dbVars, funcs, quit_, locals>>

QueueInLoop ==
  /\ Moves("queue", "init")
  /\ funcs' = Append(funcs, "log")
  /\ UNCHANGED <<dbVars, lpc, quit_, locals>>

InitConnection ==
  /\ Moves("init", "setOk")
  /\ funcs' = Append(funcs, "init")
  /\ UNCHANGED <<dbVars, lpc, quit_, locals>>

SetOkCallback ==
  /\ Moves("setOk", "setClose")
  /\ okSet' = TRUE
  /\ UNCHANGED <<dbVars, lpc, funcs, quit_, closeSet, connectionEstablished_,
                 connectionClosed_, resultPromise, connection_, touched>>

SetCloseCallback ==
  /\ Moves("setClose", "sleep")
  /\ closeSet' = TRUE
  /\ UNCHANGED <<dbVars, lpc, funcs, quit_, okSet, connectionEstablished_,
                 connectionClosed_, resultPromise, connection_, touched>>

\* One second, whether or not the connection is established by then.
Sleep ==
  /\ PromptThread => lpc # "new"
  /\ Moves("sleep", "check")
  /\ UNCHANGED <<dbVars, lpc, funcs, quit_, locals>>

ExecSql(q) ==
  /\ connectionEstablished_
  /\ Moves("check", "get")
  /\ Ask(q)
  /\ funcs' = Append(funcs, "exec")
  /\ UNCHANGED <<lpc, quit_, locals>>

\* return -1: the locals are destroyed, connection_ first and then the loop,
\* whose destructor quits it and waits until it has stopped.
Return ==
  /\ \/ ~connectionEstablished_ /\ Moves("check", "return")
     \/ resultPromise /\ Moves("get", "return") \* an empty result
  /\ connection_' = FALSE /\ quit_' = TRUE
  /\ UNCHANGED <<dbVars, lpc, funcs, okSet, closeSet, connectionEstablished_,
                 connectionClosed_, resultPromise, touched>>

Exit ==
  /\ lpc # "looping"
  /\ Moves("return", "exited")
  /\ UNCHANGED <<dbVars, lpc, funcs, quit_, locals>>

GetResult ==
  /\ resultPromise
  /\ Moves("get", "quit")
  /\ UNCHANGED <<dbVars, lpc, funcs, quit_, locals>>

Quit ==
  /\ Moves("quit", "spin")
  /\ quit_' = TRUE
  /\ UNCHANGED <<dbVars, lpc, funcs, locals>>

MainStep ==
  \/ StartThread \/ QueueInLoop \/ InitConnection \/ SetOkCallback
  \/ SetCloseCallback \/ Sleep \/ Return \/ Exit \/ GetResult \/ Quit
  \/ \E q \in Queries : ExecSql(q)

(***************************************************************************)
(* The detached thread.                                                    *)
(***************************************************************************)
\* moveToCurrentThread and loop, through main's reference to the loop.
EnterLoop ==
  /\ Running /\ lpc = "new"
  /\ lpc' = "looping"
  /\ quit_' = FALSE
  /\ touched' = (touched \/ ~InScope)
  /\ UNCHANGED <<dbVars, mpc, funcs, okSet, closeSet, connectionEstablished_,
                 connectionClosed_, resultPromise, connection_>>

Looping == Running /\ lpc = "looping"

\* After main's return the connection lives only if a timer of its wait holds it;
\* its dispatcher and the function that init() queued have a bare pointer.
TouchConnection == touched' \in {touched, touched \/ ~InScope}

\* One function of the queue.
RunFunc ==
  /\ Looping /\ funcs # <<>>
  /\ funcs' = Tail(funcs)
  /\ CASE Head(funcs) = "log"  -> UNCHANGED dbVars
       [] Head(funcs) = "init" -> Connect
       [] Head(funcs) = "exec" -> \E q \in Queries : Begin(q)
  /\ TouchConnection
  /\ UNCHANGED <<mpc, lpc, quit_, okSet, closeSet, connectionEstablished_,
                 connectionClosed_, resultPromise, connection_>>

\* The callbacks are the defaults until main has set its own.
OkCallback ==
  /\ Looping
  /\ Establish
  /\ connectionEstablished_' = (connectionEstablished_ \/ okSet)
  /\ touched' = (touched \/ (okSet /\ ~InScope))
  /\ UNCHANGED <<threads, okSet, closeSet, connectionClosed_, resultPromise,
                 connection_>>

CloseCallback ==
  /\ Looping
  /\ Close
  /\ connectionClosed_' = (connectionClosed_ \/ closeSet)
  /\ touched' = (touched \/ (closeSet /\ ~InScope))
  /\ UNCHANGED <<threads, okSet, closeSet, connectionEstablished_, resultPromise,
                 connection_>>

\* A mutant of ResultCallback: the promise is not fulfilled.
ResultCallbackDropped ==
  /\ Looping
  /\ Deliver
  /\ UNCHANGED <<threads, locals>>

ResultCallback ==
  /\ Looping
  /\ Deliver
  /\ resultPromise' = TRUE
  /\ touched' = (touched \/ ~InScope)
  /\ UNCHANGED <<threads, okSet, closeSet, connectionEstablished_,
                 connectionClosed_, connection_>>

IdleOrDie ==
  /\ Looping
  /\ Finish \/ Die
  /\ TouchConnection
  /\ UNCHANGED <<threads, okSet, closeSet, connectionEstablished_,
                 connectionClosed_, resultPromise, connection_>>

\* The loop looks at quit_ when it starts and after each turn, and leaves with
\* what was queued since.
LeaveLoop ==
  /\ Looping /\ quit_
  /\ lpc' = "quitting"
  /\ UNCHANGED <<dbVars, mpc, funcs, quit_, locals>>

\* The function that runOnQuit was given.
QuitFunction ==
  /\ Running /\ lpc = "quitting"
  /\ lpc' = "done"
  /\ connection_' = FALSE
  /\ touched' = (touched \/ ~InScope)
  /\ UNCHANGED <<dbVars, mpc, funcs, quit_, okSet, closeSet,
                 connectionEstablished_, connectionClosed_, resultPromise>>

\* What the connection does of itself.
Network == OkCallback \/ CloseCallback \/ ResultCallback \/ IdleOrDie

Next ==
  \/ MainStep
  \/ EnterLoop \/ RunFunc \/ Network \/ LeaveLoop \/ QuitFunction

\* Both threads are scheduled, and the connection settles a connect and a query
\* that it has begun, as ConnectSettles and QueryAnswered show of MySQLConnector.
\* It need not ever close of itself, nor the process end.
Spec ==
  /\ Init /\ [][Next]_vars
  /\ WF_vars(MainStep)
  /\ WF_vars(EnterLoop \/ RunFunc \/ LeaveLoop \/ QuitFunction)
  /\ WF_vars(status = "Connecting" /\ Network)
  /\ WF_vars(current # NoQuery /\ Network)

(***************************************************************************)
(* Properties.                                                             *)
(***************************************************************************)
\* main ends, or comes to its last loop with the connection released by the quit
\* function, or is left waiting for the result that a closed connection will not
\* bring, because it was closed after main looked at connectionEstablished_ or
\* before (main.cpp:97 does not look at the status).  Whenever that one look
\* comes, main waits for nothing else.
MainSettles ==
  <>[](\/ dead \/ mpc = "exited"
       \/ mpc = "spin" /\ ~connection_
       \/ mpc = "get" /\ status = "Bad")

\* "Wait for the connection to be established" (main.cpp:90): when main has
\* waited and gives up, the connection is not established.
OkIsNoticed == mpc = "return" /\ asked = {} => status # "Ok" \/ connectionEstablished_

\* No local of main is used after main has returned.
NoUseAfterScope == ~touched
=============================================================================
