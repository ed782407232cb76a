---------------------------- MODULE DbConnection ----------------------------
(***************************************************************************)
(* db/DbConnection.h: what an asynchronous connection promises its users,  *)
(* whichever library is behind it.  It goes from None through Connecting   *)
(* to Ok, and to Bad from anywhere; it works on one query at a time, whose *)
(* callback alone gets results; and after disconnect() or the end of the   *)
(* process nothing is called any more.  The header is silent on callbacks  *)
(* after disconnect(); that there are none is this module's own reading.   *)
(*                                                                         *)
(* MySQLConnector is shown to implement this specification, and module     *)
(* Main uses it in its place.                                              *)
(***************************************************************************)
EXTENDS Naturals, FiniteSets

CONSTANTS
  Queries, NoQuery,
  MaxResults   \* bound: result sets of a query

VARIABLES
  status,   \* SettingCharacterSet is part of Connecting
  asked,    \* queries for which execSql was called
  current,  \* the query that isWorking() is about
  results,  \* calls of each query's callback
  over,     \* queries after which idleCb_ was called
  gone,     \* disconnect() has been run
  dead      \* the process has ended with an error

dbVars == <<status, asked, current, results, over, gone, dead>>

DbInit ==
  /\ status = "None" /\ asked = {} /\ current = NoQuery
  /\ results = [q \in Queries |-> 0] /\ over = {}
  /\ gone = FALSE /\ dead = FALSE

\* The function that init() queues; the process ends if it fails at once.
Connect ==
  /\ ~dead /\ status = "None"
  /\ status' = "Connecting"
  /\ dead' \in BOOLEAN
  /\ UNCHANGED <<asked, current, results, over, gone>>

\* okCallback_ is called.
Establish ==
  /\ ~dead /\ status = "Connecting"
  /\ status' = "Ok"
  /\ UNCHANGED <<asked, current, results, over, gone, dead>>

\* closeCallback_ is called, once.
Close ==
  /\ ~dead /\ status \in {"Connecting", "Ok"}
  /\ status' = "Bad"
  /\ UNCHANGED <<asked, current, results, over, gone, dead>>

\* execSql from another thread, and the function that it queues; the process
\* ends if the query fails at once.
Ask(q) ==
  /\ ~dead /\ q \notin asked
  /\ asked' = asked \cup {q}
  /\ UNCHANGED <<status, current, results, over, gone, dead>>

Begins(q) ==
  /\ ~dead /\ ~gone /\ status \in {"Ok", "Bad"}
  /\ current = NoQuery /\ q \notin over
  /\ current' = q
  /\ dead' \in BOOLEAN
  /\ UNCHANGED <<status, results, over, gone>>

Begin(q) == q \in asked /\ Begins(q) /\ UNCHANGED asked

\* execSql from a callback runs on the loop thread at once.
AskAndBegin(q) == q \notin asked /\ asked' = asked \cup {q} /\ Begins(q)

\* The result callback of the current query, and idleCb_ after its last one.
Deliver ==
  /\ ~dead /\ ~gone /\ current # NoQuery
  /\ results[current] < MaxResults
  /\ results' = [results EXCEPT ![current] = @ + 1]
  /\ UNCHANGED <<status, asked, current, over, gone, dead>>

Finish ==
  /\ ~dead /\ ~gone /\ current # NoQuery /\ results[current] > 0
  /\ over' = over \cup {current}
  /\ current' = NoQuery
  /\ UNCHANGED <<status, asked, results, gone, dead>>

\* disconnect(); closeCallback_ is not called for it.
Disconnect ==
  /\ ~dead /\ ~gone
  /\ status' = "Bad" /\ gone' = TRUE
  /\ UNCHANGED <<asked, current, results, over, dead>>

\* ABSL_LOG(FATAL), or a caller that broke its side with an execSql of its own.
Ends ==
  /\ ~dead /\ status # "None"
  /\ dead' = TRUE
  /\ UNCHANGED <<status, current, results, over, gone>>

Die == Ends /\ UNCHANGED asked

AskAndDie(q) == Ends /\ asked' = asked \cup {q}

DbNext ==
  \/ Connect \/ Establish \/ Close \/ Deliver \/ Finish \/ Disconnect \/ Die
  \/ \E q \in Queries : Ask(q) \/ Begin(q) \/ AskAndBegin(q) \/ AskAndDie(q)

DbSpec == DbInit /\ [][DbNext]_dbVars
=============================================================================
