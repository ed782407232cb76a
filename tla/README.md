# A TLA+ development for MysqlConnectPool

This directory specifies the core of the repository in TLA+, model-checks it
with TLC on small instances, and proves parts of it with TLAPS for every value
of the constants.  `PROJECT.json` lists the runs, the source lines that each
definition models, the hazards of the code and the theorems.  Paths below are
relative to `src/`.

## The system

An asynchronous MySQL client in the style of trantor and drogon.  One thread
runs an event loop; everything else talks to it.

| Part | State | Operations | Hard about it |
|---|---|---|---|
| `utils/MPSCQueue.h` | a linked list between `tail_` and `head_` | enqueue by any thread, dequeue and empty by one, destructor | lock-free: a node is reachable in two steps, nodes are freed while producers run |
| `event/EventLoop` | `looping_`, `quit_`, `threadId_`, two MPSC queues of functions, an eventfd, the list of active dispatchers | loop, quit, runInLoop, queueInLoop, runOnQuit, moveToCurrentThread, wakeup, destructor | calls from other threads against poll, exceptions, a second loop(), destruction by another thread |
| `time/TimerQueue`, `time/Timer` | a heap of timers, the set of valid identifiers, a timerfd | addTimer, invalidateTimer, handleRead, reset | additions and removals inside the batch being run, early expiry, clock granularity |
| `poll/EpollPoller`, `event/EventDispatcher` | the dispatchers by descriptor, each with mask and `state_`; epoll's own table | enable, disable, remove, poll, handleEvent | callbacks that change later dispatchers of the same batch, reuse of descriptor numbers |
| `event/EventLoopThread` | a thread, a loop pointer under a mutex, three promises | constructor, run, wait, destructor | two threads that wait for each other, `quit()` by a third |
| `MySQLImpl/MySQLConnector`, `db/DbConnection` | `status_`, `execStatus_`, `waitStatus_`, `isWorking_`, the callbacks of one query, a dispatcher, timeouts | init, execSql, disconnect, handleEvent, handleTimeout, and the phases of a query | libmariadb's non-blocking protocol, callbacks that call back, closes, late timers and queued functions |
| `db/ArrayParser`, `Field::asArray` | a position in a text | getNext | quoting; where a scan stops |
| `event/EventLoopThreadPool` | threads, a round-robin index | constructor, start, wait, getNextLoop, getLoops, implicit destructor | callers in several threads, the order of destruction |
| `db/Result`, `Row`, `Field`, iterators, `MySQLResultImpl` | a stored result, signed indices | element access, forward and reverse iteration | index arithmetic at both ends |
| `DbConnection::parseConnString`, SQL parameters in `execSqlInLoop`, `Field::as` | none | pure functions | quoting, the ends of integer types |
| `time/DateTime` | microseconds since the epoch | to and from the texts of a database, rounding | time zones, daylight saving, C arithmetic |
| `main.cpp` | locals shared with a detached thread | connect, sleep, query, get, quit | callbacks set late, locals that go out of scope |
| `db/Exception`, `utils`, `DatabaseManager` | - | exception classes, text helpers, an empty class | - |
| `third/` | - | vendored headers | - |

How the parts interact: other threads reach a loop only through its queue and
its eventfd.  The poller hands the loop a batch of dispatchers; the wakeup
eventfd, the timerfd and every connection's socket are dispatchers.  A
connection runs on one loop: its socket events, its timeouts (`runAfter`) and
the calls of other threads (`queueInLoop`) are all handlers on the loop's
thread, and its callbacks run there too, inside the handler.

## Modules

Each component has a module of its name, and the `.cfg` files give its constants
their values; where a value is more than a name or a number it is defined in an
`MC...` module that extends the component's.  Variables and actions
keep the names of the source.  Definitions called "a mutant of" something are
faulty variants: they are used only to see that the properties notice them.

**FifoQueue** is what the queue promises: a sequence, with `Reserve` and
`Publish` as the two steps of an enqueue, and a `Take` that sees elements only up
to the first one that is not published.  It is instantiated by EventLoop for
`funcs_`, so that a loop's queue is the abstract one.

**MPSCQueue** models `MPSCQueue.h` at the grain of its atomic accesses, on an
explicit heap of numbered nodes with `next_` and `dataPtr_`.  Producers stop
between the exchange of `head_` and the store of `next_`; the consumer stops
between taking the data and freeing the old tail.  `ImplementsFifo` is the
refinement of FifoQueue; the mapping reads the list off the heap.

**EventLoop** has one action for each access to shared state in
`EventLoop.cpp`: in `queueInLoop` the reservation, the link, the test of
`threadId_`, the test of `looping_` and the write of the eventfd are separate;
`loop()` stores `looping_` and `quit_` in two steps, checks `quit_`, polls, reads
the eventfd, drains the queue and runs functions that may call the loop again or
throw (a `std::exception` or something else).  The constants `Creator` and
`Destroyer` say which thread made the loop and which one destroys it.  Several
descriptors are the poller's matter and timers the timer queue's, here poll
returns for the eventfd or for something else.

**TimerQueue** keeps the heap as the set `timers_` with `when_`, a discrete clock,
and the timerfd as the moment for which it is armed.  A delay is at least one tick
when the timerfd is armed, as `howMuchTimeFromNow` makes it at least 100
microseconds; the kernel may signal late.  A batch is run one callback at a
time, and callbacks add and invalidate timers, also their own, and throw.
`quit()` sets `quit_` at any time, also in the middle of a batch, and from then on
`isRunning()` is false; `loop()` leaves between two polls, later or at once, so that
one more batch is possible.  `since` records, per timer, the moment of its creation
or of the batch of its last run.

**EpollPoller** models `EpollPoller.cpp` together with `EventDispatcher.cpp` and
epoll's table (external): descriptors are opened and closed, numbers are reused,
masks change inside callbacks while the batch is being walked, and an event list
of `size` entries doubles when it was full.  Owners act in any callback: they remove a
dispatcher and close its descriptor while it lives (`CloseFd`, as `disconnect()`
does), destroy it when it has been removed (`Destroy`), or drop a whole connection
that was not (`Drop`).  `loop()` may so come to a dispatcher that has been destroyed;
reading it is undefined, and the model either passes over it, if the freed memory
still shows no events, or stops there (`cb = "undefined"`).  `killed` records whom a
callback has destroyed.  Three abstractions: a callback consumes readiness of its
own descriptor only; a dispatcher whose descriptor is closed is not enabled again,
so that a second `disconnect()` is left out; and sockets that libmariadb closes by
itself are closed by an owner here.

**EventLoopThread** models the constructor, `loopFuncs`, `run`, `wait` and the
destructor with their promises and mutex, over a loop reduced to its queue and
`quit_`.  Every variable is a function of the thread object, so that
**EventLoopThreadPool** can extend it: the pool walks over its objects in the
constructor, `start`, `wait` and the destructor, one object's call after the other,
while any user takes loops with `getNextLoop` (an atomic index of `IndexBits`
bits, then the access) and queues functions to them or quits them.  The size of
the pool is chosen in `Init`, zero included.

**DbConnection** is what `DbConnection.h` promises a caller whichever library
is behind it: the connection goes from None through Connecting to Ok, and to Bad
from anywhere; one query at a time; only the current query gets results, and
nobody gets any after `disconnect()` or the end of the process.  The header says
nothing of callbacks after `disconnect()`; that there are none is how this
development reads the code.

**MySQLConnector** is the connection's state machine.  libmariadb, the socket
and the server are external: a `_start` or `_cont` call finishes, fails or
suspends and says what it waits for, and the server answers queries in turn
(`Sent`: `served` is the query whose result sets are coming).  The handlers run one after another on the
loop's thread, each one in several steps where it calls into the library or into
user code, and callbacks may call `execSql` and `disconnect`.  `ended` records a
process that `ABSL_LOG(FATAL)`, an assert or a null pointer has ended; the build
never defines NDEBUG.  The dispatcher's mask and state are kept as
EpollPoller's `RegisterEventDispatcher` keeps them.  `careful`, chosen in `Init`,
says whether the callers wait for the callbacks before they call.
`ImplementsDbConnection` is the refinement of DbConnection: `SettingCharacterSet`
is part of Connecting, `current` is the query whose callback is held while
`isWorking_`, and steps inside a handler that call nobody are stutters.

**Main** composes the program of `main.cpp`: the main thread and the detached
thread with the loop's queue, over DbConnection in place of MySQLConnector, which
the refinement justifies.  The callbacks change main's locals from the other
thread; `touched` records a use of a local, or of the connection that only main
kept alive, after main has returned.

**ArrayParser** is a scanner over a text: each step is a call of `getNext` from
`asArray`'s loop.  The texts are all short ones and the spellings of a family of
arrays; the second kind carries the tokens that have to be found.  `Shapes` says
how deep the arrays are and how long their rows, from the innermost outwards.  Its
specification is `ParserSpec`, with `ParserInit` and `ParserNext`, since
ConversionsProofs extends it next to Conversions.

**Result** walks over a stored result: iterators over rows and over the fields
of a row, forward and reverse, are moved, turned round with `base()` and read,
next to access by position and by name.  `itStep` and `fitStep` record how far an
iterator is from its begin, and `want` which field is meant; `index_` and
`column_` are signed as in the code.

**ConnString**, **SqlParameters**, **FieldValue** and **DateTime** are operators: the
regular expression of `parseConnString` with the loop over its matches, the
substitution of parameters in `execSqlInLoop`, `as<T>` for the integer types, and
the texts of dates over a time zone with one period of daylight saving.  Instants
are integers: `DateTime::after` computes in double, which is the same for whole
microseconds below 2^53.
**Conversions** calls them, one call per behaviour, on bounded inputs, and holds
the outcome against what the input was meant to say: the parameters that were
spelled, the tokens that the server reads, the number in the cell, the instant.
Lengths of hours, days and integer types are scaled down; what is kept is the
arithmetic at their ends (truncating division, unsigned wrap, `mktime`'s
choice for a time that occurs twice).

## Runs

| Run | Question | Bounds |
|---|---|---|
| `mpsc_queue` | No use after free, no leak, no lost or reordered element, everything is delivered, and the list refines FifoQueue | 3 producers, 4 enqueues: two producers can overtake a third one, and one enqueues twice |
| `loop_owned` | A loop run by its maker: no lost wakeup, queued functions run without the poll's time-out, quit stops it, the destructor waits for it, it can be run again | 2 callers, one function from each thread, 2 loops, both kinds of exception |
| `loop_moved` | A loop made elsewhere and moved: functions still run, if poll times out | as above |
| `loop_destroyed_in_use` | violation, see below | 1 loop |
| `timers` | The timerfd is armed for the earliest timer, timers fire, never twice within an interval, an erased one never | 2 timers (one can act on the other inside a batch), 4 instants, delays 1 and 2, one-shot or every tick |
| `poller` | epoll's table matches `state_`; a destroyed dispatcher is met only if another one's callback destroyed it (or its own read callback); callbacks are begun for what happened to their own open descriptor; what is ready is dispatched | 2 dispatchers and 2 descriptors: enough for one callback to act on the other's dispatcher and for a number to be reused; an event list of 1 that may become 2 |
| `thread_pool` | No call blocks for ever, the destructor finds a live loop to quit, functions queued before a loop is run or while it drains are run, `getNextLoop` is fair | pools of 0 to 2 threads, the owner and one more user, 2 functions, 3 picks: two callers inside `getNextLoop` at once; an index of 1 bit, which wraps round; sizes that do not divide the range are covered by the proof |
| `array_parser` | The array that was spelled is found, every call moves on, closed texts are not overrun, asserts hold | all texts of up to 5 characters out of 8; arrays of up to two elements or two rows over 11 values |
| `result` | Iterators and accesses read the field that is meant, no assert of `getValue` fails, loops between the ends see everything once | results of up to 3 by 3, among them empty ones, and 3 names of which two differ only in case |
| `conversions` | Connection strings, parameters, cells and dates come through | lists of up to two parameters in every spelling, statements of up to five characters with up to two parameters, every number around the ends of each scaled type, every instant of several days around both changes of daylight saving |
| `mysql` | The dispatcher watches what the library waits for and nothing after a disconnect, status and library agree, results are complete and go to the query they answer, careful callers meet no failing assert and no null pointer, a connect settles, a query is answered (or the connection is known to be closed, or the process ends), and the connection implements DbConnection | careful and careless callers, 2 queries of up to 2 result sets, 5 suspensions: a query in each phase while another arrives |
| `main` | main ends, quits with the connection released, or waits for the result of a connection that was closed, and for nothing else | one query with one result, as in the source |

Every module with threads has a type invariant `TypeOK`.  It is proved for all of
them but Main, where TLC finds it true of the run when it is added to the run's
invariants, in seconds.

Deadlock checking is off where the system may stop: a destroyed queue or loop, a
process that has ended, a text that has been read.

**Fairness.**  A thread inside a call, and the loop's thread, keep running (weak
fairness on their steps), and callbacks return.  Nobody has to call anything.
poll returns when something is ready; that it also returns after ten
seconds is assumed only in `TimeoutSpec`, which `loop_moved` uses, since
`kPollTimeMs` says so.  In TimerQueue time passes and the kernel signals an
expiry.  In EpollPoller a descriptor that is ready again and again is reported
at last (strong fairness on the batches that hold it): epoll rotates its ready
list.  In MySQLConnector the server answers what it was asked.  In Main both
threads run, and a connect or a query that the connection has begun is settled
in one of its ways, which is what `ConnectSettles` and `QueryAnswered` show of
MySQLConnector under its own fairness; nothing makes a connection close or the
process end.  That the new thread is inside `loop()` before main's second is over
is the constant `PromptThread`; without it `MainSettles` fails (see below).

## Known departures

Places where the code does something else than a comment or a document of the
repository says, or, where none speaks, than its users have to rely on.  The first is a run with a finding in `PROJECT.json`; the others
have a configuration here whose counterexample TLC prints in seconds (with
`-continue` where a configuration holds several properties).

| Configuration | Property | What happens |
|---|---|---|
| EventLoopDestroyedInUse | DestroyedNotInUse | the destructor's spin ends when `looping_` is cleared, before `loop()` runs the quit functions (EventLoop.cpp:66, 199, 239) |
| MySQLIdleClose | IdleCloseIsReported | after a result that came through `mysql_store_result_cont`, a server's close ends the process instead of calling the close callback (MySQLConnector.cpp:342; DbConnection.h:133) |
| TimerQueueInvalidate | InvalidateIsFinal | `invalidateTimer` is dropped while the loop is not running (EventLoop.cpp:408; TimerQueue.h:109 says the timer will not fire) |
| EventLoopMoveLosesWakeup | QueuedFuncRuns | `queueInLoop` of the maker during `moveToCurrentThread` writes no wakeup: the function waits for the poll to time out (EventLoop.cpp:348; EventLoop.h:114) |
| EventLoopQuitErased | DestructorReturns | a `quit()` between the two stores at the start of `loop()` is erased, and the destructor spins for ever (EventLoop.cpp:193, 65) |
| EventLoopTimerfdLeak | TimerfdReleased | a loop destroyed by another thread queues the close of its timerfd to itself (TimerQueue.cpp:86; TimerQueue.h:71) |
| EventLoopQuitFuncsSkipped | QuitFuncsRunOnException | only `std::exception` is caught (EventLoop.cpp:227, 235) |
| EventLoopMovedUnderInline | InlineOnLoopThread | `runInLoop` runs its function on a thread that has lost the loop meanwhile (EventLoop.h:102, 95) |
| EpollPollerDisabled | DisabledIsUnregistered | `disableAll` on an unregistered dispatcher registers it, and hang-ups are reported (EpollPoller.cpp:125; EventDispatcher.h:128) |
| EpollPollerDisabled | NoDanglingDispatcher | a callback drops the last reference to a connection that comes later in the batch: `loop()` dereferences its dispatcher (EpollPoller.cpp:93-103, EventLoop.cpp:211-217; no document forbids it) |
| EventLoopThreadPoolQuitEarly | CallsReturn | a `quit()` just after `loop()` has started ends it before the function that `run()` waits for: `run()` blocks for ever (EventLoopThread.cpp:44-45) |
| MySQLExecAfterClose | QueryCallsBack | a query whose function runs after the server's close waits for ever (MySQLConnector.cpp:579; DbConnection.h:157) |
| MySQLDisconnectBusy | QueryCallsBack | `disconnect()` during a query calls neither of its callbacks (MySQLConnector.cpp:249; DbConnection.h:157) |
| MySQLConnectAtOnce | ConnectSettles | a connect that `mysql_real_connect_start` finishes leaves the connection Connecting (MySQLConnector.cpp:121; DbConnection.h:120) |
| MySQLQueryError | QueryErrorIsReported | an error of a query ends the process before the exception callback (MySQLConnector.cpp:318; DbConnection.h:165) |
| MySQLStaleTimeout | TimeoutIsForItsWait | the timer of a wait that is over fails a later one (MySQLConnector.cpp:226, 104) |
| ArrayParserEscapes | EscapedIsKept | the parse functions keep a backslash and drop the character behind it (ArrayParser.cpp:70-74, 122-126; comment at 53) |
| ConversionsDates | InverseOfToDbStringLocal | a local midnight is printed without a time and is read back as year zero (DateTime.cpp:255, 289; DateTime.h:287 says "Inverse of toDbStringLocal()") |
| ConversionsDates | UtcText | the offset of January 1970 is used all year: with daylight saving the text is not UTC (DateTime.h:78; DateTime.h:280) |
| ConversionsDates | ZeroHours | on the day of a change `roundDay` is an hour off midnight (DateTime.cpp:91; DateTime.h:105) |
| MainEarly | OkIsNoticed | a connection established before `setOkCallback` goes unnoticed, and main gives up (main.cpp:76-80; comment at 90) |
| MainEarly | NoUseAfterScope | main returns while the detached thread uses its locals, the loop and the connection (main.cpp:50-55, 99) |
| MainLateThread | MainSettles | a thread that enters `loop()` after main has given up erases the quit of the loop's destructor, which waits for ever (EventLoop.cpp:193, 66) |

## Proofs

TLAPS checks eight modules.  Their theorems hold for every value of the constants
that the named assumptions allow, so the bounds of the runs are not part of them;
TLC evaluates the assumptions on every run.  Each inductive invariant was checked
by TLC on the run's instance before it was proved.

*MPSCQueueProofs.*  None of the safety properties is inductive.  The inductive
invariant `IInv` adds to the type: `Extent` (the allocated nodes are exactly
`tail_ .. head_`), `Gaps` (a producer between its two steps has a `prevhead` of its
own, inside the extent, whose `next_` is still null), `Consuming` (what the consumer
holds inside `dequeue`; the destructor runs with no producer inside) and `Held`
(only nodes behind the front hold data).  From it follow `MemorySafe`,
`ListWhole` and `NothingLeaks`: the consumer cannot free a node that a producer
will still write, because that node has no successor yet and the consumer stops
in front of it.  The assumption is the class's contract: one consumer, and a
destructor that starts when no enqueue is in progress.  `QueueImplementsFifo` is
the refinement of FifoQueue, whose queue is what lies behind the front and whose
pending elements are those of the producers between their steps.  FifoQueue names
elements by value, so the proof needs `Distinct`: every node behind the front holds
an element, and no two hold the same.

*EventLoopProofs.*  `FlagInv` says that `looping_` is set exactly between its store
and the scope exit, whatever is thrown; `Restartable` and `DestructorWaits` follow.
`NoLostWakeup` assumes `Creator = LoopThread`, the case without a move.
Its invariant `WakeInv` asks for the wakeup already where the loop thread is on its
way into poll: whenever a function is visible and the thread is neither handling
events nor draining, the eventfd is readable or a caller is about to write it.

*EpollPollerProofs.*  `RegistrationMatches` is not inductive, because an `epoll_ctl`
is made by descriptor and the kernel answers with a pointer.  `PollerInv` adds
`OwnDescriptor` (a living dispatcher's descriptor is open, and no two living
dispatchers share one) and `StateFollowsLife` (a dispatcher that does not live is in
state kNew, and one that listens to something is in state kAdded); then a call for
one dispatcher disturbs no other's interest, and a number that is reused was taken
out of epoll before.  The other two are about the batch, and `BatchInv` carries them:
no dispatcher is in it twice (`OneEntryEach`), one of it that has been destroyed was
killed in this batch, or is the current one inside its own callback
(`DeadWereKilled`), and an entry whose descriptor is not closed lists nothing that has
been consumed (`DueIsReady`).  That what epoll hands out is alive comes from
`PollerInv`.  `DanglingNeedsAnother` and `CallbacksHaveCauses` follow; the second
is an action property, since a callback begins in a step.  `FdsAssumption`: finitely
many descriptors.

*TimerQueueProofs.*  Three invariants over the types.  `IdsInv`: a timer whose
`addTimer` is still queued is in none of the sets, is queued once, and an erased id
is not in `timerIdSet_`; `ErasedTimersNeverRun`, an action property, follows.
`PaceInv` says that a timer which may still run is due an interval after the batch of
its last run or after its creation, and that a one-shot timer that may still run has
not run; a timer of the batch was due when the batch was taken.
`TimersDoNotRunTooOften`, an action property, follows.  `ArmedInv` is `ArmedForEarliest` with the loop
stopped as well; the alarm may be missing inside a batch, and the proof is that
`reset` and `addTimerInLoop` restore it.  `DelaysAssumption`: delays and intervals
are natural numbers.

*EventLoopThreadPoolProofs.*  `HeldInv` says that the destructor holds a reference
while it is about to call `quit()`; `DestructorFindsTheLoop` follows.
`LoopsAreSpread` needs `SpreadInv`: count a call for its loop from the `fetch_add`
on (`Assigned`); the loops before the index are one call ahead in the current round
(`Ahead`), and a wrap in the middle of a round puts the others one behind (`Wraps`).
That the index goes round is proved from lemmas on quotients and remainders.
`RangeAssumption` says that 2^IndexBits is positive, since the provers know no
powers; `UsersAssumption` that there are finitely many users.

*MySQLConnectorProofs.*  One inductive invariant, `Good`, carries everything
(theorem `ConnectionIsGood`).  While the process runs it says: what the library's
operation means for `waitStatus_` (`LibraryInv`), what holds before `init()` has run
(`UnbornInv`), which statuses an operation goes with (`OpInv`), what holds at
each place inside a handler (`PlaceInv`), what is watched (`WatchInv`), which
functions may be queued at which moments, each once (`QueueInv`), how many result
sets a query has had and has to come, and that `callback_` is that of the query the
server answers (`AccountInv`), and what a careful caller may
rely on (`CarefulInv`).  None of them is inductive alone: `execStatus_` after
a result says something only together with the `getResult` that is queued, and the
account of the results only together with the operation.
`ConnectorImplementsDbConnection` is the refinement, one lemma for each handler:
`Good` excludes the stale timeouts and queued functions that would take DbConnection
a step it does not have.

*ResultProofs.*  `Placed` relates the index of an iterator to the steps it has made,
for a reverse one from `size - 1` down to -1.  `ReadInv` adds that an opened row is
in the result.  `ReadsAreRight` uses for names that a nonempty set of columns has a
greatest element, from the well-foundedness of the naturals.

*ConversionsProofs.*  `DatesRoundTrip`: outside of the repeated hour exactly one of
the two answers of `mktime` has the local time that was asked for.  Units
are positive, a fraction fits an `unsigned int` (`UnitsAssumption`), and the zone is
any (`ZoneAssumption`).  `NumbersRoundTrip`: a cast to a type leaves alone what the
type can hold, because two numbers of a range with the same low bits are equal.
`WidthsAssumption`: a byte is narrower than an int and an int not wider than a long,
said of the powers themselves.

The rest of this module is about functions that are defined by recursion over a
text.  The induction theorems of the library take an operator as a parameter, which
the provers cannot instantiate, so induction is over sets: a set of numbers that is
not everything has a least element outside of it (`Least`, from the
well-foundedness of the naturals; `Induction`, `DownInduction`).  `RecursionExists`
builds a function from its recursive equation where each call is of lower rank; for
each function of the model a predicate states the equation and a lemma says that the
model's function satisfies it.  Nothing is assumed for this.

`ParametersArriveAsTokens` holds for every statement and all parameters over any set
of characters `SqlCharacters` (`StatementsAssumption`, `ParametersAssumption`: a
number is one character that is no quote).  `StatementsInv` says that what was sent
is what `PrepareSql` makes of the call.  The argument goes from the end of the
statement to its beginning: the server reads a text behind a token as it reads that
text alone (`LexingOfPart`), a string of the statement holds no mark and stays as it
is (`StringStays`), and an escaped value between quotes is one string token with that
value (`OneString`), because what follows is no quote.

`OptionsAreAsSpelled` holds for lists of any length, with all keys over `Word` and all
values of one line over any set of characters `ConnCharacters`
(`ConnCharactersAssumption`: no character of `\w` is a blank, newline, quote,
backslash or equals sign; `ParameterListsAssumption`: a value that is empty or has a
blank is quoted).  `OptionsInv` says that the outcome is what the constructor
makes of the text of the call.  Each parameter has its place in the text
(`ListLayoutExists`), the expression matches it there as a whole and nothing between
it and the one before (`Matched`, with `ValueEnds`: an unquoted value has no blank
and does not begin with a quote, because a quote in it is behind a backslash; a quoted
one runs to the last quote, which is its own because it is the last of the list), and
dropping quotes and backslashes gives the value again (`UnescapeValue`).  The pairs are
then those of the list, from the last to the first (`PairsOfList`), and an option
has one spelling (`OptionsOfSpelled`).

`ScansEndInTheTextAlways` and `GetNextMovesOnAlways` hold for every text.
`ParserInv` is inductive: a quoted scan that does not throw ends behind a quote, at
least two characters further (`ScanEnds`), and an unquoted one ends at a separator or
a brace (`UnquotedScanEnds`); an empty unquoted string is possible only at a
separator, which is then skipped.  `FindsTheArrayAlways` holds for arrays of every
depth and width, with all strings over any alphabet without a NUL
(`AlphabetAssumption`, `ValuesAssumption`, `ShapesAssumption`: an array has at least
one level).  An element is legible if the parser, put in front of it anywhere in any
text, returns its tokens and stops behind it and its comma (`Legible`).  Strings are,
between either kind of quotes and without (`LeavesAreElements`), rows of
legible elements are (`BracedSealed`, along the layout of the row in the text), and so
all arrays are, by induction on their depth (`ArraysAreSealed`).  `FindingInv` then
says that pos_ is where a prefix of the expected tokens has been read.

Only model-checked is what needs fairness, which is beyond this prover:
`EverythingIsDequeued`, `QueuedFuncRuns`, `QuitStops`, `TimerFires`,
`ReadyIsDispatched`, `CallsReturn`, `QueuedIsDrained`, `ConnectSettles`,
`QueryAnswered`, `MainSettles`.

## Not modelled

Of the repository's C and C++ lines about seven in ten are the headers under
`third/`, a vendored copy of the MySQL X DevAPI that no source file includes.
There is no behaviour of this program in them, so they are left out, and the
map's share of all lines stays small for that reason.  Of the repository's own
code, besides declarations and comments, the following is left out:

- weak memory: every shared access of the code is at least acquire/release on the
  variables that matter, and the models interleave them (main's plain booleans
  are written by one thread and read by the other in any order);
- `EventDispatcher::tie` and `EpollPoller::resetAfterFork`: no caller, and empty;
- `EventLoopThread::getLoop`: declared without a definition, taken to return the
  loop of its object;
- `MySQLConnector::batchSql`: always fatal;
- formatting that nothing reads back: `toFormattedString` and its variants,
  logging, the text of error messages;
- `db/Exception`: classes that carry a text; none is thrown where its type would
  decide what happens next;
- the hexadecimal helpers of `utils`: used only for results with an `oid`, which
  `MySQLResultImpl` never gives;
- the Windows branches, and `DatabaseManager`, an empty class.

Hazards that the models have as steps, and for which the repository promises
nothing that a property could say: a timer callback that throws loses the rest
of its batch (TimerQueue.cpp:139); a read callback that disables writing, or closes
the descriptor, is still followed by the write callback of the same event
(EventDispatcher.cpp:162; `CallbackHasCause` excepts the second case); a function
queued behind the last drain of a running loop stays in the queue when the loop
reads `quit_` (EventLoop.cpp:201); a query whose server stays silent waits for ever,
since a timeout in status Ok is not passed to the library (MySQLConnector.cpp:299).  Conditions of use that no
document states and the models' callers keep: `disconnect()` after `init()` has
run (MySQLConnector.cpp:249), `wait()` after `run()` (EventLoopThread.cpp:68), a
statement and parameters that outlive the call of `execSql`
(MySQLConnector.cpp:176), a `Row` that is copied before its iterator moves on
(ResultIterator.h:34).

## Plan

1. Done: MPSCQueue and FifoQueue, EventLoop, TimerQueue, EpollPoller,
   EventLoopThread and its pool, MySQLConnector and DbConnection, Main,
   ArrayParser, Result, the conversions.
2. Done: proofs of every safety property of the runs, and of both refinements.
