# A verification project for JavaCallback

The repository is a set of experiments in letting native C++ code and other
processes work together: native threads that call back into Java, and command
servers built on asio, libuv and nanomsg. It has no documentation of its own;
comments, log messages, assertions and the committed result files are the only
statements of intent. This directory holds TLA+ models of its concurrent parts,
the TLC configurations that check them and proofs that TLAPS checks.

## Inventory

| part | sources | state | operations | hard because |
|---|---|---|---|---|
| native task with Java callbacks | `nitro_cloud/nitro_cloud`, `nitro_cloud/pdf_box` | task parameters, the detached thread's position, the Java peer and its weak reference, the shared task collection, a log per task | `SwigMain.Run`, `Task::Run`, `OnStarted`/`OnProgress`/`OnFinished`, `Register`, `finalize` | the garbage collector owns the native object, threads are detached daemons, main ends the process while they run |
| pipe server dialogue | `nitro_cloud/include`, `nitro_cloud/posix` | dialogue state and buffers per connection, a global task count, acceptor and io_service, two flags per client | `Run`, `HandleAccept`, `StartListen`, `HandleRead`, `DoResponse`, `HandleWrite`, `Stop`; the client's loop and its two handlers | five threads run handlers without a strand, a task lives as long as its pending handlers, main stops on a count |
| asio command server | `boost_cloud/include/cs_boost`, `.../command` | command generator, pull of tasks under a mutex, busy flag per task, result collection | `SendCommands`, `SendCommad`, `HandleWrite`, `HandleRead`, `AddResult`, `Dump`, `Stop` | strand, handlers and main run at once; connections break; the report does not wait |
| libuv command server | `boost_cloud/include/cs_libuv` | the same, with a reused receive buffer and one current result per task | `SomeWork`, `SendCommad`, `HandleAllocate`, `HandleRead`, `HandleWrite` | a pool thread and the loop share the current result without a lock; a reused receive buffer |
| row file | `boost_cloud/include/mem`, `cloud_starter` | a file of rows and a table of offsets | `PrepareSample`, `Writer::Write`, `Reader::GetRowById` | starters race and die half way; numbering from 1; 16-bit row numbers |
| JNA tasks | `callback_simple.cpp`, `JnaMain.java` | a function pointer into Java, a Vector of the tasks | `JnaMain.Run`, `RunSimple`, `TaskJna.callback` | the native side keeps nothing alive; the callback lets go of itself |
| JNI task | `task_jni.cpp` | three `std::function`s | forwards | instantiated nowhere |
| Windows pipe server | `helper_win32.hpp`, `pipe_api.hpp` | one listening pipe instance, a flag | `Run`, `Stop`, `create_server`, `accept_connection`, `connect_to_server` | a check that is stale when it is used, a wait of 200 ms, a stop that connects to itself |
| nanomsg pair server | `nitro_nanomsg/include` | a socket and a counter per client | `SendNextCommand`, `ReceiveCommandResponse`, polling | everything is sent before anything is received |
| nanomsg survey server | `nitro_nanomsg/include` | a survey with a deadline | polling | compiled into no program |
| libuv task server | `nitro_libuv/libuv_cloud` | a task on the heap and a work item per connection | work, after-work, read, write, shutdown, close | the task deletes itself while requests point to it |
| prototypes | `cloud_prototypes` | variants of the command server | sync, async, in process | handlers that hold references; errors ignored on both sides |

Components interact by calls across the JNI boundary (native thread to Java
peer), by messages on sockets (server to client) and by shared state (the task
collection, `TaskCounter`, `m_taskPull`, the result collection).

Each part is correct when: a callback never reaches a dead object and every
task reports exactly its own outcome before the process ends; no two threads
are in one connection's buffers; a dialogue or command is neither lost nor
answered twice nor answered with another's answer; and everybody who waits is
released. `PROJECT.json` lists the hazards line by line.

## Modules

**JavaTask** models `SwigMain.Run` with its tasks. Main makes, registers and
runs one task after the other (`NewTask`, `Register`, `Run`; `SkipTask` is the
iteration whose `switch` has no case) and then polls the collection. A worker
is `Task::Run`'s lambda: each callback is split where the code crosses into
Java (`CallOnStarted`/`OnStarted`, and so on), and `OnFinished` into its three
parts, since main, other threads and the collector may act between them. `obj`
stands for the Java peer and the native object at once: the peer owns the
object and `finalize` deletes it. `Finalize` may happen as soon as the peer is
`Reachable` by no strong reference: the collection, main's local variable, the
local reference of an upcall. The director's reference is weak and does not
count. `vm` says how the process ended. The read of a deleted director in
`~JNIEnvWrapper` is undefined behaviour: `Detach` chooses whether it crashes.
A log that cannot be opened is a choice in `OnStarted`.

A task's id is `static_cast<int>(threadId.hash())`: the constant `Hash` stands for the
hash, which nothing makes injective, and `IntRange` for the width of the int (`TaskId`).
A thread that has ended gives its `threadId` back and `Run` may take it again; only
threads that live have different ones. The id names the log file. `file` is what is in
the files, by id and not by task, and `OnStarted` empties the file it opens, as
`new PrintWriter(path)` does, whoever wrote it. The lines reach the file when the
collector is closed, since a log is far smaller than the `PrintWriter`'s buffer.

**PipeServer** models `ServerMainTest`, the posix `Server`, `ServerTask`,
`TaskCounter` and the clients. A task is a record of what is pending or running
for it; `Update` destroys it when nothing is, as the last `shared_ptr` does,
which closes the socket and releases the count. The assignment to
`m_taskCounter` in `StartListen` is two steps (count the new one; store it and
release the one found), because `HandleAccept` and the first `HandleRead` may
make it on two threads. The client's main thread and its io thread share
`readyToSend` and `stopProcessing`, so the loop's test, its send and the two
handlers are separate actions. `HandleAcceptError` is the early return that does not
arm the acceptor again. A process may fail to start at any point of main's loop
(`SpawnFails`), with clients that already run. Whether a write failed is decided when
`HandleWrite` runs: if the client is gone by then it may have failed or not.

Both asio servers use `async_read_some` and `async_write_some`, which may transfer a
part of a message. `PipeServer` and `CommandDispatch` take a message as a whole, as the
code does: it has no framing and takes what one call transfers for one message.

**CommandDispatch** models the asio command server: main's loop of posts, the strand
that walks over the pull (`BeginVisit`, `VisitTask`, `EndVisit`: it holds
`m_pullLocker` in between), the handlers of the tasks and the clients. `HandleRead` is
split at `AddResult`, because `m_isBusy` is cleared first. A command is its number and
stands for its text and its answer: parsing stops at the end of the first command,
which is the one thing about the text that matters (`FromStream`). Connections are
numbered in the order in which they are made. After `HandleAcceptError` nobody is
accepted any more. Transmission and `HandleWrite` are one action: an answer that comes
before the read is armed waits in the socket, so no state tells them apart.

**CommandLedger** is the abstract specification of a command server: a command
is handed out once and in order, a bounded number is unanswered, each ends with
its own answer or is given up, alone or with what else its connection held (`Lose`
takes a set), and the report is a snapshot taken after the last
one was handed out. `CommandDispatch` implements it under the mapping of its
`Ledger` instance; the property `LedgerKept` says so. `UvDispatch` and `PairServer`
implement the same module. `Capacity` tells them apart: one command in flight per
task and io thread in the asio server, one per task in the libuv server, as many as
the server's hand, the buffers and the clients have places in the nanomsg server. In
each mapping `flying` is what the places of the model hold, not what is left over: a
command that were forgotten or held twice would leave the ledger.

**UvDispatch** models the libuv command server. A single work item goes round:
`SomeWork`, then `VisitTask` and `SendCommad` for each task of the pull and `EndWork`
on a thread of libuv's pool, then `AfterSomeWork` on the loop thread, which queues it
again or dumps the results. `HandleNewConnection`, `HandleWrite`, `HandleRead` and
`HandleReadError` are callbacks of the loop thread: each is one action, and the
actions of the pool thread come between them. `SendCommad` is split where it makes the
result (in `VisitTask`) and where it fills it in, because an error callback may drop
the result in between; the read of the null pointer ends the process (`server =
"crashed"`). `writing` is the task's one `uv_write_t` in libuv's hands; libuv calls a
write back before the read of an answer that can only come after it, so `HandleRead`
has the guard `~writing`. A read error comes at any time: it closes the handle, on
which a later `uv_write` fails, while `SendCommad` has already rewritten
`m_bufferSend`. `HandleNewConnection` with `status < 0` logs and returns. Of an
answer's text the model keeps its command and its length (`AnswerLength`), and of the
receive buffer the length of the text in it (`extent`), which never shrinks. The
client's receive buffer is reused as well, but a command ends with `\r` and parsing
stops there.

**RowFile** models the file of rows. A starter stats the file, and if there is none
opens it (which empties it), writes it and closes it; the file is a sequence of
cells, `Written` is what `Writer::Write` sends to the stream, `Flush` lets any
prefix of it reach the file and `Close` writes the offset of the table over the
first cell, as `~FileHolder` does. A starter may be killed between any two of these,
and two may run at once. A client looks a row up in three steps (`ReadHeader`,
`FindEntry` or `FindNothing`, `ReadIt`), between which the file may change.
`raced` records that a writer met another writer or a reader. Text of every sort is
one number per character; `RowNumber` keeps its width.

**UvTask** models the libuv task server: the loop thread, the threads of the pool
and the clients' loops, with one record of outstanding requests per connection. A
`ServerTask` lives until `AfterSomeWork` deletes it; every callback of the loop is
one action, and `HandleReadError` is a read that fails with anything but the end of
the stream. The requests follow libuv's rules (external): a write or a shutdown is
called back once, and the callback of `uv_close` comes last. A `uv_close` of a handle
that is closing is an assert in libuv: the process aborts, or nothing happens in a
build without asserts.

**PairServer** models `server()` and `client()` of `pair_socket.h`. A socket holds
`CommandRoom` commands one way and `AnswerRoom` answers the other; whoever finds it
full tries again. `died` keeps the commands that were with a client when it died, for
the ledger alone. `ReceiveError` is an `nn_recv` that fails: nothing is counted, and
`remove_if` goes by the counter as it is.

**JnaTask** models `JnaMain.Run` and the native threads of `RunSimple`. A call is
three steps: into JNA's closure (`Call`), the Java method (`Callback`), and back
out through the closure (`Return`). `Collect` takes an object that neither the
Vector nor main's call nor a running callback holds, and frees the closure. What a
thread does in a freed closure is undefined: the process crashes or does not.

**WinPipeServer** models the accept loop on Windows, `connect_to_server` as the
clients and `Stop` use it, and `ServerMainTest` around them. The dialogue of an
accepted connection is the same code as in `PipeServer`; here a task only begins
and ends. A round of the accept loop is several steps, between which clients and `Stop`
act: the test of the flag, `ConnectNamedPipe` (which may have to wait, `"pending"`), the
second test, and the making of the next instance (`StartListen`). A client that closes
its end before `ConnectNamedPipe` is called makes it fail; one that comes later is
accepted.

**MCJavaTask** gives the hash, **MCPipeServer** adds the symmetry of the clients,
**MCUvDispatch** the lengths of the answers and **MCRowFile** the rows; the other
modules get all their constants in their cfg. Each module's theorems are in a module
of their own, **JavaTaskProofs**, **PipeServerProofs**, **CommandDispatchProofs**,
**UvDispatchProofs**, **PairServerProofs**, **UvTaskProofs**, **WinPipeServerProofs**
and **RowFileProofs**; those of `JnaTask` are in `JavaTaskProofs`, with the other
program that native threads call back into, and therefore its definitions have names
that `JavaTask` does not use (`JnaSpec`, `JnaTypeOK`). Operators next to an action
with a name that extends its name (`OnFinishedRemoveFirst`, `AfterSomeWorkAtBuy`) are
faulty variants that show which mistake the properties would find; no specification
uses them. Where an action and its variants differ in one condition they share an
operator that takes it as a parameter (`HandleWriteWhen`).

In all modules but `JnaTask` the type invariant and the relations
between variables that the inductive invariant starts from are one invariant,
`Consistent`; its parts have names of their own.

| module | parts of `Consistent` besides the types |
|---|---|
| JavaTask | `EndsOnlyFor`: the process ends early only for the two known reasons |
| PipeServer | `CounterCovers`: main does not stop waiting while a dialogue holds its count |
| CommandDispatch | `BusyMeansOnePending`: the flag says exactly whether an operation is pending; `ResponsesMatch`: a late thread records the answer with its own request |
| UvDispatch | `AnswersBelong`: a result holds the answer to its request; `DumpMissesFew`: what the report may miss |
| RowFile | `ClientHasFile`: who runs has a file to open; `SettledFile`: two writers leave what one would |
| UvTask | `DeletedAfterBuy`, `ClientToldAll`: who ended, task or client, had the whole dialogue |
| PairServer | `CounterIsOutstanding`: an item's counter is what its client owes; `ReturnsWithAll`: the server returns with all answers |
| WinPipeServer | `ConnectedServed`: before Stop nobody who is connected is left out |

## Runs

| run | instance | shows |
|---|---|---|
| `java_tasks` | 2 tasks, 3 thread ids of which two hash to one int, 1 or 2 steps, failing step -1..2, all four task types, fair | peers outlive upcalls, a log file is whole at exit unless a later task emptied it or two ids hash to one int, two logs mix only in the second case, the process ends early only for the two known reasons, every placement of the failing, cancelling or throwing step gives its result, main's poll ends |
| `pipe_server` | 2 clients, 2 io threads, dialogue of 2 states | no `HandleRead` begins inside another and no answer is filled while one is sent, the count covers the tasks, no dialogue is cut short |
| `pipe_ends` | 1 client, 3 states, fair | main returns (or a count was leaked), then every client ends |
| `pipe_buy` | 1 client, the code's 5 states | violation: a task that logged "So we finish task." still reads |
| `commands` | 2 clients, 4 commands, 2 io threads, fair | busy flag, pairing of answers, what the report misses, refinement of `CommandLedger`; the report is written whoever dies, and after Stop the server returns |
| `uv_commands` | 2 clients, 5 commands, answers of two lengths, fair | the result is paired with its own answer across two threads, an answer on the wire is the current command's, the write request is free when it is taken, but on a closed handle, a null result is read only by `SendCommad` of a task that a read error closed meanwhile, what the report misses, refinement of `CommandLedger`; the report is written while one accepted client lives |
| `uv_exact` | 1 client, 2 commands | violation: a short answer is recorded with the tail of a longer one |
| `row_file` | 2 starters, 3 rows, row numbers of 2 bits | a torn file never gives a wrong row, an undisturbed one gives all, two writers leave what one would, a client starts only behind a file |
| `uv_tasks` | 2 connections, 1 pool thread, the code's 5 states, fair | nothing points to a task that deleted itself, it did so only after its dialogue, and it does, except one whose read failed; a pipe is closed twice in one way only |
| `pair_server` | 3 processes, 8 commands, buffers of 1, fair | counters match what is outstanding, the server returns with all answers, and it does return; refinement of `CommandLedger`, in which a command is where the buffers have it |
| `jna_tasks` | 3 tasks, 1 or 2 steps, fair | no call into a freed closure, main waits for the last callback of all and returns |
| `win_pipe` | 3 clients and Stop, 4 rounds, fair | as many rounds as connections are enough, a connected client is served before Stop, what may terminate the server, and a stopped server ends |

Bounds. Two tasks are enough for main to make one while the other runs or finishes,
for an id to be reused and, with three ids and two values of an int, for two that live
to hash alike; the invariants of `JavaTask` are proved for any number. Steps 0 and 1
of 1 or 2 are a first and a last one, and a failing step of 2 lies past both. The two
parameters are independent in the model: `failedStep` is -1 or drawn, as in the code.
In `PipeServer` two io threads are what a race needs; the dialogue of 2 states has a
first, a last and the extra answer past the last, and `pipe_ends` has one between. In
`CommandDispatch` three answers can be missing while one client is accepted (its
task's, two threads'), so four commands make `DumpMissesFew` a real bound; `MaxPosted`
is a bound of the model only: a lambda more in the queue does nothing that the next
post would not do. In `UvDispatch` two tasks make the report miss two of the five
commands; two lengths are enough to have a shorter answer after a longer one.

`RowFile` has rows of different lengths, so that a wrong row gives a wrong count,
as many row numbers as fit in 2 bits, and asks for one row before the first and all
others. `UvTask` has more tasks than pool threads, so that work items queue;
a task touches another one only there. In
`PairServer` 8 commands for 3 processes are shares of 3, 3 and 2, and 3 is exactly
what the buffers and the client's hand hold: with shares of 4 it deadlocks. In
`JnaTask` the steps are 1 or 2 instead of 5 to 8; the thread's first, middle and last
call are all there. In `WinPipeServer` the rounds are the number of connections,
the smallest bound for which `TurnedAway` can hold; the code has six connections and
ten rounds.

Deadlock is checked where the processes go on or where their end is an explicit
stuttering action (`Ended`): `JavaTask`, `PipeServer`, `CommandDispatch`,
`UvDispatch`, `UvTask`. The other modules describe programs that
simply end, some of them waiting for somebody who died, and switch it off; the
liveness properties say there who may wait.

Fairness. Threads and processes are scheduled (weak fairness of main, of each
worker, of the handlers of each task, of the strand, of each client). The
garbage collector, the death of a client and the key press of `system("pause")`
get none. In `commands` a connected client answers: the code has no timeout,
so without that it waits by design. In `uv_commands` accepting a connection needs
strong fairness: it waits for `m_pullLocker`, which the work item takes and
releases again and again. There a task whose client is gone keeps the one command
it took after the close for ever, so the report needs a client that lives.
The other modules assume as much and no more: threads and processes that run, libuv's
pool and loop that serve what is queued, polling loops that go on polling, and, on
Windows, a wait of 200 milliseconds that is not longer than that. In `pair_server` receiving
from an item needs strong fairness: `nn_recv` may fail, but not for ever while the
answer is there. In `commands` the thread that calls `Run` gets none, nor does an
accept that fails in the asio servers. Nobody need connect, die, fail, collect garbage
or press a key.

## What the runs found

* `TaskSimple.java:48` names the log by the thread's id alone and `MessageCollector.java:18`
  empties the file: a task whose thread got the id of a finished one erases that one's
  log. `task.cpp:42` makes the id an int from a hash: two threads that hash alike write
  one file. `LogsCompleteAtExit` and `LogsNotMixed` state what is left to rely on.
* `server_task.hpp:181`: `HandleWrite` reads `m_currentState` without a lock while the
  next `HandleRead` may advance it on another thread (line 100). `BuffersNotShared`
  covers `HandleRead` and the send buffer, not this read.
* `server_task.hpp:153` tests the state before `DoResponse` advances it, so the
  read after the answer to Buy is armed: the task is not finished when the log
  says so (`pipe_buy`). It ends one message later (`DialogueRunsOut`).
* `server_task.hpp:93` assigns `m_taskCounter` after arming the read. If the
  first `HandleRead` runs at once on another thread, two counts are made, one
  reference is lost and main waits for ever. `MainReturns` of `PipeServer` names
  this (`CounterLeaked`) as the only way not to return. Nothing in the
  repository states otherwise, so it is a hazard and not a finding.
* `cs_libuv/server_task.hpp:138` takes the answer as the C string in a buffer that
  is reused and not cleared (`uv_exact`). 2273 of the 3996 rows of the committed
  `libuv_result.txt` are the row of `boost_result.txt` with more digits behind it.
* `cs_libuv/server_task.hpp:81-88` may meet the reset at line 144 and read a null
  pointer, and a read error of the very task that is being filled is the only way there
  (`CrashNeedsDeath`). After such an error a next command may be put into `m_bufferSend`
  while the old write is outstanding on the closed handle (`WriteRequestFree`).
* The committed `boost_result.txt` has 3996 rows for 4000 commands and four
  clients: the four answers `DumpMissesFew` allows for the four tasks.
* `row.h:40-45` keeps the end of the row and a zero, so each answer is two more than
  the characters that were written, where the log announces "the chars count"
  (`Right` of `RowFile` states what is returned); the committed reports have these
  numbers.
* `cloud_starter.cpp:24` takes a file's existence for its completeness. A torn file
  answers `<error>` for ever, but never with a wrong row, since the header is written
  last (`NeverWrongRow`). Two starters at once leave a good file only because
  `srand` gets a constant (`SettledFile`); a reader that meets them may be told
  anything.
* `server_task.h:229` of the libuv task server closes the pipe without the callback
  that resets it: after a failing read the task goes round in the pool for ever
  (`TaskEnds`). If the read fails while the shutdown after the last answer is
  pending, `HandleShutdown` (line 296) closes the pipe a second time, where libuv
  asserts (`AbortedFor`).
* `pair_socket.h:164` sends everything before it receives anything: with shares
  larger than the buffers both sides wait for each other (`ServerReturns`).
* `JnaMain.java:24` takes the callback object from the Vector while its native caller
  still has to return through the closure: this return, and no call, is where a
  collection can crash the process (`NoDeadCall`).
* `helper_win32.hpp:67`: `Stop` closes its connection at once. If that happens before
  `ConnectNamedPipe` the accept loop gets an invalid handle and the exception
  terminates the process; if a late client holds the last instance, `Stop` times out
  with the same effect (`TerminatedFor`). Nothing in the repository says otherwise, so
  these are hazards and not findings.
* A broken connection stays in the pull: in the asio server it swallows a command
  on every pass, in the libuv server one for good.

## Proofs

`JavaTaskProofs` proves every invariant that the runs of `JavaTask` check, for
any number of tasks, ids, steps and any subset of the task types, from
`JavaTaskAssumption` alone.

The invariants are not inductive. `IInv` adds, per task, what position of the
worker goes with what state of the peer, the collection, the log and the loop
(`TaskInv`): a thread exists only for a registered task, a task is in the
collection until its thread is past the removal, the log is open exactly between
`OnStarted` and the first part of `OnFinished`, its lines count the steps, and no
step before the current one was a stop. `Inductive` proves `Spec => []IInv`:
every action is shown to keep it by a lemma of its own. `TaskFrame` and
`OthersKeep` show once that a worker's step leaves the other tasks' parts alone.
`PeerAlive`, `ResultCorrect` and `EarlyEnds` follow from `IInv`. `LogsComplete` and
`LogsSeparate` need to know what is in the files, which `FileInv` says on top of `IInv`:
a line in a file is of a task that has closed its log under this name (`LinesOK`), a
file is at least as long as the log of the task that opened it last, once that is closed
(`OpenerOK`), and two tasks that have to do with a file since it was emptied have
different thread ids (`TogetherOK`), because the log is closed before the id
is free and the file is emptied when the id is taken again.

The second half of `JavaTaskProofs` proves the three invariants of `JnaTask` for any number of
tasks and any step counts, from `JnaTaskAssumption`. `JnaIInv` adds to the types that the Vector
holds a task exactly from its constructor to its last callback and that what it
holds is alive (`Held`), how a thread's position goes with the calls it has made
(`Counted`), and that main polls only after the last task was made (`JnaMainInv`). The
collector's guard and `Held` give `CallbacksAlive`; an empty Vector, `Held` and
`JnaMainInv` give `RunWaits`; `JnaTypeCorrect` is the type invariant.

The other proof modules are built alike: an inductive invariant `IInv`, one lemma per
action, `Inductive` for `Spec => []IInv`, and the properties from it. Each holds for
every value of the constants that the module's one named assumption allows.

| module | theorems (property) | what `IInv` adds, and the argument |
|---|---|---|
| PipeServerProofs | `OneHandlerPerTask` (`BuffersNotShared`), `CountCoversTasks` (`Consistent`), `NoDialogueCutShort` (`DialogueRunsOut`) | `Exchange`: a dialogue has one message, which is on the wire, in the server or back at the client, so a second handler has nothing to start on. `Counted`: the counter covers the tasks that hold a count and, separately, the two places of the assignment of `m_taskCounter` that have counted and not stored yet; a single task can be both. `Listening`: an accepted task listens until it is past Buy, unless its client is gone, so nothing but these ends it |
| CommandDispatchProofs | `AnswersPaired` (`Consistent`), `DumpBounded` (`DumpMissesFew`), `PromiseKept` (`LedgerKept`) | `OnePlace` and `Accounted`: every command that was taken is pending in one task, held by one handler, recorded or lost. `Wire`: what the sockets hold is the command of the pending read. `Threads`: the handlers that hold an answer fit into the pool; with one command per accepted task this bounds what the report misses, and, because a strand that visits occupies a thread itself, leaves room in the ledger for the command it takes |
| UvDispatchProofs | `AnswersPaired` (`Consistent`), `WireHoldsCurrent` (`WireIsCurrent`), `BuffersFree` (`WriteRequestFree`), `CrashExplained` (`CrashNeedsDeath`), `AnswerFindsResult`, `PromiseKept` (`LedgerKept`) | `Wire`: an answer on its way is the answer to the current command. `Fill`: between the halves of `SendCommad` the wire is empty and the current result is there while the client lives. `Writes`: while a write is outstanding on an open handle the task is busy, so the walk passes it by. `OneTask`, `Accounted`: a command is current in one accepted task, recorded or lost |
| PairServerProofs | `ReturnsComplete` (`Consistent`), `DeadItemKept`, `PromiseKept` (`LedgerKept`) | `Inner`, `OnePlace`: a command is in one place of one item, in the server's hand or at its end. `Counters`: a counter is at least what is outstanding, and equal while the client lives. `Accounted`: nothing is forgotten, or a dead client's counter is above what is outstanding (`Swallowed`). `ItemList`: who is not in the list has counter 0. When the list is empty no counter is above 0, so nothing was swallowed and every command has ended. For the ledger's bound the places of the buffers are numbered (`At`): each command is at one of them (`HeldAt`), so there are not more commands than places (`HeldFew`) |
| UvTaskProofs | `DeletedIsUnreferenced` (`NoLateCallback`), `DialogueComplete` (`Consistent`), `AbortExplained` (`AbortedFor`) | `Token`: the one message of a dialogue. `Requests`: which requests of a pipe may be outstanding in which state of it; a pipe that is reset has none. `Queued`: the pool's queue holds exactly the queued work items, and a task that is gone has none |
| WinPipeServerProofs | `ConnectedIsServed` (`Consistent`), `RoundsSuffice` (`TurnedAway`), `TerminationExplained` (`TerminatedFor`) | `Placed`: where a connection is on the server's side, at most at one place. `Rounds`: each further round of `connect_to_server` was paid for by a connection that somebody else made, and nobody connects twice |
| RowFileProofs | `SettledIsWhole` (`Consistent`), `TornIsSafe` (`NeverWrongRow`), `AllRowsFound` (`RowsFound`), `OnlyTornOrWhole`, `RoundTrip`, `LookupExact` | `Covers`: the starter that opened the file last finds in it all it has written, since whoever else still writes puts the same cells at the same places; when the last one at work closes, the one that covers the file has written all of it, so it is `Complete`. `Positions`: how far each starter is, and that it made the file. `Alone`: until a writer meets somebody there is one writer, the file is a front of its output with an empty header, and a reader past the header is on the way to its own row |

`RowFileProofs` rests on what the file's layout is for any sequence of rows, which
needs induction over data. The library's induction theorems take an operator as a
parameter and cannot be used, but that a set of naturals has a least element can be
(`LeastNatural`, from the well-foundedness of `<`), so the inductions are by the least
counterexample. `JoinsExist`, `JoinsUnique` and `FlattenJoins` show that the recursive
function inside `FlattenSeq` exists and is unique; `FlattenAppend`, `LeadingOpens` and
`FlattenPiece` say where each piece lies; `Layout`, `RowCells` and `EntryCells` say what
Writer::Write puts at which offset; and `CompleteWords`, `CompleteEntries` and
`CompleteRow` what Reader finds there. `RoundTrip` and `LookupExact` state this half by
itself: the Reader is the inverse of the Writer on a finished file. The numbers of rows
do not wrap because `RowFileAssumption` has fewer rows than `2 ^ RowBits`, as the
code has (3000 rows, 16 bits), and no row holds an end of a row.

`TerminationExplained` is stated under `Cardinality(Conns) <= ConnectionTimes`, which is
the code's case (six connections, ten rounds): with fewer rounds `Stop` may also give up.
`AnswerFindsResult` and `DeadItemKept` say what no run is asked: `HandleRead` of the
libuv server, which tests no flag, always finds a result, so that the null pointer is
met in `SendCommad` and nowhere else; and a client of the nanomsg server that dies
with a command keeps its item in the list, so the server blocks in `nn_recv` and never
returns without that answer.

The three `PromiseKept` are refinement proofs: the initial states of the server map to
the initial state of `CommandLedger`, and each step, from a state in `IInv`, to
`HandOut`, `Answer`, `Lose` or `Report` of the ledger or to a stutter. The bound on
the unanswered commands is the part that needs the counting lemmas. A client of the
nanomsg server that dies loses all it held in one step, which is why `Lose` takes a
set.

What the proofs changed in the models: `WinPipeServer` now assumes that the two markers
for "no pipe" are no connections, and `SpawnedAll` determines `main` also when there are
no clients; in `CommandDispatch` the ledger's `flying` is parenthesised, since the
union of the pending commands and that of the answers being added are two operands.

Only model-checked:

* liveness (`MainReturns`, `ClientsEnd`, `ReportIsWritten`, `TaskEnds`, `ServerReturns`,
  `RunReturns`, `StopEnds`): fairness and ENABLED are out of the prover's reach;
* the two violations, `pipe_buy` and `uv_exact`.

## Plan

Every invariant and action property that a run checks, and the three refinements, are
proved. What is left:

1. Shorten the proofs where one lemma can serve two actions (the steps of one item in
   `PairServerProofs`).
2. A model of `TaskJni` and of the nanomsg survey server if a program comes to use them.

## Not modelled

Nearly all of the repository's lines are vendored copies of SWIG, boost, libuv and
nanomsg, which the project uses and does not model. Of the repository's own code
these parts are left out: `TaskJni` and the nanomsg survey server are part of no
program, libuv's work test is switched off, and the prototypes are earlier forms of
the command server: one sequential loop over `Reader::GetRowById`, one that writes a
command and reads its answer in turn, and one with the tasks and the generator that
`CommandDispatch` models in the form they were developed into. Output and logging
(`sync_out_puter.h`, `logger.h`), process creation on Windows and SWIG's generated
glue besides the director carry no state the properties depend on.

`vfork` followed by a failing `execv` in
`posix_cloud_server/main.cpp` would continue on its parent's stack; the model
takes a failed start as one that reports failure. A started process that
`CreateProcess` cannot make is nobody who reads: `RowFile` has no action for it, nor for
an `fopen` that fails on a file that exists. Of the libuv server, a failing
`uv_accept`, a read of zero bytes and what libuv does when `uv_write` is called
off the loop thread are left out; the model takes such a write as atomic.

`UvTask` takes the callbacks of a pipe in order and a message in one piece, and
`uv_accept` and `uv_queue_work` as calls that do not fail; `TaskCounter` is left
out because nothing reads it there. `RowFile` assumes that a stream writes its buffer
out in order and before a seek. `WinPipeServer` takes `ConnectNamedPipe` on an
overlapped handle without an OVERLAPPED as the blocking call the code expects, and
leaves the leaked count to `PipeServer`.
