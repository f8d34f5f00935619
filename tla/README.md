# A verification of the SheetManager file server

TLA+ models of the HTTP file server under `src/` (C++17, Windows sockets), the TLC runs that check
them on small instances and the TLAPS proofs of their safety properties. Paths like
`server.cpp:549` are relative to `src/src/`; headers are in `src/include/`.

## 1. The system

| Component | State | Operations | Who runs it |
|---|---|---|---|
| `TaskQueue` (server.cpp 28-58) | `tasks_`, `mutex_`, `not_empty_`, `max_size_` | `push`, `pop`, `empty`, `size` | workers call `pop`; nobody calls `push` |
| `Connection` (server.cpp 61-391) | `state_`, `socket_`, buffers, `last_activity_` | constructor, `async_read`, `async_write`, completions, `is_expired`, destructor | the accept thread |
| `Server` (server.cpp 394-754) | `running_`, `server_socket_`, `connections_`, `active_connections_`, the threads | `start`, `stop`, `accept_connections`, `worker_thread_loop`, `cleanup_expired_connections` | accept thread, N workers, IOCP thread, console threads |
| `main` (main.cpp) | `g_server`, the statistics thread | start, wait for `running_` to fall, join, WSACleanup, return | main thread |
| console handler (main.cpp 28-37) | none | `stop` | a fresh thread for each Ctrl-C |
| `HttpHandler` (http_handler.cpp) | none | parse, upload, download, list, delete, build the response | the thread inside `async_read` |
| `FileManager` (file_manager.cpp) | the directory `uploads` | save, read, exists, delete, list, name checks | the handlers |
| simple server (server_simple.cpp) | none | `main` accepts, `handle_client` receives once, routes, answers, closes | main thread and one detached thread per client; not built by CMake |
| `PerformanceConfig` | none | constants | two of them are read by `main` |

**How they interact.** `main` starts the server and polls `running_` once a second. `start` opens the
listening socket, sets `running_` and creates the workers, the IOCP thread and the accept thread. The
accept thread admits a client (limit test, completion port, `add_connection`) and then calls
`async_read`, which, its name notwithstanding, does everything synchronously: it reads the request,
runs the handler, sends the response and closes the socket. The workers call `pop` on an empty queue
into which nothing is ever pushed, so they sleep; `handle_async_task`, `cleanup_expired_connections`
and `remove_connection` are not reached by this program. The IOCP thread polls the port and logs.
Ctrl-C runs `stop` on a thread that Windows creates. The four handlers work on the upload directory through a
`FileManager` they construct for each request; the only state they share is the file system. In the
server they run one after the other, in the simple server one thread per client runs them.

**What is hard.** Threads with a flag (`running_`), a condition variable, a counter and a list that
must agree; a stream that `recv` may cut anywhere; errors of system calls; clients that stay silent, do
not read their answer, close or abort at any moment; threads that run before the `std::thread` holding
them is stored; shutdown, in which main, the destructor of `Server` and one or more console threads
overlap, with each other and with `start`. The list of hazards, each at its line, is in `PROJECT.json`.

**What makes each part correct.** The queue: no lost wake-up, no task run twice, order kept, bound
kept. The connection: handled only when whole, CLOSED only when answered, one request per connection,
a whole request is answered. The server: counter equals list and stays within the limit, no socket is
forgotten, one client in service at a time, a stop that finds the threads waits for service to end,
clients are eventually served, the process eventually ends. The upload directory: with one request at a time every save, read,
removal and listing is atomic; with a thread per client contents are mixed only when an upload meets
another request for the same file, a file is removed once, what was saved stays. The simple server: no
client waits for another. Forms and names: wherever a body is cut only whole parts become files, each
under the name its part gives; what is checked is what is read; a listed name can be fetched and removed
through its link, whatever its bytes; every loop ends.

## 2. Modules

| Module | What it is |
|---|---|
| `TaskChannel` | abstract: a bounded FIFO channel between callers of `push` and `pop` |
| `TaskQueue` | class `TaskQueue`, one action per critical section; run directly |
| `Exchange` | abstract: one request and one answer with each client, no bytes, states or buffers |
| `Reception` | abstract: clients in line, one at a time at the desk for its exchange, a door that closes once; no threads or flags |
| `Connection`, `MCConnection` | class `Connection` and the client on the other side; request sets for TLC |
| `Server`, `MCServer` | class `Server` composed with `Connection` and the `pop` side of `TaskQueue`, plus main, console handlers and statistics thread |
| `FileRequests` | what the handlers have parsed and what an upload stores; shared by the next three |
| `FileShelf` | abstract: every save, read, removal and listing of the directory happens at once |
| `FileStore`, `MCFiles` | the four handlers over `FileManager`, cut at every file system call; requests for TLC |
| `SimpleServer`, `MCSimple` | `server_simple.cpp` over `FileStore`: accept loop, a thread per client, one recv |
| `FileNames` | names byte by byte: the two sets of rules, cleaning, escapes, the code page, what the file system makes of a name |
| `Multipart` | the body of an upload as a client writes it and as the handler searches it |
| `HttpHandler`, `MCHttp` | the handlers for one client, loops one round a step; names, forms and paths for TLC |
| `TaskQueueProofs`, `ConnectionProofs`, `ServerProofs`, `FileStoreProofs`, `FileVersionProofs`, `SimpleServerProofs`, `NameProofs`, `HttpHandlerProofs` | the theorems |

The directory is modelled twice, for two questions. `FileStore` asks what threads do to each other's
files, so a name is a model value and a handler is cut at its file system calls. `HttpHandler` asks what
bytes do to names and parts, so a name is a sequence of bytes and a handler is cut at the rounds of its
loops; each access to the directory is one step there, which `ShelfSpec` of `FileStore` justifies for
the server.

**TaskQueue.** `mutex_` is held from the first to the last access of `push` and of one evaluation of
`pop`'s predicate, so `Push` and `Poll` are single actions. `popper[w]` says whether worker `w` is
outside `pop`, about to take the mutex, or asleep in `wait`; `NotifyOne` moves one sleeper, chosen
freely; `SpuriousWake` moves one without a signal. `held[w]` is the caller's `AsyncTask`. Each task is
pushed at most once (`offered`), which bounds the environment and identifies tasks.

**Connection.** `step` is the position inside `async_read`. Bytes are counted in units: `HeaderLen`
units up to the blank line, then the body. A `recv` moves any number of the units that have arrived
(never more than are missing, in the body loop); a `send` any number of what is left. `request` holds
what the header announces (no length, a number, something `std::stoi` throws on) and what the client
really sends. `unread` is the set of clients for which `send` has to wait: the buffers of the two hosts
are full, which may be so before any `send` that has something left, and stays so until the client reads
(`TakeAnswer`) or its connection breaks; there is no timeout (server.cpp:214). `RecvError` is the outcome of storing `SOCKET_ERROR` in a `DWORD`: the process dies.
`Handle` is the whole of `handle_read_completion` up to the first `send`; `HandleThrows` is the
constructor of `FileManager` throwing where nobody catches. `process` and `winsock` are the fate of the
process and of Winsock. A connection that is given up stays in CLOSING with its socket open, as in the code.

It refines `Exchange` (`OneShotSpec`). A client has asked when as much has arrived as `async_read` waits
for (`Needed`: the header, and the body if a positive length is announced); `Phase` says how far the exchange
is, `Due` what is still to be sent. An exchange begins only when the client has asked, tells its
answer piece by piece, and is concluded only when nothing is due; a client that goes makes it dropped, or
breaks the process. What happens between is hidden: every cut by `recv`, the states and the buffers.

**Server.** `acceptPc` walks through the body of the accept loop; `current` is the client in hand.
`handler[h]` walks through `stop`, whose joins are taken stage by stage (workers, IOCP, accept):
`toJoin[h]` is what was joinable when the stage began. Main starts each thread in two steps, as the code
does: `Spawn`, after which the thread runs, and `Store`, when `emplace_back` has appended it or the
assignment has moved it (`spawned`, `stored`); `ThreadFails` is the constructor of `std::thread` throwing
where nobody catches (server.cpp 485-492, main.cpp:226). `Look` is `stop` looking for threads: it joins
the stored ones, and goes past one that is not stored yet, even if that one serves a client or waits in
`pop`. A handler whose stop has done so is in the history variable `hasty`. Two threads that join the
same `std::thread`, a `stop` that iterates `worker_threads_` while `start` appends to it, and one that
looks at a `std::thread` while `start` assigns it, are undefined behaviour: `JoinRace` lets the process
die there, and the other actions let it survive, with what the loop then finds left open. `mainPc` walks
through `main`. `Destroy` is `~Server`: its `stop` returns at once, because `running_` is already false, and a
joinable thread terminates the process. `late` is a history variable: the connections registered after
`running_` was cleared. `Server` refines `Reception` (`ReceptionSpec`): `Door` is made of `mainPc`, `running_` and `listening`,
the line is the backlog, the desk the client the accept thread has in hand, the admitted clients are
`connections_`. The reception says in its guards what the whole of the threads, flags and joins is for: one
exchange at a time, in the order of arrival, nobody turned away without reason, at most one admitted after
the door began to close, nobody at the desk once it is quiet, an end of the process only after a stop, while a
request is read or handled, or while threads are still being started (the door is "opening": clients are
served already). Quiet is what a stop that is not hasty leaves behind. `Server` uses `TaskQueue` with no tasks, which is what "nobody calls `push`" means.

**FileStore.** `pc[r]` names the next file system call of the thread that handles request `r`: `ctor`
and `mkdir` are `ensure_upload_directory`; `part` and `write` are the loop over the parts of an upload
and `save_file`; `exists`, `open`, `read` are `file_exists` and `read_file`; `find`, `remove` are
`delete_file`; `list`, `entry` are `list_files`. `MaxThreads` says how many requests are handled at a
time. It is 1 in the server, which `SerialService` of `Server` justifies, and larger for
`server_simple.cpp`. A file is a sequence of units, each naming the request that sent it, so that mixed
contents show; the line end that multipart splitting leaves at the end of every part is a unit too. `write`
and `read` move any number of units at a time, which covers every buffer size. A position past the end
of a file that was emptied meanwhile leaves zeros. `file_size` is taken when a file is opened and used
until it is read; what `ReadEnds` answers depends on whether all of it could be had. Files are opened
with the C library's default sharing, so a file that is open cannot be removed; the names of a directory
come in one piece, their attributes one by one. The parsed request stands for its text: an upload
without parts is every body that cannot be split, `NoName` is the name that a part without a file name
ends up with, and kind `other` is what the router answers itself. `met` is a history variable: whose
handling overlapped.

`FileStore` refines `FileShelf` with one thread. The mapping lets a save happen when its file is opened:
from then on the abstract content is all of the data, because nobody can look before it is written.

**SimpleServer.** `main` is the main thread (`Listen`, `Accept`), `conn[r]` a client's connection: not
there, waiting for accept, its thread in `recv`, being served, closed. The thread's work is `Handle(r)` of
`FileStore` with a thread per request. `ask` is what the client sends, `op` the request that the beginning
which the only `recv` returns is read as (`ReadAs`): all of it, one cut in the request line (another name,
or no handler), or an upload of which only the parts with a delimiter behind them remain. `ThreadFails` is
the constructor of `std::thread` throwing in main.

**HttpHandler.** The client writes a form part by part (`WritePart`), remembers in `form` and `starts`
what it wrote and where, and sends it; any beginning of the body arrives (`Send`), since the simple server receives
once and the server waits for no more than the client announces. It also lists, follows a link it was
given (`links`; `wanted` is the name behind it), and asks for paths of its own. `handle_upload` is
`FirstDelim`, then a round per part: `CutPart`, `ParseFilename`, `DecodeName` for each byte of an extended
name, `TakePart`; then `SaveFile` for each of `files`. `src`, `at`, `out` are input, position and result of
the loop over bytes that is running, in `url_encode`, `url_decode` or `file_name_url_decode`; `ii` is the
set of values that the uninitialised `int` of the last may have. `pc` is the loop or call the thread stands
before, `disk` the files by name. The strings that are searched for (delimiter, line end, `filename="`,
`filename*=`, `''`) are one unit each: the searches are for whole strings, and what a search does with
half of one at the end of a cut body is to find nothing. `utf8_to_acp` maps characters by `NonAscii`;
what it does not contain becomes a question mark, and a NUL ends every result, as in the code, whose
buffer counts it. `DiskName` is how Windows reads a path: up to the first NUL, without dots and blanks
at the end; a path with nothing left is the directory, which can be found, and removed when it is empty.
Of such names `Fold` forgets the case (`Alike`, for the names of the instance), so that two names lead to
the one file that is there (`Entry`), `IsDevice` tells those that are no files, and `NoFile` those for
which nothing can be opened. `trouble` is what is wrong with the disk in this run of the program:
"denied", a file may not be opened or removed, being in use or protected or whatever else throws; "full",
a write may leave any beginning of its data. `save_file` has both its exits (`SaveFails`, `SaveDone`),
with one reason for the first that is the name's and two that are not.

All that a client promises (`WellFormed`) is what it can see to: its boundary is not in its data, and its
names have no quote and no NUL. The data may hold line ends, empty lines, `filename="` and `filename*=`,
and `parse_filename` searches them too: `Misleads` says of which parts the data are taken for a name.

## 3. Runs

| Run | Instance | Shows |
|---|---|---|
| `taskqueue` | 2 workers, 4 tasks, room for 2 | bound, no lost wake-up, each task in one place, every accepted task taken, refinement of `TaskChannel` (with its fairness) |
| `connection` | 1 connection, header 2 units, body and announced length 0..3 independently, response up to 3 units, every fault, a client that may leave its answer unread for a while | whole requests, CLOSED means answered, one request per connection, whole requests are answered, refinement of `Exchange` |
| `server_safety` | 2 clients that may abort, limit 2, 1 worker, 2 Ctrl-C at any time, every fault of start, threads, accept and storage | types, no socket forgotten, one client in service, at most one late registration, a finished stop that was not hasty means nobody is in service and nobody is left in `pop`, refinement of `Reception` |
| `server_stop` | 2 clients, limit 1, 1 worker, 1 Ctrl-C at any time, one client may stay silent or not read its answer, a completion port that may refuse | counter = list within the limit, refinement of `Reception`, clients that deliver and read are served or turned away unless the other one holds the accept thread, the process ends |
| `files_serial` | 3 requests of any kind, 2 names and a bad one, uploads of 0, 1 and 2 parts, old files empty or long, files that cannot be opened, a directory that cannot be made; one thread | refinement of `FileShelf` |
| `simple` | 3 clients: one uploads a file, one uploads two or removes it, one downloads, removes or lists; backlog 2, one client may stay silent, a listening socket or a thread that cannot be had | types and read bound, contents mixed only by uploads of the same file, saved data stays, the end of the process leaves whole files and beginnings of those being written, removed once, no client waits for another |
| `http` | an upload of up to two parts out of 18 in all media types and cut anywhere, then one listing, one download and one removal in any order, by link or by 10 made-up paths; a disk without troubles, and one that may deny every file and be full | loops inside their inputs and a directory as Windows keeps it, whole parts only, the name checked is the name read, links work, only the named file changes, the status of an upload tells what was counted as stored, every request ends |
| `connection_reset` (violation) | 1 client that may abort | a failed `recv` ends the process, not the connection |
| `server_limit` (violation) | 2 well-behaved clients, limit 1 | the limit counts all connections there ever were |
| `server_silent` (violation) | a silent client and one that delivers | the second is never served |
| `server_exit` (violation) | no workers, 1 Ctrl-C | main may destroy joinable threads and terminate |
| `files_full` (violation) | 1 upload of 2 files, a disk that may be full | success is reported for a file that lacks its data |

**Bounds.** Connections share nothing but the process and the accept thread, so one is enough for the
stream and two for admission: with limit 1 and with limit 2 the limit is met, missed and exceeded. A
header of two units and a body of up to three give a `recv` that ends before, at and after the header,
and before, at and after the body. Two handlers are the least that can race in `stop`; a worker may or
may not reach `pop` before the flag is cleared, and a stop may come between any two steps of `start`. The
four kinds of threads are one of each there: what `stop` finds of several workers is a subset, and with one
both cases occur. One handler is enough for the liveness, which asks what the others do once a stop is under way. In the queue two workers and four tasks reach an empty,
a filling and a full queue with zero, one and two sleepers. The backlog holds at most `MaxConnections`
clients in `Server` and `Backlog` in `SimpleServer`, the argument given to `listen`; a client beyond it
is refused by the system, as if it had not come. A response has at most `MaxResponse` units. Three
requests are the least that show an upload between the check and the use of another request while a
third looks on, and, one after the other, the effect of two on a third. An old file of three units is
longer than an upload, so that forgetting to truncate shows; uploads of one and two units plus the line
end give a file that is written in one piece and in several. In `simple` no file system call fails, as
failures there only make handlers return early; `files_serial` has them.

In `http` a name has at most five bytes instead of 255 (`NameLimit`), so that names at the limit and
beyond it occur. The 15 names hold a percent sign alone and before two digits, a plus, a dot at either end,
a blank at the end, a control character, a capital (with the same letter in lower case as another name), a
device, a character whose second byte in the code page is a vertical bar and one that the code page lacks;
the paths add cut and wrong escapes, escaped dots, NUL, colon and separators. Data hold an empty line, an
extended name, half of one, and a plain one. `MaxParts`, `MaxRequests` and the order (the upload before the other requests) bound the
client only: a handler keeps nothing from one request to the next but the directory. The files of others
are an empty one with a capital for a name, and one whose name is not valid. Two parts are the least for which the loop must go on from a
delimiter that is both an end and a beginning.

**Fairness.** Every thread of the process is scheduled (weak fairness of the accept thread, of each
worker's steps, of each started `stop`, of main, of the polling threads): these are operating system
threads with no priorities, and each mutex is held for a few instructions. `notify_one`'s choice and
spurious wake-ups are not fair. In the simple server the main thread is scheduled (`Listen`), `accept`
takes clients in turn (`Accept(r)`), and so is each client's thread (`HandleClient(r)`); in `HttpHandler`
the one handling thread (`Handler`). Clients owe nothing, except that a client in `Prompt` delivers what
it set out to send and reads what it is sent; nobody has to connect and nobody has to press Ctrl-C. `send`
goes on only when there is room for more (`c \notin unread`), so the fairness of the accept thread does not
make it end: one client that does not read holds all others, and `EveryClientServed` says so. In the simple server
that client would hold its own thread only, and `EveryClientAnswered` takes it to read. The liveness runs with failing
clients say "unless it hangs up" or keep failures out of the instance, since one aborting client ends
the process.

**Deadlock** is checked in `taskqueue`. In the other runs it is off: the process may have ended, or the
server may be idle with no client left to come, or all requests may have been answered.

## 4. Proofs

All theorems hold for every value of the constants under the assumptions that the modules state and TLC
evaluates in the runs: `QueueAssumption` (finitely many workers, a bound in Nat, `NoTask` is no task),
`ConnAssumption` (positive lengths), `ServerAssumption` (finitely many clients, distinct threads),
`FileAssumption` (finitely many requests, valid names are not bad names), `ThreadAssumption`,
`SimpleAssumption` (types), `NameAssumption` (a positive limit; characters beyond ASCII have bytes of 128
and more and their code has no NUL; no device has the empty name), `HttpAssumption` (clients keep their
boundary out of their data and quotes and NUL out of their names; the files of others have names as the
file system keeps them, no two of which differ in case only).

* `TaskQueueProofs`: the type invariant; `NoLostWakeup`, which is inductive only with the type invariant
  and needs the cardinality of the set of polling workers to grow or shrink by one; `HandedOutOnce`,
  with the strengthening `OfferedOnly` (what is queued or held has been offered); the safety part of the
  refinement of `TaskChannel`, step by step.
* `ConnectionProofs`: `ConnInv` ties the position in `async_read` to `state_`, `socket_` and the
  counters (`StepInv`), for instance that a request being sent has all it announced. It is proved
  inductive for every action, once for connections alone and reused in the server through lemmas about
  a single step. `ConnectionImplementsExchange` adds `PendingInv` (`async_read` waits only for what is
  missing, and a response being sent is not yet sent to its end) and goes step by step through the refinement
  of `Exchange`; `ClientRefines`, `ConstructRefines` and `ReadRefines` are stated for a single step, so
  that the server uses them again.
* `ServerProofs`: `ServerInv` adds what the composition needs: `ArrivalInv` (a client is unknown, in the
  backlog, in hand or registered, and never two of these), `AcceptInv` (position of the accept thread
  against the connection in hand), `LifeInv` (who has been started, has returned and has been joined,
  against main, the handlers and `late`). `TypeOK`, `AdmissionBound`, `SocketsOwned`, `SerialService`,
  `StopMeansQuiet` and `AtMostOneLate` follow. `ServerUsesQueue` shows that the server does to the queue
  only what its class offers, so the theorems of `TaskQueueProofs` hold of the queue inside the server.
  `StopMeansQuiet` and `NobodyLeftInPop` are stated of handlers that are not hasty: a stop that looks for a
  thread between its `Spawn` and its `Store` goes past it, and then neither holds in the code.
  `NobodyLeftInPop` rests on `WorkersInv`: whoever is inside `pop` was started and has not returned, and
  a stop that is not hasty, while it joins the workers, waits for everyone who is inside; this is where it matters that
  `running_` is cleared before `toJoin` is taken, for a worker that starts later does not enter `pop`.
  `ServerImplementsReception` is the refinement of `Reception`, one lemma for each group of
  threads. It needs `DoorInv` (flag, listening socket, backlog and what `stop` has begun to join agree on
  how far the shutdown is) and `PendingInv`, next to `ServerInv` (`LobbyInv`).
* `FileStoreProofs`: `FileInv` adds to the types what each position of a handler knows (`HandlerInv`):
  the kind of its request, that its name is valid, that nothing was read before the file was opened, and
  that an open file is on the disk, which holds because `Remove` fails on open files and is what keeps
  contents and names together when a write goes on. `RemovedOnce` needs `RemovalInv`, proved for each
  name on its own: while the file exists nobody has been told that it was removed. A step either leaves
  names and success messages alone (`Quiet`), or opens a file for writing, or removes one.
  `SavedStays` needs `StayInv`: what has been written of the current part is a prefix of its data
  (`WrittenPrefix`), so that at the close it is all of it, and saved parts are behind the current one; a step of another request changes only its own files
  (`Elsewhere`). It is proved under the premise that the disk has room (`"full"` is not among the
  faults): `files_full` shows that the code does not keep it otherwise.
* `FileVersionProofs`: `WholeUnlessShared`, under the same premise, for any number of threads. `MetInv`:
  `met` has everyone a request at work can be disturbed by. `WriterInv`: an upload that is alone on its
  file has written a prefix of its data. `StoredInv`: a file that nobody writes and no two uploads have
  shared is a stored version. `ReaderInv`: an undisturbed download has read a prefix of a version of the
  size it was told. `LeftByTheEnd` follows from the same invariant and `PosInv`, an upload is never further
  than the end of its data: a file that is no stored version has a writer, and what it has written is a
  beginning. The premise is needed: on a full disk a cut file stays although nobody writes it.
  The second half proves that with one thread the handlers implement `FileShelf`
  (`HandlersImplementShelf`), under the same premise. Only one request is ever at work (`Solo`) and `met` stays
  empty, so `WriterInv` needs no condition, and `ShelfInv` says what the handler at work knows of the
  directory since it looked: the file it found is there, what it has read is a prefix of the content, what
  it has listed and has still to list are the files.
* `SimpleServerProofs`: every behaviour of `SimpleServer` is one of `FileStore` (its own steps stutter,
  `Recv` is `Begin`), so types, `RemovedOnce`, `SavedStays`, `WholeUnlessShared` and `LeftByTheEnd` hold in it; and
  `SimpleTypeOK`.
* `NameProofs`: facts about names and forms, without the state. A name that is accepted is valid and is not changed by
  cleaning; an escape is read back as the byte it stands for; `Disposition` has exactly the search
  strings its style gives it; `parse_filename` finds the name that the part gives unless its data mislead it; the part between two
  delimiters of a form is the text the client wrote. `utf8_to_acp` and `Escaped` are recursive functions:
  what is needed of them (a NUL at the end, no name lost, the beginnings of escaped text) is proved by
  taking the least position at which it fails, since no induction rule is at hand.
* `HttpHandlerProofs`: `HttpInv`, types and what each place of the handler knows (`PlaceInv`), gives
  `HttpTypeOK` and `CheckedNameIsReadName`. `Shape` describes the body while it is composed (parts where
  `starts` says, delimiters only there) and, cut, while it is taken apart; `LoopInv` ties the delimiter in hand to the number of files found, which gives
  `WholePartsOnly`, and with the names, `OnlyNamedFilesChange`. A part whose data are taken for a name
  (`Misleads`) is left out of the invariant only where its name is concerned (`WholeMisled`). `SavedInv` says
  what has become of the files dealt with so far: `failed` has the refused parts, and others only for a device
  or a disk that denies them; what has not failed lies under its name (`Lies`) unless a later part has
  replaced it or it went to a device; with `NoneLeft` (the loop ends with all whole parts taken) it gives
  `StatusTellsUpload`. That `disk` never has two names that differ in case only (`DiskOK`) is what makes
  `Entry` a function. `LinksInv` gives `LinksWork`:
  `NamesInv` (a file that came by an upload has a name the checks accept), `EncodeInv` (the output of
  `url_encode` is the beginning of the escaped name), `LinkInv` (so is every link), `WantInv` (decoding
  a link has read a beginning of the name).

TLC also finds the inductive invariants to hold on the instances of the runs, except for the parts it cannot
evaluate (`EncodeInv` and the `Decoded` parts of `LoopInv` and `WantInv`, which quantify over all functions).

Only model-checked: the liveness properties (`EveryTaskTaken`, `WholeRequestAnswered`,
`EveryClientServed`, `ShutdownEnds`, `EveryClientAnswered`, `EveryRequestEnds`, the fairness of
`ChannelSpec`), since the prover has no rule for fairness here.

## 5. What the violations say, and other remarks

Each is a disagreement between the code and its own comments, messages or documents; `PROJECT.json`
quotes them. In short: (1) an aborting client kills the process; (2) the limit on concurrent
connections is a limit on connections for the life of the process; (3) clients are not independent;
(4) the exit after Ctrl-C is not clean; (5) an upload onto a full disk is reported as saved. With at
least one worker that has reached `pop`, `stop` never returns; `ShutdownEnds` shows that the process
ends all the same, because main does not wait for it.

Three more disagreements follow from actions of the models and are written down here without a run of
their own, since the properties of the passing runs are stated around them:

* server.cpp:520 says of `stop` "等待接受线程结束" (wait for the accept thread to end). A Ctrl-C between the
  start of the accept thread and the assignment to `accept_thread_` (server.cpp:492) makes `stop` return
  while that thread may go on to admit and serve a client (`Look`, `hasty`; `StopMeansQuiet` is about every
  other stop).
* `src/README.md:11` promises "完全支持PDF、DWG等二进制文件" (full support of binary files). The line end before
  a delimiter is stored with every file, so no file comes back as it was sent (`DataOf`; `WholePartsOnly`
  says that it is exactly this line end, and that it is not the client's).
* http_handler.cpp:724 means to look for "filename*=" in the header of a part, and searches its data too: a
  file that holds `filename*=` and `''` on one line, sent with a plain name, is stored under what stands
  there (`Misleads`).

Met while modelling, and built into the modules as the code does it:

* `src/README.md:12` promises a thread for each client. The simple server keeps that
  (`EveryClientAnswered`), the server does not (`server_silent`).
* The simple server takes what one `recv` returns for the request: a request line cut in the name is a
  request for another file (`Beginnings`), and of a cut upload the whole parts are saved and answered
  with 200. `SavedStays`, `WholeUnlessShared` and `WholePartsOnly` are what remains true.
* `src/README.md:177` says dangerous characters in names are cleaned; `save_file` refuses such names
  before it cleans anything, so `sanitize_filename` changes nothing where it is used
  (`CheckedNameIsReadName`).
* A boundary that is followed by another parameter is never found, and the upload is refused.
* A client that does not read its answer holds `send`, and with it the accept thread, for ever
  (`EveryClientServed` excepts it).
* `file_exists` finds an empty file and a device, `read_file` gives nothing for either, and the answer is
  500 (`LinksWork` says when). An upload to a device name is counted as saved when the device opens.
* A directory that cannot be made, and a thread that cannot be had, end the process with an exception that
  nobody catches (`HandleThrows`, `MakeDirThrows`, `ThreadFails`); a listing during which a file goes is
  answered incomplete with status 200 (`ListEntry`). `Reception`, `FileShelf` and the liveness properties allow this.
* A converted name ends in a NUL and is never empty: a part without a file name is not skipped but fails
  to be saved, and a name may have one byte less than the limit.
* The listing declares UTF-8 but holds names in the code page; its links work nevertheless (`LinksWork`),
  since they escape bytes.

## 6. Not modelled, and the plan

Not modelled, and why:

* what stands behind `pop` (`handle_async_task`, `cleanup_expired_connections`, `remove_connection`):
  no execution reaches it, as nothing calls `push`;
* the wide-character overloads and path helpers of `FileManager` and `test_file_operations`: no caller
  in the program; they repeat the narrow operations;
* `parse_headers` and `utf8_to_wstring` of `HttpHandler`: no caller; `build_response`, the JSON text,
  `get_mime_type`: formatting. A header ended by two LF, which makes the body lose two bytes, is left
  out (`PROJECT.json`, hazards);
* the epoll branch and the non-blocking branch of `Connection`: they do not compile, Windows names are
  used outside any `#ifdef`;
* `PerformanceConfig` constants nobody reads, message texts and logging, the statistics getters (reads
  only), the Python clients.

1. (done) the queue, the connection, the server, with proofs.
2. (done) the four handlers over `FileManager` as steps on the directory, with proofs.
3. (done) the simple server with its single recv and a thread per client, with proofs.
4. (done) names, escapes, forms and their splitting byte by byte, with proofs.
5. (done) proofs of `WholeUnlessShared` and of the refinement of `FileShelf`.
6. (done) the abstract exchange and reception, and the refinement of `Connection` and `Server` to them,
   with proofs; what the status of an upload says.
7. (done) threads that run before they are stored, a `start` that fails half-way, a `send` that waits for its
   client, data that hold anything, devices, names without regard to case, a disk that denies or is full.
8. (left) the worker side as the class intends it, behind an external caller of `push`.
