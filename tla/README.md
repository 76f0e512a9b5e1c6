# A TLA+ development of vek

vek is a web language with its own compiler, stack machine, garbage collector,
HTTP server and packages, written in C. This directory holds TLA+ models of it,
TLC configurations that check them on small instances, and TLAPS proofs about
them for every value of their constants. Paths such as `event_loop.c` are
relative to `src/src/`.

The modules are translated from the C code, not from its documents. Where a
comment or document promises something the code does not do, a run shows the
counterexample, and the finding quotes both.

| module | models | kind |
| --- | --- | --- |
| `RequestReply` | what the server promises its clients | abstract specification |
| `HttpServer` | `event_loop.c`, the callbacks of `stdlib_http_server.c` | state machine, implements `RequestReply` |
| `Dictionary` | what a map promises the program | abstract specification |
| `ObjMap` | the hash map of `object.c`, the `for` loop of `vm.c` over it | state machine, implements `Dictionary` |
| `Language` | what a program means, by its tree | abstract specification |
| `Values` | operations on values, shared by the meaning and the machine | functions |
| `Compiler` | `compiler.c`, from tokens to instructions | functions |
| `Machine` | `run()` of `vm.c` | state machine; with `Compiler`, agrees with `Language` |
| `Runtime` | calls between C and vek code, pubsub, `db.transaction` | state machine |
| `Heap` | `gc.c`, the table of strings of `object.c` | state machine |
| `Services` | `stdlib_ratelimit.c`, `stdlib_cache.c` under a clock | state machine |
| `Sessions` | `stdlib_session.c`, `stdlib_csrf.c`, `stdlib_flash.c` at several workers | state machine |
| `JobQueue` | `stdlib_jobs.c`, several workers | state machine |
| `Database` | `vek_db.c`, `stdlib_db.c`, several workers on one file | state machine |
| `Supervisor` | `run_with_workers` of `cli.c` | state machine |
| `DevServer` | `cmd_dev.c`, `file_watcher.c` | state machine |
| `Migrations` | `cmd_migrate.c`, several processes | state machine |
| `Methods`, `MethodLaws` | methods of strings and lists (`vm.c`); what they owe each other | functions and laws |
| `Encodings` | JSON, session cookies, job arguments | functions and laws |
| `Frames` | base 64 of `stdlib_session.c`, frames of `stdlib_websocket.c` | functions and laws |
| `Bytecode` | `vebc_writer.c`, `vebc_loader.c`, `cmd_build.c` | functions and laws |
| `Formatter` | `lexer.c`, `formatter.c` | functions and laws |
| `Router`, `Messages` | `router.c`; `http_parser.c`, `http_server.c`, `stdlib_http_client.c` | functions and laws |
| `Pages`, `Compression`, `Columns` | views, sanitizer, forms, paths; DEFLATE; parameters and rows | functions and laws |
| `Text` | the string functions of the C library | functions |

`MCHttpServer`, `MCObjMap`, `MCData`, `MCLanguage`, `MCProcesses` and `MCProgram`
are the instances for TLC. The theorems are in `HttpServerProofs`, `ObjMapProofs`,
`RuntimeProofs`, `HeapProofs`, `CommandsProofs` (`Supervisor`, `DevServer`,
`Migrations`, `Database`, `JobQueue`), `SessionsProofs` (`Sessions`, `Services`)
and `DataProofs` (`MethodLaws`, `Columns`, `Frames`); `NumberFacts` has what
several of them need of numbers.

Definitions have the name of the C function they model where there is one
(`event_loop_conn_close`, `map_grow`, `native_jobs_run_one`); an outcome of a
function that is an action of its own is named for the outcome
(`request_pending`, `accept_over_limit`). A definition that a comment calls a
mutant is a plausible bug in the definition after it. No specification refers
to it: it is there to show that a property can fail.

## The system and its components

One vek program runs as one process, or as several worker processes forked by
`run_with_workers` (`cli.c`) that share a listening address (`SO_REUSEPORT`)
and an SQLite database, but no memory. Each process has **one thread**. The
compiler turns the program into a chunk; the VM runs it; the program calls
`listen`, which does not return until the server stops, and from then on vek
code runs only as callbacks from the event loop. So there are no interleavings
inside a process except through *callbacks and re-entrance* (C code calls vek
code, which calls C code, which may free what the outer C code is using),
through the *kernel* (edges, timers and sockets change between two system
calls), and between *processes* that use one database.

### Event loop (`event_loop.c`)
*State*: the list of connections, each with a read buffer, a write buffer and
an `EpollData`; timers (timerfd) with a callback and a pointer given by the
caller; the epoll instance; `running`, `max_connections`. *Operations*:
`handle_accept`, `handle_read`, `handle_write`, `handle_timer`,
`event_loop_conn_write`, `_conn_close`, `_add_timer`, `_cancel_timer`, `_run`,
`_stop`. *Interaction*: calls the callbacks of the HTTP server, which call
`conn_write` and `conn_close` back, re-entrantly. *Hard*: edge triggering (what
is not consumed is not reported again); the events of one `epoll_wait` point to
objects that an earlier event of the same batch may free; timers against
traffic; a limit of connections. *Correct when*: no wakeup is lost
(`NoLostWakeup`; in the backlog only at a limit, `BacklogKept`), an event refers to
freed memory only where a connection and its own timeout meet in one batch
(`StaleOnlyByTimeout`, and the theorem `ReadyAlwaysAllocated`), nobody closes someone
else's connection (`ClosedByOwnEvent`). **Modelled.**

### HTTP server (`stdlib_http_server.c`, `http_server.c`, `http_parser.c`)
*State*: per connection `keep_alive` and the pending `timeout`. *Operations*: the
callbacks `on_accept_vek`, `on_data_vek`, `on_write_done_vek`, `on_close_vek`,
`on_timeout_vek`, and `sigint_handler`. *Hard*: pipelined and partial requests in
one buffer; the callback of a completed write runs inside the write. *Correct
when*: requests are answered in order, each at most once (`KeepsPromise`,
`NoRequestLost`); state and timer stay inverse to each other (`TimersBelong`); a
silent client is disconnected, unless it has been answered 400
(`SilentConnectionCloses`); a connection is not used after it was closed
(`NoUseAfterResponse`: violated). **Partly modelled**: in `HttpServer` the parser
is reduced to where the first request of a buffer ends and which of three kinds it
is; `Messages` has the parser itself, the request map, the handler's answer and
the response as functions, for one message at a time.

### Maps (`object.c`, and `iterator_next` in `vm.c`)
*State*: entries (open addressing, linear probing, tombstones) and a count.
*Operations*: set, get, delete, growth, iteration. *Hard*: long sequences of
legal calls; a loop over a map whose body changes it. *Correct when*: the map
behaves as a dictionary (`KeepsContents`), probes end (`ProbingEnds`: violated),
loops visit what stays once (`LoopVisitsOnce`). **Modelled**; the intern
table of the same file is in `Heap`.

### Background jobs (`stdlib_jobs.c`)
*State*: the table `_vek_jobs`, shared by all processes; an array of handlers
per process. *Operations*: enqueue, process (register), run_one, clear, count.
*Hard*: run_one is four unprotected statements and a callback; workers
interleave between them, crash between them, and ignore failed statements.
*Correct when*: a job is run once, unless two workers race for it (`RunOnce`), in
order (`InOrder`), success is recorded truthfully (`CompletedHasSucceeded`), and
every job is tried (`JobsTried`) and, as the README promises, tried again when it
fails (`FailedAreRetried`: violated). **Modelled** (`count` only reads).

### Compiler and virtual machine (`compiler.c`, `vm.c`)
*State*: the compiler's scopes, locals, upvalue lists and jumps to patch; the
machine's stack, frames, open upvalues, globals and `had_error`. *Operations*: the
parse rules; the instructions; `vm_call` from C. *Hard*: a local has no
declaration, and its slot is wherever the compiler believes the stack to be;
closures share variables that are still on the stack; C calls vek code, which
calls C, and each may fail. *Correct when*: a compiled program does what its
source means (`AgreesWithSource`: violated with locals in blocks, and with the
fresh loop variables that `LANGUAGE_SPEC.md` promises), locals are where the
compiler counts them (`LocalsInTheirSlots`), and a call from C gives back the
frames and the stack it began with (`FramesRestored`; `CallsBalanced`: violated).
**Partly modelled**: `Compiler`, `Machine`, `Runtime`, `Methods`. Floats, and the
text of numbers and strings, are left out.

### Memory (`gc.c`, `memory.c`, the intern table of `object.c`)
*State*: the objects, pins, temporary roots, strings weakly held by the intern
table. *Operations*: allocate, collect, pin and unpin, intern, grow the table.
*Hard*: pins and roots must cover what C code uses; the table drops what the
collector frees, and leaves tombstones. *Correct when*: nothing in use is freed
(`NothingInUseFreed`), equal strings are one object (`Interned`), and a search
ends (`SearchesEnd`: violated). **Partly modelled** (`Heap`): a collection may
begin whenever the program runs, marks object by object, and sweeps in one step.

### In-process services (`stdlib_pubsub.c`, `stdlib_ratelimit.c`, `stdlib_cache.c`, `stdlib_flash.c`, `stdlib_kv.c`)
Tables that live as long as the process. *Hard*: subscribers are called
synchronously and may subscribe, publish and fail; the clock may be set back.
*Correct when*: each subscriber is called once and in order
(`SubscribersServed`) and is not freed before (`PinnedWhileSubscribed`); limits
and expiry hold under any clock (`KeepsTime`); a message is read once
(`FlashReadOnce`). **Partly modelled** (`Runtime`, `Services`, `Sessions`); kv is
single statements of SQLite.

### Sessions (`stdlib_session.c`, `stdlib_csrf.c`, `stdlib_auth.c`)
*State*: one map of session data per process, the secret, and a cookie at each
visitor. *Operations*: init, decode, get, set, delete, encode; a token for forms.
*Hard*: the map is there before a visitor's cookie is read and stays afterwards;
visitors go to any worker; answers are lost, workers restart. *Correct when*: at
every worker a visitor finds what its last answer left (`SessionKept`).
**Partly modelled** (`Sessions`; the text of the cookie in `Encodings` and
`Frames`); hashes are taken as what they promise.

### Database (`vek_db.c`, `stdlib_db.c`)
*State*: the SQLite handle, `in_transaction`. *Operations*: connect, close,
query, exec, begin, commit, rollback, `db.transaction` with a vek callback.
*Hard*: callbacks that nest, fail, close; other processes that hold the lock
(there is no busy timeout); snapshots. *Correct when*: a transaction takes effect
as a whole or not at all (`TransactionsAtomic`, for one process with everything
that a callback may do), and what is acknowledged is stored and nothing is lost
between processes (`TransactionsSerial`; not the writes that follow a COMMIT which
failed and left SQLite's transaction open). **Partly modelled** (`Runtime`,
`Database`, `Columns`).

### Worker supervisor, dev server, migrations (`cli.c`, `cmd_dev.c`, `file_watcher.c`, `cmd_migrate.c`)
Processes that start, watch and stop other processes, and a command that
applies files and records them. *Hard*: a crash between any two steps, forks that
fail, pids that the kernel uses again, changes while the app restarts, two
migrations at once. *Correct when*: no worker is left behind and no stranger
killed (`NoWorkerLeft`, `OnlyWorkersKilled`), restarts follow the policy and the
command ends (`RestartPolicy`, `CommandEnds`); there is one app at a time, apart
from one that a signal kept the command from waiting for after SIGKILL, and
every change restarts it (`OneApp`, `ChangesRestart`); a migration takes effect
once, in order (`AppliedOnce`, `AppliedInOrder`). **Modelled** (`Supervisor`,
`DevServer`, `Migrations`), apart from command lines and listings.

### Conversions
Router, messages of HTTP, JSON, cookies, job arguments, WebSocket frames,
bytecode files, the formatter, pages, forms, paths, compression, columns and the
methods of strings and lists are sequential functions. Each is *correct when* it
agrees with its counterpart: what one part writes another reads back
(`ReadBack`), a request reaches the handler its route means and the answer comes
back, however the bytes are cut (`ExchangeKept`), methods agree with one another
(`MethodsAgree`). **Modelled** as functions, as far as `PROJECT.json` lists.

### Not modelled
Commands that are sequential input and output around the compiler and the VM
(`cmd_test.c`, `cmd_repl.c`, `cmd_shell.c`, `cmd_new.c`, the command line of
`cli.c`); the disassembler. Markdown, dates, hashing, passwords, translations,
the environment and logs: conversions that nothing in the program reads back.
Mail, storage and webhooks: blocking calls. CORS and CSP: the formatting of
headers. The kv package: single SQL statements. The C-only server of
`http_server.c`, which no vek program starts. `event_loop_destroy`, after the
loop. Floats, 48-bit integers and integer overflow of the language: the runs'
numbers are small. `sqlite3.h` is third-party; the modules that use it model
what the code relies on (locks, snapshots, refused and failing statements).

## HttpServer

One process. **State.** `live` is the set of allocated `Connection`s (the
`conn_head` list); `keep`, `inbuf`, `unsent` and `timerOf` are
`state->keep_alive`, `conn->read_buf`, the responses of `conn->write_buf` not
yet fully written, and `state->timeout`. `target[t]` is the `userdata` of timer
`t`, and says whether `t` is allocated. `batch` is what is left of the array
that `epoll_wait` filled. `ready`, `wantOut`, `fired`, `backlog`, `rx` and
`blocked` are the kernel's; `peer` and `arrivals` the clients'. Data are
abstracted to what the properties tell apart: bytes arrive in pieces, a piece
either completes a request of a kind (`ka`, `close`, `bad`) or is a proper part
of one (`head`); responses are counted.

**Actions.** `event_loop_run` is `epoll_wait` followed by one action per event
(one per turn of the loop for `handle_accept`). A handler runs to completion,
callbacks included, since there is one thread; its outcomes are alternatives:
what the socket takes (`request_answered`, `request_pending`), or a reset that
the write meets (`request_unwritten`). An event with both `EPOLLIN` and
`EPOLLOUT` takes two actions, as in the code, the second on a connection the
first may have closed.

**Edge triggering.** An edge moves its source to the ready list (`Wake`);
`epoll_wait` takes sources off the list and drops those that have nothing to
report; `EPOLL_CTL_MOD` puts a readable socket back. That is how the kernel
behaves for `EPOLLET`, and is modelled from the way the code relies on it.

**Freed memory.** Addresses are reused. Where the code uses memory it has freed,
the action allows every outcome the build can produce (a stale event acts on
whatever object is at its address or on none, the allocator may abort), and
`touched` records it. Invariants that C code can keep only up to such a use say
so with `touched = {}`.

Properties:
- `TimersBelong`: every allocated timer belongs to a live connection that
  will cancel it, and vice versa. Five handlers maintain it.
- `ReadySourcesAllocated` (proved), `StaleOnlyByTimeout`: closing removes pending
  edges; an event of the current batch loses its object in one way only, when it
  and the event being dispatched are those of a connection and of that
  connection's own timeout, expired in the same batch. `listen` always sets a
  timeout (30 s), so this does happen; no other client is ever involved before the
  first use of freed memory.
- `NoLostWakeup`: unread input has an event to come; an unfinished response has
  an event to come or waits for `EPOLLOUT` with the buffer full.
- `BacklogKept`: so does the backlog, unless the step that leaves it is one at
  `max_connections`, where one connection is accepted and closed per event, or one
  without a free descriptor. The others then wait for an edge that only a new
  client causes.
- `ClosedByOwnEvent`: a step frees a connection only for an event of that
  connection or its own timeout.
- `NoRequestLost`, `KeepsPromise`: what is answered, buffered and received is
  what was asked; the server implements `RequestReply` under the mapping
  `open <- live`, with the sequences cut at the first malformed request (whose
  bytes are never consumed, so that it is answered again with every new input).
- `SilentConnectionCloses`: a connection whose client falls silent is closed, or has
  been answered 400 while it was to be kept: then its timeout is cancelled, none is
  armed, and, although the comment says "Send 400 and close", nobody closes it
  (`LeftAfter400`).

## ObjMap

One map and at most one `for` loop over it. `entries` is a function from slots
to key and value; `Probe` says at once where the C loop stops (the nearest slot
from the home slot that holds the key or is empty), `Place` where a set puts the
entry. `map_grow` puts the live entries into a table of twice the size, slot by
slot (`Moved`). A
probe that meets neither its key nor an empty slot never ends in the code;
`probe_forever` then stops the model. `visits` is history: it follows the keys
that stay in the map while the loop runs; it is emptied when the map grows, since
the index then refers to another layout and nothing is promised. A program may
end with a loop (`MaxLoops`), with any operations before it and in its body.

The abstract `Dictionary` keeps a function and the answer of the last operation;
`KeepsContents` is the refinement with `dict <- Contents`.

## JobQueue

`Workers` share `status`, `name` and `run_at`, the table's columns, and `last`, its
AUTOINCREMENT. `phase[w]`, `job[w]` and `now[w]` are where a worker is in `run_one`:
`select_job`, `mark_running`, then `no_handler`, or `call_handler` and
`handler_returns`; each is one SQL statement (or the call), and any other
worker's step, an `enqueue`, a `clear` or a `crash` may come between. An UPDATE
may fail without the code noticing (`SetStatus`). `clock` is what `time(NULL)`
returns; `run_at` is the time of the enqueue, so that a job is not due only after
the clock has been set back. `runs`, `reverted`, `raced`, `won`, `missed` are
history. `attempts` is left out: nothing reads it.

- `RunOnce`: select and mark are two steps, so two workers may run one job, but only
  if one had selected it before the other marked it (`raced`); one worker never runs
  a job twice.
- `InOrder`: no earlier job that is due waits while a worker has a later one.
- `JobsTried`: a job that is due is tried, unless some worker has no handler for it or
  for one before it, and takes that one again and again. That starvation is real, and
  this is its only cause while nothing crashes or fails.
- `FailedAreRetried`: `README.md` says "retry with backoff"; there is none (`jobs_retry`).

## Language, Compiler, Machine

**Abstract.** `Language` gives the meaning of a tree: a name leads to a cell of
its scope, a closure keeps the cells it saw, and `Meaning` is what the program
prints and how it ends. `FreshBinding` chooses between one variable for a whole
`for`, which is what the compiler makes, and one for each turn, which is what
`LANGUAGE_SPEC.md` says; `lang_loops` has the second. A function that ends without
`return` gives nil, as the compiler does "for now" (`compiler.c:1217`), where
`LANGUAGE_SPEC.md:151` has the value of its last expression: `Language` follows the
code there, so the runs show nothing of that. `Text` writes the tree as tokens, with no more
parentheses than the operators need.

**Concrete.** `compile` follows the single pass of `compiler.c`: the record `c`
has the token position, a record per function that is being compiled (locals
with depth, upvalues, code) and the loops. `Machine` has one action per group of
instructions; `stack` is the array as far as it was ever written, so that a read
above `stack_top` returns what is left there, as in C. An `open` upvalue is an
index of the stack until it is closed.

`AgreesWithSource` relates them: at every moment the output is a beginning of the
meaning's, and the end agrees. With `LocalsInTheirSlots` (what the compiler counts
is where the machine pushes, on every path) it is checked on 1100 programs, 30 of
them with closures over the variable of a loop, called in it and after it. Some
programs have to be left out because the property fails for them: locals that are
first assigned in a block, and two `for` loops in a function. `lang_blocks` shows
four such programs.

## Runtime

A request handler calls C functions that call vek code: `c` is the stack of C
functions that wait for a `vm_call`, `result` how the innermost one ended. A
function is any sequence of pushes, captures, calls, returns, failures,
subscriptions, publications, writes and transactions. What `vm_call` puts back and
what it leaves is as in the code. SQLite is the writes that are stored and those
that an open transaction holds back.

- `FramesRestored`: a call that ends well leaves frames and depth as they were and
  takes nothing off the caller's stack.
- `SubscribersServed`: callbacks are called once each and in order, those that
  subscribe meanwhile included.
- `PinnedWhileSubscribed`: pins and subscriptions agree, as a count.
- `TransactionsAtomic`: all or nothing, for every nesting; not once COMMIT has
  failed or the callback has closed the connection (`broken`), where the flag and
  SQLite disagree.

## Heap

Objects are strings or containers; `held` is what the program reaches. A program
step may allocate, link, drop, pin (an object more than once), push a root, intern.
A collection marks the roots (`gc_mark_roots`), pops objects off the gray stack and
marks what they refer to, one at a time and in any order (`gc_trace_object`), and when
the stack is empty takes what has no mark out of the intern table and the heap, and
the marks off the rest (`gc_sweep`). `NothingInUseFreed` says that nothing that can be
reached is gone; what can be reached is defined apart from the marks. C code that allocates
is not interrupted by the collector, which only the instruction loop calls;
what it keeps must be pinned or rooted by the time it returns to the loop.

## Services and Sessions

`Services` has the clock as a variable that goes on or is set back. `RateBounded`
compares each check with every stretch of checks before it; `ExpiredStaysGone`
follows the last set of each key.

`Sessions` has workers and visitors. A visitor sends its last cookie to any
worker; the handler restores the session, sets, deletes, makes and checks forms
in any order, and answers, and the answer may be lost; a worker may restart, with
another secret. `meant` is history: what the requests of one visitor did, whoever
else was served. `SessionKept` says that restored data are what was meant and that
a page's forms are accepted wherever its cookie is. A request whose cookie is not
accepted finds the data of the request before it at that worker: the property is
about the others. `FlashReadOnce` counts messages: read once, waiting, or gone.
`README.md:155` calls them session messages; they wait in the process, not in a
session, and are read by whoever comes to that process next. No property of this
code could promise more.

## Supervisor, DevServer, Migrations, Database

`Supervisor`: each system call of `run_with_workers` is a step; `procs` says what
each pid is, and the kernel gives free pids to workers or strangers. `stale` has
the slots whose restart failed: their pid is still in the table when SIGTERM is
sent. `DevServer`: the events of inotify are a queue, and directories can be made
before they are watched; `cmd_dev_run` is poll, drain, stop, start, one action
each. A signal may interrupt the `waitpid` after SIGKILL
(`stop_child_interrupted`): the app is then dying and nobody's child to wait for
any more, which `OneApp` allows while it is so. `Migrations`: check, begin,
execute, record and commit are steps of each process, which may be killed or fail
between any two; what SQLite's lock allows is modelled. A directory that cannot be
listed counts as an empty one, and the command succeeds without having applied
anything. `Database`: a connection for the db package and one for jobs in each
worker; a transaction reads the snapshot of its first statement, and a write is
refused when another connection writes or the snapshot is old. A query may end at
a row whose step fails and return the rows so far; a COMMIT may fail, and SQLite
roll back or keep the transaction open, in which case the flag says that there is
none and later writes of that connection are acknowledged and never stored.

## The conversions (MCData)

A law is an operator that says what must hold of some arguments (`JsonLaw`,
`RouteLaw`, `BuildLaw`, ...). `MCData` enumerates the samples: each initial state
is one, and three of the run's properties say that no law fails for it; programs
of `MCLanguage` and the map of `ObjMap` are further initial states of the same
run. A law states a reference rather than restating the function: decoding what
was encoded, with every proper beginning refused; a route chosen from the list of
routes without a trie; formatting twice, and the tokens before and after. Laws
have the exceptions that the code has, and name them: a cookie holds no lists, the
text of a job ends at a NUL, a bytecode file keeps as many constants as fit and
loses the functions inside functions (their constants are read as nil, although
`BYTECODE_SPEC.md:63` has a tag for them), `vek fmt` drops inline comments and
warns of exactly their lines, and lengths are cut to `uint32_t` by `pad_left` and
`pad_right` (`Uint32`, 100 in the run): where text and NUL then do not fit, the
methods write behind their buffer and no law speaks of it.

The functions of `Pages` and `Compression` were also compared with the built
program on random inputs while they were written.

## Runs

| run | shows | instance |
| --- | --- | --- |
| `server_all` | `TypeOK`, `TimersBelong`, `NoLostWakeup`, `ClosedByOwnEvent`, `StaleOnlyByTimeout` | 2 connections, 2 timers, limit 2, timeouts on, all kinds of requests, batches of 2; 3.2 million states |
| `server_kept` | `NoRequestLost`, `BacklogKept`, `KeepsPromise`, `SilentConnectionCloses` | 1 connection object reused by 2 clients, its timer, two pipelined requests of any kind in pieces |
| `server_response_closes` | `NoUseAfterResponse` is violated | 1 connection |
| `data` | `EntriesReachable`, `LoopVisitsOnce`, `KeepsContents`; `MethodsAgree`, `ReadBack`, `ExchangeKept`; `AgreesWithSource`, `LocalsInTheirSlots` | 4 keys, 2 values, tables of 4 and 8 slots, a loop; 15284 samples; 1100 programs: pairs of operators, loops, closures, maps; 0.2 million states |
| `map_probing` | `ProbingEnds` is violated | 8 keys, the table of 8 slots of the code |
| `lang_blocks` | `AgreesWithSource` is violated | 4 programs |
| `lang_loops` | `AgreesWithSource` is violated with `FreshBinding` | 30 programs |
| `jobs_retry` | `FailedAreRetried` is violated | 1 worker, 1 job, no faults |
| `processes` | `RunOnce`, `InOrder`, `CompletedHasSucceeded`, `JobsTried`; `NoWorkerLeft`, `OnlyWorkersKilled`, `RestartPolicy`, `CommandEnds`; `OneApp`, `ChangesRestart`; `AppliedOnce`, `AppliedInOrder`; `TransactionsSerial` | 2 workers, 2 jobs, 1 fault; 2 workers, 2 pids, 1 fork that fails; 4 directories, 3 watches, 2 changes; 2 processes, 3 migrations; 2 workers, 3 writes, 2 transactions; 0.6 million states |
| `program` | `FramesRestored`, `SubscribersServed`, `PinnedWhileSubscribed`, `TransactionsAtomic`; `NothingInUseFreed`, `Interned`; `KeepsTime`; `SessionKept`, `FlashReadOnce` | 2 closures and a native, 2 requests of 3 instructions; 3 objects, 3 strings, 2 pins; 5 calls at 4 moments; 2 workers, 2 visitors, 3 requests of 4 acts in all; 2.7 million states |
| `calls` | `CallsBalanced` is violated | as `program`, 4 objects |
| `intern` | `SearchesEnd` is violated | as `program`, 4 objects |

`processes`, `program` and `data` check several components that share nothing:
the variable `live` (in `data`, with `sample`) says which of them a behaviour is
about, and the others stand still.

Why the bounds are enough. The server's properties relate a connection, its
timer and one other of each, which two connections and two timers give; batches
of two let one event free the object of the next; two requests on a connection
are what pipelining needs (one consumed, one and a part left over). With
`MaxArrivals` above the number of addresses in use, addresses are reused. The map
starts with four slots instead of eight, so that four keys (colliding in pairs,
with a probe that wraps around) fill it, make it grow and use up its tombstones;
`map_probing` uses the real first capacity. Two workers and two jobs are the
fewest with a race for one job and an order between two; the one fault is a crash, an
UPDATE that fails or a clock that is set back, at any moment. One connection object
and two clients are enough for `server_kept`: the second waits in the backlog, is
refused a descriptor, and gets the address of the first; what connections do to each
other is `server_all`'s. A backlog that is left at `max_connections` takes three clients
and a limit of one, for which liveness is out of reach; `BacklogAlwaysKept` proves
`BacklogKept` there. `Uint32` is 100, below, at and above which lie the lengths that
the samples pad to. Two changes are one while the app is stopped and one while it
starts. Three objects are a root, what it refers to and a string; two pins pin one
object twice. With two pids for two
workers every free pid is used again at once. Three watches and four directories
overflow the table of watches. Two processes and three migrations, one of them
added later, give every order of check, lock and record, and a gap if there can
be one. Three writes are a transaction's two and one of somebody else between
them. In `Runtime` three instructions nest a publication in a transaction in a
publication, with a failure in the innermost; the stack is high enough to leave
overflow to the deepest nesting. `Heap` starts with a table of two entries, which grows
once. Three requests are one visitor's twice and the other's between. The
limits of tables (`MaxChildren` 3, `MaxParams` 2, `MaxSegment` 2 in the router;
`MaxStrings` 9, `MaxConstants` 3, `MaxFunctions` 2, `MaxAssets` 2 in bytecode files;
`MaxBlock` 3 bytes in a stored block; `MAX_COLUMNS` 3) are the code's, made small so
that samples lie below, at and above them. For any number of workers, jobs,
processes, pids and visitors the theorems take over.

Symmetry is used only in runs without liveness properties: over connections and
timers, and over the values of a map; the actions compare none of them except for
equality.

`CHECK_DEADLOCK FALSE` is set everywhere: a server whose clients have spent the
bounded number of requests, a spinning probe, a program that has ended, an empty
job table and a command that has returned all stop, and so does a sample.

## Fairness

`HttpServer!FairSpec`: the loop runs while it has events (`WF` of
`event_loop_run`: one thread that does nothing else); armed timers expire (`WF`
of `Expire`: timerfd); the client's system goes on taking bytes (`WF` of
`Drain`), and responses are finite, so that when the socket has room again and
again a response is completely written in the end (`SF` of `write_drained`).
Nothing is assumed of clients beyond that: they may fall silent at any time.
Without `Drain` a client that asks without keep-alive and never reads would hold
its connection for ever, because no timeout is armed for it; this is listed as a
hazard. `SilentConnectionCloses` also allows for `touched # {}` (freed memory
was used) and for the end of the process.

`JobQueue!FairSpec`: each worker's program calls `jobs.run_one` again and again
and its handlers return (`WF` of `native_jobs_run_one`). Nothing makes a program
register a handler; `JobsTried` says what follows when it does not. It holds only
while nothing has crashed or failed.

`SupervisorSpec`: the supervisor goes on (`WF` of `run_with_workers`), and a worker
that has got SIGTERM ends (`WF` of `WorkerEnds`), as it does by default. Nothing
makes a worker end otherwise. `DevSpec`: `vek dev` goes on (`WF` of `cmd_dev_run`),
whose poll has a timeout.

## Proofs

For any number of connections, timers, clients and requests, and any limits:

- `TypeCorrect`: `TypeOK` of `HttpServer`. The lemmas before it type each operator
  of the module (`Wake`, `Forget`, `MakeStale`, `SetTimers`, ...); the step has one
  case per action.
- `TimersAlwaysBelong`: `TimersBelong`. It is inductive with `TypeOK` alone,
  thanks to its condition `touched = {}`: the two steps that break it are those
  that use freed memory. `CloseKeepsInverse` and `SetTimersKeepsInverse` are
  its core: closing with the timeout cancelled, and replacing one timer by
  another, keep `target` and `timerOf` inverse to each other.
- `ClosedOnlyByOwnEvent`: the action property, from `TimersBelong`: a timer that
  fires closes its target, which by the invariant is the connection that owns
  the timer.
- `ReadyAlwaysAllocated`: epoll's ready list holds allocated objects only
  (`ReadySourcesAllocated`, which no run checks any more), also after freed memory was
  used. Closing a descriptor takes one edge of it off the ready list; that none is
  left needs the strengthening `ReadyInv`, that no source is in the list twice.
  `WakeRange` and `ForgetRange` say what adding and removing do to the list's
  range and keep it without repetition.
- `NoWakeupEverLost`: `NoLostWakeup` asks for some event of the connection. `WakeInv`
  asks for the flags that it must have (an event without `EPOLLIN` does not make
  `handle_read` run), for `EPOLLOUT` to be registered as long as a response is
  unfinished, and for an address that is free to have nothing unread, so that
  the next connection there starts with nothing owed (`Fresh`). It holds also after
  freed memory was used.
- `StaleOnlyByOwnTimeout`: `StaleOnlyByTimeout`, with timeouts and without. An event
  of the batch that is gone after a step was freed by it (`LostIsFreed`); a handler
  frees the connection it serves and that connection's timer, and by
  `TimersAlwaysBelong` a timer that fires has no other connection to close.
- `BacklogAlwaysKept`: `BacklogKept`, for any limit. Each step keeps an event of the
  listening socket that there is (`ListenerKept`, `ListenerReported`, with `ReadyInv`);
  `accept_end` is the one that uses it up, and outside the two exceptions it finds the
  backlog empty.
- `RequestsNeverLost`: `NoRequestLost` for every address (`NoneLost`), also for
  those that are free, where all four lists are empty. `WithoutConcat` and
  `WithoutFirst` take a buffer apart at its first request.
- `PromiseKept`: the refinement. `AllInStep` follows each connection: until the first
  malformed request the answers are the first of the requests, and the others
  are in the buffer at increasing places (`Matches`); from then on the lists
  that `RequestReply` sees stand still (`Spoiled`). `StepKinds` puts the handlers into
  the five classes that it can tell apart.

For any keys, hashes and values, any capacity that the map grows to:

- `ProbesFindEntries`: `EntriesReachable` is about the operator `Probe`, the nearest
  slot that ends the search. `MapInv` says the same with distances: every entry
  is at some distance from its home with no empty slot and no slot of its key
  before it (`Chained`). The remainders are those of `NumberFacts`: `ProbesDiffer`
  (no slot is met twice in one round) and `ProbesReach` (every slot is met). Growth
  is an induction over the slots that have been gone through (`GrownTo`).
- `LoopsVisitOnce`: while the loop runs, an entry behind the index has been visited
  once and one before it not yet (`Visited`), which a set at a tombstone, a
  deletion and a new key all have to keep.
- `IsADictionary`: from `MapInv`, each operation does to `Contents` what the action of
  `Dictionary` does to `dict`; growing changes nothing of it.

For any number of workers, jobs, crashes, failed statements and settings of the clock:

- `JobQueueTypes`: `TypeOK` of `JobQueue`.
- `JobsRunOnce`: `RunOnce` alone is not inductive. The strengthening `RunOnceInv` adds
  that a job which a worker has marked, or has once run, is not `pending` unless
  someone gave it back (`MarkedNotPending`), that who has selected or run a job is
  alone with it unless it was raced for (`Alone`), and that nothing is known of ids
  not yet given (`FreshJobs`), without which an insertion would make a job that ran
  before pending again.
- `JobsInOrder`: `InOrder`, with `FreshJobs`: an insertion comes after every job
  that a worker has, and what a worker takes is the first of the jobs due by the time
  that it read (`now`), whatever the clock does later.
- `CompletedJobsSucceeded`: inductive by itself with the types.

For any functions, arities, channels and depth of calls between C and vek code:

- `FramesAlwaysRestored`: of all C functions that wait, not only the innermost:
  each frame that a `vm_call` made is where it was made, above what its caller
  has on the stack (`FramesHeld`), and after an error nothing waits but what will
  see it (`WaitingInOrder`).
- `SubscribersAlwaysServed`: every publish that waits has called a beginning of the
  channel's list (`CalledInOrder`), unless someone unsubscribed meanwhile.
- `PinsAlwaysMatch`: inductive with the types: the places in which a function is
  subscribed are a finite set, which a subscription makes greater by one and the
  end of one smaller.
- `TransactionsAlwaysAtomic`: the flag of the package, SQLite and the C functions that
  wait agree on whether a transaction is open, one at most is, and what SQLite
  holds back is what it has written (`OneTransaction`).

For any heap, any references and any names of strings:

- `InUseNeverFreed`: what is held, pinned or a root is allocated (`InUse`), and
  references lead to allocated objects only (`Allocated`). During a collection the
  roots are marked, and what a marked object refers to is marked too unless that
  object still waits on the gray stack; between collections nothing is (`Marks`). So
  when the stack is empty the marks are closed under references, and the sweep keeps
  what can be reached.
- `StringsAlwaysInterned`: the table lists the strings that are allocated and no
  others (`AllListed`), each where a search for its name comes to it, with no
  two of one name. Weak entries become tombstones in the sweep, and growth puts
  the others again, by induction over the old table.

For any number of processes and migrations, killed or failing at any step:

- `MigrationsAppliedOnce`: `AppliedOnce` says nothing of transactions that are
  open. `MigrationInv` adds that the transaction is as far as its process is
  (`TxFollows`), that one process writes at a time and what it is about to
  commit nobody has recorded (`OneWriter`): the check before the transaction
  proves nothing, it is the record's key that makes the second one fail.
- `MigrationsInOrder`: from the same invariant, with `NoGaps` and `SeenRecorded` (a
  process that is at a migration has seen those before it recorded, and goes through
  all the files that existed when it began, or none).

For any number of workers and pids, whatever forks fail and pids come back:

- `NoWorkerEverLeft`: the invariant says where the supervisor is (`Starting`), that a
  slot's pid is a child while it waits (`SlotsAreChildren`), that no two slots
  have one pid (`OneSlot`) and that each child has a slot, and in the clean-up one
  that is still to come (`ChildrenHaveSlots`).
- `OnlyWorkersEverKilled`: inductive with it; a slot whose pid is no child is one
  whose restart has failed.
- `RestartPolicyHolds`: the counter of each slot is the number of short lives at the
  end of its history, and below the limit while the slot has a process
  (`LivesCounted`).

For any number of workers, values and transactions, locks refused, deaths anywhere:

- `TransactionsAlwaysSerial`: a connection that has written holds SQLite's lock: no
  other has, and its snapshot is the file as it is (`LockHeld`). A connection with a
  transaction, which a failed COMMIT may have left open without the flag, is alone
  with it, and it has not returned (`OneConnection`). What the transaction has read is
  a beginning of its snapshot and then its own writes, the whole if no step failed
  (`ReadsOwn`); what it has written is on its connection in order (`WritesHeld`); and an
  id is one write with one answer (`WritesKnown`). A commit then appends the whole to
  the file that its reads saw.

For any tree of directories and any pids:

- `OneAppAlways`: `OneApp` says that who runs or waits to be reaped is the child
  that the command knows, or one that was sent SIGKILL when a signal interrupted the
  wait for it. `DevInv` adds that nobody does both, so that a child that ends cannot be
  counted twice, and that where a child is about to be started none is left but such
  a one, and that only once `vek dev` has been told to exit.

For any number of workers, visitors, names and values, answers lost, restarts:

- `SessionsKept`: `SessionRestored` and `FormsAccepted` speak of the session in a
  worker; what a visitor's cookie holds has to be invariant too (`JarsHonest`:
  the data in the jar, and in each request on its way, are what was meant, and
  the forms of the page have that token), and so has the page that is being made
  (`PagesHonest`). `TokenStays` and `TokenSet` say what the operations on maps do to
  the token. Decoding replaces the session, which is all that the proof needs to
  know of the visitor before: with the data merged instead, the step fails.
- `MessagesReadOnce`: both stores of all processes are boxes; each message that was
  ever set is in one place of one box, or at one position of what was shown,
  or gone (`Placed`), and `FlashReadOnce` is what that says of the numbers.

For any limits, rates and times, the clock set back at any moment:

- `TimeKept`: the bucket of a client has as many tokens as the tightest stretch of
  checks that ends now leaves (`BucketsMeter`), where the clock counts as far as it
  has ever come; and the cache has the last entry that was set of each key
  that is not missed (`CacheFollows`).

For every string, list, number and value:

- `MethodsAlwaysAgree`: the law of a sample, whatever the sample is. It combines
  `TextsAgree`, `SlicesAgree`, `ListsAgree` and `OrderAgrees`, one for each kind
  of law. Padding is proved with the length that is left of it in `Uint32` values,
  for every `Uint32` (`PadsAre`): both methods reach the same length and keep the
  text where it fits.
- `SplitThenJoin`, `ReplaceIsSplitAndJoin`, `ReplaceFillsItsBuffer`: the loops of split
  and replace are recursive functions on positions. `RecursionDown` shows that such
  a function exists when each position leads to a later one (`StrstrJumps`: a
  search that finds goes on behind what it found), and `StepGoesOn` relates one
  round of split, of the loop that counts and of the loop that copies. The first
  holds of texts with NULs too, where strstr sees a part only; the others do not,
  and say so.
- `IndexIsFirst`: what is found is at the least position (`StrstrIs`), and no part of
  the text that ends before it contains it (`PartOfPart`).
- `NumbersReadBack`: digits are written from the last to the first and read from
  the first to the last (`NumberGrows`, `DigitsAre`).
- `OrderAgrees`: `Level` sorts the types as `value_compare` does, and within a level
  values are compared as numbers, as truth values or by the first byte that
  differs (`MemcmpLess`, `LessTransitive`).
- `SortingSorts`: C leaves open how `qsort` sorts; the model inserts. An insertion
  comes before the first greater value (`InsertPlace`), keeps the order
  (`InsertKeepsOrder`, which needs antisymmetry) and adds one value
  (`InsertCounts`, a bijection of positions).
- `ListsAgree`: with `InsertIs` and `RemoveIs`, which say what is where after a move,
  `UniqAgrees` by induction over the list, and `FlattenPairs`, which guesses the
  result of flatten after each pair and shows that it satisfies the recursion.

For every table, frame and sequence of bytes, three of the laws that `ReadBack`
samples:

- `RowsAlwaysKept`: what is left of a value that was a parameter and then a column is
  left again the second time (`ColumnStays`), and of columns with the same name the
  last one within the limit is read (`ColumnOfIs`, `RowIs`).
- `FramesReadBack`: `HeadIs` has the three forms of the length (`TwoBytes`,
  `FourBytes`), `DecodeIs` what is read from any buffer that begins with such a head,
  complete or not, and `MaskedIs` that a mask is its own inverse (`XorTwice`, bit by
  bit). The length is below 2^32, as that of every string is.
- `Base64ReadsBack`: three bytes are four sixths of a number and the sixths give the
  bytes back (`SextetsAre`), the alphabet has an inverse (`LetterIs`), and padding
  stands where the sixths are zero (`EncodedIs`, `DecodedIs`).

The assumptions are those the modules name: addresses are distinct from one
another and from the null pointer, limits are naturals, hashes are naturals, the
first capacity is a power of two (8 in the code, 4 or 8 here), arities are
naturals and a function is no C function, markers (`Nil`, `Empty`, `Tombstone`,
`Container`) are no data, 0 is no pid, the root is a directory and every other has
a parent, and programs leave csrf's name in the session to csrf. No theorem has a
hypothesis besides them.

What a recursive function computes is shown by induction, which `NumberFacts` has
without an operator as parameter: a set of numbers that contains 0 and each
number after one of its own (`Induction`, from the least number that is missing).
`map_grow`, `intern_table_grow` and `Without` are written as recursive functions
for that reason.

Only model-checked: the liveness properties (`JobsTried`, `CommandEnds`,
`ChangesRestart`, `SilentConnectionCloses`), which are out of the prover's reach;
`AgreesWithSource` and `LocalsInTheirSlots`, where compiler and meaning are
recursive over trees; and the laws `ReadBack` and `ExchangeKept` of `MCData`,
whose other parts are recursive over texts and trees with operators that the
prover does not accept (of `ReadBack`, rows, frames and base 64 are proved). The
type invariant of `ObjMap` bounds the capacity as the run does and is proved as
far as the theorems need it (`MapInv`).

## Findings

1. `NoUseAfterResponse` (`server_response_closes`): a response that closes its
   connection is followed by uses of the connection in `on_data_vek`.
2. `ProbingEnds` (`map_probing`): tombstones are not counted in the load factor.
3. `SearchesEnd` (`intern`): nor are they in the table of strings, where
   collections leave them.
4. `AgreesWithSource` (`lang_blocks`): locals that are first assigned in blocks, and
   nested `for` loops, get slots that the machine does not use for them.
5. `CallsBalanced` (`calls`): a `vm_call` leaves values on the stack, until it is
   full.
6. `FailedAreRetried` (`jobs_retry`): a failed job is never tried again, where the
   documents promise "retry with backoff".
7. `AgreesWithSource` (`lang_loops`): closures share the one variable of a `for`, where
   `LANGUAGE_SPEC.md:113` promises a fresh binding per iteration.

Disagreements without a run of their own are notes of the hazards in
`PROJECT.json`: connections that wait at the limit, "Send 400 and close", jobs that
died, starved jobs, session data of the request before, flash messages that any visitor
may read, functions without `return`, comments and inner functions that are lost.

## Plan

1. **Types** of `Runtime`, `Heap`, `Services` and `Database` are parts of their
   invariants; they could be theorems of their own. So could `LocalsInTheirSlots`,
   for the machine alone, with the code of one function given.
2. **Conversions**: the laws of `Encodings`, `Compression` and `Router` are about
   operators that call themselves; as recursive functions on positions, like those of
   `Methods`, they could be proved for every length.
3. **Models** that are still missing: floats in the machine, Markdown.
