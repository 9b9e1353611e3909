# Verification of l4-server-lab

TLA+ models of the web server in this repository, the TLC runs that check them
on small instances, and TLAPS proofs about most of them for every instance.
`PROJECT.json` holds the machine-readable side: runs, seeded faults, the map
from definitions to source lines, findings, hazards, theorems.

    tlc -workers 2 -config EventLoop.cfg MCEventLoop
    tlapm EventLoopProofs.tla

## 1. The system

The server is a single process around io_uring. One thread (more are possible,
but the repository's README lists multi-threading as planned) pushes
operations into a submission queue, hands them to the kernel, sleeps until
there are completions and handles them one by one. Every connection has a slot
`conns[fd]` and a stackful coroutine that runs `io_uring_co_http_handler`. A
connection serves one request and is closed.

| component | source | state | operations |
|---|---|---|---|
| event loop | `lib/io_loop.c:164-239` | the rings, `svr->conns[]` | submit and wait, batch, accept, resume |
| connection handler | `lib/io_loop.c:11-162` | `req`, `res`, `fresstr`, three header maps, `cur_steps`, `total_steps` | start, recv (all results), step of a response, RESET |
| push helpers | `lib/iouring_utils.c` | `conn->action`, `total_steps`, submission queue | accept, recv, send, splice |
| preparation | `include/iohandler.h` | `conn->coro`, `conn->str` | `__prepare_connection` |
| router, static files | `lib/router.c`, `include/router.h`, `lib/http_parser.c:214-260` | ROUTER section, `static data` | `find_router`, `global_static_router` |
| response composition | `lib/http_parser.c:262-300` | `fresstr` | `http_compose_response` |
| request parser | `lib/http_parser.c:24-212`, `include/http_parser.h` | `req`, the receive buffer it is cut out of | `http_parse_request` and its four stages |
| coroutines | `lib/coro.c` | two saved contexts, status, value, guard | new, free, resume, yield |
| key-value maps | `lib/kv.c` | array, size, capacity | init, set, find, reset, free |
| string buffer | `lib/strbuf.c` | buffer, length, capacity | init, append, reset, free |
| hash map | `lib/hashtable.c` | chains | get, insert, delete |
| splice pipe (Debug build) | `lib/io_loop.c:98-106`, `lib/server.c:82-87` | `svr->pipefds`, one for all connections | splice in, splice out |
| start-up | `lib/server.c`, `lib/socket.c` | `svr`, listening socket, pipe | `create_server`, `create_listening_socket` |
| additional threads | `lib/server.c:33-56`, `lib/io_loop.c:164-239` | `svr->ring`, a ring per thread | create, listen, join |
| hash function, syscall wrappers, macros | `lib/murmurhash3.c`, `include/**` | none | |

How they interact. The loop calls `co_resume_value(conn->coro, res)`; the
coroutine calls parser, router, route handler and composer, pushes the
operations of the answer and yields. Between two yields nothing else runs in
the thread. Concurrency is between the thread and the kernel, which completes
operations at any time and in any order (links excepted), also while a batch is
being handled, and which may hand a closed descriptor out again.

What is hard:

* A completion carries only the address of the slot. Which operation it was is
  concluded from `conn->action`, the operation pushed *last*.
* The end of a response is concluded from counting completions.
* A slot, its coroutine and everything in it are used again by the next
  connection that gets the same descriptor number. RESET must have cleared all
  of it, and nothing may be in flight when the descriptor is closed.
* Results of sends and splices are not looked at; a failed operation cancels
  the rest of its chain, whose completions still have to be counted.
* Allocation may fail in the middle of preparing a slot or starting a handler.
* The submission queue is bounded and its overflow is not checked.
* One static pointer (Release build) and one pipe (Debug build) are shared by
  all connections, and `svr->ring` by all listening threads.
* `recv` is called once per connection and may return any prefix of a request.
  The parser works in place, relies on a NUL behind the received bytes, and
  reports success through fields that outlive the connection.
* String capacities come out of bit tricks in `int` arithmetic.

`PROJECT.json` lists these as hazards, each with its line and the properties
that would notice it going wrong.

## 2. Modules

| module | models | extends |
|---|---|---|
| `ConnLifecycle` | abstract: the life of a connection | |
| `EventLoop` | loop, handler, push helpers, preparation, descriptors; the kernel as environment | |
| `MCEventLoop` | symmetry of the descriptors | `EventLoop` |
| `EventLoopProofs`, `ServerProofs`, `SplicePipeProofs`, `KvProofs`, `CoroProofs`, `HashMapProofs`, `StrBufProofs` | theorems about the module each is named after | that module |
| `HttpProofs` | theorems about both ends of a request, parsed and answered | `HttpParser`, `Responder` |
| `Responder`, `MCResponder` | router, static files, composition: what an answer consists of | |
| `CoroStack` | abstract: asymmetric coroutines | |
| `Coro` | `lib/coro.c` | |
| `Kv`, `MCKv` | `lib/kv.c`, and the handler's three maps in one array | |
| `HashMap` | `lib/hashtable.c` with `hash_64` | |
| `HttpParser`, `MCHttpParser` | `http_parse_request` on the receive buffer of a slot, recv and RESET | |
| `StrBuf`, `MCStrBuf` | `lib/strbuf.c` | |
| `SplicePipe`, `MCSplicePipe` | the bytes of concurrent answers in the one pipe | |
| `Server` | `lib/server.c`, `lib/socket.c`, and the loops of several threads around `svr->ring` | |

Definitions named `X_Fault` after a definition `X` ("Seeded fault" in their
comments) are not part of any specification. Each is the definition with a
plausible mistake; put in its place, TLC finds the property violated that is
paired with it in `PROJECT.json`.

### EventLoop

`sq`, `inflight` and `cq` are the submission queue, the operations the kernel
has, and the completion ring; `head` is the cursor of `io_uring_for_each_cqe` in
that ring and `count` the loop's own count of the batch, which is what
`io_uring_cq_advance` is given.
Entries carry the *kind* of the operation although the code cannot see it, so
that the code's conclusions can be compared with the truth. `action`,
`cur_steps`, `total_steps`, `coro`, `str` are the fields of
`struct server_connection`. `dirty` says which of the buffers and structures
that RESET clears have been written (the receive buffer, `req`, `res`,
`fresstr`). `fdt` is the descriptor table, `data` whether the static pointer of
`global_static_router` is set. `WatchStaticFiles` is the build, chosen in `Init` and
never changed, so that every run covers both.

One action stands for one whole branch of the loop or of the handler:

| action | code |
|---|---|
| `SetupFails`, `ListenStart` | `io_loop.c:171-186` |
| `Submit`, `WaitReturns` | `io_uring_submit_and_wait`, its result ignored |
| `BatchEnds` | end of `io_uring_for_each_cqe` |
| `Advance` | `io_uring_cq_advance(ring, count)`; the kernel may post between the two |
| `AcceptAgain`, `AcceptFails`, `RefuseConnection`, `AcceptConnection`, `AcceptWithoutBuffer` | `io_loop.c:203-232`, `__prepare_connection` |
| `HandlerInitFails` | `goto EXIT`, `io_loop.c:26-33` |
| `RecvError`, `RecvPeerClosed`, `RecvTooLarge`, `RecvRejected`, `RecvDynamic`, `RecvStatic*` | `case IO_URING_OP_RECV` |
| `StepDone` | `case IO_URING_OP_SEND / SPLICE`, with RESET |
| `AcceptCompletes`, `RecvCompletes`, `ResponseOpCompletes` | the kernel (external) |

`Push` stands for the helpers of `iouring_utils.c`: `io_uring_get_sqe` returns
NULL when the queue is full and the helper writes through it, so a push beyond
`QD` leads to `"crashed"`. In the Release build a static request after the first
one uses an unassigned `file_sz` and `mime_str` (undefined behaviour): it is
answered or it crashes. Results are abstracted to what the code tells apart: a
descriptor, `-EAGAIN`, negative, zero, exactly the capacity, other positive.

Left out of `EventLoop`: the bytes (see `Responder`, `HttpParser`, `SplicePipe`),
overflow of the completion ring (the kernel keeps the surplus), more than one
listening thread (see `Server`), submits that fail or take only a part of the
queue (`Submit` hands over all of it; the code does not look at the result), and
the branch `if (!conn)` of `io_loop.c:198-201`, which no completion reaches: every
operation is pushed with the address of a slot.

### ConnLifecycle

`idle -> accepted -> receiving -> responding -> idle`, with refusal after
`accepted`, an early end when the peer closes, and `stalled`. An answer owes one
operation or three; the descriptor is given up exactly when the last one was
reported. `stalled` is what the code really does after a failed recv and after a
failed start of the handler: nothing is pushed, nothing closed. It can be
reached from `receiving` only.

### Responder

`res`, `fresstr` and the splices of every slot; strings are sequences of the
pieces that were appended. `data` is the static mapping of the Release build,
shared by all slots and all static routes; the build itself is a variable chosen
in `Init`. The routes of the runs are those of
`tests/socket.c` and a second entry for a path that is taken. The module ends at
what is pushed: what `string_append` does with the bytes is the subject of
`StrBuf`, and which bytes of a file arrive through the pipe all slots share is that
of `SplicePipe`.

### Coro, Kv, HashMap

`Coro` reduces a context to the stack it runs on and the place its RIP points
to; everything `swap_context` saves and restores moves with it. What callers
must not do (resume a stopped or an active coroutine, free an active one) is a
guard: the note in `tests/coro.c:28-31` declares it undefined. When a function
returns, `entry_point` marks its coroutine STOPPED before the last `co_yield` looks
at the guard word, so the mark is set also when the process then exits.
`SuspendedIsIntact` says what the guard word achieves: whatever is resumed in
between, an overflowed stack is never left by a switch. `EventLoop` checks
the server's side of that contract (`StoppedIsNeverResumed`).

`Kv` places the three maps of a handler in one array, as `io_loop.c:18-24` does,
so that a write out of bounds is seen in the neighbour. `HashMap` has the 64-bit
arithmetic at a small width `W`.

### HttpParser

`buf` is the receive buffer, cell by cell, because the parser's work is to write
NULs into it and to keep pointers (positions) into it; `req` and `buf` live on
from one connection of the slot to the next. `Recv` stands for one recv that
returns any prefix of what the peer sent and for what the handler makes of it
(413, 400, or a parsed request); `ResetRequest` for the parts of RESET that
concern the parser. The four stages and `trim_spaces` are operators that map
buffer, request and position to the same; a stage that gives up leaves all three
alone. The two loops, over the query and over the header lines, are functions of
the number of rounds done (`QueryRound`, `HeaderRound`), up to as many as the
buffer has bytes: every round moves the cursor (`QueryLoopEnds` and
`HeaderLoopEnds` say that the loops have been left by then). Pointer
differences that the code compares as `size_t` are huge when negative
(`TooShort`): that happens when `http_parse_method` recognises `OPTIONS` by four
bytes and moves on by seven.

The peer sends either any text (`Malformed`) or the text (`Format`) of a request
that is `WellFormed`: its parts hold none of the characters that end them, and the
table of methods knows its method, with its length. `Alphabet` are the characters
of these texts; NUL is not one of them.

`EventLoop` takes the verdict of the parser as an input and shows
`CleanBeforeParse`; `HttpParser` shows what that is good for (`VerdictIsOwn`).

### StrBuf

`RealCapacity` is `(size_t)(1 << __builtin_clzl(n))` with `W` bits in a `size_t`
and `IntW` in an `int`: the shift count modulo `IntW`, the result sign-extended.
`Concat` is `strncat` (first NUL of the buffer, first NUL of the source) followed
by `len += buflen`. A write past the block ends the behaviour (`"overrun"`).
`appended` is the history the content is compared with.

### SplicePipe

One action per operation of the chain send, splice in, splice out, of each
connection; `n` is how much a splice moved. An operation that failed or was short
cancels the rest of its chain. Chains overlap, fail and come short as they like.
`broken` and `stranded` are history: whether an operation of the chain itself
failed, and how many bytes short splices have left in the pipe. `PipeAccounts` is
the balance: the pipe holds what the chains between their splices will take
(`Owed`) and what was stranded. It follows that a second splice always finds enough
bytes, so that an answer has its announced length (`AnnouncedLength`), and that
stranded bytes never leave: the capacity is lost for good, and every later answer
is shifted. What does not follow, and does not hold, is whose bytes they are
(section 4).

### Server

`threads_cnt` is the number given on the command line, chosen in `Init`. `stage` and
`step` follow the main thread through `create_server` (a sequence of
calls, each with what it acquires and the label its failure jumps to),
`pthread_create`, its own loop and `pthread_join`. `thr`, `wring`, `head`, `count`
are the listening threads and the locals of their loops; every other use of a
ring goes through `svr_ring`, which any thread may have overwritten in between.
A thread blocked in `io_uring_submit_and_wait` stays with the ring it was called
with. All completions here are accepts: what becomes of a connection is
`EventLoop`'s subject. `head` past the tail of another ring is not the end of
`io_uring_for_each_cqe`; the loop runs through stale entries (`HandleGarbage`).

## 3. Runs

| run | instance | states | shows |
|---|---|---|---|
| `event_loop` | both builds, 2 descriptors, QD 4, failing allocations, symmetric | 557 131 | dispatch, counting, close, cleanliness, listening, stopped coroutines, causes of a crash, refinement of `ConnLifecycle`, the inductive invariant |
| `event_loop_progress` | both builds, 2 descriptors, QD 7, failing allocations, no symmetry, `FairSpec` | 1 113 924 | every response ends, also one of three linked operations; the accept is always submitted again |
| `event_loop_partial` | both builds, failing allocations | violation | finding 1 |
| `responder` | 2 slots, 4 routes, both builds | 1 393 | dynamic answers are their own, also next to the shared mapping |
| `responder_shared_file` | 2 slots, 4 routes | violation | finding 2 |
| `coroutines` | 2 coroutines, 2 values | 10 989 | refinement of `CoroStack`, guard, landing places |
| `kv_maps` | 1-2 pairs per map, growth to MaxCapacity | 14 192 | content of all maps, lookup |
| `hash_map` | 4 keys, 2 buckets, 4-bit words | 474 | links, entries, delete |
| `http_parser` | 64-byte buffer, 2 pairs per map, all prefixes of 144 requests and 7 malformed texts | 5 757 | strings end in the buffer, verdict is the request's own, read as sent |
| `str_buf` | 16-bit `size_t`, 8-bit `int`, up to 18 bytes | 13 519 | capacity, text kept |
| `splice_pipe` | 3 connections, files of 0 to 3 bytes, pipe of 2, symmetric | 22 739 | the balance of the pipe, the length of answers |
| `server` | up to 1 additional thread, 3 clients, Debug, `FairSpec` | 79 560 | `svr->ring`, return after all threads, cleanup, every client is handled |

Bounds and why they are enough.

* Two descriptors: one connection whose completions are late while the other
  takes a batch, a static file that occupies the descriptor of a closed
  connection, and reuse of a number by the next accept all need two. The
  proofs cover any number.
* `QD`. Three operations per connection and the accept are what can be outstanding
  at once. In `event_loop` the queue has 4 entries, what one chain and the accept
  fill, so it overflows when two connections are answered before a submit; in
  `event_loop_progress` it has 7 = 3 * |Fd| + 1 and never does. The code has 1024
  entries, and `get_nofile_limit` raises the number of descriptors to the hard
  limit (`server.c:15-24`) without regard to them: more than 341 connections that
  are answered in one batch overflow the queue. `CrashHasCause` says that it takes
  that many.
* The models need no other bound on counters: the step counters are bounded by
  the three operations of a response, the rings by `NoDuplicateOperation`.
* `Coro`: two coroutines give nesting and a change of resumer. `Kv`:
  `MaxCapacity` bounds the doubling. `HashMap`: four keys in two buckets give
  chains of several elements.

* `HttpParser`: the requests have a method recognised with its space, one of
  exactly four bytes and the longest one; queries and headers of none, one, as
  many as and one more than the maps hold; a header of exactly five characters,
  one with every separator of the query in it, one of four. Every prefix is
  received, after every other one on the same slot. One malformed text fills
  the buffer.
* `StrBuf`: with 8-bit `int` the half word is 16 bytes; `MaxTotal` = 18 crosses
  it, `Heap` bounds the blocks malloc can give (in the code a sign-extended
  capacity is never available).
* `SplicePipe`: a file that fits the pipe twice, one that fills it and one that is
  larger; three connections so that a third chain can run while two overlap.
* `Server`: `threads_cnt` is 0 or 1 (`MaxThreads`), so a thread that fails, is not
  created or returns runs next to one that listens, and there are two rings. Of
  three clients at least two need an accept that was pushed again. The Debug
  build has the one call more (`pipe2`).

Deadlock is checked in every run. A process that has exited or crashed stutters
(`Terminated`).

Fairness (`EventLoop!Fairness`). Weak fairness of the thread as a whole: it is
never blocked by anything but the wait, which returns because an accept on the
non-blocking listening socket completes, at the latest with `-EAGAIN`. Weak
fairness of the kernel for accepts and for the operations of a response (a send
on a closed connection fails, which completes it; `SPLICE_F_NONBLOCK`). None for
recv: a peer may be silent for ever, and the code has no timeout.
`ResponseEnds` therefore says that `total_steps`, which the first push of a response
makes positive, is 0 again and again, unless the process ends (accept errors
other than EAGAIN exit). It is checked for both builds; the hard case are the
chains of the Debug build with their cancelled operations.

`Server!FairSpec`: weak fairness of the main thread, of each listening thread and
of the kernel's accepts (an accept that is in flight completes while a client is
in the backlog). None for clients: they need not connect. A thread that waits for
a ring without completions is not enabled, so nothing is assumed of it.

## 4. Findings

1. `event_loop_partial`. `include/iohandler.h:20` takes a slot without a buffer
   for one whose descriptor never had a connection. If `co_new` succeeds and
   `string_init` fails the slot keeps its coroutine and has no buffer, the next
   accept of that descriptor skips the preparation (`io_loop.c:215`) and
   `conn->str->buf` is read through NULL.
2. `responder_shared_file`. In the Release build the function-local
   `static void *data` (`http_parser.c:221`) is one for all routes of
   `tests/socket.c:35,37`: after the first static request every static route
   serves that file, with an indeterminate length and type.

The modules say under which condition these parts of the code do what they
should; what happens outside the condition is worth knowing too:

* `ReadAsSent` excepts header lines of fewer than five characters.
  `sizeof("H: V")` counts the NUL, so a line of four (`S: v`) takes the branch
  commented "we reach end of header section" (`http_parser.c:136-140`), and it and
  all headers behind it are dropped.
* `TextIsKept` excepts NUL bytes. `strncat` stops at one, `len` does not
  (`strbuf.c:38-39`): the picture of the route `tests/socket.c:37` is not what the
  Release build sends.
* `FitsBelowHalfWord` ends at 65536 bytes: from there on a growing string gets a
  block smaller than its content (`strbuf.c:29`).
* `PipeAccounts` and `AnnouncedLength` say how many bytes an answer of the Debug build
  has, not whose. When two chains are between their splices at the same time, or a
  short splice has left bytes in the one pipe, the second splice of an answer takes
  `file_sz` bytes of whatever is first in the pipe (`io_loop.c:101-106`): the answer to
  `/gccpic` is complete, of the announced length, and has bytes of the file of
  `/simple/fib`. Seven steps of two connections are enough. What is left behind,
  also by a file larger than the pipe, never leaves: a rest that fills the pipe
  stops all static answers for good.
* `EveryClientIsHandled` is about one listening thread. With additional ones
  (`tests/socket.c:62-65` takes their number; the repository's README lists
  multi-threading as planned) every thread overwrites `svr->ring`
  (`io_loop.c:183`); a completion can be left in a ring no thread looks at any
  more, and its client is never served.
* `FailureGivesBack` excepts a failed `pipe2`, after which the listening socket
  stays open (`server.c:83-86`).

Seen while modelling, with no statement of the repository to check against: the
descriptor of a static file is never closed in the Debug build (`io_loop.c:144`),
nor, in either build, after a failure of libmagic (`http_parser.c:238-241`); a
failed recv leaves the connection open for ever (`io_loop.c:42-45`); the 400
branch of `io_loop.c:112-116` cannot be reached after a successful parse;
`string_free` does not free `str->buf`; the stream of `get_somaxconn` is never
closed; `pthread_join` gets an indeterminate handle when `pthread_create` failed;
a header `Key:` with nothing behind it has its value start on the next line,
`Key:Value` loses a letter; the table of methods gives `CONNECT` six characters
(`http_parser.h:35-37`), so the path is looked for at its last letter and every
such request is answered 400 (`WellFormed` leaves it out).

## 5. Proofs

Every safety invariant, every action property and both refinements that the
passing runs check are theorems, for every value of the constants the assumptions
admit. Each
proof module has the same shape: the parts of an inductive invariant, one lemma
per action that it keeps them, its invariance, and the theorems as consequences.

### Assumptions

They are the `ASSUME`s of the models, which TLC evaluates on every run.

| module | assumption |
|---|---|
| `EventLoop` | the listening descriptor is not one of `Fd`, descriptors are not result codes, `QD` is a positive number, the switch for failing allocations is Boolean |
| `Server` | the number of threads is a number, the build switch is Boolean |
| `SplicePipe` | files have sizes, the pipe has a capacity |
| `Responder` | routes name methods and files of the model, files are not empty |
| `HttpParser` | the buffer is longer than the longest method name; NUL is not in the alphabet, the separators are; the requests are well-formed |
| `Kv` | `Sz` and the default size are positive |
| `Coro` | `Main` is not a coroutine, there are finitely many, 0 is a value |
| `HashMap` | `bits` is between 1 and the width of a word, keys and the factor are words |
| `StrBuf` | `size_t` is twice as wide as `int`, the width of `int` is even; sizes fit into a `size_t` and are not 0, for which `clzl` is undefined |

`Fd` of the event loop, the connections of `Server`, `SplicePipe` and `Responder`,
and the routes need not be finite, except where the length of the queue is
counted (`QueueIsBounded`, `CrashesHaveCauses`).

### EventLoop

With and without failing allocations, both builds:

| theorem | statement |
|---|---|
| `TypeCorrect` | `Spec => []TypeOK` |
| `Invariance` | `Spec => []IInv` |
| `NoDuplicates` | `Spec => []NoDuplicateOperation` |
| `Dispatch` | `Spec => []ActionTellsOperation` |
| `StepCounting` | `Spec => []StepsCountOperations` |
| `CloseIsSafe` | `Spec => []ClosedIsQuiet` |
| `ParseIsClean` | `Spec => []CleanBeforeParse` |
| `AlwaysListening` | `Spec => []OneAccept` |
| `StoppedStaysStopped` | `Spec => []StoppedIsNeverResumed` |
| `Refinement` | `Spec => ImplementsLifecycle` |
| `QueueIsBounded` | finite `Fd`: `Spec => []QueueBound`, at most `3 * Cardinality(OpenSockets) + 1` entries, whatever `QD` is |
| `CrashesHaveCauses` | finite `Fd`: `Spec => []CrashHasCause` |

The argument. None of the properties is inductive alone: that `conn->action` is
right when a completion arrives depends on no second operation having been
pushed for the slot, which depends on the slot having been idle at the accept,
which depends on close never being early, which depends on the step counters,
which depend on dispatch. `IInv` says them together, per descriptor:
`ConnectionState(f)` determines the fields of the slot from what is outstanding
for `f` (a new descriptor: the slot is idle; a recv: `RECV`, no steps, only the
receive buffer written; operations of a response: `SEND` or `SPLICE`, as many as
`total_steps - cur_steps`; a stopped coroutine: nothing, and the descriptor
stays open). `TypeOK` needs the rest as well: that `cq_advance` does not move the
head of the ring past the cursor follows from `count` and `head` going together
through the batch. `RingInv` adds that no operation is in two places, that accepts and
only accepts go to the listening slot, and that one is always on its way.

The proof follows this shape: lemmas on what handling a completion, posting one
and submitting do to the set of outstanding operations (`PushOutstanding`,
`PostRings`, `LoopRings`); what the completion at the head tells about its slot
(`HeadIsAccept`, `HeadIsOfConnection`); one lemma per action for the slot it
concerns and `Frame` for all others.

`Refinement`: the phase and the debt of a descriptor in `ConnLifecycle` are
functions of what is outstanding for it. `PhaseCases` reads them off `IInv`, one
`*Life` lemma per action says how they move, `PhaseFrame` that the other
descriptors stay where they are.

`QueueIsBounded`: the entries of the queue are injected into places, three for each
open connection and one for the accept; a recv takes the place of the send that
answers it, because `IInv` says they are never outstanding together. The bound
moves with the connections that are open, and says nothing of `QD`.
`CrashesHaveCauses` goes through the actions: each that can crash either pushed
into a full queue, and then the bound gives the number of connections, or leaves
one of the two other causes in the state.

### HttpParser

For every capacity of the buffer and of the maps, every alphabet, every set of
well-formed requests and every other text:

| theorem | statement |
|---|---|
| `ParserTypeCorrect` | `ParserSpec => []TypeOK` |
| `StringsEnd` | `ParserSpec => []StringsEndInBuffer` |
| `VerdictOwn` | `ParserSpec => []VerdictIsOwn` |
| `RequestReadAsSent` | `ParserSpec => []ReadAsSent` |
| `QueryLoopEnds`, `HeaderLoopEnds` | the loops are left within as many rounds as the buffer has bytes, from every state of the parser |

The first three rest on `ParserInv`: a slot that waits for a request is empty, a
full buffer is not parsed, and what was parsed has a NUL at the end of the buffer
and no pointer out of it. `StrchrFinds` turns that NUL into a bound for every
search, one lemma per stage carries it through the parser (`MethodIs` to
`HeadersAre`), and `ParserResult` puts them together. For the loops,
`CursorReachesEnd` shows of any function with a growing cursor that its limit is
reached in time.

`RequestReadAsSent` says what the parser computes, and its proof follows the bytes:

1. `FormatIs`: where the parts of a request lie in its text (`Laid`), with the starts
   `qo` of the pairs of the query and `ho` of the header lines.
2. `Arriving`: of that text, len characters are in the buffer, and NULs behind
   them. `MethodStage`, `PathStage` and `ProtocolStage` say what each stage makes of
   that: it gives up, and then the request was not complete, or it takes its part.
3. The loops have an invariant per round. `QueryAt(x, .., n)`: n pairs are kept as
   far as there is room, their strings stand in the buffer, and the cursor is
   behind them. `HeadersAt` is the same for the lines, and its cursor may have gone
   to the end, if the next line has not arrived or is too short (`Left`).
   `QueryTaken` and `HeadersTaken` carry them through all rounds.
4. `PathRemains`, `HeadersRead`: the strings are still there at the end, because
   every write lies behind those kept before; `StrIs` and `StringsAre` read them back.
5. `ParsedAsSent` combines the stages. `VerdictIsOwn` has already reduced the slot
   to one never used before, so that `Awaited`, which says which text was sent, is
   all the invariant needs in addition.

### The other modules

| theorem | property | what `IInv` adds, and why |
|---|---|---|
| `ServerProofs!TypeCorrect` | `TypeOK` | `Clients`: the locals of the loops, and that a posted client has left the backlog |
| `ServerProofs!RingAlwaysLive` | `RingIsLive` | nothing more: a thread in its loop never leaves it without ending the process |
| `ServerProofs!ReturnsLast` | `ReturnsAfterAll` | `Started`: which threads main has created and which it has joined, by stage and step |
| `ServerProofs!FailureReleases` | `FailureGivesBack` | `Holds`: how far `create_server` has come tells what it holds |
| `SplicePipeProofs!TypeCorrect` | `TypeOK` | |
| `SplicePipeProofs!PipeIsAccounted` | `PipeAccounts` | `Progress`: chains run from the front and deliver nothing before their end; `Accounts`: the balance, with `Owed` finite, also with infinitely many connections: a step adds the bytes of one file |
| `SplicePipeProofs!AnswerHasLength` | `AnnouncedLength` | the same: the balance is why a second splice never finds too little |
| `HttpProofs!DynamicIsOwn` | `DynamicAnswerIsOwn` | `WaitsClean`: a slot that waits has nothing in `res`, `fresstr` and the pipe, so that what is composed comes from this request |
| `KvProofs!TypeCorrect` | `TypeOK` | |
| `KvProofs!EveryMapHoldsAccepted` | `HoldsAccepted` | `Thirds`: the provided maps never grow out of their thirds (`Layout`: the thirds do not overlap) |
| `KvProofs!LookupFindsFirst` | `FindsFirst` | the same |
| `CoroProofs!TypeCorrect` | `TypeOK` | |
| `CoroProofs!SwitchesLandInCode` | `LandsInCode` | `CallersWait`: who resumed an active coroutine waits for it, at the place it saved; `ContextFits`: status tells where a suspended one goes on; `Landing`: who still waits when a switch has just landed |
| `CoroProofs!GuardsOfSuspended` | `SuspendedIsIntact` | which coroutine a yield or a return makes inactive: the one that runs, after its guard was looked at |
| `CoroProofs!ImplementsCoroutines` | `ImplementsStack` | `HasChain`: the active coroutines are a chain from `Main` to who runs, without repetition |
| `HashMapProofs!TypeCorrect` | `TypeOK` | |
| `HashMapProofs!AlwaysWellLinked` | `WellLinked` | `Linked`: no node at two positions of a chain; that the chain ends follows by counting (`ChainEnds`) |
| `HashMapProofs!DeleteLeavesNothing` | `DeleteFreesAll` | the same: delete frees what is on the chains |
| `HashMapProofs!EntriesStay` | `KeepsEntries` | the same: an insertion at the head moves the positions of a chain by one (`InsertWalk`) |
| `StrBufProofs!CapacityIsEnough` | `FitsBelowHalfWord` | `Below`: also a NUL at or before `len`, where `strncat` starts; without it NUL bytes in the pieces could make it start anywhere |
| `StrBufProofs!TextStays` | `TextIsKept` | `TextInside`: cell by cell |

Three arguments deserve a word, because they replace induction over data.

* *Least numbers.* That a set of numbers has a least member (`LeastNat`, from the
  well-foundedness of `<`) stands for induction: a recursive function is
  determined by its equation (`OneWayUp`, `WalkExists`, `RoundsUnique`, and
  `FlattenIs` for the concatenation of any number of texts), `Min` and `CHOOSE` of
  the highest bit exist (`HighestBit`).
* *Powers of two.* The provers know nothing of `^`, except the library's theorem
  that a set of n elements has `2^n` subsets. `PowSum` (`2^(a+b) = 2^a * 2^b`) is a
  bijection between subsets of `1..a+b` and pairs of subsets; monotonicity and
  doubling follow. With them `HashInBucket` shows that `hash_64` is an index into the
  table, for every width, and `CapacityFits` that `1 << clzl(n)` exceeds `n` below
  the half word.
* *The chain of callers.* `ImplementsStack` maps the abstract stack to what one
  finds by following `co->caller` from the running actor. Instead of reasoning
  about that recursion in every step, the proof carries the chain as a sequence:
  resuming appends to it, yielding takes its last member off, and only `StackIs`
  says that following the pointers yields the sequence.

### Only model-checked

* Liveness: `ResponseEnds`, `KeepsListening`, `EveryClientIsHandled`. The prover does
  not handle fairness and `ENABLED`.

## 6. Plan

Done: all modules of section 2, their runs, and the proofs of section 5. Left:
the proofs may be simplified, and shared lemmas (`LeastNat`, the powers of two)
are stated where they are used.

Not modelled:

* connections of several listening threads: slots shared across threads, the
  window between close and the clearing of a slot. What one thread does to a slot
  another one is using is a data race without any rule to model; `Server` stops
  at the accept, where the first damage is done.
* the length of what is formatted into `tmp[1024]` (`http_parser.c:268-293`).
* `murmurhash3.c` (third-party arithmetic, unused by the server, and its result
  is not a bucket index), the system call wrappers (inline assembly without
  state), compile-time macros, `magic_init` and `magic_uninit`.
* `io_uring_push_read` (never called) and `epoll_listen_loop` (declared, not
  defined).
