# A TLA+ model of asiodaemon

Asiodaemon is an SMTP daemon that runs on one asio `io_service`. It accepts
connections, speaks SMTP on each of them, and starts a reader of an HDFS file
for every message it receives. This directory holds TLA+ modules that model the
program, configurations that check them with TLC, and theorems about them that
TLAPS checks. Paths below are those of the repository, without the leading
`src/`.

Contents: 1 the system, 2 the modules, 3 the runs, 4 fairness, 5 the proofs,
6 where code and text disagree, 7 what is not modelled, 8 the plan.

## 1. The system

One thread runs one `io_service`. Every event is an object derived from
`AEventAbstract`. It starts asynchronous operations on sockets, timers and
signals, and their completion handlers are wrapped by `wrap_asio_cb` so that
they carry a shared pointer to the event. All handlers go through one strand, so
none of them interrupts another one. What makes the program hard is what lies
between them: an operation may have succeeded, and its handler be in the queue,
when another handler stops the event.

| component | state | operations | talks to | what is hard |
|---|---|---|---|---|
| Event base, `AsyncEvent/AEvBase` | self pointer `_my_ptr`, child list, `stop_inited`, timer, registered utils | construct, `begin`, `create_child`, `stop`, `finish`, `_child_callback`, timer handler, `wrap_asio_cb`, `init_async`, `stop_async` | parent through a raw `this` in the finish callback; children through shared pointers; utils through registered closers | re-entrant `stop()`, handlers that run after the stop, who keeps whom alive |
| Daemon, `async_daemon.cpp`, `SMTP/AEvAcceptor`, `SysSig/AEvSysSig` | accept, timer and signal wait; the children | accept, child callback, message handler, signal handler | the event base; sessions; readers | the stop of the whole tree against handlers that are already queued; when `run()` returns |
| SMTP session, `SMTP/AEvConnection`, `SMTP/Modules/BaseMod`, `SMTP/IncSmtpState` | envelope, `unsended_responds`, `waiting_for_data`, lines, replies and reads under way | one handler per verb, `_begin_transaction`, `_send_respond`, `_read_command`, `_read_data`, `_data_acceepted` | the acceptor's message handler; the buffers | pipelined commands; confirm functions that run late; replies that fail; a stop in the middle |
| Buffers, `BufferBase`, `SMTP/SmtpBuffer`, `HDFS/HdfsBuffer` | contents, `_top_offset`, `_size`, `_reserved`, two parser offsets | `release`, `accept`, `reset`, `parse`, `mem_reduce` | session, HDFS reader | delimiters the network has cut; the arithmetic of what is allocated |
| HDFS reader, `HDFS/AEvHdfs` | phase, operation under way, reply buffer | resolve, connect, send, receive, redirect | the callback of the acceptor | seven ways to end, each of which must report once; replies cut anywhere; resolves that cannot be cancelled |
| DNS client, `DNS` | request, buffer, respond, `err`, timer | `prepare_for_request`, send, receive, `read_respond`, timeout, stop | a callback; the network; the event base | codec with compressed names; a package, the timer and the parent race to end the query; failures that look like answers |
| Detached queue, `HUtils/DetachedTasksQueue`, `HUtils/MLocker`, `HUtils/AsyncQueue` | task queue, `UserStoped`, `SleepingLock`, `DataLock` | `push_task`, `stop`, `join`, `_main_worker`, `_do_job` | one worker thread | the only threads of the repository; mutexes that are unlocked by whoever wants to awaken, and once too often |
| Lock-free queue, `Atomic` | linked list | push, pop | threads | unused, unfinished |
| Configuration, `Config`, `HUtils/BTreeStore*` | tree of options | parse, find | start-up | sequential |
| Logger, helpers | - | output, strings, files, network | everything | - |

What makes each of them correct:

- *Event base*: the finish callback is called once; a child list is exact; a
  parent outlives its unfinished children; a handler finds its event alive;
  nothing leaks; what has stopped is destructed.
- *Daemon*: it always has an accept, a timer and a signal wait until it stops;
  only a failed accept or a signal stops it; a stop reaches every event; the
  process ends after a signal.
- *Session*: replies to RCPT are counted exactly; an envelope that is handed over
  is complete and is the one the data phase was entered with; there is always one
  read, of the right kind; a stopped session drains.
- *Buffers*: no byte is lost, moved or reported twice, wherever the stream is cut;
  what a read may fill is allocated; a buffer does not grow for ever.
- *HDFS reader*: it reports at most once and never forgets to; it reports no
  redirect or partial body as content; it follows a redirect to where it leads; it
  comes to rest when it is stopped.
- *DNS client*: a server understands the request as the question that was meant; a
  reply is reported exactly; a query reports once, and in time if it has a
  timeout.
- *Detached queue*: what was accepted is run once, in order; no wake-up is lost;
  the worker ends when it is stopped.

The hazards in this code, each at its line and with the properties aimed at it,
are listed in `PROJECT.json`.

## 2. The modules

| module | what it is | how it corresponds to the code |
|---|---|---|
| `EventTree` | abstract: a tree of events that finish together and are destructed after that | what `AEventAbstract` promises to derived classes |
| `AEvent` | `AEventAbstract`, `AEventUtilBase`, timer and handlers | `stack` is the C++ call stack: a frame is a running handler or `begin()`, and an *open* frame is code of a derived class, which may make any call the base class offers (`CreateChild`, `StartOp`, `ResetTimer`, `Stop`, `InitAsync`) in any order before it returns. `handler` holds the operations given to asio and the handlers in its queue. One `Stop` is a whole call of `stop()`, with the children it stops and the parents that abort: `StopSet` is the set of events the recursion visits |
| `AEvDaemon` | `main()`, acceptor, signal listener; sessions and readers seen from outside | An operation is a record of the event it belongs to, its kind (an accept, a wait of the timer, a signal, or the one stream of a session or a reader), and whether its handler holds a pointer to the event; `op` says what state each is in. `run()` has returned when all are `none` |
| `SmtpSession` | `AEvSmtpSession`, `BaseMod`, `IncSmtpState` | one action per command handler, one per completion handler. `busy` marks the loop of `_begin_transaction`, which no other handler interrupts |
| `Buff` | the arithmetic of `BuffAbstract` | operators on records with `top`, `size` and `reserved` |
| `SmtpStream` | the bytes of a connection, `PBufferAbstract`, `SmtpCmdBuffer`, `SmtpDataBuffer` | a read of any size up to what was released; `Parsed`, `Parts` and `MemReduce` follow the search of the code with its two offsets, the reference is `Split`, byte by byte |
| `HdfsRead` | `AEvHdfs`, `AEvHdfsRead`, the parser in `HdfsBuffer` | one action per completion handler; the server cuts its reply anywhere. Beside it runs the timer of the base class (`timer`, `Tick`, `Expire`), whose handler may hold the reader too. `endpoint` and `request` are whom it talks to and what it asked |
| `HdfsUtils` | `hdfs::utils`, and `split` and `is_digit_only` of `HStrings` | pure operators on sequences of characters: a URL, a redirect |
| `TaskQueue` | abstract: tasks are accepted until the stop and run once, in order | what `DQueueBase` promises to whoever pushes |
| `DQueueBase` | `DQueueBase`, `MLocker`, the job of `AsyncQueueExample` | `worker` and `caller` say where the two threads are. A step is what one thread does between two points at which the other could tell the difference: each lock, each unlock, each look at the queue or at `UserStoped` |
| `DnsUtils` | `dns::utils`, the records of `DnsTypes` | pure operators on sequences of bytes. What reads a package returns the set of its results: one, or none where the code leaves the package and its behaviour is undefined |
| `DnsServer` | RFC 1035: the question of a client, and what a server that compresses names makes of its records | external; the reference for `DnsUtils` |
| `AEvDnsClient` | `AEvDnsClient`, `DnsBuffer` | one action per completion handler, `begin()`, the stop by the parent; the network loses, delays and forges. `max_pkg_size` is what the buffer has for a request or a reply: a longer request is sent empty (`PrepareForRequest`), or overruns the buffer (`Overruns`), a longer reply is cut (`Received`) |
| `HdfsBuff` | the memory of `HdfsBuffer` | `release` and `accept` with the `calculate_mem` of that class |
| `MC*` | model values and symmetry for TLC | - |
| `SetInduction` | induction over numbers, with sets in the place of predicates | - |
| `*Proofs` | the theorems of section 5 | - |

`SmtpStream` and `HdfsBuff` extend `Buff`, `HdfsRead` extends `HdfsUtils`,
`AEvDnsClient` extends `DnsUtils` and `DnsServer`; `AEvent` instantiates
`EventTree`, and `DQueueBase` `TaskQueue`, for the refinements. The remaining
modules are views of one system at different depths. `AEvDaemon` sees a session as
a stream of operations, `SmtpSession` sees its commands, `SmtpStream` its bytes;
which operation may follow a stop, and how it fails on a closed socket, is the
same in all of them. A child of the acceptor is created, stopped and destructed as
in `AEvent`.

Operators with `Mutant` in their name are plausible errors in the definition
whose name they begin with. No specification uses them: they are put in its
place to see that the properties notice.

Abstractions a reader should know of:

- *Results of operations.* asio tries an operation at once, so its handler may be
  queued with success before the call that started it returns. Replies are
  given to one socket, where they finish in order; on a closed socket every
  operation fails, except `async_connect`, which opens it again.
- *Freed objects.* A handler without a pointer may run after its event was
  destructed (section 6). What the program does then is undefined. `AEvent`
  keeps the outcome in which the flags still read as they were left, `HdfsRead`
  those in which the callback is called or is not and the timer is started again
  or is not, `AEvDaemon` those in which the handler returns, or that of a timer
  starts it again (`Strays`). What keeps an event is the pointer in its handlers,
  so both modules carry it (`holds`), and destruct an event when the last is gone:
  its sockets and timer then cancel what is left (`Settled`, `Leaves`).
- *Arguments of commands* are abstracted to whether they parse, replies to
  positive and negative, addresses to members of a small set.
- *Timers of sessions.* `ReplySent` in the code also starts the session's timer
  again; timers are the subject of `AEvent` (`ResetTimer`, `TimerExpired`), and
  in `SmtpSession` a timeout is a stop like any other, which a failing reply or
  read brings about.
- *A reader that resolves* goes on doing so behind its stop, since nothing cancels
  `async_resolve`, and its handler connects, which opens the socket again. Both
  `AEvDaemon` (`resolving`, `After`) and `HdfsRead` have it.
- *Timers below the acceptor* have no timeout and start again from their own
  handler, without a look at `stop_inited`: `AEvDaemon` has one for every event,
  `HdfsRead` that of the reader. A session's reply also starts it again behind the
  stop (`Replied`). Of two waits of one timer, the first is cancelled by the second,
  and only the second is kept.
- *One stream of operations* stands in `AEvDaemon` for those of a session or a
  reader. Which of its operations is next, and with what it ends, is left open.
- *Mutexes* of the detached queue are binary semaphores. To unlock a `std::mutex`
  that is free, or that another thread has locked, is undefined; those of glibc
  are free after it, and that is the outcome modelled. `Rearmed` follows the
  worker's `empty()` outside the lock, whose answer may be that of before or after
  a push under way.
- *One owner* pushes and stops; `stop()` is called once, as `UserStoped` is never
  reset.
- *The timer of a query* is modelled if the query has a timeout; one without has a
  timer that starts again, which is the subject of `AEvent`, `AEvDaemon` and
  `HdfsRead`.
- *Packages that are cut* are parsed as far as they arrived: what the parser reads
  beyond that is undefined, and so is what it writes behind 1024 bytes of request.
  The model ends there (`crashed`).
- *HTTP replies* are lines of two units, the second of which completes the line,
  and a body; the headers are those the parser knows.

## 3. The runs

Times are for two workers.

| run | asks | bounds | states |
|---|---|---|---|
| `event_tree` | Do child lists, self pointers and handlers' pointers stay consistent, and does the base class implement `EventTree`? | root and two events, one of them with a timeout, one that aborts its parent and does not cancel its operation; four handler slots | 1.2 million, 1 min |
| `event_stop_liveness` | Does a stopped event go away, and do its parent, its utils and its pending operations let go of it? | root, an event with a timeout, one util, three slots | 120 thousand |
| `smtp_session` | Counting of replies, envelopes, one read, nothing outstanding behind a stop, draining | two addresses, two lines a read, two messages, a client that is served with at most one reply under way | 170 thousand |
| `smtp_stream` | Exact lines and messages; allocated memory; bounded command buffer | every stream of up to four tokens, cut everywhere | 100 thousand, 2 min |
| `daemon` | Service, who may stop the daemon, stop of the whole tree, what may begin behind it, what is left of the tree, end of the process | one session, one reader | 235 thousand, 3 min |
| `hdfs_read` | One report, sound content, redirects followed to where they lead, nothing that keeps it and rest after a stop | bodies of up to two units, eight redirects | 130 thousand, 2 min |
| `dns` | Is the request the question meant, is the reply reported exactly, once, and in time? | one query; names, records and replies below | 124 thousand, 20 s |
| `dqueue` | Are tasks run once, in order, with no wake-up lost, and does an idle worker end? | four tasks | 1.4 thousand |
| `handler_without_event`, `daemon_abort`, `hdfs_buffer`, `dqueue_stop` | Is what a comment or a reply says true? | as small as the counterexample | a violation each, section 6 |

Why the bounds are enough for the cases of interest:

- `event_tree`: two events below the root give siblings, and a chain of three. A
  chain has a parent that stops from above, from below and from its own timer.
  Four slots hold the timer of each event and one operation, or one handler
  queued with success while its event stops. The theorems cover every size.
- `smtp_session`: two addresses give a repeated recipient and two replies to RCPT
  at once. Two lines a read give a command behind DATA, behind QUIT and behind a
  RCPT in one batch. Two messages give a state that was replaced. `MaxSends`
  limits when the client is served, not how many replies a batch makes: a batch
  of two behind one reply on its way makes three. `UintMax` is 15, far above
  what is counted, so that a wrap below zero is seen as such.
- `smtp_stream`: the tokens are a DATA line, a message of one letter, the
  terminator of a message, CRLF, a lone CR and a dot: with four of them there
  are two messages, an empty message, a command behind a message, and
  delimiters that begin inside one another. Sizes are scaled so that four
  tokens reach every branch: blocks of 2 instead of 1024, chunks of 4 and 6,
  `MaxSize` of 11 so that `release()` throws, 40 percent for the 10 of
  `mem_reduce` so that a buffer this small is both kept and reduced.
- `daemon`: names of children are used again once they are destructed, so one of
  each is the number at a time. With its timer each has two operations, each with
  or without a pointer, which is where handlers outlive a stop. A session and its
  reader, one of them begun late, and an accept queued at the stop occur at once.
  Two sessions meet only in the acceptor, which treats every child alike; the
  theorems cover every number. In `daemon_abort` one session is enough for a
  queued accept to be handled, so that what is left is the timer.
- `hdfs_read`: status, an optional location and an optional length in every
  combination, a body of up to two units, any cut. Locations: two of the usual
  form, one of them with a colon in its path; one without protocol and domain,
  which the code follows; and five it does not: without a port, without a path,
  with a port that is no number, with the slashes in the wrong part, and a path
  alone. One letter stands for all letters, two digits for all digits.

- `dns`: a name, an address, a name with a section of 64 characters, and four
  strings that are refused; types A, PTR and MX. Three longer names: of 245 bytes,
  whose replies are cut at 512 bytes unless they are compressed, and names whose
  requests are longer than the 512 bytes released and the 1024 reserved. Replies
  have up to two of addresses, pointers, mail servers (with a preference above a
  byte, and with the name of the root) and aliases, with and without compression,
  or an error code. Compression points into the question, at its beginning, inside
  it, or behind a section of the record's own. The second identifier is another's,
  and above 2^15.
- `dqueue`: with four tasks the queue is filled while the worker sleeps, wakes,
  works or looks again, and each of the two locks is unlocked twice in a row. One
  task is enough for `dqueue_stop`. The theorems cover every number.

Deadlock is not checked: in each model the system may stop, be it that the
process has ended, the session is closed, or the client is silent.

Each property of a run that passes has a mutant of the code in `PROJECT.json`
that it catches.

## 4. Fairness

asio runs queued handlers in the order in which they were queued, one at a time,
and a handler returns: it contains no loop that waits. So a queued handler is
run in the end. That is the fairness of `AEvent`, `SmtpSession`, `AEvDaemon` and
`HdfsRead`. It is strong for a handler that is not enabled while another one
runs, weak where running is one step. In addition `AEvDaemon` assumes that the
root's timer expires, and both it and `HdfsRead` that a resolve returns (the
system's resolver has timeouts).

`AEvDaemon` asks for each handler of the acceptor by itself, and of the others only
that those with a pointer are not all passed over for ever, nor those without. That
is less than the `io_service` does, and it is enough. The order of the queue is used
once: in `HdfsRead` an operation without a pointer was started behind the stop, and
the handler of the timer was queued by the stop at the latest, so that one runs
first and the reader is destructed (`Runs`). The timer of a reader need not expire,
nor that of any event but the root.

`AEvDnsClient` assumes that a query is begun, that its timer expires and that
queued handlers are run; each is one step, so weak fairness serves. In
`DQueueBase` the two threads are scheduled: weak fairness of the worker's steps,
and of the owner's within a call it has begun. The owner pushes finitely often,
and the worker loops only when it was awakened, so a lock that one of them waits
for is free for good in the end, and nothing stronger is needed. A task returns,
which is for the derived class to see to. Nothing obliges the owner to push or to
stop.

Nothing is assumed of clients, servers and whoever sends signals:
they may fall silent at any time. No step of theirs is needed for
`StoppedIsDestructed`, `StoppedDrains`, `StoppedRests` or `QuietStopReturns`,
because a stop cancels what is pending. Where the code does not cancel, the
property excepts it and says so: events in `Uncancelled`; children begun `late`,
which nobody stops; a handler of the acceptor that was queued with success
(`Quiet`); and `strayed`, behind which an expired wait was handled on a freed object.
A signal wait that a failed accept leaves behind keeps the process until a signal
comes: `QuietStopReturns` begins with the signal.

## 5. The proofs

Every theorem holds for all values of the constants that satisfy the named
assumption of its module (`AEventAssumption`, `SmtpAssumption`,
`StreamAssumption`, `DaemonAssumption`, `HdfsAssumption`, `DnsAssumption`,
`DQueueAssumption`): the constants are subsets, distinct names, numbers, and
sequences of characters. `DnsAssumption` says what queries and replies are made
of: identifiers are those of `rand_qid`, characters are bytes, types are words,
codes have four bits, and a record is one that a zone can hold (`InZone`: a name
of up to 255 bytes in sections of up to 63, an address with the text that
belongs to it, a preference for mail servers only). It bounds neither the number
of records nor the length of what is asked. The 512 bytes of the buffer do, in the
model as in the code: what the theorems say of a request is for a name that can be
known, and that its request fits is part of the proof; what they say of a reply is
for one that is received whole. Each
proof module follows the same path: an inductive invariant, `Init` implies it, a
lemma per action (or per group of actions that share their argument) that it is
kept, and the theorems.

- `AEventProofs`. The invariant ties the self pointer to the flag
  (`SelfWhileUnfinished`: `_my_ptr` is set just while an event is live and has
  not begun to stop), orders the life of an event (`LifeAndStop`), and describes
  the frames of the stack (`FramesSound`: a frame's event is alive). Without the
  first, `HolderKeepsAlive` is not inductive, since a new handler copies
  `_my_ptr`; without the last, a call could be made by a destructed event. The
  central lemma is `StopSetFacts`: the set `StopSet` is closed under the child
  lists and holds unfinished events only. From it follow once-only finish
  callbacks, exact child lists, and the refinement of `EventTree`, in which the
  one step of `Finish` is a whole recursive `stop()`. Proved: `TypeOK`,
  `FinishedOnce`, `TreeExact`, `ParentOutlivesChild`, `HolderKeepsAlive`,
  `UtilsLetGo`, `ImplementsEventTree`. `NoLeak` needs in addition that an
  unfinished event has a timer armed (`TimerArmed`) whose handler holds it, and that
  what is live is held by a handler or a frame (`LiveIsHeld`); the step that
  matters is the last handler of an event, behind which nothing may be left alive.
  Two theorems say who keeps an event that has finished. `FinishedLetsGo`, by an
  invariant of its own (`NothingWaits`): no pending operation that the stop
  cancels carries a pointer, as `CancelIo` has failed those there were and a new
  one copies a self pointer that is null. `FinishedStaysReleased`, for a step:
  an operation that carries a pointer to a finished event did so before.
- `SmtpSessionProofs`. The invariant adds to the properties that a session which
  waits for data has a recipient, and that the number and kind of reads follow
  from the state. Proved: `TypeOK`, `CommandOrder`, `EnvelopesComplete`,
  `OneRead`, `DataPhaseHandsOver`.
- The second part of `SmtpSessionProofs` builds on the first. `Counted` relates
  `unsended_responds` to the number of replies on their way that carry the confirm
  function; as a change of one reply changes that cardinality by one, it is kept as
  long as the unsigned count does not wrap. `Room` says why it does not: a read
  gives its lines out only while at most `MaxSends` replies are counted, a batch has
  at most `MaxBatch` lines, and a line adds at most one. So the theorems assume
  `MaxSends + MaxBatch <= UintMax`; in the code the bound on both is memory, and
  `UintMax` is 2^32 - 1. Proved: `ConfirmsCounted`, `DataPhaseSettled`.
  The third part is about the stop (`Settled`): what stopped the session has
  cancelled both lists, and every handler that still succeeds starts its
  operation on a closed socket, or looks at `stop_inited` first, as
  `_data_acceepted` does. Proved: `StoppedWaitsForNothing`.
- `DQueueBaseProofs`. The invariant says that the tasks done, the one at work and
  those in the queue, one behind the other, are the tasks accepted, in order, and
  that no push is under way behind a stop. It does not speak of the locks:
  order and once-only runs do not rest on them, which is why they survive the
  second unlock. Proved: `RunsInOrder`, the refinement of `TaskQueue`. That no
  wake-up is lost does rest on a lock, `SleepingLock`. `Awake` says of every place
  of the worker why it will look at a queue that is not empty: it has yet to look,
  or has a task to do and looks again behind it, or the owner is about to unlock;
  it is stated for a lock that is taken, since one that is free awakens the worker
  at once. Proved: `NoLostWakeUp`.
- `AEvDaemonProofs`. The invariant adds that acceptor and signal listener stop
  together, that a failed timer wait means a stopped acceptor, and that only
  begun children have operations. Four parts are about pointers: an operation
  without one belongs to an event that has stopped (`Loose`), one with a pointer is
  not pending behind the stop, but for the wait for a signal (`HeldRests`), only
  readers resolve (`Resolves`), and nothing is pending on the socket of a stopped
  session (`SessionsRest`). `Disarmed` is `LateWasQueued` made inductive: unless an
  accept or an operation of a session was queued at the stop, none succeeds behind
  it. Proved: `TypeOK`, `Serves`, `StopReachesAll`, `LateWasQueued`,
  `OnlyOwnStops`. `QuietStopDrains` is proved handler by handler: the resolve of a
  stopped reader, the connect it starts and the ticks of stopped children are all
  steps of such a stop, and none of them starts an operation that holds an event,
  since `Now` copies a pointer that is null. What is without a pointer then ends
  when its event is destructed; that there is an end is checked by the run.
- `HdfsReadProofs`. `ReportsOnce` is inductive together with `TypeOK`. The other
  two are about what the parser computes, wherever the reply is cut. `BufferFacts`
  and `LinesFacts` say what `Buffer` holds of the pieces that have arrived: the
  lines that are complete, in order, and the rest; `ParsedUrl` and
  `ParsedLocation` say what the splits of `HdfsUtils` give for a URL and a
  location of the usual form, from `PlacesFacts` (where a character occurs) and
  `SliceOfSlice`. `SoundInv` adds that a reader which talks to a data node has
  taken apart the redirect it was given, and asks what it found there
  (`RequestInv`), and that a reader which is left without an operation has refused
  a redirect it should not follow (`LeftInv`). Proved: `TypeOK`, `ReportsOnce`,
  `ContentIsSound`, `RedirectFollowed`. `Held` says who keeps the reader: its
  operation and its timer until the stop, behind it a handler that is queued, of
  either, or a resolve. With it is proved that a stopped reader starts nothing
  that keeps it, the tick of an expired wait included, and that when it is
  destructed nothing is left pending, `StoppedOnlyWindsUp`.
- `SmtpStreamProofs`. The invariant `StreamInv` says of each of the two parsers how
  far it has searched: what was handed over is what `Split` gives for the bytes
  received, what lies between the two offsets has no delimiter in it, and a
  delimiter that is cut is found again from the offset the search resumes at. Its
  heart is `ReceivedSplit`: the split of a stream to which a piece is appended is
  the split so far, continued with what was left over. The buffers fit
  because `CalculateMem` is at least what is asked of it when two blocks are
  reserved, and every read stays within the memory released for it. Proved: all
  five invariants of `SmtpStream`, `TypeOK`, `BuffersFit`, `CommandsReduced`,
  `LinesAreExact`, `MessagesAreExact`.
- `AEvDnsClientProofs`. Most of it is about the codec, and says that what one side
  writes the other reads, for packages of any length that are received whole.
  `RequestIsWritten`: the flags that are set bit by bit, the counts and the name
  section by section are the question as RFC 1035 has it. `NameRead`: the walk of
  `buff_step_read_qdn`, of which only the number of steps left decreases, ends at
  the zero of a name, or jumps to an end of the name in the question, ends there,
  and comes back behind the pointer. A pointer has 14 bits for its offset, which
  suffice, since the names a server knows are no longer than 255 bytes; and the
  steps suffice, since the name that is jumped to stands in front, and is shorter
  than the package. `ReplyRead` puts together from it the data of a record, the
  record, and the records one behind the other: a reply of known types is parsed
  into its `Meaning`. `ParsedFacts` adds what a package of another identifier or
  with an error code is parsed into. A name that can be known takes at most 255
  bytes, so its request fits the buffer (`RequestFits`). The invariant `DnsInv` is
  small: an operation belongs to a request that was written for this query, a
  receive that succeeded has a package that some server wrote, after the stop
  nothing is pending and what was reported is told of the package that arrived
  (`Told`). That nothing is pending is what makes it inductive: a package that
  arrived behind the report would not be the one reported. Proved:
  `RequestUnderstood`, `AnswersExact`, `ReportedOnce`. `Awaited` puts the stop in
  the place of the report: each handler of a query that has not stopped starts the
  next operation or stops it. Proved: `UnreportedIsAwaited`.
- `SetInduction` gives the induction the last three need. The theorems of the library
  have an operator as a parameter, which cannot be instantiated here; a set of
  numbers in its place can be, and follows from the well-founded ordering of the
  finite sets. With it, a recursive function exists, and facts about its values are
  proved from one number to the next.

Only model-checked:

- what holds under fairness (`StoppedIsDestructed`, `StoppedDrains`,
  `QuietStopReturns`, `StoppedRests`, `ReportsInTime`,
  `AcceptedIsRun`, `IdleWorkerEnds`), which TLAPS does not treat. What these rest
  on beside fairness is proved: `FinishedLetsGo` and `FinishedStaysReleased` (a
  finished event has a fixed set of keepers that only run out),
  `StoppedWaitsForNothing`, `QuietStopDrains` (the operations that hold
  an event only run out), `StoppedOnlyWindsUp`, `UnreportedIsAwaited` and
  `NoLostWakeUp`. That the steps are then taken is what the runs check.

Every other property of the runs, each invariant and each action property, is
stated by a theorem.

Proved, and in no run: the `TypeOK` of `SmtpSession`, `AEvDaemon` and `HdfsRead`;
`CommandOrder`; `UtilsLetGo`, of which `FinishedLetsGo` says what matters once more;
`FinishedStaysReleased` and `UnreportedIsAwaited`. They hold of the instances of
section 3 as of every other one. A configuration can name them as any other property.

## 6. Where code and text disagree

Each is a run that TLC ends with a counterexample; `PROJECT.json` quotes the text.

1. *A handler without its event* (`handler_without_event`). `finish()` moves
   `_my_ptr` away, so what a handler starts after the stop of its event is
   wrapped with a null pointer. The event is destructed before that handler
   runs, although the comment on `wrap_asio_cb` says the pointer is added.
   `HolderKeepsAlive` says precisely which handlers are concerned.
2. *The process that does not end* (`daemon_abort`). The root's timer wait has
   expired, and its handler is queued, when the signal is handled. The stop cannot
   cancel it; it starts the timer again, and so does every handler after it. All
   else runs out, but `main()` keeps the root, its timer always waits, and `run()`
   never returns. `QuietStopReturns` says when it does return.
3. *The free space of `release()`* (`hdfs_buffer`). With the `calculate_mem` of
   `HdfsBuffer`, one block is too little while less than half a block is filled.
   The SMTP buffers reserve two, for which `BuffersFit` holds.
4. *The worker that is not awakened* (`dqueue_stop`). `push_task` and `stop()` unlock
   `SleepingLock` before the worker takes it, which awakens it once. It runs the
   task, sees no other, sleeps, and `join()` never returns. `IdleWorkerEnds` says
   when it does.

Seen while modelling, and in the modules, without a run of their own:

- SMTP: `ehlo` is bound to the handler of MAIL, which refuses it. The comment calls
  commands before the replies to RCPT violations of the protocol; only DATA is
  refused.
- HDFS: a reply that is cut between two header lines is taken for complete;
  `ContentIsSound` says what does hold. `parse_url` stores the protocol as the port
  and overwrites it, so `proto` stays empty, and it accepts an empty domain.
- DNS, the respond: the data of a record of another type is not passed over, so
  what follows an alias is read from the wrong place, and reported without an
  error (`DnsUtils.cpp:255`). The name of the root, by which a domain says that it
  takes no mail, leaves `buff_step_read_qdn` with `pop_back()` of an empty string.
  Neither the flag that marks a respond nor truncation is looked at.
- DNS, the query: a failed send or receive, a refused name and a stop by the parent
  report `noerror` and no records. A package of another identifier ends the query
  with an error. A package whose handler was queued before the stop is parsed
  into the respond that was withdrawn, a null pointer (`DnsBuffer.cpp:48`);
  `ReportedOnce` says that the report came before. `is_fqdn` admits sections of
  any length, and the byte that holds it is cut. It admits names of any length
  too: a request of more than 512 bytes is refused by `accept()`, which nobody looks
  at, and an empty package is sent; one of more than 1024 is written beyond the
  buffer (`DnsBuffer.cpp:22`).
- DNS, the receive: a reply of more than 512 bytes is cut, and parsed beyond what
  arrived, as nothing looks at the number of bytes (`DnsBuffer.cpp:48`).
- Daemon: a session or a reader that is begun behind the stop of the acceptor is
  stopped by nobody (`late`); `LateWasQueued` says when that happens. When accept
  fails, the listener's wait for a signal is not cancelled, and `run()` waits for it.
- DNS, the records: `get_mx_sorted` drops equal preferences; `get_rand_rec_value`
  never chooses the last of several; `rand_qid` gives queries of one second the
  same identifier.
- Queue: a task that is pushed between the worker's look at the queue and its look
  at `UserStoped`, before a stop, is accepted and not run.

## 7. What is not modelled

- Inside the modelled parts: the check of the listening address and a failing bind
  (the process ends before it serves); the text of replies and what of it reaches
  a client, such as the reply to QUIT that is cancelled with the socket, or the
  lifetime of the string given to `async_send`; header lines without a colon and
  numbers that do not fit; parsing of mail addresses.
- `init_async` on an event that has finished dereferences a null pointer; no such
  call is made in the repository, and none is modelled.
- SMTP modules injector: empty.
- DNS: `get_flag`, which nobody calls and which counts the bits from the other end
  than `set_flag`; `DnsBuffer::clear`, which nobody calls; `get_rec_list`, a
  projection. Nothing in the daemon starts a query.
- Detached queue: several threads that push or stop. `DataLock` does not keep them
  apart once the worker has unlocked it twice, so two of them may be inside one
  `std::queue`, of which nothing can be said. Nothing in the daemon pushes a task.
- The option tree of `Config` and `BTreeStore`: sequential, built once at start-up
  from text. `main()` ends the process when it cannot be read; after that only the
  logger looks at it.
- The lock-free queue of `Atomic`: nothing uses it, and it is unfinished (the
  second `push_back` dereferences a null pointer).
- Logger, helpers for strings (but `split` and `is_digit_only`), files, network
  and processes: output, system calls and character-level code, whose outcomes are
  inputs of the models.
- Examples and scratch programs (`AEvExample`, `testing.cpp`, `mtest.cpp`,
  `tests2.cpp`, `AsioRedis`): not part of the daemon.

## 8. The plan

Done: every component of section 1 that runs concurrently, and the proofs of
section 5, which state every safety property of the runs.

Left, in this order:

1. `OptionTree`, `BTreeStore` as a pure algorithm against a reference, and the
   splitting of `HStrings`, if it serves it.
