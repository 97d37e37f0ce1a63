# Verification of DBMiddleWareApplication

TLA+ specifications, TLC models and TLAPS proofs for the TCP middleware server
in `src/DBMiddleWareApplication`. Line numbers below refer to that directory.

## 1. The system

The server accepts TCP connections, gives each one a `Session`, cuts the byte
stream into length-prefixed frames, dispatches every frame as a (secret-prefixed)
JSON packet, and answers through a per-session write queue. Several threads run
one `io_context`; the handlers of a session are serialised by a strand, but other
sessions and the acceptor call into a session and into the shared registry.

### Inventory

| Component (file) | State | Operations | Interacts with | What is hard | What makes it correct |
|---|---|---|---|---|---|
| Session, outgoing half (`Session.cpp` 91-162, 249-276) | `write_queue_`, `write_in_progress_`, `write_queue_overflow_count_`, the outstanding `async_write` | `post_write`, `enqueue_write`, `do_write_queue`, completion handler | posted to by the dispatcher on the strand and by other sessions' threads | a drop on a full queue while its front is being written; the write chain starts only on an empty queue | one write at a time, order kept, nothing lost before an overflow, no stall |
| Session, incoming half (`Session.cpp` 44-88, 302-399) | `read_pending_`, `task_queue_`, `task_running_`, `data_`, outstanding `async_read_some` | `start`, `do_read`, `post_task`, `run_next_task`, read callback | `MessageBufferManager`, `DataHandler::dispatch` | the read loop lives on one token passing through four places | exactly one reader on a live session |
| Session, lifecycle (`Session.cpp` 183-187, 278-300) | `closed_`, `state_`, `socket_`, `nickname_registered_` | `close_session`, `on_nickname_registered` | called by the strand, by `register_nickname` and `add_session` on other threads | three closers; `closed_` set elsewhere; state written after close | teardown once; a closed session is released |
| MessageDispatcher (`MessageDispatcher.cpp`) | handler table (constant), secret | `dispatch`, login handler, insert handler | Session, SessionManager | the secret is checked per packet, depends on the login state, exceptions skip checks | no answer before the secret was shown |
| SessionManager (`SessionManager.cpp`) | sharded id -> session map, shard mutexes, `nickname_index_`, `nickname_mutex_` | `add_session`, `remove_session`, `find_session*`, `register_nickname`, `unregister_nickname`, clean-ups | acceptor, session strands | check-then-act login, close of another session under a mutex, ids that wrap | nicknames unique, open sessions tracked, no deadlock |
| DataHandler (`DataHandler.cpp`) | the dispatcher and the manager, timers | `dispatch`, `add_session`, `remove_session` (forwarding), monitor loop; switched off: clean-up loop, `cleanup_unauth_sessions`, `do_keepalive_check` | Session, SessionManager | sweeps look at sessions first and close them later | a sweep bounds what it is to bound, returns, and closes only what it is meant for |
| Server (`Server.cpp`) | acceptor, `session_counter_` | `start_accept` | SessionManager, AllowedIPManager | exceptions in the accept handler; `int` counter | the loop goes on; only listed peers get in |
| MessageBufferManager (`MessageBufferManager.cpp`) | `buffer_`, invalid-length flag | `append`, `extract_message` | read callback | frames split or joined by reads, lengths at the limits, bytes behind a bad length | what comes out is what was framed; bounded memory |
| MySqlPool (`MysqlPool.cpp`) | idle connections, capacity, mutex | constructor, `acquire`, `release` | none yet: no handler uses it | connections made outside the lock, failed log-ons, surplus connections | a connection is in one hand; a burst subsides |
| AllowedIPManager | set of addresses | `load`, `is_allowed` | Server | missing file, comments | an empty list lets nobody in |
| main | start-up order, io threads | set-up, `io.run()`, join | all | steps that fail; a thread that dies by exception | sessions are served as long as a thread runs |
| Logger, MemoryTracker, Utility, AppContext | configuration | logging, memory figures, `load_config`, `get_env_secret` | all | - | - |
| wire.proto, generated code | messages, a oneof with an owned member | accessors, serialise, size, parse, merge, copy, move, swap | compiled, not called by the program yet | merges of partial messages; ownership between heap and arenas | parser and merge agree, sizes are right, no member dangles or leaks |

## 2. The modules

| Module | Models | Used by |
|---|---|---|
| `WriteQueue` | the outgoing half of one session, with a free environment for `closed_` and `state_` | extended by `FrameWriter`; implemented by `Session` |
| `WriteQueueProofs` | theorems about `WriteQueue` and `FrameWriter` | - |
| `MessageDispatcher` | the decision about one packet, as pure operators | `Session` |
| `Session` | one session from `start()` to its destruction, with two other threads: a login that takes its nickname over, and the acceptor that gives its id to a new session; composes `WriteQueue` and `MessageDispatcher` | extended by `LoginTimeout`; run `session_overflow` |
| `LoginTimeout` | `Session` with the login timer (extends it) | run `session` |
| `SessionProofs` | theorems about `LoginTimeout`, and with it `Session`; the refinement of `WriteQueue` among them | - |
| `FrameWriter` | `WriteQueue` with the lifetime of the buffers handed to `async_write` (extends it) | runs `write_queue`, `frame_prefix` |
| `SessionManager` | the registry, its mutexes, the acceptor and the login handlers of several sessions | extended by `SessionMaintenance`; runs `session_manager`, `stale_nickname` |
| `SessionMaintenance` | `SessionManager` with threads that run the maintenance operations (extends it) | run `maintenance` |
| `SessionManagerProofs` | theorems about `SessionManager` and `SessionMaintenance` | - |
| `MessageChannel` | abstract: a FIFO channel that is cut off when the framing is broken | implemented by `MessageBuffer` |
| `MessageBuffer` | `MessageBufferManager` and the loop of the read callback | run `message_buffer` |
| `MessageBufferProofs` | theorems about `MessageBuffer`, the refinement of `MessageChannel` among them | - |
| `ConnectionOwnership` | abstract: connections with one owner | implemented by `MySqlPool` |
| `MySqlPool` | the connection pool and its clients | run `mysql_pool` |
| `MySqlPoolProofs` | theorems about `MySqlPool`, the refinement among them | - |
| `Server` | `main()`, io threads, accept loop, white list, monitor loop | run `server` |
| `ServerProofs` | theorems about `Server` | - |
| `WireFormat` | content of the generated messages | run `wire_format` |
| `WireFormatProofs` | theorems about `WireFormat` | - |
| `WireEnvelope` | ownership of the member of `Envelope`'s oneof | run `wire_envelope` |
| `WireEnvelopeProofs` | theorems about `WireEnvelope` | - |

### WriteQueue

A handler on the strand is one action. Messages are numbered in the order in which
their `post_write` handlers run, so a number is both the identity and the position
of a message. `sent` and `dropped` are history variables; `in_flight` is the
`async_write` outstanding (a sequence, so that a second one could appear).

| Definition | Code |
|---|---|
| `enqueue_write`, `Full`, `GivesUp`, `Kept`, `Enqueued` | `Session::enqueue_write` |
| `post_write` | the handler dispatched by `Session::post_write`; `idle` is read before the enqueue |
| `do_write_queue(q, fl, wip)` | `Session::do_write_queue`, parameterised by the queue the caller leaves behind |
| `write_succeeded`, `write_failed` | the completion handler, without and with an error |
| `SessionFlags` | every other writer of `closed_` and `state_` (environment; refined by `Session`) |

`generation_` is never incremented at this commit (only the commented-out `reset`
did), so the stale-callback branch is dead and left out. The 80 % warning is a log.

### Session

The strand is a FIFO of handlers (`strand`) and a program counter for the one that
runs (`strand_pc`). A handler is cut where another thread can interfere: at every
access to `closed_`, `state_` and the socket. `close_session` is an exchange on
`closed_` followed by three steps (`set_state_closed`, `close_socket`,
`remove_session`) run by whichever thread won the exchange; `close_pc` holds the
position of each thread. There are two other threads:

* `kicker` is the strand of a session that logs in under the same nickname and runs
  `register_nickname` with `nickname_mutex_` held: it posts a message
  (`kick_post_write`), closes this session (`kick_close`) and overwrites the index entry
  (`kick_overwrite`). `indexed` counts the entries that point to the session: one that
  has logged in twice may be taken over twice.
* `acceptor` runs `add_session` for a session that gets the id of this one: it takes the
  session out of its bucket (`replace`) and closes it after the unlock
  (`close_replaced`). It cannot do so before `start()` has returned, as it runs that too.

The login handler is cut into the look-up under `nickname_mutex_` (`dispatch`), the
change of the state, which no mutex guards (`on_nickname_registered`), the entry in the
index, again under the mutex (`register_nickname`), and the answer (`login_ack`). So the
state may become `Ready` between any two steps of a takeover or of a teardown.

`Released` says when the last `shared_ptr` is gone: the manager, `add_session`, handlers
on the strand, operations, tasks in `task_queue_` (whose lambdas hold the session that
holds the queue) and the thread of a takeover may have one.

`state_` is a plain enum that the threads access without synchronisation. On the
targets of this build an aligned access to it is not torn, and the race is modelled
as reading the old or the new value.

The contents of the read buffer are abstracted to the packets that come out of it:
in the dispatch loop (`strand_pc = "drain"`) the next thing is a packet
(`dispatch`), nothing more (`do_read`) or an invalid length (`invalid_length`).
Whether a nickname is in use elsewhere is an input of `dispatch`; `SessionManager`
has the real index.

boost::asio is external: a handler posted to a strand runs once, in the order of
posting and not concurrently with others; dispatching on the strand runs at once;
an operation on a closed socket completes with an error.

### MessageDispatcher

A packet is abstracted to what the code tests: whether it starts with the secret and
which of eight kinds of body follows. `Outcome` gives what `dispatch` and the
handlers do with it: close, log in, or the one answer that is posted. Exceptions
from `json::value` are modelled by their effect (the catch in `Session::do_read`
answers "Message parsing failed" and goes on).

### SessionManager

Sessions are reduced to id, nickname and `closed_`. Threads are the strands of the
sessions and the acceptor. The acceptor makes a session (`construct_session`, which
fixes its `last_alive_time_` in `SessionMaintenance`), puts it in its bucket
(`add_session`), closes the session it displaced (`add_session_unlock`) and starts the
new one. A critical section that calls nothing is one action; `add_session` and
`register_nickname`, which call `close_session`, are several, with the owners of the
mutexes as state. Ids are taken modulo `IdSpace`, the number of values of `int`.
`nickname_index_` holds weak pointers: an entry counts only while its session is
`alive`, and `destroy` models the last `shared_ptr` going away.

Threads other than the acceptor and the strands are `Cleaners`; the runs of
`SessionManager` have none, that of `SessionMaintenance` one.

### MessageBuffer

Bytes are digits of radix `Radix`, and a length prefix is a number of four digits, so
that the length check is arithmetic, as in the code. `append(n)` is one completion of
`async_read_some` with `n` bytes, `extract_message` one turn of the callback's loop.
The peer sends frames and at some point may send a length that is 0 or too large,
followed by bytes that may look like a frame. `4 + len` cannot overflow: `len` is at
most 4096 when it is added.

### LoginTimeout

`start()` runs on the acceptor's thread, so `start_login_timeout` may come after the
strand has read and dispatched packets (`starting`). `expire` posts the handler, from
then on a cancel has no effect on it. `timeout_started` says whether the call in
`start()` is there; as shipped it is commented out. The initial states have both
values, so one run covers the program as it is and with the call restored.

### FrameWriter

A write in flight reads two buffers, prefix and message, in this order; any number of
them may be read while `do_write_queue` is still running (`QueueStep`), the others
later (`transfer`). A buffer is dangling when its owner is gone: the stack frame, or
the entry of `write_queue_`. Reading one is undefined and modelled as right or wrong
bytes.

### SessionMaintenance

A cleaner runs one operation at a time. A traversal visits one shard after the other
under its mutex; the callback and the closing of what was selected happen outside.
`close_session` and `remove_session` are the actions of `SessionManager`, run by the
cleaner's thread. `last_alive` is what `last_alive_time_` holds; it is set when the
session is made, and time may pass before the session is registered. `InactiveGone`
therefore speaks of the sessions that were registered when the sweep was called.
`unregister_nickname` is called for a session that was closed, as the comments of
`register_nickname` have it. The program calls none of these operations at this commit;
the module says what switching them on would do.

### MySqlPool

`main` holds the mutex through the constructor. `new_connection` succeeds or fails at
will. A client gives its connection back or loses it with its `unique_ptr`. The mutex
is free between actions except in the constructor, as the critical sections call
nothing that waits.

### Server

`ready` is the queue of handlers of the `io_context`, `ended` the threads whose
`io.run()` was left by an exception. The contents of `allowed_ips.txt` and the number
of cores are chosen freely. Of a session only the handlers that its strand wants to
run are kept, to see whether somebody runs them.

### WireFormat and WireEnvelope

A serialised message is a sequence of fields with number, announced size and body.
There is one operator per table, size function, serialiser and merge function of
`wire.pb.cc`. A length is a varint of one to five bytes of `VarintRadix` values each
(128 in the library). `WireFormat` drives them by a program that edits a message, writes it
several times to one stream and reads the stream back. `WireEnvelope` leaves the
content out and keeps where each object lives (heap or arena) and who points to it.
`set_allocated` takes what the caller holds on the heap or points to in an arena; an
object of another arena than the Envelope's is copied. `Holders` keeps the roles apart
in which an object is held, so that one in two roles counts as owned twice.
The interpretation of the tables, map entries on the wire and the arena are the
protobuf library's and marked external.

## 3. The runs

| Run | Module | Checks | Shows |
|---|---|---|---|
| `write_queue` | `FrameWriter` | `TypeOK`, `SingleWriter`, `InOrder`, `ExactUntilOverflow`, `NoStall`, `OneLostPerDrop`, `BodyIntactUntilOverflow` | the queue is correct through overflow, errors and flags changed at any time; without overflow the text being written stays owned until the write is over; with overflow no more is lost than is dropped |
| `session` | `LoginTimeout` | `TypeOK`, `OneReader`, `CloseOnce`, `SilentUntilSecret`, `WriteQueueRefined`, `TimeoutSparesLogin`, `ClosedIsReleased`, `LogsInOrCloses` | one session with three threads and its timer; the whole session implements `WriteQueue`; the timeout races the login safely; a closed session is let go |
| `message_buffer` | `MessageBuffer` | `TypeOK`, `BufferBounded`, `Framing`, `NothingHeldBack` | the framing implements `MessageChannel` (`Framing`), its fairness included (`NothingHeldBack`) |
| `session_manager` | `SessionManager` | `TypeOK`, `NicknameOwner`, `TrackedUntilWrap`, `OperationsReturn` | the registry with racing logins, closes and accepts, without deadlock |
| `maintenance` | `SessionMaintenance` | `NicknameOwner`, `UnauthBounded`, `InactiveGone`, `OnlyUnregisterHangs` | the maintenance operations keep the index right and close what they should; one of them hangs, and nothing but that one |
| `mysql_pool` | `MySqlPool` | `TypeOK`, `OneHand`, `BurstSubsides`, `Owned`, `GivesBack` | the pool implements `ConnectionOwnership`, subsides and never blocks a release on a log-on |
| `server` | `Server` | `ListedOnly`, `OneThreadLost`, `SessionsServed` | the process from start to end |
| `wire_format` | `WireFormat` | `ParsedIsMerged`, `SizesAgree`, `CopiesEqual` | parser, merge, size and copy agree |
| `wire_envelope` | `WireEnvelope` | `MemberAlive`, `OneOwner` | no dangling, shared or leaked member |

Three more runs are expected to violate their one property; section 4 has what they
show: `session_overflow` (`Session`, `SessionOverflow.cfg`, `ClosedMeansTornDown`),
`stale_nickname` (`SessionManager`, `SessionManagerStale.cfg`, `InUseMeansUsed`) and
`frame_prefix` (`FrameWriter`, `FrameWriterPrefix.cfg`, `PrefixIntact`).

### Bounds

* `write_queue`: `MaxWriteQueueSize` 3, `OverflowLimit` 2, `MaxPosts` 7: the queue
  fills, overflows once and recovers, overflows twice in a row and gives up, and goes
  on after that. The shipped values are 100 and 10. The proofs cover all values of
  the capacity from 2 on. With a capacity of 1 the drop would empty the queue under
  the write in flight and the completion would pop an empty `std::queue`;
  `WriteQueueConfig` excludes it.
* `session`: `MaxPackets` 2: a login with a packet before or after it, in the same read or
  in a later one, two logins, or a login behind a packet that closed the session; each of
  them with takeovers and a replacement at any point. With `MaxWriteQueueSize` 2 and
  `OverflowLimit` 1 the answers and the message of a takeover make the queue overflow and
  give up on a session that is still open; counting overflows in a row is the matter of
  `write_queue`, and the proofs hold for any number of packets and overflows. `MaxPosts` 7
  is above the number of answers that the packets, the takeovers they allow and the
  timeout can produce, so it never cuts a behaviour off. `session_overflow` has four
  packets, `OverflowLimit` 2 and `MaxPosts` 12.
* `MaxTaskQueue` 2: read tasks are the only tasks and `read_pending_` admits one at a
  time, so the queue never holds more than one and every value from 2 on behaves alike.
* `NumSessions` 3, `Nicknames` 2, `MaxLogins` 3: three sessions race for a nickname,
  or one holds two. `IdSpace` 2 makes the id of the third session come round to the
  first one's; `ShardCount` 2 gives two mutexes.
* `Radix` 2, `MaxPacketSize` 2, `ReadSize` 3, `MaxFrames` 2: prefixes from 0 to 15,
  frames shorter and longer than a read, two frames in one read, a frame in three
  reads, cuts inside a prefix, and a frame-like tail behind a bad length. The proofs
  cover all values.
* `SessionMaintenance`: two sessions, one nickname, two logins, one operation that may
  run beside everything else: a takeover, or a login or close between the look and the
  close. `MaxIdle` 0 and a clock of two values make a session old or young.
* `MySqlPool`: `Capacity` 2 with three clients and five connections, so that the pool
  is empty, and full, with a client still to come. `Connections` is the number of
  connections that can be open at a time (capacity plus clients), so it bounds nothing.
* `Server`: 1, 2 or (for 0 cores) 3 threads, three connections, every subset of five
  kinds of line.
* `WireFormat`: strings `""` and `"abcde"` with `VarintRadix` 5, so that the length of a
  string, an entry or a member takes one byte or more; three messages and four edits:
  the same member twice, a change of member, a key that comes again, empty keys and
  values, unknown fields on both levels. `WireEnvelope`: two Envelopes, one arena and
  the heap, two of the three kinds of member, four objects.

Deadlock checking is off where the system may stop: a session that is released, a
server whose inputs are used up or whose threads have ended, a closed connection.
`OperationsReturn`, `OnlyUnregisterHangs`, `ClosedIsReleased`, `NothingHeldBack` and
`SessionsServed` take its place.

### Fairness

* `LoginTimeout`: weak fairness of the strand, of the threads inside a takeover or
  `add_session` (neither of which has to begin), of `start`, and of the completion of
  operations on a *closed* socket. The io threads run whatever is ready, and asio
  completes the operations of a closed socket. Nothing is assumed of the peer: reads and
  writes on an open socket may never complete. The timer of a running `io_context`
  expires, and `start()` goes on to start it.
* `SessionManager`: weak fairness of every thread that is inside an operation. A
  `std::mutex` is not fair; the bound on logins means that it cannot be taken for ever
  by others, so weak fairness suffices. `SessionMaintenance` adds the same for the
  cleaners.
* `MessageBuffer`: TCP brings the bytes that were sent, and the handler runs.
* `MySqlPool`: strong fairness of `release`, since a `std::mutex` may pass a waiter
  over. Nothing is assumed of `acquire` or of log-ons, which may hang.
* `Server`: some thread in `io.run()` runs the next ready handler.

## 4. Findings

Three disagreements between the code and what it says of itself have a run that shows
them (PROJECT.json quotes the lines):

1. **Repeated overflow does not close the session** (`session_overflow`). Line 264 only
   sets `closed_`, which turns every later `close_session` into a no-op: the socket
   stays open and the session stays registered. The log says that the session ends
   (263).
2. **A stale nickname** (`stale_nickname`). A second login under another nickname leaves
   the first entry in the index for as long as the session exists; others are told
   "already in use".
3. **The length prefix is read from a dead stack frame** (`frame_prefix`). `len_buf` is
   local to `do_write_queue` (126, 131); unless the socket takes it at once,
   `async_write` reads it after the return.

Other observations. Where a property is named, it states what still holds, and stating
more than that fails:

* `OneLostPerDrop`: on overflow `enqueue_write` (258) pops the message that is being
  written. It is sent all the same, and its completion handler pops the next message,
  which nobody sent.
* `BodyIntactUntilOverflow`: the completion handler does not hold the message (137), the
  queue does; the same pop frees it while it is being written.
* `ClosedIsReleased`: the loop over the messages of one read (333) does not look at the
  state after a message closed the session; a login later in the same read sets it to
  `Ready` again. So does a login whose session is being closed by a takeover or by
  `add_session` on another thread. The session is released all the same.
* `TrackedUntilWrap`: when the `int` of the session ids wraps, `add_session` closes the
  session it displaces, whose `remove_session` erases the new session with the same id.
* `OneThreadLost`: `remote_endpoint()` (`Server.cpp` 23) throws if the peer is gone;
  `start_accept()` (50) is skipped, that thread ends, and nobody is accepted any more.
* `LogsInOrCloses`: the call of `start_login_timeout` (47) is commented out, so as
  shipped a silent peer keeps its session.
* `OnlyUnregisterHangs`: `unregister_nickname` locks `nickname_mutex_` twice
  (`SessionManager.cpp` 103, 111, 133).
* `InactiveGone`: the inactivity sweep goes by the age of the session, as nobody calls
  `update_alive_time`. A session that is made before the sweep and registered in a shard
  that the sweep has left is not closed, however old it is by then.
* `UnauthBounded`: the sweep of unauthenticated sessions may close one that has logged in
  between lines 97 and 113 of `DataHandler.cpp`.
* `load_config` is outside the try block (`DBMiddleWareApplication.cpp` 34), and "Pool
  ready" is logged with the configured number even if slots failed.
* `close_session` closes the socket on the caller's thread (288), which after a takeover
  is not the strand; a boost socket is not safe for that.

The operations of `SessionMaintenance` are not called by the program at this commit.

## 5. Proofs

Eight modules hold theorems; every one is about a specification for all values of its
constants, under the named assumption of the module that declares them. TLC evaluates
these assumptions in every run. Every safety invariant, the action property and the
refinements of all passing runs are proved; liveness is not. In each proof the step that an
action preserves the invariant is a step or a lemma of its own.

| Module | Theorem | States | Assumption |
|---|---|---|---|
| `WriteQueueProofs` | `TypeCorrect`, `SingleWriterHolds`, `InOrderHolds`, `NoStallHolds`, `ExactHolds`, `OneLostHolds` | `Spec => []` of `TypeOK`, `SingleWriter`, `InOrder`, `NoStall`, `ExactUntilOverflow`, `OneLostPerDrop` | `WriteQueueConfig`: the capacity is at least 2 |
| | `BodyIntactHolds` | `FSpec => []BodyIntactUntilOverflow` | the same |
| `SessionProofs` | `SessionInvHolds`, `TypeCorrect`, `OneReaderHolds`, `CloseOnceHolds`, `SilentHolds` | `LSpec => []` of `SessionInv`, `TypeOK`, `OneReader`, `CloseOnce`, `SilentUntilSecret` | `SessionConfig`: capacity at least 2, `MaxPosts > 2 * MaxPackets` |
| | `TimeoutSparesLoginHolds` | `LSpec => TimeoutSparesLogin` (an action property) | |
| | `WriteQueueRefinedHolds` | `LSpec => WriteQueueRefined` | |
| `SessionManagerProofs` | `ManagerInvHolds`, `TypeCorrect`, `NicknameOwnerHolds`, `TrackedHolds` | `Spec => []` of `ManagerInv`, `TypeOK`, `NicknameOwner`, `TrackedUntilWrap` | `SessionManagerConfig`: the kinds of thread are apart |
| | `MaintenanceInvHolds`, `NicknameOwnerKept`, `UnauthBoundedHolds`, `InactiveGoneHolds` | `MSpec => []` of `MInv`, `NicknameOwner`, `UnauthBounded`, `InactiveGone` | with `SessionMaintenanceConfig` |
| | `NoCircleHolds`, `NoCircleButHolds` | `Spec => []NoCircle`, `MSpec => []NoCircleBut` | the same |
| `MessageBufferProofs` | `TypeCorrect`, `Bounded`, `FramingInvHolds` | `Spec => []` of `TypeOK`, `BufferBounded`, `FramingInv` | `MessageBufferConfig`: natural numbers, the radix positive |
| | `FramingHolds` | `Spec => Framing` | |
| `MySqlPoolProofs` | `TypeCorrect`, `InOneHand`, `BurstSubsidesHolds` | `Spec => []` of `TypeOK`, `OneHand`, `BurstSubsides` | `MySqlPoolConfig`: finitely many clients; `main`, `none`, clients, connections apart |
| | `PoolRefines` | `Spec => Owned` | |
| `ServerProofs` | `ServerInvHolds`, `TypeCorrect`, `ListedOnlyHolds`, `OneThreadLostHolds`, `AlwaysServedHolds` | `Spec => []` of `ServerInv`, `TypeOK`, `ListedOnly`, `OneThreadLost`, `AlwaysServed` | `ServerConfig`: the names of the handlers differ |
| `WireFormatProofs` | `ParsedIsMergedHolds`, `SizesAgreeHolds`, `CopiesEqualHolds` | `Spec => []` of `ParsedIsMerged`, `SizesAgree`, `CopiesEqual` | `WireFormatConfig`: `""` is a string, strings have a length, a varint's byte has two values or more |
| | `ParseMerges` | parsing what `e` is serialised to into `x` gives `MergeEnvelope(x, e)`, for all messages and map orders | |
| `WireEnvelopeProofs` | `EnvelopeInvHolds`, `MemberAliveHolds`, `OneOwnerHolds` | `Spec => []` of `EnvelopeInv`, `MemberAlive`, `OneOwner` | `WireEnvelopeConfig`: `heap` and `none` are no arena and no object |

**WriteQueue.** The theorems follow from one inductive invariant, `WriteInv`:

* `InOrder` alone is not inductive, since it says nothing of the messages still to be
  sent. `Ordered` says that `sent`, the write in flight and the rest of the queue are
  increasing and bounded by `posted`. After a drop on overflow the front of the queue
  is no longer the message in flight, so the link between the two has to be an
  inequality.
* `ExactUntilOverflow` needs that, before a drop, the message in flight *is* the
  front of the queue (`Exact`).
* `SingleWriter` needs that a drop never empties the queue, which is where the
  capacity of at least 2 is used, and that only `post_write` on an empty queue starts
  a write.
* `NoStall` needs `ClosedFlag` (`state_ = Closed` implies `closed_`), because
  `do_write_queue` returns early on `state_` while the property speaks of `closed_`.

`OneLostPerDrop` compares cardinalities and is not inductive: a drop of the message in
flight loses nothing yet, and its completion handler loses a message without a drop.
`LossInv` counts the messages that are neither sent nor queued instead, the one in flight
among them if it was dropped; that handler exchanges one of these for another.

**FrameWriter** (in `WriteQueueProofs`). Every step does to the queue what `WriteQueue`
does, so `WriteInv` holds. Its part `Exact` gives the buffer being read an owner as long
as nothing was dropped.

**Session.** `SessionInv` has a part for each argument:

* `CloseInv`: `CloseOnce`, `closed_` is set before `state_` follows, and a read is aborted
  only after a close.
* `ReadInv`: `OneReader`, and `read_pending_` is released by the time the callback calls
  `do_read`, which would otherwise drop the read token.
* `LoginInv`: only a login with the secret registers, only a registered session has
  entries in the index and can be taken over, and there is one timer at most;
  `SilentUntilSecret` and `TimeoutSparesLogin` follow.
* `NewInv`: before `start()` nothing is under way.
* `PostInv`: what was posted and what may still be posted (by the handler that runs, the
  takeover, the timer, handlers on the strand) is at most twice the packets received, and
  one. Without it the refinement fails for a reason that is not the program's: the guard
  `posted < MaxPosts` of `WriteQueue`, a bound of the model, could stop a step that
  `Session` makes. This is why `SessionConfig` asks for `MaxPosts > 2 * MaxPackets`.

`WriteQueueRefinedHolds` makes the theorems about `WriteQueue` ones about a session: tlapm
cannot cite a theorem of an instantiated module, so this last step is not a theorem here,
but it is nothing more than `WQ!Spec => []WQ!P` with `P` from the table. The behaviours of
`Session` are those of `LoginTimeout` without the call of `start_login_timeout`.

**SessionManager.** `ManagerInv` has, besides the types:

* `IdInv` (ids are handed out in order, so two sessions have different ids until the
  counter comes round) and `TrackInv` (a session is in its bucket until `closed_` is set),
  for `TrackedUntilWrap`. `RefInv` says that maps and threads refer to accepted sessions.
* `LoginInv` for `NicknameOwner`: where each strand is in the login handler, and
  `Takeover`. Between the look at the index and the write of the entry, whoever is there
  is closed or about to be, by the thread that has `nickname_mutex_`.

For the maintenance operations `MInv` adds one part per cleaner: `SweepOf` (every open
session is young, in a shard still to come, or about to be closed) and `UnauthOf` (all but
a set `R` of at most `MaxUnauth` sessions are about to be closed; `R` is fixed when the
oldest are chosen). `InactiveGone` holds until the ids come round, as `TrackedUntilWrap`
does: a session that has lost its bucket is not found by the sweep.

`NoCircle` is the safety behind `OperationsReturn`, read off who waits for whom
(`WaitsFor`). A thread that waits at the start of an operation holds nothing, so it is
never waited for and cannot be part of a circle; `WaitsFor` leaves it out. `LockInv`
says who holds what: a shard mutex only `add_session`, between filling the bucket and
the unlock, before it closes the session it displaced; `nickname_mutex_` a login that
has decided to take a name over. So who is waited for is inside an operation, and a
chain of waiting threads has two links at most, from a login to a takeover that is about
to remove its victim, and from there to `add_session` before its unlock. In
`NoCircleBut` the sweeps wait for a shard and the clean-up for `nickname_mutex_`;
`CleanerLocks` says that a cleaner holds that mutex only between lines 111 and 133 of
`SessionManager.cpp`. In that state (`SelfDeadlock`) it waits for itself, and nothing is
claimed of the others.

**MessageBuffer.** `BufferBounded` is inductive together with the type invariant: a read
adds at most `ReadSize` bytes to less than a frame, and the loop stops only when less than
a frame is left, because `ValidLength` caps the length that it waits for.

`FramingInv`, for the refinement, says what is in the bytes not yet extracted (`buffer`
followed by `wire`): the frames of the messages sent and not delivered, and behind them
nothing, or a bad length. Such a statement asks for recursion over the frames; here a
function `p` gives the position of each, `FrameAt` says what is between two positions, and
the invariant has an `\E p`. Sending extends `p`, a read leaves the stream as it is,
extracting a message shifts `p` (`DropFrame`). The two cases that matter are `NextFrame`
(with a message still to deliver the length found is its length, so it is valid) and
`NoFrame` (without one, four bytes in the buffer are the peer's bad length): a stream is
never cut at the wrong place and a session never closed for a good frame.

**MySqlPool.** `Inv` is the types (`Places`, which also says that a client that is not
`using` holds nothing) and `OneHand`. The refinement uses it in every step: the owner
of a connection under the mapping is a `CHOOSE` among the clients, which is determined
only because one client has it. `BurstSubsides` needs `Counts`: while the constructor
runs, the pool holds the connections it has counted, so it is never above its capacity.

**Server.** `ServerInv` adds to the three properties that nothing runs before the threads
do (`NotStarted`) and that there is one accept handler at most, and none once the accept
loop is lost (`AcceptOnce`); without that a second exception could end a second thread.
`AlwaysServed` is the safety behind `SessionsServed`: with two threads or more `main` never
leaves `join()` and a thread is left in `io.run()`.

**WireFormat.** What parsers, size functions and tables compute is a matter of induction
over data. The induction theorems of the library cannot be used, as they take an
operator; `SetInduction` states induction for a *set* of numbers and follows from the
least element of its complement. The parsers are folds: `Leads` says that the fields of
a sequence lead from one message to another through messages in between, and each fold
is shown to be the end of such a path, so that parsing two sequences one after the other
is parsing both. Each nesting level has its lemmas (entry, member, Envelope).
`EnvelopeParsed` puts them together; its case of interest is a member of the kind that
is already there, which is merged and not replaced, with the map's later keys winning.
It needs both messages to be well-formed, which is what `WireInv` (messages, `merged`
and stream are well-formed, and `ParsedIsMerged`) adds. `SizesAgree` compares a sum over
the map's entries with the bytes of a sequence of fields, written in an order that the
map chooses: `WeighOrders` shows that every order weighs the same. `CopiesEqual` is
`ParseMerges` with an empty first message.

**WireEnvelope.** `Owned` is a predicate of the memory, the arenas and what the caller
holds: members exist, with the right type and place; no two Envelopes share one; what the
caller holds is no Envelope's; nothing on the heap is without an owner. It is stated for
any memory, so each operator (`Set`, `Delete`, `ClearPayload`, ...) has one lemma and an
accessor is a chain of them.

### Only model-checked

Liveness, which is out of the prover's reach, as is `ENABLED`: `ClosedIsReleased`,
`LogsInOrCloses`, `OperationsReturn`, `OnlyUnregisterHangs`, `GivesBack`, `SessionsServed`,
`NothingHeldBack`. Of `OperationsReturn`, `OnlyUnregisterHangs` and `SessionsServed` the
safety they rest on is proved (`NoCircle`, `NoCircleBut`, `AlwaysServed`).

## 6. Not modelled

* `retry_timer_`, `generation_`, `active_`, `released_`, `release_callback_`, `zone_id_`
  and the commented-out `reset`: nothing ever changes or reads them.
* `find_session`, `session_count`, `get_total_session_count`: they only read, under the
  mutex that the writers take.
* SQL text (nothing executes it), logging, memory figures, the Slack alert.
* Corruption inside boost after a data race on a socket: `Session` goes on with either
  outcome of the operation.
* Of the generated code: descriptors, reflection, registration, cached sizes and
  presence accessors that only read.

## 7. Plan

What is worth doing when the code or the tools change:

1. The liveness properties, with a prover for `ENABLED`. The safety they rest on is there;
   what is missing is a measure that every step of an operation lowers.
2. The stale-callback branch of `WriteQueue` if `generation_` comes to be incremented.
3. The maintenance operations as part of the program if they are switched on:
   `unregister_nickname` has to be repaired first.
