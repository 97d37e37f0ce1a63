------------------------------ MODULE Session ------------------------------
(***************************************************************************)
(* One Session of the server (Session.cpp), from start() to the end of its *)
(* life: the read loop and its task queue, the dispatch of the packets of  *)
(* a read, the write queue, and close_session, which may run on the        *)
(* strand, on the thread of another session whose login takes over the     *)
(* nickname (SessionManager::register_nickname), or on the acceptor's when *)
(* a new session gets this one's id (SessionManager::add_session).         *)
(*                                                                         *)
(* Handlers of the session run one at a time on its strand, in the order   *)
(* in which they were posted (boost::asio, external).  A handler is cut    *)
(* into actions where another thread can interfere: at every access to     *)
(* closed_, state_ and socket_, which the threads share without a lock.    *)
(* state_ is a plain enum; on the targets of this build an aligned access  *)
(* to it is not torn, so the race reads the old or the new value.          *)
(*                                                                         *)
(* LoginTimeout.tla adds start_login_timeout, whose call in start() is     *)
(* commented out.  Left out: generation_, active_, released_, retry_timer_ *)
(* (never used), the catch of std::exception around the read callback      *)
(* (only bad_alloc), and an earlier session with the same id, whose        *)
(* removal may empty this one's bucket (SessionManager.tla has that).      *)
(***************************************************************************)
EXTENDS Naturals, Sequences, FiniteSets, MessageDispatcher

CONSTANTS MaxWriteQueueSize, OverflowLimit,  \* config, see WriteQueue
          MaxTaskQueue,                      \* config max_task_queue
          MaxPackets,    \* bound on the packets the peer sends
          MaxPosts       \* bound of WriteQueue

(***************************************************************************)
(* The bound of WriteQueue is above any number of messages: a packet is    *)
(* answered once, a login also makes room for one duplicate-login message, *)
(* and the login timeout posts one.                                        *)
(***************************************************************************)
ASSUME SessionConfig ==
    /\ MaxWriteQueueSize \in Nat
    /\ MaxWriteQueueSize >= 2
    /\ OverflowLimit \in Nat
    /\ MaxTaskQueue \in Nat
    /\ MaxPackets \in Nat
    /\ MaxPosts \in Nat
    /\ MaxPosts > 2 * MaxPackets

VARIABLES closed, state, posted, write_queue, write_in_progress,
          overflow_count, in_flight, sent, dropped,   \* as in WriteQueue
          socket,               \* "open", "closed"
          tracked,              \* the SessionManager holds the session
          replaced,             \* it is replaced_session of add_session
          nickname_registered,  \* nickname_registered_
          indexed,              \* entries of nickname_index_ that point to it
          read_pending,         \* read_pending_
          task_queue,           \* length of task_queue_; all tasks are reads
          task_running,         \* task_running_
          reading,              \* async_read_some operations outstanding
          strand,               \* handlers posted to the strand
          strand_pc,            \* what the running handler does next
          close_pc,             \* next step of close_session, per thread
          kick_pc,              \* a login elsewhere that takes the nickname
          received,             \* packets received so far
          secret_seen           \* history: some packet carried the secret

writeVars == <<posted, write_queue, write_in_progress, overflow_count,
               in_flight, sent, dropped>>
readVars  == <<read_pending, task_queue, task_running, reading>>
managerVars == <<tracked, replaced>>
loginVars == <<nickname_registered, indexed>>
inputVars == <<received, secret_seen>>
vars == <<closed, state, writeVars, socket, managerVars, loginVars, readVars,
          strand, strand_pc, close_pc, kick_pc, inputVars>>

WQ == INSTANCE WriteQueue

Thread == {"strand", "kicker", "acceptor"}

Handler == {"post_task", "post_write", "write_ok", "write_error",
            "read_data", "read_failed", "read_aborted",
            "login_timeout"}     \* the last one in LoginTimeout only

\* The constructor, and add_session in Server::start_accept.
Init ==
    /\ WQ!Init
    /\ socket = "open"
    /\ tracked = TRUE
    /\ replaced = FALSE
    /\ nickname_registered = FALSE
    /\ indexed = 0
    /\ read_pending = FALSE
    /\ task_queue = 0
    /\ task_running = FALSE
    /\ reading = 0
    /\ strand = <<>>
    /\ strand_pc = "new"
    /\ close_pc = [t \in Thread |-> "none"]
    /\ kick_pc = "none"
    /\ received = 0
    /\ secret_seen = FALSE
-----------------------------------------------------------------------------
\* Mutant of call_close_session: closed_ is set, but not tested.
call_close_session_unguarded(t) ==
    /\ closed' = TRUE
    /\ close_pc' = [close_pc EXCEPT ![t] = "set_state"]

(***************************************************************************)
(* close_session, called by thread t: only the first caller gets past the  *)
(* exchange on closed_ and goes through the remaining steps.               *)
(***************************************************************************)
call_close_session(t) ==
    /\ closed' = TRUE
    /\ close_pc' = IF closed THEN close_pc
                             ELSE [close_pc EXCEPT ![t] = "set_state"]

\* Mutant of set_state_closed: also empties the write queue.
set_state_closed_clears_queue(t) ==
    /\ close_pc[t] = "set_state"
    /\ state' = "Closed"
    /\ write_queue' = <<>>
    /\ close_pc' = [close_pc EXCEPT ![t] = "close_socket"]
    /\ UNCHANGED <<closed, posted, write_in_progress, overflow_count,
                   in_flight, sent, dropped, socket, managerVars, loginVars,
                   readVars, strand, strand_pc, kick_pc, inputVars>>

set_state_closed(t) ==
    /\ close_pc[t] = "set_state"
    /\ state' = "Closed"
    /\ close_pc' = [close_pc EXCEPT ![t] = "close_socket"]
    /\ UNCHANGED <<closed, writeVars, socket, managerVars, loginVars,
                   readVars, strand, strand_pc, kick_pc, inputVars>>

close_socket(t) ==
    /\ close_pc[t] = "close_socket"
    /\ socket' = "closed"
    /\ close_pc' = [close_pc EXCEPT ![t] = "remove_session"]
    /\ UNCHANGED <<closed, state, writeVars, managerVars, loginVars, readVars,
                   strand, strand_pc, kick_pc, inputVars>>

remove_session(t) ==
    /\ close_pc[t] = "remove_session"
    /\ tracked' = FALSE
    /\ close_pc' = [close_pc EXCEPT ![t] = "none"]
    /\ UNCHANGED <<closed, state, writeVars, socket, replaced, loginVars,
                   readVars, strand, strand_pc, kick_pc, inputVars>>

CloseStep(t) == set_state_closed(t) \/ close_socket(t) \/ remove_session(t)
-----------------------------------------------------------------------------
(***************************************************************************)
(* The read loop.  A read task in task_queue_ starts one async_read_some   *)
(* when run_next_task takes it.                                            *)
(***************************************************************************)
\* The strand is free and its next handler is h, which is taken off.
Take(h) ==
    /\ strand_pc = "idle"
    /\ close_pc["strand"] = "none"
    /\ strand # <<>>
    /\ Head(strand) = h
    /\ strand' = Tail(strand)

\* The running handler is at pc and not inside close_session.
At(pc) == strand_pc = pc /\ close_pc["strand"] = "none"

\* Mutant of push_task: the task that is run at once also stays queued.
push_task_without_pop ==
    IF task_queue >= MaxTaskQueue
      THEN /\ call_close_session("strand")
           /\ UNCHANGED <<task_queue, task_running, reading>>
      ELSE /\ task_running' = TRUE
           /\ task_queue' = task_queue + 1
           /\ reading' = IF task_running THEN reading ELSE reading + 1
           /\ UNCHANGED <<closed, close_pc>>

\* The body of post_task's handler, for a read task.
push_task ==
    IF task_queue >= MaxTaskQueue
      THEN /\ call_close_session("strand")
           /\ UNCHANGED <<task_queue, task_running, reading>>
      ELSE /\ task_running' = TRUE
           /\ IF task_running
                THEN task_queue' = task_queue + 1 /\ UNCHANGED reading
                ELSE reading' = reading + 1 /\ UNCHANGED task_queue
           /\ UNCHANGED <<closed, close_pc>>

\* Session::start, on the thread of the acceptor: do_read from outside the
\* strand, so post_task posts.
start ==
    /\ strand_pc = "new"
    /\ strand_pc' = "idle"
    /\ read_pending' = TRUE
    /\ strand' = Append(strand, "post_task")
    /\ UNCHANGED <<closed, state, writeVars, socket, managerVars, loginVars,
                   task_queue, task_running, reading, close_pc, kick_pc,
                   inputVars>>

post_task ==
    /\ Take("post_task")
    /\ push_task
    /\ UNCHANGED <<state, writeVars, socket, managerVars, loginVars,
                   read_pending, strand_pc, kick_pc, inputVars>>

\* Mutant of read_callback: release_read is missing.
read_callback_no_release(result) ==
    /\ Take(result)
    /\ IF result = "read_failed" THEN call_close_session("strand")
                                 ELSE UNCHANGED <<closed, close_pc>>
    /\ strand_pc' = IF result = "read_data" THEN "drain" ELSE "run_next_task"
    /\ UNCHANGED <<state, writeVars, socket, managerVars, loginVars, readVars,
                   kick_pc, inputVars>>

\* The read callback, up to the first message.
read_callback(result) ==
    /\ Take(result)
    /\ read_pending' = FALSE
    /\ IF result = "read_failed" THEN call_close_session("strand")
                                 ELSE UNCHANGED <<closed, close_pc>>
    /\ strand_pc' = IF result = "read_data" THEN "drain" ELSE "run_next_task"
    /\ UNCHANGED <<state, writeVars, socket, managerVars, loginVars,
                   task_queue, task_running, reading, kick_pc, inputVars>>

\* No further message, the buffer is sound: do_read, called on the strand.
do_read ==
    /\ At("drain")
    /\ IF state # "Closed" /\ ~read_pending
         THEN read_pending' = TRUE /\ push_task
         ELSE UNCHANGED <<readVars, closed, close_pc>>
    /\ strand_pc' = "run_next_task"
    /\ UNCHANGED <<state, writeVars, socket, managerVars, loginVars, strand,
                   kick_pc, inputVars>>

\* No further message because of an invalid length: close_session and leave
\* the callback without run_next_task.
invalid_length ==
    /\ At("drain")
    /\ call_close_session("strand")
    /\ strand_pc' = "idle"
    /\ UNCHANGED <<state, writeVars, socket, managerVars, loginVars, readVars,
                   strand, kick_pc, inputVars>>

\* Mutant of run_next_task: a task that is queued when the session is closed
\* stays in the queue.
run_next_task_unless_closed ==
    /\ At("run_next_task")
    /\ strand_pc' = "idle"
    /\ IF task_queue = 0 \/ state = "Closed"
         THEN task_running' = FALSE /\ UNCHANGED <<task_queue, reading>>
         ELSE /\ task_queue' = task_queue - 1
              /\ reading' = reading + 1
              /\ UNCHANGED task_running
    /\ UNCHANGED <<closed, state, writeVars, socket, managerVars, loginVars,
                   read_pending, strand, close_pc, kick_pc, inputVars>>

run_next_task ==
    /\ At("run_next_task")
    /\ strand_pc' = "idle"
    /\ IF task_queue = 0
         THEN task_running' = FALSE /\ UNCHANGED <<task_queue, reading>>
         ELSE /\ task_queue' = task_queue - 1
              /\ reading' = reading + 1
              /\ UNCHANGED task_running
    /\ UNCHANGED <<closed, state, writeVars, socket, managerVars, loginVars,
                   read_pending, strand, close_pc, kick_pc, inputVars>>
-----------------------------------------------------------------------------
(***************************************************************************)
(* One message of a read is dispatched.  Its answer, if any, is posted     *)
(* from the strand, so the handler of post_write runs at once.  A login    *)
(* looks the nickname up under nickname_mutex_ and goes on without it.     *)
(***************************************************************************)
nicknameMutexFree == kick_pc = "none"

dispatch(p, in_use) ==
    LET outcome == Outcome(nickname_registered, in_use, p) IN
    /\ At("drain")
    /\ received < MaxPackets
    /\ received' = received + 1
    /\ secret_seen' = (secret_seen \/ p.secret)
    /\ \/ /\ outcome = "close"
          /\ call_close_session("strand")
          /\ UNCHANGED <<state, writeVars, strand_pc>>
       \/ /\ outcome \in {"login", "nickname_in_use"}
          /\ nicknameMutexFree
          /\ strand_pc' = IF outcome = "login" THEN "on_nickname_registered"
                                               ELSE "login_ack"
          /\ UNCHANGED <<closed, state, writeVars, close_pc>>
       \/ /\ outcome \notin {"close", "login", "nickname_in_use"}
          /\ WQ!post_write
          /\ UNCHANGED <<strand_pc, close_pc>>
    /\ UNCHANGED <<socket, managerVars, loginVars, readVars, strand, kick_pc>>

\* The rest of the login handler: the session is set to Ready, whatever
\* close_session has done to it meanwhile on another thread, ...
on_nickname_registered ==
    /\ At("on_nickname_registered")
    /\ nickname_registered' = TRUE
    /\ state' = "Ready"
    /\ strand_pc' = "register_nickname"
    /\ UNCHANGED <<closed, writeVars, socket, managerVars, indexed, readVars,
                   strand, close_pc, kick_pc, inputVars>>

\* ... gets an entry of the index, which did not point to it, ...
register_nickname ==
    /\ At("register_nickname")
    /\ nicknameMutexFree
    /\ indexed' = indexed + 1
    /\ strand_pc' = "login_ack"
    /\ UNCHANGED <<closed, state, writeVars, socket, managerVars,
                   nickname_registered, readVars, strand, close_pc, kick_pc,
                   inputVars>>

\* ... and the login is answered: ok, or that the nickname is in use.
login_ack ==
    /\ At("login_ack")
    /\ WQ!post_write
    /\ strand_pc' = "drain"
    /\ UNCHANGED <<socket, managerVars, loginVars, readVars, strand, close_pc,
                   kick_pc, inputVars>>
-----------------------------------------------------------------------------
\* The outgoing half, on the strand.
post_write ==
    /\ Take("post_write")
    /\ WQ!post_write
    /\ UNCHANGED <<socket, managerVars, loginVars, readVars, strand_pc,
                   close_pc, kick_pc, inputVars>>

write_ok ==
    /\ Take("write_ok")
    /\ WQ!write_succeeded
    /\ UNCHANGED <<socket, managerVars, loginVars, readVars, strand_pc,
                   close_pc, kick_pc, inputVars>>

write_error ==
    /\ Take("write_error")
    /\ WQ!write_failed
    /\ call_close_session("strand")
    /\ UNCHANGED <<socket, managerVars, loginVars, readVars, strand_pc,
                   kick_pc, inputVars>>
-----------------------------------------------------------------------------
(***************************************************************************)
(* The session object lives as long as the manager, a handler, a queued    *)
(* task or an operation in progress holds a shared_ptr to it.              *)
(***************************************************************************)
Released ==
    /\ ~tracked /\ ~replaced
    /\ strand = <<>> /\ strand_pc = "idle"
    /\ task_queue = 0 /\ reading = 0 /\ in_flight = <<>>
    /\ kick_pc = "none"
    /\ \A t \in Thread : close_pc[t] = "none"

(***************************************************************************)
(* register_nickname on the strand of another session that logs in with    *)
(* a nickname of this session, under nickname_mutex_: post_write, then     *)
(* close_session, then the index entry is overwritten.  A session that has *)
(* logged in twice has two entries, and may be taken over twice.           *)
(***************************************************************************)
kick_post_write ==
    /\ kick_pc = "none"
    /\ indexed > 0
    /\ kick_pc' = "close"
    /\ strand' = Append(strand, "post_write")
    /\ UNCHANGED <<closed, state, writeVars, socket, managerVars, loginVars,
                   readVars, strand_pc, close_pc, inputVars>>

kick_close ==
    /\ kick_pc = "close"
    /\ call_close_session("kicker")
    /\ kick_pc' = "overwrite"
    /\ UNCHANGED <<state, writeVars, socket, managerVars, loginVars, readVars,
                   strand, strand_pc, inputVars>>

kick_overwrite ==
    /\ kick_pc = "overwrite"
    /\ close_pc["kicker"] = "none"
    /\ indexed' = indexed - 1
    /\ kick_pc' = "none"
    /\ UNCHANGED <<closed, state, writeVars, socket, managerVars,
                   nickname_registered, readVars, strand, strand_pc, close_pc,
                   inputVars>>
-----------------------------------------------------------------------------
(***************************************************************************)
(* add_session on the thread of the acceptor, for a session that gets the  *)
(* id of this one: the bucket is overwritten, and after the unlock the     *)
(* session that was there is closed, unless it is closed already.          *)
(***************************************************************************)
replace ==
    /\ strand_pc # "new"
    /\ tracked
    /\ tracked' = FALSE
    /\ replaced' = TRUE
    /\ UNCHANGED <<closed, state, writeVars, socket, loginVars, readVars,
                   strand, strand_pc, close_pc, kick_pc, inputVars>>

close_replaced ==
    /\ replaced
    /\ replaced' = FALSE
    /\ call_close_session("acceptor")
    /\ UNCHANGED <<state, writeVars, socket, tracked, loginVars, readVars,
                   strand, strand_pc, kick_pc, inputVars>>
-----------------------------------------------------------------------------
(***************************************************************************)
(* Completion of the socket operations (boost::asio and the peer).  An     *)
(* operation on a closed socket fails: aborted if it was pending when the  *)
(* socket was closed, with another error if it was started later.          *)
(***************************************************************************)
read_completes(result) ==
    /\ reading > 0
    /\ result \in IF socket = "open" THEN {"read_data", "read_failed"}
                                     ELSE {"read_aborted", "read_failed"}
    /\ reading' = reading - 1
    /\ strand' = Append(strand, result)
    /\ UNCHANGED <<closed, state, writeVars, socket, managerVars, loginVars,
                   read_pending, task_queue, task_running, strand_pc,
                   close_pc, kick_pc, inputVars>>

write_completes(result) ==
    /\ in_flight # <<>>
    /\ \A i \in DOMAIN strand : strand[i] \notin {"write_ok", "write_error"}
    /\ result \in IF socket = "open" THEN {"write_ok", "write_error"}
                                     ELSE {"write_error"}
    /\ strand' = Append(strand, result)
    /\ UNCHANGED <<closed, state, writeVars, socket, managerVars, loginVars,
                   readVars, strand_pc, close_pc, kick_pc, inputVars>>
-----------------------------------------------------------------------------
ReadResult  == {"read_data", "read_failed", "read_aborted"}
WriteResult == {"write_ok", "write_error"}

RunStrand ==
    \/ CloseStep("strand")
    \/ post_task
    \/ \E r \in ReadResult : read_callback(r)
    \/ do_read
    \/ invalid_length
    \/ run_next_task
    \/ \E p \in Packet, in_use \in BOOLEAN : dispatch(p, in_use)
    \/ on_nickname_registered
    \/ register_nickname
    \/ login_ack
    \/ post_write
    \/ write_ok
    \/ write_error

RunKicker == CloseStep("kicker") \/ kick_close \/ kick_overwrite

RunAcceptor == CloseStep("acceptor") \/ close_replaced

Next ==
    \/ start
    \/ RunStrand
    \/ ~Released /\ kick_post_write
    \/ RunKicker
    \/ replace
    \/ RunAcceptor
    \/ \E r \in ReadResult : read_completes(r)
    \/ \E r \in WriteResult : write_completes(r)

Spec == Init /\ [][Next]_vars
-----------------------------------------------------------------------------
TypeOK ==
    /\ closed \in BOOLEAN
    /\ state \in WQ!SessionState
    /\ socket \in {"open", "closed"}
    /\ {tracked, replaced, nickname_registered, read_pending, task_running,
        secret_seen} \subseteq BOOLEAN
    /\ indexed \in Nat
    /\ {task_queue, reading} \subseteq 0..1
    /\ strand \in Seq(Handler)
    /\ strand_pc \in {"new", "idle", "drain", "run_next_task",
                      "on_nickname_registered", "register_nickname",
                      "login_ack", "login_timeout_close"}
    /\ close_pc \in [Thread -> {"none", "set_state", "close_socket",
                                "remove_session"}]
    /\ kick_pc \in {"none", "close", "overwrite"}
    /\ received \in 0..MaxPackets

(***************************************************************************)
(* The read loop never dies on a live session and never doubles: of the    *)
(* read task on its way to the strand, the queued task, the outstanding    *)
(* async_read_some, its completion and the running read callback there is  *)
(* at most one, and exactly one until closed_ is set.  data_ is a single   *)
(* buffer, so two reads would overwrite each other, and none would leave   *)
(* the session deaf.                                                       *)
(***************************************************************************)
ReadTokens ==
      Cardinality({i \in DOMAIN strand :
                       strand[i] \in {"post_task"} \cup ReadResult})
    + task_queue
    + reading
    + (IF strand_pc \in {"drain", "on_nickname_registered",
                         "register_nickname", "login_ack"} THEN 1 ELSE 0)

OneReader ==
    /\ ReadTokens <= 1
    /\ ~closed /\ strand_pc # "new" => ReadTokens = 1

(***************************************************************************)
(* The teardown belongs to the one thread whose exchange on closed_ came   *)
(* first, whoever else calls close_session meanwhile: it is never run      *)
(* twice or by two threads.  And it is never left out: the manager lets go *)
(* only of a session that is closed or that add_session is about to close, *)
(* and one whose closed_ is set is torn down, unless its write queue has   *)
(* overflowed (enqueue_write sets closed_ alone).                          *)
(***************************************************************************)
InTeardown == {t \in Thread : close_pc[t] # "none"}

CloseOnce ==
    /\ \A t, u \in InTeardown : t = u
    /\ \A t \in InTeardown :
          closed /\ (socket = "closed" <=> close_pc[t] = "remove_session")
    /\ socket = "closed" => closed
    /\ ~tracked => closed \/ replaced
    /\ closed => socket = "closed" \/ InTeardown # {} \/ dropped # {}

(***************************************************************************)
(* What the whole session does to its write queue is what WriteQueue       *)
(* allows, so everything proved of WriteQueue holds of a Session, with     *)
(* closed_ and state_ written from three threads.                          *)
(***************************************************************************)
WriteQueueRefined == WQ!Spec

(***************************************************************************)
(* "drop the oldest; repeatedly: close" and "FULL n times in a row,        *)
(* session ends!" (Session.cpp:255, 263): a session whose closed_ is set   *)
(* is being torn down or has been.  The code breaks this: enqueue_write    *)
(* only sets closed_, and every later close_session then returns at once.  *)
(***************************************************************************)
ClosedMeansTornDown ==
    closed => ~tracked \/ InTeardown # {}
=============================================================================
