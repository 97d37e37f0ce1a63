----------------------------- MODULE WriteQueue -----------------------------
(***************************************************************************)
(* The outgoing half of one Session: post_write, enqueue_write,            *)
(* do_write_queue and the completion handler of async_write                *)
(* (Session.cpp).  All of it runs on the session's strand, so one handler  *)
(* is one action.  Messages are numbered in the order in which their       *)
(* post_write handlers run; the contents do not matter here.               *)
(*                                                                         *)
(* closed_ and state_ belong to the whole Session and are also written by  *)
(* close_session and by the login handler, possibly on another thread:     *)
(* here those writers are the action SessionFlags, and Session.tla gives   *)
(* their real code.                                                        *)
(*                                                                         *)
(* generation_ is not modelled: nothing in the program increments it, so   *)
(* the stale-callback test of the completion handler never succeeds.       *)
(***************************************************************************)
EXTENDS Naturals, SequencesExt

CONSTANTS MaxWriteQueueSize,  \* config max_write_queue_size
          OverflowLimit,      \* config write_queue_overflow_limit
          MaxPosts            \* bound on the messages ever posted

(***************************************************************************)
(* With room for one message only, the drop of enqueue_write could empty   *)
(* the queue under a write in flight; the shipped value is 100.            *)
(***************************************************************************)
ASSUME WriteQueueConfig ==
    /\ MaxWriteQueueSize \in Nat
    /\ MaxWriteQueueSize >= 2
    /\ OverflowLimit \in Nat
    /\ MaxPosts \in Nat

VARIABLES closed,             \* closed_
          state,              \* state_
          posted,             \* messages posted so far; the last one's number
          write_queue,        \* write_queue_, oldest first
          write_in_progress,  \* write_in_progress_
          overflow_count,     \* write_queue_overflow_count_
          in_flight,          \* messages handed to async_write, not completed
          sent,               \* history: messages written to the socket
          dropped             \* history: messages discarded by enqueue_write

queueVars == <<posted, write_queue, write_in_progress, overflow_count,
               in_flight, sent, dropped>>
vars == <<closed, state, queueVars>>

SessionState == {"Handshaking", "Handshaked", "LoginWait", "Ready", "Closed"}

Init ==
    /\ closed = FALSE
    /\ state = "Handshaking"
    /\ posted = 0
    /\ write_queue = <<>>
    /\ write_in_progress = FALSE
    /\ overflow_count = 0
    /\ in_flight = <<>>
    /\ sent = <<>>
    /\ dropped = {}
-----------------------------------------------------------------------------
(***************************************************************************)
(* enqueue_write: a full queue loses its front; the OverflowLimit-th       *)
(* consecutive loss sets closed_ and discards the new message as well.     *)
(***************************************************************************)
\* Mutant of Full: off by one.
Full_off_by_one == Len(write_queue) > MaxWriteQueueSize

Full == Len(write_queue) >= MaxWriteQueueSize

GivesUp == Full /\ overflow_count + 1 >= OverflowLimit

\* Mutant of Kept: drops at the threshold of the warning.
Kept_at_warning ==
    IF Len(write_queue) + 1 >= MaxWriteQueueSize
      THEN Tail(write_queue) ELSE write_queue

Kept == IF Full THEN Tail(write_queue) ELSE write_queue

Enqueued(m) == IF GivesUp THEN Kept ELSE Append(Kept, m)

enqueue_write(m) ==
    /\ overflow_count' = IF Full THEN overflow_count + 1 ELSE 0
    /\ closed' = (closed \/ GivesUp)
    /\ dropped' = dropped \cup (IF Full THEN {Head(write_queue)} ELSE {})
                          \cup (IF GivesUp THEN {m} ELSE {})

(***************************************************************************)
(* do_write_queue, entered with queue q, with the writes fl still in       *)
(* flight and write_in_progress_ = wip.                                    *)
(***************************************************************************)
do_write_queue(q, fl, wip) ==
    /\ write_queue' = q
    /\ \/ /\ state = "Closed"
          /\ in_flight' = fl
          /\ write_in_progress' = wip
       \/ /\ state # "Closed"
          /\ q = <<>>
          /\ in_flight' = fl
          /\ write_in_progress' = FALSE
       \/ /\ state # "Closed"
          /\ q # <<>>
          /\ in_flight' = Append(fl, Head(q))
          /\ write_in_progress' = wip

\* Mutant of post_write: starts a write although one may be in progress.
post_write_always_starts ==
    LET m == posted + 1 IN
    /\ posted' = m
    /\ enqueue_write(m)
    /\ do_write_queue(Enqueued(m), in_flight, TRUE)
    /\ UNCHANGED <<state, sent>>

\* Mutant of post_write: tests for an empty queue after enqueue_write.
post_write_idle_too_late ==
    LET m == posted + 1 IN
    /\ posted' = m
    /\ enqueue_write(m)
    /\ \/ /\ Enqueued(m) = <<>>
          /\ do_write_queue(Enqueued(m), in_flight, TRUE)
       \/ /\ Enqueued(m) # <<>>
          /\ write_queue' = Enqueued(m)
          /\ UNCHANGED <<in_flight, write_in_progress>>
    /\ UNCHANGED <<state, sent>>

\* The handler that post_write dispatches to the strand.
post_write ==
    LET m == posted + 1 IN
    /\ posted' = m
    /\ enqueue_write(m)
    /\ \/ /\ write_queue = <<>>
          /\ do_write_queue(Enqueued(m), in_flight, TRUE)
       \/ /\ write_queue # <<>>
          /\ write_queue' = Enqueued(m)
          /\ UNCHANGED <<in_flight, write_in_progress>>
    /\ UNCHANGED <<state, sent>>

\* Mutant of write_succeeded: the pop is missing.
write_succeeded_no_pop ==
    /\ in_flight # <<>>
    /\ sent' = Append(sent, Head(in_flight))
    /\ do_write_queue(write_queue, Tail(in_flight), write_in_progress)
    /\ UNCHANGED <<closed, state, posted, overflow_count, dropped>>

\* The completion handler, no error: pop the front, start the next write.
write_succeeded ==
    /\ in_flight # <<>>
    /\ sent' = Append(sent, Head(in_flight))
    /\ do_write_queue(Tail(write_queue), Tail(in_flight), write_in_progress)
    /\ UNCHANGED <<closed, state, posted, overflow_count, dropped>>

\* Mutant of write_failed: pops before it looks at the error.
write_failed_pops ==
    /\ in_flight # <<>>
    /\ in_flight' = Tail(in_flight)
    /\ write_queue' = Tail(write_queue)
    /\ closed' = TRUE
    /\ UNCHANGED <<state, posted, write_in_progress, overflow_count, sent,
                   dropped>>

\* The completion handler, error: close_session, whose first step is the
\* exchange on closed_.  The queue is left as it is.
write_failed ==
    /\ in_flight # <<>>
    /\ in_flight' = Tail(in_flight)
    /\ closed' = TRUE
    /\ UNCHANGED <<state, posted, write_queue, write_in_progress,
                   overflow_count, sent, dropped>>

(***************************************************************************)
(* The rest of the session: close_session sets closed_ and only then       *)
(* state_ = Closed; a login sets state_ = Ready, also after Closed.        *)
(***************************************************************************)
SessionFlags ==
    /\ closed' \in {closed, TRUE}
    /\ state' \in {"Ready", "Closed", state}
    /\ state' = "Closed" => closed'
    /\ UNCHANGED queueVars

Next ==
    \/ posted < MaxPosts /\ post_write
    \/ write_succeeded
    \/ write_failed
    \/ SessionFlags

Spec == Init /\ [][Next]_vars
-----------------------------------------------------------------------------
Increasing(s) == \A i, j \in DOMAIN s : i < j => s[i] < s[j]

TypeOK ==
    /\ closed \in BOOLEAN
    /\ state \in SessionState
    /\ posted \in Nat
    /\ write_queue \in Seq(Nat)
    /\ Len(write_queue) <= MaxWriteQueueSize
    /\ write_in_progress \in BOOLEAN
    /\ overflow_count \in Nat
    /\ in_flight \in Seq(Nat)
    /\ sent \in Seq(Nat)
    /\ dropped \subseteq Nat

(***************************************************************************)
(* At most one async_write is outstanding on the socket, so two frames     *)
(* never interleave on the wire, and the pop of the completion handler     *)
(* never meets an empty queue.  This has to survive the pop that           *)
(* enqueue_write does on a full queue while a write is in flight.          *)
(***************************************************************************)
SingleWriter ==
    /\ Len(in_flight) <= 1
    /\ in_flight # <<>> => write_queue # <<>> /\ write_in_progress

(***************************************************************************)
(* Messages reach the socket in the order in which they were posted, and   *)
(* none twice, through any mixture of overflow, drops and close.           *)
(***************************************************************************)
InOrder == Increasing(sent)

(***************************************************************************)
(* As long as the queue has never overflowed, what was sent followed by    *)
(* what is queued is exactly what was posted: nothing lost, nothing        *)
(* duplicated.                                                             *)
(***************************************************************************)
ExactUntilOverflow ==
    dropped = {} => sent \o write_queue = [i \in 1..posted |-> i]

(***************************************************************************)
(* No lost wake-up: a session that is not closed and has something queued  *)
(* has a write in flight, whose completion will take the next message.     *)
(* Only post_write on an empty queue starts the chain.                     *)
(***************************************************************************)
NoStall == write_queue # <<>> => in_flight # <<>> \/ closed

(***************************************************************************)
(* An overflow never costs more messages than enqueue_write drops.  It is  *)
(* not always the dropped one that is lost: when the front that is dropped *)
(* is being written, it still arrives, and the pop of its completion       *)
(* handler takes off the next message, which is never sent.                *)
(***************************************************************************)
NeverSent == (1..posted) \ (ToSet(sent) \cup ToSet(write_queue)
                               \cup ToSet(in_flight))

OneLostPerDrop == Cardinality(NeverSent) <= Cardinality(dropped)
=============================================================================
