---------------------------- MODULE LoginTimeout ----------------------------
(***************************************************************************)
(* A Session with its login timeout: start_login_timeout, the handler of   *)
(* login_timer_, and its cancellation by on_nickname_registered, beside    *)
(* everything Session.tla has.  start() calls start_login_timeout after    *)
(* do_read, on the thread of the acceptor: the strand may already be       *)
(* reading.  The handler runs on the strand (login_timer_ is bound to it)  *)
(* and holds the session until then.                                       *)
(*                                                                         *)
(* In the program as shipped the call is commented out: timeout_started is *)
(* FALSE; with TRUE it is the program with the call restored.              *)
(***************************************************************************)
EXTENDS Session

VARIABLES timeout_started,  \* start() has the call; never changes
          starting,         \* start() is about to call start_login_timeout
          login_timer  \* "off", "waiting", "cancelled" (handler outstanding)

timerVars == <<timeout_started, starting, login_timer>>
allVars   == <<vars, timerVars>>

LInit ==
    /\ Init
    /\ timeout_started \in BOOLEAN
    /\ starting = FALSE
    /\ login_timer = "off"

\* start() goes on to the timeout, and only then does the acceptor accept
\* again; on_nickname_registered cancels the timer.
TimerFollows ==
    /\ starting' = (starting \/ (strand_pc = "new" /\ timeout_started))
    /\ starting => replaced' = replaced
    /\ login_timer' = IF strand_pc = "on_nickname_registered"
                            /\ strand_pc' = "register_nickname"
                            /\ login_timer = "waiting"
                        THEN "cancelled" ELSE login_timer
    /\ UNCHANGED timeout_started

\* Mutant of start_login_timeout: async_wait is missing.
start_login_timeout_no_wait ==
    /\ starting
    /\ starting' = FALSE
    /\ UNCHANGED <<vars, timeout_started, login_timer>>

start_login_timeout ==
    /\ starting
    /\ starting' = FALSE
    /\ login_timer' = IF state = "Closed" THEN login_timer ELSE "waiting"
    /\ UNCHANGED <<vars, timeout_started>>

\* The time is up: the handler is posted, and a later cancel misses it.
expire ==
    /\ login_timer = "waiting"
    /\ login_timer' = "off"
    /\ strand' = Append(strand, "login_timeout")
    /\ UNCHANGED <<closed, state, writeVars, socket, managerVars, loginVars,
                   readVars, strand_pc, close_pc, kick_pc, inputVars,
                   timeout_started, starting>>

\* The handler with operation_aborted, which does nothing.
login_cancelled ==
    /\ login_timer = "cancelled"
    /\ strand_pc = "idle" /\ close_pc["strand"] = "none"
    /\ login_timer' = "off"
    /\ UNCHANGED <<vars, timeout_started, starting>>

\* Mutant of TimedOut: relies on the cancellation alone.
TimedOut_not_cancelled == TRUE

TimedOut == ~nickname_registered

\* The handler: post_write on the strand, which runs at once ...
login_timeout ==
    /\ Take("login_timeout")
    /\ \/ /\ TimedOut
          /\ WQ!post_write
          /\ strand_pc' = "login_timeout_close"
       \/ /\ ~TimedOut
          /\ UNCHANGED <<closed, state, writeVars, strand_pc>>
    /\ UNCHANGED <<socket, managerVars, loginVars, readVars, close_pc,
                   kick_pc, inputVars, timerVars>>

\* ... and close_session.
login_timeout_close ==
    /\ At("login_timeout_close")
    /\ call_close_session("strand")
    /\ strand_pc' = "idle"
    /\ UNCHANGED <<state, writeVars, socket, managerVars, loginVars, readVars,
                   strand, kick_pc, inputVars, timerVars>>

LReleased == Released /\ ~starting /\ login_timer = "off"

RunTimer == login_cancelled \/ login_timeout \/ login_timeout_close

LNext ==
    \/ Next /\ TimerFollows
    \/ ~LReleased /\ kick_post_write /\ UNCHANGED timerVars
    \/ start_login_timeout
    \/ expire
    \/ RunTimer

LSpec == LInit /\ [][LNext]_allVars

(***************************************************************************)
(* The io_context threads run what is ready and a thread inside            *)
(* close_session finishes it; timers expire.  asio completes the           *)
(* operations of a closed socket; on an open one nothing is assumed of the *)
(* peer.                                                                   *)
(***************************************************************************)
LFairSpec ==
    /\ LSpec
    /\ WF_allVars(start /\ TimerFollows)
    /\ WF_allVars((RunStrand /\ TimerFollows) \/ RunTimer)
    /\ WF_allVars(RunKicker /\ TimerFollows)
    /\ WF_allVars(RunAcceptor /\ TimerFollows)
    /\ WF_allVars(socket = "closed"
                    /\ (\E r \in ReadResult : read_completes(r))
                    /\ TimerFollows)
    /\ WF_allVars(socket = "closed"
                    /\ (\E r \in WriteResult : write_completes(r))
                    /\ TimerFollows)
    /\ WF_allVars(start_login_timeout)
    /\ WF_allVars(expire)
-----------------------------------------------------------------------------
(***************************************************************************)
(* The timeout never closes a session that has logged in, although its     *)
(* handler may be queued already when the login cancels the timer, and the *)
(* timer may be started only after the login.                              *)
(***************************************************************************)
TimeoutSparesLogin ==
    [][close_pc["strand"] = "none" /\ close_pc'["strand"] = "set_state"
         /\ strand_pc = "login_timeout_close" => ~nickname_registered]_allVars

(***************************************************************************)
(* A session that has sent no packet with the correct secret gets nothing: *)
(* no login, no nickname and no answer; every other packet closes it.  The *)
(* one message it may be sent is that of the login timeout.  secret_seen   *)
(* is set by any packet with the secret, whatever else is wrong with it.   *)
(***************************************************************************)
SilentUntilSecret ==
    ~secret_seen =>
        /\ ~nickname_registered /\ indexed = 0
        /\ posted # 0 => /\ timeout_started
                         /\ posted = 1
                         /\ strand_pc = "login_timeout_close" \/ closed

(***************************************************************************)
(* A session that close_session has set to Closed is let go of by          *)
(* everyone: its operations end, its handlers run out, no task stays in    *)
(* task_queue_, the manager drops it.  That has to hold when a login sets  *)
(* it back to Ready, after a packet of the same read closed it or while    *)
(* another thread does, and when the login timer still holds it.           *)
(***************************************************************************)
ClosedIsReleased == (state = "Closed") ~> LReleased

(***************************************************************************)
(* With the timeout a peer that sends nothing does not keep its session:   *)
(* every session logs in or is marked closed.  Without the call a silent   *)
(* peer keeps it forever.                                                  *)
(***************************************************************************)
LogsInOrCloses ==
    (timeout_started /\ strand_pc # "new") ~> (nickname_registered \/ closed)
=============================================================================
