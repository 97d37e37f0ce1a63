------------------------------- MODULE Server -------------------------------
(***************************************************************************)
(* The life of the process: main(), which sets the program up and then     *)
(* waits for the threads that run the io_context; the accept loop of       *)
(* Server with the white list of AllowedIPManager; the monitor loop of     *)
(* DataHandler.  A session is only the handlers that its strand wants to   *)
(* run; SessionManager.tla and Session.tla have the rest.                  *)
(*                                                                         *)
(* The io_context (boost::asio, external) hands ready handlers to its      *)
(* threads in the order in which they became ready.  An exception that     *)
(* leaves a handler leaves io.run() as well, and the thread ends.  Of the  *)
(* handlers only the accept handler lets one out: remote_endpoint() and    *)
(* close() are called without an error_code, and the peer may be gone.     *)
(* io.run() never runs out of work, as the monitor timer is always armed.  *)
(***************************************************************************)
EXTENDS Naturals, SequencesExt

CONSTANTS Cores,           \* possible values of hardware_concurrency()
          DefaultThreads,  \* thread_count if it is 0 (4)
          Addresses,       \* addresses of peers, as to_string() gives them
          missing,         \* there is no allowed_ips.txt
          monitor, accept, \* the handlers that belong to no session
          MaxAccepts       \* bound on the connections of peers

ASSUME ServerConfig ==
    /\ Cores \subseteq Nat
    /\ DefaultThreads \in Nat \ {0}
    /\ MaxAccepts \in Nat
    /\ monitor # accept
    /\ {monitor, accept} \cap (1..MaxAccepts) = {}

\* The lines of allowed_ips.txt without the blanks around them: an address,
\* nothing, a comment, or something else (an address and a comment, say).
Line  == Addresses \cup {"", "# comment", "other"}
Files == SUBSET Line

VARIABLES phase,        \* where main() is
          thread_count,
          ended,        \* threads whose io.run() was left by an exception
          ready,        \* handlers that are ready to run
          acceptor,     \* the async_accept: "none", "armed", "ready", "lost"
          monitor_timer,  \* "none", "armed", "ready"
          file, allowed_ips,
          session,      \* addresses of the sessions, by session id
          accepts       \* connections so far

setupVars == <<thread_count, file, allowed_ips>>
vars == <<phase, setupVars, ended, ready, acceptor, monitor_timer, session,
          accepts>>

Threads == 1..thread_count

Init ==
    /\ phase = "load_config"
    /\ thread_count = 0
    /\ ended = {}
    /\ ready = <<>>
    /\ acceptor = "none"
    /\ monitor_timer = "none"
    /\ file \in Files \cup {missing}
    /\ allowed_ips = {}
    /\ session = <<>>
    /\ accepts = 0
-----------------------------------------------------------------------------
(***************************************************************************)
(* main().  load_config is called before the try block: its exceptions (no *)
(* file, no JSON) leave main and end the process in std::terminate.        *)
(***************************************************************************)
load_config ==
    /\ phase = "load_config"
    /\ phase' \in {"get_env_secret", "terminate"}
    /\ UNCHANGED <<setupVars, ended, ready, acceptor, monitor_timer, session,
                   accepts>>

\* An empty MY_SERVER_SECRET: return 0.
get_env_secret ==
    /\ phase = "get_env_secret"
    /\ phase' \in {"setup", "return 0"}
    /\ UNCHANGED <<setupVars, ended, ready, acceptor, monitor_timer, session,
                   accepts>>

\* std::stoul on DB_POOL_SIZE or DB_PORT, or the bind of the port, throws:
\* the catch of main.  A pool without connections is no error (MySqlPool).
setup_failed ==
    /\ phase = "setup"
    /\ phase' = "return 1"
    /\ UNCHANGED <<setupVars, ended, ready, acceptor, monitor_timer, session,
                   accepts>>

\* AllowedIPManager::load.  The result false is ignored by Server.
load(f) ==
    IF f = missing THEN {} ELSE f \ {"", "# comment"}

\* Mutant of is_allowed: an empty white list lets everybody in.
is_allowed_if_empty(ip) == allowed_ips = {} \/ ip \in allowed_ips

is_allowed(ip) == ip \in allowed_ips

\* DataHandler (its constructor starts the monitor loop), Server (white
\* list, first async_accept), then the threads.
setup(cores) ==
    /\ phase = "setup"
    /\ phase' = "join"
    /\ allowed_ips' = load(file)
    /\ acceptor' = "armed"
    /\ monitor_timer' = "armed"
    /\ thread_count' = IF cores = 0 THEN DefaultThreads ELSE cores
    /\ UNCHANGED <<file, ended, ready, session, accepts>>

\* t.join() has returned for every thread.
join ==
    /\ phase = "join"
    /\ ended = Threads
    /\ phase' = "return 0"
    /\ UNCHANGED <<setupVars, ended, ready, acceptor, monitor_timer, session,
                   accepts>>
-----------------------------------------------------------------------------
\* A peer connects, or async_accept fails.
accept_completes ==
    /\ acceptor = "armed"
    /\ accepts < MaxAccepts
    /\ accepts' = accepts + 1
    /\ acceptor' = "ready"
    /\ ready' = Append(ready, accept)
    /\ UNCHANGED <<phase, setupVars, ended, monitor_timer, session>>

monitor_expires ==
    /\ monitor_timer = "armed"
    /\ monitor_timer' = "ready"
    /\ ready' = Append(ready, monitor)
    /\ UNCHANGED <<phase, setupVars, ended, acceptor, session, accepts>>

\* Something happened for the strand of session s.
session_event(s) ==
    /\ s \in DOMAIN session
    /\ s \notin ToSet(ready)
    /\ ready' = Append(ready, s)
    /\ UNCHANGED <<phase, setupVars, ended, acceptor, monitor_timer, session,
                   accepts>>

\* A thread in io.run() takes the next handler, which is h.
Takes(t, h) ==
    /\ phase = "join"
    /\ t \in Threads \ ended
    /\ ready # <<>>
    /\ Head(ready) = h

\* Mutant of accept_throws: the next async_accept was started first.
accept_throws_rearmed(t) ==
    /\ Takes(t, accept)
    /\ ready' = Tail(ready)
    /\ acceptor' = "armed"
    /\ ended' = ended \cup {t}
    /\ UNCHANGED <<phase, setupVars, monitor_timer, session, accepts>>

(***************************************************************************)
(* The accept handler.  remote_endpoint(), or close() for an address that  *)
(* is not allowed, throws: start_accept() is not reached.                  *)
(***************************************************************************)
accept_throws(t) ==
    /\ Takes(t, accept)
    /\ ready' = Tail(ready)
    /\ acceptor' = "lost"
    /\ ended' = ended \cup {t}
    /\ UNCHANGED <<phase, setupVars, monitor_timer, session, accepts>>

\* An error, or an address that is not allowed.
accept_refused(t) ==
    /\ Takes(t, accept)
    /\ ready' = Tail(ready)
    /\ acceptor' = "armed"
    /\ UNCHANGED <<phase, setupVars, ended, monitor_timer, session, accepts>>

\* A new session, entered into the SessionManager and started.
accept_session(t, ip) ==
    /\ Takes(t, accept)
    /\ is_allowed(ip)
    /\ session' = Append(session, ip)
    /\ ready' = Tail(ready)
    /\ acceptor' = "armed"
    /\ UNCHANGED <<phase, setupVars, ended, monitor_timer, accepts>>

\* start_monitor_loop's handler: log get_total_session_count(), rearm.
monitor_handler(t) ==
    /\ Takes(t, monitor)
    /\ ready' = Tail(ready)
    /\ monitor_timer' = "armed"
    /\ UNCHANGED <<phase, setupVars, ended, acceptor, session, accepts>>

\* A handler of session s; its exceptions are caught in the Session.
session_handler(t, s) ==
    /\ Takes(t, s)
    /\ ready' = Tail(ready)
    /\ UNCHANGED <<phase, setupVars, ended, acceptor, monitor_timer, session,
                   accepts>>
-----------------------------------------------------------------------------
SessionIds == 1..MaxAccepts

RunHandler(t) ==
    \/ accept_throws(t)
    \/ accept_refused(t)
    \/ \E ip \in Addresses : accept_session(t, ip)
    \/ monitor_handler(t)
    \/ \E s \in SessionIds : session_handler(t, s)

MaxThreads == Max(Cores \cup {DefaultThreads})

RunThreads == \E t \in 1..MaxThreads : RunHandler(t)

Next ==
    \/ load_config
    \/ get_env_secret
    \/ setup_failed
    \/ \E cores \in Cores : setup(cores)
    \/ join
    \/ accept_completes
    \/ monitor_expires
    \/ \E s \in SessionIds : session_event(s)
    \/ RunThreads

Spec == Init /\ [][Next]_vars

\* As long as a thread is in io.run(), ready handlers are run.
FairSpec == Spec /\ WF_vars(RunThreads) /\ WF_vars(join)
-----------------------------------------------------------------------------
TypeOK ==
    /\ phase \in {"load_config", "get_env_secret", "setup", "join",
                  "terminate", "return 0", "return 1"}
    /\ thread_count \in Nat
    /\ ended \subseteq Threads
    /\ ready \in Seq({monitor, accept} \cup SessionIds)
    /\ acceptor \in {"none", "armed", "ready", "lost"}
    /\ monitor_timer \in {"none", "armed", "ready"}
    /\ allowed_ips \subseteq Addresses \cup {"other"}
    /\ session \in Seq(Addresses)
    /\ accepts \in 0..MaxAccepts

(***************************************************************************)
(* Only peers whose address is a line of allowed_ips.txt get a session;    *)
(* without the file, or with an empty one, nobody does.                    *)
(***************************************************************************)
ListedOnly ==
    session # <<>> => file # missing /\ ToSet(session) \subseteq file

(***************************************************************************)
(* An exception costs the program one thread, not one after the other:     *)
(* the handler that can throw is not started again.  So the accept loop is *)
(* dead exactly when a thread is, and a program that has started its       *)
(* threads comes to an end only if it had a single one.                    *)
(***************************************************************************)
OneThreadLost ==
    /\ Cardinality(ended) <= 1
    /\ ended # {} <=> acceptor = "lost"
    /\ phase = "return 0" => thread_count < 2

(***************************************************************************)
(* With two threads or more every handler of the sessions that exist is    *)
(* run, whatever happens to the accept loop.                               *)
(***************************************************************************)
SessionsServed ==
    \A s \in SessionIds :
        s \in ToSet(ready) /\ thread_count >= 2 ~> s \notin ToSet(ready)
=============================================================================
