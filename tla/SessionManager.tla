--------------------------- MODULE SessionManager ---------------------------
(***************************************************************************)
(* SessionManager and the code that calls it on several threads: the       *)
(* acceptor (Server::start_accept, add_session), the strand of each        *)
(* session (the login handler, close_session), and through                 *)
(* register_nickname one session closing another.                          *)
(*                                                                         *)
(* A session is reduced to its id, its nickname and closed_; Session.tla   *)
(* has the rest.  The mutexes are std::mutex: not recursive, no queue.  A  *)
(* critical section that calls nothing is one action; one that calls out   *)
(* holds its mutex over several actions.                                   *)
(*                                                                         *)
(* SessionMaintenance.tla extends this module by the operations that       *)
(* nothing calls.  Left out: the read-only find_session, session_count and *)
(* get_total_session_count.                                                *)
(***************************************************************************)
EXTENDS Naturals, FiniteSets

CONSTANTS NumSessions,   \* the Session objects, in the order of the accepts
          Nicknames,
          Acceptor,      \* the thread of the accept handler
          Cleaners,      \* threads of SessionMaintenance
          none,          \* no session, no nickname, no owner
          IdSpace,       \* number of values of int, the type of session_id_
          ShardCount,    \* shard_count_
          MaxLogins      \* bound on the login packets of all sessions

Sessions == 1..NumSessions

ASSUME SessionManagerConfig ==
    /\ NumSessions \in Nat
    /\ IdSpace \in Nat \ {0}
    /\ ShardCount \in Nat \ {0}
    /\ MaxLogins \in Nat
    /\ none \notin Sessions \cup Nicknames
    /\ Acceptor \notin Sessions \cup Cleaners \cup {none}
    /\ Cleaners \cap (Sessions \cup {none}) = {}

Thread == Sessions \cup {Acceptor} \cup Cleaners
Id     == 0..(IdSpace - 1)
Shard  == 0..(ShardCount - 1)

VARIABLES session_counter,  \* Server::session_counter_
          session_id,       \* session_id_ of the accepted sessions
          closed,           \* the sessions whose closed_ is set
          alive,            \* the sessions whose object exists
          nickname,         \* nickname_; none until a login succeeds
          buckets,          \* session_buckets_, all shards in one map
          session_mutex,    \* owner of session_mutexes_[shard]
          nickname_index,   \* nickname_index_ (weak pointers)
          nickname_mutex,   \* owner of nickname_mutex_
          accepting,        \* the session the acceptor is setting up
          pc, wanted, target,  \* program counter and locals of each thread
          logins            \* number of login packets so far

sessionVars == <<session_id, closed, alive, nickname>>
localVars   == <<pc, wanted, target>>
vars == <<session_counter, sessionVars, buckets, session_mutex,
          nickname_index, nickname_mutex, accepting, localVars, logins>>

get_shard(id) == id % ShardCount

accepted == {s \in Sessions : session_id[s] # IdSpace}

\* IdSpace is no id: it stands for "not accepted yet".
Init ==
    /\ session_counter = 0
    /\ session_id = [s \in Sessions |-> IdSpace]
    /\ closed = {}
    /\ alive = {}
    /\ nickname = [s \in Sessions |-> none]
    /\ buckets = [i \in Id |-> none]
    /\ session_mutex = [h \in Shard |-> none]
    /\ nickname_index = [n \in Nicknames |-> none]
    /\ nickname_mutex = none
    /\ pc = [t \in Thread |-> "idle"]
    /\ accepting = none
    /\ wanted = [t \in Thread |-> none]
    /\ target = [t \in Thread |-> none]
    /\ logins = 0

Go(t, l) == pc' = [pc EXCEPT ![t] = l]

\* The strand of s runs its handlers once start() has been called.
Runs(s) == s \in alive /\ accepting # s /\ pc[s] = "idle"
-----------------------------------------------------------------------------
(***************************************************************************)
(* Session::close_session of target[t] on thread t, which continues at     *)
(* "closed".  remove_session erases whatever is stored under the id.       *)
(***************************************************************************)
close_session(t) ==
    /\ pc[t] = "close"
    /\ closed' = closed \cup {target[t]}
    /\ Go(t, IF target[t] \in closed THEN "closed" ELSE "remove")
    /\ UNCHANGED <<session_counter, session_id, alive, nickname, buckets,
                   session_mutex, nickname_index, nickname_mutex, accepting,
                   wanted, target, logins>>

\* Mutant of remove_session: the mutex of the shard is not released.
remove_session_keeps_lock(t) ==
    LET id == session_id[target[t]] IN
    /\ pc[t] = "remove"
    /\ session_mutex[get_shard(id)] = none
    /\ session_mutex' = [session_mutex EXCEPT ![get_shard(id)] = t]
    /\ buckets' = [buckets EXCEPT ![id] = none]
    /\ Go(t, "closed")
    /\ UNCHANGED <<session_counter, sessionVars, nickname_index,
                   nickname_mutex, accepting, wanted, target, logins>>

remove_session(t) ==
    LET id == session_id[target[t]] IN
    /\ pc[t] = "remove"
    /\ session_mutex[get_shard(id)] = none
    /\ buckets' = [buckets EXCEPT ![id] = none]
    /\ Go(t, "closed")
    /\ UNCHANGED <<session_counter, sessionVars, session_mutex,
                   nickname_index, nickname_mutex, accepting, wanted, target,
                   logins>>

\* The strand of s closes its own session: end of file, an error, a packet
\* the dispatcher refuses.
close_self(s) ==
    /\ Runs(s)
    /\ s \notin closed
    /\ Go(s, "close")
    /\ target' = [target EXCEPT ![s] = s]
    /\ UNCHANGED <<session_counter, sessionVars, buckets, session_mutex,
                   nickname_index, nickname_mutex, wanted, accepting, logins>>

close_self_done(s) ==
    /\ pc[s] = "closed"
    /\ wanted[s] = none
    /\ Go(s, "idle")
    /\ target' = [target EXCEPT ![s] = none]
    /\ UNCHANGED <<session_counter, sessionVars, buckets, session_mutex,
                   nickname_index, nickname_mutex, wanted, accepting, logins>>

\* enqueue_write gives up: closed_ is set and nothing else happens.
write_queue_overflow(s) ==
    /\ Runs(s)
    /\ closed' = closed \cup {s}
    /\ UNCHANGED <<session_counter, session_id, alive, nickname, buckets,
                   session_mutex, nickname_index, nickname_mutex, localVars,
                   accepting, logins>>

\* The last shared_ptr goes: Session.tla shows that a closed session gets
\* there once the manager and the closing threads have let go of it.
destroy(s) ==
    /\ Runs(s)
    /\ s \in closed
    /\ \A i \in Id : buckets[i] # s
    /\ \A t \in Thread : target[t] # s
    /\ alive' = alive \ {s}
    /\ UNCHANGED <<session_counter, session_id, closed, nickname, buckets,
                   session_mutex, nickname_index, nickname_mutex, localVars,
                   accepting, logins>>
-----------------------------------------------------------------------------
\* The accept handler makes the session.
construct_session(s) ==
    /\ pc[Acceptor] = "idle"
    /\ s = Cardinality(accepted) + 1
    /\ session_counter' = (session_counter + 1) % IdSpace
    /\ session_id' = [session_id EXCEPT ![s] = session_counter]
    /\ alive' = alive \cup {s}
    /\ accepting' = s
    /\ Go(Acceptor, "insert")
    /\ UNCHANGED <<closed, nickname, buckets, session_mutex, nickname_index,
                   nickname_mutex, wanted, target, logins>>

\* Mutant of add_session: the bucket is filled under the id of the next
\* session.
add_session_next_id ==
    LET id   == session_id[accepting]
        next == (id + 1) % IdSpace IN
    /\ pc[Acceptor] = "insert"
    /\ session_mutex[get_shard(id)] = none
    /\ session_mutex' = [session_mutex EXCEPT ![get_shard(id)] = Acceptor]
    /\ target' = [target EXCEPT ![Acceptor] = buckets[next]]
    /\ buckets' = [buckets EXCEPT ![next] = accepting]
    /\ Go(Acceptor, "unlock")
    /\ UNCHANGED <<session_counter, sessionVars, nickname_index,
                   nickname_mutex, accepting, wanted, logins>>

(***************************************************************************)
(* add_session puts the new session in its bucket under the mutex of the   *)
(* shard and closes the one it displaces after the unlock.                 *)
(***************************************************************************)
add_session ==
    LET id == session_id[accepting] IN
    /\ pc[Acceptor] = "insert"
    /\ session_mutex[get_shard(id)] = none
    /\ session_mutex' = [session_mutex EXCEPT ![get_shard(id)] = Acceptor]
    /\ target' = [target EXCEPT ![Acceptor] = buckets[id]]
    /\ buckets' = [buckets EXCEPT ![id] = accepting]
    /\ Go(Acceptor, "unlock")
    /\ UNCHANGED <<session_counter, sessionVars, nickname_index,
                   nickname_mutex, accepting, wanted, logins>>

\* Mutant of add_session_unlock: the displaced session is closed first.
add_session_close_locked ==
    LET id       == session_id[accepting]
        finished == target[Acceptor] \in {none} \cup closed IN
    /\ pc[Acceptor] = "unlock"
    /\ session_mutex' = IF finished
                         THEN [session_mutex EXCEPT ![get_shard(id)] = none]
                         ELSE session_mutex
    /\ Go(Acceptor, IF finished THEN "closed" ELSE "close")
    /\ UNCHANGED <<session_counter, sessionVars, buckets, nickname_index,
                   nickname_mutex, accepting, wanted, target, logins>>

add_session_unlock ==
    LET id == session_id[accepting] IN
    /\ pc[Acceptor] = "unlock"
    /\ session_mutex' = [session_mutex EXCEPT ![get_shard(id)] = none]
    /\ Go(Acceptor, IF target[Acceptor] \in {none} \cup closed
                      THEN "closed" ELSE "close")
    /\ UNCHANGED <<session_counter, sessionVars, buckets, nickname_index,
                   nickname_mutex, accepting, wanted, target, logins>>

\* add_session returns and the new session is started.
start_session ==
    /\ pc[Acceptor] = "closed"
    /\ Go(Acceptor, "idle")
    /\ accepting' = none
    /\ target' = [target EXCEPT ![Acceptor] = none]
    /\ UNCHANGED <<session_counter, sessionVars, buckets, session_mutex,
                   nickname_index, nickname_mutex, wanted, logins>>
-----------------------------------------------------------------------------
(***************************************************************************)
(* The login handler of session s, also run for a session that is already  *)
(* closed or already logged in.                                            *)
(***************************************************************************)
find_session_by_nickname(n) ==
    IF nickname_index[n] \in alive THEN nickname_index[n] ELSE none

login(s, n) ==
    /\ Runs(s)
    /\ logins < MaxLogins
    /\ logins' = logins + 1
    /\ nickname_mutex = none
    /\ IF find_session_by_nickname(n) # none
         THEN UNCHANGED localVars
         ELSE /\ Go(s, "set_nickname")
              /\ wanted' = [wanted EXCEPT ![s] = n]
              /\ UNCHANGED target
    /\ UNCHANGED <<session_counter, sessionVars, buckets, session_mutex,
                   nickname_index, nickname_mutex, accepting>>

set_nickname(s) ==
    /\ pc[s] = "set_nickname"
    /\ nickname' = [nickname EXCEPT ![s] = wanted[s]]
    /\ Go(s, "register")
    /\ UNCHANGED <<session_counter, session_id, closed, alive, buckets,
                   session_mutex, nickname_index, nickname_mutex, accepting,
                   wanted, target, logins>>

\* Mutant of register_nickname: the previous holder is not closed.
register_nickname_no_kick(s) ==
    /\ pc[s] = "register"
    /\ nickname_mutex = none
    /\ nickname_mutex' = s
    /\ Go(s, "closed")
    /\ UNCHANGED <<session_counter, sessionVars, buckets, session_mutex,
                   nickname_index, accepting, wanted, target, logins>>

\* register_nickname: the previous holder, if it still exists, is closed
\* with nickname_mutex_ held ...
register_nickname(s) ==
    LET prev == find_session_by_nickname(wanted[s]) IN
    /\ pc[s] = "register"
    /\ nickname_mutex = none
    /\ nickname_mutex' = s
    /\ IF prev \in {none, s}
         THEN Go(s, "closed") /\ UNCHANGED target
         ELSE Go(s, "close") /\ target' = [target EXCEPT ![s] = prev]
    /\ UNCHANGED <<session_counter, sessionVars, buckets, session_mutex,
                   nickname_index, accepting, wanted, logins>>

\* ... and only then is the entry overwritten.
overwrite_nickname(s) ==
    /\ pc[s] = "closed"
    /\ wanted[s] # none
    /\ nickname_index' = [nickname_index EXCEPT ![wanted[s]] = s]
    /\ nickname_mutex' = none
    /\ Go(s, "idle")
    /\ wanted' = [wanted EXCEPT ![s] = none]
    /\ target' = [target EXCEPT ![s] = none]
    /\ UNCHANGED <<session_counter, sessionVars, buckets, session_mutex,
                   accepting, logins>>
-----------------------------------------------------------------------------
\* What thread t does once it is inside an operation.
Run(t) ==
    \/ close_session(t)
    \/ remove_session(t)
    \/ t \in Sessions /\ close_self_done(t)
    \/ t \in Sessions /\ set_nickname(t)
    \/ t \in Sessions /\ register_nickname(t)
    \/ t \in Sessions /\ overwrite_nickname(t)
    \/ t = Acceptor /\ add_session
    \/ t = Acceptor /\ add_session_unlock
    \/ t = Acceptor /\ start_session

Next ==
    \/ \E t \in Thread : Run(t)
    \/ \E s \in Sessions : construct_session(s)
    \/ \E s \in Sessions : close_self(s)
    \/ \E s \in Sessions : write_queue_overflow(s)
    \/ \E s \in Sessions : destroy(s)
    \/ \E s \in Sessions, n \in Nicknames : login(s, n)

Spec == Init /\ [][Next]_vars

\* A thread inside an operation keeps running.
FairSpec == Spec /\ \A t \in Thread : WF_vars(Run(t))
-----------------------------------------------------------------------------
TypeOK ==
    /\ session_counter \in Id
    /\ session_id \in [Sessions -> Id \cup {IdSpace}]
    /\ closed \subseteq accepted /\ alive \subseteq accepted
    /\ nickname \in [Sessions -> Nicknames \cup {none}]
    /\ buckets \in [Id -> Sessions \cup {none}]
    /\ session_mutex \in [Shard -> {Acceptor, none}]
    /\ nickname_index \in [Nicknames -> Sessions \cup {none}]
    /\ nickname_mutex \in Sessions \cup Cleaners \cup {none}
    /\ pc \in [Thread -> {"idle", "set_nickname", "register", "close",
                          "remove", "closed", "insert", "unlock"}]
    /\ accepting \in Sessions \cup {none}
    /\ wanted \in [Thread -> Nicknames \cup {none}]
    /\ target \in [Thread -> Sessions \cup {none}]
    /\ logins \in 0..MaxLogins

(***************************************************************************)
(* Nicknames are unique although the login handler looks the nickname up   *)
(* and registers it in two critical sections: of several sessions that     *)
(* passed the look-up with the same nickname, every one but the last to    *)
(* register is closed by the time the other is registered.                 *)
(***************************************************************************)
NicknameOwner ==
    \A s \in alive :
        nickname[s] # none /\ s \notin closed /\ pc[s] \in {"idle", "set_nickname"}
          => nickname_index[nickname[s]] = s

\* The acceptor has made session s and not yet put it in its bucket.
Unregistered(s) == s = accepting /\ pc[Acceptor] = "insert"

\* A session that nobody has closed can be found by its id.
OpenIsTracked ==
    \A s \in accepted \ closed :
        ~Unregistered(s) /\ (\A t \in Thread : target[t] # s)
          => buckets[session_id[s]] = s

(***************************************************************************)
(* The registry is exact whatever accepts and closes interleave, until the *)
(* int session counter comes round to the id of a session that still       *)
(* exists: from then on the close of the displaced session may remove the  *)
(* new one, which has the same id.                                         *)
(***************************************************************************)
TrackedUntilWrap == Cardinality(accepted) <= IdSpace => OpenIsTracked

(***************************************************************************)
(* "Nickname already in use." (MessageDispatcher.cpp:22) is the answer to  *)
(* a login for which some session uses the nickname.  The code breaks      *)
(* this: a session that logs in a second time under another nickname stays *)
(* in the index under the first, which nobody can have until it is gone.   *)
(***************************************************************************)
InUseMeansUsed ==
    \A n \in Nicknames :
        LET holder == find_session_by_nickname(n) IN
        holder # none /\ pc[holder] = "idle" => nickname[holder] = n

(***************************************************************************)
(* No thread waits for ever: neither for a mutex it holds itself (add_     *)
(* session and register_nickname close other sessions, which takes a       *)
(* shard's mutex) nor in a circle.  The bound on logins keeps unfair       *)
(* mutexes out of the picture.                                             *)
(***************************************************************************)
OperationsReturn == \A t \in Thread : pc[t] # "idle" ~> pc[t] = "idle"
=============================================================================
