------------------------- MODULE SessionMaintenance -------------------------
(***************************************************************************)
(* The maintenance operations of SessionManager and DataHandler, run by    *)
(* threads of their own beside everything SessionManager.tla has: the      *)
(* inactive-session sweep that start_cleanup_loop would run every minute,  *)
(* cleanup_unauth_sessions, do_keepalive_check, unregister_nickname and    *)
(* cleanup_expired_nicknames.  The program as shipped calls none of them   *)
(* (the calls are commented out, or never written); this module says what  *)
(* they do once they are switched on.                                      *)
(***************************************************************************)
EXTENDS SessionManager

CONSTANTS Operations,  \* the operations the cleaners call
          MaxIdle,     \* max_idle_time
          MaxUnauth,   \* max_unauth
          MaxClock,    \* bound on the clock
          MaxRounds    \* bound on the operations called

ASSUME SessionMaintenanceConfig ==
    /\ Operations \subseteq {"inactive", "unauth", "keepalive", "expired",
                             "unregister"}
    /\ {MaxIdle, MaxUnauth, MaxClock, MaxRounds} \subseteq Nat

VARIABLES clock,        \* steady_clock
          last_alive,   \* last_alive_time_ of each session
          handshaking,  \* sessions whose state_ is Handshaking
          mpc,          \* of each cleaner: the operation it is in
          now, shard, visiting, selected,  \* its locals
          seen,         \* history: the sessions it has looked at, or (the
                        \* sweep) that were registered when it was called
          rounds

cleanerVars == <<mpc, now, shard, visiting, selected, seen, rounds>>
mvars == <<clock, last_alive, handshaking, cleanerVars>>
allVars == <<vars, mvars>>

MInit ==
    /\ Init
    /\ clock = 0
    /\ last_alive = [s \in Sessions |-> 0]
    /\ handshaking = {}
    /\ mpc = [c \in Cleaners |-> "idle"]
    /\ now = [c \in Cleaners |-> 0]
    /\ shard = [c \in Cleaners |-> 0]
    /\ visiting = [c \in Cleaners |-> {}]
    /\ selected = [c \in Cleaners |-> {}]
    /\ seen = [c \in Cleaners |-> {}]
    /\ rounds = 0
-----------------------------------------------------------------------------
(***************************************************************************)
(* The steps of SessionManager.  The constructor of a session sets         *)
(* last_alive_time_ and nothing else ever does: update_alive_time has no   *)
(* caller.  A vector of shared_ptr keeps its sessions alive.               *)
(***************************************************************************)
ClosedNow ==
    {target[t] : t \in {u \in Thread : pc[u] = "close" /\ pc'[u] = "remove"}}

ManagerFollows ==
    /\ last_alive' = [s \in Sessions |->
                        IF s \in alive' \ alive THEN clock ELSE last_alive[s]]
    /\ handshaking' = {s \in handshaking \cup (alive' \ alive) :
                          nickname'[s] = none /\ s \notin ClosedNow}
    /\ \A c \in Cleaners :
          (alive \ alive') \cap (visiting[c] \cup selected[c]) = {}
    /\ UNCHANGED <<clock, cleanerVars>>

tick ==
    /\ clock < MaxClock
    /\ clock' = clock + 1
    /\ UNCHANGED <<vars, last_alive, handshaking, cleanerVars>>
-----------------------------------------------------------------------------
\* The timer of start_cleanup_loop, or another caller of operation o.  The
\* caller of unregister_nickname passes a session, the one that the comments
\* of register_nickname have in mind: a session that was closed.
call(c, o) ==
    /\ mpc[c] = "idle"
    /\ rounds < MaxRounds
    /\ rounds' = rounds + 1
    /\ mpc' = [mpc EXCEPT ![c] = o]
    /\ now' = [now EXCEPT ![c] = clock]
    /\ seen' = IF o = "inactive"
                 THEN [seen EXCEPT ![c] = {buckets[i] : i \in Id} \ {none}]
                 ELSE seen
    /\ selected' \in
          IF o = "unregister"
            THEN {[selected EXCEPT ![c] = {s}] : s \in alive \cap closed}
            ELSE {selected}
    /\ UNCHANGED <<vars, clock, last_alive, handshaking, shard, visiting>>

InShard(h) == {buckets[i] : i \in {j \in Id : get_shard(j) = h}} \ {none}

\* Mutant of Inactive: one tick of grace.
Inactive_too_late(c, s) == now[c] > last_alive[s] + MaxIdle + 1

Inactive(c, s) == now[c] > last_alive[s] + MaxIdle

(***************************************************************************)
(* The traversal, one shard at a time under its mutex: cleanup_inactive_   *)
(* sessions selects, for_each_session copies.                              *)
(***************************************************************************)
traverse(c) ==
    LET found == InShard(shard[c]) IN
    /\ mpc[c] \in {"inactive", "unauth", "keepalive"}
    /\ shard[c] < ShardCount
    /\ session_mutex[shard[c]] = none
    /\ shard' = [shard EXCEPT ![c] = @ + 1]
    /\ IF mpc[c] = "inactive"
         THEN /\ selected' = [selected EXCEPT ![c] =
                                @ \cup {s \in found : Inactive(c, s)}]
              /\ UNCHANGED visiting
         ELSE /\ visiting' = [visiting EXCEPT ![c] = @ \cup found]
              /\ UNCHANGED selected
    /\ UNCHANGED <<vars, clock, last_alive, handshaking, mpc, now, seen,
                   rounds>>

\* The callback of for_each_session, outside the locks.  The one of
\* do_keepalive_check selects nothing.
visit(c, s) ==
    /\ shard[c] = ShardCount
    /\ s \in visiting[c]
    /\ visiting' = [visiting EXCEPT ![c] = @ \ {s}]
    /\ seen' = [seen EXCEPT ![c] = @ \cup {s}]
    /\ selected' = [selected EXCEPT ![c] =
                      @ \cup ({s} \cap {u \in handshaking : mpc[c] = "unauth"})]
    /\ UNCHANGED <<vars, clock, last_alive, handshaking, mpc, now, shard,
                   rounds>>

\* Mutant of Surplus: one too few.
Surplus_off_by_one(c) ==
    IF Cardinality(selected[c]) > MaxUnauth + 1
      THEN Cardinality(selected[c]) - MaxUnauth - 1 ELSE 0

\* Number of sessions that cleanup_unauth_sessions closes.
Surplus(c) ==
    IF Cardinality(selected[c]) > MaxUnauth
      THEN Cardinality(selected[c]) - MaxUnauth ELSE 0

\* The sort, and the choice of the oldest; "closing" is the loop.
choose_oldest(c, oldest) ==
    /\ mpc[c] = "unauth"
    /\ shard[c] = ShardCount /\ visiting[c] = {}
    /\ oldest \subseteq selected[c]
    /\ Cardinality(oldest) = Surplus(c)
    /\ \A s \in oldest, u \in selected[c] \ oldest : last_alive[s] <= last_alive[u]
    /\ selected' = [selected EXCEPT ![c] = oldest]
    /\ mpc' = [mpc EXCEPT ![c] = "closing"]
    /\ UNCHANGED <<vars, clock, last_alive, handshaking, now, shard,
                   visiting, seen, rounds>>

Closing(c) ==
    /\ mpc[c] \in {"closing", "inactive"}
    /\ shard[c] = ShardCount
    /\ pc[c] = "idle"

\* The loop over the selected sessions: close_session of SessionManager.
close_selected(c, s) ==
    /\ Closing(c)
    /\ s \in selected[c]
    /\ selected' = [selected EXCEPT ![c] = @ \ {s}]
    /\ target' = [target EXCEPT ![c] = s]
    /\ Go(c, "close")
    /\ UNCHANGED <<session_counter, sessionVars, buckets, session_mutex,
                   nickname_index, nickname_mutex, accepting, wanted,
                   logins, clock, last_alive, handshaking, mpc, now, shard,
                   visiting, seen, rounds>>

close_selected_done(c) ==
    /\ pc[c] = "closed"
    /\ target' = [target EXCEPT ![c] = none]
    /\ Go(c, "idle")
    /\ UNCHANGED <<session_counter, sessionVars, buckets, session_mutex,
                   nickname_index, nickname_mutex, accepting, wanted,
                   logins, mvars>>

\* The operation returns; its locals are gone.
Leave(c) ==
    /\ mpc' = [mpc EXCEPT ![c] = "idle"]
    /\ now' = [now EXCEPT ![c] = 0]
    /\ shard' = [shard EXCEPT ![c] = 0]
    /\ seen' = [seen EXCEPT ![c] = {}]
    /\ UNCHANGED <<clock, last_alive, handshaking, visiting, selected, rounds>>

return(c) ==
    /\ \/ Closing(c) /\ selected[c] = {}
       \/ mpc[c] = "keepalive" /\ shard[c] = ShardCount /\ visiting[c] = {}
    /\ Leave(c)
    /\ UNCHANGED vars
-----------------------------------------------------------------------------
\* Mutant of MayErase: whoever has the nickname, it is erased.
MayErase_anybody(n, s) == nickname_index[n] \in alive

\* Only the session that registered last, if it exists, is erased.
MayErase(n, s) == nickname_index[n] \in alive /\ nickname_index[n] = s

\* unregister_nickname, up to its call of cleanup_expired_nicknames, which
\* it makes with nickname_mutex_ locked.
unregister_nickname(c, n, s) ==
    /\ mpc[c] = "unregister"
    /\ nickname_mutex = none
    /\ s \in selected[c]
    /\ selected' = [selected EXCEPT ![c] = {}]
    /\ nickname_mutex' = c
    /\ nickname_index' = IF MayErase(n, s)
                           THEN [nickname_index EXCEPT ![n] = none]
                           ELSE nickname_index
    /\ mpc' = [mpc EXCEPT ![c] = "expired"]
    /\ UNCHANGED <<session_counter, sessionVars, buckets, session_mutex,
                   accepting, localVars, logins, clock, last_alive,
                   handshaking, now, shard, visiting, seen, rounds>>

\* The lock_guard of cleanup_expired_nicknames waits for the mutex, also if
\* the thread itself has it (undefined; the mutexes of the targets wait).
cleanup_expired_nicknames(c) ==
    /\ mpc[c] = "expired"
    /\ nickname_mutex = none
    /\ nickname_index' = [n \in Nicknames |->
                            IF nickname_index[n] \in alive
                              THEN nickname_index[n] ELSE none]
    /\ Leave(c)
    /\ UNCHANGED <<session_counter, sessionVars, buckets, session_mutex,
                   nickname_mutex, accepting, localVars, logins>>
-----------------------------------------------------------------------------
Clean(c) ==
    \/ traverse(c)
    \/ \E s \in Sessions : visit(c, s)
    \/ \E oldest \in SUBSET Sessions : choose_oldest(c, oldest)
    \/ \E s \in Sessions : close_selected(c, s)
    \/ close_selected_done(c)
    \/ return(c)
    \/ \E n \in Nicknames, s \in Sessions : unregister_nickname(c, n, s)
    \/ cleanup_expired_nicknames(c)

MNext ==
    \/ Next /\ ManagerFollows
    \/ tick
    \/ \E c \in Cleaners, o \in Operations : call(c, o)
    \/ \E c \in Cleaners : Clean(c)

MSpec == MInit /\ [][MNext]_allVars

\* A thread inside an operation keeps running.
MFairSpec ==
    /\ MSpec
    /\ \A t \in Thread : WF_allVars(Run(t) /\ ManagerFollows)
    /\ \A c \in Cleaners : WF_allVars(Clean(c))
-----------------------------------------------------------------------------
(***************************************************************************)
(* When cleanup_unauth_sessions returns, no more than max_unauth of the    *)
(* sessions it found are still without a login and open, whatever logins,  *)
(* closes and accepts happened meanwhile.                                  *)
(***************************************************************************)
UnauthBounded ==
    \A c \in Cleaners :
        mpc[c] = "closing" /\ pc[c] = "idle" /\ selected[c] = {} =>
            Cardinality((seen[c] \cap handshaking) \ closed) <= MaxUnauth

(***************************************************************************)
(* When the sweep of start_cleanup_loop is through, no session that was in *)
(* the registry when the sweep was called is still open and older than     *)
(* max_idle_time at the moment the sweep read the clock, although the      *)
(* shards are walked one after another while sessions come and go (and the *)
(* ids have not come round, see TrackedUntilWrap).  Older, not idle        *)
(* longer: last_alive_time_ is the time of the construction.  A session    *)
(* that the acceptor registers behind the walk is left to the next sweep,  *)
(* however old it is by then.                                              *)
(***************************************************************************)
InactiveGone ==
    Cardinality(accepted) <= IdSpace =>
        \A c \in Cleaners :
            mpc[c] = "inactive" /\ shard[c] = ShardCount /\ pc[c] = "idle"
                    /\ selected[c] = {} =>
                \A s \in seen[c] \ closed : now[c] <= last_alive[s] + MaxIdle

(***************************************************************************)
(* unregister_nickname calls cleanup_expired_nicknames with                *)
(* nickname_mutex_ locked and waits for itself.  Nothing else that runs    *)
(* here can wait for ever: until that happens every login, close and sweep *)
(* comes to its end.                                                       *)
(***************************************************************************)
SelfDeadlock ==
    \E c \in Cleaners : mpc[c] = "expired" /\ nickname_mutex = c

OnlyUnregisterHangs ==
    /\ \A t \in Thread \ Cleaners :
          pc[t] # "idle" ~> pc[t] = "idle" \/ SelfDeadlock
    /\ \A c \in Cleaners : mpc[c] # "idle" ~> mpc[c] = "idle" \/ SelfDeadlock
=============================================================================
