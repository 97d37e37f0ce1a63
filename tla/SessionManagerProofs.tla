------------------------ MODULE SessionManagerProofs ------------------------
(***************************************************************************)
(* SessionManager and its maintenance operations, for any number of        *)
(* sessions, nicknames, shards, ids and cleaners.  ManagerInv is the       *)
(* inductive invariant of SessionManager.tla (Spec); MInv adds what the    *)
(* cleaners of SessionMaintenance.tla rely on (MSpec).                     *)
(***************************************************************************)
EXTENDS SessionMaintenance, FiniteSetTheorems, TLAPS

\* Ids are handed out in order: until the counter comes round, session s has
\* id s - 1 and nobody else has it.
IdInv ==
    /\ accepted = 1..Cardinality(accepted)
    /\ Cardinality(accepted) < IdSpace => session_counter = Cardinality(accepted)
    /\ \A s \in accepted : s <= IdSpace => session_id[s] = s - 1

\* Whatever the maps and the threads refer to has been accepted; a thread
\* past the exchange of closed_ has closed its target.
RefInv ==
    /\ \A i \in Id : buckets[i] \in accepted \cup {none}
    /\ \A n \in Nicknames : nickname_index[n] \in accepted \cup {none}
    /\ \A t \in Thread : target[t] \in accepted \cup {none}
    /\ \A t \in Thread : pc[t] \in {"close", "remove"} => target[t] # none
    /\ \A t \in Thread : pc[t] = "remove" => target[t] \in closed
    /\ \A s \in Sessions \ accepted : nickname[s] = none /\ pc[s] = "idle"

\* The session that the acceptor has made is in no bucket before add_session.
AcceptInv ==
    pc[Acceptor] = "insert" =>
        accepting \in accepted /\ \A i \in Id : buckets[i] # accepting

\* TrackedUntilWrap without its exception for sessions about to be closed:
\* a session is in its bucket until closed_ is set.
TrackInv ==
    Cardinality(accepted) <= IdSpace =>
        \A s \in accepted \ closed : ~Unregistered(s) => buckets[session_id[s]] = s

\* Inside close_session, or just returned from it.
InClose == {"close", "remove", "closed"}

\* s has nickname_mutex_ and is about to overwrite the entry: whoever is
\* there is closed, or s is on the way to close it.
Takeover(s) ==
    LET h == nickname_index[wanted[s]] IN
    h \in alive \ {s} => h \in closed \/ (pc[s] = "close" /\ target[s] = h)

\* Where the strand of s is in the login handler or in close_session.
LoginOf(s) ==
    /\ pc[s] \notin {"insert", "unlock"}
    /\ pc[s] = "idle" => wanted[s] = none
    /\ pc[s] \in {"set_nickname", "register"} => wanted[s] # none
    /\ pc[s] = "register" => nickname[s] = wanted[s]
    /\ pc[s] \in InClose /\ wanted[s] = none =>
         target[s] = s /\ (pc[s] # "close" => s \in closed)
    /\ pc[s] \in InClose /\ wanted[s] # none =>
         nickname_mutex = s /\ nickname[s] = wanted[s] /\ Takeover(s)

LoginInv == \A s \in Sessions : LoginOf(s)

\* The inductive invariant of the manager.
ManagerInv ==
    TypeOK /\ IdInv /\ RefInv /\ AcceptInv /\ TrackInv /\ LoginInv /\ NicknameOwner

\* The variables of the maintenance operations.
CleanerTypes ==
    /\ clock \in Nat
    /\ last_alive \in [Sessions -> Nat]
    /\ handshaking \subseteq accepted
    /\ mpc \in [Cleaners -> {"idle", "closing", "inactive", "unauth", "keepalive",
                             "expired", "unregister"}]
    /\ now \in [Cleaners -> Nat]
    /\ shard \in [Cleaners -> 0..ShardCount]
    /\ visiting \in [Cleaners -> SUBSET Sessions]
    /\ selected \in [Cleaners -> SUBSET Sessions]
    /\ seen \in [Cleaners -> SUBSET Sessions]

\* Which locals cleaner c has in which operation; it is in close_session only
\* from the loops of the sweep and of cleanup_unauth_sessions.
CleanerOf(c) ==
    /\ now[c] <= clock
    /\ visiting[c] \cup selected[c] \cup seen[c] \subseteq accepted
    /\ mpc[c] = "idle" => shard[c] = 0 /\ seen[c] = {}
    /\ mpc[c] = "inactive" => \A s \in seen[c] : ~Unregistered(s)
    /\ mpc[c] = "unregister" => selected[c] \subseteq closed
    /\ visiting[c] # {} => mpc[c] \in {"unauth", "keepalive"}
    /\ pc[c] \in InClose \cup {"idle"}
    /\ pc[c] # "idle" => mpc[c] \in {"closing", "inactive"} /\ shard[c] = ShardCount

\* c is going to close s.
Busy(c, s) == s \in selected[c] \/ (pc[c] = "close" /\ target[c] = s)

\* In the middle of the inactive sweep, an open session that was registered
\* when the sweep was called is young enough, in a shard still to come, or
\* going to be closed.
SweepOf(c) ==
    Cardinality(accepted) <= IdSpace /\ mpc[c] = "inactive" =>
        \A s \in seen[c] \ closed :
            \/ now[c] <= last_alive[s] + MaxIdle
            \/ shard[c] <= get_shard(session_id[s])
            \/ Busy(c, s)

\* What UnauthBounded counts.
Unauth(c) == (seen[c] \cap handshaking) \ closed

\* cleanup_unauth_sessions has selected all of Unauth(c), and then closes all
\* but a set R of at most MaxUnauth sessions.  R is fixed when the oldest are
\* chosen; Unauth(c) only shrinks from then on.
UnauthOf(c) ==
    /\ mpc[c] = "unauth" => Unauth(c) \subseteq selected[c]
    /\ mpc[c] = "closing" =>
         \E R \in SUBSET Sessions : /\ Cardinality(R) <= MaxUnauth
                                    /\ \A s \in Unauth(c) : s \in R \/ Busy(c, s)

\* All that holds of cleaner c.
AllOf(c) == CleanerOf(c) /\ SweepOf(c) /\ UnauthOf(c)

\* The inductive invariant of the maintenance operations.
MInv == ManagerInv /\ CleanerTypes /\ \A c \in Cleaners : AllOf(c)
-----------------------------------------------------------------------------
\* The kinds of thread are apart, IdSpace is no id, ids have shards.
LEMMA Basics ==
    /\ Sessions \subseteq Thread /\ Cleaners \subseteq Thread /\ Acceptor \in Thread
    /\ Acceptor \notin Sessions \cup Cleaners /\ Cleaners \cap Sessions = {}
    /\ none \notin Sessions /\ none \notin Nicknames
    /\ IdSpace \notin Id
    /\ \A i \in Id : get_shard(i) \in Shard
<1>1. IdSpace \in Nat \ {0} /\ ShardCount \in Nat \ {0}
  BY SessionManagerConfig
<1>2. IdSpace \notin Id
  BY <1>1 DEF Id
<1>3. \A i \in Id : get_shard(i) \in Shard
  BY <1>1 DEF Id, Shard, get_shard
<1> QED  BY <1>2, <1>3, SessionManagerConfig DEF Thread

\* A step of one thread.
LEMMA Goes ==
    ASSUME TypeOK, NEW t \in Thread, NEW l, Go(t, l)
    PROVE  /\ pc'[t] = l
           /\ \A u \in Thread : u # t => pc'[u] = pc[u]
           /\ l \in {"idle", "set_nickname", "register", "close", "remove", "closed", "insert", "unlock"}
                => pc' \in [Thread -> {"idle", "set_nickname", "register", "close",
                                       "remove", "closed", "insert", "unlock"}]
BY DEF TypeOK, Go

\* A session that the manager knows of has an id of its own.
LEMMA OwnId ==
    ASSUME IdInv, Cardinality(accepted) <= IdSpace, Cardinality(accepted) \in Nat,
           NEW s \in accepted, NEW u \in accepted, session_id[s] = session_id[u]
    PROVE  s = u
<1>1. IdSpace \in Nat
  BY SessionManagerConfig
<1>2. s \in Nat /\ u \in Nat /\ s <= IdSpace /\ u <= IdSpace
  BY <1>1 DEF IdInv
<1>3. session_id[s] = s - 1 /\ session_id[u] = u - 1
  BY <1>2 DEF IdInv
<1>4. \A m, n \in Nat : m - 1 = n - 1 => m = n
  OBVIOUS
<1> QED  BY <1>2, <1>3, <1>4

\* Sets of sessions are finite.
LEMMA AcceptedFinite ==
    /\ IsFiniteSet(Sessions) /\ IsFiniteSet(accepted) /\ accepted \subseteq Sessions
    /\ Cardinality(accepted) \in Nat
<1>1. IsFiniteSet(Sessions)
  BY SessionManagerConfig, FS_Interval DEF Sessions
<1>2. accepted \subseteq Sessions
  BY DEF accepted
<1> QED  BY <1>1, <1>2, FS_Subset, FS_CardinalityType

\* The ids stay as they are.
LEMMA IdFrame ==
    ASSUME UNCHANGED <<session_counter, session_id>>
    PROVE  accepted' = accepted /\ (IdInv => IdInv')
BY DEF accepted, IdInv

\* Whoever is not in its bucket yet is not in it after a step either that is
\* not the acceptor's, or that is before and after add_session.
LEMMA AcceptFrame ==
    ASSUME ManagerInv, UNCHANGED session_id,
           \/ pc'[Acceptor] = pc[Acceptor] /\ accepting' = accepting
           \/ "insert" \notin {pc[Acceptor], pc'[Acceptor]},
           \A i \in Id : buckets'[i] \in {buckets[i], none}
    PROVE  AcceptInv' /\ \A s : Unregistered(s)' <=> Unregistered(s)
<1>1. accepted' = accepted /\ none \notin accepted
  BY Basics, AcceptedFinite DEF accepted
<1> QED  BY <1>1 DEF ManagerInv, AcceptInv, Unregistered
-----------------------------------------------------------------------------
(***************************************************************************)
(* close_session, by a session, the acceptor or a cleaner.                 *)
(***************************************************************************)
LEMMA CloseSessionStep ==
    ASSUME ManagerInv, NEW t \in Thread, close_session(t)
    PROVE  ManagerInv'
<1>0. TypeOK /\ IdInv /\ RefInv /\ TrackInv /\ LoginInv /\ NicknameOwner
  BY DEF ManagerInv
<1>1. /\ pc[t] = "close" /\ closed' = closed \cup {target[t]}
      /\ pc'[t] \in {"closed", "remove"} /\ \A u \in Thread : u # t => pc'[u] = pc[u]
      /\ pc' \in [Thread -> {"idle", "set_nickname", "register", "close",
                             "remove", "closed", "insert", "unlock"}]
      /\ UNCHANGED <<session_counter, session_id, alive, nickname, buckets, session_mutex,
                     nickname_index, nickname_mutex, accepting, wanted, target, logins>>
  BY <1>0, Goes DEF close_session
<1>2. accepted' = accepted /\ IdInv'
  BY <1>0, <1>1, IdFrame
<1>3. target[t] \in accepted
  BY <1>0, <1>1 DEF RefInv
<1>4. TypeOK'
  BY <1>0, <1>1, <1>2, <1>3 DEF TypeOK
<1>5. RefInv'
  <2>1. \A s \in Sessions \ accepted : pc'[s] = "idle"
    BY <1>0, <1>1, Basics DEF RefInv
  <2> QED  BY <1>0, <1>1, <1>2, <1>3, <2>1 DEF RefInv
<1>a. AcceptInv' /\ \A s : Unregistered(s)' <=> Unregistered(s)
  BY <1>1, AcceptFrame, Basics
<1>6. TrackInv'
  BY <1>0, <1>1, <1>2, <1>a DEF TrackInv
<1>7. LoginInv'
  <2> SUFFICES ASSUME NEW s \in Sessions PROVE LoginOf(s)'
    BY DEF LoginInv
  <2>1. s \in Thread
    BY Basics
  <2>2. CASE s = t
    BY <1>0, <1>1, <2>1, <2>2 DEF LoginInv, LoginOf, InClose, Takeover
  <2>3. CASE s # t
    BY <1>0, <1>1, <2>1, <2>3 DEF LoginInv, LoginOf, InClose, Takeover
  <2> QED  BY <2>2, <2>3
<1>8. NicknameOwner'
  <2>1. alive \subseteq Thread
    BY <1>0, Basics, AcceptedFinite DEF TypeOK
  <2> QED  BY <1>0, <1>1, <2>1 DEF NicknameOwner
<1> QED  BY <1>2, <1>a, <1>4, <1>5, <1>6, <1>7, <1>8 DEF ManagerInv

\* The bucket that is emptied is the closed session's own.
LEMMA RemoveSessionStep ==
    ASSUME ManagerInv, NEW t \in Thread, remove_session(t)
    PROVE  ManagerInv'
<1>0. TypeOK /\ IdInv /\ RefInv /\ TrackInv /\ LoginInv /\ NicknameOwner
  BY DEF ManagerInv
<1> DEFINE id == session_id[target[t]]
<1>1. /\ pc[t] = "remove" /\ buckets' = [buckets EXCEPT ![id] = none]
      /\ pc'[t] = "closed" /\ \A u \in Thread : u # t => pc'[u] = pc[u]
      /\ pc' \in [Thread -> {"idle", "set_nickname", "register", "close",
                             "remove", "closed", "insert", "unlock"}]
      /\ UNCHANGED <<session_counter, session_id, closed, alive, nickname, session_mutex,
                     nickname_index, nickname_mutex, accepting, wanted, target, logins>>
  BY <1>0, Goes DEF remove_session, sessionVars
<1>2. accepted' = accepted /\ IdInv'
  BY <1>0, <1>1, IdFrame
<1>3. target[t] \in accepted /\ target[t] \in closed
  BY <1>0, <1>1 DEF RefInv
<1>b. /\ buckets' \in [Id -> Sessions \cup {none}]
      /\ \A i \in Id : buckets'[i] = IF i = id THEN none ELSE buckets[i]
  BY <1>0, <1>1 DEF TypeOK
<1>4. TypeOK'
  BY <1>0, <1>1, <1>2, <1>b DEF TypeOK
<1>5. RefInv'
  <2>1. \A s \in Sessions \ accepted : pc'[s] = "idle"
    BY <1>0, <1>1, Basics DEF RefInv
  <2> QED  BY <1>0, <1>1, <1>2, <1>3, <1>b, <2>1 DEF RefInv
<1>a. AcceptInv' /\ \A s : Unregistered(s)' <=> Unregistered(s)
  BY <1>1, <1>b, AcceptFrame, Basics
<1>6. TrackInv'
  <2> SUFFICES ASSUME Cardinality(accepted) <= IdSpace, NEW s \in accepted \ closed,
                      ~Unregistered(s)
               PROVE  buckets'[session_id[s]] = s
    BY <1>1, <1>2, <1>a DEF TrackInv
  <2>1. session_id[s] # id
    BY <1>0, <1>3, OwnId, AcceptedFinite
  <2>2. session_id[s] \in Id
    BY <1>0 DEF TypeOK, accepted
  <2> QED  BY <1>0, <1>b, <2>1, <2>2 DEF TrackInv
<1>7. LoginInv'
  <2> SUFFICES ASSUME NEW s \in Sessions PROVE LoginOf(s)'
    BY DEF LoginInv
  <2>1. s \in Thread
    BY Basics
  <2>2. CASE s = t
    BY <1>0, <1>1, <2>1, <2>2 DEF LoginInv, LoginOf, InClose, Takeover
  <2>3. CASE s # t
    BY <1>0, <1>1, <2>1, <2>3 DEF LoginInv, LoginOf, InClose, Takeover
  <2> QED  BY <2>2, <2>3
<1>8. NicknameOwner'
  <2>1. alive \subseteq Thread
    BY <1>0, Basics, AcceptedFinite DEF TypeOK
  <2> QED  BY <1>0, <1>1, <2>1 DEF NicknameOwner
<1> QED  BY <1>2, <1>a, <1>4, <1>5, <1>6, <1>7, <1>8 DEF ManagerInv

(***************************************************************************)
(* Steps that leave the sessions, their ids and the buckets alone: what    *)
(* has to be shown for them.                                               *)
(***************************************************************************)
LEMMA SameSessions ==
    ASSUME ManagerInv, UNCHANGED <<session_counter, session_id, closed, alive, buckets>>,
           \/ pc'[Acceptor] = pc[Acceptor] /\ accepting' = accepting
           \/ "insert" \notin {pc[Acceptor], pc'[Acceptor]},
           TypeOK', RefInv', LoginInv', NicknameOwner'
    PROVE  ManagerInv'
<1>1. accepted' = accepted /\ IdInv'
  BY IdFrame DEF ManagerInv
<1>2. AcceptInv' /\ \A s : Unregistered(s)' <=> Unregistered(s)
  BY AcceptFrame
<1>3. TrackInv'
  BY <1>1, <1>2 DEF ManagerInv, TrackInv
<1> QED  BY <1>1, <1>2, <1>3 DEF ManagerInv

\* The strand of a session that closes it itself.
LEMMA CloseSelfStep ==
    ASSUME ManagerInv, NEW s \in Sessions, close_self(s) \/ close_self_done(s)
    PROVE  ManagerInv'
<1>0. TypeOK /\ IdInv /\ RefInv /\ TrackInv /\ LoginInv /\ NicknameOwner /\ s \in Thread
  BY Basics DEF ManagerInv
<1>1. /\ close_self(s) => pc'[s] = "close" /\ target' = [target EXCEPT ![s] = s]
                          /\ pc[s] = "idle" /\ s \in alive
      /\ close_self_done(s) => pc'[s] = "idle" /\ target' = [target EXCEPT ![s] = none]
                               /\ pc[s] = "closed" /\ wanted[s] = none
      /\ \A u \in Thread : u # s => pc'[u] = pc[u]
      /\ pc' \in [Thread -> {"idle", "set_nickname", "register", "close",
                             "remove", "closed", "insert", "unlock"}]
      /\ UNCHANGED <<session_counter, session_id, closed, alive, nickname, buckets,
                     session_mutex, nickname_index, nickname_mutex, accepting, wanted, logins>>
  BY <1>0, Goes DEF close_self, close_self_done, sessionVars, Runs
<1>2. accepted' = accepted
  BY <1>1, IdFrame
<1>3. /\ target' \in [Thread -> Sessions \cup {none}]
      /\ \A u \in Thread : u # s => target'[u] = target[u]
      /\ target'[s] = IF close_self(s) THEN s ELSE none
  BY <1>0, <1>1 DEF TypeOK
<1>a. s \in accepted
  BY <1>0, <1>1 DEF TypeOK, RefInv
<1>4. TypeOK'
  BY <1>0, <1>1, <1>2, <1>3 DEF TypeOK
<1>5. RefInv'
  <2>1. \A u \in Sessions \ accepted : pc'[u] = "idle"
    BY <1>0, <1>1, <1>a, Basics DEF RefInv
  <2>2. \A u \in Thread : /\ target'[u] \in accepted \cup {none}
                          /\ pc'[u] \in {"close", "remove"} => target'[u] # none
                          /\ pc'[u] = "remove" => target'[u] \in closed
    BY <1>0, <1>1, <1>3, <1>a, Basics DEF RefInv
  <2> QED  BY <1>0, <1>1, <1>2, <2>1, <2>2 DEF RefInv
<1>6. LoginInv'
  <2> SUFFICES ASSUME NEW u \in Sessions PROVE LoginOf(u)'
    BY DEF LoginInv
  <2>1. u \in Thread
    BY Basics
  <2>2. CASE u = s
    BY <1>0, <1>1, <1>3, <2>1, <2>2 DEF LoginInv, LoginOf, InClose, Takeover
  <2>3. CASE u # s
    BY <1>0, <1>1, <1>3, <2>1, <2>3 DEF LoginInv, LoginOf, InClose, Takeover
  <2> QED  BY <2>2, <2>3
<1>7. NicknameOwner'
  <2>1. alive \subseteq Thread
    BY <1>0, Basics, AcceptedFinite DEF TypeOK
  <2>2. close_self_done(s) => s \in closed
    BY <1>0, <1>1 DEF LoginInv, LoginOf, InClose
  <2> QED  BY <1>0, <1>1, <2>1, <2>2 DEF NicknameOwner
<1> QED  BY <1>1, <1>4, <1>5, <1>6, <1>7, SameSessions, Basics

\* The end of a session object, and closed_ set by enqueue_write.
LEMMA OverflowDestroyStep ==
    ASSUME ManagerInv, NEW s \in Sessions, write_queue_overflow(s) \/ destroy(s)
    PROVE  ManagerInv'
<1>0. TypeOK /\ IdInv /\ RefInv /\ TrackInv /\ LoginInv /\ NicknameOwner /\ s \in Thread
  BY Basics DEF ManagerInv
<1>1. /\ s \in alive /\ closed \subseteq closed' /\ closed' \subseteq closed \cup {s}
      /\ alive' \subseteq alive
      /\ UNCHANGED <<session_counter, session_id, nickname, buckets, session_mutex,
                     nickname_index, nickname_mutex, accepting, pc, wanted, target, logins>>
  BY DEF write_queue_overflow, destroy, Runs, localVars
<1>2. accepted' = accepted /\ IdInv'
  BY <1>0, <1>1, IdFrame
<1>3. TypeOK'
  BY <1>0, <1>1, <1>2 DEF TypeOK
<1>4. RefInv'
  BY <1>0, <1>1, <1>2 DEF RefInv
<1>a. AcceptInv' /\ \A u : Unregistered(u)' <=> Unregistered(u)
  BY <1>1, AcceptFrame
<1>5. TrackInv'
  BY <1>0, <1>1, <1>2, <1>a DEF TrackInv
<1>6. LoginInv'
  BY <1>0, <1>1 DEF LoginInv, LoginOf, Takeover
<1>7. NicknameOwner'
  BY <1>0, <1>1 DEF NicknameOwner
<1> QED  BY <1>2, <1>a, <1>3, <1>4, <1>5, <1>6, <1>7 DEF ManagerInv

\* The acceptor after add_session has filled the bucket.
LEMMA AcceptorStep ==
    ASSUME ManagerInv, add_session_unlock \/ start_session
    PROVE  ManagerInv'
<1>0. TypeOK /\ IdInv /\ RefInv /\ TrackInv /\ LoginInv /\ NicknameOwner /\ Acceptor \in Thread
  BY Basics DEF ManagerInv
<1>1. /\ pc[Acceptor] \in {"unlock", "closed"} /\ pc'[Acceptor] \in {"closed", "close", "idle"}
      /\ pc'[Acceptor] = "close" => target'[Acceptor] # none
      /\ target' \in [Thread -> Sessions \cup {none}]
      /\ target'[Acceptor] \in {target[Acceptor], none}
      /\ \A u \in Thread : u # Acceptor => pc'[u] = pc[u] /\ target'[u] = target[u]
      /\ pc' \in [Thread -> {"idle", "set_nickname", "register", "close",
                             "remove", "closed", "insert", "unlock"}]
      /\ session_mutex' \in [Shard -> {Acceptor, none}]
      /\ accepting' \in Sessions \cup {none}
      /\ UNCHANGED <<session_counter, session_id, closed, alive, nickname, buckets,
                     nickname_index, nickname_mutex, wanted, logins>>
  <2>1. CASE add_session_unlock
    <3>1. /\ pc[Acceptor] = "unlock"
          /\ Go(Acceptor, IF target[Acceptor] \in {none} \cup closed THEN "closed" ELSE "close")
          /\ session_mutex' = [session_mutex EXCEPT ![get_shard(session_id[accepting])] = none]
          /\ UNCHANGED <<session_counter, session_id, closed, alive, nickname, buckets,
                         nickname_index, nickname_mutex, accepting, wanted, target, logins>>
      BY <2>1 DEF add_session_unlock, sessionVars
    <3>2. /\ pc'[Acceptor] = IF target[Acceptor] \in {none} \cup closed THEN "closed" ELSE "close"
          /\ \A u \in Thread : u # Acceptor => pc'[u] = pc[u]
          /\ pc' \in [Thread -> {"idle", "set_nickname", "register", "close",
                                 "remove", "closed", "insert", "unlock"}]
      BY <1>0, <3>1, Goes
    <3>3. session_mutex' \in [Shard -> {Acceptor, none}]
      BY <1>0, <3>1 DEF TypeOK
    <3> QED  BY <1>0, <3>1, <3>2, <3>3 DEF TypeOK
  <2>2. CASE start_session
    BY <1>0, <2>2, Goes DEF start_session, sessionVars, TypeOK
  <2> QED  BY <2>1, <2>2
<1>2. accepted' = accepted
  BY <1>1, IdFrame
<1>3. TypeOK'
  BY <1>0, <1>1, <1>2 DEF TypeOK
<1>4. RefInv'
  <2>1. \A u \in Sessions \ accepted : pc'[u] = "idle"
    BY <1>0, <1>1, Basics DEF RefInv
  <2>2. \A u \in Thread : /\ target'[u] \in accepted \cup {none}
                          /\ pc'[u] \in {"close", "remove"} => target'[u] # none
                          /\ pc'[u] = "remove" => target'[u] \in closed
    BY <1>0, <1>1, Basics DEF RefInv
  <2> QED  BY <1>0, <1>1, <1>2, <2>1, <2>2 DEF RefInv
<1>s. \A u \in Sessions : u \in Thread /\ pc'[u] = pc[u] /\ target'[u] = target[u]
  BY <1>1, Basics
<1>5. LoginInv'
  BY <1>0, <1>1, <1>s DEF LoginInv, LoginOf, Takeover
<1>6. NicknameOwner'
  <2>1. alive \subseteq Sessions
    BY <1>0, AcceptedFinite DEF TypeOK
  <2> QED  BY <1>0, <1>1, <1>s, <2>1 DEF NicknameOwner
<1> QED  BY <1>1, <1>3, <1>4, <1>5, <1>6, SameSessions

(***************************************************************************)
(* The new session.  Until the counter comes round, its id is nobody       *)
(* else's.                                                                 *)
(***************************************************************************)
LEMMA ConstructStep ==
    ASSUME ManagerInv, NEW s \in Sessions, construct_session(s)
    PROVE  /\ ManagerInv'
           /\ s \notin accepted /\ accepted' = accepted \cup {s}
           /\ Cardinality(accepted') = Cardinality(accepted) + 1
           /\ session_id' = [session_id EXCEPT ![s] = session_counter]
<1>0. TypeOK /\ IdInv /\ RefInv /\ TrackInv /\ LoginInv /\ NicknameOwner /\ Acceptor \in Thread
  BY Basics DEF ManagerInv
<1> DEFINE id == session_counter
           k  == Cardinality(accepted)
<1>1. /\ pc[Acceptor] = "idle" /\ s = k + 1
      /\ session_counter' = (session_counter + 1) % IdSpace
      /\ session_id' = [session_id EXCEPT ![s] = id]
      /\ alive' = alive \cup {s}
      /\ accepting' = s
      /\ Go(Acceptor, "insert")
      /\ UNCHANGED <<closed, nickname, buckets, session_mutex, nickname_index, nickname_mutex,
                     wanted, target, logins>>
  BY DEF construct_session
<1>2. /\ pc'[Acceptor] = "insert" /\ \A u \in Thread : u # Acceptor => pc'[u] = pc[u]
      /\ pc' \in [Thread -> {"idle", "set_nickname", "register", "close",
                             "remove", "closed", "insert", "unlock"}]
  BY <1>0, <1>1, Goes
<1>n. /\ IdSpace \in Nat \ {0} /\ k \in Nat /\ s \in Nat /\ id \in Id /\ id \in Nat /\ id < IdSpace
      /\ IsFiniteSet(accepted) /\ accepted = 1..k
  <2>1. id \in Id /\ accepted = 1..k
    BY <1>0 DEF TypeOK, IdInv
  <2> HIDE DEF id
  <2>2. id \in Nat /\ id < IdSpace
    BY <2>1, SessionManagerConfig DEF Id
  <2> QED  BY <2>1, <2>2, SessionManagerConfig, AcceptedFinite DEF Sessions
<1>a. s \notin accepted /\ accepted' = accepted \cup {s}
  <2>1. s \notin accepted
    <3> HIDE DEF k
    <3> QED  BY <1>1, <1>n
  <2>2. /\ session_id'[s] = id /\ id # IdSpace
        /\ \A u \in Sessions : u # s => session_id'[u] = session_id[u]
    BY <1>0, <1>1, <1>n DEF TypeOK
  <2> QED  BY <2>1, <2>2 DEF accepted
<1>k. Cardinality(accepted') = k + 1
  BY <1>n, <1>a, FS_AddElement
<1> HIDE DEF k, id
<1>c. session_counter' \in Id /\ (k + 1 < IdSpace => session_counter' = k + 1)
  <2>1. (id + 1) % IdSpace \in 0..(IdSpace - 1)
    BY <1>n
  <2>2. ASSUME k + 1 < IdSpace PROVE (id + 1) % IdSpace = k + 1
    <3>1. id = k
      BY <1>0, <1>n, <2>2 DEF IdInv, k, id
    <3> QED  BY <1>n, <2>2, <3>1
  <2> QED  BY <1>1, <2>1, <2>2 DEF Id, id
<1>s. /\ session_id' \in [Sessions -> Id \cup {IdSpace}]
      /\ session_id'[s] = id /\ \A u \in accepted : session_id'[u] = session_id[u]
  BY <1>0, <1>1, <1>n, <1>a DEF TypeOK, accepted
<1>3. TypeOK'
  <2>1. closed' \subseteq accepted' /\ alive' \subseteq accepted'
    BY <1>0, <1>1, <1>a DEF TypeOK
  <2> QED  BY <1>0, <1>1, <1>2, <1>c, <1>s, <2>1 DEF TypeOK
<1>4. IdInv'
  <2>1. accepted' = 1..(k + 1)
    BY <1>1, <1>n, <1>a
  <2>2. ASSUME NEW u \in accepted', u <= IdSpace PROVE session_id'[u] = u - 1
    <3>1. CASE u = s
      <4>1. k < IdSpace
        BY <1>1, <1>n, <2>2, <3>1
      <4>2. id = k
        BY <1>0, <4>1 DEF IdInv, k, id
      <4>3. k = s - 1
        BY <1>1, <1>n
      <4> QED  BY <1>s, <3>1, <4>2, <4>3
    <3>2. CASE u # s
      BY <1>0, <1>a, <1>s, <2>2, <3>2 DEF IdInv
    <3> QED  BY <3>1, <3>2
  <2> QED  BY <1>k, <1>c, <2>1, <2>2 DEF IdInv
<1>5. RefInv'
  <2>1. \A u \in Sessions \ accepted' : nickname'[u] = none /\ pc'[u] = "idle"
    BY <1>0, <1>1, <1>2, <1>a, Basics DEF RefInv
  <2>2. \A u \in Thread : /\ target'[u] \in accepted' \cup {none}
                          /\ pc'[u] \in {"close", "remove"} => target'[u] # none
                          /\ pc'[u] = "remove" => target'[u] \in closed'
    BY <1>0, <1>1, <1>2, <1>a DEF RefInv
  <2> QED  BY <1>0, <1>1, <1>a, <2>1, <2>2 DEF RefInv
<1>6. AcceptInv' /\ TrackInv'
  <2>1. AcceptInv'
    BY <1>0, <1>1, <1>a, Basics DEF RefInv, AcceptInv
  <2>2. ASSUME k + 1 <= IdSpace, NEW u \in accepted' \ closed', ~Unregistered(u)'
        PROVE  buckets'[session_id'[u]] = u
    <3>1. u # s
      BY <1>1, <1>2, <2>2 DEF Unregistered
    <3>2. u \in accepted \ closed /\ session_id'[u] = session_id[u] /\ ~Unregistered(u)
      BY <1>1, <1>a, <1>s, <2>2, <3>1 DEF Unregistered
    <3>3. k <= IdSpace
      BY <1>n, <2>2
    <3> QED  BY <1>0, <1>1, <3>2, <3>3 DEF TrackInv, k
  <2> QED  BY <1>k, <2>1, <2>2 DEF TrackInv
<1>u. \A u \in Sessions : u \in Thread /\ pc'[u] = pc[u] /\ target'[u] = target[u]
  BY <1>1, <1>2, Basics
<1>7. LoginInv'
  <2> SUFFICES ASSUME NEW u \in Sessions PROVE LoginOf(u)'
    BY DEF LoginInv
  <2>1. wanted[u] \in Nicknames \cup {none} /\ LoginOf(u)
    BY <1>0, <1>u DEF TypeOK, LoginInv
  <2>2. wanted[u] # none => nickname_index[wanted[u]] # s
    BY <1>0, <1>a, <2>1, Basics DEF RefInv
  <2> QED  BY <1>1, <1>u, <2>1, <2>2 DEF LoginOf, Takeover
<1>8. NicknameOwner'
  <2>1. alive \subseteq Sessions /\ nickname[s] = none
    BY <1>0, <1>a, AcceptedFinite DEF TypeOK, RefInv
  <2> QED  BY <1>0, <1>1, <1>u, <2>1 DEF NicknameOwner
<1> QED  BY <1>1, <1>3, <1>4, <1>5, <1>6, <1>7, <1>8, <1>a, <1>k DEF ManagerInv, k, id

(***************************************************************************)
(* add_session.  The bucket it fills is nobody else's until the counter    *)
(* comes round.                                                            *)
(***************************************************************************)
LEMMA AddSessionStep ==
    ASSUME ManagerInv, add_session
    PROVE  ManagerInv'
<1>0. /\ TypeOK /\ IdInv /\ RefInv /\ AcceptInv /\ TrackInv /\ LoginInv /\ NicknameOwner
      /\ Acceptor \in Thread
  BY Basics DEF ManagerInv
<1> DEFINE s == accepting
           id == session_id[s]
<1>1. /\ pc[Acceptor] = "insert"
      /\ session_mutex' = [session_mutex EXCEPT ![get_shard(id)] = Acceptor]
      /\ target' = [target EXCEPT ![Acceptor] = buckets[id]]
      /\ buckets' = [buckets EXCEPT ![id] = s]
      /\ Go(Acceptor, "unlock")
      /\ UNCHANGED <<session_counter, session_id, closed, alive, nickname, nickname_index,
                     nickname_mutex, accepting, wanted, logins>>
  BY DEF add_session, sessionVars
<1>2. /\ pc'[Acceptor] = "unlock" /\ \A u \in Thread : u # Acceptor => pc'[u] = pc[u]
      /\ pc' \in [Thread -> {"idle", "set_nickname", "register", "close",
                             "remove", "closed", "insert", "unlock"}]
  BY <1>0, <1>1, Goes
<1>3. accepted' = accepted /\ IdInv'
  BY <1>0, <1>1, IdFrame
<1>n. s \in accepted /\ s \in Sessions /\ id \in Id
  BY <1>0, <1>1, AcceptedFinite DEF AcceptInv, TypeOK, accepted
<1> HIDE DEF id, s
<1>t. /\ target' \in [Thread -> Sessions \cup {none}]
      /\ target'[Acceptor] = buckets[id] /\ buckets[id] \in accepted \cup {none}
      /\ \A u \in Thread : u # Acceptor => target'[u] = target[u]
  BY <1>0, <1>1, <1>n DEF TypeOK, RefInv
<1>b. /\ buckets' \in [Id -> Sessions \cup {none}]
      /\ buckets'[id] = s /\ \A i \in Id : i # id => buckets'[i] = buckets[i]
  BY <1>0, <1>1, <1>n DEF TypeOK
<1>4. TypeOK'
  <2>1. session_mutex' \in [Shard -> {Acceptor, none}]
    BY <1>0, <1>1 DEF TypeOK
  <2> QED  BY <1>0, <1>1, <1>2, <1>3, <1>t, <1>b, <2>1 DEF TypeOK
<1>5. RefInv'
  <2>1. \A u \in Sessions \ accepted : pc'[u] = "idle"
    BY <1>0, <1>2, Basics DEF RefInv
  <2>2. \A u \in Thread : /\ target'[u] \in accepted \cup {none}
                          /\ pc'[u] \in {"close", "remove"} => target'[u] # none
                          /\ pc'[u] = "remove" => target'[u] \in closed
    BY <1>0, <1>2, <1>t DEF RefInv
  <2>3. \A i \in Id : buckets'[i] \in accepted \cup {none}
    BY <1>0, <1>n, <1>b DEF RefInv
  <2> QED  BY <1>0, <1>1, <1>3, <2>1, <2>2, <2>3 DEF RefInv
<1>6. AcceptInv' /\ TrackInv'
  <2>1. AcceptInv'
    BY <1>2 DEF AcceptInv
  <2>2. ASSUME Cardinality(accepted) <= IdSpace, NEW u \in accepted \ closed
        PROVE  buckets'[session_id[u]] = u
    <3>1. CASE u = s
      BY <1>b, <3>1 DEF id
    <3>2. CASE u # s
      <4>1. session_id[u] # id
        BY <1>0, <1>n, <2>2, <3>2, OwnId, AcceptedFinite DEF id
      <4>2. session_id[u] \in Id
        BY <1>0 DEF TypeOK, accepted
      <4>3. ~Unregistered(u)
        BY <3>2 DEF Unregistered, s
      <4> QED  BY <1>0, <1>b, <2>2, <4>1, <4>2, <4>3 DEF TrackInv
    <3> QED  BY <3>1, <3>2
  <2> QED  BY <1>1, <1>3, <2>1, <2>2 DEF TrackInv
<1>u. \A u \in Sessions : u \in Thread /\ pc'[u] = pc[u] /\ target'[u] = target[u]
  BY <1>2, <1>t, Basics
<1>7. LoginInv'
  BY <1>0, <1>1, <1>u DEF LoginInv, LoginOf, Takeover
<1>8. NicknameOwner'
  <2>1. alive \subseteq Sessions
    BY <1>0, AcceptedFinite DEF TypeOK
  <2> QED  BY <1>0, <1>1, <1>u, <2>1 DEF NicknameOwner
<1> QED  BY <1>3, <1>4, <1>5, <1>6, <1>7, <1>8 DEF ManagerInv

(***************************************************************************)
(* The login handler.                                                      *)
(***************************************************************************)
LEMMA LoginStep ==
    ASSUME ManagerInv, NEW s \in Sessions,
           \/ \E n \in Nicknames : login(s, n)
           \/ set_nickname(s)
    PROVE  ManagerInv'
<1>0. TypeOK /\ IdInv /\ RefInv /\ TrackInv /\ LoginInv /\ NicknameOwner /\ s \in Thread
  BY Basics DEF ManagerInv
<1>1. UNCHANGED <<session_counter, session_id, closed, alive, buckets, session_mutex,
                  nickname_index, nickname_mutex, accepting, target>>
  BY DEF login, set_nickname, sessionVars, localVars
<1>2. accepted' = accepted
  BY <1>1, IdFrame
<1>a. alive \subseteq Sessions /\ alive \subseteq accepted
  BY <1>0, AcceptedFinite DEF TypeOK
<1>3. ASSUME NEW n \in Nicknames, login(s, n) PROVE ManagerInv'
  <2>1. /\ s \in accepted /\ pc[s] = "idle" /\ logins' \in 0..MaxLogins
        /\ nickname' = nickname
    <3>1. logins < MaxLogins /\ logins' = logins + 1 /\ logins \in 0..MaxLogins
      BY <1>0, <1>3 DEF login, TypeOK
    <3>2. logins' \in 0..MaxLogins
      BY <3>1, SessionManagerConfig
    <3> QED  BY <1>3, <1>a, <3>2 DEF login, Runs, sessionVars
  <2>2. CASE UNCHANGED localVars
    <3>1. TypeOK' /\ RefInv'
      BY <1>0, <1>1, <1>2, <2>1, <2>2 DEF localVars, TypeOK, RefInv
    <3>2. LoginInv' /\ NicknameOwner'
      BY <1>0, <1>1, <2>1, <2>2 DEF localVars, LoginInv, LoginOf, Takeover, NicknameOwner
    <3> QED  BY <1>1, <2>2, <3>1, <3>2, SameSessions DEF localVars
  <2>3. CASE Go(s, "set_nickname") /\ wanted' = [wanted EXCEPT ![s] = n]
    <3>1. /\ pc'[s] = "set_nickname" /\ \A u \in Thread : u # s => pc'[u] = pc[u]
          /\ pc' \in [Thread -> {"idle", "set_nickname", "register", "close",
                                 "remove", "closed", "insert", "unlock"}]
      BY <1>0, <2>3, Goes
    <3>2. /\ wanted' \in [Thread -> Nicknames \cup {none}]
          /\ wanted'[s] = n /\ \A u \in Thread : u # s => wanted'[u] = wanted[u]
      BY <1>0, <2>3 DEF TypeOK
    <3>3. TypeOK'
      BY <1>0, <1>1, <1>2, <2>1, <3>1, <3>2 DEF TypeOK
    <3>4. RefInv'
      BY <1>0, <1>1, <1>2, <2>1, <3>1, Basics DEF RefInv
    <3>5. LoginInv'
      <4> SUFFICES ASSUME NEW u \in Sessions PROVE LoginOf(u)'
        BY DEF LoginInv
      <4>1. u \in Thread /\ LoginOf(u)
        BY <1>0, Basics DEF LoginInv
      <4>2. CASE u = s
        BY <3>1, <3>2, <4>2, Basics DEF LoginOf, InClose
      <4>3. CASE u # s
        BY <1>1, <2>1, <3>1, <3>2, <4>1, <4>3 DEF LoginOf, Takeover
      <4> QED  BY <4>2, <4>3
    <3>6. NicknameOwner'
      BY <1>0, <1>1, <1>a, <2>1, <3>1, Basics DEF NicknameOwner
    <3>7. pc'[Acceptor] = pc[Acceptor]
      BY <3>1, Basics
    <3> QED  BY <1>1, <3>3, <3>4, <3>5, <3>6, <3>7, SameSessions
  <2> QED  BY <1>3, <2>2, <2>3 DEF login
<1>4. CASE set_nickname(s)
  <2>1. /\ pc[s] = "set_nickname" /\ pc'[s] = "register"
        /\ \A u \in Thread : u # s => pc'[u] = pc[u]
        /\ pc' \in [Thread -> {"idle", "set_nickname", "register", "close",
                               "remove", "closed", "insert", "unlock"}]
        /\ wanted' = wanted /\ logins' = logins
    BY <1>0, <1>4, Goes DEF set_nickname
  <2>2. /\ nickname' \in [Sessions -> Nicknames \cup {none}]
        /\ nickname'[s] = wanted[s] /\ \A u \in Sessions : u # s => nickname'[u] = nickname[u]
    BY <1>0, <1>4 DEF set_nickname, TypeOK
  <2>3. TypeOK'
    BY <1>0, <1>1, <1>2, <2>1, <2>2 DEF TypeOK
  <2>4. RefInv'
    BY <1>0, <1>1, <1>2, <2>1, <2>2, Basics DEF RefInv
  <2>5. LoginInv'
    <3> SUFFICES ASSUME NEW u \in Sessions PROVE LoginOf(u)'
      BY DEF LoginInv
    <3>1. u \in Thread /\ LoginOf(u)
      BY <1>0, Basics DEF LoginInv
    <3>2. CASE u = s
      BY <2>1, <2>2, <3>1, <3>2 DEF LoginOf, InClose
    <3>3. CASE u # s
      BY <1>1, <2>1, <2>2, <3>1, <3>3 DEF LoginOf, Takeover
    <3> QED  BY <3>2, <3>3
  <2>6. NicknameOwner'
    BY <1>0, <1>1, <1>a, <2>1, <2>2, Basics DEF NicknameOwner
  <2>7. pc'[Acceptor] = pc[Acceptor]
    BY <2>1, Basics
  <2> QED  BY <1>1, <2>3, <2>4, <2>5, <2>6, <2>7, SameSessions
<1> QED  BY <1>3, <1>4

(***************************************************************************)
(* register_nickname.  Whoever is in the index when nickname_mutex_ is     *)
(* taken stays there until the entry is overwritten, and is closed by then.*)
(***************************************************************************)
LEMMA RegisterStep ==
    ASSUME ManagerInv, NEW s \in Sessions, register_nickname(s)
    PROVE  ManagerInv'
<1>0. TypeOK /\ IdInv /\ RefInv /\ TrackInv /\ LoginInv /\ NicknameOwner /\ s \in Thread
  BY Basics DEF ManagerInv
<1> DEFINE h == nickname_index[wanted[s]]
<1>1. /\ pc[s] = "register" /\ nickname_mutex = none /\ nickname_mutex' = s
      /\ UNCHANGED <<session_counter, session_id, closed, alive, nickname, buckets,
                     session_mutex, nickname_index, accepting, wanted, logins>>
  BY DEF register_nickname, sessionVars
<1>2. accepted' = accepted
  BY <1>1, IdFrame
<1>a. alive \subseteq Sessions /\ alive \subseteq accepted /\ s \in accepted
  BY <1>0, <1>1, AcceptedFinite DEF TypeOK, RefInv
<1>3. \/ Go(s, "closed") /\ target' = target /\ h \notin alive \ {s}
      \/ Go(s, "close") /\ target' = [target EXCEPT ![s] = h] /\ h \in alive
  <2> DEFINE prev == find_session_by_nickname(wanted[s])
  <2>1. /\ prev \in {none, s} => Go(s, "closed") /\ target' = target
        /\ prev \notin {none, s} => Go(s, "close") /\ target' = [target EXCEPT ![s] = prev]
    BY DEF register_nickname
  <2>2. prev = IF h \in alive THEN h ELSE none
    BY DEF find_session_by_nickname
  <2>3. none \notin alive
    BY <1>a, Basics
  <2> HIDE DEF prev
  <2>4. CASE prev \in {none, s}
    BY <2>1, <2>2, <2>3, <2>4
  <2>5. CASE prev \notin {none, s}
    BY <2>1, <2>2, <2>5
  <2> QED  BY <2>4, <2>5
<1>4. /\ pc'[s] \in {"close", "closed"} /\ \A u \in Thread : u # s => pc'[u] = pc[u]
      /\ pc' \in [Thread -> {"idle", "set_nickname", "register", "close",
                             "remove", "closed", "insert", "unlock"}]
      /\ pc'[s] = "close" => target' = [target EXCEPT ![s] = h] /\ h \in alive
      /\ pc'[s] = "closed" => target' = target /\ h \notin alive \ {s}
  BY <1>0, <1>3, Goes
<1>5. /\ target' \in [Thread -> Sessions \cup {none}]
      /\ \A u \in Thread : u # s => target'[u] = target[u]
      /\ pc'[s] = "close" => target'[s] = h
      /\ target'[s] \in accepted \cup {none}
  BY <1>0, <1>4, <1>a DEF TypeOK, RefInv
<1>6. TypeOK'
  BY <1>0, <1>1, <1>2, <1>4, <1>5 DEF TypeOK
<1>7. RefInv'
  <2>1. \A u \in Sessions \ accepted : pc'[u] = "idle"
    BY <1>0, <1>4, <1>a, Basics DEF RefInv
  <2>2. \A u \in Thread : /\ target'[u] \in accepted \cup {none}
                          /\ pc'[u] \in {"close", "remove"} => target'[u] # none
                          /\ pc'[u] = "remove" => target'[u] \in closed
    BY <1>0, <1>4, <1>5, <1>a, Basics DEF RefInv
  <2> QED  BY <1>0, <1>1, <1>2, <2>1, <2>2 DEF RefInv
<1>8. LoginInv'
  <2> SUFFICES ASSUME NEW u \in Sessions PROVE LoginOf(u)'
    BY DEF LoginInv
  <2>1. u \in Thread /\ LoginOf(u)
    BY <1>0, Basics DEF LoginInv
  <2>2. CASE u = s
    BY <1>1, <1>4, <1>5, <2>1, <2>2 DEF LoginOf, Takeover
  <2>3. CASE u # s
    BY <1>1, <1>4, <1>5, <2>1, <2>3, Basics DEF LoginOf, Takeover
  <2> QED  BY <2>2, <2>3
<1>9. NicknameOwner'
  BY <1>0, <1>1, <1>4, <1>a, Basics DEF NicknameOwner
<1>10. pc'[Acceptor] = pc[Acceptor]
  BY <1>4, Basics
<1> QED  BY <1>1, <1>6, <1>7, <1>8, <1>9, <1>10, SameSessions

\* The nickname changes hands: its last owner is closed by now.
LEMMA OverwriteStep ==
    ASSUME ManagerInv, NEW s \in Sessions, overwrite_nickname(s)
    PROVE  ManagerInv'
<1>0. TypeOK /\ IdInv /\ RefInv /\ TrackInv /\ LoginInv /\ NicknameOwner /\ s \in Thread
  BY Basics DEF ManagerInv
<1> DEFINE n == wanted[s]
<1>1. /\ pc[s] = "closed" /\ n # none
      /\ nickname_index' = [nickname_index EXCEPT ![n] = s] /\ nickname_mutex' = none
      /\ pc'[s] = "idle" /\ \A u \in Thread : u # s => pc'[u] = pc[u]
      /\ pc' \in [Thread -> {"idle", "set_nickname", "register", "close",
                             "remove", "closed", "insert", "unlock"}]
      /\ UNCHANGED <<session_counter, session_id, closed, alive, nickname, buckets,
                     session_mutex, accepting, logins>>
  BY <1>0, Goes DEF overwrite_nickname, sessionVars
<1>2. accepted' = accepted
  BY <1>1, IdFrame
<1>3. /\ wanted' \in [Thread -> Nicknames \cup {none}] /\ target' \in [Thread -> Sessions \cup {none}]
      /\ wanted'[s] = none /\ target'[s] = none
      /\ \A u \in Thread : u # s => wanted'[u] = wanted[u] /\ target'[u] = target[u]
  BY <1>0 DEF overwrite_nickname, TypeOK
<1>4. /\ n \in Nicknames /\ nickname_index' \in [Nicknames -> Sessions \cup {none}]
      /\ nickname_index'[n] = s
      /\ \A m \in Nicknames : m # n => nickname_index'[m] = nickname_index[m]
  BY <1>0, <1>1 DEF TypeOK
<1>5. /\ nickname_mutex = s /\ nickname[s] = n
      /\ nickname_index[n] \in alive \ {s} => nickname_index[n] \in closed
  BY <1>0, <1>1 DEF LoginInv, LoginOf, InClose, Takeover
<1>a. alive \subseteq Sessions /\ alive \subseteq accepted /\ s \in accepted
  BY <1>0, <1>1, AcceptedFinite DEF TypeOK, RefInv
<1>6. TypeOK'
  BY <1>0, <1>1, <1>2, <1>3, <1>4 DEF TypeOK
<1>7. RefInv'
  <2>1. \A u \in Sessions \ accepted : pc'[u] = "idle"
    BY <1>0, <1>1, <1>a, Basics DEF RefInv
  <2>2. \A u \in Thread : /\ target'[u] \in accepted \cup {none}
                          /\ pc'[u] \in {"close", "remove"} => target'[u] # none
                          /\ pc'[u] = "remove" => target'[u] \in closed
    BY <1>0, <1>1, <1>3, <1>a, Basics DEF RefInv
  <2>3. \A m \in Nicknames : nickname_index'[m] \in accepted \cup {none}
    BY <1>0, <1>4, <1>a DEF RefInv
  <2> QED  BY <1>0, <1>1, <1>2, <2>1, <2>2, <2>3 DEF RefInv
<1>8. LoginInv'
  <2> SUFFICES ASSUME NEW u \in Sessions PROVE LoginOf(u)'
    BY DEF LoginInv
  <2>1. u \in Thread /\ LoginOf(u)
    BY <1>0, Basics DEF LoginInv
  <2>2. CASE u = s
    BY <1>1, <1>3, <2>1, <2>2 DEF LoginOf, InClose
  <2>3. CASE u # s
    BY <1>1, <1>3, <1>5, <2>1, <2>3 DEF LoginOf
  <2> QED  BY <2>2, <2>3
<1>9. NicknameOwner'
  <2> SUFFICES ASSUME NEW u \in alive, nickname[u] # none, u \notin closed,
                      pc'[u] \in {"idle", "set_nickname"}
               PROVE  nickname_index'[nickname[u]] = u
    BY <1>1 DEF NicknameOwner
  <2>1. CASE u = s
    BY <1>4, <1>5, <2>1
  <2>2. CASE u # s
    <3>1. u \in Thread /\ pc'[u] = pc[u]
      BY <1>1, <1>a, <2>2, Basics
    <3>2. nickname_index[nickname[u]] = u
      BY <1>0, <3>1 DEF NicknameOwner
    <3>3. nickname[u] # n
      BY <1>5, <2>2, <3>2
    <3>4. nickname[u] \in Nicknames
      BY <1>0, <1>a DEF TypeOK
    <3> QED  BY <1>4, <3>2, <3>3, <3>4
  <2> QED  BY <2>1, <2>2
<1> QED  BY <1>1, <1>6, <1>7, <1>8, <1>9, SameSessions, Basics
-----------------------------------------------------------------------------
\* Every step of the manager.
LEMMA ManagerStep == ManagerInv /\ [Next]_vars => ManagerInv'
<1> SUFFICES ASSUME ManagerInv, [Next]_vars PROVE ManagerInv'
  OBVIOUS
<1>1. ASSUME NEW t \in Thread, Run(t) PROVE ManagerInv'
  BY <1>1, CloseSessionStep, RemoveSessionStep, CloseSelfStep, LoginStep, RegisterStep,
     OverwriteStep, AcceptorStep, AddSessionStep DEF Run
<1>2. CASE UNCHANGED vars
  BY <1>2 DEF vars, sessionVars, localVars, ManagerInv, TypeOK, IdInv, RefInv, AcceptInv, TrackInv,
     Unregistered, LoginInv, LoginOf, Takeover, NicknameOwner, accepted
<1> QED  BY <1>1, <1>2, ConstructStep, CloseSelfStep, OverflowDestroyStep, LoginStep DEF Next

\* The start.
LEMMA ManagerInit == Init => ManagerInv
<1> SUFFICES ASSUME Init PROVE ManagerInv
  OBVIOUS
<1>1. accepted = {} /\ Cardinality(accepted) = 0
  <2>1. accepted = {}
    BY DEF Init, accepted
  <2> QED  BY <2>1, FS_EmptySet
<1>2. TypeOK
  <2>1. session_counter \in Id
    BY SessionManagerConfig DEF Init, Id
  <2>2. logins \in 0..MaxLogins
    BY SessionManagerConfig DEF Init
  <2> QED  BY <1>1, <2>1, <2>2 DEF Init, TypeOK
<1>3. IdInv
  <2>1. {} = 1..0
    OBVIOUS
  <2> QED  BY <1>1, <2>1 DEF Init, IdInv
<1>4. RefInv /\ LoginInv
  BY <1>1, Basics DEF Init, RefInv, LoginInv, LoginOf, InClose
<1>5. AcceptInv /\ TrackInv /\ NicknameOwner
  BY <1>1, Basics DEF Init, AcceptInv, TrackInv, NicknameOwner
<1> QED  BY <1>2, <1>3, <1>4, <1>5 DEF ManagerInv

\* The inductive invariant of the manager as the program uses it.
THEOREM ManagerInvHolds == Spec => []ManagerInv
<1> QED  BY ManagerInit, ManagerStep, PTL DEF Spec

(***************************************************************************)
(* Every variable of the manager stays in its type, mutex owners included. *)
(***************************************************************************)
THEOREM TypeCorrect == Spec => []TypeOK
<1>1. ManagerInv => TypeOK
  BY DEF ManagerInv
<1> QED  BY <1>1, ManagerInvHolds, PTL

(***************************************************************************)
(* An open session that has logged in is the one its nickname leads to,    *)
(* for any number of sessions that log in with the same nickname at once.  *)
(***************************************************************************)
THEOREM NicknameOwnerHolds == Spec => []NicknameOwner
<1>1. ManagerInv => NicknameOwner
  BY DEF ManagerInv
<1> QED  BY <1>1, ManagerInvHolds, PTL

(***************************************************************************)
(* Until the session counter comes round, the manager holds every session  *)
(* that nobody has closed, under its id.                                   *)
(***************************************************************************)
THEOREM TrackedHolds == Spec => []TrackedUntilWrap
<1>1. ManagerInv => TrackedUntilWrap
  BY DEF ManagerInv, TrackInv, TrackedUntilWrap, OpenIsTracked
<1> QED  BY <1>1, ManagerInvHolds, PTL
-----------------------------------------------------------------------------
(***************************************************************************)
(* The cleaners.  What a step of the manager may do to what they rely on.  *)
(***************************************************************************)
LEMMA NextEffects ==
    ASSUME ManagerInv, Next
    PROVE  /\ accepted \subseteq accepted' /\ closed \subseteq closed'
           /\ alive' \ alive = accepted' \ accepted
           /\ Cardinality(accepted) <= Cardinality(accepted')
           /\ \A s \in accepted : /\ session_id'[s] = session_id[s]
                                  /\ Unregistered(s)' => Unregistered(s)
           /\ \A c \in Cleaners :
                /\ target'[c] = target[c]
                /\ \/ pc'[c] = pc[c]
                   \/ /\ pc[c] \in {"close", "remove"} /\ pc'[c] \in {"remove", "closed"}
                      /\ pc[c] = "close" => target[c] \in closed'
<1> DEFINE Goal == /\ accepted \subseteq accepted' /\ closed \subseteq closed'
                   /\ alive' \ alive = accepted' \ accepted
                   /\ Cardinality(accepted) <= Cardinality(accepted')
                   /\ \A s \in accepted : /\ session_id'[s] = session_id[s]
                                          /\ Unregistered(s)' => Unregistered(s)
                   /\ \A c \in Cleaners :
                        /\ target'[c] = target[c]
                        /\ \/ pc'[c] = pc[c]
                           \/ /\ pc[c] \in {"close", "remove"} /\ pc'[c] \in {"remove", "closed"}
                              /\ pc[c] = "close" => target[c] \in closed'
<1>0. TypeOK
  BY DEF ManagerInv
<1>1. ASSUME session_id' = session_id, closed \subseteq closed', alive' \subseteq alive,
             \A s : Unregistered(s)' => Unregistered(s),
             \A c \in Cleaners :
                /\ target'[c] = target[c]
                /\ \/ pc'[c] = pc[c]
                   \/ /\ pc[c] \in {"close", "remove"} /\ pc'[c] \in {"remove", "closed"}
                      /\ pc[c] = "close" => target[c] \in closed'
      PROVE  Goal
  <2>1. accepted' = accepted
    BY <1>1 DEF accepted
  <2> QED  BY <1>1, <2>1, AcceptedFinite
<1>2. ASSUME NEW t \in Thread, close_session(t) \/ remove_session(t) PROVE Goal
  <2>1. /\ session_id' = session_id /\ closed \subseteq closed' /\ alive' = alive /\ target' = target
        /\ accepting' = accepting /\ pc'[t] \in {"remove", "closed"} /\ pc[t] \in {"close", "remove"}
        /\ \A u \in Thread : u # t => pc'[u] = pc[u]
        /\ pc[t] = "close" => target[t] \in closed'
    BY <1>0, <1>2, Goes DEF close_session, remove_session, sessionVars
  <2>2. \A s : Unregistered(s)' => Unregistered(s)
    BY <2>1, Basics DEF Unregistered
  <2> HIDE DEF Goal
  <2> QED  BY <1>1, <2>1, <2>2, Basics
<1>3. ASSUME NEW s \in Sessions,
             \/ close_self(s) \/ close_self_done(s) \/ write_queue_overflow(s) \/ destroy(s)
             \/ (\E n \in Nicknames : login(s, n)) \/ set_nickname(s)
             \/ register_nickname(s) \/ overwrite_nickname(s)
      PROVE  Goal
  <2>0. s \in Thread
    BY Basics
  <2>1. session_id' = session_id /\ closed \subseteq closed' /\ alive' \subseteq alive
    BY <1>3 DEF close_self, close_self_done, write_queue_overflow, destroy, login, set_nickname,
       register_nickname, overwrite_nickname, sessionVars
  <2>2. \A u \in Thread : u # s => target'[u] = target[u]
    BY <1>0, <1>3, <2>0 DEF close_self, close_self_done, write_queue_overflow, destroy, login,
       set_nickname, register_nickname, overwrite_nickname, localVars, TypeOK
  <2>3. \A u \in Thread : u # s => pc'[u] = pc[u]
    BY <1>0, <1>3, <2>0 DEF close_self, close_self_done, write_queue_overflow, destroy, login,
       set_nickname, register_nickname, overwrite_nickname, localVars, TypeOK, Go
  <2>4. accepting' = accepting
    BY <1>3 DEF close_self, close_self_done, write_queue_overflow, destroy, login, set_nickname,
       register_nickname, overwrite_nickname
  <2>5. \A u : Unregistered(u)' => Unregistered(u)
    BY <2>3, <2>4, Basics DEF Unregistered
  <2> HIDE DEF Goal
  <2> QED  BY <1>1, <2>1, <2>2, <2>3, <2>5, Basics
<1>4. ASSUME add_session \/ add_session_unlock \/ start_session PROVE Goal
  <2>1. session_id' = session_id /\ closed' = closed /\ alive' = alive
    BY <1>4 DEF add_session, add_session_unlock, start_session, sessionVars
  <2>2. \A u \in Thread : u # Acceptor => target'[u] = target[u] /\ pc'[u] = pc[u]
    BY <1>0, <1>4, Basics DEF add_session, add_session_unlock, start_session, TypeOK, Go
  <2>3. pc'[Acceptor] # "insert"
    BY <1>0, <1>4, Basics DEF add_session, add_session_unlock, start_session, TypeOK, Go
  <2>4. \A s : Unregistered(s)' => Unregistered(s)
    BY <2>3 DEF Unregistered
  <2> HIDE DEF Goal
  <2> QED  BY <1>1, <2>1, <2>2, <2>4, Basics
<1>5. ASSUME NEW s \in Sessions, construct_session(s) PROVE Goal
  <2>1. /\ s \notin accepted /\ accepted' = accepted \cup {s}
        /\ Cardinality(accepted') = Cardinality(accepted) + 1
        /\ session_id' = [session_id EXCEPT ![s] = session_counter]
    BY <1>5, ConstructStep
  <2>2. /\ closed' = closed /\ alive' = alive \cup {s}
        /\ target' = target /\ accepting' = s /\ Go(Acceptor, "insert")
    BY <1>5 DEF construct_session
  <2>3. \A u \in Thread : u # Acceptor => target'[u] = target[u] /\ pc'[u] = pc[u]
    BY <1>0, <2>2, Basics DEF TypeOK, Go
  <2>4. \A u \in accepted : session_id'[u] = session_id[u]
    BY <1>0, <2>1 DEF TypeOK, accepted
  <2>5. Cardinality(accepted) <= Cardinality(accepted')
    BY <2>1, AcceptedFinite
  <2>6. alive' \ alive = accepted' \ accepted
    BY <1>0, <2>1, <2>2 DEF TypeOK
  <2>7. \A u \in accepted : ~Unregistered(u)'
    BY <2>1, <2>2 DEF Unregistered
  <2> QED  BY <2>1, <2>2, <2>3, <2>4, <2>5, <2>6, <2>7, Basics
<1> HIDE DEF Goal
<1>6. Goal
  BY <1>2, <1>3, <1>4, <1>5 DEF Next, Run
<1> QED  BY <1>6 DEF Goal

\* A step of the manager while cleaners are at work.
LEMMA ManagerFollowsStep ==
    ASSUME MInv, Next, ManagerFollows
    PROVE  MInv'
<1>0. ManagerInv /\ CleanerTypes /\ ManagerInv' /\ TypeOK /\ TypeOK'
  BY ManagerStep DEF MInv, ManagerInv
<1>1. /\ accepted \subseteq accepted' /\ closed \subseteq closed'
      /\ alive' \ alive = accepted' \ accepted
      /\ Cardinality(accepted) <= Cardinality(accepted')
      /\ \A s \in accepted : /\ session_id'[s] = session_id[s]
                             /\ Unregistered(s)' => Unregistered(s)
      /\ \A c \in Cleaners :
           /\ target'[c] = target[c]
           /\ \/ pc'[c] = pc[c]
              \/ /\ pc[c] \in {"close", "remove"} /\ pc'[c] \in {"remove", "closed"}
                 /\ pc[c] = "close" => target[c] \in closed'
  BY <1>0, NextEffects
<1>2. /\ last_alive' = [s \in Sessions |-> IF s \in alive' \ alive THEN clock ELSE last_alive[s]]
      /\ handshaking' \subseteq handshaking \cup (alive' \ alive)
      /\ UNCHANGED <<clock, mpc, now, shard, visiting, selected, seen>>
  BY DEF ManagerFollows, cleanerVars
<1>3. CleanerTypes'
  <2>1. last_alive' \in [Sessions -> Nat]
    BY <1>0, <1>2 DEF CleanerTypes
  <2>2. handshaking' \subseteq accepted'
    BY <1>0, <1>1, <1>2 DEF CleanerTypes
  <2> QED  BY <1>0, <1>2, <2>1, <2>2 DEF CleanerTypes
<1>4. ASSUME NEW c \in Cleaners PROVE AllOf(c)'
  <2>0. CleanerOf(c) /\ SweepOf(c) /\ UnauthOf(c)
    BY DEF MInv, AllOf
  <2>c. CleanerOf(c)'
    BY <1>1, <1>2, <2>0 DEF CleanerOf, InClose
  <2>b. ASSUME NEW s, Busy(c, s), s \notin closed' PROVE Busy(c, s)'
    BY <1>1, <1>2, <2>b DEF Busy
  <2>s. SweepOf(c)'
    <3> SUFFICES ASSUME Cardinality(accepted') <= IdSpace, mpc[c] = "inactive",
                        NEW s \in seen[c] \ closed'
                 PROVE  \/ now[c] <= last_alive'[s] + MaxIdle
                        \/ shard[c] <= get_shard(session_id'[s])
                        \/ Busy(c, s)'
      BY <1>2 DEF SweepOf
    <3>1. Cardinality(accepted) <= IdSpace
      <4>1. IdSpace \in Nat /\ Cardinality(accepted) \in Nat /\ Cardinality(accepted') \in Nat
        <5>1. IsFiniteSet(accepted')
          <6>1. accepted' \subseteq Sessions
            BY DEF accepted
          <6> QED  BY <6>1, AcceptedFinite, FS_Subset
        <5> QED  BY <5>1, AcceptedFinite, FS_CardinalityType, SessionManagerConfig
      <4> QED  BY <1>1, <4>1
    <3>2. s \in accepted /\ s \in Sessions
      BY <2>0, AcceptedFinite DEF CleanerOf
    <3>3. last_alive'[s] = last_alive[s] /\ session_id'[s] = session_id[s] /\ s \notin closed
      BY <1>1, <1>2, <3>2
    <3> QED  BY <2>0, <2>b, <3>1, <3>3 DEF SweepOf
  <2>u. UnauthOf(c)'
    <3>1. Unauth(c)' \subseteq Unauth(c) /\ \A s \in Unauth(c)' : s \notin closed'
      <4>1. seen[c] \subseteq accepted
        BY <2>0 DEF CleanerOf
      <4> QED  BY <1>1, <1>2, <4>1 DEF Unauth
    <3> QED  BY <1>2, <2>0, <2>b, <3>1 DEF UnauthOf
  <2> QED  BY <2>c, <2>s, <2>u DEF AllOf
<1> QED  BY <1>0, <1>3, <1>4 DEF MInv

\* A step of one cleaner leaves what holds of another.
LEMMA OtherCleaner ==
    ASSUME NEW d \in Cleaners, AllOf(d),
           UNCHANGED <<clock, last_alive, handshaking, session_id, closed, accepting>>,
           pc'[Acceptor] = pc[Acceptor],
           mpc'[d] = mpc[d], now'[d] = now[d], shard'[d] = shard[d], visiting'[d] = visiting[d],
           selected'[d] = selected[d], seen'[d] = seen[d], pc'[d] = pc[d], target'[d] = target[d]
    PROVE  AllOf(d)'
<1>1. accepted' = accepted
  BY DEF accepted
<1>2. /\ Unauth(d)' = Unauth(d)
      /\ \A s : (Busy(d, s)' <=> Busy(d, s)) /\ (Unregistered(s)' <=> Unregistered(s))
  BY DEF Unauth, Busy, Unregistered
<1>3. CleanerOf(d)'
  BY <1>1, <1>2 DEF AllOf, CleanerOf
<1>4. SweepOf(d)'
  BY <1>1, <1>2 DEF AllOf, SweepOf
<1>5. UnauthOf(d)'
  BY <1>2 DEF AllOf, UnauthOf
<1> QED  BY <1>3, <1>4, <1>5 DEF AllOf

\* Steps of a cleaner that leave the manager alone: what has to be shown.
LEMMA CleanerFrame ==
    ASSUME MInv, NEW c \in Cleaners, UNCHANGED <<vars, clock, last_alive, handshaking>>,
           CleanerTypes', AllOf(c)',
           \A d \in Cleaners \ {c} :
              /\ mpc'[d] = mpc[d] /\ now'[d] = now[d] /\ shard'[d] = shard[d]
              /\ visiting'[d] = visiting[d] /\ selected'[d] = selected[d] /\ seen'[d] = seen[d]
    PROVE  MInv'
<1>1. ManagerInv'
  BY ManagerStep DEF MInv
<1>2. \A d \in Cleaners \ {c} : AllOf(d)'
  <2> SUFFICES ASSUME NEW d \in Cleaners \ {c} PROVE AllOf(d)'
    OBVIOUS
  <2>1. AllOf(d)
    BY DEF MInv
  <2> QED  BY <2>1, OtherCleaner DEF vars, sessionVars, localVars
<1> QED  BY <1>1, <1>2 DEF MInv

\* The clock moves.
LEMMA TickStep == ASSUME MInv, tick PROVE MInv'
<1>1. /\ clock' = clock + 1
      /\ UNCHANGED <<vars, last_alive, handshaking, mpc, now, shard, visiting, selected, seen>>
  BY DEF tick, cleanerVars
<1>2. ManagerInv'
  BY <1>1, ManagerStep DEF MInv
<1>3. CleanerTypes'
  BY <1>1 DEF MInv, CleanerTypes, vars, sessionVars, accepted
<1>4. ASSUME NEW c \in Cleaners PROVE AllOf(c)'
  <2>1. AllOf(c) /\ now[c] \in Nat /\ clock \in Nat
    BY DEF MInv, CleanerTypes
  <2>2. now[c] <= clock + 1
    BY <2>1 DEF AllOf, CleanerOf
  <2>3. /\ accepted' = accepted /\ Unauth(c)' = Unauth(c)
        /\ \A s : (Busy(c, s)' <=> Busy(c, s)) /\ (Unregistered(s)' <=> Unregistered(s))
    BY <1>1 DEF vars, sessionVars, localVars, accepted, Unauth, Busy, Unregistered
  <2>4. CleanerOf(c)'
    BY <1>1, <2>1, <2>2, <2>3 DEF AllOf, CleanerOf, vars, sessionVars, localVars
  <2>5. SweepOf(c)'
    BY <1>1, <2>1, <2>3 DEF AllOf, SweepOf, vars, sessionVars
  <2>6. UnauthOf(c)'
    BY <1>1, <2>1, <2>3 DEF AllOf, UnauthOf
  <2> QED  BY <2>4, <2>5, <2>6 DEF AllOf
<1> QED  BY <1>2, <1>3, <1>4 DEF MInv

\* An operation begins before the first shard and with nothing seen, but for
\* the sweep, which is to see all that are registered.
LEMMA CallStep ==
    ASSUME MInv, NEW c \in Cleaners, NEW o \in Operations, call(c, o)
    PROVE  MInv'
<1>0. ManagerInv /\ CleanerTypes /\ AllOf(c) /\ TypeOK
  BY DEF MInv, ManagerInv
<1>1. /\ mpc[c] = "idle" /\ mpc' = [mpc EXCEPT ![c] = o] /\ now' = [now EXCEPT ![c] = clock]
      /\ UNCHANGED <<vars, clock, last_alive, handshaking, shard, visiting>>
      /\ seen' = IF o = "inactive" THEN [seen EXCEPT ![c] = {buckets[i] : i \in Id} \ {none}]
                                   ELSE seen
  BY DEF call
<1>2. o \in {"inactive", "unauth", "keepalive", "expired", "unregister"}
  BY SessionMaintenanceConfig
<1>3. \/ o # "unregister" /\ selected' = selected
      \/ o = "unregister" /\ \E s \in alive \cap closed : selected' = [selected EXCEPT ![c] = {s}]
  BY DEF call
<1>4. /\ mpc'[c] = o /\ now'[c] = clock
      /\ mpc' \in [Cleaners -> {"idle", "closing", "inactive", "unauth", "keepalive",
                                "expired", "unregister"}]
      /\ now' \in [Cleaners -> Nat]
      /\ \A d \in Cleaners \ {c} : mpc'[d] = mpc[d] /\ now'[d] = now[d]
  BY <1>0, <1>1, <1>2 DEF CleanerTypes
<1>5. /\ selected' \in [Cleaners -> SUBSET Sessions]
      /\ \A d \in Cleaners \ {c} : selected'[d] = selected[d]
      /\ selected'[c] \subseteq accepted
      /\ o = "unregister" => selected'[c] \subseteq closed
  BY <1>0, <1>3, AcceptedFinite DEF CleanerTypes, TypeOK, AllOf, CleanerOf
<1>6. accepted' = accepted /\ closed' = closed /\ session_id' = session_id /\ pc' = pc
  BY <1>1 DEF accepted, vars, sessionVars, localVars
<1>s. /\ seen' \in [Cleaners -> SUBSET Sessions]
      /\ seen'[c] = IF o = "inactive" THEN {buckets[i] : i \in Id} \ {none} ELSE seen[c]
      /\ \A d \in Cleaners \ {c} : seen'[d] = seen[d]
  BY <1>0, <1>1 DEF CleanerTypes, TypeOK
<1>r. \A s \in {buckets[i] : i \in Id} \ {none} : s \in accepted /\ ~Unregistered(s)
  BY <1>0 DEF ManagerInv, RefInv, AcceptInv, Unregistered
<1>7. CleanerTypes'
  BY <1>0, <1>1, <1>4, <1>5, <1>6, <1>s DEF CleanerTypes
<1>8. /\ shard[c] = 0 /\ seen[c] = {} /\ pc[c] = "idle"
      /\ \A s \in seen'[c] : s \in accepted /\ ~Unregistered(s)'
  <2>1. shard[c] = 0 /\ seen[c] = {} /\ pc[c] = "idle"
    BY <1>0, <1>1 DEF AllOf, CleanerOf
  <2>2. \A s : Unregistered(s)' <=> Unregistered(s)
    BY <1>1 DEF vars, localVars, Unregistered
  <2> QED  BY <1>s, <1>r, <2>1, <2>2
<1>9. CleanerOf(c)'
  <2>1. clock <= clock
    BY <1>0 DEF CleanerTypes
  <2> QED  BY <1>0, <1>1, <1>2, <1>4, <1>5, <1>6, <1>8, <2>1 DEF AllOf, CleanerOf
<1>10. SweepOf(c)'
  <2>1. \A s \in accepted : 0 <= get_shard(session_id[s])
    <3>1. \A s \in accepted : session_id[s] \in Id
      BY <1>0 DEF TypeOK, accepted
    <3>2. \A s \in accepted : get_shard(session_id[s]) \in Shard
      BY <3>1, Basics
    <3> QED  BY <3>2 DEF Shard
  <2> QED  BY <1>1, <1>6, <1>8, <2>1 DEF SweepOf
<1>11. UnauthOf(c)'
  BY <1>1, <1>2, <1>4, <1>8, <1>s DEF UnauthOf, Unauth
<1> QED  BY <1>1, <1>4, <1>5, <1>7, <1>9, <1>10, <1>11, <1>s, CleanerFrame DEF AllOf

(***************************************************************************)
(* One shard of the traversal.  An open session is in its bucket, so the   *)
(* sweep that comes to its shard finds it.                                 *)
(***************************************************************************)
LEMMA TraverseStep ==
    ASSUME MInv, NEW c \in Cleaners, traverse(c)
    PROVE  MInv'
<1>0. ManagerInv /\ CleanerTypes /\ AllOf(c) /\ TypeOK /\ RefInv /\ TrackInv
  BY DEF MInv, ManagerInv
<1> DEFINE found == InShard(shard[c])
<1>1. /\ mpc[c] \in {"inactive", "unauth", "keepalive"} /\ shard[c] < ShardCount
      /\ shard' = [shard EXCEPT ![c] = shard[c] + 1]
      /\ UNCHANGED <<vars, clock, last_alive, handshaking, mpc, now, seen>>
  BY DEF traverse
<1>2. /\ mpc[c] = "inactive" =>
           /\ selected' = [selected EXCEPT ![c] = selected[c] \cup {s \in found : Inactive(c, s)}]
           /\ visiting' = visiting
      /\ mpc[c] # "inactive" =>
           /\ visiting' = [visiting EXCEPT ![c] = visiting[c] \cup found]
           /\ selected' = selected
  BY DEF traverse
<1>f. found \subseteq accepted
  BY <1>0 DEF RefInv, InShard
<1>3. /\ shard[c] \in 0..ShardCount /\ ShardCount \in Nat
      /\ shard'[c] = shard[c] + 1 /\ shard' \in [Cleaners -> 0..ShardCount]
      /\ \A d \in Cleaners \ {c} : shard'[d] = shard[d]
  BY <1>0, <1>1, SessionManagerConfig DEF CleanerTypes
<1>4. /\ selected' \in [Cleaners -> SUBSET Sessions] /\ visiting' \in [Cleaners -> SUBSET Sessions]
      /\ \A d \in Cleaners \ {c} : selected'[d] = selected[d] /\ visiting'[d] = visiting[d]
      /\ selected[c] \subseteq selected'[c] /\ selected'[c] \subseteq selected[c] \cup found
      /\ visiting'[c] \subseteq visiting[c] \cup found
      /\ mpc[c] = "inactive" =>
           visiting'[c] = visiting[c] /\ \A s \in found : Inactive(c, s) => s \in selected'[c]
  BY <1>0, <1>2, <1>f, AcceptedFinite DEF CleanerTypes
<1> HIDE DEF found
<1>5. accepted' = accepted /\ closed' = closed /\ session_id' = session_id /\ pc' = pc /\ target' = target
  BY <1>1 DEF accepted, vars, sessionVars, localVars
<1>6. CleanerTypes'
  BY <1>0, <1>1, <1>3, <1>4, <1>5 DEF CleanerTypes
<1>7. pc[c] = "idle"
  BY <1>0, <1>1, <1>3 DEF AllOf, CleanerOf
<1>u. \A s : Unregistered(s)' <=> Unregistered(s)
  BY <1>1 DEF vars, localVars, Unregistered
<1>8. CleanerOf(c)'
  BY <1>0, <1>1, <1>4, <1>5, <1>7, <1>f, <1>u DEF AllOf, CleanerOf
<1>9. SweepOf(c)'
  <2> SUFFICES ASSUME Cardinality(accepted) <= IdSpace, mpc[c] = "inactive",
                      NEW s \in seen[c] \ closed
               PROVE  \/ now[c] <= last_alive[s] + MaxIdle
                      \/ shard[c] + 1 <= get_shard(session_id[s])
                      \/ s \in selected'[c]
    BY <1>1, <1>3, <1>5 DEF SweepOf, Busy
  <2>0. s \in accepted /\ ~Unregistered(s)
    BY <1>0 DEF AllOf, CleanerOf
  <2>1. session_id[s] \in Id /\ buckets[session_id[s]] = s /\ get_shard(session_id[s]) \in Nat
        /\ s # none
    <3>1. session_id[s] \in Id /\ s \in Sessions
      BY <1>0, <2>0 DEF TypeOK, accepted
    <3>2. get_shard(session_id[s]) \in Shard
      BY <3>1, Basics
    <3>3. get_shard(session_id[s]) \in Nat
      BY <3>2 DEF Shard
    <3> QED  BY <1>0, <2>0, <3>1, <3>3, Basics DEF TrackInv
  <2>2. CASE shard[c] = get_shard(session_id[s])
    <3>1. s \in found
      BY <2>1, <2>2 DEF found, InShard
    <3>2. now[c] \in Nat /\ last_alive[s] \in Nat /\ MaxIdle \in Nat
      BY <1>0, SessionMaintenanceConfig, AcceptedFinite DEF CleanerTypes
    <3>3. Inactive(c, s) \/ now[c] <= last_alive[s] + MaxIdle
      BY <3>2 DEF Inactive
    <3> QED  BY <1>4, <3>1, <3>3
  <2>3. CASE shard[c] # get_shard(session_id[s])
    <3>1. now[c] <= last_alive[s] + MaxIdle \/ shard[c] <= get_shard(session_id[s]) \/ s \in selected[c]
      BY <1>0, <1>7 DEF AllOf, SweepOf, Busy
    <3>2. shard[c] <= get_shard(session_id[s]) => shard[c] + 1 <= get_shard(session_id[s])
      BY <1>3, <2>1, <2>3
    <3> QED  BY <1>4, <3>1, <3>2
  <2> QED  BY <2>2, <2>3
<1>10. UnauthOf(c)'
  <2>1. Unauth(c)' = Unauth(c)
    BY <1>1, <1>5 DEF Unauth
  <2> QED  BY <1>0, <1>1, <1>4, <2>1 DEF AllOf, UnauthOf
<1> QED  BY <1>1, <1>3, <1>4, <1>6, <1>8, <1>9, <1>10, CleanerFrame DEF AllOf

\* The callback of for_each_session.
LEMMA VisitStep ==
    ASSUME MInv, NEW c \in Cleaners, NEW s \in Sessions, visit(c, s)
    PROVE  MInv'
<1>0. ManagerInv /\ CleanerTypes /\ AllOf(c) /\ TypeOK
  BY DEF MInv, ManagerInv
<1> DEFINE new == {s} \cap {u \in handshaking : mpc[c] = "unauth"}
<1>1. /\ s \in visiting[c]
      /\ visiting' = [visiting EXCEPT ![c] = visiting[c] \ {s}]
      /\ seen' = [seen EXCEPT ![c] = seen[c] \cup {s}]
      /\ selected' = [selected EXCEPT ![c] = selected[c] \cup new]
      /\ UNCHANGED <<vars, clock, last_alive, handshaking, mpc, now, shard>>
  BY DEF visit
<1>2. mpc[c] \in {"unauth", "keepalive"} /\ s \in accepted /\ new \subseteq {s}
  BY <1>0, <1>1 DEF AllOf, CleanerOf
<1>3. /\ visiting' \in [Cleaners -> SUBSET Sessions] /\ visiting'[c] = visiting[c] \ {s}
      /\ seen' \in [Cleaners -> SUBSET Sessions] /\ seen'[c] = seen[c] \cup {s}
      /\ selected' \in [Cleaners -> SUBSET Sessions] /\ selected'[c] = selected[c] \cup new
      /\ \A d \in Cleaners \ {c} : /\ visiting'[d] = visiting[d] /\ seen'[d] = seen[d]
                                   /\ selected'[d] = selected[d]
  BY <1>0, <1>1 DEF CleanerTypes
<1>4. mpc[c] = "unauth" /\ s \in handshaking => s \in new
  OBVIOUS
<1> HIDE DEF new
<1>5. accepted' = accepted /\ closed' = closed /\ pc' = pc
  BY <1>1 DEF accepted, vars, sessionVars, localVars
<1>6. CleanerTypes'
  BY <1>0, <1>1, <1>3, <1>5 DEF CleanerTypes
<1>7. CleanerOf(c)'
  BY <1>0, <1>1, <1>2, <1>3, <1>5 DEF AllOf, CleanerOf
<1>8. SweepOf(c)'
  BY <1>1, <1>2 DEF SweepOf
<1>9. UnauthOf(c)'
  <2>1. mpc[c] = "unauth" => Unauth(c)' \subseteq selected'[c]
    BY <1>0, <1>1, <1>3, <1>4, <1>5 DEF AllOf, UnauthOf, Unauth
  <2> QED  BY <1>1, <1>2, <2>1 DEF UnauthOf
<1> QED  BY <1>1, <1>3, <1>6, <1>7, <1>8, <1>9, CleanerFrame DEF AllOf

(***************************************************************************)
(* The choice of the oldest leaves no more than MaxUnauth of the selected  *)
(* sessions out.                                                           *)
(***************************************************************************)
LEMMA ChooseOldestStep ==
    ASSUME MInv, NEW c \in Cleaners, NEW oldest \in SUBSET Sessions, choose_oldest(c, oldest)
    PROVE  MInv'
<1>0. ManagerInv /\ CleanerTypes /\ AllOf(c) /\ TypeOK
  BY DEF MInv, ManagerInv
<1>1. /\ mpc[c] = "unauth" /\ shard[c] = ShardCount /\ visiting[c] = {}
      /\ oldest \subseteq selected[c] /\ Cardinality(oldest) = Surplus(c)
      /\ selected' = [selected EXCEPT ![c] = oldest]
      /\ mpc' = [mpc EXCEPT ![c] = "closing"]
      /\ UNCHANGED <<vars, clock, last_alive, handshaking, now, shard, visiting, seen>>
  BY DEF choose_oldest
<1>2. /\ selected' \in [Cleaners -> SUBSET Sessions] /\ selected'[c] = oldest
      /\ mpc'[c] = "closing"
      /\ mpc' \in [Cleaners -> {"idle", "closing", "inactive", "unauth", "keepalive",
                                "expired", "unregister"}]
      /\ \A d \in Cleaners \ {c} : selected'[d] = selected[d] /\ mpc'[d] = mpc[d]
  BY <1>0, <1>1 DEF CleanerTypes
<1> DEFINE R == selected[c] \ oldest
<1>3. Cardinality(R) <= MaxUnauth
  <2>1. IsFiniteSet(selected[c]) /\ IsFiniteSet(oldest)
    BY <1>0, AcceptedFinite, FS_Subset DEF CleanerTypes
  <2>2. Cardinality(R) = Cardinality(selected[c]) - Cardinality(selected[c] \cap oldest)
    BY <2>1, FS_Difference
  <2>3. selected[c] \cap oldest = oldest
    BY <1>1
  <2>4. Cardinality(selected[c]) \in Nat /\ MaxUnauth \in Nat
    BY <2>1, FS_CardinalityType, SessionMaintenanceConfig
  <2>5. Cardinality(oldest) = IF Cardinality(selected[c]) > MaxUnauth
                                THEN Cardinality(selected[c]) - MaxUnauth ELSE 0
    BY <1>1 DEF Surplus
  <2>6. \A m, n, k \in Nat : k = (IF m > n THEN m - n ELSE 0) => m - k <= n
    OBVIOUS
  <2>7. Cardinality(oldest) \in Nat
    BY <2>1, FS_CardinalityType
  <2> QED  BY <2>2, <2>3, <2>4, <2>5, <2>6, <2>7
<1>4. accepted' = accepted /\ closed' = closed /\ pc' = pc
  BY <1>1 DEF accepted, vars, sessionVars, localVars
<1>5. CleanerTypes'
  BY <1>0, <1>1, <1>2, <1>4 DEF CleanerTypes
<1>6. CleanerOf(c)'
  BY <1>0, <1>1, <1>2, <1>4 DEF AllOf, CleanerOf
<1>7. SweepOf(c)'
  BY <1>2 DEF SweepOf
<1>8. UnauthOf(c)'
  <2>1. R \in SUBSET Sessions
    BY <1>0 DEF CleanerTypes
  <2>2. \A s \in Unauth(c)' : s \in R \/ Busy(c, s)'
    BY <1>0, <1>1, <1>2, <1>4 DEF AllOf, UnauthOf, Unauth, Busy
  <2> HIDE DEF R
  <2> QED  BY <1>2, <1>3, <2>1, <2>2 DEF UnauthOf
<1> QED  BY <1>1, <1>2, <1>5, <1>6, <1>7, <1>8, CleanerFrame DEF AllOf

\* The operation returns.
LEMMA ReturnStep ==
    ASSUME MInv, NEW c \in Cleaners, return(c)
    PROVE  MInv'
<1>0. ManagerInv /\ CleanerTypes /\ AllOf(c) /\ TypeOK
  BY DEF MInv, ManagerInv
<1>1. /\ \/ mpc[c] \in {"closing", "inactive"} /\ pc[c] = "idle"
         \/ mpc[c] = "keepalive" /\ visiting[c] = {}
      /\ mpc' = [mpc EXCEPT ![c] = "idle"] /\ now' = [now EXCEPT ![c] = 0]
      /\ shard' = [shard EXCEPT ![c] = 0] /\ seen' = [seen EXCEPT ![c] = {}]
      /\ UNCHANGED <<vars, clock, last_alive, handshaking, visiting, selected>>
  BY DEF return, Leave, Closing
<1>2. pc[c] = "idle" /\ visiting[c] = {} /\ ShardCount \in Nat
  BY <1>0, <1>1, SessionManagerConfig DEF AllOf, CleanerOf
<1>3. /\ mpc'[c] = "idle" /\ now'[c] = 0 /\ shard'[c] = 0 /\ seen'[c] = {}
      /\ mpc' \in [Cleaners -> {"idle", "closing", "inactive", "unauth", "keepalive",
                                "expired", "unregister"}]
      /\ now' \in [Cleaners -> Nat] /\ shard' \in [Cleaners -> 0..ShardCount]
      /\ seen' \in [Cleaners -> SUBSET Sessions]
      /\ \A d \in Cleaners \ {c} : /\ mpc'[d] = mpc[d] /\ now'[d] = now[d]
                                   /\ shard'[d] = shard[d] /\ seen'[d] = seen[d]
  BY <1>0, <1>1, <1>2 DEF CleanerTypes
<1>4. accepted' = accepted /\ closed' = closed /\ pc' = pc
  BY <1>1 DEF accepted, vars, sessionVars, localVars
<1>5. CleanerTypes'
  BY <1>0, <1>1, <1>3, <1>4 DEF CleanerTypes
<1>6. CleanerOf(c)'
  <2>1. 0 <= clock
    BY <1>0 DEF CleanerTypes
  <2> QED  BY <1>0, <1>1, <1>2, <1>3, <1>4, <2>1 DEF AllOf, CleanerOf
<1>7. SweepOf(c)' /\ UnauthOf(c)'
  BY <1>3 DEF SweepOf, UnauthOf
<1> QED  BY <1>1, <1>3, <1>5, <1>6, <1>7, CleanerFrame DEF AllOf
-----------------------------------------------------------------------------
(***************************************************************************)
(* A cleaner enters or leaves close_session: for the manager only its own  *)
(* program counter and target change.                                      *)
(***************************************************************************)
LEMMA CleanerTarget ==
    ASSUME MInv, NEW c \in Cleaners, NEW l \in {"close", "idle"}, Go(c, l),
           NEW x \in accepted \cup {none}, l = "close" => x # none,
           target' = [target EXCEPT ![c] = x],
           UNCHANGED <<session_counter, sessionVars, buckets, session_mutex,
                       nickname_index, nickname_mutex, accepting, wanted, logins>>
    PROVE  /\ ManagerInv' /\ accepted' = accepted /\ pc'[c] = l /\ target'[c] = x
           /\ \A u \in Thread \ {c} : pc'[u] = pc[u] /\ target'[u] = target[u]
           /\ pc'[Acceptor] = pc[Acceptor] /\ \A s : Unregistered(s)' <=> Unregistered(s)
<1>0. ManagerInv /\ TypeOK /\ RefInv /\ LoginInv /\ NicknameOwner
      /\ c \in Thread /\ c \notin Sessions /\ Sessions \subseteq Thread
  BY Basics DEF MInv, ManagerInv
<1>1. /\ pc'[c] = l /\ \A u \in Thread \ {c} : pc'[u] = pc[u]
      /\ pc' \in [Thread -> {"idle", "set_nickname", "register", "close",
                             "remove", "closed", "insert", "unlock"}]
  BY <1>0, Goes
<1>2. /\ target'[c] = x /\ \A u \in Thread \ {c} : target'[u] = target[u]
      /\ target' \in [Thread -> Sessions \cup {none}]
  BY <1>0, AcceptedFinite DEF TypeOK
<1>3. accepted' = accepted
  BY DEF accepted, sessionVars
<1>4. TypeOK'
  BY <1>0, <1>1, <1>2, <1>3 DEF TypeOK, sessionVars
<1>5. RefInv'
  <2>1. \A u \in Thread : /\ target'[u] \in accepted \cup {none}
                          /\ pc'[u] \in {"close", "remove"} => target'[u] # none
                          /\ pc'[u] = "remove" => target'[u] \in closed
    BY <1>0, <1>1, <1>2 DEF RefInv
  <2>2. \A s \in Sessions \ accepted : pc'[s] = "idle"
    BY <1>0, <1>1 DEF RefInv
  <2> QED  BY <1>0, <1>3, <2>1, <2>2 DEF RefInv, sessionVars
<1>6. \A s \in Sessions : pc'[s] = pc[s] /\ target'[s] = target[s]
  BY <1>0, <1>1, <1>2
<1>7. LoginInv'
  BY <1>0, <1>6 DEF LoginInv, LoginOf, Takeover, sessionVars
<1>8. NicknameOwner'
  <2>1. alive \subseteq Sessions
    BY <1>0, AcceptedFinite DEF TypeOK
  <2> QED  BY <1>0, <1>6, <2>1 DEF NicknameOwner, sessionVars
<1>9. pc'[Acceptor] = pc[Acceptor]
  BY <1>1, Basics
<1>10. \A s : Unregistered(s)' <=> Unregistered(s)
  BY <1>9 DEF Unregistered
<1>11. ManagerInv'
  BY <1>0, <1>4, <1>5, <1>7, <1>8, <1>9, SameSessions DEF sessionVars
<1> QED  BY <1>1, <1>2, <1>3, <1>9, <1>10, <1>11

\* The session leaves the vector and becomes the target of the close.
LEMMA CloseSelectedStep ==
    ASSUME MInv, NEW c \in Cleaners, NEW s \in Sessions, close_selected(c, s)
    PROVE  MInv'
<1>0. ManagerInv /\ CleanerTypes /\ AllOf(c) /\ c \in Thread
  BY Basics DEF MInv
<1>1. /\ mpc[c] \in {"closing", "inactive"} /\ shard[c] = ShardCount /\ pc[c] = "idle"
      /\ s \in selected[c] /\ selected' = [selected EXCEPT ![c] = selected[c] \ {s}]
      /\ target' = [target EXCEPT ![c] = s] /\ Go(c, "close")
      /\ UNCHANGED <<session_counter, sessionVars, buckets, session_mutex, nickname_index,
                     nickname_mutex, accepting, wanted, logins>>
      /\ UNCHANGED <<clock, last_alive, handshaking, mpc, now, shard, visiting, seen>>
  BY DEF close_selected, Closing
<1>2. s \in accepted /\ s # none
  BY <1>0, <1>1, Basics DEF AllOf, CleanerOf
<1>3. /\ ManagerInv' /\ accepted' = accepted /\ pc'[c] = "close" /\ target'[c] = s
      /\ pc'[Acceptor] = pc[Acceptor] /\ \A u : Unregistered(u)' <=> Unregistered(u)
      /\ \A u \in Thread \ {c} : pc'[u] = pc[u] /\ target'[u] = target[u]
  BY <1>1, <1>2, CleanerTarget
<1>4. /\ selected' \in [Cleaners -> SUBSET Sessions] /\ selected'[c] = selected[c] \ {s}
      /\ \A d \in Cleaners \ {c} : selected'[d] = selected[d]
  BY <1>0, <1>1 DEF CleanerTypes
<1>5. closed' = closed /\ session_id' = session_id
  BY <1>1 DEF sessionVars
<1>6. CleanerTypes'
  BY <1>0, <1>1, <1>3, <1>4 DEF CleanerTypes
<1>7. \A u : Busy(c, u) => Busy(c, u)'
  BY <1>1, <1>3, <1>4 DEF Busy
<1>8. CleanerOf(c)'
  BY <1>0, <1>1, <1>3, <1>4, <1>5 DEF AllOf, CleanerOf, InClose
<1>9. SweepOf(c)'
  BY <1>0, <1>1, <1>3, <1>5, <1>7 DEF AllOf, SweepOf
<1>10. UnauthOf(c)'
  <2>1. Unauth(c)' = Unauth(c)
    BY <1>1, <1>5 DEF Unauth
  <2> QED  BY <1>0, <1>1, <1>7, <2>1 DEF AllOf, UnauthOf
<1>11. ASSUME NEW d \in Cleaners \ {c} PROVE AllOf(d)'
  <2>1. AllOf(d) /\ d \in Thread \ {c}
    BY Basics DEF MInv
  <2> QED  BY <1>1, <1>3, <1>4, <1>5, <2>1, OtherCleaner
<1> QED  BY <1>3, <1>6, <1>8, <1>9, <1>10, <1>11 DEF MInv, AllOf

\* close_session has returned to the loop.
LEMMA CloseSelectedDoneStep ==
    ASSUME MInv, NEW c \in Cleaners, close_selected_done(c)
    PROVE  MInv'
<1>0. ManagerInv /\ CleanerTypes /\ AllOf(c) /\ c \in Thread
  BY Basics DEF MInv
<1>1. /\ pc[c] = "closed" /\ target' = [target EXCEPT ![c] = none] /\ Go(c, "idle")
      /\ UNCHANGED <<session_counter, sessionVars, buckets, session_mutex, nickname_index,
                     nickname_mutex, accepting, wanted, logins>>
      /\ UNCHANGED <<clock, last_alive, handshaking, mpc, now, shard, visiting, selected, seen>>
  BY DEF close_selected_done, mvars, cleanerVars
<1>2. /\ ManagerInv' /\ accepted' = accepted /\ pc'[c] = "idle"
      /\ pc'[Acceptor] = pc[Acceptor] /\ \A u : Unregistered(u)' <=> Unregistered(u)
      /\ \A u \in Thread \ {c} : pc'[u] = pc[u] /\ target'[u] = target[u]
  BY <1>1, CleanerTarget
<1>3. closed' = closed /\ session_id' = session_id
  BY <1>1 DEF sessionVars
<1>4. CleanerTypes'
  BY <1>0, <1>1, <1>2 DEF CleanerTypes
<1>5. \A u : Busy(c, u) => Busy(c, u)'
  BY <1>1 DEF Busy
<1>6. CleanerOf(c)'
  BY <1>0, <1>1, <1>2, <1>3 DEF AllOf, CleanerOf
<1>7. SweepOf(c)'
  BY <1>0, <1>1, <1>2, <1>3, <1>5 DEF AllOf, SweepOf
<1>8. UnauthOf(c)'
  <2>1. Unauth(c)' = Unauth(c)
    BY <1>1, <1>3 DEF Unauth
  <2> QED  BY <1>0, <1>1, <1>5, <2>1 DEF AllOf, UnauthOf
<1>9. ASSUME NEW d \in Cleaners \ {c} PROVE AllOf(d)'
  <2>1. AllOf(d) /\ d \in Thread \ {c}
    BY Basics DEF MInv
  <2> QED  BY <1>1, <1>2, <1>3, <2>1, OtherCleaner
<1> QED  BY <1>2, <1>4, <1>6, <1>7, <1>8, <1>9 DEF MInv, AllOf
-----------------------------------------------------------------------------
(***************************************************************************)
(* The two operations on the nicknames.  They run with nickname_mutex_     *)
(* free, hence not while a session takes a nickname over.                  *)
(***************************************************************************)
LEMMA IndexErased ==
    ASSUME MInv, nickname_mutex = none, nickname_mutex' \in Cleaners \cup {none},
           nickname_index' \in [Nicknames -> Sessions \cup {none}],
           \A n \in Nicknames : \/ nickname_index'[n] = nickname_index[n]
                                \/ nickname_index'[n] = none
                                   /\ (nickname_index[n] \in alive => nickname_index[n] \in closed),
           UNCHANGED <<session_counter, sessionVars, buckets, session_mutex,
                       accepting, localVars, logins>>
    PROVE  ManagerInv' /\ accepted' = accepted
<1>0. ManagerInv /\ TypeOK /\ RefInv /\ LoginInv /\ NicknameOwner
  BY DEF MInv, ManagerInv
<1>1. accepted' = accepted
  BY DEF accepted, sessionVars
<1>2. TypeOK'
  BY <1>0, <1>1 DEF TypeOK, sessionVars, localVars
<1>3. RefInv'
  BY <1>0, <1>1 DEF RefInv, sessionVars, localVars
<1>4. \A s \in Sessions : ~ (pc[s] \in InClose /\ wanted[s] # none)
  BY <1>0, Basics DEF LoginInv, LoginOf
<1>5. LoginInv'
  BY <1>0, <1>4 DEF LoginInv, LoginOf, sessionVars, localVars
<1>6. NicknameOwner'
  <2>1. alive \subseteq Sessions /\ \A s \in Sessions : nickname[s] \in Nicknames \cup {none}
    BY <1>0, AcceptedFinite DEF TypeOK
  <2> QED  BY <1>0, <2>1 DEF NicknameOwner, sessionVars, localVars
<1>7. ManagerInv'
  BY <1>0, <1>2, <1>3, <1>5, <1>6, SameSessions DEF sessionVars, localVars
<1> QED  BY <1>1, <1>7

\* Only a closed session's entry is erased.
LEMMA UnregisterStep ==
    ASSUME MInv, NEW c \in Cleaners, NEW n \in Nicknames, NEW s \in Sessions,
           unregister_nickname(c, n, s)
    PROVE  MInv'
<1>0. ManagerInv /\ CleanerTypes /\ AllOf(c) /\ TypeOK
  BY DEF MInv, ManagerInv
<1>1. /\ mpc[c] = "unregister" /\ nickname_mutex = none /\ s \in selected[c]
      /\ selected' = [selected EXCEPT ![c] = {}] /\ nickname_mutex' = c
      /\ mpc' = [mpc EXCEPT ![c] = "expired"]
      /\ UNCHANGED <<session_counter, sessionVars, buckets, session_mutex,
                     accepting, localVars, logins>>
      /\ UNCHANGED <<clock, last_alive, handshaking, now, shard, visiting, seen>>
  BY DEF unregister_nickname
<1>2. \/ nickname_index' = nickname_index
      \/ nickname_index[n] = s /\ nickname_index' = [nickname_index EXCEPT ![n] = none]
  BY DEF unregister_nickname, MayErase
<1>3. s \in closed /\ pc[c] = "idle" /\ visiting[c] = {}
  BY <1>0, <1>1 DEF AllOf, CleanerOf
<1>4. /\ nickname_index' \in [Nicknames -> Sessions \cup {none}]
      /\ \A m \in Nicknames : \/ nickname_index'[m] = nickname_index[m]
                              \/ nickname_index'[m] = none /\ nickname_index[m] \in closed
  BY <1>0, <1>2, <1>3 DEF TypeOK
<1>5. ManagerInv' /\ accepted' = accepted
  BY <1>1, <1>4, IndexErased
<1>6. /\ selected' \in [Cleaners -> SUBSET Sessions] /\ selected'[c] = {} /\ mpc'[c] = "expired"
      /\ mpc' \in [Cleaners -> {"idle", "closing", "inactive", "unauth", "keepalive",
                                "expired", "unregister"}]
      /\ \A d \in Cleaners \ {c} : selected'[d] = selected[d] /\ mpc'[d] = mpc[d]
  BY <1>0, <1>1 DEF CleanerTypes
<1>7. CleanerTypes'
  BY <1>0, <1>1, <1>5, <1>6 DEF CleanerTypes
<1>8. UNCHANGED <<session_id, closed, pc, target>>
  BY <1>1 DEF sessionVars, localVars
<1>9. CleanerOf(c)'
  BY <1>0, <1>1, <1>3, <1>5, <1>6, <1>8 DEF AllOf, CleanerOf
<1>10. SweepOf(c)' /\ UnauthOf(c)'
  BY <1>6 DEF SweepOf, UnauthOf
<1>11. ASSUME NEW d \in Cleaners \ {c} PROVE AllOf(d)'
  <2>1. AllOf(d)
    BY DEF MInv
  <2> QED  BY <1>1, <1>6, <1>8, <2>1, OtherCleaner
<1> QED  BY <1>5, <1>7, <1>9, <1>10, <1>11 DEF MInv, AllOf

\* Only entries of sessions that are gone are erased.
LEMMA ExpiredStep ==
    ASSUME MInv, NEW c \in Cleaners, cleanup_expired_nicknames(c)
    PROVE  MInv'
<1>0. ManagerInv /\ CleanerTypes /\ AllOf(c) /\ TypeOK
  BY DEF MInv, ManagerInv
<1>1. /\ mpc[c] = "expired" /\ nickname_mutex = none /\ nickname_mutex' = nickname_mutex
      /\ nickname_index' = [n \in Nicknames |-> IF nickname_index[n] \in alive
                                                  THEN nickname_index[n] ELSE none]
      /\ mpc' = [mpc EXCEPT ![c] = "idle"] /\ now' = [now EXCEPT ![c] = 0]
      /\ shard' = [shard EXCEPT ![c] = 0] /\ seen' = [seen EXCEPT ![c] = {}]
      /\ UNCHANGED <<session_counter, sessionVars, buckets, session_mutex,
                     accepting, localVars, logins>>
      /\ UNCHANGED <<clock, last_alive, handshaking, visiting, selected>>
  BY DEF cleanup_expired_nicknames, Leave
<1>2. pc[c] = "idle" /\ visiting[c] = {} /\ ShardCount \in Nat
  BY <1>0, <1>1, SessionManagerConfig DEF AllOf, CleanerOf
<1>3. ManagerInv' /\ accepted' = accepted
  <2>1. nickname_index' \in [Nicknames -> Sessions \cup {none}]
    BY <1>0, <1>1 DEF TypeOK
  <2> QED  BY <1>1, <2>1, IndexErased
<1>4. /\ mpc'[c] = "idle" /\ now'[c] = 0 /\ shard'[c] = 0 /\ seen'[c] = {}
      /\ mpc' \in [Cleaners -> {"idle", "closing", "inactive", "unauth", "keepalive",
                                "expired", "unregister"}]
      /\ now' \in [Cleaners -> Nat] /\ shard' \in [Cleaners -> 0..ShardCount]
      /\ seen' \in [Cleaners -> SUBSET Sessions]
      /\ \A d \in Cleaners \ {c} : /\ mpc'[d] = mpc[d] /\ now'[d] = now[d]
                                   /\ shard'[d] = shard[d] /\ seen'[d] = seen[d]
  BY <1>0, <1>1, <1>2 DEF CleanerTypes
<1>5. CleanerTypes'
  BY <1>0, <1>1, <1>3, <1>4 DEF CleanerTypes
<1>6. UNCHANGED <<session_id, closed, pc, target>>
  BY <1>1 DEF sessionVars, localVars
<1>7. CleanerOf(c)'
  <2>1. 0 <= clock
    BY <1>0 DEF CleanerTypes
  <2> QED  BY <1>0, <1>1, <1>2, <1>3, <1>4, <1>6, <2>1 DEF AllOf, CleanerOf
<1>8. SweepOf(c)' /\ UnauthOf(c)'
  BY <1>4 DEF SweepOf, UnauthOf
<1>9. ASSUME NEW d \in Cleaners \ {c} PROVE AllOf(d)'
  <2>1. AllOf(d)
    BY DEF MInv
  <2> QED  BY <1>1, <1>4, <1>6, <2>1, OtherCleaner
<1> QED  BY <1>3, <1>5, <1>7, <1>8, <1>9 DEF MInv, AllOf
-----------------------------------------------------------------------------
\* Every step of the maintenance operations.
LEMMA MaintenanceStep == ASSUME MInv, [MNext]_allVars PROVE MInv'
<1>1. CASE Next /\ ManagerFollows
  BY <1>1, ManagerFollowsStep
<1>2. CASE tick
  BY <1>2, TickStep
<1>3. ASSUME NEW c \in Cleaners, NEW o \in Operations, call(c, o) PROVE MInv'
  BY <1>3, CallStep
<1>4. ASSUME NEW c \in Cleaners, Clean(c) PROVE MInv'
  BY <1>4, TraverseStep, VisitStep, ChooseOldestStep, CloseSelectedStep, CloseSelectedDoneStep,
     ReturnStep, UnregisterStep, ExpiredStep DEF Clean
<1>5. CASE UNCHANGED allVars
  <2>1. UNCHANGED vars /\ UNCHANGED <<clock, last_alive, handshaking, mpc, now, shard, visiting,
                                      selected, seen>>
    BY <1>5 DEF allVars, mvars, cleanerVars
  <2>2. ManagerInv'
    BY <2>1, ManagerStep DEF MInv
  <2>3. CleanerTypes'
    BY <2>1 DEF MInv, CleanerTypes, accepted, vars, sessionVars
  <2>4. ASSUME NEW d \in Cleaners PROVE AllOf(d)'
    <3>1. AllOf(d)
      BY DEF MInv
    <3> QED  BY <2>1, <3>1, OtherCleaner DEF vars, sessionVars, localVars
  <2> QED  BY <2>2, <2>3, <2>4 DEF MInv
<1> QED  BY <1>1, <1>2, <1>3, <1>4, <1>5 DEF MNext

\* The start.
LEMMA MaintenanceInit == ASSUME MInit PROVE MInv
<1>1. ManagerInv
  BY ManagerInit DEF MInit
<1>2. CleanerTypes
  BY SessionManagerConfig DEF MInit, CleanerTypes
<1>3. ASSUME NEW c \in Cleaners PROVE AllOf(c)
  <2>1. mpc[c] = "idle" /\ now[c] = 0 /\ clock = 0 /\ shard[c] = 0 /\ visiting[c] = {}
        /\ selected[c] = {} /\ seen[c] = {}
    BY DEF MInit
  <2>2. pc[c] = "idle"
    BY Basics DEF MInit, Init
  <2> QED  BY <2>1, <2>2 DEF AllOf, CleanerOf, SweepOf, UnauthOf, InClose
<1> QED  BY <1>1, <1>2, <1>3 DEF MInv

(***************************************************************************)
(* With the maintenance operations switched on, in any number of threads:  *)
(* the invariant of the manager still holds, and with it what the cleaners *)
(* know.                                                                   *)
(***************************************************************************)
THEOREM MaintenanceInvHolds == MSpec => []MInv
<1>1. MInit => MInv
  BY MaintenanceInit
<1>2. MInv /\ [MNext]_allVars => MInv'
  BY MaintenanceStep
<1> QED  BY <1>1, <1>2, PTL DEF MSpec

(***************************************************************************)
(* Neither the sweeps nor unregister_nickname and cleanup_expired_         *)
(* nicknames take a nickname from the open session that has it.            *)
(***************************************************************************)
THEOREM NicknameOwnerKept == MSpec => []NicknameOwner
<1>1. MInv => NicknameOwner
  BY DEF MInv, ManagerInv
<1> QED  BY <1>1, MaintenanceInvHolds, PTL

(***************************************************************************)
(* cleanup_unauth_sessions leaves no more than max_unauth of the sessions  *)
(* it found open and without a login.                                      *)
(***************************************************************************)
THEOREM UnauthBoundedHolds == MSpec => []UnauthBounded
<1>1. MInv => UnauthBounded
  <2> SUFFICES ASSUME MInv, NEW c \in Cleaners, mpc[c] = "closing", pc[c] = "idle",
                      selected[c] = {}
               PROVE  Cardinality(Unauth(c)) <= MaxUnauth
    BY DEF UnauthBounded, Unauth
  <2>1. PICK R \in SUBSET Sessions : /\ Cardinality(R) <= MaxUnauth
                                     /\ \A s \in Unauth(c) : s \in R \/ Busy(c, s)
    BY DEF MInv, AllOf, UnauthOf
  <2>2. Unauth(c) \subseteq R
    BY <2>1 DEF Busy
  <2>3. IsFiniteSet(R) /\ IsFiniteSet(Unauth(c)) /\ Cardinality(Unauth(c)) <= Cardinality(R)
    BY <2>2, AcceptedFinite, FS_Subset
  <2>4. Cardinality(R) \in Nat /\ Cardinality(Unauth(c)) \in Nat /\ MaxUnauth \in Nat
    BY <2>3, FS_CardinalityType, SessionMaintenanceConfig
  <2> QED  BY <2>1, <2>3, <2>4
<1> QED  BY <1>1, MaintenanceInvHolds, PTL

(***************************************************************************)
(* When the sweep of start_cleanup_loop is through, no session that was    *)
(* registered when it was called and too old when it read the clock is     *)
(* still open.                                                             *)
(***************************************************************************)
THEOREM InactiveGoneHolds == MSpec => []InactiveGone
<1>1. MInv => InactiveGone
  <2> SUFFICES ASSUME MInv, Cardinality(accepted) <= IdSpace, NEW c \in Cleaners,
                      mpc[c] = "inactive", shard[c] = ShardCount, pc[c] = "idle",
                      selected[c] = {}, NEW s \in seen[c] \ closed
               PROVE  now[c] <= last_alive[s] + MaxIdle
    BY DEF InactiveGone
  <2>1. now[c] <= last_alive[s] + MaxIdle \/ ShardCount <= get_shard(session_id[s])
    BY DEF MInv, AllOf, SweepOf, Busy
  <2>2. get_shard(session_id[s]) \in Shard
    <3>1. session_id[s] \in Id
      BY DEF MInv, AllOf, CleanerOf, ManagerInv, TypeOK, accepted
    <3> QED  BY <3>1, Basics
  <2>3. ~ (ShardCount <= get_shard(session_id[s]))
    BY <2>2, SessionManagerConfig DEF Shard
  <2> QED  BY <2>1, <2>3
<1> QED  BY <1>1, MaintenanceInvHolds, PTL
-----------------------------------------------------------------------------
(***************************************************************************)
(* The mutexes: who has which, and who waits for whom.  A thread whose pc  *)
(* is "idle" may wait at the start of an operation (the look-up of a       *)
(* login), with no mutex of its own.                                       *)
(***************************************************************************)
\* The mutex of a shard is held by add_session only, which takes no other;
\* a session that has nickname_mutex_ is on the way to overwrite the entry.
LockInv ==
    /\ \A h \in Shard : session_mutex[h] # none =>
          pc[Acceptor] = "unlock" /\ h = get_shard(session_id[accepting])
    /\ \A s \in Sessions : nickname_mutex = s => pc[s] \in InClose /\ wanted[s] # none

\* A cleaner that has nickname_mutex_ is in cleanup_expired_nicknames.
CleanerLocks == \A c \in Cleaners : nickname_mutex = c => mpc[c] = "expired"

\* Thread t, inside an operation, waits for a mutex that thread u has.
WaitsFor(t, u) ==
    \/ pc[t] = "register" /\ nickname_mutex = u
    \/ pc[t] = "remove" /\ session_mutex[get_shard(session_id[target[t]])] = u
    \/ /\ t = Acceptor /\ pc[t] = "insert"
       /\ session_mutex[get_shard(session_id[accepting])] = u

\* The same with the locks that the maintenance operations take.
MWaitsFor(t, u) ==
    \/ WaitsFor(t, u)
    \/ /\ t \in Cleaners /\ mpc[t] \in {"inactive", "unauth", "keepalive"}
       /\ shard[t] < ShardCount /\ session_mutex[shard[t]] = u
    \/ t \in Cleaners /\ mpc[t] \in {"unregister", "expired"} /\ nickname_mutex = u

\* Who is waited for is inside an operation and waits for one other thread
\* at most, which is inside an operation and waits for nobody.
ShortChains(W(_, _)) ==
    \A t, u \in Thread : W(t, u) =>
        /\ u # t /\ pc[u] # "idle"
        /\ \A v \in Thread : W(u, v) =>
              v \notin {t, u} /\ pc[v] # "idle" /\ \A w \in Thread : ~W(v, w)

\* No thread waits in a circle, for itself, or for a mutex left locked.
NoCircle == ShortChains(WaitsFor)

NoCircleBut == SelfDeadlock \/ ShortChains(MWaitsFor)

\* Every step of the manager keeps the owners.
LEMMA LockStep ==
    ASSUME ManagerInv, LockInv, [Next]_vars
    PROVE  LockInv' /\ nickname_mutex' \in Sessions \cup {none, nickname_mutex}
<1>0. TypeOK /\ \A s \in Sessions : LoginOf(s)
  BY DEF ManagerInv, LoginInv
<1>1. ASSUME NEW t \in Thread, close_session(t) \/ remove_session(t)
      PROVE  LockInv' /\ nickname_mutex' = nickname_mutex
  <2>1. /\ pc[t] \in {"close", "remove"} /\ pc'[t] \in {"remove", "closed"}
        /\ \A u \in Thread : u # t => pc'[u] = pc[u]
        /\ UNCHANGED <<session_mutex, nickname_mutex, session_id, accepting, wanted>>
    BY <1>0, <1>1, Goes DEF close_session, remove_session, sessionVars
  <2> QED  BY <2>1, Basics DEF LockInv, InClose
<1>2. ASSUME NEW s \in Sessions, nickname_mutex # s, NEW l, Go(s, l),
             \A u \in Thread : u # s => wanted'[u] = wanted[u],
             UNCHANGED <<session_mutex, nickname_mutex, session_id, accepting>>
      PROVE  LockInv' /\ nickname_mutex' = nickname_mutex
  <2>1. \A u \in Thread : u # s => pc'[u] = pc[u]
    BY <1>0, <1>2, Basics DEF Go, TypeOK
  <2> QED  BY <1>2, <2>1, Basics DEF LockInv
<1>3. ASSUME NEW s \in Sessions, close_self(s) \/ close_self_done(s) \/ set_nickname(s)
      PROVE  LockInv' /\ nickname_mutex' = nickname_mutex
  <2>1. nickname_mutex # s
    BY <1>3 DEF LockInv, InClose, close_self, close_self_done, set_nickname, Runs
  <2>2. \E l : Go(s, l)
    BY <1>3 DEF close_self, close_self_done, set_nickname
  <2>3. UNCHANGED <<session_mutex, nickname_mutex, session_id, accepting, wanted>>
    BY <1>3 DEF close_self, close_self_done, set_nickname, sessionVars
  <2> QED  BY <1>2, <2>1, <2>2, <2>3
<1>4. ASSUME NEW s \in Sessions, NEW n \in Nicknames, login(s, n)
      PROVE  LockInv' /\ nickname_mutex' = nickname_mutex
  <2>1. nickname_mutex # s
    BY <1>4, Basics DEF login
  <2>2. UNCHANGED <<session_mutex, nickname_mutex, session_id, accepting>>
    BY <1>4 DEF login, sessionVars
  <2>3. CASE UNCHANGED localVars
    BY <2>2, <2>3 DEF LockInv, localVars
  <2>4. CASE Go(s, "set_nickname") /\ wanted' = [wanted EXCEPT ![s] = n]
    <3>1. \A u \in Thread : u # s => wanted'[u] = wanted[u]
      BY <1>0, <2>4, Basics DEF TypeOK
    <3> QED  BY <1>2, <2>1, <2>2, <2>4, <3>1
  <2> QED  BY <1>4, <2>3, <2>4 DEF login
<1>5. ASSUME NEW s \in Sessions, register_nickname(s)
      PROVE  LockInv' /\ nickname_mutex' = s
  <2>1. /\ nickname_mutex' = s /\ pc[s] = "register"
        /\ Go(s, "closed") \/ Go(s, "close")
        /\ UNCHANGED <<session_mutex, session_id, accepting, wanted>>
    BY <1>5 DEF register_nickname, sessionVars
  <2>2. wanted'[s] # none
    BY <1>0, <2>1 DEF LoginOf
  <2>3. pc'[s] \in InClose /\ pc'[Acceptor] = pc[Acceptor]
    BY <1>0, <2>1, Basics DEF Go, TypeOK, InClose
  <2> QED  BY <2>1, <2>2, <2>3 DEF LockInv
<1>6. ASSUME NEW s \in Sessions, overwrite_nickname(s)
      PROVE  LockInv' /\ nickname_mutex' = none
  <2>1. nickname_mutex' = none /\ Go(s, "idle")
        /\ UNCHANGED <<session_mutex, session_id, accepting>>
    BY <1>6 DEF overwrite_nickname, sessionVars
  <2>2. pc'[Acceptor] = pc[Acceptor]
    BY <1>0, <2>1, Basics DEF Go, TypeOK
  <2> QED  BY <2>1, <2>2, Basics DEF LockInv
<1>7. ASSUME NEW l, Go(Acceptor, l), UNCHANGED <<nickname_mutex, wanted>>
      PROVE  \A s \in Sessions : nickname_mutex' = s => pc'[s] \in InClose /\ wanted'[s] # none
  <2>1. \A s \in Sessions : pc'[s] = pc[s]
    BY <1>0, <1>7, Basics DEF Go, TypeOK
  <2> QED  BY <1>7, <2>1 DEF LockInv
<1>8. CASE add_session_unlock
  <2> DEFINE h == get_shard(session_id[accepting])
  <2>1. session_mutex' = [session_mutex EXCEPT ![h] = none]
        /\ UNCHANGED <<nickname_mutex, wanted>> /\ \E l : Go(Acceptor, l)
    BY <1>8 DEF add_session_unlock
  <2>2. \A k \in Shard : session_mutex'[k] = none
    BY <1>0, <2>1 DEF LockInv, TypeOK
  <2> QED  BY <1>7, <2>1, <2>2 DEF LockInv
<1>9. CASE start_session
  <2>1. pc[Acceptor] = "closed" /\ Go(Acceptor, "idle")
        /\ UNCHANGED <<session_mutex, nickname_mutex, wanted>>
    BY <1>9 DEF start_session
  <2>2. \A k \in Shard : session_mutex'[k] = none
    BY <2>1 DEF LockInv
  <2> QED  BY <1>7, <2>1, <2>2 DEF LockInv
<1>10. ASSUME NEW s \in Sessions, construct_session(s)
       PROVE  LockInv' /\ nickname_mutex' = nickname_mutex
  <2>1. /\ pc[Acceptor] = "idle" /\ Go(Acceptor, "insert")
        /\ UNCHANGED <<session_mutex, nickname_mutex, wanted>>
    BY <1>10 DEF construct_session
  <2>2. \A k \in Shard : session_mutex'[k] = none
    BY <2>1 DEF LockInv
  <2> QED  BY <1>7, <2>1, <2>2 DEF LockInv
<1>a. CASE add_session
  <2> DEFINE h == get_shard(session_id[accepting])
  <2>1. /\ pc[Acceptor] = "insert" /\ Go(Acceptor, "unlock")
        /\ session_mutex' = [session_mutex EXCEPT ![h] = Acceptor]
        /\ UNCHANGED <<nickname_mutex, session_id, accepting, wanted>>
    BY <1>a DEF add_session, sessionVars
  <2>2. pc'[Acceptor] = "unlock"
    BY <1>0, <2>1, Basics DEF TypeOK, Go
  <2> HIDE DEF h
  <2>3. \A k \in Shard : session_mutex[k] = none
    BY <2>1 DEF LockInv
  <2>4. \A k \in Shard : session_mutex'[k] # none => k = h
    BY <1>0, <2>1, <2>3 DEF TypeOK
  <2> QED  BY <1>7, <2>1, <2>2, <2>4 DEF LockInv, h
<1>11. CASE UNCHANGED <<session_mutex, nickname_mutex, session_id, accepting, localVars>>
  BY <1>11 DEF LockInv, localVars
<1>12. ASSUME NEW s \in Sessions, write_queue_overflow(s) \/ destroy(s)
       PROVE  UNCHANGED <<session_mutex, nickname_mutex, session_id, accepting, localVars>>
  BY <1>12 DEF write_queue_overflow, destroy
<1>13. UNCHANGED vars
         => UNCHANGED <<session_mutex, nickname_mutex, session_id, accepting, localVars>>
  BY DEF vars, sessionVars
<1>14. ASSUME NEW t \in Thread, Run(t)
       PROVE  LockInv' /\ nickname_mutex' \in Sessions \cup {none, nickname_mutex}
  <2>1. add_session \/ add_session_unlock \/ start_session => nickname_mutex' = nickname_mutex
    BY DEF add_session, add_session_unlock, start_session
  <2> QED  BY <1>1, <1>3, <1>5, <1>6, <1>8, <1>9, <1>a, <1>14, <2>1 DEF Run
<1> QED  BY <1>3, <1>4, <1>10, <1>11, <1>12, <1>13, <1>14 DEF Next

\* What they have says who waits for whom.
LEMMA WaitsAre ==
    ASSUME ManagerInv, LockInv
    PROVE  /\ nickname_mutex \notin Cleaners => NoCircle
           /\ \A h \in Shard : session_mutex[h] \in {none, Acceptor}
           /\ \A s \in Sessions : pc[s] # "unlock"
           /\ \A t, u \in Thread : WaitsFor(t, u) => pc[t] \in {"register", "remove"}
<1>0. TypeOK /\ RefInv /\ AcceptInv /\ \A s \in Sessions : LoginOf(s)
  BY DEF ManagerInv, LoginInv
<1>1. \A h \in Shard : session_mutex[h] \in {none, Acceptor}
  BY <1>0 DEF TypeOK
<1>2. none \notin Thread
  BY SessionManagerConfig DEF Thread
<1>3. ASSUME NEW t \in Thread, NEW u \in Thread, WaitsFor(t, u), pc[t] = "remove"
      PROVE  u = Acceptor /\ pc[Acceptor] = "unlock"
  <2> DEFINE h == get_shard(session_id[target[t]])
  <2>1. target[t] \in accepted
    BY <1>0, <1>3 DEF RefInv
  <2>2. h \in Shard
    BY <1>0, <2>1, Basics DEF TypeOK, accepted
  <2>3. session_mutex[h] = u
    BY <1>3 DEF WaitsFor
  <2> QED  BY <1>1, <1>2, <2>2, <2>3 DEF LockInv
<1>4. ASSUME NEW t \in Thread, NEW u \in Thread, WaitsFor(t, u)
      PROVE  pc[t] \in {"register", "remove"}
  <2>1. ~ (/\ t = Acceptor /\ pc[t] = "insert"
           /\ session_mutex[get_shard(session_id[accepting])] = u)
    <3> SUFFICES ASSUME pc[Acceptor] = "insert",
                        session_mutex[get_shard(session_id[accepting])] = u
                 PROVE  FALSE
      OBVIOUS
    <3>1. accepting \in accepted
      BY <1>0 DEF AcceptInv
    <3>2. get_shard(session_id[accepting]) \in Shard
      BY <1>0, <3>1, Basics DEF TypeOK, accepted
    <3> QED  BY <1>2, <3>2 DEF LockInv
  <2> QED  BY <1>4, <2>1 DEF WaitsFor
<1>5. ASSUME nickname_mutex \notin Cleaners PROVE NoCircle
  <2> SUFFICES ASSUME NEW t \in Thread, NEW u \in Thread, WaitsFor(t, u)
               PROVE  /\ u # t /\ pc[u] # "idle"
                      /\ \A v \in Thread : WaitsFor(u, v) =>
                            /\ v \notin {t, u} /\ pc[v] # "idle"
                            /\ \A w \in Thread : ~WaitsFor(v, w)
    BY DEF NoCircle, ShortChains
  <2>1. CASE pc[t] = "remove"
    <3>1. u = Acceptor /\ pc[u] = "unlock"
      BY <1>3, <2>1
    <3>2. \A v \in Thread : ~WaitsFor(u, v)
      BY <1>4, <3>1
    <3> QED  BY <2>1, <3>1, <3>2
  <2>2. CASE pc[t] = "register"
    <3>1. u = nickname_mutex
      BY <2>2 DEF WaitsFor
    <3>2. u \in Sessions /\ pc[u] \in InClose
      BY <1>0, <1>2, <1>5, <3>1 DEF TypeOK, LockInv
    <3>3. ASSUME NEW v \in Thread, WaitsFor(u, v)
          PROVE  v = Acceptor /\ pc[v] = "unlock" /\ pc[u] = "remove"
      <4>1. pc[u] = "remove"
        BY <1>4, <3>2, <3>3 DEF InClose
      <4> QED  BY <1>3, <3>3, <4>1
    <3>4. ASSUME NEW v \in Thread, WaitsFor(u, v), NEW w \in Thread, WaitsFor(v, w)
          PROVE  FALSE
      BY <1>4, <3>3, <3>4
    <3> QED  BY <2>2, <3>2, <3>3, <3>4 DEF InClose
  <2> QED  BY <1>4, <2>1, <2>2
<1>6. \A s \in Sessions : pc[s] # "unlock"
  BY <1>0 DEF LoginOf
<1> QED  BY <1>1, <1>4, <1>5, <1>6

\* At the start nobody has a mutex.
LEMMA LockInit == Init => LockInv /\ nickname_mutex = none
  BY Basics DEF Init, LockInv

(***************************************************************************)
(* No thread of the registry waits in a circle or for a mutex that was     *)
(* left locked, although register_nickname and add_session close other     *)
(* sessions, which takes a shard's mutex: the safety behind                *)
(* OperationsReturn.                                                       *)
(***************************************************************************)
THEOREM NoCircleHolds == Spec => []NoCircle
<1> DEFINE I == ManagerInv /\ LockInv /\ nickname_mutex \in Sessions \cup {none}
<1>1. Init => I
  BY ManagerInit, LockInit
<1>2. I /\ [Next]_vars => I'
  BY ManagerStep, LockStep
<1>3. I => NoCircle
  BY WaitsAre, SessionManagerConfig
<1> HIDE DEF I
<1> QED  BY <1>1, <1>2, <1>3, PTL DEF Spec

\* Every step of the maintenance operations keeps the owners as well.
LEMMA CleanerLockStep ==
    ASSUME MInv, LockInv, CleanerLocks, [MNext]_allVars
    PROVE  LockInv' /\ CleanerLocks'
<1>0. ManagerInv /\ TypeOK /\ CleanerTypes
  BY DEF MInv, ManagerInv
<1>1. ASSUME [Next]_vars, UNCHANGED mpc PROVE LockInv' /\ CleanerLocks'
  <2>1. LockInv' /\ nickname_mutex' \in Sessions \cup {none, nickname_mutex}
    BY <1>0, <1>1, LockStep
  <2> QED  BY <1>1, <2>1, SessionManagerConfig DEF CleanerLocks
<1>2. CASE Next /\ ManagerFollows
  BY <1>1, <1>2 DEF ManagerFollows, cleanerVars
<1>3. CASE tick \/ UNCHANGED allVars
  BY <1>1, <1>3 DEF tick, allVars, mvars, cleanerVars
<1>4. ASSUME NEW c \in Cleaners, UNCHANGED vars, nickname_mutex # c,
             NEW o, mpc' = [mpc EXCEPT ![c] = o]
      PROVE  LockInv' /\ CleanerLocks'
  <2>1. LockInv' /\ nickname_mutex' = nickname_mutex
    BY <1>0, <1>4, LockStep DEF vars
  <2>2. \A d \in Cleaners : d # c => mpc'[d] = mpc[d]
    BY <1>0, <1>4 DEF CleanerTypes
  <2> QED  BY <1>4, <2>1, <2>2 DEF CleanerLocks
<1>5. ASSUME NEW c \in Cleaners, NEW o \in Operations, call(c, o)
      PROVE  LockInv' /\ CleanerLocks'
  BY <1>4, <1>5 DEF call, CleanerLocks
<1>6. ASSUME NEW c \in Cleaners,
             \/ traverse(c) \/ \E s \in Sessions : visit(c, s)
      PROVE  LockInv' /\ CleanerLocks'
  BY <1>1, <1>6 DEF traverse, visit
<1>7. ASSUME NEW c \in Cleaners, NEW oldest \in SUBSET Sessions, choose_oldest(c, oldest)
      PROVE  LockInv' /\ CleanerLocks'
  BY <1>4, <1>7 DEF choose_oldest, CleanerLocks
<1>8. ASSUME NEW c \in Cleaners, return(c) PROVE LockInv' /\ CleanerLocks'
  <2>1. mpc[c] # "expired"
    BY <1>8 DEF return, Closing
  <2>2. nickname_mutex # c
    BY <2>1 DEF CleanerLocks
  <2>3. UNCHANGED vars /\ mpc' = [mpc EXCEPT ![c] = "idle"]
    BY <1>8 DEF return, Leave
  <2> QED  BY <1>4, <2>2, <2>3
<1>9. ASSUME NEW c \in Cleaners, close_selected_done(c) \/ \E s \in Sessions : close_selected(c, s)
      PROVE  LockInv' /\ CleanerLocks'
  <2>1. UNCHANGED <<session_mutex, nickname_mutex, session_id, accepting, wanted, mpc>>
    BY <1>9 DEF close_selected, close_selected_done, sessionVars, mvars, cleanerVars
  <2>2. \A u \in Thread : u # c => pc'[u] = pc[u]
    BY <1>0, <1>9 DEF close_selected, close_selected_done, Go, TypeOK
  <2> QED  BY <2>1, <2>2, Basics DEF LockInv, CleanerLocks
<1>10. ASSUME NEW c \in Cleaners, NEW n \in Nicknames, NEW s \in Sessions,
              unregister_nickname(c, n, s)
       PROVE  LockInv' /\ CleanerLocks'
  <2>1. /\ nickname_mutex' = c /\ mpc' = [mpc EXCEPT ![c] = "expired"]
        /\ UNCHANGED <<session_mutex, session_id, accepting, pc, wanted>>
    BY <1>10 DEF unregister_nickname, sessionVars, localVars
  <2>2. mpc'[c] = "expired"
    BY <1>0, <2>1 DEF CleanerTypes
  <2> QED  BY <2>1, <2>2, Basics DEF LockInv, CleanerLocks
<1>11. ASSUME NEW c \in Cleaners, cleanup_expired_nicknames(c)
       PROVE  LockInv' /\ CleanerLocks'
  <2>1. nickname_mutex = none
        /\ UNCHANGED <<session_mutex, nickname_mutex, session_id, accepting, pc, wanted>>
    BY <1>11 DEF cleanup_expired_nicknames, sessionVars, localVars
  <2> QED  BY <2>1, SessionManagerConfig DEF LockInv, CleanerLocks
<1>12. ASSUME NEW c \in Cleaners, Clean(c) PROVE LockInv' /\ CleanerLocks'
  BY <1>6, <1>7, <1>8, <1>9, <1>10, <1>11, <1>12 DEF Clean
<1> QED  BY <1>2, <1>3, <1>5, <1>12 DEF MNext

(***************************************************************************)
(* With the maintenance operations switched on, in any number of threads:  *)
(* the only circle is unregister_nickname waiting for itself in            *)
(* cleanup_expired_nicknames.  The safety behind OnlyUnregisterHangs.      *)
(***************************************************************************)
THEOREM NoCircleButHolds == MSpec => []NoCircleBut
<1>1. MInit => MInv /\ LockInv /\ CleanerLocks
  BY MaintenanceInit, LockInit, SessionManagerConfig DEF MInit, CleanerLocks
<1>2. MInv /\ LockInv /\ CleanerLocks /\ [MNext]_allVars
        => MInv' /\ LockInv' /\ CleanerLocks'
  BY MaintenanceStep, CleanerLockStep
<1>3. ASSUME MInv, LockInv, CleanerLocks, ~SelfDeadlock PROVE ShortChains(MWaitsFor)
  <2>0. ManagerInv /\ TypeOK /\ CleanerTypes /\ \A c \in Cleaners : CleanerOf(c)
    BY <1>3 DEF MInv, ManagerInv, AllOf
  <2>1. nickname_mutex \notin Cleaners
    BY <1>3 DEF CleanerLocks, SelfDeadlock
  <2>2. /\ NoCircle /\ \A h \in Shard : session_mutex[h] \in {none, Acceptor}
        /\ \A s \in Sessions : pc[s] # "unlock"
        /\ \A t, u \in Thread : WaitsFor(t, u) => pc[t] \in {"register", "remove"}
    BY <1>3, <2>0, <2>1, WaitsAre
  <2>3. none \notin Thread
    BY SessionManagerConfig DEF Thread
  <2>4. \A t \in Thread \ Cleaners, u \in Thread : MWaitsFor(t, u) <=> WaitsFor(t, u)
    BY DEF MWaitsFor
  <2>5. ASSUME NEW t \in Thread, NEW u \in Thread, MWaitsFor(t, u)
        PROVE  u \notin Cleaners
    <3>1. CASE pc[t] = "remove" /\ session_mutex[get_shard(session_id[target[t]])] = u
      <4>1. target[t] \in accepted
        BY <2>0, <3>1 DEF ManagerInv, RefInv
      <4>2. get_shard(session_id[target[t]]) \in Shard
        BY <2>0, <4>1, Basics DEF TypeOK, accepted
      <4> QED  BY <2>2, <2>3, <3>1, <4>2, Basics
    <3>2. CASE t \in Cleaners /\ shard[t] < ShardCount /\ session_mutex[shard[t]] = u
      <4>1. shard[t] \in Shard
        BY <2>0, <3>2, SessionManagerConfig DEF CleanerTypes, Shard
      <4> QED  BY <2>2, <2>3, <3>2, <4>1, Basics
    <3>3. CASE nickname_mutex = u
      BY <2>1, <3>3
    <3>4. WaitsFor(t, u) => pc[t] \in {"register", "remove"}
      BY <2>2
    <3> QED  BY <2>5, <3>1, <3>2, <3>3, <3>4 DEF MWaitsFor, WaitsFor
  <2>6. ASSUME NEW t \in Cleaners, NEW u \in Thread, MWaitsFor(t, u), ~WaitsFor(t, u)
        PROVE  \/ u = Acceptor /\ pc[u] = "unlock"
               \/ u \in Sessions /\ pc[u] \in InClose
    <3>1. CASE shard[t] < ShardCount /\ session_mutex[shard[t]] = u
      <4>1. shard[t] \in Shard
        BY <2>0, <3>1, SessionManagerConfig DEF CleanerTypes, Shard
      <4> QED  BY <1>3, <2>2, <2>3, <3>1, <4>1 DEF LockInv
    <3>2. CASE nickname_mutex = u
      <4>1. u \in Sessions
        BY <2>0, <2>1, <2>3, <3>2 DEF TypeOK
      <4> QED  BY <1>3, <3>2, <4>1 DEF LockInv
    <3> QED  BY <2>6, <3>1, <3>2 DEF MWaitsFor
  <2>7. ASSUME NEW u \in Thread \ Cleaners, NEW v \in Thread, WaitsFor(u, v), pc[u] \in InClose
        PROVE  v = Acceptor /\ pc[v] = "unlock"
    <3>1. pc[u] = "remove" /\ session_mutex[get_shard(session_id[target[u]])] = v
      BY <2>7 DEF WaitsFor, InClose
    <3>2. target[u] \in accepted
      BY <2>0, <3>1 DEF ManagerInv, RefInv
    <3>3. get_shard(session_id[target[u]]) \in Shard
      BY <2>0, <3>2, Basics DEF TypeOK, accepted
    <3> QED  BY <1>3, <2>2, <2>3, <3>1, <3>3 DEF LockInv
  <2>8. \A w \in Thread : pc[Acceptor] = "unlock" => ~MWaitsFor(Acceptor, w)
    BY Basics DEF MWaitsFor, WaitsFor
  <2> SUFFICES ASSUME NEW t \in Thread, NEW u \in Thread, MWaitsFor(t, u)
               PROVE  /\ u # t /\ pc[u] # "idle"
                      /\ \A v \in Thread : MWaitsFor(u, v) =>
                            /\ v \notin {t, u} /\ pc[v] # "idle"
                            /\ \A w \in Thread : ~MWaitsFor(v, w)
    BY DEF ShortChains
  <2>9. u \notin Cleaners
    BY <2>5
  <2>10. CASE WaitsFor(t, u)
    <3>1. u # t /\ pc[u] # "idle"
      BY <2>2, <2>10 DEF NoCircle, ShortChains
    <3>2. ASSUME NEW v \in Thread, MWaitsFor(u, v)
          PROVE  /\ v \notin {t, u} /\ pc[v] # "idle"
                 /\ \A w \in Thread : ~MWaitsFor(v, w)
      <4>1. WaitsFor(u, v) /\ v \notin Cleaners
        BY <2>4, <2>5, <2>9, <3>2
      <4>2. /\ v \notin {t, u} /\ pc[v] # "idle"
            /\ \A w \in Thread : ~WaitsFor(v, w)
        BY <2>2, <2>10, <4>1 DEF NoCircle, ShortChains
      <4> QED  BY <2>4, <4>1, <4>2
    <3> QED  BY <3>1, <3>2
  <2>11. CASE ~WaitsFor(t, u)
    <3>1. t \in Cleaners
      BY <2>4, <2>11
    <3>2. /\ u # t
          /\ \/ u = Acceptor /\ pc[u] = "unlock"
             \/ u \in Sessions /\ pc[u] \in InClose
      BY <2>6, <2>9, <2>11, <3>1
    <3>3. ASSUME NEW v \in Thread, MWaitsFor(u, v)
          PROVE  v = Acceptor /\ pc[v] = "unlock" /\ u \in Sessions
      BY <2>4, <2>7, <2>8, <2>9, <3>2, <3>3
    <3> QED  BY <2>8, <3>1, <3>2, <3>3, Basics DEF InClose
  <2> QED  BY <2>10, <2>11
<1>4. MInv /\ LockInv /\ CleanerLocks => NoCircleBut
  BY <1>3 DEF NoCircleBut
<1> QED  BY <1>1, <1>2, <1>4, PTL DEF MSpec
=============================================================================
