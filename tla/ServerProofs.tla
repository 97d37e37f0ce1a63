---------------------------- MODULE ServerProofs ----------------------------
(***************************************************************************)
(* Proofs about Server, for every white list, any number of cores, of      *)
(* connections and of sessions.                                            *)
(***************************************************************************)
EXTENDS Server, FiniteSetTheorems, TLAPS

\* Nothing runs before the threads do: setup() finds a clean slate.
NotStarted ==
    phase \in {"load_config", "get_env_secret", "setup"} =>
        /\ thread_count = 0
        /\ ended = {}
        /\ acceptor = "none"
        /\ session = <<>>

\* The white list comes from the file, the sessions from the white list.
Listed ==
    /\ file \in Files \cup {missing}
    /\ allowed_ips \subseteq load(file)
    /\ ToSet(session) \subseteq allowed_ips

\* There is one async_accept, and so at most one accept handler to run: none
\* once the accept loop is lost.
OnceIn(q) == \A i, j \in DOMAIN q : q[i] = accept /\ q[j] = accept => i = j

AcceptOnce ==
    /\ accept \in ToSet(ready) => acceptor = "ready"
    /\ OnceIn(ready)

ServerInv == TypeOK /\ NotStarted /\ Listed /\ AcceptOnce /\ OneThreadLost
-----------------------------------------------------------------------------
Handlers == {monitor, accept} \cup SessionIds

\* A handler becomes ready.
LEMMA BecomesReady ==
    ASSUME NEW S, NEW q \in Seq(S), NEW h \in S
    PROVE  /\ Append(q, h) \in Seq(S)
           /\ ToSet(Append(q, h)) = ToSet(q) \cup {h}
           /\ OnceIn(q) /\ (h = accept => accept \notin ToSet(q)) => OnceIn(Append(q, h))
<1> DEFINE r == Append(q, h)
<1>1. /\ r \in Seq(S) /\ DOMAIN r = 1..(Len(q) + 1) /\ r[Len(q) + 1] = h
      /\ \A i \in 1..Len(q) : r[i] = q[i]
  OBVIOUS
<1>2. DOMAIN q = 1..Len(q) /\ Len(q) \in Nat
  OBVIOUS
<1> HIDE DEF r
<1>3. /\ \A i \in DOMAIN r : i = Len(q) + 1 \/ (i \in DOMAIN q /\ r[i] = q[i])
      /\ \A i \in DOMAIN q : i \in DOMAIN r
      /\ Len(q) + 1 \in DOMAIN r
  BY <1>1, <1>2
<1>4. ToSet(r) = ToSet(q) \cup {h}
  <2>1. ToSet(r) \subseteq ToSet(q) \cup {h}
    BY <1>1, <1>3 DEF ToSet
  <2>2. ToSet(q) \cup {h} \subseteq ToSet(r)
    BY <1>1, <1>3 DEF ToSet
  <2> QED  BY <2>1, <2>2
<1>5. ASSUME OnceIn(q), h = accept => accept \notin ToSet(q) PROVE OnceIn(r)
  <2>1. h = accept => \A i \in DOMAIN q : q[i] # accept
    BY <1>5 DEF ToSet
  <2> QED  BY <1>1, <1>3, <1>5, <2>1 DEF OnceIn
<1> QED  BY <1>1, <1>4, <1>5 DEF r

\* A thread takes the first handler.
LEMMA TakenOff ==
    ASSUME NEW S, NEW q \in Seq(S), q # <<>>
    PROVE  /\ Tail(q) \in Seq(S)
           /\ ToSet(Tail(q)) \subseteq ToSet(q) /\ Head(q) \in ToSet(q)
           /\ OnceIn(q) => OnceIn(Tail(q))
           /\ OnceIn(q) /\ Head(q) = accept => accept \notin ToSet(Tail(q))
<1> DEFINE r == Tail(q)
<1>1. /\ r \in Seq(S) /\ DOMAIN r = 1..(Len(q) - 1) /\ Head(q) = q[1]
      /\ \A i \in 1..(Len(q) - 1) : r[i] = q[i + 1]
  OBVIOUS
<1>2. DOMAIN q = 1..Len(q) /\ Len(q) \in Nat /\ Len(q) >= 1
  OBVIOUS
<1> HIDE DEF r
<1>3. /\ \A i \in DOMAIN r : i \in Nat /\ i + 1 # 1 /\ i + 1 \in DOMAIN q /\ r[i] = q[i + 1]
      /\ 1 \in DOMAIN q
  BY <1>1, <1>2
<1>4. ToSet(r) \subseteq ToSet(q) /\ Head(q) \in ToSet(q)
  BY <1>1, <1>3 DEF ToSet
<1>5. OnceIn(q) => OnceIn(r)
  BY <1>3 DEF OnceIn
<1>6. OnceIn(q) /\ Head(q) = accept => accept \notin ToSet(r)
  BY <1>1, <1>3 DEF OnceIn, ToSet
<1> QED  BY <1>1, <1>4, <1>5, <1>6 DEF r

\* The process starts in the invariant.
LEMMA InitServerInv == Init => ServerInv
<1> SUFFICES ASSUME Init PROVE ServerInv
  OBVIOUS
<1> USE DEF Init
<1>1. TypeOK
  BY ServerConfig DEF TypeOK
<1>2. NotStarted
  BY DEF NotStarted
<1>3. Listed
  BY DEF Listed, ToSet
<1>4. AcceptOnce
  BY DEF AcceptOnce, OnceIn, ToSet
<1>5. OneThreadLost
  BY FS_EmptySet DEF OneThreadLost
<1> QED  BY <1>1, <1>2, <1>3, <1>4, <1>5 DEF ServerInv

\* Steps of main(): they leave the handlers alone.
LEMMA MainStep ==
    ASSUME ServerInv,
           load_config \/ get_env_secret \/ setup_failed \/ join
             \/ \E cores \in Cores : setup(cores)
    PROVE  ServerInv'
<1> USE DEF ServerInv
<1>1. CASE load_config \/ get_env_secret \/ setup_failed
  <2>1. UNCHANGED <<setupVars, ended, ready, acceptor, monitor_timer, session, accepts>>
    BY <1>1 DEF load_config, get_env_secret, setup_failed
  <2>2. /\ phase \in {"load_config", "get_env_secret", "setup"}
        /\ phase' \in {"get_env_secret", "setup", "terminate", "return 0", "return 1"}
    BY <1>1 DEF load_config, get_env_secret, setup_failed
  <2>3. TypeOK'
    BY <2>1, <2>2 DEF TypeOK, Threads, setupVars
  <2>4. NotStarted'
    BY <2>1, <2>2 DEF NotStarted, setupVars
  <2>5. Listed'
    BY <2>1 DEF Listed, setupVars
  <2>6. AcceptOnce'
    BY <2>1 DEF AcceptOnce, OnceIn
  <2>7. OneThreadLost'
    <3>1. thread_count' = 0 /\ ended' = {} /\ acceptor' = "none"
      BY <2>1, <2>2 DEF NotStarted, setupVars
    <3>2. Cardinality(ended') <= 1
      BY <3>1, FS_EmptySet
    <3>3. ended' # {} <=> acceptor' = "lost"
      BY <3>1
    <3>4. thread_count' < 2
      BY <3>1
    <3> QED  BY <3>2, <3>3, <3>4 DEF OneThreadLost
  <2> QED  BY <2>3, <2>4, <2>5, <2>6, <2>7
<1>2. CASE join
  <2>1. /\ UNCHANGED <<setupVars, ended, ready, acceptor, monitor_timer, session, accepts>>
        /\ phase = "join" /\ phase' = "return 0" /\ ended = Threads
    BY <1>2 DEF join
  <2>2. TypeOK'
    BY <2>1 DEF TypeOK, Threads, setupVars
  <2>3. NotStarted'
    BY <2>1 DEF NotStarted
  <2>4. Listed'
    BY <2>1 DEF Listed, setupVars
  <2>5. AcceptOnce'
    BY <2>1 DEF AcceptOnce, OnceIn
  <2>6. thread_count < 2
    <3>1. thread_count \in Nat /\ Cardinality(1..thread_count) <= 1
      BY <2>1 DEF TypeOK, OneThreadLost, Threads
    <3>2. Cardinality(1..thread_count) =
            IF 1 > thread_count THEN 0 ELSE thread_count - 1 + 1
      BY <3>1, FS_Interval
    <3> QED  BY <3>1, <3>2
  <2>7. OneThreadLost'
    BY <2>1, <2>6 DEF OneThreadLost, setupVars
  <2> QED  BY <2>2, <2>3, <2>4, <2>5, <2>7
<1>3. ASSUME NEW cores \in Cores, setup(cores) PROVE ServerInv'
  <2>1. /\ phase = "setup" /\ phase' = "join" /\ acceptor' = "armed"
        /\ monitor_timer' = "armed" /\ allowed_ips' = load(file)
        /\ UNCHANGED <<file, ended, ready, session, accepts>>
    BY <1>3 DEF setup
  <2>2. ended = {} /\ session = <<>> /\ acceptor = "none"
    BY <2>1 DEF NotStarted
  <2>3. thread_count' \in Nat
    BY <1>3, ServerConfig DEF setup
  <2>4. allowed_ips' \subseteq Addresses \cup {"other"}
    BY <2>1 DEF Listed, load, Files, Line
  <2>5. TypeOK'
    BY <2>1, <2>2, <2>3, <2>4 DEF TypeOK
  <2>6. NotStarted'
    BY <2>1 DEF NotStarted
  <2>7. Listed'
    BY <2>1, <2>2 DEF Listed, ToSet
  <2>8. AcceptOnce'
    BY <2>1, <2>2 DEF AcceptOnce, OnceIn
  <2>9. OneThreadLost'
    BY <2>1, <2>2, FS_EmptySet DEF OneThreadLost
  <2> QED  BY <2>5, <2>6, <2>7, <2>8, <2>9
<1> QED  BY <1>1, <1>2, <1>3

\* A handler becomes ready: a peer connects, the monitor timer expires,
\* something happens for a session.
LEMMA ReadyStep ==
    ASSUME ServerInv,
           accept_completes \/ monitor_expires \/ \E s \in SessionIds : session_event(s)
    PROVE  ServerInv'
<1> USE DEF ServerInv
<1>1. PICK h \in Handlers :
        /\ ready' = Append(ready, h)
        /\ h = accept => acceptor = "armed" /\ acceptor' = "ready"
        /\ h # accept => acceptor' = acceptor
  BY ServerConfig DEF accept_completes, monitor_expires, session_event, Handlers, SessionIds
<1>2. /\ UNCHANGED <<phase, setupVars, ended, session>>
      /\ accepts' \in 0..MaxAccepts
      /\ monitor_timer' \in {"none", "armed", "ready"}
  <2>1. UNCHANGED <<phase, setupVars, ended, session>>
    BY DEF accept_completes, monitor_expires, session_event
  <2>2. accepts' = accepts \/ (accepts < MaxAccepts /\ accepts' = accepts + 1)
    BY DEF accept_completes, monitor_expires, session_event
  <2>3. accepts \in 0..MaxAccepts /\ monitor_timer \in {"none", "armed", "ready"}
    BY DEF TypeOK
  <2>4. accepts' \in 0..MaxAccepts
    BY <2>2, <2>3, ServerConfig
  <2>5. monitor_timer' = monitor_timer \/ monitor_timer' = "ready"
    BY DEF accept_completes, monitor_expires, session_event
  <2> QED  BY <2>1, <2>3, <2>4, <2>5
<1>3. ready \in Seq(Handlers) /\ acceptor \in {"none", "armed", "ready", "lost"}
  BY DEF TypeOK, Handlers
<1>4. h = accept => accept \notin ToSet(ready)
  BY <1>1 DEF AcceptOnce
<1>5. /\ ready' \in Seq(Handlers) /\ ToSet(ready') = ToSet(ready) \cup {h} /\ OnceIn(ready')
  BY <1>1, <1>3, <1>4, BecomesReady DEF AcceptOnce
<1>6. TypeOK'
  BY <1>1, <1>2, <1>3, <1>5 DEF TypeOK, Threads, setupVars, Handlers
<1>7. NotStarted'
  BY <1>1, <1>2 DEF NotStarted, setupVars
<1>8. Listed'
  BY <1>2 DEF Listed, setupVars
<1>9. AcceptOnce'
  BY <1>1, <1>5 DEF AcceptOnce
<1>10. OneThreadLost'
  BY <1>1, <1>2 DEF OneThreadLost, setupVars
<1> QED  BY <1>6, <1>7, <1>8, <1>9, <1>10

\* A thread runs a handler.
LEMMA HandlerStep ==
    ASSUME ServerInv, NEW t, RunHandler(t)
    PROVE  ServerInv'
<1> USE DEF ServerInv
<1>1. /\ phase = "join" /\ t \in Threads \ ended
      /\ ready # <<>> /\ ready' = Tail(ready)
      /\ UNCHANGED <<phase, setupVars, accepts>>
      /\ monitor_timer' \in {"none", "armed", "ready"}
  BY DEF RunHandler, Takes, accept_throws, accept_refused, accept_session,
         monitor_handler, session_handler, TypeOK
<1>2. ready \in Seq(Handlers)
  BY DEF TypeOK, Handlers
<1>3. /\ ready' \in Seq(Handlers) /\ ToSet(ready') \subseteq ToSet(ready)
      /\ Head(ready) \in ToSet(ready) /\ OnceIn(ready')
      /\ Head(ready) = accept => accept \notin ToSet(ready')
  BY <1>1, <1>2, TakenOff DEF AcceptOnce
<1>4. NotStarted'
  BY <1>1 DEF NotStarted
<1>5. /\ ended' = ended
      /\ session' = session \/ \E ip \in Addresses : ip \in allowed_ips /\ session' = Append(session, ip)
      /\ \/ acceptor' = acceptor
         \/ Head(ready) = accept /\ acceptor' = "armed"
      => ServerInv'
  <2> SUFFICES ASSUME ended' = ended,
                      session' = session \/ \E ip \in Addresses : ip \in allowed_ips /\ session' = Append(session, ip),
                      \/ acceptor' = acceptor
                      \/ Head(ready) = accept /\ acceptor' = "armed"
               PROVE  ServerInv'
    OBVIOUS
  <2>1. session' \in Seq(Addresses) /\ ToSet(session') \subseteq allowed_ips
    <3>1. session \in Seq(Addresses) /\ ToSet(session) \subseteq allowed_ips
      BY DEF TypeOK, Listed
    <3>2. ASSUME NEW ip \in Addresses, ip \in allowed_ips, session' = Append(session, ip)
          PROVE  session' \in Seq(Addresses) /\ ToSet(session') = ToSet(session) \cup {ip}
      BY <3>1, <3>2, BecomesReady
    <3> QED  BY <3>1, <3>2
  <2>2. TypeOK'
    BY <1>1, <1>3, <2>1 DEF TypeOK, Threads, setupVars, Handlers
  <2>3. Listed'
    BY <1>1, <2>1 DEF Listed, setupVars
  <2>4. AcceptOnce'
    BY <1>3 DEF AcceptOnce
  <2>5. OneThreadLost'
    BY <1>1, <1>3 DEF OneThreadLost, AcceptOnce, setupVars
  <2> QED  BY <1>4, <2>2, <2>3, <2>4, <2>5
<1>6. CASE accept_throws(t)
  <2>1. /\ Head(ready) = accept /\ acceptor' = "lost" /\ ended' = ended \cup {t}
        /\ session' = session
    BY <1>6 DEF accept_throws, Takes
  <2>2. acceptor = "ready" /\ ended = {} /\ accept \notin ToSet(ready')
    BY <1>3, <2>1 DEF AcceptOnce, OneThreadLost
  <2>3. TypeOK'
    BY <1>1, <1>3, <2>1 DEF TypeOK, Threads, setupVars, Handlers
  <2>4. Listed'
    BY <1>1, <2>1 DEF Listed, setupVars
  <2>5. AcceptOnce'
    BY <1>3, <2>2 DEF AcceptOnce
  <2>6. OneThreadLost'
    <3>1. ended' = {t} /\ Cardinality(ended') = 1
      BY <2>1, <2>2, FS_Singleton
    <3> QED  BY <1>1, <2>1, <3>1 DEF OneThreadLost
  <2> QED  BY <1>4, <2>3, <2>4, <2>5, <2>6
<1>7. CASE accept_refused(t)
  BY <1>5, <1>7 DEF accept_refused, Takes
<1>8. ASSUME NEW ip \in Addresses, accept_session(t, ip) PROVE ServerInv'
  BY <1>5, <1>8 DEF accept_session, is_allowed, Takes
<1>9. CASE monitor_handler(t)
  BY <1>5, <1>9 DEF monitor_handler
<1>10. ASSUME NEW s \in SessionIds, session_handler(t, s) PROVE ServerInv'
  BY <1>5, <1>10 DEF session_handler
<1> QED  BY <1>6, <1>7, <1>8, <1>9, <1>10 DEF RunHandler

\* Every step of the process keeps the invariant.
LEMMA ServerInvStep == ServerInv /\ [Next]_vars => ServerInv'
<1> SUFFICES ASSUME ServerInv, [Next]_vars PROVE ServerInv'
  OBVIOUS
<1>1. CASE UNCHANGED vars
  BY <1>1 DEF vars, setupVars, ServerInv, TypeOK, Threads, NotStarted, Listed, AcceptOnce,
              OnceIn, OneThreadLost
<1>2. CASE RunThreads
  BY <1>2, HandlerStep DEF RunThreads
<1> QED  BY <1>1, <1>2, MainStep, ReadyStep DEF Next

(***************************************************************************)
(* The inductive invariant of the process.                                 *)
(***************************************************************************)
THEOREM ServerInvHolds == Spec => []ServerInv
BY InitServerInv, ServerInvStep, PTL DEF Spec

(***************************************************************************)
(* Type correctness of main, the accept loop and the monitor loop.         *)
(***************************************************************************)
THEOREM TypeCorrect == Spec => []TypeOK
<1>1. ServerInv => TypeOK
  BY DEF ServerInv
<1> QED  BY <1>1, ServerInvHolds, PTL

(***************************************************************************)
(* The accept handler makes sessions only for addresses that are lines of  *)
(* allowed_ips.txt; without the file there are none.                       *)
(***************************************************************************)
THEOREM ListedOnlyHolds == Spec => []ListedOnly
<1>1. ServerInv => ListedOnly
  <2> SUFFICES ASSUME ServerInv, session # <<>>
               PROVE  file # missing /\ ToSet(session) \subseteq file
    BY DEF ListedOnly
  <2>1. ToSet(session) # {}
    <3>1. session \in Seq(Addresses)
      BY DEF ServerInv, TypeOK
    <3>2. 1 \in DOMAIN session
      BY <3>1
    <3> QED  BY <3>2 DEF ToSet
  <2> QED  BY <2>1 DEF ServerInv, Listed, load
<1> QED  BY <1>1, ServerInvHolds, PTL

(***************************************************************************)
(* An exception of the accept handler ends one thread and the accept loop, *)
(* and never a second thread; main returns only if there was but one.      *)
(***************************************************************************)
THEOREM OneThreadLostHolds == Spec => []OneThreadLost
<1>1. ServerInv => OneThreadLost
  BY DEF ServerInv
<1> QED  BY <1>1, ServerInvHolds, PTL
(***************************************************************************)
(* With two threads or more main waits in join() for ever, and a thread is *)
(* left in io.run(): whatever the peers do to the accept handler, somebody *)
(* is there to run the handlers of the sessions.  This is the safety that  *)
(* SessionsServed rests on.                                                *)
(***************************************************************************)
AlwaysServed == thread_count >= 2 => phase = "join" /\ Threads \ ended # {}

\* Threads are there only while main waits for them, and when it returns.
Started == thread_count >= 1 => phase \in {"join", "return 0"}

\* Only setup() makes threads; from then on only join changes the phase.
LEMMA StartedStep == ServerInv /\ Started /\ [Next]_vars => Started'
<1> SUFFICES ASSUME ServerInv, Started, [Next]_vars PROVE Started'
  OBVIOUS
<1> USE DEF Started
<1>1. CASE load_config \/ get_env_secret \/ setup_failed
  <2>1. thread_count' = thread_count /\ thread_count = 0
    BY <1>1 DEF load_config, get_env_secret, setup_failed, setupVars, ServerInv, NotStarted
  <2>2. ~(thread_count' >= 1)
    BY <2>1
  <2> QED  BY <2>2
<1>2. CASE join \/ \E cores \in Cores : setup(cores)
  <2>1. phase' \in {"join", "return 0"}
    BY <1>2 DEF join, setup
  <2> QED  BY <2>1
<1>3. CASE /\ ~(load_config \/ get_env_secret \/ setup_failed)
           /\ ~(join \/ \E cores \in Cores : setup(cores))
  <2>1. ASSUME NEW t, RunHandler(t) PROVE phase' = phase /\ thread_count' = thread_count
    BY <2>1 DEF RunHandler, accept_throws, accept_refused, accept_session,
                monitor_handler, session_handler, setupVars
  <2>2. phase' = phase /\ thread_count' = thread_count
    BY <1>3, <2>1 DEF Next, vars, setupVars, accept_completes, monitor_expires,
                      session_event, RunThreads
  <2> QED  BY <2>2
<1> QED  BY <1>1, <1>2, <1>3

(***************************************************************************)
(* A process that runs with two threads or more never loses the last one,  *)
(* and never returns from main.                                            *)
(***************************************************************************)
THEOREM AlwaysServedHolds == Spec => []AlwaysServed
<1>1. Init => Started
  BY DEF Init, Started
<1>2. ServerInv /\ Started => AlwaysServed
  <2> SUFFICES ASSUME ServerInv, Started, thread_count >= 2
               PROVE  phase = "join" /\ Threads \ ended # {}
    BY DEF AlwaysServed
  <2>1. thread_count \in Nat /\ Cardinality(ended) <= 1 /\ ended \subseteq Threads
    BY DEF ServerInv, TypeOK, OneThreadLost
  <2>2. phase = "join"
    <3>1. ~(thread_count < 2) /\ thread_count >= 1
      BY <2>1
    <3>2. phase = "return 0" => thread_count < 2
      BY DEF ServerInv, OneThreadLost
    <3> QED  BY <3>1, <3>2 DEF Started
  <2>3. ended # Threads
    <3>1. Cardinality(1..thread_count) =
            IF 1 > thread_count THEN 0 ELSE thread_count - 1 + 1
      BY <2>1, FS_Interval
    <3> QED  BY <2>1, <3>1 DEF Threads
  <2> QED  BY <2>1, <2>2, <2>3
<1> QED  BY <1>1, <1>2, StartedStep, ServerInvHolds, PTL DEF Spec
=============================================================================
