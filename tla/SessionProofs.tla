---------------------------- MODULE SessionProofs ----------------------------
(***************************************************************************)
(* What holds of a Session for every queue limit, every number of packets  *)
(* and with or without the login timeout, proved of LSpec, of which the    *)
(* behaviours of Session.tla are the part with timeout_started = FALSE.    *)
(*                                                                         *)
(* The inductive invariant SessionInv has a part for each argument:        *)
(*   CloseInv  one thread tears down, in the order of close_session        *)
(*   ReadInv   the read token                                              *)
(*   LoginInv  what needs the secret, and the one timer                    *)
(*   PostInv   the messages posted and still owed against the packets      *)
(*             received; needed for the refinement of WriteQueue           *)
(*   NewInv    before start() nothing is under way, so only start() can    *)
(*             happen                                                      *)
(***************************************************************************)
EXTENDS LoginTimeout, FiniteSetTheorems, TLAPS

\* Where handlers of the kinds H are in the sequence s, and how many.
Positions(s, H) == {i \in DOMAIN s : s[i] \in H}

Count(s, H) == Cardinality(Positions(s, H))

\* The handlers that carry the read token, and the places of the read
\* callback at which it holds it.
ReadHandler == {"post_task"} \cup ReadResult

Draining == {"drain", "on_nickname_registered", "register_nickname", "login_ack"}

\* TypeOK with task_queue and reading only natural numbers: that they are at
\* most 1 follows from OneReader.  A takeover has an entry to overwrite.
Types ==
    /\ closed \in BOOLEAN
    /\ state \in WQ!SessionState
    /\ posted \in Nat
    /\ socket \in {"open", "closed"}
    /\ tracked \in BOOLEAN
    /\ replaced \in BOOLEAN
    /\ nickname_registered \in BOOLEAN
    /\ indexed \in Nat
    /\ kick_pc # "none" => indexed > 0
    /\ read_pending \in BOOLEAN
    /\ task_queue \in Nat
    /\ task_running \in BOOLEAN
    /\ reading \in Nat
    /\ strand \in Seq(Handler)
    /\ strand_pc \in {"new", "idle", "drain", "run_next_task",
                      "on_nickname_registered", "register_nickname",
                      "login_ack", "login_timeout_close"}
    /\ close_pc \in [Thread -> {"none", "set_state", "close_socket",
                                "remove_session"}]
    /\ kick_pc \in {"none", "close", "overwrite"}
    /\ received \in 0..MaxPackets
    /\ secret_seen \in BOOLEAN
    /\ timeout_started \in BOOLEAN
    /\ starting \in BOOLEAN
    /\ login_timer \in {"off", "waiting", "cancelled"}

\* closed_ is set before state_ and socket_ follow, and asio aborts a read
\* only on a closed socket.
CloseInv ==
    /\ CloseOnce
    /\ state = "Closed" => closed
    /\ Count(strand, {"read_aborted"}) > 0 => closed

\* The timer on its way: about to be started, waiting or cancelled, or its
\* handler posted.
TimerTokens ==
    (IF starting THEN 1 ELSE 0)
      + (IF login_timer # "off" THEN 1 ELSE 0)
      + Count(strand, {"login_timeout"})

\* Before start().
NewInv ==
    strand_pc = "new" =>
        /\ \A t \in Thread : close_pc[t] = "none"
        /\ indexed = 0 /\ ~replaced
        /\ kick_pc = "none"
        /\ in_flight = <<>>
        /\ posted = 0
        /\ ReadTokens = 0
        /\ TimerTokens = 0

\* A read callback has released read_pending_ before it drains, so its
\* do_read finds it released and passes the token on.
ReadInv ==
    /\ OneReader
    /\ strand_pc \in Draining => ~read_pending

\* Only a login with the secret registers; only a registered session can be
\* taken over; the timeout only closes an unregistered one, and only once.
LoginInv ==
    /\ strand_pc = "register_nickname" => nickname_registered
    /\ strand_pc \in {"on_nickname_registered", "login_ack"} => secret_seen
    /\ indexed > 0 => nickname_registered
    /\ Count(strand, {"post_write"}) > 0 => nickname_registered
    /\ nickname_registered => secret_seen
    /\ strand_pc = "login_timeout_close" => ~nickname_registered
    /\ TimerTokens <= 1
    /\ TimerTokens = 1 => timeout_started
    /\ posted > 0 /\ ~secret_seen =>
         /\ timeout_started /\ posted = 1 /\ TimerTokens = 0
         /\ strand_pc = "login_timeout_close" \/ closed

\* Messages still owed: by the running login, by the takeovers that the index
\* entries allow, by the timer, and by handlers already posted.
PcCredit == CASE strand_pc \in {"on_nickname_registered", "register_nickname"} -> 2
              [] strand_pc \in {"login_ack", "new"} -> 1
              [] OTHER -> 0

KickCredit == IF kick_pc = "none" THEN indexed ELSE indexed - 1

Credit == PcCredit + KickCredit + TimerTokens + Count(strand, {"post_write"})

\* A packet brings at most two messages (its answer, and the message of a
\* takeover that its login allows); the one more is that of the timer.
PostInv == posted + Credit <= 2 * received + 1

SessionInv == Types /\ CloseInv /\ NewInv /\ ReadInv /\ LoginInv /\ PostInv
-----------------------------------------------------------------------------
(***************************************************************************)
(* Counting the handlers of a kind among those posted to the strand.       *)
(***************************************************************************)
LEMMA CountType ==
    ASSUME NEW S, NEW s \in Seq(S), NEW H
    PROVE  /\ Positions(s, H) \subseteq 1..Len(s)
           /\ IsFiniteSet(Positions(s, H))
           /\ Count(s, H) \in Nat
<1>1. Positions(s, H) \subseteq 1..Len(s) /\ Len(s) \in Nat
  BY DEF Positions
<1>2. IsFiniteSet(1..Len(s))
  BY <1>1, FS_Interval
<1>3. IsFiniteSet(Positions(s, H))
  BY <1>1, <1>2, FS_Subset
<1> QED  BY <1>1, <1>3, FS_CardinalityType DEF Count

\* No handler is on an empty strand.
LEMMA CountEmpty == ASSUME NEW H PROVE Count(<<>>, H) = 0
<1>1. Positions(<<>>, H) = {}
  BY DEF Positions
<1> QED  BY <1>1, FS_EmptySet DEF Count

\* A post adds one.
LEMMA CountAppend ==
    ASSUME NEW S, NEW s \in Seq(S), NEW e \in S, NEW H
    PROVE  Count(Append(s, e), H) = Count(s, H) + (IF e \in H THEN 1 ELSE 0)
<1> DEFINE r == Append(s, e)
           n == Len(s) + 1
<1>1. /\ DOMAIN r = 1..n /\ r[n] = e /\ \A i \in 1..Len(s) : r[i] = s[i]
      /\ DOMAIN s = 1..Len(s) /\ Len(s) \in Nat
  OBVIOUS
<1> HIDE DEF r
<1>2. /\ IsFiniteSet(Positions(s, H)) /\ n \notin Positions(s, H)
      /\ Count(s, H) \in Nat
  <2>1. n \notin DOMAIN s
    BY <1>1
  <2> QED  BY <2>1, CountType DEF Positions
<1>3. CASE e \in H
  <2>1. Positions(r, H) = Positions(s, H) \cup {n}
    BY <1>1, <1>3 DEF Positions
  <2> HIDE DEF n
  <2>2. Cardinality(Positions(r, H)) = Cardinality(Positions(s, H)) + 1
    BY <1>2, <2>1, FS_AddElement
  <2> QED  BY <1>3, <2>2 DEF Count, r
<1>4. CASE e \notin H
  <2>1. Positions(r, H) = Positions(s, H)
    BY <1>1, <1>4 DEF Positions
  <2> QED  BY <1>2, <1>4, <2>1 DEF Count, r
<1> QED  BY <1>3, <1>4

\* Running one takes it away.
LEMMA CountTail ==
    ASSUME NEW S, NEW s \in Seq(S), s # <<>>, NEW H
    PROVE  Count(s, H) = Count(Tail(s), H) + (IF Head(s) \in H THEN 1 ELSE 0)
<1> DEFINE r == Tail(s)
           f == [i \in Positions(r, H) |-> i + 1]
           P == Positions(s, H) \ {1}
<1>1. /\ r \in Seq(S) /\ DOMAIN r = 1..(Len(s) - 1) /\ Head(s) = s[1]
      /\ \A i \in 1..(Len(s) - 1) : r[i] = s[i + 1]
      /\ DOMAIN s = 1..Len(s) /\ Len(s) \in Nat /\ Len(s) >= 1
  OBVIOUS
<1> HIDE DEF r
<1>2. f \in Bijection(Positions(r, H), P)
  <2>1. \A i \in Positions(r, H) : i \in Nat /\ i + 1 \in P
    BY <1>1 DEF Positions
  <2>2. \A j \in P : j - 1 \in Positions(r, H) /\ j \in Nat /\ (j - 1) + 1 = j
    BY <1>1 DEF Positions
  <2>3. f \in Injection(Positions(r, H), P)
    BY <2>1 DEF Injection, IsInjective
  <2>4. f \in Surjection(Positions(r, H), P)
    BY <2>1, <2>2 DEF Surjection
  <2> QED  BY <2>3, <2>4 DEF Bijection
<1> HIDE DEF f
<1>3. IsFiniteSet(Positions(r, H)) /\ IsFiniteSet(Positions(s, H)) /\ Count(r, H) \in Nat
  BY <1>1, CountType
<1>4. Cardinality(P) = Count(r, H)
  BY <1>2, <1>3, FS_Bijection DEF ExistsBijection, Count
<1>5. 1 \in Positions(s, H) <=> Head(s) \in H
  BY <1>1 DEF Positions
<1>6. /\ Cardinality(P) = IF 1 \in Positions(s, H) THEN Count(s, H) - 1 ELSE Count(s, H)
      /\ Count(s, H) \in Nat
  BY <1>3, FS_RemoveElement, FS_CardinalityType DEF Count
<1> QED  BY <1>3, <1>4, <1>5, <1>6 DEF r

\* Posting a handler to the strand and taking the first one off it.
LEMMA HandlerPosted ==
    ASSUME strand \in Seq(Handler), NEW h \in Handler, strand' = Append(strand, h)
    PROVE  /\ strand' \in Seq(Handler)
           /\ \A H : Count(strand', H) = Count(strand, H) + (IF h \in H THEN 1 ELSE 0)
BY CountAppend

\* What taking a handler off the strand changes.
LEMMA HandlerTaken ==
    ASSUME strand \in Seq(Handler), NEW h, Take(h)
    PROVE  /\ strand' \in Seq(Handler)
           /\ strand_pc = "idle" /\ close_pc["strand"] = "none"
           /\ \A H : /\ Count(strand, H) = Count(strand', H) + (IF h \in H THEN 1 ELSE 0)
                     /\ Count(strand', H) \in Nat
<1>1. strand # <<>> /\ strand' = Tail(strand) /\ Head(strand) = h
      /\ strand_pc = "idle" /\ close_pc["strand"] = "none"
  BY DEF Take
<1>2. strand' \in Seq(Handler)
  BY <1>1
<1>3. \A H : Count(strand, H) = Count(strand', H) + (IF h \in H THEN 1 ELSE 0)
  BY <1>1, CountTail
<1> QED  BY <1>1, <1>2, <1>3, CountType

\* What the actions of WriteQueue do to the variables they share.
LEMMA QueueEffects ==
    /\ WQ!post_write => /\ closed' \in BOOLEAN /\ (closed => closed')
                        /\ closed' => closed \/ dropped' # {}
                        /\ dropped # {} => dropped' # {}
                        /\ state' = state /\ posted' = posted + 1
    /\ WQ!write_succeeded => /\ closed' = closed /\ dropped' = dropped
                             /\ state' = state /\ posted' = posted
    /\ WQ!write_failed => /\ closed' = TRUE /\ dropped' = dropped
                          /\ state' = state /\ posted' = posted
BY DEF WQ!post_write, WQ!enqueue_write, WQ!GivesUp, WQ!write_succeeded, WQ!write_failed

\* What close_session does up to the exchange on closed_.
LEMMA CallEffects ==
    ASSUME Types, NEW t \in Thread, call_close_session(t)
    PROVE  /\ closed' = TRUE
           /\ close_pc' \in [Thread -> {"none", "set_state", "close_socket",
                                        "remove_session"}]
           /\ closed => close_pc' = close_pc
           /\ ~closed => close_pc' = [close_pc EXCEPT ![t] = "set_state"]
<1>1. closed' = TRUE /\ (closed => close_pc' = close_pc)
      /\ (~closed => close_pc' = [close_pc EXCEPT ![t] = "set_state"])
  BY Zenon DEF call_close_session
<1>2. close_pc' \in [Thread -> {"none", "set_state", "close_socket", "remove_session"}]
  BY <1>1 DEF Types
<1> QED  BY <1>1, <1>2
-----------------------------------------------------------------------------
\* Every action keeps the types.
LEMMA TypesStep == Types /\ [LNext]_allVars => Types'
<1> SUFFICES ASSUME Types, [LNext]_allVars PROVE Types'
  OBVIOUS
<1> USE DEF Types
<1> DEFINE TimerTypes == /\ timeout_started \in BOOLEAN
                         /\ starting \in BOOLEAN
                         /\ login_timer \in {"off", "waiting", "cancelled"}
<1>t. ASSUME TimerFollows PROVE TimerTypes'
  BY <1>t DEF TimerFollows
<1> USE DEF writeVars, managerVars, loginVars, readVars, inputVars
<1>1. ASSUME start, TimerTypes' PROVE Types'
  <2>1. strand' \in Seq(Handler)
    BY <1>1, HandlerPosted DEF start, Handler
  <2> QED  BY <1>1, <2>1 DEF start
<1>2. ASSUME NEW t \in Thread, CloseStep(t), TimerTypes' PROVE Types'
  <2>1. CASE set_state_closed(t)
    BY <1>2, <2>1 DEF set_state_closed, WQ!SessionState
  <2>2. CASE close_socket(t)
    <3>1. close_pc' \in [Thread -> {"none", "set_state", "close_socket", "remove_session"}]
      BY <2>2 DEF close_socket
    <3> QED  BY <1>2, <2>2, <3>1 DEF close_socket
  <2>3. CASE remove_session(t)
    <3>1. tracked' \in BOOLEAN /\ replaced' \in BOOLEAN
      BY <2>3 DEF remove_session
    <3>2. close_pc' \in [Thread -> {"none", "set_state", "close_socket", "remove_session"}]
      BY <2>3 DEF remove_session
    <3> QED  BY <1>2, <2>3, <3>1, <3>2 DEF remove_session
  <2> QED  BY <1>2, <2>1, <2>2, <2>3 DEF CloseStep
<1>p. ASSUME push_task
      PROVE  /\ closed' \in BOOLEAN /\ task_queue' \in Nat
             /\ task_running' \in BOOLEAN /\ reading' \in Nat
             /\ close_pc' \in [Thread -> {"none", "set_state", "close_socket",
                                          "remove_session"}]
  <2>1. CASE task_queue >= MaxTaskQueue
    BY <1>p, <2>1, CallEffects DEF push_task, Thread
  <2>2. CASE ~(task_queue >= MaxTaskQueue)
    BY <1>p, <2>2 DEF push_task
  <2> QED  BY <2>1, <2>2
<1>3. ASSUME post_task, TimerTypes' PROVE Types'
  BY <1>3, <1>p, HandlerTaken DEF post_task
<1>c. ASSUME call_close_session("strand") \/ UNCHANGED <<closed, close_pc>>
      PROVE  /\ closed' \in BOOLEAN
             /\ close_pc' \in [Thread -> {"none", "set_state", "close_socket",
                                          "remove_session"}]
  BY <1>c, CallEffects DEF Thread
<1>4. ASSUME NEW r \in ReadResult, read_callback(r), TimerTypes' PROVE Types'
  <2>1. call_close_session("strand") \/ UNCHANGED <<closed, close_pc>>
    BY <1>4 DEF read_callback
  <2>2. strand' \in Seq(Handler)
    BY <1>4, HandlerTaken DEF read_callback
  <2> QED  BY <1>4, <1>c, <2>1, <2>2 DEF read_callback
<1>5. ASSUME do_read, TimerTypes' PROVE Types'
  <2>1. CASE state # "Closed" /\ ~read_pending
    BY <1>5, <1>p, <2>1 DEF do_read
  <2>2. CASE ~(state # "Closed" /\ ~read_pending)
    BY <1>5, <2>2 DEF do_read
  <2> QED  BY <2>1, <2>2
<1>6. ASSUME invalid_length, TimerTypes' PROVE Types'
  BY <1>6, <1>c DEF invalid_length
<1>7. ASSUME run_next_task, TimerTypes' PROVE Types'
  <2>1. task_queue' \in Nat /\ reading' \in Nat /\ task_running' \in BOOLEAN
    <3>1. CASE task_queue = 0
      BY <1>7, <3>1 DEF run_next_task
    <3>2. CASE task_queue # 0
      BY <1>7, <3>2 DEF run_next_task
    <3> QED  BY <3>1, <3>2
  <2> QED  BY <1>7, <2>1 DEF run_next_task
<1>8. ASSUME NEW p \in Packet, NEW in_use \in BOOLEAN, dispatch(p, in_use), TimerTypes'
      PROVE  Types'
  <2>1. /\ received' \in 0..MaxPackets
        /\ UNCHANGED <<socket, managerVars, loginVars, readVars, strand, kick_pc>>
    BY <1>8, SessionConfig DEF dispatch
  <2>2. secret_seen' \in BOOLEAN
    BY <1>8 DEF dispatch
  <2>3. \/ /\ call_close_session("strand")
           /\ UNCHANGED <<state, writeVars, strand_pc>>
        \/ /\ strand_pc' \in {"on_nickname_registered", "login_ack"}
           /\ UNCHANGED <<closed, state, writeVars, close_pc>>
        \/ /\ WQ!post_write
           /\ UNCHANGED <<strand_pc, close_pc>>
    BY <1>8 DEF dispatch
  <2>4. CASE call_close_session("strand") /\ UNCHANGED <<state, writeVars, strand_pc>>
    BY <1>8, <1>c, <2>1, <2>2, <2>4
  <2>5. CASE /\ strand_pc' \in {"on_nickname_registered", "login_ack"}
             /\ UNCHANGED <<closed, state, writeVars, close_pc>>
    BY <1>8, <2>1, <2>2, <2>5
  <2>6. CASE WQ!post_write /\ UNCHANGED <<strand_pc, close_pc>>
    BY <1>8, <2>1, <2>2, <2>6, QueueEffects
  <2> QED  BY <2>3, <2>4, <2>5, <2>6
<1>o. ASSUME on_nickname_registered, TimerTypes' PROVE Types'
  BY <1>o DEF on_nickname_registered, WQ!SessionState
<1>9. ASSUME register_nickname, TimerTypes' PROVE Types'
  BY <1>9 DEF register_nickname, nicknameMutexFree
<1>10. ASSUME login_ack, TimerTypes' PROVE Types'
  BY <1>10, QueueEffects DEF login_ack
<1>11. ASSUME post_write \/ write_ok, TimerTypes' PROVE Types'
  BY <1>11, HandlerTaken, QueueEffects DEF post_write, write_ok
<1>12. ASSUME write_error, TimerTypes' PROVE Types'
  <2>1. strand' \in Seq(Handler)
    BY <1>12, HandlerTaken DEF write_error
  <2> QED  BY <1>12, <1>c, <2>1, QueueEffects DEF write_error
<1>13. ASSUME kick_post_write, TimerTypes' PROVE Types'
  <2>1. strand' \in Seq(Handler)
    BY <1>13, HandlerPosted DEF kick_post_write, Handler
  <2> QED  BY <1>13, <2>1 DEF kick_post_write
<1>14. ASSUME kick_close, TimerTypes' PROVE Types'
  BY <1>14, CallEffects DEF kick_close, Thread
<1>15. ASSUME kick_overwrite, TimerTypes' PROVE Types'
  <2>1. indexed' \in Nat /\ kick_pc' = "none"
    BY <1>15 DEF kick_overwrite
  <2> QED  BY <1>15, <2>1 DEF kick_overwrite
<1>a. ASSUME replace \/ close_replaced, TimerTypes' PROVE Types'
  <2>1. CASE replace
    BY <1>a, <2>1 DEF replace
  <2>2. CASE close_replaced
    <3>1. replaced' \in BOOLEAN
      BY <2>2 DEF close_replaced
    <3>2. /\ closed' \in BOOLEAN
          /\ close_pc' \in [Thread -> {"none", "set_state", "close_socket",
                                       "remove_session"}]
      BY <2>2, CallEffects DEF close_replaced, Thread
    <3> QED  BY <1>a, <2>2, <3>1, <3>2 DEF close_replaced
  <2> QED  BY <1>a, <2>1, <2>2
<1>16. ASSUME NEW r \in ReadResult, read_completes(r), TimerTypes' PROVE Types'
  <2>1. strand' \in Seq(Handler)
    BY <1>16, HandlerPosted DEF read_completes, Handler, ReadResult
  <2> QED  BY <1>16, <2>1 DEF read_completes
<1>17. ASSUME NEW r \in WriteResult, write_completes(r), TimerTypes' PROVE Types'
  <2>1. strand' \in Seq(Handler)
    BY <1>17, HandlerPosted DEF write_completes, Handler, WriteResult
  <2> QED  BY <1>17, <2>1 DEF write_completes
<1>18. CASE Next /\ TimerFollows
  BY <1>t, <1>1, <1>2, <1>3, <1>4, <1>5, <1>6, <1>7, <1>8, <1>9, <1>10, <1>11, <1>12, <1>13,
     <1>14, <1>15, <1>16, <1>17, <1>18, <1>a, <1>o
     DEF Next, RunStrand, RunKicker, RunAcceptor, Thread
<1>19. CASE kick_post_write /\ UNCHANGED timerVars
  BY <1>13, <1>19 DEF timerVars
<1>20. CASE start_login_timeout
  <2>1. login_timer' \in {"off", "waiting", "cancelled"} /\ starting' \in BOOLEAN
    BY <1>20 DEF start_login_timeout
  <2> QED  BY <1>20, <2>1 DEF start_login_timeout, vars
<1>21. CASE expire
  <2>1. strand' \in Seq(Handler)
    BY <1>21, HandlerPosted DEF expire, Handler
  <2> QED  BY <1>21, <2>1 DEF expire
<1>22. CASE RunTimer
  <2>1. CASE login_cancelled
    BY <2>1 DEF login_cancelled, vars
  <2>2. CASE login_timeout
    <3>1. strand' \in Seq(Handler)
      BY <2>2, HandlerTaken DEF login_timeout
    <3> QED  BY <2>2, <3>1, QueueEffects DEF login_timeout, timerVars
  <2>3. CASE login_timeout_close
    BY <1>c, <2>3 DEF login_timeout_close, timerVars
  <2> QED  BY <1>22, <2>1, <2>2, <2>3 DEF RunTimer
<1>23. CASE UNCHANGED allVars
  BY <1>23 DEF allVars, vars, timerVars
<1> QED  BY <1>18, <1>19, <1>20, <1>21, <1>22, <1>23 DEF LNext
-----------------------------------------------------------------------------
(***************************************************************************)
(* Closing: a step calls close_session, makes one of its later steps, or   *)
(* leaves its state alone and does not reopen the session.                 *)
(***************************************************************************)
LEMMA CloseCases ==
    ASSUME Types, [LNext]_allVars
    PROVE  \/ /\ UNCHANGED <<close_pc, socket>>
              /\ (tracked' = tracked /\ replaced' = replaced) \/ replaced'
              /\ closed => closed'
              /\ closed' => closed \/ dropped' # {}
              /\ dropped # {} => dropped' # {}
              /\ state' \in {state, "Ready"}
           \/ /\ \E t \in Thread : call_close_session(t)
              /\ UNCHANGED <<socket, tracked, state, dropped>>
           \/ \E t \in Thread : CloseStep(t)
<1> DEFINE Goal == \/ /\ UNCHANGED <<close_pc, socket>>
                      /\ (tracked' = tracked /\ replaced' = replaced) \/ replaced'
                      /\ closed => closed'
                      /\ closed' => closed \/ dropped' # {}
                      /\ dropped # {} => dropped' # {}
                      /\ state' \in {state, "Ready"}
                   \/ /\ \E t \in Thread : call_close_session(t)
                      /\ UNCHANGED <<socket, tracked, state, dropped>>
                   \/ \E t \in Thread : CloseStep(t)
<1> SUFFICES Goal
  OBVIOUS
<1>t. "strand" \in Thread /\ "kicker" \in Thread /\ "acceptor" \in Thread
  BY DEF Thread
<1> USE <1>t DEF writeVars, managerVars, loginVars, readVars, inputVars
<1>1. ASSUME start PROVE Goal
  BY <1>1 DEF start
<1>2. ASSUME NEW t \in Thread, CloseStep(t) PROVE Goal
  BY <1>2
<1>p. ASSUME push_task
      PROVE  call_close_session("strand") \/ UNCHANGED <<closed, close_pc>>
  BY <1>p DEF push_task
<1>3. ASSUME post_task PROVE Goal
  BY <1>p, <1>3 DEF post_task
<1>4. ASSUME NEW r \in ReadResult, read_callback(r) PROVE Goal
  BY <1>4 DEF read_callback
<1>5. ASSUME do_read PROVE Goal
  BY <1>p, <1>5 DEF do_read
<1>6. ASSUME invalid_length PROVE Goal
  BY <1>6 DEF invalid_length
<1>7. ASSUME run_next_task PROVE Goal
  BY <1>7 DEF run_next_task
<1>8. ASSUME NEW p \in Packet, NEW in_use \in BOOLEAN, dispatch(p, in_use) PROVE Goal
  <2>1. \/ /\ call_close_session("strand")
           /\ UNCHANGED <<state, writeVars>>
        \/ UNCHANGED <<closed, state, writeVars, close_pc>>
        \/ /\ WQ!post_write
           /\ UNCHANGED close_pc
    BY <1>8 DEF dispatch
  <2>2. UNCHANGED <<socket, managerVars>>
    BY <1>8 DEF dispatch
  <2> QED  BY <2>1, <2>2, QueueEffects
<1>9. ASSUME register_nickname \/ on_nickname_registered PROVE Goal
  BY <1>9 DEF register_nickname, on_nickname_registered
<1>10. ASSUME login_ack \/ post_write \/ write_ok PROVE Goal
  BY <1>10, QueueEffects DEF login_ack, post_write, write_ok
<1>11. ASSUME write_error PROVE Goal
  BY <1>11, QueueEffects DEF write_error
<1>12. ASSUME kick_post_write PROVE Goal
  BY <1>12 DEF kick_post_write
<1>13. ASSUME kick_close \/ kick_overwrite \/ replace \/ close_replaced PROVE Goal
  BY <1>13 DEF kick_close, kick_overwrite, replace, close_replaced
<1>14. ASSUME NEW r \in ReadResult, read_completes(r) PROVE Goal
  BY <1>14 DEF read_completes
<1>15. ASSUME NEW r \in WriteResult, write_completes(r) PROVE Goal
  BY <1>15 DEF write_completes
<1>16. CASE Next
  BY <1>1, <1>2, <1>3, <1>4, <1>5, <1>6, <1>7, <1>8, <1>9, <1>10, <1>11, <1>12,
     <1>13, <1>14, <1>15, <1>16, <1>t DEF Next, RunStrand, RunKicker, RunAcceptor
<1>17. CASE start_login_timeout \/ expire \/ login_cancelled
  BY <1>17 DEF start_login_timeout, expire, login_cancelled, vars
<1>18. CASE login_timeout
  BY <1>18, QueueEffects DEF login_timeout
<1>19. CASE login_timeout_close
  BY <1>19 DEF login_timeout_close
<1>20. CASE UNCHANGED allVars
  BY <1>20 DEF allVars, vars
<1> HIDE DEF Goal
<1> QED  BY <1>12, <1>16, <1>17, <1>18, <1>19, <1>20 DEF LNext, RunTimer

(***************************************************************************)
(* The strand: a step takes the first handler, posts one, or does neither. *)
(***************************************************************************)
LEMMA StrandCases ==
    ASSUME Types, [LNext]_allVars
    PROVE  \/ strand' = strand
           \/ \E h \in Handler : Take(h)
           \/ \E h \in Handler : /\ strand' = Append(strand, h)
                                 /\ h = "read_aborted" => socket = "closed"
<1> DEFINE Goal == \/ strand' = strand
                   \/ \E h \in Handler : Take(h)
                   \/ \E h \in Handler : /\ strand' = Append(strand, h)
                                         /\ h = "read_aborted" => socket = "closed"
<1> SUFFICES Goal
  OBVIOUS
<1>h. /\ \A h \in {"post_task", "post_write", "write_ok", "write_error", "login_timeout"} :
           h \in Handler /\ h # "read_aborted"
      /\ ReadResult \subseteq Handler
      /\ WriteResult \subseteq Handler /\ "read_aborted" \notin WriteResult
  BY DEF Handler, ReadResult, WriteResult
<1>1. ASSUME start PROVE Goal
  BY <1>h, <1>1 DEF start
<1>2. ASSUME NEW t \in Thread, CloseStep(t) PROVE Goal
  BY <1>2 DEF CloseStep, set_state_closed, close_socket, remove_session
<1>3. ASSUME post_task \/ post_write \/ write_ok \/ write_error PROVE Goal
  BY <1>h, <1>3 DEF post_task, post_write, write_ok, write_error
<1>4. ASSUME NEW r \in ReadResult, read_callback(r) PROVE Goal
  BY <1>h, <1>4 DEF read_callback
<1>5. ASSUME do_read \/ invalid_length \/ run_next_task \/ on_nickname_registered
               \/ register_nickname \/ login_ack
      PROVE  Goal
  BY <1>5 DEF do_read, invalid_length, run_next_task, on_nickname_registered,
     register_nickname, login_ack
<1>6. ASSUME NEW p \in Packet, NEW in_use \in BOOLEAN, dispatch(p, in_use) PROVE Goal
  BY <1>6 DEF dispatch
<1>7. ASSUME kick_post_write PROVE Goal
  BY <1>h, <1>7 DEF kick_post_write
<1>8. ASSUME kick_close \/ kick_overwrite \/ replace \/ close_replaced PROVE Goal
  BY <1>8 DEF kick_close, kick_overwrite, replace, close_replaced
<1>9. ASSUME NEW r \in ReadResult, read_completes(r) PROVE Goal
  <2>1. strand' = Append(strand, r) /\ (r = "read_aborted" => socket = "closed")
    BY <1>9 DEF read_completes, Types
  <2> QED  BY <1>h, <2>1
<1>10. ASSUME NEW r \in WriteResult, write_completes(r) PROVE Goal
  BY <1>h, <1>10 DEF write_completes
<1>11. CASE Next
  BY <1>1, <1>2, <1>3, <1>4, <1>5, <1>6, <1>7, <1>8, <1>9, <1>10, <1>11
     DEF Next, RunStrand, RunKicker, RunAcceptor, Thread
<1>12. CASE start_login_timeout \/ login_cancelled \/ login_timeout_close
  BY <1>12 DEF start_login_timeout, login_cancelled, login_timeout_close, vars
<1>13. CASE expire
  BY <1>h, <1>13 DEF expire
<1>14. CASE login_timeout
  BY <1>h, <1>14 DEF login_timeout
<1>15. CASE UNCHANGED allVars
  BY <1>15 DEF allVars, vars
<1> HIDE DEF Goal
<1> QED  BY <1>7, <1>11, <1>12, <1>13, <1>14, <1>15 DEF LNext, RunTimer

\* Every action keeps the order of the teardown.
LEMMA CloseStepInv == Types /\ CloseInv /\ [LNext]_allVars => CloseInv'
<1> SUFFICES ASSUME Types, CloseInv, [LNext]_allVars PROVE CloseInv'
  OBVIOUS
<1> DEFINE Teardown == CloseOnce /\ (state = "Closed" => closed)
<1>1. ASSUME UNCHANGED <<close_pc, socket>>,
             (tracked' = tracked /\ replaced' = replaced) \/ replaced',
             closed => closed', closed' => closed \/ dropped' # {},
             dropped # {} => dropped' # {}, state' \in {state, "Ready"}
      PROVE  Teardown' /\ (closed => closed')
  <2>1. InTeardown' = InTeardown
    BY <1>1 DEF InTeardown
  <2>2. CloseOnce'
    BY <1>1, <2>1 DEF CloseInv, CloseOnce
  <2> QED  BY <1>1, <2>2 DEF CloseInv
<1>2. ASSUME NEW t \in Thread, call_close_session(t), UNCHANGED <<socket, tracked, state, dropped>>
      PROVE  Teardown' /\ (closed => closed')
  <2>1. CASE closed
    <3>1. close_pc' = close_pc /\ closed'
      BY <1>2, <2>1, CallEffects
    <3>2. InTeardown' = InTeardown
      BY <3>1 DEF InTeardown
    <3> QED  BY <1>2, <2>1, <3>1, <3>2 DEF CloseInv, CloseOnce
  <2>2. CASE ~closed
    <3>1. InTeardown = {} /\ socket # "closed" /\ state # "Closed"
      BY <2>2 DEF CloseInv, CloseOnce
    <3>2. closed' /\ close_pc' = [close_pc EXCEPT ![t] = "set_state"]
      BY <1>2, <2>2, CallEffects, Zenon
    <3>3. \A u \in Thread : close_pc'[u] = IF u = t THEN "set_state" ELSE "none"
      BY <3>1, <3>2 DEF Types, InTeardown
    <3>4. InTeardown' = {t}
      BY <3>3 DEF InTeardown
    <3> QED  BY <1>2, <3>1, <3>2, <3>3, <3>4 DEF CloseOnce
  <2> QED  BY <2>1, <2>2
<1>3. ASSUME NEW t \in Thread, CloseStep(t)
      PROVE  Teardown' /\ (closed => closed')
  <2>1. close_pc[t] # "none" /\ closed' = closed
    BY <1>3 DEF CloseStep, set_state_closed, close_socket, remove_session
  <2>2. /\ closed /\ (socket = "closed" <=> close_pc[t] = "remove_session")
        /\ \A u \in Thread : u # t => close_pc[u] = "none"
    BY <2>1 DEF CloseInv, CloseOnce, InTeardown
  <2>3. ASSUME NEW l \in {"close_socket", "remove_session"},
               close_pc' = [close_pc EXCEPT ![t] = l]
        PROVE  close_pc'[t] = l /\ InTeardown' = {t}
    <3>1. \A u \in Thread : close_pc'[u] = IF u = t THEN l ELSE "none"
      BY <2>2, <2>3 DEF Types
    <3> QED  BY <3>1 DEF InTeardown
  <2>4. CASE set_state_closed(t)
    <3>1. close_pc' = [close_pc EXCEPT ![t] = "close_socket"] /\ socket' = socket
          /\ close_pc[t] = "set_state"
      BY <2>4 DEF set_state_closed
    <3>2. close_pc'[t] = "close_socket" /\ InTeardown' = {t}
      BY <2>3, <3>1
    <3> QED  BY <2>1, <2>2, <3>1, <3>2 DEF CloseOnce
  <2>5. CASE close_socket(t)
    <3>1. close_pc' = [close_pc EXCEPT ![t] = "remove_session"] /\ socket' = "closed"
      BY <2>5 DEF close_socket
    <3>2. close_pc'[t] = "remove_session" /\ InTeardown' = {t}
      BY <2>3, <3>1
    <3> QED  BY <2>1, <2>2, <3>1, <3>2 DEF CloseOnce
  <2>6. CASE remove_session(t)
    <3>1. /\ close_pc' = [close_pc EXCEPT ![t] = "none"] /\ close_pc[t] = "remove_session"
          /\ socket' = socket
      BY <2>6 DEF remove_session
    <3>2. \A u \in Thread : close_pc'[u] = "none"
      BY <2>2, <3>1 DEF Types
    <3>3. InTeardown' = {}
      BY <3>2 DEF InTeardown
    <3> QED  BY <2>1, <2>2, <3>1, <3>3 DEF CloseOnce
  <2> QED  BY <1>3, <2>4, <2>5, <2>6 DEF CloseStep
<1>4. Teardown' /\ (closed => closed')
  <2> HIDE DEF Teardown
  <2> QED  BY <1>1, <1>2, <1>3, CloseCases
<1>5. Count(strand', {"read_aborted"}) > 0 => closed'
  <2> SUFFICES ASSUME Count(strand', {"read_aborted"}) > 0 PROVE closed
    BY <1>4
  <2>0. /\ strand \in Seq(Handler)
        /\ Count(strand, {"read_aborted"}) \in Nat
        /\ Count(strand, {"read_aborted"}) > 0 => closed
        /\ socket = "closed" => closed
    <3>1. strand \in Seq(Handler)
      BY DEF Types
    <3> QED  BY <3>1, CountType DEF CloseInv, CloseOnce
  <2>1. CASE strand' = strand
    BY <2>0, <2>1
  <2>2. ASSUME NEW h \in Handler, Take(h) PROVE closed
    <3>1. /\ Count(strand, {"read_aborted"}) =
               Count(strand', {"read_aborted"}) + (IF h \in {"read_aborted"} THEN 1 ELSE 0)
          /\ Count(strand', {"read_aborted"}) \in Nat
      BY <2>0, <2>2, HandlerTaken
    <3>2. Count(strand, {"read_aborted"}) > 0
      BY <3>1
    <3> QED  BY <2>0, <3>2
  <2>3. ASSUME NEW h \in Handler, strand' = Append(strand, h),
               h = "read_aborted" => socket = "closed"
        PROVE  closed
    <3>1. Count(strand', {"read_aborted"}) =
            Count(strand, {"read_aborted"}) + (IF h \in {"read_aborted"} THEN 1 ELSE 0)
      BY <2>0, <2>3, HandlerPosted
    <3>2. CASE h = "read_aborted"
      BY <2>0, <2>3, <3>2
    <3>3. CASE h # "read_aborted"
      BY <2>0, <3>1, <3>3
    <3> QED  BY <3>2, <3>3
  <2> QED  BY <2>1, <2>2, <2>3, StrandCases
<1> QED  BY <1>4, <1>5 DEF CloseInv, Count, Positions
-----------------------------------------------------------------------------
(***************************************************************************)
(* Tokens.  Before start() nothing but start() can happen, so the rest of  *)
(* this part is about the steps of a session that has been started.        *)
(***************************************************************************)
LEMMA Tokens ==
    ASSUME Types
    PROVE  /\ ReadTokens = Count(strand, ReadHandler) + task_queue + reading
                             + (IF strand_pc \in Draining THEN 1 ELSE 0)
           /\ \A H : Count(strand, H) \in Nat
           /\ TimerTokens \in Nat
           /\ TimerTokens >= Count(strand, {"login_timeout"})
<1>1. \A H : Count(strand, H) \in Nat
  BY CountType DEF Types
<1>2. TimerTokens \in Nat /\ TimerTokens >= Count(strand, {"login_timeout"})
  BY <1>1 DEF TimerTokens, Types
<1> QED  BY <1>1, <1>2 DEF ReadTokens, Count, Positions, ReadHandler, Draining

\* The places of the read token after a step.
LEMMA TokensNext ==
    ASSUME Types'
    PROVE  /\ ReadTokens' = Count(strand', ReadHandler) + task_queue' + reading'
                              + (IF strand_pc' \in Draining THEN 1 ELSE 0)
           /\ \A H : Count(strand', H) \in Nat
           /\ TimerTokens' \in Nat
<1>1. \A H : Count(strand', H) \in Nat
  BY CountType DEF Types
<1>2. TimerTokens' \in Nat
  <2>1. TimerTokens' = (IF starting' THEN 1 ELSE 0) + (IF login_timer' # "off" THEN 1 ELSE 0)
                         + Count(strand', {"login_timeout"})
    BY DEF TimerTokens, Count, Positions
  <2> QED  BY <1>1, <2>1
<1> QED  BY <1>1, <1>2 DEF ReadTokens, Count, Positions, ReadHandler, Draining

\* Before start() nothing else is enabled.
LEMMA OnlyStart ==
    ASSUME SessionInv, LNext, strand_pc = "new"
    PROVE  start /\ TimerFollows
<1>1. Types /\ NewInv
  BY DEF SessionInv
<1>2. /\ \A t \in Thread : close_pc[t] = "none"
      /\ indexed = 0 /\ ~replaced /\ kick_pc = "none" /\ in_flight = <<>>
      /\ ReadTokens = 0 /\ TimerTokens = 0
  BY <1>1 DEF NewInv
<1>3. reading = 0 /\ ~starting /\ login_timer = "off"
  <2>1. reading \in Nat /\ task_queue \in Nat /\ Count(strand, ReadHandler) \in Nat
    BY <1>1, Tokens DEF Types
  <2>2. reading = 0
    BY <1>1, <1>2, <2>1, Tokens
  <2>3. Count(strand, {"login_timeout"}) \in Nat
    BY <1>1, Tokens
  <2> QED  BY <1>1, <1>2, <2>2, <2>3 DEF TimerTokens, Types
<1>4. ~RunStrand
  BY <1>2 DEF RunStrand, CloseStep, set_state_closed, close_socket, remove_session, Thread,
     post_task, read_callback, do_read, invalid_length, run_next_task, dispatch,
     on_nickname_registered, register_nickname, login_ack, post_write, write_ok, write_error,
     Take, At
<1>5. ~RunKicker /\ ~kick_post_write /\ ~RunAcceptor /\ ~replace
  BY <1>2 DEF RunKicker, RunAcceptor, CloseStep, set_state_closed, close_socket, remove_session,
     Thread, kick_close, kick_overwrite, kick_post_write, replace, close_replaced
<1>6. \A r : ~read_completes(r) /\ ~write_completes(r)
  BY <1>2, <1>3 DEF read_completes, write_completes
<1>7. ~start_login_timeout /\ ~expire /\ ~RunTimer
  BY <1>3 DEF start_login_timeout, expire, RunTimer, login_cancelled, login_timeout,
     login_timeout_close, Take, At
<1> QED  BY <1>4, <1>5, <1>6, <1>7 DEF LNext, Next

\* In a started session the steps of Session.tla neither start a timer nor
\* let one go; only its handler on the strand counts.
LEMMA TimerKept ==
    ASSUME Types, Types', strand_pc # "new", TimerFollows \/ UNCHANGED timerVars
    PROVE  /\ TimerTokens' = TimerTokens - Count(strand, {"login_timeout"})
                                + Count(strand', {"login_timeout"})
           /\ timeout_started' = timeout_started
<1>1. /\ starting' = starting /\ timeout_started' = timeout_started
      /\ (login_timer' # "off") <=> (login_timer # "off")
  BY DEF TimerFollows, timerVars, Types
<1>2. Count(strand, {"login_timeout"}) \in Nat /\ Count(strand', {"login_timeout"}) \in Nat
  BY Tokens, TokensNext
<1>3. TimerTokens' = (IF starting THEN 1 ELSE 0) + (IF login_timer # "off" THEN 1 ELSE 0)
                       + Count(strand', {"login_timeout"})
  BY <1>1 DEF TimerTokens, Count, Positions
<1> QED  BY <1>1, <1>2, <1>3 DEF TimerTokens

\* Steps that do not move the read token.
LEMMA ReadFrame ==
    ASSUME SessionInv, Types', closed => closed', strand_pc # "new",
           strand_pc' # "new", strand_pc' \in Draining <=> strand_pc \in Draining,
           UNCHANGED <<task_queue, reading, read_pending>>,
           Count(strand', ReadHandler) = Count(strand, ReadHandler)
    PROVE  ReadInv'
<1>1. Types /\ ReadInv
  BY DEF SessionInv
<1>2. ReadTokens' = ReadTokens
  BY <1>1, Tokens, TokensNext
<1>3. OneReader'
  BY <1>1, <1>2 DEF ReadInv, OneReader
<1> QED  BY <1>1, <1>3 DEF ReadInv

\* No entry comes, no takeover starts: one may go on, or end with its entry.
KickKept ==
    \/ indexed' = indexed /\ (kick_pc' = "none" <=> kick_pc = "none")
    \/ indexed' = indexed - 1 /\ kick_pc # "none" /\ kick_pc' = "none"

\* Steps that neither log in nor post a message, and do not start a timer.
LEMMA LoginFrame ==
    ASSUME SessionInv, Types', closed => closed', strand_pc # "new",
           \/ strand_pc' = strand_pc
           \/ /\ strand_pc' \notin {"new", "on_nickname_registered", "register_nickname",
                                    "login_ack", "login_timeout_close"}
              /\ strand_pc = "login_timeout_close" => closed',
           UNCHANGED <<nickname_registered, posted, timeout_started>>,
           secret_seen => secret_seen', received <= received', KickKept,
           Count(strand', {"post_write"}) <= Count(strand, {"post_write"}),
           TimerTokens' <= TimerTokens
    PROVE  NewInv' /\ LoginInv' /\ PostInv'
<1>1. Types /\ LoginInv /\ PostInv
  BY DEF SessionInv
<1>2. strand_pc' # "new"
  OBVIOUS
<1>3. /\ TimerTokens \in Nat /\ TimerTokens' \in Nat
      /\ Count(strand, {"post_write"}) \in Nat /\ Count(strand', {"post_write"}) \in Nat
      /\ posted \in Nat /\ received \in Nat /\ received' \in Nat
  BY <1>1, Tokens, TokensNext DEF Types
<1>k. /\ indexed' > 0 => indexed > 0
      /\ KickCredit' <= KickCredit /\ KickCredit' \in Nat /\ KickCredit \in Nat
  <2>1. /\ indexed \in Nat /\ (kick_pc # "none" => indexed > 0)
        /\ indexed' \in Nat /\ (kick_pc' # "none" => indexed' > 0)
    BY <1>1 DEF Types
  <2>2. CASE indexed' = indexed /\ (kick_pc' = "none" <=> kick_pc = "none")
    <3>1. KickCredit' = KickCredit
      BY <2>2 DEF KickCredit
    <3> QED  BY <2>1, <2>2, <3>1 DEF KickCredit
  <2>3. CASE indexed' = indexed - 1 /\ kick_pc # "none" /\ kick_pc' = "none"
    BY <2>1, <2>3 DEF KickCredit
  <2> QED  BY <2>2, <2>3 DEF KickKept
<1>4. LoginInv'
  BY <1>1, <1>2, <1>3, <1>k DEF LoginInv, Count, Positions
<1>5. PostInv'
  <2>1. PcCredit' <= PcCredit /\ PcCredit \in Nat /\ PcCredit' \in Nat
    BY DEF PcCredit
  <2>2. KickCredit' <= KickCredit /\ KickCredit' \in Nat /\ KickCredit \in Nat
    BY <1>k
  <2>3. /\ Credit = PcCredit + KickCredit + TimerTokens + Count(strand, {"post_write"})
        /\ Credit' = PcCredit' + KickCredit' + TimerTokens' + Count(strand', {"post_write"})
    BY DEF Credit, Count, Positions
  <2>4. Credit' <= Credit /\ Credit' \in Nat /\ Credit \in Nat
    BY <1>3, <2>1, <2>2, <2>3
  <2>5. posted + Credit <= 2 * received + 1
    BY <1>1 DEF PostInv
  <2>6. \A c, d, x, n, m \in Nat : d <= c /\ n <= m /\ x + c <= 2 * n + 1 => x + d <= 2 * m + 1
    OBVIOUS
  <2>7. posted + Credit' <= 2 * received' + 1
    BY <1>3, <2>4, <2>5, <2>6
  <2>8. posted' = posted
    OBVIOUS
  <2> QED  BY <2>7, <2>8, Zenon DEF PostInv
<1> QED  BY <1>2, <1>4, <1>5 DEF NewInv

\* What remains of SessionInv beside Types and CloseInv.
Rest == NewInv /\ ReadInv /\ LoginInv /\ PostInv

(***************************************************************************)
(* The read loop passes its one token on; it is lost only when closed_ is  *)
(* or has been set.                                                        *)
(***************************************************************************)
LEMMA ReadStep ==
    ASSUME SessionInv, Types', strand_pc # "new", TimerFollows,
           \/ post_task \/ do_read \/ invalid_length \/ run_next_task
           \/ \E r \in ReadResult : read_callback(r) \/ read_completes(r)
    PROVE  Rest'
<1> DEFINE R  == Count(strand, ReadHandler)
           R1 == Count(strand', ReadHandler)
           D  == IF strand_pc \in Draining THEN 1 ELSE 0
           D1 == IF strand_pc' \in Draining THEN 1 ELSE 0
           Same(H) == Count(strand', H) = Count(strand, H)
           Frame == /\ strand_pc' = strand_pc
                       \/ /\ strand_pc' \in {"idle", "drain", "run_next_task"}
                          /\ strand_pc # "login_timeout_close"
                    /\ UNCHANGED <<nickname_registered, secret_seen, received, posted, indexed, kick_pc>>
                    /\ Same({"post_write"}) /\ Same({"login_timeout"})
                    /\ closed => closed'
           Passed == /\ R1 + task_queue' + reading' + D1 = R + task_queue + reading + D
                     /\ closed => closed'
           Lost == /\ R1 + task_queue' + reading' + D1 + 1 = R + task_queue + reading + D
                   /\ closed'
           Quiet == strand_pc' \in Draining => ~read_pending'
<1>0. Types /\ CloseInv /\ ReadInv /\ OneReader /\ strand \in Seq(Handler)
  BY DEF SessionInv, ReadInv, Types
<1>n. /\ R \in Nat /\ R1 \in Nat /\ D \in Nat /\ D1 \in Nat
      /\ task_queue \in Nat /\ reading \in Nat /\ task_queue' \in Nat /\ reading' \in Nat
  BY <1>0, Tokens, TokensNext DEF Types
<1>d. /\ ReadTokens = R + task_queue + reading + D
      /\ ReadTokens' = R1 + task_queue' + reading' + D1
  BY <1>0, Tokens, TokensNext
<1> HIDE DEF R, R1, D, D1
<1>r. ASSUME Frame, Passed \/ Lost, Quiet PROVE Rest'
  <2>1. ReadTokens' = ReadTokens \/ (ReadTokens' + 1 = ReadTokens /\ closed')
    BY <1>n, <1>d, <1>r
  <2>2. ReadTokens \in Nat /\ ReadTokens' \in Nat
    <3>1. \A a, b, c, d \in Nat : a + b + c + d \in Nat
      OBVIOUS
    <3> QED  BY <1>n, <1>d, <3>1
  <2>3. OneReader'
    <3>1. ReadTokens <= 1 /\ (~closed => ReadTokens = 1) /\ (closed => closed')
      BY <1>0, <1>r DEF OneReader
    <3>2. CASE ReadTokens' = ReadTokens
      BY <3>1, <3>2 DEF OneReader
    <3>3. CASE ReadTokens' + 1 = ReadTokens /\ closed'
      <4>1. ReadTokens' <= 1
        <5>1. ReadTokens <= 1
          BY <3>1
        <5>2. ReadTokens' < ReadTokens
          <6>1. ReadTokens' + 1 = ReadTokens
            BY <3>3
          <6>2. \A m, n \in Nat : m + 1 = n => m < n
            OBVIOUS
          <6> QED  BY <2>2, <6>1, <6>2
        <5> QED  BY <2>2, <5>1, <5>2
      <4> QED  BY <3>3, <4>1 DEF OneReader
    <3> QED  BY <2>1, <3>2, <3>3
  <2>4. ReadInv'
    BY <1>r, <2>3 DEF ReadInv
  <2>5. TimerTokens' = TimerTokens /\ timeout_started' = timeout_started
    <3>1. Count(strand', {"login_timeout"}) = Count(strand, {"login_timeout"})
      BY <1>r
    <3>2. Count(strand, {"login_timeout"}) \in Nat /\ TimerTokens \in Nat
      BY <1>0, Tokens
    <3> QED  BY <1>0, <3>1, <3>2, TimerKept
  <2>6. NewInv' /\ LoginInv' /\ PostInv'
    <3>1. TimerTokens' <= TimerTokens
          /\ Count(strand', {"post_write"}) <= Count(strand, {"post_write"})
      <4>1. TimerTokens \in Nat /\ Count(strand, {"post_write"}) \in Nat
        BY <1>0, Tokens
      <4> HIDE DEF Passed, Lost, Quiet
      <4> QED  BY <1>r, <2>5, <4>1
    <3>2. received <= received' /\ (secret_seen => secret_seen')
      <4>1. received' = received /\ received \in Nat /\ secret_seen' = secret_seen
        BY <1>0, <1>r DEF Types
      <4> QED  BY <4>1
    <3>3. KickKept
      BY <1>r DEF KickKept
    <3> HIDE DEF Passed, Lost, Quiet
    <3> QED  BY <1>r, <2>5, <3>1, <3>2, <3>3, LoginFrame
  <2> QED  BY <2>4, <2>6 DEF Rest
<1>h. /\ \A h \in ReadHandler : h \notin {"post_write"} /\ h \notin {"login_timeout"} /\ h \in Handler
      /\ "post_task" \in ReadHandler /\ ReadResult \subseteq ReadHandler
  BY DEF ReadHandler, ReadResult, Handler
<1>t. ASSUME NEW h \in ReadHandler, Take(h)
      PROVE  /\ R = R1 + 1 /\ strand_pc = "idle" /\ D = 0
             /\ Same({"post_write"}) /\ Same({"login_timeout"})
  <2>1. /\ \A H : Count(strand, H) = Count(strand', H) + (IF h \in H THEN 1 ELSE 0)
        /\ \A H : Count(strand', H) \in Nat
        /\ strand_pc = "idle"
    BY <1>0, <1>t, HandlerTaken
  <2>2. D = 0
    BY <2>1 DEF Draining, D
  <2> QED  BY <1>h, <1>t, <2>1, <2>2 DEF R, R1
<1>p. ASSUME push_task
      PROVE  \/ closed' = TRUE /\ UNCHANGED <<task_queue, reading>>
             \/ closed' = closed /\ task_queue' = task_queue + 1 /\ reading' = reading
             \/ closed' = closed /\ reading' = reading + 1 /\ task_queue' = task_queue
  <2>1. CASE task_queue >= MaxTaskQueue
    BY <1>p, <2>1 DEF push_task, call_close_session
  <2>2. CASE ~(task_queue >= MaxTaskQueue)
    BY <1>p, <2>2 DEF push_task
  <2> QED  BY <2>1, <2>2
<1> USE DEF writeVars, managerVars, loginVars, readVars, inputVars
<1>1. CASE post_task
  <2>1. /\ R = R1 + 1 /\ strand_pc = "idle" /\ D = 0 /\ strand_pc' = "idle"
        /\ Same({"post_write"}) /\ Same({"login_timeout"})
    BY <1>1, <1>h, <1>t DEF post_task
  <2>2. Quiet /\ D1 = 0
    BY <2>1 DEF Draining, D1
  <2>3. push_task /\ UNCHANGED <<nickname_registered, secret_seen, received, posted, indexed, kick_pc>>
    BY <1>1 DEF post_task
  <2>4. Passed \/ Lost
    <3>1. CASE closed' = TRUE /\ UNCHANGED <<task_queue, reading>>
      <4>1. R1 + task_queue' + reading' + D1 + 1 = R + task_queue + reading + D
        BY <1>n, <2>1, <2>2, <3>1
      <4> QED  BY <3>1, <4>1
    <3>2. CASE closed' = closed /\ task_queue' = task_queue + 1 /\ reading' = reading
      <4>1. R1 + task_queue' + reading' + D1 = R + task_queue + reading + D
        BY <1>n, <2>1, <2>2, <3>2
      <4> QED  BY <3>2, <4>1
    <3>3. CASE closed' = closed /\ reading' = reading + 1 /\ task_queue' = task_queue
      <4>1. R1 + task_queue' + reading' + D1 = R + task_queue + reading + D
        BY <1>n, <2>1, <2>2, <3>3
      <4> QED  BY <3>3, <4>1
    <3> QED  BY <1>p, <2>3, <3>1, <3>2, <3>3, Zenon
  <2>5. closed => closed'
    BY <2>4
  <2> HIDE DEF Passed, Lost, Quiet
  <2> QED  BY <1>r, <2>1, <2>2, <2>3, <2>4, <2>5
<1>2. ASSUME NEW r \in ReadResult, read_callback(r) PROVE Rest'
  <2>1. /\ R = R1 + 1 /\ strand_pc = "idle" /\ D = 0
        /\ Same({"post_write"}) /\ Same({"login_timeout"})
    BY <1>2, <1>h, <1>t DEF read_callback
  <2>2. /\ strand_pc' = IF r = "read_data" THEN "drain" ELSE "run_next_task"
        /\ UNCHANGED <<nickname_registered, secret_seen, received, posted, indexed, kick_pc,
                       task_queue, reading>>
        /\ ~read_pending'
    BY <1>2 DEF read_callback
  <2>3. r = "read_failed" => closed'
    BY <1>2 DEF read_callback, call_close_session
  <2>4. r # "read_failed" => closed' = closed
    BY <1>2 DEF read_callback
  <2>5. r = "read_aborted" => closed
    <3> SUFFICES ASSUME r = "read_aborted" PROVE closed
      OBVIOUS
    <3>1. Count(strand, {"read_aborted"}) = Count(strand', {"read_aborted"}) + 1
          /\ Count(strand', {"read_aborted"}) \in Nat
      BY <1>0, <1>2, HandlerTaken DEF read_callback
    <3>2. Count(strand, {"read_aborted"}) > 0
      BY <3>1
    <3> QED  BY <1>0, <3>2 DEF CloseInv
  <2>6. Passed \/ Lost
    <3>1. CASE r = "read_data"
      <4>1. D1 = 1
        BY <2>2, <3>1 DEF Draining, D1
      <4> QED  BY <1>n, <2>1, <2>2, <2>4, <3>1, <4>1
    <3>2. CASE r # "read_data"
      <4>1. D1 = 0
        BY <2>2, <3>2 DEF Draining, D1
      <4>2. closed'
        BY <2>3, <2>4, <2>5, <3>2 DEF ReadResult
      <4> QED  BY <1>n, <2>1, <2>2, <3>2, <4>1, <4>2
    <3> QED  BY <3>1, <3>2
  <2>7. (closed => closed') /\ strand_pc' \in {"idle", "drain", "run_next_task"}
    BY <2>2, <2>3, <2>4
  <2> HIDE DEF Passed, Lost
  <2> QED  BY <1>r, <2>1, <2>2, <2>6, <2>7
<1>3. CASE do_read
  <2>1. /\ strand_pc = "drain" /\ strand_pc' = "run_next_task" /\ strand' = strand
        /\ UNCHANGED <<nickname_registered, secret_seen, received, posted, indexed, kick_pc>>
    BY <1>3 DEF do_read, At
  <2>2. D = 1 /\ D1 = 0 /\ R1 = R /\ Quiet /\ Same({"post_write"}) /\ Same({"login_timeout"})
    BY <2>1 DEF Draining, D, D1, R, R1
  <2>3. CASE state # "Closed" /\ ~read_pending
    <3>1. push_task
      BY <1>3, <2>3 DEF do_read
    <3>2. Passed \/ Lost
      <4>1. CASE closed' = TRUE /\ UNCHANGED <<task_queue, reading>>
        <5>1. R1 + task_queue' + reading' + D1 + 1 = R + task_queue + reading + D
          BY <1>n, <2>2, <4>1
        <5> QED  BY <4>1, <5>1
      <4>2. CASE closed' = closed /\ task_queue' = task_queue + 1 /\ reading' = reading
        <5>1. R1 + task_queue' + reading' + D1 = R + task_queue + reading + D
          BY <1>n, <2>2, <4>2
        <5> QED  BY <4>2, <5>1
      <4>3. CASE closed' = closed /\ reading' = reading + 1 /\ task_queue' = task_queue
        <5>1. R1 + task_queue' + reading' + D1 = R + task_queue + reading + D
          BY <1>n, <2>2, <4>3
        <5> QED  BY <4>3, <5>1
      <4> QED  BY <1>p, <3>1, <4>1, <4>2, <4>3, Zenon
    <3>3. closed => closed'
      BY <3>2
    <3> HIDE DEF Passed, Lost, Quiet
    <3> QED  BY <1>r, <2>1, <2>2, <3>2, <3>3
  <2>4. CASE ~(state # "Closed" /\ ~read_pending)
    <3>1. UNCHANGED <<task_queue, reading, closed>>
      BY <1>3, <2>4 DEF do_read
    <3>2. ~read_pending
      BY <1>0, <2>1 DEF ReadInv, Draining
    <3>3. closed
      BY <1>0, <2>4, <3>2 DEF CloseInv
    <3>4. Lost
      BY <1>n, <2>2, <3>1, <3>3
    <3> HIDE DEF Passed, Lost, Quiet
    <3> QED  BY <1>r, <2>1, <2>2, <3>1, <3>4
  <2> QED  BY <2>3, <2>4
<1>4. CASE invalid_length
  <2>1. /\ strand_pc = "drain" /\ strand_pc' = "idle" /\ strand' = strand /\ closed'
        /\ UNCHANGED <<nickname_registered, secret_seen, received, posted, indexed, kick_pc,
                       task_queue, reading>>
    BY <1>4 DEF invalid_length, At, call_close_session
  <2>2. D = 1 /\ D1 = 0 /\ R1 = R /\ Quiet /\ Same({"post_write"}) /\ Same({"login_timeout"})
    BY <2>1 DEF Draining, D, D1, R, R1
  <2>3. Lost
    BY <1>n, <2>1, <2>2
  <2> HIDE DEF Passed, Lost, Quiet
  <2> QED  BY <1>r, <2>1, <2>2, <2>3
<1>5. CASE run_next_task
  <2>1. /\ strand_pc = "run_next_task" /\ strand_pc' = "idle" /\ strand' = strand
        /\ closed' = closed
        /\ UNCHANGED <<nickname_registered, secret_seen, received, posted, indexed, kick_pc>>
    BY <1>5 DEF run_next_task, At
  <2>2. D = 0 /\ D1 = 0 /\ R1 = R /\ Quiet /\ Same({"post_write"}) /\ Same({"login_timeout"})
    BY <2>1 DEF Draining, D, D1, R, R1
  <2>3. \/ task_queue' = task_queue /\ reading' = reading
        \/ task_queue' = task_queue - 1 /\ reading' = reading + 1
    BY <1>5 DEF run_next_task
  <2>4. Passed
    <3>1. CASE task_queue' = task_queue /\ reading' = reading
      BY <1>n, <2>1, <2>2, <3>1
    <3>2. CASE task_queue' = task_queue - 1 /\ reading' = reading + 1
      <4>1. R1 + task_queue' + reading' + D1 = R + task_queue + reading + D
        BY <1>n, <2>2, <3>2
      <4> QED  BY <2>1, <4>1
    <3> QED  BY <2>3, <3>1, <3>2
  <2> HIDE DEF Passed, Lost, Quiet
  <2> QED  BY <1>r, <2>1, <2>2, <2>4
<1>6. ASSUME NEW r \in ReadResult, read_completes(r) PROVE Rest'
  <2>1. /\ strand_pc' = strand_pc /\ strand' = Append(strand, r) /\ closed' = closed
        /\ reading > 0 /\ reading' = reading - 1 /\ task_queue' = task_queue
        /\ read_pending' = read_pending
        /\ UNCHANGED <<nickname_registered, secret_seen, received, posted, indexed, kick_pc>>
    BY <1>6 DEF read_completes
  <2>2. R1 = R + 1 /\ Same({"post_write"}) /\ Same({"login_timeout"})
    <3>1. \A H : Count(strand', H) = Count(strand, H) + (IF r \in H THEN 1 ELSE 0)
      BY <1>0, <1>h, <2>1, HandlerPosted
    <3>2. \A H : Count(strand, H) \in Nat
      BY <1>0, Tokens
    <3> QED  BY <1>h, <3>1, <3>2 DEF R, R1
  <2>3. Quiet
    BY <1>0, <2>1 DEF ReadInv
  <2>4. Passed
    <3>1. D1 = D
      BY <2>1 DEF D, D1
    <3> QED  BY <1>n, <1>d, <2>1, <2>2, <3>1
  <2> HIDE DEF Passed, Lost, Quiet
  <2> QED  BY <1>r, <2>1, <2>2, <2>3, <2>4
<1> QED  BY <1>1, <1>2, <1>3, <1>4, <1>5, <1>6

\* Steps that leave the read token, the login and the messages alone.
LEMMA FrameStep ==
    ASSUME SessionInv, Types', closed => closed', strand_pc # "new",
           \/ strand_pc' = strand_pc
           \/ strand_pc = "login_timeout_close" /\ strand_pc' = "idle" /\ closed',
           UNCHANGED <<task_queue, reading, read_pending, nickname_registered, posted,
                       timeout_started>>,
           secret_seen => secret_seen', received <= received', KickKept,
           Count(strand', ReadHandler) = Count(strand, ReadHandler),
           Count(strand', {"post_write"}) = Count(strand, {"post_write"}),
           TimerTokens' <= TimerTokens
    PROVE  Rest'
<1>1. Types
  BY DEF SessionInv
<1>2. ReadInv'
  <2>1. strand_pc' # "new" /\ (strand_pc' \in Draining <=> strand_pc \in Draining)
    BY DEF Draining
  <2> QED  BY <2>1, ReadFrame
<1>3. Count(strand', {"post_write"}) <= Count(strand, {"post_write"})
  BY <1>1, Tokens
<1>4. NewInv' /\ LoginInv' /\ PostInv'
  BY <1>3, LoginFrame
<1> QED  BY <1>2, <1>4 DEF Rest

\* Handlers of another kind than the one posted or taken.
LEMMA Elsewhere ==
    ASSUME Types, NEW h,
           Take(h) \/ (h \in Handler /\ strand' = Append(strand, h)) \/ strand' = strand,
           NEW H, h \notin H
    PROVE  Count(strand', H) = Count(strand, H)
<1>1. strand \in Seq(Handler)
  BY DEF Types
<1>2. CASE Take(h)
  BY <1>1, <1>2, HandlerTaken
<1>3. CASE h \in Handler /\ strand' = Append(strand, h)
  <2>1. Count(strand', H) = Count(strand, H) + 0
    BY <1>1, <1>3, HandlerPosted
  <2> QED  BY <1>1, <2>1, CountType
<1> QED  BY <1>2, <1>3

(***************************************************************************)
(* Closing, the completion of a write, the end of a takeover, add_session  *)
(* and the timer outside its handler are such steps.                       *)
(***************************************************************************)
LEMMA OtherStep ==
    ASSUME SessionInv, Types', strand_pc # "new",
           \/ /\ \/ \E t \in Thread : CloseStep(t)
                 \/ write_ok \/ write_error \/ kick_close \/ kick_overwrite
                 \/ replace \/ close_replaced
                 \/ \E r \in WriteResult : write_completes(r)
              /\ TimerFollows
           \/ start_login_timeout \/ expire \/ login_cancelled \/ login_timeout_close
           \/ login_timeout /\ ~TimedOut
           \/ UNCHANGED allVars
    PROVE  Rest'
<1>0. Types /\ LoginInv /\ received \in Nat
  BY DEF SessionInv, Types
<1>n. TimerTokens \in Nat /\ Count(strand, {"login_timeout"}) \in Nat
      /\ TimerTokens >= Count(strand, {"login_timeout"})
  BY <1>0, Tokens
<1> DEFINE Kept == /\ UNCHANGED <<strand_pc, task_queue, reading, read_pending,
                                  nickname_registered, posted, secret_seen, received>>
                   /\ KickKept
                   /\ closed => closed'
           Strand(h) == Take(h) \/ (h \in Handler /\ strand' = Append(strand, h)) \/ strand' = strand
<1> USE DEF writeVars, managerVars, loginVars, readVars, inputVars
<1>e. ASSUME NEW h, Strand(h), h \notin ReadHandler, h # "post_write"
      PROVE  /\ Count(strand', ReadHandler) = Count(strand, ReadHandler)
             /\ Count(strand', {"post_write"}) = Count(strand, {"post_write"})
  BY <1>0, <1>e, Elsewhere
<1>h. /\ WriteResult \subseteq Handler
      /\ \A h \in WriteResult \cup {"login_timeout"} : h \notin ReadHandler /\ h # "post_write"
      /\ "login_timeout" \notin WriteResult /\ "write_ok" \in WriteResult /\ "write_error" \in WriteResult
      /\ "login_timeout" \in Handler
  BY DEF WriteResult, Handler, ReadHandler, ReadResult
<1>s. ASSUME Kept, TimerFollows, NEW h \in WriteResult, Strand(h) PROVE Rest'
  <2>1. Count(strand', {"login_timeout"}) = Count(strand, {"login_timeout"})
    BY <1>0, <1>h, <1>s, Elsewhere
  <2>2. TimerTokens' = TimerTokens /\ timeout_started' = timeout_started
    <3>1. /\ TimerTokens' = TimerTokens - Count(strand, {"login_timeout"})
                                + Count(strand', {"login_timeout"})
          /\ timeout_started' = timeout_started
      BY <1>0, <1>s, TimerKept
    <3> QED  BY <1>n, <2>1, <3>1
  <2>3. TimerTokens' <= TimerTokens /\ received <= received'
    <3>1. received' = received
      BY <1>s
    <3> QED  BY <1>0, <1>n, <2>2, <3>1
  <2>4. /\ Count(strand', ReadHandler) = Count(strand, ReadHandler)
        /\ Count(strand', {"post_write"}) = Count(strand, {"post_write"})
    BY <1>e, <1>h, <1>s
  <2> QED  BY <1>s, <2>2, <2>3, <2>4, FrameStep
<1>1. ASSUME NEW t \in Thread, CloseStep(t), TimerFollows PROVE Rest'
  <2>1. Kept /\ strand' = strand
    BY <1>1 DEF CloseStep, set_state_closed, close_socket, remove_session, KickKept
  <2> QED  BY <1>1, <1>h, <1>s, <2>1
<1>2. ASSUME write_ok \/ write_error, TimerFollows PROVE Rest'
  <2>1. \E h \in WriteResult : Take(h)
    BY <1>2, <1>h DEF write_ok, write_error
  <2>2. Kept
    BY <1>2, QueueEffects DEF write_ok, write_error, KickKept
  <2> QED  BY <1>2, <1>s, <2>1, <2>2
<1>3. ASSUME kick_close \/ kick_overwrite \/ replace \/ close_replaced, TimerFollows
      PROVE  Rest'
  <2>1. Kept /\ strand' = strand
    BY <1>3 DEF kick_close, kick_overwrite, replace, close_replaced, call_close_session,
       KickKept
  <2> QED  BY <1>3, <1>h, <1>s, <2>1
<1>4. ASSUME NEW r \in WriteResult, write_completes(r), TimerFollows PROVE Rest'
  <2>1. Kept /\ strand' = Append(strand, r)
    BY <1>4 DEF write_completes, KickKept
  <2> QED  BY <1>4, <1>h, <1>s, <2>1
<1>f. ASSUME Kept, TimerTokens' <= TimerTokens, timeout_started' = timeout_started,
             Strand("login_timeout")
      PROVE  Rest'
  <2>1. /\ Count(strand', ReadHandler) = Count(strand, ReadHandler)
        /\ Count(strand', {"post_write"}) = Count(strand, {"post_write"})
    BY <1>e, <1>h, <1>f
  <2>2. received <= received'
    BY <1>0, <1>f
  <2> QED  BY <1>f, <2>1, <2>2, FrameStep
<1>x. TimerTokens' = (IF starting' THEN 1 ELSE 0) + (IF login_timer' # "off" THEN 1 ELSE 0)
                       + Count(strand', {"login_timeout"})
  BY DEF TimerTokens, Count, Positions
<1>5. CASE start_login_timeout
  <2>1. Kept /\ strand' = strand /\ timeout_started' = timeout_started
    BY <1>5 DEF start_login_timeout, vars, KickKept
  <2>2. starting /\ ~starting'
    BY <1>5 DEF start_login_timeout
  <2>3. TimerTokens' <= TimerTokens
    BY <1>0, <1>n, <1>x, <2>1, <2>2 DEF TimerTokens
  <2> QED  BY <1>f, <2>1, <2>3
<1>6. CASE expire
  <2>1. Kept /\ strand' = Append(strand, "login_timeout") /\ timeout_started' = timeout_started
    BY <1>6 DEF expire, KickKept
  <2>2. login_timer # "off" /\ login_timer' = "off" /\ starting' = starting
    BY <1>6 DEF expire
  <2>3. Count(strand', {"login_timeout"}) = Count(strand, {"login_timeout"}) + 1
    BY <1>0, <1>h, <2>1, HandlerPosted DEF Types
  <2>4. TimerTokens' <= TimerTokens
    BY <1>0, <1>n, <1>x, <2>2, <2>3 DEF TimerTokens
  <2> QED  BY <1>f, <1>h, <2>1, <2>4
<1>7. CASE login_cancelled
  <2>1. Kept /\ strand' = strand /\ timeout_started' = timeout_started
    BY <1>7 DEF login_cancelled, vars, KickKept
  <2>2. login_timer' = "off" /\ starting' = starting
    BY <1>7 DEF login_cancelled
  <2>3. TimerTokens' <= TimerTokens
    BY <1>0, <1>n, <1>x, <2>1, <2>2 DEF TimerTokens
  <2> QED  BY <1>f, <2>1, <2>3
<1>8. CASE login_timeout /\ ~TimedOut
  <2>1. Kept /\ Take("login_timeout") /\ timeout_started' = timeout_started
    BY <1>8 DEF login_timeout, timerVars, KickKept
  <2>2. login_timer' = login_timer /\ starting' = starting
    BY <1>8 DEF login_timeout, timerVars
  <2>3. /\ Count(strand, {"login_timeout"}) = Count(strand', {"login_timeout"}) + 1
        /\ Count(strand', {"login_timeout"}) \in Nat
    BY <1>0, <2>1, HandlerTaken DEF Types
  <2>4. TimerTokens' <= TimerTokens
    BY <1>0, <1>x, <2>2, <2>3 DEF TimerTokens
  <2> QED  BY <1>f, <2>1, <2>4
<1>9. CASE login_timeout_close
  <2>1. /\ UNCHANGED <<strand, task_queue, reading, read_pending, nickname_registered, posted,
                       secret_seen, received, indexed, kick_pc, timerVars>>
        /\ strand_pc = "login_timeout_close" /\ strand_pc' = "idle" /\ closed'
    BY <1>9 DEF login_timeout_close, call_close_session, At
  <2>2. TimerTokens' = TimerTokens
    BY <1>x, <2>1 DEF TimerTokens, timerVars
  <2>3. TimerTokens' <= TimerTokens /\ received <= received'
    BY <1>0, <1>n, <2>1, <2>2
  <2> QED  BY <2>1, <2>3, FrameStep DEF timerVars, KickKept
<1>10. CASE UNCHANGED allVars
  <2>1. Kept /\ strand' = strand /\ UNCHANGED timerVars
    BY <1>10 DEF allVars, vars, KickKept
  <2>2. TimerTokens' = TimerTokens
    BY <1>x, <2>1 DEF TimerTokens, timerVars
  <2>3. TimerTokens' <= TimerTokens
    BY <1>n, <2>2
  <2> QED  BY <1>f, <2>1, <2>3 DEF timerVars
<1> QED  BY <1>1, <1>2, <1>3, <1>4, <1>5, <1>6, <1>7, <1>8, <1>9, <1>10

(***************************************************************************)
(* Logging in, and every message that is posted.  Each message is paid for *)
(* by the packet, the takeover or the timer it comes from.                 *)
(***************************************************************************)
LEMMA Accounts ==
    ASSUME SessionInv, Types'
    PROVE  /\ KickCredit \in Nat /\ TimerTokens \in Nat /\ Count(strand, {"post_write"}) \in Nat
           /\ posted \in Nat /\ received \in Nat
           /\ posted + (PcCredit + KickCredit + TimerTokens + Count(strand, {"post_write"}))
                <= 2 * received + 1
           /\ PostInv' <=> posted' + (PcCredit' + KickCredit' + TimerTokens'
                                       + Count(strand', {"post_write"})) <= 2 * received' + 1
<1>1. Types /\ PostInv
  BY DEF SessionInv
<1>2. TimerTokens \in Nat /\ Count(strand, {"post_write"}) \in Nat
  BY <1>1, Tokens
<1>3. KickCredit \in Nat
  BY <1>1 DEF KickCredit, Types
<1>4. posted \in Nat /\ received \in Nat
  BY <1>1 DEF Types
<1>5. posted + (PcCredit + KickCredit + TimerTokens + Count(strand, {"post_write"}))
        <= 2 * received + 1
  BY <1>1 DEF PostInv, Credit
<1>6. PostInv' <=> posted' + (PcCredit' + KickCredit' + TimerTokens'
                              + Count(strand', {"post_write"})) <= 2 * received' + 1
  BY DEF PostInv, Credit, Count, Positions
<1> QED  BY <1>2, <1>3, <1>4, <1>5, <1>6

\* Before the login a packet without the secret closes the session.
LEMMA SecretNeeded ==
    ASSUME NEW p \in Packet, NEW in_use, NEW reg, ~reg, Outcome(reg, in_use, p) # "close"
    PROVE  p.secret
BY DEF Outcome, Refused, Packet

\* The steps that matter to the login part.
LEMMA LoginStep ==
    ASSUME SessionInv, Types', strand_pc # "new",
           \/ /\ \/ \E p \in Packet, in_use \in BOOLEAN : dispatch(p, in_use)
                 \/ on_nickname_registered \/ register_nickname \/ login_ack
                 \/ post_write
              /\ TimerFollows
           \/ kick_post_write /\ (TimerFollows \/ UNCHANGED timerVars)
           \/ login_timeout /\ TimedOut
    PROVE  Rest'
<1> DEFINE W  == Count(strand, {"post_write"})
           W1 == Count(strand', {"post_write"})
           T  == TimerTokens
           T1 == TimerTokens'
           K  == KickCredit
           K1 == KickCredit'
           Reads == /\ UNCHANGED <<task_queue, reading, read_pending>>
                    /\ Count(strand', ReadHandler) = Count(strand, ReadHandler)
                    /\ strand_pc' # "new" /\ (strand_pc' \in Draining <=> strand_pc \in Draining)
                    /\ closed => closed'
<1>0. Types /\ LoginInv /\ strand \in Seq(Handler)
  BY DEF SessionInv, Types
<1>a. /\ K \in Nat /\ T \in Nat /\ W \in Nat /\ posted \in Nat /\ received \in Nat
      /\ posted + (PcCredit + K + T + W) <= 2 * received + 1
      /\ PostInv' <=> posted' + (PcCredit' + K1 + T1 + W1) <= 2 * received' + 1
  BY Accounts
<1>b. Count(strand, {"login_timeout"}) \in Nat /\ T >= Count(strand, {"login_timeout"})
  BY <1>0, Tokens
<1>w. W1 \in Nat /\ T1 \in Nat
  BY TokensNext
<1>k. /\ K = (IF kick_pc = "none" THEN indexed ELSE indexed - 1)
      /\ K1 = (IF kick_pc' = "none" THEN indexed' ELSE indexed' - 1)
      /\ indexed \in Nat
  BY <1>0 DEF KickCredit, Types
<1>x. LoginInv' <=>
        /\ strand_pc' = "register_nickname" => nickname_registered'
        /\ strand_pc' \in {"on_nickname_registered", "login_ack"} => secret_seen'
        /\ indexed' > 0 => nickname_registered'
        /\ W1 > 0 => nickname_registered'
        /\ nickname_registered' => secret_seen'
        /\ strand_pc' = "login_timeout_close" => ~nickname_registered'
        /\ T1 <= 1
        /\ T1 = 1 => timeout_started'
        /\ posted' > 0 /\ ~secret_seen' =>
             /\ timeout_started' /\ posted' = 1 /\ T1 = 0
             /\ strand_pc' = "login_timeout_close" \/ closed'
  BY DEF LoginInv, Count, Positions
<1>y. /\ indexed > 0 => nickname_registered
      /\ W > 0 => nickname_registered
      /\ nickname_registered => secret_seen
      /\ T <= 1
      /\ T = 1 => timeout_started
  BY <1>0 DEF LoginInv
<1> HIDE DEF W, W1, T, T1, K, K1
<1>r. ASSUME Reads, LoginInv', PostInv' PROVE Rest'
  <2>1. ReadInv'
    BY <1>r, ReadFrame
  <2> QED  BY <1>r, <2>1 DEF Rest, NewInv
<1>t. ASSUME TimerFollows \/ UNCHANGED timerVars,
             Count(strand', {"login_timeout"}) = Count(strand, {"login_timeout"})
      PROVE  T1 = T /\ timeout_started' = timeout_started
  <2>1. /\ T1 = T - Count(strand, {"login_timeout"}) + Count(strand', {"login_timeout"})
        /\ timeout_started' = timeout_started
    BY <1>0, <1>t, TimerKept DEF T, T1
  <2> QED  BY <1>a, <1>b, <1>t, <2>1
<1>u. ASSUME strand' = strand
      PROVE  W1 = W /\ Count(strand', ReadHandler) = Count(strand, ReadHandler)
             /\ Count(strand', {"login_timeout"}) = Count(strand, {"login_timeout"})
  BY <1>u DEF W, W1
\* Once the secret has been seen only the timer is left to account for.
<1>l. ASSUME T1 = T, timeout_started' = timeout_started, secret_seen',
             strand_pc' # "login_timeout_close",
             strand_pc' = "register_nickname" => nickname_registered',
             indexed' > 0 => nickname_registered', W1 > 0 => nickname_registered'
      PROVE  LoginInv'
  BY <1>l, <1>x, <1>y
<1> USE DEF writeVars, managerVars, loginVars, readVars, inputVars
<1>1. ASSUME NEW p \in Packet, NEW in_use \in BOOLEAN, dispatch(p, in_use), TimerFollows
      PROVE  Rest'
  <2> DEFINE outcome == Outcome(nickname_registered, in_use, p)
  <2>1. /\ strand_pc = "drain" /\ received' = received + 1
        /\ secret_seen' = (secret_seen \/ p.secret)
        /\ UNCHANGED <<strand, nickname_registered, indexed, kick_pc, task_queue, reading,
                       read_pending>>
    BY <1>1 DEF dispatch, At
  <2>2. /\ T1 = T /\ timeout_started' = timeout_started /\ W1 = W /\ K1 = K
        /\ Count(strand', ReadHandler) = Count(strand, ReadHandler)
    BY <1>1, <1>k, <1>t, <1>u, <2>1
  <2>3. PcCredit = 0
    BY <2>1 DEF PcCredit
  <2>s. outcome # "close" => secret_seen'
    <3>1. CASE nickname_registered
      BY <1>y, <2>1, <3>1
    <3>2. CASE ~nickname_registered
      <4>1. outcome # "close" => p.secret
        BY <3>2, SecretNeeded
      <4> QED  BY <2>1, <4>1, Zenon
    <3> QED  BY <3>1, <3>2
  <2>4. CASE /\ outcome = "close"
             /\ call_close_session("strand")
             /\ UNCHANGED <<state, writeVars, strand_pc>>
    <3>1. closed' /\ KickKept /\ UNCHANGED <<posted, nickname_registered, strand_pc>>
      BY <2>1, <2>4 DEF call_close_session, KickKept
    <3>2. TimerTokens' <= TimerTokens /\ received <= received'
      BY <1>a, <2>1, <2>2 DEF T, T1
    <3>3. Count(strand', {"post_write"}) = Count(strand, {"post_write"})
      BY <2>1
    <3>4. secret_seen => secret_seen'
      BY <2>1
    <3> QED  BY <2>1, <2>2, <3>1, <3>2, <3>3, <3>4, FrameStep
  <2>5. CASE /\ outcome \in {"login", "nickname_in_use"}
             /\ strand_pc' \in {"on_nickname_registered", "login_ack"}
             /\ UNCHANGED <<closed, state, writeVars, close_pc>>
    <3>1. closed' = closed /\ posted' = posted
      BY <2>5
    <3>2. PcCredit' \in {1, 2}
      BY <2>5 DEF PcCredit
    <3>3. PostInv'
      <4>1. \A c \in {1, 2} : posted + (c + K + T + W) <= 2 * (received + 1) + 1
        BY <1>a, <2>3
      <4>2. posted + (PcCredit' + K + T + W) <= 2 * (received + 1) + 1
        BY <3>2, <4>1
      <4> QED  BY <1>a, <2>1, <2>2, <3>1, <4>2
    <3>4. LoginInv'
      BY <1>l, <1>y, <2>1, <2>2, <2>s, <2>5
    <3>5. Reads
      BY <2>1, <2>2, <2>5, <3>1 DEF Draining
    <3> QED  BY <1>r, <3>3, <3>4, <3>5
  <2>6. CASE /\ outcome \notin {"close", "login", "nickname_in_use"}
             /\ WQ!post_write
             /\ UNCHANGED <<strand_pc, close_pc>>
    <3>1. /\ closed => closed'
          /\ posted' = posted + 1 /\ strand_pc' = "drain"
      BY <2>1, <2>6, QueueEffects
    <3>2. PcCredit' = 0
      BY <3>1 DEF PcCredit
    <3>3. PostInv'
      <4>1. (posted + 1) + (0 + K + T + W) <= 2 * (received + 1) + 1
        BY <1>a, <2>3
      <4> QED  BY <1>a, <2>1, <2>2, <3>1, <3>2, <4>1
    <3>4. LoginInv'
      BY <1>l, <1>y, <2>1, <2>2, <2>s, <2>6, <3>1
    <3>5. Reads
      BY <2>1, <2>2, <3>1 DEF Draining
    <3> QED  BY <1>r, <3>3, <3>4, <3>5
  <2>7. \/ /\ outcome = "close"
           /\ call_close_session("strand")
           /\ UNCHANGED <<state, writeVars, strand_pc>>
        \/ /\ outcome \in {"login", "nickname_in_use"}
           /\ strand_pc' \in {"on_nickname_registered", "login_ack"}
           /\ UNCHANGED <<closed, state, writeVars, close_pc>>
        \/ /\ outcome \notin {"close", "login", "nickname_in_use"}
           /\ WQ!post_write
           /\ UNCHANGED <<strand_pc, close_pc>>
    BY <1>1 DEF dispatch
  <2> QED  BY <2>4, <2>5, <2>6, <2>7
<1>o. ASSUME on_nickname_registered, TimerFollows PROVE Rest'
  <2>1. /\ strand_pc = "on_nickname_registered" /\ strand_pc' = "register_nickname"
        /\ nickname_registered' /\ closed' = closed
        /\ UNCHANGED <<posted, indexed, strand, kick_pc, task_queue, reading, read_pending,
                       received, secret_seen>>
    BY <1>o DEF on_nickname_registered, At
  <2>2. /\ T1 = T /\ timeout_started' = timeout_started /\ W1 = W /\ K1 = K
        /\ Count(strand', ReadHandler) = Count(strand, ReadHandler)
    BY <1>o, <1>k, <1>t, <1>u, <2>1
  <2>3. PcCredit = 2 /\ PcCredit' = 2
    BY <2>1 DEF PcCredit
  <2>4. PostInv'
    BY <1>a, <2>1, <2>2, <2>3
  <2>5. secret_seen
    BY <1>0, <2>1 DEF LoginInv
  <2>6. LoginInv'
    BY <1>l, <2>1, <2>2, <2>5
  <2>7. Reads
    BY <2>1, <2>2 DEF Draining
  <2> QED  BY <1>r, <2>4, <2>6, <2>7
<1>2. ASSUME register_nickname, TimerFollows PROVE Rest'
  <2>1. /\ strand_pc = "register_nickname" /\ strand_pc' = "login_ack" /\ kick_pc = "none"
        /\ indexed' = indexed + 1 /\ closed' = closed
        /\ UNCHANGED <<posted, nickname_registered, strand, kick_pc, task_queue, reading,
                       read_pending, received, secret_seen>>
    BY <1>2 DEF register_nickname, At, nicknameMutexFree
  <2>2. /\ T1 = T /\ timeout_started' = timeout_started /\ W1 = W /\ K1 = K + 1
        /\ Count(strand', ReadHandler) = Count(strand, ReadHandler)
    BY <1>2, <1>k, <1>t, <1>u, <2>1
  <2>3. PcCredit = 2 /\ PcCredit' = 1
    BY <2>1 DEF PcCredit
  <2>4. PostInv'
    <3>1. posted + (1 + (K + 1) + T + W) <= 2 * received + 1
      BY <1>a, <2>3
    <3> QED  BY <1>a, <2>1, <2>2, <2>3, <3>1
  <2>5. nickname_registered
    BY <1>0, <2>1 DEF LoginInv
  <2>6. LoginInv'
    BY <1>l, <1>y, <2>1, <2>2, <2>5
  <2>7. Reads
    BY <2>1, <2>2 DEF Draining
  <2> QED  BY <1>r, <2>4, <2>6, <2>7
<1>3. ASSUME login_ack, TimerFollows PROVE Rest'
  <2>1. /\ strand_pc = "login_ack" /\ strand_pc' = "drain" /\ (closed => closed')
        /\ posted' = posted + 1
        /\ UNCHANGED <<nickname_registered, indexed, strand, kick_pc, task_queue, reading,
                       read_pending, received, secret_seen>>
    BY <1>3, QueueEffects DEF login_ack, At
  <2>2. /\ T1 = T /\ timeout_started' = timeout_started /\ W1 = W /\ K1 = K
        /\ Count(strand', ReadHandler) = Count(strand, ReadHandler)
    BY <1>3, <1>k, <1>t, <1>u, <2>1
  <2>3. PcCredit = 1 /\ PcCredit' = 0
    BY <2>1 DEF PcCredit
  <2>4. PostInv'
    <3>1. (posted + 1) + (0 + K + T + W) <= 2 * received + 1
      BY <1>a, <2>3
    <3> QED  BY <1>a, <2>1, <2>2, <2>3, <3>1
  <2>5. secret_seen
    BY <1>0, <2>1 DEF LoginInv
  <2>6. LoginInv'
    BY <1>l, <1>y, <2>1, <2>2, <2>5
  <2>7. Reads
    BY <2>1, <2>2 DEF Draining
  <2> QED  BY <1>r, <2>4, <2>6, <2>7
<1>4. ASSUME post_write, TimerFollows PROVE Rest'
  <2>1. /\ Take("post_write") /\ strand_pc = "idle" /\ strand_pc' = "idle" /\ (closed => closed')
        /\ posted' = posted + 1
        /\ UNCHANGED <<nickname_registered, indexed, kick_pc, task_queue, reading,
                       read_pending, received, secret_seen>>
    BY <1>4, QueueEffects DEF post_write, Take
  <2>2. W = W1 + 1
    BY <1>0, <2>1, HandlerTaken DEF W, W1
  <2>3. /\ Count(strand', ReadHandler) = Count(strand, ReadHandler)
        /\ Count(strand', {"login_timeout"}) = Count(strand, {"login_timeout"})
    BY <1>0, <2>1, Elsewhere DEF ReadHandler, ReadResult
  <2>4. T1 = T /\ timeout_started' = timeout_started /\ K1 = K
    BY <1>4, <1>k, <1>t, <2>1, <2>3
  <2>5. PcCredit = 0 /\ PcCredit' = 0
    BY <2>1 DEF PcCredit
  <2>6. PostInv'
    <3>1. (posted + 1) + (0 + K + T + W1) <= 2 * received + 1
      BY <1>a, <1>w, <2>2, <2>5
    <3> QED  BY <1>a, <2>1, <2>4, <2>5, <3>1
  <2>7. W > 0
    BY <1>w, <2>2
  <2>8. LoginInv'
    BY <1>l, <1>y, <2>1, <2>4, <2>7
  <2>9. Reads
    BY <2>1, <2>3
  <2> QED  BY <1>r, <2>6, <2>8, <2>9
<1>5. ASSUME kick_post_write, TimerFollows \/ UNCHANGED timerVars PROVE Rest'
  <2>1. /\ strand' = Append(strand, "post_write") /\ indexed > 0 /\ kick_pc = "none"
        /\ kick_pc' = "close" /\ closed' = closed
        /\ UNCHANGED <<strand_pc, posted, nickname_registered, indexed, task_queue, reading,
                       read_pending, received, secret_seen>>
    BY <1>5 DEF kick_post_write
  <2>2. "post_write" \in Handler
    BY DEF Handler
  <2>3. W1 = W + 1
    BY <1>0, <2>1, <2>2, HandlerPosted DEF W, W1
  <2>4. /\ Count(strand', ReadHandler) = Count(strand, ReadHandler)
        /\ Count(strand', {"login_timeout"}) = Count(strand, {"login_timeout"})
    BY <1>0, <2>1, <2>2, Elsewhere DEF ReadHandler, ReadResult
  <2>5. T1 = T /\ timeout_started' = timeout_started /\ K = K1 + 1 /\ K1 \in Nat
    BY <1>5, <1>k, <1>t, <2>1, <2>4
  <2>6. PcCredit' = PcCredit /\ PcCredit \in Nat
    BY <2>1 DEF PcCredit
  <2>7. PostInv'
    <3>1. posted + (PcCredit + K1 + T + (W + 1)) <= 2 * received + 1
      BY <1>a, <2>5, <2>6
    <3> QED  BY <1>a, <2>1, <2>3, <2>5, <2>6, <3>1
  <2>8. strand_pc # "login_timeout_close"
    BY <1>0, <1>y, <2>1 DEF LoginInv
  <2>9. LoginInv'
    BY <1>l, <1>y, <2>1, <2>5, <2>8
  <2>10. Reads
    BY <2>1, <2>4
  <2> QED  BY <1>r, <2>7, <2>9, <2>10
<1>6. ASSUME login_timeout, TimedOut PROVE Rest'
  <2>1. /\ Take("login_timeout") /\ strand_pc = "idle" /\ strand_pc' = "login_timeout_close"
        /\ (closed => closed') /\ posted' = posted + 1 /\ ~nickname_registered
        /\ UNCHANGED <<nickname_registered, indexed, kick_pc, task_queue, reading,
                       read_pending, received, secret_seen, timerVars>>
    BY <1>6, QueueEffects DEF login_timeout, Take, TimedOut
  <2>2. /\ Count(strand, {"login_timeout"}) = Count(strand', {"login_timeout"}) + 1
        /\ Count(strand', {"login_timeout"}) \in Nat
    BY <1>0, <2>1, HandlerTaken
  <2>3. /\ Count(strand', ReadHandler) = Count(strand, ReadHandler)
        /\ W1 = W
    BY <1>0, <2>1, Elsewhere DEF ReadHandler, ReadResult, W, W1
  <2>4. /\ T1 = T - Count(strand, {"login_timeout"}) + Count(strand', {"login_timeout"})
        /\ timeout_started' = timeout_started
    BY <1>0, <2>1, TimerKept DEF T, T1
  <2>5. T = 1 /\ T1 = 0 /\ timeout_started' /\ K1 = K
    <3>1. T = 1
      BY <1>a, <1>b, <1>y, <2>2
    <3>2. T1 = 0
      BY <1>b, <2>2, <2>4, <3>1
    <3> QED  BY <1>k, <1>y, <2>1, <2>4, <3>1, <3>2
  <2>6. PcCredit = 0 /\ PcCredit' = 0
    BY <2>1 DEF PcCredit
  <2>7. PostInv'
    <3>1. (posted + 1) + (0 + K + 0 + W) <= 2 * received + 1
      BY <1>a, <2>5, <2>6
    <3> QED  BY <1>a, <2>1, <2>3, <2>5, <2>6, <3>1
  <2>8. ~secret_seen => posted' = 1
    <3>1. ~(posted > 0 /\ ~secret_seen)
      BY <1>0, <2>5 DEF LoginInv, T
    <3> QED  BY <1>a, <2>1, <3>1
  <2>9. LoginInv'
    BY <1>x, <1>y, <2>1, <2>3, <2>5, <2>8
  <2>10. Reads
    BY <2>1, <2>3 DEF Draining
  <2> QED  BY <1>r, <2>7, <2>9, <2>10
<1> QED  BY <1>1, <1>2, <1>3, <1>4, <1>5, <1>6, <1>o
-----------------------------------------------------------------------------
\* start() posts the read token and may start the timer.
LEMMA StartStep == ASSUME SessionInv, Types', start, TimerFollows PROVE Rest'
<1>0. Types /\ NewInv /\ LoginInv /\ strand \in Seq(Handler) /\ strand_pc = "new"
  BY DEF SessionInv, Types, start
<1>1. /\ indexed = 0 /\ kick_pc = "none" /\ posted = 0 /\ ReadTokens = 0 /\ TimerTokens = 0
  BY <1>0 DEF NewInv
<1>2. /\ strand_pc' = "idle" /\ strand' = Append(strand, "post_task")
      /\ UNCHANGED <<posted, nickname_registered, indexed, kick_pc, task_queue, reading,
                     received, secret_seen>>
  BY DEF start, writeVars, managerVars, loginVars, inputVars
<1>3. "post_task" \in Handler /\ "post_task" \in ReadHandler
  BY DEF Handler, ReadHandler
<1>4. Count(strand', ReadHandler) = Count(strand, ReadHandler) + 1
  BY <1>0, <1>2, <1>3, HandlerPosted
<1>5. /\ Count(strand', {"post_write"}) = Count(strand, {"post_write"})
      /\ Count(strand', {"login_timeout"}) = Count(strand, {"login_timeout"})
  BY <1>0, <1>2, <1>3, Elsewhere
<1>6. /\ Count(strand, ReadHandler) \in Nat /\ task_queue \in Nat /\ reading \in Nat
      /\ Count(strand, {"login_timeout"}) \in Nat /\ Count(strand, {"post_write"}) \in Nat
      /\ received \in Nat
  BY <1>0, Tokens DEF Types
<1>7. ReadInv'
  <2>1. Count(strand, ReadHandler) = 0 /\ task_queue = 0 /\ reading = 0
    BY <1>0, <1>1, <1>6, Tokens
  <2>2. ReadTokens' = Count(strand', ReadHandler) + task_queue' + reading'
    BY <1>2, <1>4, <1>6, TokensNext DEF Draining
  <2>3. ReadTokens' = 1
    BY <1>2, <1>4, <2>1, <2>2
  <2> QED  BY <1>2, <2>3 DEF ReadInv, OneReader, Draining
<1>8. /\ Count(strand', {"login_timeout"}) = 0 /\ ~starting /\ login_timer = "off"
  BY <1>0, <1>1, <1>5, <1>6 DEF TimerTokens, Types
<1>9. /\ starting' => timeout_started
      /\ login_timer' = "off"
      /\ timeout_started' = timeout_started
  BY <1>2, <1>8 DEF TimerFollows, Types
<1>10. TimerTokens' = IF starting' THEN 1 ELSE 0
  <2>1. TimerTokens' = (IF starting' THEN 1 ELSE 0) + (IF login_timer' # "off" THEN 1 ELSE 0)
                         + Count(strand', {"login_timeout"})
    BY DEF TimerTokens, Count, Positions
  <2>2. login_timer' = "off" /\ Count(strand', {"login_timeout"}) = 0
    BY <1>8, <1>9
  <2>3. CASE starting'
    BY <2>1, <2>2, <2>3
  <2>4. CASE ~starting'
    BY <2>1, <2>2, <2>4
  <2> QED  BY <2>3, <2>4
<1>11. LoginInv'
  <2>1. Count(strand', {"post_write"}) > 0 => nickname_registered
    BY <1>0, <1>5 DEF LoginInv
  <2>2. /\ indexed > 0 => nickname_registered
        /\ nickname_registered => secret_seen
    BY <1>0 DEF LoginInv
  <2>3. TimerTokens' <= 1 /\ (TimerTokens' = 1 => timeout_started')
    BY <1>9, <1>10
  <2>4. ~(posted' > 0)
    BY <1>1, <1>2
  <2> QED  BY <1>2, <2>1, <2>2, <2>3, <2>4 DEF LoginInv, Count, Positions
<1>12. PostInv'
  <2>1. PcCredit = 1 /\ PcCredit' = 0 /\ KickCredit = 0 /\ KickCredit' = 0
    BY <1>0, <1>1, <1>2 DEF PcCredit, KickCredit
  <2>2. 0 + (1 + 0 + 0 + Count(strand, {"post_write"})) <= 2 * received + 1
    BY <1>1, <2>1, Accounts
  <2>3. \A t \in {0, 1} : 0 + (0 + 0 + t + Count(strand, {"post_write"})) <= 2 * received + 1
    BY <1>6, <2>2
  <2>4. TimerTokens' \in {0, 1}
    BY <1>10
  <2>5. 0 + (0 + 0 + TimerTokens' + Count(strand, {"post_write"})) <= 2 * received + 1
    BY <2>3, <2>4
  <2>6. posted' = 0 /\ received' = received
    BY <1>1, <1>2
  <2> QED  BY <1>5, <2>1, <2>5, <2>6, Accounts
<1> QED  BY <1>2, <1>7, <1>11, <1>12 DEF Rest, NewInv

\* All parts of the invariant together.
LEMMA SessionInvStep == SessionInv /\ [LNext]_allVars => SessionInv'
<1> SUFFICES ASSUME SessionInv, [LNext]_allVars PROVE SessionInv'
  OBVIOUS
<1>1. Types' /\ CloseInv'
  BY TypesStep, CloseStepInv DEF SessionInv
<1>2. CASE UNCHANGED allVars
  <2>1. CASE strand_pc # "new"
    BY <1>1, <1>2, <2>1, OtherStep DEF SessionInv, Rest
  <2>2. CASE strand_pc = "new"
    BY <1>2 DEF SessionInv, Types, CloseInv, CloseOnce, NewInv, ReadInv, OneReader, ReadTokens,
       LoginInv, PostInv, Credit, PcCredit, KickCredit, TimerTokens, Count, Positions,
       InTeardown, allVars, vars, writeVars, managerVars, loginVars, readVars, inputVars,
       timerVars
  <2> QED  BY <2>1, <2>2
<1>3. CASE LNext /\ strand_pc = "new"
  BY <1>1, <1>3, OnlyStart, StartStep DEF SessionInv, Rest
<1>4. CASE LNext /\ strand_pc # "new"
  <2> SUFFICES Rest'
    BY <1>1 DEF SessionInv, Rest
  <2>1. CASE Next /\ TimerFollows
    <3>1. CASE start
      BY <1>4, <3>1 DEF start
    <3>2. CASE RunStrand
      BY <1>1, <1>4, <2>1, <3>2, ReadStep, LoginStep, OtherStep DEF RunStrand, Thread
    <3>3. CASE kick_post_write
      BY <1>1, <1>4, <2>1, <3>3, LoginStep
    <3>4. CASE RunKicker
      BY <1>1, <1>4, <2>1, <3>4, OtherStep DEF RunKicker, Thread
    <3>5. CASE \E r \in ReadResult : read_completes(r)
      BY <1>1, <1>4, <2>1, <3>5, ReadStep
    <3>6. CASE \E r \in WriteResult : write_completes(r)
      BY <1>1, <1>4, <2>1, <3>6, OtherStep
    <3>7. CASE replace \/ RunAcceptor
      BY <1>1, <1>4, <2>1, <3>7, OtherStep DEF RunAcceptor, Thread
    <3> QED  BY <2>1, <3>1, <3>2, <3>3, <3>4, <3>5, <3>6, <3>7 DEF Next
  <2>2. CASE kick_post_write /\ UNCHANGED timerVars
    BY <1>1, <1>4, <2>2, LoginStep
  <2>3. CASE start_login_timeout \/ expire \/ login_cancelled \/ login_timeout_close
    BY <1>1, <1>4, <2>3, OtherStep
  <2>4. CASE login_timeout
    BY <1>1, <1>4, <2>4, OtherStep, LoginStep
  <2> QED  BY <1>4, <2>1, <2>2, <2>3, <2>4 DEF LNext, RunTimer
<1> QED  BY <1>2, <1>3, <1>4

\* A new session is in the invariant.
LEMMA InitSessionInv == LInit => SessionInv
<1> SUFFICES ASSUME LInit PROVE SessionInv
  OBVIOUS
<1> USE DEF LInit, Init, WQ!Init
<1>1. \A H : Count(strand, H) = 0
  BY CountEmpty
<1>2. Types
  <2>1. received \in 0..MaxPackets
    BY SessionConfig
  <2>2. strand \in Seq(Handler)
    OBVIOUS
  <2>3. close_pc \in [Thread -> {"none", "set_state", "close_socket", "remove_session"}]
    OBVIOUS
  <2> QED  BY <2>1, <2>2, <2>3 DEF Types, WQ!SessionState
<1>3. CloseInv
  <2>1. ~closed /\ socket = "open" /\ tracked /\ InTeardown = {}
    BY DEF InTeardown
  <2> QED  BY <1>1, <2>1 DEF CloseInv, CloseOnce
<1>4. ReadTokens = 0 /\ TimerTokens = 0
  BY <1>1, <1>2, Tokens DEF Draining, TimerTokens
<1>5. NewInv
  BY <1>4 DEF NewInv
<1>6. ReadInv
  BY <1>4 DEF ReadInv, OneReader, Draining
<1>7. LoginInv
  BY <1>1, <1>4 DEF LoginInv
<1>8. PostInv
  BY <1>1, <1>4 DEF PostInv, Credit, PcCredit, KickCredit
<1> QED  BY <1>2, <1>3, <1>5, <1>6, <1>7, <1>8 DEF SessionInv

\* The inductive invariant holds of every session.
THEOREM SessionInvHolds == LSpec => []SessionInv
<1>1. LInit => SessionInv
  BY InitSessionInv
<1>2. SessionInv /\ [LNext]_allVars => SessionInv'
  BY SessionInvStep
<1> QED  BY <1>1, <1>2, PTL DEF LSpec

(***************************************************************************)
(* Every variable of a session stays in its type; task_queue_ never holds  *)
(* more than one task and at most one async_read_some is outstanding.      *)
(***************************************************************************)
THEOREM TypeCorrect == LSpec => []TypeOK
<1>1. SessionInv => TypeOK
  <2> SUFFICES ASSUME SessionInv PROVE TypeOK
    OBVIOUS
  <2>1. Types /\ OneReader
    BY DEF SessionInv, ReadInv
  <2>2. /\ Count(strand, ReadHandler) \in Nat /\ task_queue \in Nat /\ reading \in Nat
        /\ (IF strand_pc \in Draining THEN 1 ELSE 0) \in Nat
    BY <2>1, Tokens DEF Types
  <2>3. Count(strand, ReadHandler) + task_queue + reading
          + (IF strand_pc \in Draining THEN 1 ELSE 0) <= 1
    BY <2>1, Tokens DEF OneReader
  <2>4. task_queue \in 0..1 /\ reading \in 0..1
    BY <2>2, <2>3
  <2> QED  BY <2>1, <2>4 DEF Types, TypeOK
<1> QED  BY <1>1, SessionInvHolds, PTL

(***************************************************************************)
(* The read loop never doubles and is never lost while closed_ is not set, *)
(* whatever the queue limit, the packets and the thread that closes.       *)
(***************************************************************************)
THEOREM OneReaderHolds == LSpec => []OneReader
<1>1. SessionInv => OneReader
  BY DEF SessionInv, ReadInv
<1> QED  BY <1>1, SessionInvHolds, PTL

(***************************************************************************)
(* The teardown of close_session is run by one thread; the manager lets go *)
(* only of a session that is closed or about to be closed, and one whose   *)
(* closed_ is set is torn down unless its write queue has overflowed.      *)
(***************************************************************************)
THEOREM CloseOnceHolds == LSpec => []CloseOnce
<1>1. SessionInv => CloseOnce
  BY DEF SessionInv, CloseInv
<1> QED  BY <1>1, SessionInvHolds, PTL

(***************************************************************************)
(* Without the secret a peer gets no login, no nickname and no message but *)
(* that of the login timeout.                                              *)
(***************************************************************************)
THEOREM SilentHolds == LSpec => []SilentUntilSecret
<1>1. SessionInv => SilentUntilSecret
  <2> SUFFICES ASSUME SessionInv, ~secret_seen PROVE SilentUntilSecret
    BY DEF SilentUntilSecret
  <2>1. LoginInv /\ posted \in Nat /\ indexed \in Nat
    BY DEF SessionInv, Types
  <2>2. (posted # 0 => posted > 0) /\ (indexed # 0 => indexed > 0)
    BY <2>1
  <2> QED  BY <2>1, <2>2 DEF LoginInv, SilentUntilSecret
<1> QED  BY <1>1, SessionInvHolds, PTL

(***************************************************************************)
(* The login timeout closes no session that has logged in.                 *)
(***************************************************************************)
THEOREM TimeoutSparesLoginHolds == LSpec => TimeoutSparesLogin
<1>1. SessionInv =>
        [close_pc["strand"] = "none" /\ close_pc'["strand"] = "set_state"
           /\ strand_pc = "login_timeout_close" => ~nickname_registered]_allVars
  BY DEF SessionInv, LoginInv
<1> QED  BY <1>1, SessionInvHolds, PTL DEF TimeoutSparesLogin
-----------------------------------------------------------------------------
(***************************************************************************)
(* The refinement of WriteQueue.  A message is posted only while its       *)
(* credit is unspent, so WriteQueue's bound is never met.                  *)
(***************************************************************************)
LEMMA PostAllowed ==
    ASSUME SessionInv, Credit >= 1 \/ received < MaxPackets
    PROVE  posted < MaxPosts
<1>1. /\ posted \in Nat /\ received \in Nat /\ MaxPackets \in Nat /\ received <= MaxPackets
      /\ MaxPosts \in Nat /\ MaxPosts > 2 * MaxPackets
  BY SessionConfig DEF SessionInv, Types
<1>2. Credit \in Nat
  <2>1. TimerTokens \in Nat /\ Count(strand, {"post_write"}) \in Nat
    BY Tokens DEF SessionInv
  <2>2. PcCredit \in Nat /\ KickCredit \in Nat
    BY DEF PcCredit, KickCredit, SessionInv, Types
  <2> QED  BY <2>1, <2>2 DEF Credit
<1>3. posted + Credit <= 2 * received + 1
  BY DEF SessionInv, PostInv
<1> QED  BY <1>1, <1>2, <1>3

\* Every step of the session is a step of WriteQueue or leaves it alone.
LEMMA QueueStep == SessionInv /\ [LNext]_allVars => [WQ!Next]_(WQ!vars)
<1> SUFFICES ASSUME SessionInv, [LNext]_allVars PROVE WQ!Next \/ UNCHANGED WQ!vars
  OBVIOUS
<1> DEFINE Goal == WQ!Next \/ UNCHANGED WQ!vars
<1>0. Types /\ CloseInv /\ closed \in BOOLEAN
  BY DEF SessionInv, Types
<1>c. /\ state = "Closed" => closed
      /\ \A t \in Thread : close_pc[t] # "none" => closed
  BY <1>0 DEF CloseInv, CloseOnce, InTeardown
<1>f. ASSUME UNCHANGED writeVars, closed' \in {closed, TRUE},
             state' \in {"Ready", state} \/ (state' = "Closed" /\ closed')
      PROVE  Goal
  <2>1. UNCHANGED WQ!queueVars
    BY <1>f DEF writeVars, WQ!queueVars
  <2>2. state' = "Closed" => closed'
    <3>1. state' = "Closed" => state = "Closed" \/ closed'
      BY <1>f
    <3>2. closed => closed'
      BY <1>f
    <3> QED  BY <1>c, <3>1, <3>2
  <2> QED  BY <1>f, <2>1, <2>2 DEF WQ!Next, WQ!SessionFlags
<1>s. ASSUME UNCHANGED <<closed, state, writeVars>> PROVE Goal
  BY <1>s DEF writeVars, WQ!vars, WQ!queueVars
<1>u. ASSUME NEW t \in Thread, call_close_session(t), UNCHANGED <<state, writeVars>> PROVE Goal
  BY <1>f, <1>u DEF call_close_session
<1>p. ASSUME WQ!post_write, posted < MaxPosts PROVE Goal
  BY <1>p DEF WQ!Next
<1>k. /\ TimerTokens \in Nat /\ Count(strand, {"post_write"}) \in Nat
      /\ TimerTokens >= Count(strand, {"login_timeout"}) /\ Count(strand, {"login_timeout"}) \in Nat
      /\ PcCredit \in Nat /\ KickCredit \in Nat
  BY <1>0, Tokens DEF PcCredit, KickCredit, Types
<1>t. "strand" \in Thread /\ "kicker" \in Thread /\ "acceptor" \in Thread
  BY DEF Thread
<1>q. ASSUME push_task, UNCHANGED <<state, writeVars>> PROVE Goal
  BY <1>q, <1>s, <1>t, <1>u DEF push_task
<1> HIDE DEF Goal
<1>1. ASSUME start \/ register_nickname \/ kick_post_write \/ kick_overwrite \/ run_next_task
             \/ replace
             \/ (\E r \in ReadResult : read_completes(r))
             \/ (\E r \in WriteResult : write_completes(r))
      PROVE  Goal
  BY <1>1, <1>s DEF start, register_nickname, kick_post_write, kick_overwrite, run_next_task,
     replace, read_completes, write_completes
<1>2. ASSUME NEW t \in Thread, CloseStep(t) PROVE Goal
  BY <1>2, <1>c, <1>f, <1>s DEF CloseStep, set_state_closed, close_socket, remove_session
<1>3. ASSUME post_task PROVE Goal
  BY <1>3, <1>q DEF post_task
<1>4. ASSUME NEW r \in ReadResult, read_callback(r) PROVE Goal
  BY <1>4, <1>s, <1>t, <1>u DEF read_callback
<1>5. ASSUME do_read PROVE Goal
  BY <1>5, <1>q, <1>s DEF do_read
<1>6. ASSUME invalid_length PROVE Goal
  BY <1>6, <1>t, <1>u DEF invalid_length
<1>7. ASSUME NEW p \in Packet, NEW in_use \in BOOLEAN, dispatch(p, in_use) PROVE Goal
  <2>1. received < MaxPackets
    BY <1>7 DEF dispatch
  <2>2. posted < MaxPosts
    BY <2>1, PostAllowed
  <2>3. \/ call_close_session("strand") /\ UNCHANGED <<state, writeVars>>
        \/ UNCHANGED <<closed, state, writeVars>>
        \/ WQ!post_write
    BY <1>7 DEF dispatch
  <2> QED  BY <1>p, <1>s, <1>t, <1>u, <2>2, <2>3
<1>8. ASSUME login_ack PROVE Goal
  <2>1. PcCredit = 1 /\ WQ!post_write
    BY <1>8 DEF login_ack, At, PcCredit
  <2>2. Credit >= 1
    BY <1>k, <2>1 DEF Credit
  <2>3. posted < MaxPosts
    BY <2>2, PostAllowed
  <2> QED  BY <1>p, <2>1, <2>3
<1>9. ASSUME post_write PROVE Goal
  <2>1. Take("post_write") /\ WQ!post_write
    BY <1>9 DEF post_write
  <2>2. /\ Count(strand, {"post_write"}) = Count(strand', {"post_write"}) + 1
        /\ Count(strand', {"post_write"}) \in Nat
    BY <1>0, <2>1, HandlerTaken DEF Types
  <2>3. Credit >= 1
    BY <1>k, <2>2 DEF Credit
  <2>4. posted < MaxPosts
    BY <2>3, PostAllowed
  <2> QED  BY <1>p, <2>1, <2>4
<1>10. ASSUME write_ok \/ write_error PROVE Goal
  BY <1>10 DEF write_ok, write_error, WQ!Next, Goal
<1>11. ASSUME kick_close PROVE Goal
  BY <1>11, <1>t, <1>u DEF kick_close
<1>d. ASSUME close_replaced PROVE Goal
  BY <1>d, <1>t, <1>u DEF close_replaced
<1>o. ASSUME on_nickname_registered PROVE Goal
  BY <1>f, <1>o DEF on_nickname_registered
<1>12. CASE Next
  BY <1>1, <1>2, <1>3, <1>4, <1>5, <1>6, <1>7, <1>8, <1>9, <1>10, <1>11, <1>12, <1>d,
     <1>o, <1>t
     DEF Next, RunStrand, RunKicker, RunAcceptor, Goal
<1>13. CASE start_login_timeout \/ expire \/ login_cancelled
  BY <1>13, <1>s DEF start_login_timeout, expire, login_cancelled, vars, Goal
<1>14. CASE login_timeout
  <2>1. CASE WQ!post_write
    <3>1. Take("login_timeout")
      BY <1>14 DEF login_timeout
    <3>2. /\ Count(strand, {"login_timeout"}) = Count(strand', {"login_timeout"}) + 1
          /\ Count(strand', {"login_timeout"}) \in Nat
      BY <1>0, <3>1, HandlerTaken DEF Types
    <3>3. Credit >= 1
      BY <1>k, <3>2 DEF Credit
    <3>4. posted < MaxPosts
      BY <3>3, PostAllowed
    <3> QED  BY <1>p, <2>1, <3>4 DEF Goal
  <2>2. CASE UNCHANGED <<closed, state, writeVars>>
    BY <1>s, <2>2 DEF Goal
  <2> QED  BY <1>14, <2>1, <2>2 DEF login_timeout
<1>15. CASE login_timeout_close
  BY <1>15, <1>t, <1>u DEF login_timeout_close, Goal
<1>16. CASE UNCHANGED allVars
  BY <1>16, <1>s DEF allVars, vars, Goal
<1> QED  BY <1>1, <1>12, <1>13, <1>14, <1>15, <1>16 DEF LNext, RunTimer, Goal

(***************************************************************************)
(* The session, with closed_ and state_ written from three threads and     *)
(* with every handler that touches the queue, implements WriteQueue.       *)
(***************************************************************************)
THEOREM WriteQueueRefinedHolds == LSpec => WriteQueueRefined
<1>1. LInit => WQ!Init
  BY DEF LInit, Init
<1>2. SessionInv /\ [LNext]_allVars => [WQ!Next]_(WQ!vars)
  BY QueueStep
<1> QED  BY <1>1, <1>2, SessionInvHolds, PTL DEF LSpec, WriteQueueRefined, WQ!Spec
=============================================================================
