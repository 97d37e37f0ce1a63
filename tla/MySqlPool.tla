----------------------------- MODULE MySqlPool -----------------------------
(***************************************************************************)
(* MySqlPool: the constructor as main() runs it, then acquire and release  *)
(* on any number of threads.  Nothing in the program calls the last two    *)
(* yet; the clients here are the threads of a handler that borrows a       *)
(* connection, and gives it back or, leaving by an exception, destroys its *)
(* unique_ptr.  The database may refuse any connection.                    *)
(***************************************************************************)
EXTENDS Naturals, SequencesExt

CONSTANTS Clients,      \* threads that use the pool
          Connections,  \* mysqlx::Session objects that may exist at a time
          Capacity,     \* pool_size, capacity_
          main,         \* the thread that constructs the pool
          none          \* no connection (nullptr), no thread

ASSUME MySqlPoolConfig ==
    /\ Capacity \in Nat
    /\ IsFiniteSet(Clients)
    /\ none \notin Connections
    /\ none \notin Clients
    /\ main \notin Clients
    /\ main # none

VARIABLES pool,       \* pool_
          mtx,        \* owner of mtx_
          open,       \* connections open at the database
          pc, held,   \* of each client; held = none is nullptr
          ok, fail    \* counters of the constructor

clientVars == <<pc, held>>
ctorVars   == <<ok, fail>>
vars == <<pool, mtx, open, clientVars, ctorVars>>

Init ==
    /\ pool = <<>>
    /\ mtx = main
    /\ open = {}
    /\ pc = [t \in Clients |-> "idle"]
    /\ held = [t \in Clients |-> none]
    /\ ok = 0
    /\ fail = 0

\* Mutant of LockFree: acquire keeps the lock while it makes a connection.
LockFree_not_connecting == mtx = none /\ \A t \in Clients : pc[t] # "connecting"

LockFree == mtx = none
-----------------------------------------------------------------------------
\* new_connection: log on, and USE the schema; c = none if either throws.
new_connection(c) ==
    /\ c \in (Connections \ open) \cup {none}
    /\ open' = open \cup ({c} \ {none})

\* Mutant of SlotsLeft: one turn of the loop too many.
SlotsLeft_one_more == ok + fail <= Capacity

SlotsLeft == ok + fail < Capacity

\* One slot of the constructor's loop.
init_slot(c) ==
    /\ mtx = main
    /\ SlotsLeft
    /\ new_connection(c)
    /\ IF c = none THEN pool' = pool /\ fail' = fail + 1 /\ UNCHANGED ok
                   ELSE pool' = Append(pool, c) /\ ok' = ok + 1 /\ UNCHANGED fail
    /\ UNCHANGED <<mtx, clientVars>>

\* The constructor returns, whatever the number of connections made.
pool_ready ==
    /\ mtx = main
    /\ ~SlotsLeft
    /\ mtx' = none
    /\ UNCHANGED <<pool, open, clientVars, ctorVars>>

\* acquire: the critical section.
acquire(t) ==
    /\ pc[t] = "idle"
    /\ LockFree
    /\ IF pool = <<>>
         THEN /\ pc' = [pc EXCEPT ![t] = "connecting"]
              /\ UNCHANGED <<pool, held>>
         ELSE /\ held' = [held EXCEPT ![t] = Head(pool)]
              /\ pool' = Tail(pool)
              /\ pc' = [pc EXCEPT ![t] = "using"]
    /\ UNCHANGED <<mtx, open, ctorVars>>

\* acquire: the pool was empty.  If this fails the caller gets nullptr.
acquire_on_demand(t, c) ==
    /\ pc[t] = "connecting"
    /\ new_connection(c)
    /\ held' = [held EXCEPT ![t] = c]
    /\ pc' = [pc EXCEPT ![t] = "using"]
    /\ UNCHANGED <<pool, mtx, ctorVars>>

\* Mutant of HasRoom: the pool takes whatever it is given.
HasRoom_unlimited == TRUE

HasRoom == Len(pool) < Capacity

\* Mutant of release: the connection also stays with the caller.
release_keeps(t) ==
    /\ pc[t] = "using"
    /\ held[t] # none
    /\ LockFree
    /\ HasRoom
    /\ pool' = Append(pool, held[t])
    /\ pc' = [pc EXCEPT ![t] = "idle"]
    /\ UNCHANGED <<mtx, open, held, ctorVars>>

(***************************************************************************)
(* release, which nullptr leaves before the lock.  A connection that finds *)
(* the pool full is closed, by the destructor of the argument.             *)
(***************************************************************************)
release(t) ==
    /\ pc[t] = "using"
    /\ \/ held[t] = none /\ UNCHANGED <<pool, open>>
       \/ held[t] # none /\ LockFree /\ HasRoom
             /\ pool' = Append(pool, held[t]) /\ UNCHANGED open
       \/ held[t] # none /\ LockFree /\ ~HasRoom
             /\ open' = open \ {held[t]} /\ UNCHANGED pool
    /\ held' = [held EXCEPT ![t] = none]
    /\ pc' = [pc EXCEPT ![t] = "idle"]
    /\ UNCHANGED <<mtx, ctorVars>>

\* The client loses its connection without release.
destroy(t) ==
    /\ pc[t] = "using"
    /\ held[t] # none
    /\ open' = open \ {held[t]}
    /\ held' = [held EXCEPT ![t] = none]
    /\ pc' = [pc EXCEPT ![t] = "idle"]
    /\ UNCHANGED <<pool, mtx, ctorVars>>
-----------------------------------------------------------------------------
MaybeConnection == Connections \cup {none}

Next ==
    \/ \E c \in MaybeConnection : init_slot(c)
    \/ pool_ready
    \/ \E t \in Clients : acquire(t)
    \/ \E t \in Clients, c \in MaybeConnection : acquire_on_demand(t, c)
    \/ \E t \in Clients : release(t)
    \/ \E t \in Clients : destroy(t)

Spec == Init /\ [][Next]_vars

(***************************************************************************)
(* A client that wants to give its connection back keeps trying.  Nothing  *)
(* is assumed of new_connection, which may hang on the network for ever.   *)
(* The lock is a std::mutex, which may pass a waiter over: SF.             *)
(***************************************************************************)
FairSpec == Spec /\ \A t \in Clients : SF_vars(release(t))
-----------------------------------------------------------------------------
TypeOK ==
    /\ pool \in Seq(Connections)
    /\ mtx \in Clients \cup {main, none}
    /\ open \subseteq Connections
    /\ pc \in [Clients -> {"idle", "connecting", "using"}]
    /\ held \in [Clients -> MaybeConnection]
    /\ ok \in Nat /\ fail \in Nat /\ ok + fail <= Capacity

(***************************************************************************)
(* A connection in the pool or in the hands of a client is there once, and *)
(* nowhere else: two threads never talk over the same X DevAPI session.    *)
(* And no open connection is lost sight of: what is open is in one of      *)
(* those places.                                                           *)
(***************************************************************************)
OneHand ==
    /\ IsInjective(pool)
    /\ \A t \in Clients : held[t] \notin ToSet(pool)
    /\ \A t, u \in Clients : held[t] = held[u] /\ held[t] # none => t = u
    /\ open = ToSet(pool) \cup ({held[t] : t \in Clients} \ {none})

(***************************************************************************)
(* A burst opens more connections than the pool holds, one per client at   *)
(* most beyond the idle ones, and when it is over release has closed the   *)
(* surplus: with no client at work at most Capacity are open.              *)
(***************************************************************************)
BurstSubsides ==
    Cardinality(open) <=
        Capacity + Cardinality({t \in Clients : pc[t] = "using"})

(***************************************************************************)
(* The moves of the connections are those of ConnectionOwnership.          *)
(***************************************************************************)
ownerOf(c) ==
    IF c \in ToSet(pool) THEN main
    ELSE IF \E t \in Clients : held[t] = c
           THEN CHOOSE t \in Clients : held[t] = c
           ELSE none

Ownership == INSTANCE ConnectionOwnership
    WITH pool <- main, nobody <- none,
         owner <- [c \in Connections |-> ownerOf(c)]

Owned == Ownership!Spec

(***************************************************************************)
(* No client waits behind another's log-on: acquire makes the connection   *)
(* outside the lock, so a connection in use is given back even if every    *)
(* new_connection hangs.                                                   *)
(***************************************************************************)
GivesBack == \A t \in Clients : pc[t] = "using" ~> pc[t] = "idle"
=============================================================================
