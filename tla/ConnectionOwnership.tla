------------------------ MODULE ConnectionOwnership ------------------------
(***************************************************************************)
(* What a connection pool promises: every open connection has one owner,   *)
(* the pool or one client, and moves from one to the other; a connection   *)
(* is closed only by the client that owns it.                              *)
(***************************************************************************)
CONSTANTS Connections, Clients, pool, nobody

VARIABLE owner  \* nobody: the connection is not open

Init == owner = [c \in Connections |-> nobody]

Move(c, from, to) == owner[c] = from /\ owner' = [owner EXCEPT ![c] = to]

Next ==
    \E c \in Connections :
        \/ \E o \in Clients \cup {pool} : Move(c, nobody, o)
        \/ \E t \in Clients : Move(c, pool, t)
        \/ \E t \in Clients : Move(c, t, pool)
        \/ \E t \in Clients : Move(c, t, nobody)

Spec == Init /\ [][Next]_owner
=============================================================================
