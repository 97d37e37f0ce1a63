--------------------------- MODULE MySqlPoolProofs ---------------------------
(***************************************************************************)
(* For every capacity, any number of clients and any connections: a        *)
(* connection is in one place, a burst leaves no more open than the        *)
(* capacity allows, and the pool implements                                *)
(* ConnectionOwnership.  OneHand is inductive together with the type       *)
(* invariant; the refinement needs it to know that the connection that     *)
(* moves has a single owner before and after the step.                     *)
(***************************************************************************)
EXTENDS MySqlPool, FiniteSetTheorems, TLAPS

\* The connections in the pool after a push.
LEMMA ToSetAppend ==
    ASSUME NEW S, NEW s \in Seq(S), NEW e \in S
    PROVE  /\ Append(s, e) \in Seq(S)
           /\ ToSet(Append(s, e)) = ToSet(s) \cup {e}
           /\ IsInjective(s) /\ e \notin ToSet(s) => IsInjective(Append(s, e))
<1>1. ToSet(Append(s, e)) = ToSet(s) \cup {e}
  <2>1. ASSUME NEW x \in ToSet(Append(s, e)) PROVE x \in ToSet(s) \cup {e}
    BY <2>1 DEF ToSet
  <2>2. ASSUME NEW x \in ToSet(s) \cup {e} PROVE x \in ToSet(Append(s, e))
    <3>1. CASE x \in ToSet(s)
      <4>1. PICK i \in DOMAIN s : x = s[i]
        BY <3>1 DEF ToSet
      <4>2. i \in DOMAIN Append(s, e) /\ Append(s, e)[i] = x
        BY <4>1
      <4> QED BY <4>2 DEF ToSet
    <3>2. CASE x = e
      <4>1. Len(s) + 1 \in DOMAIN Append(s, e) /\ Append(s, e)[Len(s) + 1] = e
        OBVIOUS
      <4> QED BY <3>2, <4>1 DEF ToSet
    <3> QED BY <2>2, <3>1, <3>2
  <2> QED BY <2>1, <2>2
<1>2. ASSUME IsInjective(s), e \notin ToSet(s)
      PROVE  IsInjective(Append(s, e))
  BY <1>2 DEF IsInjective, ToSet
<1> QED BY <1>1, <1>2

\* The connections in the pool after a pop.
LEMMA ToSetTail ==
    ASSUME NEW S, NEW s \in Seq(S), s # <<>>, IsInjective(s)
    PROVE  /\ Head(s) \in S /\ Head(s) \in ToSet(s)
           /\ Tail(s) \in Seq(S)
           /\ ToSet(Tail(s)) = ToSet(s) \ {Head(s)}
           /\ IsInjective(Tail(s))
<1>1. 1 \in DOMAIN s /\ Head(s) = s[1] /\ Head(s) \in S
  OBVIOUS
<1>2. Tail(s) \in Seq(S)
  OBVIOUS
<1>3. ASSUME NEW i \in DOMAIN Tail(s)
      PROVE  i + 1 \in DOMAIN s /\ Tail(s)[i] = s[i + 1] /\ i + 1 # 1
  OBVIOUS
<1>4. ASSUME NEW i \in DOMAIN s, i # 1
      PROVE  i - 1 \in DOMAIN Tail(s) /\ Tail(s)[i - 1] = s[i]
  BY <1>4
<1>5. ToSet(Tail(s)) = ToSet(s) \ {Head(s)}
  <2>1. ASSUME NEW x \in ToSet(Tail(s)) PROVE x \in ToSet(s) \ {Head(s)}
    <3>1. PICK i \in DOMAIN Tail(s) : x = Tail(s)[i]
      BY DEF ToSet
    <3> QED BY <1>1, <1>3, <3>1 DEF ToSet, IsInjective
  <2>2. ASSUME NEW x \in ToSet(s) \ {Head(s)} PROVE x \in ToSet(Tail(s))
    <3>1. PICK i \in DOMAIN s : x = s[i] /\ i # 1
      BY <1>1 DEF ToSet
    <3>2. i - 1 \in DOMAIN Tail(s) /\ Tail(s)[i - 1] = x
      BY <1>4, <3>1
    <3> QED BY <3>2 DEF ToSet
  <2> QED BY <2>1, <2>2
<1>6. IsInjective(Tail(s))
  BY <1>3 DEF IsInjective
<1> QED BY <1>1, <1>2, <1>5, <1>6 DEF ToSet

\* None in an empty pool.
LEMMA ToSetEmpty == ToSet(<<>>) = {} /\ IsInjective(<<>>)
  BY DEF ToSet, IsInjective
-----------------------------------------------------------------------------
(***************************************************************************)
(* The inductive invariant: OneHand, the types it needs, and that a client *)
(* outside "using" has nothing in its hand for acquire to overwrite.       *)
(***************************************************************************)
Places ==
    /\ pool \in Seq(Connections)
    /\ open \subseteq Connections
    /\ held \in [Clients -> MaybeConnection]
    /\ pc \in [Clients -> {"idle", "connecting", "using"}]
    /\ \A t \in Clients : pc[t] # "using" => held[t] = none

Inv == Places /\ OneHand

InHands(h) == {h[t] : t \in Clients} \ {none}

\* What the clients hold once t has let go of its connection.
LEMMA LetGo ==
    ASSUME Inv, NEW t \in Clients, held[t] # none,
           held' = [held EXCEPT ![t] = none]
    PROVE  /\ InHands(held') = InHands(held) \ {held[t]}
           /\ held[t] \notin ToSet(pool) /\ none \notin ToSet(pool)
           /\ \A u \in Clients : u # t => held'[u] = held[u] /\ held[u] # held[t]
<1>1. held'[t] = none
      /\ \A u \in Clients : u # t => held'[u] = held[u] /\ held[u] # held[t]
  BY DEF Inv, Places, OneHand
<1>2. ASSUME NEW x PROVE x \in InHands(held') <=> x \in InHands(held) \ {held[t]}
  BY <1>1 DEF InHands
<1>3. held[t] \notin ToSet(pool)
  BY DEF Inv, OneHand
<1>4. none \notin ToSet(pool)
  BY MySqlPoolConfig DEF Inv, Places, ToSet
<1> QED BY <1>1, <1>2, <1>3, <1>4

\* Nothing is open at the start.
LEMMA InvInit == Init => Inv
<1> SUFFICES ASSUME Init PROVE Inv
  OBVIOUS
<1>1. Places
  BY DEF Init, Places, MaybeConnection
<1>2. OneHand
  BY MySqlPoolConfig, ToSetEmpty DEF Init, OneHand
<1> QED BY <1>1, <1>2 DEF Inv

\* Every step of the pool and of its clients keeps the invariant.
LEMMA InvStep == Inv /\ [Next]_vars => Inv'
<1> SUFFICES ASSUME Inv, [Next]_vars PROVE Inv'
  OBVIOUS
<1> USE DEF Inv, Places, MaybeConnection
<1>1. ASSUME NEW c \in MaybeConnection, init_slot(c)
      PROVE  Inv'
  <2>1. CASE c = none
    BY <1>1, <2>1 DEF init_slot, new_connection, clientVars, OneHand
  <2>2. CASE c # none
    <3>1. c \in Connections /\ c \notin open /\ open' = open \cup {c}
          /\ pool' = Append(pool, c) /\ held' = held /\ pc' = pc
      BY <1>1, <2>2 DEF init_slot, new_connection, clientVars
    <3>2. c \notin ToSet(pool) /\ \A t \in Clients : held[t] # c
      BY <3>1, MySqlPoolConfig DEF OneHand
    <3>3. /\ pool' \in Seq(Connections)
          /\ ToSet(pool') = ToSet(pool) \cup {c}
          /\ IsInjective(pool')
      BY <3>1, <3>2, ToSetAppend DEF OneHand
    <3> QED BY <3>1, <3>2, <3>3 DEF OneHand
  <2> QED BY <2>1, <2>2
<1>2. CASE pool_ready
  BY <1>2 DEF pool_ready, clientVars, OneHand
<1>3. ASSUME NEW t \in Clients, acquire(t)
      PROVE  Inv'
  <2>1. CASE pool = <<>>
    BY <1>3, <2>1 DEF acquire, OneHand
  <2>2. CASE pool # <<>>
    <3> DEFINE c == Head(pool)
    <3>1. /\ held' = [held EXCEPT ![t] = c] /\ held[t] = none
          /\ pc' = [pc EXCEPT ![t] = "using"]
          /\ pool' = Tail(pool) /\ open' = open
      BY <1>3, <2>2 DEF acquire
    <3>2. /\ c \in Connections /\ c \in ToSet(pool)
          /\ pool' \in Seq(Connections)
          /\ ToSet(pool') = ToSet(pool) \ {c}
          /\ IsInjective(pool')
      BY <2>2, <3>1, ToSetTail DEF OneHand
    <3> HIDE DEF c
    <3>3. c # none /\ \A u \in Clients : held[u] # c
      BY <3>2, MySqlPoolConfig DEF OneHand
    <3> QED BY <3>1, <3>2, <3>3 DEF OneHand
  <2> QED BY <2>1, <2>2
<1>4. ASSUME NEW t \in Clients, NEW c \in MaybeConnection,
             acquire_on_demand(t, c)
      PROVE  Inv'
  <2>1. /\ held' = [held EXCEPT ![t] = c] /\ held[t] = none
        /\ pc' = [pc EXCEPT ![t] = "using"]
        /\ pool' = pool
    BY <1>4 DEF acquire_on_demand
  <2>2. CASE c = none
    <3>1. open' = open /\ held' = held
      BY <1>4, <2>1, <2>2 DEF acquire_on_demand, new_connection
    <3> QED BY <2>1, <3>1 DEF OneHand
  <2>3. CASE c # none
    <3>1. c \in Connections /\ c \notin open /\ open' = open \cup {c}
      BY <1>4, <2>3 DEF acquire_on_demand, new_connection
    <3>2. c \notin ToSet(pool) /\ \A u \in Clients : held[u] # c
      BY <2>3, <3>1 DEF OneHand
    <3>3. ToSet(pool') = ToSet(pool) /\ IsInjective(pool')
      BY <2>1 DEF OneHand
    <3> QED BY <2>1, <3>1, <3>2, <3>3 DEF OneHand
  <2> QED BY <2>2, <2>3
<1>5. ASSUME NEW t \in Clients, release(t)
      PROVE  Inv'
  <2>1. /\ held' = [held EXCEPT ![t] = none]
        /\ pc' = [pc EXCEPT ![t] = "idle"]
    BY <1>5 DEF release
  <2>2. CASE held[t] = none
    <3>1. held' = held /\ pool' = pool /\ open' = open
      BY <1>5, <2>1, <2>2 DEF release
    <3> QED BY <2>1, <2>2, <3>1 DEF OneHand
  <2>3. CASE held[t] # none /\ pool' = Append(pool, held[t]) /\ open' = open
    <3>1. held[t] \in Connections /\ held[t] \notin ToSet(pool)
      BY <2>3 DEF OneHand
    <3>2. /\ pool' \in Seq(Connections)
          /\ ToSet(pool') = ToSet(pool) \cup {held[t]}
          /\ IsInjective(pool')
      BY <2>3, <3>1, ToSetAppend DEF OneHand
    <3>3. \A u \in Clients : u # t => held'[u] = held[u] /\ held[u] # held[t]
      BY <2>1, <2>3 DEF OneHand
    <3> QED BY <2>1, <2>3, <3>1, <3>2, <3>3, MySqlPoolConfig DEF OneHand
  <2>4. CASE held[t] # none /\ open' = open \ {held[t]} /\ pool' = pool
    <3>1. /\ InHands(held') = InHands(held) \ {held[t]}
          /\ held[t] \notin ToSet(pool)
      BY <2>1, <2>4, LetGo
    <3>2. open' = ToSet(pool') \cup InHands(held')
      BY <2>4, <3>1 DEF OneHand, InHands
    <3>3. OneHand'
      BY <2>1, <2>4, <3>2, LetGo DEF OneHand, InHands
    <3> QED BY <2>1, <2>4, <3>3
  <2> QED BY <1>5, <2>2, <2>3, <2>4 DEF release
<1>6. ASSUME NEW t \in Clients, destroy(t)
      PROVE  Inv'
  <2>1. /\ held' = [held EXCEPT ![t] = none] /\ held[t] # none
        /\ pc' = [pc EXCEPT ![t] = "idle"]
        /\ open' = open \ {held[t]} /\ pool' = pool
    BY <1>6 DEF destroy
  <2>2. /\ InHands(held') = InHands(held) \ {held[t]}
        /\ held[t] \notin ToSet(pool)
    BY <2>1, LetGo
  <2>3. open' = ToSet(pool') \cup InHands(held')
    BY <2>1, <2>2 DEF OneHand, InHands
  <2>4. OneHand'
    BY <2>1, <2>3, LetGo DEF OneHand, InHands
  <2> QED BY <2>1, <2>4
<1>7. CASE UNCHANGED vars
  BY <1>7 DEF vars, clientVars, OneHand
<1> QED BY <1>1, <1>2, <1>3, <1>4, <1>5, <1>6, <1>7 DEF Next

\* No connection is ever in two hands, and none is lost sight of.
THEOREM InOneHand == Spec => []OneHand
<1>1. Inv => OneHand
  BY DEF Inv
<1> QED BY <1>1, InvInit, InvStep, PTL DEF Spec
-----------------------------------------------------------------------------
OwnerIn(P, h, c) ==
    IF c \in P THEN main
    ELSE IF \E t \in Clients : h[t] = c
           THEN CHOOSE t \in Clients : h[t] = c
           ELSE none

\* If no connection is in two places, its owner is where it is.
LEMMA OwnerIsPlace ==
    ASSUME NEW P, NEW h, NEW c,
           \A t, u \in Clients : h[t] = c /\ h[u] = c => t = u,
           \A t \in Clients : h[t] = c => c \notin P
    PROVE  /\ c \in P => OwnerIn(P, h, c) = main
           /\ \A t \in Clients : h[t] = c => OwnerIn(P, h, c) = t
           /\ c \notin P /\ (\A t \in Clients : h[t] # c)
                => OwnerIn(P, h, c) = none
<1>1. ASSUME NEW t \in Clients, h[t] = c PROVE OwnerIn(P, h, c) = t
  <2>1. (CHOOSE u \in Clients : h[u] = c) = t
    BY <1>1
  <2> QED BY <1>1, <2>1 DEF OwnerIn
<1> QED BY <1>1 DEF OwnerIn

\* The owner of a connection under the mapping.
LEMMA OwnerNow ==
    ASSUME Inv, NEW c \in Connections
    PROVE  /\ ownerOf(c) = OwnerIn(ToSet(pool), held, c)
           /\ c \in ToSet(pool) => ownerOf(c) = main
           /\ \A t \in Clients : held[t] = c => ownerOf(c) = t
           /\ c \notin open => ownerOf(c) = none
<1>1. ownerOf(c) = OwnerIn(ToSet(pool), held, c)
  BY DEF ownerOf, OwnerIn
<1>2. /\ \A t, u \in Clients : held[t] = c /\ held[u] = c => t = u
      /\ \A t \in Clients : held[t] = c => c \notin ToSet(pool)
  BY MySqlPoolConfig DEF Inv, OneHand
<1>3. c \notin open => c \notin ToSet(pool) /\ \A t \in Clients : held[t] # c
  BY MySqlPoolConfig DEF Inv, OneHand
<1> QED BY <1>1, <1>2, <1>3, OwnerIsPlace

\* The owner of a connection under the mapping, after a step.
LEMMA OwnerNext ==
    ASSUME Inv', NEW c \in Connections
    PROVE  /\ ownerOf(c)' = OwnerIn(ToSet(pool'), held', c)
           /\ c \in ToSet(pool') => ownerOf(c)' = main
           /\ \A t \in Clients : held'[t] = c => ownerOf(c)' = t
           /\ c \notin open' => ownerOf(c)' = none
<1>1. ownerOf(c)' = OwnerIn(ToSet(pool'), held', c)
  BY DEF ownerOf, OwnerIn
<1>2. /\ \A t, u \in Clients : held'[t] = c /\ held'[u] = c => t = u
      /\ \A t \in Clients : held'[t] = c => c \notin ToSet(pool')
  BY MySqlPoolConfig DEF Inv, OneHand
<1>3. c \notin open' => c \notin ToSet(pool') /\ \A t \in Clients : held'[t] # c
  BY MySqlPoolConfig DEF Inv, OneHand
<1> QED BY <1>1, <1>2, <1>3, OwnerIsPlace

\* One connection moves from owner a to owner b.
LEMMA OneMoves ==
    ASSUME NEW c \in Connections, NEW b, NEW a,
           ownerOf(c) = a, ownerOf(c)' = b,
           \A d \in Connections : d # c => ownerOf(d)' = ownerOf(d)
    PROVE  Ownership!Move(c, a, b)
  BY DEF Ownership!Move

(***************************************************************************)
(* The pool, with its lock, its constructor and log-ons that fail,         *)
(* implements ConnectionOwnership.                                         *)
(***************************************************************************)
THEOREM PoolRefines == Spec => Owned
<1>1. Init => Ownership!Init
  <2> SUFFICES ASSUME Init PROVE Ownership!Init
    OBVIOUS
  <2>1. \A c \in Connections : ownerOf(c) = none
    BY InvInit, OwnerNow DEF Init
  <2> QED BY <2>1 DEF Ownership!Init
<1>2. Inv /\ Inv' /\ [Next]_vars
        => [Ownership!Next]_([c \in Connections |-> ownerOf(c)])
  <2> SUFFICES ASSUME Inv, Inv', [Next]_vars
               PROVE  \/ Ownership!Next
                      \/ \A c \in Connections : ownerOf(c)' = ownerOf(c)
    OBVIOUS
  <2>s. ASSUME pool' = pool, held' = held
        PROVE  \A c \in Connections : ownerOf(c)' = ownerOf(c)
    BY <2>s, OwnerNow, OwnerNext
  <2>1. ASSUME NEW c \in MaybeConnection, init_slot(c), c # none
        PROVE  Ownership!Next
    <3>1. /\ c \in Connections /\ c \notin open
          /\ pool' = Append(pool, c) /\ held' = held
      BY <2>1 DEF init_slot, new_connection, clientVars, MaybeConnection
    <3>2. ToSet(pool') = ToSet(pool) \cup {c}
      BY <3>1, ToSetAppend DEF Inv, Places
    <3>3. \A d \in Connections : d # c => ownerOf(d)' = ownerOf(d)
      BY <3>1, <3>2, OwnerNow, OwnerNext DEF OwnerIn
    <3>4. ownerOf(c) = none /\ ownerOf(c)' = main
      BY <3>1, <3>2, OwnerNow, OwnerNext
    <3>5. Ownership!Move(c, none, main)
      BY <3>1, <3>3, <3>4, OneMoves
    <3> QED BY <3>1, <3>5 DEF Ownership!Next
  <2>2. ASSUME NEW t \in Clients, acquire(t), pool # <<>>
        PROVE  Ownership!Next
    <3>0. PICK c \in Connections : c = Head(pool)
      BY <2>2, ToSetTail DEF Inv, Places, OneHand
    <3>1. /\ held' = [held EXCEPT ![t] = c] /\ held[t] = none
          /\ pool' = Tail(pool)
      BY <2>2, <3>0 DEF acquire, Inv, Places
    <3>2. /\ c \in Connections /\ c \in ToSet(pool)
          /\ ToSet(pool') = ToSet(pool) \ {c}
      BY <2>2, <3>0, <3>1, ToSetTail DEF Inv, Places, OneHand
    <3>3. \A u \in Clients : u # t => held'[u] = held[u]
      BY <3>1 DEF Inv, Places
    <3>4. held'[t] = c
      BY <3>1 DEF Inv, Places
    <3>5. ASSUME NEW d \in Connections, d # c
          PROVE  ownerOf(d)' = ownerOf(d)
      <4>1. d # none
        BY MySqlPoolConfig
      <4>2. CASE d \in ToSet(pool)
        BY <3>2, <3>5, <4>2, OwnerNow, OwnerNext
      <4>3. CASE \E u \in Clients : held[u] = d
        BY <3>1, <3>3, <4>1, <4>3, OwnerNow, OwnerNext
      <4>4. CASE d \notin ToSet(pool) /\ \A u \in Clients : held[u] # d
        <5>1. d \notin ToSet(pool') /\ \A u \in Clients : held'[u] # d
          BY <3>2, <3>3, <3>4, <3>5, <4>4
        <5> QED BY <4>4, <5>1, OwnerNow, OwnerNext DEF OwnerIn
      <4> QED BY <4>2, <4>3, <4>4
    <3>6. ownerOf(c) = main /\ ownerOf(c)' = t
      BY <3>2, <3>4, OwnerNow, OwnerNext
    <3>7. Ownership!Move(c, main, t)
      BY <3>2, <3>5, <3>6, OneMoves
    <3> QED BY <3>2, <3>7 DEF Ownership!Next
  <2>3. ASSUME NEW t \in Clients, NEW c \in MaybeConnection,
               acquire_on_demand(t, c), c # none
        PROVE  Ownership!Next
    <3>1. /\ c \in Connections /\ c \notin open
          /\ held' = [held EXCEPT ![t] = c] /\ held[t] = none
          /\ pool' = pool
      BY <2>3 DEF acquire_on_demand, new_connection, MaybeConnection, Inv, Places
    <3>2. held'[t] = c /\ \A u \in Clients : u # t => held'[u] = held[u]
      BY <3>1 DEF Inv, Places
    <3>3. ASSUME NEW d \in Connections, d # c
          PROVE  ownerOf(d)' = ownerOf(d)
      <4>1. d # none
        BY MySqlPoolConfig
      <4>2. CASE d \in ToSet(pool)
        BY <3>1, <4>2, OwnerNow, OwnerNext
      <4>3. CASE \E u \in Clients : held[u] = d
        BY <3>1, <3>2, <4>1, <4>3, OwnerNow, OwnerNext
      <4>4. CASE d \notin ToSet(pool) /\ \A u \in Clients : held[u] # d
        <5>1. d \notin ToSet(pool') /\ \A u \in Clients : held'[u] # d
          BY <3>1, <3>2, <3>3, <4>4
        <5> QED BY <4>4, <5>1, OwnerNow, OwnerNext DEF OwnerIn
      <4> QED BY <4>2, <4>3, <4>4
    <3>4. ownerOf(c) = none /\ ownerOf(c)' = t
      BY <3>1, <3>2, OwnerNow, OwnerNext
    <3>5. Ownership!Move(c, none, t)
      BY <3>1, <3>3, <3>4, OneMoves
    <3> QED BY <3>1, <3>5 DEF Ownership!Next
  <2>4. ASSUME NEW t \in Clients, release(t) \/ destroy(t), held[t] # none
        PROVE  Ownership!Next
    <3>0. PICK c \in Connections : c = held[t]
      BY <2>4 DEF Inv, Places, MaybeConnection
    <3>1. /\ c \in Connections /\ c # none
          /\ held' = [held EXCEPT ![t] = none]
      BY <2>4, <3>0 DEF release, destroy, Inv, Places
    <3>2. /\ held'[t] = none
          /\ \A u \in Clients : u # t => held'[u] = held[u]
      BY <3>1 DEF Inv, Places
    <3>3. ToSet(pool') \ {c} = ToSet(pool) \ {c}
      <4>1. CASE pool' = Append(pool, c)
        BY <3>1, <4>1, ToSetAppend DEF Inv, Places
      <4> QED BY <2>4, <3>0, <4>1 DEF release, destroy
    <3>4. c \in ToSet(pool') \/ c \notin open'
      <4>1. CASE pool' = Append(pool, c)
        BY <3>1, <4>1, ToSetAppend DEF Inv, Places
      <4> QED BY <2>4, <3>0, <4>1 DEF release, destroy
    <3>5. ownerOf(c) = t
      BY <3>0, OwnerNow
    <3>6. ASSUME NEW d \in Connections, d # c
          PROVE  ownerOf(d)' = ownerOf(d)
      <4>1. d # none
        BY MySqlPoolConfig
      <4>2. CASE d \in ToSet(pool)
        BY <3>3, <3>6, <4>2, OwnerNow, OwnerNext
      <4>3. CASE \E u \in Clients : held[u] = d
        BY <3>0, <3>2, <3>6, <4>1, <4>3, OwnerNow, OwnerNext
      <4>4. CASE d \notin ToSet(pool) /\ \A u \in Clients : held[u] # d
        <5>1. d \notin ToSet(pool') /\ \A u \in Clients : held'[u] # d
          BY <3>2, <3>3, <3>6, <4>1, <4>4
        <5> QED BY <4>4, <5>1, OwnerNow, OwnerNext DEF OwnerIn
      <4> QED BY <4>2, <4>3, <4>4
    <3>7. ownerOf(c)' = main \/ ownerOf(c)' = none
      BY <3>1, <3>4, OwnerNext
    <3>8. Ownership!Move(c, t, main) \/ Ownership!Move(c, t, none)
      BY <3>1, <3>5, <3>6, <3>7, OneMoves
    <3> QED BY <3>1, <3>8 DEF Ownership!Next
  <2>5. ASSUME NEW c \in MaybeConnection, init_slot(c), c = none
        PROVE  pool' = pool /\ held' = held
    BY <2>5 DEF init_slot, clientVars
  <2>6. ASSUME pool_ready \/ UNCHANGED vars
        PROVE  pool' = pool /\ held' = held
    BY <2>6 DEF pool_ready, vars, clientVars
  <2>7. ASSUME NEW t \in Clients, acquire(t), pool = <<>>
        PROVE  pool' = pool /\ held' = held
    BY <2>7 DEF acquire
  <2>8. ASSUME NEW t \in Clients, acquire_on_demand(t, none)
        PROVE  pool' = pool /\ held' = held
    BY <2>8 DEF acquire_on_demand, Inv, Places
  <2>9. ASSUME NEW t \in Clients, release(t) \/ destroy(t), held[t] = none
        PROVE  pool' = pool /\ held' = held
    BY <2>9 DEF release, destroy, Inv, Places
  <2> QED BY <2>s, <2>1, <2>2, <2>3, <2>4, <2>5, <2>6, <2>7, <2>8, <2>9
          DEF Next
<1> QED BY <1>1, <1>2, InvInit, InvStep, PTL DEF Spec, Owned, Ownership!Spec
-----------------------------------------------------------------------------
(***************************************************************************)
(* The counters of the constructor and the size of the pool.  While the    *)
(* constructor runs, the pool holds exactly the connections it counted:    *)
(* that is why a pool that is complete is not above its capacity.          *)
(***************************************************************************)
Counts ==
    /\ mtx \in {main, none}
    /\ ok \in Nat /\ fail \in Nat /\ ok + fail <= Capacity
    /\ mtx = main => Len(pool) = ok
    /\ Len(pool) <= Capacity

\* Every step of the pool keeps the counts of the constructor.
LEMMA CountsStep == Inv /\ Counts /\ [Next]_vars => Counts'
<1> SUFFICES ASSUME Inv, Counts, [Next]_vars PROVE Counts'
  OBVIOUS
<1> USE MySqlPoolConfig DEF Counts
<1>0. pool \in Seq(Connections) /\ Len(pool) \in Nat
  BY DEF Inv, Places
<1>1. ASSUME NEW c \in MaybeConnection, init_slot(c) PROVE Counts'
  <2>1. mtx' = mtx /\ mtx = main /\ ok + fail < Capacity
    BY <1>1 DEF init_slot, SlotsLeft
  <2>2. CASE c = none
    BY <1>0, <1>1, <2>1, <2>2 DEF init_slot
  <2>3. CASE c # none
    <3>1. pool' = Append(pool, c) /\ ok' = ok + 1 /\ fail' = fail /\ c \in Connections
      BY <1>1, <2>3 DEF init_slot, MaybeConnection
    <3>2. Len(pool') = Len(pool) + 1
      BY <1>0, <3>1
    <3> QED  BY <1>0, <2>1, <3>1, <3>2
  <2> QED  BY <2>2, <2>3
<1>2. CASE pool_ready
  BY <1>2 DEF pool_ready, ctorVars
<1>3. ASSUME NEW t \in Clients, acquire(t) PROVE Counts'
  <2>1. mtx = none /\ mtx' = mtx /\ ok' = ok /\ fail' = fail
    BY <1>3 DEF acquire, LockFree, ctorVars
  <2>2. pool' = pool \/ (pool # <<>> /\ pool' = Tail(pool))
    BY <1>3 DEF acquire
  <2>3. Len(pool') <= Capacity
    BY <1>0, <2>2
  <2> QED  BY <2>1, <2>3
<1>4. ASSUME NEW t \in Clients, NEW c \in MaybeConnection, acquire_on_demand(t, c)
      PROVE  Counts'
  BY <1>4 DEF acquire_on_demand, ctorVars
<1>5. ASSUME NEW t \in Clients, release(t) PROVE Counts'
  <2>1. mtx' = mtx /\ ok' = ok /\ fail' = fail
    BY <1>5 DEF release, ctorVars
  <2>2. \/ pool' = pool
        \/ mtx = none /\ Len(pool) < Capacity /\ pool' = Append(pool, held[t])
    BY <1>5 DEF release, LockFree, HasRoom
  <2>3. CASE pool' = pool
    BY <2>1, <2>3
  <2>4. CASE mtx = none /\ Len(pool) < Capacity /\ pool' = Append(pool, held[t])
    <3>1. Len(pool') = Len(pool) + 1
      BY <1>0, <2>4
    <3> QED  BY <1>0, <2>1, <2>4, <3>1
  <2> QED  BY <2>2, <2>3, <2>4
<1>6. ASSUME NEW t \in Clients, destroy(t) PROVE Counts'
  BY <1>6 DEF destroy, ctorVars
<1>7. CASE UNCHANGED vars
  BY <1>7 DEF vars, ctorVars
<1> QED  BY <1>1, <1>2, <1>3, <1>4, <1>5, <1>6, <1>7 DEF Next

\* The counts hold together with the invariant of the pool.
LEMMA CountsHolds == Spec => [](Inv /\ Counts)
<1>1. Init => Counts
  BY MySqlPoolConfig DEF Init, Counts
<1> QED  BY <1>1, InvInit, InvStep, CountsStep, PTL DEF Spec

(***************************************************************************)
(* Type correctness: the constructor never opens more than pool_size       *)
(* connections, and nothing but connections enters the pool.               *)
(***************************************************************************)
THEOREM TypeCorrect == Spec => []TypeOK
<1>1. Inv /\ Counts => TypeOK
  BY DEF Inv, Places, Counts, TypeOK
<1> QED  BY <1>1, CountsHolds, PTL

\* A sequence has at most as many elements as places.
LEMMA ToSetCardinality ==
    ASSUME NEW S, NEW s \in Seq(S)
    PROVE  IsFiniteSet(ToSet(s)) /\ Cardinality(ToSet(s)) <= Len(s)
<1>1. s \in Surjection(1..Len(s), ToSet(s))
  BY DEF ToSet, Surjection
<1>2. Len(s) \in Nat /\ IsFiniteSet(1..Len(s)) /\ Cardinality(1..Len(s)) = Len(s)
  <2>1. Len(s) \in Nat
    OBVIOUS
  <2>2. /\ IsFiniteSet(1..Len(s))
        /\ Cardinality(1..Len(s)) = IF 1 > Len(s) THEN 0 ELSE Len(s) - 1 + 1
    BY <2>1, FS_Interval
  <2> QED  BY <2>1, <2>2
<1> QED  BY <1>1, <1>2, FS_Surjection

\* The clients at work are at least as many as the connections in hands.
LEMMA InHandsCardinality ==
    ASSUME Inv
    PROVE  LET using == {t \in Clients : pc[t] = "using"}
           IN  /\ IsFiniteSet(using) /\ IsFiniteSet(InHands(held))
               /\ Cardinality(InHands(held)) <= Cardinality(using)
<1> DEFINE using == {t \in Clients : pc[t] = "using"}
           busy == {t \in Clients : held[t] # none}
           f == [t \in busy |-> held[t]]
<1>1. IsFiniteSet(using) /\ busy \subseteq using
  BY MySqlPoolConfig, FS_Subset DEF Inv, Places
<1>2. IsFiniteSet(busy) /\ Cardinality(busy) <= Cardinality(using)
  BY <1>1, FS_Subset
<1>3. f \in Surjection(busy, InHands(held))
  BY DEF Surjection, InHands
<1> HIDE DEF f, busy, using
<1>4. IsFiniteSet(InHands(held)) /\ Cardinality(InHands(held)) <= Cardinality(busy)
  BY <1>2, <1>3, FS_Surjection
<1>5. /\ Cardinality(InHands(held)) \in Nat /\ Cardinality(busy) \in Nat
      /\ Cardinality(using) \in Nat
  BY <1>1, <1>2, <1>4, FS_CardinalityType
<1>6. /\ IsFiniteSet(using) /\ IsFiniteSet(InHands(held))
      /\ Cardinality(InHands(held)) <= Cardinality(using)
  BY <1>1, <1>2, <1>4, <1>5
<1> QED  BY <1>6 DEF using

(***************************************************************************)
(* A burst opens at most one connection per client at work beyond the      *)
(* capacity, and release has closed the surplus when it is over.           *)
(***************************************************************************)
THEOREM BurstSubsidesHolds == Spec => []BurstSubsides
<1>1. Inv /\ Counts => BurstSubsides
  <2> SUFFICES ASSUME Inv, Counts PROVE BurstSubsides
    OBVIOUS
  <2> DEFINE using == {t \in Clients : pc[t] = "using"}
             P == ToSet(pool)
             H == InHands(held)
  <2>1. IsFiniteSet(P) /\ Cardinality(P) <= Len(pool)
    BY ToSetCardinality DEF Inv, Places
  <2>2. IsFiniteSet(using) /\ IsFiniteSet(H) /\ Cardinality(H) <= Cardinality(using)
    BY InHandsCardinality
  <2>3. open = P \cup H
    BY DEF Inv, OneHand, InHands
  <2> HIDE DEF using, P, H
  <2>4. /\ Cardinality(open) = Cardinality(P) + Cardinality(H) - Cardinality(P \cap H)
        /\ IsFiniteSet(P \cap H)
    BY <2>1, <2>2, <2>3, FS_Union, FS_Intersection
  <2>5. /\ Cardinality(P) \in Nat /\ Cardinality(H) \in Nat
        /\ Cardinality(P \cap H) \in Nat /\ Cardinality(using) \in Nat
    BY <2>1, <2>2, <2>4, FS_CardinalityType
  <2>6. Len(pool) \in Nat /\ Len(pool) <= Capacity /\ Capacity \in Nat
    BY MySqlPoolConfig DEF Counts, Inv, Places
  <2>7. Cardinality(open) <= Capacity + Cardinality(using)
    BY <2>1, <2>2, <2>4, <2>5, <2>6
  <2> QED  BY <2>7 DEF BurstSubsides, using
<1> QED  BY <1>1, CountsHolds, PTL
=============================================================================
