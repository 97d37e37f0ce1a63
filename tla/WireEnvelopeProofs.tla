------------------------- MODULE WireEnvelopeProofs -------------------------
(***************************************************************************)
(* Ownership of the members of Envelopes, for any number of Envelopes,     *)
(* objects, arenas and member types.  The accessors are put together from  *)
(* a few operators on the memory m; Owned is stated for any m, so that     *)
(* each operator gets one lemma and an action is a chain of them.          *)
(***************************************************************************)
EXTENDS WireEnvelope, FiniteSetTheorems, TLAPS

\* The types of the memory.
Memory == [case    : [Envelopes -> Members \cup {none}],
           payload : [Envelopes -> Objects \cup {none}],
           place   : [Objects -> Arenas \cup {heap, none}],
           kind    : [Objects -> Members \cup {none}]]

\* Envelope e has object o as its member.
Has(m, e, o) == m.case[e] # none /\ m.payload[e] = o

\* The member of e exists, has the type that e reports and lives as long as
\* e, with A the arenas of the Envelopes.
MembersGood(m, A) ==
    \A e \in Envelopes :
        m.case[e] # none =>
            /\ A[e] # none
            /\ m.payload[e] \in Objects
            /\ m.kind[m.payload[e]] = m.case[e]
            /\ m.place[m.payload[e]] = A[e]

\* No two Envelopes have the same member.
MembersApart(m) ==
    \A e, f \in Envelopes :
        m.case[e] # none /\ m.case[f] # none /\ m.payload[e] = m.payload[f] => e = f

\* The objects H that the caller owns are on the heap and the objects L that
\* it may give back are in arenas; no Envelope has one of them.
CallersGood(m, H, L) ==
    /\ H \subseteq Objects /\ L \subseteq Objects
    /\ \A o \in H : m.place[o] = heap
    /\ \A o \in L : m.place[o] \in Arenas
    /\ \A o \in H \cup L : m.kind[o] # none /\ \A e \in Envelopes : ~Has(m, e, o)

\* No object on the heap is without an owner.
NoLeak(m, H) ==
    \A o \in Objects : m.place[o] = heap => o \in H \/ \E e \in Envelopes : Has(m, e, o)

\* All of it, for memory m, arenas A and the objects H and L of the caller.
Owned(m, A, H, L) ==
    m \in Memory /\ MembersGood(m, A) /\ MembersApart(m) /\ CallersGood(m, H, L) /\ NoLeak(m, H)

\* The inductive invariant.
EnvelopeInv ==
    /\ arena \in [Envelopes -> Arenas \cup {heap, none}]
    /\ Owned(mem, arena, held, lent)
-----------------------------------------------------------------------------
\* The constants are told apart.
LEMMA Names ==
    /\ heap # none /\ heap \notin Arenas /\ none \notin Arenas
    /\ none \notin Objects /\ none \notin Members /\ none \notin Envelopes
BY WireEnvelopeConfig

\* An object that does not exist yet.
LEMMA FreshIsFree ==
    ASSUME NEW m, Free(m) # {}
    PROVE  Fresh(m) \in Objects /\ m.place[Fresh(m)] = none
<1>1. Fresh(m) \in Free(m)
  BY DEF Fresh
<1> QED  BY <1>1 DEF Free

\* What the operators on the memory change.
LEMMA SetFields ==
    ASSUME NEW m \in Memory, NEW e \in Envelopes, NEW k \in Members \cup {none},
           NEW o \in Objects \cup {none}
    PROVE  LET n == Set(m, e, k, o) IN
           /\ n \in Memory /\ n.place = m.place /\ n.kind = m.kind
           /\ n.case[e] = k /\ n.payload[e] = o
           /\ \A f \in Envelopes \ {e} : n.case[f] = m.case[f] /\ n.payload[f] = m.payload[f]
BY DEF Set, Memory

\* A new object.
LEMMA NewFields ==
    ASSUME NEW m \in Memory, Free(m) # {}, NEW k \in Members, NEW a \in Arenas \cup {heap}
    PROVE  LET n == New(m, k, a) IN
           /\ n \in Memory /\ n.case = m.case /\ n.payload = m.payload
           /\ n.place[Fresh(m)] = a /\ n.kind[Fresh(m)] = k
           /\ \A o \in Objects \ {Fresh(m)} : n.place[o] = m.place[o] /\ n.kind[o] = m.kind[o]
BY FreshIsFree DEF New, Memory

\* One object less.
LEMMA DeleteFields ==
    ASSUME NEW m \in Memory, NEW o \in Objects
    PROVE  LET n == Delete(m, o) IN
           /\ n \in Memory /\ n.case = m.case /\ n.payload = m.payload
           /\ n.place[o] = none /\ n.kind[o] = none
           /\ \A x \in Objects \ {o} : n.place[x] = m.place[x] /\ n.kind[x] = m.kind[x]
BY DEF Delete, Memory

\* clear_payload: e has no member any more, and nobody else notices.
LEMMA ClearOwned ==
    ASSUME NEW m, NEW e \in Envelopes, NEW H, NEW L, Owned(m, arena, H, L)
    PROVE  LET n == ClearPayload(m, e) IN
           /\ Owned(n, arena, H, L) /\ n.case[e] = none /\ Free(m) \subseteq Free(n)
           /\ \A f \in Envelopes \ {e} : n.case[f] = m.case[f]
           /\ \A o \in H \cup L : n.kind[o] = m.kind[o] /\ n.place[o] = m.place[o]
<1> DEFINE n == ClearPayload(m, e)
           c == [m EXCEPT !.case[e] = none]
<1>0. m \in Memory /\ MembersGood(m, arena) /\ MembersApart(m) /\ CallersGood(m, H, L) /\ NoLeak(m, H)
  BY DEF Owned
<1>1. /\ c \in Memory /\ c.payload = m.payload /\ c.place = m.place /\ c.kind = m.kind
      /\ c.case[e] = none /\ \A f \in Envelopes \ {e} : c.case[f] = m.case[f]
  BY <1>0 DEF Memory
<1>2. CASE m.case[e] # none /\ arena[e] = heap
  <2> DEFINE o == m.payload[e]
  <2>1. o \in Objects /\ m.place[o] = heap
    BY <1>0, <1>2 DEF MembersGood
  <2>2. n = Delete(c, o)
    BY <1>2 DEF ClearPayload
  <2> HIDE DEF n, c
  <2>3. /\ n \in Memory /\ n.case = c.case /\ n.payload = c.payload
        /\ n.place[o] = none /\ n.kind[o] = none
        /\ \A x \in Objects \ {o} : n.place[x] = m.place[x] /\ n.kind[x] = m.kind[x]
    BY <1>1, <2>1, <2>2, DeleteFields
  <2>4. /\ n.case[e] = none
        /\ \A f \in Envelopes \ {e} : n.case[f] = m.case[f] /\ n.payload[f] = m.payload[f]
    BY <1>1, <2>3
  <2>5. o \notin H \cup L /\ \A f \in Envelopes \ {e} : m.case[f] # none => m.payload[f] # o
    BY <1>0, <1>2 DEF CallersGood, Has, MembersApart
  <2> HIDE DEF o
  <2>6. MembersGood(n, arena)
    BY <1>0, <2>3, <2>4, <2>5 DEF MembersGood
  <2>7. MembersApart(n)
    BY <1>0, <2>4 DEF MembersApart
  <2>8. CallersGood(n, H, L)
    BY <1>0, <2>3, <2>4, <2>5 DEF CallersGood, Has
  <2>9. NoLeak(n, H)
    <3> SUFFICES ASSUME NEW x \in Objects, n.place[x] = heap
                 PROVE  x \in H \/ \E f \in Envelopes : Has(n, f, x)
      BY DEF NoLeak
    <3>1. x # o /\ m.place[x] = heap
      BY <2>3, Names
    <3>2. x \in H \/ \E f \in Envelopes \ {e} : Has(m, f, x)
      BY <1>0, <3>1 DEF NoLeak, Has, o
    <3> QED  BY <2>4, <3>2 DEF Has
  <2>10. Free(m) \subseteq Free(n)
    BY <2>3 DEF Free
  <2>11. \A x \in H \cup L : n.kind[x] = m.kind[x] /\ n.place[x] = m.place[x]
    BY <1>0, <2>3, <2>5 DEF CallersGood
  <2> QED  BY <2>3, <2>4, <2>6, <2>7, <2>8, <2>9, <2>10, <2>11 DEF Owned, n
<1>3. CASE ~ (m.case[e] # none /\ arena[e] = heap)
  <2>1. n = c
    BY <1>3 DEF ClearPayload
  <2> HIDE DEF n, c
  <2>2. MembersGood(n, arena) /\ MembersApart(n)
    BY <1>0, <1>1, <2>1 DEF MembersGood, MembersApart
  <2>3. CallersGood(n, H, L)
    BY <1>0, <1>1, <2>1 DEF CallersGood, Has
  <2>4. NoLeak(n, H)
    <3> SUFFICES ASSUME NEW x \in Objects, m.place[x] = heap
                 PROVE  x \in H \/ \E f \in Envelopes : Has(n, f, x)
      BY <1>1, <2>1 DEF NoLeak
    <3>1. x \in H \/ \E f \in Envelopes \ {e} : Has(m, f, x)
      BY <1>0, <1>3 DEF NoLeak, Has, MembersGood
    <3> QED  BY <1>1, <2>1, <3>1 DEF Has
  <2> QED  BY <1>1, <2>1, <2>2, <2>3, <2>4 DEF Owned, Free, n
<1> QED  BY <1>2, <1>3

\* A new object becomes the member of an Envelope that has none.
LEMMA NewMember ==
    ASSUME NEW m, NEW e \in Envelopes, NEW A, NEW H, NEW L, Owned(m, A, H, L), m.case[e] = none,
           A[e] \in Arenas \cup {heap}, NEW k \in Members, Free(m) # {}
    PROVE  LET n == Set(New(m, k, A[e]), e, k, Fresh(m)) IN
           /\ Owned(n, A, H, L) /\ Free(m) \ {Fresh(m)} \subseteq Free(n)
           /\ \A f \in Envelopes \ {e} : n.case[f] = m.case[f]
<1> DEFINE w == New(m, k, A[e])
           o == Fresh(m)
           n == Set(w, e, k, o)
<1>0. m \in Memory /\ MembersGood(m, A) /\ MembersApart(m) /\ CallersGood(m, H, L) /\ NoLeak(m, H)
  BY DEF Owned
<1>1. o \in Objects /\ m.place[o] = none
  BY FreshIsFree
<1>2. /\ w \in Memory /\ w.case = m.case /\ w.payload = m.payload
      /\ w.place[o] = A[e] /\ w.kind[o] = k
      /\ \A x \in Objects \ {o} : w.place[x] = m.place[x] /\ w.kind[x] = m.kind[x]
  BY <1>0, NewFields
<1> HIDE DEF w, o
<1>3. /\ n \in Memory /\ n.place = w.place /\ n.kind = w.kind
      /\ n.case[e] = k /\ n.payload[e] = o
      /\ \A f \in Envelopes \ {e} : n.case[f] = w.case[f] /\ n.payload[f] = w.payload[f]
  BY <1>1, <1>2, SetFields
<1> HIDE DEF n
<1>4. \A f \in Envelopes : m.case[f] # none => f # e /\ m.payload[f] # o
  BY <1>0, <1>1 DEF MembersGood
<1>5. o \notin H \cup L
  BY <1>0, <1>1, Names DEF CallersGood
<1>6. MembersGood(n, A)
  <2> SUFFICES ASSUME NEW f \in Envelopes, n.case[f] # none
               PROVE  /\ A[f] # none /\ n.payload[f] \in Objects
                      /\ n.kind[n.payload[f]] = n.case[f] /\ n.place[n.payload[f]] = A[f]
    BY DEF MembersGood
  <2>1. CASE f = e
    BY <1>1, <1>2, <1>3, <2>1, Names
  <2>2. CASE f # e
    BY <1>0, <1>2, <1>3, <1>4, <2>2 DEF MembersGood
  <2> QED  BY <2>1, <2>2
<1>7. MembersApart(n)
  BY <1>0, <1>2, <1>3, <1>4 DEF MembersApart
<1>8. CallersGood(n, H, L)
  BY <1>0, <1>2, <1>3, <1>5 DEF CallersGood, Has
<1>9. NoLeak(n, H)
  <2> SUFFICES ASSUME NEW x \in Objects, n.place[x] = heap
               PROVE  x \in H \/ \E f \in Envelopes : Has(n, f, x)
    BY DEF NoLeak
  <2>1. CASE x = o
    BY <1>3, <2>1, Names DEF Has
  <2>2. CASE x # o
    <3>1. x \in H \/ \E f \in Envelopes \ {e} : Has(m, f, x)
      BY <1>0, <1>2, <1>3, <2>2 DEF NoLeak, Has
    <3> QED  BY <1>2, <1>3, <3>1 DEF Has
  <2> QED  BY <2>1, <2>2
<1>10. Free(m) \ {o} \subseteq Free(n)
  BY <1>2, <1>3 DEF Free
<1> QED  BY <1>2, <1>3, <1>6, <1>7, <1>8, <1>9, <1>10 DEF Owned, n, w, o
\* A new object on the heap for the caller.
LEMMA NewHeld ==
    ASSUME NEW m, NEW A, NEW H, NEW L, Owned(m, A, H, L), NEW k \in Members, Free(m) # {}
    PROVE  LET n == New(m, k, heap) IN
           Owned(n, A, H \cup {Fresh(m)}, L) /\ n.case = m.case /\ n.payload = m.payload
<1> DEFINE n == New(m, k, heap)
           o == Fresh(m)
<1>0. m \in Memory /\ MembersGood(m, A) /\ MembersApart(m) /\ CallersGood(m, H, L) /\ NoLeak(m, H)
  BY DEF Owned
<1>1. o \in Objects /\ m.place[o] = none
  BY FreshIsFree
<1>2. /\ n \in Memory /\ n.case = m.case /\ n.payload = m.payload
      /\ n.place[o] = heap /\ n.kind[o] = k
      /\ \A x \in Objects \ {o} : n.place[x] = m.place[x] /\ n.kind[x] = m.kind[x]
  BY <1>0, NewFields
<1> HIDE DEF n, o
<1>3. \A f \in Envelopes : m.case[f] # none => m.payload[f] # o
  BY <1>0, <1>1 DEF MembersGood
<1>4. o \notin H \cup L
  BY <1>0, <1>1, Names DEF CallersGood
<1>5. MembersGood(n, A) /\ MembersApart(n)
  BY <1>0, <1>2, <1>3 DEF MembersGood, MembersApart
<1>6. CallersGood(n, H \cup {o}, L)
  BY <1>0, <1>1, <1>2, <1>3, <1>4, Names DEF CallersGood, Has
<1>7. NoLeak(n, H \cup {o})
  BY <1>0, <1>2 DEF NoLeak, Has
<1> QED  BY <1>2, <1>5, <1>6, <1>7 DEF Owned, n, o

\* An object of the caller becomes the member of an Envelope that has none;
\* w is the memory after the object, if need be, was given to the arena.
LEMMA GiveMember ==
    ASSUME NEW m, NEW e \in Envelopes, NEW A, NEW H, NEW L, Owned(m, A, H, L), m.case[e] = none,
           A[e] \in Arenas \cup {heap}, NEW o \in H \cup L, NEW w \in Memory,
           w.case = m.case, w.payload = m.payload, w.kind = m.kind, w.place[o] = A[e],
           \A x \in Objects \ {o} : w.place[x] = m.place[x]
    PROVE  Owned(Set(w, e, m.kind[o], o), A, H \ {o}, L \ {o})
<1> DEFINE n == Set(w, e, m.kind[o], o)
<1>0. m \in Memory /\ MembersGood(m, A) /\ MembersApart(m) /\ CallersGood(m, H, L) /\ NoLeak(m, H)
  BY DEF Owned
<1>1. o \in Objects /\ m.kind[o] \in Members
  BY <1>0 DEF CallersGood, Memory
<1>2. /\ n \in Memory /\ n.place = w.place /\ n.kind = m.kind
      /\ n.case[e] = m.kind[o] /\ n.payload[e] = o
      /\ \A f \in Envelopes \ {e} : n.case[f] = m.case[f] /\ n.payload[f] = m.payload[f]
  BY <1>1, SetFields
<1> HIDE DEF n
<1>3. \A f \in Envelopes : m.case[f] # none => f # e /\ m.payload[f] # o
  BY <1>0 DEF CallersGood, Has
<1>4. MembersGood(n, A)
  <2> SUFFICES ASSUME NEW f \in Envelopes, n.case[f] # none
               PROVE  /\ A[f] # none /\ n.payload[f] \in Objects
                      /\ n.kind[n.payload[f]] = n.case[f] /\ n.place[n.payload[f]] = A[f]
    BY DEF MembersGood
  <2>1. CASE f = e
    BY <1>1, <1>2, <2>1, Names
  <2>2. CASE f # e
    BY <1>0, <1>2, <1>3, <2>2 DEF MembersGood
  <2> QED  BY <2>1, <2>2
<1>5. MembersApart(n)
  BY <1>0, <1>2, <1>3 DEF MembersApart
<1>6. CallersGood(n, H \ {o}, L \ {o})
  BY <1>0, <1>2 DEF CallersGood, Has
<1>7. NoLeak(n, H \ {o})
  <2> SUFFICES ASSUME NEW x \in Objects, n.place[x] = heap
               PROVE  x \in H \ {o} \/ \E f \in Envelopes : Has(n, f, x)
    BY DEF NoLeak
  <2>1. CASE x = o
    BY <1>1, <1>2, <2>1, Names DEF Has
  <2>2. CASE x # o
    <3>1. x \in H \/ \E f \in Envelopes \ {e} : Has(m, f, x)
      BY <1>0, <1>2, <2>2 DEF NoLeak, Has
    <3> QED  BY <1>2, <2>2, <3>1 DEF Has
  <2> QED  BY <2>1, <2>2
<1> QED  BY <1>2, <1>4, <1>5, <1>6, <1>7 DEF Owned, n

(***************************************************************************)
(* e forgets its member without a delete: nothing is lost if there was     *)
(* none, if the arena keeps it, or if the caller has it from then on.      *)
(***************************************************************************)
LEMMA DropMember ==
    ASSUME NEW m, NEW e \in Envelopes, NEW A, NEW H, NEW L, Owned(m, A, H, L),
           A[e] \in Arenas \cup {heap, none}
    PROVE  LET n == Set(m, e, none, none) IN
           /\ m.case[e] = none \/ A[e] # heap => Owned(n, A, H, L)
           /\ m.case[e] # none /\ A[e] = heap => Owned(n, A, H \cup {m.payload[e]}, L)
           /\ m.case[e] # none /\ A[e] # heap => Owned(n, A, H, L \cup {m.payload[e]})
<1> DEFINE n == Set(m, e, none, none)
           o == m.payload[e]
<1>0. m \in Memory /\ MembersGood(m, A) /\ MembersApart(m) /\ CallersGood(m, H, L) /\ NoLeak(m, H)
  BY DEF Owned
<1>1. /\ n \in Memory /\ n.place = m.place /\ n.kind = m.kind /\ n.case[e] = none
      /\ \A f \in Envelopes \ {e} : n.case[f] = m.case[f] /\ n.payload[f] = m.payload[f]
  BY <1>0, SetFields
<1> HIDE DEF n
<1>2. MembersGood(n, A) /\ MembersApart(n)
  BY <1>0, <1>1 DEF MembersGood, MembersApart
<1>3. CallersGood(n, H, L)
  BY <1>0, <1>1 DEF CallersGood, Has
<1>4. m.case[e] # none =>
        /\ o \in Objects /\ m.place[o] = A[e] /\ m.kind[o] # none /\ A[e] # none
        /\ \A f \in Envelopes : ~Has(n, f, o)
  BY <1>0, <1>1 DEF MembersGood, MembersApart, Has
<1>5. \A x \in Objects : m.place[x] = heap =>
         x \in H \/ (\E f \in Envelopes : Has(n, f, x)) \/ (m.case[e] # none /\ x = o)
  BY <1>0, <1>1 DEF NoLeak, Has
<1> HIDE DEF o
<1>6. m.case[e] = none \/ A[e] # heap => NoLeak(n, H)
  BY <1>1, <1>4, <1>5 DEF NoLeak
<1>7. m.case[e] # none /\ A[e] = heap => CallersGood(n, H \cup {o}, L) /\ NoLeak(n, H \cup {o})
  BY <1>1, <1>3, <1>4, <1>5 DEF NoLeak, CallersGood
<1>8. m.case[e] # none /\ A[e] # heap => CallersGood(n, H, L \cup {o})
  BY <1>1, <1>3, <1>4 DEF CallersGood
<1> QED  BY <1>1, <1>2, <1>3, <1>6, <1>7, <1>8 DEF Owned, n, o

\* Only the arenas of the Envelopes that have a member matter.
LEMMA OtherArenas ==
    ASSUME NEW m, NEW A, NEW B, NEW H, NEW L, Owned(m, A, H, L),
           \A e \in Envelopes : m.case[e] # none => B[e] = A[e]
    PROVE  Owned(m, B, H, L)
BY DEF Owned, MembersGood

\* MergeImpl and operator= use at most one new object.
LEMMA MergeOwned ==
    ASSUME NEW m, NEW e \in Envelopes, NEW H, NEW L, Owned(m, arena, H, L),
           arena[e] \in Arenas \cup {heap}, NEW from \in Members \cup {none}, Free(m) # {}
    PROVE  LET n == Merge(m, e, from) IN
           Owned(n, arena, H, L) /\ \E x : Free(m) \ {x} \subseteq Free(n)
<1>1. CASE from \in {none, m.case[e]}
  BY <1>1 DEF Merge
<1>2. CASE from \notin {none, m.case[e]}
  <2> DEFINE c == ClearPayload(m, e)
             n == Set(New(c, from, arena[e]), e, from, Fresh(c))
  <2>1. Owned(c, arena, H, L) /\ c.case[e] = none /\ Free(m) \subseteq Free(c)
    BY ClearOwned
  <2>2. Merge(m, e, from) = n
    BY <1>2 DEF Merge, SetNew
  <2> HIDE DEF c
  <2>3. Owned(n, arena, H, L) /\ Free(c) \ {Fresh(c)} \subseteq Free(n)
    <3>1. Free(c) # {} /\ from \in Members
      BY <1>2, <2>1
    <3> QED  BY <2>1, <3>1, NewMember
  <2> HIDE DEF n
  <2>4. Free(m) \ {Fresh(c)} \subseteq Free(n)
    BY <2>1, <2>3
  <2> QED  BY <2>2, <2>3, <2>4
<1> QED  BY <1>1, <1>2

\* The assignments clear first.
LEMMA CopyOwned ==
    ASSUME NEW m, NEW e \in Envelopes, NEW H, NEW L, Owned(m, arena, H, L),
           arena[e] \in Arenas \cup {heap}, NEW from \in Members \cup {none}, Free(m) # {}
    PROVE  LET n == CopyInto(m, e, from) IN
           Owned(n, arena, H, L) /\ \E x : Free(m) \ {x} \subseteq Free(n)
<1> DEFINE c == ClearPayload(m, e)
<1>1. Owned(c, arena, H, L) /\ Free(m) \subseteq Free(c)
  BY ClearOwned
<1>2. CopyInto(m, e, from) = Merge(c, e, from)
  BY DEF CopyInto
<1> HIDE DEF c
<1>3. Owned(Merge(c, e, from), arena, H, L) /\ \E x : Free(c) \ {x} \subseteq Free(Merge(c, e, from))
  BY <1>1, MergeOwned
<1> QED  BY <1>1, <1>2, <1>3

\* InternalSwap of two Envelopes of the same arena.
LEMMA SwapOwned ==
    ASSUME NEW m, NEW H, NEW L, NEW e \in Envelopes, NEW f \in Envelopes, e # f, arena[e] = arena[f],
           Owned(m, arena, H, L)
    PROVE  Owned(Set(Set(m, e, m.case[f], m.payload[f]), f, m.case[e], m.payload[e]),
                 arena, H, L)
<1>0. /\ m \in Memory /\ MembersGood(m, arena) /\ MembersApart(m)
      /\ CallersGood(m, H, L) /\ NoLeak(m, H)
  BY DEF Owned
<1>1. /\ m.case[e] \in Members \cup {none} /\ m.case[f] \in Members \cup {none}
      /\ m.payload[e] \in Objects \cup {none} /\ m.payload[f] \in Objects \cup {none}
  BY <1>0 DEF Memory
<1> DEFINE w == Set(m, e, m.case[f], m.payload[f])
           n == Set(w, f, m.case[e], m.payload[e])
           other == [g \in Envelopes |-> IF g = e THEN f ELSE IF g = f THEN e ELSE g]
<1>2. /\ w \in Memory /\ w.place = m.place /\ w.kind = m.kind
      /\ w.case[e] = m.case[f] /\ w.payload[e] = m.payload[f]
      /\ \A g \in Envelopes \ {e} : w.case[g] = m.case[g] /\ w.payload[g] = m.payload[g]
  BY <1>0, <1>1 DEF Set, Memory
<1> HIDE DEF w
<1>3. /\ n \in Memory /\ n.place = w.place /\ n.kind = w.kind
      /\ n.case[f] = m.case[e] /\ n.payload[f] = m.payload[e]
      /\ \A g \in Envelopes \ {f} : n.case[g] = w.case[g] /\ n.payload[g] = w.payload[g]
  BY <1>1, <1>2 DEF Set, Memory
<1> HIDE DEF n
<1>4. \A g \in Envelopes : /\ other[g] \in Envelopes /\ arena[other[g]] = arena[g]
                           /\ other[other[g]] = g
                           /\ n.case[g] = m.case[other[g]]
                           /\ n.payload[g] = m.payload[other[g]]
  BY <1>2, <1>3
<1> HIDE DEF other
<1>5. n.place = m.place /\ n.kind = m.kind
  BY <1>2, <1>3
<1>6. MembersGood(n, arena)
  BY <1>0, <1>4, <1>5 DEF MembersGood
<1>7. MembersApart(n)
  <2> SUFFICES ASSUME NEW g \in Envelopes, NEW h \in Envelopes, n.case[g] # none,
                      n.case[h] # none, n.payload[g] = n.payload[h]
               PROVE  g = h
    BY DEF MembersApart
  <2>1. other[g] = other[h]
    BY <1>0, <1>4 DEF MembersApart
  <2> QED  BY <1>4, <2>1
<1>8. \A g \in Envelopes, o \in Objects : Has(n, g, o) <=> Has(m, other[g], o)
  BY <1>4 DEF Has
<1>9. CallersGood(n, H, L)
  BY <1>0, <1>4, <1>5, <1>8 DEF CallersGood
<1>10. NoLeak(n, H)
  <2> SUFFICES ASSUME NEW o \in Objects, m.place[o] = heap, o \notin H
               PROVE  \E g \in Envelopes : Has(n, g, o)
    BY <1>5 DEF NoLeak
  <2>1. PICK g \in Envelopes : Has(m, g, o)
    BY <1>0 DEF NoLeak
  <2>2. other[g] \in Envelopes /\ Has(n, other[g], o)
    BY <1>4, <1>8, <2>1
  <2> QED  BY <2>2
<1> QED  BY <1>3, <1>6, <1>7, <1>9, <1>10 DEF Owned, n, w
-----------------------------------------------------------------------------
\* The constructors and destructors.
LEMMA ConstructStep ==
    ASSUME EnvelopeInv, NEW e \in Envelopes, NEW a \in Arenas \cup {heap},
           construct(e, a) \/ \E f \in Envelopes : construct_copy(e, f, a)
    PROVE  EnvelopeInv'
<1>0. arena \in [Envelopes -> Arenas \cup {heap, none}] /\ Owned(mem, arena, held, lent)
  BY DEF EnvelopeInv
<1>1. arena[e] = none /\ arena' = [arena EXCEPT ![e] = a] /\ UNCHANGED <<held, lent>>
  BY DEF construct, construct_copy, Exists
<1>2. mem.case[e] = none
  BY <1>0, <1>1 DEF Owned, MembersGood
<1>3. /\ arena' \in [Envelopes -> Arenas \cup {heap, none}] /\ arena'[e] = a
      /\ \A g \in Envelopes \ {e} : arena'[g] = arena[g]
  BY <1>0, <1>1
<1>4. Owned(mem, arena', held, lent)
  <2>1. \A g \in Envelopes : mem.case[g] # none => arena'[g] = arena[g]
    BY <1>2, <1>3
  <2> QED  BY <1>0, <2>1, OtherArenas
<1>5. CASE mem' = Set(mem, e, none, none)
  <2>1. Owned(Set(mem, e, none, none), arena', held, lent)
    BY <1>2, <1>3, <1>4, DropMember
  <2> QED  BY <1>1, <1>3, <1>5, <2>1 DEF EnvelopeInv
<1>6. ASSUME NEW f \in Envelopes, construct_copy(e, f, a), mem.case[f] # none
      PROVE  EnvelopeInv'
  <2> DEFINE k == mem.case[f]
  <2>1. mem' = Set(New(mem, k, a), e, k, Fresh(mem)) /\ Free(mem) # {}
    BY <1>6 DEF construct_copy
  <2>2. k \in Members
    BY <1>0, <1>6 DEF Owned, Memory
  <2> HIDE DEF k
  <2>3. Owned(Set(New(mem, k, arena'[e]), e, k, Fresh(mem)), arena', held, lent)
    BY <1>2, <1>3, <1>4, <2>1, <2>2, NewMember
  <2> QED  BY <1>1, <1>3, <2>1, <2>3 DEF EnvelopeInv
<1> QED  BY <1>5, <1>6 DEF construct, construct_copy, Set

\* The destructor of an Envelope on the heap.
LEMMA DestroyStep ==
    ASSUME EnvelopeInv, NEW e \in Envelopes, destroy(e)
    PROVE  EnvelopeInv'
<1>0. arena \in [Envelopes -> Arenas \cup {heap, none}] /\ Owned(mem, arena, held, lent)
  BY DEF EnvelopeInv
<1>1. mem' = ClearPayload(mem, e) /\ arena' = [arena EXCEPT ![e] = none] /\ UNCHANGED <<held, lent>>
  BY DEF destroy
<1>2. Owned(mem', arena, held, lent) /\ mem'.case[e] = none
  BY <1>0, <1>1, ClearOwned
<1>3. /\ arena' \in [Envelopes -> Arenas \cup {heap, none}]
      /\ \A g \in Envelopes : mem'.case[g] # none => arena'[g] = arena[g]
  BY <1>0, <1>1, <1>2
<1>4. Owned(mem', arena', held, lent)
  BY <1>2, <1>3, OtherArenas
<1> QED  BY <1>1, <1>3, <1>4 DEF EnvelopeInv

\* The end of an arena takes Envelopes and members with it.
LEMMA DestroyArenaStep ==
    ASSUME EnvelopeInv, NEW a \in Arenas, destroy_arena(a)
    PROVE  EnvelopeInv'
<1>0. /\ arena \in [Envelopes -> Arenas \cup {heap, none}] /\ mem \in Memory
      /\ MembersGood(mem, arena) /\ MembersApart(mem) /\ CallersGood(mem, held, lent)
      /\ NoLeak(mem, held)
  BY DEF EnvelopeInv, Owned
<1>1. /\ arena' = [e \in Envelopes |-> IF arena[e] = a THEN none ELSE arena[e]]
      /\ held' = held /\ lent' = {o \in lent : mem.place[o] # a}
  BY DEF destroy_arena
<1>2. /\ mem' \in Memory /\ mem'.payload = mem.payload
      /\ \A e \in Envelopes : mem'.case[e] = IF arena[e] = a THEN none ELSE mem.case[e]
      /\ \A o \in Objects : /\ mem'.place[o] = IF mem.place[o] = a THEN none ELSE mem.place[o]
                            /\ mem'.kind[o] = IF mem.place[o] = a THEN none ELSE mem.kind[o]
  BY <1>0 DEF destroy_arena, Memory
<1>3. arena' \in [Envelopes -> Arenas \cup {heap, none}]
  BY <1>0, <1>1
<1>4. MembersGood(mem', arena')
  BY <1>0, <1>1, <1>2 DEF MembersGood
<1>5. MembersApart(mem')
  BY <1>0, <1>2 DEF MembersApart
<1>6. \A o \in Objects : \A e \in Envelopes : Has(mem', e, o) => Has(mem, e, o)
  BY <1>2 DEF Has
<1>7. CallersGood(mem', held', lent')
  BY <1>0, <1>1, <1>2, <1>6, Names DEF CallersGood
<1>8. NoLeak(mem', held')
  <2> SUFFICES ASSUME NEW o \in Objects, mem'.place[o] = heap, o \notin held
               PROVE  \E e \in Envelopes : Has(mem', e, o)
    BY <1>1 DEF NoLeak
  <2>1. mem.place[o] = heap
    BY <1>2, Names
  <2>2. PICK e \in Envelopes : Has(mem, e, o)
    BY <1>0, <2>1 DEF NoLeak
  <2>3. arena[e] = heap
    BY <1>0, <2>1, <2>2 DEF MembersGood, Has
  <2> QED  BY <1>2, <2>2, <2>3, Names DEF Has
<1> QED  BY <1>2, <1>3, <1>4, <1>5, <1>7, <1>8 DEF EnvelopeInv, Owned
-----------------------------------------------------------------------------
\* mutable_k, clear_k, and set_allocated_k with a null pointer.
LEMMA MutableClearStep ==
    ASSUME EnvelopeInv, NEW e \in Envelopes,
           \/ \E k \in Members : mutable(e, k) \/ clear(e, k)
           \/ set_allocated_null(e)
    PROVE  EnvelopeInv'
<1>0. arena \in [Envelopes -> Arenas \cup {heap, none}] /\ Owned(mem, arena, held, lent)
  BY DEF EnvelopeInv
<1> DEFINE c == ClearPayload(mem, e)
<1>1. Owned(c, arena, held, lent) /\ c.case[e] = none /\ Free(mem) \subseteq Free(c)
  BY <1>0, ClearOwned
<1>2. UNCHANGED <<arena, held, lent>> /\ arena[e] # none
  BY DEF mutable, clear, set_allocated_null, Exists
<1>3. CASE mem' = c
  BY <1>0, <1>1, <1>2, <1>3 DEF EnvelopeInv
<1>4. ASSUME NEW k \in Members, mutable(e, k)
      PROVE  EnvelopeInv'
  <2>1. mem' = Set(New(c, k, arena[e]), e, k, Fresh(c)) /\ Free(c) # {}
    BY <1>1, <1>4 DEF mutable, SetNew
  <2> HIDE DEF c
  <2>2. arena[e] \in Arenas \cup {heap}
    BY <1>0, <1>2
  <2>3. Owned(Set(New(c, k, arena[e]), e, k, Fresh(c)), arena, held, lent)
    BY <1>1, <2>1, <2>2, NewMember
  <2> QED  BY <1>0, <1>2, <2>1, <2>3 DEF EnvelopeInv
<1> QED  BY <1>3, <1>4 DEF clear, set_allocated_null

\* The two ways to take the member out.
LEMMA ReleaseStep ==
    ASSUME EnvelopeInv, NEW e \in Envelopes, NEW k \in Members,
           release(e, k) \/ unsafe_arena_release(e, k)
    PROVE  EnvelopeInv'
<1>0. arena \in [Envelopes -> Arenas \cup {heap, none}] /\ Owned(mem, arena, held, lent)
  BY DEF EnvelopeInv
<1>1. arena' = arena /\ arena[e] \in Arenas \cup {heap} /\ mem.case[e] = k /\ k # none
  BY <1>0, Names DEF release, unsafe_arena_release, Exists
<1>2. /\ arena[e] = heap =>
           Owned(Set(mem, e, none, none), arena, held \cup {mem.payload[e]}, lent)
      /\ arena[e] # heap =>
           Owned(Set(mem, e, none, none), arena, held, lent \cup {mem.payload[e]})
  BY <1>0, <1>1, DropMember
<1>3. CASE unsafe_arena_release(e, k) \/ arena[e] = heap
  <2>1. mem' = Set(mem, e, none, none)
    BY <1>3 DEF release, unsafe_arena_release
  <2>2. /\ arena[e] = heap => held' = held \cup {mem.payload[e]} /\ lent' = lent
        /\ arena[e] # heap => lent' = lent \cup {mem.payload[e]} /\ held' = held
    BY <1>3 DEF release, unsafe_arena_release
  <2>3. Owned(mem', arena, held', lent')
    BY <1>2, <2>1, <2>2
  <2> QED  BY <1>0, <1>1, <2>3 DEF EnvelopeInv
<1>4. CASE release(e, k) /\ arena[e] # heap
  <2> DEFINE w == New(mem, k, heap)
  <2>1. /\ Free(mem) # {} /\ mem' = Set(w, e, none, none)
        /\ held' = held \cup {Fresh(mem)} /\ lent' = lent
    BY <1>4 DEF release
  <2>2. Owned(w, arena, held \cup {Fresh(mem)}, lent)
    BY <1>0, <2>1, NewHeld
  <2> HIDE DEF w
  <2>3. Owned(Set(w, e, none, none), arena, held \cup {Fresh(mem)}, lent)
    BY <1>1, <1>4, <2>2, DropMember
  <2> QED  BY <1>0, <1>1, <2>1, <2>3 DEF EnvelopeInv
<1> QED  BY <1>3, <1>4

\* The two ways to put an object of the caller in.
LEMMA SetAllocatedStep ==
    ASSUME EnvelopeInv, NEW e \in Envelopes, NEW o \in Objects,
           set_allocated(e, o) \/ unsafe_arena_set_allocated(e, o)
    PROVE  EnvelopeInv'
<1>0. arena \in [Envelopes -> Arenas \cup {heap, none}] /\ Owned(mem, arena, held, lent)
  BY DEF EnvelopeInv
<1> DEFINE c == ClearPayload(mem, e)
           w == [c EXCEPT !.place[o] = arena[e]]
<1>1. /\ Owned(c, arena, held, lent) /\ c.case[e] = none /\ Free(mem) \subseteq Free(c)
      /\ \A x \in held \cup lent : c.kind[x] = mem.kind[x] /\ c.place[x] = mem.place[x]
  BY <1>0, ClearOwned
<1>2. /\ arena' = arena /\ arena[e] \in Arenas \cup {heap} /\ o \in held \cup lent
      /\ held' = held \ {o}
  BY <1>0 DEF set_allocated, unsafe_arena_set_allocated, Exists
<1>3. /\ \A x \in held : x \notin lent /\ mem.place[x] = heap
      /\ \A x \in lent : mem.place[x] \in Arenas
      /\ mem.kind[o] \in Members
  BY <1>0, <1>2, Names DEF Owned, CallersGood, Memory
<1>4. CASE mem.place[o] \in {heap, arena[e]}
  <2>1. c \in Memory /\ c.place[o] = mem.place[o] /\ c.kind[o] = mem.kind[o]
    BY <1>1, <1>2 DEF Owned
  <2>2. mem' = Set(w, e, c.kind[o], o) /\ lent' = lent \ {o}
    <3>1. CASE set_allocated(e, o)
      <4>1. /\ mem' = Adopt(c, e, o)
            /\ lent' = IF mem.place[o] = arena[e] THEN lent \ {o} ELSE lent
        BY <3>1 DEF set_allocated
      <4>2. mem.place[o] # arena[e] => o \notin lent
        BY <1>3, <1>4, Names
      <4>3. lent' = lent \ {o}
        BY <4>1, <4>2
      <4> HIDE DEF c
      <4>4. Adopt(c, e, o) = Set(w, e, c.kind[o], o)
        BY <1>4, <2>1 DEF Adopt
      <4> QED  BY <4>1, <4>3, <4>4
    <3>2. CASE unsafe_arena_set_allocated(e, o)
      <4>1. /\ mem.place[o] = arena[e] /\ mem' = Set(c, e, mem.kind[o], o)
            /\ lent' = lent \ {o}
        BY <3>2 DEF unsafe_arena_set_allocated
      <4> HIDE DEF c
      <4>2. w = c
        BY <2>1, <4>1 DEF Memory
      <4> QED  BY <2>1, <4>1, <4>2
    <3> QED  BY <3>1, <3>2
  <2> HIDE DEF c
  <2>3. /\ w \in Memory /\ w.case = c.case /\ w.payload = c.payload /\ w.kind = c.kind
        /\ w.place[o] = arena[e] /\ \A x \in Objects \ {o} : w.place[x] = c.place[x]
    BY <1>2, <2>1 DEF Memory
  <2> HIDE DEF w
  <2>4. Owned(Set(w, e, c.kind[o], o), arena, held \ {o}, lent \ {o})
    BY <1>1, <1>2, <2>3, GiveMember
  <2> QED  BY <1>0, <1>2, <2>2, <2>4 DEF EnvelopeInv
<1>5. CASE mem.place[o] \notin {heap, arena[e]}
  <2>1. /\ Free(mem) # {} /\ mem' = Adopt(c, e, o) /\ lent' = lent
    BY <1>5 DEF set_allocated, unsafe_arena_set_allocated
  <2>2. held' = held
    BY <1>2, <1>3, <1>5
  <2>3. c.place[o] = mem.place[o] /\ c.kind[o] = mem.kind[o] /\ Free(c) # {}
    BY <1>1, <1>2, <2>1
  <2> HIDE DEF c
  <2>4. mem' = Set(New(c, mem.kind[o], arena[e]), e, mem.kind[o], Fresh(c))
    BY <1>5, <2>1, <2>3 DEF Adopt, SetNew
  <2>5. Owned(mem', arena, held, lent)
    BY <1>1, <1>2, <1>3, <2>3, <2>4, NewMember
  <2> QED  BY <1>0, <1>2, <2>1, <2>2, <2>5 DEF EnvelopeInv
<1> QED  BY <1>4, <1>5

\* MergeFrom, the assignments and Swap.
LEMMA MergeSwapStep ==
    ASSUME EnvelopeInv, NEW e \in Envelopes, NEW f \in Envelopes,
           merge_from(e, f) \/ copy_from(e, f) \/ move_from(e, f) \/ swap(e, f)
    PROVE  EnvelopeInv'
<1>0. arena \in [Envelopes -> Arenas \cup {heap, none}] /\ Owned(mem, arena, held, lent)
  BY DEF EnvelopeInv
<1>1. /\ e # f /\ UNCHANGED <<arena, held, lent>>
      /\ arena[e] \in Arenas \cup {heap} /\ arena[f] \in Arenas \cup {heap}
  BY <1>0 DEF merge_from, copy_from, move_from, swap, Exists
<1>2. mem.case[e] \in Members \cup {none} /\ mem.case[f] \in Members \cup {none}
  BY <1>0 DEF Owned, Memory
<1> SUFFICES Owned(mem', arena, held, lent)
  BY <1>0, <1>1 DEF EnvelopeInv
<1>3. CASE merge_from(e, f)
  <2>1. Free(mem) # {} /\ mem' = Merge(mem, e, mem.case[f])
    BY <1>3 DEF merge_from
  <2> QED  BY <1>0, <1>1, <1>2, <2>1, MergeOwned
<1>4. CASE mem' = CopyInto(mem, e, mem.case[f]) /\ Free(mem) # {}
  BY <1>0, <1>1, <1>2, <1>4, CopyOwned
<1>5. CASE mem' = SwapMembers(e, f) /\ arena[e] = arena[f]
  BY <1>0, <1>1, <1>5, SwapOwned DEF SwapMembers
<1>6. CASE swap(e, f) /\ arena[e] # arena[f]
  <2> DEFINE n == CopyInto(mem, e, mem.case[f])
  <2>1. Cardinality(Free(mem)) >= 2 /\ mem' = CopyInto(n, f, mem.case[e])
    BY <1>6 DEF swap, SameArena
  <2>2. \A x : Free(mem) \ {x} # {}
    <3> SUFFICES ASSUME NEW x, Free(mem) \ {x} = {} PROVE FALSE
      OBVIOUS
    <3>1. Free(mem) = {} \/ Free(mem) = {x}
      OBVIOUS
    <3>2. Cardinality(Free(mem)) = 0 \/ Cardinality(Free(mem)) = 1
      BY <3>1, FS_EmptySet, FS_Singleton
    <3> QED  BY <2>1, <3>2
  <2>3. Owned(n, arena, held, lent) /\ \E x : Free(mem) \ {x} \subseteq Free(n)
    <3>1. Free(mem) # {}
      BY <2>2
    <3> QED  BY <1>0, <1>1, <1>2, <3>1, CopyOwned
  <2> HIDE DEF n
  <2>4. Free(n) # {}
    BY <2>2, <2>3
  <2>5. Owned(CopyInto(n, f, mem.case[e]), arena, held, lent)
    BY <1>1, <1>2, <2>3, <2>4, CopyOwned
  <2> QED  BY <2>1, <2>5
<1> QED  BY <1>3, <1>4, <1>5, <1>6 DEF copy_from, move_from, swap, SameArena

\* The caller's own objects.
LEMMA CallerStep ==
    ASSUME EnvelopeInv, (\E k \in Members : caller_new(k)) \/ (\E o \in Objects : caller_delete(o))
    PROVE  EnvelopeInv'
<1>0. arena \in [Envelopes -> Arenas \cup {heap, none}] /\ Owned(mem, arena, held, lent)
  BY DEF EnvelopeInv
<1>1. ASSUME NEW k \in Members, caller_new(k) PROVE EnvelopeInv'
  <2>1. /\ Free(mem) # {} /\ mem' = New(mem, k, heap) /\ held' = held \cup {Fresh(mem)}
        /\ UNCHANGED <<arena, lent>>
    BY <1>1 DEF caller_new
  <2>2. Owned(New(mem, k, heap), arena, held \cup {Fresh(mem)}, lent)
    BY <1>0, <2>1, NewHeld
  <2> QED  BY <1>0, <2>1, <2>2 DEF EnvelopeInv
<1>2. ASSUME NEW o \in Objects, caller_delete(o) PROVE EnvelopeInv'
  <2>0. /\ mem \in Memory /\ MembersGood(mem, arena) /\ MembersApart(mem)
        /\ CallersGood(mem, held, lent) /\ NoLeak(mem, held)
    BY <1>0 DEF Owned
  <2>1. o \in held /\ mem' = Delete(mem, o) /\ held' = held \ {o} /\ UNCHANGED <<arena, lent>>
    BY <1>2 DEF caller_delete
  <2>2. /\ mem' \in Memory /\ mem'.case = mem.case /\ mem'.payload = mem.payload
        /\ mem'.place[o] = none
        /\ \A x \in Objects \ {o} : mem'.place[x] = mem.place[x] /\ mem'.kind[x] = mem.kind[x]
    BY <2>0, <2>1, DeleteFields
  <2>3. o \notin lent /\ \A e \in Envelopes : mem.case[e] # none => mem.payload[e] # o
    BY <2>0, <2>1, Names DEF CallersGood, Has
  <2>4. MembersGood(mem', arena) /\ MembersApart(mem')
    BY <2>0, <2>2, <2>3 DEF MembersGood, MembersApart
  <2>5. CallersGood(mem', held', lent)
    BY <2>0, <2>1, <2>2, <2>3 DEF CallersGood, Has
  <2>6. NoLeak(mem', held')
    BY <2>0, <2>1, <2>2, Names DEF NoLeak, Has
  <2> QED  BY <1>0, <2>1, <2>2, <2>4, <2>5, <2>6 DEF EnvelopeInv, Owned
<1> QED  BY <1>1, <1>2
-----------------------------------------------------------------------------
(***************************************************************************)
(* The inductive invariant: every accessor, move, swap, copy and           *)
(* destructor of Envelope keeps track of its members.                      *)
(***************************************************************************)
THEOREM EnvelopeInvHolds == Spec => []EnvelopeInv
<1>1. Init => EnvelopeInv
  BY Names DEF Init, EnvelopeInv, Owned, Memory, MembersGood, MembersApart, CallersGood, NoLeak
<1>2. ASSUME EnvelopeInv, [Next]_vars PROVE EnvelopeInv'
  <2>1. CASE Next
    BY <1>2, <2>1, ConstructStep, DestroyStep, DestroyArenaStep, MutableClearStep, ReleaseStep,
       SetAllocatedStep, MergeSwapStep, CallerStep DEF Next
  <2>2. CASE UNCHANGED vars
    BY <1>2, <2>2 DEF vars, EnvelopeInv
  <2> QED  BY <1>2, <2>1, <2>2
<1> QED  BY <1>1, <1>2, PTL DEF Spec

(***************************************************************************)
(* The member that an Envelope reports exists, has the type it reports and *)
(* lives as long as the Envelope.                                          *)
(***************************************************************************)
THEOREM MemberAliveHolds == Spec => []MemberAlive
<1>1. EnvelopeInv => MemberAlive
  BY DEF EnvelopeInv, Owned, MembersGood, MemberAlive
<1> QED  BY <1>1, EnvelopeInvHolds, PTL

(***************************************************************************)
(* No object has two owners and no heap object has none: it is deleted     *)
(* once, and not leaked.                                                   *)
(***************************************************************************)
THEOREM OneOwnerHolds == Spec => []OneOwner
<1>1. EnvelopeInv => OneOwner
  <2> SUFFICES ASSUME EnvelopeInv, NEW o \in Objects
               PROVE  /\ Cardinality(Holders(o)) <= 1
                      /\ mem.place[o] = heap => Holders(o) # {}
    BY DEF OneOwner
  <2>0. /\ MembersGood(mem, arena) /\ MembersApart(mem) /\ CallersGood(mem, held, lent)
        /\ NoLeak(mem, held)
    BY DEF EnvelopeInv, Owned
  <2>1. \A x, y \in Holders(o) : x = y
    <3>1. \A e, f \in Envelopes : Has(mem, e, o) /\ Has(mem, f, o) => e = f
      BY <2>0 DEF MembersApart, Has
    <3>2. \A e \in Envelopes : Has(mem, e, o) => o \notin held /\ o \notin lent
      BY <2>0 DEF CallersGood
    <3>3. ~ (o \in held /\ o \in lent)
      BY <2>0, Names DEF CallersGood
    <3>4. \A x \in Holders(o) :
             \/ \E e \in Envelopes : x = <<"payload", e>> /\ Has(mem, e, o)
             \/ x = <<"held", held>> /\ o \in held
             \/ x = <<"lent", lent>> /\ o \in lent
      BY DEF Holders, Has
    <3> QED  BY <3>1, <3>2, <3>3, <3>4
  <2>2. Cardinality(Holders(o)) <= 1
    <3>1. Holders(o) = {} \/ \E x : Holders(o) = {x}
      BY <2>1
    <3>2. Cardinality(Holders(o)) = 0 \/ Cardinality(Holders(o)) = 1
      BY <3>1, FS_EmptySet, FS_Singleton
    <3> QED  BY <3>2
  <2>3. ASSUME mem.place[o] = heap PROVE Holders(o) # {}
    <3>1. o \in held \/ \E e \in Envelopes : Has(mem, e, o)
      BY <2>0, <2>3 DEF NoLeak
    <3>2. \A e \in Envelopes : Has(mem, e, o) => <<"payload", e>> \in Holders(o)
      BY <2>0 DEF Holders, Has, MembersGood, Exists
    <3>3. o \in held => <<"held", held>> \in Holders(o)
      BY DEF Holders
    <3> QED  BY <3>1, <3>2, <3>3
  <2> QED  BY <2>2, <2>3
<1> QED  BY <1>1, EnvelopeInvHolds, PTL
=============================================================================
