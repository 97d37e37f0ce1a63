---------------------------- MODULE WireEnvelope ----------------------------
(***************************************************************************)
(* Who owns the member of an Envelope's oneof (generated/wire.pb.h and     *)
(* wire.pb.cc).  An Envelope lives on the heap or in an arena and its      *)
(* payload_ is a plain pointer: to a heap object that the Envelope must    *)
(* delete, or to an object that goes with the arena.  The accessors,       *)
(* moves, swaps and copies hand these objects around.  The accessors of    *)
(* the three members differ in the type only: k stands for it.             *)
(*                                                                         *)
(* External, from the protobuf library: GetOwnedMessage (a heap object     *)
(* given to an arena is owned by it from then on; an object of another     *)
(* arena is copied and stays where it is), DuplicateIfNonNull and          *)
(* DefaultConstruct (a new object), CanUseInternalSwap (same arena) and    *)
(* GenericSwap (swap by copies).                                           *)
(*                                                                         *)
(* The caller keeps the contracts of the API: it deletes what release gave *)
(* it, once, and a pointer from unsafe_arena_release is given to one       *)
(* Envelope of its arena at most, by unsafe_arena_set_allocated or by      *)
(* set_allocated, which also takes it for an Envelope that lives           *)
(* elsewhere. The contents of the members are in WireFormat.               *)
(***************************************************************************)
EXTENDS Naturals, FiniteSets

CONSTANTS Envelopes, Objects, Arenas, Members,
          heap,   \* no arena
          none    \* no Envelope, no object, PAYLOAD_NOT_SET

ASSUME WireEnvelopeConfig ==
    /\ heap # none
    /\ {heap, none} \cap (Envelopes \cup Objects \cup Arenas \cup Members) = {}

VARIABLES arena,   \* of each Envelope; none: it does not exist
          mem,     \* case, payload of an Envelope; place, kind of an object
          held,    \* heap objects the caller owns
          lent     \* arena objects the caller has a pointer to

vars == <<arena, mem, held, lent>>

Init ==
    /\ arena = [e \in Envelopes |-> none]
    /\ mem = [case    |-> [e \in Envelopes |-> none],
              payload |-> [e \in Envelopes |-> none],
              place   |-> [o \in Objects |-> none],
              kind    |-> [o \in Objects |-> none]]
    /\ held = {}
    /\ lent = {}

Exists(e) == arena[e] # none
-----------------------------------------------------------------------------
Free(m) == {o \in Objects : m.place[o] = none}

Fresh(m) == CHOOSE o \in Free(m) : TRUE

\* A new object of type k in arena a.
New(m, k, a) == [m EXCEPT !.place[Fresh(m)] = a, !.kind[Fresh(m)] = k]

Delete(m, o) == [m EXCEPT !.place[o] = none, !.kind[o] = none]

\* set_has_k, and the pointer.
Set(m, e, k, o) == [m EXCEPT !.case[e] = k, !.payload[e] = o]

\* Mutant of ClearPayload: no delete.
ClearPayload_leaks(m, e) == [m EXCEPT !.case[e] = none]

\* clear_payload: payload_ keeps the old pointer.
ClearPayload(m, e) ==
    LET cleared == [m EXCEPT !.case[e] = none] IN
    IF m.case[e] # none /\ arena[e] = heap
      THEN Delete(cleared, m.payload[e]) ELSE cleared

\* A new object as the member of e.
SetNew(m, e, k) == Set(New(m, k, arena[e]), e, k, Fresh(m))

\* MergeImpl: the same member is merged in place, another one replaced.
Merge(m, e, from) ==
    IF from \in {none, m.case[e]} THEN m
      ELSE SetNew(ClearPayload(m, e), e, from)
-----------------------------------------------------------------------------
construct(e, a) ==
    /\ ~Exists(e)
    /\ arena' = [arena EXCEPT ![e] = a]
    /\ mem' = [mem EXCEPT !.case[e] = none, !.payload[e] = none]
    /\ UNCHANGED <<held, lent>>

\* The copy constructor.
construct_copy(e, f, a) ==
    /\ ~Exists(e) /\ Exists(f)
    /\ Free(mem) # {}
    /\ arena' = [arena EXCEPT ![e] = a]
    /\ mem' = IF mem.case[f] = none
                THEN [mem EXCEPT !.case[e] = none, !.payload[e] = none]
                ELSE Set(New(mem, mem.case[f], a), e, mem.case[f], Fresh(mem))
    /\ UNCHANGED <<held, lent>>

destroy(e) ==
    /\ arena[e] = heap
    /\ mem' = ClearPayload(mem, e)
    /\ arena' = [arena EXCEPT ![e] = none]
    /\ UNCHANGED <<held, lent>>

destroy_arena(a) ==
    /\ arena' = [e \in Envelopes |-> IF arena[e] = a THEN none ELSE arena[e]]
    /\ mem' = [mem EXCEPT
                 !.case  = [e \in Envelopes |->
                              IF arena[e] = a THEN none ELSE @[e]],
                 !.place = [o \in Objects |->
                              IF @[o] = a THEN none ELSE @[o]],
                 !.kind  = [o \in Objects |->
                              IF mem.place[o] = a THEN none ELSE @[o]]]
    /\ lent' = {o \in lent : mem.place[o] # a}
    /\ UNCHANGED held
-----------------------------------------------------------------------------
\* mutable_k
mutable(e, k) ==
    /\ Exists(e)
    /\ mem.case[e] # k
    /\ Free(mem) # {}
    /\ mem' = SetNew(ClearPayload(mem, e), e, k)
    /\ UNCHANGED <<arena, held, lent>>

\* clear_k, and clear_payload with k the member that is there.
clear(e, k) ==
    /\ Exists(e)
    /\ mem.case[e] = k
    /\ mem' = ClearPayload(mem, e)
    /\ UNCHANGED <<arena, held, lent>>

release(e, k) ==
    /\ Exists(e)
    /\ mem.case[e] = k
    /\ IF arena[e] = heap
         THEN /\ mem' = Set(mem, e, none, none)
              /\ held' = held \cup {mem.payload[e]}
         ELSE /\ Free(mem) # {}
              /\ mem' = Set(New(mem, k, heap), e, none, none)
              /\ held' = held \cup {Fresh(mem)}
    /\ UNCHANGED <<arena, lent>>

unsafe_arena_release(e, k) ==
    /\ Exists(e)
    /\ mem.case[e] = k
    /\ mem' = Set(mem, e, none, none)
    /\ IF arena[e] = heap
         THEN held' = held \cup {mem.payload[e]} /\ UNCHANGED lent
         ELSE lent' = lent \cup {mem.payload[e]} /\ UNCHANGED held
    /\ UNCHANGED arena

\* The test of the arenas in set_allocated_k and GetOwnedMessage: an object
\* of the same place is taken as it is, one of the heap is given to the arena,
\* and of one of another arena there is a copy.
Adopt(m, e, o) ==
    IF m.place[o] \in {heap, arena[e]}
      THEN Set([m EXCEPT !.place[o] = arena[e]], e, m.kind[o], o)
      ELSE SetNew(m, e, m.kind[o])

set_allocated(e, o) ==
    /\ Exists(e)
    /\ o \in held \cup lent
    /\ mem.place[o] \in {heap, arena[e]} \/ Free(mem) # {}
    /\ mem' = Adopt(ClearPayload(mem, e), e, o)
    /\ held' = held \ {o}
    /\ lent' = IF mem.place[o] = arena[e] THEN lent \ {o} ELSE lent
    /\ UNCHANGED arena

set_allocated_null(e) ==
    /\ Exists(e)
    /\ mem' = ClearPayload(mem, e)
    /\ UNCHANGED <<arena, held, lent>>

unsafe_arena_set_allocated(e, o) ==
    /\ Exists(e)
    /\ o \in held \cup lent
    /\ mem.place[o] = arena[e]
    /\ mem' = Set(ClearPayload(mem, e), e, mem.kind[o], o)
    /\ held' = held \ {o}
    /\ lent' = lent \ {o}
    /\ UNCHANGED arena
-----------------------------------------------------------------------------
merge_from(e, f) ==
    /\ e # f /\ Exists(e) /\ Exists(f)
    /\ Free(mem) # {}
    /\ mem' = Merge(mem, e, mem.case[f])
    /\ UNCHANGED <<arena, held, lent>>

CopyInto(m, e, from) == Merge(ClearPayload(m, e), e, from)

SwapMembers(e, f) ==
    Set(Set(mem, e, mem.case[f], mem.payload[f]),
        f, mem.case[e], mem.payload[e])

\* Mutant of SameArena: a swap across arenas exchanges the pointers.
SameArena_always(e, f) == TRUE

\* CanMoveWithInternalSwap, CanUseInternalSwap
SameArena(e, f) == arena[e] = arena[f]

\* operator=, from a const reference and from an rvalue.
copy_from(e, f) ==
    /\ e # f /\ Exists(e) /\ Exists(f)
    /\ Free(mem) # {}
    /\ mem' = CopyInto(mem, e, mem.case[f])
    /\ UNCHANGED <<arena, held, lent>>

move_from(e, f) ==
    /\ e # f /\ Exists(e) /\ Exists(f)
    /\ Free(mem) # {}
    /\ mem' = IF SameArena(e, f) THEN SwapMembers(e, f)
                                 ELSE CopyInto(mem, e, mem.case[f])
    /\ UNCHANGED <<arena, held, lent>>

swap(e, f) ==
    /\ e # f /\ Exists(e) /\ Exists(f)
    /\ SameArena(e, f) \/ Cardinality(Free(mem)) >= 2
    /\ mem' = IF SameArena(e, f) THEN SwapMembers(e, f)
                ELSE CopyInto(CopyInto(mem, e, mem.case[f]), f, mem.case[e])
    /\ UNCHANGED <<arena, held, lent>>

\* The caller makes an object of its own, or deletes one.
caller_new(k) ==
    /\ Free(mem) # {}
    /\ mem' = New(mem, k, heap)
    /\ held' = held \cup {Fresh(mem)}
    /\ UNCHANGED <<arena, lent>>

caller_delete(o) ==
    /\ o \in held
    /\ mem' = Delete(mem, o)
    /\ held' = held \ {o}
    /\ UNCHANGED <<arena, lent>>
-----------------------------------------------------------------------------
Next ==
    \/ \E e \in Envelopes :
         \/ \E a \in Arenas \cup {heap} :
              construct(e, a) \/ \E f \in Envelopes : construct_copy(e, f, a)
         \/ destroy(e)
         \/ \E k \in Members :
              \/ mutable(e, k)
              \/ clear(e, k)
              \/ release(e, k)
              \/ unsafe_arena_release(e, k)
         \/ \E o \in Objects :
              set_allocated(e, o) \/ unsafe_arena_set_allocated(e, o)
         \/ set_allocated_null(e)
         \/ \E f \in Envelopes :
              merge_from(e, f) \/ copy_from(e, f) \/ move_from(e, f) \/ swap(e, f)
    \/ \E a \in Arenas : destroy_arena(a)
    \/ \E k \in Members : caller_new(k)
    \/ \E o \in Objects : caller_delete(o)

Spec == Init /\ [][Next]_vars
-----------------------------------------------------------------------------
\* Who has the object o: Envelopes as their member, the caller as its own,
\* the caller as a pointer into an arena.
Holders(o) ==
    {<<"payload", e>> : e \in {f \in Envelopes : /\ Exists(f)
                                                 /\ mem.case[f] # none
                                                 /\ mem.payload[f] = o}}
      \cup {x \in {<<"held", held>>, <<"lent", lent>>} : o \in x[2]}

(***************************************************************************)
(* The member that an Envelope reports is an object that still exists, of  *)
(* that type, and as long-lived as the Envelope: release, clear, moves     *)
(* across arenas and the end of an arena leave no dangling member.         *)
(***************************************************************************)
MemberAlive ==
    \A e \in Envelopes :
        LET o == mem.payload[e] IN
        Exists(e) /\ mem.case[e] # none =>
            mem.kind[o] = mem.case[e] /\ mem.place[o] = arena[e]

(***************************************************************************)
(* Every heap object has exactly one owner, so it is deleted once and not  *)
(* leaked, and no two Envelopes share a member.                            *)
(***************************************************************************)
OneOwner ==
    \A o \in Objects :
        /\ Cardinality(Holders(o)) <= 1
        /\ mem.place[o] = heap => Holders(o) # {}
=============================================================================
