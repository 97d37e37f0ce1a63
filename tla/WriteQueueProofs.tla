-------------------------- MODULE WriteQueueProofs --------------------------
(***************************************************************************)
(* Proofs about WriteQueue and FrameWriter, for every queue size of at     *)
(* least two, every overflow limit and any number of messages.             *)
(***************************************************************************)
EXTENDS FrameWriter, FiniteSetTheorems, TLAPS

\* Numbers on the two sides of the socket: what was sent precedes what is
\* in flight, which precedes or equals what is queued.
Ordered ==
    /\ Increasing(sent)
    /\ Increasing(write_queue)
    /\ \A i \in DOMAIN sent : sent[i] <= posted
    /\ \A j \in DOMAIN write_queue : write_queue[j] <= posted
    /\ \A k \in DOMAIN in_flight : in_flight[k] <= posted
    /\ \A i \in DOMAIN sent, j \in DOMAIN write_queue : sent[i] < write_queue[j]
    /\ \A i \in DOMAIN sent, k \in DOMAIN in_flight : sent[i] < in_flight[k]
    /\ \A k \in DOMAIN in_flight, j \in DOMAIN write_queue :
         in_flight[k] <= write_queue[j]

\* Until the first drop the front of the queue is the message in flight and
\* positions determine numbers.
Exact ==
    dropped = {} =>
      /\ posted = Len(sent) + Len(write_queue)
      /\ \A i \in DOMAIN sent : sent[i] = i
      /\ \A j \in DOMAIN write_queue : write_queue[j] = Len(sent) + j
      /\ in_flight # <<>> => in_flight[1] = write_queue[1]

\* close_session sets closed_ before state_.
ClosedFlag == state = "Closed" => closed

WriteInv ==
    TypeOK /\ ClosedFlag /\ SingleWriter /\ NoStall /\ Ordered /\ Exact
-----------------------------------------------------------------------------
\* Append and Tail, pointwise, and what they do to an increasing sequence.
LEMMA AppendShape ==
    ASSUME NEW s \in Seq(Nat), NEW m \in Nat
    PROVE  /\ Append(s, m) \in Seq(Nat)
           /\ Len(Append(s, m)) = Len(s) + 1
           /\ DOMAIN Append(s, m) = 1..(Len(s) + 1)
           /\ \A j \in 1..Len(s) : Append(s, m)[j] = s[j]
           /\ Append(s, m)[Len(s) + 1] = m
OBVIOUS

\* A queue without its front.
LEMMA TailShape ==
    ASSUME NEW s \in Seq(Nat), s # <<>>
    PROVE  /\ Tail(s) \in Seq(Nat)
           /\ Len(Tail(s)) = Len(s) - 1
           /\ DOMAIN Tail(s) = 1..(Len(s) - 1)
           /\ \A j \in 1..(Len(s) - 1) : Tail(s)[j] = s[j + 1]
OBVIOUS

\* A number above all others keeps a queue increasing.
LEMMA AppendIncreasing ==
    ASSUME NEW s \in Seq(Nat), NEW m \in Nat, Increasing(s),
           \A j \in DOMAIN s : s[j] < m
    PROVE  Increasing(Append(s, m))
<1> DEFINE q == Append(s, m)
<1>1. /\ DOMAIN q = 1..(Len(s) + 1)
      /\ \A j \in 1..Len(s) : q[j] = s[j]
      /\ q[Len(s) + 1] = m
  BY AppendShape
<1>2. DOMAIN s = 1..Len(s) /\ Len(s) \in Nat
  OBVIOUS
<1> HIDE DEF q
<1> SUFFICES ASSUME NEW i \in DOMAIN q, NEW j \in DOMAIN q, i < j
             PROVE  q[i] < q[j]
  BY DEF Increasing, q
<1>3. i \in 1..Len(s) /\ (j \in 1..Len(s) \/ j = Len(s) + 1)
  BY <1>1, <1>2
<1>4. CASE j \in 1..Len(s)
  BY <1>1, <1>2, <1>3, <1>4 DEF Increasing
<1>5. CASE j = Len(s) + 1
  BY <1>1, <1>2, <1>3, <1>5
<1> QED  BY <1>3, <1>4, <1>5

\* Taking the front off keeps a queue increasing.
LEMMA TailIncreasing ==
    ASSUME NEW s \in Seq(Nat), s # <<>>, Increasing(s)
    PROVE  Increasing(Tail(s))
<1>1. /\ DOMAIN Tail(s) = 1..(Len(s) - 1)
      /\ \A j \in 1..(Len(s) - 1) : Tail(s)[j] = s[j + 1]
  BY TailShape
<1>2. DOMAIN s = 1..Len(s) /\ Len(s) \in Nat
  OBVIOUS
<1> SUFFICES ASSUME NEW i \in 1..(Len(s) - 1), NEW j \in 1..(Len(s) - 1), i < j 
             PROVE s[i + 1] < s[j + 1]
  BY <1>1 DEF Increasing
<1>3. i + 1 \in DOMAIN s /\ j + 1 \in DOMAIN s /\ i + 1 < j + 1
  BY <1>2
<1> QED  BY <1>3 DEF Increasing

\* Sequences with exactly one element.
LEMMA SeqOne ==
    ASSUME NEW x \in Nat
    PROVE  /\ <<x>> \in Seq(Nat) /\ <<x>> # <<>> /\ <<>> \in Seq(Nat)
           /\ Len(<<x>>) = 1 /\ DOMAIN <<x>> = 1..1 /\ <<x>>[1] = x
OBVIOUS

\* A queue with one element at most is that element.
LEMMA SingletonSeq ==
    ASSUME NEW s \in Seq(Nat), s # <<>>, Len(s) <= 1
    PROVE  s = <<s[1]>> /\ s[1] \in Nat /\ Head(s) = s[1] /\ Tail(s) = <<>>
<1>1. Head(s) = s[1] /\ s[1] \in Nat
  OBVIOUS
<1>2. Tail(s) \in Seq(Nat) /\ Len(Tail(s)) <= 0
  OBVIOUS
<1>3. Len(s) = 1
  <2>1. \A n \in Nat : n <= 1 /\ n >= 1 => n = 1
    OBVIOUS
  <2>2. Len(s) \in Nat /\ Len(s) >= 1
    OBVIOUS
  <2> QED  BY <2>1, <2>2
<1>4. s = <<s[1]>>
  BY <1>3
<1>5. Tail(s) = <<>>
  BY <1>2
<1> QED  BY <1>1, <1>4, <1>5

(***************************************************************************)
(* What enqueue_write leaves in the queue: never more than the limit,      *)
(* never nothing.                                                          *)
(***************************************************************************)
LEMMA KeptType ==
    ASSUME TypeOK
    PROVE  /\ Kept \in Seq(Nat)
           /\ Len(Kept) < MaxWriteQueueSize
           /\ Full => Len(Kept) = Len(write_queue) - 1 /\ Len(write_queue) >= 2
           /\ \A j \in 1..Len(Kept) :
                Kept[j] = IF Full THEN write_queue[j + 1] ELSE write_queue[j]
<1>1. CASE Full
  <2>1. write_queue \in Seq(Nat) /\ Len(write_queue) = MaxWriteQueueSize
        /\ Len(write_queue) >= 2
    BY <1>1, WriteQueueConfig DEF TypeOK, Full
  <2>2. write_queue # <<>>
    BY <2>1
  <2> QED  BY <1>1, <2>1, <2>2, WriteQueueConfig DEF Kept
<1>2. CASE ~Full
  BY <1>2, WriteQueueConfig DEF TypeOK, Full, Kept
<1> QED  BY <1>1, <1>2

\* enqueue_write leaves a queue within its limit, and never an empty one.
LEMMA EnqueuedType ==
    ASSUME TypeOK, NEW m \in Nat
    PROVE  /\ Enqueued(m) \in Seq(Nat)
           /\ Len(Enqueued(m)) <= MaxWriteQueueSize
           /\ Enqueued(m) # <<>>
<1>1. CASE GivesUp
  BY <1>1, KeptType, WriteQueueConfig DEF GivesUp, Enqueued, TypeOK
<1>2. CASE ~GivesUp
  <2>1. Kept \in Seq(Nat) /\ Len(Kept) < MaxWriteQueueSize
    BY KeptType
  <2>2. Enqueued(m) = Append(Kept, m)
    BY <1>2 DEF Enqueued
  <2> QED  BY <2>1, <2>2, WriteQueueConfig
<1> QED  BY <1>1, <1>2

(***************************************************************************)
(* do_write_queue keeps the types and never adds to a write in flight      *)
(* unless it was entered with none.                                        *)
(***************************************************************************)
LEMMA DoWriteType ==
    ASSUME NEW q \in Seq(Nat), NEW fl \in Seq(Nat), NEW wip \in BOOLEAN,
           do_write_queue(q, fl, wip)
    PROVE  /\ write_queue' = q
           /\ in_flight' \in Seq(Nat)
           /\ write_in_progress' \in BOOLEAN
           /\ \/ in_flight' = fl
              \/ q # <<>> /\ in_flight' = Append(fl, q[1]) /\ write_in_progress' = wip
<1>1. /\ write_queue' = q
      /\ write_in_progress' \in BOOLEAN
  BY Zenon DEF do_write_queue
<1>2. \/ in_flight' = fl
      \/ q # <<>> /\ in_flight' = Append(fl, Head(q)) /\ write_in_progress' = wip
  BY Zenon DEF do_write_queue
<1>3. q # <<>> => Head(q) = q[1] /\ Head(q) \in Nat
  OBVIOUS
<1>4. in_flight' \in Seq(Nat)
  <2>1. CASE in_flight' = fl
    BY <2>1
  <2>2. CASE q # <<>> /\ in_flight' = Append(fl, Head(q))
    BY <2>2, <1>3
  <2> QED  BY <2>1, <2>2, <1>2
<1> QED  BY <1>1, <1>2, <1>3, <1>4, Zenon

\* A new session has nothing queued and nothing in flight.
LEMMA InitWriteInv == Init => WriteInv
<1> SUFFICES ASSUME Init PROVE WriteInv
  OBVIOUS
<1> USE DEF Init
<1>1. TypeOK
  <2>1. closed \in BOOLEAN /\ write_in_progress \in BOOLEAN
    BY Zenon
  <2>2. Len(write_queue) <= MaxWriteQueueSize
    BY WriteQueueConfig
  <2> QED  BY <2>1, <2>2 DEF TypeOK, SessionState
<1>2. ClosedFlag
  BY DEF ClosedFlag
<1>3. SingleWriter
  BY DEF SingleWriter
<1>4. NoStall
  BY DEF NoStall
<1>5. Ordered
  BY DEF Ordered, Increasing
<1>6. Exact
  BY DEF Exact
<1> QED  BY <1>1, <1>2, <1>3, <1>4, <1>5, <1>6 DEF WriteInv

(***************************************************************************)
(* The handler of post_write, in terms of the sequences it works on.       *)
(***************************************************************************)
LEMMA PostWriteShape ==
    ASSUME TypeOK, SingleWriter, post_write
    PROVE  /\ posted' = posted + 1 /\ posted + 1 \in Nat
           /\ sent' = sent /\ state' = state
           /\ write_queue' = Enqueued(posted + 1)
           /\ write_queue # <<>> =>
                in_flight' = in_flight /\ write_in_progress' = write_in_progress
           /\ write_queue = <<>> =>
                /\ in_flight = <<>>
                /\ write_queue' = <<posted + 1>>
                /\ \/ state = "Closed" /\ in_flight' = <<>>
                   \/ in_flight' = <<posted + 1>> /\ write_in_progress'
                /\ write_in_progress' \in BOOLEAN
<1>1. posted + 1 \in Nat
  BY DEF TypeOK
<1>2. /\ posted' = posted + 1 /\ sent' = sent /\ state' = state
      /\ write_queue' = Enqueued(posted + 1)
      /\ write_queue # <<>> =>
           in_flight' = in_flight /\ write_in_progress' = write_in_progress
  BY Zenon DEF post_write, do_write_queue
<1>3. ASSUME write_queue = <<>>
      PROVE  /\ in_flight = <<>>
             /\ write_queue' = <<posted + 1>>
             /\ \/ state = "Closed" /\ in_flight' = <<>>
                \/ in_flight' = <<posted + 1>> /\ write_in_progress'
             /\ write_in_progress' \in BOOLEAN
  <2>1. in_flight = <<>>
    BY <1>3 DEF SingleWriter
  <2>2. ~Full
    BY <1>3, WriteQueueConfig DEF Full
  <2>3. Enqueued(posted + 1) = <<posted + 1>>
    BY <1>3, <2>2 DEF Enqueued, GivesUp, Kept
  <2>4. do_write_queue(<<posted + 1>>, in_flight, TRUE)
    BY <1>3, <2>3, Zenon DEF post_write
  <2>5. /\ \/ state = "Closed" /\ in_flight' = in_flight
           \/ in_flight' = Append(in_flight, Head(<<posted + 1>>)) /\ write_in_progress'
           \/ <<posted + 1>> = <<>>
        /\ write_in_progress' \in BOOLEAN
    BY <2>4, Zenon DEF do_write_queue
  <2>6. /\ Head(<<posted + 1>>) = posted + 1
        /\ Append(<<>>, posted + 1) = <<posted + 1>>
        /\ <<posted + 1>> # <<>>
    BY <1>1
  <2> QED  BY <1>2, <2>1, <2>3, <2>5, <2>6, Zenon
<1> QED  BY <1>1, <1>2, <1>3, Zenon

(***************************************************************************)
(* The completion handler without error: one write less in flight, then    *)
(* perhaps the next one.                                                   *)
(***************************************************************************)
LEMMA WriteSucceededShape ==
    ASSUME TypeOK, SingleWriter, write_succeeded
    PROVE  /\ in_flight = <<in_flight[1]>> /\ in_flight[1] \in Nat
           /\ write_queue # <<>>
           /\ sent' = Append(sent, in_flight[1])
           /\ write_queue' = Tail(write_queue)
           /\ Tail(write_queue) \in Seq(Nat)
           /\ Len(Tail(write_queue)) = Len(write_queue) - 1
           /\ \A j \in 1..Len(Tail(write_queue)) :
                Tail(write_queue)[j] = write_queue[j + 1]
           /\ \/ /\ in_flight' = <<>>
                 /\ state = "Closed" \/ Tail(write_queue) = <<>>
              \/ /\ in_flight' = <<write_queue[2]>>
                 /\ Len(write_queue) >= 2
                 /\ write_in_progress' = write_in_progress
           /\ write_in_progress' \in BOOLEAN
<1>1. in_flight \in Seq(Nat) /\ in_flight # <<>> /\ Len(in_flight) <= 1
  BY DEF TypeOK, SingleWriter, write_succeeded
<1>2. /\ in_flight = <<in_flight[1]>> /\ in_flight[1] \in Nat
      /\ Head(in_flight) = in_flight[1] /\ Tail(in_flight) = <<>>
  BY <1>1, SingletonSeq
<1>3. write_queue # <<>> /\ write_queue \in Seq(Nat)
  BY DEF TypeOK, SingleWriter, write_succeeded
<1>4. /\ Tail(write_queue) \in Seq(Nat)
      /\ Len(Tail(write_queue)) = Len(write_queue) - 1
      /\ \A j \in 1..Len(Tail(write_queue)) :
           Tail(write_queue)[j] = write_queue[j + 1]
  BY <1>3
<1>5. /\ sent' = Append(sent, in_flight[1])
      /\ write_queue' = Tail(write_queue)
      /\ do_write_queue(Tail(write_queue), <<>>, write_in_progress)
  BY <1>2, Zenon DEF write_succeeded, do_write_queue
<1>6. /\ \/ in_flight' = <<>> /\ (state = "Closed" \/ Tail(write_queue) = <<>>)
         \/ /\ Tail(write_queue) # <<>>
            /\ in_flight' = Append(<<>>, Head(Tail(write_queue)))
            /\ write_in_progress' = write_in_progress
      /\ write_in_progress' \in BOOLEAN
  <2>1. write_in_progress \in BOOLEAN
    BY DEF TypeOK
  <2> QED  BY <1>5, <2>1, Zenon DEF do_write_queue
<1>7. Tail(write_queue) # <<>> =>
        /\ Append(<<>>, Head(Tail(write_queue))) = <<write_queue[2]>>
        /\ Len(write_queue) >= 2
  <2> SUFFICES ASSUME Tail(write_queue) # <<>>
               PROVE  /\ Append(<<>>, Head(Tail(write_queue))) = <<write_queue[2]>>
                      /\ Len(write_queue) >= 2
    OBVIOUS
  <2>1. Len(Tail(write_queue)) >= 1 /\ Head(Tail(write_queue)) = Tail(write_queue)[1]
    BY <1>4
  <2>2. Tail(write_queue)[1] = write_queue[2] /\ write_queue[2] \in Nat
    BY <1>3, <1>4, <2>1
  <2> QED  BY <1>3, <1>4, <2>1, <2>2
<1> QED  BY <1>2, <1>3, <1>4, <1>5, <1>6, <1>7, Zenon

\* Every step of the queue keeps the types.
LEMMA TypeStep == TypeOK /\ SingleWriter /\ [Next]_vars => TypeOK'
<1> SUFFICES ASSUME TypeOK, SingleWriter, [Next]_vars PROVE TypeOK'
  OBVIOUS
<1>1. CASE post_write
  <2>1. /\ write_queue' \in Seq(Nat)
        /\ Len(write_queue') <= MaxWriteQueueSize
        /\ posted' \in Nat
    BY <1>1, PostWriteShape, EnqueuedType
  <2>2. in_flight' \in Seq(Nat)
    <3>1. CASE write_queue # <<>>
      BY <1>1, <3>1, PostWriteShape DEF TypeOK
    <3>2. CASE write_queue = <<>>
      <4>1. posted + 1 \in Nat /\ (in_flight' = <<>> \/ in_flight' = <<posted + 1>>)
        BY <1>1, <3>2, PostWriteShape, Zenon
      <4> QED  BY <4>1, SeqOne, Zenon
    <3> QED  BY <3>1, <3>2
  <2>3. write_in_progress' \in BOOLEAN
    BY <1>1, PostWriteShape, Zenon DEF TypeOK
  <2>4. closed' \in BOOLEAN
    BY <1>1 DEF post_write, enqueue_write
  <2>5. overflow_count' \in Nat
    BY <1>1 DEF post_write, enqueue_write, TypeOK
  <2>6. dropped' \subseteq Nat
    <3>1. Full => Head(write_queue) \in Nat
      BY WriteQueueConfig DEF TypeOK, Full
    <3>2. dropped' = dropped \cup (IF Full THEN {Head(write_queue)} ELSE {})
                             \cup (IF GivesUp THEN {posted + 1} ELSE {})
      BY <1>1 DEF post_write, enqueue_write
    <3>3. dropped \subseteq Nat /\ posted + 1 \in Nat
      BY DEF TypeOK
    <3> QED  BY <3>1, <3>2, <3>3
  <2>7. state' \in SessionState /\ sent' \in Seq(Nat)
    BY <1>1 DEF post_write, TypeOK
  <2> QED  BY <2>1, <2>2, <2>3, <2>4, <2>5, <2>6, <2>7 DEF TypeOK
<1>2. CASE write_succeeded
  <2>1. write_queue' \in Seq(Nat) /\ Len(write_queue') <= MaxWriteQueueSize
    <3>1. Len(write_queue') = Len(write_queue) - 1 /\ write_queue' \in Seq(Nat)
      BY <1>2, WriteSucceededShape
    <3>2. Len(write_queue) \in Nat /\ Len(write_queue) <= MaxWriteQueueSize
      BY DEF TypeOK
    <3> QED  BY <3>1, <3>2, WriteQueueConfig
  <2>2. sent' \in Seq(Nat)
    <3>1. sent' = Append(sent, in_flight[1]) /\ in_flight[1] \in Nat
      BY <1>2, WriteSucceededShape, Zenon
    <3> QED  BY <3>1 DEF TypeOK
  <2>3. in_flight' \in Seq(Nat)
    <3>1. Len(write_queue) >= 2 => write_queue[2] \in Nat
      BY DEF TypeOK
    <3>2. in_flight' = <<>> \/ (in_flight' = <<write_queue[2]>> /\ Len(write_queue) >= 2)
      BY <1>2, WriteSucceededShape, Zenon
    <3> QED  BY <3>1, <3>2, SeqOne, Zenon
  <2>4. write_in_progress' \in BOOLEAN
    BY <1>2, WriteSucceededShape
  <2>5. UNCHANGED <<closed, state, posted, overflow_count, dropped>>
    BY <1>2 DEF write_succeeded
  <2> QED  BY <2>1, <2>2, <2>3, <2>4, <2>5 DEF TypeOK
<1>3. CASE write_failed
  <2>1. in_flight' \in Seq(Nat) /\ closed' \in BOOLEAN
    BY <1>3 DEF write_failed, TypeOK
  <2> QED  BY <1>3, <2>1 DEF write_failed, TypeOK
<1>4. CASE SessionFlags
  <2>1. closed' \in BOOLEAN /\ state' \in SessionState
    BY <1>4, Zenon DEF SessionFlags, TypeOK, SessionState
  <2> QED  BY <1>4, <2>1 DEF SessionFlags, TypeOK, queueVars
<1>5. CASE UNCHANGED vars
  BY <1>5 DEF vars, queueVars, TypeOK
<1> QED  BY <1>1, <1>2, <1>3, <1>4, <1>5 DEF Next

(***************************************************************************)
(* post_write preserves the invariant.                                     *)
(***************************************************************************)
LEMMA PostWriteStep ==
    ASSUME WriteInv, TypeOK', post_write
    PROVE  WriteInv'
<1> DEFINE m == posted + 1
<1>1. /\ TypeOK /\ SingleWriter /\ Ordered /\ Exact
      /\ m \in Nat /\ posted \in Nat /\ posted' = m /\ sent' = sent /\ state' = state
      /\ write_queue' = Enqueued(m)
  <2>1. TypeOK /\ SingleWriter /\ Ordered /\ Exact
    BY DEF WriteInv
  <2>2. posted \in Nat
    BY <2>1 DEF TypeOK
  <2> QED  BY <2>1, <2>2, PostWriteShape, Zenon
<1> HIDE DEF m
<1>2. /\ Enqueued(m) \in Seq(Nat) /\ Enqueued(m) # <<>>
      /\ write_queue \in Seq(Nat) /\ in_flight \in Seq(Nat) /\ sent \in Seq(Nat)
  <2>1. Enqueued(m) \in Seq(Nat) /\ Enqueued(m) # <<>>
    BY <1>1, EnqueuedType
  <2> QED  BY <1>1, <2>1 DEF TypeOK
<1>3. CASE write_queue = <<>>
  <2>1. /\ in_flight = <<>> /\ write_queue' = <<m>>
        /\ \/ state = "Closed" /\ in_flight' = <<>>
           \/ in_flight' = <<m>> /\ write_in_progress'
    BY <1>1, <1>3, PostWriteShape, Zenon DEF m
  <2>2. /\ in_flight' \in Seq(Nat) /\ Len(in_flight') <= 1
        /\ \A k \in DOMAIN in_flight' : in_flight'[k] = m
        /\ in_flight' # <<>> => in_flight'[1] = m
    <3>1. CASE in_flight' = <<>>
      BY <3>1
    <3>2. CASE in_flight' = <<m>>
      BY <1>1, <3>2
    <3> QED  BY <2>1, <3>1, <3>2, Zenon
  <2>3. ClosedFlag'
    BY <1>1, Zenon DEF WriteInv, ClosedFlag, post_write, enqueue_write
  <2>4. SingleWriter'
    <3>1. Len(in_flight') <= 1 /\ write_queue' # <<>>
      BY <1>1, <2>1, <2>2
    <3> QED  BY <2>1, <3>1, Zenon DEF SingleWriter
  <2>5. NoStall'
    <3>1. <<m>> # <<>>
      OBVIOUS
    <3> QED  BY <1>1, <2>1, <2>3, <3>1, Zenon DEF NoStall, ClosedFlag
  <2>6. Ordered'
    <3>1. \A i \in DOMAIN sent : sent[i] < m
      BY <1>1, <1>2 DEF Ordered, m
    <3>2. Increasing(sent)
      BY <1>1 DEF Ordered
    <3>3. Increasing(<<m>>)
      BY <1>1 DEF Increasing
    <3> QED  BY <1>1, <1>2, <2>1, <2>2, <3>1, <3>2, <3>3 DEF Ordered
  <2>7. Exact'
    <3> SUFFICES ASSUME dropped' = {}
                 PROVE  /\ posted' = Len(sent') + Len(write_queue')
                        /\ \A i \in DOMAIN sent' : sent'[i] = i
                        /\ \A j \in DOMAIN write_queue' : write_queue'[j] = Len(sent') + j
                        /\ in_flight' # <<>> => in_flight'[1] = write_queue'[1]
      BY Zenon DEF Exact
    <3>1. dropped = {}
      BY DEF post_write, enqueue_write
    <3>2. posted = Len(sent) /\ \A i \in DOMAIN sent : sent[i] = i
      BY <1>1, <1>2, <1>3, <3>1 DEF Exact
    <3>3. Len(<<m>>) = 1 /\ <<m>>[1] = m /\ DOMAIN <<m>> = 1..1
      BY <1>1, SeqOne
    <3>4. m = Len(sent) + 1
      BY <3>2 DEF m
    <3> QED  BY <1>1, <1>2, <2>1, <2>2, <3>2, <3>3, <3>4
  <2> QED  BY <2>3, <2>4, <2>5, <2>6, <2>7 DEF WriteInv
<1>4. CASE write_queue # <<>>
  <2>1. in_flight' = in_flight /\ write_in_progress' = write_in_progress
    BY <1>1, <1>4, PostWriteShape, Zenon
  <2>3. ClosedFlag'
    BY <1>1, Zenon DEF WriteInv, ClosedFlag, post_write, enqueue_write
  <2>4. SingleWriter'
    BY <1>1, <1>2, <2>1 DEF SingleWriter
  <2>5. NoStall'
    BY <1>4, <2>1, Zenon DEF WriteInv, NoStall, post_write, enqueue_write
  <2>6. Ordered'
    <3> DEFINE Fits(q) ==
          /\ Increasing(q)
          /\ \A j \in DOMAIN q : q[j] \in Nat /\ q[j] <= m
          /\ \A i \in DOMAIN sent, j \in DOMAIN q : sent[i] < q[j]
          /\ \A k \in DOMAIN in_flight, j \in DOMAIN q : in_flight[k] <= q[j]
    <3>1. /\ \A i \in DOMAIN sent : sent[i] < m
          /\ \A k \in DOMAIN in_flight : in_flight[k] < m
          /\ \A j \in DOMAIN write_queue : write_queue[j] \in Nat /\ write_queue[j] < m
          /\ Increasing(sent)
      BY <1>1, <1>2 DEF Ordered, m
    <3>2. Fits(write_queue)
      BY <1>1, <1>2, <3>1 DEF Ordered
    <3>3. /\ Tail(write_queue) \in Seq(Nat) /\ Increasing(Tail(write_queue))
          /\ \A j \in DOMAIN Tail(write_queue) :
               j + 1 \in DOMAIN write_queue /\ Tail(write_queue)[j] = write_queue[j + 1]
      <4>1. Increasing(write_queue)
        BY <3>2
      <4>2. Len(write_queue) \in Nat /\ DOMAIN write_queue = 1..Len(write_queue)
        BY <1>2
      <4> QED  BY <1>2, <1>4, <4>1, <4>2, TailShape, TailIncreasing
    <3>4. /\ Kept \in Seq(Nat) /\ Fits(Kept)
          /\ \A j \in DOMAIN Kept : Kept[j] < m
      <4>1. Kept = write_queue \/ Kept = Tail(write_queue)
        BY DEF Kept
      <4>2. CASE Kept = write_queue
        BY <1>2, <3>1, <3>2, <4>2
      <4>3. CASE Kept = Tail(write_queue)
        BY <3>1, <3>2, <3>3, <4>3
      <4> QED  BY <4>1, <4>2, <4>3
    <3>5. Fits(Append(Kept, m))
      <4> DEFINE q == Append(Kept, m)
      <4>1. Increasing(q)
        BY <1>1, <3>4, AppendIncreasing
      <4>2. \A j \in DOMAIN q : q[j] = m \/ (j \in DOMAIN Kept /\ q[j] = Kept[j])
        <5>1. /\ DOMAIN q = 1..(Len(Kept) + 1)
              /\ \A j \in 1..Len(Kept) : q[j] = Kept[j]
              /\ q[Len(Kept) + 1] = m
          BY <1>1, <3>4, AppendShape
        <5>2. Len(Kept) \in Nat /\ DOMAIN Kept = 1..Len(Kept)
          BY <3>4
        <5> HIDE DEF q
        <5> QED  BY <5>1, <5>2
      <4> HIDE DEF q
      <4>3. \A j \in DOMAIN q : q[j] \in Nat /\ q[j] <= m
        BY <1>1, <3>4, <4>2
      <4>4. \A i \in DOMAIN sent, j \in DOMAIN q : sent[i] < q[j]
        BY <3>1, <3>4, <4>2
      <4>5. \A k \in DOMAIN in_flight, j \in DOMAIN q : in_flight[k] <= q[j]
        <5>1. \A k \in DOMAIN in_flight : in_flight[k] <= m
          BY <1>1, <1>2, <3>1
        <5> QED  BY <3>4, <4>2, <5>1
      <4> QED  BY <4>1, <4>3, <4>4, <4>5 DEF q
    <3>6. Fits(Enqueued(m))
      BY <3>4, <3>5, Zenon DEF Enqueued
    <3>7. /\ \A i \in DOMAIN sent : sent[i] <= m
          /\ \A k \in DOMAIN in_flight : in_flight[k] <= m
          /\ \A i \in DOMAIN sent, k \in DOMAIN in_flight : sent[i] < in_flight[k]
      BY <1>1, <1>2, <3>1 DEF Ordered
    <3> QED  BY <1>1, <2>1, <3>1, <3>6, <3>7 DEF Ordered
  <2>7. Exact'
    <3> SUFFICES ASSUME dropped' = {}
                 PROVE  /\ posted' = Len(sent') + Len(write_queue')
                        /\ \A i \in DOMAIN sent' : sent'[i] = i
                        /\ \A j \in DOMAIN write_queue' : write_queue'[j] = Len(sent') + j
                        /\ in_flight' # <<>> => in_flight'[1] = write_queue'[1]
      BY Zenon DEF Exact
    <3>1. dropped = {} /\ ~Full
      BY DEF post_write, enqueue_write
    <3>2. Enqueued(m) = Append(write_queue, m)
      BY <3>1 DEF Enqueued, GivesUp, Kept
    <3>3. /\ posted = Len(sent) + Len(write_queue)
          /\ \A i \in DOMAIN sent : sent[i] = i
          /\ \A j \in DOMAIN write_queue : write_queue[j] = Len(sent) + j
          /\ in_flight # <<>> => in_flight[1] = write_queue[1]
      BY <1>1, <3>1 DEF Exact
    <3> DEFINE q == Append(write_queue, m)
    <3>4. write_queue' = q /\ m = Len(sent) + Len(write_queue) + 1
      BY <1>1, <3>2, <3>3 DEF m
    <3>5. /\ Len(q) = Len(write_queue) + 1 /\ DOMAIN q = 1..(Len(write_queue) + 1)
          /\ \A j \in 1..Len(write_queue) : q[j] = write_queue[j]
          /\ q[Len(write_queue) + 1] = m
      BY <1>1, <1>2, AppendShape
    <3>6. /\ Len(write_queue) \in Nat /\ Len(write_queue) >= 1 /\ Len(sent) \in Nat
          /\ DOMAIN write_queue = 1..Len(write_queue)
      BY <1>2, <1>4
    <3> HIDE DEF q
    <3>7. \A j \in DOMAIN q : q[j] = Len(sent) + j
      BY <3>3, <3>4, <3>5, <3>6
    <3>8. q[1] = write_queue[1]
      BY <3>5, <3>6
    <3> QED  BY <1>1, <2>1, <3>3, <3>4, <3>5, <3>6, <3>7, <3>8
  <2> QED  BY <2>3, <2>4, <2>5, <2>6, <2>7 DEF WriteInv
<1> QED  BY <1>3, <1>4

(***************************************************************************)
(* A completed write preserves the invariant.                              *)
(***************************************************************************)
LEMMA WriteSucceededStep ==
    ASSUME WriteInv, TypeOK', write_succeeded
    PROVE  WriteInv'
<1> DEFINE f == in_flight[1]
           q == Tail(write_queue)
<1>1. TypeOK /\ SingleWriter /\ Ordered /\ Exact
  BY DEF WriteInv
<1>2. /\ in_flight = <<f>> /\ f \in Nat /\ write_queue # <<>>
      /\ sent' = Append(sent, f) /\ write_queue' = q
      /\ \/ in_flight' = <<>> /\ (state = "Closed" \/ q = <<>>)
         \/ /\ in_flight' = <<write_queue[2]>> /\ Len(write_queue) >= 2
            /\ write_in_progress' = write_in_progress
  BY <1>1, WriteSucceededShape, Zenon
<1>3. /\ write_queue \in Seq(Nat) /\ sent \in Seq(Nat)
      /\ DOMAIN write_queue = 1..Len(write_queue) /\ DOMAIN sent = 1..Len(sent)
      /\ Len(write_queue) \in Nat /\ Len(sent) \in Nat /\ posted \in Nat
  BY <1>1 DEF TypeOK
<1>4. Len(write_queue) >= 1
  BY <1>2, <1>3
<1>5. /\ q \in Seq(Nat) /\ Len(q) = Len(write_queue) - 1
      /\ DOMAIN q = 1..(Len(write_queue) - 1)
      /\ \A j \in DOMAIN q : q[j] = write_queue[j + 1] /\ j + 1 \in DOMAIN write_queue
  BY <1>2, <1>3, TailShape
<1>6. UNCHANGED <<closed, state, posted, dropped>>
  BY DEF write_succeeded
<1>7. /\ in_flight' \in Seq(Nat) /\ Len(in_flight') <= 1
      /\ in_flight' # <<>> => Len(write_queue) >= 2 /\ in_flight'[1] = write_queue[2]
      /\ \A k \in DOMAIN in_flight' :
           k = 1 /\ in_flight'[k] = write_queue[2] /\ Len(write_queue) >= 2
  <2>1. CASE in_flight' = <<>>
    BY <2>1
  <2>2. CASE in_flight' = <<write_queue[2]>> /\ Len(write_queue) >= 2
    <3>1. write_queue[2] \in Nat
      BY <1>3, <2>2
    <3>2. /\ in_flight' \in Seq(Nat) /\ Len(in_flight') <= 1
          /\ in_flight'[1] = write_queue[2] /\ DOMAIN in_flight' = 1..1
      BY <2>2, <3>1, SeqOne
    <3>3. \A k \in 1..1 : k = 1
      OBVIOUS
    <3> QED  BY <2>2, <3>2, <3>3, Zenon
  <2> QED  BY <1>2, <2>1, <2>2, Zenon
<1>8. Len(write_queue) >= 2 => 1 \in DOMAIN q /\ q[1] = write_queue[2]
  BY <1>3, <1>5
<1>9. ClosedFlag'
  BY <1>6, Zenon DEF WriteInv, ClosedFlag
<1>10. SingleWriter'
  <2>1. in_flight' # <<>> => q # <<>>
    BY <1>5, <1>7
  <2>2. write_in_progress
    BY <1>1, <1>2, Zenon DEF SingleWriter, write_succeeded
  <2>3. in_flight' # <<>> => write_in_progress'
    BY <1>2, <2>2, Zenon
  <2> QED  BY <1>2, <1>7, <2>1, <2>3, Zenon DEF SingleWriter
<1>11. NoStall'
  <2>1. <<write_queue[2]>> # <<>>
    OBVIOUS
  <2> QED  BY <1>2, <1>6, <1>9, <2>1, Zenon DEF NoStall, ClosedFlag
<1> HIDE DEF q
<1> DEFINE h == Append(sent, f)
<1>12. /\ DOMAIN h = 1..(Len(sent) + 1) /\ Len(h) = Len(sent) + 1
       /\ \A i \in DOMAIN sent : h[i] = sent[i]
       /\ h[Len(sent) + 1] = f
       /\ h \in Seq(Nat)
  BY <1>2, <1>3, AppendShape
<1>13. \A i \in DOMAIN h : i \in DOMAIN sent \/ i = Len(sent) + 1
  <2> HIDE DEF h
  <2> QED  BY <1>3, <1>12
<1>14. 1 \in DOMAIN in_flight
  BY <1>2
<1>15. /\ \A i \in DOMAIN sent : sent[i] \in Nat /\ sent[i] < f
       /\ \A j \in DOMAIN write_queue : write_queue[j] \in Nat /\ f <= write_queue[j]
       /\ f <= posted
       /\ Increasing(sent) /\ Increasing(write_queue)
  BY <1>1, <1>3, <1>14 DEF Ordered
<1> HIDE DEF f
<1>16. Increasing(h)
  BY <1>2, <1>3, <1>15, AppendIncreasing
<1> HIDE DEF h
<1>17. Ordered'
  <2>1. \A i \in DOMAIN h : h[i] \in Nat /\ h[i] <= f
    <3>1. \A i \in DOMAIN sent : h[i] \in Nat /\ h[i] <= f
      BY <1>2, <1>12, <1>15
    <3> QED  BY <1>2, <1>12, <1>13, <3>1
  <2>2. \A j \in DOMAIN q : q[j] \in Nat /\ f < q[j] /\ q[j] <= posted
    <3>1. \A j \in DOMAIN q : write_queue[1] < write_queue[j + 1] /\ f <= write_queue[1]
      <4> SUFFICES ASSUME NEW j \in DOMAIN q
                   PROVE  write_queue[1] < write_queue[j + 1] /\ f <= write_queue[1]
        OBVIOUS
      <4>1. 1 \in DOMAIN write_queue /\ j + 1 \in DOMAIN write_queue /\ 1 < j + 1
        BY <1>3, <1>4, <1>5
      <4> QED  BY <1>15, <4>1 DEF Increasing
    <3>2. \A j \in DOMAIN write_queue : write_queue[j] <= posted
      BY <1>1 DEF Ordered
    <3>3. write_queue[1] \in Nat
      BY <1>3, <1>4
    <3> QED  BY <1>2, <1>5, <1>15, <3>1, <3>2, <3>3
  <2>3. Increasing(q)
    BY <1>2, <1>3, <1>15, TailIncreasing DEF q
  <2>4. \A i \in DOMAIN h, j \in DOMAIN q : h[i] < q[j]
    BY <1>2, <2>1, <2>2
  <2>5. \A k \in DOMAIN in_flight' :
          1 \in DOMAIN q /\ in_flight'[k] = q[1]
    <3> SUFFICES ASSUME NEW k \in DOMAIN in_flight'
                 PROVE  1 \in DOMAIN q /\ in_flight'[k] = q[1]
      OBVIOUS
    <3>1. in_flight'[k] = write_queue[2] /\ Len(write_queue) >= 2
      BY <1>7
    <3> QED  BY <1>8, <3>1
  <2>6. /\ \A k \in DOMAIN in_flight' : in_flight'[k] <= posted
        /\ \A i \in DOMAIN h, k \in DOMAIN in_flight' : h[i] < in_flight'[k]
    BY <2>2, <2>4, <2>5
  <2>7. \A j \in DOMAIN q : q[1] <= q[j]
    <3>1. \A j \in DOMAIN q : 1 \in DOMAIN q /\ (j = 1 \/ 1 < j)
      BY <1>3, <1>5
    <3> QED  BY <2>2, <2>3, <3>1 DEF Increasing
  <2>8. \A k \in DOMAIN in_flight', j \in DOMAIN q : in_flight'[k] <= q[j]
    BY <2>5, <2>7
  <2>9. \A i \in DOMAIN h : h[i] <= posted
    BY <1>2, <1>3, <1>15, <2>1
  <2>10. sent' = h /\ write_queue' = q /\ posted' = posted
    BY <1>2, <1>6 DEF h
  <2> QED  BY <1>16, <2>2, <2>3, <2>4, <2>6, <2>8, <2>9, <2>10 DEF Ordered
<1>18. Exact'
  <2> SUFFICES ASSUME dropped' = {}
               PROVE  /\ posted' = Len(sent') + Len(write_queue')
                      /\ \A i \in DOMAIN sent' : sent'[i] = i
                      /\ \A j \in DOMAIN write_queue' : write_queue'[j] = Len(sent') + j
                      /\ in_flight' # <<>> => in_flight'[1] = write_queue'[1]
    BY Zenon DEF Exact
  <2>1. /\ posted = Len(sent) + Len(write_queue)
        /\ \A i \in DOMAIN sent : sent[i] = i
        /\ \A j \in DOMAIN write_queue : write_queue[j] = Len(sent) + j
        /\ in_flight[1] = write_queue[1]
    BY <1>1, <1>6 DEF Exact, write_succeeded
  <2>2. f = Len(sent) + 1
    BY <1>3, <1>4, <2>1 DEF f
  <2>3. \A i \in DOMAIN h : h[i] = i
    BY <1>12, <1>13, <2>1, <2>2
  <2>4. \A j \in DOMAIN q : q[j] = Len(h) + j
    BY <1>3, <1>5, <1>12, <2>1
  <2>5. posted = Len(h) + Len(q)
    BY <1>3, <1>5, <1>12, <2>1
  <2>6. in_flight' # <<>> => in_flight'[1] = q[1]
    BY <1>7, <1>8, Zenon
  <2>7. sent' = h /\ write_queue' = q /\ posted' = posted
    BY <1>2, <1>6 DEF h
  <2> QED  BY <2>3, <2>4, <2>5, <2>6, <2>7
<1> QED  BY <1>9, <1>10, <1>11, <1>17, <1>18 DEF WriteInv

\* Every step of the queue keeps the invariant.
LEMMA WriteInvStep == WriteInv /\ [Next]_vars => WriteInv'
<1> SUFFICES ASSUME WriteInv, [Next]_vars PROVE WriteInv'
  OBVIOUS
<1>1. TypeOK'
  BY TypeStep DEF WriteInv
<1>2. CASE post_write
  BY <1>1, <1>2, PostWriteStep
<1>3. CASE write_succeeded
  BY <1>1, <1>3, WriteSucceededStep
<1>4. CASE write_failed
  <2>1. /\ in_flight' = <<>> /\ closed'
        /\ UNCHANGED <<state, posted, write_queue, sent, dropped>>
    <3>1. in_flight \in Seq(Nat) /\ in_flight # <<>> /\ Len(in_flight) <= 1
      BY <1>4 DEF WriteInv, TypeOK, SingleWriter, write_failed
    <3>2. Tail(in_flight) = <<>>
      BY <3>1, SingletonSeq
    <3> QED  BY <1>4, <3>2, Zenon DEF write_failed
  <2>2. ClosedFlag' /\ NoStall'
    BY <2>1, Zenon DEF ClosedFlag, NoStall
  <2>3. SingleWriter'
    BY <2>1 DEF SingleWriter
  <2>4. Ordered'
    BY <2>1 DEF WriteInv, Ordered, Increasing
  <2>5. Exact'
    BY <2>1 DEF WriteInv, Exact
  <2> QED  BY <1>1, <2>2, <2>3, <2>4, <2>5 DEF WriteInv
<1>5. CASE SessionFlags
  <2>1. ClosedFlag' /\ NoStall'
    <3>1. (closed => closed') /\ (state' = "Closed" => closed')
      <4>1. closed' \in {closed, TRUE}
        BY <1>5 DEF SessionFlags
      <4>2. closed => closed'
        BY <4>1
      <4> QED  BY <1>5, <4>2, Zenon DEF SessionFlags
    <3>2. write_queue' = write_queue /\ in_flight' = in_flight
      BY <1>5 DEF SessionFlags, queueVars
    <3> QED  BY <3>1, <3>2, Zenon DEF WriteInv, ClosedFlag, NoStall
  <2> QED
    BY <1>1, <1>5, <2>1 DEF SessionFlags, queueVars, WriteInv, SingleWriter,
                            Ordered, Increasing, Exact
<1>6. CASE UNCHANGED vars
  BY <1>6 DEF vars, queueVars, WriteInv, TypeOK, ClosedFlag, NoStall, SingleWriter,
              Ordered, Increasing, Exact
<1> QED  BY <1>2, <1>3, <1>4, <1>5, <1>6 DEF Next

(***************************************************************************)
(* The inductive invariant holds in every reachable state of the outgoing  *)
(* half of a session.                                                      *)
(***************************************************************************)
THEOREM WriteInvHolds == Spec => []WriteInv
BY InitWriteInv, WriteInvStep, PTL DEF Spec

(***************************************************************************)
(* Type correctness, the size limit of the queue included.                 *)
(***************************************************************************)
THEOREM TypeCorrect == Spec => []TypeOK
<1>1. WriteInv => TypeOK
  BY DEF WriteInv
<1> QED  BY <1>1, WriteInvHolds, PTL

(***************************************************************************)
(* do_write_queue never has two writes on the socket and its completion    *)
(* handler never pops an empty queue.                                      *)
(***************************************************************************)
THEOREM SingleWriterHolds == Spec => []SingleWriter
<1>1. WriteInv => SingleWriter
  BY DEF WriteInv
<1> QED  BY <1>1, WriteInvHolds, PTL

(***************************************************************************)
(* Messages leave in posting order, none twice.                            *)
(***************************************************************************)
THEOREM InOrderHolds == Spec => []InOrder
<1>1. WriteInv => InOrder
  BY DEF WriteInv, Ordered, InOrder
<1> QED  BY <1>1, WriteInvHolds, PTL

(***************************************************************************)
(* The write chain never stalls on an open session.                        *)
(***************************************************************************)
THEOREM NoStallHolds == Spec => []NoStall
<1>1. WriteInv => NoStall
  BY DEF WriteInv
<1> QED  BY <1>1, WriteInvHolds, PTL

(***************************************************************************)
(* Without overflow, sent followed by queued is what was posted.           *)
(***************************************************************************)
THEOREM ExactHolds == Spec => []ExactUntilOverflow
<1>1. WriteInv => ExactUntilOverflow
  <2> SUFFICES ASSUME WriteInv, dropped = {}
               PROVE  sent \o write_queue = [i \in 1..posted |-> i]
    BY DEF ExactUntilOverflow
  <2>1. sent \in Seq(Nat) /\ write_queue \in Seq(Nat)
    BY DEF WriteInv, TypeOK
  <2>2. /\ posted = Len(sent) + Len(write_queue)
        /\ \A i \in DOMAIN sent : sent[i] = i
        /\ \A j \in DOMAIN write_queue : write_queue[j] = Len(sent) + j
    BY DEF WriteInv, Exact
  <2> DEFINE s == sent \o write_queue
  <2>3. /\ s \in Seq(Nat) /\ DOMAIN s = 1..(Len(sent) + Len(write_queue))
        /\ \A i \in DOMAIN s :
             s[i] = IF i <= Len(sent) THEN sent[i] ELSE write_queue[i - Len(sent)]
    BY <2>1
  <2> HIDE DEF s
  <2>4. ASSUME NEW i \in DOMAIN s PROVE s[i] = i
    <3>1. /\ DOMAIN sent = 1..Len(sent) /\ DOMAIN write_queue = 1..Len(write_queue)
          /\ Len(sent) \in Nat /\ Len(write_queue) \in Nat
      BY <2>1
    <3>2. CASE i <= Len(sent)
      BY <2>2, <2>3, <3>1, <3>2
    <3>3. CASE ~(i <= Len(sent))
      <4>1. i - Len(sent) \in DOMAIN write_queue /\ i \in Nat
        BY <2>3, <3>1, <3>3
      <4> QED  BY <2>2, <2>3, <3>1, <3>3, <4>1
    <3> QED  BY <3>2, <3>3
  <2>5. s = [i \in DOMAIN s |-> s[i]]
    BY <2>3
  <2> QED  BY <2>2, <2>3, <2>4, <2>5 DEF s
<1> QED  BY <1>1, WriteInvHolds, PTL
-----------------------------------------------------------------------------
(***************************************************************************)
(* What an overflow costs.  A message is unqueued when it is neither sent  *)
(* nor in the queue: lost, or the front that was dropped from under its    *)
(* own write.  Counting these, and not the lost ones, is inductive: the    *)
(* drop of a front in flight adds to both sides at once, and the pop of    *)
(* its completion handler exchanges one unqueued message for another.      *)
(***************************************************************************)
Unqueued == (1..posted) \ (ToSet(sent) \cup ToSet(write_queue))

LossInv ==
    /\ dropped \subseteq 1..posted
    /\ \A j \in DOMAIN write_queue : write_queue[j] >= 1 /\ write_queue[j] \notin dropped
    /\ \A k \in DOMAIN in_flight : in_flight[k] >= 1
    /\ Cardinality(Unqueued) <= Cardinality(dropped)

\* The elements of a sequence after Append and Tail.
LEMMA ToSetShape ==
    ASSUME NEW s \in Seq(Nat)
    PROVE  /\ \A m \in Nat : ToSet(Append(s, m)) = ToSet(s) \cup {m}
           /\ s # <<>> => ToSet(s) = ToSet(Tail(s)) \cup {s[1]}
           /\ \A j \in DOMAIN s : s[j] \in ToSet(s)
           /\ ToSet(<<>>) = {}
<1>1. ASSUME NEW m \in Nat PROVE ToSet(Append(s, m)) = ToSet(s) \cup {m}
  <2> DEFINE q == Append(s, m)
  <2>1. /\ DOMAIN q = 1..(Len(s) + 1)
        /\ \A j \in 1..Len(s) : q[j] = s[j]
        /\ q[Len(s) + 1] = m
    BY AppendShape
  <2>2. DOMAIN s = 1..Len(s) /\ Len(s) \in Nat
    OBVIOUS
  <2> HIDE DEF q
  <2>3. \A j \in DOMAIN q : j \in DOMAIN s \/ j = Len(s) + 1
    BY <2>1, <2>2
  <2>4. DOMAIN s \subseteq DOMAIN q /\ Len(s) + 1 \in DOMAIN q
    BY <2>1, <2>2
  <2> QED  BY <2>1, <2>2, <2>3, <2>4 DEF ToSet, q
<1>2. ASSUME s # <<>> PROVE ToSet(s) = ToSet(Tail(s)) \cup {s[1]}
  <2> DEFINE t == Tail(s)
  <2>1. /\ DOMAIN t = 1..(Len(s) - 1)
        /\ \A j \in 1..(Len(s) - 1) : t[j] = s[j + 1]
    BY <1>2, TailShape
  <2>2. DOMAIN s = 1..Len(s) /\ Len(s) \in Nat /\ Len(s) >= 1
    BY <1>2
  <2> HIDE DEF t
  <2>3. \A j \in DOMAIN s : j = 1 \/ (j - 1 \in DOMAIN t /\ t[j - 1] = s[j])
    BY <2>1, <2>2
  <2>4. 1 \in DOMAIN s /\ \A j \in DOMAIN t : j + 1 \in DOMAIN s /\ t[j] = s[j + 1]
    BY <2>1, <2>2
  <2>5. ToSet(s) \subseteq ToSet(t) \cup {s[1]}
    BY <2>3 DEF ToSet
  <2>6. ToSet(t) \cup {s[1]} \subseteq ToSet(s)
    BY <2>4 DEF ToSet
  <2> QED  BY <2>5, <2>6 DEF t
<1>3. ToSet(<<>>) = {}
  BY DEF ToSet
<1> QED  BY <1>1, <1>2, <1>3 DEF ToSet

\* Sets of message numbers are finite, so Cardinality counts.
LEMMA Counted ==
    ASSUME NEW n \in Nat, NEW S \in SUBSET (1..n)
    PROVE  IsFiniteSet(S) /\ Cardinality(S) \in Nat
<1>1. IsFiniteSet(1..n)
  BY FS_Interval
<1> QED  BY <1>1, FS_Subset, FS_CardinalityType

\* A set that gains at most one element, against one that gains exactly one.
LEMMA OneMore ==
    ASSUME NEW S, NEW T, NEW D, NEW x, IsFiniteSet(S), IsFiniteSet(D),
           T \subseteq S \cup {x}, x \notin D, Cardinality(S) <= Cardinality(D)
    PROVE  /\ IsFiniteSet(T) /\ IsFiniteSet(D \cup {x})
           /\ Cardinality(T) <= Cardinality(D \cup {x})
<1>1. IsFiniteSet(S \cup {x}) /\ Cardinality(S \cup {x}) <= Cardinality(S) + 1
  <2>1. Cardinality(S) \in Nat
    BY FS_CardinalityType
  <2>2. /\ IsFiniteSet(S \cup {x})
        /\ Cardinality(S \cup {x}) = IF x \in S THEN Cardinality(S) ELSE Cardinality(S) + 1
    BY FS_AddElement
  <2> QED  BY <2>1, <2>2
<1>2. IsFiniteSet(T) /\ Cardinality(T) <= Cardinality(S \cup {x})
  BY <1>1, FS_Subset
<1>3. IsFiniteSet(D \cup {x}) /\ Cardinality(D \cup {x}) = Cardinality(D) + 1
  BY FS_AddElement
<1>4. /\ Cardinality(S) \in Nat /\ Cardinality(D) \in Nat /\ Cardinality(T) \in Nat
      /\ Cardinality(S \cup {x}) \in Nat
  BY <1>1, <1>2, FS_CardinalityType
<1> QED  BY <1>1, <1>2, <1>3, <1>4

\* A full queue keeps all but its front.
LEMMA KeptFull ==
    ASSUME TypeOK, Full
    PROVE  /\ Kept = Tail(write_queue) /\ write_queue # <<>>
           /\ \A j \in DOMAIN Kept : j + 1 \in DOMAIN write_queue /\ 1 \in DOMAIN write_queue
                                   /\ 1 < j + 1 /\ Kept[j] = write_queue[j + 1]
<1>1. write_queue \in Seq(Nat) /\ Len(write_queue) >= 2
  BY KeptType DEF TypeOK
<1>2. write_queue # <<>> /\ Kept = Tail(write_queue)
  BY <1>1 DEF Kept
<1>3. /\ DOMAIN Kept = 1..(Len(write_queue) - 1)
      /\ \A j \in 1..(Len(write_queue) - 1) : Kept[j] = write_queue[j + 1]
  BY <1>1, <1>2, TailShape
<1>4. DOMAIN write_queue = 1..Len(write_queue) /\ Len(write_queue) \in Nat
  BY <1>1
<1> QED  BY <1>1, <1>2, <1>3, <1>4

\* A drop takes a message out of the queue and adds it to the dropped ones.
LEMMA LossPostWrite ==
    ASSUME WriteInv, LossInv, post_write
    PROVE  LossInv'
<1> DEFINE m == posted + 1
<1>1. /\ TypeOK /\ SingleWriter /\ Ordered
      /\ posted \in Nat /\ m \in Nat /\ m = posted + 1
      /\ write_queue \in Seq(Nat) /\ sent \in Seq(Nat)
      /\ Kept \in Seq(Nat)
  BY KeptType DEF WriteInv, TypeOK
<1>2. /\ posted' = m /\ sent' = sent /\ write_queue' = Enqueued(m)
  BY <1>1, PostWriteShape
<1>3. dropped' = dropped \cup (IF Full THEN {Head(write_queue)} ELSE {})
                         \cup (IF GivesUp THEN {m} ELSE {})
  BY DEF post_write, enqueue_write
<1> HIDE DEF m
<1>4. /\ IsFiniteSet(dropped) /\ IsFiniteSet(Unqueued)
      /\ Cardinality(Unqueued) <= Cardinality(dropped)
      /\ dropped \subseteq 1..posted /\ m \notin dropped /\ m \notin Unqueued
  <2>1. dropped \in SUBSET (1..posted) /\ Unqueued \in SUBSET (1..posted)
        /\ Cardinality(Unqueued) <= Cardinality(dropped)
    BY DEF LossInv, Unqueued
  <2>2. m \notin 1..posted
    BY <1>1
  <2> QED  BY <1>1, <2>1, <2>2, Counted
<1>5. /\ \A j \in DOMAIN Kept : Kept[j] \in ToSet(write_queue)
      /\ \A x \in ToSet(write_queue) : x \in 1..posted /\ x # m /\ x \notin dropped
  <2>1. \A j \in DOMAIN write_queue :
          write_queue[j] \in 1..posted /\ write_queue[j] # m /\ write_queue[j] \notin dropped
    BY <1>1 DEF LossInv, Ordered
  <2>2. \A j \in DOMAIN Kept : \E i \in DOMAIN write_queue : Kept[j] = write_queue[i]
    <3>1. CASE Full
      BY <1>1, <3>1, KeptFull
    <3>2. CASE ~Full
      BY <3>2 DEF Kept
    <3> QED  BY <3>1, <3>2
  <2> QED  BY <2>1, <2>2 DEF ToSet
<1>6. /\ ToSet(write_queue') = IF GivesUp THEN ToSet(Kept) ELSE ToSet(Kept) \cup {m}
  BY <1>1, <1>2, ToSetShape DEF Enqueued
<1>7. \A k \in DOMAIN in_flight' : in_flight'[k] >= 1
  <2>1. CASE write_queue # <<>>
    BY <1>1, <2>1, PostWriteShape DEF LossInv
  <2>2. CASE write_queue = <<>>
    <3>1. in_flight' = <<>> \/ in_flight' = <<m>>
      BY <1>1, <2>2, PostWriteShape, Zenon DEF m
    <3>2. m >= 1
      BY <1>1
    <3> QED  BY <1>1, <3>1, <3>2
  <2> QED  BY <2>1, <2>2
<1>8. \A x \in ToSet(write_queue') : x \in 1..m /\ x # 0
  <2>1. ToSet(Kept) \subseteq ToSet(write_queue)
    BY <1>5 DEF ToSet
  <2>2. m \in 1..m /\ 1..posted \subseteq 1..m
    BY <1>1
  <2> QED  BY <1>5, <1>6, <2>1, <2>2
<1>9. CASE ~Full
  <2>1. ~GivesUp /\ Kept = write_queue /\ dropped' = dropped
    BY <1>3, <1>9 DEF GivesUp, Kept
  <2>2. Unqueued' \subseteq Unqueued
    <3>1. \A x \in 1..m : x = m \/ x \in 1..posted
      BY <1>1
    <3> QED  BY <1>2, <1>6, <2>1, <3>1 DEF Unqueued
  <2>3. Cardinality(Unqueued') <= Cardinality(Unqueued) /\ Cardinality(Unqueued') \in Nat
    BY <1>4, <2>2, FS_Subset, FS_CardinalityType
  <2>4. Cardinality(Unqueued') <= Cardinality(dropped')
    BY <1>4, <2>1, <2>3, FS_CardinalityType
  <2>5. \A x \in ToSet(write_queue') : x \notin dropped'
    BY <1>4, <1>5, <1>6, <2>1
  <2>6. \A j \in DOMAIN write_queue' : write_queue'[j] >= 1 /\ write_queue'[j] \notin dropped'
    BY <1>1, <1>8, <2>5 DEF ToSet
  <2>7. dropped' \subseteq 1..posted'
    BY <1>1, <1>2, <1>4, <2>1
  <2> QED  BY <1>7, <2>4, <2>6, <2>7 DEF LossInv
<1>10. CASE Full
  <2> DEFINE h == write_queue[1]
  <2>1. write_queue # <<>> /\ Head(write_queue) = h /\ Kept = Tail(write_queue)
    BY <1>1, <1>10, KeptType DEF Kept
  <2>2. /\ ToSet(write_queue) = ToSet(Kept) \cup {h}
        /\ h \in ToSet(write_queue)
        /\ \A j \in DOMAIN Kept : Kept[j] # h
    <3>1. ToSet(write_queue) = ToSet(Kept) \cup {h}
      BY <1>1, <2>1, ToSetShape
    <3>2. \A j \in DOMAIN Kept : j + 1 \in DOMAIN write_queue /\ 1 \in DOMAIN write_queue
                                 /\ 1 < j + 1 /\ Kept[j] = write_queue[j + 1]
      BY <1>1, <1>10, KeptFull
    <3>3. \A j \in DOMAIN Kept : h < Kept[j] /\ h \in Nat /\ Kept[j] \in Nat
      BY <1>1, <3>2 DEF Ordered, Increasing
    <3> QED  BY <3>1, <3>3
  <2> HIDE DEF h
  <2>3. h \notin dropped /\ h \in 1..posted /\ h # m /\ h \notin ToSet(Kept)
    BY <1>5, <2>2 DEF ToSet
  <2>4. \A x \in 1..m : x = m \/ x \in 1..posted
    BY <1>1
  <2>5. CASE ~GivesUp
    <3>1. dropped' = dropped \cup {h}
      BY <1>3, <1>10, <2>1, <2>5
    <3>2. Unqueued' \subseteq Unqueued \cup {h}
      BY <1>2, <1>6, <2>2, <2>4, <2>5 DEF Unqueued
    <3>3. Cardinality(Unqueued') <= Cardinality(dropped')
      BY <1>4, <2>3, <3>1, <3>2, OneMore
    <3>4. \A x \in ToSet(write_queue') : x \notin dropped'
      <4>1. \A x \in ToSet(Kept) : x \notin dropped /\ x # h
        BY <1>5, <2>2, <2>3
      <4> QED  BY <1>4, <1>6, <2>3, <2>5, <3>1, <4>1
    <3>5. \A j \in DOMAIN write_queue' : write_queue'[j] >= 1 /\ write_queue'[j] \notin dropped'
      BY <1>1, <1>8, <3>4 DEF ToSet
    <3>6. dropped' \subseteq 1..posted'
      BY <1>1, <1>2, <1>4, <2>3, <3>1
    <3> QED  BY <1>7, <3>3, <3>5, <3>6 DEF LossInv
  <2>6. CASE GivesUp
    <3>1. dropped' = (dropped \cup {h}) \cup {m}
      BY <1>3, <1>10, <2>1, <2>6
    <3>2. Unqueued' \subseteq (Unqueued \cup {h}) \cup {m}
      BY <1>2, <1>6, <2>2, <2>4, <2>6 DEF Unqueued
    <3>3. /\ IsFiniteSet(Unqueued \cup {h}) /\ IsFiniteSet(dropped \cup {h})
          /\ Cardinality(Unqueued \cup {h}) <= Cardinality(dropped \cup {h})
      BY <1>4, <2>3, OneMore
    <3>4. m \notin dropped \cup {h}
      BY <1>4, <2>3
    <3>5. Cardinality(Unqueued') <= Cardinality(dropped')
      BY <3>1, <3>2, <3>3, <3>4, OneMore
    <3>6. \A x \in ToSet(write_queue') : x \notin dropped'
      BY <1>4, <1>5, <1>6, <2>2, <2>3, <2>6, <3>1
    <3>7. \A j \in DOMAIN write_queue' : write_queue'[j] >= 1 /\ write_queue'[j] \notin dropped'
      BY <1>1, <1>8, <3>6 DEF ToSet
    <3>8. dropped' \subseteq 1..posted'
      BY <1>1, <1>2, <1>4, <2>3, <3>1
    <3> QED  BY <1>7, <3>5, <3>7, <3>8 DEF LossInv
  <2> QED  BY <2>5, <2>6
<1> QED  BY <1>9, <1>10

\* The handler counts a message as sent and pops the front: the same
\* message, or after a drop one that takes its place among the lost.
LEMMA LossWriteSucceeded ==
    ASSUME WriteInv, LossInv, write_succeeded
    PROVE  LossInv'
<1> DEFINE f == in_flight[1]
           h == write_queue[1]
<1>1. /\ TypeOK /\ SingleWriter /\ Ordered
      /\ posted \in Nat /\ write_queue \in Seq(Nat) /\ sent \in Seq(Nat)
  BY DEF WriteInv, TypeOK
<1>2. /\ in_flight = <<f>> /\ f \in Nat /\ write_queue # <<>>
      /\ sent' = Append(sent, f) /\ write_queue' = Tail(write_queue)
      /\ \/ in_flight' = <<>>
         \/ in_flight' = <<write_queue[2]>> /\ Len(write_queue) >= 2
  BY <1>1, WriteSucceededShape, Zenon
<1>3. posted' = posted /\ dropped' = dropped
  BY DEF write_succeeded
<1>4. /\ DOMAIN write_queue = 1..Len(write_queue) /\ Len(write_queue) >= 1
      /\ \A j \in DOMAIN write_queue' :
           j + 1 \in DOMAIN write_queue /\ write_queue'[j] = write_queue[j + 1]
  BY <1>1, <1>2, TailShape
<1>5. /\ ToSet(sent') = ToSet(sent) \cup {f}
      /\ ToSet(write_queue) = ToSet(write_queue') \cup {h}
  BY <1>1, <1>2, ToSetShape
<1>6. \A j \in DOMAIN write_queue' : write_queue'[j] >= 1 /\ write_queue'[j] \notin dropped'
  BY <1>3, <1>4 DEF LossInv
<1>7. \A k \in DOMAIN in_flight' : in_flight'[k] >= 1
  <2>1. Len(write_queue) >= 2 => write_queue[2] >= 1 /\ write_queue[2] \in Nat
    BY <1>1, <1>4 DEF LossInv
  <2> QED  BY <1>2, <2>1
<1>8. Cardinality(Unqueued') <= Cardinality(Unqueued)
  <2>1. IsFiniteSet(Unqueued)
    BY <1>1, Counted DEF Unqueued
  <2>2. CASE f = h
    <3>1. Unqueued' \subseteq Unqueued
      BY <1>3, <1>5, <2>2 DEF Unqueued
    <3> QED  BY <2>1, <3>1, FS_Subset
  <2>3. CASE f # h
    <3>1. f \in Unqueued
      <4>1. f \in 1..posted
        <5>1. 1 \in DOMAIN in_flight
          BY <1>2
        <5>2. f >= 1 /\ f <= posted
          BY <5>1 DEF LossInv, WriteInv, Ordered
        <5> QED  BY <1>1, <1>2, <5>2
      <4>2. f \notin ToSet(sent)
        <5>1. 1 \in DOMAIN in_flight
          BY <1>2
        <5>2. \A i \in DOMAIN sent : sent[i] < f /\ sent[i] \in Nat
          BY <1>1, <5>1 DEF Ordered
        <5> HIDE DEF f
        <5> QED  BY <1>2, <5>2 DEF ToSet
      <4>3. f \notin ToSet(write_queue)
        <5>1. 1 \in DOMAIN in_flight /\ 1 \in DOMAIN write_queue
          BY <1>2, <1>4
        <5>2. f <= h /\ h \in Nat
          BY <1>1, <5>1 DEF Ordered
        <5>3. \A j \in DOMAIN write_queue : j = 1 \/ h < write_queue[j]
          BY <1>1, <1>4, <5>1 DEF Ordered, Increasing
        <5>4. \A j \in DOMAIN write_queue : write_queue[j] \in Nat
          BY <1>1
        <5> HIDE DEF f
        <5>5. \A j \in DOMAIN write_queue : f # write_queue[j]
          BY <1>2, <2>3, <5>2, <5>3, <5>4
        <5> QED  BY <5>5 DEF ToSet
      <4> QED  BY <4>1, <4>2, <4>3 DEF Unqueued
    <3>2. Unqueued' \subseteq (Unqueued \ {f}) \cup {h}
      BY <1>3, <1>5 DEF Unqueued
    <3> HIDE DEF f, h
    <3>3. /\ IsFiniteSet(Unqueued \ {f})
          /\ Cardinality(Unqueued \ {f}) = Cardinality(Unqueued) - 1
      BY <2>1, <3>1, FS_RemoveElement
    <3>4. /\ IsFiniteSet((Unqueued \ {f}) \cup {h})
          /\ Cardinality((Unqueued \ {f}) \cup {h}) <= Cardinality(Unqueued \ {f}) + 1
      BY <3>3, FS_AddElement, FS_CardinalityType
    <3>5. Cardinality(Unqueued') <= Cardinality((Unqueued \ {f}) \cup {h})
          /\ IsFiniteSet(Unqueued')
      BY <3>2, <3>4, FS_Subset
    <3>6. /\ Cardinality(Unqueued) \in Nat /\ Cardinality(Unqueued') \in Nat
          /\ Cardinality((Unqueued \ {f}) \cup {h}) \in Nat
      BY <2>1, <3>4, <3>5, FS_CardinalityType
    <3> QED  BY <3>3, <3>4, <3>5, <3>6
  <2> QED  BY <2>2, <2>3
<1>9. Cardinality(Unqueued') <= Cardinality(dropped')
  <2>1. Cardinality(Unqueued) \in Nat /\ Cardinality(dropped) \in Nat
    BY <1>1, Counted DEF Unqueued, LossInv
  <2>2. Cardinality(Unqueued') \in Nat
    BY <1>1, <1>3, Counted DEF Unqueued
  <2> QED  BY <1>3, <1>8, <2>1, <2>2 DEF LossInv
<1> QED  BY <1>3, <1>6, <1>7, <1>9 DEF LossInv

\* Every step of the queue keeps the count of the lost.
LEMMA LossStep == WriteInv /\ LossInv /\ [Next]_vars => LossInv'
<1> SUFFICES ASSUME WriteInv, LossInv, [Next]_vars PROVE LossInv'
  OBVIOUS
<1>1. CASE post_write
  BY <1>1, LossPostWrite
<1>2. CASE write_succeeded
  BY <1>2, LossWriteSucceeded
<1>3. CASE write_failed
  <2>1. in_flight' = <<>> /\ UNCHANGED <<posted, write_queue, sent, dropped>>
    <3>1. in_flight \in Seq(Nat) /\ in_flight # <<>> /\ Len(in_flight) <= 1
      BY <1>3 DEF WriteInv, TypeOK, SingleWriter, write_failed
    <3>2. Tail(in_flight) = <<>>
      BY <3>1, SingletonSeq
    <3> QED  BY <1>3, <3>2, Zenon DEF write_failed
  <2> QED  BY <2>1 DEF LossInv, Unqueued
<1>4. CASE SessionFlags
  BY <1>4 DEF SessionFlags, queueVars, LossInv, Unqueued
<1>5. CASE UNCHANGED vars
  BY <1>5 DEF vars, queueVars, LossInv, Unqueued
<1> QED  BY <1>1, <1>2, <1>3, <1>4, <1>5 DEF Next

(***************************************************************************)
(* An overflow never costs more messages than enqueue_write drops, not     *)
(* even when the dropped front is the one being written.                   *)
(***************************************************************************)
THEOREM OneLostHolds == Spec => []OneLostPerDrop
<1>1. Init => LossInv
  <2> SUFFICES ASSUME Init PROVE LossInv
    OBVIOUS
  <2>1. Unqueued = {}
    BY DEF Init, Unqueued
  <2> QED  BY <2>1, FS_EmptySet DEF Init, LossInv
<1>2. WriteInv /\ LossInv => OneLostPerDrop
  <2> SUFFICES ASSUME WriteInv, LossInv PROVE OneLostPerDrop
    OBVIOUS
  <2>1. posted \in Nat
    BY DEF WriteInv, TypeOK
  <2>2. IsFiniteSet(Unqueued) /\ NeverSent \subseteq Unqueued
    BY <2>1, Counted DEF Unqueued, NeverSent
  <2>3. Cardinality(NeverSent) <= Cardinality(Unqueued) /\ IsFiniteSet(NeverSent)
    BY <2>2, FS_Subset
  <2>4. IsFiniteSet(dropped)
    BY <2>1, Counted DEF LossInv
  <2>5. /\ Cardinality(NeverSent) \in Nat /\ Cardinality(Unqueued) \in Nat
        /\ Cardinality(dropped) \in Nat
    BY <2>2, <2>3, <2>4, FS_CardinalityType
  <2> QED  BY <2>3, <2>5 DEF LossInv, OneLostPerDrop
<1> QED  BY <1>1, <1>2, LossStep, WriteInvHolds, PTL DEF Spec
-----------------------------------------------------------------------------
(***************************************************************************)
(* FrameWriter.  Its steps do to the queue what WriteQueue does, so        *)
(* WriteInv holds; it has the fact that matters here: before the first     *)
(* drop the message in flight is the front of the queue (Exact), and so    *)
(* has an owner.                                                           *)
(***************************************************************************)
\* Its invariant: that of the queue, and what the buffers of the write in
\* flight are known to hold.
FrameInv ==
    /\ WriteInv
    /\ taken \in 0..2
    /\ BodyIntactUntilOverflow
-----------------------------------------------------------------------------
\* dropped is a history: nothing is ever taken out of it.
LEMMA DroppedGrows ==
    ASSUME [Next]_vars
    PROVE  dropped \subseteq dropped'
<1>1. CASE post_write
  BY <1>1 DEF post_write, enqueue_write
<1>2. CASE write_succeeded
  BY <1>2 DEF write_succeeded
<1>3. CASE write_failed
  BY <1>3 DEF write_failed
<1>4. CASE SessionFlags
  BY <1>4 DEF SessionFlags, queueVars
<1>5. CASE UNCHANGED vars
  BY <1>5 DEF vars, queueVars
<1> QED  BY <1>1, <1>2, <1>3, <1>4, <1>5 DEF Next

\* Before the first drop the message in flight is still in the queue.
LEMMA InFlightOwned ==
    ASSUME WriteInv, dropped = {}, in_flight # <<>>
    PROVE  Head(in_flight) \in ToSet(write_queue)
<1>1. in_flight[1] = write_queue[1]
  BY DEF WriteInv, Exact
<1>2. write_queue # <<>> /\ write_queue \in Seq(Nat) /\ in_flight \in Seq(Nat)
  BY DEF WriteInv, SingleWriter, TypeOK
<1>3. 1 \in DOMAIN write_queue /\ Head(in_flight) = in_flight[1]
  BY <1>2
<1> QED  BY <1>1, <1>3 DEF ToSet

\* Every step of the queue, with the buffers, keeps it.
LEMMA FrameStep == FrameInv /\ [FNext]_frameVars => FrameInv'
<1> SUFFICES ASSUME FrameInv, [FNext]_frameVars PROVE FrameInv'
  OBVIOUS
<1>1. [Next]_vars
  BY DEF FNext, QueueStep, transfer, frameVars
<1>2. WriteInv'
  BY <1>1, WriteInvStep DEF FrameInv
<1>3. taken' \in 0..2
  BY DEF FrameInv, FNext, QueueStep, transfer, frameVars
<1>4. dropped' = {} => dropped = {}
  BY <1>1, DroppedGrows
<1>5. CASE QueueStep \/ UNCHANGED frameVars
  <2>1. spoiled' = spoiled
    BY <1>5 DEF QueueStep, frameVars
  <2>2. BodyIntactUntilOverflow'
    BY <1>4, <2>1 DEF FrameInv, BodyIntactUntilOverflow, BodyIntact
  <2> QED  BY <1>2, <1>3, <2>2 DEF FrameInv
<1>6. CASE transfer
  <2> DEFINE m == Head(in_flight)
             b == Buffers(m)[taken']
  <2> SUFFICES ASSUME dropped' = {}, NEW x \in spoiled', x \notin spoiled
               PROVE  x[1] # "msg"
    BY <1>2, <1>3, <1>4
       DEF FrameInv, BodyIntactUntilOverflow, BodyIntact
  <2>1. x = b /\ Dangling(b)
    BY <1>6 DEF transfer
  <2>2. in_flight # <<>> /\ taken' \in {1, 2}
    BY <1>6 DEF transfer, FrameInv
  <2>3. m \in ToSet(write_queue)
    BY <1>4, <2>2, InFlightOwned DEF FrameInv
  <2>4. CASE taken' = 1
    BY <2>1, <2>4 DEF Buffers
  <2>5. CASE taken' = 2
    <3>1. b = <<"msg", m>>
      BY <2>5 DEF Buffers
    <3>2. b[1] = "msg" /\ b[2] = m
      BY <3>1
    <3> QED  BY <2>1, <2>3, <3>2 DEF Dangling
  <2> QED  BY <2>2, <2>4, <2>5
<1> QED  BY <1>5, <1>6 DEF FNext
-----------------------------------------------------------------------------
(***************************************************************************)
(* As long as the queue has not overflowed, async_write never reads the    *)
(* text of a message that do_write_queue's queue no longer owns.           *)
(***************************************************************************)
THEOREM BodyIntactHolds == FSpec => []BodyIntactUntilOverflow
<1>1. FInit => FrameInv
  BY InitWriteInv
     DEF FInit, FrameInv, BodyIntactUntilOverflow, BodyIntact
<1>2. FrameInv => BodyIntactUntilOverflow
  BY DEF FrameInv
<1> QED  BY <1>1, <1>2, FrameStep, PTL DEF FSpec
=============================================================================
