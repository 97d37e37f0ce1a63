---------------------------- MODULE FrameWriter ----------------------------
(***************************************************************************)
(* Where the bytes of a frame come from.  do_write_queue hands async_write *)
(* two buffers: the length prefix, an array on its own stack, and the      *)
(* message, which belongs to the front of write_queue_ (the completion     *)
(* handler captures neither).  async_write (external) sends what the       *)
(* socket takes at once, while do_write_queue is still on the stack, and   *)
(* the rest after it has returned.                                         *)
(*                                                                         *)
(* Reading a buffer whose owner is gone is undefined: the bytes may still  *)
(* be there or not.                                                        *)
(***************************************************************************)
EXTENDS WriteQueue

VARIABLES taken,    \* number of buffers of the write in flight that were read
          spoiled   \* buffers that the peer got with other bytes

frameVars == <<vars, taken, spoiled>>

\* The two buffers, in the order in which they are sent.
Buffers(m) == << <<"len_buf", m>>, <<"msg", m>> >>

\* The owner of the buffer is gone once do_write_queue has returned.
Dangling(b) == b[1] = "msg" => b[2] \notin ToSet(write_queue)

FInit == Init /\ taken = 0 /\ spoiled = {}

\* A step of WriteQueue.  A write that starts may send at once; it succeeds
\* when everything is sent.
QueueStep ==
    /\ Next
    /\ sent' # sent => taken = 2
    /\ taken' \in IF in_flight' \in {<<>>, in_flight} THEN {taken} ELSE 0..2
    /\ UNCHANGED spoiled

\* The write in flight goes on when the socket takes more.
transfer ==
    /\ in_flight # <<>>
    /\ taken < 2
    /\ taken' = taken + 1
    /\ LET b == Buffers(Head(in_flight))[taken'] IN
       spoiled' \in {spoiled, spoiled \cup {x \in {b} : Dangling(x)}}
    /\ UNCHANGED vars

FNext == QueueStep \/ transfer

FSpec == FInit /\ [][FNext]_frameVars
-----------------------------------------------------------------------------
BodyIntact == \A b \in spoiled : b[1] # "msg"

(***************************************************************************)
(* As long as the queue has never overflowed, the message that async_write *)
(* reads from stays owned by the queue until the write is over, although   *)
(* the handler does not hold it: every message arrives as it was posted.   *)
(***************************************************************************)
BodyIntactUntilOverflow == dropped = {} => BodyIntact

(***************************************************************************)
(* "changed to the 4-byte prefix" (Session.cpp:135): a message goes out    *)
(* behind its length.  The code breaks this: if the socket does not take   *)
(* the prefix at once, it is read after the array that held it is gone.    *)
(***************************************************************************)
PrefixIntact == \A b \in spoiled : b[1] # "len_buf"
=============================================================================
