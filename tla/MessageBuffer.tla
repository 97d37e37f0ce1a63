---------------------------- MODULE MessageBuffer ----------------------------
(***************************************************************************)
(* MessageBufferManager and the part of the read callback (Session.cpp)    *)
(* that drives it: the byte stream of the peer, cut by async_read_some at  *)
(* any place, is turned back into messages, each prefixed by its length in *)
(* four bytes, most significant first.  A byte is a digit of radix Radix   *)
(* (256 in the program).                                                   *)
(*                                                                         *)
(* The session is closed here only for an invalid length; Session.tla has  *)
(* the other reasons, and what becomes of a message.                       *)
(***************************************************************************)
EXTENDS Naturals, Sequences

CONSTANTS Radix,          \* values of a byte
          MaxPacketSize,  \* MAX_PACKET_SIZE
          ReadSize,       \* sizeof(data_)
          MaxFrames       \* bound on the valid frames the peer sends

ASSUME MessageBufferConfig ==
    /\ Radix \in Nat \ {0}
    /\ MaxPacketSize \in Nat
    /\ ReadSize \in Nat
    /\ MaxFrames \in Nat

VARIABLES buffer,       \* buffer_
          last_clear_by_invalid_length,
          reading,      \* where the read callback is
          wire,         \* bytes sent by the peer and not read yet
          sent, delivered, broken  \* history, as in MessageChannel

vars == <<buffer, last_clear_by_invalid_length, reading, wire, sent,
          delivered, broken>>

Byte   == 0..(Radix - 1)
Prefix == 4
Header == [1..Prefix -> Byte]

Length(b) == ((b[1] * Radix + b[2]) * Radix + b[3]) * Radix + b[4]

\* Mutant of ValidLength: an empty message is a message.
ValidLength_zero(b) == Length(b) <= MaxPacketSize

\* Mutant of ValidLength: off by one at the maximal size.
ValidLength_exclusive(b) == Length(b) > 0 /\ Length(b) < MaxPacketSize

\* Mutant of ValidLength: no upper limit.
ValidLength_unlimited(b) == Length(b) > 0

ValidLength(b) == Length(b) > 0 /\ Length(b) <= MaxPacketSize

Bytes(lens) == UNION {[1..n -> Byte] : n \in lens}
Message == Bytes(1..MaxPacketSize)
Frame   == {f \in Bytes(Prefix..(Prefix + MaxPacketSize)) :
                Len(f) = Prefix + Length(f)}

Init ==
    /\ buffer = <<>>
    /\ last_clear_by_invalid_length = FALSE
    /\ reading = "waiting"
    /\ wire = <<>>
    /\ sent = <<>>
    /\ delivered = <<>>
    /\ broken = FALSE
-----------------------------------------------------------------------------
\* The peer.  What follows a bad length may itself look like a frame.
send_frame(h, m) ==
    /\ ~broken
    /\ Len(sent) < MaxFrames
    /\ Length(h) = Len(m)
    /\ wire' = wire \o h \o m
    /\ sent' = Append(sent, m)
    /\ UNCHANGED <<buffer, last_clear_by_invalid_length, reading, delivered,
                   broken>>

send_bad_length(h, rest) ==
    /\ ~broken
    /\ Length(h) \notin 1..MaxPacketSize
    /\ wire' = wire \o h \o rest
    /\ broken' = TRUE
    /\ UNCHANGED <<buffer, last_clear_by_invalid_length, reading, sent,
                   delivered>>
-----------------------------------------------------------------------------
\* async_read_some has brought n bytes: append, then the loop.
append(n) ==
    /\ reading = "waiting"
    /\ n <= Len(wire)
    /\ buffer' = buffer \o SubSeq(wire, 1, n)
    /\ wire' = SubSeq(wire, n + 1, Len(wire))
    /\ reading' = "extracting"
    /\ UNCHANGED <<last_clear_by_invalid_length, sent, delivered, broken>>

\* Mutant of Complete: a frame is complete when a byte follows it.
Complete_exclusive ==
    Len(buffer) >= Prefix /\ Len(buffer) > Prefix + Length(buffer)

Complete == Len(buffer) >= Prefix /\ Len(buffer) >= Prefix + Length(buffer)

(***************************************************************************)
(* One turn of the loop: extract_message, and what the callback does with  *)
(* its result.  A message is dispatched and the loop goes on; otherwise    *)
(* the next read is started, or the session is closed if the buffer was    *)
(* cleared.  The flag is reset by every call.                              *)
(***************************************************************************)
extract_message ==
    /\ reading = "extracting"
    /\ \/ /\ Len(buffer) >= Prefix
          /\ ~ValidLength(buffer)
          /\ buffer' = <<>>
          /\ last_clear_by_invalid_length' = TRUE
          /\ reading' = "closed"
          /\ UNCHANGED delivered
       \/ /\ Len(buffer) >= Prefix => ValidLength(buffer)
          /\ ~Complete
          /\ last_clear_by_invalid_length' = FALSE
          /\ reading' = "waiting"
          /\ UNCHANGED <<buffer, delivered>>
       \/ /\ Complete
          /\ ValidLength(buffer)
          /\ last_clear_by_invalid_length' = FALSE
          /\ delivered' =
               Append(delivered,
                      SubSeq(buffer, Prefix + 1, Prefix + Length(buffer)))
          /\ buffer' = SubSeq(buffer, Prefix + Length(buffer) + 1, Len(buffer))
          /\ UNCHANGED reading
    /\ UNCHANGED <<wire, sent, broken>>
-----------------------------------------------------------------------------
Next ==
    \/ \E h \in Header, m \in Message : send_frame(h, m)
    \/ \E h \in Header, rest \in {<<>>} \cup Frame : send_bad_length(h, rest)
    \/ \E n \in 1..ReadSize : append(n)
    \/ extract_message

Spec == Init /\ [][Next]_vars

\* TCP brings the bytes that were sent, and a handler on the strand ends.
FairSpec ==
    /\ Spec
    /\ WF_vars(\E n \in 1..ReadSize : append(n))
    /\ WF_vars(extract_message)
-----------------------------------------------------------------------------
TypeOK ==
    /\ buffer \in Seq(Byte)
    /\ wire \in Seq(Byte)
    /\ last_clear_by_invalid_length \in BOOLEAN
    /\ reading \in {"waiting", "extracting", "closed"}
    /\ broken \in BOOLEAN
    /\ sent \in Seq(Message)
    /\ delivered \in Seq(Message)

(***************************************************************************)
(* What a peer can make the session hold is bounded: between two reads     *)
(* buffer_ has less than one frame of the maximal size, and never more     *)
(* than that and one read.  The length check of extract_message is what    *)
(* bounds it.                                                              *)
(***************************************************************************)
BufferBounded ==
    /\ reading = "waiting" => Len(buffer) < Prefix + MaxPacketSize
    /\ Len(buffer) < Prefix + MaxPacketSize + ReadSize

(***************************************************************************)
(* However the stream is cut, the loop over extract_message delivers the   *)
(* messages of the peer in order, each once and unaltered (also several in *)
(* one read, and one in several); an invalid length is never               *)
(* resynchronised upon: nothing behind it is delivered, and the session is *)
(* closed for it when everything before it has been delivered, not sooner. *)
(***************************************************************************)
Channel == INSTANCE MessageChannel WITH closed <- reading = "closed"

Framing == Channel!Spec

(***************************************************************************)
(* And all of them are delivered: a message that has come in full does not *)
(* wait in buffer_ for more bytes, and a session whose peer has broken the *)
(* framing is closed.                                                      *)
(***************************************************************************)
NothingHeldBack == Channel!Fairness
=============================================================================
