------------------------- MODULE MessageBufferProofs -------------------------
(***************************************************************************)
(* The input buffer of a session is bounded, and it implements             *)
(* MessageChannel, for every radix, packet size, read size and number of   *)
(* frames.                                                                 *)
(*                                                                         *)
(* BufferBounded is inductive together with the type invariant: a read     *)
(* adds at most ReadSize bytes to less than a frame, and the loop only     *)
(* leaves with less than a frame because ValidLength caps the length it    *)
(* waits for.  For the refinement the invariant says where in the bytes    *)
(* not yet extracted the frames of the peer begin: FramingInv.             *)
(***************************************************************************)
EXTENDS MessageBuffer, TLAPS

\* Type and length of a part of a sequence.
LEMMA SubSeqType ==
    ASSUME NEW S, NEW s \in Seq(S), NEW i \in Nat, NEW j \in Nat,
           i >= 1, j <= Len(s)
    PROVE  /\ SubSeq(s, i, j) \in Seq(S)
           /\ i <= j + 1 => Len(SubSeq(s, i, j)) = j - i + 1
           /\ i > j => Len(SubSeq(s, i, j)) = 0
  OBVIOUS

(***************************************************************************)
(* A frame of the peer, header and message, is a sequence of bytes.        *)
(***************************************************************************)
LEMMA HeaderType == Header \subseteq Seq(Byte)
  BY DEF Header, Prefix

\* A message is a sequence of bytes.
LEMMA MessageType == Message \subseteq Seq(Byte)
  BY MessageBufferConfig DEF Message, Bytes

\* So is a frame, the prefix included.
LEMMA FrameType == Frame \subseteq Seq(Byte)
  BY MessageBufferConfig DEF Frame, Bytes, Prefix

\* A length prefix is a natural number.
LEMMA LengthType ==
    ASSUME NEW b \in Seq(Byte), Len(b) >= Prefix
    PROVE  Length(b) \in Nat
<1>1. b[1] \in Nat /\ b[2] \in Nat /\ b[3] \in Nat /\ b[4] \in Nat
  BY MessageBufferConfig DEF Prefix, Byte
<1>2. ASSUME NEW i \in Nat, NEW j \in Nat
      PROVE  i * Radix + j \in Nat
  BY MessageBufferConfig
<1>3. b[1] * Radix + b[2] \in Nat
  BY <1>1, <1>2
<1>4. (b[1] * Radix + b[2]) * Radix + b[3] \in Nat
  BY <1>1, <1>2, <1>3
<1> QED BY <1>1, <1>2, <1>4 DEF Length

(***************************************************************************)
(* The message that extract_message cuts off, and what it leaves.          *)
(***************************************************************************)
LEMMA Remainder ==
    ASSUME TypeOK, Complete
    PROVE  LET rest == SubSeq(buffer, Prefix + Length(buffer) + 1, Len(buffer))
           IN  rest \in Seq(Byte) /\ Len(rest) <= Len(buffer)
<1> DEFINE i == Prefix + Length(buffer) + 1
<1>1. buffer \in Seq(Byte) /\ Len(buffer) >= Prefix + Length(buffer)
  BY DEF TypeOK, Complete
<1>2. Length(buffer) \in Nat
  BY <1>1, LengthType DEF Complete
<1>3. i \in Nat /\ i >= 1 /\ i <= Len(buffer) + 1
  BY <1>1, <1>2 DEF Prefix
<1> HIDE DEF i
<1>4. SubSeq(buffer, i, Len(buffer)) \in Seq(Byte)
      /\ Len(SubSeq(buffer, i, Len(buffer))) = Len(buffer) - i + 1
  BY <1>1, <1>3, SubSeqType
<1>5. Len(SubSeq(buffer, i, Len(buffer))) <= Len(buffer)
  BY <1>1, <1>3, <1>4
<1> QED BY <1>4, <1>5 DEF i

\* It is a message, if its length is valid.
LEMMA Extracted ==
    ASSUME TypeOK, Complete, ValidLength(buffer)
    PROVE  SubSeq(buffer, Prefix + 1, Prefix + Length(buffer)) \in Message
<1> DEFINE j == Prefix + Length(buffer)
           m == SubSeq(buffer, Prefix + 1, j)
<1>1. buffer \in Seq(Byte) /\ Len(buffer) >= Prefix + Length(buffer)
  BY DEF TypeOK, Complete
<1>2. Length(buffer) \in 1..MaxPacketSize
  BY <1>1, LengthType, MessageBufferConfig DEF Complete, ValidLength
<1>3. j \in Nat /\ j <= Len(buffer) /\ j - (Prefix + 1) + 1 = Length(buffer)
      /\ Prefix + 1 <= j + 1
  BY <1>1, <1>2 DEF Prefix
<1>4. Prefix + 1 \in Nat /\ Prefix + 1 >= 1
  BY DEF Prefix
<1> HIDE DEF j
<1>5. m \in Seq(Byte) /\ Len(m) = Length(buffer)
  BY <1>1, <1>3, <1>4, SubSeqType
<1> HIDE DEF m
<1>6. m \in [1..Length(buffer) -> Byte]
  BY <1>5
<1>7. m \in Message
  BY <1>2, <1>6 DEF Message, Bytes
<1> QED BY <1>7 DEF m, j

\* The byte stream stays a byte stream, however it is cut.
THEOREM TypeCorrect == Spec => []TypeOK
<1> DEFINE Streams == /\ buffer \in Seq(Byte) /\ wire \in Seq(Byte)
                      /\ sent \in Seq(Message) /\ delivered \in Seq(Message)
           Flags   == /\ last_clear_by_invalid_length \in BOOLEAN
                      /\ reading \in {"waiting", "extracting", "closed"}
                      /\ broken \in BOOLEAN
<1>1. Init => Streams
  BY DEF Init
<1>2. Init => Flags
  BY Zenon DEF Init
<1>3. TypeOK /\ [Next]_vars => Flags'
  <2> SUFFICES ASSUME TypeOK, [Next]_vars PROVE Flags'
    OBVIOUS
  <2> USE DEF TypeOK
  <2>1. ASSUME NEW h, NEW m, send_frame(h, m) \/ send_bad_length(h, m)
        PROVE  Flags'
    BY <2>1, Zenon DEF send_frame, send_bad_length
  <2>2. ASSUME NEW n, append(n) PROVE Flags'
    BY <2>2, Zenon DEF append
  <2>3. CASE extract_message
    BY <2>3, Zenon DEF extract_message
  <2>4. CASE UNCHANGED vars
    BY <2>4, Zenon DEF vars
  <2> QED BY <2>1, <2>2, <2>3, <2>4 DEF Next
<1>4. TypeOK /\ [Next]_vars => Streams'
  <2> SUFFICES ASSUME buffer \in Seq(Byte), wire \in Seq(Byte),
                      sent \in Seq(Message), delivered \in Seq(Message),
                      TypeOK, [Next]_vars
               PROVE  Streams'
    BY DEF TypeOK
  <2>1. ASSUME NEW h \in Header, NEW m \in Message, send_frame(h, m)
        PROVE  Streams'
    <3>1. h \in Seq(Byte) /\ m \in Seq(Byte)
      BY HeaderType, MessageType
    <3> QED BY <2>1, <3>1 DEF send_frame
  <2>2. ASSUME NEW h \in Header, NEW rest \in {<<>>} \cup Frame,
               send_bad_length(h, rest)
        PROVE  Streams'
    <3>1. h \in Seq(Byte)
      BY HeaderType
    <3>2. rest \in Seq(Byte)
      <4>1. CASE rest \in Frame
        BY <4>1, FrameType
      <4>2. CASE rest = <<>>
        BY <4>2
      <4> QED BY <4>1, <4>2
    <3> QED BY <2>2, <3>1, <3>2 DEF send_bad_length
  <2>3. ASSUME NEW n \in 1..ReadSize, append(n)
        PROVE  Streams'
    <3>1. SubSeq(wire, 1, n) \in Seq(Byte)
      BY <2>3, MessageBufferConfig, SubSeqType DEF append
    <3>2. SubSeq(wire, n + 1, Len(wire)) \in Seq(Byte)
      BY <2>3, MessageBufferConfig, SubSeqType DEF append
    <3> QED BY <2>3, <3>1, <3>2 DEF append
  <2>4. CASE extract_message
    <3>1. wire' = wire /\ sent' = sent
      BY <2>4 DEF extract_message
    <3>2. buffer' \in Seq(Byte)
      <4>1. CASE buffer' = buffer
        BY <4>1
      <4>2. CASE buffer' = <<>>
        BY <4>2
      <4>3. CASE /\ Complete
                 /\ buffer' = SubSeq(buffer, Prefix + Length(buffer) + 1,
                                     Len(buffer))
        BY <4>3, Remainder
      <4> QED BY <2>4, <4>1, <4>2, <4>3, Zenon DEF extract_message
    <3>3. delivered' \in Seq(Message)
      <4>1. CASE delivered' = delivered
        BY <4>1
      <4>2. CASE /\ Complete /\ ValidLength(buffer)
                 /\ delivered' =
                      Append(delivered,
                             SubSeq(buffer, Prefix + 1, Prefix + Length(buffer)))
        BY <4>2, Extracted
      <4> QED BY <2>4, <4>1, <4>2, Zenon DEF extract_message
    <3> QED BY <3>1, <3>2, <3>3
  <2>5. CASE UNCHANGED vars
    BY <2>5 DEF vars
  <2> QED BY <2>1, <2>2, <2>3, <2>4, <2>5 DEF Next
<1>5. Init => TypeOK
  BY <1>1, <1>2, Zenon DEF TypeOK
<1>6. TypeOK /\ [Next]_vars => TypeOK'
  BY <1>3, <1>4, Zenon DEF TypeOK
<1> QED BY <1>5, <1>6, PTL DEF Spec

(***************************************************************************)
(* The bound itself, as the run checks it.                                 *)
(***************************************************************************)
THEOREM Bounded == Spec => []BufferBounded
<1>1. Init => BufferBounded
  BY MessageBufferConfig DEF Init, BufferBounded, Prefix
<1>2. TypeOK /\ BufferBounded /\ [Next]_vars => BufferBounded'
  <2> SUFFICES ASSUME TypeOK, BufferBounded, [Next]_vars
               PROVE  BufferBounded'
    OBVIOUS
  <2>1. ASSUME NEW h \in Header, NEW m \in Message, send_frame(h, m)
        PROVE  BufferBounded'
    BY <2>1 DEF send_frame, BufferBounded
  <2>2. ASSUME NEW h, NEW rest, send_bad_length(h, rest)
        PROVE  BufferBounded'
    BY <2>2 DEF send_bad_length, BufferBounded
  <2>3. ASSUME NEW n \in 1..ReadSize, append(n)
        PROVE  BufferBounded'
    <3>1. wire \in Seq(Byte) /\ buffer \in Seq(Byte)
      BY DEF TypeOK
    <3>2. SubSeq(wire, 1, n) \in Seq(Byte) /\ Len(SubSeq(wire, 1, n)) = n
      BY <2>3, <3>1, MessageBufferConfig, SubSeqType DEF append
    <3>3. Len(buffer') = Len(buffer) + n
      BY <2>3, <3>1, <3>2 DEF append
    <3>4. Len(buffer) < Prefix + MaxPacketSize
      BY <2>3 DEF append, BufferBounded
    <3>5. Len(buffer') < Prefix + MaxPacketSize + ReadSize
      BY <3>1, <3>3, <3>4, MessageBufferConfig DEF Prefix
    <3> QED BY <2>3, <3>5 DEF append, BufferBounded
  <2>4. CASE extract_message
    <3>1. buffer \in Seq(Byte)
      BY DEF TypeOK
    <3>2. CASE buffer' = <<>>
      BY <3>2, MessageBufferConfig DEF BufferBounded, Prefix
    <3>3. CASE /\ Len(buffer) >= Prefix => ValidLength(buffer)
               /\ ~Complete
               /\ buffer' = buffer
      <4>1. CASE Len(buffer) < Prefix
        BY <3>1, <3>3, <4>1, MessageBufferConfig DEF BufferBounded, Prefix
      <4>2. CASE Len(buffer) >= Prefix
        <5>1. Length(buffer) \in Nat /\ Length(buffer) <= MaxPacketSize
          BY <3>1, <3>3, <4>2, LengthType DEF ValidLength
        <5>2. Len(buffer) < Prefix + MaxPacketSize
          BY <3>1, <3>3, <4>2, <5>1, MessageBufferConfig DEF Complete, Prefix
        <5> QED BY <3>1, <3>3, <5>2, MessageBufferConfig
                DEF BufferBounded, Prefix
      <4> QED BY <3>1, <4>1, <4>2 DEF Prefix
    <3>4. CASE /\ Complete
               /\ buffer' = SubSeq(buffer, Prefix + Length(buffer) + 1,
                                   Len(buffer))
               /\ reading' = reading
      <4>1. buffer' \in Seq(Byte) /\ Len(buffer') <= Len(buffer)
        BY <3>4, Remainder
      <4>2. reading' # "waiting"
        BY <2>4, <3>4 DEF extract_message
      <4> QED BY <3>1, <4>1, <4>2, MessageBufferConfig
              DEF BufferBounded, Prefix
    <3> QED BY <2>4, <3>2, <3>3, <3>4 DEF extract_message
  <2>5. CASE UNCHANGED vars
    BY <2>5 DEF vars, BufferBounded
  <2> QED BY <2>1, <2>2, <2>3, <2>4, <2>5 DEF Next
<1> QED BY <1>1, <1>2, TypeCorrect, PTL DEF Spec
-----------------------------------------------------------------------------
(***************************************************************************)
(* The framing.  The bytes read and not yet extracted, followed by those   *)
(* on the way, are the frames of the messages not yet delivered, then      *)
(* nothing, or a bad length and whatever comes behind it.  To say so       *)
(* without recursion, p gives the position of each frame in these bytes.   *)
(***************************************************************************)
Stream == buffer \o wire

\* Length, of the prefix behind position p.
LengthAt(s, p) == ((s[p + 1] * Radix + s[p + 2]) * Radix + s[p + 3]) * Radix + s[p + 4]

\* The bytes of s behind p and up to q are the frame of message m.
FrameAt(s, p, q, m) ==
    /\ LengthAt(s, p) = Len(m)
    /\ q = p + Prefix + Len(m)
    /\ \A k \in 1..Len(m) : s[p + Prefix + k] = m[k]

\* s starts with the frames of the messages of ms behind the first d.
Frames(s, ms, d, p) ==
    /\ p[d + 1] = 0
    /\ \A i \in d + 1 .. Len(ms) : FrameAt(s, p[i], p[i + 1], ms[i])
    /\ \A i, j \in d + 1 .. Len(ms) + 1 : i <= j => p[i] <= p[j]

\* What is behind them.
Behind(s, p, b) ==
    /\ ~b => p = Len(s)
    /\ b => p + Prefix <= Len(s) /\ LengthAt(s, p) \notin 1..MaxPacketSize

\* t is s, a prefix for length l, and m.
Extended(s, t, l, m) ==
    /\ Len(s) \in Nat
    /\ Len(t) = Len(s) + Prefix + Len(m)
    /\ \A k \in 1..Len(s) : t[k] = s[k]
    /\ LengthAt(t, Len(s)) = l
    /\ \A k \in 1..Len(m) : t[Len(s) + Prefix + k] = m[k]

\* t is s without its first c bytes.
Shorter(s, t, c) ==
    /\ Len(s) \in Nat
    /\ Len(t) = Len(s) - c
    /\ \A k \in 1..(Len(s) - c) : t[k] = s[c + k]

FramedIn(s, ms, d, b) ==
    \E p \in [Nat -> Nat] : Frames(s, ms, d, p) /\ Behind(s, p[Len(ms) + 1], b)

Framed == FramedIn(Stream, sent, Len(delivered), broken)

\* What was delivered is a prefix of what was sent.
Delivered ==
    /\ Len(delivered) <= Len(sent)
    /\ \A i \in 1..Len(delivered) : delivered[i] = sent[i]

\* The inductive invariant of the refinement, together with TypeOK.
FramingInv ==
    /\ Delivered
    /\ reading # "closed" => Framed
    /\ reading = "closed" => broken /\ delivered = sent

\* A message is not empty and not too long.
LEMMA MessageLength ==
    ASSUME NEW m \in Message
    PROVE  m \in Seq(Byte) /\ Len(m) \in Nat /\ Len(m) \in 1..MaxPacketSize
BY MessageBufferConfig, MessageType DEF Message, Bytes

\* The length of a sequence is a number.
LEMMA LengthNat ==
    ASSUME NEW x \in Seq(Byte)
    PROVE  Len(x) \in Nat
OBVIOUS

\* A length prefix has four bytes.
LEMMA HeaderLength ==
    ASSUME NEW h \in Header
    PROVE  Len(h) = Prefix
BY DEF Header, Prefix

\* The elements of a concatenation.
LEMMA Concat ==
    ASSUME NEW S, NEW a \in Seq(S), NEW b \in Seq(S)
    PROVE  /\ a \o b \in Seq(S) /\ Len(a \o b) = Len(a) + Len(b)
           /\ \A k \in 1..Len(a) : (a \o b)[k] = a[k]
           /\ \A k \in 1..Len(b) : (a \o b)[Len(a) + k] = b[k]
OBVIOUS

\* Three sequences put together: where the elements of each are.
LEMMA ThreeParts ==
    ASSUME NEW S, NEW s \in Seq(S), NEW h \in Seq(S), NEW m \in Seq(S)
    PROVE  LET t == (s \o h) \o m
           IN  /\ t \in Seq(S)
               /\ Len(t) = Len(s) + Len(h) + Len(m)
               /\ \A k \in 1..Len(s) : t[k] = s[k]
               /\ \A k \in 1..Len(h) : t[Len(s) + k] = h[k]
               /\ \A k \in 1..Len(m) : t[Len(s) + Len(h) + k] = m[k]
<1> DEFINE u == s \o h
           t == u \o m
<1>1. /\ u \in Seq(S) /\ Len(u) = Len(s) + Len(h)
      /\ \A k \in 1..Len(s) : u[k] = s[k]
      /\ \A k \in 1..Len(h) : u[Len(s) + k] = h[k]
  BY Concat
<1> HIDE DEF u
<1>2. /\ t \in Seq(S) /\ Len(t) = Len(u) + Len(m)
      /\ \A k \in 1..Len(u) : t[k] = u[k]
      /\ \A k \in 1..Len(m) : t[Len(u) + k] = m[k]
  <2>1. u \in Seq(S)
    BY <1>1
  <2> QED  BY <2>1
<1> HIDE DEF t
<1>3. Len(s) \in Nat /\ Len(h) \in Nat /\ Len(m) \in Nat
  OBVIOUS
<1>4. \A k \in 1..Len(s) : t[k] = s[k]
  <2>1. \A k \in 1..Len(s) : k \in 1..Len(u)
    BY <1>1, <1>3
  <2> QED  BY <1>1, <1>2, <2>1
<1>5. \A k \in 1..Len(h) : t[Len(s) + k] = h[k]
  <2>1. \A k \in 1..Len(h) : Len(s) + k \in 1..Len(u)
    BY <1>1, <1>3
  <2> QED  BY <1>1, <1>2, <2>1
<1>6. \A k \in 1..Len(m) : t[Len(s) + Len(h) + k] = m[k]
  BY <1>1, <1>2
<1>7. Len(t) = Len(s) + Len(h) + Len(m)
  BY <1>1, <1>2
<1> QED  BY <1>2, <1>4, <1>5, <1>6, <1>7 DEF t, u

\* More bytes on the wire: a header h and what follows it.
LEMMA Longer ==
    ASSUME NEW a \in Seq(Byte), NEW b \in Seq(Byte), NEW h \in Header, NEW m \in Seq(Byte)
    PROVE  LET s == a \o b
               t == a \o (b \o h \o m)
           IN  /\ Len(t) = Len(s) + Prefix + Len(m)
               /\ \A k \in 1..Len(s) : t[k] = s[k]
               /\ LengthAt(t, Len(s)) = Length(h)
               /\ \A k \in 1..Len(m) : t[Len(s) + Prefix + k] = m[k]
<1> DEFINE s == a \o b
           t == a \o (b \o h \o m)
<1>1. h \in Seq(Byte) /\ Len(h) = Prefix
  BY HeaderType, HeaderLength
<1>2. t = (s \o h) \o m
  BY <1>1
<1>3. s \in Seq(Byte)
  BY Concat
<1> HIDE DEF s, t
<1>4. /\ Len(t) = Len(s) + Len(h) + Len(m)
      /\ \A k \in 1..Len(s) : t[k] = s[k]
      /\ \A k \in 1..Len(h) : t[Len(s) + k] = h[k]
      /\ \A k \in 1..Len(m) : t[Len(s) + Len(h) + k] = m[k]
  <2>1. h \in Seq(Byte)
    BY <1>1
  <2> QED  BY <1>2, <1>3, <2>1, ThreeParts
<1>5. /\ Len(t) = Len(s) + Prefix + Len(m)
      /\ \A k \in 1..Prefix : t[Len(s) + k] = h[k]
      /\ \A k \in 1..Len(m) : t[Len(s) + Prefix + k] = m[k]
  BY <1>1, <1>4, Zenon
<1>6. LengthAt(t, Len(s)) = Length(h)
  <2>1. t[Len(s) + 1] = h[1] /\ t[Len(s) + 2] = h[2] /\ t[Len(s) + 3] = h[3] /\ t[Len(s) + 4] = h[4]
    BY <1>5 DEF Prefix
  <2> QED  BY <2>1 DEF LengthAt, Length
<1> QED  BY <1>4, <1>5, <1>6 DEF s, t

\* A prefix or a frame is the same after c bytes in front are gone.
LEMMA SameLength ==
    ASSUME NEW s, NEW t, NEW c \in Nat, NEW p \in Nat, c <= p,
           \A k \in 1..(p + Prefix - c) : t[k] = s[c + k]
    PROVE  LengthAt(t, p - c) = LengthAt(s, p)
<1>1. /\ t[p - c + 1] = s[c + (p - c + 1)] /\ t[p - c + 2] = s[c + (p - c + 2)]
      /\ t[p - c + 3] = s[c + (p - c + 3)] /\ t[p - c + 4] = s[c + (p - c + 4)]
  BY DEF Prefix
<1>2. /\ c + (p - c + 1) = p + 1 /\ c + (p - c + 2) = p + 2
      /\ c + (p - c + 3) = p + 3 /\ c + (p - c + 4) = p + 4
  OBVIOUS
<1>3. t[p - c + 1] = s[p + 1] /\ t[p - c + 2] = s[p + 2] /\ t[p - c + 3] = s[p + 3]
      /\ t[p - c + 4] = s[p + 4]
  BY <1>1, <1>2
<1> QED  BY <1>3 DEF LengthAt

\* And so is a frame.
LEMMA SameFrame ==
    ASSUME NEW s, NEW t, NEW c \in Nat, NEW p \in Nat, NEW q \in Nat, c <= p,
           NEW m \in Seq(Byte), FrameAt(s, p, q, m), \A k \in 1..(q - c) : t[k] = s[c + k]
    PROVE  FrameAt(t, p - c, q - c, m)
<1>1. Len(m) \in Nat /\ q = p + Prefix + Len(m)
  BY DEF FrameAt
<1>2. LengthAt(t, p - c) = LengthAt(s, p)
  <2>1. \A k \in 1..(p + Prefix - c) : k \in 1..(q - c)
    BY <1>1 DEF Prefix
  <2>2. \A k \in 1..(p + Prefix - c) : t[k] = s[c + k]
    BY <2>1
  <2> QED  BY <2>2, SameLength
<1>3. q - c = p - c + Prefix + Len(m)
  BY <1>1 DEF Prefix
<1>4. \A k \in 1..Len(m) : t[p - c + Prefix + k] = s[p + Prefix + k]
  <2> SUFFICES ASSUME NEW k \in 1..Len(m) PROVE t[p - c + Prefix + k] = s[p + Prefix + k]
    OBVIOUS
  <2>1. p - c + Prefix + k \in 1..(q - c) /\ c + (p - c + Prefix + k) = p + Prefix + k
    BY <1>1 DEF Prefix
  <2>2. t[p - c + Prefix + k] = s[c + (p - c + Prefix + k)]
    BY <2>1
  <2> QED  BY <2>1, <2>2
<1> QED  BY <1>2, <1>3, <1>4 DEF FrameAt

\* The frames of s are in t, which starts with the bytes of s.
LEMMA KeepFrames ==
    ASSUME NEW s, NEW t, NEW ms \in Seq(Message), NEW d \in Nat, d <= Len(ms),
           NEW p \in [Nat -> Nat], Frames(s, ms, d, p),
           NEW e \in Nat, p[Len(ms) + 1] <= e, \A k \in 1..e : t[k] = s[k]
    PROVE  Frames(t, ms, d, p)
<1>1. Len(ms) \in Nat
  OBVIOUS
<1> SUFFICES ASSUME NEW i \in d + 1 .. Len(ms)
             PROVE  FrameAt(t, p[i], p[i + 1], ms[i])
  BY DEF Frames
<1>2. i \in Nat /\ i + 1 \in d + 1 .. Len(ms) + 1 /\ i + 1 <= Len(ms) + 1
      /\ Len(ms) + 1 \in d + 1 .. Len(ms) + 1 /\ i + 1 \in Nat /\ Len(ms) + 1 \in Nat
      /\ i \in 1..Len(ms)
  BY <1>1
<1>3. ms[i] \in Message
  BY <1>2
<1>4. ms[i] \in Seq(Byte)
  BY <1>3, MessageLength
<1>5. p[i] \in Nat /\ p[i + 1] \in Nat /\ p[Len(ms) + 1] \in Nat
  BY <1>2
<1>6. p[i + 1] <= p[Len(ms) + 1] /\ FrameAt(s, p[i], p[i + 1], ms[i])
  BY <1>2 DEF Frames
<1>7. \A k \in 1..p[i + 1] : k \in 1..e
  BY <1>5, <1>6
<1> QED
  <2> DEFINE x == p[i]
             y == p[i + 1]
             z == ms[i]
  <2>1. x \in Nat /\ y \in Nat /\ z \in Seq(Byte) /\ FrameAt(s, x, y, z)
    BY <1>4, <1>5, <1>6
  <2>2. \A k \in 1..y : t[k] = s[k]
    BY <1>7
  <2> HIDE DEF x, y, z
  <2>3. \A k \in 1..(y - 0) : t[k] = s[0 + k]
    <3>1. \A k \in 1..(y - 0) : k \in 1..y /\ 0 + k = k
      BY <2>1
    <3> QED  BY <2>2, <3>1
  <2>4. 0 <= x /\ x - 0 = x /\ y - 0 = y
    BY <2>1
  <2>5. FrameAt(t, x - 0, y - 0, z)
    BY <2>1, <2>3, <2>4, SameFrame
  <2> QED  BY <2>4, <2>5 DEF x, y, z

\* The peer sends a frame: its position is the end of the bytes before it.
LEMMA AddFrame ==
    ASSUME NEW s, NEW t, NEW m \in Message, NEW ms \in Seq(Message), NEW d \in Nat, d <= Len(ms),
           FramedIn(s, ms, d, FALSE),
           Extended(s, t, Len(m), m), NEW ns, ns = Append(ms, m)
    PROVE  FramedIn(t, ns, d, FALSE)
<1>0. PICK p \in [Nat -> Nat] : Frames(s, ms, d, p) /\ Behind(s, p[Len(ms) + 1], FALSE)
  BY Zenon DEF FramedIn
<1> DEFINE n == Len(ms)
           l == Len(m)
<1>1. l \in Nat
  BY MessageLength
<1>3. /\ Len(t) = Len(s) + Prefix + l
      /\ \A k \in 1..Len(s) : t[k] = s[k]
      /\ LengthAt(t, Len(s)) = l
      /\ \A k \in 1..l : t[Len(s) + Prefix + k] = m[k]
  BY DEF Extended
<1>4. Frames(s, ms, d, p) /\ p[n + 1] = Len(s)
  BY <1>0, Zenon DEF Behind
<1>5. n \in Nat /\ d <= n
  OBVIOUS
<1>6. /\ ns \in Seq(Message) /\ Len(ns) = n + 1
      /\ \A i \in 1..n : ns[i] = ms[i]
      /\ ns[n + 1] = m
  OBVIOUS
<1>7. Len(s) \in Nat
  BY DEF Extended
<1> HIDE DEF n, l
<1> DEFINE e == Len(s) + Prefix + l
           q == [p EXCEPT ![n + 2] = e]
<1>8. e \in Nat
  BY <1>1, <1>7 DEF Prefix
<1>9. /\ q \in [Nat -> Nat] /\ q[n + 2] = e
      /\ \A i \in d + 1 .. n + 1 : i \in Nat /\ q[i] = p[i]
  <2>1. n + 2 \in Nat /\ \A i \in d + 1 .. n + 1 : i \in Nat /\ i # n + 2
    BY <1>5
  <2> HIDE DEF e
  <2> QED  BY <1>8, <2>1
<1> HIDE DEF e, q
<1>10. Frames(t, ms, d, p)
  <2>1. p[Len(ms) + 1] <= Len(s)
    BY <1>4, <1>7 DEF n
  <2>2. d <= Len(ms) /\ \A k \in 1..Len(s) : t[k] = s[k]
    BY <1>3
  <2> QED  BY <1>4, <1>7, <2>1, <2>2, KeepFrames, Zenon
<1>11. q[d + 1] = 0
  BY <1>4, <1>5, <1>9 DEF Frames
<1>12. ASSUME NEW i \in d + 1 .. n + 1
       PROVE  FrameAt(t, q[i], q[i + 1], ns[i])
  <2>1. CASE i = n + 1
    <3>1. q[i] = Len(s) /\ q[i + 1] = e /\ ns[i] = m
      <4>1. i + 1 = n + 2
        BY <1>5, <2>1
      <4> QED  BY <1>4, <1>5, <1>6, <1>9, <2>1, <4>1
    <3>2. FrameAt(t, Len(s), e, m)
      BY <1>3 DEF FrameAt, e, l
    <3> QED  BY <3>1, <3>2
  <2>2. CASE i \in d + 1 .. n
    <3>1. i + 1 \in d + 1 .. n + 1 /\ i \in 1..n
      BY <1>5, <2>2
    <3>2. q[i] = p[i] /\ q[i + 1] = p[i + 1] /\ ns[i] = ms[i]
      BY <1>6, <1>9, <3>1
    <3>3. FrameAt(t, p[i], p[i + 1], ms[i])
      BY <1>10, <2>2 DEF Frames, n
    <3> QED  BY <3>2, <3>3
  <2>3. i = n + 1 \/ i \in d + 1 .. n
    BY <1>5, <1>12
  <2> QED  BY <2>1, <2>2, <2>3
<1>13. ASSUME NEW i \in d + 1 .. n + 2, NEW j \in d + 1 .. n + 2, i <= j
       PROVE  q[i] <= q[j]
  <2>0. \A k \in d + 1 .. n + 1 : q[k] = p[k] /\ p[k] <= Len(s) /\ p[k] \in Nat
    <3>1. \A k \in d + 1 .. n + 1 : k <= n + 1 /\ k \in Nat
      BY <1>5
    <3>2. n + 1 \in d + 1 .. n + 1
      BY <1>5
    <3> QED  BY <1>4, <1>9, <3>1, <3>2 DEF Frames, n
  <2>1. CASE i = n + 2 /\ j = n + 2
    BY <1>8, <1>9, <2>1
  <2>2. CASE i \in d + 1 .. n + 1 /\ j = n + 2
    <3>1. q[i] \in Nat /\ q[i] <= Len(s) /\ q[j] = e
      BY <1>9, <2>0, <2>2
    <3>2. Len(s) <= e
      BY <1>1, <1>7 DEF e, Prefix
    <3>3. \A x, y, z \in Nat : x <= y /\ y <= z => x <= z
      OBVIOUS
    <3> QED  BY <1>7, <1>8, <3>1, <3>2, <3>3, Zenon
  <2>3. CASE i \in d + 1 .. n + 1 /\ j \in d + 1 .. n + 1
    <3>1. p[i] <= p[j]
      BY <1>4, <1>13, <2>3 DEF Frames, n
    <3>2. q[i] = p[i] /\ q[j] = p[j]
      BY <2>0, <2>3, Zenon
    <3> QED  BY <3>1, <3>2
  <2>4. \A k \in d + 1 .. n + 2 : k = n + 2 \/ k \in d + 1 .. n + 1
    BY <1>5
  <2>5. ~(i = n + 2 /\ j \in d + 1 .. n + 1)
    BY <1>5, <1>13
  <2> QED  BY <2>1, <2>2, <2>3, <2>4, <2>5
<1>14. Frames(t, ns, d, q)
  <2>1. Len(ns) + 1 = n + 2
    BY <1>5, <1>6
  <2> QED  BY <1>6, <1>11, <1>12, <1>13, <2>1 DEF Frames
<1>15. q[Len(ns) + 1] = Len(t)
  <2>1. Len(ns) + 1 = n + 2
    BY <1>5, <1>6
  <2> QED  BY <1>3, <1>9, <2>1 DEF e
<1>16. Behind(t, q[Len(ns) + 1], FALSE)
  BY <1>15, Zenon DEF Behind
<1> QED  BY <1>9, <1>14, <1>16, Zenon DEF FramedIn

\* What is left of a sequence behind its first c elements, with b behind it.
LEMMA Shifted ==
    ASSUME NEW S, NEW a \in Seq(S), NEW b \in Seq(S), NEW c \in Nat, c <= Len(a)
    PROVE  Shorter(a \o b, SubSeq(a, c + 1, Len(a)) \o b, c)
<1> DEFINE r == SubSeq(a, c + 1, Len(a))
           s == a \o b
           t == r \o b
<1>1. Len(a) \in Nat /\ Len(b) \in Nat
  OBVIOUS
<1>2. r \in Seq(S) /\ Len(r) = Len(a) - c
  <2> DEFINE i == c + 1
  <2>1. i \in Nat /\ i >= 1 /\ i <= Len(a) + 1 /\ Len(a) - i + 1 = Len(a) - c
    BY <1>1
  <2> HIDE DEF i
  <2>2. SubSeq(a, i, Len(a)) \in Seq(S) /\ Len(SubSeq(a, i, Len(a))) = Len(a) - i + 1
    BY <1>1, <2>1, SubSeqType
  <2> QED  BY <2>1, <2>2 DEF i
<1>3. \A k \in 1..Len(r) : r[k] = a[c + k]
  <2> SUFFICES ASSUME NEW k \in 1..Len(r) PROVE r[k] = a[c + k]
    OBVIOUS
  <2>1. k \in 1..(Len(a) - c)
    BY <1>2
  <2>2. c + 1 + k - 1 = c + k
    BY <2>1
  <2> QED  BY <1>1, <2>1, <2>2
<1>4. /\ Len(s) = Len(a) + Len(b)
      /\ \A k \in 1..Len(a) : s[k] = a[k]
      /\ \A k \in 1..Len(b) : s[Len(a) + k] = b[k]
  BY Concat
<1> HIDE DEF r
<1>5. /\ t \in Seq(S) /\ Len(t) = Len(r) + Len(b)
      /\ \A k \in 1..Len(r) : t[k] = r[k]
      /\ \A k \in 1..Len(b) : t[Len(r) + k] = b[k]
  <2>1. r \in Seq(S)
    BY <1>2
  <2> QED  BY <2>1
<1> HIDE DEF s, t
<1>6. Len(t) = Len(s) - c
  BY <1>1, <1>2, <1>4, <1>5
<1>7. ASSUME NEW k \in 1..(Len(s) - c) PROVE t[k] = s[c + k]
  <2>1. CASE k \in 1..Len(r)
    <3>1. c + k \in 1..Len(a)
      BY <1>1, <1>2, <2>1
    <3> QED  BY <1>3, <1>4, <1>5, <2>1, <3>1
  <2>2. CASE k \notin 1..Len(r)
    <3> DEFINE l == k - Len(r)
    <3>1. l \in 1..Len(b) /\ k = Len(r) + l /\ c + k = Len(a) + l
      BY <1>1, <1>2, <1>4, <1>7, <2>2
    <3> HIDE DEF l
    <3>2. t[k] = b[l] /\ s[c + k] = b[l]
      BY <1>4, <1>5, <3>1
    <3> QED  BY <3>2
  <2> QED  BY <2>1, <2>2
<1>8. Len(s) \in Nat
  BY <1>1, <1>4
<1>9. Shorter(s, t, c)
  BY <1>6, <1>7, <1>8 DEF Shorter
<1> QED  BY <1>9 DEF s, t, r

\* What the next lemmas need of numbers.
LEMMA Arithmetic ==
    /\ \A x, y \in Nat : x < y => x + 1 <= y
    /\ \A x, y, z \in Nat : x <= y /\ y <= z => x <= z
    /\ \A x, c \in Nat : c <= x => x - c \in Nat
    /\ \A x, y, c \in Nat : c <= x /\ x <= y => x - c <= y - c
    /\ \A x, y, c \in Nat : x <= y => \A k \in 1..(x - c) : k \in 1..(y - c)
OBVIOUS

\* What is behind the frames is behind them when the first is gone.
LEMMA StillBehind ==
    ASSUME NEW s, NEW t, NEW c \in Nat, NEW p \in Nat, c <= p, Shorter(s, t, c),
           NEW b \in BOOLEAN, Behind(s, p, b)
    PROVE  p <= Len(s) /\ Behind(t, p - c, b)
<1>1. Len(s) \in Nat /\ Len(t) = Len(s) - c
  BY DEF Shorter
<1>2. CASE ~b
  <2>1. p = Len(s)
    BY <1>2, Zenon DEF Behind
  <2>2. p <= Len(s) /\ p - c = Len(t)
    BY <1>1, <2>1
  <2> QED  BY <1>2, <2>2, Zenon DEF Behind
<1>3. CASE b
  <2>1. p + Prefix <= Len(s) /\ LengthAt(s, p) \notin 1..MaxPacketSize
    BY <1>3, Zenon DEF Behind
  <2>2. p <= Len(s) /\ p - c + Prefix <= Len(t)
    BY <1>1, <2>1 DEF Prefix
  <2>3. \A k \in 1..(p + Prefix - c) : t[k] = s[c + k]
    <3>1. \A k \in 1..(p + Prefix - c) : k \in 1..(Len(s) - c)
      BY <1>1, <2>1 DEF Prefix
    <3> QED  BY <3>1 DEF Shorter
  <2>4. LengthAt(t, p - c) = LengthAt(s, p)
    BY <2>3, SameLength
  <2>5. LengthAt(t, p - c) \notin 1..MaxPacketSize
    BY <2>1, <2>4
  <2> QED  BY <1>3, <2>2, <2>5, Zenon DEF Behind
<1> QED  BY <1>2, <1>3, Zenon

\* The first frame of s is gone from t.
LEMMA DropFrame ==
    ASSUME NEW s, NEW t, NEW ms \in Seq(Message), NEW d \in Nat, d < Len(ms),
           NEW b \in BOOLEAN, NEW p \in [Nat -> Nat], Frames(s, ms, d, p),
           Behind(s, p[Len(ms) + 1], b), NEW c \in Nat, c = p[d + 2], Shorter(s, t, c)
    PROVE  FramedIn(t, ms, d + 1, b)
<1> DEFINE n == Len(ms)
<1>1. n \in Nat /\ d + 1 <= n
  <2>1. n \in Nat /\ d < n
    OBVIOUS
  <2> HIDE DEF n
  <2> QED  BY <2>1, Arithmetic, Zenon
<1>2. Frames(s, ms, d, p) /\ p[n + 1] \in Nat
  OBVIOUS
<1>3. Len(s) \in Nat /\ \A k \in 1..(Len(s) - c) : t[k] = s[c + k]
  BY DEF Shorter
<1> HIDE DEF n
<1>4. \A i \in d + 2 .. n + 1 : i \in Nat /\ p[i] \in Nat /\ c <= p[i] /\ p[i] <= p[n + 1]
  <2>1. /\ d + 2 \in d + 1 .. n + 1 /\ n + 1 \in d + 1 .. n + 1
        /\ \A i \in d + 2 .. n + 1 : i \in d + 1 .. n + 1 /\ d + 2 <= i /\ i <= n + 1 /\ i \in Nat
    BY <1>1
  <2> QED  BY <1>2, <2>1 DEF Frames, n
<1>12. p[n + 1] <= Len(s) /\ Behind(t, p[n + 1] - c, b)
  <2>1. c <= p[n + 1]
    BY <1>1, <1>4
  <2> QED  BY <1>2, <2>1, StillBehind, Zenon DEF n
<1> DEFINE q == [i \in Nat |-> IF i \in d + 2 .. n + 1 THEN p[i] - c ELSE 0]
<1>5. /\ q \in [Nat -> Nat]
      /\ \A i \in d + 2 .. n + 1 : q[i] = p[i] - c
  <2>1. \A i \in d + 2 .. n + 1 : p[i] - c \in Nat
    BY <1>4, Arithmetic, Zenon
  <2> QED  BY <1>4, <2>1
<1> HIDE DEF q
<1>6. d + 2 \in d + 2 .. n + 1 /\ n + 1 \in d + 2 .. n + 1 /\ d + 1 + 1 = d + 2
  BY <1>1
<1>7. q[d + 1 + 1] = 0
  BY <1>5, <1>6
<1>8. ASSUME NEW i \in d + 1 + 1 .. n
      PROVE  FrameAt(t, q[i], q[i + 1], ms[i])
  <2>1. i \in d + 2 .. n + 1 /\ i + 1 \in d + 2 .. n + 1 /\ i \in d + 1 .. n /\ i \in 1..n
    BY <1>1, <1>8
  <2> DEFINE x == p[i]
             y == p[i + 1]
             z == ms[i]
  <2>2. q[i] = x - c /\ q[i + 1] = y - c
    BY <1>5, <2>1
  <2>3. z \in Seq(Byte)
    <3>1. z \in Message
      BY <2>1 DEF n
    <3> QED  BY <3>1, MessageLength
  <2>4. x \in Nat /\ y \in Nat /\ c <= x /\ y <= p[n + 1] /\ p[n + 1] \in Nat
    BY <1>4, <1>6, <2>1
  <2>5. FrameAt(s, x, y, z)
    BY <1>2, <2>1 DEF Frames, n
  <2> HIDE DEF x, y, z
  <2>6. y <= Len(s)
    BY <1>3, <1>12, <2>4, Arithmetic, Zenon
  <2>7. \A k \in 1..(y - c) : k \in 1..(Len(s) - c)
    BY <1>3, <2>4, <2>6, Arithmetic, Zenon
  <2>8. \A k \in 1..(y - c) : t[k] = s[c + k]
    BY <1>3, <2>7
  <2>9. FrameAt(t, x - c, y - c, z)
    BY <2>3, <2>4, <2>5, <2>8, SameFrame
  <2> QED  BY <2>2, <2>9 DEF z
<1>9. ASSUME NEW i \in d + 1 + 1 .. n + 1, NEW j \in d + 1 + 1 .. n + 1, i <= j
      PROVE  q[i] <= q[j]
  <2>1. /\ i \in d + 2 .. n + 1 /\ j \in d + 2 .. n + 1
        /\ i \in d + 1 .. n + 1 /\ j \in d + 1 .. n + 1
    BY <1>1, <1>9
  <2>2. p[i] <= p[j]
    BY <1>2, <1>9, <2>1 DEF Frames, n
  <2>3. /\ p[i] \in Nat /\ p[j] \in Nat /\ c <= p[i]
        /\ q[i] = p[i] - c /\ q[j] = p[j] - c
    BY <1>4, <1>5, <2>1
  <2>4. p[i] - c <= p[j] - c
    BY <2>2, <2>3, Arithmetic, Zenon
  <2> QED  BY <2>3, <2>4
<1>10. Frames(t, ms, d + 1, q)
  BY <1>7, <1>8, <1>9 DEF Frames, n
<1>11. Behind(t, q[n + 1], b)
  BY <1>5, <1>6, <1>12, Zenon
<1> QED  BY <1>5, <1>10, <1>11, Zenon DEF FramedIn, n

\* The message that extract_message cuts off is the one of the first frame.
LEMMA FirstMessage ==
    ASSUME NEW a \in Seq(Byte), NEW b \in Seq(Byte), Len(a) >= Prefix,
           NEW m \in Seq(Byte), NEW q, FrameAt(a \o b, 0, q, m)
    PROVE  /\ Length(a) = Len(m)
           /\ q = Prefix + Length(a)
           /\ q <= Len(a) => SubSeq(a, Prefix + 1, q) = m
<1> DEFINE s == a \o b
           l == Len(m)
<1>1. l \in Nat /\ Len(a) \in Nat
  OBVIOUS
<1>2. \A k \in 1..Len(a) : s[k] = a[k]
  BY Concat
<1>3. LengthAt(s, 0) = l /\ q = 0 + Prefix + l
      /\ \A k \in 1..l : s[0 + Prefix + k] = m[k]
  BY DEF FrameAt
<1> HIDE DEF s, l
<1>4. s[1] = a[1] /\ s[2] = a[2] /\ s[3] = a[3] /\ s[4] = a[4]
  BY <1>1, <1>2 DEF Prefix
<1>5. LengthAt(s, 0) = Length(a)
  <2>1. 0 + 1 = 1 /\ 0 + 2 = 2 /\ 0 + 3 = 3 /\ 0 + 4 = 4
    OBVIOUS
  <2> QED  BY <1>4, <2>1 DEF LengthAt, Length
<1>6. Length(a) = l /\ q = Prefix + Length(a)
  BY <1>1, <1>3, <1>5 DEF Prefix
<1>7. ASSUME q <= Len(a) PROVE SubSeq(a, Prefix + 1, q) = m
  <2>1. q = Prefix + l /\ q \in Nat
    BY <1>1, <1>6 DEF Prefix
  <2> DEFINE u == SubSeq(a, Prefix + 1, q)
  <2>2. u \in Seq(Byte) /\ Len(u) = l
    <3>1. Prefix + 1 \in Nat /\ Prefix + 1 >= 1 /\ Prefix + 1 <= q + 1 /\ q - (Prefix + 1) + 1 = l
      BY <1>1, <2>1 DEF Prefix
    <3> QED  BY <1>7, <2>1, <3>1, SubSeqType
  <2>3. ASSUME NEW k \in 1..l PROVE u[k] = m[k]
    <3>1. Prefix + k \in 1..Len(a) /\ 0 + Prefix + k = Prefix + k
          /\ Prefix + 1 + k - 1 = Prefix + k
      BY <1>1, <1>7, <2>1, <2>3 DEF Prefix
    <3>2. u[k] = a[Prefix + k]
      BY <1>1, <1>7, <2>1, <3>1 DEF Prefix
    <3> QED  BY <1>2, <1>3, <3>1, <3>2
  <2> HIDE DEF u
  <2>4. u = m
    BY <2>2, <2>3 DEF l
  <2> QED  BY <2>4 DEF u
<1> QED  BY <1>6, <1>7 DEF l

\* The frame in front of a is cut off, if all of it is there.
FirstCut(a, w, ms, d, b) ==
    Prefix + Length(a) <= Len(a) =>
        /\ SubSeq(a, Prefix + 1, Prefix + Length(a)) = ms[d + 1]
        /\ FramedIn(SubSeq(a, Prefix + Length(a) + 1, Len(a)) \o w, ms, d + 1, b)

\* There is a message to deliver: its frame is the first.
LEMMA NextFrame ==
    ASSUME NEW a \in Seq(Byte), NEW w \in Seq(Byte), Len(a) >= Prefix, NEW ms \in Seq(Message),
           NEW d \in Nat, d < Len(ms), NEW b \in BOOLEAN, FramedIn(a \o w, ms, d, b)
    PROVE  /\ ValidLength(a)
           /\ FirstCut(a, w, ms, d, b)
<1> DEFINE s == a \o w
           m == ms[d + 1]
           c == Prefix + Length(a)
           t == SubSeq(a, c + 1, Len(a)) \o w
<1>1. PICK p \in [Nat -> Nat] : Frames(s, ms, d, p) /\ Behind(s, p[Len(ms) + 1], b)
  BY Zenon DEF FramedIn
<1>2. /\ Len(ms) \in Nat /\ d + 1 \in 1..Len(ms) /\ d + 1 \in d + 1 .. Len(ms)
      /\ d + 1 + 1 = d + 2 /\ d + 2 \in Nat
  <2> DEFINE n == Len(ms)
  <2>1. n \in Nat /\ d < n
    OBVIOUS
  <2> HIDE DEF n
  <2>2. d + 1 \in 1..n /\ d + 1 \in d + 1 .. n /\ d + 1 + 1 = d + 2 /\ d + 2 \in Nat
    BY <2>1
  <2> QED  BY <2>1, <2>2 DEF n
<1>3. m \in Message
  BY <1>2
<1>4. m \in Seq(Byte) /\ Len(m) \in 1..MaxPacketSize
  BY <1>3, MessageLength
<1>5. FrameAt(s, 0, p[d + 2], m)
  BY <1>1, <1>2 DEF Frames
<1>6. p[d + 2] \in Nat
  BY <1>2
<1> HIDE DEF m
<1>7. /\ Length(a) = Len(m) /\ p[d + 2] = c
      /\ c <= Len(a) => SubSeq(a, Prefix + 1, c) = m
  <2>1. /\ Length(a) = Len(m) /\ p[d + 2] = Prefix + Length(a)
        /\ p[d + 2] <= Len(a) => SubSeq(a, Prefix + 1, p[d + 2]) = m
    <3>1. m \in Seq(Byte)
      BY <1>4
    <3> QED  BY <1>5, <3>1, FirstMessage, Zenon
  <2> QED  BY <2>1
<1>8. ValidLength(a)
  BY <1>4, <1>7, MessageBufferConfig DEF ValidLength
<1>9. ASSUME c <= Len(a) PROVE FramedIn(t, ms, d + 1, b)
  <2>1. c \in Nat
    BY <1>6, <1>7, Zenon
  <2> HIDE DEF c
  <2>2. Shorter(s, t, c)
    BY <1>9, <2>1, Shifted
  <2> HIDE DEF s, t
  <2> QED  BY <1>1, <1>7, <2>1, <2>2, DropFrame, Zenon
<1> QED  BY <1>7, <1>8, <1>9, Zenon DEF c, m, FirstCut

\* There is none: the peer has sent nothing more, or a bad length.
LEMMA NoFrame ==
    ASSUME NEW a \in Seq(Byte), NEW w \in Seq(Byte), Len(a) >= Prefix, NEW ms,
           NEW d \in Nat, d = Len(ms), NEW b \in BOOLEAN, FramedIn(a \o w, ms, d, b)
    PROVE  b /\ ~ValidLength(a)
<1> DEFINE s == a \o w
<1>1. PICK p \in [Nat -> Nat] : Frames(s, ms, d, p) /\ Behind(s, p[Len(ms) + 1], b)
  BY Zenon DEF FramedIn
<1>2. p[Len(ms) + 1] = 0
  BY <1>1 DEF Frames
<1>3. Behind(s, 0, b)
  BY <1>1, <1>2, Zenon
<1>4. Len(s) = Len(a) + Len(w) /\ \A k \in 1..Len(a) : s[k] = a[k]
  BY Concat, Zenon
<1>12. Len(a) \in Nat /\ Len(w) \in Nat
  BY LengthNat, Zenon
<1> HIDE DEF s
<1>5. Len(s) # 0
  BY <1>4, <1>12 DEF Prefix
<1>6. b
  BY <1>3, <1>5, Zenon DEF Behind
<1>7. LengthAt(s, 0) \notin 1..MaxPacketSize
  BY <1>3, <1>6, Zenon DEF Behind
<1>8. s[1] = a[1] /\ s[2] = a[2] /\ s[3] = a[3] /\ s[4] = a[4]
  <2>1. 1 \in 1..Len(a) /\ 2 \in 1..Len(a) /\ 3 \in 1..Len(a) /\ 4 \in 1..Len(a)
    <3>1. \A n \in Nat : n >= Prefix => 1 \in 1..n /\ 2 \in 1..n /\ 3 \in 1..n /\ 4 \in 1..n
      BY DEF Prefix
    <3> QED  BY <1>12, <3>1, Zenon
  <2> QED  BY <1>4, <2>1, Zenon
<1>9. LengthAt(s, 0) = Length(a)
  <2>1. 0 + 1 = 1 /\ 0 + 2 = 2 /\ 0 + 3 = 3 /\ 0 + 4 = 4
    OBVIOUS
  <2> QED  BY <1>8, <2>1 DEF LengthAt, Length
<1>10. Length(a) \in Nat
  BY LengthType
<1>11. ~ValidLength(a)
  <2>1. Length(a) \notin 1..MaxPacketSize
    BY <1>7, <1>9
  <2> QED  BY <1>10, <2>1, MessageBufferConfig DEF ValidLength
<1> QED  BY <1>6, <1>11, Zenon

\* Longer, for the bytes of the peer.
LEMMA StreamLonger ==
    ASSUME TypeOK, NEW h \in Header, NEW m \in Seq(Byte),
           buffer' = buffer, wire' = wire \o h \o m
    PROVE  Extended(Stream, Stream', Length(h), m)
<1>1. PICK a \in Seq(Byte), b \in Seq(Byte) : a = buffer /\ b = wire
  BY DEF TypeOK
<1>2. a \o b \in Seq(Byte)
  BY Concat
<1>3. Len(a \o b) \in Nat
  BY <1>2
<1>4. Stream = a \o b /\ Stream' = a \o (b \o h \o m)
  BY <1>1 DEF Stream
<1>5. /\ Len(a \o (b \o h \o m)) = Len(a \o b) + Prefix + Len(m)
      /\ \A k \in 1..Len(a \o b) : (a \o (b \o h \o m))[k] = (a \o b)[k]
      /\ LengthAt(a \o (b \o h \o m), Len(a \o b)) = Length(h)
      /\ \A k \in 1..Len(m) : (a \o (b \o h \o m))[Len(a \o b) + Prefix + k] = m[k]
  BY Longer
<1>6. Extended(a \o b, a \o (b \o h \o m), Length(h), m)
  BY <1>3, <1>5, Zenon DEF Extended
<1> QED  BY <1>4, <1>6, Zenon

\* Nothing sent, nothing to extract.
LEMMA FramingInit == Init => FramingInv
<1> SUFFICES ASSUME Init PROVE FramingInv
  OBVIOUS
<1> DEFINE p == [i \in Nat |-> 0]
<1>1. buffer = <<>> /\ wire = <<>> /\ sent = <<>> /\ delivered = <<>>
  BY DEF Init
<1>2. ~broken /\ reading = "waiting"
  BY Zenon DEF Init
<1>3. Stream = <<>> /\ Len(Stream) = 0 /\ Len(sent) = 0 /\ Len(delivered) = 0
  BY <1>1 DEF Stream
<1>4. p \in [Nat -> Nat] /\ p[0 + 1] = 0
  OBVIOUS
<1> HIDE DEF p
<1>5. Frames(Stream, sent, Len(delivered), p)
  BY <1>3, <1>4 DEF Frames
<1>6. Behind(Stream, p[Len(sent) + 1], broken)
  BY <1>2, <1>3, <1>4, Zenon DEF Behind
<1>7. Framed
  BY <1>4, <1>5, <1>6, Zenon DEF Framed, FramedIn
<1>8. Delivered
  BY <1>3 DEF Delivered
<1>9. reading # "closed"
  BY <1>2
<1> QED  BY <1>7, <1>8, <1>9, Zenon DEF FramingInv

\* A frame goes to the end of the stream.
LEMMA FramingSend ==
    ASSUME TypeOK, FramingInv, NEW h \in Header, NEW m \in Message, send_frame(h, m)
    PROVE  FramingInv'
<1>1. /\ buffer \in Seq(Byte) /\ wire \in Seq(Byte)
      /\ sent \in Seq(Message) /\ delivered \in Seq(Message)
  BY DEF TypeOK
<1>2. /\ wire' = wire \o h \o m /\ sent' = Append(sent, m)
      /\ buffer' = buffer /\ reading' = reading /\ delivered' = delivered
      /\ broken' = broken /\ Length(h) = Len(m)
  BY DEF send_frame
<1>3. ~broken
  BY Zenon DEF send_frame
<1>4. reading # "closed" /\ Framed /\ Delivered
  BY <1>3, Zenon DEF FramingInv
<1>5. Delivered'
  <2>1. Len(sent) \in Nat /\ Len(delivered) \in Nat
    BY <1>1
  <2>2. Len(sent') = Len(sent) + 1 /\ \A i \in 1..Len(sent) : sent'[i] = sent[i]
    BY <1>1, <1>2
  <2>3. \A i \in 1..Len(delivered) : i \in 1..Len(sent)
    BY <1>4, <2>1 DEF Delivered
  <2>4. Len(delivered) <= Len(sent')
    BY <1>4, <2>1, <2>2 DEF Delivered
  <2> QED  BY <1>2, <1>4, <2>2, <2>3, <2>4 DEF Delivered
<1>6. Framed'
  <2>1. FramedIn(Stream, sent, Len(delivered), FALSE)
    <3>1. broken = FALSE
      BY <1>3, Zenon DEF TypeOK
    <3> QED  BY <1>4, <3>1, Zenon DEF Framed
  <2>3. Len(delivered) \in Nat /\ Len(delivered) <= Len(sent)
    BY <1>1, <1>4 DEF Delivered
  <2>4. m \in Seq(Byte)
    BY MessageLength
  <2>5. Extended(Stream, Stream', Len(m), m)
    <3>1. buffer' = buffer /\ wire' = wire \o h \o m
      BY <1>2
    <3> QED  BY <1>2, <2>4, <3>1, StreamLonger, Zenon
  <2>6. FramedIn(Stream', sent', Len(delivered), FALSE)
    BY <1>1, <1>2, <2>1, <2>3, <2>5, AddFrame, Zenon
  <2>7. broken' = FALSE /\ delivered' = delivered
    BY <1>2, <1>3, Zenon DEF TypeOK
  <2> QED  BY <2>6, <2>7, Zenon DEF Framed
<1> QED  BY <1>2, <1>4, <1>5, <1>6, Zenon DEF FramingInv

\* So does a bad length, with what follows it.
LEMMA FramingBreak ==
    ASSUME TypeOK, FramingInv, NEW h \in Header, NEW rest \in {<<>>} \cup Frame,
           send_bad_length(h, rest)
    PROVE  FramingInv'
<1>1. /\ buffer \in Seq(Byte) /\ wire \in Seq(Byte)
      /\ sent \in Seq(Message) /\ delivered \in Seq(Message)
  BY DEF TypeOK
<1>2. /\ wire' = wire \o h \o rest /\ sent' = sent
      /\ buffer' = buffer /\ reading' = reading /\ delivered' = delivered
      /\ Length(h) \notin 1..MaxPacketSize
  BY DEF send_bad_length
<1>3. ~broken /\ broken'
  BY Zenon DEF send_bad_length
<1>4. reading # "closed" /\ Framed /\ Delivered
  BY <1>3, Zenon DEF FramingInv
<1>5. Delivered'
  BY <1>2, <1>4 DEF Delivered
<1>6. Framed'
  <2>1. PICK p \in [Nat -> Nat] : /\ Frames(Stream, sent, Len(delivered), p)
                                  /\ Behind(Stream, p[Len(sent) + 1], broken)
    BY <1>4, Zenon DEF Framed, FramedIn
  <2>2. p[Len(sent) + 1] = Len(Stream)
    BY <1>3, <2>1, Zenon DEF Behind
  <2>3. Len(delivered) \in Nat /\ Len(delivered) <= Len(sent)
    BY <1>1, <1>4 DEF Delivered
  <2>4. rest \in Seq(Byte)
    <3>1. CASE rest \in Frame
      BY <3>1, FrameType
    <3>2. CASE rest = <<>>
      BY <3>2
    <3> QED  BY <3>1, <3>2
  <2>6. /\ Len(Stream) \in Nat
        /\ Len(Stream') = Len(Stream) + Prefix + Len(rest)
        /\ \A k \in 1..Len(Stream) : Stream'[k] = Stream[k]
        /\ LengthAt(Stream', Len(Stream)) = Length(h)
    <3>1. buffer' = buffer /\ wire' = wire \o h \o rest
      BY <1>2
    <3> QED  BY <2>4, <3>1, StreamLonger, Zenon DEF Extended
  <2>7. Len(rest) \in Nat
    <3>1. \A r \in Seq(Byte) : Len(r) \in Nat
      OBVIOUS
    <3> QED  BY <2>4, <3>1, Zenon
  <2>8. Frames(Stream', sent, Len(delivered), p)
    <3>1. p[Len(sent) + 1] <= Len(Stream)
      BY <2>2, <2>6
    <3> QED  BY <1>1, <2>1, <2>3, <2>6, <2>7, <3>1, KeepFrames, Zenon
  <2>9. Len(Stream) + Prefix <= Len(Stream')
    BY <2>6, <2>7 DEF Prefix
  <2>10. Behind(Stream', p[Len(sent') + 1], broken')
    BY <1>2, <1>3, <2>2, <2>6, <2>9, Zenon DEF Behind
  <2> QED  BY <1>2, <2>8, <2>10, Zenon DEF Framed, FramedIn
<1> QED  BY <1>2, <1>4, <1>5, <1>6, Zenon DEF FramingInv

\* A sequence cut in two, and put together again behind another.
LEMMA CutAndJoin ==
    ASSUME NEW S, NEW a \in Seq(S), NEW w \in Seq(S), NEW n \in Nat, n <= Len(w)
    PROVE  (a \o SubSeq(w, 1, n)) \o SubSeq(w, n + 1, Len(w)) = a \o w
<1> DEFINE x == SubSeq(w, 1, n)
           y == SubSeq(w, n + 1, Len(w))
<1>1. Len(w) \in Nat
  OBVIOUS
<1>2. x \in Seq(S) /\ Len(x) = n
  <2>1. n - 1 + 1 = n /\ 1 <= n + 1 /\ 1 \in Nat /\ 1 >= 1
    OBVIOUS
  <2> QED  BY <2>1, SubSeqType
<1>3. y \in Seq(S) /\ Len(y) = Len(w) - n
  <2> DEFINE i == n + 1
  <2>1. i \in Nat /\ i >= 1 /\ i <= Len(w) + 1 /\ Len(w) - i + 1 = Len(w) - n
    BY <1>1
  <2> HIDE DEF i
  <2>2. SubSeq(w, i, Len(w)) \in Seq(S) /\ Len(SubSeq(w, i, Len(w))) = Len(w) - i + 1
    BY <1>1, <2>1, SubSeqType
  <2> QED  BY <2>1, <2>2 DEF i
<1>4. \A k \in 1..n : x[k] = w[k]
  OBVIOUS
<1>5. \A k \in 1..(Len(w) - n) : y[k] = w[n + k]
  <2> SUFFICES ASSUME NEW k \in 1..(Len(w) - n) PROVE y[k] = w[n + k]
    OBVIOUS
  <2>1. n + 1 + k - 1 = n + k
    OBVIOUS
  <2> QED  BY <1>1, <2>1
<1> HIDE DEF x, y
<1>6. x \o y = w
  <2>1. /\ x \o y \in Seq(S) /\ Len(x \o y) = Len(x) + Len(y)
        /\ \A k \in 1..Len(x) : (x \o y)[k] = x[k]
        /\ \A k \in 1..Len(y) : (x \o y)[Len(x) + k] = y[k]
    <3>1. x \in Seq(S) /\ y \in Seq(S)
      BY <1>2, <1>3
    <3> QED  BY <3>1
  <2> DEFINE z == x \o y
  <2> HIDE DEF z
  <2>2. z \in Seq(S) /\ Len(z) = Len(w)
    BY <1>1, <1>2, <1>3, <2>1 DEF z
  <2>3. ASSUME NEW k \in 1..Len(w) PROVE z[k] = w[k]
    <3>1. CASE k \in 1..n
      BY <1>2, <1>4, <2>1, <3>1 DEF z
    <3>2. CASE k \notin 1..n
      <4> DEFINE l == k - n
      <4>1. l \in 1..(Len(w) - n) /\ n + l = k
        BY <1>1, <2>3, <3>2
      <4> HIDE DEF l
      <4>2. z[n + l] = y[l] /\ y[l] = w[n + l]
        BY <1>2, <1>3, <1>5, <2>1, <4>1 DEF z
      <4> QED  BY <4>1, <4>2
    <3> QED  BY <3>1, <3>2
  <2>4. z = w
    BY <2>2, <2>3
  <2> QED  BY <2>4 DEF z
<1>7. (a \o x) \o y = a \o (x \o y)
  <2>1. x \in Seq(S) /\ y \in Seq(S)
    BY <1>2, <1>3
  <2> QED  BY <2>1
<1> QED  BY <1>6, <1>7 DEF x, y

\* A read takes bytes off the wire and puts them behind those in the buffer.
LEMMA FramingAppend ==
    ASSUME TypeOK, FramingInv, NEW n \in 1..ReadSize, append(n)
    PROVE  FramingInv'
<1>1. buffer \in Seq(Byte) /\ wire \in Seq(Byte)
  BY DEF TypeOK
<1>2. n \in Nat /\ n <= Len(wire)
  BY MessageBufferConfig DEF append
<1>3. /\ buffer' = buffer \o SubSeq(wire, 1, n)
      /\ wire' = SubSeq(wire, n + 1, Len(wire))
      /\ sent' = sent /\ delivered' = delivered /\ broken' = broken
      /\ reading = "waiting" /\ reading' = "extracting"
  BY DEF append
<1>4. Stream' = Stream
  <2>1. (buffer \o SubSeq(wire, 1, n)) \o SubSeq(wire, n + 1, Len(wire)) = buffer \o wire
    BY <1>1, <1>2, CutAndJoin, Zenon
  <2> QED  BY <1>3, <2>1, Zenon DEF Stream
<1>5. "waiting" # "closed" /\ "extracting" # "closed"
  OBVIOUS
<1>6. Framed /\ Delivered
  BY <1>3, <1>5, Zenon DEF FramingInv
<1>7. Framed' /\ Delivered'
  <2>1. Framed'
    BY <1>3, <1>4, <1>6, Zenon DEF Framed
  <2>2. Delivered'
    BY <1>3, <1>6 DEF Delivered
  <2> QED  BY <2>1, <2>2
<1> QED  BY <1>3, <1>5, <1>7, Zenon DEF FramingInv

\* All messages are delivered: the two histories are the same.
LEMMA AllDelivered ==
    ASSUME TypeOK, Delivered, Len(delivered) = Len(sent)
    PROVE  delivered = sent
<1>1. PICK x \in Seq(Message), y \in Seq(Message) : x = sent /\ y = delivered
  BY DEF TypeOK
<1>2. Len(x) = Len(y) /\ \A i \in 1..Len(y) : y[i] = x[i]
  BY <1>1 DEF Delivered
<1>3. y = x
  BY <1>2
<1> QED  BY <1>1, <1>3

(***************************************************************************)
(* One turn of the loop.  A length that is not valid is the peer's, not an *)
(* artefact of where the stream was cut: everything before it has been     *)
(* delivered.                                                              *)
(***************************************************************************)
Cleared ==
    /\ Len(buffer) >= Prefix
    /\ ~ValidLength(buffer)
    /\ reading' = "closed"
    /\ delivered' = delivered

More ==
    /\ buffer' = buffer
    /\ delivered' = delivered
    /\ reading' = "waiting"

Dispatched ==
    /\ Complete
    /\ ValidLength(buffer)
    /\ delivered' = Append(delivered, SubSeq(buffer, Prefix + 1, Prefix + Length(buffer)))
    /\ buffer' = SubSeq(buffer, Prefix + Length(buffer) + 1, Len(buffer))
    /\ reading' = reading

\* A turn of the loop is one of the three.
LEMMA ExtractCases ==
    ASSUME extract_message
    PROVE  /\ reading = "extracting" /\ wire' = wire /\ sent' = sent /\ broken' = broken
           /\ Cleared \/ More \/ Dispatched
BY Zenon DEF extract_message, Cleared, More, Dispatched

\* What is known while the loop runs.
LEMMA HistoryFacts ==
    ASSUME TypeOK, FramingInv, reading = "extracting"
    PROVE  /\ buffer \in Seq(Byte) /\ wire \in Seq(Byte) /\ sent \in Seq(Message)
           /\ broken \in BOOLEAN
           /\ Len(delivered) \in Nat /\ Len(sent) \in Nat /\ Len(delivered) <= Len(sent)
           /\ Delivered
           /\ FramedIn(buffer \o wire, sent, Len(delivered), broken)
<1>1. /\ buffer \in Seq(Byte) /\ wire \in Seq(Byte) /\ sent \in Seq(Message)
      /\ delivered \in Seq(Message)
  BY DEF TypeOK
<1>2. broken \in BOOLEAN
  BY Zenon DEF TypeOK
<1>3. reading # "closed"
  OBVIOUS
<1>4. Delivered /\ FramedIn(buffer \o wire, sent, Len(delivered), broken)
  BY <1>3, Zenon DEF FramingInv, Framed, Stream
<1>5. Len(delivered) \in Nat /\ Len(sent) \in Nat
  BY <1>1
<1>6. Len(delivered) <= Len(sent)
  BY <1>4 DEF Delivered
<1> QED  BY <1>1, <1>2, <1>4, <1>5, <1>6

\* The session is closed only for a bad length, and late enough.
LEMMA CloseStep ==
    ASSUME TypeOK, FramingInv, reading = "extracting", Cleared
    PROVE  broken /\ delivered = sent
<1> USE HistoryFacts
<1>1. Len(buffer) >= Prefix /\ ~ValidLength(buffer)
  BY DEF Cleared
<1>2. ~(Len(delivered) < Len(sent))
  BY <1>1, NextFrame, Zenon
<1>3. Len(delivered) = Len(sent)
  BY <1>2
<1>4. broken
  BY <1>1, <1>3, NoFrame, Zenon
<1> QED  BY <1>3, <1>4, AllDelivered, Zenon

\* What is dispatched is the next message the peer sent.
LEMMA DeliverStep ==
    ASSUME TypeOK, FramingInv, reading = "extracting", Dispatched, wire' = wire
    PROVE  /\ Len(delivered) < Len(sent)
           /\ delivered' = Append(delivered, sent[Len(delivered) + 1])
           /\ FramedIn(Stream', sent, Len(delivered) + 1, broken)
<1> USE HistoryFacts
<1>1. Len(buffer) >= Prefix /\ Prefix + Length(buffer) <= Len(buffer) /\ ValidLength(buffer)
  <2>1. Len(buffer) >= Prefix /\ Len(buffer) >= Prefix + Length(buffer) /\ ValidLength(buffer)
    BY DEF Dispatched, Complete
  <2> QED  BY <2>1
<1>2. Len(delivered) # Len(sent)
  BY <1>1, NoFrame, Zenon
<1>3. Len(delivered) < Len(sent)
  BY <1>2
<1>4. /\ SubSeq(buffer, Prefix + 1, Prefix + Length(buffer)) = sent[Len(delivered) + 1]
      /\ FramedIn(SubSeq(buffer, Prefix + Length(buffer) + 1, Len(buffer)) \o wire, sent,
                  Len(delivered) + 1, broken)
  <2>1. /\ buffer \in Seq(Byte) /\ wire \in Seq(Byte) /\ sent \in Seq(Message)
        /\ broken \in BOOLEAN /\ Len(delivered) \in Nat
        /\ FramedIn(buffer \o wire, sent, Len(delivered), broken)
    OBVIOUS
  <2>2. FirstCut(buffer, wire, sent, Len(delivered), broken)
    BY ONLY <1>1, <1>3, <2>1, NextFrame, Zenon
  <2> QED  BY ONLY <1>1, <2>2, Zenon DEF FirstCut
<1>5. Stream' = SubSeq(buffer, Prefix + Length(buffer) + 1, Len(buffer)) \o wire
  BY Zenon DEF Dispatched, Stream
<1>6. delivered' = Append(delivered, sent[Len(delivered) + 1])
  BY <1>4, Zenon DEF Dispatched
<1> QED  BY <1>3, <1>4, <1>5, <1>6, Zenon

\* One more of the messages that were sent has been delivered.
LEMMA DeliveredStep ==
    ASSUME TypeOK, Delivered, Len(delivered) < Len(sent), sent' = sent,
           delivered' = Append(delivered, sent[Len(delivered) + 1])
    PROVE  Delivered' /\ Len(delivered') = Len(delivered) + 1
<1>1. delivered \in Seq(Message) /\ sent \in Seq(Message)
  BY DEF TypeOK
<1>2. Len(delivered) \in Nat /\ Len(sent) \in Nat
  BY <1>1
<1>3. /\ Len(delivered') = Len(delivered) + 1
      /\ \A i \in 1..Len(delivered) : delivered'[i] = delivered[i]
      /\ delivered'[Len(delivered) + 1] = sent[Len(delivered) + 1]
  BY <1>1
<1>4. Len(delivered') <= Len(sent')
  BY <1>2, <1>3
<1>5. ASSUME NEW i \in 1..Len(delivered') PROVE delivered'[i] = sent'[i]
  <2>1. i \in 1..Len(delivered) \/ i = Len(delivered) + 1
    BY <1>2, <1>3, <1>5
  <2> QED  BY <1>3, <2>1 DEF Delivered
<1> QED  BY <1>3, <1>4, <1>5 DEF Delivered

\* A turn of the loop leaves the frames where they end.
LEMMA FramingExtract ==
    ASSUME TypeOK, FramingInv, extract_message
    PROVE  FramingInv'
<1>1. /\ reading = "extracting" /\ wire' = wire /\ sent' = sent /\ broken' = broken
      /\ Cleared \/ More \/ Dispatched
  BY ExtractCases, Zenon
<1>2. Delivered /\ Framed /\ reading # "closed"
  <2>1. reading # "closed"
    BY <1>1
  <2> QED  BY <2>1, Zenon DEF FramingInv
<1>3. CASE Cleared
  <2>1. broken /\ delivered = sent
    BY <1>1, <1>3, CloseStep, Zenon
  <2>2. reading' = "closed" /\ delivered' = delivered
    BY <1>3, Zenon DEF Cleared
  <2>3. Delivered'
    BY <1>1, <1>2, <2>2 DEF Delivered
  <2> QED  BY <1>1, <2>1, <2>2, <2>3, Zenon DEF FramingInv
<1>4. CASE More
  <2>1. buffer' = buffer /\ delivered' = delivered /\ reading' = "waiting"
    BY <1>4, Zenon DEF More
  <2>2. Delivered'
    BY <1>1, <1>2, <2>1 DEF Delivered
  <2>3. Stream' = Stream
    BY <1>1, <2>1, Zenon DEF Stream
  <2>4. Framed'
    BY <1>1, <1>2, <2>1, <2>3, Zenon DEF Framed
  <2>5. reading' # "closed"
    BY <2>1
  <2> QED  BY <2>2, <2>4, <2>5, Zenon DEF FramingInv
<1>5. CASE Dispatched
  <2>1. /\ Len(delivered) < Len(sent)
        /\ delivered' = Append(delivered, sent[Len(delivered) + 1])
        /\ FramedIn(Stream', sent, Len(delivered) + 1, broken)
    BY <1>1, <1>5, DeliverStep, Zenon
  <2>2. Delivered' /\ Len(delivered') = Len(delivered) + 1
    BY <1>1, <1>2, <2>1, DeliveredStep, Zenon
  <2>3. Framed'
    BY <1>1, <2>1, <2>2, Zenon DEF Framed
  <2>4. reading' # "closed"
    BY <1>2, <1>5, Zenon DEF Dispatched
  <2> QED  BY <2>2, <2>3, <2>4, Zenon DEF FramingInv
<1> QED  BY <1>1, <1>3, <1>4, <1>5, Zenon

(***************************************************************************)
(* Spec => []FramingInv: whatever the reads make of the stream, it is cut  *)
(* where the peer's frames end.                                            *)
(***************************************************************************)
THEOREM FramingInvHolds == Spec => []FramingInv
<1>1. TypeOK /\ FramingInv /\ [Next]_vars => FramingInv'
  <2> SUFFICES ASSUME TypeOK, FramingInv, [Next]_vars PROVE FramingInv'
    OBVIOUS
  <2>1. ASSUME NEW h \in Header, NEW m \in Message, send_frame(h, m) PROVE FramingInv'
    BY <2>1, FramingSend, Zenon
  <2>2. ASSUME NEW h \in Header, NEW rest \in {<<>>} \cup Frame, send_bad_length(h, rest)
        PROVE  FramingInv'
    BY <2>2, FramingBreak, Zenon
  <2>3. ASSUME NEW n \in 1..ReadSize, append(n) PROVE FramingInv'
    BY <2>3, FramingAppend, Zenon
  <2>4. CASE extract_message
    BY <2>4, FramingExtract, Zenon
  <2>5. CASE UNCHANGED vars
    BY <2>5, Zenon DEF vars, FramingInv, Delivered, Framed, Stream
  <2> QED  BY <2>1, <2>2, <2>3, <2>4, <2>5, Zenon DEF Next
<1> QED  BY <1>1, FramingInit, TypeCorrect, PTL DEF Spec

(***************************************************************************)
(* Framing: every step of the read loop and of the peer is a step of       *)
(* MessageChannel or leaves its variables alone.  The dispatcher is given  *)
(* the messages of the peer, in order, unaltered and once, and the session *)
(* is closed for a bad length only, after everything before it.            *)
(***************************************************************************)
THEOREM FramingHolds == Spec => Framing
<1>1. Init => Channel!Init
  BY DEF Init, Channel!Init
<1>2. TypeOK /\ FramingInv /\ [Next]_vars => [Channel!Next]_Channel!vars
  <2> SUFFICES ASSUME TypeOK, FramingInv, [Next]_vars PROVE [Channel!Next]_Channel!vars
    OBVIOUS
  <2>1. ASSUME NEW h \in Header, NEW m \in Message, send_frame(h, m)
        PROVE  Channel!Send(m)
    BY <2>1, Zenon DEF send_frame, Channel!Send
  <2>2. ASSUME NEW h, NEW rest, send_bad_length(h, rest)
        PROVE  Channel!Break
    BY <2>2, Zenon DEF send_bad_length, Channel!Break
  <2>3. ASSUME NEW n, append(n)
        PROVE  UNCHANGED Channel!vars
    <3>1. ~(reading = "closed") /\ ~(reading' = "closed")
      BY <2>3 DEF append
    <3>2. (reading = "closed") = (reading' = "closed")
      BY <3>1, Zenon
    <3> QED  BY <2>3, <3>2, Zenon DEF append, Channel!vars
  <2>4. CASE extract_message
    <3>1. /\ reading = "extracting" /\ wire' = wire /\ sent' = sent /\ broken' = broken
          /\ Cleared \/ More \/ Dispatched
      BY <2>4, ExtractCases, Zenon
    <3>2. ~(reading = "closed")
      BY <3>1
    <3>3. CASE Cleared
      <4>1. broken /\ delivered = sent
        BY <3>1, <3>3, CloseStep, Zenon
      <4>2. (reading' = "closed") = TRUE
        BY <3>3, Zenon DEF Cleared
      <4>3. Channel!Close
        BY <3>1, <3>2, <3>3, <4>1, <4>2, Zenon DEF Cleared, Channel!Close
      <4> QED  BY <4>3, Zenon DEF Channel!Next
    <3>4. CASE More
      <4>1. ~(reading' = "closed")
        BY <3>4 DEF More
      <4>2. (reading = "closed") = (reading' = "closed")
        BY <3>2, <4>1, Zenon
      <4> QED  BY <3>1, <3>4, <4>2, Zenon DEF More, Channel!vars
    <3>5. CASE Dispatched
      <4>1. /\ Len(delivered) < Len(sent)
            /\ delivered' = Append(delivered, sent[Len(delivered) + 1])
        BY <3>1, <3>5, DeliverStep, Zenon
      <4>2. Channel!Deliver
        BY <3>1, <3>2, <3>5, <4>1, Zenon DEF Dispatched, Channel!Deliver
      <4> QED  BY <4>2, Zenon DEF Channel!Next
    <3> QED  BY <3>1, <3>3, <3>4, <3>5, Zenon
  <2>5. CASE UNCHANGED vars
    BY <2>5, Zenon DEF vars, Channel!vars
  <2> QED  BY <2>1, <2>2, <2>3, <2>4, <2>5, Zenon DEF Next, Channel!Next
<1> QED  BY <1>1, <1>2, TypeCorrect, FramingInvHolds, PTL DEF Spec, Framing, Channel!Spec
=============================================================================
