----------------------------- MODULE WireFormat -----------------------------
(***************************************************************************)
(* The messages of wire.proto and the code protoc generated for them       *)
(* (generated/wire.pb.cc, wire.pb.h): Envelope, a oneof of Login,          *)
(* KeepAlive and Insert, with their serialisation, size, merge, copy and   *)
(* clear, and the parser that the tables drive.  The program compiles this *)
(* code and does not call it yet.                                          *)
(*                                                                         *)
(* On the wire a message is a sequence of fields.  Every field here has    *)
(* the length-delimited wire type: a tag byte, the length as a varint, and *)
(* the contents, which are a string or fields.                             *)
(* What the tables mean to the parser (TcParser) and how a map entry is    *)
(* written (MapEntryFuncs) is the protobuf library's, external.            *)
(***************************************************************************)
EXTENDS Naturals, FiniteSets, SequencesExt

CONSTANTS Strings,     \* contents of string fields, "" among them
          VarintRadix, \* values of a byte of a varint: 128
          MaxMessages, \* bound on the messages written
          MaxEdits     \* bound on the changes made to the message

ASSUME WireFormatConfig ==
    /\ "" \in Strings /\ \A s \in Strings : Len(s) \in Nat
    /\ VarintRadix \in Nat \ {0, 1}
    /\ {MaxMessages, MaxEdits} \subseteq Nat

\* size is the length that is written in front of the contents, body.
Field(n, kind, size, body) ==
    [num |-> n, kind |-> kind, size |-> size, body |-> body]

EmptyMap == [k \in {} |-> ""]

\* The default instances.
Login     == [nickname |-> "", unknown |-> <<>>]
KeepAlive == [unknown |-> <<>>]
Insert    == [table |-> "", values |-> EmptyMap, unknown |-> <<>>]
Envelope  == [payload_case |-> 0, payload |-> KeepAlive, unknown |-> <<>>]

Default(case) == CASE case = 1 -> Login [] case = 3 -> Insert
                   [] OTHER -> KeepAlive
-----------------------------------------------------------------------------
(***************************************************************************)
(* ByteSizeLong.                                                           *)
(***************************************************************************)
Sum(s) == FoldLeft(LAMBDA x, y : x + y, 0, s)

SumOf(f(_), s) == Sum([i \in DOMAIN s |-> f(s[i])])

\* CodedOutputStream::VarintSize32: a byte per digit, five at most.
VarintSize(n) == 1 + Cardinality({i \in 1..4 : n >= VarintRadix ^ i})

\* LengthDelimitedSize, also of a message (MessageSize) and of a map entry.
LengthDelimited(n) == VarintSize(n) + n

StringSize(s) == LengthDelimited(Len(s))

MaybeUnknownSize(m) == SumOf(LAMBDA f : 1 + StringSize(f.body), m.unknown)

SingularSize(s) == IF s = "" THEN 0 ELSE 1 + StringSize(s)

LoginSize(m) == SingularSize(m.nickname) + MaybeUnknownSize(m)

KeepAliveSize(m) == MaybeUnknownSize(m)

EntryContents(k, v) == 1 + StringSize(k) + 1 + StringSize(v)

\* Mutant of InsertSize: one byte of length for an entry of any size.
InsertSize_short_length(m) ==
      SumOf(LAMBDA k : 1 + 1 + EntryContents(k, m.values[k]),
            SetToSeq(DOMAIN m.values))
    + SingularSize(m.table) + MaybeUnknownSize(m)

InsertSize(m) ==
      SumOf(LAMBDA k : 1 + LengthDelimited(EntryContents(k, m.values[k])),
            SetToSeq(DOMAIN m.values))
    + SingularSize(m.table) + MaybeUnknownSize(m)

PayloadSize(e) == CASE e.payload_case = 1 -> LoginSize(e.payload)
                    [] e.payload_case = 2 -> KeepAliveSize(e.payload)
                    [] e.payload_case = 3 -> InsertSize(e.payload)

EnvelopeSize(e) ==
      (IF e.payload_case = 0 THEN 0 ELSE 1 + LengthDelimited(PayloadSize(e)))
    + MaybeUnknownSize(e)
-----------------------------------------------------------------------------
(***************************************************************************)
(* _InternalSerialize.  order is the order in which the map is iterated,   *)
(* any one unless the stream is deterministic.                             *)
(***************************************************************************)
Singular(n, s) == IF s = "" THEN <<>> ELSE <<Field(n, "string", Len(s), s)>>

SerializeLogin(m) == Singular(1, m.nickname) \o m.unknown

SerializeKeepAlive(m) == m.unknown

\* An entry has its key and its value, empty or not.
Entry(k, v) ==
    Field(2, "fields", EntryContents(k, v),
          <<Field(1, "string", Len(k), k), Field(2, "string", Len(v), v)>>)

SerializeInsert(m, order) ==
    Singular(1, m.table)
      \o [i \in DOMAIN order |-> Entry(order[i], m.values[order[i]])]
      \o m.unknown

SerializePayload(e, order) ==
    CASE e.payload_case = 1 -> SerializeLogin(e.payload)
      [] e.payload_case = 2 -> SerializeKeepAlive(e.payload)
      [] e.payload_case = 3 -> SerializeInsert(e.payload, order)

SerializeEnvelope(e, order) ==
    (IF e.payload_case = 0 THEN <<>>
       ELSE <<Field(e.payload_case, "fields", PayloadSize(e),
                    SerializePayload(e, order))>>)
      \o e.unknown

Orders(e) ==
    IF e.payload_case = 3 THEN SetToSeqs(DOMAIN e.payload.values) ELSE {<<>>}
-----------------------------------------------------------------------------
(***************************************************************************)
(* Parsing: one operator per table.  A field the table does not have goes  *)
(* to the unknown fields, except in a map entry, which discards it.        *)
(***************************************************************************)
Unknown(m, f) == [m EXCEPT !.unknown = Append(@, f)]

ParseLogin(m, fields) ==
    FoldLeft(LAMBDA x, f : IF f.num = 1 THEN [x EXCEPT !.nickname = f.body]
                                        ELSE Unknown(x, f), m, fields)

ParseKeepAlive(m, fields) == FoldLeft(Unknown, m, fields)

ParseEntry(fields) ==
    FoldLeft(LAMBDA x, f : IF f.num \in {1, 2} THEN [x EXCEPT ![f.num] = f.body]
                                               ELSE x, <<"", "">>, fields)

Put(map, k, v) == [x \in DOMAIN map \cup {k} |-> IF x = k THEN v ELSE map[x]]

ParseInsert(m, fields) ==
    FoldLeft(LAMBDA x, f :
               CASE f.num = 1 -> [x EXCEPT !.table = f.body]
                 [] f.num = 2 -> LET e == ParseEntry(f.body) IN
                                 [x EXCEPT !.values = Put(@, e[1], e[2])]
                 [] OTHER -> Unknown(x, f), m, fields)

ParsePayload(m, f) == CASE f.num = 1 -> ParseLogin(m, f.body)
                        [] f.num = 2 -> ParseKeepAlive(m, f.body)
                        [] f.num = 3 -> ParseInsert(m, f.body)

\* A member of the oneof that is already there is parsed into, another one
\* is replaced.
ParseEnvelope(e, fields) ==
    FoldLeft(LAMBDA x, f :
               IF f.num \notin 1..3 THEN Unknown(x, f)
                 ELSE [x EXCEPT !.payload_case = f.num, !.payload =
                         ParsePayload(IF x.payload_case = f.num
                                        THEN @ ELSE Default(f.num), f)],
             e, fields)
-----------------------------------------------------------------------------
(***************************************************************************)
(* MergeImpl, Clear and CopyFrom.                                          *)
(***************************************************************************)
\* Mutant of MergeString: the source's string is taken although empty.
MergeString_unguarded(to, from) == from

MergeString(to, from) == IF from = "" THEN to ELSE from

MergeLogin(to, from) ==
    [nickname |-> MergeString(to.nickname, from.nickname),
     unknown  |-> to.unknown \o from.unknown]

MergeKeepAlive(to, from) == [unknown |-> to.unknown \o from.unknown]

MergeMap(to, from) == [k \in DOMAIN to \cup DOMAIN from |->
                         IF k \in DOMAIN from THEN from[k] ELSE to[k]]

MergeInsert(to, from) ==
    [values  |-> MergeMap(to.values, from.values),
     table   |-> MergeString(to.table, from.table),
     unknown |-> to.unknown \o from.unknown]

MergePayload(case, to, from) == CASE case = 1 -> MergeLogin(to, from)
                                  [] case = 2 -> MergeKeepAlive(to, from)
                                  [] case = 3 -> MergeInsert(to, from)

\* CopyConstruct if the member changes.
MergeEnvelope(to, from) ==
    [payload_case |-> IF from.payload_case = 0 THEN to.payload_case
                                               ELSE from.payload_case,
     payload |-> CASE from.payload_case = 0 -> to.payload
                   [] from.payload_case \in {to.payload_case} \ {0} ->
                        MergePayload(to.payload_case, to.payload, from.payload)
                   [] OTHER -> from.payload,
     unknown |-> to.unknown \o from.unknown]

\* Mutant of Clear: the unknown fields stay.
Clear_keeps_unknown(e) == [Envelope EXCEPT !.unknown = e.unknown]

Clear(e) == Envelope

CopyFrom(to, from) == MergeEnvelope(Clear(to), from)
-----------------------------------------------------------------------------
(***************************************************************************)
(* A program that fills in an Envelope through its accessors, writes it to *)
(* a stream now and then, and reads the stream back.                       *)
(***************************************************************************)
VARIABLES msg,      \* the Envelope of the program
          stream,   \* everything written so far
          merged,   \* history: the merge of the messages written
          written,  \* their number
          edits

vars == <<msg, stream, merged, written, edits>>

Init ==
    /\ msg = Envelope /\ merged = Envelope
    /\ stream = <<>>
    /\ written = 0 /\ edits = 0

Edit(e) ==
    /\ edits < MaxEdits
    /\ edits' = edits + 1
    /\ msg' = e
    /\ UNCHANGED <<stream, merged, written>>

\* mutable_login, mutable_keepalive, mutable_insert.
Member(case) ==
    IF msg.payload_case = case THEN msg
      ELSE [msg EXCEPT !.payload_case = case, !.payload = Default(case)]

set_nickname(s) == Edit([Member(1) EXCEPT !.payload.nickname = s])

mutable_keepalive == Edit(Member(2))

set_table(s) == Edit([Member(3) EXCEPT !.payload.table = s])

mutable_values(k, v) == Edit([Member(3) EXCEPT !.payload.values = Put(@, k, v)])

clear_values == Edit([Member(3) EXCEPT !.payload.values = EmptyMap])

\* mutable_unknown_fields, of the Envelope and of its member.
NewField == Field(4, "string", Len(""), "")

add_unknown ==
    \/ Edit(Unknown(msg, NewField))
    \/ /\ msg.payload_case # 0
       /\ Edit([msg EXCEPT !.payload = Unknown(@, NewField)])

clear_all == Edit(Clear(msg))

copy_from == Edit(CopyFrom(msg, merged))

merge_from == Edit(MergeEnvelope(msg, merged))

\* ParseFromString replaces the message by what the stream holds.
parse == Edit(ParseEnvelope(Clear(msg), stream))

serialize(order) ==
    /\ written < MaxMessages
    /\ written' = written + 1
    /\ stream' = stream \o SerializeEnvelope(msg, order)
    /\ merged' = MergeEnvelope(merged, msg)
    /\ UNCHANGED <<msg, edits>>

Next ==
    \/ \E s \in Strings : set_nickname(s)
    \/ mutable_keepalive
    \/ \E s \in Strings : set_table(s)
    \/ \E k, v \in Strings : mutable_values(k, v)
    \/ clear_values
    \/ add_unknown
    \/ clear_all
    \/ copy_from
    \/ merge_from
    \/ parse
    \/ \E order \in Orders(msg) : serialize(order)

Spec == Init /\ [][Next]_vars
-----------------------------------------------------------------------------
(***************************************************************************)
(* What is read back from a stream of several messages, one after the      *)
(* other, is their merge: the parser and MergeImpl agree on empty strings, *)
(* on map keys that come again, on a oneof that changes its member or has  *)
(* the same one again, and on fields they do not know.                     *)
(***************************************************************************)
ParsedIsMerged == ParseEnvelope(Envelope, stream) = merged

\* Bytes that the fields of a map entry, of a member and of an Envelope take,
\* and whether every length in front of nested fields is that of its contents.
FieldBytes(f, contents) == 1 + VarintSize(f.size) + contents

EntryBytes(fields) == SumOf(LAMBDA f : FieldBytes(f, Len(f.body)), fields)

MemberBytes(fields) ==
    SumOf(LAMBDA f : FieldBytes(f, IF f.kind = "string" THEN Len(f.body)
                                     ELSE EntryBytes(f.body)), fields)

WireBytes(fields) ==
    SumOf(LAMBDA f : FieldBytes(f, IF f.kind = "string" THEN Len(f.body)
                                     ELSE MemberBytes(f.body)), fields)

EntryLengthsRight(fields) ==
    \A i \in DOMAIN fields :
        fields[i].kind = "fields" => fields[i].size = EntryBytes(fields[i].body)

LengthsRight(fields) ==
    \A i \in DOMAIN fields :
        fields[i].kind = "fields" =>
            /\ fields[i].size = MemberBytes(fields[i].body)
            /\ EntryLengthsRight(fields[i].body)

(***************************************************************************)
(* ByteSizeLong, computed apart from the serialisation, is the number of   *)
(* bytes written for every order of the map, and every length in front of  *)
(* a nested message is the length of what follows.                         *)
(***************************************************************************)
SizesAgree ==
    /\ LengthsRight(stream)
    /\ \A order \in Orders(msg) :
          WireBytes(SerializeEnvelope(msg, order)) = EnvelopeSize(msg)

(***************************************************************************)
(* A copy equals its source whatever the target held before, and so does   *)
(* what is parsed from the source's serialisation into a cleared message.  *)
(***************************************************************************)
CopiesEqual ==
    /\ CopyFrom(merged, msg) = msg
    /\ \A order \in Orders(msg) :
          ParseEnvelope(Clear(merged), SerializeEnvelope(msg, order)) = msg
=============================================================================
