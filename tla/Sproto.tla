-------------------------------- MODULE Sproto --------------------------------
(***************************************************************************)
(* sproto (lualib-src/sproto): sproto.c encodes an object by its type and  *)
(* packs the zeros of the result, lsproto.c makes the buffers larger for   *)
(* it, and the other end unpacks and decodes with its own version of the   *)
(* type.  sproto.lua has the hosts that send such packets, with their      *)
(* sessions: the second part.                                              *)
(*                                                                         *)
(* An object is a function on the tags of the fields it has.  Real        *)
(* numbers, decimals and maps (a main index) are left out, and so is the   *)
(* import of the types, which are given as they are stored.                *)
(***************************************************************************)
EXTENDS Bytes

CONSTANTS MaxFF,        \* 256, the words that one 0xff covers
          Types,        \* sproto_type: the fields of each type, by ascending tag
          MaxBuffer     \* ENCODE_MAXSIZE

-----------------------------------------------------------------------------
(* An operation that may fail returns a sequence of its one result, or of none. *)
Fail == <<>>

(* fill_size, toword and todword *)
Sized(s) == Digits(Len(s), 4) \o s
Word(s, at) == Number(SubSeq(s, at, at + 1))
Size4(s, at) == Number(SubSeq(s, at, at + 3))

(* The fields of a type, and maxn: one more record for each gap in the tags *)
MaxN(st) ==
    LET f == Types[st]
    IN  Len(f) + Cardinality({i \in DOMAIN f : f[i].tag > IF i = 1 THEN 0 ELSE f[i - 1].tag + 1})

-----------------------------------------------------------------------------
(* Mutant: the numbers before the first wide one are widened without their sign. *)
WidenUnsigned(s) ==
    FlattenSeq([i \in 1 .. Len(s) \div 4 |-> SubSeq(s, 4 * i - 3, 4 * i) \o <<0, 0, 0, 0>>])

(* uint32_to_uint64 for each of them, in place and from the last *)
Widen(s) ==
    FlattenSeq([i \in 1 .. Len(s) \div 4 |->
        SubSeq(s, 4 * i - 3, 4 * i)
        \o [j \in 1 .. 4 |-> IF s[4 * i] >= Byte \div 2 THEN Byte - 1 ELSE 0]])

(* encode_integer_array: all in 4 bytes, or all in 8 from the first wide one on *)
EncodeIntegers(vs, size) ==
    LET Next1(a, v) ==
            LET wider == ~Dword(v) /\ a.len = 4
                left == IF wider THEN a.size - Len(a.bytes) ELSE a.size
                len == IF wider THEN 8 ELSE a.len
            IN  [ok |-> a.ok /\ a.size >= 8 /\ left >= 8,
                 len |-> len, size |-> left - len,
                 bytes |-> (IF wider THEN Widen(a.bytes) ELSE a.bytes) \o Digits(v, len)]
        r == FoldLeft(Next1, [ok |-> size >= 1, len |-> 4, size |-> size - 1, bytes |-> <<>>], vs)
    IN  IF ~r.ok THEN Fail ELSE IF vs = <<>> THEN <<<<>>>> ELSE <<<<r.len>> \o r.bytes>>

RECURSIVE Encode(_, _, _)

(* What the callback writes for a string or an object: at most room bytes *)
Content(f, v, room1) ==
    IF f.type = "struct" THEN Encode(f.st, v, room1)
    ELSE IF Len(v) > room1 THEN Fail ELSE <<v>>

(* encode_array; the loop asks for space before it meets the end of the array. *)
EncodeArray(f, vs, size) ==
    LET Next1(a, v) ==
            LET c == Content(f, v, a.size - 4)
            IN  IF ~a.ok \/ a.size < 4 \/ c = Fail THEN [a EXCEPT !.ok = FALSE]
                ELSE [ok |-> TRUE, size |-> a.size - 4 - Len(c[1]), bytes |-> a.bytes \o Sized(c[1])]
        r == FoldLeft(Next1, [ok |-> TRUE, size |-> size - 4, bytes |-> <<>>], vs)
    IN  CASE size < 4 -> Fail
          [] size >= 4 /\ f.type = "integer" -> EncodeIntegers(vs, size - 4)
          [] size >= 4 /\ f.type = "boolean" ->
                IF Len(vs) > size - 4 THEN Fail ELSE <<[i \in DOMAIN vs |-> IF vs[i] THEN 1 ELSE 0]>>
          [] OTHER -> IF r.ok /\ r.size >= 4 THEN <<r.bytes>> ELSE Fail

(* The record of a field that is not an array, or 0 when it has data *)
Inline(f, v) == CASE f.array -> 0
                  [] ~f.array /\ f.type = "boolean" -> IF v THEN 4 ELSE 2
                  [] ~f.array /\ f.type = "integer" ->
                        IF v \in 0 .. Byte ^ 2 \div 2 - 2 THEN (v + 1) * 2 ELSE 0
                  [] OTHER -> 0

EncodeData(f, v, size) ==
    LET n == IF Dword(v) THEN 4 ELSE 8
    IN  IF f.array THEN EncodeArray(f, v, size)
        ELSE IF f.type = "integer" THEN IF size < 4 + n THEN Fail ELSE <<Digits(v, n)>>
        ELSE IF size < 4 THEN Fail ELSE Content(f, v, size - 4)

(* The space that a field wants before it is known whether there is one *)
Wanted(f) == CASE f.array /\ f.type = "integer" -> 5
               [] f.array /\ f.type \in {"string", "struct"} -> 8
               [] ~f.array /\ f.type \in {"integer", "boolean"} -> 0
               [] OTHER -> 4

(* sproto_encode: a record for each field there is, after one that skips *)
(* the tags there are not, and then the data of those that need it       *)
Encode(st, o, size) ==
    LET Written(a, f, value, d) ==
            LET skip == f.tag - a.last - 1
                gap == [i \in 1 .. IF skip > 0 THEN 1 ELSE 0 |-> (skip - 1) * 2 + 1]
                data == IF value # 0 THEN <<>> ELSE Sized(d[1])
            IN  IF d = Fail \/ skip * 2 > Byte ^ 2 THEN [a EXCEPT !.ok = FALSE]
                ELSE [ok |-> TRUE, last |-> f.tag, records |-> a.records \o gap \o <<value>>,
                      size |-> a.size - Len(data), data |-> a.data \o data]
        Field(a, f, value) ==
            Written(a, f, value, IF value # 0 THEN <<<<>>>> ELSE EncodeData(f, o[f.tag], a.size))
        Next1(a, f) ==
            IF ~a.ok THEN a
            ELSE IF f.tag \notin DOMAIN o THEN [a EXCEPT !.ok = a.size >= Wanted(f)]
            ELSE Field(a, f, Inline(f, o[f.tag]))
        header == 2 + 2 * MaxN(st)
        Complete(r) ==
            IF ~r.ok THEN Fail
            ELSE <<Digits(Len(r.records), 2) \o FlattenSeq([i \in DOMAIN r.records |-> Digits(r.records[i], 2)])
                   \o r.data>>
    IN  Complete(FoldLeft(Next1, [ok |-> size >= header, last |-> -1, records |-> <<>>,
                                  size |-> size - header, data |-> <<>>], Types[st]))

-----------------------------------------------------------------------------
(* findtag: by its distance from the base if the tags have no gap *)
FindTag(st, tag) ==
    LET f == Types[st]
        base == f[1].tag
    IN  IF f[Len(f)].tag - base + 1 = Len(f)
        THEN IF tag - base \in 0 .. Len(f) - 1 THEN <<f[tag - base + 1]>> ELSE Fail
        ELSE SelectSeq(f, LAMBDA x : x.tag = tag)

RECURSIVE Decode(_, _), Split(_)

(* The sized parts of decode_array_object *)
Split(s) ==
    IF s = <<>> THEN <<<<>>>>
    ELSE IF Len(s) < 4 THEN Fail ELSE IF Size4(s, 1) > Len(s) - 4 THEN Fail
    ELSE LET rest == Split(SubSeq(s, 5 + Size4(s, 1), Len(s)))
         IN  IF rest = Fail THEN Fail ELSE <<<<SubSeq(s, 5, 4 + Size4(s, 1))>> \o rest[1]>>

(* decode of lsproto.c, of a string or of an object that fills its part *)
DecodeContent(f, s) ==
    IF f.type = "string" THEN <<s>>
    ELSE LET r == Decode(f.st, s)
         IN  IF r = Fail THEN Fail ELSE IF r[1].used # Len(s) THEN Fail ELSE <<r[1].object>>

DecodeArray(f, s) ==
    LET len == s[1]
        parts == Split(s)
        all == [i \in DOMAIN parts[1] |-> DecodeContent(f, parts[1][i])]
    IN  CASE s = <<>> -> <<<<>>>>
          [] s # <<>> /\ f.type = "integer" ->
                IF len \notin {4, 8} THEN Fail ELSE IF (Len(s) - 1) % len # 0 THEN Fail
                ELSE <<[i \in 1 .. (Len(s) - 1) \div len |->
                            Signed(SubSeq(s, 2 + (i - 1) * len, 1 + i * len))]>>
          [] s # <<>> /\ f.type = "boolean" -> <<[i \in DOMAIN s |-> s[i] # 0]>>
          [] OTHER -> IF parts = Fail THEN Fail ELSE IF \E i \in DOMAIN all : all[i] = Fail THEN Fail
                      ELSE <<[i \in DOMAIN all |-> all[i][1]]>>

(* The value of a field whose record has no value *)
DecodeData(f, s) ==
    CASE f.array -> DecodeArray(f, s)
      [] ~f.array /\ f.type = "integer" -> IF Len(s) \in {4, 8} THEN <<Signed(s)>> ELSE Fail
      [] ~f.array /\ f.type = "boolean" -> Fail
      [] OTHER -> DecodeContent(f, s)

DecodeInline(f, v) == CASE f.array \/ f.type \notin {"integer", "boolean"} -> Fail
                        [] ~f.array /\ f.type = "boolean" -> <<v # 0>>
                        [] OTHER -> <<v>>

(* sproto_decode: fields that the type does not have are passed over. *)
Decode(st, s) ==
    LET fn == Word(s, 1)
        Field(a, v, size) ==
            IF v = Fail THEN [a EXCEPT !.ok = FALSE]
            ELSE [ok |-> TRUE, tag |-> a.tag + 1, at |-> a.at + size,
                  object |-> [t \in DOMAIN a.object \cup {a.tag + 1} |->
                                IF t = a.tag + 1 THEN v[1] ELSE a.object[t]]]
        Record(a, word, f) ==
            LET inline == word >= 2
                size == IF inline THEN 0 ELSE 4 + Size4(s, a.at)
            IN  IF word % 2 = 1 THEN [a EXCEPT !.tag = @ + 1 + word \div 2]
                ELSE IF ~inline /\ Len(s) - a.at + 1 < 4 THEN [a EXCEPT !.ok = FALSE]
                ELSE IF Len(s) - a.at + 1 < size THEN [a EXCEPT !.ok = FALSE]
                ELSE IF f = Fail THEN [a EXCEPT !.tag = @ + 1, !.at = @ + size]
                ELSE Field(a, IF inline THEN DecodeInline(f[1], word \div 2 - 1)
                              ELSE DecodeData(f[1], SubSeq(s, a.at + 4, a.at + size - 1)), size)
        Next1(a, i) == IF ~a.ok THEN a ELSE Record(a, Word(s, 1 + 2 * i), FindTag(st, a.tag + 1))
        Complete(r) == IF ~r.ok THEN Fail ELSE <<[object |-> r.object, used |-> r.at - 1]>>
    IN  IF Len(s) < 2 THEN Fail ELSE IF Len(s) - 2 < 2 * fn THEN Fail
        ELSE Complete(FoldLeft(Next1, [ok |-> TRUE, tag |-> -1, at |-> 3 + 2 * fn, object |-> <<>>],
                               [i \in 1 .. fn |-> i]))

-----------------------------------------------------------------------------
(* The words of 8 bytes, the last one filled up with zeros *)
Words(s) ==
    [i \in 1 .. (Len(s) + 7) \div 8 |->
        [j \in 1 .. 8 |-> IF 8 * (i - 1) + j <= Len(s) THEN s[8 * (i - 1) + j] ELSE 0]]

NotZero(w) == SelectSeq(w, LAMBDA b : b # 0)
Mask(w) == MapThenSumSet(LAMBDA i : 2 ^ (i - 1), {i \in 1 .. 8 : w[i] # 0})

(* pack_seg: a run starts with a word without zeros, and goes on with at most two in a word. *)
InRun(w, run) == Len(NotZero(w)) = 8 \/ (run # <<>> /\ Len(NotZero(w)) >= 6)

(* write_ff *)
WithRun(out, run) == IF run = <<>> THEN out ELSE out \o <<255, Len(run) - 1>> \o FlattenSeq(run)

(* sproto_pack *)
Pack(s) ==
    LET Next1(a, w) ==
            LET run == Append(a.run, w)
            IN  IF ~InRun(w, a.run)
                THEN [out |-> WithRun(a.out, a.run) \o <<Mask(w)>> \o NotZero(w), run |-> <<>>]
                ELSE IF Len(run) = MaxFF THEN [out |-> WithRun(a.out, run), run |-> <<>>]
                ELSE [a EXCEPT !.run = run]
        r == FoldLeft(Next1, [out |-> <<>>, run |-> <<>>], Words(s))
    IN  WithRun(r.out, r.run)

(* The space that lpack has for it *)
MaxPacked(n) == ((n + 8 * MaxFF - 1) \div (8 * MaxFF)) * 2 + n + 2

(* A word of sproto_unpack *)
Spread(h, s) ==
    LET Bit(i) == (h \div 2 ^ (i - 1)) % 2
        Rank(i) == Cardinality({j \in 1 .. i : Bit(j) = 1})
    IN  [i \in 1 .. 8 |-> IF Bit(i) = 1 THEN s[Rank(i)] ELSE 0]

RECURSIVE Unpack(_)

(* sproto_unpack, of what sproto_pack made *)
Unpack(s) ==
    LET n == IF s[1] = 255 THEN 1 + 8 * (s[2] + 1) ELSE Len(NotZero(Spread(s[1], [i \in 1 .. 8 |-> 1])))
        word == IF s[1] = 255 THEN SubSeq(s, 3, 1 + n) ELSE Spread(s[1], Tail(s))
        rest == Unpack(SubSeq(s, 2 + n, Len(s)))
    IN  IF s = <<>> THEN <<<<>>>> ELSE IF Len(s) < 1 + n \/ rest = Fail THEN Fail ELSE <<word \o rest[1]>>

-----------------------------------------------------------------------------
RECURSIVE Room(_, _), LEncode(_, _, _)

(* expand_buffer: twice the size, until it is enough *)
Room(size, need) == IF 2 * size < need THEN Room(2 * size, need) ELSE 2 * size

(* lencode, with the size that the buffer has afterwards *)
LEncode(st, o, size) ==
    LET Encoded(r) ==
            IF r # Fail THEN [ok |-> TRUE, bytes |-> r[1], room |-> size]
            ELSE IF Room(size, 2 * size) > MaxBuffer THEN [ok |-> FALSE, bytes |-> <<>>, room |-> size]
            ELSE LEncode(st, o, Room(size, 2 * size))
    IN  Encoded(Encode(st, o, size))

(* lpack and lunpack, which take more space if bytes need it *)
Sufficient(size, need) == IF size < need THEN Room(size, need) ELSE size

LPack(s, size) ==
    LET Packed(bytes, room) ==
            IF room > MaxBuffer THEN [ok |-> FALSE, bytes |-> <<>>, room |-> size]
            ELSE [ok |-> Len(bytes) <= MaxPacked(Len(s)), bytes |-> bytes, room |-> room]
    IN  Packed(Pack(s), Sufficient(size, MaxPacked(Len(s))))

LUnpack(s, size) ==
    LET Unpacked(r, room) ==
            IF r = Fail \/ room > MaxBuffer THEN [ok |-> FALSE, bytes |-> <<>>, room |-> size]
            ELSE [ok |-> TRUE, bytes |-> r[1], room |-> room]
        Sized1(r) == Unpacked(r, IF r = Fail THEN size ELSE Sufficient(size, Len(r[1])))
    IN  Sized1(Unpack(s))

-----------------------------------------------------------------------------
(***************************************************************************)
(* Two hosts that talk sproto (lualib/sproto.lua): each asks with attach,  *)
(* with or without a session, dispatches what comes, and answers with the  *)
(* function that dispatch gave it, in any order.  A packet is a header of  *)
(* the type "package" and a content, encoded one after the other and       *)
(* packed together; the connection between them keeps the order.           *)
(*                                                                         *)
(* The two hosts may have different versions of the types, whose tags and  *)
(* types never change; the names of the fields are left out.               *)
(***************************************************************************)
CONSTANTS Host,         \* the two ends
          Protos,       \* Protos[h][tag]: the names of the request and the response, or Null
          Null,
          Requests,     \* what may be asked: from, tag, args, session or 0, and ud or 0
          Answers,      \* Answers[h][tag]: the objects that h may answer with
          Cap,          \* Bound: the packets under way to a host
          MaxSession,   \* Bound: the sessions of the two hosts
          Buffer        \* ENCODE_BUFFERSIZE

VARIABLES session,      \* session[h]: host.__session, the response of each session or TRUE
          wire,         \* wire[h]: the packets under way to h
          open,         \* the response functions that h has, not called so far
          room,         \* the sizes of the buffers of encode, pack and unpack
          failed,       \* the sessions whose request was noted and not sent
          result        \* what the last dispatch returned

hostVars == <<session, wire, open, room, failed, result>>

OtherEnd(h) == CHOOSE p \in Host : p # h

(* The fields of "package" that are not nil: type, session and ud *)
Package(type, s, ud) ==
    [t \in {i \in 0 .. 2 : <<type, s, ud>>[i + 1] # 0} |-> <<type, s, ud>>[t + 1]]

(* core.pack(header .. content), with the buffers that h has *)
Packet(h, header, type, args) ==
    LET Packed(hd, ct, pk) ==
            [headed |-> hd.ok, ok |-> pk.ok, bytes |-> pk.bytes, encode |-> ct.room, pack |-> pk.room]
        WithContent(hd, ct) ==
            Packed(hd, ct, IF ct.ok THEN LPack(hd.bytes \o ct.bytes, room[h].pack)
                           ELSE [ok |-> FALSE, bytes |-> <<>>, room |-> room[h].pack])
        WithHeader(hd) ==
            WithContent(hd, IF type = Null \/ ~hd.ok THEN [hd EXCEPT !.bytes = <<>>]
                            ELSE LEncode(type, args, hd.room))
    IN  WithHeader(LEncode("package", header, room[h].encode))

(* What of the wire says what the packet is for: the request, and the answer *)
(* to it or Null.                                                            *)
Sent(h, p, of, answer) ==
    /\ room' = [room EXCEPT ![h].encode = p.encode, ![h].pack = p.pack]
    /\ wire' = IF ~p.ok THEN wire
               ELSE [wire EXCEPT ![OtherEnd(h)] = Append(@, [bytes |-> p.bytes, of |-> of, answer |-> answer])]

Nothing == [kind |-> "none"]

HostInit ==
    /\ session = [h \in Host |-> <<>>]
    /\ wire = [h \in Host |-> <<>>]
    /\ open = [h \in Host |-> {}]
    /\ failed = [h \in Host |-> {}]
    /\ room = [h \in Host |-> [encode |-> Buffer, pack |-> Buffer, unpack |-> Buffer]]
    /\ result = Nothing

-----------------------------------------------------------------------------
(* A session is used once at a time. *)
InUse(h, s) == s \in DOMAIN session[h]

(* host:attach: the session is noted before the content is encoded, which *)
(* may fail when the object is too large.                                   *)
Ask(i) ==
    LET r == Requests[i]
        h == r.from
        proto == Protos[h][r.tag]
    IN  /\ Len(wire[OtherEnd(h)]) < Cap /\ ~InUse(h, r.session)
        /\ Cardinality(UNION {DOMAIN session[x] : x \in Host}) < MaxSession
        /\ \E p \in {Packet(h, Package(r.tag, r.session, r.ud), proto.request, r.args)} :
            /\ Sent(h, p, i, Null)
            /\ session' = IF r.session = 0 \/ ~p.headed THEN session
                          ELSE [session EXCEPT ![h] = (r.session :> proto.response) @@ @]
            /\ failed' = IF r.session = 0 \/ ~p.headed \/ p.ok THEN failed
                         ELSE [failed EXCEPT ![h] = @ \cup {r.session}]
        /\ result' = Nothing
        /\ UNCHANGED open

(* The content of a packet p with a header, whose bytes are in bin: it is  *)
(* decoded by the type of the request, or of the response to its session.  *)
Dispatched(h, p, bin, header) ==
    LET Of(t) == IF t \in DOMAIN header[1].object THEN header[1].object[t] ELSE 0
        request == header # Fail /\ Of(0) # 0
        response == header # Fail /\ Of(0) = 0 /\ InUse(h, Of(1))
        type == IF request THEN Protos[h][Of(0)].request ELSE session[h][Of(1)]
        content == SubSeq(bin.bytes, header[1].used + 1, Len(bin.bytes))
        seen == [kind |-> IF request THEN "REQUEST" ELSE "RESPONSE", at |-> h, of |-> p.of, answer |-> p.answer,
                 tag |-> Of(0), session |-> Of(1), ud |-> Of(2), type |-> type]
        closure == [type |-> Protos[h][Of(0)].response, session |-> Of(1), of |-> p.of]
    IN  \E value \in {IF ~request /\ ~response THEN Fail
                      ELSE IF type = Null THEN <<[object |-> Null]>> ELSE Decode(type, content)} :
            /\ session' = IF response THEN [session EXCEPT ![h] = Restrict(@, DOMAIN @ \ {Of(1)})] ELSE session
            /\ open' = IF request /\ value # Fail /\ Of(1) # 0 THEN [open EXCEPT ![h] = @ \cup {closure}] ELSE open
            /\ result' = IF value = Fail THEN [kind |-> "error"] ELSE seen @@ [value |-> value[1].object]

(* host:dispatch: unpack, decode the header, and the content behind it *)
Dispatch(h) ==
    /\ wire[h] # <<>>
    /\ wire' = [wire EXCEPT ![h] = Tail(@)]
    /\ \E bin \in {LUnpack(Head(wire[h]).bytes, room[h].unpack)} :
        /\ room' = [room EXCEPT ![h].unpack = bin.room]
        /\ \E header \in {IF bin.ok THEN Decode("package", bin.bytes) ELSE Fail} :
            Dispatched(h, Head(wire[h]), bin, header)
    /\ UNCHANGED failed

(* The function of gen_response, which a service calls once *)
Respond(h) ==
    /\ Len(wire[OtherEnd(h)]) < Cap
    /\ \E c \in open[h], a \in DOMAIN Answers[h] :
        /\ IF c.type = Null THEN a = 1 ELSE Answers[h][a].type = c.type
        /\ \E p \in {Packet(h, Package(0, c.session, 0), c.type, Answers[h][a].args)} :
            Sent(h, p, c.of, a) /\ open' = IF p.ok THEN [open EXCEPT ![h] = @ \ {c}] ELSE open
        /\ result' = Nothing
        /\ UNCHANGED <<session, failed>>

HostNext == \/ \E i \in DOMAIN Requests : Ask(i)
            \/ \E h \in Host : Dispatch(h) \/ Respond(h)

HostSpec == HostInit /\ [][HostNext]_hostVars

-----------------------------------------------------------------------------
(* What a reader with the type st2 must see of an object of the type st1. *)
(* The records have the space that was kept for them before the data, and *)
(* encode does not write behind its buffer: it fails in a smaller one.    *)
Tags(st) == {f.tag : f \in ToSet(Types[st])}
Same(st1, o, st2, g) ==
    /\ \A s \in {Encode(st1, o, MaxBuffer)[1]} :
            Word(s, 1) <= MaxN(st1) /\ Encode(st1, o, Len(s) - 1) = Fail
    /\ DOMAIN g = DOMAIN o \cap Tags(st2)
    /\ \A t \in DOMAIN g : g[t] = o[t]

(***************************************************************************)
(* A packet that is dispatched is what the other end sent, whatever the    *)
(* sizes of the buffers were, and cut at the right place: a request with   *)
(* its arguments, or the response to the request of that session with what *)
(* the service answered; fields that only one end knows are passed over.   *)
(* No decode fails, and no session is unknown (sproto.lua:198).            *)
(***************************************************************************)
PacketsKept ==
    /\ result.kind # "error"
    /\ result.kind = "REQUEST" =>
          LET r == Requests[result.of]
          IN  /\ result.answer = Null /\ r.from = OtherEnd(result.at)
              /\ <<result.tag, result.session, result.ud>> = <<r.tag, r.session, r.ud>>
              /\ result.type # Null => Same(Protos[r.from][r.tag].request, r.args, result.type, result.value)
    /\ result.kind = "RESPONSE" =>
          LET a == Answers[OtherEnd(result.at)][result.answer]
          IN  /\ result.session = Requests[result.of].session
              /\ result.type # Null => Same(a.type, a.args, result.type, result.value)

(* A session is noted while its request or its response is under way, or   *)
(* the service has not answered, and in no other case.                     *)
SessionsExact ==
    \A h \in Host :
        LET of(p) == Requests[p.of]
            there == {i \in DOMAIN wire[OtherEnd(h)] : wire[OtherEnd(h)][i].answer = Null /\ of(wire[OtherEnd(h)][i]).session # 0}
            back == {i \in DOMAIN wire[h] : wire[h][i].answer # Null}
            waiting == open[OtherEnd(h)]
        IN  /\ DOMAIN session[h] = {of(wire[OtherEnd(h)][i]).session : i \in there}
                                   \cup {of(wire[h][i]).session : i \in back}
                                   \cup {c.session : c \in waiting} \cup failed[h]
            /\ Cardinality(DOMAIN session[h]) = Cardinality(there) + Cardinality(back) + Cardinality(waiting)
                                               + Cardinality(failed[h])

(* The space that lpack takes is enough for what sproto_pack writes, and   *)
(* unpacking gives the bytes back, filled up to a word.                    *)
Fits(s) == Len(Pack(s)) <= MaxPacked(Len(s)) /\ Unpack(Pack(s)) = <<FlattenSeq(Words(s))>>
=============================================================================
