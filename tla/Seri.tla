---------------------------------- MODULE Seri ----------------------------------
(***************************************************************************)
(* The serialisation of Lua values that skynet.pack and skynet.unpack are  *)
(* (lualib-src/lua-seri.c): the values of a message, one after the other,  *)
(* into a chain of blocks, from there into one buffer, and back.           *)
(*                                                                         *)
(* A value is <<type, v>>.  A table is a function on its keys, and a table *)
(* with __pairs is the sequence of what its iterator gives; the 8 bytes of *)
(* a real number or a pointer are not told apart.                          *)
(***************************************************************************)
EXTENDS Bytes

CONSTANTS MaxCookie,    \* MAX_COOKIE
          BlockSize,    \* BLOCK_SIZE
          MaxDepth,     \* MAX_DEPTH
          Values,       \* what a message may hold, as a sequence
          MaxArgs       \* Bound: the values of a message

VARIABLES args,         \* the values of the message
          far           \* lua_rawlen finds the last border of a table, or the first

seriVars == <<args, far>>

Nil == <<"nil", 0>>
Fail == <<>>

(* COMBINE_TYPE and the types *)
Combine(type, cookie) == type + 8 * cookie
TypeNil == 0
TypeBoolean == 1
TypeNumber == 2
TypeUserdata == 3
TypeShortString == 4
TypeLongString == 5
TypeTable == 6

-----------------------------------------------------------------------------
RECURSIVE WbPush(_, _)

(* wb_push: what does not fit into the current block goes on in a new one. *)
WbPush(wb, s) ==
    LET room == BlockSize - Len(Last(wb.blocks))
        fits == Len(s) <= room
        part == IF fits THEN s ELSE SubSeq(s, 1, room)
        filled == [ok |-> wb.ok, len |-> wb.len + Len(part),
                   blocks |-> Front(wb.blocks) \o <<Last(wb.blocks) \o part>>]
    IN  IF ~wb.ok THEN wb
        ELSE IF fits THEN filled
        ELSE WbPush([filled EXCEPT !.blocks = Append(@, <<>>)], SubSeq(s, room + 1, Len(s)))

WbInit == [ok |-> TRUE, len |-> 0, blocks |-> <<<<>>>>]

(* wb_free and an error *)
WbFree(wb) == [wb EXCEPT !.ok = FALSE]

(* A type with its cookie, and the bytes that follow *)
Tagged(wb, type, cookie, s) ==
    IF s = <<>> THEN WbPush(wb, <<Combine(type, cookie)>>)
    ELSE WbPush(WbPush(wb, <<Combine(type, cookie)>>), s)

(* wb_integer; the width is the cookie, but for 8 bytes it is 6. *)
Width(v) == CASE v = 0 -> 0
              [] v # 0 /\ ~Dword(v) -> 8
              [] v # 0 /\ Dword(v) /\ v < 0 -> 4
              [] v \in 1 .. Byte - 1 -> 1
              [] v \in Byte .. Byte ^ 2 - 1 -> 2
              [] OTHER -> 4

WbInteger(wb, v) == Tagged(wb, TypeNumber, IF Width(v) = 8 THEN 6 ELSE Width(v), Digits(v, Width(v)))

WbString(wb, s) ==
    IF Len(s) < MaxCookie THEN Tagged(wb, TypeShortString, Len(s), s)
    ELSE LET width == IF Len(s) < Byte ^ 2 THEN 2 ELSE 4
         IN  WbPush(Tagged(wb, TypeLongString, width, Digits(Len(s), width)), s)

(* lua_rawlen: some n with a value, without one behind it; holes before it are nil. *)
At(t, k) == IF k \in DOMAIN t THEN t[k] ELSE Nil
Borders(t) ==
    {n \in 0 .. Cardinality(DOMAIN t) + 3 :
        (n = 0 \/ <<"int", n>> \in DOMAIN t) /\ <<"int", n + 1>> \notin DOMAIN t}
RawLen(t) == IF far THEN Max(Borders(t)) ELSE Min(Borders(t))

WbNil(wb) == Tagged(wb, TypeNil, 0, <<>>)

RECURSIVE PackOne(_, _, _)

PackAll(wb, vs, depth) == FoldLeft(LAMBDA b, v : PackOne(b, v, depth), wb, vs)

(* wb_table_array *)
WbTableArray(wb, t, depth) ==
    LET n == RawLen(t)
        head == IF n >= MaxCookie - 1 THEN WbInteger(Tagged(wb, TypeTable, MaxCookie - 1, <<>>), n)
                                      ELSE Tagged(wb, TypeTable, n, <<>>)
    IN  PackAll(head, [i \in 1 .. n |-> At(t, <<"int", i>>)], depth)

(* wb_table_hash, in the order of lua_next, and wb_nil at its end *)
WbTableHash(wb, t, depth, n) ==
    LET keys == SetToSeq(DOMAIN t \ {<<"int", i>> : i \in 1 .. n})
    IN  WbNil(PackAll(wb, FlattenSeq([i \in DOMAIN keys |-> <<keys[i], t[keys[i]]>>]), depth))

(* wb_table_metapairs *)
WbTableMetapairs(wb, pairs, depth) ==
    WbNil(PackAll(Tagged(wb, TypeTable, 0, <<>>), FlattenSeq(pairs), depth))

(* pack_one; another type, as a function, is an error. *)
PackOne(wb, value, depth) ==
    LET type == value[1]
        v == value[2]
    IN  IF ~wb.ok THEN wb
        ELSE IF depth > MaxDepth THEN WbFree(wb)
        ELSE CASE type = "nil" -> WbNil(wb)
               [] type = "boolean" -> Tagged(wb, TypeBoolean, IF v THEN 1 ELSE 0, <<>>)
               [] type = "int" -> WbInteger(wb, v)
               [] type = "real" -> Tagged(wb, TypeNumber, 8, [i \in 1 .. 8 |-> v])
               [] type = "pointer" -> Tagged(wb, TypeUserdata, 0, [i \in 1 .. 8 |-> v])
               [] type = "string" -> WbString(wb, v)
               [] type = "pairs" -> WbTableMetapairs(wb, v, depth + 1)
               [] type = "table" ->
                     WbTableHash(WbTableArray(wb, v, depth + 1), v, depth + 1, RawLen(v))
               [] OTHER -> WbFree(wb)

(* luaseri_pack: seri copies the blocks into one buffer of the length that was counted. *)
Pack(vs) ==
    LET Copied(wb) ==
            IF wb.ok
            THEN <<[i \in 1 .. wb.len |-> wb.blocks[((i - 1) \div BlockSize) + 1][((i - 1) % BlockSize) + 1]]>>
            ELSE Fail
    IN  Copied(PackAll(WbInit, vs, 0))

-----------------------------------------------------------------------------
(* A reader: the rest of the stream, what was read from it, and an error *)
RbRead(s, n) == IF Len(s) < n THEN Fail ELSE <<SubSeq(s, 1, n)>>
Rest(s, n) == SubSeq(s, n + 1, Len(s))
Got(value, s) == <<[value |-> value, rest |-> s]>>

GetInteger(s, cookie) ==
    LET width == IF cookie = 6 THEN 8 ELSE cookie
        b == RbRead(s, width)
    IN  IF cookie \notin {0, 1, 2, 4, 6} \/ b = Fail THEN Fail
        ELSE Got(<<"int", IF width >= 4 THEN Signed(b[1]) ELSE Number(b[1])>>, Rest(s, width))

GetBuffer(s, n) == IF RbRead(s, n) = Fail THEN Fail ELSE Got(<<"string", SubSeq(s, 1, n)>>, Rest(s, n))

RECURSIVE UnpackOne(_), UnpackArray(_, _, _), UnpackHash(_, _)

(* unpack_table, whose nil values leave the key absent *)
Set(t, k, v) == IF v = Nil THEN Restrict(t, DOMAIN t \ {k})
                ELSE [x \in DOMAIN t \cup {k} |-> IF x = k THEN v ELSE t[x]]

UnpackArray(s, t, left) ==
    LET r == UnpackOne(s)
        \* the next index is behind those that were read
        k == <<"int", left[1]>>
    IN  IF left[1] > left[2] THEN UnpackHash(s, t)
        ELSE IF r = Fail THEN Fail
        ELSE UnpackArray(r[1].rest, Set(t, k, r[1].value), <<left[1] + 1, left[2]>>)

UnpackHash(s, t) ==
    LET k == UnpackOne(s)
        v == UnpackOne(k[1].rest)
    IN  IF k = Fail THEN Fail
        ELSE IF k[1].value = Nil THEN Got(<<"table", t>>, k[1].rest)
        ELSE IF v = Fail THEN Fail ELSE UnpackHash(v[1].rest, Set(t, k[1].value, v[1].value))

UnpackTable(s, cookie) ==
    LET n == IF s = <<>> \/ s[1] % 8 # TypeNumber \/ s[1] \div 8 = 8 THEN Fail
             ELSE GetInteger(Tail(s), s[1] \div 8)
    IN  IF cookie # MaxCookie - 1 THEN UnpackArray(s, <<>>, <<1, cookie>>)
        ELSE IF n = Fail THEN Fail ELSE UnpackArray(n[1].rest, <<>>, <<1, n[1].value[2]>>)

(* push_value *)
PushValue(s, type, cookie) ==
    LET n == RbRead(s, cookie)
    IN  CASE type = TypeNil -> Got(Nil, s)
          [] type = TypeBoolean -> Got(<<"boolean", cookie # 0>>, s)
          [] type = TypeNumber /\ cookie # 8 -> GetInteger(s, cookie)
          [] type = TypeNumber /\ cookie = 8 -> IF Len(s) < 8 THEN Fail ELSE Got(<<"real", s[1]>>, Rest(s, 8))
          [] type = TypeUserdata -> IF Len(s) < 8 THEN Fail ELSE Got(<<"pointer", s[1]>>, Rest(s, 8))
          [] type = TypeShortString -> GetBuffer(s, cookie)
          [] type = TypeLongString -> IF cookie \notin {2, 4} \/ n = Fail THEN Fail
                                      ELSE GetBuffer(Rest(s, cookie), Number(n[1]))
          [] type = TypeTable -> UnpackTable(s, cookie)
          [] OTHER -> Fail

UnpackOne(s) == IF s = <<>> THEN Fail ELSE PushValue(Tail(s), s[1] % 8, s[1] \div 8)

RECURSIVE Unpack(_)

(* luaseri_unpack *)
Unpack(s) ==
    LET r == UnpackOne(s)
        more == Unpack(r[1].rest)
    IN  IF s = <<>> THEN <<<<>>>>
        ELSE IF r = Fail THEN Fail ELSE IF more = Fail THEN Fail ELSE <<<<r[1].value>> \o more[1]>>

-----------------------------------------------------------------------------
SeriInit == args = <<>> /\ far \in BOOLEAN

(* One more value for the message *)
SeriNext == /\ Len(args) < MaxArgs
            /\ \E i \in DOMAIN Values : args' = Append(args, Values[i])
            /\ UNCHANGED far

SeriSpec == SeriInit /\ [][SeriNext]_seriVars

-----------------------------------------------------------------------------
RECURSIVE Refused(_, _), Plain(_)

(* What cannot be sent: a function, or a value that is too deep *)
Parts(value) == CASE value[1] = "table" -> Range(value[2]) \cup DOMAIN value[2]
                  [] value[1] = "pairs" -> UNION {ToSet(value[2][i]) : i \in DOMAIN value[2]}
                  [] OTHER -> {}
Refused(value, depth) == \/ depth > MaxDepth \/ value[1] = "function"
                         \/ \E p \in Parts(value) : Refused(p, depth + 1)

(* What a receiver gets for a value: a table with __pairs is a table of what they are. *)
Plain(value) ==
    CASE value[1] = "pairs" ->
            <<"table", FoldLeft(LAMBDA t, p : Set(t, Plain(p[1]), Plain(p[2])), <<>>, value[2])>>
      [] value[1] = "table" -> <<"table", [k \in DOMAIN value[2] |-> Plain(value[2][k])]>>
      [] OTHER -> value

(***************************************************************************)
(* The receiver of a message gets its values: as many as were given, nil   *)
(* between them and at their end too, integers of every width with their   *)
(* sign, tables whatever border lua_rawlen finds, and so at every position *)
(* of a block.  A function and what is too deep are refused.               *)
(***************************************************************************)
SeriKept ==
    \A p \in {Pack(args)} :
        IF \E i \in DOMAIN args : Refused(args[i], 0)
        THEN p = Fail
        ELSE p # Fail /\ Unpack(p[1]) = <<[i \in DOMAIN args |-> Plain(args[i])]>>
=============================================================================
