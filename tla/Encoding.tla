------------------------------ MODULE Encoding ------------------------------
(***************************************************************************)
(* The binary encoding of ua_types_encoding_binary.c over the values of    *)
(* module DataTypes.                                                       *)
(*                                                                         *)
(* An encoder carries e: the bytes written so far, the length of the       *)
(* destination, whether everything succeeded and whether bytes were        *)
(* written behind the destination (over); the code goes on after a         *)
(* failure, but the caller then drops the buffer.  A decoder starts at the *)
(* offset off of the bytes s and returns [ok, v, h, off]: what it leaves   *)
(* in the zeroed destination, the heap and the new offset.  Decoding does  *)
(* go on after a failed part ("retval |="), from wherever the offset is.   *)
(***************************************************************************)
EXTENDS DataTypes

ENCODINGOFFSET_BINARY == 2

----------------------------------------------------------------------------
(* Encoding                                                                 *)

\* Little endian, two's complement
LittleEndian(n, width) ==
    [i \in 1..width |-> IF n < 0 THEN 255 ELSE IF i > 3 THEN 0 ELSE (n \div 256 ^ (i - 1)) % 256]

Emit(e, bytes) ==
    IF Len(e.out) + Len(bytes) <= e.size THEN [e EXCEPT !.out = @ \o bytes] ELSE [e EXCEPT !.ok = FALSE]

Int_encodeBinary(e, n, width) == Emit(e, LittleEndian(n, width))

\* Mutant of SignedLength: an empty array becomes a null array
LengthOrNull(p, len) == IF len > 0 THEN len ELSE -1

SignedLength(p, len) == IF len > 0 THEN len ELSE IF p = EMPTY THEN 0 ELSE -1

\* The room for the content is tested before the length is written, and not after it: the
\* last bytes of the content, up to four, may be written behind the destination
String_encodeBinary(e, h, v) ==
    LET n == Int_encodeBinary(e, IF v.ptr > 0 THEN v.len ELSE SignedLength(v.ptr, 0), 4)
    IN  IF Len(e.out) + v.len > e.size THEN [e EXCEPT !.ok = FALSE]
        ELSE IF v.ptr <= 0 THEN n
        ELSE [n EXCEPT !.out = @ \o SubSeq(h.mem[v.ptr], 1, v.len),
                       !.over = @ \/ Len(n.out) + v.len > e.size]

NodeId_encodeBinary(e, h, v) ==
    IF v.kind = "string"
    THEN String_encodeBinary(Int_encodeBinary(Emit(e, <<3>>), v.ns, 2), h, v.str)
    ELSE IF v.num > 65535 \/ v.ns > 255
    THEN Int_encodeBinary(Int_encodeBinary(Emit(e, <<2>>), v.ns, 2), v.num, 4)
    ELSE IF v.num > 255 \/ v.ns > 0
    THEN Int_encodeBinary(Emit(Emit(e, <<1>>), <<v.ns>>), v.num, 2)
    ELSE Emit(Emit(e, <<0>>), <<v.num>>)

Numeric(n) == [NoNodeId EXCEPT !.num = n]

RECURSIVE encodeBinary(_, _, _, _)

Array_encodeBinary(e, h, p, len, t) ==
    InOrder(LAMBDA f, x : encodeBinary(f, h, x, t),
             Int_encodeBinary(e, SignedLength(p, len), 4),
             IF len = 0 THEN <<>> ELSE SubSeq(h.mem[p], 1, len))

LocalizedText_encodeBinary(e, h, v) ==
    LET given(i) == v[i].ptr # NULL
        string(f, i) == IF given(i) THEN String_encodeBinary(f, h, v[i]) ELSE f
    IN  string(string(Emit(e, <<(IF given(1) THEN 1 ELSE 0) + (IF given(2) THEN 2 ELSE 0)>>), 1), 2)

\* The type id and the encoding byte, room for the length, the content, and back to
\* fill in the length: only then it is seen whether there was room
WrappedInExtensionObject(e, h, v, t) ==
    With(Emit(NodeId_encodeBinary(e, h, Numeric(Structs[t].id + ENCODINGOFFSET_BINARY)), <<1>>), LAMBDA f :
    With(encodeBinary([f EXCEPT !.out = @ \o LittleEndian(0, 4)], h, v, t), LAMBDA g :
         LET at == Len(f.out)
             length == LittleEndian(Len(g.out) - at - 4, 4)
         IN  [g EXCEPT !.ok = @ /\ at + 4 <= e.size,
                       !.out = [i \in DOMAIN @ |->
                                  IF i \in (at + 1)..(at + 4) THEN length[i - at] ELSE @[i]]]))

ExtensionObject_encodeBinary(e, h, v) ==
    IF v.encoding = "decoded"
    THEN IF v.data = NULL THEN [e EXCEPT !.ok = FALSE]
         ELSE WrappedInExtensionObject(e, h, h.mem[v.data][1], v.type)
    ELSE IF v.encoding = "nobody" THEN Emit(NodeId_encodeBinary(e, h, v.typeId), <<0>>)
    ELSE String_encodeBinary(Emit(NodeId_encodeBinary(e, h, v.typeId),
                                  <<IF v.encoding = "bytes" THEN 1 ELSE 2>>), h, v.body)

Variant_encodeBinary(e, h, v) ==
    LET isArray == v.len > 0 \/ v.data <= 0
        isBuiltin == v.type \in DOMAIN BuiltinId
        hasDimensions == isArray /\ v.dims.len > 0
        byte == (IF isArray THEN 128 ELSE 0) + (IF hasDimensions THEN 64 ELSE 0)
                  + (IF isBuiltin THEN BuiltinId[v.type] ELSE 22)
        size == IF isArray THEN v.len ELSE 1
        withLength(f) == IF isArray THEN Int_encodeBinary(f, SignedLength(v.data, v.len), 4) ELSE f
    IN  IF v.type = "none" THEN [e EXCEPT !.ok = FALSE]
        ELSE With(InOrder(LAMBDA f, x : IF isBuiltin THEN encodeBinary(f, h, x, v.type)
                                        ELSE WrappedInExtensionObject(f, h, x, v.type),
                          withLength(Emit(e, <<byte>>)),
                          IF size = 0 THEN <<>> ELSE SubSeq(h.mem[v.data], 1, size)), LAMBDA f :
             IF hasDimensions THEN Array_encodeBinary(f, h, v.dims.ptr, v.dims.len, "Int32") ELSE f)

\* The members of a DataValue that follow the value, in the order of the encoding, with
\* their bit in the first byte
DataValueNumbers == << [name |-> "status", bit |-> 2, width |-> 4],
                       [name |-> "sourceTimestamp", bit |-> 4, width |-> 8],
                       [name |-> "sourcePicoseconds", bit |-> 16, width |-> 2],
                       [name |-> "serverTimestamp", bit |-> 8, width |-> 8],
                       [name |-> "serverPicoseconds", bit |-> 32, width |-> 2] >>

DataValue_encodeBinary(e, h, v) ==
    LET mask == InOrder(LAMBDA m, x : m + (IF x.name \in v.has THEN x.bit ELSE 0),
                        IF "value" \in v.has THEN 1 ELSE 0, DataValueNumbers)
    IN  InOrder(LAMBDA f, x : IF x.name \in v.has THEN Int_encodeBinary(f, v.num[x.name], x.width) ELSE f,
                IF "value" \in v.has THEN encodeBinary(Emit(e, <<mask>>), h, v.value, "Variant")
                ELSE Emit(e, <<mask>>),
                DataValueNumbers)

UA_encodeBinary(e, h, v, t) ==
    InOrder(LAMBDA f, x : IF x.m.isArray THEN Array_encodeBinary(f, h, x.v.ptr, x.v.len, x.m.type)
                          ELSE encodeBinary(f, h, x.v, x.m.type),
            e, Parts(v, t))

\* encodeBinaryJumpTable
encodeBinary(e, h, v, t) ==
    CASE t \in Numbers -> Int_encodeBinary(e, v, FixedSize[t])
      [] t \in Strings -> String_encodeBinary(e, h, v)
      [] t = "NodeId" -> NodeId_encodeBinary(e, h, v)
      [] t = "LocalizedText" -> LocalizedText_encodeBinary(e, h, v)
      [] t = "ExtensionObject" -> ExtensionObject_encodeBinary(e, h, v)
      [] t = "Variant" -> Variant_encodeBinary(e, h, v)
      [] t = "DataValue" -> DataValue_encodeBinary(e, h, v)
      [] OTHER -> UA_encodeBinary(e, h, v, t)

\* A buffer of size bytes, nothing written yet
Buffer(size) == [out |-> <<>>, size |-> size, ok |-> TRUE, over |-> FALSE]

----------------------------------------------------------------------------
(* Decoding                                                                 *)

Decoded(ok, v, h, off) == [ok |-> ok, v |-> v, h |-> h, off |-> off]

\* -1 is the only negative number the values here contain
Int_decodeBinary(s, off, h, width) ==
    IF off + width > Len(s) THEN Decoded(FALSE, 0, h, off)
    ELSE Decoded(TRUE,
                 IF s[off + width] = 255 /\ width >= 4 THEN -1
                 ELSE InOrder(LAMBDA n, i : n + s[off + i] * 256 ^ (i - 1), 0,
                              [i \in 1..(IF width > 3 THEN 3 ELSE width) |-> i]),
                 h, off + width)

\* The content of a String: nothing is stored before the room and the memory are there
String_decodeBinary(s, off, h) ==
    With(Int_decodeBinary(s, off, h, 4), LAMBDA n :
    IF ~n.ok \/ n.off + n.v > Len(s) THEN Decoded(FALSE, NoArray, h, n.off)
    ELSE IF n.v <= 0 THEN Decoded(TRUE, [len |-> 0, ptr |-> IF n.v = 0 THEN EMPTY ELSE NULL], h, n.off)
    ELSE With(Alloc(h, SubSeq(s, n.off + 1, n.off + n.v)), LAMBDA a :
         IF ~a.ok THEN Decoded(FALSE, NoArray, a.h, n.off)
         ELSE Decoded(TRUE, [len |-> n.v, ptr |-> a.v], a.h, n.off + n.v)))

RECURSIVE decodeBinary(_, _, _, _)

NumericNodeId(s, n, h, width) ==
    With(Int_decodeBinary(s, n.off, h, width), LAMBDA i :
         Decoded(n.ok /\ i.ok, [NoNodeId EXCEPT !.ns = n.v, !.num = i.v], h, i.off))

StringNodeId(s, n, h) ==
    With(decodeBinary(s, n.off, h, "String"), LAMBDA i :
    With([NoNodeId EXCEPT !.kind = "string", !.ns = n.v, !.str = i.v], LAMBDA v :
         IF n.ok /\ i.ok THEN Decoded(TRUE, v, i.h, i.off)
         ELSE Decoded(FALSE, [v EXCEPT !.str = NoArray], NodeId_deleteMembers(i.h, v), i.off)))

NodeId_decodeBinary(s, off, h) ==
    With(Int_decodeBinary(s, off, h, 1), LAMBDA k :
    CASE k.ok /\ k.v = 0 -> NumericNodeId(s, Decoded(TRUE, 0, h, k.off), h, 1)
      [] k.ok /\ k.v = 1 -> NumericNodeId(s, Int_decodeBinary(s, k.off, h, 1), h, 2)
      [] k.ok /\ k.v = 2 -> NumericNodeId(s, Int_decodeBinary(s, k.off, h, 2), h, 4)
      [] k.ok /\ k.v = 3 -> StringNodeId(s, Int_decodeBinary(s, k.off, h, 2), h)
      [] OTHER -> Decoded(FALSE, NoNodeId, h, k.off))

\* v is [len, ptr].  A short zero-copyable array fails with its block allocated and
\* length 0: the caller deletes it.
Array_decodeBinary(s, off, h, length, t) ==
    LET next(r, d) == Decoded(d.ok, IF d.ok THEN Append(r.v, d.v) ELSE r.v, d.h, d.off)
    IN  IF length <= 0
        THEN Decoded(TRUE, [len |-> 0, ptr |-> IF length = 0 THEN EMPTY ELSE NULL], h, off)
        ELSE IF off + (memSize(t) * length) \div 32 > Len(s) THEN Decoded(FALSE, NoArray, h, off)
        ELSE With(Alloc(h, [i \in 1..length |-> Zero(t)]), LAMBDA a :
             IF ~a.ok THEN Decoded(FALSE, NoArray, a.h, off)
             ELSE IF t \in Numbers /\ Len(s) < off + FixedSize[t] * length
             THEN Decoded(FALSE, [len |-> 0, ptr |-> a.v], a.h, off)
             ELSE With(InOrder(LAMBDA r, i : IF r.ok THEN next(r, decodeBinary(s, r.off, r.h, t)) ELSE r,
                               Decoded(TRUE, <<>>, a.h, off), [i \in 1..length |-> i]), LAMBDA d :
                  IF d.ok THEN Decoded(TRUE, [len |-> length, ptr |-> a.v], Put(d.h, a.v, d.v), d.off)
                  ELSE Decoded(FALSE, NoArray,
                               UA_Array_delete(Put(d.h, a.v, d.v), a.v, Len(d.v), t), d.off)))

LocalizedText_decodeBinary(s, off, h) ==
    LET string(present, g, o) == IF present THEN decodeBinary(s, o, g, "String")
                                 ELSE Decoded(TRUE, NoArray, g, o)
    IN  With(Int_decodeBinary(s, off, h, 1), LAMBDA m :
        With(string(m.v % 2 = 1, h, m.off), LAMBDA l :
        With(string(m.v \div 2 = 1, l.h, l.off), LAMBDA x :
             IF m.ok /\ l.ok /\ x.ok THEN Decoded(TRUE, <<l.v, x.v>>, x.h, x.off)
             ELSE Decoded(FALSE, Zero("LocalizedText"),
                          UA_deleteMembers(x.h, <<l.v, x.v>>, "LocalizedText"), x.off))))

\* findDataType
TypesWithId(n) == {t \in DOMAIN Structs : Structs[t].id = n}

\* The structure in an ExtensionObject, whose length is given in front of it
ContentOf(s, length, t) ==
    LET v(p) == [NoExtensionObject EXCEPT !.encoding = "decoded", !.type = t, !.data = p]
    IN  With(Alloc(length.h, <<Zero(t)>>), LAMBDA a :
        IF ~a.ok THEN Decoded(FALSE, NoExtensionObject, a.h, length.off)
        ELSE With(decodeBinary(s, length.off, a.h, t), LAMBDA d :
             IF d.ok /\ d.off = length.off + length.v
             THEN Decoded(TRUE, v(a.v), Put(d.h, a.v, <<d.v>>), d.off)
             ELSE Decoded(FALSE, [v(NULL) EXCEPT !.type = "none"],
                          ExtensionObject_deleteMembers(Put(d.h, a.v, <<d.v>>), v(a.v)), d.off)))

ExtensionObject_decodeBinary(s, off, h) ==
    LET encoded(encoding, typeId, body) ==
            Decoded(body.ok, [NoExtensionObject EXCEPT !.encoding = encoding, !.typeId = typeId,
                                                       !.body = body.v], body.h, body.off)
    IN  With(decodeBinary(s, off, h, "NodeId"), LAMBDA n :
        With(Int_decodeBinary(s, n.off, n.h, 1), LAMBDA b :
        IF ~n.ok \/ ~b.ok \/ n.v.ns # 0 \/ n.v.kind # "numeric"
        THEN Decoded(FALSE, NoExtensionObject, IF n.ok THEN NodeId_deleteMembers(b.h, n.v) ELSE b.h, b.off)
        ELSE IF b.v = 0 THEN Decoded(TRUE, [NoExtensionObject EXCEPT !.typeId = n.v], b.h, b.off)
        ELSE IF b.v = 2 THEN encoded("xml", n.v, decodeBinary(s, b.off, b.h, "ByteString"))
        ELSE With(Int_decodeBinary(s, b.off, b.h, 4), LAMBDA length :
             With(TypesWithId(n.v.num - ENCODINGOFFSET_BINARY), LAMBDA types :
             IF ~length.ok THEN Decoded(FALSE, NoExtensionObject, length.h, length.off)
             ELSE IF types # {} THEN ContentOf(s, length, CHOOSE t \in types : TRUE)
             ELSE encoded("bytes", [n.v EXCEPT !.num = @ - ENCODINGOFFSET_BINARY],
                          decodeBinary(s, b.off, b.h, "ByteString"))))))

\* A NodeId was to be decoded into memory that is not initialised, and failed: the pointer of
\* a string has not been stored when the length or the content is missing, nor the kind of an
\* id with an unknown encoding.  NodeId_deleteMembers frees what happens to be there.
PointerUnset(s, off) ==
    With(Int_decodeBinary(s, off, NULL, 1), LAMBDA k :
    With(Int_decodeBinary(s, k.off, NULL, 2), LAMBDA ns :
    With(Int_decodeBinary(s, ns.off, NULL, 4), LAMBDA length :
         /\ k.ok
         /\ \/ k.v > 5
            \/ k.v = 3 /\ (~length.ok \/ (length.v > 0 /\ length.off + length.v > Len(s))))))

\* A single ExtensionObject: a type whose own id (not the id of its encoding) is found
\* is decoded in place of the ExtensionObject.  The id is decoded into a local variable that
\* is not initialised.
SingleExtensionObject(s, off, h) ==
    With(decodeBinary(s, off, h, "NodeId"), LAMBDA n :
    IF ~n.ok THEN Decoded(FALSE, NoVariant, IF PointerUnset(s, off) THEN Undefined(n.h) ELSE n.h, off)
    ELSE With(Int_decodeBinary(s, n.off, n.h, 1), LAMBDA b :
    IF ~b.ok THEN Decoded(FALSE, NoVariant, NodeId_deleteMembers(b.h, n.v), off)
    ELSE With(IF n.v.ns = 0 /\ n.v.kind = "numeric" /\ b.v = 1 THEN TypesWithId(n.v.num) ELSE {},
              LAMBDA types :
    With(IF types = {} THEN "ExtensionObject" ELSE CHOOSE t \in types : TRUE, LAMBDA t :
    With(Alloc(NodeId_deleteMembers(b.h, n.v), <<Zero(t)>>), LAMBDA a :
    With([NoVariant EXCEPT !.type = t], LAMBDA w :
    IF ~a.ok THEN Decoded(FALSE, w, a.h, off)
    ELSE With(decodeBinary(s, IF types = {} THEN off ELSE b.off, a.h, t), LAMBDA d :
         IF d.ok THEN Decoded(TRUE, [w EXCEPT !.data = a.v], Put(d.h, a.v, <<d.v>>), d.off)
         ELSE Decoded(FALSE, w, Free(d.h, a.v), d.off))))))))

\* The data of a variant of type t, before its dimensions
VariantData(s, off, h, isArray, t) ==
    LET typed(a) == Decoded(a.ok, [NoVariant EXCEPT !.type = t, !.data = a.v.ptr,
                                                    !.len = IF isArray THEN a.v.len ELSE 0], a.h, a.off)
    IN  IF ~isArray /\ t = "ExtensionObject" THEN SingleExtensionObject(s, off, h)
        ELSE With(IF isArray THEN Int_decodeBinary(s, off, h, 4) ELSE Decoded(TRUE, 1, h, off), LAMBDA n :
             typed(IF n.ok THEN Array_decodeBinary(s, n.off, h, n.v, t)
                   ELSE Decoded(FALSE, NoArray, h, n.off)))

VariantDimensions(s, d) ==
    With(Int_decodeBinary(s, d.off, d.h, 4), LAMBDA m :
         IF m.ok /\ d.ok THEN Array_decodeBinary(s, m.off, d.h, m.v, "Int32")
         ELSE Decoded(FALSE, NoArray, d.h, m.off))

\* k is the encoding byte
Variant_decodeBinary(s, off, h) ==
    With(Int_decodeBinary(s, off, h, 1), LAMBDA k :
    With({t \in DOMAIN BuiltinId : BuiltinId[t] = k.v % 64}, LAMBDA types :
    IF ~k.ok \/ types = {} THEN Decoded(FALSE, NoVariant, h, k.off)
    ELSE With(VariantData(s, k.off, h, k.v >= 128, CHOOSE t \in types : TRUE), LAMBDA d :
         With(IF k.v >= 192 THEN VariantDimensions(s, d) ELSE Decoded(d.ok, NoArray, d.h, d.off), LAMBDA x :
         With([d.v EXCEPT !.dims = x.v], LAMBDA v :
              IF x.ok THEN Decoded(TRUE, v, x.h, x.off)
              ELSE Decoded(FALSE, ClearedVariant(v), Variant_deletemembers(x.h, v), x.off))))))

DataValue_decodeBinary(s, off, h) ==
    LET stored(r, x, n) ==
            Decoded(r.ok /\ n.ok,
                    [r.v EXCEPT !.has = @ \cup {x.name},
                                !.num[x.name] = IF x.width = 2 /\ n.v > 999 THEN 999 ELSE n.v],
                    r.h, n.off)
    IN  With(Int_decodeBinary(s, off, h, 1), LAMBDA k :
        IF ~k.ok THEN Decoded(FALSE, NoDataValue, h, k.off)
        ELSE With(IF k.v % 2 = 1 THEN decodeBinary(s, k.off, h, "Variant")
                  ELSE Decoded(TRUE, NoVariant, h, k.off), LAMBDA w :
             With(InOrder(LAMBDA r, x : IF (k.v \div x.bit) % 2 = 0 THEN r
                                        ELSE stored(r, x, Int_decodeBinary(s, r.off, r.h, x.width)),
                          Decoded(w.ok, [NoDataValue EXCEPT !.has = IF k.v % 2 = 1 THEN {"value"} ELSE {},
                                                            !.value = w.v], w.h, w.off),
                          DataValueNumbers), LAMBDA d :
                  IF d.ok THEN d
                  ELSE Decoded(FALSE, [d.v EXCEPT !.value = ClearedVariant(@)],
                               Variant_deletemembers(d.h, d.v.value), d.off))))

UA_decodeBinaryNoInit(s, off, h, t) ==
    LET part(r, ok, d) == Decoded(r.ok /\ ok /\ d.ok, Append(r.v, d.v), d.h, d.off)
        array(r, m, n) ==
            part(r, n.ok, Array_decodeBinary(s, n.off, n.h, IF n.ok THEN n.v ELSE -1, m.type))
    IN  With(InOrder(LAMBDA r, m : IF m.isArray THEN array(r, m, Int_decodeBinary(s, r.off, r.h, 4))
                                   ELSE part(r, TRUE, decodeBinary(s, r.off, r.h, m.type)),
                     Decoded(TRUE, <<>>, h, off), Members(t)), LAMBDA d :
             IF d.ok THEN d ELSE Decoded(FALSE, Zero(t), UA_deleteMembers(d.h, d.v, t), d.off))

\* decodeBinaryJumpTable
decodeBinary(s, off, h, t) ==
    CASE t \in Numbers -> Int_decodeBinary(s, off, h, FixedSize[t])
      [] t \in Strings -> String_decodeBinary(s, off, h)
      [] t = "NodeId" -> NodeId_decodeBinary(s, off, h)
      [] t = "LocalizedText" -> LocalizedText_decodeBinary(s, off, h)
      [] t = "ExtensionObject" -> ExtensionObject_decodeBinary(s, off, h)
      [] t = "Variant" -> Variant_decodeBinary(s, off, h)
      [] t = "DataValue" -> DataValue_decodeBinary(s, off, h)
      [] OTHER -> UA_decodeBinaryNoInit(s, off, h, t)
=============================================================================
