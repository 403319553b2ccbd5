----------------------------- MODULE DataTypes -----------------------------
(***************************************************************************)
(* The values of ua_types.c and the memory they own: generic copying and   *)
(* deletion driven by type descriptions, the hand-written handling of      *)
(* NodeId, ExtensionObject, Variant and DataValue, and array ranges.       *)
(*                                                                         *)
(* A heap h is a record: mem maps the live blocks to their elements, left  *)
(* counts the allocations up to the one that fails (0: none fails), bad is *)
(* set by a free of something that is not a live block, undefined by an    *)
(* access outside of an array and by the free of a pointer that was never  *)
(* written: what comes after that is not looked at.  An operation that may *)
(* fail returns [ok, v, h]: whether it answers GOOD, the destination it    *)
(* leaves behind and the heap.                                             *)
(*                                                                         *)
(* A String or an array member is [len, ptr], a structure the sequence of  *)
(* its members; a pointer is NULL, the sentinel EMPTY or a block.          *)
(***************************************************************************)
EXTENDS Integers, Sequences, FiniteSets, SequencesExt, TLC

CONSTANTS
    Structs,    \* the structures of UA_TYPES: name -> [id, size, members]
    PointerFree \* those with fixedSize: no member is an array or owns memory

NULL == 0
EMPTY == -1

\* F of a value that is computed once
With(x, F(_)) == F(x)

\* FoldLeft of the community modules, in a form that TLC evaluates element by element: an
\* intermediate result is computed before the next element is looked at
InOrder(op(_, _), base, seq) ==
    LET upTo[i \in 0..Len(seq)] ==
            IF i = 0 THEN base
            ELSE CHOOSE r \in {op(before, seq[i]) : before \in {upTo[i - 1]}} : TRUE
    IN  upTo[Len(seq)]

----------------------------------------------------------------------------
(* Type descriptions                                                        *)

Numbers == {"Boolean", "Byte", "UInt16", "Int32", "UInt32", "Double", "DateTime", "StatusCode"}

FixedSize == [Boolean |-> 1, Byte |-> 1, UInt16 |-> 2, Int32 |-> 4, UInt32 |-> 4,
              Double |-> 8, DateTime |-> 8, StatusCode |-> 4]

Strings == {"String", "ByteString"}

\* typeIndex + 1, the number of a builtin type in the encoding of a variant
BuiltinId == [Boolean |-> 1, Byte |-> 3, UInt16 |-> 5, Int32 |-> 6, UInt32 |-> 7,
              Double |-> 11, String |-> 12, DateTime |-> 13, ByteString |-> 15,
              NodeId |-> 17, StatusCode |-> 19, QualifiedName |-> 20,
              LocalizedText |-> 21, ExtensionObject |-> 22, DataValue |-> 23,
              Variant |-> 24]

Plain(t) == [type |-> t, isArray |-> FALSE]
ArrayOf(t) == [type |-> t, isArray |-> TRUE]

Members(t) == IF t = "QualifiedName" THEN <<Plain("UInt16"), Plain("String")>>
              ELSE IF t = "LocalizedText" THEN <<Plain("String"), Plain("String")>>
              ELSE Structs[t].members

\* The members of a structure with their values
Parts(v, t) == [i \in DOMAIN v |-> [m |-> Members(t)[i], v |-> v[i]]]

fixedSize(t) == t \in Numbers \cup PointerFree

\* sizeof on a 64 bit machine
memSize(t) ==
    IF t \in Numbers THEN FixedSize[t]
    ELSE IF t \in DOMAIN BuiltinId
    THEN [String |-> 16, ByteString |-> 16, NodeId |-> 24, QualifiedName |-> 24, LocalizedText |-> 32,
          ExtensionObject |-> 48, DataValue |-> 96, Variant |-> 48][t]
    ELSE Structs[t].size

NoArray == [len |-> 0, ptr |-> NULL]
NoNodeId == [kind |-> "numeric", ns |-> 0, num |-> 0, str |-> NoArray]
NoVariant == [type |-> "none", storage |-> "data", len |-> 0, data |-> NULL, dims |-> NoArray]
NoDataValue == [has |-> {}, value |-> NoVariant,
                num |-> [status |-> 0, sourceTimestamp |-> 0, sourcePicoseconds |-> 0,
                         serverTimestamp |-> 0, serverPicoseconds |-> 0]]
NoExtensionObject == [encoding |-> "nobody", typeId |-> NoNodeId, body |-> NoArray,
                      type |-> "none", data |-> NULL]

RECURSIVE Zero(_)
\* UA_init: all bytes zero
Zero(t) ==
    CASE t \in Numbers -> 0
      [] t \in Strings -> NoArray
      [] t = "NodeId" -> NoNodeId
      [] t = "ExtensionObject" -> NoExtensionObject
      [] t = "Variant" -> NoVariant
      [] t = "DataValue" -> NoDataValue
      [] OTHER -> With(Members(t), LAMBDA ms :
                     [i \in DOMAIN ms |-> IF ms[i].isArray THEN NoArray ELSE Zero(ms[i].type)])

UA_Variant_isScalar(v) == v.len = 0 /\ v.data > 0

----------------------------------------------------------------------------
(* The heap                                                                 *)

Block(h) == CHOOSE p \in 1..(Cardinality(DOMAIN h.mem) + 1) :
               /\ p \notin DOMAIN h.mem
               /\ \A q \in 1..(p - 1) : q \in DOMAIN h.mem

\* A heap with these blocks
HeapOf(mem) == [mem |-> mem, left |-> 0, bad |-> FALSE, undefined |-> FALSE]

Undefined(h) == [h EXCEPT !.undefined = TRUE]

Put(h, p, elements) == [h EXCEPT !.mem = (p :> elements) @@ @]

\* malloc and calloc; v is the block or NULL
Alloc(h, elements) ==
    IF h.left = 1 THEN [ok |-> FALSE, v |-> NULL, h |-> [h EXCEPT !.left = 0]]
    ELSE [ok |-> TRUE, v |-> Block(h),
          h |-> Put([h EXCEPT !.left = IF @ = 0 THEN 0 ELSE @ - 1], Block(h), elements)]

\* free; the sentinel's bit is masked out by every caller, free(NULL) does nothing
Free(h, p) ==
    IF p \in {NULL, EMPTY} THEN h
    ELSE [h EXCEPT !.mem = [q \in DOMAIN h.mem \ {p} |-> h.mem[q]] @@ <<>>,
                   !.bad = @ \/ p \notin DOMAIN h.mem]

----------------------------------------------------------------------------
(* Deletion                                                                 *)

RECURSIVE UA_deleteMembers(_, _, _)

UA_Array_delete(h, p, size, t) ==
    LET elements == IF fixedSize(t) \/ size = 0 THEN <<>> ELSE SubSeq(h.mem[p], 1, size)
    IN  Free(InOrder(LAMBDA g, e : UA_deleteMembers(g, e, t), h, elements), p)

NodeId_deleteMembers(h, v) == IF v.kind = "string" THEN Free(h, v.str.ptr) ELSE h

ExtensionObject_deleteMembers(h, v) ==
    IF v.encoding # "decoded" THEN Free(NodeId_deleteMembers(h, v.typeId), v.body.ptr)
    ELSE IF v.data = NULL THEN h
    ELSE Free(UA_deleteMembers(h, h.mem[v.data][1], v.type), v.data)

\* Mutant of Variant_deletemembers: the dimensions stay behind
VariantDataDeleted(h, v) ==
    IF v.storage # "data" \/ v.data <= 0 THEN h
    ELSE UA_Array_delete(h, v.data, IF v.len = 0 THEN 1 ELSE v.len, v.type)

Variant_deletemembers(h, v) ==
    IF v.storage # "data" THEN h
    ELSE UA_Array_delete(IF v.data <= 0 THEN h
                         ELSE UA_Array_delete(h, v.data, IF v.len = 0 THEN 1 ELSE v.len, v.type),
                         v.dims.ptr, v.dims.len, "UInt32")

UA_deleteMembers(h, v, t) ==
    CASE fixedSize(t) -> h
      [] t \in Strings -> UA_Array_delete(h, v.ptr, v.len, "Byte")
      [] t = "NodeId" -> NodeId_deleteMembers(h, v)
      [] t = "ExtensionObject" -> ExtensionObject_deleteMembers(h, v)
      [] t = "Variant" -> Variant_deletemembers(h, v)
      [] t = "DataValue" -> UA_deleteMembers(h, v.value, "Variant")
      [] OTHER -> InOrder(LAMBDA g, x : IF x.m.isArray THEN UA_Array_delete(g, x.v.ptr, x.v.len, x.m.type)
                                        ELSE UA_deleteMembers(g, x.v, x.m.type),
                          h, Parts(v, t))

\* What a deletion leaves in the variant itself
ClearedVariant(v) ==
    IF v.storage # "data" THEN v
    ELSE [v EXCEPT !.len = IF v.data > 0 THEN 0 ELSE @, !.data = IF @ > 0 THEN NULL ELSE @,
                   !.dims = NoArray]

----------------------------------------------------------------------------
(* Copying                                                                  *)

Failed(v, h) == [ok |-> FALSE, v |-> v, h |-> h]
Good(v, h) == [ok |-> TRUE, v |-> v, h |-> h]

\* A further part; a part that could not be copied does not stop the later ones
WithPart(r, c) == [ok |-> r.ok /\ c.ok, v |-> Append(r.v, c.v), h |-> c.h]

RECURSIVE UA_copy(_, _, _)

UA_Array_copy(h, p, size, t) ==
    IF size = 0 THEN Good(IF p = NULL THEN NULL ELSE EMPTY, h)
    ELSE With(Alloc(h, IF fixedSize(t) THEN SubSeq(h.mem[p], 1, size) ELSE [i \in 1..size |-> Zero(t)]),
              LAMBDA a :
         IF ~a.ok \/ fixedSize(t) THEN a
         ELSE With(InOrder(LAMBDA r, e : WithPart(r, UA_copy(r.h, e, t)),
                           Good(<<>>, a.h), SubSeq(h.mem[p], 1, size)), LAMBDA c :
              IF c.ok THEN Good(a.v, Put(c.h, a.v, c.v))
              ELSE Failed(NULL, UA_Array_delete(Put(c.h, a.v, c.v), a.v, size, t))))

\* c is the copy of an array of len elements
ArrayCopied(len, c) == [ok |-> c.ok, v |-> [len |-> IF c.ok THEN len ELSE 0, ptr |-> c.v], h |-> c.h]

String_copy(h, v) == ArrayCopied(v.len, UA_Array_copy(h, v.ptr, v.len, "Byte"))

NodeId_copy(h, v) ==
    IF v.kind = "numeric" THEN Good(v, h)
    ELSE With(UA_copy(h, v.str, "String"), LAMBDA c :
              [ok |-> c.ok, v |-> [v EXCEPT !.str = c.v], h |-> c.h])

ExtensionObject_copy(h, v) ==
    IF v.encoding # "decoded"
    THEN With(UA_copy(h, v.typeId, "NodeId"), LAMBDA n :
         With(UA_copy(n.h, v.body, "ByteString"), LAMBDA b :
              [ok |-> n.ok /\ b.ok, v |-> [v EXCEPT !.typeId = n.v, !.body = b.v], h |-> b.h]))
    ELSE IF v.data = NULL THEN Failed(NoExtensionObject, h)
    ELSE With(UA_Array_copy(h, v.data, 1, v.type), LAMBDA c :
              [ok |-> c.ok, v |-> [v EXCEPT !.data = c.v], h |-> c.h])

Variant_copy(h, v) ==
    With(UA_Array_copy(h, v.data, IF UA_Variant_isScalar(v) THEN 1 ELSE v.len, v.type), LAMBDA c :
    IF ~c.ok THEN Failed(NoVariant, c.h)
    ELSE With([NoVariant EXCEPT !.type = v.type, !.len = v.len, !.data = c.v], LAMBDA w :
         With(ArrayCopied(v.dims.len, UA_Array_copy(c.h, v.dims.ptr, v.dims.len, "UInt32")), LAMBDA d :
         IF d.ok THEN Good([w EXCEPT !.dims = d.v], d.h)
         ELSE Failed(ClearedVariant(w), Variant_deletemembers(d.h, w)))))

DataValue_copy(h, v) ==
    With(UA_copy(h, v.value, "Variant"), LAMBDA c :
         [ok |-> c.ok, v |-> [v EXCEPT !.value = c.v], h |-> c.h])

\* An array member whose own copy succeeds after an earlier one has failed is recorded with
\* length 0
UA_copyNoInit(h, v, t) ==
    LET member(r, x) ==
            IF x.m.isArray
            THEN WithPart(r, ArrayCopied(IF r.ok THEN x.v.len ELSE 0,
                                         UA_Array_copy(r.h, x.v.ptr, x.v.len, x.m.type)))
            ELSE WithPart(r, UA_copy(r.h, x.v, x.m.type))
    IN  With(InOrder(member, Good(<<>>, h), Parts(v, t)), LAMBDA c :
             IF c.ok THEN c ELSE Failed(Zero(t), UA_deleteMembers(c.h, c.v, t)))

\* UA_copy enters a builtin type through its one member, so it deletes what a failed
\* copy left
UA_copy(h, v, t) ==
    IF fixedSize(t) THEN Good(v, h)
    ELSE IF t \notin DOMAIN BuiltinId \/ t \in {"QualifiedName", "LocalizedText"}
    THEN UA_copyNoInit(h, v, t)
    ELSE With(CASE t \in Strings -> String_copy(h, v)
                [] t = "NodeId" -> NodeId_copy(h, v)
                [] t = "ExtensionObject" -> ExtensionObject_copy(h, v)
                [] t = "Variant" -> Variant_copy(h, v)
                [] t = "DataValue" -> DataValue_copy(h, v), LAMBDA c :
              IF c.ok THEN c
              ELSE Failed(IF t = "Variant" THEN c.v ELSE Zero(t), UA_deleteMembers(c.h, c.v, t)))
============================================================================
