----------------------------- MODULE Attributes -----------------------------
(***************************************************************************)
(* Read and Write, from the bytes of the request to the bytes of the       *)
(* answer: processMSG decodes the request, the service works on the nodes, *)
(* the answer is encoded and request and answer are deleted.  This is the  *)
(* build without multithreading: nodes are edited in place.                *)
(*                                                                         *)
(* The value of a variable is a Variant; every other attribute lives in a  *)
(* block of its own, so that an answer can borrow it.                      *)
(***************************************************************************)
EXTENDS Encoding, Ranges

CONSTANTS
    InitialHeap,    \* the blocks of the initial nodes and of the type descriptions
    InitialNodes,   \* number -> [class, source, value, attr]; attr: member -> block
    TypeBlock,      \* type -> the block of its NodeId in UA_TYPES
    Clients,        \* requests as clients hold them: [type, mem, v]
    BufferSize,     \* the length of the send buffer
    FaultBound,     \* how many allocations fail in a behaviour
    BinEncoding,    \* the bytes of "DefaultBinary"
    AllocBound,     \* which allocation of a step may fail
    WriteBound      \* how many Write requests are served

VARIABLES
    h,          \* the heap
    nodes,
    request,    \* the request being served, or NoRequest
    response,   \* its answer, or NoResponse
    sent,       \* the message on its way or being served: [client, wire, bytes], or {}
    up,         \* the server has not crashed
    faults,     \* how many allocations have failed
    writes      \* how many Write requests have been received

vars == <<h, nodes, request, response, sent, up, faults, writes>>

BADNODEIDUNKNOWN == 5
BADATTRIBUTEIDINVALID == 6
BADNODECLASSINVALID == 7
BADTYPEMISMATCH == 8
BADWRITENOTSUPPORTED == 9
BADNODATA == 10
BADNOTHINGTODO == 11
BADTIMESTAMPSTORETURNINVALID == 12
BADMAXAGEINVALID == 13
BADDATAENCODINGINVALID == 14
CRASH == -1         \* no status: a NULL pointer is followed

NoRequest == [type |-> "none", v |-> <<>>]
NoResponse == [type |-> "none", v |-> <<>>]

----------------------------------------------------------------------------
(* Attributes                                                               *)

AllClasses == {"Object", "Variable", "Method", "ObjectType", "VariableType",
               "ReferenceType", "DataType", "View"}
Abstractable == {"ReferenceType", "ObjectType", "VariableType", "DataType"}
Valued == {"Variable", "VariableType"}

A(name, type, classes, writable) ==
    [name |-> name, type |-> type, classes |-> classes, writable |-> writable]

\* By attribute id.  Not writable: "no" answers BADWRITENOTSUPPORTED, "unknown" is not in
\* the switch of CopyAttributeIntoNode.
Attribute ==
    << A("NodeId", "NodeId", AllClasses, "no"), A("NodeClass", "Int32", AllClasses, "no"),
       A("BrowseName", "QualifiedName", AllClasses, "yes"),
       A("DisplayName", "LocalizedText", AllClasses, "yes"),
       A("Description", "LocalizedText", AllClasses, "yes"),
       A("WriteMask", "UInt32", AllClasses, "yes"), A("UserWriteMask", "UInt32", AllClasses, "yes"),
       A("IsAbstract", "Boolean", Abstractable, "yes"),
       A("Symmetric", "Boolean", {"ReferenceType"}, "yes"),
       A("InverseName", "LocalizedText", {"ReferenceType"}, "yes"),
       A("ContainsNoLoops", "Boolean", {"View"}, "yes"),
       A("EventNotifier", "Byte", {"View", "Object"}, "yes"),
       A("Value", "Variant", Valued, "yes"), A("DataType", "NodeId", Valued, "no"),
       A("ValueRank", "Int32", Valued, "unknown"), A("ArrayDimensions", "Int32", Valued, "unknown"),
       A("AccessLevel", "Byte", {"Variable"}, "yes"),
       A("UserAccessLevel", "Byte", {"Variable"}, "yes"),
       A("MinimumSamplingInterval", "Double", {"Variable"}, "yes"),
       A("Historizing", "Boolean", {"Variable"}, "yes"),
       A("Executable", "Boolean", {"Method"}, "yes"),
       A("UserExecutable", "Boolean", {"Method"}, "yes") >>

\* The member of the node's structure behind an attribute: IsAbstract is accessed through
\* UA_ReferenceTypeNode, where a VariableTypeNode has its valueRank
Member(node, name) == IF name = "IsAbstract" /\ node.class = "VariableType" THEN "ValueRank" ELSE name

----------------------------------------------------------------------------
(* Read                                                                     *)

Borrowed(t, p, len) == [NoVariant EXCEPT !.type = t, !.data = p, !.len = len, !.storage = "nodelete"]

\* A range that is given is parsed; v is its block
Parsed(g, indexRange) ==
    IF indexRange.len = 0 THEN Result(GOOD, NULL, g) ELSE parse_numericrange(g, indexRange)

\* What a data source of the application answers: a copy of its value, and no ranges
DataSourceRead(g, node, range) ==
    IF range # NULL THEN Result(BADINDEXRANGEINVALID, NoVariant, g)
    ELSE With(UA_copy(g, node.value, "Variant"), LAMBDA c :
              Result(IF c.ok THEN GOOD ELSE BADOUTOFMEMORY, c.v, c.h))

\* Mutant of getVariableNodeValue: the range is checked and not used
WholeValue(g, node, indexRange) ==
    With(Parsed(g, indexRange), LAMBDA p :
    IF p.status # GOOD THEN Result(p.status, NoVariant, p.h)
    ELSE IF node.source = "datasource" THEN DataSourceRead(Free(p.h, p.v), node, NULL)
    ELSE Result(GOOD, [node.value EXCEPT !.storage = "nodelete"], Free(p.h, p.v)))

getVariableNodeValue(g, node, indexRange) ==
    With(Parsed(g, indexRange), LAMBDA p :
    IF p.status # GOOD THEN Result(p.status, NoVariant, p.h)
    ELSE With(IF node.source = "datasource" THEN DataSourceRead(p.h, node, p.v)
              ELSE IF p.v = NULL THEN Result(GOOD, [node.value EXCEPT !.storage = "nodelete"], p.h)
              ELSE UA_Variant_copyRange(p.h, node.value, p.h.mem[p.v]), LAMBDA r :
              Result(r.status, r.v, Free(r.h, p.v))))

\* The data type and the dimensions are those of the value; from a data source they are
\* copied out of a reading r that is deleted again
CopiedOut(r, t, len, c) ==
    IF c.ok THEN Result(GOOD, [NoVariant EXCEPT !.type = t, !.data = c.v, !.len = len],
                        Variant_deletemembers(c.h, r.v))
    ELSE Result(BADOUTOFMEMORY, NoVariant, Variant_deletemembers(c.h, r.v))

getVariableNodeDataType(g, node) ==
    IF node.source = "datasource"
    THEN With(DataSourceRead(g, node, NULL), LAMBDA r :
         IF r.status # GOOD THEN r
         ELSE CopiedOut(r, "NodeId", 0, UA_Array_copy(r.h, TypeBlock[r.v.type], 1, "NodeId")))
    ELSE Result(GOOD, Borrowed("NodeId", IF node.value.type = "none" THEN NULL
                                         ELSE TypeBlock[node.value.type], 0), g)

getVariableNodeArrayDimensions(g, node) ==
    IF node.source = "datasource"
    THEN With(DataSourceRead(g, node, NULL), LAMBDA r :
         IF r.status # GOOD THEN r
         ELSE CopiedOut(r, "Int32", r.v.dims.len,
                        UA_Array_copy(r.h, r.v.dims.ptr, r.v.dims.len, "Int32")))
    ELSE Result(GOOD, Borrowed("Int32", node.value.dims.ptr, node.value.dims.len), g)

ReadAttribute(g, node, a, indexRange) ==
    IF node.class \notin a.classes THEN Result(BADATTRIBUTEIDINVALID, NoVariant, g)
    ELSE IF a.name = "Value" THEN getVariableNodeValue(g, node, indexRange)
    ELSE IF a.name = "DataType" THEN getVariableNodeDataType(g, node)
    ELSE IF a.name = "ArrayDimensions" THEN getVariableNodeArrayDimensions(g, node)
    ELSE Result(GOOD, Borrowed(a.type, node.attr[Member(node, a.name)], 0), g)

\* id is <<nodeId, attributeId, indexRange, dataEncoding>>
Service_Read_single(g, timestamps, id) ==
    LET node == nodes[id[1].num]
        refused(status) ==
            [v |-> [NoDataValue EXCEPT !.has = {"status"}, !.num.status = status], h |-> g]
        sourceStamp == IF id[2] = 13 /\ node.source = "variant" /\ timestamps \in {0, 2}
                       THEN {"sourceTimestamp"} ELSE {}
        serverStamp == IF timestamps \in {1, 2} THEN {"serverTimestamp"} ELSE {}
        answer(r) ==
            IF r.status # GOOD
            THEN [v |-> [NoDataValue EXCEPT !.has = {"status"} \cup serverStamp,
                                            !.num.status = r.status, !.value = r.v], h |-> r.h]
            ELSE [v |-> [NoDataValue EXCEPT !.has = {"value"} \cup sourceStamp \cup serverStamp,
                                            !.value = r.v], h |-> r.h]
    IN  IF id[4][2].len > 0 /\ g.mem[id[4][2].ptr] # BinEncoding THEN refused(BADDATAENCODINGINVALID)
        ELSE IF id[3].len > 0 /\ id[2] # 13 THEN refused(BADINDEXRANGENODATA)
        ELSE IF id[1].num \notin DOMAIN nodes THEN refused(BADNODEIDUNKNOWN)
        ELSE answer(IF id[2] \notin DOMAIN Attribute THEN Result(BADATTRIBUTEIDINVALID, NoVariant, g)
                    ELSE ReadAttribute(g, node, Attribute[id[2]], id[3]))

\* req is <<maxAge, timestampsToReturn, nodesToRead>>; v is <<serviceResult, results,
\* diagnosticInfos>>
Service_Read(g, req) ==
    LET ids == IF req[3].len = 0 THEN <<>> ELSE g.mem[req[3].ptr]
        answer(status, p, f) == [v |-> <<status, [len |-> IF p = NULL THEN 0 ELSE Len(ids), ptr |-> p],
                                         NoArray>>, h |-> f]
        next(r, x) == [v |-> Append(r.v, x.v), h |-> x.h]
    IN  IF ids = <<>> THEN answer(BADNOTHINGTODO, NULL, g)
        ELSE IF req[2] > 3 THEN answer(BADTIMESTAMPSTORETURNINVALID, NULL, g)
        ELSE With(Alloc(g, [i \in DOMAIN ids |-> NoDataValue]), LAMBDA a :
             IF ~a.ok THEN answer(BADOUTOFMEMORY, NULL, a.h)
             ELSE IF req[1] < 0 THEN answer(BADMAXAGEINVALID, a.v, a.h)
             ELSE With(InOrder(LAMBDA r, id : next(r, Service_Read_single(r.h, req[2], id)),
                               [v |-> <<>>, h |-> a.h], ids), LAMBDA r :
                       answer(GOOD, a.v, Put(r.h, a.v, r.v))))

----------------------------------------------------------------------------
(* Write; a WriteValue is <<nodeId, attributeId, indexRange, value>>        *)

typeEquivalence(t) ==
    LET class(members) == IF members \in {<<Plain("Int32")>>, <<ArrayOf("Int32")>>} THEN "enum"
                          ELSE IF members = <<ArrayOf("Byte")>> THEN "opaque" ELSE "none"
    IN  IF t = "Int32" THEN "enum" ELSE IF t \in Strings THEN "opaque"
        ELSE IF t \in DOMAIN BuiltinId THEN "none" ELSE class(Structs[t].members)

\* Mutant of CastTo: equivalence of types is not looked at
CastToSame(g, oldV, newV) == IF oldV.type = newV.type THEN newV ELSE NoVariant

\* newV as a variant of the type of oldV; type "none" if that cannot be done
CastTo(g, oldV, newV) ==
    LET str == g.mem[newV.data][1]
        equivalent(c, d) == c = d /\ c # "none"
    IN  IF oldV.type = newV.type THEN newV
        ELSE IF equivalent(typeEquivalence(oldV.type), typeEquivalence(newV.type)) THEN [newV EXCEPT !.type = oldV.type]
        ELSE IF oldV.type = "Byte" /\ ~UA_Variant_isScalar(oldV)
                  /\ newV.type = "ByteString" /\ UA_Variant_isScalar(newV)
        THEN [newV EXCEPT !.type = "Byte", !.len = str.len, !.data = str.ptr]
        ELSE NoVariant

\* A variable without a value has no type: following it is a crash.  Without a range the
\* old value is deleted first and the answer of the copy is dropped.
CopyValueIntoNode(g, node, wvalue) ==
    With(Parsed(g, wvalue[3]), LAMBDA p :
    IF p.status # GOOD THEN Result(p.status, node.value, p.h)
    ELSE IF node.value.type = "none" THEN Result(CRASH, node.value, p.h)
    ELSE With(CastTo(p.h, node.value, wvalue[4].value), LAMBDA newV :
         IF newV.type = "none" THEN Result(BADTYPEMISMATCH, node.value, Free(p.h, p.v))
         ELSE IF p.v = NULL
         THEN With(UA_copy(Variant_deletemembers(p.h, node.value), newV, "Variant"), LAMBDA c :
                   Result(GOOD, c.v, c.h))
         ELSE With(UA_Variant_setRangeCopy(p.h, node.value, newV.data, newV.len, p.h.mem[p.v]), LAMBDA r :
                   Result(r.status, r.v, Free(r.h, p.v)))))

\* A data source of the application takes a copy of the value, and no ranges
Service_Write_single_ValueDataSource(g, node, wvalue) ==
    With(Parsed(g, wvalue[3]), LAMBDA p :
    IF p.status # GOOD THEN Result(p.status, node.value, p.h)
    ELSE IF p.v # NULL THEN Result(BADINDEXRANGEINVALID, node.value, Free(p.h, p.v))
    ELSE With(UA_copy(p.h, wvalue[4].value, "Variant"), LAMBDA c :
         IF c.ok THEN Result(GOOD, c.v, Variant_deletemembers(c.h, node.value))
         ELSE Result(BADOUTOFMEMORY, node.value, c.h)))

\* The old attribute in the block p is deleted, then the new one is copied over it
CopyScalarIntoNode(g, node, p, v, t) ==
    With(UA_copy(UA_deleteMembers(g, g.mem[p][1], t), g.mem[v.data][1], t), LAMBDA c :
         Result(IF c.ok THEN GOOD ELSE BADOUTOFMEMORY, node, Put(c.h, p, <<c.v>>)))

\* v is the node
CopyAttributeIntoNode(g, node, wvalue) ==
    LET v == wvalue[4].value
    IN  IF "value" \notin wvalue[4].has THEN Result(BADNODATA, node, g)
        ELSE IF wvalue[2] \notin DOMAIN Attribute THEN Result(BADATTRIBUTEIDINVALID, node, g)
        ELSE With(Attribute[wvalue[2]], LAMBDA a :
             IF a.writable = "no" THEN Result(BADWRITENOTSUPPORTED, node, g)
             ELSE IF a.writable = "unknown" THEN Result(BADATTRIBUTEIDINVALID, node, g)
             ELSE IF node.class \notin a.classes THEN Result(BADNODECLASSINVALID, node, g)
             ELSE IF a.name = "Value"
             THEN With(IF node.source = "variant" THEN CopyValueIntoNode(g, node, wvalue)
                       ELSE Service_Write_single_ValueDataSource(g, node, wvalue), LAMBDA r :
                       Result(r.status, [node EXCEPT !.value = r.v], r.h))
             ELSE IF v.type # a.type \/ ~UA_Variant_isScalar(v) THEN Result(BADTYPEMISMATCH, node, g)
             ELSE CopyScalarIntoNode(g, node, node.attr[Member(node, a.name)], v, a.type))

\* UA_Server_editNode with CopyAttributeIntoNode; v is the address space
Service_Write_single(g, ns, wvalue) ==
    LET n == wvalue[1].num
        edited(r) == Result(r.status, [ns EXCEPT ![n] = r.v], r.h)
    IN  IF n \notin DOMAIN ns THEN Result(BADNODEIDUNKNOWN, ns, g)
        ELSE edited(CopyAttributeIntoNode(g, ns[n], wvalue))

Service_Write(g, req) ==
    LET values == IF req[1].len = 0 THEN <<>> ELSE g.mem[req[1].ptr]
        answer(status, p, ns, f) == [v |-> <<status, [len |-> IF p = NULL THEN 0 ELSE Len(values), ptr |-> p],
                                             NoArray>>, nodes |-> ns, h |-> f]
        next(r, x) == [v |-> Append(r.v, x.status), nodes |-> x.v, h |-> x.h]
    IN  IF values = <<>> THEN answer(BADNOTHINGTODO, NULL, nodes, g)
        ELSE With(Alloc(g, [i \in DOMAIN values |-> GOOD]), LAMBDA a :
             IF ~a.ok THEN answer(BADOUTOFMEMORY, NULL, nodes, a.h)
             ELSE With(InOrder(LAMBDA r, w : next(r, Service_Write_single(r.h, r.nodes, w)),
                               [v |-> <<>>, nodes |-> nodes, h |-> a.h], values), LAMBDA r :
                       answer(GOOD, a.v, r.nodes, Put(r.h, a.v, r.v))))

----------------------------------------------------------------------------
(* processMSG                                                               *)

\* The bytes of a request
Wire(c) == encodeBinary(Buffer(10000), [mem |-> c.mem], c.v, c.type).out

Init == /\ h = HeapOf(InitialHeap)
        /\ nodes = InitialNodes
        /\ request = NoRequest
        /\ response = NoResponse
        /\ sent = {}
        /\ up = TRUE
        /\ faults = 0
        /\ writes = 0

\* The heap of a step whose fail-th allocation fails, and what it leaves
Failing(fail) == [h EXCEPT !.left = fail]
Faulty(fail, g) == /\ fail > 0 => faults < FaultBound /\ g.left = 0
                   /\ faults' = faults + (IF fail > 0 THEN 1 ELSE 0)

\* The server goes on
Alive == up /\ ~h.undefined

\* A client encodes and sends a request
Send(c) == /\ Alive /\ request = NoRequest /\ sent = {}
           /\ c.type = "WriteRequest" => writes < WriteBound
           /\ sent' = {[client |-> c, wire |-> Wire(c), bytes |-> 0]}
           /\ UNCHANGED <<h, nodes, request, response, up, faults, writes>>

\* The first bytes of it are decoded.  Decoding does not depend on the nodes, so incomplete
\* messages and failing allocations are tried before the first Write only.
Receive(bytes, fail) ==
    /\ Alive /\ request = NoRequest
    /\ \E s \in sent :
         /\ bytes < Len(s.wire) \/ fail > 0 => writes = 0
         /\ \E d \in {decodeBinary(SubSeq(s.wire, 1, bytes), 0, Failing(fail), s.client.type)} :
              /\ Faulty(fail, d.h)
              /\ h' = d.h
              /\ request' = IF d.ok THEN [type |-> s.client.type, v |-> d.v] ELSE NoRequest
              /\ sent' = IF d.ok \/ d.h.undefined THEN {[s EXCEPT !.bytes = bytes]} ELSE {}
              /\ writes' = writes + (IF d.ok /\ s.client.type = "WriteRequest" THEN 1 ELSE 0)
    /\ UNCHANGED <<nodes, response, up>>

ServeRead(fail) ==
    /\ Alive /\ request.type = "ReadRequest" /\ response = NoResponse
    /\ \E r \in {Service_Read(Failing(fail), request.v)} :
         /\ Faulty(fail, r.h)
         /\ IF r.h.undefined
            THEN h' = Undefined(h) /\ UNCHANGED response
            ELSE h' = r.h /\ response' = [type |-> "ReadResponse", v |-> r.v]
    /\ UNCHANGED <<nodes, request, sent, up, writes>>

\* One of the items followed a NULL pointer
Crashes(r) == r.v[1] = GOOD /\ CRASH \in Range(r.h.mem[r.v[2].ptr])

ServeWrite(fail) ==
    /\ Alive /\ request.type = "WriteRequest" /\ response = NoResponse
    /\ \E r \in {Service_Write(Failing(fail), request.v)} :
         /\ Faulty(fail, r.h)
         /\ IF r.h.undefined THEN h' = Undefined(h) /\ UNCHANGED <<nodes, response, up>>
            ELSE IF Crashes(r) THEN up' = FALSE /\ UNCHANGED <<h, nodes, response>>
            ELSE /\ h' = r.h
                 /\ nodes' = r.nodes
                 /\ response' = [type |-> "WriteResponse", v |-> r.v]
                 /\ UNCHANGED up
    /\ UNCHANGED <<request, sent, writes>>

\* The answer, or a fault if it cannot be encoded, is sent; request and answer are deleted
Answer == /\ Alive /\ response # NoResponse
          /\ h' = UA_deleteMembers(UA_deleteMembers(h, request.v, request.type),
                                   response.v, response.type)
          /\ request' = NoRequest
          /\ response' = NoResponse
          /\ sent' = {}
          /\ UNCHANGED <<nodes, up, faults, writes>>

Next == \/ \E c \in Clients : Send(c)
        \/ \E s \in sent : \E bytes \in 0..Len(s.wire), fail \in 0..AllocBound : Receive(bytes, fail)
        \/ \E fail \in 0..AllocBound : ServeRead(fail) \/ ServeWrite(fail)
        \/ Answer

Spec == Init /\ [][Next]_vars

----------------------------------------------------------------------------
(* Memory                                                                   *)

RECURSIVE Owned(_, _, _)

OwnedArray(g, p, len, t) ==
    IF p <= 0 THEN <<>>
    ELSE <<p>> \o (IF fixedSize(t) \/ p \notin DOMAIN g.mem THEN <<>>
                   ELSE FlattenSeq([i \in 1..len |-> Owned(g, g.mem[p][i], t)]))

\* The blocks that belong to a value, one entry for each pointer to them
Owned(g, v, t) ==
    LET part(x) == IF x.m.isArray THEN OwnedArray(g, x.v.ptr, x.v.len, x.m.type)
                   ELSE Owned(g, x.v, x.m.type)
    IN
    CASE fixedSize(t) -> <<>>
      [] t \in Strings -> OwnedArray(g, v.ptr, v.len, "Byte")
      [] t = "NodeId" -> OwnedArray(g, v.str.ptr, v.str.len, "Byte")
      [] t = "ExtensionObject" -> OwnedArray(g, v.typeId.str.ptr, 1, "Byte")
                                    \o OwnedArray(g, v.body.ptr, 1, "Byte")
                                    \o OwnedArray(g, v.data, 1, v.type)
      [] t = "Variant" -> IF v.storage # "data" THEN <<>>
                          ELSE OwnedArray(g, v.data, IF v.len = 0 THEN 1 ELSE v.len, v.type)
                                 \o OwnedArray(g, v.dims.ptr, v.dims.len, "UInt32")
      [] t = "DataValue" -> Owned(g, v.value, "Variant")
      [] OTHER -> FlattenSeq([i \in DOMAIN v |->
                     part(Parts(v, t)[i])])

MemberType(m) == (CHOOSE a \in Range(Attribute) : a.name = m).type

OwnedByNode(node) ==
    LET members == SetToSeq(DOMAIN node.attr)
    IN  Owned(h, node.value, "Variant")
          \o FlattenSeq([i \in DOMAIN members |->
                           OwnedArray(h, node.attr[members[i]], 1, MemberType(members[i]))])

OwnedByMessage(m) == IF m.type = "none" THEN <<>> ELSE Owned(h, m.v, m.type)

Owners ==
    LET numbers == SetToSeq(DOMAIN nodes)
    IN  FlattenSeq([i \in DOMAIN numbers |-> OwnedByNode(nodes[numbers[i]])])
          \o OwnedByMessage(request) \o OwnedByMessage(response)

Permanent == Range(TypeBlock)

----------------------------------------------------------------------------
(* Values without their memory                                              *)

RECURSIVE Tree(_, _, _)

\* {} is a null array, otherwise the set of the one sequence
TreeOfArray(g, p, len, t) ==
    IF p = NULL THEN {} ELSE {[i \in 1..len |-> Tree(g, g.mem[p][i], t)]}

Tree(g, v, t) ==
    LET part(x) == IF x.m.isArray THEN TreeOfArray(g, x.v.ptr, x.v.len, x.m.type)
                   ELSE Tree(g, x.v, x.m.type)
    IN
    CASE t \in Numbers -> v
      [] t \in Strings -> TreeOfArray(g, v.ptr, v.len, "Byte")
      [] t = "NodeId" -> [v EXCEPT !.str = TreeOfArray(g, v.str.ptr, v.str.len, "Byte")]
      [] t = "ExtensionObject" ->
           [encoding |-> v.encoding, typeId |-> v.typeId.num, type |-> v.type,
            body |-> TreeOfArray(g, v.body.ptr, v.body.len, "Byte"),
            data |-> TreeOfArray(g, v.data, 1, v.type)]
      [] t = "Variant" ->
           [type |-> v.type, scalar |-> UA_Variant_isScalar(v),
            data |-> TreeOfArray(g, v.data, IF UA_Variant_isScalar(v) THEN 1 ELSE v.len, v.type),
            dims |-> TreeOfArray(g, v.dims.ptr, v.dims.len, "UInt32")]
      [] t = "DataValue" -> [v EXCEPT !.value = Tree(g, v.value, "Variant")]
      [] OTHER -> [i \in DOMAIN v |-> part(Parts(v, t)[i])]

Map(f(_), array) == {[i \in DOMAIN x |-> f(x[i])] : x \in array}

RECURSIVE Transferred(_, _)

\* What becomes of a value on the wire: a structure in a variant arrives as a decoded
\* ExtensionObject, and the type id of an undecoded one loses the offset of its encoding
Transferred(x, t) ==
    LET part(p) == IF p.m.isArray THEN Map(LAMBDA y : Transferred(y, p.m.type), p.v)
                   ELSE Transferred(p.v, p.m.type)
    IN
    CASE t = "Variant" ->
           IF x.type \in DOMAIN BuiltinId
           THEN [x EXCEPT !.data = Map(LAMBDA y : Transferred(y, x.type), @)]
           ELSE [x EXCEPT !.type = "ExtensionObject",
                          !.data = Map(LAMBDA y : [encoding |-> "decoded", typeId |-> 0, type |-> x.type,
                                                   body |-> {}, data |-> {<<Transferred(y, x.type)>>}], @)]
      [] t = "ExtensionObject" ->
           IF x.encoding = "bytes" THEN [x EXCEPT !.typeId = @ - ENCODINGOFFSET_BINARY]
           ELSE [x EXCEPT !.data = Map(LAMBDA y : Transferred(y, x.type), @)]
      [] t = "DataValue" -> [x EXCEPT !.value = IF "value" \in x.has THEN Transferred(@, "Variant")
                                               ELSE Tree(h, NoVariant, "Variant")]
      [] t \in DOMAIN BuiltinId \ {"Variant", "ExtensionObject", "DataValue"} -> x
      [] OTHER -> [i \in DOMAIN x |-> part(Parts(x, t)[i])]

(***************************************************************************)
(* A request that is accepted was received whole and has the value the     *)
(* client sent; no proper prefix of a request is accepted (UA_decodeBinary,*)
(* whose parts go on decoding after one of them has failed).  What is sent *)
(* as an answer decodes, at the client, to the answer the service made --  *)
(* but for a Read refused for its maxAge: its results are empty DataValues,*)
(* which Array_decodeBinary's estimate of their length refuses.            *)
(***************************************************************************)
Transfers ==
    /\ \A s \in sent :
         request # NoRequest =>
         /\ s.bytes = Len(s.wire)
         /\ response = NoResponse =>
              Tree(h, request.v, request.type)
                = Transferred(Tree([mem |-> s.client.mem], s.client.v, s.client.type), s.client.type)
    /\ response # NoResponse /\ response.v[1] # BADMAXAGEINVALID =>
         \A e \in {encodeBinary(Buffer(BufferSize), h, response.v, response.type)} :
           e.ok =>
             \A d \in {decodeBinary(e.out, 0, HeapOf(<<>>), response.type)} :
               /\ d.ok /\ d.off = Len(e.out)
               /\ Tree(d.h, d.v, response.type)
                    = Transferred(Tree(h, response.v, response.type), response.type)

----------------------------------------------------------------------------
(* What Read and Write promise, over the values without their memory        *)

TheOne(array) == CHOOSE x \in array : TRUE

\* The dimensions an index range given as bytes stands for; <<>> if it is malformed
RangeOf(bytes) ==
    LET str == [len |-> Len(bytes), ptr |-> 1]
        p == parse_numericrange(HeapOf(<<bytes>>), str)
    IN  IF p.status = GOOD THEN p.h.mem[p.v] ELSE <<>>

DimsOf(x) == IF x.dims \notin {{}, {<<>>}} THEN TheOne(x.dims)
             ELSE <<IF x.data = {} THEN 0 ELSE Len(TheOne(x.data))>>

Fits(x, range) ==
    /\ x.data # {} /\ ~x.scalar
    /\ Product(DimsOf(x)) = Len(TheOne(x.data))
    /\ Len(range) = Len(DimsOf(x))
    /\ \A k \in DOMAIN range : range[k].min <= range[k].max /\ range[k].max < DimsOf(x)[k]

\* The positions, in row-major order, whose coordinates all lie in the range
Selected(x, range) ==
    LET dims == DimsOf(x)
        coordinate(p, k) == ((p - 1) \div Running(dims, k)) % dims[k]
    IN  SetToSortSeq({p \in 1..Product(dims) :
                        \A k \in DOMAIN dims : coordinate(p, k) \in range[k].min..range[k].max},
                     <)

Part(x, range) ==
    [x EXCEPT !.data = {[i \in DOMAIN Selected(x, range) |-> TheOne(x.data)[Selected(x, range)[i]]]},
              !.dims = IF x.dims \in {{}, {<<>>}} THEN {}
                       ELSE {[k \in DOMAIN range |-> Width(range[k])]}]

\* Every number in an index range is one of a UInt32.
Legible(bytes) ==
    \A i, j \in DOMAIN bytes : (\A k \in i..j : bytes[k] \in Digits) =>
        InOrder(LAMBDA n, c : n * 10 + (c - 48), 0, SubSeq(bytes, i, j)) < UINT32_RANGE

\* The elements of a range that fits lie in blocks that are equally far apart: the dimensions
\* in front of the last one that is not taken whole are single indices, then a range, then
\* whole.  If all are taken whole there is one element.
Regular(x, range) ==
    LET dims == DimsOf(x)
        whole(k) == Width(range[k]) = dims[k]
        partial == {k \in DOMAIN dims : ~whole(k)}
    IN  \/ x.dims \in {{}, {<<>>}} \/ Product(dims) = 1
        \/ /\ partial # {}
           /\ \E j \in 1..Max(partial) : /\ \A k \in 1..(j - 1) : Width(range[k]) = 1
                                         /\ \A k \in (j + 1)..(Max(partial) - 1) : whole(k)

\* The product of the dimensions of x is one of a UInt32.
Countable(x) == Product(DimsOf(x)) < UINT32_RANGE

\* The index range of an item of a request, if it has one, is what processRangeDefinition can
\* describe for the value x.
ExactFor(x, bytes) ==
    bytes # <<>> => /\ Legible(bytes) /\ Countable(x)
                    /\ Fits(x, RangeOf(bytes)) => Regular(x, RangeOf(bytes))

BytesOf(array) == IF array = {} THEN <<>> ELSE TheOne(array)

\* The ReadValueIds or WriteValues of the request, without their memory
Items == BytesOf(Tree(h, request.v, request.type)[IF request.type = "ReadRequest" THEN 3 ELSE 1])

Exact(item) ==
    item[1].num \in DOMAIN nodes => ExactFor(Tree(h, nodes[item[1].num].value, "Variant"), BytesOf(item[3]))

(***************************************************************************)
(* Every block is owned by exactly one pointer of a node, of the request   *)
(* or of the answer, whatever was truncated, refused or could not be       *)
(* allocated: nothing leaks, nothing is freed twice or used after it was   *)
(* freed.  A NULL pointer is followed only after an allocation has failed  *)
(* (CopyValueIntoNode drops the answer of UA_Variant_copy).  Undefined     *)
(* behaviour has two causes only: a message that ends in the type id of an *)
(* ExtensionObject (Variant_decodeBinary), and an index range that one     *)
(* stride does not describe (processRangeDefinition).                      *)
(***************************************************************************)
MemorySound ==
    /\ ~h.undefined =>
         /\ ~h.bad
         /\ \A owners \in {Owners} : /\ IsInjective(owners)
                                    /\ Range(owners) \cap Permanent = {}
                                    /\ Range(owners) \cup Permanent = DOMAIN h.mem
    /\ h.undefined => IF request = NoRequest THEN \A s \in sent : s.bytes < Len(s.wire)
                      ELSE \E i \in DOMAIN Items : ~Exact(Items[i])
    /\ ~up => faults > 0

\* y as a value of the type of x, {} if that is not possible
Converted(x, y) ==
    IF x.type = y.type THEN {y}
    ELSE IF \E c \in {"enum", "opaque"} : {typeEquivalence(t) : t \in {x.type, y.type}} = {c} THEN {[y EXCEPT !.type = x.type]}
    ELSE IF x.type = "Byte" /\ ~x.scalar /\ y.type = "ByteString" /\ y.scalar
    THEN {[y EXCEPT !.type = "Byte", !.scalar = FALSE, !.data = TheOne(@)[1]]}
    ELSE {}

Overwritten(x, range, y) ==
    LET places == Selected(x, range)
        new == TheOne(y.data)
    IN  [x EXCEPT !.data = {[p \in DOMAIN TheOne(x.data) |->
             IF p \in Range(places) THEN new[CHOOSE i \in DOMAIN places : places[i] = p]
             ELSE TheOne(x.data)[p]]}]

\* The values of a node: those a Write of y with an index range may leave, {} if it is refused
Written(n, x, bytes, y) ==
    LET fitting(range) == {z \in Converted(x, y) : /\ Fits(x, range) /\ ~z.scalar /\ z.data # {}
                                                   /\ Len(TheOne(z.data)) = Len(Selected(x, range))}
        replaced(range) == {Overwritten(x, range, z) : z \in fitting(range)}
    IN  IF nodes[n].source = "datasource" THEN IF bytes = <<>> THEN {y} ELSE {}
        ELSE IF bytes = <<>> THEN Converted(x, y)
        ELSE replaced(RangeOf(bytes))

\* The address space without its memory
Values(ns, g) == [n \in DOMAIN ns |->
    [value |-> Tree(g, ns[n].value, "Variant"),
     attr |-> [m \in DOMAIN ns[n].attr |-> Tree(g, g.mem[ns[n].attr[m]][1], MemberType(m))]]]

\* A write to the address space vs; "done" if it is accepted
AbstractWrite(vs, w) ==
    LET n == w[1].num
        y == w[4].value
        refused == [done |-> FALSE, vs |-> vs]
        valued(new) == IF new = {} THEN refused
                       ELSE [done |-> TRUE, vs |-> [vs EXCEPT ![n].value = TheOne(new)]]
        known(a) == IF a.writable # "yes" \/ nodes[n].class \notin a.classes THEN refused
                    ELSE IF a.name = "Value" THEN valued(Written(n, vs[n].value, BytesOf(w[3]), y))
                    ELSE IF y.type # a.type \/ ~y.scalar THEN refused
                    ELSE [done |-> TRUE,
                          vs |-> [vs EXCEPT ![n].attr[Member(nodes[n], a.name)] = TheOne(y.data)[1]]]
    IN  IF n \notin DOMAIN nodes \/ "value" \notin w[4].has \/ w[2] \notin DOMAIN Attribute THEN refused
        ELSE known(Attribute[w[2]])

(***************************************************************************)
(* Write does to the nodes, one after the other, what its WriteValues say: *)
(* a value without a range replaces the old one, with a range exactly the  *)
(* elements whose coordinates lie in the range are replaced, a refused one *)
(* changes nothing, and the result of each WriteValue says whether it was  *)
(* done.  Nothing else is touched by a request.  (Service_Write, as long   *)
(* as the step can allocate, for ranges that one stride describes: others, *)
(* see Regular, replace other elements, some of them outside the array.)   *)
(***************************************************************************)
WritesExactly ==
    [][LET step(r, w) ==
               With(AbstractWrite(r.vs, w), LAMBDA x :
                    [vs |-> x.vs, done |-> Append(r.done, x.done),
                     exact |-> r.exact /\ (w[1].num \in DOMAIN nodes =>
                                              ExactFor(r.vs[w[1].num].value, BytesOf(w[3])))])
           expected(r) == faults' = faults /\ r.exact =>
               /\ Values(nodes', h') = r.vs
               /\ LET results == BytesOf(Tree(h', response'.v, "WriteResponse")[2])
                  IN  r.done = [i \in DOMAIN results |-> results[i] = GOOD]
       IN  IF request.type = "WriteRequest" /\ response = NoResponse /\ response' # NoResponse
           THEN expected(InOrder(step, [vs |-> Values(nodes, h), done |-> <<>>, exact |-> TRUE], Items))
           ELSE Values(nodes', h') = Values(nodes, h)]_vars

Readable(id) ==
    LET node == nodes[id[1].num]
        range == RangeOf(BytesOf(id[3]))
    IN  /\ BytesOf(id[4][2]) \in {<<>>, BinEncoding}
        /\ id[1].num \in DOMAIN nodes
        /\ id[2] \in DOMAIN Attribute
        /\ node.class \in Attribute[id[2]].classes
        /\ id[3] \notin {{}, {<<>>}} => /\ id[2] = 13 /\ node.source = "variant"
                                        /\ Fits(Tree(h, node.value, "Variant"), range)

\* The value an attribute has
ValueOf(id) ==
    LET node == nodes[id[1].num]
        a == Attribute[id[2]]
        x == Tree(h, node.value, "Variant")
        scalar(t, y) == [type |-> t, scalar |-> TRUE, data |-> {<<y>>}, dims |-> {}]
    IN  CASE a.name = "Value" -> IF id[3] \in {{}, {<<>>}} THEN x ELSE Part(x, RangeOf(BytesOf(id[3])))
          [] a.name = "DataType" -> scalar("NodeId", Tree(h, h.mem[TypeBlock[x.type]][1], "NodeId"))
          [] a.name = "ArrayDimensions" -> [type |-> "Int32", scalar |-> FALSE, data |-> x.dims, dims |-> {}]
          [] OTHER -> scalar(a.type, Tree(h, h.mem[node.attr[Member(node, a.name)]][1], a.type))

\* The result of an item is the value that was asked for, or the item could not be read.
ReadRight(id, result) ==
    IF "value" \in result.has
    THEN Readable(id) /\ (faults = 0 => result.value = ValueOf(id))
    ELSE faults > 0 \/ ~Readable(id)

ReadResults == TheOne(Tree(h, response.v, response.type)[2])
ReadDone == response.type = "ReadResponse" /\ response.v[1] = GOOD

(***************************************************************************)
(* Read answers, for each item, the value of the attribute, or exactly the *)
(* elements whose coordinates lie in the index range; an item is refused   *)
(* only if the node, the attribute or the range does not exist, or memory  *)
(* has run out (Service_Read, UA_Variant_copyRange).  It holds for ranges  *)
(* that one stride describes (Regular): all that leave something out of an *)
(* array with two dimensions, some of those with three, and none that take *)
(* all of an array whose dimensions are given.                             *)
(***************************************************************************)
ReadsExactly == ReadDone => \A i \in DOMAIN Items : Exact(Items[i]) => ReadRight(Items[i], ReadResults[i])

\* Read answers with the elements of any index range, "how big is each contiguous block of
\* elements in the variant that maps into the range" (ua_types.c:328), and with no others.
BlocksFound ==
    /\ h.undefined => request = NoRequest
    /\ ReadDone => \A i \in DOMAIN Items : ReadRight(Items[i], ReadResults[i])

\* What is encoded stays in the buffer: "offset + length > dst->length" is tested for every part
\* (String_encodeBinary tests it before the length is written).
AnswersInBuffer ==
    response # NoResponse => ~encodeBinary(Buffer(BufferSize), h, response.v, response.type).over

\* The identifier that is freed when decoding fails has been written (ua_types_encoding_binary.c:613).
FreedWasWritten == ~(h.undefined /\ request = NoRequest)
=============================================================================
