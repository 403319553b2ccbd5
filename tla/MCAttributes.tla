---------------------------- MODULE MCAttributes ----------------------------
(***************************************************************************)
(* Six nodes: a matrix of numbers, an array of strings, a variable type    *)
(* with an array of bytes, a data source, an ExtensionObject, and a cube   *)
(* of bytes.                                                               *)
(***************************************************************************)
EXTENDS Attributes

S(id, size, members) == [id |-> id, size |-> size, members |-> members]

\* The headers are left out but for the serviceResult; the diagnosticInfos stay empty
MCStructs ==
    [Pair |-> S(300, 8, <<Plain("UInt32"), Plain("UInt32")>>),
     Note |-> S(310, 24, <<Plain("UInt32"), Plain("String")>>),
     ReadValueId |-> S(626, 72, <<Plain("NodeId"), Plain("UInt32"), Plain("String"), Plain("QualifiedName")>>),
     ReadRequest |-> S(629, 32, <<Plain("Double"), Plain("UInt32"), ArrayOf("ReadValueId")>>),
     ReadResponse |-> S(632, 40, <<Plain("StatusCode"), ArrayOf("DataValue"), ArrayOf("Byte")>>),
     WriteValue |-> S(668, 144, <<Plain("NodeId"), Plain("UInt32"), Plain("String"), Plain("DataValue")>>),
     WriteRequest |-> S(671, 16, <<ArrayOf("WriteValue")>>),
     WriteResponse |-> S(674, 40, <<Plain("StatusCode"), ArrayOf("StatusCode"), ArrayOf("Byte")>>)]

Arr(len, p) == [len |-> len, ptr |-> p]
ScalarOf(t, p) == [NoVariant EXCEPT !.type = t, !.data = p]
VectorOf(t, len, p) == [ScalarOf(t, p) EXCEPT !.len = len]
MatrixOf(t, len, p, n, q) == [VectorOf(t, len, p) EXCEPT !.dims = Arr(n, q)]
Text(p) == <<NoArray, Arr(1, p)>>
NoteAt(p) == [NoExtensionObject EXCEPT !.encoding = "decoded", !.type = "Note", !.data = p]

MCTypeBlock == 
    [UInt32 |-> 1, String |-> 2, Byte |-> 3, ExtensionObject |-> 4, LocalizedText |-> 5, NodeId |-> 20]

MCInitialHeap ==
    << <<Numeric(7)>>, <<Numeric(12)>>, <<Numeric(3)>>, <<Numeric(22)>>, <<Numeric(21)>>,
       <<1, 2, 3, 4>>, <<2, 2>>, <<Text(9)>>, <<65>>,
       <<Arr(1, 11), Arr(1, 12)>>, <<65>>, <<66>>,
       <<1, 2>>, <<1>>,
       <<Text(16)>>, <<67>>,
       <<NoteAt(18)>>, << <<5, Arr(1, 19)>> >>, <<68>>, <<Numeric(17)>>,
       <<1, 2, 3, 4, 5, 6, 7, 8>>, <<2, 2, 2>> >>

Node(class, source, value, attr) ==
    [class |-> class, source |-> source, value |-> value, attr |-> attr]

MCInitialNodes ==
    << Node("Variable", "variant", MatrixOf("UInt32", 4, 6, 2, 7), [DisplayName |-> 8]),
       Node("Variable", "variant", VectorOf("String", 2, 10), <<>>),
       Node("VariableType", "variant", VectorOf("Byte", 2, 13), [ValueRank |-> 14]),
       Node("Variable", "datasource", ScalarOf("LocalizedText", 15), <<>>),
       Node("Variable", "variant", ScalarOf("ExtensionObject", 17), <<>>),
       Node("Variable", "variant", MatrixOf("Byte", 8, 21, 3, 22), <<>>) >>

----------------------------------------------------------------------------
(* Requests                                                                 *)

Valued_(variant) == [NoDataValue EXCEPT !.has = {"value"}, !.value = variant]

\* The client's blocks are the array of items, then those the items refer to
WriteOf(items, blocks) ==
    [type |-> "WriteRequest", mem |-> <<items>> \o blocks, v |-> <<Arr(Len(items), 1)>>]
ReadOf(stamps, items, blocks) ==
    [type |-> "ReadRequest", mem |-> <<items>> \o blocks, v |-> <<0, stamps, Arr(Len(items), 1)>>]

W(n, a, range, variant) == <<Numeric(n), a, range, Valued_(variant)>>
R(n, a, range) == <<Numeric(n), a, range, Zero("QualifiedName")>>
V == 13     \* the attribute id of Value

\* "0:1,1"  "1,0:1"  "1"  "0,2"  "1:0,0"  "1:", of the matrix "0,0" and "0:1,0:1", of the cube
\* "1,0:1,0", "0:1,0:1,1", "0:1,1,0:1" and "0:1,0,0" (the last one is not regular), and "1025",
\* which is no UInt32
Column == <<48, 58, 49, 44, 49>>
Row == <<49, 44, 48, 58, 49>>
Second == <<49>>
Outside == <<48, 44, 50>>
Backwards == <<49, 58, 48, 44, 48>>
Malformed == <<49, 58>>
Corner == <<48, 44, 48>>
Whole == <<48, 58, 49, 44, 48, 58, 49>>
Edge == <<49, 44, 48, 58, 49, 44, 48>>
Face == <<48, 58, 49, 44, 48, 58, 49, 44, 49>>
Slab == <<48, 58, 49, 44, 49, 44, 48, 58, 49>>
Depth == <<48, 58, 49, 44, 48, 44, 48>>
Wide == <<49, 48, 50, 53>>

Named == [NoExtensionObject EXCEPT !.typeId = [NoNodeId EXCEPT !.kind = "string", !.str = Arr(1, 3)]]
Unknown == [NoExtensionObject EXCEPT !.encoding = "bytes", !.typeId = Numeric(900), !.body = Arr(2, 3)]

Writes ==
    { WriteOf(<<W(1, V, NoArray, MatrixOf("UInt32", 4, 2, 2, 3))>>, << <<5, 6, 7, 8>>, <<2, 2>> >>),
      WriteOf(<<W(1, V, Arr(5, 2), VectorOf("UInt32", 2, 3)), W(9, V, NoArray, ScalarOf("UInt32", 4)),
                W(1, 4, NoArray, ScalarOf("LocalizedText", 5))>>,
              <<Column, <<8, 9>>, <<7>>, <<Text(6)>>, <<70>> >>),
      WriteOf(<<W(1, V, Arr(3, 2), VectorOf("UInt32", 1, 3))>>, <<Outside, <<8>> >>),
      WriteOf(<<W(1, V, Arr(7, 2), VectorOf("UInt32", 4, 3))>>, <<Whole, <<5, 6, 7, 8>> >>),
      WriteOf(<<W(1, V, NoArray, MatrixOf("UInt32", 0, EMPTY, 2, 2))>>, << <<32, 32>> >>),
      WriteOf(<<W(6, V, Arr(7, 2), VectorOf("Byte", 2, 3)), W(6, V, Arr(9, 4), VectorOf("Byte", 4, 5))>>,
              <<Edge, <<31, 32>>, Face, <<41, 42, 43, 44>> >>),
      WriteOf(<<W(6, V, Arr(7, 2), VectorOf("Byte", 2, 3))>>, <<Depth, <<51, 52>> >>),
      WriteOf(<<W(5, V, NoArray, ScalarOf("ExtensionObject", 2))>>, << <<Named>>, <<73>> >>),
      WriteOf(<<W(2, V, Arr(1, 2), VectorOf("String", 1, 3))>>, <<Second, <<Arr(2, 4)>>, <<67, 68>> >>),
      WriteOf(<<W(2, V, NoArray, VectorOf("String", 3, 2)), W(2, V, Arr(2, 3), VectorOf("String", 3, 2))>>,
              << <<NoArray, Arr(0, EMPTY), Arr(1, 4)>>, Malformed, <<69>> >>),
      WriteOf(<<W(3, V, NoArray, ScalarOf("ByteString", 2)), W(3, 8, NoArray, ScalarOf("Boolean", 4)),
                W(2, V, NoArray, ScalarOf("ByteString", 2))>>,
              << <<Arr(2, 3)>>, <<9, 8>>, <<0>> >>),
      WriteOf(<<W(4, V, NoArray, ScalarOf("NodeId", 2))>>,
              << <<[NoNodeId EXCEPT !.kind = "string", !.ns = 1, !.str = Arr(1, 3)]>>, <<71>> >>),
      WriteOf(<<W(5, V, NoArray, ScalarOf("ExtensionObject", 2)), W(4, V, Arr(1, 4), ScalarOf("UInt32", 5))>>,
              << <<Unknown>>, <<1, 2>>, Second, <<1>> >>),
      WriteOf(<<W(5, V, NoArray, VectorOf("Note", 2, 2))>>,
              << << <<1, Arr(1, 3)>>, <<2, NoArray>> >>, <<72>> >>),
      WriteOf(<<W(1, 1, NoArray, ScalarOf("UInt32", 2)), W(1, 16, NoArray, ScalarOf("UInt32", 2)),
                W(1, 4, NoArray, ScalarOf("UInt32", 2)), W(1, 9, NoArray, ScalarOf("UInt32", 2)),
                <<Numeric(1), V, NoArray, NoDataValue>>, W(1, 30, NoArray, ScalarOf("UInt32", 2))>>,
              << <<1>> >>),
      [type |-> "WriteRequest", mem |-> <<>>, v |-> <<NoArray>>] }

Reads ==
    { ReadOf(2, <<R(1, V, NoArray), R(1, 4, NoArray), R(1, 14, NoArray), R(1, 16, NoArray), R(3, 8, NoArray)>>, <<>>),
      ReadOf(3, <<R(4, V, NoArray), R(4, 14, NoArray), R(4, 16, NoArray), R(5, V, NoArray)>>, <<>>),
      ReadOf(0, <<R(1, V, Arr(5, 2)), R(1, V, Arr(5, 3)), R(2, V, Arr(1, 4)), R(4, V, Arr(1, 4))>>,
             <<Column, Row, Second>>),
      ReadOf(3, <<R(6, V, Arr(7, 2)), R(6, V, Arr(9, 3)), R(6, V, Arr(9, 4)), R(6, V, Arr(7, 5)),
                  R(2, V, Arr(4, 6))>>,
             <<Edge, Face, Slab, Depth, Wide>>),
      ReadOf(3, <<R(1, V, Arr(3, 2))>>, <<Corner>>),
      ReadOf(3, <<R(1, V, Arr(7, 2))>>, <<Whole>>),
      ReadOf(1, <<R(1, V, Arr(3, 2)), R(1, V, Arr(5, 3)), R(2, V, Arr(2, 4)), R(1, 4, Arr(1, 5)),
                  R(9, V, NoArray), R(1, 21, NoArray), R(1, 30, NoArray),
                  <<Numeric(2), V, NoArray, <<0, Arr(2, 6)>> >>, <<Numeric(2), V, NoArray, <<0, Arr(1, 7)>> >> >>,
             <<Outside, Backwards, Malformed, Second, <<68, 66>>, <<88>> >>),
      [type |-> "ReadRequest", mem |-> <<>>, v |-> <<0, 0, NoArray>>],
      [ReadOf(4, <<R(1, V, NoArray)>>, <<>>) EXCEPT !.v[1] = 0],
      [ReadOf(0, <<R(1, V, NoArray), R(1, 4, NoArray), R(2, V, NoArray)>>, <<>>) EXCEPT !.v[1] = -1] }

MCBinEncoding == <<68, 66>>

MCClients == Writes \cup Reads

\* All of the matrix
WholeRead == {ReadOf(3, <<R(1, V, Arr(7, 2))>>, <<Whole>>)}
=============================================================================
