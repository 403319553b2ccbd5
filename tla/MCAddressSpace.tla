---------------------------- MODULE MCAddressSpace ----------------------------
(* Small instances of AddressSpace. *)
EXTENDS AddressSpace

Obj(refs) == [NewNode("object", "v", "own") EXCEPT !.refs = refs]
Var(refs) == [NewNode("variable", "v", "own") EXCEPT !.refs = refs]

\* A folder 1; an object type 2 with the variable 3, the method 4 and a constructor; and a
\* variable type 5 with the property 6, which is the type of the variable 3.
Startup ==
    << Obj(<<Ref("Organizes", 2, FALSE), Ref("Organizes", 3, FALSE)>>),
       [NewNode("objecttype", "v", "own") EXCEPT
           !.refs = <<Ref("Organizes", 1, TRUE), Ref("HasComponent", 3, FALSE), Ref("HasComponent", 4, FALSE)>>,
           !.constructor = TRUE],
       Var(<<Ref("HasComponent", 2, TRUE), Ref("Organizes", 1, TRUE), Ref("HasTypeDefinition", 5, FALSE)>>),
       [NewNode("method", "v", "own") EXCEPT !.refs = <<Ref("HasComponent", 2, TRUE)>>],
       [NewNode("variabletype", "v", "own") EXCEPT
           !.refs = <<Ref("HasTypeDefinition", 3, TRUE), Ref("HasProperty", 6, FALSE)>>],
       Var(<<Ref("HasProperty", 5, TRUE)>>) >>

AddNodes(n, class, parent, type, def) ==
    [service |-> "AddNodes", node |-> n, class |-> class, value |-> "v", parent |-> parent, type |-> type, def |-> def]
AddReferences(n, ref) == [service |-> "AddReferences", node |-> n, ref |-> ref]
DeleteReferences(n, ref, both) == [service |-> "DeleteReferences", node |-> n, ref |-> ref, both |-> both]
DeleteNodes(n, references) == [service |-> "DeleteNodes", node |-> n, references |-> references]
WriteValue(n, value) == [service |-> "Write", node |-> n, value |-> value]

\* An object of type 2 while its type and its members change; two such objects; and a
\* variable whose type definition is not a type, an object without one, and a deleted node;
\* and references to nodes that do not exist, or do not exist yet.
Mixed ==
    { { AddNodes(12, "object", 1, "Organizes", 2),
        AddReferences(2, Ref("Organizes", 4, FALSE)),
        DeleteReferences(1, Ref("Organizes", 3, FALSE), TRUE),
        WriteValue(3, "w") },
      { AddNodes(NullId, "object", 1, "Organizes", 2),
        AddNodes(12, "object", 1, "Organizes", 2) },
      { AddNodes(11, "variable", 1, "HasComponent", 4),
        AddNodes(11, "object", 1, "Organizes", NullId),
        AddNodes(10, "object", 1, "Null", NullId),
        DeleteNodes(6, TRUE),
        DeleteNodes(9, FALSE),
        AddNodes(NullId, "variable", 6, "HasProperty", 5) },
      { AddNodes(12, "object", 1, "Organizes", NullId),
        AddReferences(1, Ref("Organizes", 12, FALSE)),
        AddReferences(12, Ref("Organizes", 13, FALSE)),
        AddReferences(13, Ref("Organizes", 1, FALSE)),
        WriteValue(5, "w") } }

=============================================================================
