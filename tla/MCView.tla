------------------------------- MODULE MCView -------------------------------
(* View on a folder with three references over three reference types, one of which is a
   subtype of a subtype *)
EXTENDS View

Ref(type, target) == [type |-> type, inverse |-> FALSE, target |-> target]
Inv(type, target) == [type |-> type, inverse |-> TRUE, target |-> target]
Node(class, name, refs) == [class |-> class, name |-> name, refs |-> refs]

MCNodeIds == {"folder", "a", "v", "Aggregates", "HasComponent", "Ordered"}
MCInitialNodes ==
    [n \in MCNodeIds |->
        CASE n = "folder" -> Node("ObjectType", "folder",
                 <<Ref("HasComponent", "a"), Ref("Ordered", "v"), Ref("HasComponent", "v")>>)
          [] n = "a" -> Node("Variable", "x", <<Inv("HasComponent", "folder"), Ref("HasComponent", "v")>>)
          [] n = "v" -> Node("View", "x", <<Inv("Ordered", "folder")>>)
          [] n = "Aggregates" -> Node("ReferenceType", "agg", <<Ref("HasSubtype", "HasComponent")>>)
          [] n = "HasComponent" -> Node("ReferenceType", "comp",
                 <<Inv("HasSubtype", "Aggregates"), Ref("HasSubtype", "Ordered")>>)
          [] n = "Ordered" -> Node("ReferenceType", "ord", <<Inv("HasSubtype", "HasComponent")>>)]

Descr(node, direction, type, subtypes, classes, mask) ==
    [node |-> node, direction |-> direction, type |-> type, subtypes |-> subtypes,
     classes |-> classes, mask |-> mask]

MCRequests ==
    LET all == Descr("folder", "forward", "Aggregates", TRUE, {}, {"ReferenceType", "TypeDefinition"})
        views == Descr("folder", "both", Null, FALSE, {"View"}, {"BrowseName", "IsForward"})
        sideways == Descr("a", "sideways", Null, FALSE, {}, {})
        methods == Descr("folder", "both", "Ordered", FALSE, {"Method"}, {})
    IN  {<<>>, <<all>>, <<views, all>>, <<sideways, methods>>}

Elem(type, inverse, subtypes, name) ==
    [type |-> type, inverse |-> inverse, subtypes |-> subtypes, name |-> name]
MCBrowsePaths ==
    {[start |-> "folder", elements |-> <<>>],
     [start |-> "folder", elements |-> <<Elem("Aggregates", FALSE, TRUE, "x")>>],
     [start |-> "folder", elements |-> <<Elem("HasComponent", FALSE, TRUE, "x"), Elem(Null, FALSE, FALSE, "x")>>],
     [start |-> "a", elements |-> <<Elem("HasComponent", FALSE, FALSE, "folder")>>],
     [start |-> "v", elements |-> <<Elem("Ordered", TRUE, FALSE, "folder"), Elem("HasComponent", FALSE, TRUE, "x")>>]}

MCNewReferences ==
    {[node |-> "folder", ref |-> Ref("HasComponent", "v")],
     [node |-> "Ordered", ref |-> Ref("HasSubtype", "HasComponent")]}

MCNextRequests == {<<>>, <<1>>, <<2>>, <<2, 1>>, <<1, 1>>}
=============================================================================
