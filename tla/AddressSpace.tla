----------------------------- MODULE AddressSpace -----------------------------
(***************************************************************************)
(* Editing the address space: the services AddNodes, AddReferences,        *)
(* DeleteReferences, DeleteNodes and Write (ua_services_nodemanagement.c,  *)
(* ua_services_attribute.c) over a nodestore.                              *)
(*                                                                         *)
(* Every change of a stored node goes through UA_Server_editNode.  Without *)
(* multithreading the node is changed in place.  With multithreading the   *)
(* worker copies the node, changes the copy and puts it into the nodestore *)
(* (ua_nodestore_concurrent.c) if the node is still the one it copied;     *)
(* else it starts again.  A service is a list of such steps, and the steps *)
(* of different workers interleave.  Nodes that a worker still reads are   *)
(* not freed (the job is executed under the RCU lock), so what a worker    *)
(* read at once stays as it was read.                                      *)
(*                                                                         *)
(* Without multithreading the nodes are stored in the table itself         *)
(* (ua_nodestore.c), and an insertion that resizes the table moves all of  *)
(* them.  Two functions keep pointers to nodes across insertions.  What    *)
(* they read through a pointer into a table that is freed is undefined:    *)
(* the model stops there.                                                  *)
(*                                                                         *)
(* A reference type is only a name here, and all but the null type are     *)
(* nodes of the server and are not abstract.                               *)
(***************************************************************************)
EXTENDS Naturals, Sequences, FiniteSets, SequencesExt

CONSTANTS
    Workers,      \* threads that execute requests
    Builds,       \* the values of UA_MULTITHREADING that are considered
    NodeIds,      \* node ids of the bounded address space, positive numbers
    InitialNodes, \* the nodes at startup, by id
    Scenarios     \* the sets of requests that clients may send, each request once

ASSUME AddressSpaceAssumption ==
    /\ Builds \subseteq BOOLEAN
    /\ NodeIds \subseteq Nat \ {0}
    /\ DOMAIN InitialNodes \subseteq NodeIds

VARIABLES
    multithreading, \* the build
    nodes,      \* the nodestore: NoNode for the ids that are not used
    outcome,    \* the state of each request, or the answer to it
    request,    \* the request a worker executes
    todo,       \* the steps of the request the worker has still to do
    held,       \* the edited copy a worker wants to put into the nodestore
    current,    \* whether the node of that copy is still the stored one
    constructed,\* object nodes that the constructor of a type was called for
    table,      \* how often the table of the nodestore was moved
    undefined,  \* whether a pointer into a freed table was used
    half,       \* history: references that were added in one direction only
    log         \* history: the edits of each node that were reported as done

vars == <<multithreading, nodes, outcome, request, todo, held, current, constructed, table, undefined, half, log>>

\* All requests of all scenarios.
Requests == UNION Scenarios

NoNode == [class |-> "none"]
NullId == 0

Aggregates == {"HasComponent", "HasProperty"}
RefTypes == Aggregates \cup {"Organizes", "HasTypeDefinition", "HasSubtype"}

\* Fields: class; references; value; whether userAccessLevel has the value it was given or
\* that of accessLevel; whether instanceHandle is set; whether there is a constructor.
NewNode(class, value, userAccess) ==
    [class |-> class, refs |-> <<>>, value |-> value, userAccess |-> userAccess, handle |-> FALSE,
     constructor |-> FALSE]

Ref(type, target, inverse) == [type |-> type, target |-> target, inverse |-> inverse]

\* The same reference as seen from its target, n being the node that has ref.
Opposite(n, ref) == Ref(ref.type, n, ~ref.inverse)

Stored(n) == n \in NodeIds /\ nodes[n] # NoNode

Init ==
    /\ multithreading \in Builds
    /\ nodes = [n \in NodeIds |-> IF n \in DOMAIN InitialNodes THEN InitialNodes[n] ELSE NoNode]
    /\ \E S \in Scenarios : outcome = [r \in Requests |-> IF r \in S THEN "queued" ELSE "never"]
    /\ request \in [Workers -> {CHOOSE r \in Requests : TRUE}]
    /\ todo = [w \in Workers |-> <<>>]
    /\ held = [w \in Workers |-> NoNode]
    /\ current = [w \in Workers |-> FALSE]
    /\ constructed = {}
    /\ table = 0
    /\ undefined = FALSE
    /\ half = {}
    /\ log = [n \in NodeIds |-> <<>>]

-----------------------------------------------------------------------------
(* Steps of a service *)

\* One direction of Service_AddReferences_single; both is TRUE for the first one.
Add(n, ref, both) == [op |-> "add", node |-> n, ref |-> ref, both |-> both]

\* One direction of Service_DeleteReferences_single.
Delete(n, ref, both) == [op |-> "delete", node |-> n, ref |-> ref, both |-> both]

Write(n, value) == [op |-> "write", node |-> n, value |-> value]

SetHandle(n) == [op |-> "handle", node |-> n]

\* UA_Server_addExistingNode; def is the type definition that is instantiated afterwards.
Insert(n, node, parent, type, def) ==
    [op |-> "insert", node |-> n, new |-> node, parent |-> parent, type |-> type, def |-> def]

Copy(n, type, parent) == [op |-> "copy", node |-> n, type |-> type, parent |-> parent]

\* asked is TRUE for the type definition that the client asked for.
Instantiate(n, def, asked) == [op |-> "instantiate", node |-> n, def |-> def, asked |-> asked]

\* The loops over the type definitions in copyExistingVariable and copyExistingObject: defs
\* are the ones that are left.  The original is read in the table it was found in.
TypesOf(n, defs) == [op |-> "types", node |-> n, defs |-> defs, table |-> table]

\* The end of instantiateObjectNode, where the type is read in the table it was found in.
Construct(n, constructor) == [op |-> "construct", node |-> n, constructor |-> constructor, table |-> table]

DeleteNode(n, references) == [op |-> "deleteNode", node |-> n, references |-> references]

RemoveNode(n) == [op |-> "remove", node |-> n]

IsEdit(o) == o.op \in {"add", "delete", "write", "handle"}

\* The first step of each service.
FirstStep(r) ==
    CASE r.service = "AddNodes" ->
            Insert(r.node, NewNode(r.class, r.value, "own"), r.parent, r.type, r.def)
      [] r.service = "AddReferences" -> Add(r.node, r.ref, TRUE)
      [] r.service = "DeleteReferences" -> Delete(r.node, r.ref, r.both)
      [] r.service = "DeleteNodes" -> DeleteNode(r.node, r.references)
      [] r.service = "Write" -> Write(r.node, r.value)

\* A worker takes a request.  Without multithreading there is a single thread.
Begin(w, r) ==
    /\ todo[w] = <<>> /\ ~undefined
    /\ outcome[r] = "queued"
    /\ multithreading \/ \A u \in Workers : todo[u] = <<>>
    /\ outcome' = [outcome EXCEPT ![r] = "good"]
    /\ request' = [request EXCEPT ![w] = r]
    /\ todo' = [todo EXCEPT ![w] = <<FirstStep(r)>>]
    /\ UNCHANGED <<multithreading, nodes, held, current, constructed, table, undefined, half, log>>

\* The worker w is at a step of the given kind.
At(w, op) == todo[w] # <<>> /\ Head(todo[w]).op = op

\* The steps S take the place of the first step of w.
Continue(w, S) == todo' = [todo EXCEPT ![w] = S \o Tail(@)]

-----------------------------------------------------------------------------
(* UA_Server_editNode *)

\* addOneWayReference
addOneWayReference(node, ref) == {[node EXCEPT !.refs = Append(@, ref)]}

\* deleteOneWayReference: the last match is overwritten by the last reference.  A node that
\* loses its only reference keeps a pointer to freed memory; the instances avoid that.
deleteOneWayReference(node, ref) ==
    LET Matches == {i \in 1 .. Len(node.refs) : node.refs[i] = ref}
        i == CHOOSE j \in Matches : \A k \in Matches : k <= j
    IN  IF Matches = {}
        THEN {}
        ELSE {[node EXCEPT !.refs = Front([node.refs EXCEPT ![i] = Last(node.refs)])]}

\* CopyAttributeIntoNode for the value
CopyAttributeIntoNode(node, value) ==
    IF node.class \in {"variable", "variabletype"} THEN {[node EXCEPT !.value = value]} ELSE {}

\* setObjectInstanceHandle
setObjectInstanceHandle(node) == IF node.class = "object" THEN {[node EXCEPT !.handle = TRUE]} ELSE {}

\* The result of the callback of edit o on node, empty if it fails.
Callback(o, node) ==
    CASE o.op = "add" -> addOneWayReference(node, o.ref)
      [] o.op = "delete" -> deleteOneWayReference(node, o.ref)
      [] o.op = "write" -> CopyAttributeIntoNode(node, o.value)
      [] o.op = "handle" -> setObjectInstanceHandle(node)

\* UA_Node_copyAnyNodeClass: userAccessLevel of a variable is overwritten by accessLevel.
CopyAnyNodeClass(node) == IF node.class = "variable" THEN [node EXCEPT !.userAccess = "accessLevel"] ELSE node

\* Mutant of NextDirection: the second direction of an added reference is left out.
NoNextDirection(o, ok) ==
    IF o.op = "delete" /\ o.both
    THEN <<Delete(o.ref.target, Ref("Null", o.node, ~o.ref.inverse), FALSE)>>
    ELSE <<>>

\* Mutant of NextDirection: an edit that fails is tried again.
NextDirectionRetrying(o, ok) ==
    CASE ~ok -> <<o>>
      [] o.op = "add" /\ o.both /\ ok -> <<Add(o.ref.target, Opposite(o.node, o.ref), FALSE)>>
      [] OTHER -> <<>>

\* What Service_AddReferences_single and Service_DeleteReferences_single do after the first
\* direction.  The second item of a deletion has no reference type.
NextDirection(o, ok) ==
    CASE o.op = "add" /\ o.both /\ ok -> <<Add(o.ref.target, Opposite(o.node, o.ref), FALSE)>>
      [] o.op = "delete" /\ o.both -> <<Delete(o.ref.target, Ref("Null", o.node, ~o.ref.inverse), FALSE)>>
      [] OTHER -> <<>>

\* The edit o by w is stored as node; copies of the old node are not current any more.
Commit(w, o, node) ==
    /\ nodes' = [nodes EXCEPT ![o.node] = node]
    /\ log' = [log EXCEPT ![o.node] = Append(@, o)]
    /\ held' = [held EXCEPT ![w] = NoNode]
    /\ current' = [u \in Workers |->
           current[u] /\ u # w /\ ~(todo[u] # <<>> /\ Head(todo[u]).node = o.node)]
    /\ Continue(w, NextDirection(o, TRUE))

\* The edit o fails.  Its result is the answer to a request that ends with it; the results
\* of the edits in AddNodes and DeleteNodes are ignored.  The first direction of a reference
\* stays when the second one fails.
EditFails(w, o) ==
    /\ Continue(w, NextDirection(o, FALSE))
    /\ outcome' = IF NextDirection(o, FALSE) = <<>> /\ request[w].service \notin {"AddNodes", "DeleteNodes"}
                  THEN [outcome EXCEPT ![request[w]] = "bad"]
                  ELSE outcome
    /\ half' = IF o.op = "add" /\ ~o.both
               THEN half \cup {[node |-> o.ref.target, ref |-> Opposite(o.node, o.ref), request |-> request[w]]}
               ELSE half
    /\ UNCHANGED <<nodes, log, held, current>>

\* editNode: the node is looked up, copied, and the callback is called.
Edit(w) ==
    LET o == Head(todo[w])
        copy == IF multithreading THEN CopyAnyNodeClass(nodes[o.node]) ELSE nodes[o.node]
        results == IF Stored(o.node) THEN Callback(o, copy) ELSE {}
    IN
    /\ todo[w] # <<>> /\ IsEdit(o)
    /\ held[w] = NoNode
    /\ \/ /\ results = {}
          /\ EditFails(w, o)
       \/ /\ ~multithreading
          /\ \E node \in results : Commit(w, o, node)
          /\ UNCHANGED <<outcome, half>>
       \/ /\ multithreading
          /\ \E node \in results : held' = [held EXCEPT ![w] = node]
          /\ current' = [current EXCEPT ![w] = TRUE]
          /\ UNCHANGED <<nodes, log, todo, outcome, half>>
    /\ UNCHANGED <<multithreading, request, constructed, table, undefined>>

\* Mutant of CanReplace: whatever is stored is replaced.
AlwaysReplaces(w, n) == TRUE

\* UA_NodeStore_replace finds the node that was copied.
CanReplace(w, n) == Stored(n) /\ current[w]

\* editNode: the copy is put into the nodestore, or the loop starts again.
Replace(w) ==
    LET o == Head(todo[w])
    IN
    /\ held[w] # NoNode
    /\ \/ /\ CanReplace(w, o.node)
          /\ Commit(w, o, held[w])
       \/ /\ ~CanReplace(w, o.node)
          /\ held' = [held EXCEPT ![w] = NoNode]
          /\ current' = [current EXCEPT ![w] = FALSE]
          /\ UNCHANGED <<nodes, log, todo>>
    /\ UNCHANGED <<multithreading, outcome, request, constructed, table, undefined, half>>

-----------------------------------------------------------------------------
(* Adding and deleting nodes *)

Unused == {n \in NodeIds : nodes[n] = NoNode}

\* UA_NodeStore_insert: the requested id, or one that is not used (which one is the subject
\* of NodeStore).
InsertedId(n) == IF n = NullId THEN CHOOSE m \in Unused : \A k \in Unused : m <= k ELSE n

\* The node o.new is stored, and the history of its id starts again.  Without multithreading
\* the table may be resized before, which moves it (when, is the subject of NodeStore).
StoreNode(n, o) ==
    /\ nodes' = [nodes EXCEPT ![n] = o.new]
    /\ table' \in IF multithreading THEN {table} ELSE {table, table + 1}
    /\ log' = [log EXCEPT ![n] = <<o>>]

\* The early returns of UA_Server_addExistingNode and UA_NodeStore_insert.
InsertFails(o) == ~Stored(o.parent) \/ o.type \notin RefTypes \/ Stored(o.node)

\* UA_Server_addExistingNode up to the insertion, and what Service_AddNodes_single has to do
\* next.  A stored parent stays stored until the insertion: with multithreading no node is
\* ever removed (see DoRemove).
DoInsert(w) ==
    LET o == Head(todo[w])
        n == InsertedId(o.node)
    IN
    /\ At(w, "insert")
    /\ \/ /\ InsertFails(o)
          /\ outcome' = [outcome EXCEPT ![request[w]] = "bad"]
          /\ Continue(w, <<>>)
          /\ UNCHANGED <<nodes, table, log>>
       \/ /\ ~InsertFails(o)
          /\ o.node = NullId => Unused # {}
          /\ StoreNode(n, o)
          /\ Continue(w, <<Add(n, Ref(o.type, o.parent, TRUE), TRUE)>>
                         \o IF o.def = NullId \/ o.new.class \notin {"object", "variable"}
                            THEN <<>>
                            ELSE <<Instantiate(n, o.def, TRUE)>>)
          /\ UNCHANGED outcome
    /\ UNCHANGED <<multithreading, request, held, current, constructed, undefined, half>>

\* References of node to children of the given classes.
Children(node, types, classes) ==
    SelectSeq(node.refs, LAMBDA r : /\ ~r.inverse
                                    /\ r.type \in types
                                    /\ Stored(r.target)
                                    /\ nodes[r.target].class \in classes)

TypeDefinitions(node) == SelectSeq(node.refs, LAMBDA r : ~r.inverse /\ r.type = "HasTypeDefinition")

\* The nodes of the types defs are instantiated at n.  With multithreading the original stays
\* as it was read; without, it is read again after each of them.
InstantiateTypes(n, defs) ==
    IF multithreading
    THEN [i \in 1 .. Len(defs) |-> Instantiate(n, defs[i].target, FALSE)]
    ELSE <<TypesOf(n, defs)>>

\* copyExistingVariable and copyExistingObject: a node with the same attributes is added
\* below o.parent, and then it gets the children of the type definitions.  Both nodes are
\* still stored: no node is removed while a request is executed, see DoRemove.
DoCopy(w) ==
    LET o == Head(todo[w])
        n == InsertedId(NullId)
        node == nodes[o.node]
    IN
    /\ At(w, "copy")
    /\ Unused # {}
    /\ StoreNode(n, Insert(NullId, NewNode(node.class, node.value, node.userAccess), o.parent, o.type, NullId))
    /\ Continue(w, <<Add(n, Ref(o.type, o.parent, TRUE), TRUE)>> \o InstantiateTypes(n, TypeDefinitions(node)))
    /\ UNCHANGED <<multithreading, outcome, request, held, current, constructed, undefined, half>>

\* A pointer kept by the step o points into a table that was freed.
Dangling(o) == ~multithreading /\ o.table # table

\* A step reads through such a pointer.
Undefine == undefined' = TRUE /\ UNCHANGED <<todo, constructed>>

\* The loop over the type definitions of a copied node.
DoTypes(w) ==
    LET o == Head(todo[w])
    IN
    /\ At(w, "types")
    /\ \/ Dangling(o) /\ Undefine
       \/ /\ ~Dangling(o)
          /\ Continue(w, IF o.defs = <<>>
                         THEN <<>>
                         ELSE <<Instantiate(o.node, Head(o.defs).target, FALSE), [o EXCEPT !.defs = Tail(@)]>>)
          /\ UNCHANGED <<constructed, undefined>>
    /\ UNCHANGED <<multithreading, nodes, outcome, request, held, current, table, half, log>>

\* Mutant of InstantiateChild: methods are left out.
InstantiateNoMethod(n, r) == Copy(r.target, r.type, n)

\* One child of a type: methods are shared, variables and objects are copied.
InstantiateChild(n, r) ==
    IF nodes[r.target].class = "method"
    THEN Add(n, Ref(r.type, r.target, FALSE), TRUE)
    ELSE Copy(r.target, r.type, n)

\* instantiateObjectNode and instantiateVariableNode
DoInstantiate(w) ==
    LET o == Head(todo[w])
        object == Stored(o.node) /\ nodes[o.node].class = "object"
        type == IF Stored(o.def) THEN nodes[o.def] ELSE NoNode
        children == IF object
                    THEN Children(type, Aggregates, {"object", "variable", "method"})
                    ELSE Children(type, {"HasProperty"}, {"variable"})
    IN
    /\ At(w, "instantiate")
    /\ \/ /\ type.class # (IF object THEN "objecttype" ELSE "variabletype")
          /\ outcome' = IF o.asked THEN [outcome EXCEPT ![request[w]] = "bad"] ELSE outcome
          /\ Continue(w, IF o.asked THEN <<DeleteNode(o.node, TRUE)>> ELSE <<>>)
       \/ /\ type.class = (IF object THEN "objecttype" ELSE "variabletype")
          /\ Continue(w, [i \in 1 .. Len(children) |-> InstantiateChild(o.node, children[i])]
                         \o <<Add(o.node, Ref("HasTypeDefinition", o.def, FALSE), TRUE)>>
                         \o IF object THEN <<Construct(o.node, type.constructor)>> ELSE <<>>)
          /\ UNCHANGED outcome
    /\ UNCHANGED <<multithreading, nodes, request, held, current, constructed, table, undefined, half, log>>

\* The handle that the constructor returned is put into the node.
AfterConstructor(n) == <<SetHandle(n)>>

\* The constructor of the type is called, if it has one.
DoConstruct(w) ==
    LET o == Head(todo[w])
    IN
    /\ At(w, "construct")
    /\ \/ Dangling(o) /\ Undefine
       \/ /\ ~Dangling(o)
          /\ constructed' = IF o.constructor THEN constructed \cup {o.node} ELSE constructed
          /\ Continue(w, IF o.constructor THEN AfterConstructor(o.node) ELSE <<>>)
          /\ UNCHANGED undefined
    /\ UNCHANGED <<multithreading, nodes, outcome, request, held, current, table, half, log>>

\* Service_DeleteNodes_single: references to the node are looked for without a reference
\* type, then the node is removed.
DoDeleteNode(w) ==
    LET o == Head(todo[w])
        refs == nodes[o.node].refs
        opposite(i) == Delete(refs[i].target, Ref("Null", o.node, ~refs[i].inverse), FALSE)
    IN
    /\ At(w, "deleteNode")
    /\ \/ /\ Stored(o.node)
          /\ Continue(w, (IF o.references THEN [i \in 1 .. Len(refs) |-> opposite(i)] ELSE <<>>)
                         \o <<RemoveNode(o.node)>>)
          /\ UNCHANGED outcome
       \/ /\ ~Stored(o.node)
          /\ outcome' = [outcome EXCEPT ![request[w]] = "bad"]
          /\ Continue(w, <<>>)
    /\ UNCHANGED <<multithreading, nodes, request, held, current, constructed, table, undefined, half, log>>

\* The end of Service_DeleteNodes_single: the destructors of the types that the node is a
\* subtype of are called, and UA_NodeStore_remove.  The concurrent nodestore compares the ids
\* with the bytes of the pointer to the id, and finds no node.
DoRemove(w) ==
    LET n == Head(todo[w]).node
        supertypes == SelectSeq(nodes[n].refs, LAMBDA r : r.inverse /\ r.type = "HasSubtype" /\ Stored(r.target))
    IN
    /\ At(w, "remove")
    /\ constructed' = IF nodes[n].class = "object" /\ supertypes # <<>> THEN constructed \ {n} ELSE constructed
    /\ \/ /\ multithreading
          /\ outcome' = [outcome EXCEPT ![request[w]] = "bad"]
          /\ UNCHANGED nodes
       \/ /\ ~multithreading
          /\ nodes' = [nodes EXCEPT ![n] = NoNode]
          /\ UNCHANGED outcome
    /\ Continue(w, <<>>)
    /\ UNCHANGED <<multithreading, request, held, current, table, undefined, half, log>>

-----------------------------------------------------------------------------

Step(w) ==
    /\ ~undefined
    /\ \/ Edit(w) \/ Replace(w)
       \/ DoInsert(w) \/ DoCopy(w) \/ DoTypes(w) \/ DoInstantiate(w) \/ DoConstruct(w)
       \/ DoDeleteNode(w) \/ DoRemove(w)

Idle == \A w \in Workers : todo[w] = <<>>

Answered == Idle /\ \A r \in Requests : outcome[r] # "queued"

\* All requests are answered, or nothing is known of what the server does.
Finished == (Answered \/ undefined) /\ UNCHANGED vars

Next ==
    \/ \E w \in Workers, r \in Requests : Begin(w, r)
    \/ \E w \in Workers : Step(w)
    \/ Finished

\* Workers execute what they have begun, and wait for requests.
Fairness ==
    /\ \A w \in Workers : WF_vars(Step(w))
    /\ WF_vars(\E w \in Workers, r \in Requests : Begin(w, r))

Spec == Init /\ [][Next]_vars /\ Fairness

-----------------------------------------------------------------------------
(* Properties *)

Node == [class : {"object", "variable", "method", "objecttype", "variabletype"},
         refs : Seq([type : RefTypes, target : NodeIds, inverse : BOOLEAN]),
         value : {r.value : r \in {q \in Requests : q.service \in {"AddNodes", "Write"}}}
                   \cup {InitialNodes[n].value : n \in DOMAIN InitialNodes},
         userAccess : {"own", "accessLevel"},
         handle : BOOLEAN,
         constructor : BOOLEAN]

\* Type invariant: nodes and copies are nodes with references of proper types only, a copy
\* is held only for an edit, and only in the multithreaded build.
TypeOK ==
    /\ multithreading \in Builds
    /\ nodes \in [NodeIds -> Node \cup {NoNode}]
    /\ outcome \in [Requests -> {"never", "queued", "good", "bad"}]
    /\ request \in [Workers -> Requests]
    /\ held \in [Workers -> Node \cup {NoNode}]
    /\ current \in [Workers -> BOOLEAN]
    /\ \A w \in Workers : held[w] # NoNode => multithreading /\ todo[w] # <<>> /\ IsEdit(Head(todo[w]))
    /\ constructed \subseteq NodeIds
    /\ table \in Nat /\ (multithreading => table = 0)
    /\ undefined => ~multithreading

\* The node that the edits of n were applied to first.
Base(n) == IF log[n] # <<>> /\ log[n][1].op = "insert" THEN log[n][1].new ELSE InitialNodes[n]

\* The edits of n one after the other, as if there were one thread.
Sequential(n) ==
    FoldLeft(LAMBDA node, o : IF IsEdit(o) THEN CHOOSE x \in Callback(o, node) : TRUE ELSE node, Base(n), log[n])

\* No edit is lost: a stored node is the result of the sequential execution of all the edits
\* that editNode reported as done, however the workers interleave between the copy and the
\* replacement of the node.  (User access levels are the subject of UserAccessKept.)
NoLostEdit ==
    \A n \in NodeIds : Stored(n) =>
        [nodes[n] EXCEPT !.userAccess = "own"] = [Sequential(n) EXCEPT !.userAccess = "own"]

\* References between m and n were, or may have been, deleted on one side only.
Severed(m, n) ==
    \E r \in Requests :
        /\ outcome[r] \in {"good", "bad"}
        /\ \/ r.service = "DeleteReferences" /\ {r.node, r.ref.target} = {m, n}
           \/ r.service = "DeleteNodes" /\ r.node \in {m, n}
           \/ r.service = "AddNodes" /\ outcome[r] = "bad" /\ r.node \in {m, n}

\* When no request is executed, a reference is known to both of its ends, with as many
\* entries: both calls of editNode in Service_AddReferences_single take effect for all the
\* references that clients, AddNodes and the instantiation of types add.  Only where nodes or
\* references were deleted, and where the second call failed, is an end missing; and in the
\* second case the client was told that its reference was not added.
BothEnds ==
    Idle =>
        /\ \A h \in half : h.request.service = "AddReferences" /\ outcome[h.request] = "bad"
        /\ \A m \in NodeIds : Stored(m) =>
            \A i \in 1 .. Len(nodes[m].refs) :
                LET ref == nodes[m].refs[i]
                    missing(n, r) == Cardinality({h \in half : h.node = n /\ h.ref = r})
                    count(n, r) == IF Stored(n)
                                   THEN Cardinality({k \in 1 .. Len(nodes[n].refs) : nodes[n].refs[k] = r})
                                   ELSE 0
                IN  ~Severed(m, ref.target) =>
                        count(m, ref) + missing(ref.target, Opposite(m, ref))
                          = count(ref.target, Opposite(m, ref)) + missing(m, ref)

\* The node m has the child, or a copy of it.
HasChild(m, r) ==
    \E i \in 1 .. Len(nodes[m].refs) :
        LET own == nodes[m].refs[i]
        IN  /\ ~own.inverse /\ own.type = r.type
            /\ Stored(own.target)
            /\ nodes[own.target].class = nodes[r.target].class
            /\ nodes[r.target].class = "method" <=> own.target = r.target

\* When no request is executed, every object whose type definition is a type has all the
\* children that its type has had from the start: instantiateObjectNode adds them before
\* the type definition, whatever other workers do to the type meanwhile, and as long as no
\* pointer into a freed table was used (such a state is not idle).
InstancesComplete ==
    Idle => \A m \in NodeIds :
        Stored(m) /\ nodes[m].class = "object" =>
            \A i \in 1 .. Len(nodes[m].refs) :
                LET def == nodes[m].refs[i]
                IN  def.type = "HasTypeDefinition" /\ ~def.inverse /\ def.target \in DOMAIN InitialNodes =>
                        \A k \in 1 .. Len(InitialNodes[def.target].refs) :
                            LET r == InitialNodes[def.target].refs[k]
                            IN  r.type \in Aggregates /\ ~r.inverse /\ Stored(r.target) => HasChild(m, r)

\* When no request is executed, an object has an instance handle exactly if the constructor
\* of its type was called for it: the edit that stores the handle is neither lost nor
\* overwritten by concurrent edits of the new object.
HandleOfConstructor ==
    Idle => \A n \in NodeIds : Stored(n) /\ ~(n \in DOMAIN InitialNodes) => (nodes[n].handle <=> n \in constructed)

\* Instances are whole: the children of the type and the result of its constructor, however
\* the steps of instantiateNode interleave with other workers' edits.
InstancesInv == TypeOK /\ InstancesComplete /\ HandleOfConstructor

\* Every request is answered, unless a pointer into a freed table was used: a worker whose
\* copy is outdated starts again only after the edit of another one took effect, so the loop
\* in editNode ends.
AllAnswered == <>(Answered \/ undefined)

\* No pointer to a node is used after the table was moved: ua_services_nodemanagement.c:68
\* says "Careful. The node is inserted. If the nodestore makes an expand, nodes change their
\* address", but copyExistingVariable, copyExistingObject and instantiateObjectNode go on
\* with the pointers they got before Service_AddNodes_single.
PointersValid == ~undefined

\* A reference is added in both directions or not at all: "todo: remove reference if the
\* second direction failed" (ua_services_nodemanagement.c:780).
AddedWhole == half = {}

\* An edit leaves the user access level of a variable alone, as the other attributes.
\* ua_services_attribute.c:504 says of the node that is edited "In the multithreaded case,
\* node is a copy", but UA_VariableNode_copy takes it from accessLevel.
UserAccessKept == \A n \in NodeIds : Stored(n) => nodes[n].userAccess = Base(n).userAccess

\* A node whose type definition could not be instantiated is not in the address space
\* afterwards: ua_services_nodemanagement.c:526 says "if instantiation failed, remove the
\* node".
FailedNodesRemoved ==
    Idle => \A r \in Requests :
        r.service = "AddNodes" /\ r.node # NullId /\ outcome[r] = "bad" /\ r.node \notin DOMAIN InitialNodes
                /\ (\A q \in Requests : q.service = "AddNodes" /\ q.node = r.node => outcome[q] # "good")
            => ~Stored(r.node)

=============================================================================
