-------------------------------- MODULE View --------------------------------
(***************************************************************************)
(* The view services: Browse and BrowseNext with the continuation points   *)
(* of a session, and TranslateBrowsePathsToNodeIds.                        *)
(*                                                                         *)
(* A continuation point holds the browse description and how many of the   *)
(* relevant references have been returned.  The next page is found by      *)
(* going through the references of the node from the start, so that what a *)
(* client gets page by page depends on what happens to the nodes between   *)
(* two requests.                                                           *)
(*                                                                         *)
(* A request is answered without interruption.  Its entries are answered   *)
(* one step each; no other request and no change of a node comes between   *)
(* (pending).  walk is what the client that receives the pages knows.      *)
(***************************************************************************)
EXTENDS Naturals, Sequences, FiniteSets, SequencesExt, Graphs

CONSTANTS
    NodeIds,               \* the nodes there may be
    InitialNodes,          \* [NodeIds -> Node \cup {NoNode}] when the session starts
    Requests,              \* the sequences of browse descriptions clients send
    MaxReferences,         \* the values of requestedMaxReferencesPerNode
    NextRequests,          \* the sequences of continuation points clients send
    BrowsePaths,           \* the browse paths clients send: [start, elements]
    TypeNodes,             \* the types a node is instantiated from
    InstantiateMax,        \* 100 in instantiateVariableNode and instantiateObjectNode
    MAXCONTINUATIONPOINTS,
    CpIds,                 \* identifiers of continuation points
    ResultsSize,           \* more subtypes than this do not fit into memory
    TargetsSize,           \* 10 in Service_TranslateBrowsePathsToNodeIds_single
    NewReferences,         \* the references clients add: [node, ref]
    EditedNodes,           \* the nodes clients delete references of
    DeletedNodes,          \* the nodes clients delete
    EditBound,             \* bound: changes of the nodes in a behaviour
    ShortageBound,         \* bound: failures in a session that harm a continuation point
    NoNode, Null,          \* a missing node; the null NodeId
    Emptied                \* a NodeId that lost its string

ASSUME BoundsAssumption ==
    /\ MAXCONTINUATIONPOINTS \in Nat
    /\ InstantiateMax \in Nat \ {0}
    /\ MaxReferences \subseteq Nat
    /\ EditBound \in Nat /\ ShortageBound \in Nat
ASSUME IdsAssumption ==
    /\ IsFiniteSet(CpIds)
    /\ Cardinality(CpIds) > MAXCONTINUATIONPOINTS
    /\ Null \notin CpIds /\ Null \notin NodeIds
    /\ Emptied \notin NodeIds /\ Emptied # Null

VARIABLES
    nodes,     \* server->nodestore: [class, name, refs], refs of [type, inverse, target]
    cps,       \* session->continuationPoints: a function on the identifiers in use
    available, \* session->availableContinuationPoints
    pending,   \* the entries of the request that are not answered yet
    answer,    \* the result of the last entry
    walk,      \* by continuation point: what its client has received
    edits,     \* how often the nodes have changed
    shortages  \* how often a continuation point was harmed in this session

vars == <<nodes, cps, available, pending, answer, walk, edits, shortages>>

NoAnswer == [op |-> "none"]

\* The allocations that fail in Service_Browse_single: none, the array of the page, the
\* continuation point, its browse description, its identifier, or the identifier in the answer.
Failures == {"none", "page", "cp", "descr", "guid", "answer"}

\* The continuation point goes on without its description, or its client without its identifier.
Harms(fail) ==
    /\ fail \in {"descr", "answer"} => shortages < ShortageBound
    /\ shortages' = IF fail \in {"descr", "answer"} /\ cps' # cps THEN shortages + 1 ELSE shortages

-----------------------------------------------------------------------------
(* Reference types *)

Exists(ns, n) == n \in NodeIds /\ ns[n] # NoNode
IsReferenceType(ns, n) == Exists(ns, n) /\ ns[n].class = "ReferenceType"

SubTypesOf(ns, n) ==
    LET subs == SelectSeq(ns[n].refs, LAMBDA r : r.type = "HasSubtype" /\ ~r.inverse)
    IN  [i \in DOMAIN subs |-> subs[i].target]

\* findSubTypes: one pass over an array that grows while it is passed over.  results[i] is
\* the array after its first i entries have been expanded.
findSubTypes(ns, root) ==
    LET results[i \in Nat] ==
            IF i = 0 THEN <<root>>
            ELSE LET before == results[i - 1]
                 IN  IF i <= Len(before) /\ IsReferenceType(ns, before[i])
                     THEN before \o SubTypesOf(ns, before[i])
                     ELSE before
        all == results[ResultsSize]
    IN  CASE ~Exists(ns, root) -> [status |-> "BadNoMatch", types |-> <<>>]
          [] Exists(ns, root) /\ ~IsReferenceType(ns, root) ->
                 [status |-> "BadReferenceTypeIdInvalid", types |-> <<>>]
          [] OTHER -> IF Len(all) > ResultsSize
                      THEN [status |-> "BadOutOfMemory", types |-> <<>>]
                      ELSE [status |-> "Good", types |-> all]

\* The reference types a browse description asks for.  With the null type they do not matter.
RelevantTypes(ns, d) ==
    CASE d.type = Null -> [status |-> "Good", types |-> <<>>]
      [] d.type # Null /\ d.subtypes -> findSubTypes(ns, d.type)
      [] OTHER -> IF IsReferenceType(ns, d.type)
                  THEN [status |-> "Good", types |-> <<d.type>>]
                  ELSE [status |-> "BadReferenceTypeIdInvalid", types |-> <<>>]

-----------------------------------------------------------------------------
(* Browsing one node *)

\* returnRelevantNode
returnRelevantNode(ns, d, types, ref) ==
    /\ ref.inverse => d.direction # "forward"
    /\ ~ref.inverse => d.direction # "inverse"
    /\ d.type # Null => Contains(types, ref.type)
    /\ Exists(ns, ref.target)
    /\ d.classes # {} => ns[ref.target].class \in d.classes

\* fillReferenceDescription: what the result mask leaves out is null.
fillReferenceDescription(ns, d, ref) ==
    LET target == ns[ref.target]
        defs == SelectSeq(target.refs, LAMBDA r : r.type = "HasTypeDefinition")
    IN  [nodeId |-> ref.target,
         referenceType |-> IF "ReferenceType" \in d.mask THEN ref.type ELSE Null,
         isForward |-> "IsForward" \in d.mask /\ ~ref.inverse,
         browseName |-> IF "BrowseName" \in d.mask THEN target.name ELSE Null,
         typeDefinition |->
             IF /\ "TypeDefinition" \in d.mask /\ defs # <<>>
                /\ target.class \in {"Object", "Variable"}
             THEN defs[1].target ELSE Null]

\* The loop over the references of the node: the first skip relevant ones are passed over,
\* then at most max are returned.  atEnd: it has reached the last reference.
Page(ns, d, types, skip, max) ==
    LET refs == ns[d.node].refs
        size == IF max = 0 \/ max > Len(refs) THEN Len(refs) ELSE max
        relevant == SelectSeq([i \in DOMAIN refs |-> i],
                              LAMBDA i : returnRelevantNode(ns, d, types, refs[i]))
        positions == SubSeq(relevant, skip + 1, Min({skip + size, Len(relevant)}))
    IN  [refs |-> [i \in DOMAIN positions |-> fillReferenceDescription(ns, d, refs[positions[i]])],
         atEnd |-> Len(positions) < size \/ Last(positions) = Len(refs)]

\* What Service_Browse_single finds before it looks at the continuation point.  early: it
\* returns before that, so that a continuation point is neither removed nor updated.
BrowseNode(ns, d, skip, max, fails) ==
    LET types == RelevantTypes(ns, d)
        Early(status) == [status |-> status, refs |-> <<>>, early |-> TRUE, atEnd |-> FALSE]
    IN  IF d.direction \notin {"forward", "inverse", "both"} THEN Early("BadBrowseDirectionInvalid")
        ELSE IF types.status # "Good" THEN Early(types.status)
        ELSE IF ~Exists(ns, d.node) THEN Early("BadNodeIdUnknown")
        ELSE IF ns[d.node].refs = <<>> THEN Early("Good")
        ELSE IF fails THEN Early("BadOutOfMemory")
        ELSE LET p == Page(ns, d, types.types, skip, max)
             IN  [status |-> "Good", refs |-> p.refs, early |-> FALSE, atEnd |-> p.atEnd]

-----------------------------------------------------------------------------
(* Continuation points *)

\* Mutant of removeCp: the counter is not incremented.
RemoveOnly(id) ==
    /\ cps' = Restrict(cps, DOMAIN cps \ {id})
    /\ available' = available

\* removeCp
removeCp(id) ==
    /\ cps' = Restrict(cps, DOMAIN cps \ {id})
    /\ available' = available + 1

\* UA_BrowseDescription_copy, whose result is not looked at: when it fails, which it does only
\* for ids that are strings, the copied ids are empty.  (No type of namespace 0 has such an id,
\* so that an empty type is not the null type.)
CopiedDescription(d, fail) ==
    IF fail = "descr" THEN [d EXCEPT !.node = Emptied, !.type = IF @ = Null THEN Null ELSE Emptied] ELSE d

\* The identifier is a random Guid, so that it differs from those in use.
createCp(id, d, max, count) ==
    /\ cps' = [c \in DOMAIN cps \cup {id} |->
                  IF c = id THEN [descr |-> d, max |-> max, index |-> count] ELSE cps[c]]
    /\ available' = available - 1

\* Mutant of updateCp: the point stays where it is.
UpdateNothing(id, index) == UNCHANGED <<cps, available>>

updateCp(id, index) ==
    /\ cps' = [cps EXCEPT ![id] = [descr |-> @.descr, max |-> @.max, index |-> index]]
    /\ UNCHANGED available

NewId == CHOOSE id \in CpIds : id \notin DOMAIN cps

\* What the client of continuation point id knows: all it has received so far, and whether
\* the references it asked for are still those of its first request.
Remember(id, got, clean) ==
    walk' = [c \in DOMAIN walk \cup {id} |->
                IF c = id THEN [got |-> got, clean |-> clean] ELSE walk[c]]
Forget(id) == walk' = Restrict(walk, DOMAIN walk \ {id})

\* UA_ByteString_copy of the identifier into the answer: its result is not looked at either.
\* unsaid: there is a continuation point and the answer has none.
Answer(status, refs, d, max, id, got, clean, fail) ==
    [op |-> "page", status |-> status, refs |-> refs, cp |-> IF fail = "answer" THEN Null ELSE id,
     unsaid |-> id # Null /\ fail = "answer",
     descr |-> d, max |-> max, got |-> got, clean |-> clean]

\* Service_Browse_single without a continuation point.  known: for a client, not for the server.
\* Without memory for its identifier it writes to a null pointer (crash).
BrowseFirst(d, max, fail, known) ==
    \E r \in {BrowseNode(nodes, d, 0, max, fail = "page")} :
    LET full == r.status = "Good" /\ max # 0 /\ Len(r.refs) >= max
        refused == full /\ (available = 0 \/ fail = "cp")
        crash == full /\ ~refused /\ fail = "guid"
        id == IF full /\ ~refused /\ ~crash THEN NewId ELSE Null
        status == IF refused THEN "BadNoContinuationPoints" ELSE r.status
    IN
    /\ IF id # Null
       THEN createCp(id, CopiedDescription(d, fail), max, Len(r.refs))
       ELSE UNCHANGED <<cps, available>>
    /\ IF id # Null /\ known /\ fail # "answer" THEN Remember(id, r.refs, TRUE) ELSE UNCHANGED walk
    /\ answer' = CASE crash -> [op |-> "crashed"]
                   [] ~crash /\ known -> Answer(status, r.refs, d, max, id, r.refs, TRUE, fail)
                   [] OTHER -> NoAnswer

\* Service_Browse_single with a continuation point.
BrowseMore(id, fail) ==
    LET c == cps[id] IN
    \E r \in {BrowseNode(nodes, c.descr, c.index, c.max, fail = "page")} :
    LET got == (IF id \in DOMAIN walk THEN walk[id].got ELSE <<>>) \o r.refs
        clean == id \in DOMAIN walk /\ walk[id].clean
        next == IF r.early \/ r.atEnd THEN Null ELSE id
    IN
    /\ IF r.early THEN UNCHANGED <<cps, available, walk>>
       ELSE IF r.atEnd THEN removeCp(id) /\ Forget(id)
       ELSE /\ updateCp(id, c.index + Len(r.refs))
            /\ IF id \in DOMAIN walk THEN Remember(id, got, clean) ELSE UNCHANGED walk
    /\ answer' = Answer(r.status, r.refs, c.descr, c.max, next, got, clean, fail)

-----------------------------------------------------------------------------
(* The services *)

\* The result of an entry has become part of the response.
Respond ==
    /\ answer.op \notin {"none", "crashed"}
    /\ answer' = NoAnswer
    /\ UNCHANGED <<nodes, cps, available, pending, walk, edits, shortages>>

\* The server can take the next request.
Idle == pending = <<>> /\ answer = NoAnswer

\* Service_Browse up to its loop.  An empty request has no results, and neither has one that
\* names a view or whose results cannot be allocated (refused).
Browse(ds, max, refused) ==
    /\ Idle
    /\ pending' = IF ds = <<>> \/ refused THEN <<>>
                  ELSE [i \in DOMAIN ds |-> [op |-> "browse", descr |-> ds[i], max |-> max]]
    /\ UNCHANGED <<nodes, cps, available, walk, answer, edits, shortages>>

\* Service_BrowseNext up to its loop
BrowseNext(ids, release, fail) ==
    /\ Idle
    /\ pending' = IF ids = <<>> \/ fail THEN <<>>
                  ELSE [i \in DOMAIN ids |->
                           [op |-> IF release THEN "release" ELSE "next", id |-> ids[i]]]
    /\ UNCHANGED <<nodes, cps, available, walk, answer, edits, shortages>>

\* One turn of the loop of Service_Browse
BrowseOne(fail) ==
    /\ answer = NoAnswer /\ pending # <<>> /\ Head(pending).op = "browse"
    /\ BrowseFirst(Head(pending).descr, Head(pending).max, fail, TRUE)
    /\ Harms(fail)
    /\ pending' = Tail(pending)
    /\ UNCHANGED <<nodes, edits>>

\* One turn of the loop of Service_BrowseNext
BrowseNextOne(fail) ==
    LET id == Head(pending).id
    IN
    /\ answer = NoAnswer /\ pending # <<>> /\ Head(pending).op \in {"next", "release"}
    /\ IF id \notin DOMAIN cps
       THEN answer' = [op |-> "invalid"] /\ UNCHANGED <<cps, available, walk>>
       ELSE IF Head(pending).op = "next" THEN BrowseMore(id, fail)
       ELSE removeCp(id) /\ Forget(id) /\ answer' = [op |-> "released"]
    /\ Harms(fail)
    /\ pending' = Tail(pending)
    /\ UNCHANGED <<nodes, edits>>

\* The browse of the children of a type in instantiateObjectNode and instantiateVariableNode,
\* in the session of the client that adds a node.  The continuation point is left behind.
InstantiateBrowse(t, fail) ==
    /\ Idle /\ Exists(nodes, t) /\ nodes[t].class = "ObjectType"
    /\ BrowseFirst([node |-> t, direction |-> "forward", type |-> "Aggregates", subtypes |-> TRUE,
                    classes |-> {"Object", "Variable", "Method"}, mask |-> {"ReferenceType"}],
                   InstantiateMax, fail, FALSE)
    /\ Harms(fail)
    /\ UNCHANGED <<nodes, pending, edits>>

\* UA_Session_deleteMembersCleanup, and UA_Session_init for the next session of the client.
NewSession ==
    /\ Idle
    /\ cps' = [c \in {} |-> Null]
    /\ available' = MAXCONTINUATIONPOINTS
    /\ walk' = [c \in {} |-> Null]
    /\ shortages' = 0
    /\ UNCHANGED <<nodes, pending, answer, edits>>

-----------------------------------------------------------------------------
(* Translating browse paths *)

\* Mutant of Matches: references are followed in either direction.
MatchesEitherWay(ns, e, types, ref) ==
    /\ e.type # Null => Contains(types, ref.type)
    /\ Exists(ns, ref.target) /\ ns[ref.target].name = e.name

\* An element of a path matches a reference and its target.
Matches(ns, e, types, ref) ==
    /\ e.type # Null => ref.inverse = e.inverse /\ Contains(types, ref.type)
    /\ Exists(ns, ref.target) /\ ns[ref.target].name = e.name

\* walkBrowsePath: the targets found up to the first failure
walkBrowsePath(ns, path) ==
    LET Walk[k \in 1 .. Len(path.elements), n \in NodeIds] ==
            LET e == path.elements[k]
                types == IF e.type # Null /\ e.subtypes THEN findSubTypes(ns, e.type)
                         ELSE [status |-> "Good", types |-> <<e.type>>]
                Visit(found, ref) ==
                    IF found.status # "Good" \/ ~Matches(ns, e, types.types, ref) THEN found
                    ELSE IF k = Len(path.elements)
                    THEN [found EXCEPT !.targets = Append(@, ref.target)]
                    ELSE LET w == Walk[k + 1, ref.target]
                         IN  [status |-> w.status, targets |-> found.targets \o w.targets]
            IN  FoldLeft(Visit, [status |-> types.status, targets |-> <<>>], ns[n].refs)
    IN  Walk[1, path.start]

\* Service_TranslateBrowsePathsToNodeIds_single.  When more targets are found than the array
\* holds, realloc is given the address of the pointer to the array: the behaviour is
\* undefined ("Undefined").
TranslateResult(ns, path, fail) ==
    LET w == walkBrowsePath(ns, path)
        Result(status, targets) == [status |-> status, targets |-> targets]
    IN  IF path.elements = <<>> THEN Result("BadNothingToDo", <<>>)
        ELSE IF fail THEN Result("BadOutOfMemory", <<>>)
        ELSE IF ~Exists(ns, path.start) THEN Result("BadNodeIdUnknown", <<>>)
        ELSE IF Len(w.targets) > TargetsSize THEN Result("Undefined", <<>>)
        ELSE IF w.status # "Good" THEN Result(w.status, <<>>)
        ELSE IF w.targets = <<>> THEN Result("BadNoMatch", <<>>)
        ELSE Result("Good", w.targets)

\* Service_TranslateBrowsePathsToNodeIds for one path.  After undefined behaviour, which the C
\* library answers by aborting the process, nothing happens any more.
TranslateBrowsePath(path, fail) ==
    LET r == TranslateResult(nodes, path, fail)
    IN
    /\ Idle
    /\ answer' = [op |-> "translate", path |-> path, status |-> r.status, targets |-> r.targets]
    /\ pending' = IF r.status = "Undefined" THEN <<[op |-> "aborted"]>> ELSE <<>>
    /\ UNCHANGED <<nodes, cps, available, walk, edits, shortages>>

-----------------------------------------------------------------------------
(* What happens to the nodes between two requests *)

\* All references a description asks for, in the order of the node, and no reference when
\* there is nothing to browse.  The subtypes are those of the graph of HasSubtype references.
SubTypeGraph(ns) ==
    LET types == {n \in NodeIds : IsReferenceType(ns, n)}
    IN  [node |-> types \cup UNION {ToSet(SubTypesOf(ns, n)) : n \in types},
         edge |-> UNION {{n} \X ToSet(SubTypesOf(ns, n)) : n \in types}]
WantedTypes(ns, type, subtypes) ==
    LET G == SubTypeGraph(ns)
    IN  IF ~subtypes THEN {type} ELSE {t \in G.node : IsReferenceType(ns, type) /\ ConnectionsIn(G)[type, t]}
Wanted(ns, d) ==
    LET refs == IF Exists(ns, d.node) THEN ns[d.node].refs ELSE <<>>
        types == IF d.type = Null THEN NodeIds ELSE WantedTypes(ns, d.type, d.subtypes)
        relevant == SelectSeq(refs, LAMBDA r :
            /\ r.type \in types
            /\ d.direction \in {"both", IF r.inverse THEN "inverse" ELSE "forward"}
            /\ Exists(ns, r.target)
            /\ d.classes = {} \/ ns[r.target].class \in d.classes)
    IN  [i \in DOMAIN relevant |-> fillReferenceDescription(ns, d, relevant[i])]

\* The nodes become ns.
Change(ns) ==
    /\ Idle /\ edits < EditBound
    /\ nodes' = ns
    /\ walk' = [c \in DOMAIN walk |->
           [walk[c] EXCEPT !.clean = @ /\ Wanted(ns, cps[c].descr) = Wanted(nodes, cps[c].descr)]]
    /\ edits' = edits + 1
    /\ UNCHANGED <<cps, available, pending, answer, shortages>>

Opposite(n, ref) == [type |-> ref.type, inverse |-> ~ref.inverse, target |-> n]

\* addOneWayReference
addOneWayReference(ns, n, ref) ==
    IF Exists(ns, n) THEN [ns EXCEPT ![n].refs = Append(@, ref)] ELSE ns

\* Service_AddReferences_single: both directions, the second one if the target exists.  A node
\* that has lost its last reference points to freed memory and is not given another.
AddReference(n, ref) ==
    /\ Exists(nodes, n) /\ nodes[n].refs # <<>> /\ ~Contains(nodes[n].refs, ref)
    /\ Exists(nodes, ref.target) => nodes[ref.target].refs # <<>>
    /\ Change(addOneWayReference(addOneWayReference(nodes, n, ref), ref.target, Opposite(n, ref)))

\* Service_DeleteReferences_single: the last reference takes the place of the deleted one.
\* The other direction stays, its item has no reference type.
DeleteReference(n, i) ==
    LET refs == nodes[n].refs
    IN  Change([nodes EXCEPT ![n].refs = Front([refs EXCEPT ![i] = Last(refs)])])

\* Service_DeleteNodes_single: references to the node stay.
DeleteNode(n) == Exists(nodes, n) /\ Change([nodes EXCEPT ![n] = NoNode])

\* Service_AddNodes_single for a node that is not instantiated from a type: the node that was
\* deleted comes back under a parent.
AddNode(n, parent, type) ==
    /\ ~Exists(nodes, n) /\ Exists(nodes, parent) /\ nodes[parent].refs # <<>>
    /\ IsReferenceType(nodes, type)
    /\ InitialNodes[n] # NoNode /\ InitialNodes[n].class \notin {"Object", "Variable"}
    /\ LET ref == [type |-> type, inverse |-> TRUE, target |-> parent]
       IN  Change(addOneWayReference([nodes EXCEPT ![n] = [InitialNodes[n] EXCEPT !.refs = <<ref>>]],
                                     parent, Opposite(n, ref)))

-----------------------------------------------------------------------------

Init ==
    /\ nodes = InitialNodes
    /\ cps = [c \in {} |-> Null]
    /\ available = MAXCONTINUATIONPOINTS
    /\ pending = <<>>
    /\ answer = NoAnswer
    /\ walk = [c \in {} |-> Null]
    /\ edits = 0
    /\ shortages = 0

Next ==
    \/ \E ds \in Requests, max \in MaxReferences, refused \in BOOLEAN : Browse(ds, max, refused)
    \/ \E ids \in NextRequests, release, fail \in BOOLEAN : BrowseNext(ids, release, fail)
    \/ \E fail \in Failures : BrowseOne(fail) \/ BrowseNextOne(fail)
    \/ \E t \in TypeNodes, fail \in Failures : InstantiateBrowse(t, fail)
    \/ Respond
    \/ NewSession
    \/ \E path \in BrowsePaths, fail \in BOOLEAN : TranslateBrowsePath(path, fail)
    \/ \E e \in NewReferences : AddReference(e.node, e.ref)
    \/ \E n \in DeletedNodes : DeleteNode(n)
    \/ \E n \in EditedNodes : Exists(nodes, n) /\ \E i \in DOMAIN nodes[n].refs : DeleteReference(n, i)
    \/ \E e \in NewReferences : AddNode(e.ref.target, e.node, e.ref.type)

Spec == Init /\ [][Next]_vars

-----------------------------------------------------------------------------
(* Properties *)

\* The continuation points of a session and its counter account for MAXCONTINUATIONPOINTS at
\* every time, whatever fails in Service_Browse_single and whichever of its paths is taken: a
\* session never holds more, never loses the right to one, and a client never waits for the
\* next page of one that is gone.
PointsAccounted ==
    /\ DOMAIN cps \subseteq CpIds
    /\ DOMAIN walk \subseteq DOMAIN cps
    /\ available \in Nat
    /\ available + Cardinality(DOMAIN cps) = MAXCONTINUATIONPOINTS

\* The pages a client receives are, put together, the references it asked for, each one
\* once and in order, as long as these references have not changed since its first request.
\* The last page is the one without a continuation point (unless there was no memory for the
\* identifier in the answer, see PointSaid), and a page with one is full.  The index of a
\* continuation point is always the number of references its client has.
PagesComplete ==
    /\ \A id \in DOMAIN walk : Len(walk[id].got) = cps[id].index
    /\ answer.op = "page" =>
        /\ answer.cp # Null => Len(answer.refs) = answer.max
        /\ answer.clean /\ answer.status = "Good" =>
               LET all == Wanted(nodes, answer.descr)
               IN  IF answer.cp = Null /\ ~answer.unsaid
                   THEN answer.got = all
                   ELSE IsPrefix(answer.got, all)

\* A page after which references are left says so: Service_Browse_single is to "return the cp
\* identifier" (ua_services_view.c:338).
PointSaid == answer.op = "page" => ~answer.unsaid

\* What walkBrowsePath finds is what a path names: the nodes that are reached over references
\* of the right type (or a subtype), direction and name, and no others.
TargetsFrom(ns, path) ==
    LET Reached[k \in 0 .. Len(path.elements)] ==
            IF k = 0 THEN {path.start}
            ELSE LET e == path.elements[k]
                 IN  {t \in NodeIds : Exists(ns, t) /\ ns[t].name = e.name
                        /\ \E n \in Reached[k - 1] : \E i \in DOMAIN ns[n].refs :
                              LET r == ns[n].refs[i]
                              IN  /\ r.target = t
                                  /\ \/ e.type = Null
                                     \/ /\ r.inverse = e.inverse
                                        /\ r.type \in WantedTypes(ns, e.type, e.subtypes)}
    IN  Reached[Len(path.elements)]
PathsResolved ==
    answer.op = "translate" /\ answer.status \in {"Good", "BadNoMatch"} =>
        ToSet(answer.targets) = TargetsFrom(nodes, answer.path)
=============================================================================
