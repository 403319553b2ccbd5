----------------------------- MODULE ViewProofs -----------------------------
(***************************************************************************)
(* Proof about View, for any nodes, any requests and any number of         *)
(* continuation points.                                                    *)
(***************************************************************************)
EXTENDS View, FiniteSetTheorems, TLAPS

\* The identifiers in use are finitely many and fewer than there are.
LEMMA PointsFinite ==
    ASSUME PointsAccounted
    PROVE  /\ IsFiniteSet(DOMAIN cps)
           /\ Cardinality(DOMAIN cps) \in Nat
           /\ Cardinality(DOMAIN cps) <= MAXCONTINUATIONPOINTS
<1>1. IsFiniteSet(DOMAIN cps)
  BY FS_Subset, IdsAssumption DEF PointsAccounted
<1>2. Cardinality(DOMAIN cps) \in Nat
  BY <1>1, FS_CardinalityType
<1>. QED
  BY <1>1, <1>2, BoundsAssumption DEF PointsAccounted

\* A new continuation point has an identifier that is not in use.
LEMMA NewIdFresh ==
    ASSUME PointsAccounted
    PROVE  NewId \in CpIds \ DOMAIN cps
<1>1. DOMAIN cps # CpIds
  BY PointsFinite, IdsAssumption, BoundsAssumption, FS_CardinalityType
<1>2. \E id \in CpIds : id \notin DOMAIN cps
  BY <1>1 DEF PointsAccounted
<1>. QED
  BY <1>2 DEF NewId

\* removeCp gives back what it takes away.
LEMMA RemoveAccounted ==
    ASSUME PointsAccounted, NEW id \in DOMAIN cps, removeCp(id), Forget(id)
    PROVE  PointsAccounted'
<1>1. DOMAIN cps' = DOMAIN cps \ {id}
  BY DEF removeCp, Restrict
<1>2. Cardinality(DOMAIN cps') = Cardinality(DOMAIN cps) - 1
  BY <1>1, PointsFinite, FS_RemoveElement
<1>3. DOMAIN walk' \subseteq DOMAIN cps'
  BY <1>1 DEF Forget, Restrict, PointsAccounted
<1>4. available' \in Nat /\ available' + Cardinality(DOMAIN cps') = MAXCONTINUATIONPOINTS
  <2>1. available' = available + 1
    BY DEF removeCp
  <2>. QED
    BY <1>2, <2>1, PointsFinite, BoundsAssumption DEF PointsAccounted
<1>. QED
  BY <1>1, <1>3, <1>4 DEF PointsAccounted

\* Creating a continuation point uses up one that was available.
LEMMA CreateAccounted ==
    ASSUME PointsAccounted, available # 0, NEW d, NEW max, NEW count,
           createCp(NewId, d, max, count),
           DOMAIN walk' \subseteq DOMAIN walk \cup {NewId}
    PROVE  PointsAccounted'
<1>1. DOMAIN cps' = DOMAIN cps \cup {NewId}
  BY DEF createCp
<1>2. Cardinality(DOMAIN cps') = Cardinality(DOMAIN cps) + 1
  BY <1>1, NewIdFresh, PointsFinite, FS_AddElement
<1>. QED
  BY <1>1, <1>2, NewIdFresh, PointsFinite, BoundsAssumption DEF createCp, PointsAccounted

LEMMA FirstAccounted ==
    ASSUME PointsAccounted, NEW d, NEW max, NEW fail, NEW known, BrowseFirst(d, max, fail, known)
    PROVE  PointsAccounted'
<1>1. CASE UNCHANGED <<cps, available, walk>>
  BY <1>1 DEF PointsAccounted
<1>2. CASE ~UNCHANGED <<cps, available, walk>>
  <2>1. NewId # Null
    BY NewIdFresh, IdsAssumption
  <2>2. available # 0 /\ \E e, count : createCp(NewId, e, max, count)
    BY <1>2, <2>1, ZenonT(30) DEF BrowseFirst
  <2>3. DOMAIN walk' \subseteq DOMAIN walk \cup {NewId}
    <3>1. CASE UNCHANGED walk
      BY <3>1
    <3>2. CASE \E got, clean : Remember(NewId, got, clean)
      BY <3>2 DEF Remember
    <3>. QED
      BY <3>1, <3>2, ZenonT(30) DEF BrowseFirst
  <2>. QED
    BY <2>2, <2>3, CreateAccounted
<1>. QED
  BY <1>1, <1>2

LEMMA MoreAccounted ==
    ASSUME PointsAccounted, NEW id \in DOMAIN cps, NEW fail, BrowseMore(id, fail)
    PROVE  PointsAccounted'
<1>1. CASE UNCHANGED <<cps, available, walk>>
  BY <1>1 DEF PointsAccounted
<1>2. CASE removeCp(id) /\ Forget(id)
  BY <1>2, RemoveAccounted
<1>3. CASE /\ DOMAIN cps' = DOMAIN cps /\ available' = available
           /\ UNCHANGED walk \/ DOMAIN walk' = DOMAIN walk \cup {id}
  BY <1>3 DEF PointsAccounted
<1>. QED
  BY <1>1, <1>2, <1>3, ZenonT(30) DEF BrowseMore, updateCp, Remember

\* The nodes may change in any way: the continuation points do not.
LEMMA ChangeAccounted ==
    ASSUME PointsAccounted, NEW ns, Change(ns)
    PROVE  PointsAccounted'
BY DEF Change, PointsAccounted

LEMMA NextAccounted ==
    ASSUME PointsAccounted, [Next]_vars
    PROVE  PointsAccounted'
<1>1. ASSUME NEW fail, BrowseOne(fail) PROVE PointsAccounted'
  BY <1>1, FirstAccounted, Zenon DEF BrowseOne
<1>2. ASSUME NEW fail, BrowseNextOne(fail) PROVE PointsAccounted'
  <2>1. CASE UNCHANGED <<cps, available, walk>>
    BY <2>1 DEF PointsAccounted
  <2>2. CASE Head(pending).id \in DOMAIN cps
    BY <1>2, <2>2, MoreAccounted, RemoveAccounted DEF BrowseNextOne
  <2>. QED
    BY <1>2, <2>1, <2>2 DEF BrowseNextOne
<1>3. ASSUME NEW t, NEW fail, InstantiateBrowse(t, fail) PROVE PointsAccounted'
  BY <1>3, FirstAccounted, Zenon DEF InstantiateBrowse
<1>4. CASE NewSession
  BY <1>4, FS_EmptySet, BoundsAssumption DEF NewSession, PointsAccounted
<1>5. ASSUME NEW e, AddReference(e.node, e.ref) PROVE PointsAccounted'
  BY <1>5, ChangeAccounted DEF AddReference
<1>6. ASSUME NEW n, NEW i, DeleteReference(n, i) PROVE PointsAccounted'
  BY <1>6, ChangeAccounted DEF DeleteReference
<1>7. ASSUME NEW n, DeleteNode(n) PROVE PointsAccounted'
  BY <1>7, ChangeAccounted DEF DeleteNode
<1>8. ASSUME NEW e, AddNode(e.ref.target, e.node, e.ref.type) PROVE PointsAccounted'
  BY <1>8, ChangeAccounted DEF AddNode
<1>9. CASE UNCHANGED <<cps, available, walk>>
  BY <1>9 DEF PointsAccounted
<1>10. ASSUME NEW ds, NEW max, NEW refused, Browse(ds, max, refused) PROVE UNCHANGED <<cps, available, walk>>
  BY <1>10 DEF Browse
<1>11. ASSUME NEW ids, NEW release, NEW fail, BrowseNext(ids, release, fail)
       PROVE  UNCHANGED <<cps, available, walk>>
  BY <1>11 DEF BrowseNext
<1>12. ASSUME NEW path, NEW fail, TranslateBrowsePath(path, fail) PROVE UNCHANGED <<cps, available, walk>>
  BY <1>12 DEF TranslateBrowsePath
<1>13. CASE Respond
  BY <1>13, <1>9 DEF Respond
<1>14. CASE UNCHANGED vars
  BY <1>14, <1>9 DEF vars
<1>. QED
  BY <1>1, <1>2, <1>3, <1>4, <1>5, <1>6, <1>7, <1>8, <1>9, <1>10, <1>11, <1>12, <1>13, <1>14 DEF Next

\* The continuation points of a session and its counter always add up to
\* MAXCONTINUATIONPOINTS (Service_Browse_single, Service_BrowseNext, removeCp), for any limit,
\* any nodes and whatever happens to the nodes between two requests.
THEOREM PointsNeverLost == Spec => []PointsAccounted
<1>1. Init => PointsAccounted
  BY FS_EmptySet, BoundsAssumption DEF Init, PointsAccounted
<1>2. PointsAccounted /\ [Next]_vars => PointsAccounted'
  BY NextAccounted
<1>. QED
  BY <1>1, <1>2, PTL DEF Spec
=============================================================================
