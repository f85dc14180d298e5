------------------------- MODULE BlobLifecycleProofs -------------------------
(***************************************************************************)
(* Type correctness of BlobLifecycle, and that object_map never needs two  *)
(* rows of a file with one version number, for every set of nodes, keys    *)
(* and requests, every cap and every set of operations.                    *)
(*                                                                         *)
(* The first part has lemmas about the statements of ObjectMap.  A table   *)
(* is well formed when its rows have the right columns, the versions of a  *)
(* node have an upper bound (so that MAX(version_number) exists) and no    *)
(* version number of a node is taken twice (the constraint                 *)
(* object_map_version_unique).                                             *)
(***************************************************************************)
EXTENDS BlobLifecycle, WellFoundedInduction, FiniteSetTheorems, TLAPS

Bounded(R) == \A n \in Node : \E b \in Nat : \A r \in RowsOf(R, n) : r.ver <= b

DistinctVersions(R) == \A r, s \in R : (r.node = s.node /\ r.ver = s.ver) => r = s

WellFormed(R) == R \subseteq Row /\ Bounded(R) /\ DistinctVersions(R)

-----------------------------------------------------------------------------
\* A non-empty set of naturals with an upper bound has a greatest element.
LEMMA GreatestElement ==
    ASSUME NEW S, S \subseteq Nat, S # {}, NEW b \in Nat, \A v \in S : v <= b
    PROVE  \E m \in S : \A v \in S : v <= m
<1> DEFINE Upper == {u \in Nat : \A v \in S : v <= u}
<1> DEFINE Less == OpToRel(<, Nat)
<1>1. Upper # {} /\ Upper \subseteq Nat
    OBVIOUS
<1>2. PICK u \in Upper : \A w \in Upper : ~(<<w, u>> \in Less)
    <2> HIDE DEF Upper
    <2> QED BY <1>1, NatLessThanWellFounded, WFMin
<1>3. \A x, y \in Nat : x < y => <<x, y>> \in Less
    BY DEF OpToRel
<1>4. ASSUME NEW w \in Upper PROVE u <= w
    <2>1. CASE w < u
        <3> HIDE DEF Less
        <3>1. <<w, u>> \in Less
            BY <1>3, <2>1
        <3> QED BY <1>2, <3>1
    <2> QED BY <2>1
<1>5. u \in S
    <2>1. SUFFICES ASSUME u \notin S PROVE FALSE
        OBVIOUS
    <2>2. PICK v \in S : v <= u
        OBVIOUS
    <2>3. u - 1 \in Nat
        BY <2>1, <2>2
    <2>4. \A w \in S : w <= u - 1
        BY <2>1
    <2>5. u - 1 \in Upper
        BY <2>3, <2>4
    <2> QED BY <1>4, <2>5
<1> QED BY <1>5

\* MAX(version_number) is the greatest version of the node, 0 if it has none.
LEMMA MaxVersionIsGreatest ==
    ASSUME NEW R, WellFormed(R), NEW n \in Node
    PROVE  /\ MaxVersion(R, n) \in Nat
           /\ \A r \in RowsOf(R, n) : r.ver <= MaxVersion(R, n)
<1>1. Versions(R, n) \subseteq Nat /\ Versions(R, n) # {}
    BY DEF WellFormed, Versions, RowsOf, Row
<1>2. PICK b \in Nat : \A r \in RowsOf(R, n) : r.ver <= b
    BY DEF WellFormed, Bounded
<1>3. \A v \in Versions(R, n) : v <= b
    BY <1>2 DEF Versions
<1>4. \E m \in Versions(R, n) : \A v \in Versions(R, n) : v <= m
    BY <1>1, <1>3, GreatestElement
<1>5. /\ MaxVersion(R, n) \in Versions(R, n)
      /\ \A v \in Versions(R, n) : v <= MaxVersion(R, n)
    BY <1>4 DEF MaxVersion
<1> QED BY <1>1, <1>5 DEF Versions

\* ORDER BY version_number DESC has a first row.
LEMMA NewestIsMember ==
    ASSUME NEW R, WellFormed(R), NEW S, S \subseteq R, S # {}, NEW n \in Node,
           \A r \in S : r.node = n
    PROVE  Newest(S) \in S
<1> DEFINE V == {r.ver : r \in S}
<1>1. PICK b \in Nat : \A r \in RowsOf(R, n) : r.ver <= b
    BY DEF WellFormed, Bounded
<1>2. V \subseteq Nat /\ V # {} /\ \A v \in V : v <= b
    BY <1>1 DEF WellFormed, Row, RowsOf
<1>3. PICK m \in V : \A v \in V : v <= m
    <2> HIDE DEF V
    <2> QED BY <1>2, GreatestElement
<1>4. \E r \in S : \A q \in S : q.ver <= r.ver
    BY <1>3
<1> QED BY <1>4 DEF Newest

\* The number of the inserted row is positive and above every number in use.
LEMMA NextVersionIsNew ==
    ASSUME NEW R, WellFormed(R), NEW n \in Node
    PROVE  /\ NextVersion(R, n) \in Nat \ {0}
           /\ \A r \in RowsOf(R, n) : r.ver < NextVersion(R, n)
<1>1. \A r \in RowsOf(R, n) : r.ver \in Nat
    BY DEF WellFormed, RowsOf, Row
<1> QED BY <1>1, MaxVersionIsGreatest DEF NextVersion

-----------------------------------------------------------------------------
\* The table of a new installation is empty.
LEMMA EmptyWellFormed == WellFormed({})
BY DEF WellFormed, Bounded, DistinctVersions, RowsOf

\* A statement that only deletes keeps a table well formed.
LEMMA SubsetWellFormed ==
    ASSUME NEW R, WellFormed(R), NEW Q, Q \subseteq R
    PROVE  WellFormed(Q)
BY DEF WellFormed, Bounded, DistinctVersions, RowsOf

\* Every row of an updated table has the node and the version of a row of the
\* table before: the update takes no number and frees none.
LEMMA SetStatusWellFormed ==
    ASSUME NEW R, WellFormed(R), NEW S, S \subseteq R, NEW st \in Status
    PROVE  WellFormed(SetStatus(R, S, st))
<1> DEFINE Q == SetStatus(R, S, st)
<1>1. R \subseteq Row
    BY DEF WellFormed
<1>2. \A q \in Q : /\ q \in Row
                   /\ \E r \in R : /\ r.node = q.node /\ r.ver = q.ver
                                   /\ q = IF r \in S THEN [r EXCEPT !.st = st] ELSE r
    BY <1>1 DEF SetStatus, Row
<1> HIDE DEF Q
<1>3. Bounded(Q)
    <2>1. SUFFICES ASSUME NEW n \in Node
                   PROVE  \E b \in Nat : \A q \in RowsOf(Q, n) : q.ver <= b
        BY DEF Bounded
    <2>2. PICK b \in Nat : \A r \in RowsOf(R, n) : r.ver <= b
        BY DEF WellFormed, Bounded
    <2>3. \A q \in RowsOf(Q, n) : q.ver <= b
        BY <1>2, <2>2 DEF RowsOf
    <2> QED BY <2>3
<1>4. DistinctVersions(Q)
    <2>1. SUFFICES ASSUME NEW p \in Q, NEW q \in Q, p.node = q.node, p.ver = q.ver
                   PROVE  p = q
        BY DEF DistinctVersions
    <2>2. PICK r \in R : /\ r.node = p.node /\ r.ver = p.ver
                         /\ p = IF r \in S THEN [r EXCEPT !.st = st] ELSE r
        BY <1>2
    <2>3. PICK s \in R : /\ s.node = q.node /\ s.ver = q.ver
                         /\ q = IF s \in S THEN [s EXCEPT !.st = st] ELSE s
        BY <1>2
    <2>4. r = s
        BY <2>1, <2>2, <2>3 DEF WellFormed, DistinctVersions
    <2> QED BY <2>2, <2>3, <2>4
<1>5. Q \subseteq Row
    BY <1>2
<1> QED BY <1>3, <1>4, <1>5 DEF WellFormed, Q

\* INSERT of a row whose number is above every number of its node.
LEMMA InsertWellFormed ==
    ASSUME NEW R, WellFormed(R), NEW r \in Row,
           \A q \in RowsOf(R, r.node) : q.ver < r.ver
    PROVE  WellFormed(R \cup {r})
<1> DEFINE Q == R \cup {r}
<1>1. r.node \in Node /\ r.ver \in Nat
    BY DEF Row
<1>2. \A q \in R : q.ver \in Nat
    BY DEF WellFormed, Row
<1>3. Q \subseteq Row
    BY DEF WellFormed
<1>4. Bounded(Q)
    <2>1. SUFFICES ASSUME NEW n \in Node
                   PROVE  \E b \in Nat : \A q \in RowsOf(Q, n) : q.ver <= b
        BY DEF Bounded
    <2>2. CASE n = r.node
        <3>1. \A q \in RowsOf(Q, n) : q.ver <= r.ver
            BY <1>1, <1>2, <2>2 DEF RowsOf
        <3> QED BY <1>1, <3>1
    <2>3. CASE n # r.node
        <3>1. RowsOf(Q, n) = RowsOf(R, n)
            BY <2>3 DEF RowsOf
        <3> QED BY <3>1 DEF WellFormed, Bounded
    <2> QED BY <2>2, <2>3
<1>5. DistinctVersions(Q)
    <2>1. \A q \in R : q.node = r.node => q.ver # r.ver
        BY <1>1, <1>2 DEF RowsOf
    <2> QED BY <2>1 DEF WellFormed, DistinctVersions
<1> QED BY <1>3, <1>4, <1>5 DEF WellFormed

-----------------------------------------------------------------------------
(* The statements, one by one.                                             *)

\* upsertObjectMap never numbers two rows of a node alike.
LEMMA UpsertWellFormed ==
    ASSUME NEW R, WellFormed(R), NEW n \in Node, NEW k \in Key, NEW st \in Status
    PROVE  WellFormed(Upsert(R, n, k, st))
<1> DEFINE D == DemoteActive(R, n)
           r == [node |-> n, key |-> k, ver |-> NextVersion(R, n), st |-> st]
<1>1. NextVersion(R, n) \in Nat \ {0} /\ \A q \in RowsOf(R, n) : q.ver < NextVersion(R, n)
    BY NextVersionIsNew
<1>2. r \in Row
    BY <1>1 DEF Row
<1>3. ActiveRows(R, n) \subseteq R /\ "history" \in Status
    BY DEF ActiveRows, Having, RowsOf, Status
<1>4. WellFormed(D)
    BY <1>3, SetStatusWellFormed DEF DemoteActive
<1>5. \A q \in D : \E p \in R : p.node = q.node /\ p.ver = q.ver
    BY <1>3 DEF DemoteActive, SetStatus, WellFormed, Row
<1>6. \A q \in RowsOf(D, n) : q.ver < NextVersion(R, n)
    <2> HIDE DEF D
    <2> QED BY <1>1, <1>5 DEF RowsOf
<1>7. r.node = n /\ r.ver = NextVersion(R, n)
    OBVIOUS
<1>8. WellFormed(D \cup {r})
    <2> HIDE DEF D, r
    <2> QED BY <1>2, <1>4, <1>6, <1>7, InsertWellFormed
<1> QED BY <1>8 DEF Upsert

\* A copied node's first row: the node must have no row yet.
LEMMA InsertFirstWellFormed ==
    ASSUME NEW R, WellFormed(R), NEW n \in Node, NEW k \in Key, RowsOf(R, n) = {}
    PROVE  WellFormed(InsertFirst(R, n, k))
<1> DEFINE r == [node |-> n, key |-> k, ver |-> 1, st |-> "active"]
<1>1. r \in Row /\ r.node = n
    BY DEF Row, Status
<1>2. WellFormed(R \cup {r})
    <2> HIDE DEF r
    <2> QED BY <1>1, InsertWellFormed
<1> QED BY <1>2 DEF InsertFirst

\* Demoting the active rows of a node touches no number.
LEMMA DemoteActiveWellFormed ==
    ASSUME NEW R, WellFormed(R), NEW n \in Node
    PROVE  WellFormed(DemoteActive(R, n))
<1>1. ActiveRows(R, n) \subseteq R /\ "history" \in Status
    BY DEF ActiveRows, Having, RowsOf, Status
<1> QED BY <1>1, SetStatusWellFormed DEF DemoteActive

\* evictVersionsBeyondCap only changes the status of rows.
LEMMA EvictWellFormed ==
    ASSUME NEW R, WellFormed(R), NEW n \in Node, NEW cap \in Nat
    PROVE  WellFormed(Evict(R, n, cap))
<1> DEFINE hist   == Having(R, n, {"history"})
           excess == Cardinality(Having(R, n, {"active", "history"})) - cap
           S      == {r \in hist : Cardinality({q \in hist : q.ver < r.ver}) < excess}
<1>1. S \subseteq R /\ "orphaned" \in Status
    BY DEF Having, RowsOf, Status
<1>2. WellFormed(SetStatus(R, S, "orphaned"))
    <2> HIDE DEF S
    <2> QED BY <1>1, SetStatusWellFormed
<1>3. Evict(R, n, cap) = IF cap = 0 THEN R ELSE SetStatus(R, S, "orphaned")
    BY DEF Evict
<1> QED BY <1>2, <1>3

\* activateObject only changes the status of rows.
LEMMA ActivateWellFormed ==
    ASSUME NEW R, WellFormed(R), NEW k \in Key
    PROVE  WellFormed(Activate(R, k))
<1> DEFINE S == {r \in R : r.key = k /\ r.st = "pending"}
<1>1. S \subseteq R /\ "active" \in Status
    BY DEF Status
<1> QED BY <1>1, SetStatusWellFormed DEF Activate

\* The reactivated key may be absent (an overwrite that had no previous row).
LEMMA ReactivateWellFormed ==
    ASSUME NEW R, WellFormed(R), NEW n, NEW k
    PROVE  WellFormed(Reactivate(R, n, k))
<1> DEFINE S == {r \in RowsOf(R, n) : r.key = k /\ r.st \in {"history", "orphaned"}}
<1>1. S \subseteq R /\ "active" \in Status
    BY DEF RowsOf, Status
<1> QED BY <1>1, SetStatusWellFormed DEF Reactivate

\* demoteActiveToHistory only changes the status of rows.
LEMMA DemoteByKeyWellFormed ==
    ASSUME NEW R, WellFormed(R), NEW k
    PROVE  WellFormed(DemoteByKey(R, k))
<1> DEFINE S == {r \in R : r.key = k /\ r.st = "active"}
<1>1. S \subseteq R /\ "history" \in Status
    BY DEF Status
<1> QED BY <1>1, SetStatusWellFormed DEF DemoteByKey

\* deleteObjectMapRows only removes rows.
LEMMA DeleteRowsWellFormed ==
    ASSUME NEW R, WellFormed(R), NEW ids
    PROVE  WellFormed(DeleteRows(R, ids))
BY SubsetWellFormed DEF DeleteRows

\* The cascade of a deleted node only removes rows.
LEMMA CascadeDeleteWellFormed ==
    ASSUME NEW R, WellFormed(R), NEW n
    PROVE  WellFormed(CascadeDelete(R, n))
BY SubsetWellFormed DEF CascadeDelete
-----------------------------------------------------------------------------
(* Which nodes the rows of an updated table belong to.                     *)

\* An update gives no row to a node that had none.
LEMMA SetStatusNodes ==
    ASSUME NEW R, R \subseteq Row, NEW S, S \subseteq R, NEW st
    PROVE  \A q \in SetStatus(R, S, st) : \E r \in R : r.node = q.node
BY DEF SetStatus, Row

\* upsertObjectMap gives a row to its node and to no other.
LEMMA UpsertNodes ==
    ASSUME NEW R, R \subseteq Row, NEW n, NEW k, NEW st
    PROVE  \A q \in Upsert(R, n, k, st) : q.node = n \/ \E r \in R : r.node = q.node
<1>1. ActiveRows(R, n) \subseteq R
    BY DEF ActiveRows, Having, RowsOf
<1>2. \A q \in DemoteActive(R, n) : \E r \in R : r.node = q.node
    BY <1>1, SetStatusNodes DEF DemoteActive
<1> QED BY <1>2 DEF Upsert

\* evictVersionsBeyondCap gives no row to a node that had none.
LEMMA EvictNodes ==
    ASSUME NEW R, R \subseteq Row, NEW n, NEW cap
    PROVE  \A q \in Evict(R, n, cap) : \E r \in R : r.node = q.node
<1> DEFINE hist   == Having(R, n, {"history"})
           excess == Cardinality(Having(R, n, {"active", "history"})) - cap
           S      == {r \in hist : Cardinality({q \in hist : q.ver < r.ver}) < excess}
<1>1. S \subseteq R
    BY DEF Having, RowsOf
<1>2. \A q \in SetStatus(R, S, "orphaned") : \E r \in R : r.node = q.node
    <2> HIDE DEF S
    <2> QED BY <1>1, SetStatusNodes
<1>3. Evict(R, n, cap) = IF cap = 0 THEN R ELSE SetStatus(R, S, "orphaned")
    BY DEF Evict
<1> QED BY <1>2, <1>3

-----------------------------------------------------------------------------
(* Tables in which a key has one row: a statement by key changes one row.  *)

OneRowEach(R) == \A r, s \in R : r.key = s.key => r = s

\* The table R with the row r given the status st.
Restated(R, r, st) == (R \ {r}) \cup {[r EXCEPT !.st = st]}

\* A status update gives no row another key.
LEMMA SetStatusOneRow ==
    ASSUME NEW R, R \subseteq Row, OneRowEach(R), NEW S, S \subseteq R, NEW st
    PROVE  OneRowEach(SetStatus(R, S, st))
<1>1. \A q \in SetStatus(R, S, st) :
         \E r \in R : r.key = q.key /\ (IF r \in S THEN q = [r EXCEPT !.st = st] ELSE q = r)
  <2>1. \A r \in S : [r EXCEPT !.st = st].key = r.key
    BY DEF Row
  <2> QED BY <2>1 DEF SetStatus
<1> QED BY <1>1 DEF OneRowEach

\* What a status update makes of each row, and where each row of the result is from.
LEMMA SetStatusRows ==
    ASSUME NEW R, R \subseteq Row, NEW S, S \subseteq R, NEW st
    PROVE  /\ R \ S \subseteq SetStatus(R, S, st)
           /\ \A r \in S : \E q \in SetStatus(R, S, st) :
                 q.node = r.node /\ q.key = r.key /\ q.ver = r.ver /\ q.st = st
           /\ \A q \in SetStatus(R, S, st) :
                 \/ q \in R \ S
                 \/ \E r \in S : q.node = r.node /\ q.key = r.key /\ q.ver = r.ver /\ q.st = st
<1>1. \A r \in S : LET q == [r EXCEPT !.st = st]
                   IN  q.node = r.node /\ q.key = r.key /\ q.ver = r.ver /\ q.st = st
  BY DEF Row
<1> QED BY <1>1 DEF SetStatus

\* The update of one row, row by row.
LEMMA RestatedRows ==
    ASSUME NEW R, R \subseteq Row, NEW r \in R, NEW st
    PROVE  \E q : /\ q.node = r.node /\ q.key = r.key /\ q.ver = r.ver /\ q.st = st
                  /\ Restated(R, r, st) = (R \ {r}) \cup {q}
<1>1. LET q == [r EXCEPT !.st = st]
      IN  q.node = r.node /\ q.key = r.key /\ q.ver = r.ver /\ q.st = st
  BY DEF Row
<1> QED BY <1>1 DEF Restated

\* An update of the rows of a key that finds the row r updates that row; one that
\* finds no row changes nothing.
LEMMA SetStatusOfOne ==
    ASSUME NEW R, NEW r \in R, NEW st
    PROVE  SetStatus(R, {r}, st) = Restated(R, r, st)
BY DEF SetStatus, Restated

\* activateObject on a key with a pending row.
LEMMA ActivateOne ==
    ASSUME NEW R, OneRowEach(R), NEW r \in R, r.st = "pending"
    PROVE  Activate(R, r.key) = Restated(R, r, "active")
<1>1. {q \in R : q.key = r.key /\ q.st = "pending"} = {r}
  BY DEF OneRowEach
<1> QED BY <1>1, SetStatusOfOne DEF Activate

\* A row that reactivateObjectMapRow would make active.
Restorable(r, n, k) == r.node = n /\ r.key = k /\ r.st \in {"history", "orphaned"}

\* reactivateObjectMapRow makes those rows active and leaves the others.
LEMMA ReactivateRows ==
    ASSUME NEW R, R \subseteq Row, NEW n, NEW k, NEW Q, Q = Reactivate(R, n, k)
    PROVE  /\ \A r \in R : ~Restorable(r, n, k) => r \in Q
           /\ \A r \in R : Restorable(r, n, k) =>
                 \E q \in Q : q.node = n /\ q.key = k /\ q.ver = r.ver /\ q.st = "active"
           /\ \A q \in Q :
                 \/ q \in R /\ ~Restorable(q, n, k)
                 \/ /\ q.node = n /\ q.key = k /\ q.st = "active"
                    /\ \E r \in R : Restorable(r, n, k) /\ q.ver = r.ver
           /\ OneRowEach(R) => OneRowEach(Q)
<1> DEFINE S == {r \in RowsOf(R, n) : r.key = k /\ r.st \in {"history", "orphaned"}}
<1>1. S \subseteq R /\ \A r \in R : r \in S <=> Restorable(r, n, k)
  BY DEF RowsOf, Restorable
<1>2. Q = SetStatus(R, S, "active")
  BY DEF Reactivate
<1>3. \A r \in S : r.node = n /\ r.key = k
  BY DEF RowsOf
<1> HIDE DEF S
<1> QED BY <1>1, <1>2, <1>3, SetStatusRows, SetStatusOneRow

\* activateObject, when the rows of the key are pending, makes them active and leaves
\* the others.
LEMMA ActivateRows ==
    ASSUME NEW R, R \subseteq Row, NEW k, \A r \in R : r.key = k => r.st = "pending",
           NEW Q, Q = Activate(R, k)
    PROVE  /\ \A r \in R : r.key # k => r \in Q
           /\ \A r \in R : r.key = k =>
                 \E q \in Q : q.node = r.node /\ q.key = k /\ q.ver = r.ver /\ q.st = "active"
           /\ \A q \in Q :
                 \/ q \in R /\ q.key # k
                 \/ /\ q.key = k /\ q.st = "active"
                    /\ \E r \in R : r.key = k /\ q.node = r.node /\ q.ver = r.ver
           /\ OneRowEach(R) => OneRowEach(Q)
<1> DEFINE S == {r \in R : r.key = k /\ r.st = "pending"}
<1>1. S \subseteq R /\ \A r \in R : r \in S <=> r.key = k
  OBVIOUS
<1>2. Q = SetStatus(R, S, "active")
  BY DEF Activate
<1> HIDE DEF S
<1> QED BY <1>1, <1>2, SetStatusRows, SetStatusOneRow

\* demoteActiveToHistory makes the active rows of a key history and leaves the others.
LEMMA DemoteRows ==
    ASSUME NEW R, R \subseteq Row, NEW k, NEW Q, Q = DemoteByKey(R, k)
    PROVE  /\ \A r \in R : ~(r.key = k /\ r.st = "active") => r \in Q
           /\ \A r \in R : r.key = k /\ r.st = "active" =>
                 \E q \in Q : q.node = r.node /\ q.key = k /\ q.ver = r.ver /\ q.st = "history"
           /\ \A q \in Q :
                 \/ q \in R /\ ~(q.key = k /\ q.st = "active")
                 \/ /\ q.key = k /\ q.st = "history"
                    /\ \E r \in R : /\ r.key = k /\ r.st = "active"
                                    /\ q.node = r.node /\ q.ver = r.ver
           /\ OneRowEach(R) => OneRowEach(Q)
<1> DEFINE S == {r \in R : r.key = k /\ r.st = "active"}
<1>1. S \subseteq R /\ \A r \in R : r \in S <=> r.key = k /\ r.st = "active"
  OBVIOUS
<1>2. Q = SetStatus(R, S, "history")
  BY DEF DemoteByKey
<1> HIDE DEF S
<1> QED BY <1>1, <1>2, SetStatusRows, SetStatusOneRow

\* The rows of a node are finitely many: their versions are distinct and bounded.
LEMMA RowsFinite ==
    ASSUME NEW R, WellFormed(R), NEW n \in Node
    PROVE  IsFiniteSet(RowsOf(R, n))
<1>1. PICK b \in Nat : \A r \in RowsOf(R, n) : r.ver <= b
  BY DEF WellFormed, Bounded
<1> DEFINE f == [r \in RowsOf(R, n) |-> r.ver]
<1>2. f \in Injection(RowsOf(R, n), 0..b)
  <2>1. \A r \in RowsOf(R, n) : r \in R /\ r.node = n /\ r.ver \in 0..b
    BY <1>1 DEF WellFormed, RowsOf, Row
  <2>2. f \in [RowsOf(R, n) -> 0..b]
    BY <2>1
  <2>3. \A r, s \in RowsOf(R, n) : f[r] = f[s] => r = s
    BY <2>1 DEF WellFormed, DistinctVersions
  <2> HIDE DEF f
  <2> QED BY <2>2, <2>3 DEF Injection, IsInjective
<1>3. IsFiniteSet(0..b)
  BY FS_Interval
<1> HIDE DEF f
<1> QED BY <1>2, <1>3, FS_Injection

\* evictVersionsBeyondCap leaves every row its node, key and version, makes orphaned
\* rows of history rows of the node only, and never of the newest one of a node
\* without an active row.
LEMMA EvictRows ==
    ASSUME NEW R, WellFormed(R), NEW n \in Node, NEW cap \in Nat
    PROVE  /\ \A r \in R : \E q \in Evict(R, n, cap) :
                 /\ q.node = r.node /\ q.key = r.key /\ q.ver = r.ver
                 /\ q = r \/ (r.node = n /\ r.st = "history" /\ q.st = "orphaned")
           /\ \A q \in Evict(R, n, cap) : \E r \in R :
                 /\ q.node = r.node /\ q.key = r.key /\ q.ver = r.ver
                 /\ q = r \/ (r.node = n /\ r.st = "history" /\ q.st = "orphaned")
           /\ OneRowEach(R) => OneRowEach(Evict(R, n, cap))
<1> DEFINE hist == Having(R, n, {"history"})
           excess == Cardinality(Having(R, n, {"active", "history"})) - cap
           S == {r \in hist : Cardinality({q \in hist : q.ver < r.ver}) < excess}
<1>1. R \subseteq Row
  BY DEF WellFormed
<1>2. CASE cap = 0
  BY <1>2 DEF Evict
<1>3. CASE cap # 0
  <2>1. S \subseteq R /\ \A r \in S : r.node = n /\ r.st = "history"
    BY DEF Having, RowsOf
  <2>2. Evict(R, n, cap) = SetStatus(R, S, "orphaned")
    BY <1>3 DEF Evict
  <2> HIDE DEF S
  <2> QED BY <1>1, <2>1, <2>2, SetStatusRows, SetStatusOneRow
<1> QED BY <1>2, <1>3

\* The newest history row of a node without an active row is not evicted.
LEMMA EvictKeepsNewest ==
    ASSUME NEW R, WellFormed(R), NEW n \in Node, NEW cap \in Nat, ActiveRows(R, n) = {},
           NEW r \in Having(R, n, {"history"}), \A q \in Having(R, n, {"history"}) : q.ver <= r.ver
    PROVE  r \in Evict(R, n, cap)
<1> DEFINE hist == Having(R, n, {"history"})
           older == {q \in hist : q.ver < r.ver}
           excess == Cardinality(Having(R, n, {"active", "history"})) - cap
           S == {s \in hist : Cardinality({q \in hist : q.ver < s.ver}) < excess}
<1>1. CASE cap = 0
  BY <1>1 DEF Evict, Having, RowsOf
<1>2. CASE cap # 0
  <2>1. Having(R, n, {"active", "history"}) = hist
    BY DEF ActiveRows, Having
  <2>2. older = hist \ {r}
    BY DEF WellFormed, DistinctVersions, Having, RowsOf, Row
  <2>3. IsFiniteSet(hist)
    BY RowsFinite, FS_Subset DEF Having
  <2>4. Cardinality(older) = Cardinality(hist) - 1 /\ Cardinality(hist) \in Nat
    BY <2>2, <2>3, FS_RemoveElement, FS_CardinalityType
  <2>5. ~(Cardinality(older) < excess)
    BY <1>2, <2>1, <2>4
  <2>6. r \in R \ S
    BY <2>5 DEF Having, RowsOf
  <2>7. Evict(R, n, cap) = SetStatus(R, S, "orphaned")
    BY <1>2 DEF Evict
  <2> HIDE DEF S
  <2> QED BY <2>6, <2>7 DEF SetStatus
<1> QED BY <1>1, <1>2

\* TX1 of an upload or an overwrite: the new row is pending and the newest, no row of
\* the node is active, the others keep their key and version, and the newest of those
\* that were active or history is history now.
LEMMA PrepareRows ==
    ASSUME NEW R, WellFormed(R), NEW n \in Node, NEW k \in Key, NEW cap \in Nat,
           \A r \in R : r.key # k, NEW Q, Q = Evict(Upsert(R, n, k, "pending"), n, cap)
    PROVE  /\ \E q \in Q : q.key = k
           /\ \A q \in Q : q.key = k =>
                 q.node = n /\ q.st = "pending" /\ \A r \in RowsOf(R, n) : r.ver <= q.ver
           /\ \A q \in Q : q.key # k => \E r \in R :
                 /\ q.node = r.node /\ q.key = r.key /\ q.ver = r.ver
                 /\ \/ q = r
                    \/ r.node = n /\ r.st \in {"active", "history"} /\ q.st \in {"history", "orphaned"}
           /\ \A r \in R : \E q \in Q :
                 /\ q.node = r.node /\ q.key = r.key /\ q.ver = r.ver
                 /\ \/ q = r
                    \/ r.node = n /\ r.st \in {"active", "history"} /\ q.st \in {"history", "orphaned"}
           /\ ActiveRows(Q, n) = {}
           /\ OneRowEach(R) => OneRowEach(Q)
           /\ \A r \in Having(R, n, {"active", "history"}) :
                 (\A q \in Having(R, n, {"active", "history"}) : q.ver <= r.ver) =>
                    \E q \in Q : q.node = n /\ q.key = r.key /\ q.ver = r.ver /\ q.st = "history"
<1> DEFINE new == [node |-> n, key |-> k, ver |-> NextVersion(R, n), st |-> "pending"]
           D == DemoteActive(R, n)
           U == Upsert(R, n, k, "pending")
<1>1. R \subseteq Row /\ WellFormed(U) /\ U = D \cup {new}
  BY UpsertWellFormed DEF WellFormed, Upsert, Status
<1>2. \A r \in RowsOf(R, n) : r.ver < NextVersion(R, n) /\ r.ver \in Nat /\ NextVersion(R, n) \in Nat
  BY NextVersionIsNew DEF WellFormed, RowsOf, Row
<1>3. /\ \A r \in R : \E q \in D :
            /\ q.node = r.node /\ q.key = r.key /\ q.ver = r.ver
            /\ IF r.node = n /\ r.st = "active" THEN q.st = "history" ELSE q = r
      /\ \A q \in D : \E r \in R :
            /\ q.node = r.node /\ q.key = r.key /\ q.ver = r.ver
            /\ IF r.node = n /\ r.st = "active" THEN q.st = "history" ELSE q = r
      /\ OneRowEach(R) => OneRowEach(D)
  <2>1. ActiveRows(R, n) \subseteq R /\ \A r \in R : r \in ActiveRows(R, n) <=> r.node = n /\ r.st = "active"
    BY DEF ActiveRows, Having, RowsOf
  <2> QED BY <1>1, <2>1, SetStatusRows, SetStatusOneRow DEF DemoteActive
<1>4. ActiveRows(U, n) = {}
  BY <1>1, <1>3 DEF ActiveRows, Having, RowsOf
<1>5. OneRowEach(R) => OneRowEach(U)
  BY <1>1, <1>3 DEF OneRowEach
<1> HIDE DEF U, D
<1>6. /\ \A r \in U : \E q \in Q :
            /\ q.node = r.node /\ q.key = r.key /\ q.ver = r.ver
            /\ q = r \/ (r.node = n /\ r.st = "history" /\ q.st = "orphaned")
      /\ \A q \in Q : \E r \in U :
            /\ q.node = r.node /\ q.key = r.key /\ q.ver = r.ver
            /\ q = r \/ (r.node = n /\ r.st = "history" /\ q.st = "orphaned")
      /\ OneRowEach(U) => OneRowEach(Q)
  BY <1>1, EvictRows DEF U
<1>7. \E q \in Q : q.key = k
  <2>1. new \in U /\ new.key = k
    BY <1>1
  <2> HIDE DEF new
  <2> QED BY <1>6, <2>1
<1>8. ASSUME NEW q \in Q, q.key = k
      PROVE  q.node = n /\ q.st = "pending" /\ \A r \in RowsOf(R, n) : r.ver <= q.ver
  BY <1>1, <1>2, <1>3, <1>6, <1>8
<1>9. ASSUME NEW q \in Q, q.key # k
      PROVE  \E r \in R :
                /\ q.node = r.node /\ q.key = r.key /\ q.ver = r.ver
                /\ \/ q = r
                   \/ r.node = n /\ r.st \in {"active", "history"} /\ q.st \in {"history", "orphaned"}
  <2>1. PICK u \in D : /\ q.node = u.node /\ q.key = u.key /\ q.ver = u.ver
                       /\ q = u \/ (u.node = n /\ u.st = "history" /\ q.st = "orphaned")
    BY <1>1, <1>6, <1>9
  <2> QED BY <1>3, <2>1
<1>10. ASSUME NEW r \in R
       PROVE  \E q \in Q :
                /\ q.node = r.node /\ q.key = r.key /\ q.ver = r.ver
                /\ \/ q = r
                   \/ r.node = n /\ r.st \in {"active", "history"} /\ q.st \in {"history", "orphaned"}
  <2>1. PICK u \in D : /\ u.node = r.node /\ u.key = r.key /\ u.ver = r.ver
                       /\ IF r.node = n /\ r.st = "active" THEN u.st = "history" ELSE u = r
    BY <1>3
  <2> QED BY <1>1, <1>6, <2>1
<1>11. ActiveRows(Q, n) = {}
  BY <1>4, <1>6 DEF ActiveRows, Having, RowsOf
<1>12. ASSUME NEW r \in Having(R, n, {"active", "history"}),
              \A q \in Having(R, n, {"active", "history"}) : q.ver <= r.ver
       PROVE  \E q \in Q : q.node = n /\ q.key = r.key /\ q.ver = r.ver /\ q.st = "history"
  <2>1. r \in R /\ r.node = n /\ r.st \in {"active", "history"}
    BY DEF Having, RowsOf
  <2>2. PICK u \in D : u.node = n /\ u.key = r.key /\ u.ver = r.ver /\ u.st = "history"
    BY <1>3, <2>1
  <2>3. u \in Having(U, n, {"history"})
    BY <1>1, <2>2 DEF Having, RowsOf
  <2>4. ASSUME NEW v \in Having(U, n, {"history"}) PROVE v.ver <= u.ver
    <3>1. v \in D /\ v.node = n /\ v.st = "history"
      BY <1>1 DEF Having, RowsOf
    <3>2. PICK w \in R : /\ w.node = v.node /\ w.ver = v.ver
                         /\ IF w.node = n /\ w.st = "active" THEN v.st = "history" ELSE v = w
      BY <1>3, <3>1
    <3>3. w \in Having(R, n, {"active", "history"})
      BY <3>1, <3>2 DEF Having, RowsOf
    <3> QED BY <1>12, <2>2, <3>2, <3>3
  <2>5. u \in Q
    BY <1>1, <1>4, <2>3, <2>4, EvictKeepsNewest DEF U
  <2> QED BY <2>2, <2>5
<1> QED BY <1>5, <1>6, <1>7, <1>8, <1>9, <1>10, <1>11, <1>12

-----------------------------------------------------------------------------
(***************************************************************************)
(* The state machine.                                                      *)
(***************************************************************************)
\* A request past its first step knows its node and, but for a purge, its key; one that
\* has a blob to write is of an operation that writes one.
RequestsNamed ==
    \A p \in Req :
        /\ req[p].pc # "idle" => req[p].node \in Node
        /\ req[p].pc \notin {"idle", "purge"} => req[p].key \in Key
        /\ req[p].pc \in {"dup", "duped"} => req[p].prev \in Key
        /\ req[p].pc \in {"dup", "duped", "put", "landed"} => req[p].op \in {"upload", "overwrite", "copy"}

\* The foreign key of object_map: every row has its node; so has the trash.
NodesExist ==
    /\ \A r \in rows : sync[r.node] # "absent"
    /\ \A n \in trashed : sync[n] # "absent"

\* The node a copy will create is not there yet, and no other request has it.
CopiesReserved ==
    \A p \in Req : (req[p].op = "copy" /\ req[p].pc \in {"dup", "duped"}) =>
        /\ sync[req[p].node] = "absent"
        /\ \A q \in Req \ {p} : req[q].node # req[p].node

\* The inductive invariant.  TypeOK alone is not inductive: the type of a new
\* row needs MAX(version_number) to exist, and the fields a step takes from its
\* request need it to be past the first step.
IInv == TypeOK /\ WellFormed(rows) /\ RequestsNamed /\ NodesExist /\ CopiesReserved

-----------------------------------------------------------------------------
\* A new installation satisfies the invariant: no node, no row, no request.
LEMMA Initially == Init => IInv
<1>1. SUFFICES ASSUME Init PROVE IInv
    OBVIOUS
<1>2. TypeOK
    BY <1>1 DEF Init, TypeOK, ReqState, Idle, GcState, GcIdle
<1>3. WellFormed(rows)
    BY <1>1, EmptyWellFormed DEF Init
<1>4. RequestsNamed /\ NodesExist /\ CopiesReserved
    BY <1>1 DEF Init, Idle, RequestsNamed, NodesExist, CopiesReserved
<1> QED BY <1>2, <1>3, <1>4 DEF IInv

-----------------------------------------------------------------------------
(* How a step of one request leaves the reservations of the others.        *)

\* No step but the creation of a node brings an absent node into being.
NoneCreated == \A n \in Node : sync[n] = "absent" => sync'[n] = "absent"

\* A request that ends gives up its reservation and disturbs no other.
LEMMA ReservedEnds ==
    ASSUME IInv, NoneCreated, NEW p \in Req, Ends(p)
    PROVE  CopiesReserved'
<1>1. \A q \in Req \ {p} : req'[q] = req[q]
    BY DEF IInv, TypeOK, Ends
<1>2. req'[p] = Idle
    BY DEF IInv, TypeOK, Ends
<1>3. \A q \in Req : req[q].pc \in {"dup", "duped"} => req[q].node \in Node
    BY DEF IInv, RequestsNamed
<1> QED BY <1>1, <1>2, <1>3, NoneAssumption DEF IInv, CopiesReserved, NoneCreated, Idle

\* A request that moves on within its operation keeps its reservation.
LEMMA ReservedGoes ==
    ASSUME IInv, NoneCreated, NEW p \in Req, NEW label, Goes(p, label),
           label \in {"dup", "duped"} => req[p].pc \in {"dup", "duped"}
    PROVE  CopiesReserved'
<1>1. \A q \in Req \ {p} : req'[q] = req[q]
    BY DEF IInv, TypeOK, Goes
<1>2. req'[p] = [req[p] EXCEPT !.pc = label]
    BY DEF IInv, TypeOK, Goes
<1>3. req'[p].op = req[p].op /\ req'[p].node = req[p].node /\ req'[p].pc = label
    BY <1>2 DEF IInv, TypeOK, ReqState
<1>4. \A q \in Req : req[q].pc \in {"dup", "duped"} => req[q].node \in Node
    BY DEF IInv, RequestsNamed
<1> QED BY <1>1, <1>3, <1>4 DEF IInv, CopiesReserved, NoneCreated

\* A request that takes a node which exists meets no reservation.
LEMMA ReservedBecomes ==
    ASSUME IInv, NoneCreated, NEW p \in Req, NEW s, Becomes(p, s),
           s.op # "copy", s.node \in Node, sync[s.node] # "absent"
    PROVE  CopiesReserved'
<1>1. \A q \in Req \ {p} : req'[q] = req[q]
    BY DEF IInv, TypeOK, Becomes
<1>2. req'[p] = s
    BY DEF IInv, TypeOK, Becomes
<1>3. \A q \in Req : req[q].pc \in {"dup", "duped"} => req[q].node \in Node
    BY DEF IInv, RequestsNamed
<1> QED BY <1>1, <1>2, <1>3 DEF IInv, CopiesReserved, NoneCreated

\* A step that creates an unused node meets no reservation either.
LEMMA ReservedCreates ==
    ASSUME IInv, NEW n \in Node, Unused(n), UNCHANGED req,
           \A m \in Node \ {n} : sync[m] = "absent" => sync'[m] = "absent"
    PROVE  CopiesReserved'
<1>1. \A q \in Req : req[q].pc \in {"dup", "duped"} => req[q].node \in Node
    BY DEF IInv, RequestsNamed
<1> QED BY <1>1 DEF IInv, CopiesReserved, Unused

-----------------------------------------------------------------------------
(* Steps that change no row and no node, in three shapes.                  *)

\* A request that ends without writing a row keeps the invariant.
LEMMA QuietEnds ==
    ASSUME IInv, NEW p \in Req, Ends(p), blobs' \in SUBSET Key,
           UNCHANGED <<sync, trashed, rows, minted, gc, ghosts>>
    PROVE  IInv'
<1>1. TypeOK'
    BY DEF IInv, TypeOK, Ends, ReqState, Idle, ghosts
<1>2. WellFormed(rows')
    BY DEF IInv
<1>3. RequestsNamed'
    BY DEF IInv, TypeOK, RequestsNamed, Ends, Idle
<1>4. NodesExist'
    BY DEF IInv, NodesExist
<1>5. CopiesReserved'
    BY ReservedEnds DEF NoneCreated
<1> QED BY <1>1, <1>2, <1>3, <1>4, <1>5 DEF IInv

\* A request that moves on without writing a row keeps the invariant.
LEMMA QuietGoes ==
    ASSUME IInv, NEW p \in Req, NEW label \in {"duped", "landed", "undo", "headed", "kill", "killed"},
           Goes(p, label), req[p].pc \notin {"idle", "purge"},
           label = "duped" => req[p].pc = "dup", label = "landed" => req[p].pc = "put",
           blobs' \in SUBSET Key, content' \in [Key -> Key],
           UNCHANGED <<sync, trashed, rows, minted, gc, ack, doomed, exposed>>
    PROVE  IInv'
<1>0. req' = [req EXCEPT ![p] = [req[p] EXCEPT !.pc = label]]
    BY DEF Goes, IInv, TypeOK, ReqState
<1>1. TypeOK'
    BY <1>0 DEF IInv, TypeOK, ReqState
<1>2. WellFormed(rows')
    BY DEF IInv
<1>3. RequestsNamed'
    BY <1>0 DEF IInv, TypeOK, ReqState, RequestsNamed
<1>4. NodesExist'
    BY DEF IInv, NodesExist
<1>5. CopiesReserved'
    BY ReservedGoes DEF NoneCreated
<1> QED BY <1>1, <1>2, <1>3, <1>4, <1>5 DEF IInv

\* A request that starts on a node that exists, and writes no row, keeps the invariant.
LEMMA QuietBecomes ==
    ASSUME IInv, NEW p \in Req, NEW s \in ReqState, Becomes(p, s),
           s.op # "copy", s.node \in Node, sync[s.node] # "absent",
           s.pc = "purge" \/ s.key \in Key,
           s.pc \in {"dup", "duped"} => s.prev \in Key,
           s.pc \in {"dup", "duped", "put", "landed"} => s.op \in {"upload", "overwrite"},
           minted' \in SUBSET Key, doomed' \in SUBSET Node,
           UNCHANGED <<sync, trashed, rows, blobs, gc, content, ack, exposed>>
    PROVE  IInv'
<1>1. TypeOK'
    BY DEF IInv, TypeOK, Becomes
<1>2. WellFormed(rows')
    BY DEF IInv
<1>3. RequestsNamed'
    BY DEF IInv, TypeOK, RequestsNamed, Becomes
<1>4. NodesExist'
    BY DEF IInv, NodesExist
<1>5. CopiesReserved'
    BY ReservedBecomes DEF NoneCreated
<1> QED BY <1>1, <1>2, <1>3, <1>4, <1>5 DEF IInv

\* A hard delete takes the node's rows with it.
LEMMA DeleteEnds ==
    ASSUME IInv, NEW p \in Req, req[p].node \in Node, HardDelete(req[p].node), Ends(p),
           UNCHANGED <<blobs, minted, gc>>
    PROVE  IInv'
<1>1. WellFormed(rows')
    BY CascadeDeleteWellFormed DEF IInv, HardDelete
<1>2. TypeOK'
    BY <1>1 DEF IInv, TypeOK, HardDelete, Ends, ReqState, Idle, WellFormed
<1>3. RequestsNamed'
    BY DEF IInv, TypeOK, RequestsNamed, Ends, Idle
<1>4. NodesExist'
    BY DEF IInv, TypeOK, NodesExist, HardDelete, CascadeDelete, RowsOf, Row
<1>5. CopiesReserved'
    BY ReservedEnds DEF IInv, TypeOK, NoneCreated, HardDelete
<1> QED BY <1>1, <1>2, <1>3, <1>4, <1>5 DEF IInv

-----------------------------------------------------------------------------
(* Uploads and overwrites.                                                 *)

\* createFile and prepareUpload: the new node's first row is version 1.
LEMMA UploadStartInv ==
    ASSUME IInv, NEW p \in Req, NEW n \in Node, NEW k \in Key, UploadStart(p, n, k)
    PROVE  IInv'
<1> USE DEF IInv
<1> DEFINE R == Upsert(rows, n, k, "pending")
<1>1. WellFormed(R)
    BY UpsertWellFormed DEF Status
<1>2. rows' = Evict(R, n, Cap) /\ sync' = [sync EXCEPT ![n] = "pending_upload"] /\ UNCHANGED trashed
    BY DEF UploadStart
<1>3. \A r \in R : r.node = n \/ \E q \in rows : q.node = r.node
    BY UpsertNodes DEF WellFormed
<1> HIDE DEF R
<1>4. WellFormed(rows')
    BY <1>1, <1>2, EvictWellFormed, CapAssumption
<1>5. \A r \in rows' : \E q \in R : q.node = r.node
    BY <1>1, <1>2, EvictNodes DEF WellFormed
<1>6. TypeOK'
    BY <1>4 DEF UploadStart, TypeOK, Becomes, ReqState, Idle, ghosts, WellFormed
<1>7. RequestsNamed'
    BY DEF UploadStart, RequestsNamed, Becomes, Idle, TypeOK
<1>8. NodesExist'
    <2>1. \A m \in Node : sync[m] # "absent" => sync'[m] # "absent"
        BY <1>2 DEF TypeOK
    <2>2. sync'[n] # "absent"
        BY <1>2 DEF TypeOK
    <2>3. \A r \in rows : r.node \in Node /\ sync[r.node] # "absent"
        BY DEF TypeOK, Row, NodesExist
    <2>4. \A r \in rows' : sync'[r.node] # "absent"
        BY <1>3, <1>5, <2>1, <2>2, <2>3
    <2>5. \A m \in trashed' : sync'[m] # "absent"
        BY <1>2, <2>1 DEF TypeOK, NodesExist
    <2> QED BY <2>4, <2>5 DEF NodesExist
<1>9. CopiesReserved'
    BY DEF UploadStart, CopiesReserved, Becomes, Idle, TypeOK, Unused
<1> QED BY <1>4, <1>6, <1>7, <1>8, <1>9

\* TX2 changes the status of a row and of a node.
LEMMA FinishInv ==
    ASSUME IInv, NEW p \in Req, Finish(p)
    PROVE  IInv'
<1> USE DEF IInv
<1>1. req[p].node \in Node /\ req[p].key \in Key
    BY DEF Finish, RequestsNamed
<1>2. WellFormed(rows')
    BY <1>1, ActivateWellFormed DEF Finish
<1>3. TypeOK'
    BY <1>1, <1>2 DEF Finish, TypeOK, Ends, ReqState, Idle, SetSync, Tell, WellFormed
<1>4. RequestsNamed'
    BY DEF Finish, RequestsNamed, Ends, Idle, TypeOK
<1>5. NodesExist'
    BY DEF Finish, NodesExist, Activate, SetStatus, SetSync, TypeOK, Row
<1>6. CopiesReserved'
    BY <1>1, ReservedEnds DEF Finish, SetSync, NoneCreated, TypeOK
<1> QED BY <1>2, <1>3, <1>4, <1>5, <1>6

\* A failed upload deletes its node and the node's rows together.
LEMMA UploadFailsInv ==
    ASSUME IInv, NEW p \in Req, UploadFails(p)
    PROVE  IInv'
<1>1. req[p].node \in Node
    BY DEF IInv, UploadFails, RequestsNamed
<1> QED BY <1>1, DeleteEnds DEF UploadFails

\* TX1 of an overwrite, from a table R of existing nodes.
LEMMA PrepareInv ==
    ASSUME IInv, NEW p \in Req, NEW n \in Node, NEW k \in Key, NEW R, NEW M, Prepare(p, n, k, R, M),
           sync[n] # "absent", WellFormed(R), \A r \in R : sync[r.node] # "absent",
           M \subseteq Key, Risks(n), UNCHANGED <<trashed, blobs, gc, content, ack, doomed>>
    PROVE  IInv'
<1> USE DEF IInv
<1> DEFINE Q == Upsert(R, n, k, "pending")
<1>1. WellFormed(Q)
    BY UpsertWellFormed DEF Status
<1>2. rows' = Evict(Q, n, Cap) /\ sync' = [sync EXCEPT ![n] = "pending_upload"] /\ minted' = M \cup {k}
    BY DEF Prepare, SetSync
<1>3. \A r \in Q : r.node = n \/ \E q \in R : q.node = r.node
    BY UpsertNodes DEF WellFormed
<1> HIDE DEF Q
<1>4. WellFormed(rows')
    BY <1>1, <1>2, EvictWellFormed, CapAssumption
<1>5. \A r \in rows' : \E q \in Q : q.node = r.node
    BY <1>1, <1>2, EvictNodes DEF WellFormed
<1>6. PICK prev \in Key \cup {None} :
          req' = [req EXCEPT ![p] = [Idle EXCEPT !.op = "overwrite", !.pc = "put", !.node = n,
                                                 !.key = k, !.prev = prev]]
    <2>1. \A r \in ActiveRows(R, n) : r.key \in Key
        BY DEF WellFormed, ActiveRows, Having, RowsOf, Row
    <2>2. PICK prev \in (IF ActiveRows(R, n) = {} THEN {None}
                                                  ELSE {r.key : r \in ActiveRows(R, n)}) :
              Becomes(p, [Idle EXCEPT !.op = "overwrite", !.pc = "put", !.node = n, !.key = k,
                                      !.prev = prev])
        BY DEF Prepare
    <2>3. prev \in Key \cup {None}
        BY <2>1, <2>2
    <2> QED BY <2>2, <2>3 DEF Becomes
<1>7. TypeOK'
    BY <1>2, <1>4, <1>6 DEF TypeOK, ReqState, Idle, Risks, WellFormed
<1>8. RequestsNamed'
    BY <1>6 DEF RequestsNamed, Idle, TypeOK
<1>9. NodesExist'
    <2>1. \A m \in Node : sync[m] # "absent" => sync'[m] # "absent"
        BY <1>2 DEF TypeOK
    <2>2. \A r \in R : r.node \in Node
        BY DEF WellFormed, Row
    <2>3. \A r \in rows' : sync'[r.node] # "absent"
        BY <1>3, <1>5, <2>1, <2>2
    <2>4. \A m \in trashed' : sync'[m] # "absent"
        BY <2>1 DEF TypeOK, NodesExist
    <2> QED BY <2>3, <2>4 DEF NodesExist
<1>10. CopiesReserved'
    <2> DEFINE s == [Idle EXCEPT !.op = "overwrite", !.pc = "put", !.node = n, !.key = k,
                                 !.prev = prev]
    <2>1. Becomes(p, s) /\ s.op # "copy" /\ s.node = n
        BY <1>6 DEF Becomes, Idle
    <2>2. NoneCreated
        BY <1>2 DEF NoneCreated, TypeOK
    <2> HIDE DEF s
    <2> QED BY <2>1, <2>2, ReservedBecomes
<1> QED BY <1>4, <1>7, <1>8, <1>9, <1>10

\* An overwrite that needs no split: TX1 from the table as it is.
LEMMA OverwriteStartInv ==
    ASSUME IInv, NEW p \in Req, NEW n \in Node, NEW k \in Key, OverwriteStart(p, n, k)
    PROVE  IInv'
<1>1. sync[n] # "absent" /\ minted \subseteq Key
    BY DEF IInv, TypeOK, OverwriteStart, Live
<1> QED BY <1>1, PrepareInv DEF OverwriteStart, IInv, NodesExist

\* A split that starts only draws a key and waits.
LEMMA OverwriteSplitInv ==
    ASSUME IInv, NEW p \in Req, NEW n \in Node, NEW k \in Key, OverwriteSplit(p, n, k)
    PROVE  IInv'
<1>1. PICK r \in ActiveRows(rows, n) :
          Becomes(p, [Idle EXCEPT !.op = "overwrite", !.pc = "dup", !.node = n, !.key = k,
                                  !.prev = r.key])
    BY DEF OverwriteSplit
<1> DEFINE s == [Idle EXCEPT !.op = "overwrite", !.pc = "dup", !.node = n, !.key = k,
                             !.prev = r.key]
<1>2. r.key \in Key
    BY DEF IInv, TypeOK, ActiveRows, Having, RowsOf, Row
<1>3. s \in ReqState /\ s.op = "overwrite" /\ s.node = n /\ s.key \in Key /\ s.prev \in Key
    BY <1>2 DEF ReqState, Idle
<1>4. /\ sync[n] # "absent" /\ minted' \in SUBSET Key /\ doomed' \in SUBSET Node
      /\ UNCHANGED <<sync, trashed, rows, blobs, gc, content, ack, exposed>>
    BY DEF IInv, TypeOK, OverwriteSplit, Live, ghosts
<1> HIDE DEF s
<1> QED BY <1>1, <1>3, <1>4, QuietBecomes DEF s

\* copyBlob writes the blob store only.
LEMMA DupLandsInv ==
    ASSUME IInv, NEW p \in Req, DupLands(p)
    PROVE  IInv'
<1>1. req[p].key \in Key /\ req[p].prev \in Key
    BY DEF IInv, RequestsNamed, DupLands
<1>2. blobs' \in SUBSET Key /\ content' \in [Key -> Key]
    BY <1>1 DEF IInv, TypeOK, DupLands
<1> QED BY <1>2, QuietGoes DEF DupLands

\* A split and TX1 in one turn: two rows are inserted, with two numbers.
LEMMA OverwriteSplitDoneInv ==
    ASSUME IInv, NEW p \in Req, NEW k \in Key, OverwriteSplitDone(p, k)
    PROVE  IInv'
<1> USE DEF IInv
<1> DEFINE n == req[p].node
           R == Upsert(rows, n, req[p].key, "active")
<1>1. n \in Node /\ req[p].key \in Key /\ sync[n] # "absent" /\ minted \subseteq Key
    BY DEF RequestsNamed, OverwriteSplitDone, TypeOK
<1>2. WellFormed(R)
    BY <1>1, UpsertWellFormed DEF Status
<1>3. \A r \in R : r.node = n \/ \E q \in rows : q.node = r.node
    BY UpsertNodes DEF WellFormed
<1>4. Prepare(p, n, k, R, minted) /\ Risks(n) /\ UNCHANGED <<trashed, blobs, gc, content, ack, doomed>>
    BY DEF OverwriteSplitDone
<1> HIDE DEF R, n
<1>5. \A r \in R : sync[r.node] # "absent"
    BY <1>1, <1>3 DEF NodesExist
<1> QED BY <1>1, <1>2, <1>4, <1>5, PrepareInv

\* The rollback of an overwrite reactivates one row and deletes at most one.
LEMMA OverwriteFailsInv ==
    ASSUME IInv, NEW p \in Req, OverwriteFails(p)
    PROVE  IInv'
<1> USE DEF IInv
<1> DEFINE n == req[p].node
           R == Reactivate(rows, n, req[p].prev)
<1>1. n \in Node /\ req[p].key \in Key /\ req[p].pc \in {"put", "landed"}
    BY DEF RequestsNamed, OverwriteFails
<1>2. WellFormed(R)
    BY ReactivateWellFormed
<1>3. \A r \in R : \E q \in rows : q.node = r.node
    <2>1. {r \in RowsOf(rows, n) : r.key = req[p].prev /\ r.st \in {"history", "orphaned"}} \subseteq rows
        BY DEF RowsOf
    <2> QED BY <2>1, SetStatusNodes DEF Reactivate, WellFormed
<1>4. rows' \subseteq R /\ sync' = SetSync(n, "active") /\ Goes(p, "undo")
      /\ UNCHANGED <<trashed, blobs, minted, gc, ghosts>>
    BY DEF OverwriteFails
<1> HIDE DEF R, n
<1>5. WellFormed(rows')
    BY <1>2, <1>4, SubsetWellFormed
<1>6. req' = [req EXCEPT ![p] = [req[p] EXCEPT !.pc = "undo"]]
    BY <1>4 DEF Goes, TypeOK, ReqState
<1>7. TypeOK'
    BY <1>1, <1>4, <1>5, <1>6 DEF TypeOK, ReqState, SetSync, WellFormed, ghosts
<1>8. RequestsNamed'
    BY <1>1, <1>6 DEF TypeOK, ReqState, RequestsNamed, n
<1>9. NodesExist'
    <2>1. \A m \in Node : sync[m] # "absent" => sync'[m] # "absent"
        BY <1>1, <1>4 DEF TypeOK, SetSync
    <2> QED BY <1>3, <1>4, <2>1 DEF NodesExist, TypeOK, Row
<1>10. CopiesReserved'
    BY <1>1, <1>4, ReservedGoes DEF NoneCreated, SetSync, TypeOK
<1> QED BY <1>5, <1>7, <1>8, <1>9, <1>10

-----------------------------------------------------------------------------
(* Copies.                                                                 *)

\* linkObject into a node that has no row: the row gets version 1.
LEMMA LinkedRows ==
    ASSUME IInv, NEW m \in Node, NEW k \in Key, sync[m] = "absent"
    PROVE  /\ WellFormed(InsertFirst(rows, m, k))
           /\ \A r \in InsertFirst(rows, m, k) : r.node = m \/ r \in rows
<1>1. RowsOf(rows, m) = {}
    BY DEF IInv, NodesExist, RowsOf
<1> QED BY <1>1, InsertFirstWellFormed DEF IInv, InsertFirst

\* The state after a copy has created node m, with or without its row.
LEMMA LinkInv ==
    ASSUME IInv, NEW m \in Node, NEW k \in Key, sync[m] = "absent",
           rows' \in {rows, InsertFirst(rows, m, k)},
           \E st \in {"active", "pending_upload"} : sync' = [sync EXCEPT ![m] = st],
           ack' \in [Node -> Key \cup {None}], req' \in [Req -> ReqState],
           RequestsNamed', CopiesReserved',
           UNCHANGED <<trashed, blobs, minted, gc, content, doomed, exposed>>
    PROVE  IInv'
<1> USE DEF IInv
<1>1. WellFormed(rows') /\ \A r \in rows' : r.node = m \/ r \in rows
    BY LinkedRows
<1>2. TypeOK'
    BY <1>1 DEF TypeOK, WellFormed
<1>3. NodesExist'
    BY <1>1 DEF NodesExist, TypeOK, Row
<1> QED BY <1>1, <1>2, <1>3

\* A copy that links the source's blob creates a node with one row.
LEMMA CopyLinkInv ==
    ASSUME IInv, NEW p \in Req, NEW n \in Node, NEW m \in Node, CopyLink(p, n, m)
    PROVE  IInv'
<1>1. PICK r \in ActiveRows(rows, n) : Link(m, r.key)
    BY DEF CopyLink
<1>2. r.key \in Key
    BY DEF IInv, TypeOK, ActiveRows, Having, RowsOf, Row
<1>3. Unused(m) /\ sync[m] = "absent" /\ UNCHANGED req
    BY DEF CopyLink, Unused
<1>4. CopiesReserved'
    BY <1>1, <1>3, ReservedCreates DEF Link, IInv, TypeOK
<1>5. RequestsNamed'
    BY <1>3 DEF IInv, RequestsNamed
<1>6. ack' \in [Node -> Key \cup {None}] /\ req' \in [Req -> ReqState]
    BY <1>1, <1>2, <1>3 DEF IInv, TypeOK, Link
<1> QED BY <1>1, <1>2, <1>3, <1>4, <1>5, <1>6, LinkInv DEF Link, CopyLink

\* A copy that duplicates the blob reserves the node it will create.
LEMMA CopyDupInv ==
    ASSUME IInv, NEW p \in Req, NEW n \in Node, NEW m \in Node, NEW k \in Key, CopyDup(p, n, m, k)
    PROVE  IInv'
<1> USE DEF IInv
<1>1. PICK r \in ActiveRows(rows, n) :
          Becomes(p, [Idle EXCEPT !.op = "copy", !.pc = "dup", !.node = m, !.key = k,
                                  !.prev = r.key])
    BY DEF CopyDup
<1>2. r.key \in Key
    BY DEF TypeOK, ActiveRows, Having, RowsOf, Row
<1>3. TypeOK'
    BY <1>1, <1>2 DEF CopyDup, TypeOK, Becomes, ReqState, Idle, ghosts
<1>4. WellFormed(rows') /\ NodesExist'
    BY DEF CopyDup, NodesExist
<1>5. RequestsNamed'
    BY <1>1, <1>2 DEF RequestsNamed, Becomes, Idle, TypeOK
<1>6. CopiesReserved'
    BY <1>1 DEF CopyDup, CopiesReserved, Becomes, Idle, TypeOK, Unused
<1> QED BY <1>3, <1>4, <1>5, <1>6

\* The end of a copy that had to duplicate the blob, whether it links or not.
LEMMA CopyEnds ==
    ASSUME IInv, NEW p \in Req, req[p].op = "copy", req[p].pc = "duped", Ends(p),
           NEW st, sync' = [sync EXCEPT ![req[p].node] = st]
    PROVE  /\ req[p].node \in Node /\ req[p].key \in Key /\ sync[req[p].node] = "absent"
           /\ req' \in [Req -> ReqState]
           /\ RequestsNamed' /\ CopiesReserved'
<1> USE DEF IInv
<1>1. req[p].node \in Node /\ req[p].key \in Key
    BY DEF RequestsNamed
<1>2. sync[req[p].node] = "absent" /\ \A q \in Req \ {p} : req[q].node # req[p].node
    BY DEF CopiesReserved
<1>3. req' \in [Req -> ReqState]
    BY DEF TypeOK, Ends, ReqState, Idle
<1>4. RequestsNamed'
    BY DEF RequestsNamed, TypeOK, Ends, Idle
<1>5. (\A q \in Req \ {p} : req'[q] = req[q]) /\ req'[p] = Idle
    BY DEF TypeOK, Ends
<1>6. \A q \in Req \ {p} : sync'[req[q].node] = sync[req[q].node] \/ req[q].node \notin Node
    BY <1>2 DEF TypeOK
<1>7. \A q \in Req : req[q].pc \in {"dup", "duped"} => req[q].node \in Node
    BY DEF RequestsNamed
<1>8. CopiesReserved'
    BY <1>5, <1>6, <1>7, NoneAssumption DEF CopiesReserved, Idle
<1> QED BY <1>1, <1>2, <1>3, <1>4, <1>8

\* The duplicated copy creates its node with one row.
LEMMA CopyDupDoneInv ==
    ASSUME IInv, NEW p \in Req, CopyDupDone(p)
    PROVE  IInv'
<1>1. /\ req[p].op = "copy" /\ req[p].pc = "duped" /\ Ends(p)
      /\ sync' = [sync EXCEPT ![req[p].node] = "active"]
      /\ rows' = InsertFirst(rows, req[p].node, req[p].key)
    BY DEF CopyDupDone, Link
<1>2. /\ req[p].node \in Node /\ req[p].key \in Key /\ sync[req[p].node] = "absent"
      /\ req' \in [Req -> ReqState] /\ RequestsNamed' /\ CopiesReserved'
    BY <1>1, CopyEnds
<1>3. ack' \in [Node -> Key \cup {None}]
    BY <1>2 DEF IInv, TypeOK, CopyDupDone, Link
<1> QED BY <1>1, <1>2, <1>3, LinkInv DEF CopyDupDone

\* A copy cut short leaves a node with one row or none.
LEMMA CopyUnlinkedInv ==
    ASSUME IInv, NEW n \in Node, NEW m \in Node, CopyUnlinked(n, m)
    PROVE  IInv'
<1>1. PICK r \in ActiveRows(rows, n) : HalfLink(m, r.key)
    BY DEF CopyUnlinked
<1>2. r.key \in Key
    BY DEF IInv, TypeOK, ActiveRows, Having, RowsOf, Row
<1>3. Unused(m) /\ sync[m] = "absent" /\ UNCHANGED <<trashed, blobs, minted, req, gc, ghosts>>
    BY DEF CopyUnlinked, Unused
<1>4. CopiesReserved'
    BY <1>1, <1>3, ReservedCreates DEF HalfLink, IInv, TypeOK
<1>5. RequestsNamed' /\ ack' \in [Node -> Key \cup {None}] /\ req' \in [Req -> ReqState]
    BY <1>3 DEF IInv, TypeOK, RequestsNamed, ghosts
<1> QED BY <1>1, <1>2, <1>3, <1>4, <1>5, LinkInv DEF HalfLink, ghosts

\* So does a duplicated copy cut short.
LEMMA CopyDupUnlinkedInv ==
    ASSUME IInv, NEW p \in Req, CopyDupUnlinked(p)
    PROVE  IInv'
<1>1. /\ req[p].op = "copy" /\ req[p].pc = "duped" /\ Ends(p)
      /\ sync' = [sync EXCEPT ![req[p].node] = "pending_upload"]
      /\ rows' \in {rows, InsertFirst(rows, req[p].node, req[p].key)}
    BY DEF CopyDupUnlinked, HalfLink
<1>2. /\ req[p].node \in Node /\ req[p].key \in Key /\ sync[req[p].node] = "absent"
      /\ req' \in [Req -> ReqState] /\ RequestsNamed' /\ CopiesReserved'
    BY <1>1, CopyEnds
<1>3. ack' \in [Node -> Key \cup {None}]
    BY DEF IInv, TypeOK, CopyDupUnlinked, ghosts
<1> QED BY <1>1, <1>2, <1>3, LinkInv DEF CopyDupUnlinked, ghosts

-----------------------------------------------------------------------------
(* Half-done writes of the other handlers.                                 *)

\* An upload cut short before prepareUpload leaves a node without rows.
LEMMA UploadUnpreparedInv ==
    ASSUME IInv, NEW n \in Node, UploadUnprepared(n)
    PROVE  IInv'
<1>1. Unused(n) /\ UNCHANGED req /\ sync' = [sync EXCEPT ![n] = "pending_upload"]
    BY DEF UploadUnprepared
<1>2. CopiesReserved'
    BY <1>1, ReservedCreates DEF IInv, TypeOK
<1>3. TypeOK' /\ WellFormed(rows') /\ RequestsNamed'
    BY DEF IInv, TypeOK, RequestsNamed, UploadUnprepared, ghosts
<1>4. NodesExist'
    BY DEF IInv, TypeOK, NodesExist, UploadUnprepared, Row
<1> QED BY <1>2, <1>3, <1>4 DEF IInv

\* A split torn between its two statements leaves the numbers distinct.
LEMMA SplitTornInv ==
    ASSUME IInv, NEW p \in Req, SplitTorn(p)
    PROVE  IInv'
<1> USE DEF IInv
<1> DEFINE n == req[p].node
<1>1. n \in Node /\ req[p].key \in Key /\ sync[n] # "absent" /\ Ends(p)
      /\ UNCHANGED <<sync, trashed, blobs, minted, gc, content, ack, doomed>>
    BY DEF RequestsNamed, SplitTorn
<1>2. \/ rows' = DemoteActive(rows, n) /\ exposed' = exposed \cup {n}
      \/ rows' = Upsert(rows, n, req[p].key, "active") /\ Risks(n)
    BY DEF SplitTorn
<1>3. exposed' \in SUBSET Node
    BY <1>1, <1>2 DEF Risks, TypeOK
<1>4. WellFormed(rows')
    BY <1>1, <1>2, DemoteActiveWellFormed, UpsertWellFormed DEF Status
<1>5. \A r \in rows' : r.node = n \/ \E q \in rows : q.node = r.node
    <2>1. CASE rows' = DemoteActive(rows, n)
        <3>1. ActiveRows(rows, n) \subseteq rows
            BY DEF ActiveRows, Having, RowsOf
        <3> QED BY <2>1, <3>1, SetStatusNodes DEF DemoteActive, WellFormed
    <2>2. CASE rows' = Upsert(rows, n, req[p].key, "active")
        BY <2>2, UpsertNodes DEF WellFormed
    <2> QED BY <1>2, <2>1, <2>2
<1> HIDE DEF n
<1>6. TypeOK'
    BY <1>1, <1>3, <1>4 DEF TypeOK, Ends, ReqState, Idle, WellFormed
<1>7. RequestsNamed'
    BY <1>1 DEF RequestsNamed, TypeOK, Ends, Idle
<1>8. NodesExist'
    BY <1>1, <1>5 DEF NodesExist
<1>9. CopiesReserved'
    BY <1>1, ReservedEnds DEF NoneCreated
<1> QED BY <1>4, <1>6, <1>7, <1>8, <1>9

-----------------------------------------------------------------------------
(* Version restore and repair.                                             *)

\* A version restore that starts only chooses among existing rows.
LEMMA RestoreVersionStartInv ==
    ASSUME IInv, NEW p \in Req, NEW n \in Node, RestoreVersionStart(p, n)
    PROVE  IInv'
<1> DEFINE versions == Having(rows, n, {"active", "history"})
           current  == IF ActiveRows(rows, n) = {} THEN None ELSE Newest(ActiveRows(rows, n)).key
<1>1. PICK t \in versions :
          Becomes(p, [Idle EXCEPT !.op = "restoreVersion", !.pc = "head", !.node = n,
                                  !.key = t.key, !.prev = current])
    BY DEF RestoreVersionStart
<1>2. t.key \in Key
    BY DEF IInv, TypeOK, Having, RowsOf, Row
<1>3. current \in Key \cup {None}
    <2>1. CASE ActiveRows(rows, n) = {}
        BY <2>1
    <2>2. CASE ActiveRows(rows, n) # {}
        <3>1. Newest(ActiveRows(rows, n)) \in ActiveRows(rows, n)
            BY <2>2, NewestIsMember DEF IInv, ActiveRows, Having, RowsOf
        <3>2. Newest(ActiveRows(rows, n)).key \in Key
            BY <3>1 DEF IInv, TypeOK, ActiveRows, Having, RowsOf, Row
        <3> QED BY <2>2, <3>2
    <2> QED BY <2>1, <2>2
<1> DEFINE s == [Idle EXCEPT !.op = "restoreVersion", !.pc = "head", !.node = n,
                             !.key = t.key, !.prev = current]
<1> HIDE DEF current
<1>4. s \in ReqState /\ s.op # "copy" /\ s.node = n /\ s.key \in Key /\ s.pc = "head"
    BY <1>2, <1>3 DEF ReqState, Idle
<1>5. /\ sync[n] # "absent" /\ minted' \in SUBSET Key /\ doomed' \in SUBSET Node
      /\ UNCHANGED <<sync, trashed, rows, blobs, gc, content, ack, exposed>>
    BY DEF IInv, TypeOK, RestoreVersionStart, Live, ghosts
<1>6. Becomes(p, s)
    BY <1>1
<1> HIDE DEF s
<1> QED BY <1>4, <1>5, <1>6, QuietBecomes

\* The swap demotes by key, whatever the file; no row is added or renumbered.
LEMMA RestoreVersionSwapInv ==
    ASSUME IInv, NEW p \in Req, RestoreVersionSwap(p)
    PROVE  IInv'
<1> USE DEF IInv
<1> DEFINE n == req[p].node
           k == req[p].key
           R == Reactivate(rows, n, k)
<1>1. /\ n \in Node /\ k \in Key /\ Ends(p) /\ rows' = DemoteByKey(R, req[p].prev)
      /\ sync' = SetSync(n, "active") /\ Tell(n, k)
      /\ UNCHANGED <<trashed, blobs, minted, gc, content, doomed, exposed>>
    BY DEF RequestsNamed, RestoreVersionSwap
<1>2. WellFormed(R)
    BY ReactivateWellFormed
<1>3. \A r \in R : \E q \in rows : q.node = r.node
    <2>1. {r \in RowsOf(rows, n) : r.key = k /\ r.st \in {"history", "orphaned"}} \subseteq rows
        BY DEF RowsOf
    <2> QED BY <2>1, SetStatusNodes DEF Reactivate, WellFormed
<1> HIDE DEF R, n, k
<1>4. WellFormed(rows')
    BY <1>1, <1>2, DemoteByKeyWellFormed
<1>5. \A r \in rows' : \E q \in R : q.node = r.node
    <2>1. {r \in R : r.key = req[p].prev /\ r.st = "active"} \subseteq R
        OBVIOUS
    <2> QED BY <1>1, <1>2, <2>1, SetStatusNodes DEF DemoteByKey, WellFormed
<1>6. TypeOK'
    BY <1>1, <1>4 DEF TypeOK, Ends, ReqState, Idle, SetSync, Tell, WellFormed
<1>7. RequestsNamed'
    BY <1>1 DEF RequestsNamed, TypeOK, Ends, Idle
<1>8. NodesExist'
    <2>1. \A m \in Node : sync[m] # "absent" => sync'[m] # "absent"
        BY <1>1 DEF TypeOK, SetSync
    <2> QED BY <1>1, <1>3, <1>5, <2>1 DEF NodesExist, TypeOK, Row
<1>9. CopiesReserved'
    BY <1>1, ReservedEnds DEF NoneCreated, SetSync, TypeOK
<1> QED BY <1>4, <1>6, <1>7, <1>8, <1>9

\* What a repair finds pending is one of the node's rows.
LEMMA PendingRowKnown ==
    ASSUME IInv, NEW n \in Node, NEW r \in PendingRow(rows, n)
    PROVE  r \in rows /\ r.node = n /\ r.st = "pending" /\ r.key \in Key
<1>1. Having(rows, n, {"pending"}) # {} /\ r = Newest(Having(rows, n, {"pending"}))
    BY DEF PendingRow
<1>2. r \in Having(rows, n, {"pending"})
    BY <1>1, NewestIsMember DEF IInv, Having, RowsOf
<1> QED BY <1>2 DEF IInv, TypeOK, Having, RowsOf, Row

\* restore-previous reactivates one row and deletes at most one.
LEMMA RepairRestoreInv ==
    ASSUME IInv, NEW p \in Req, NEW n \in Node, RepairRestore(p, n)
    PROVE  IInv'
<1> USE DEF IInv
<1>1. PICK good \in LastGood(rows, n) :
          rows' = DeleteRows(Reactivate(rows, n, good.key),
                             {RowId(r) : r \in PendingRow(rows, n)})
    BY DEF RepairRestore
<1> DEFINE R == Reactivate(rows, n, good.key)
<1>2. WellFormed(R)
    BY ReactivateWellFormed
<1>3. \A r \in R : \E q \in rows : q.node = r.node
    <2>1. {r \in RowsOf(rows, n) : r.key = good.key /\ r.st \in {"history", "orphaned"}} \subseteq rows
        BY DEF RowsOf
    <2> QED BY <2>1, SetStatusNodes DEF Reactivate, WellFormed
<1>4. rows' \subseteq R
    BY <1>1 DEF DeleteRows
<1> HIDE DEF R
<1>5. WellFormed(rows')
    BY <1>2, <1>4, SubsetWellFormed
<1>6. /\ sync[n] # "absent" /\ sync' = [sync EXCEPT ![n] = "active"]
      /\ UNCHANGED <<trashed, blobs, minted, gc, ghosts>>
    BY DEF RepairRestore, Stuck, Live
<1>7. NodesExist'
    BY <1>3, <1>4, <1>6 DEF NodesExist, TypeOK, Row
<1>8. NoneCreated
    BY <1>6 DEF NoneCreated, TypeOK
<1>9. CASE UNCHANGED req
    <2>1. TypeOK' /\ RequestsNamed'
        BY <1>5, <1>6, <1>9 DEF TypeOK, RequestsNamed, WellFormed, ghosts
    <2>2. CopiesReserved'
        <3>1. \A q \in Req : req[q].pc \in {"dup", "duped"} => req[q].node \in Node
            BY DEF RequestsNamed
        <3> QED BY <1>8, <1>9, <3>1 DEF CopiesReserved, NoneCreated
    <2> QED BY <1>5, <1>7, <2>1, <2>2
<1>10. CASE \E r \in PendingRow(rows, n) :
               Becomes(p, [Idle EXCEPT !.op = "auto", !.pc = "undo", !.node = n, !.key = r.key])
    <2>1. PICK r \in PendingRow(rows, n) :
               Becomes(p, [Idle EXCEPT !.op = "auto", !.pc = "undo", !.node = n, !.key = r.key])
        BY <1>10
    <2>2. r.key \in Key
        BY PendingRowKnown
    <2> DEFINE s == [Idle EXCEPT !.op = "auto", !.pc = "undo", !.node = n, !.key = r.key]
    <2>3. s \in ReqState /\ s.op # "copy" /\ s.node = n /\ s.key \in Key /\ s.pc = "undo"
        BY <2>2 DEF ReqState, Idle
    <2> HIDE DEF s
    <2>4. req' = [req EXCEPT ![p] = s]
        BY <2>1 DEF Becomes, s
    <2>5. TypeOK' /\ RequestsNamed'
        BY <1>5, <1>6, <2>3, <2>4 DEF TypeOK, RequestsNamed, WellFormed, ghosts
    <2>6. CopiesReserved'
        BY <1>6, <1>8, <2>3, <2>4, ReservedBecomes DEF Becomes
    <2> QED BY <1>5, <1>7, <2>5, <2>6
<1> QED BY <1>9, <1>10 DEF RepairRestore

\* A repair that probes the blob only waits.
LEMMA RepairProbeInv ==
    ASSUME IInv, NEW p \in Req, NEW n \in Node, NEW action, RepairProbe(p, n, action)
    PROVE  IInv'
<1>1. PICK r \in PendingRow(rows, n) :
          Becomes(p, [Idle EXCEPT !.op = action, !.pc = "head", !.node = n, !.key = r.key])
    BY DEF RepairProbe
<1> DEFINE s == [Idle EXCEPT !.op = action, !.pc = "head", !.node = n, !.key = r.key]
<1>2. r.key \in Key
    BY PendingRowKnown
<1>3. action \in {"auto", "complete"}
    BY DEF RepairProbe
<1>4. s \in ReqState /\ s.op # "copy" /\ s.node = n /\ s.key \in Key /\ s.pc = "head"
    BY <1>2, <1>3 DEF ReqState, Idle
<1>5. /\ sync[n] # "absent" /\ minted' \in SUBSET Key /\ doomed' \in SUBSET Node
      /\ UNCHANGED <<sync, trashed, rows, blobs, gc, content, ack, exposed>>
    BY DEF IInv, TypeOK, RepairProbe, Stuck, Live, ghosts
<1>6. Becomes(p, s)
    BY <1>1
<1> HIDE DEF s
<1> QED BY <1>4, <1>5, <1>6, QuietBecomes

\* A repair that completes changes the status of a row and of a node.
LEMMA RepairCompleteInv ==
    ASSUME IInv, NEW p \in Req, RepairComplete(p)
    PROVE  IInv'
<1> USE DEF IInv
<1>1. req[p].node \in Node /\ req[p].key \in Key
    BY DEF RepairComplete, RequestsNamed
<1>2. WellFormed(rows')
    BY <1>1, ActivateWellFormed DEF RepairComplete
<1>3. TypeOK'
    BY <1>1, <1>2 DEF RepairComplete, TypeOK, Ends, ReqState, Idle, SetSync, Tell, WellFormed
<1>4. RequestsNamed'
    BY DEF RepairComplete, RequestsNamed, Ends, Idle, TypeOK
<1>5. NodesExist'
    BY DEF RepairComplete, NodesExist, Activate, SetStatus, SetSync, TypeOK, Row
<1>6. CopiesReserved'
    BY <1>1, ReservedEnds DEF RepairComplete, SetSync, NoneCreated, TypeOK
<1> QED BY <1>2, <1>3, <1>4, <1>5, <1>6

\* A repair that deletes first waits for the blob.
LEMMA RepairDeleteInv ==
    ASSUME IInv, NEW p \in Req, NEW n \in Node, RepairDelete(p, n)
    PROVE  IInv'
<1>1. PICK r \in PendingRow(rows, n) :
          Becomes(p, [Idle EXCEPT !.op = "delete", !.pc = "kill", !.node = n, !.key = r.key])
    BY DEF RepairDelete
<1> DEFINE s == [Idle EXCEPT !.op = "delete", !.pc = "kill", !.node = n, !.key = r.key]
<1>2. r.key \in Key
    BY PendingRowKnown
<1>3. s \in ReqState /\ s.op # "copy" /\ s.node = n /\ s.key \in Key /\ s.pc = "kill"
    BY <1>2 DEF ReqState, Idle
<1>4. /\ sync[n] # "absent" /\ minted' \in SUBSET Key /\ doomed' \in SUBSET Node
      /\ UNCHANGED <<sync, trashed, rows, blobs, gc, content, ack, exposed>>
    BY DEF IInv, TypeOK, RepairDelete, Stuck, Live, ghosts
<1>5. Becomes(p, s)
    BY <1>1
<1> HIDE DEF s
<1> QED BY <1>3, <1>4, <1>5, QuietBecomes

\* A repair that has no blob to delete deletes the node and its rows.
LEMMA RepairDeleteAtOnceInv ==
    ASSUME IInv, NEW n \in Node, RepairDeleteAtOnce(n)
    PROVE  IInv'
<1>1. HardDelete(n) /\ UNCHANGED <<blobs, minted, req, gc>>
    BY DEF RepairDeleteAtOnce
<1>2. WellFormed(rows')
    BY <1>1, CascadeDeleteWellFormed DEF IInv, HardDelete
<1>3. TypeOK'
    BY <1>1, <1>2 DEF IInv, TypeOK, HardDelete, WellFormed
<1>4. RequestsNamed'
    BY <1>1 DEF IInv, RequestsNamed
<1>5. NodesExist'
    BY <1>1 DEF IInv, TypeOK, NodesExist, HardDelete, CascadeDelete, RowsOf, Row
<1>6. CopiesReserved'
    <2>1. \A q \in Req : req[q].pc \in {"dup", "duped"} => req[q].node \in Node
        BY DEF IInv, RequestsNamed
    <2>2. \A m \in Node : sync[m] = "absent" => sync'[m] = "absent"
        BY <1>1 DEF IInv, TypeOK, HardDelete
    <2> QED BY <1>1, <2>1, <2>2 DEF IInv, CopiesReserved
<1> QED BY <1>2, <1>3, <1>4, <1>5, <1>6 DEF IInv

-----------------------------------------------------------------------------
(* The steps of a request, put together.                                   *)

\* A request that takes up a node of the trash list.
LEMMA PurgingNamed ==
    ASSUME IInv, NEW p \in Req, NEW n \in Node, NEW queue \in SUBSET Node, Purging(p, n, queue)
    PROVE  \E s \in ReqState : Becomes(p, s) /\ s.op # "copy" /\ s.node = n /\ s.pc = "purge"
<1> DEFINE s == [Idle EXCEPT !.op = "purge", !.pc = "purge", !.node = n, !.queue = queue,
                             !.todo = {r.key : r \in RowsOf(rows, n)}]
<1>1. {r.key : r \in RowsOf(rows, n)} \subseteq Key
    BY DEF IInv, TypeOK, RowsOf, Row
<1>2. s \in ReqState /\ s.op # "copy" /\ s.node = n /\ s.pc = "purge"
    BY <1>1 DEF ReqState, Idle
<1>3. Becomes(p, s)
    BY DEF Purging
<1> HIDE DEF s
<1> QED BY <1>2, <1>3

\* A purge that starts only lists nodes and keys that exist.
LEMMA PurgeStartInv ==
    ASSUME IInv, NEW p \in Req, NEW n \in Node, NEW queue \in SUBSET trashed, PurgeStart(p, n, queue)
    PROVE  IInv'
<1>1. PICK s \in ReqState : Becomes(p, s) /\ s.op # "copy" /\ s.node = n /\ s.pc = "purge"
    BY PurgingNamed DEF PurgeStart, IInv, TypeOK
<1>2. /\ sync[n] # "absent" /\ minted' \in SUBSET Key /\ doomed' \in SUBSET Node
      /\ UNCHANGED <<sync, trashed, rows, blobs, gc, content, ack, exposed>>
    BY DEF IInv, TypeOK, NodesExist, PurgeStart
<1> QED BY <1>1, <1>2, QuietBecomes

\* The next file of a purge, or its end, when the step has at most deleted its node.
LEMMA PurgeNextInv ==
    ASSUME IInv, NEW p \in Req, req[p].pc = "purge", PurgeNext(p), UNCHANGED <<blobs, minted, gc>>,
           UNCHANGED <<sync, trashed, rows, ghosts>> \/ HardDelete(req[p].node)
    PROVE  IInv'
<1> USE DEF IInv
<1>1. req[p].node \in Node /\ req[p].queue \in SUBSET Node
    BY DEF RequestsNamed, TypeOK, ReqState
<1>2. WellFormed(rows') /\ NodesExist' /\ NoneCreated
    <2>1. CASE UNCHANGED <<sync, trashed, rows, ghosts>>
        BY <2>1 DEF NodesExist, NoneCreated
    <2>2. CASE HardDelete(req[p].node)
        <3>1. WellFormed(rows')
            BY <2>2, CascadeDeleteWellFormed DEF HardDelete
        <3>2. NodesExist'
            BY <1>1, <2>2 DEF TypeOK, NodesExist, HardDelete, CascadeDelete, RowsOf, Row
        <3>3. NoneCreated
            BY <1>1, <2>2 DEF TypeOK, HardDelete, NoneCreated
        <3> QED BY <3>1, <3>2, <3>3
    <2> QED BY <2>1, <2>2
<1>3. CASE Ends(p)
    <2>1. TypeOK'
        BY <1>1, <1>2, <1>3 DEF TypeOK, HardDelete, Ends, ReqState, Idle, WellFormed, ghosts
    <2>2. RequestsNamed'
        BY <1>3 DEF RequestsNamed, TypeOK, Ends, Idle
    <2> QED BY <1>2, <1>3, <2>1, <2>2, ReservedEnds
<1>4. CASE \E m \in req[p].queue : sync[m] # "absent" /\ \E Q \in SUBSET Node : Purging(p, m, Q)
    <2>1. PICK m \in Node : sync[m] # "absent" /\ \E Q \in SUBSET Node : Purging(p, m, Q)
        BY <1>1, <1>4
    <2>2. PICK s \in ReqState : Becomes(p, s) /\ s.op # "copy" /\ s.node = m /\ s.pc = "purge"
        BY <2>1, PurgingNamed
    <2>3. TypeOK'
        BY <1>1, <1>2, <2>2 DEF TypeOK, HardDelete, Becomes, WellFormed, ghosts
    <2>4. RequestsNamed'
        BY <2>2 DEF RequestsNamed, TypeOK, Becomes
    <2>5. CopiesReserved'
        BY <1>2, <2>1, <2>2, ReservedBecomes
    <2> QED BY <1>2, <2>3, <2>4, <2>5
<1> QED BY <1>1, <1>3, <1>4 DEF PurgeNext

\* A purge that deletes a blob writes no row.
LEMMA PurgeBlobInv ==
    ASSUME IInv, NEW p \in Req, PurgeBlob(p)
    PROVE  IInv'
<1> USE DEF IInv
<1>1. PICK k \in req[p].todo : req' = [req EXCEPT ![p].todo = @ \ {k}]
    BY DEF PurgeBlob
<1>2. req' = [req EXCEPT ![p] = [req[p] EXCEPT !.todo = req[p].todo \ {k}]]
    BY <1>1 DEF TypeOK, ReqState
<1>3. TypeOK' /\ RequestsNamed'
    BY <1>2 DEF PurgeBlob, TypeOK, ReqState, RequestsNamed, ghosts
<1>4. WellFormed(rows') /\ NodesExist'
    BY DEF PurgeBlob, NodesExist
<1>5. CopiesReserved'
    BY <1>2 DEF PurgeBlob, CopiesReserved, TypeOK, ReqState
<1> QED BY <1>3, <1>4, <1>5

\* Whatever a request begins keeps the invariant.
LEMMA BeginInv ==
    ASSUME IInv, NEW p \in Req, Begin(p)
    PROVE  IInv'
<1>1. PICK n \in Node :
         \/ \E k \in Key : UploadStart(p, n, k) \/ OverwriteStart(p, n, k) \/ OverwriteSplit(p, n, k)
         \/ \E m \in Node : CopyLink(p, n, m) \/ \E k \in Key : CopyDup(p, n, m, k)
         \/ RestoreVersionStart(p, n)
         \/ RepairRestore(p, n)
         \/ \E action \in {"auto", "complete"} : RepairProbe(p, n, action)
         \/ RepairDelete(p, n)
         \/ \E queue \in SUBSET trashed : PurgeStart(p, n, queue)
    BY DEF Begin
<1>2. CASE \E k \in Key : UploadStart(p, n, k) \/ OverwriteStart(p, n, k) \/ OverwriteSplit(p, n, k)
    BY <1>2, UploadStartInv, OverwriteStartInv, OverwriteSplitInv
<1>3. CASE \E m \in Node : CopyLink(p, n, m) \/ \E k \in Key : CopyDup(p, n, m, k)
    BY <1>3, CopyLinkInv, CopyDupInv
<1>4. CASE RestoreVersionStart(p, n)
    BY <1>4, RestoreVersionStartInv
<1>5. CASE \/ RepairRestore(p, n)
           \/ \E action \in {"auto", "complete"} : RepairProbe(p, n, action)
           \/ RepairDelete(p, n)
    BY <1>5, RepairRestoreInv, RepairProbeInv, RepairDeleteInv
<1>6. CASE \E queue \in SUBSET trashed : PurgeStart(p, n, queue)
    BY <1>6, PurgeStartInv
<1> QED BY <1>1, <1>2, <1>3, <1>4, <1>5, <1>6

\* Whatever answer a request gets keeps the invariant.
LEMMA SucceedsInv ==
    ASSUME IInv, NEW p \in Req, Succeeds(p)
    PROVE  IInv'
<1>1. CASE BlobLands(p)
    <2>1. req[p].key \in Key
        BY <1>1 DEF IInv, RequestsNamed, BlobLands
    <2> QED BY <1>1, <2>1, QuietGoes DEF BlobLands, ghosts, IInv, TypeOK
<1>2. CASE Finish(p)
    BY <1>2, FinishInv
<1>3. CASE DupLands(p) \/ CopyDupDone(p) \/ \E k \in Key : OverwriteSplitDone(p, k)
    BY <1>3, DupLandsInv, CopyDupDoneInv, OverwriteSplitDoneInv
<1>4. CASE UndoBlob(p)
    <2>1. blobs' \in SUBSET Key
        BY <1>4 DEF UndoBlob, IInv, TypeOK
    <2> QED BY <1>4, <2>1, QuietEnds DEF UndoBlob
<1>5. CASE RestoreVersionSwap(p)
    BY <1>5, RestoreVersionSwapInv
<1>6. CASE RepairComplete(p)
    BY <1>6, RepairCompleteInv
<1>7. CASE RepairBlobMissing(p)
    BY <1>7, QuietGoes DEF RepairBlobMissing, ghosts, IInv, TypeOK
<1>8. CASE RepairKillBlob(p)
    <2>1. blobs' \in SUBSET Key
        BY <1>8 DEF RepairKillBlob, IInv, TypeOK
    <2> QED BY <1>8, <2>1, QuietGoes DEF RepairKillBlob, ghosts, IInv, TypeOK
<1>9. CASE RepairKillNode(p)
    <2>1. req[p].node \in Node
        BY <1>9 DEF IInv, RequestsNamed, RepairKillNode
    <2> QED BY <1>9, <2>1, DeleteEnds DEF RepairKillNode
<1>10. CASE PurgeBlob(p)
    BY <1>10, PurgeBlobInv
<1>11. CASE PurgeNode(p)
    BY <1>11, PurgeNextInv DEF PurgeNode
<1>12. CASE HeadFinds(p)
    BY <1>12, QuietGoes DEF HeadFinds, ghosts, IInv, TypeOK
<1> QED
    BY <1>1, <1>2, <1>3, <1>4, <1>5, <1>6, <1>7, <1>8, <1>9, <1>10, <1>11, <1>12 DEF Succeeds

\* Whatever failure a request meets keeps the invariant.
LEMMA FailsInv ==
    ASSUME IInv, NEW p \in Req, Fails(p)
    PROVE  IInv'
<1>0. blobs \in SUBSET Key
    BY DEF IInv, TypeOK
<1>1. CASE UploadFails(p)
    BY <1>1, UploadFailsInv
<1>2. CASE UploadCleanupFails(p)
    BY <1>0, <1>2, QuietEnds DEF UploadCleanupFails
<1>3. CASE DupFails(p)
    BY <1>0, <1>3, QuietEnds DEF DupFails
<1>4. CASE OverwriteFails(p)
    BY <1>4, OverwriteFailsInv
<1>5. CASE OverwriteRollbackFails(p)
    BY <1>0, <1>5, QuietGoes DEF OverwriteRollbackFails, ghosts, IInv, TypeOK
<1>6. CASE HeadRefused(p)
    BY <1>0, <1>6, QuietEnds DEF HeadRefused
<1> QED BY <1>1, <1>2, <1>3, <1>4, <1>5, <1>6 DEF Fails

-----------------------------------------------------------------------------
(* Trash, the collector and the crash.                                     *)

\* Trash and restore only write deleted_at.
LEMMA TrashInv ==
    ASSUME IInv, NEW n \in Node, Trash(n) \/ Untrash(n)
    PROVE  IInv'
<1>1. /\ trashed' \in SUBSET Node /\ \A m \in trashed' : sync[m] # "absent"
      /\ UNCHANGED <<sync, rows, blobs, minted, req, gc, ghosts>>
    BY DEF IInv, TypeOK, NodesExist, Trash, Untrash, Live
<1> QED BY <1>1 DEF IInv, TypeOK, RequestsNamed, NodesExist, CopiesReserved, ghosts

\* The collector only removes rows and blobs, and never writes a node.
LEMMA CollectInv ==
    ASSUME IInv, rows' \subseteq rows, blobs' \in SUBSET Key, gc' \in GcState,
           UNCHANGED <<sync, trashed, minted, req, ghosts>>
    PROVE  IInv'
<1>1. WellFormed(rows')
    BY SubsetWellFormed DEF IInv
<1>2. TypeOK'
    BY <1>1 DEF IInv, TypeOK, WellFormed, ghosts
<1>3. RequestsNamed' /\ NodesExist' /\ CopiesReserved'
    BY DEF IInv, RequestsNamed, NodesExist, CopiesReserved
<1> QED BY <1>1, <1>2, <1>3 DEF IInv

\* Every step of the collector keeps the invariant.
LEMMA GcStepInv ==
    ASSUME IInv, Collect
    PROVE  IInv'
<1>0. /\ rows \in SUBSET Row /\ blobs \in SUBSET Key /\ gc \in GcState /\ GcIdle \in GcState
      /\ \A D \in SUBSET rows : {r.key : r \in D} \subseteq Key /\ {RowId(r) : r \in D} \subseteq Node \X Key
    BY DEF IInv, TypeOK, GcState, GcIdle, Row, RowId
<1>1. CASE \E D \in SUBSET rows : GcBegin(D)
    <2>1. PICK D \in SUBSET rows : GcBegin(D)
        BY <1>1
    <2>2. gc' \in GcState
        BY <1>0, <2>1 DEF GcBegin, GcState
    <2> QED BY <1>0, <2>1, <2>2, CollectInv DEF GcBegin
<1>2. CASE \E D \in SUBSET rows : GcRows(D)
    <2>1. PICK D \in SUBSET rows : GcRows(D)
        BY <1>2
    <2>2. gc' \in GcState
        BY <1>0, <2>1 DEF GcRows, GcState
    <2> QED BY <1>0, <2>1, <2>2, CollectInv DEF GcRows, DeleteRows
<1>3. CASE \E C \in SUBSET blobs : GcList(C)
    <2>1. PICK C \in SUBSET blobs : GcList(C)
        BY <1>3
    <2>2. gc' \in GcState
        BY <1>0, <2>1 DEF GcList, GcState
    <2> QED BY <1>0, <2>1, <2>2, CollectInv DEF GcList
<1>4. CASE GcBlob
    <2>1. gc' \in GcState /\ blobs' \in SUBSET Key
        BY <1>0, <1>4 DEF GcBlob, GcState
    <2> QED BY <1>4, <2>1, CollectInv DEF GcBlob
<1>5. CASE GcStaleRows
    <2>1. gc' \in GcState
        BY <1>5 DEF GcStaleRows, GcState, GcIdle
    <2> QED BY <1>0, <1>5, <2>1, CollectInv DEF GcStaleRows, DeleteRows
<1>6. CASE GcReconcile
    <2>1. gc' \in GcState
        BY <1>0, <1>6 DEF GcReconcile, GcState
    <2> QED BY <1>0, <1>6, <2>1, CollectInv DEF GcReconcile
<1>7. CASE GcEnd
    BY <1>0, <1>7, CollectInv DEF GcEnd
<1> QED BY <1>1, <1>2, <1>3, <1>4, <1>5, <1>6, <1>7 DEF Collect

\* A crash forgets requests and writes nothing.
LEMMA CrashInv ==
    ASSUME IInv, Crash
    PROVE  IInv'
<1>1. Idle \in ReqState /\ GcIdle \in GcState
    BY DEF ReqState, Idle, GcState, GcIdle
<1>2. TypeOK'
    BY <1>1 DEF IInv, TypeOK, Crash, ghosts
<1>3. WellFormed(rows') /\ NodesExist'
    BY DEF IInv, NodesExist, Crash
<1>4. RequestsNamed' /\ CopiesReserved'
    BY DEF RequestsNamed, CopiesReserved, Crash, Idle
<1> QED BY <1>2, <1>3, <1>4 DEF IInv

\* A step that changes nothing keeps the invariant.
LEMMA StutterInv ==
    ASSUME IInv, UNCHANGED vars
    PROVE  IInv'
BY DEF IInv, TypeOK, RequestsNamed, NodesExist, CopiesReserved, vars

-----------------------------------------------------------------------------
\* Every step of every operation, of the collector, of a fault or of a crash keeps
\* the invariant.
LEMMA Inductive == IInv /\ [Next]_vars => IInv'
<1> SUFFICES ASSUME IInv, [Next]_vars PROVE IInv'
    OBVIOUS
<1>1. CASE \E p \in Req : Begin(p) \/ Succeeds(p) \/ Fails(p)
    BY <1>1, BeginInv, SucceedsInv, FailsInv
<1>2. CASE \E n \in Node : Trash(n) \/ Untrash(n) \/ RepairDeleteAtOnce(n)
    BY <1>2, TrashInv, RepairDeleteAtOnceInv
<1>3. CASE Tears
    <2>1. CASE \E p \in Req : PurgeNodeFails(p)
        BY <2>1, PurgeNextInv DEF PurgeNodeFails
    <2> QED BY <1>3, <2>1, UploadUnpreparedInv, CopyUnlinkedInv, CopyDupUnlinkedInv, SplitTornInv
        DEF Tears
<1>4. CASE Collect
    BY <1>4, GcStepInv
<1>5. CASE Crash
    BY <1>5, CrashInv
<1>6. CASE UNCHANGED vars
    BY <1>6, StutterInv
<1> QED BY <1>1, <1>2, <1>3, <1>4, <1>5, <1>6 DEF Next

\* The strengthened invariant holds in every reachable state.
THEOREM Invariance == Spec => []IInv
<1>1. Init => IInv
    BY Initially
<1>2. IInv /\ [Next]_vars => IInv'
    BY Inductive
<1> QED BY <1>1, <1>2, PTL DEF Spec

\* The stored status, version and key values stay within the columns' types, for
\* any number of files, keys and requests and any cap.
THEOREM TypeCorrect == Spec => []TypeOK
<1>1. IInv => TypeOK
    BY DEF IInv
<1> QED BY <1>1, Invariance, PTL

\* The MAX + 1 that upsertObjectMap inserts never meets object_map_version_unique,
\* whatever rows eviction, rollback, repair, purge and the collector have deleted
\* before, for any number of files, keys and requests and any cap.
THEOREM VersionsStayUnique == Spec => []VersionsUnique
<1>1. IInv => VersionsUnique
    BY DEF IInv, WellFormed, DistinctVersions, VersionsUnique
<1> QED BY <1>1, Invariance, PTL
=============================================================================
