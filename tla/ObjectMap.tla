------------------------------ MODULE ObjectMap ------------------------------
(***************************************************************************)
(* The object_map table of the metadata store: which blob key holds which  *)
(* version of which file node.  Every operator below is one SQL statement  *)
(* of FileNodeRepository (both dialects have the same text) or one         *)
(* selection the services make over its rows.  A table is a set of rows;   *)
(* the pair <<node, key>> stands for the row id, because a key is minted   *)
(* for one row of a node and is never inserted twice for the same node.    *)
(***************************************************************************)
EXTENDS Integers, FiniteSets

CONSTANTS Node,     \* file nodes (file_nodes.id of nodes of type 'file')
          Key       \* blob keys (crypto.randomUUID)

Status == {"pending", "active", "history", "orphaned"}

Row == [node : Node, key : Key, ver : Nat \ {0}, st : Status]

RowsOf(R, n) == {r \in R : r.node = n}

Having(R, n, S) == {r \in RowsOf(R, n) : r.st \in S}

ActiveRows(R, n) == Having(R, n, {"active"})

RowId(r) == <<r.node, r.key>>

\* UPDATE object_map SET status = st WHERE row in S
SetStatus(R, S, st) == (R \ S) \cup {[r EXCEPT !.st = st] : r \in S}

-----------------------------------------------------------------------------
(* Version numbers.                                                        *)

Versions(R, n) == {0} \cup {r.ver : r \in RowsOf(R, n)}

MaxVersion(R, n) == CHOOSE v \in Versions(R, n) : \A w \in Versions(R, n) : w <= v

CountVersion(R, n) == Cardinality(RowsOf(R, n)) + 1

\* COALESCE(MAX(version_number), 0) + 1
NextVersion(R, n) == MaxVersion(R, n) + 1

\* The row of n that ORDER BY version_number DESC puts first among S.
Newest(S) == CHOOSE r \in S : \A q \in S : q.ver <= r.ver

-----------------------------------------------------------------------------
(* Writes.                                                                 *)

NoDemotion(R, n) == R

DemoteSharers(R, n) ==
    SetStatus(R, {r \in R : r.st = "active" /\ \E q \in ActiveRows(R, n) : q.key = r.key}, "history")

DemoteActive(R, n) == SetStatus(R, ActiveRows(R, n), "history")

\* upsertObjectMap: the active row becomes history, the new row takes the next
\* version number.
Upsert(R, n, k, st) ==
    DemoteActive(R, n) \cup {[node |-> n, key |-> k, ver |-> NextVersion(R, n), st |-> st]}

\* insertObject: a copied node's first row, version 1.
InsertFirst(R, n, k) == R \cup {[node |-> n, key |-> k, ver |-> 1, st |-> "active"]}

EvictNewest(R, n, cap) ==
    LET hist   == Having(R, n, {"history"})
        excess == Cardinality(Having(R, n, {"active", "history"})) - cap
    IN  SetStatus(R, {r \in hist : Cardinality({q \in hist : q.ver > r.ver}) < excess}, "orphaned")

EvictLate(R, n, cap) ==
    LET hist   == Having(R, n, {"history"})
        excess == Cardinality(Having(R, n, {"active", "history"})) - cap
    IN  SetStatus(R, {r \in hist : Cardinality({q \in hist : q.ver < r.ver}) < excess - 1}, "orphaned")

\* evictVersionsBeyondCap: the oldest history rows above the cap become
\* orphaned.  cap = 0 means unbounded.
Evict(R, n, cap) ==
    LET hist   == Having(R, n, {"history"})
        excess == Cardinality(Having(R, n, {"active", "history"})) - cap
    IN  IF cap = 0 THEN R
        ELSE SetStatus(R, {r \in hist : Cardinality({q \in hist : q.ver < r.ver}) < excess},
                       "orphaned")

\* activateObject
Activate(R, k) == SetStatus(R, {r \in R : r.key = k /\ r.st = "pending"}, "active")

ReactivateHistoryOnly(R, n, k) ==
    SetStatus(R, {r \in RowsOf(R, n) : r.key = k /\ r.st = "history"}, "active")

\* reactivateObjectMapRow(id)
Reactivate(R, n, k) ==
    SetStatus(R, {r \in RowsOf(R, n) : r.key = k /\ r.st \in {"history", "orphaned"}}, "active")

NoDemotionByKey(R, k) == R

\* demoteActiveToHistory(s3_key): by key, whatever the node.
DemoteByKey(R, k) == SetStatus(R, {r \in R : r.key = k /\ r.st = "active"}, "history")

\* deleteObjectMapRows(ids)
DeleteRows(R, ids) == {r \in R : RowId(r) \notin ids}

\* DELETE FROM file_nodes ... with ON DELETE CASCADE on object_map.
CascadeDelete(R, n) == R \ RowsOf(R, n)

-----------------------------------------------------------------------------
(* Reads.                                                                  *)

\* countActiveObjectsByS3Key
ActiveCount(R, k) == Cardinality({r \in R : r.key = k /\ r.st = "active"})

\* getObjectMapByS3Key finds a row.
Known(R, k) == \E r \in R : r.key = k /\ r.st \in {"pending", "active"}

\* repairPendingUploadNode: the last good row, newest history row first, else
\* the newest orphaned row; the empty set when there is none.
LastGood(R, n) ==
    LET hist == Having(R, n, {"history"})
        orph == Having(R, n, {"orphaned"})
    IN  IF hist # {} THEN {Newest(hist)} ELSE IF orph # {} THEN {Newest(orph)} ELSE {}

\* the newest pending row, if any
PendingRow(R, n) ==
    LET pend == Having(R, n, {"pending"}) IN IF pend = {} THEN {} ELSE {Newest(pend)}

UnguardedEvicted(R, sync) == {r \in R : r.st = "orphaned"}

\* runTier1: orphaned rows, except those guarded by a stuck node with no
\* active row (every row's node exists: the foreign key cascades).
Evicted(R, sync) ==
    {r \in R : /\ r.st = "orphaned"
               /\ ~(sync[r.node] = "pending_upload" /\ ActiveRows(R, r.node) = {})}

\* getStalePendingObjects
StalePending(R, sync) == {r \in R : r.st = "pending" /\ sync[r.node] = "pending_upload"}

KeptActiveOnly(R, sync) == {r.key : r \in {q \in R : q.st = "active"}}

\* getKeptObjectMapKeys: active, history, orphaned, and pending on a
\* pending_upload node.
KeptKeys(R, sync) ==
    {r.key : r \in {q \in R : q.st \in {"active", "history", "orphaned"}}
                   \cup StalePending(R, sync)}
=============================================================================
