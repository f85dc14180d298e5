--------------------------- MODULE BlobAloneProofs ---------------------------
(***************************************************************************)
(* One request at a time, with copies: a file has one active version, no   *)
(* more versions than the cap and one, at most two files share a blob, and *)
(* both serve what was acknowledged.                                       *)
(***************************************************************************)
EXTENDS BlobLifecycleProofs

Lone == \A p, q \in Req : p = q

-----------------------------------------------------------------------------
(* Tables without copies of a row: a file has one active row at most, a key *)
(* one row in a file, and the key of a pending row no other row.           *)

OneActive(R) == \A r, s \in R : r.node = s.node /\ r.st = "active" /\ s.st = "active" => r = s

OneOfKey(R) == \A r, s \in R : r.node = s.node /\ r.key = s.key => r = s

PendingAlone(R) == \A r, s \in R : r.key = s.key /\ r.st = "pending" => r = s

Tidy(R) == OneActive(R) /\ OneOfKey(R) /\ PendingAlone(R)

\* The rows of Q are rows of R whose status may have changed, though not to pending.
Restates(Q, R) ==
    \A q \in Q : \E r \in R : /\ q.node = r.node /\ q.key = r.key /\ q.ver = r.ver
                              /\ q.st = "pending" => r.st = "pending"

\* Other statuses make no row share what it had alone.
LEMMA RestatedTidy ==
    ASSUME NEW R, Tidy(R), NEW Q, WellFormed(Q), Restates(Q, R), OneActive(Q)
    PROVE  Tidy(Q)
<1>1. ASSUME NEW q \in Q, NEW s \in Q, q.key = s.key, q.node = s.node \/ q.st = "pending"
      PROVE  q = s
  <2>1. PICK r \in R : /\ q.node = r.node /\ q.key = r.key /\ q.ver = r.ver
                       /\ q.st = "pending" => r.st = "pending"
    BY DEF Restates
  <2>2. PICK t \in R : s.node = t.node /\ s.key = t.key /\ s.ver = t.ver
    BY DEF Restates
  <2>3. r = t
    BY <1>1, <2>1, <2>2 DEF Tidy, OneOfKey, PendingAlone
  <2> QED BY <2>1, <2>2, <2>3 DEF WellFormed, DistinctVersions
<1> QED BY <1>1 DEF Tidy, OneOfKey, PendingAlone

\* Deleting rows disturbs nothing.
LEMMA SubsetTidy ==
    ASSUME NEW R, Tidy(R), NEW Q, Q \subseteq R
    PROVE  Tidy(Q)
BY DEF Tidy, OneActive, OneOfKey, PendingAlone

\* upsertObjectMap with a new key: the rows of other files are as before.
LEMMA UpsertTidy ==
    ASSUME NEW R, WellFormed(R), Tidy(R), NEW n \in Node, NEW k \in Key,
           \A r \in R : r.key # k, NEW st \in {"pending", "active"}
    PROVE  /\ Tidy(Upsert(R, n, k, st))
           /\ \A m : m # n => RowsOf(Upsert(R, n, k, st), m) = RowsOf(R, m)
           /\ \A q \in Upsert(R, n, k, st) : q.key # k => \E r \in R :
                 /\ q.node = r.node /\ q.key = r.key /\ q.ver = r.ver
                 /\ IF r.node = n /\ r.st = "active" THEN q.st = "history" ELSE q = r
           /\ \A q \in Upsert(R, n, k, st) : q.key = k => q.node = n /\ q.st = st
           /\ \E q \in Upsert(R, n, k, st) : q.key = k /\ q.node = n /\ q.st = st
<1> DEFINE D == DemoteActive(R, n)
           x == [node |-> n, key |-> k, ver |-> NextVersion(R, n), st |-> st]
           U == Upsert(R, n, k, st)
<1>1. /\ R \subseteq Row /\ U = D \cup {x} /\ WellFormed(U) /\ x.node = n /\ x.key = k /\ x.st = st
  BY UpsertWellFormed DEF WellFormed, Upsert, Status
<1>2. /\ ActiveRows(R, n) \subseteq R
      /\ \A r \in R : r \in ActiveRows(R, n) <=> r.node = n /\ r.st = "active"
  BY DEF ActiveRows, Having, RowsOf
<1>3. \A q \in D :
         \/ q \in R /\ ~(q.node = n /\ q.st = "active")
         \/ \E r \in ActiveRows(R, n) :
               q.node = r.node /\ q.key = r.key /\ q.ver = r.ver /\ q.st = "history"
  BY <1>1, <1>2, SetStatusRows DEF DemoteActive
<1>4. \A q \in D : \E r \in R :
         /\ q.node = r.node /\ q.key = r.key /\ q.ver = r.ver
         /\ IF r.node = n /\ r.st = "active" THEN q.st = "history" ELSE q = r
  BY <1>2, <1>3
<1>5. R \ ActiveRows(R, n) \subseteq D
  BY DEF DemoteActive, SetStatus
<1>6. WellFormed(D) /\ Restates(D, R)
  <2>1. Restates(D, R)
    BY <1>4 DEF Restates
  <2>2. WellFormed(D)
    BY <1>1, SubsetWellFormed
  <2> QED BY <2>1, <2>2
<1>7. Tidy(D) /\ \A q \in D : ~(q.node = n /\ q.st = "active") /\ q.key # k
  <2>1. \A q \in D : ~(q.node = n /\ q.st = "active") /\ q.key # k
    BY <1>4
  <2>2. OneActive(D)
    BY <1>4, <2>1 DEF Tidy, OneActive
  <2> QED BY <1>6, <2>1, <2>2, RestatedTidy
<1> HIDE DEF D, x, U
<1>8. Tidy(U)
  BY <1>1, <1>7 DEF Tidy, OneActive, OneOfKey, PendingAlone
<1>9. ASSUME NEW m, m # n PROVE RowsOf(U, m) = RowsOf(R, m)
  BY <1>1, <1>2, <1>4, <1>5, <1>9 DEF RowsOf
<1>10. /\ \A q \in U : q.key # k => q \in D
       /\ \A q \in U : q.key = k => q = x
       /\ x \in U
  BY <1>1, <1>7
<1>11. Upsert(R, n, k, st) = U
  BY DEF U
<1> QED BY <1>1, <1>4, <1>8, <1>9, <1>10, <1>11

\* evictVersionsBeyondCap changes history rows of one file.
LEMMA EvictTidy ==
    ASSUME NEW R, WellFormed(R), Tidy(R), NEW n \in Node, NEW cap \in Nat
    PROVE  /\ Tidy(Evict(R, n, cap))
           /\ \A m : m # n => RowsOf(Evict(R, n, cap), m) = RowsOf(R, m)
<1> DEFINE Q == Evict(R, n, cap)
<1>1. /\ \A r \in R : \E q \in Q :
            /\ q.node = r.node /\ q.key = r.key /\ q.ver = r.ver
            /\ q = r \/ (r.node = n /\ r.st = "history" /\ q.st = "orphaned")
      /\ \A q \in Q : \E r \in R :
            /\ q.node = r.node /\ q.key = r.key /\ q.ver = r.ver
            /\ q = r \/ (r.node = n /\ r.st = "history" /\ q.st = "orphaned")
      /\ WellFormed(Q)
  BY EvictRows, EvictWellFormed
<1> HIDE DEF Q
<1>2. Restates(Q, R)
  BY <1>1 DEF Restates
<1>3. OneActive(Q)
  <2>1. \A q \in Q : q.st = "active" => q \in R
    BY <1>1
  <2> QED BY <2>1 DEF Tidy, OneActive
<1>4. \A m : m # n => RowsOf(Q, m) = RowsOf(R, m)
  BY <1>1 DEF RowsOf
<1>5. Tidy(Q)
  BY <1>1, <1>2, <1>3, RestatedTidy
<1> QED BY <1>4, <1>5 DEF Q

\* activateObject, reactivateObjectMapRow: a file without an active row gets one.
LEMMA ActivateTidy ==
    ASSUME NEW R, WellFormed(R), Tidy(R), NEW n \in Node, NEW k \in Key, ActiveRows(R, n) = {},
           \A r \in R : r.key = k => r.node = n /\ r.st = "pending"
    PROVE  /\ Tidy(Activate(R, k))
           /\ \A m : m # n => RowsOf(Activate(R, k), m) = RowsOf(R, m)
           /\ \A q \in Activate(R, k) :
                 q \in R \/ (q.key = k /\ q.st = "active" /\ \E r \in R : r.key = k)
<1> DEFINE Q == Activate(R, k)
<1>1. R \subseteq Row /\ WellFormed(Q)
  BY ActivateWellFormed DEF WellFormed
<1>2. /\ \A r \in R : r.key # k => r \in Q
      /\ \A q \in Q :
            \/ q \in R /\ q.key # k
            \/ /\ q.key = k /\ q.st = "active"
               /\ \E r \in R : r.key = k /\ q.node = r.node /\ q.ver = r.ver
  BY <1>1, ActivateRows
<1> HIDE DEF Q
<1>3. Restates(Q, R)
  BY <1>2 DEF Restates
<1>4. \A q, s \in Q : q.key = k /\ s.key = k => q = s
  <2> SUFFICES ASSUME NEW q \in Q, NEW s \in Q, q.key = k, s.key = k PROVE q = s
    OBVIOUS
  <2>1. PICK r \in R : r.key = k /\ q.node = r.node /\ q.ver = r.ver
    BY <1>2
  <2>2. PICK t \in R : t.key = k /\ s.node = t.node /\ s.ver = t.ver
    BY <1>2
  <2>3. r = t
    BY <2>1, <2>2 DEF Tidy, PendingAlone
  <2> QED BY <1>1, <2>1, <2>2, <2>3 DEF WellFormed, DistinctVersions
<1>5. \A q \in Q : q.node = n /\ q.st = "active" => q.key = k
  BY <1>2 DEF ActiveRows, Having, RowsOf
<1>6. OneActive(Q)
  BY <1>2, <1>4, <1>5 DEF Tidy, OneActive
<1>7. \A m : m # n => RowsOf(Q, m) = RowsOf(R, m)
  BY <1>2 DEF RowsOf
<1>8. Tidy(Q)
  BY <1>1, <1>3, <1>6, RestatedTidy
<1> QED BY <1>2, <1>7, <1>8 DEF Q

\* The row that is reactivated is the only one of its key in the file.
LEMMA ReactivateTidy ==
    ASSUME NEW R, WellFormed(R), Tidy(R), NEW n \in Node, NEW k, ActiveRows(R, n) = {}
    PROVE  /\ Tidy(Reactivate(R, n, k))
           /\ \A m : m # n => RowsOf(Reactivate(R, n, k), m) = RowsOf(R, m)
           /\ \A q \in Reactivate(R, n, k) : q \in R \/
                 (/\ q.node = n /\ q.key = k /\ q.st = "active"
                  /\ \E r \in R : r.node = n /\ r.key = k /\ r.st \in {"history", "orphaned"})
<1> DEFINE Q == Reactivate(R, n, k)
<1>1. R \subseteq Row /\ WellFormed(Q)
  BY ReactivateWellFormed DEF WellFormed
<1>2. /\ \A r \in R : ~Restorable(r, n, k) => r \in Q
      /\ \A q \in Q :
            \/ q \in R /\ ~Restorable(q, n, k)
            \/ /\ q.node = n /\ q.key = k /\ q.st = "active"
               /\ \E r \in R : Restorable(r, n, k) /\ q.ver = r.ver
  BY <1>1, ReactivateRows
<1> HIDE DEF Q
<1>3. Restates(Q, R)
  BY <1>2 DEF Restates, Restorable
<1>4. \A q, s \in Q : q.node = n /\ s.node = n /\ q.st = "active" /\ s.st = "active" => q = s
  <2> SUFFICES ASSUME NEW q \in Q, NEW s \in Q, q.node = n, s.node = n,
                      q.st = "active", s.st = "active"
               PROVE  q = s
    OBVIOUS
  <2>1. PICK r \in R : r.node = n /\ r.key = k /\ q.ver = r.ver
    BY <1>2 DEF Restorable, ActiveRows, Having, RowsOf
  <2>2. PICK t \in R : t.node = n /\ t.key = k /\ s.ver = t.ver
    BY <1>2 DEF Restorable, ActiveRows, Having, RowsOf
  <2>3. r = t
    BY <2>1, <2>2 DEF Tidy, OneOfKey
  <2> QED BY <1>1, <2>1, <2>2, <2>3 DEF WellFormed, DistinctVersions
<1>5. OneActive(Q)
  BY <1>2, <1>4 DEF Tidy, OneActive
<1>6. \A m : m # n => RowsOf(Q, m) = RowsOf(R, m)
  BY <1>2 DEF RowsOf, Restorable
<1>7. Tidy(Q)
  BY <1>1, <1>3, <1>5, RestatedTidy
<1>8. \A q \in Q : q \in R \/
         (/\ q.node = n /\ q.key = k /\ q.st = "active"
          /\ \E r \in R : r.node = n /\ r.key = k /\ r.st \in {"history", "orphaned"})
  BY <1>2 DEF Restorable
<1> QED BY <1>6, <1>7, <1>8 DEF Q

\* linkObject: the first row of a new file, with a key that is nowhere pending.
LEMMA LinkTidy ==
    ASSUME NEW R, Tidy(R), NEW m, NEW k, RowsOf(R, m) = {}, \A r \in R : r.key = k => r.st # "pending"
    PROVE  /\ Tidy(InsertFirst(R, m, k))
           /\ \A o : o # m => RowsOf(InsertFirst(R, m, k), o) = RowsOf(R, o)
BY DEF InsertFirst, RowsOf, Tidy, OneActive, OneOfKey, PendingAlone

-----------------------------------------------------------------------------
(* The first invariant: one active row in a file                           *)

Bare(n) == ActiveRows(rows, n) = {}

Splitting(p) == req[p].pc \in {"dup", "duped"}

\* Whatever the request ends with, a row of its file will be made active.
Filling(p) ==
    \/ req[p].pc \in {"put", "landed"}
    \/ req[p].pc \in {"head", "headed"} /\ req[p].op \in {"auto", "complete"}

Swapping(p) == req[p].pc \in {"head", "headed"} /\ req[p].op = "restoreVersion"

KeysMinted ==
    /\ \A r \in rows : r.key \in minted
    /\ \A p \in Req : req[p].key \in minted \cup {None}

\* The key of a split is in no row yet; nobody splits a stuck file that can be repaired.
Splits(p) ==
    Splitting(p) =>
        /\ \A r \in rows : r.key # req[p].key
        /\ req[p].op = "overwrite" /\ "repair" \in Ops => sync[req[p].node] # "pending_upload"
        /\ req[p].op = "copy" => "copy" \in Ops

\* No row of the file is active yet, and the one to be activated is pending.
Fills(p) ==
    Filling(p) =>
        /\ Bare(req[p].node)
        /\ \A r \in rows : r.key = req[p].key => r.node = req[p].node /\ r.st = "pending"

\* The active row is still the one that the restore has read.
Swaps(p) == Swapping(p) => \A r \in ActiveRows(rows, req[p].node) : r.key = req[p].prev

StuckBare == "repair" \in Ops => \A n \in Node : sync[n] = "pending_upload" => Bare(n)

Single ==
    /\ IInv /\ Tidy(rows) /\ KeysMinted /\ StuckBare
    /\ \A p \in Req : Splits(p) /\ Fills(p) /\ Swaps(p)

\* A copy torn between its commits leaves a stuck file with an active row, which a
\* repair does not expect; beside that, one request at a time may do anything.
Alone == Lone /\ ~({"copy", "fault", "repair"} \subseteq Ops)

-----------------------------------------------------------------------------
(* Steps that write no row, or delete those of a file                      *)

\* A request that goes on, and one that needs nothing of the table.
Stays(p) ==
    /\ req'[p].op = req[p].op /\ req'[p].node = req[p].node
    /\ req'[p].key = req[p].key /\ req'[p].prev = req[p].prev
    /\ Filling(p)' => Filling(p)
    /\ Splitting(p)' => Splitting(p)
    /\ Swapping(p)' => Swapping(p)
    /\ req'[p].pc \in {"head", "headed"} => req[p].pc \in {"head", "headed"}

Rests(p) ==
    /\ req'[p].key \in minted \cup {None} /\ req'[p].pc \notin {"head", "headed"}
    /\ ~Filling(p)' /\ ~Splitting(p)' /\ ~Swapping(p)'

Quiet ==
    /\ rows' = rows \/ \E n \in Node : rows' = CascadeDelete(rows, n)
    /\ minted' = minted
    /\ \A n \in Node : sync'[n] = "pending_upload" => sync[n] = "pending_upload" \/ Unused(n)
    /\ \A n \in Node : sync'[n] = "active" => sync[n] = "active"
    /\ \A p \in Req : Stays(p) \/ Rests(p)
    /\ gc' = gc \/ gc' = GcIdle

\* A request that ends, or goes on, and leaves the rows.
LEMMA EndsRests ==
    ASSUME IInv, NEW p \in Req, Ends(p)
    PROVE  \A q \in Req : Stays(q) \/ Rests(q)
<1>1. req'[p] = Idle /\ \A q \in Req \ {p} : req'[q] = req[q]
  BY DEF IInv, TypeOK, Ends
<1>2. Idle.key = None /\ Idle.pc = "idle"
  BY DEF Idle
<1> QED BY <1>1, <1>2 DEF Stays, Rests, Filling, Splitting, Swapping

\* A request that goes on with the same file and keys.
LEMMA GoesStays ==
    ASSUME IInv, NEW p \in Req, NEW label, Goes(p, label),
           label \in {"undo", "kill", "killed"} \/ (label = "landed" /\ req[p].pc = "put")
              \/ (label = "duped" /\ req[p].pc = "dup") \/ (label = "headed" /\ req[p].pc = "head")
    PROVE  \A q \in Req : Stays(q) \/ Rests(q)
<1>1. \A q \in Req \ {p} : req'[q] = req[q]
  BY DEF IInv, TypeOK, Goes
<1>2. /\ req'[p].pc = label /\ req'[p].op = req[p].op /\ req'[p].node = req[p].node
      /\ req'[p].key = req[p].key /\ req'[p].prev = req[p].prev
  BY DEF IInv, TypeOK, Goes, ReqState
<1> QED BY <1>1, <1>2 DEF Stays, Filling, Splitting, Swapping

\* A request that purges, undoes or deletes needs nothing of the table.
LEMMA BecomesRests ==
    ASSUME IInv, NEW p \in Req, NEW s, Becomes(p, s), s.key = None \/ s.key \in minted,
           s.pc \in {"purge", "undo", "kill"}
    PROVE  \A q \in Req : Stays(q) \/ Rests(q)
<1>1. req'[p] = s /\ \A q \in Req \ {p} : req'[q] = req[q]
  BY DEF IInv, TypeOK, Becomes
<1> QED BY <1>1 DEF Stays, Rests, Filling, Splitting, Swapping

\* A purge holds no key.
LEMMA PurgingRests ==
    ASSUME IInv, NEW p \in Req, NEW m, NEW queue, Purging(p, m, queue)
    PROVE  \A q \in Req : Stays(q) \/ Rests(q)
<1>1. PICK s : s.key = None /\ s.pc = "purge" /\ Becomes(p, s)
  BY DEF Purging, Idle
<1> QED BY <1>1, BecomesRests

\* The next file of a purge, or its end.
LEMMA PurgeNextRests ==
    ASSUME IInv, NEW p \in Req, PurgeNext(p)
    PROVE  \A q \in Req : Stays(q) \/ Rests(q)
<1>1. CASE Ends(p)
  BY <1>1, EndsRests
<1>2. CASE \E m, queue : Purging(p, m, queue)
  BY <1>2, PurgingRests
<1> QED BY <1>1, <1>2 DEF PurgeNext

\* The deletion of a node is quiet.
LEMMA HardDeleteQuiet ==
    ASSUME IInv, NEW n \in Node, HardDelete(n), UNCHANGED <<minted, gc>>,
           \A q \in Req : Stays(q) \/ Rests(q)
    PROVE  Quiet
BY DEF HardDelete, Quiet, IInv, TypeOK

\* A step of the requests alone.
LEMMA NothingQuiet ==
    ASSUME UNCHANGED <<sync, rows, minted, gc>>, \A q \in Req : Stays(q) \/ Rests(q)
    PROVE  Quiet
BY DEF Quiet

\* The requests that stay as they are.
LEMMA SameStays == req' = req => \A q \in Req : Stays(q)
BY DEF Stays, Filling, Splitting, Swapping

\* Answers of the blob store, and the deletion of nodes.
LEMMA SucceedsQuiet ==
    ASSUME IInv, NEW p \in Req,
           \/ BlobLands(p) \/ DupLands(p) \/ UndoBlob(p) \/ HeadFinds(p) \/ RepairBlobMissing(p)
           \/ RepairKillBlob(p) \/ RepairKillNode(p) \/ PurgeBlob(p) \/ PurgeNode(p)
    PROVE  Quiet
<1>1. CASE BlobLands(p) \/ DupLands(p) \/ HeadFinds(p) \/ RepairBlobMissing(p) \/ RepairKillBlob(p)
  <2>1. /\ UNCHANGED <<sync, rows, minted, gc>>
        /\ \/ Goes(p, "landed") /\ req[p].pc = "put"
           \/ Goes(p, "duped") /\ req[p].pc = "dup"
           \/ Goes(p, "headed") /\ req[p].pc = "head"
           \/ Goes(p, "kill") \/ Goes(p, "killed")
    BY <1>1 DEF BlobLands, DupLands, HeadFinds, RepairBlobMissing, RepairKillBlob
  <2> QED BY <2>1, GoesStays, NothingQuiet
<1>2. CASE UndoBlob(p)
  <2>1. UNCHANGED <<sync, rows, minted, gc>> /\ Ends(p)
    BY <1>2 DEF UndoBlob
  <2> QED BY <2>1, EndsRests, NothingQuiet
<1>3. CASE RepairKillNode(p)
  <2>1. /\ req[p].node \in Node /\ HardDelete(req[p].node) /\ Ends(p)
        /\ UNCHANGED <<minted, gc>>
    BY <1>3 DEF RepairKillNode, IInv, RequestsNamed
  <2> QED BY <2>1, EndsRests, HardDeleteQuiet
<1>4. CASE PurgeBlob(p)
  <2>1. PICK k : req' = [req EXCEPT ![p].todo = @ \ {k}]
    BY <1>4 DEF PurgeBlob
  <2>2. \A q \in Req : Stays(q)
    BY <2>1 DEF IInv, TypeOK, ReqState, Stays, Filling, Splitting, Swapping
  <2> QED BY <1>4, <2>2, NothingQuiet DEF PurgeBlob
<1>5. CASE PurgeNode(p)
  <2>1. /\ req[p].node \in Node /\ HardDelete(req[p].node) /\ PurgeNext(p)
        /\ UNCHANGED <<minted, gc>>
    BY <1>5 DEF PurgeNode, IInv, RequestsNamed
  <2> QED BY <2>1, PurgeNextRests, HardDeleteQuiet
<1> QED BY <1>1, <1>2, <1>3, <1>4, <1>5

\* Of the failures only the rollback of an overwrite writes rows.
LEMMA FailsQuiet ==
    ASSUME IInv, NEW p \in Req, Fails(p)
    PROVE  Quiet \/ OverwriteFails(p)
<1>1. CASE UploadFails(p)
  <2>1. /\ req[p].node \in Node /\ HardDelete(req[p].node) /\ Ends(p)
        /\ UNCHANGED <<minted, gc>>
    BY <1>1 DEF UploadFails, IInv, RequestsNamed
  <2> QED BY <2>1, EndsRests, HardDeleteQuiet
<1>2. CASE UploadCleanupFails(p) \/ DupFails(p) \/ HeadRefused(p)
  <2>1. UNCHANGED <<sync, rows, minted, gc>> /\ Ends(p)
    BY <1>2 DEF UploadCleanupFails, DupFails, HeadRefused
  <2> QED BY <2>1, EndsRests, NothingQuiet
<1>3. CASE OverwriteRollbackFails(p)
  <2>1. UNCHANGED <<sync, rows, minted, gc>> /\ Goes(p, "undo")
    BY <1>3 DEF OverwriteRollbackFails
  <2> QED BY <2>1, GoesStays, NothingQuiet
<1> QED BY <1>1, <1>2, <1>3 DEF Fails

\* A deletion and a purge start without a write.
LEMMA BeginQuiet ==
    ASSUME IInv, KeysMinted, NEW p \in Req, NEW n \in Node,
           RepairDelete(p, n) \/ \E queue \in SUBSET trashed : PurgeStart(p, n, queue)
    PROVE  Quiet
<1>1. CASE RepairDelete(p, n)
  <2>1. PICK r \in PendingRow(rows, n) :
           Becomes(p, [Idle EXCEPT !.op = "delete", !.pc = "kill", !.node = n, !.key = r.key])
    BY <1>1 DEF RepairDelete
  <2>2. r \in rows
    BY <2>1, PendingRowKnown
  <2>3. PICK s : s.key = r.key /\ s.pc = "kill" /\ Becomes(p, s)
    BY <2>1 DEF Idle
  <2> QED BY <1>1, <2>2, <2>3, BecomesRests, NothingQuiet DEF RepairDelete, KeysMinted
<1>2. CASE \E queue \in SUBSET trashed : PurgeStart(p, n, queue)
  BY <1>2, PurgingRests, NothingQuiet DEF PurgeStart
<1> QED BY <1>1, <1>2

\* Trash, the deletion of a stuck file, a torn upload or purge, a crash.
LEMMA RestQuiet ==
    ASSUME IInv,
           \/ \E n \in Node : Trash(n) \/ Untrash(n) \/ RepairDeleteAtOnce(n) \/ UploadUnprepared(n)
           \/ \E p \in Req : PurgeNodeFails(p)
           \/ Crash \/ UNCHANGED vars
    PROVE  Quiet
<1>1. CASE (\E n \in Node : Trash(n) \/ Untrash(n)) \/ UNCHANGED vars
  <2>1. UNCHANGED <<sync, rows, minted, gc, req>>
    BY <1>1 DEF Trash, Untrash, vars
  <2> QED BY <2>1, SameStays, NothingQuiet
<1>2. ASSUME NEW n \in Node, RepairDeleteAtOnce(n) PROVE Quiet
  BY <1>2, SameStays, HardDeleteQuiet DEF RepairDeleteAtOnce
<1>3. ASSUME NEW n \in Node, UploadUnprepared(n) PROVE Quiet
  <2>1. /\ Unused(n) /\ UNCHANGED <<rows, minted, gc, req>> /\ sync'[n] = "pending_upload"
        /\ \A m \in Node \ {n} : sync'[m] = sync[m]
    BY <1>3 DEF UploadUnprepared, IInv, TypeOK
  <2> QED BY <2>1, SameStays DEF Quiet
<1>4. ASSUME NEW p \in Req, PurgeNodeFails(p) PROVE Quiet
  BY <1>4, PurgeNextRests, NothingQuiet DEF PurgeNodeFails
<1>5. CASE Crash
  <2>1. UNCHANGED <<sync, rows, minted>> /\ gc' = GcIdle /\ \A p \in Req : req'[p] = Idle
    BY <1>5 DEF Crash
  <2>2. Idle.key = None /\ Idle.pc = "idle"
    BY DEF Idle
  <2> QED BY <2>1, <2>2 DEF Quiet, Rests, Filling, Splitting, Swapping
<1> QED BY <1>1, <1>2, <1>3, <1>4, <1>5

-----------------------------------------------------------------------------
(* Every step is quiet, the collector's, or one of these                   *)

Writes(p) ==
    \/ \E n \in Node : \/ \E k \in Key : \/ UploadStart(p, n, k) \/ OverwriteStart(p, n, k)
                                          \/ OverwriteSplit(p, n, k)
                       \/ \E m \in Node : CopyLink(p, n, m) \/ \E k \in Key : CopyDup(p, n, m, k)
                       \/ RestoreVersionStart(p, n) \/ RepairRestore(p, n)
                       \/ \E action \in {"auto", "complete"} : RepairProbe(p, n, action)
    \/ Finish(p) \/ CopyDupDone(p) \/ CopyDupUnlinked(p)
    \/ (\E k \in Key : OverwriteSplitDone(p, k)) \/ SplitTorn(p) \/ OverwriteFails(p)
    \/ RestoreVersionSwap(p) \/ RepairComplete(p)

\* Every step has one of these shapes.
LEMMA Shapes ==
    ASSUME IInv, KeysMinted, [Next]_vars
    PROVE  \/ Quiet \/ Collect
           \/ \E p \in Req : Writes(p)
           \/ \E n, m \in Node : CopyUnlinked(n, m)
<1>1. ASSUME NEW p \in Req, Begin(p) PROVE Quiet \/ Writes(p)
  BY <1>1, BeginQuiet DEF Begin, Writes
<1>2. ASSUME NEW p \in Req, Succeeds(p) PROVE Quiet \/ Writes(p)
  BY <1>2, SucceedsQuiet DEF Succeeds, Writes
<1>3. ASSUME NEW p \in Req, Fails(p) PROVE Quiet \/ Writes(p)
  BY <1>3, FailsQuiet DEF Writes
<1>4. ASSUME Tears
      PROVE  Quiet \/ (\E p \in Req : Writes(p)) \/ \E n, m \in Node : CopyUnlinked(n, m)
  BY <1>4, RestQuiet DEF Tears, Writes
<1> QED BY <1>1, <1>2, <1>3, <1>4, RestQuiet DEF Next

-----------------------------------------------------------------------------
(* Every step keeps the invariant                                          *)

\* Tables whose rows are fewer leave every request with what it counts on.
LEMMA ShrinkKeeps ==
    ASSUME Single, IInv', rows' \subseteq rows, minted' = minted,
           \A n \in Node : sync'[n] = "pending_upload" => sync[n] = "pending_upload" \/ Unused(n),
           \A p \in Req : Stays(p) \/ Rests(p)
    PROVE  Single'
<1>1. Tidy(rows') /\ KeysMinted'
  BY SubsetTidy DEF Single, KeysMinted, Stays, Rests
<1>2. \A n : Bare(n) => Bare(n)'
  BY DEF Bare, ActiveRows, Having, RowsOf
<1>3. \A n \in Node : Unused(n) => Bare(n) /\ \A p \in Req : req[p].node # n
  BY DEF Unused, Bare, ActiveRows, Having, RowsOf, Single, IInv, NodesExist
<1>4. StuckBare'
  BY <1>2, <1>3 DEF Single, StuckBare
<1>5. ASSUME NEW p \in Req PROVE Splits(p)' /\ Fills(p)' /\ Swaps(p)'
  <2>1. CASE Rests(p)
    BY <2>1 DEF Rests, Splits, Fills, Swaps
  <2>2. CASE Stays(p)
    <3>1. Splits(p) /\ Fills(p) /\ Swaps(p)
      BY DEF Single
    <3>2. Splitting(p) => req[p].node \in Node
      BY DEF Single, IInv, RequestsNamed, Splitting
    <3>3. Splits(p)'
      BY <1>3, <2>2, <3>1, <3>2 DEF Splits, Stays
    <3>4. Fills(p)'
      BY <1>2, <2>2, <3>1 DEF Fills, Stays
    <3>5. Swaps(p)'
      BY <2>2, <3>1 DEF Swaps, Stays, ActiveRows, Having, RowsOf
    <3> QED BY <3>3, <3>4, <3>5
  <2> QED BY <2>1, <2>2
<1> QED BY <1>1, <1>4, <1>5 DEF Single

\* Quiet steps only delete rows.
LEMMA QuietKeeps ==
    ASSUME Single, IInv', Quiet
    PROVE  Single'
<1>1. rows' \subseteq rows
  BY DEF Quiet, CascadeDelete
<1> QED BY <1>1, ShrinkKeeps DEF Quiet

\* The collector only deletes rows.
LEMMA CollectShrinks ==
    ASSUME Collect
    PROVE  rows' \subseteq rows /\ UNCHANGED <<sync, minted, req, ack, exposed>>
BY DEF Collect, GcBegin, GcRows, GcList, GcBlob, GcStaleRows, GcReconcile, GcEnd, DeleteRows, ghosts

\* So does the collector.
LEMMA CollectKeeps ==
    ASSUME Single, IInv', Collect
    PROVE  Single'
BY CollectShrinks, SameStays, ShrinkKeeps

\* A step on one file, which leaves the others their rows and marks, by a request that
\* is alone.
LEMMA AloneKeeps ==
    ASSUME Single, IInv', Lone, NEW p \in Req, NEW n \in Node, Tidy(rows'), minted \subseteq minted',
           \A r \in rows' : r.key \in minted',
           \A m \in Node \ {n} : RowsOf(rows', m) = RowsOf(rows, m) /\ sync'[m] = sync[m],
           "repair" \in Ops /\ sync'[n] = "pending_upload" => Bare(n)',
           req'[p].key \in minted' \cup {None}, Splits(p)', Fills(p)', Swaps(p)'
    PROVE  Single'
<1>1. \A q \in Req : q = p
  BY DEF Lone
<1>2. KeysMinted'
  BY <1>1 DEF KeysMinted
<1>3. StuckBare'
  BY DEF Single, StuckBare, Bare, ActiveRows, Having
<1> QED BY <1>1, <1>2, <1>3 DEF Single

\* A request with nothing in hand.
LEMMA RestsSound ==
    ASSUME NEW p, ~Filling(p)', ~Splitting(p)', ~Swapping(p)'
    PROVE  Splits(p)' /\ Fills(p)' /\ Swaps(p)'
BY DEF Splits, Fills, Swaps

\* A request that has ended holds nothing.
LEMMA EndsSound ==
    ASSUME Single, NEW p \in Req, Ends(p)
    PROVE  Splits(p)' /\ Fills(p)' /\ Swaps(p)' /\ req'[p].key = None
<1>1. req'[p] = Idle /\ Idle.key = None /\ Idle.pc = "idle"
  BY DEF Single, IInv, TypeOK, Ends, Idle
<1> QED BY <1>1 DEF Splits, Fills, Swaps, Filling, Splitting, Swapping

\* TX1 of an upload or an overwrite, from a table that is tidy.
LEMMA PrepareKeeps ==
    ASSUME Single, IInv', Lone, NEW p \in Req, NEW n \in Node, NEW k \in Key, NEW R,
           WellFormed(R), Tidy(R), \A r \in R : r.key # k /\ r.key \in minted,
           \A m : m # n => RowsOf(R, m) = RowsOf(rows, m),
           rows' = Evict(Upsert(R, n, k, "pending"), n, Cap), minted' = minted \cup {k},
           NEW s, req'[p] = s, s.pc = "put", s.node = n, s.key = k,
           \A m \in Node \ {n} : sync'[m] = sync[m]
    PROVE  Single'
<1> DEFINE U == Upsert(R, n, k, "pending")
<1>1. /\ Tidy(U) /\ WellFormed(U)
      /\ \A m : m # n => RowsOf(U, m) = RowsOf(R, m)
  BY UpsertTidy, UpsertWellFormed DEF Status
<1>2. Tidy(rows') /\ \A m : m # n => RowsOf(rows', m) = RowsOf(U, m)
  BY <1>1, EvictTidy, CapAssumption
<1>3. /\ \A q \in rows' : q.key = k => q.node = n /\ q.st = "pending"
      /\ \A q \in rows' : q.key # k => q.key \in minted
      /\ ActiveRows(rows', n) = {}
  BY PrepareRows, CapAssumption
<1>4. Splits(p)' /\ Fills(p)' /\ Swaps(p)'
  BY <1>3 DEF Splits, Fills, Swaps, Splitting, Swapping, Bare
<1>5. \A m \in Node \ {n} : RowsOf(rows', m) = RowsOf(rows, m)
  BY <1>1, <1>2
<1> QED BY <1>2, <1>3, <1>4, <1>5, AloneKeeps DEF Bare

\* TX1 of an upload.
LEMMA UploadStartKeeps ==
    ASSUME Single, IInv', Lone, NEW p \in Req, NEW n \in Node, NEW k \in Key, UploadStart(p, n, k)
    PROVE  Single'
<1>1. PICK s : s.pc = "put" /\ s.node = n /\ s.key = k /\ Becomes(p, s)
  BY DEF UploadStart, Idle
<1>2. req'[p] = s
  BY <1>1 DEF Becomes, Single, IInv, TypeOK
<1>3. /\ WellFormed(rows) /\ Tidy(rows) /\ \A r \in rows : r.key # k /\ r.key \in minted
  BY DEF Single, IInv, KeysMinted, UploadStart, Fresh
<1>4. \A m \in Node \ {n} : sync'[m] = sync[m]
  BY DEF UploadStart, Single, IInv, TypeOK
<1> QED BY <1>1, <1>2, <1>3, <1>4, PrepareKeeps DEF UploadStart

\* What TX1 makes of the request.
LEMMA PrepareRequest ==
    ASSUME Single, NEW p \in Req, NEW n \in Node, NEW k \in Key, NEW R, NEW M, Prepare(p, n, k, R, M)
    PROVE  /\ \E s : /\ req'[p] = s /\ s.pc = "put" /\ s.node = n /\ s.key = k
                     /\ IF ActiveRows(R, n) = {} THEN s.prev = None
                        ELSE \E r \in ActiveRows(R, n) : s.prev = r.key
           /\ \A m \in Node \ {n} : sync'[m] = sync[m]
<1>1. PICK prev \in (IF ActiveRows(R, n) = {} THEN {None} ELSE {r.key : r \in ActiveRows(R, n)}) :
         Becomes(p, [Idle EXCEPT !.op = "overwrite", !.pc = "put", !.node = n, !.key = k,
                                 !.prev = prev])
  BY DEF Prepare
<1>2. PICK s : s.pc = "put" /\ s.node = n /\ s.key = k /\ s.prev = prev /\ Becomes(p, s)
  BY <1>1 DEF Idle
<1>3. req'[p] = s
  BY <1>2 DEF Becomes, Single, IInv, TypeOK
<1>4. IF ActiveRows(R, n) = {} THEN s.prev = None ELSE \E r \in ActiveRows(R, n) : s.prev = r.key
  BY <1>1, <1>2
<1>5. \A m \in Node \ {n} : sync'[m] = sync[m]
  BY DEF Prepare, SetSync, Single, IInv, TypeOK
<1> QED BY <1>2, <1>3, <1>4, <1>5

\* TX1 of an overwrite of a file that shares no blob.
LEMMA OverwriteStartKeeps ==
    ASSUME Single, IInv', Lone, NEW p \in Req, NEW n \in Node, NEW k \in Key, OverwriteStart(p, n, k)
    PROVE  Single'
<1>1. Prepare(p, n, k, rows, minted)
  BY DEF OverwriteStart
<1>2. PICK s : req'[p] = s /\ s.pc = "put" /\ s.node = n /\ s.key = k
  BY <1>1, PrepareRequest
<1>3. /\ WellFormed(rows) /\ Tidy(rows) /\ \A r \in rows : r.key # k /\ r.key \in minted
  BY DEF Single, IInv, KeysMinted, OverwriteStart, Fresh
<1>4. \A m \in Node \ {n} : sync'[m] = sync[m]
  BY <1>1, PrepareRequest
<1> QED BY <1>1, <1>2, <1>3, <1>4, PrepareKeeps DEF Prepare

\* A split's private row is the active one before TX1 demotes it.
LEMMA SplitDoneKeeps ==
    ASSUME Single, IInv', Lone, NEW p \in Req, NEW k \in Key, OverwriteSplitDone(p, k)
    PROVE  Single'
<1> PICK n \in Node, h \in Key : n = req[p].node /\ h = req[p].key
  BY DEF OverwriteSplitDone, Single, IInv, RequestsNamed
<1> PICK R : R = Upsert(rows, n, h, "active")
  OBVIOUS
<1>1. Prepare(p, n, k, R, minted)
  BY DEF OverwriteSplitDone
<1>2. PICK s : req'[p] = s /\ s.pc = "put" /\ s.node = n /\ s.key = k
  BY <1>1, PrepareRequest
<1>3. /\ WellFormed(rows) /\ Tidy(rows) /\ \A r \in rows : r.key # h /\ r.key \in minted
      /\ h \in minted /\ k \notin minted
  BY NoneAssumption DEF Single, IInv, KeysMinted, Splits, Splitting, OverwriteSplitDone, Fresh
<1>4. /\ Tidy(R) /\ WellFormed(R)
      /\ \A m : m # n => RowsOf(R, m) = RowsOf(rows, m)
      /\ \A r \in R : r.key # k /\ r.key \in minted
  BY <1>3, UpsertTidy, UpsertWellFormed DEF Status
<1>5. \A m \in Node \ {n} : sync'[m] = sync[m]
  BY <1>1, PrepareRequest
<1> QED BY <1>1, <1>2, <1>4, <1>5, PrepareKeeps DEF Prepare

\* A request that starts and writes no row.
LEMMA StartKeeps ==
    ASSUME Single, IInv', Lone, NEW p \in Req, NEW s, Becomes(p, s),
           s.key \in minted', minted \subseteq minted',
           UNCHANGED <<sync, rows>>, Splits(p)', Fills(p)', Swaps(p)'
    PROVE  Single'
<1>1. req'[p] = s
  BY DEF Becomes, Single, IInv, TypeOK
<1>2. \A q \in Req : q = p
  BY DEF Lone
<1>3. KeysMinted'
  BY <1>1, <1>2 DEF KeysMinted, Single
<1>4. StuckBare'
  BY DEF Single, StuckBare, Bare
<1> QED BY <1>2, <1>3, <1>4 DEF Single

\* A split or a duplication starts with a key that no row has.
LEMMA SplitStartKeeps ==
    ASSUME Single, IInv', Lone, NEW p \in Req, NEW n \in Node, NEW k \in Key,
           OverwriteSplit(p, n, k) \/ \E m \in Node : CopyDup(p, n, m, k)
    PROVE  Single'
<1>1. /\ k \notin minted /\ minted' = minted \cup {k} /\ UNCHANGED <<sync, rows>>
  BY DEF OverwriteSplit, CopyDup, Fresh
<1>2. CASE OverwriteSplit(p, n, k)
  <2>1. PICK r \in ActiveRows(rows, n) :
           Becomes(p, [Idle EXCEPT !.op = "overwrite", !.pc = "dup", !.node = n, !.key = k,
                                   !.prev = r.key])
    BY <1>2 DEF OverwriteSplit
  <2>2. PICK s : s.pc = "dup" /\ s.op = "overwrite" /\ s.key = k /\ s.node = n /\ Becomes(p, s)
    BY <2>1 DEF Idle
  <2>3. req'[p] = s
    BY <2>2 DEF Becomes, Single, IInv, TypeOK
  <2>4. "repair" \in Ops => sync[n] # "pending_upload"
    BY <2>1 DEF Single, StuckBare, Bare
  <2>5. Splits(p)' /\ Fills(p)' /\ Swaps(p)'
    BY <1>1, <2>2, <2>3, <2>4 DEF Splits, Fills, Swaps, Filling, Swapping, Single, KeysMinted
  <2> QED BY <1>1, <2>2, <2>5, StartKeeps
<1>3. ASSUME NEW m \in Node, CopyDup(p, n, m, k) PROVE Single'
  <2>1. PICK r \in ActiveRows(rows, n) :
           Becomes(p, [Idle EXCEPT !.op = "copy", !.pc = "dup", !.node = m, !.key = k,
                                   !.prev = r.key])
    BY <1>3 DEF CopyDup
  <2>2. PICK s : s.pc = "dup" /\ s.key = k /\ s.op = "copy" /\ Becomes(p, s)
    BY <2>1 DEF Idle
  <2>3. req'[p] = s
    BY <2>2 DEF Becomes, Single, IInv, TypeOK
  <2>4. Splits(p)' /\ Fills(p)' /\ Swaps(p)'
    BY <1>1, <1>3, <2>2, <2>3
    DEF Splits, Fills, Swaps, Filling, Swapping, Single, KeysMinted, CopyDup, ReadyFor
  <2> QED BY <1>1, <2>2, <2>4, StartKeeps
<1> QED BY <1>2, <1>3

\* A restore reads the active row, which is the only one.
LEMMA RestoreStartKeeps ==
    ASSUME Single, IInv', Lone, NEW p \in Req, NEW n \in Node, RestoreVersionStart(p, n)
    PROVE  Single'
<1> PICK current : current = IF ActiveRows(rows, n) = {} THEN None ELSE Newest(ActiveRows(rows, n)).key
  OBVIOUS
<1>1. PICK t \in Having(rows, n, {"active", "history"}) :
         Becomes(p, [Idle EXCEPT !.op = "restoreVersion", !.pc = "head", !.node = n,
                                 !.key = t.key, !.prev = current])
  BY DEF RestoreVersionStart
<1>2. PICK s : s.pc = "head" /\ s.op = "restoreVersion" /\ s.node = n /\ s.key = t.key /\ s.prev = current
               /\ Becomes(p, s)
  BY <1>1 DEF Idle
<1>3. req'[p] = s /\ UNCHANGED <<sync, rows, minted>>
  BY <1>2 DEF Becomes, Single, IInv, TypeOK, RestoreVersionStart
<1>4. \A r \in ActiveRows(rows, n) : r.key = current
  <2>1. ASSUME NEW r \in ActiveRows(rows, n) PROVE ActiveRows(rows, n) = {r}
    BY DEF ActiveRows, Having, RowsOf, Single, Tidy, OneActive
  <2>2. ASSUME NEW r PROVE Newest({r}) \in {r}
    BY DEF Newest
  <2> QED BY <2>1, <2>2
<1>5. Splits(p)' /\ Fills(p)' /\ Swaps(p)'
  BY <1>2, <1>3, <1>4 DEF Splits, Fills, Swaps, Filling, Splitting
<1>6. t.key \in minted
  BY DEF Single, KeysMinted, Having, RowsOf
<1> QED BY <1>2, <1>3, <1>5, <1>6, StartKeeps

\* A repair finds a pending row, of a file that has no active one.
LEMMA RepairProbeKeeps ==
    ASSUME Single, IInv', Lone, NEW p \in Req, NEW n \in Node, NEW action \in {"auto", "complete"},
           RepairProbe(p, n, action)
    PROVE  Single'
<1>1. PICK r \in PendingRow(rows, n) :
         Becomes(p, [Idle EXCEPT !.op = action, !.pc = "head", !.node = n, !.key = r.key])
  BY DEF RepairProbe
<1>2. PICK s : s.pc = "head" /\ s.op = action /\ s.node = n /\ s.key = r.key /\ Becomes(p, s)
  BY <1>1 DEF Idle
<1>3. req'[p] = s /\ UNCHANGED <<sync, rows, minted>>
  BY <1>2 DEF Becomes, Single, IInv, TypeOK, RepairProbe
<1>4. r \in rows /\ r.node = n /\ r.st = "pending"
  BY PendingRowKnown DEF Single
<1>5. Bare(n)
  BY DEF RepairProbe, ReadyFor, Stuck, Single, StuckBare
<1>6. Splits(p)' /\ Fills(p)' /\ Swaps(p)'
  BY <1>2, <1>3, <1>4, <1>5 DEF Splits, Fills, Swaps, Splitting, Swapping, Bare, Single, Tidy, PendingAlone
<1>7. r.key \in minted
  BY <1>4 DEF Single, KeysMinted
<1> QED BY <1>2, <1>3, <1>6, <1>7, StartKeeps

\* TX2, and the end of a repair: the pending row of the file becomes its active one.
LEMMA FinishKeeps ==
    ASSUME Single, IInv', Lone, NEW p \in Req, Finish(p) \/ RepairComplete(p)
    PROVE  Single'
<1> PICK n \in Node, k \in Key : n = req[p].node /\ k = req[p].key
  BY DEF Finish, RepairComplete, Single, IInv, RequestsNamed
<1>1. /\ Filling(p) /\ rows' = Activate(rows, k) /\ sync' = SetSync(n, "active") /\ Ends(p)
      /\ minted' = minted
  BY DEF Finish, RepairComplete, Filling
<1>2. Bare(n) /\ \A r \in rows : r.key = k => r.node = n /\ r.st = "pending"
  BY <1>1 DEF Single, Fills
<1>3. /\ Tidy(rows') /\ \A m : m # n => RowsOf(rows', m) = RowsOf(rows, m)
      /\ \A q \in rows' : q \in rows \/ (q.key = k /\ \E r \in rows : r.key = k)
  BY <1>1, <1>2, ActivateTidy DEF Bare, Single, IInv
<1>4. \A r \in rows' : r.key \in minted
  BY <1>3 DEF Single, KeysMinted
<1>5. /\ \A m \in Node \ {n} : sync'[m] = sync[m]
      /\ sync'[n] # "pending_upload"
  BY <1>1 DEF SetSync, Single, IInv, TypeOK
<1>6. Splits(p)' /\ Fills(p)' /\ Swaps(p)' /\ req'[p].key = None
  BY <1>1, EndsSound
<1> QED BY <1>1, <1>3, <1>4, <1>5, <1>6, AloneKeeps

\* A link into a file that is new: its key is that of an active row, or new.
LEMMA LinkKeeps ==
    ASSUME Single, IInv', Lone, Alone, NEW p \in Req, NEW m \in Node, NEW k, sync[m] = "absent",
           k \in minted, \A r \in rows : r.key = k => r.st # "pending",
           rows' = rows \/ rows' = InsertFirst(rows, m, k), minted' = minted,
           \A o \in Node \ {m} : sync'[o] = sync[o],
           sync'[m] = "pending_upload" => {"copy", "fault"} \subseteq Ops,
           req'[p].key \in minted' \cup {None}, Splits(p)', Fills(p)', Swaps(p)'
    PROVE  Single'
<1>1. RowsOf(rows, m) = {}
  BY DEF Single, IInv, NodesExist, RowsOf
<1>2. Tidy(rows') /\ \A o : o # m => RowsOf(rows', o) = RowsOf(rows, o)
  BY <1>1, LinkTidy DEF Single
<1>3. \A r \in rows' : r.key \in minted'
  BY DEF InsertFirst, Single, KeysMinted
<1> QED BY <1>2, <1>3, AloneKeeps DEF Alone

\* A copy that links the blob of its source.
LEMMA CopyLinkKeeps ==
    ASSUME Single, IInv', Alone, NEW p \in Req, NEW n \in Node, NEW m \in Node, CopyLink(p, n, m)
    PROVE  Single'
<1>1. PICK r \in ActiveRows(rows, n) : Link(m, r.key)
  BY DEF CopyLink
<1>2. /\ r \in rows /\ r.st = "active"
  BY DEF ActiveRows, Having, RowsOf
<1>3. \A s \in rows : s.key = r.key => s.st # "pending"
  BY <1>2 DEF Single, Tidy, PendingAlone
<1>4. r.key \in minted
  BY <1>2 DEF Single, KeysMinted
<1>5. /\ sync[m] = "absent" /\ minted' = minted /\ req' = req /\ req[p].pc = "idle"
  BY DEF CopyLink, Unused, ReadyFor
<1>6. /\ rows' = InsertFirst(rows, m, r.key) /\ sync' = [sync EXCEPT ![m] = "active"]
  BY <1>1 DEF Link
<1>7. sync'[m] = "active" /\ \A o \in Node \ {m} : sync'[o] = sync[o]
  BY <1>6 DEF Single, IInv, TypeOK
<1>8. Splits(p)' /\ Fills(p)' /\ Swaps(p)'
  BY <1>5 DEF Splits, Fills, Swaps, Filling, Splitting, Swapping
<1>9. req'[p].key \in minted' \cup {None}
  BY <1>5 DEF Single, KeysMinted
<1> QED BY <1>3, <1>4, <1>5, <1>6, <1>7, <1>8, <1>9, LinkKeeps DEF Alone

\* The same, for a copy that has duplicated the blob, whole or torn.
LEMMA CopyDupKeeps ==
    ASSUME Single, IInv', Alone, NEW p \in Req, CopyDupDone(p) \/ CopyDupUnlinked(p)
    PROVE  Single'
<1> PICK m \in Node, k \in Key : m = req[p].node /\ k = req[p].key
  BY DEF CopyDupDone, CopyDupUnlinked, Single, IInv, RequestsNamed
<1>1. /\ Splitting(p) /\ Ends(p) /\ minted' = minted /\ req[p].op = "copy"
      /\ rows' = rows \/ rows' = InsertFirst(rows, m, k)
      /\ \E st \in {"active", "pending_upload"} : sync' = [sync EXCEPT ![m] = st]
  BY DEF CopyDupDone, CopyDupUnlinked, Link, HalfLink, Splitting
<1>2. sync[m] = "absent"
  BY <1>1 DEF Single, IInv, CopiesReserved, Splitting
<1>3. k \in minted /\ \A r \in rows : r.key # k
  BY <1>1, NoneAssumption DEF Single, KeysMinted, Splits
<1>4. \A o \in Node \ {m} : sync'[o] = sync[o]
  BY <1>1 DEF Single, IInv, TypeOK
<1>5. sync'[m] = "pending_upload" => {"copy", "fault"} \subseteq Ops
  <2>1. sync'[m] = "pending_upload" => "fault" \in Ops
    BY DEF CopyDupDone, CopyDupUnlinked, Link, Single, IInv, TypeOK
  <2> QED BY <1>1, <2>1 DEF Single, Splits
<1>6. Splits(p)' /\ Fills(p)' /\ Swaps(p)' /\ req'[p].key = None
  BY <1>1, EndsSound
<1> QED BY <1>1, <1>2, <1>3, <1>4, <1>5, <1>6, LinkKeeps DEF Alone

\* A copy torn between its two commits: nobody repairs.
LEMMA CopyUnlinkedKeeps ==
    ASSUME Single, IInv', Alone, NEW n \in Node, NEW m \in Node, CopyUnlinked(n, m)
    PROVE  Single'
<1>1. PICK r \in ActiveRows(rows, n) : HalfLink(m, r.key)
  BY DEF CopyUnlinked
<1>2. /\ r \in rows /\ r.st = "active" /\ sync[m] = "absent" /\ "repair" \notin Ops
      /\ minted' = minted /\ req' = req /\ \A p \in Req : req[p].node # m
      /\ rows' = rows \/ rows' = InsertFirst(rows, m, r.key)
      /\ sync' = [sync EXCEPT ![m] = "pending_upload"]
  BY <1>1 DEF CopyUnlinked, HalfLink, Unused, ActiveRows, Having, RowsOf, Alone
<1>3. \A s \in rows : s.key = r.key => s.st # "pending"
  BY <1>2 DEF Single, Tidy, PendingAlone
<1>4. Tidy(rows') /\ \A o : o # m => RowsOf(rows', o) = RowsOf(rows, o)
  <2>1. RowsOf(rows, m) = {}
    BY <1>2 DEF Single, IInv, NodesExist, RowsOf
  <2> QED BY <1>2, <1>3, <2>1, LinkTidy DEF Single
<1>5. /\ KeysMinted' /\ StuckBare'
      /\ \A q \in rows' : q \in rows \/ (q.key = r.key /\ q.node = m)
  BY <1>2 DEF KeysMinted, StuckBare, Single, InsertFirst
<1>6. ASSUME NEW p \in Req PROVE Splits(p)' /\ Fills(p)' /\ Swaps(p)'
  <2>1. /\ Filling(p)' <=> Filling(p)
        /\ Splitting(p)' <=> Splitting(p)
        /\ Swapping(p)' <=> Swapping(p)
        /\ RowsOf(rows', req[p].node) = RowsOf(rows, req[p].node)
    BY <1>2, <1>4 DEF Filling, Splitting, Swapping
  <2>2. Splits(p) /\ Fills(p) /\ Swaps(p)
    BY DEF Single
  <2>3. Splits(p)'
    BY <1>2, <1>5, <2>1, <2>2 DEF Splits
  <2>4. Fills(p)'
    BY <1>2, <1>5, <2>1, <2>2 DEF Fills, Bare, ActiveRows, Having
  <2>5. Swaps(p)'
    BY <1>2, <2>1, <2>2 DEF Swaps, ActiveRows, Having
  <2> QED BY <2>3, <2>4, <2>5
<1> QED BY <1>4, <1>5, <1>6 DEF Single

\* A split torn before the overwrite: its file was not stuck.
LEMMA SplitTornKeeps ==
    ASSUME Single, IInv', Alone, NEW p \in Req, SplitTorn(p)
    PROVE  Single'
<1> PICK n \in Node, h \in Key : n = req[p].node /\ h = req[p].key
  BY DEF SplitTorn, Single, IInv, RequestsNamed
<1>1. /\ Splitting(p) /\ Ends(p) /\ minted' = minted /\ sync' = sync /\ req[p].op = "overwrite"
      /\ rows' = DemoteActive(rows, n) \/ rows' = Upsert(rows, n, h, "active")
  BY DEF SplitTorn, Splitting
<1>2. /\ \A r \in rows : r.key # h
      /\ h \in minted /\ ("repair" \in Ops => sync[n] # "pending_upload")
  BY <1>1, NoneAssumption DEF Single, KeysMinted, Splits
<1> PICK U : U = Upsert(rows, n, h, "active")
  OBVIOUS
<1>3. /\ Tidy(U) /\ \A m : m # n => RowsOf(U, m) = RowsOf(rows, m)
      /\ \A r \in U : r.key \in minted
  BY <1>2, UpsertTidy DEF Single, IInv, KeysMinted
<1>4. CASE rows' = U
  <2>1. Splits(p)' /\ Fills(p)' /\ Swaps(p)' /\ req'[p].key = None
    BY <1>1, EndsSound
  <2> QED BY <1>1, <1>2, <1>3, <1>4, <2>1, AloneKeeps DEF Alone
<1>5. CASE rows' = DemoteActive(rows, n)
  <2>1. rows' \subseteq U
    BY <1>5 DEF Upsert
  <2>2. \A m : m # n => RowsOf(rows', m) = RowsOf(rows, m)
    <3>1. \A r \in U \ rows' : r.node = n
      BY <1>5 DEF Upsert
    <3> QED BY <1>3, <2>1, <3>1 DEF RowsOf
  <2>3. Tidy(rows') /\ \A r \in rows' : r.key \in minted
    BY <1>3, <2>1, SubsetTidy
  <2>4. Splits(p)' /\ Fills(p)' /\ Swaps(p)' /\ req'[p].key = None
    BY <1>1, EndsSound
  <2> QED BY <1>1, <1>2, <2>2, <2>3, <2>4, AloneKeeps DEF Alone
<1> QED BY <1>1, <1>4, <1>5

\* The rollback of an overwrite: no row of the file is active when one is reactivated.
LEMMA OverwriteFailsKeeps ==
    ASSUME Single, IInv', Alone, NEW p \in Req, OverwriteFails(p)
    PROVE  Single'
<1> PICK n \in Node, k \in Key : n = req[p].node /\ k = req[p].key
  BY DEF OverwriteFails, Single, IInv, RequestsNamed
<1> PICK R : R = Reactivate(rows, n, req[p].prev)
  OBVIOUS
<1>1. /\ Filling(p) /\ Goes(p, "undo") /\ minted' = minted /\ sync' = SetSync(n, "active")
      /\ LET new == {r \in R : r.key = k /\ r.st \in {"pending", "active"}}
         IN  IF new = {} THEN rows' = R ELSE \E r \in new : rows' = R \ {r}
  BY DEF OverwriteFails, Filling
<1>2. Bare(n) /\ \A r \in rows : r.key = k => r.node = n /\ r.st = "pending"
  BY <1>1 DEF Single, Fills
<1>3. /\ Tidy(R) /\ \A m : m # n => RowsOf(R, m) = RowsOf(rows, m)
      /\ \A q \in R : q \in rows \/ (q.node = n /\ q.st = "active" /\ \E r \in rows : r.key = q.key)
  BY <1>2, ReactivateTidy DEF Bare, Single, IInv
<1>4. /\ rows' \subseteq R
      /\ \A r \in R \ rows' : r.key = k
  BY <1>1
<1>5. \A r \in R \ rows' : r.node = n
  BY <1>2, <1>3, <1>4
<1>6. Tidy(rows') /\ \A r \in rows' : r.key \in minted
  BY <1>3, <1>4, SubsetTidy DEF Single, KeysMinted
<1>7. \A m : m # n => RowsOf(rows', m) = RowsOf(rows, m)
  BY <1>3, <1>4, <1>5 DEF RowsOf
<1>8. /\ \A m \in Node \ {n} : sync'[m] = sync[m]
      /\ sync'[n] # "pending_upload"
  BY <1>1 DEF SetSync, Single, IInv, TypeOK
<1>9. /\ req'[p].pc = "undo" /\ req'[p].key = k
  BY <1>1 DEF Goes, Single, IInv, TypeOK, ReqState
<1>10. Splits(p)' /\ Fills(p)' /\ Swaps(p)'
  BY <1>9 DEF Splits, Fills, Swaps, Filling, Splitting, Swapping
<1>11. k \in minted
  BY NoneAssumption DEF Single, KeysMinted
<1> QED BY <1>1, <1>6, <1>7, <1>8, <1>9, <1>10, <1>11, AloneKeeps DEF Alone

\* A repair that goes back to the last good row: the file was stuck, so no row of it was
\* active.
LEMMA RepairRestoreKeeps ==
    ASSUME Single, IInv', Alone, NEW p \in Req, NEW n \in Node, RepairRestore(p, n)
    PROVE  Single'
<1>1. PICK good \in LastGood(rows, n) :
         rows' = DeleteRows(Reactivate(rows, n, good.key), {RowId(r) : r \in PendingRow(rows, n)})
  BY DEF RepairRestore
<1> PICK R : R = Reactivate(rows, n, good.key)
  OBVIOUS
<1>2. Bare(n) /\ req[p].pc = "idle" /\ sync' = [sync EXCEPT ![n] = "active"] /\ minted' = minted
  BY DEF RepairRestore, ReadyFor, Stuck, Single, StuckBare
<1>3. /\ Tidy(R) /\ \A m : m # n => RowsOf(R, m) = RowsOf(rows, m)
      /\ \A q \in R : q \in rows \/ (q.node = n /\ q.st = "active" /\ \E r \in rows : r.key = q.key)
  BY <1>2, ReactivateTidy DEF Bare, Single, IInv
<1>4. rows' \subseteq R /\ \A q \in R \ rows' : q.node = n
  <2>1. \A r \in PendingRow(rows, n) : r.node = n
    BY PendingRowKnown DEF Single
  <2> QED BY <1>1, <2>1 DEF DeleteRows, RowId
<1>5. Tidy(rows') /\ \A r \in rows' : r.key \in minted
  BY <1>3, <1>4, SubsetTidy DEF Single, KeysMinted
<1>6. \A m : m # n => RowsOf(rows', m) = RowsOf(rows, m)
  BY <1>3, <1>4 DEF RowsOf
<1>7. /\ \A m \in Node \ {n} : sync'[m] = sync[m]
      /\ sync'[n] # "pending_upload"
  BY <1>2 DEF Single, IInv, TypeOK
<1>8. \/ req' = req
      \/ \E s, r : s.pc = "undo" /\ r \in PendingRow(rows, n) /\ s.key = r.key /\ Becomes(p, s)
  <2>1. CASE PendingRow(rows, n) = {}
    BY <2>1 DEF RepairRestore
  <2>2. CASE PendingRow(rows, n) # {}
    <3>1. PICK r \in PendingRow(rows, n) :
             Becomes(p, [Idle EXCEPT !.op = "auto", !.pc = "undo", !.node = n, !.key = r.key])
      BY <2>2 DEF RepairRestore
    <3>2. PICK s : s.pc = "undo" /\ s.key = r.key /\ Becomes(p, s)
      BY <3>1 DEF Idle
    <3> QED BY <3>2
  <2> QED BY <2>1, <2>2
<1>9. req'[p].pc \in {"idle", "undo"} /\ req'[p].key \in minted \cup {None}
  <2>1. \A r \in PendingRow(rows, n) : r.key \in minted
    BY PendingRowKnown DEF Single, KeysMinted
  <2> QED BY <1>2, <1>8, <2>1 DEF Becomes, Single, IInv, TypeOK, KeysMinted
<1>10. Splits(p)' /\ Fills(p)' /\ Swaps(p)'
  BY <1>9 DEF Splits, Fills, Swaps, Filling, Splitting, Swapping
<1> QED BY <1>2, <1>5, <1>6, <1>7, <1>9, <1>10, AloneKeeps DEF Alone

\* A restored version takes the place of the active row that the restore has read.
LEMMA RestoreSwapTidy ==
    ASSUME Single, NEW n \in Node, NEW k, NEW prev, \A r \in ActiveRows(rows, n) : r.key = prev,
           NEW Q, Q = DemoteByKey(Reactivate(rows, n, k), prev)
    PROVE  /\ Tidy(Q)
           /\ Restates(Q, rows)
           /\ \A q \in Q : q.st = "active" => (q \in rows /\ q.node # n) \/ (q.node = n /\ q.key = k)
<1> PICK R : R = Reactivate(rows, n, k)
  OBVIOUS
<1>1. WellFormed(rows) /\ WellFormed(R) /\ WellFormed(Q) /\ R \subseteq Row /\ rows \subseteq Row
  BY ReactivateWellFormed, DemoteByKeyWellFormed DEF Single, IInv, WellFormed
<1>2. ASSUME NEW q \in R
      PROVE  \/ q \in rows
             \/ /\ q.node = n /\ q.key = k /\ q.st = "active"
                /\ \E r \in rows : r.node = n /\ r.key = k /\ q.ver = r.ver
  BY <1>1, ReactivateRows DEF Restorable
<1>3. ASSUME NEW q \in Q
      PROVE  \/ q \in R /\ ~(q.key = prev /\ q.st = "active")
             \/ /\ q.key = prev /\ q.st = "history"
                /\ \E r \in R : r.key = prev /\ q.node = r.node /\ q.ver = r.ver
  BY <1>1, DemoteRows
<1>4. Restates(R, rows)
  BY <1>2 DEF Restates
<1>5. Restates(Q, R)
  BY <1>3 DEF Restates
<1>6. Restates(Q, rows)
  <2> SUFFICES ASSUME NEW q \in Q
               PROVE  \E r \in rows : /\ q.node = r.node /\ q.key = r.key /\ q.ver = r.ver
                                      /\ q.st = "pending" => r.st = "pending"
    BY DEF Restates
  <2>1. PICK s \in R : /\ q.node = s.node /\ q.key = s.key /\ q.ver = s.ver
                       /\ q.st = "pending" => s.st = "pending"
    BY <1>5 DEF Restates
  <2>2. PICK r \in rows : /\ s.node = r.node /\ s.key = r.key /\ s.ver = r.ver
                          /\ s.st = "pending" => r.st = "pending"
    BY <1>4 DEF Restates
  <2> QED BY <2>1, <2>2
<1>7. ASSUME NEW q \in Q, q.st = "active"
      PROVE  (q \in rows /\ q.node # n) \/ (q.node = n /\ q.key = k)
  <2>1. q \in R /\ q.key # prev
    BY <1>3, <1>7
  <2>2. CASE q \in rows /\ q.node = n
    <3>1. q \in ActiveRows(rows, n)
      BY <1>7, <2>2 DEF ActiveRows, Having, RowsOf
    <3> QED BY <2>1, <3>1
  <2> QED BY <1>2, <2>1, <2>2
<1>8. \A q, s \in Q : q.node = s.node /\ q.key = s.key => q = s
  <2> SUFFICES ASSUME NEW q \in Q, NEW s \in Q, q.node = s.node, q.key = s.key PROVE q = s
    OBVIOUS
  <2>1. PICK r \in rows : q.node = r.node /\ q.key = r.key /\ q.ver = r.ver
    BY <1>6 DEF Restates
  <2>2. PICK t \in rows : s.node = t.node /\ s.key = t.key /\ s.ver = t.ver
    BY <1>6 DEF Restates
  <2>3. r = t
    BY <2>1, <2>2 DEF Single, Tidy, OneOfKey
  <2> QED BY <1>1, <2>1, <2>2, <2>3 DEF WellFormed, DistinctVersions
<1>9. OneActive(Q)
  BY <1>7, <1>8 DEF OneActive, Single, Tidy
<1> QED BY <1>1, <1>6, <1>7, <1>9, RestatedTidy DEF Single

\* The swap may demote rows of other files too, which leaves a stuck one bare.
LEMMA RestoreSwapKeeps ==
    ASSUME Single, IInv', Lone, NEW p \in Req, RestoreVersionSwap(p)
    PROVE  Single'
<1> PICK n \in Node, k \in Key : n = req[p].node /\ k = req[p].key
  BY DEF RestoreVersionSwap, Single, IInv, RequestsNamed
<1>1. /\ Swapping(p) /\ Ends(p) /\ minted' = minted /\ sync' = SetSync(n, "active")
      /\ rows' = DemoteByKey(Reactivate(rows, n, k), req[p].prev)
  BY DEF RestoreVersionSwap, Swapping
<1>2. \A r \in ActiveRows(rows, n) : r.key = req[p].prev
  BY <1>1 DEF Single, Swaps
<1>3. /\ Tidy(rows') /\ Restates(rows', rows)
      /\ \A q \in rows' : q.st = "active" => (q \in rows /\ q.node # n) \/ (q.node = n /\ q.key = k)
  BY <1>1, <1>2, RestoreSwapTidy
<1>4. \A r \in rows' : r.key \in minted
  BY <1>3 DEF Single, KeysMinted, Restates
<1>5. /\ \A m \in Node \ {n} : sync'[m] = sync[m]
      /\ sync'[n] # "pending_upload"
  BY <1>1 DEF SetSync, Single, IInv, TypeOK
<1>6. StuckBare'
  BY <1>3, <1>5 DEF Single, StuckBare, Bare, ActiveRows, Having, RowsOf
<1>7. Splits(p)' /\ Fills(p)' /\ Swaps(p)' /\ req'[p].key = None
  BY <1>1, EndsSound
<1>8. KeysMinted'
  BY <1>1, <1>4, <1>7 DEF KeysMinted, Lone
<1> QED BY <1>3, <1>6, <1>7, <1>8 DEF Single, Lone

\* Every write of a request.
LEMMA WritesKeeps ==
    ASSUME Single, IInv', Alone, NEW p \in Req, Writes(p)
    PROVE  Single'
<1> Lone
  BY DEF Alone
<1>1. CASE \/ \E n \in Node, k \in Key : UploadStart(p, n, k) \/ OverwriteStart(p, n, k)
           \/ \E k \in Key : OverwriteSplitDone(p, k)
  BY <1>1, UploadStartKeeps, OverwriteStartKeeps, SplitDoneKeeps
<1>2. CASE \E n \in Node, k \in Key : OverwriteSplit(p, n, k) \/ \E m \in Node : CopyDup(p, n, m, k)
  BY <1>2, SplitStartKeeps
<1>3. CASE \E n \in Node : \/ RestoreVersionStart(p, n) \/ RepairRestore(p, n)
                           \/ \E action \in {"auto", "complete"} : RepairProbe(p, n, action)
                           \/ \E m \in Node : CopyLink(p, n, m)
  BY <1>3, RestoreStartKeeps, RepairRestoreKeeps, RepairProbeKeeps, CopyLinkKeeps
<1>4. CASE Finish(p) \/ RepairComplete(p) \/ RestoreVersionSwap(p)
  BY <1>4, FinishKeeps, RestoreSwapKeeps
<1>5. CASE CopyDupDone(p) \/ CopyDupUnlinked(p) \/ SplitTorn(p) \/ OverwriteFails(p)
  BY <1>5, CopyDupKeeps, SplitTornKeeps, OverwriteFailsKeeps
<1> QED BY <1>1, <1>2, <1>3, <1>4, <1>5 DEF Writes

\* Every step of every actor.
LEMMA SingleStep ==
    ASSUME Single, IInv', Alone, [Next]_vars
    PROVE  Single'
<1>1. \/ Quiet \/ Collect
      \/ \E p \in Req : Writes(p)
      \/ \E n, m \in Node : CopyUnlinked(n, m)
  BY Shapes DEF Single
<1> QED BY <1>1, QuietKeeps, CollectKeeps, WritesKeeps, CopyUnlinkedKeeps

\* Nothing is stored at first.
LEMMA SingleInit ==
    ASSUME Init, IInv
    PROVE  Single
<1>1. rows = {} /\ \A p \in Req : req[p] = Idle
  BY DEF Init
<1>2. Idle.key = None /\ Idle.pc = "idle"
  BY DEF Idle
<1> QED BY <1>1, <1>2 DEF Single, Tidy, OneActive, OneOfKey, PendingAlone, KeysMinted, StuckBare, Bare,
                          ActiveRows, Having, RowsOf, Splits, Fills, Swaps, Splitting, Filling, Swapping

\* The first invariant holds in every reachable state.
LEMMA SingleAlways ==
    ASSUME Alone
    PROVE  Spec => []Single
<1>1. Init => Single
  BY SingleInit, Initially
<1>2. Single /\ [Next]_vars => Single'
  BY SingleStep, Inductive DEF Single
<1> QED BY <1>1, <1>2, PTL DEF Spec

\* upsertObjectMap: "at most one active version per node exists at any time", for one
\* request at a time, any number of files and keys, any cap, whatever fails or crashes
\* and whatever the collector does meanwhile.
THEOREM OneActiveVersion ==
    ASSUME Alone
    PROVE  Spec => []AtMostOneActive
<1>1. ASSUME Single PROVE AtMostOneActive
  <2> SUFFICES ASSUME NEW n \in Node PROVE Cardinality(ActiveRows(rows, n)) <= 1
    BY DEF AtMostOneActive
  <2>1. CASE ActiveRows(rows, n) = {}
    BY <2>1, FS_EmptySet
  <2>2. ASSUME NEW r \in ActiveRows(rows, n) PROVE Cardinality(ActiveRows(rows, n)) = 1
    <3>1. ActiveRows(rows, n) = {r}
      BY <1>1 DEF Single, Tidy, OneActive, ActiveRows, Having, RowsOf
    <3> QED BY <3>1, FS_Singleton
  <2> QED BY <2>1, <2>2
<1> QED BY <1>1, SingleAlways, PTL

-----------------------------------------------------------------------------
(* The second invariant: no more versions than the cap and one             *)

Shown(R, n) == {r.ver : r \in Having(R, n, {"active", "history"})}

Fits(R, n, c) == IsFiniteSet(Shown(R, n)) /\ Cardinality(Shown(R, n)) <= c

\* The versions that a file shows, row by row.
LEMMA ShownRows ==
    ASSUME NEW R, NEW n, NEW v
    PROVE  v \in Shown(R, n) <=> \E r \in R : r.node = n /\ r.st \in {"active", "history"} /\ v = r.ver
BY DEF Shown, Having, RowsOf

\* Fewer versions fit as well.
LEMMA FitsFewer ==
    ASSUME NEW R, NEW n, NEW Q, NEW m, NEW c \in Nat, Fits(R, n, c), Shown(Q, m) \subseteq Shown(R, n)
    PROVE  Fits(Q, m, c)
BY FS_Subset, FS_CardinalityType DEF Fits

\* One version more needs one place more.
LEMMA FitsOneMore ==
    ASSUME NEW R, NEW Q, NEW n, NEW c \in Nat, Fits(R, n, c),
           NEW v, Shown(Q, n) \subseteq Shown(R, n) \cup {v}
    PROVE  Fits(Q, n, c + 1)
<1> PICK S : S = Shown(R, n)
  OBVIOUS
<1>1. /\ IsFiniteSet(S) /\ Cardinality(S) \in Nat /\ Cardinality(S) <= c
  BY FS_CardinalityType DEF Fits
<1>2. IsFiniteSet(S \cup {v}) /\ Cardinality(S \cup {v}) <= c + 1 /\ Cardinality(S \cup {v}) \in Nat
  BY <1>1, FS_AddElement, FS_CardinalityType
<1>3. IsFiniteSet(Shown(Q, n)) /\ Cardinality(Shown(Q, n)) <= Cardinality(S \cup {v})
  BY <1>2, FS_Subset
<1>4. Cardinality(Shown(Q, n)) \in Nat
  BY <1>3, FS_CardinalityType
<1> QED BY <1>2, <1>3, <1>4 DEF Fits

\* Versions are distinct: they count the rows.
LEMMA FitsCounts ==
    ASSUME NEW R, WellFormed(R), NEW n, NEW c \in Nat, Fits(R, n, c)
    PROVE  Cardinality(Having(R, n, {"active", "history"})) <= c
<1> PICK H : H = Having(R, n, {"active", "history"})
  OBVIOUS
<1> PICK V : V = Shown(R, n)
  OBVIOUS
<1> DEFINE f == [r \in H |-> r.ver]
<1>1. \A r \in H : r \in R /\ r.node = n /\ r.ver \in V
  BY DEF Having, RowsOf, Shown
<1>2. f \in [H -> V]
  BY <1>1
<1>3. \A r, s \in H : f[r] = f[s] => r = s
  BY <1>1 DEF WellFormed, DistinctVersions
<1>4. f \in Injection(H, V)
  BY <1>2, <1>3 DEF Injection, IsInjective
<1>5. IsFiniteSet(V) /\ Cardinality(V) <= c /\ Cardinality(V) \in Nat
  BY FS_CardinalityType DEF Fits
<1> HIDE DEF f
<1>6. IsFiniteSet(H) /\ Cardinality(H) <= Cardinality(V)
  BY <1>4, <1>5, FS_Injection
<1>7. Cardinality(H) \in Nat
  BY <1>6, FS_CardinalityType
<1> QED BY <1>5, <1>6, <1>7

\* A set of rows of a file has an oldest one.
LEMMA OldestRow ==
    ASSUME NEW K, K \subseteq Row, K # {}
    PROVE  \E r \in K : \A q \in K : r.ver <= q.ver
<1>a. PICK V : V = {r.ver : r \in K}
  OBVIOUS
<1> DEFINE Less == OpToRel(<, Nat)
<1>1. V \subseteq Nat /\ V # {}
  BY <1>a DEF Row
<1>2. PICK v \in V : \A w \in V : ~(<<w, v>> \in Less)
  BY <1>1, NatLessThanWellFounded, WFMin
<1>3. \A x, y \in Nat : x < y => <<x, y>> \in Less
  BY DEF OpToRel
<1> HIDE DEF Less
<1>4. ASSUME NEW w \in V PROVE v <= w
  <2>1. v \in Nat /\ w \in Nat /\ ~(w < v)
    BY <1>1, <1>2, <1>3
  <2> QED BY <2>1
<1> QED BY <1>a, <1>4

\* evictVersionsBeyondCap, of a file without an active row: the newest ones are left,
\* no more than the cap.
LEMMA EvictFits ==
    ASSUME NEW R, WellFormed(R), NEW n \in Node, NEW cap \in Nat, cap # 0, ActiveRows(R, n) = {}
    PROVE  Fits(Evict(R, n, cap), n, cap)
<1>a. PICK hist : hist = Having(R, n, {"history"})
  OBVIOUS
<1>b. PICK excess : excess = Cardinality(hist) - cap
  OBVIOUS
<1>c. PICK S : S = {r \in hist : Cardinality({q \in hist : q.ver < r.ver}) < excess}
  OBVIOUS
<1>d. PICK K : K = hist \ S
  OBVIOUS
<1>1. Having(R, n, {"active", "history"}) = hist
  BY <1>a DEF ActiveRows, Having
<1>2. /\ hist \subseteq R /\ S \subseteq R /\ K \subseteq hist /\ R \subseteq Row
      /\ \A r \in R : r \in hist <=> r.node = n /\ r.st = "history"
  BY <1>a, <1>c, <1>d DEF Having, RowsOf, WellFormed
<1>3. IsFiniteSet(hist) /\ Cardinality(hist) \in Nat
  BY <1>a, RowsFinite, FS_Subset, FS_CardinalityType DEF Having
<1>4. IsFiniteSet(K) /\ Cardinality(K) \in Nat
  BY <1>2, <1>3, FS_Subset, FS_CardinalityType
<1>5. Cardinality(K) <= cap
  <2>1. CASE K = {}
    <3>1. Cardinality({}) = 0
      BY FS_EmptySet
    <3> QED BY <2>1, <3>1
  <2>2. CASE K # {}
    <3>1. PICK r \in K : \A q \in K : r.ver <= q.ver
      BY <1>2, <2>2, OldestRow
    <3>a. PICK L : L = {q \in hist : q.ver < r.ver}
      OBVIOUS
    <3>2. ~(Cardinality(L) < excess)
      BY <1>c, <1>d, <3>a
    <3>3. L \subseteq hist /\ L \cap K = {}
      BY <1>2, <3>1, <3>a DEF Row
    <3>4. IsFiniteSet(L) /\ Cardinality(L) \in Nat
      BY <1>3, <3>3, FS_Subset, FS_CardinalityType
    <3>5. Cardinality(L \cup K) = Cardinality(L) + Cardinality(K)
      <4>1. Cardinality({}) = 0
        BY FS_EmptySet
      <4>2. Cardinality(L \cup K) = Cardinality(L) + Cardinality(K) - Cardinality(L \cap K)
        BY <1>4, <3>4, FS_Union
      <4>3. Cardinality(L \cap K) = 0
        BY <3>3, <4>1
      <4> QED BY <1>4, <3>4, <4>2, <4>3
    <3>6. Cardinality(L \cup K) <= Cardinality(hist)
      BY <1>2, <1>3, <3>3, FS_Subset
    <3> QED BY <1>b, <1>3, <1>4, <3>2, <3>4, <3>5, <3>6
  <2> QED BY <2>1, <2>2
<1>6. Evict(R, n, cap) = SetStatus(R, S, "orphaned")
  BY <1>1, <1>a, <1>b, <1>c DEF Evict
<1>13. \A q \in Evict(R, n, cap) : q \in R \ S \/ q.st = "orphaned"
  BY <1>2, <1>6, SetStatusRows
<1>e. PICK V : V = Shown(Evict(R, n, cap), n)
  OBVIOUS
<1>7. \A v \in V : \E r \in K : v = r.ver
  <2> SUFFICES ASSUME NEW v \in V PROVE \E r \in K : v = r.ver
    OBVIOUS
  <2>1. PICK q \in Evict(R, n, cap) : q.node = n /\ q.st \in {"active", "history"} /\ v = q.ver
    BY <1>e, ShownRows
  <2>2. q \in R \ S
    BY <1>13, <2>1
  <2>3. q \in Having(R, n, {"active", "history"})
    BY <2>1, <2>2 DEF Having, RowsOf
  <2> QED BY <1>1, <1>d, <2>1, <2>2, <2>3
<1>f. PICK D : D = {s \in K : s.ver \in V}
  OBVIOUS
<1> DEFINE f == [r \in D |-> r.ver]
<1>8. f \in [D -> V] /\ \A v \in V : \E r \in D : f[r] = v
  BY <1>7, <1>f
<1>9. f \in Surjection(D, V)
  BY <1>8 DEF Surjection
<1>10. IsFiniteSet(D) /\ Cardinality(D) <= Cardinality(K) /\ Cardinality(D) \in Nat
  BY <1>4, <1>f, FS_Subset, FS_CardinalityType
<1> HIDE DEF f
<1>11. IsFiniteSet(V) /\ Cardinality(V) <= Cardinality(D)
  BY <1>9, <1>10, FS_Surjection
<1>12. Cardinality(V) \in Nat
  BY <1>11, FS_CardinalityType
<1> QED BY <1>4, <1>5, <1>10, <1>11, <1>12, <1>e DEF Fits

\* A table in which no two files share a key.
OneFile(R) == \A r, s \in R : r.key = s.key => r.node = s.node

\* A file has room for the row that its repair, or its request, makes active.
Roomy(p) ==
    /\ Filling(p) => Fits(rows, req[p].node, Cap)
    /\ Swapping(p) => \A r \in rows : r.node = req[p].node /\ r.key = req[p].key =>
                          r.st \in {"active", "history"}
    /\ Splitting(p) => "copy" \in Ops

Counted ==
    /\ Single
    /\ \A n \in Node : Fits(rows, n, Cap + 1) /\ (sync[n] = "pending_upload" => Fits(rows, n, Cap))
    /\ \A p \in Req : Roomy(p)
    /\ "copy" \notin Ops => OneFile(rows)

\* A cap, and no copy or split torn between its commits.
Capped == Lone /\ Cap # 0 /\ ~({"copy", "fault"} \subseteq Ops)

\* The same rows show the same versions.
LEMMA ShownSame ==
    ASSUME NEW R, NEW Q, NEW n, RowsOf(Q, n) = RowsOf(R, n)
    PROVE  Shown(Q, n) = Shown(R, n)
BY DEF Shown, Having

\* Steps that only delete rows.
LEMMA ShrinkCounts ==
    ASSUME Counted, Single', rows' \subseteq rows,
           \A n \in Node : sync'[n] = "pending_upload" => sync[n] = "pending_upload" \/ Unused(n),
           \A p \in Req : Stays(p) \/ Rests(p)
    PROVE  Counted'
<1>1. \A n : Shown(rows', n) \subseteq Shown(rows, n)
  BY DEF Shown, Having, RowsOf
<1>2. ASSUME NEW n \in Node
      PROVE  /\ Fits(rows', n, Cap + 1) /\ (Fits(rows, n, Cap) => Fits(rows', n, Cap))
             /\ sync'[n] = "pending_upload" => Fits(rows', n, Cap)
  <2>1. Fits(rows', n, Cap + 1) /\ (Fits(rows, n, Cap) => Fits(rows', n, Cap))
    BY <1>1, FitsFewer, CapAssumption DEF Counted
  <2>2. ASSUME Unused(n) PROVE Fits(rows', n, Cap)
    <3>1. Shown(rows', n) = {}
      BY <2>2 DEF Unused, Counted, Single, IInv, NodesExist, Shown, Having, RowsOf
    <3> QED BY <3>1, FS_EmptySet, CapAssumption DEF Fits
  <2> QED BY <2>1, <2>2 DEF Counted
<1>3. ASSUME NEW p \in Req PROVE Roomy(p)'
  <2>1. CASE Rests(p)
    BY <2>1 DEF Rests, Roomy
  <2>2. CASE Stays(p)
    <3>1. Filling(p) => req[p].node \in Node
      BY DEF Counted, Single, IInv, RequestsNamed, Filling
    <3> QED BY <1>2, <2>2, <3>1 DEF Stays, Roomy, Counted
  <2> QED BY <2>1, <2>2
<1>4. "copy" \notin Ops => OneFile(rows')
  BY DEF Counted, OneFile
<1> QED BY <1>2, <1>3, <1>4 DEF Counted

\* Quiet steps and those of the collector.
LEMMA QuietCounts ==
    ASSUME Counted, Single', Quiet \/ Collect
    PROVE  Counted'
<1>1. CASE Quiet
  <2>1. rows' \subseteq rows
    BY <1>1 DEF Quiet, CascadeDelete
  <2> QED BY <1>1, <2>1, ShrinkCounts DEF Quiet
<1>2. CASE Collect
  BY <1>2, CollectShrinks, SameStays, ShrinkCounts
<1> QED BY <1>1, <1>2

\* A step on one file, by a request that is alone.
LEMMA AloneCounts ==
    ASSUME Counted, Single', Lone, NEW p \in Req, NEW n \in Node,
           \A m \in Node \ {n} : Shown(rows', m) \subseteq Shown(rows, m) /\ sync'[m] = sync[m],
           Fits(rows', n, Cap + 1), sync'[n] = "pending_upload" => Fits(rows', n, Cap),
           Roomy(p)', "copy" \notin Ops => OneFile(rows')
    PROVE  Counted'
<1>1. \A q \in Req : Roomy(q)'
  BY DEF Lone
<1>2. \A m \in Node \ {n} : /\ Fits(rows', m, Cap + 1)
                            /\ sync'[m] = "pending_upload" => Fits(rows', m, Cap)
  BY FitsFewer, CapAssumption DEF Counted
<1> QED BY <1>1, <1>2 DEF Counted

\* TX1: what is left of the versions fits the cap.
LEMMA PrepareCounts ==
    ASSUME Counted, Single', Capped, NEW p \in Req, NEW n \in Node, NEW k \in Key, NEW R,
           WellFormed(R), Tidy(R), \A r \in R : r.key # k, "copy" \notin Ops => OneFile(R),
           \A m : m # n => RowsOf(R, m) = RowsOf(rows, m),
           rows' = Evict(Upsert(R, n, k, "pending"), n, Cap),
           NEW s, req'[p] = s, s.pc = "put", s.node = n,
           \A m \in Node \ {n} : sync'[m] = sync[m]
    PROVE  Counted'
<1>a. PICK U : U = Upsert(R, n, k, "pending")
  OBVIOUS
<1>1. /\ WellFormed(U)
      /\ \A m : m # n => RowsOf(U, m) = RowsOf(R, m)
      /\ \A q \in U : q.key # k => \E r \in R :
            /\ q.node = r.node /\ q.key = r.key /\ q.ver = r.ver
            /\ IF r.node = n /\ r.st = "active" THEN q.st = "history" ELSE q = r
      /\ \A q \in U : q.key = k => q.node = n /\ q.st = "pending"
  BY <1>a, UpsertTidy, UpsertWellFormed DEF Status
<1>2. ActiveRows(U, n) = {}
  BY <1>1 DEF ActiveRows, Having, RowsOf
<1>3. Fits(rows', n, Cap)
  BY <1>1, <1>2, <1>a, EvictFits, CapAssumption DEF Capped
<1>4. Fits(rows', n, Cap + 1)
  BY <1>3, FS_CardinalityType, CapAssumption DEF Fits
<1>5. Tidy(U)
  BY <1>a, UpsertTidy
<1>6. \A m : m # n => RowsOf(rows', m) = RowsOf(U, m)
  BY <1>1, <1>5, <1>a, EvictTidy, CapAssumption
<1>7. \A m \in Node \ {n} : Shown(rows', m) = Shown(rows, m)
  BY <1>1, <1>6, ShownSame
<1>8. ASSUME "copy" \notin Ops PROVE OneFile(rows')
  <2>1. \A q \in rows' : \E r \in U : q.node = r.node /\ q.key = r.key
    BY <1>1, <1>a, EvictRows, CapAssumption
  <2>2. OneFile(U)
    BY <1>1, <1>8 DEF OneFile
  <2> QED BY <2>1, <2>2 DEF OneFile
<1>9. Roomy(p)'
  BY <1>3 DEF Roomy, Splitting, Swapping
<1> QED BY <1>3, <1>4, <1>7, <1>8, <1>9, AloneCounts DEF Capped

\* TX1 of an upload, and of an overwrite without a split.
LEMMA StartCounts ==
    ASSUME Counted, Single', Capped, NEW p \in Req, NEW n \in Node, NEW k \in Key,
           UploadStart(p, n, k) \/ OverwriteStart(p, n, k)
    PROVE  Counted'
<1>1. /\ WellFormed(rows) /\ Tidy(rows) /\ (\A r \in rows : r.key # k)
      /\ "copy" \notin Ops => OneFile(rows)
  BY DEF Counted, Single, IInv, KeysMinted, UploadStart, OverwriteStart, Fresh
<1>2. rows' = Evict(Upsert(rows, n, k, "pending"), n, Cap)
  BY DEF UploadStart, OverwriteStart, Prepare
<1>3. /\ \E s : req'[p] = s /\ s.pc = "put" /\ s.node = n
      /\ \A m \in Node \ {n} : sync'[m] = sync[m]
  <2>1. CASE UploadStart(p, n, k)
    <3>1. PICK s : s.pc = "put" /\ s.node = n /\ Becomes(p, s)
      BY <2>1 DEF UploadStart, Idle
    <3> QED BY <2>1, <3>1 DEF Becomes, UploadStart, Counted, Single, IInv, TypeOK
  <2>2. CASE OverwriteStart(p, n, k)
    BY <2>2, PrepareRequest DEF OverwriteStart, Counted
  <2> QED BY <2>1, <2>2
<1>4. PICK s : req'[p] = s /\ s.pc = "put" /\ s.node = n
  BY <1>3
<1> QED BY <1>1, <1>2, <1>3, <1>4, PrepareCounts

\* TX1 of an overwrite whose split has inserted a row more.
LEMMA SplitDoneCounts ==
    ASSUME Counted, Single', Capped, NEW p \in Req, NEW k \in Key, OverwriteSplitDone(p, k)
    PROVE  Counted'
<1>a. PICK n \in Node, h \in Key : n = req[p].node /\ h = req[p].key
  BY DEF OverwriteSplitDone, Counted, Single, IInv, RequestsNamed
<1>b. PICK R : R = Upsert(rows, n, h, "active")
  OBVIOUS
<1>1. Prepare(p, n, k, R, minted)
  BY <1>a, <1>b DEF OverwriteSplitDone
<1>2. PICK s : req'[p] = s /\ s.pc = "put" /\ s.node = n
  BY <1>1, PrepareRequest DEF Counted
<1>3. /\ WellFormed(rows) /\ Tidy(rows) /\ \A r \in rows : r.key # h /\ r.key \in minted
      /\ h \in minted /\ k \notin minted /\ "copy" \in Ops
  BY <1>a, NoneAssumption
  DEF Counted, Single, IInv, KeysMinted, Splits, Splitting, Roomy, OverwriteSplitDone, Fresh
<1>4. /\ Tidy(R) /\ WellFormed(R)
      /\ \A m : m # n => RowsOf(R, m) = RowsOf(rows, m)
      /\ \A r \in R : r.key # k
  BY <1>3, <1>b, UpsertTidy, UpsertWellFormed DEF Status
<1>5. \A m \in Node \ {n} : sync'[m] = sync[m]
  BY <1>1, PrepareRequest DEF Counted
<1>6. rows' = Evict(Upsert(R, n, k, "pending"), n, Cap)
  BY <1>1 DEF Prepare
<1> QED BY <1>2, <1>3, <1>4, <1>5, <1>6, PrepareCounts

\* A request that starts and writes no row.
LEMMA WaitCounts ==
    ASSUME Counted, Single', Capped, NEW p \in Req, UNCHANGED <<sync, rows>>, Roomy(p)'
    PROVE  Counted'
BY DEF Counted, Capped, Lone

\* Only a copy makes two files share a blob, so only then is there a split.
LEMMA SplitStartCounts ==
    ASSUME Counted, Single', Capped, NEW p \in Req, NEW n \in Node, NEW k \in Key,
           OverwriteSplit(p, n, k) \/ \E m \in Node : CopyDup(p, n, m, k)
    PROVE  Counted'
<1>1. PICK s : s.pc = "dup" /\ Becomes(p, s)
  BY DEF OverwriteSplit, CopyDup, Idle
<1>2. req'[p] = s /\ UNCHANGED <<sync, rows>>
  BY <1>1 DEF Becomes, Counted, Single, IInv, TypeOK, OverwriteSplit, CopyDup
<1>3. "copy" \in Ops
  <2>1. CASE \E m \in Node : CopyDup(p, n, m, k)
    BY <2>1 DEF CopyDup, ReadyFor
  <2>2. CASE OverwriteSplit(p, n, k)
    <3>1. PICK r \in ActiveRows(rows, n) : ActiveCount(rows, r.key) > 1
      BY <2>2 DEF OverwriteSplit
    <3>2. ASSUME "copy" \notin Ops PROVE FALSE
      <4>1. {q \in rows : q.key = r.key /\ q.st = "active"} = {r}
        BY <3>2 DEF Counted, OneFile, Single, Tidy, OneOfKey, ActiveRows, Having, RowsOf
      <4>2. Cardinality({r}) = 1
        BY FS_Singleton
      <4> QED BY <3>1, <4>1, <4>2 DEF ActiveCount
    <3> QED BY <3>2
  <2> QED BY <2>1, <2>2
<1>4. Roomy(p)'
  BY <1>1, <1>2, <1>3 DEF Roomy, Filling, Swapping
<1> QED BY <1>2, <1>4, WaitCounts

\* A restore takes a version that is shown already.
LEMMA RestoreStartCounts ==
    ASSUME Counted, Single', Capped, NEW p \in Req, NEW n \in Node, RestoreVersionStart(p, n)
    PROVE  Counted'
<1>1. PICK t \in Having(rows, n, {"active", "history"}) : \E s :
         /\ s.pc = "head" /\ s.op = "restoreVersion" /\ s.node = n /\ s.key = t.key
         /\ Becomes(p, s)
  BY DEF RestoreVersionStart, Idle
<1>2. PICK s : /\ s.pc = "head" /\ s.op = "restoreVersion" /\ s.node = n /\ s.key = t.key
               /\ Becomes(p, s)
  BY <1>1
<1>3. req'[p] = s /\ UNCHANGED <<sync, rows>>
  BY <1>2 DEF Becomes, Counted, Single, IInv, TypeOK, RestoreVersionStart
<1>4. \A r \in rows : r.node = n /\ r.key = t.key => r.st \in {"active", "history"}
  BY DEF Counted, Single, Tidy, OneOfKey, Having, RowsOf
<1>5. Roomy(p)'
  BY <1>2, <1>3, <1>4 DEF Roomy, Filling, Splitting
<1> QED BY <1>3, <1>5, WaitCounts

\* A stuck file has room for the row that its repair completes.
LEMMA RepairProbeCounts ==
    ASSUME Counted, Single', Capped, NEW p \in Req, NEW n \in Node, NEW action \in {"auto", "complete"},
           RepairProbe(p, n, action)
    PROVE  Counted'
<1>1. PICK s : s.pc = "head" /\ s.op = action /\ s.node = n /\ Becomes(p, s)
  BY DEF RepairProbe, Idle
<1>2. req'[p] = s /\ UNCHANGED <<sync, rows>>
  BY <1>1 DEF Becomes, Counted, Single, IInv, TypeOK, RepairProbe
<1>3. Fits(rows, n, Cap)
  BY DEF RepairProbe, Stuck, Counted
<1>4. Roomy(p)'
  BY <1>1, <1>2, <1>3 DEF Roomy, Splitting, Swapping
<1> QED BY <1>2, <1>4, WaitCounts

\* A row of the file is made active, the last thing a request or a repair does to it.
LEMMA OneMoreCounts ==
    ASSUME Counted, Single', Capped, NEW p \in Req, NEW n \in Node,
           \A m : m # n => RowsOf(rows', m) = RowsOf(rows, m),
           \A m \in Node \ {n} : sync'[m] = sync[m], sync'[n] # "pending_upload",
           Fits(rows, n, Cap), NEW v, Shown(rows', n) \subseteq Shown(rows, n) \cup {v},
           \A q \in rows' : \E r \in rows : q.node = r.node /\ q.key = r.key,
           req'[p].pc \in {"idle", "undo"}
    PROVE  Counted'
<1>1. Fits(rows', n, Cap + 1)
  BY FitsOneMore, CapAssumption
<1>2. \A m \in Node \ {n} : Shown(rows', m) = Shown(rows, m)
  BY ShownSame
<1>3. "copy" \notin Ops => OneFile(rows')
  BY DEF Counted, OneFile
<1>4. Roomy(p)'
  BY DEF Roomy, Filling, Splitting, Swapping
<1> QED BY <1>1, <1>2, <1>3, <1>4, AloneCounts DEF Capped

\* Making active the one row of a key, or a row of the file, shows one version more.
LEMMA ActivateShown ==
    ASSUME NEW R, WellFormed(R), Tidy(R), NEW n, NEW k, \A r \in R : r.key = k => r.st = "pending"
    PROVE  \E v : Shown(Activate(R, k), n) \subseteq Shown(R, n) \cup {v}
<1>a. PICK Q : Q = Activate(R, k)
  OBVIOUS
<1>1. \A q \in Q : q \in R \/ (q.key = k /\ \E r \in R : r.key = k /\ q.ver = r.ver)
  BY <1>a, ActivateRows DEF WellFormed
<1>2. PICK v : \A r \in R : r.key = k => r.ver = v
  BY DEF Tidy, PendingAlone
<1>3. \A w \in Shown(Q, n) : w \in Shown(R, n) \/ w = v
  BY <1>1, <1>2, ShownRows
<1> QED BY <1>3, <1>a

\* The same, of a row of the file that is reactivated.
LEMMA ReactivateShown ==
    ASSUME NEW R, WellFormed(R), Tidy(R), NEW n, NEW k
    PROVE  /\ \E v : Shown(Reactivate(R, n, k), n) \subseteq Shown(R, n) \cup {v}
           /\ \A q \in Reactivate(R, n, k) : \E r \in R : q.node = r.node /\ q.key = r.key
<1>a. PICK Q : Q = Reactivate(R, n, k)
  OBVIOUS
<1>1. \A q \in Q : q \in R \/ (/\ q.node = n /\ q.key = k
                               /\ \E r \in R : r.node = n /\ r.key = k /\ q.ver = r.ver)
  BY <1>a, ReactivateRows DEF WellFormed, Restorable
<1>2. PICK v : \A r \in R : r.node = n /\ r.key = k => r.ver = v
  BY DEF Tidy, OneOfKey
<1>3. \A w \in Shown(Q, n) : w \in Shown(R, n) \/ w = v
  BY <1>1, <1>2, ShownRows
<1> QED BY <1>1, <1>3, <1>a

\* TX2, and the end of a repair.
LEMMA FinishCounts ==
    ASSUME Counted, Single', Capped, NEW p \in Req, Finish(p) \/ RepairComplete(p)
    PROVE  Counted'
<1>a. PICK n \in Node, k \in Key : n = req[p].node /\ k = req[p].key
  BY DEF Finish, RepairComplete, Counted, Single, IInv, RequestsNamed
<1>1. Filling(p) /\ rows' = Activate(rows, k) /\ sync' = SetSync(n, "active") /\ Ends(p)
  BY <1>a DEF Finish, RepairComplete, Filling
<1>2. Bare(n) /\ \A r \in rows : r.key = k => r.node = n /\ r.st = "pending"
  BY <1>a, <1>1 DEF Counted, Single, Fills
<1>3. /\ \A m : m # n => RowsOf(rows', m) = RowsOf(rows, m)
      /\ \A q \in rows' : q \in rows \/ (q.key = k /\ \E r \in rows : r.key = k)
  BY <1>1, <1>2, ActivateTidy DEF Bare, Counted, Single, IInv
<1>4. PICK v : Shown(rows', n) \subseteq Shown(rows, n) \cup {v}
  BY <1>1, <1>2, ActivateShown DEF Counted, Single, IInv
<1>5. \A q \in rows' : \E r \in rows : q.node = r.node /\ q.key = r.key
  <2>1. rows \subseteq Row
    BY DEF Counted, Single, IInv, WellFormed
  <2>2. \A q \in rows' : q \in rows \/ \E r \in rows : r.key = k /\ q.node = r.node /\ q.key = k
    BY <1>1, <1>2, <2>1, ActivateRows
  <2> QED BY <2>2
<1>6. /\ \A m \in Node \ {n} : sync'[m] = sync[m]
      /\ sync'[n] # "pending_upload"
  BY <1>1 DEF SetSync, Counted, Single, IInv, TypeOK
<1>7. req'[p].pc = "idle"
  BY <1>1 DEF Ends, Idle, Counted, Single, IInv, TypeOK
<1>8. Fits(rows, n, Cap)
  BY <1>a, <1>1 DEF Counted, Roomy
<1> QED BY <1>3, <1>4, <1>5, <1>6, <1>7, <1>8, OneMoreCounts

\* The rollback of an overwrite may bring an evicted version back.
LEMMA OverwriteFailsCounts ==
    ASSUME Counted, Single', Capped, NEW p \in Req, OverwriteFails(p)
    PROVE  Counted'
<1>a. PICK n \in Node, k \in Key : n = req[p].node /\ k = req[p].key
  BY DEF OverwriteFails, Counted, Single, IInv, RequestsNamed
<1>b. PICK R : R = Reactivate(rows, n, req[p].prev)
  OBVIOUS
<1>1. /\ Filling(p) /\ Goes(p, "undo") /\ sync' = SetSync(n, "active")
      /\ rows' \subseteq R /\ \A r \in R \ rows' : r.key = k
  BY <1>a, <1>b DEF OverwriteFails, Filling
<1>2. Bare(n) /\ \A r \in rows : r.key = k => r.node = n /\ r.st = "pending"
  BY <1>a, <1>1 DEF Counted, Single, Fills
<1>3. \A m : m # n => RowsOf(R, m) = RowsOf(rows, m)
  BY <1>2, <1>b, ReactivateTidy DEF Bare, Counted, Single, IInv
<1>4. /\ \E v : Shown(R, n) \subseteq Shown(rows, n) \cup {v}
      /\ \A q \in R : \E r \in rows : q.node = r.node /\ q.key = r.key
  BY <1>b, ReactivateShown DEF Counted, Single, IInv
<1>5. PICK v : Shown(R, n) \subseteq Shown(rows, n) \cup {v}
  BY <1>4
<1>6. Shown(rows', n) \subseteq Shown(rows, n) \cup {v}
  BY <1>1, <1>5 DEF Shown, Having, RowsOf
<1>7. \A r \in R \ rows' : r.node = n
  BY <1>1, <1>2, <1>4
<1>8. \A m : m # n => RowsOf(rows', m) = RowsOf(rows, m)
  BY <1>1, <1>3, <1>7 DEF RowsOf
<1>9. /\ \A m \in Node \ {n} : sync'[m] = sync[m]
      /\ sync'[n] # "pending_upload"
  BY <1>1 DEF SetSync, Counted, Single, IInv, TypeOK
<1>10. req'[p].pc = "undo"
  BY <1>1 DEF Goes, Counted, Single, IInv, TypeOK, ReqState
<1>11. Fits(rows, n, Cap)
  BY <1>a, <1>1 DEF Counted, Roomy
<1>12. \A q \in rows' : \E r \in rows : q.node = r.node /\ q.key = r.key
  BY <1>1, <1>4
<1> QED BY <1>6, <1>8, <1>9, <1>10, <1>11, <1>12, OneMoreCounts

\* So may a repair that goes back to the last good row.
LEMMA RepairRestoreCounts ==
    ASSUME Counted, Single', Capped, NEW p \in Req, NEW n \in Node, RepairRestore(p, n)
    PROVE  Counted'
<1>1. PICK good \in LastGood(rows, n) :
         rows' = DeleteRows(Reactivate(rows, n, good.key), {RowId(r) : r \in PendingRow(rows, n)})
  BY DEF RepairRestore
<1>b. PICK R : R = Reactivate(rows, n, good.key)
  OBVIOUS
<1>2. Bare(n) /\ req[p].pc = "idle" /\ sync' = [sync EXCEPT ![n] = "active"] /\ Fits(rows, n, Cap)
  BY DEF RepairRestore, ReadyFor, Stuck, Counted, Single, StuckBare
<1>3. \A m : m # n => RowsOf(R, m) = RowsOf(rows, m)
  BY <1>2, <1>b, ReactivateTidy DEF Bare, Counted, Single, IInv
<1>4. rows' \subseteq R /\ \A q \in R \ rows' : q.node = n
  <2>1. \A r \in PendingRow(rows, n) : r.node = n
    BY PendingRowKnown DEF Counted, Single
  <2> QED BY <1>1, <1>b, <2>1 DEF DeleteRows, RowId
<1>5. /\ \E v : Shown(R, n) \subseteq Shown(rows, n) \cup {v}
      /\ \A q \in R : \E r \in rows : q.node = r.node /\ q.key = r.key
  BY <1>b, ReactivateShown DEF Counted, Single, IInv
<1>6. PICK v : Shown(R, n) \subseteq Shown(rows, n) \cup {v}
  BY <1>5
<1>7. Shown(rows', n) \subseteq Shown(rows, n) \cup {v}
  BY <1>4, <1>6 DEF Shown, Having, RowsOf
<1>8. \A m : m # n => RowsOf(rows', m) = RowsOf(rows, m)
  BY <1>3, <1>4 DEF RowsOf
<1>9. /\ \A m \in Node \ {n} : sync'[m] = sync[m]
      /\ sync'[n] # "pending_upload"
  BY <1>2 DEF Counted, Single, IInv, TypeOK
<1>10. req' = req \/ \E s : s.pc = "undo" /\ Becomes(p, s)
  BY DEF RepairRestore, Idle
<1>11. req'[p].pc \in {"idle", "undo"}
  BY <1>2, <1>10 DEF Becomes, Counted, Single, IInv, TypeOK
<1>12. \A q \in rows' : \E r \in rows : q.node = r.node /\ q.key = r.key
  BY <1>4, <1>5
<1> QED BY <1>2, <1>7, <1>8, <1>9, <1>11, <1>12, OneMoreCounts

\* A restore shows no version more: both rows were shown before.
LEMMA RestoreSwapCounts ==
    ASSUME Counted, Single', Capped, NEW p \in Req, RestoreVersionSwap(p)
    PROVE  Counted'
<1>a. PICK n \in Node, k \in Key : n = req[p].node /\ k = req[p].key
  BY DEF RestoreVersionSwap, Counted, Single, IInv, RequestsNamed
<1>b. PICK R, prev : R = Reactivate(rows, n, k) /\ prev = req[p].prev
  OBVIOUS
<1>1. /\ Swapping(p) /\ Ends(p) /\ sync' = SetSync(n, "active") /\ rows' = DemoteByKey(R, prev)
  BY <1>a, <1>b DEF RestoreVersionSwap, Swapping
<1>2. \A r \in rows : r.node = n /\ r.key = k => r.st \in {"active", "history"}
  BY <1>a, <1>1 DEF Counted, Roomy
<1>3. WellFormed(rows) /\ WellFormed(R)
  BY <1>b, ReactivateWellFormed DEF Counted, Single, IInv
<1>4. ASSUME NEW q \in R
      PROVE  \E r \in rows : /\ q.node = r.node /\ q.key = r.key /\ q.ver = r.ver
                             /\ q.st \in {"active", "history"} => r.st \in {"active", "history"}
  <2>1. \/ q \in rows
        \/ q.node = n /\ q.key = k /\ \E r \in rows : r.node = n /\ r.key = k /\ q.ver = r.ver
    BY <1>3, <1>b, ReactivateRows DEF Restorable, WellFormed
  <2> QED BY <1>2, <2>1
<1>5. ASSUME NEW q \in rows'
      PROVE  \E r \in R : /\ q.node = r.node /\ q.key = r.key /\ q.ver = r.ver
                          /\ q.st \in {"active", "history"} => r.st \in {"active", "history"}
  <2>1. \/ q \in R
        \/ /\ q.key = prev
           /\ \E r \in R : r.key = prev /\ r.st = "active" /\ q.node = r.node /\ q.ver = r.ver
    <3>1. R \subseteq Row
      BY <1>3 DEF WellFormed
    <3>2. \A s \in DemoteByKey(R, prev) :
             \/ s \in R
             \/ /\ s.key = prev
                /\ \E r \in R : r.key = prev /\ r.st = "active" /\ s.node = r.node /\ s.ver = r.ver
      BY <3>1, DemoteRows
    <3> QED BY <1>1, <3>2
  <2> QED BY <2>1
<1>6. ASSUME NEW q \in rows'
      PROVE  \E r \in rows : /\ q.node = r.node /\ q.key = r.key /\ q.ver = r.ver
                             /\ q.st \in {"active", "history"} => r.st \in {"active", "history"}
  <2>1. PICK s \in R : /\ q.node = s.node /\ q.key = s.key /\ q.ver = s.ver
                       /\ q.st \in {"active", "history"} => s.st \in {"active", "history"}
    BY <1>5
  <2>2. PICK r \in rows : /\ s.node = r.node /\ s.key = r.key /\ s.ver = r.ver
                          /\ s.st \in {"active", "history"} => r.st \in {"active", "history"}
    BY <1>4
  <2> QED BY <2>1, <2>2
<1>7. \A m \in Node : Shown(rows', m) \subseteq Shown(rows, m)
  BY <1>6, ShownRows
<1>8. /\ \A m \in Node \ {n} : sync'[m] = sync[m]
      /\ sync'[n] # "pending_upload"
  BY <1>1 DEF SetSync, Counted, Single, IInv, TypeOK
<1>9. Fits(rows', n, Cap + 1)
  BY <1>7, FitsFewer, CapAssumption DEF Counted
<1>10. Roomy(p)'
  <2>1. req'[p].pc = "idle"
    BY <1>1 DEF Ends, Idle, Counted, Single, IInv, TypeOK
  <2> QED BY <2>1 DEF Roomy, Filling, Splitting, Swapping
<1>11. "copy" \notin Ops => OneFile(rows')
  BY <1>6 DEF Counted, OneFile
<1> QED BY <1>7, <1>8, <1>9, <1>10, <1>11, AloneCounts DEF Capped

\* The one row of a copy fits any cap.
LEMMA CopyCounts ==
    ASSUME Counted, Single', Capped, NEW p \in Req,
           CopyDupDone(p) \/ \E n, m \in Node : CopyLink(p, n, m)
    PROVE  Counted'
<1>1. PICK m \in Node : \E k : /\ rows' = InsertFirst(rows, m, k) /\ sync[m] = "absent"
                               /\ sync' = [sync EXCEPT ![m] = "active"]
  <2>1. CASE CopyDupDone(p)
    <3>1. PICK m \in Node : m = req[p].node
      BY <2>1 DEF CopyDupDone, Counted, Single, IInv, RequestsNamed
    <3>2. sync[m] = "absent"
      BY <2>1, <3>1 DEF CopyDupDone, Counted, Single, IInv, CopiesReserved
    <3> QED BY <2>1, <3>1, <3>2 DEF CopyDupDone, Link
  <2>2. ASSUME NEW n \in Node, NEW m \in Node, CopyLink(p, n, m)
        PROVE  \E k : /\ rows' = InsertFirst(rows, m, k) /\ sync[m] = "absent"
                      /\ sync' = [sync EXCEPT ![m] = "active"]
    BY <2>2 DEF CopyLink, Link, Unused
  <2> QED BY <2>1, <2>2
<1>2. "copy" \in Ops /\ req'[p].pc = "idle"
  <2>1. CASE CopyDupDone(p)
    BY <2>1 DEF CopyDupDone, Ends, Idle, Counted, Single, IInv, TypeOK, Splits, Splitting
  <2>2. CASE \E n, o \in Node : CopyLink(p, n, o)
    BY <2>2 DEF CopyLink, ReadyFor
  <2> QED BY <2>1, <2>2
<1>3. RowsOf(rows, m) = {}
  BY <1>1 DEF Counted, Single, IInv, NodesExist, RowsOf
<1>4. Shown(rows', m) = {1} /\ \A o : o # m => Shown(rows', o) = Shown(rows, o)
  <2>a. PICK x : x.node = m /\ x.ver = 1 /\ x.st = "active" /\ rows' = rows \cup {x}
    BY <1>1 DEF InsertFirst
  <2>1. \A v : v \in Shown(rows', m) <=> v = 1
    BY <1>3, <2>a, ShownRows DEF RowsOf
  <2>2. \A o : o # m => RowsOf(rows', o) = RowsOf(rows, o)
    BY <2>a DEF RowsOf
  <2> QED BY <2>1, <2>2, ShownSame
<1>5. Fits(rows', m, Cap) /\ Fits(rows', m, Cap + 1)
  <2>1. IsFiniteSet({1}) /\ Cardinality({1}) = 1
    BY FS_Singleton
  <2> QED BY <1>4, <2>1, CapAssumption DEF Fits, Capped
<1>6. \A o \in Node \ {m} : sync'[o] = sync[o]
  BY <1>1 DEF Counted, Single, IInv, TypeOK
<1>7. Roomy(p)'
  BY <1>2 DEF Roomy, Filling, Splitting, Swapping
<1> QED BY <1>2, <1>4, <1>5, <1>6, <1>7, AloneCounts DEF Capped

\* Every step of every actor.
LEMMA CountedStep ==
    ASSUME Counted, Single', Capped, [Next]_vars
    PROVE  Counted'
<1>1. \/ Quiet \/ Collect
      \/ \E p \in Req : Writes(p)
      \/ \E n, m \in Node : CopyUnlinked(n, m)
  BY Shapes DEF Counted, Single
<1>2. ~\E n, m \in Node : CopyUnlinked(n, m)
  BY DEF CopyUnlinked, Capped
<1>3. ASSUME NEW p \in Req PROVE ~CopyDupUnlinked(p) /\ ~SplitTorn(p)
  BY DEF CopyDupUnlinked, SplitTorn, Capped, Counted, Roomy, Splitting
<1>4. ASSUME NEW p \in Req, Writes(p) PROVE Counted'
  <2>1. CASE \/ \E n \in Node, k \in Key : UploadStart(p, n, k) \/ OverwriteStart(p, n, k)
             \/ \E k \in Key : OverwriteSplitDone(p, k)
    BY <2>1, StartCounts, SplitDoneCounts
  <2>2. CASE \E n \in Node, k \in Key : OverwriteSplit(p, n, k) \/ \E m \in Node : CopyDup(p, n, m, k)
    BY <2>2, SplitStartCounts
  <2>3. CASE \E n \in Node : \/ RestoreVersionStart(p, n) \/ RepairRestore(p, n)
                             \/ \E action \in {"auto", "complete"} : RepairProbe(p, n, action)
    BY <2>3, RestoreStartCounts, RepairRestoreCounts, RepairProbeCounts
  <2>4. CASE Finish(p) \/ RepairComplete(p) \/ RestoreVersionSwap(p) \/ OverwriteFails(p)
    BY <2>4, FinishCounts, RestoreSwapCounts, OverwriteFailsCounts
  <2>5. CASE CopyDupDone(p) \/ \E n, m \in Node : CopyLink(p, n, m)
    BY <2>5, CopyCounts
  <2> QED BY <1>3, <1>4, <2>1, <2>2, <2>3, <2>4, <2>5 DEF Writes
<1> QED BY <1>1, <1>2, <1>4, QuietCounts

\* The second invariant holds in every reachable state.
LEMMA CountedAlways ==
    ASSUME Capped
    PROVE  Spec => []Counted
<1>1. Init => Counted
  <2> SUFFICES ASSUME Init PROVE Counted
    OBVIOUS
  <2>1. Single
    BY Initially, SingleInit
  <2>2. rows = {} /\ \A p \in Req : req[p] = Idle
    BY DEF Init
  <2>3. \A n \in Node : Shown(rows, n) = {}
    BY <2>2 DEF Shown, Having, RowsOf
  <2>4. \A n \in Node : Fits(rows, n, Cap + 1) /\ Fits(rows, n, Cap)
    BY <2>3, FS_EmptySet, CapAssumption DEF Fits
  <2>5. \A p \in Req : Roomy(p)
    BY <2>2 DEF Roomy, Filling, Splitting, Swapping, Idle
  <2> QED BY <2>1, <2>2, <2>4, <2>5 DEF Counted, OneFile
<1>2. Counted /\ [Next]_vars => Counted'
  <2>1. ASSUME Single, [Next]_vars PROVE Single'
    BY <2>1, SingleStep, Inductive DEF Single, Capped, Alone
  <2> QED BY <2>1, CountedStep DEF Counted
<1> QED BY <1>1, <1>2, PTL DEF Spec

\* evictVersionsBeyondCap runs before the new row becomes active: a file has no more than
\* the cap and one versions, for one request at a time, any number of files and keys and
\* any cap, if no copy is torn between its commits.
THEOREM VersionsCapped ==
    ASSUME Lone, ~({"copy", "fault"} \subseteq Ops)
    PROVE  Spec => []VersionsBounded
<1>1. CASE Cap = 0
  <2>1. VersionsBounded
    BY <1>1 DEF VersionsBounded
  <2> QED BY <2>1, PTL
<1>2. CASE Cap # 0
  <2>1. Counted => VersionsBounded
    BY FitsCounts, CapAssumption DEF Counted, VersionsBounded, Single, IInv
  <2>2. Spec => []Counted
    BY <1>2, CountedAlways DEF Capped
  <2> QED BY <2>1, <2>2, PTL
<1> QED BY <1>1, <1>2

-----------------------------------------------------------------------------
(* The third invariant: a blob is the active one of two files at most, and *)
(* no step touches the active version of two files                         *)

Sharers(R, k) == {r \in R : r.key = k /\ r.st = "active"}

AtMostTwo(R) == \A k \in Key : \E x, y : Sharers(R, k) \subseteq {x, y}

\* What an overwrite goes back to is shared with nobody, and the collector leaves it.
Undoable(p) ==
    Filling(p) =>
        /\ sync[req[p].node] # "active"
        /\ Sharers(rows, req[p].prev) = {}
        /\ \A r \in rows : RowId(r) = <<req[p].node, req[p].prev>> =>
              r.st \in {"history", "orphaned"} /\ RowId(r) \notin gc.ids

\* A row that the collector has selected is what it was when it was selected.
Selected(r) ==
    RowId(r) \in gc.ids =>
        IF gc.pc = "evicted" THEN r.st = "orphaned"
        ELSE r.st = "pending" /\ \A p \in Req : Filling(p) => req[p].key # r.key

Selections ==
    /\ gc.pc \notin {"evicted", "pending"} => gc.ids = {}
    /\ \A i \in gc.ids : i[2] \in minted /\ \A p \in Req : Splitting(p) => req[p].key # i[2]
    /\ \A r \in rows : Selected(r)

Shared ==
    /\ Single /\ AtMostTwo(rows) /\ Selections
    /\ \A p \in Req : Undoable(p) /\ req[p].pc \notin {"head", "headed"}

\* No version is restored and no stuck file repaired.
Forward == Lone /\ {"restoreVersion", "repair"} \cap Ops = {}

OneTouched == \E n : \A m \in Node : m # n => ActiveRows(rows', m) = ActiveRows(rows, m)

\* Quiet steps leave the requests and the collector what they count on.
LEMMA QuietShares ==
    ASSUME Shared, Single', Quiet
    PROVE  Shared' /\ OneTouched
<1>1. rows' \subseteq rows
  BY DEF Quiet, CascadeDelete
<1>2. \A k : Sharers(rows', k) \subseteq Sharers(rows, k)
  BY <1>1 DEF Sharers
<1>3. AtMostTwo(rows')
  <2> SUFFICES ASSUME NEW k \in Key PROVE \E x, y : Sharers(rows', k) \subseteq {x, y}
    BY DEF AtMostTwo
  <2>1. PICK x, y : Sharers(rows, k) \subseteq {x, y}
    BY DEF Shared, AtMostTwo
  <2>2. Sharers(rows', k) \subseteq {x, y}
    BY <1>2, <2>1
  <2> QED BY <2>2
<1>4. gc' = gc \/ (gc'.ids = {} /\ gc'.pc = "idle")
  BY DEF Quiet, GcIdle
<1>5. minted' = minted /\ \A p \in Req : Stays(p) \/ Rests(p)
  BY DEF Quiet
<1>6. ASSUME NEW p \in Req
      PROVE  /\ Filling(p)' => Filling(p) /\ Stays(p)
             /\ Splitting(p)' => Splitting(p) /\ Stays(p)
             /\ req'[p].pc \notin {"head", "headed"}
  BY <1>5 DEF Stays, Rests, Shared
<1>7. ASSUME NEW p \in Req PROVE Undoable(p)'
  <2> SUFFICES ASSUME Filling(p)' PROVE Undoable(p)'
    BY DEF Undoable
  <2>1. Filling(p) /\ Stays(p) /\ Undoable(p)
    BY <1>6 DEF Shared
  <2>2. req'[p].node = req[p].node /\ req'[p].prev = req[p].prev /\ req[p].node \in Node
    BY <2>1 DEF Stays, Shared, Single, IInv, RequestsNamed, Filling
  <2>3. sync'[req[p].node] # "active"
    BY <2>1, <2>2 DEF Undoable, Quiet
  <2>4. Sharers(rows', req[p].prev) = {}
    BY <1>2, <2>1 DEF Undoable
  <2>5. \A r \in rows' : RowId(r) = <<req[p].node, req[p].prev>> =>
           r.st \in {"history", "orphaned"} /\ RowId(r) \notin gc'.ids
    BY <1>1, <1>4, <2>1 DEF Undoable
  <2> QED BY <2>2, <2>3, <2>4, <2>5 DEF Undoable
<1>8. ASSUME NEW r \in rows' PROVE Selected(r)'
  <2>1. Selected(r)
    BY <1>1 DEF Shared, Selections
  <2> QED BY <1>4, <1>6, <2>1 DEF Selected, Stays
<1>9. Selections'
  BY <1>4, <1>5, <1>6, <1>8 DEF Selections, Shared, Stays
<1>10. OneTouched
  BY DEF OneTouched, Quiet, CascadeDelete, ActiveRows, Having, RowsOf
<1> QED BY <1>3, <1>6, <1>7, <1>9, <1>10 DEF Shared

\* The collector deletes no row that is active, or that an overwrite may go back to.
LEMMA CollectShares ==
    ASSUME Shared, Single', Collect
    PROVE  Shared' /\ \A m : ActiveRows(rows', m) = ActiveRows(rows, m)
<1>1. /\ rows' \subseteq rows /\ UNCHANGED <<sync, minted, req>>
      /\ \A p : Filling(p)' <=> Filling(p)
      /\ \A p : Splitting(p)' <=> Splitting(p)
  BY CollectShrinks DEF Filling, Splitting
<1>2. \A r \in rows : Selected(r)
  BY DEF Shared, Selections
<1>3. ASSUME NEW i \in gc'.ids, \E r \in rows : i = RowId(r)
      PROVE  i[2] \in minted /\ \A p \in Req : Splitting(p) => req[p].key # i[2]
  BY <1>3 DEF RowId, Shared, Single, KeysMinted, Splits
<1>4. CASE \E D \in SUBSET rows : GcBegin(D)
  <2>1. PICK D \in SUBSET rows : GcBegin(D)
    BY <1>4
  <2>2. /\ gc'.pc = "evicted" /\ gc'.ids = {RowId(r) : r \in D} /\ rows' = rows
        /\ D \subseteq Evicted(rows, sync)
    BY <2>1 DEF GcBegin
  <2>3. \A r \in rows : RowId(r) \in gc'.ids => r \in D
    BY <2>2 DEF Shared, Single, Tidy, OneOfKey, RowId
  <2>4. \A r \in rows : Selected(r)'
    BY <2>2, <2>3 DEF Selected, Evicted
  <2>5. Selections'
    BY <1>1, <1>3, <2>2, <2>4 DEF Selections
  <2>6. ASSUME NEW p \in Req PROVE Undoable(p)'
    <3> SUFFICES ASSUME Filling(p)' PROVE Undoable(p)'
      BY DEF Undoable
    <3>1. Filling(p) /\ Undoable(p) /\ Bare(req[p].node) /\ req[p].node \in Node
      BY <1>1 DEF Shared, Single, Fills, IInv, RequestsNamed, Filling
    <3>2. \A r \in rows : r.node = req[p].node => sync[r.node] = "pending_upload"
      BY <3>1 DEF Undoable, Shared, Single, IInv, NodesExist, TypeOK
    <3>3. \A r \in D : r.node # req[p].node
      BY <2>2, <3>1, <3>2 DEF Evicted, Bare
    <3>4. \A r \in rows : RowId(r) = <<req[p].node, req[p].prev>> => RowId(r) \notin gc'.ids
      BY <2>3, <3>3 DEF RowId
    <3> QED BY <1>1, <2>2, <3>1, <3>4 DEF Undoable
  <2> QED BY <1>1, <2>2, <2>5, <2>6 DEF Shared
<1>5. CASE \E D \in SUBSET rows : GcRows(D)
  <2>1. PICK D \in SUBSET rows : GcRows(D)
    BY <1>5
  <2>2. /\ gc'.pc = "pending" /\ gc'.ids = {RowId(r) : r \in D} /\ rows' = DeleteRows(rows, gc.ids)
        /\ D \subseteq StalePending(rows, sync) /\ NotInFlight(D) /\ gc.pc = "evicted"
    BY <2>1 DEF GcRows
  <2>3. \A r \in rows : RowId(r) \in gc'.ids => r \in D
    BY <2>2 DEF Shared, Single, Tidy, OneOfKey, RowId
  <2>4. \A r \in rows : Selected(r)'
    BY <1>1, <2>2, <2>3 
       DEF Selected, StalePending, NotInFlight, InFlight, Filling, Shared, Single, IInv, RequestsNamed
  <2>5. Selections'
    BY <1>1, <1>3, <2>2, <2>4 DEF Selections
  <2>6. ASSUME NEW p \in Req PROVE Undoable(p)'
    <3> SUFFICES ASSUME Filling(p)' PROVE Undoable(p)'
      BY DEF Undoable
    <3>1. Filling(p) /\ Undoable(p)
      BY <1>1 DEF Shared
    <3>2. \A r \in rows : RowId(r) = <<req[p].node, req[p].prev>> => RowId(r) \notin gc'.ids
      BY <2>2, <2>3, <3>1 DEF Undoable, StalePending
    <3>3. Sharers(rows', req[p].prev) = {}
      BY <1>1, <3>1 DEF Undoable, Sharers
    <3> QED BY <1>1, <3>1, <3>2, <3>3 DEF Undoable
  <2>7. \A m : ActiveRows(rows', m) = ActiveRows(rows, m)
    BY <1>2, <2>2 DEF Selected, DeleteRows, ActiveRows, Having, RowsOf
  <2>8. AtMostTwo(rows')
    BY <1>1 DEF Shared, AtMostTwo, Sharers
  <2> QED BY <1>1, <2>5, <2>6, <2>7, <2>8 DEF Shared
<1>6. CASE GcStaleRows
  <2>1. gc'.pc = "list" /\ gc'.ids = {} /\ rows' = DeleteRows(rows, gc.ids) /\ gc.pc = "pending"
    BY <1>6 DEF GcStaleRows, GcIdle
  <2>2. Selections'
    BY <2>1 DEF Selections, Selected
  <2>3. ASSUME NEW p \in Req PROVE Undoable(p)'
    <3>1. Undoable(p)
      BY DEF Shared
    <3> QED BY <1>1, <2>1, <3>1 DEF Undoable, Sharers
  <2>4. \A m : ActiveRows(rows', m) = ActiveRows(rows, m)
    BY <1>2, <2>1 DEF Selected, DeleteRows, ActiveRows, Having, RowsOf
  <2>5. AtMostTwo(rows')
    BY <1>1 DEF Shared, AtMostTwo, Sharers
  <2> QED BY <1>1, <2>2, <2>3, <2>4, <2>5 DEF Shared
<1>7. CASE GcBlob \/ GcReconcile \/ GcEnd \/ \E C \in SUBSET blobs : GcList(C)
  <2>1. /\ rows' = rows /\ gc'.ids = gc.ids
        /\ gc'.pc = gc.pc \/ (gc.pc \notin {"evicted", "pending"} /\ gc'.pc \notin {"evicted", "pending"})
    <3>1. CASE GcBlob
      BY <3>1 DEF GcBlob, Shared, Single, IInv, TypeOK, GcState
    <3>2. CASE GcReconcile \/ \E C \in SUBSET blobs : GcList(C)
      BY <3>2 DEF GcReconcile, GcList, Shared, Single, IInv, TypeOK, GcState
    <3>3. CASE GcEnd
      BY <3>3 DEF GcEnd, GcIdle, Shared, Selections
    <3> QED BY <1>7, <3>1, <3>2, <3>3
  <2>2. \A r \in rows : Selected(r)'
    BY <1>1, <1>2, <2>1 DEF Selected, Shared, Selections
  <2>3. Selections'
    BY <1>1, <2>1, <2>2 DEF Shared, Selections
  <2>4. \A p \in Req : Undoable(p)'
    BY <1>1, <2>1 DEF Shared, Undoable
  <2> QED BY <1>1, <2>1, <2>3, <2>4 DEF Shared
<1> QED BY <1>4, <1>5, <1>6, <1>7 DEF Collect

\* A step on one file, by a request that is alone.
LEMMA AloneShares ==
    ASSUME Shared, Single', Lone, NEW p \in Req, NEW n \in Node, gc' = gc, minted \subseteq minted',
           \A m : m # n => RowsOf(rows', m) = RowsOf(rows, m),
           AtMostTwo(rows'), Undoable(p)', req'[p].pc \notin {"head", "headed"},
           \A i \in gc.ids : Splitting(p)' => req'[p].key # i[2],
           \A r \in rows' : RowId(r) \in gc.ids =>
              IF gc.pc = "evicted" THEN r.st = "orphaned"
              ELSE r.st = "pending" /\ (Filling(p)' => req'[p].key # r.key)
    PROVE  Shared' /\ OneTouched
<1>1. \A q \in Req : q = p
  BY DEF Lone
<1>2. \A r \in rows' : Selected(r)'
  BY <1>1 DEF Selected
<1>3. Selections'
  BY <1>1, <1>2 DEF Selections, Shared
<1>4. OneTouched
  BY DEF OneTouched, ActiveRows, Having
<1> QED BY <1>1, <1>3, <1>4 DEF Shared

\* Who shares a key with fewer files, or alone, is no third.
LEMMA FewerSharers ==
    ASSUME Shared, NEW Q,
           \A k \in Key : Sharers(Q, k) \subseteq Sharers(rows, k) \/ \E x : Sharers(Q, k) \subseteq {x}
    PROVE  AtMostTwo(Q)
<1> SUFFICES ASSUME NEW k \in Key PROVE \E x, y : Sharers(Q, k) \subseteq {x, y}
  BY DEF AtMostTwo
<1>1. CASE Sharers(Q, k) \subseteq Sharers(rows, k)
  <2>1. PICK x, y : Sharers(rows, k) \subseteq {x, y}
    BY DEF Shared, AtMostTwo
  <2>2. Sharers(Q, k) \subseteq {x, y}
    BY <1>1, <2>1
  <2> QED BY <2>2
<1>2. ASSUME NEW x, Sharers(Q, k) \subseteq {x} PROVE \E y, z : Sharers(Q, k) \subseteq {y, z}
  <2>1. Sharers(Q, k) \subseteq {x, x}
    BY <1>2
  <2> QED BY <2>1
<1> QED BY <1>1, <1>2

\* TX1: the row that was active, if any, is the one the overwrite may go back to.
LEMMA PrepareShares ==
    ASSUME Shared, Single', Lone, NEW p \in Req, NEW n \in Node, NEW k \in Key, NEW R,
           WellFormed(R), Tidy(R), \A r \in R : r.key # k, k \notin minted,
           \A m : m # n => RowsOf(R, m) = RowsOf(rows, m),
           rows' = Evict(Upsert(R, n, k, "pending"), n, Cap), minted \subseteq minted', gc' = gc,
           NEW s, req'[p] = s, s.pc = "put", s.node = n, s.key = k,
           IF ActiveRows(R, n) = {} THEN s.prev = None ELSE \E r \in ActiveRows(R, n) : s.prev = r.key,
           \A r \in ActiveRows(R, n) : Sharers(R, r.key) \subseteq {r},
           \A j \in Key : Sharers(R, j) \subseteq Sharers(rows, j) \/ \E x : Sharers(R, j) \subseteq {x},
           \A r \in R : RowId(r) \in gc.ids =>
              IF gc.pc = "evicted" THEN r.st = "orphaned" ELSE r.st = "pending",
           sync'[n] # "active"
    PROVE  Shared' /\ OneTouched
<1>1. \A q \in rows' : /\ q.key = k => q.node = n /\ q.st = "pending"
                       /\ q.key # k => \E r \in R :
                             /\ q.node = r.node /\ q.key = r.key /\ q.ver = r.ver
                             /\ \/ q = r
                                \/ r.node = n /\ r.st \in {"active", "history"}
                                   /\ q.st \in {"history", "orphaned"}
  BY PrepareRows, CapAssumption
<1>2. ActiveRows(rows', n) = {}
  BY PrepareRows, CapAssumption
<1>a. PICK U : U = Upsert(R, n, k, "pending")
  OBVIOUS
<1>3. /\ Tidy(U) /\ WellFormed(U)
      /\ \A m : m # n => RowsOf(U, m) = RowsOf(R, m)
  BY <1>a, UpsertTidy, UpsertWellFormed DEF Status
<1>4. \A m : m # n => RowsOf(rows', m) = RowsOf(U, m)
  BY <1>3, <1>a, EvictTidy, CapAssumption
<1>5. \A q \in rows' : q.st = "active" => q \in R /\ q.node # n
  BY <1>1, <1>2 DEF ActiveRows, Having, RowsOf
<1>6. \A j : Sharers(rows', j) \subseteq Sharers(R, j)
  BY <1>5 DEF Sharers
<1>7. \A j \in Key : Sharers(rows', j) \subseteq Sharers(rows, j) \/ \E x : Sharers(rows', j) \subseteq {x}
  <2> SUFFICES ASSUME NEW j \in Key
               PROVE  Sharers(rows', j) \subseteq Sharers(rows, j) \/ \E x : Sharers(rows', j) \subseteq {x}
    OBVIOUS
  <2>1. CASE Sharers(R, j) \subseteq Sharers(rows, j)
    BY <1>6, <2>1
  <2>2. ASSUME NEW x, Sharers(R, j) \subseteq {x} PROVE Sharers(rows', j) \subseteq {x}
    BY <1>6, <2>2
  <2> QED BY <2>1, <2>2
<1>8. AtMostTwo(rows')
  BY <1>7, FewerSharers
<1>9. ASSUME NEW q \in rows', RowId(q) \in gc.ids
      PROVE  IF gc.pc = "evicted" THEN q.st = "orphaned" ELSE q.st = "pending" /\ k # q.key
  <2>1. q.key # k
    BY <1>9 DEF RowId, Shared, Selections
  <2>2. PICK r \in R : /\ q.node = r.node /\ q.key = r.key
                       /\ \/ q = r
                          \/ r.node = n /\ r.st \in {"active", "history"}
    BY <1>1, <2>1
  <2>3. RowId(r) \in gc.ids
    BY <1>9, <2>2 DEF RowId
  <2> QED BY <2>1, <2>2, <2>3
<1>10. Undoable(p)'
  <2>1. Sharers(rows', s.prev) = {}
    <3>1. ASSUME NEW q \in Sharers(rows', s.prev) PROVE FALSE
      <4>1. q \in rows' /\ q.key = s.prev /\ q.st = "active"
        BY DEF Sharers
      <4>2. q \in R /\ q.node # n /\ q.key \in Key
        BY <1>5, <4>1 DEF WellFormed, Row
      <4>3. PICK r \in ActiveRows(R, n) : s.prev = r.key
        BY <4>1, <4>2, NoneAssumption
      <4>4. q = r
        BY <4>1, <4>2, <4>3 DEF Sharers
      <4> QED BY <4>2, <4>4 DEF ActiveRows, Having, RowsOf
    <3> QED BY <3>1
  <2>2. ASSUME NEW q \in rows', RowId(q) = <<n, s.prev>>
        PROVE  q.st \in {"history", "orphaned"} /\ RowId(q) \notin gc.ids
    <3>1. q.node = n /\ q.key = s.prev
      BY <2>2 DEF RowId
    <3>2. PICK r \in ActiveRows(R, n) : s.prev = r.key
      <4>1. rows' \subseteq Row
        BY DEF Single, IInv, WellFormed
      <4> QED BY <3>1, <4>1, NoneAssumption DEF Row
    <3>3. r \in R /\ r.node = n /\ r.st = "active"
      BY DEF ActiveRows, Having, RowsOf
    <3>4. q.key # k
      BY <3>1, <3>2, <3>3
    <3>5. PICK t \in R : /\ q.node = t.node /\ q.key = t.key
                         /\ q = t \/ q.st \in {"history", "orphaned"}
      BY <1>1, <3>4
    <3>6. t = r
      BY <3>1, <3>2, <3>3, <3>5 DEF Tidy, OneOfKey
    <3>7. q.st \in {"history", "orphaned"}
      BY <1>5, <3>1, <3>3, <3>5, <3>6
    <3>8. RowId(r) = RowId(q)
      BY <3>1, <3>2, <3>3 DEF RowId
    <3> QED BY <3>3, <3>7, <3>8
  <2> QED BY <2>1, <2>2 DEF Undoable
<1>11. ~Splitting(p)'
  BY DEF Splitting
<1>12. \A m : m # n => RowsOf(rows', m) = RowsOf(rows, m)
  BY <1>3, <1>4
<1> QED BY <1>8, <1>9, <1>10, <1>11, <1>12, AloneShares

\* countActiveObjectsByS3Key answers 1: nobody else shares the row's blob.
LEMMA CountOne ==
    ASSUME Shared, NEW n, NEW r \in ActiveRows(rows, n), ActiveCount(rows, r.key) = 1
    PROVE  Sharers(rows, r.key) = {r}
<1>1. r \in rows /\ r.st = "active" /\ r.key \in Key
  BY DEF ActiveRows, Having, RowsOf, Shared, Single, IInv, WellFormed, Row
<1>2. PICK x, y : Sharers(rows, r.key) \subseteq {x, y}
  BY <1>1 DEF Shared, AtMostTwo
<1>3. IsFiniteSet({x, y})
  <2>1. IsFiniteSet({x} \cup {y})
    BY FS_Singleton, FS_AddElement
  <2> QED BY <2>1
<1>4. IsFiniteSet(Sharers(rows, r.key))
  BY <1>2, <1>3, FS_Subset
<1>5. Cardinality(Sharers(rows, r.key)) = 1
  BY DEF ActiveCount, Sharers
<1>6. PICK z : Sharers(rows, r.key) = {z}
  BY <1>4, <1>5, FS_Singleton
<1>7. r \in Sharers(rows, r.key)
  BY <1>1 DEF Sharers
<1> QED BY <1>6, <1>7

\* The rows that the collector has selected are not active.
LEMMA SelectedRows ==
    ASSUME Shared
    PROVE  /\ \A r \in rows : RowId(r) \in gc.ids =>
                 IF gc.pc = "evicted" THEN r.st = "orphaned" ELSE r.st = "pending"
           /\ \A i \in gc.ids : i[2] \in minted
BY DEF Shared, Selections, Selected

\* TX1 of an upload: there is nothing to go back to.
LEMMA UploadStartShares ==
    ASSUME Shared, Single', Lone, NEW p \in Req, NEW n \in Node, NEW k \in Key, UploadStart(p, n, k)
    PROVE  Shared' /\ OneTouched
<1>1. PICK s : s.pc = "put" /\ s.node = n /\ s.key = k /\ s.prev = None /\ Becomes(p, s)
  BY DEF UploadStart, Idle
<1>2. req'[p] = s
  BY <1>1 DEF Becomes, Shared, Single, IInv, TypeOK
<1>3. /\ WellFormed(rows) /\ Tidy(rows) /\ (\A r \in rows : r.key # k) /\ k \notin minted
      /\ minted \subseteq minted' /\ gc' = gc
      /\ rows' = Evict(Upsert(rows, n, k, "pending"), n, Cap)
  BY DEF Shared, Single, IInv, KeysMinted, UploadStart, Fresh
<1>4. ActiveRows(rows, n) = {}
  BY DEF UploadStart, Unused, Shared, Single, IInv, NodesExist, ActiveRows, Having, RowsOf
<1>5. sync'[n] # "active"
  BY DEF UploadStart, Shared, Single, IInv, TypeOK
<1> QED BY <1>1, <1>2, <1>3, <1>4, <1>5, SelectedRows, PrepareShares

\* TX1 of an overwrite of a file whose blob is its own.
LEMMA OverwriteStartShares ==
    ASSUME Shared, Single', Lone, NEW p \in Req, NEW n \in Node, NEW k \in Key, OverwriteStart(p, n, k)
    PROVE  Shared' /\ OneTouched
<1>1. Prepare(p, n, k, rows, minted)
  BY DEF OverwriteStart
<1>2. PICK s : /\ req'[p] = s /\ s.pc = "put" /\ s.node = n /\ s.key = k
               /\ IF ActiveRows(rows, n) = {} THEN s.prev = None
                  ELSE \E r \in ActiveRows(rows, n) : s.prev = r.key
  BY <1>1, PrepareRequest DEF Shared
<1>3. /\ WellFormed(rows) /\ Tidy(rows) /\ (\A r \in rows : r.key # k) /\ k \notin minted
      /\ minted \subseteq minted' /\ gc' = gc
      /\ rows' = Evict(Upsert(rows, n, k, "pending"), n, Cap)
  BY <1>1 DEF Shared, Single, IInv, KeysMinted, OverwriteStart, Fresh, Prepare
<1>4. ASSUME NEW r \in ActiveRows(rows, n) PROVE Sharers(rows, r.key) \subseteq {r}
  <2>1. PICK t \in ActiveRows(rows, n) : ActiveCount(rows, t.key) = 1
    BY <1>4 DEF OverwriteStart
  <2>2. t = r
    BY DEF ActiveRows, Having, RowsOf, Shared, Single, Tidy, OneActive
  <2> QED BY <2>1, <2>2, CountOne
<1>5. sync'[n] # "active"
  BY DEF OverwriteStart, Prepare, SetSync, Live, Shared, Single, IInv, TypeOK
<1> QED BY <1>2, <1>3, <1>4, <1>5, SelectedRows, PrepareShares

\* TX1 after a split: the private row is the one to go back to.
LEMMA SplitDoneShares ==
    ASSUME Shared, Single', Lone, NEW p \in Req, NEW k \in Key, OverwriteSplitDone(p, k)
    PROVE  Shared' /\ OneTouched
<1>a. PICK n \in Node, h \in Key : n = req[p].node /\ h = req[p].key
  BY DEF OverwriteSplitDone, Shared, Single, IInv, RequestsNamed
<1>b. PICK R : R = Upsert(rows, n, h, "active")
  OBVIOUS
<1>1. Prepare(p, n, k, R, minted)
  BY <1>a, <1>b DEF OverwriteSplitDone
<1>2. PICK s : /\ req'[p] = s /\ s.pc = "put" /\ s.node = n /\ s.key = k
               /\ IF ActiveRows(R, n) = {} THEN s.prev = None
                  ELSE \E r \in ActiveRows(R, n) : s.prev = r.key
  BY <1>1, PrepareRequest DEF Shared
<1>3. /\ WellFormed(rows) /\ Tidy(rows) /\ \A r \in rows : r.key # h /\ r.key \in minted
      /\ h \in minted /\ k \notin minted /\ Splitting(p) /\ gc' = gc
  BY <1>a, NoneAssumption DEF Shared, Single, IInv, KeysMinted, Splits, Splitting, OverwriteSplitDone, Fresh
<1>4. /\ Tidy(R) /\ WellFormed(R)
      /\ \A m : m # n => RowsOf(R, m) = RowsOf(rows, m)
      /\ \A q \in R : q.key # h => \E r \in rows :
            /\ q.node = r.node /\ q.key = r.key
            /\ IF r.node = n /\ r.st = "active" THEN q.st = "history" ELSE q = r
      /\ \A q \in R : q.key = h => q.node = n /\ q.st = "active"
  BY <1>3, <1>b, UpsertTidy, UpsertWellFormed DEF Status
<1>5. \A r \in R : r.key # k
  BY <1>3, <1>4
<1>6. \A j : j # h => Sharers(R, j) \subseteq Sharers(rows, j)
  BY <1>4 DEF Sharers
<1>7. ASSUME NEW r \in R, r.key = h PROVE Sharers(R, h) \subseteq {r}
  BY <1>4, <1>7 DEF Sharers, Tidy, OneOfKey
<1>8. \A r \in ActiveRows(R, n) : r \in R /\ r.key = h
  BY <1>4 DEF ActiveRows, Having, RowsOf
<1>9. Sharers(R, h) \subseteq {} \/ \E x : Sharers(R, h) \subseteq {x}
  BY <1>7 DEF Sharers
<1>10. \A j \in Key : Sharers(R, j) \subseteq Sharers(rows, j) \/ \E x : Sharers(R, j) \subseteq {x}
  BY <1>6, <1>9
<1>11. ASSUME NEW q \in R, RowId(q) \in gc.ids
       PROVE  IF gc.pc = "evicted" THEN q.st = "orphaned" ELSE q.st = "pending"
  <2>1. q.key # h
    BY <1>a, <1>3, <1>11 DEF RowId, Shared, Selections
  <2>2. PICK r \in rows : /\ q.node = r.node /\ q.key = r.key
                          /\ IF r.node = n /\ r.st = "active" THEN q.st = "history" ELSE q = r
    BY <1>4, <2>1
  <2>3. RowId(r) \in gc.ids
    BY <1>11, <2>2 DEF RowId
  <2> QED BY <2>2, <2>3, SelectedRows
<1>12. sync'[n] # "active"
  BY <1>a DEF OverwriteSplitDone, Prepare, SetSync, Shared, Single, IInv, TypeOK
<1>13. minted \subseteq minted' /\ rows' = Evict(Upsert(R, n, k, "pending"), n, Cap)
  BY <1>1 DEF Prepare
<1>14. \A r \in ActiveRows(R, n) : Sharers(R, r.key) \subseteq {r}
  BY <1>7, <1>8
<1> QED BY <1>2, <1>3, <1>4, <1>5, <1>10, <1>11, <1>12, <1>13, <1>14, PrepareShares

\* A split or a duplication starts, with a key that is nowhere.
LEMMA SplitStartShares ==
    ASSUME Shared, Single', Lone, NEW p \in Req, NEW n \in Node, NEW k \in Key,
           OverwriteSplit(p, n, k) \/ \E m \in Node : CopyDup(p, n, m, k)
    PROVE  Shared' /\ OneTouched
<1>1. PICK s : s.pc = "dup" /\ s.key = k /\ Becomes(p, s)
  BY DEF OverwriteSplit, CopyDup, Idle
<1>2. /\ req'[p] = s /\ UNCHANGED <<sync, rows, gc>> /\ minted \subseteq minted' /\ k \notin minted
  BY <1>1 DEF Becomes, Shared, Single, IInv, TypeOK, OverwriteSplit, CopyDup, Fresh
<1>3. Undoable(p)'
  BY <1>1, <1>2 DEF Undoable, Filling
<1>4. ~Filling(p)'
  BY <1>1, <1>2 DEF Filling
<1> QED BY <1>1, <1>2, <1>3, <1>4, SelectedRows, AloneShares DEF Shared

\* TX2: the row that is activated is the only one of its key.
LEMMA FinishShares ==
    ASSUME Shared, Single', Lone, NEW p \in Req, Finish(p)
    PROVE  Shared' /\ OneTouched
<1>a. PICK n \in Node, k \in Key : n = req[p].node /\ k = req[p].key
  BY DEF Finish, Shared, Single, IInv, RequestsNamed
<1>1. Filling(p) /\ rows' = Activate(rows, k) /\ Ends(p) /\ minted' = minted /\ gc' = gc
  BY <1>a DEF Finish, Filling
<1>2. Bare(n) /\ \A r \in rows : r.key = k => r.node = n /\ r.st = "pending"
  BY <1>a, <1>1 DEF Shared, Single, Fills
<1>3. /\ \A m : m # n => RowsOf(rows', m) = RowsOf(rows, m)
      /\ \A q \in rows' : q \in rows \/ (q.key = k /\ q.st = "active" /\ \E r \in rows : r.key = k)
  BY <1>1, <1>2, ActivateTidy DEF Bare, Shared, Single, IInv
<1>4. rows \subseteq Row
  BY DEF Shared, Single, IInv, WellFormed
<1>5. \A q \in rows' : \/ q \in rows /\ q.key # k
                       \/ q.key = k /\ \E r \in rows : r.key = k /\ q.node = r.node
  BY <1>1, <1>2, <1>4, ActivateRows
<1>6. \A q \in rows' : q.key = k => q.node = n
  BY <1>2, <1>5
<1>7. \A j \in Key : Sharers(rows', j) \subseteq Sharers(rows, j) \/ \E x : Sharers(rows', j) \subseteq {x}
  <2>1. \A j : j # k => Sharers(rows', j) \subseteq Sharers(rows, j)
    BY <1>5 DEF Sharers
  <2>2. ASSUME NEW x \in Sharers(rows', k) PROVE Sharers(rows', k) \subseteq {x}
    BY <1>6 DEF Sharers, Single, Tidy, OneActive
  <2> QED BY <2>1, <2>2
<1>8. AtMostTwo(rows')
  BY <1>7, FewerSharers
<1>9. ASSUME NEW q \in rows', RowId(q) \in gc.ids
      PROVE  IF gc.pc = "evicted" THEN q.st = "orphaned" ELSE q.st = "pending"
  <2>1. CASE q \in rows
    BY <1>9, <2>1, SelectedRows
  <2>2. CASE q.key = k
    <3>1. PICK r \in rows : r.key = k /\ q.node = r.node
      BY <1>5, <2>2
    <3>2. RowId(r) \in gc.ids /\ Selected(r) /\ r.st = "pending"
      BY <1>2, <1>9, <2>2, <3>1 DEF RowId, Shared, Selections
    <3> QED BY <1>a, <1>1, <3>1, <3>2 DEF Selected
  <2> QED BY <1>5, <2>1, <2>2
<1>10. req'[p].pc = "idle"
  BY <1>1 DEF Ends, Idle, Shared, Single, IInv, TypeOK
<1>11. Undoable(p)' /\ ~Filling(p)' /\ ~Splitting(p)'
  BY <1>10 DEF Undoable, Filling, Splitting
<1> QED BY <1>1, <1>3, <1>8, <1>9, <1>10, <1>11, AloneShares

\* The rollback reactivates a row whose key nobody has active.
LEMMA OverwriteFailsShares ==
    ASSUME Shared, Single', Lone, NEW p \in Req, OverwriteFails(p)
    PROVE  Shared' /\ OneTouched
<1>a. PICK n \in Node, k \in Key : n = req[p].node /\ k = req[p].key
  BY DEF OverwriteFails, Shared, Single, IInv, RequestsNamed
<1>b. PICK R, prev : prev = req[p].prev /\ R = Reactivate(rows, n, prev)
  OBVIOUS
<1>1. /\ Filling(p) /\ Goes(p, "undo") /\ minted' = minted /\ gc' = gc
      /\ rows' \subseteq R /\ \A r \in R \ rows' : r.key = k
  BY <1>a, <1>b DEF OverwriteFails, Filling
<1>2. Bare(n) /\ \A r \in rows : r.key = k => r.node = n /\ r.st = "pending"
  BY <1>a, <1>1 DEF Shared, Single, Fills
<1>3. /\ Tidy(R) /\ \A m : m # n => RowsOf(R, m) = RowsOf(rows, m)
      /\ \A q \in R : q \in rows \/
            (/\ q.node = n /\ q.key = prev /\ q.st = "active"
             /\ \E r \in rows : r.node = n /\ r.key = prev)
  BY <1>2, <1>b, ReactivateTidy DEF Bare, Shared, Single, IInv
<1>4. \A r \in R \ rows' : r.node = n
  BY <1>1, <1>2, <1>3
<1>5. \A m : m # n => RowsOf(rows', m) = RowsOf(rows, m)
  BY <1>1, <1>3, <1>4 DEF RowsOf
<1>6. Sharers(rows, prev) = {} /\ \A r \in rows : RowId(r) = <<n, prev>> => RowId(r) \notin gc.ids
  BY <1>a, <1>b, <1>1 DEF Shared, Undoable
<1>7. \A j \in Key : Sharers(rows', j) \subseteq Sharers(rows, j) \/ \E x : Sharers(rows', j) \subseteq {x}
  <2>1. \A j : j # prev => Sharers(rows', j) \subseteq Sharers(rows, j)
    BY <1>1, <1>3 DEF Sharers
  <2>2. \A q \in Sharers(rows', prev) : q \in R /\ q.node = n /\ q.st = "active"
    BY <1>1, <1>3, <1>6 DEF Sharers
  <2>3. ASSUME NEW x \in Sharers(rows', prev) PROVE Sharers(rows', prev) \subseteq {x}
    BY <1>3, <2>2 DEF Tidy, OneActive
  <2> QED BY <2>1, <2>3
<1>8. AtMostTwo(rows')
  BY <1>7, FewerSharers
<1>9. ASSUME NEW q \in rows', RowId(q) \in gc.ids
      PROVE  IF gc.pc = "evicted" THEN q.st = "orphaned" ELSE q.st = "pending"
  <2>1. CASE q \in rows
    BY <1>9, <2>1, SelectedRows
  <2>2. CASE q \notin rows
    <3>1. PICK r \in rows : r.node = n /\ r.key = prev /\ q.node = n /\ q.key = prev
      BY <1>1, <1>3, <2>2
    <3> QED BY <1>6, <1>9, <3>1 DEF RowId
  <2> QED BY <2>1, <2>2
<1>10. req'[p].pc = "undo"
  BY <1>1 DEF Goes, Shared, Single, IInv, TypeOK, ReqState
<1>11. Undoable(p)' /\ ~Filling(p)' /\ ~Splitting(p)'
  BY <1>10 DEF Undoable, Filling, Splitting
<1> QED BY <1>1, <1>5, <1>8, <1>9, <1>10, <1>11, AloneShares

\* A split torn before the overwrite.
LEMMA SplitTornShares ==
    ASSUME Shared, Single', Lone, NEW p \in Req, SplitTorn(p)
    PROVE  Shared' /\ OneTouched
<1>a. PICK n \in Node, h \in Key : n = req[p].node /\ h = req[p].key
  BY DEF SplitTorn, Shared, Single, IInv, RequestsNamed
<1>b. PICK U : U = Upsert(rows, n, h, "active")
  OBVIOUS
<1>1. /\ Splitting(p) /\ Ends(p) /\ minted' = minted /\ gc' = gc
      /\ rows' = DemoteActive(rows, n) \/ rows' = U
  BY <1>a, <1>b DEF SplitTorn, Splitting
<1>2. WellFormed(rows) /\ Tidy(rows) /\ \A r \in rows : r.key # h
  BY <1>a, <1>1 DEF Shared, Single, IInv, Splits
<1>3. /\ Tidy(U)
      /\ \A m : m # n => RowsOf(U, m) = RowsOf(rows, m)
      /\ \A q \in U : q.key # h => \E r \in rows :
            /\ q.node = r.node /\ q.key = r.key
            /\ IF r.node = n /\ r.st = "active" THEN q.st = "history" ELSE q = r
      /\ \A q \in U : q.key = h => q.node = n /\ q.st = "active"
  BY <1>2, <1>b, UpsertTidy
<1>4. rows' \subseteq U /\ \A q \in U \ rows' : q.node = n
  BY <1>1, <1>b DEF Upsert
<1>5. \A m : m # n => RowsOf(rows', m) = RowsOf(rows, m)
  BY <1>3, <1>4 DEF RowsOf
<1>6. \A j \in Key : Sharers(rows', j) \subseteq Sharers(rows, j) \/ \E x : Sharers(rows', j) \subseteq {x}
  <2>1. \A j : j # h => Sharers(rows', j) \subseteq Sharers(rows, j)
    BY <1>3, <1>4 DEF Sharers
  <2>2. ASSUME NEW x \in Sharers(rows', h) PROVE Sharers(rows', h) \subseteq {x}
    BY <1>3, <1>4 DEF Sharers, Tidy, OneActive
  <2> QED BY <2>1, <2>2
<1>7. AtMostTwo(rows')
  BY <1>6, FewerSharers
<1>8. ASSUME NEW q \in rows', RowId(q) \in gc.ids
      PROVE  IF gc.pc = "evicted" THEN q.st = "orphaned" ELSE q.st = "pending"
  <2>1. q.key # h
    BY <1>a, <1>1, <1>8 DEF RowId, Shared, Selections
  <2>2. PICK r \in rows : /\ q.node = r.node /\ q.key = r.key
                          /\ IF r.node = n /\ r.st = "active" THEN q.st = "history" ELSE q = r
    BY <1>3, <1>4, <2>1
  <2>3. RowId(r) \in gc.ids
    BY <1>8, <2>2 DEF RowId
  <2> QED BY <2>2, <2>3, SelectedRows
<1>9. req'[p].pc = "idle"
  BY <1>1 DEF Ends, Idle, Shared, Single, IInv, TypeOK
<1>10. Undoable(p)' /\ ~Filling(p)' /\ ~Splitting(p)'
  BY <1>9 DEF Undoable, Filling, Splitting
<1> QED BY <1>1, <1>5, <1>7, <1>8, <1>9, <1>10, AloneShares

\* A file that is new links a blob that one file has, or that it has to itself.
LEMMA LinkShares ==
    ASSUME Shared, NEW m \in Node, NEW k, sync[m] = "absent",
           rows' = rows \/ rows' = InsertFirst(rows, m, k),
           \E x : Sharers(rows, k) \subseteq {x}
    PROVE  /\ AtMostTwo(rows')
           /\ \A o : o # m => RowsOf(rows', o) = RowsOf(rows, o)
           /\ \A j : j # k => Sharers(rows', j) = Sharers(rows, j)
           /\ \A q \in rows' : q \in rows \/ RowId(q) = <<m, k>>
           /\ \A q \in rows' : q.node # m => q \in rows
<1>a. PICK a : Sharers(rows, k) \subseteq {a}
  OBVIOUS
<1>b. PICK x : /\ x.node = m /\ x.key = k /\ x.st = "active"
               /\ rows' = rows \/ rows' = rows \cup {x}
  BY DEF InsertFirst
<1>1. \A j : j # k => Sharers(rows', j) = Sharers(rows, j)
  BY <1>b DEF Sharers
<1>2. Sharers(rows', k) \subseteq {a, x}
  BY <1>a, <1>b DEF Sharers
<1>3. ASSUME NEW j \in Key PROVE \E y, z : Sharers(rows', j) \subseteq {y, z}
  <2>1. CASE j = k
    BY <1>2, <2>1
  <2>2. CASE j # k
    BY <1>1, <2>2 DEF Shared, AtMostTwo
  <2> QED BY <2>1, <2>2
<1>4. AtMostTwo(rows')
  BY <1>3 DEF AtMostTwo
<1>5. \A o : o # m => RowsOf(rows', o) = RowsOf(rows, o)
  BY <1>b DEF RowsOf
<1> QED BY <1>1, <1>4, <1>5, <1>b DEF RowId

\* A link makes the second sharer, never a third.
LEMMA CopyLinkShares ==
    ASSUME Shared, Single', Lone, NEW p \in Req, NEW n \in Node, NEW m \in Node, CopyLink(p, n, m)
    PROVE  Shared' /\ OneTouched
<1>1. PICK r \in ActiveRows(rows, n) : ActiveCount(rows, r.key) = 1 /\ Link(m, r.key)
  BY DEF CopyLink
<1>2. rows' = InsertFirst(rows, m, r.key) /\ \E x : Sharers(rows, r.key) \subseteq {x}
  BY <1>1, CountOne DEF Link
<1>3. /\ sync[m] = "absent" /\ minted' = minted /\ req' = req /\ req[p].pc = "idle" /\ gc' = gc
      /\ \A i \in gc.ids : i[1] # m
  BY DEF CopyLink, Unused, ReadyFor
<1>4. /\ AtMostTwo(rows')
      /\ \A o : o # m => RowsOf(rows', o) = RowsOf(rows, o)
      /\ \A q \in rows' : q \in rows \/ RowId(q) = <<m, r.key>>
  BY <1>2, <1>3, LinkShares
<1>5. \A q \in rows' : RowId(q) \in gc.ids => q \in rows
  BY <1>3, <1>4
<1>6. Undoable(p)' /\ ~Filling(p)' /\ ~Splitting(p)'
  BY <1>3 DEF Undoable, Filling, Splitting
<1> QED BY <1>3, <1>4, <1>5, <1>6, SelectedRows, AloneShares

\* A duplicate is shared with nobody.
LEMMA CopyDupShares ==
    ASSUME Shared, Single', Lone, NEW p \in Req, CopyDupDone(p) \/ CopyDupUnlinked(p)
    PROVE  Shared' /\ OneTouched
<1>a. PICK m \in Node, k \in Key : m = req[p].node /\ k = req[p].key
  BY DEF CopyDupDone, CopyDupUnlinked, Shared, Single, IInv, RequestsNamed
<1>1. /\ Splitting(p) /\ Ends(p) /\ minted' = minted /\ gc' = gc /\ req[p].op = "copy"
      /\ rows' = rows \/ rows' = InsertFirst(rows, m, k)
  BY <1>a DEF CopyDupDone, CopyDupUnlinked, Link, HalfLink, Splitting
<1>2. sync[m] = "absent"
  BY <1>a, <1>1 DEF Shared, Single, IInv, CopiesReserved, Splitting
<1>3. \E x : Sharers(rows, k) \subseteq {x}
  <2>1. \A r \in rows : r.key # k
    BY <1>a, <1>1 DEF Shared, Single, Splits
  <2> QED BY <2>1 DEF Sharers
<1>4. /\ AtMostTwo(rows')
      /\ \A o : o # m => RowsOf(rows', o) = RowsOf(rows, o)
      /\ \A q \in rows' : q \in rows \/ RowId(q) = <<m, k>>
  BY <1>1, <1>2, <1>3, LinkShares
<1>5. \A q \in rows' : RowId(q) \in gc.ids => q \in rows
  <2>1. \A i \in gc.ids : k # i[2]
    BY <1>a, <1>1 DEF Shared, Selections
  <2> QED BY <1>4, <2>1
<1>6. req'[p].pc = "idle"
  BY <1>1 DEF Ends, Idle, Shared, Single, IInv, TypeOK
<1>7. Undoable(p)' /\ ~Filling(p)' /\ ~Splitting(p)'
  BY <1>6 DEF Undoable, Filling, Splitting
<1> QED BY <1>1, <1>4, <1>5, <1>6, <1>7, SelectedRows, AloneShares

\* A copy torn between its commits, whatever the request is at: it links the blob of a
\* file with an active row, which is not the one an overwrite may go back to.
LEMMA CopyUnlinkedShares ==
    ASSUME Shared, Single', NEW n \in Node, NEW m \in Node, CopyUnlinked(n, m)
    PROVE  Shared' /\ OneTouched
<1>1. PICK r \in ActiveRows(rows, n) : ActiveCount(rows, r.key) = 1 /\ HalfLink(m, r.key)
  BY DEF CopyUnlinked
<1>2. /\ r \in Sharers(rows, r.key) /\ \E x : Sharers(rows, r.key) \subseteq {x}
  BY <1>1, CountOne
<1>3. /\ sync[m] = "absent" /\ UNCHANGED <<minted, req, gc>>
      /\ (\A i \in gc.ids : i[1] # m) /\ (\A p \in Req : req[p].node # m)
      /\ rows' = rows \/ rows' = InsertFirst(rows, m, r.key)
      /\ sync' = [sync EXCEPT ![m] = "pending_upload"]
  BY <1>1 DEF CopyUnlinked, HalfLink, Unused
<1>4. /\ AtMostTwo(rows')
      /\ \A o : o # m => RowsOf(rows', o) = RowsOf(rows, o)
      /\ \A j : j # r.key => Sharers(rows', j) = Sharers(rows, j)
      /\ \A q \in rows' : q \in rows \/ RowId(q) = <<m, r.key>>
      /\ \A q \in rows' : q.node # m => q \in rows
  BY <1>2, <1>3, LinkShares
<1>5. /\ \A p : Filling(p)' <=> Filling(p)
      /\ \A p : Splitting(p)' <=> Splitting(p)
  BY <1>3 DEF Filling, Splitting
<1>6. \A q \in rows' : RowId(q) \in gc.ids => q \in rows
  BY <1>3, <1>4
<1>7. Selections'
  <2>1. \A q \in rows' : Selected(q)'
    BY <1>3, <1>5, <1>6 DEF Shared, Selections, Selected
  <2> QED BY <1>3, <1>5, <2>1 DEF Shared, Selections
<1>8. ASSUME NEW p \in Req PROVE Undoable(p)'
  <2> SUFFICES ASSUME Filling(p)' PROVE Undoable(p)'
    BY DEF Undoable
  <2>1. Undoable(p) /\ Filling(p) /\ req[p].node \in Node /\ req[p].node # m
    BY <1>3, <1>5 DEF Shared, Single, IInv, RequestsNamed, Filling
  <2>2. sync'[req[p].node] # "active"
    BY <1>3, <2>1 DEF Undoable, Shared, Single, IInv, TypeOK
  <2>3. Sharers(rows', req[p].prev) = {}
    BY <1>2, <1>4, <2>1 DEF Undoable
  <2>4. ASSUME NEW q \in rows', RowId(q) = <<req[p].node, req[p].prev>>
        PROVE  q.st \in {"history", "orphaned"} /\ RowId(q) \notin gc.ids
    <3>1. q \in rows
      BY <1>4, <2>1, <2>4 DEF RowId
    <3> QED BY <2>1, <2>4, <3>1 DEF Undoable
  <2> QED BY <1>3, <2>2, <2>3, <2>4 DEF Undoable
<1>9. OneTouched
  BY <1>4 DEF OneTouched, ActiveRows, Having
<1> QED BY <1>3, <1>4, <1>7, <1>8, <1>9 DEF Shared

\* Every step of every actor.
LEMMA SharedStep ==
    ASSUME Shared, Single', Forward, [Next]_vars
    PROVE  Shared' /\ OneTouched
<1>0. Lone
  BY DEF Forward
<1>1. \/ Quiet \/ Collect
      \/ \E p \in Req : Writes(p)
      \/ \E n, m \in Node : CopyUnlinked(n, m)
  BY Shapes DEF Shared, Single
<1>2. ASSUME NEW p \in Req, Writes(p) PROVE Shared' /\ OneTouched
  <2>1. \A n \in Node : /\ ~RestoreVersionStart(p, n) /\ ~RepairRestore(p, n)
                        /\ \A action : ~RepairProbe(p, n, action)
    BY DEF RestoreVersionStart, RepairRestore, RepairProbe, ReadyFor, Forward
  <2>2. ~RestoreVersionSwap(p) /\ ~RepairComplete(p)
    BY DEF RestoreVersionSwap, RepairComplete, Shared
  <2>3. CASE \E n \in Node, k \in Key : UploadStart(p, n, k) \/ OverwriteStart(p, n, k)
    BY <1>0, <2>3, UploadStartShares, OverwriteStartShares
  <2>4. CASE \E n \in Node, k \in Key : OverwriteSplit(p, n, k) \/ \E m \in Node : CopyDup(p, n, m, k)
    BY <1>0, <2>4, SplitStartShares
  <2>5. CASE \/ Finish(p) \/ OverwriteFails(p) \/ SplitTorn(p)
             \/ \E k \in Key : OverwriteSplitDone(p, k)
    BY <1>0, <2>5, FinishShares, OverwriteFailsShares, SplitTornShares, SplitDoneShares
  <2>6. CASE CopyDupDone(p) \/ CopyDupUnlinked(p) \/ \E n, m \in Node : CopyLink(p, n, m)
    BY <1>0, <2>6, CopyDupShares, CopyLinkShares
  <2> QED BY <1>2, <2>1, <2>2, <2>3, <2>4, <2>5, <2>6 DEF Writes
<1>3. CASE Collect
  BY <1>3, CollectShares DEF OneTouched
<1> QED BY <1>1, <1>2, <1>3, QuietShares, CopyUnlinkedShares

\* The third invariant holds in every reachable state.
LEMMA SharedAlways ==
    ASSUME Forward
    PROVE  Spec => [](Shared /\ Single)
<1>1. Init => Shared /\ Single
  <2> SUFFICES ASSUME Init PROVE Shared /\ Single
    OBVIOUS
  <2>1. Single
    BY Initially, SingleInit
  <2>2. rows = {} /\ gc.ids = {} /\ \A p \in Req : req[p] = Idle
    BY DEF Init, GcIdle
  <2>3. AtMostTwo(rows)
    BY <2>2 DEF AtMostTwo, Sharers
  <2>4. Selections
    BY <2>2 DEF Selections
  <2>5. \A p \in Req : Undoable(p) /\ req[p].pc \notin {"head", "headed"}
    BY <2>2 DEF Undoable, Filling, Idle
  <2> QED BY <2>1, <2>3, <2>4, <2>5 DEF Shared
<1>2. (Shared /\ Single) /\ [Next]_vars => (Shared /\ Single)'
  <2>1. ASSUME Single, [Next]_vars PROVE Single'
    BY <2>1, SingleStep, Inductive DEF Single, Forward, Alone
  <2> QED BY <2>1, SharedStep
<1> QED BY <1>1, <1>2, PTL DEF Spec

\* copyFile duplicates a blob that is shared already, so that at most two files have the
\* same active blob, for one request at a time that neither restores versions nor repairs,
\* any number of files and keys and any cap.
THEOREM SharersAreTwo ==
    ASSUME Lone, {"restoreVersion", "repair"} \cap Ops = {}
    PROVE  Spec => []SharersBounded
<1>1. ASSUME Shared PROVE SharersBounded
  <2> SUFFICES ASSUME NEW k \in Key PROVE ActiveCount(rows, k) <= 2
    BY DEF SharersBounded
  <2>1. PICK x, y : Sharers(rows, k) \subseteq {x, y}
    BY <1>1 DEF Shared, AtMostTwo
  <2>2. IsFiniteSet({x, y}) /\ Cardinality({x, y}) <= 2 /\ Cardinality({x, y}) \in Nat
    <3>1. IsFiniteSet({x}) /\ Cardinality({x}) = 1
      BY FS_Singleton
    <3>2. /\ IsFiniteSet({x} \cup {y})
          /\ Cardinality({x} \cup {y}) = IF y \in {x} THEN Cardinality({x}) ELSE Cardinality({x}) + 1
      BY <3>1, FS_AddElement
    <3>3. {x} \cup {y} = {x, y}
      OBVIOUS
    <3>4. Cardinality({x} \cup {y}) <= 2
      BY <3>1, <3>2
    <3> QED BY <3>2, <3>3, <3>4, FS_CardinalityType
  <2>3. IsFiniteSet(Sharers(rows, k)) /\ Cardinality(Sharers(rows, k)) <= Cardinality({x, y})
    BY <2>1, <2>2, FS_Subset
  <2>4. Cardinality(Sharers(rows, k)) \in Nat
    BY <2>3, FS_CardinalityType
  <2> QED BY <2>2, <2>3, <2>4 DEF ActiveCount, Sharers
<1>2. Spec => [](Shared /\ Single)
  BY SharedAlways DEF Forward
<1> QED BY <1>1, <1>2, PTL

\* Copy-on-write: no step of a request, of a fault or of the collector changes the active
\* version of two files, under the same assumptions.
THEOREM CopiesStayApart ==
    ASSUME Lone, {"restoreVersion", "repair"} \cap Ops = {}
    PROVE  Spec => CopiesIsolated
<1>1. ASSUME Shared, Single', [Next]_vars
      PROVE  [\A m, n \in Node :
                 (ActiveRows(rows', m) # ActiveRows(rows, m) /\ ActiveRows(rows', n) # ActiveRows(rows, n))
                     => m = n]_vars
  BY <1>1, SharedStep DEF Forward, OneTouched
<1>2. Spec => [](Shared /\ Single)
  BY SharedAlways DEF Forward
<1> QED BY <1>1, <1>2, PTL DEF Spec, CopiesIsolated

-----------------------------------------------------------------------------
(* The fourth invariant: files that share a blob serve what was            *)
(* acknowledged, while no blob of a version is deleted                     *)

\* Nobody purges, and the collector finds no version evicted.
Sharing ==
    /\ Lone /\ {"restoreVersion", "repair", "purge"} \cap Ops = {}
    /\ "gc" \in Ops => Cap = 0

\* The requests that have a key in hand, for a row that they will insert or activate.
Uses(p) == Filling(p) \/ Splitting(p)

Plain(p) ==
    /\ req[p].pc \in {"idle", "dup", "duped", "put", "landed", "undo"}
    /\ Filling(p) => req[p].op \in {"upload", "overwrite"}

Arrived(p) == req[p].pc \in {"landed", "duped"} => req[p].key \in blobs

\* A split copies the bytes of the row that is active all the while.
Duplicates(p) ==
    Splitting(p) /\ req[p].op = "overwrite" =>
        \E r \in ActiveRows(rows, req[p].node) :
            /\ r.key = req[p].prev
            /\ req[p].pc = "duped" => content[req[p].key] = content[r.key]

\* The row a rollback brings back holds what was acknowledged, if anything was.
Returns(p) ==
    Filling(p) /\ req[p].op = "overwrite" /\ req[p].node \notin exposed =>
        \E r \in rows : /\ r.node = req[p].node /\ r.key = req[p].prev
                        /\ ack[r.node] # None => content[r.key] = ack[r.node]

\* The blob of a failed overwrite is nobody's.
Discards(p) == req[p].pc = "undo" => \A r \in rows : r.key = req[p].key => r.st = "pending"

Request(p) == Plain(p) /\ Arrived(p) /\ Duplicates(p) /\ Returns(p) /\ Discards(p)

\* So is a blob that the collector may delete, once it has compared its listing with the
\* table.
Spare(k) ==
    /\ k \in minted
    /\ \A p \in Req : Uses(p) => req[p].key # k
    /\ gc.pc # "listed" => \A r \in rows : r.key = k => r.st = "pending"

\* Every version has its blob, torn copies and exposed files included: a copy of one is
\* acknowledged.
Backed == blobs \subseteq minted /\ \A r \in rows : r.st # "pending" => r.key \in blobs

\* What is active of a file that has been acknowledged is what was acknowledged.
Truthful ==
    \A r \in rows : r.st = "active" /\ r.node \notin exposed /\ ack[r.node] # None =>
        content[r.key] = ack[r.node]

Serving == \A n \in Node : sync[n] = "active" /\ n \notin exposed => ~Bare(n)

Unacknowledged == \A n \in Node : sync[n] = "absent" => ack[n] = None

Unevicted == "gc" \in Ops => \A r \in rows : r.st # "orphaned"

Held ==
    /\ Backed /\ Truthful /\ Serving /\ Unacknowledged /\ Unevicted
    /\ \A p \in Req : Request(p)
    /\ \A k \in gc.todo : Spare(k)

\* The keys of the rows that are not pending are those of such rows before, or new, or
\* in the hands of a request.
KeysDescend ==
    \A q \in rows' : \/ q.st = "pending" \/ q.key \notin minted
                     \/ \E p \in Req : Uses(p) /\ q.key = req[p].key
                     \/ \E r \in rows : r.key = q.key /\ r.st # "pending"

\* Then what the collector may delete is nobody's still.
LEMMA SpareStays ==
    ASSUME Held, gc'.pc = gc.pc, gc'.todo \subseteq gc.todo, minted \subseteq minted', KeysDescend,
           \A p \in Req : Uses(p)' =>
              req'[p].key \notin minted \/ (Uses(p) /\ req'[p].key = req[p].key)
    PROVE  \A k \in gc'.todo : Spare(k)'
<1> SUFFICES ASSUME NEW k \in gc'.todo PROVE Spare(k)'
  OBVIOUS
<1>1. Spare(k)
  BY DEF Held
<1>2. \A p \in Req : Uses(p)' => req'[p].key # k
  BY <1>1 DEF Spare
<1>3. gc.pc # "listed" => \A q \in rows' : q.key = k => q.st = "pending"
  BY <1>1 DEF Spare, KeysDescend
<1> QED BY <1>1, <1>2, <1>3 DEF Spare

\* A step that writes no row and answers nobody.
LEMMA CalmHeld ==
    ASSUME Held, UNCHANGED <<sync, rows, content, ack, exposed>>, minted \subseteq minted',
           blobs' \subseteq minted', \A r \in rows : r.st # "pending" => r.key \in blobs',
           \A p \in Req : Request(p)', \A k \in gc'.todo : Spare(k)'
    PROVE  Held'
<1>1. Backed' /\ Truthful' /\ Serving' /\ Unacknowledged' /\ Unevicted'
  BY DEF Held, Backed, Truthful, Serving, Unacknowledged, Unevicted, Bare
<1> QED BY <1>1 DEF Held

\* A request that is alone and has ended, or undoes.
LEMMA AtRestHeld ==
    ASSUME NEW p, req'[p].pc = "idle"
    PROVE  Request(p)' /\ ~Uses(p)'
BY DEF Request, Plain, Arrived, Duplicates, Returns, Discards, Uses, Filling, Splitting

\* The rows do not change: the keys are those there were.
LEMMA SameKeys == rows' = rows => KeysDescend
BY DEF KeysDescend

\* A request that ends and writes no row.
LEMMA GivenUpHeld ==
    ASSUME Shared, Held, Lone, NEW p \in Req, Ends(p),
           UNCHANGED <<sync, rows, minted, gc, content, ack, exposed>>,
           blobs' \subseteq blobs, \A r \in rows : r.st # "pending" => r.key \in blobs'
    PROVE  Held'
<1>1. \A q \in Req : q = p
  BY DEF Lone
<1>2. req'[p].pc = "idle"
  BY DEF Shared, Single, IInv, TypeOK, Ends, Idle
<1>3. Request(p)' /\ ~Uses(p)'
  BY <1>2, AtRestHeld
<1>4. \A k \in gc'.todo : Spare(k)'
  BY <1>1, <1>3, SpareStays, SameKeys
<1>5. blobs' \subseteq minted'
  BY DEF Held, Backed
<1> QED BY <1>1, <1>3, <1>4, <1>5, CalmHeld

\* The blob of a version is not deleted after a failed overwrite.
LEMMA GivesUpHeld ==
    ASSUME Shared, Held, Lone, NEW p \in Req, UploadCleanupFails(p) \/ DupFails(p) \/ UndoBlob(p)
    PROVE  Held'
<1>1. /\ Ends(p) /\ UNCHANGED <<sync, rows, minted, gc, content, ack, exposed>>
      /\ blobs' = blobs \/ (req[p].pc = "undo" /\ blobs' = blobs \ {req[p].key})
  BY DEF UploadCleanupFails, DupFails, UndoBlob, ghosts
<1>2. \A r \in rows : r.st # "pending" => r.key \in blobs'
  BY <1>1 DEF Held, Backed, Request, Discards
<1> QED BY <1>1, <1>2, GivenUpHeld

\* A request that goes on with the same file and key.
LEMMA GoesHeld ==
    ASSUME Shared, Held, Lone, NEW p \in Req, BlobLands(p) \/ OverwriteRollbackFails(p)
    PROVE  Held'
<1>1. PICK label \in {"landed", "undo"} :
         /\ Goes(p, label) /\ Filling(p) /\ UNCHANGED <<sync, rows, minted, gc, content, ack, exposed>>
         /\ IF label = "landed" THEN blobs' = blobs \cup {req[p].key} ELSE blobs' = blobs
  BY DEF BlobLands, OverwriteRollbackFails, Filling, ghosts
<1>2. /\ req'[p].pc = label /\ req'[p].op = req[p].op /\ req'[p].node = req[p].node
      /\ req'[p].key = req[p].key /\ req'[p].prev = req[p].prev
  BY <1>1 DEF Shared, Single, IInv, TypeOK, Goes, ReqState
<1>3. Request(p)
  BY DEF Held
<1>4. \A r \in rows : r.key = req[p].key => r.st = "pending"
  BY <1>1 DEF Shared, Single, Fills
<1>5. Request(p)'
  <2>1. Plain(p)' /\ Arrived(p)'
    BY <1>1, <1>2, <1>3 DEF Request, Plain, Arrived, Filling
  <2>2. Duplicates(p)' /\ Discards(p)'
    BY <1>1, <1>2, <1>4 DEF Duplicates, Discards, Splitting
  <2>3. Returns(p)'
    BY <1>1, <1>2, <1>3 DEF Request, Returns
  <2> QED BY <2>1, <2>2, <2>3 DEF Request
<1>6. \A q \in Req : q = p
  BY DEF Lone
<1>7. \A k \in gc'.todo : Spare(k)'
  BY <1>1, <1>2, <1>6, SpareStays, SameKeys DEF Uses
<1>8. req[p].key \in minted
  BY <1>1, NoneAssumption DEF Shared, Single, KeysMinted, IInv, RequestsNamed, Filling
<1>9. blobs' \subseteq minted' /\ \A r \in rows : r.st # "pending" => r.key \in blobs'
  BY <1>1, <1>8 DEF Held, Backed
<1> QED BY <1>1, <1>5, <1>6, <1>7, <1>9, CalmHeld

\* copyBlob has answered: the key, which is in no row yet, holds the same bytes.
LEMMA DupLandsHeld ==
    ASSUME Shared, Held, Lone, NEW p \in Req, DupLands(p)
    PROVE  Held'
<1>1. /\ Goes(p, "duped") /\ req[p].pc = "dup" /\ blobs' = blobs \cup {req[p].key}
      /\ content' = [content EXCEPT ![req[p].key] = content[req[p].prev]]
      /\ UNCHANGED <<sync, rows, minted, gc, ack, exposed>>
  BY DEF DupLands
<1>2. /\ req'[p].pc = "duped" /\ req'[p].op = req[p].op /\ req'[p].node = req[p].node
      /\ req'[p].key = req[p].key /\ req'[p].prev = req[p].prev
  BY <1>1 DEF Shared, Single, IInv, TypeOK, Goes, ReqState
<1>3. /\ \A r \in rows : r.key # req[p].key /\ r.key \in Key
      /\ req[p].key \in minted /\ req[p].key \in Key
  BY <1>1, NoneAssumption
  DEF Shared, Single, Splits, Splitting, KeysMinted, IInv, RequestsNamed, WellFormed, Row
<1>4. content'[req[p].key] = content[req[p].prev] /\ \A r \in rows : content'[r.key] = content[r.key]
  BY <1>1, <1>3 DEF Shared, Single, IInv, TypeOK
<1>5. Request(p)'
  <2>1. Plain(p)' /\ Arrived(p)' /\ Returns(p)' /\ Discards(p)'
    BY <1>1, <1>2 DEF Plain, Arrived, Returns, Discards, Filling
  <2>2. Duplicates(p)'
    <3> SUFFICES ASSUME req[p].op = "overwrite"
                 PROVE  \E r \in ActiveRows(rows', req[p].node) :
                           r.key = req[p].prev /\ content'[req[p].key] = content'[r.key]
      BY <1>2 DEF Duplicates
    <3>1. PICK r \in ActiveRows(rows, req[p].node) : r.key = req[p].prev
      BY <1>1 DEF Held, Request, Duplicates, Splitting
    <3>2. r \in rows
      BY DEF ActiveRows, Having, RowsOf
    <3> QED BY <1>1, <1>4, <3>1, <3>2
  <2> QED BY <2>1, <2>2 DEF Request
<1>6. \A q \in Req : q = p
  BY DEF Lone
<1>7. Uses(p)
  BY <1>1 DEF Uses, Splitting
<1>8. \A k \in gc'.todo : Spare(k)'
  BY <1>1, <1>2, <1>6, <1>7, SpareStays, SameKeys
<1>9. Backed' /\ Truthful' /\ Serving' /\ Unacknowledged' /\ Unevicted'
  <2>1. Backed' /\ Unevicted'
    BY <1>1, <1>3 DEF Held, Backed, Unevicted
  <2>2. Truthful'
    BY <1>1, <1>4 DEF Held, Truthful
  <2>3. Serving' /\ Unacknowledged'
    BY <1>1 DEF Held, Serving, Unacknowledged, Bare
  <2> QED BY <2>1, <2>2, <2>3
<1> QED BY <1>5, <1>6, <1>8, <1>9 DEF Held

\* A step on one file, by a request that is alone.
LEMMA AloneHeld ==
    ASSUME Shared, Single', Held, Lone, NEW p \in Req, NEW n \in Node,
           gc' = gc, minted \subseteq minted', UNCHANGED <<blobs, content>>,
           \A m \in Node \ {n} : /\ RowsOf(rows', m) = RowsOf(rows, m) /\ sync'[m] = sync[m]
                                 /\ ack'[m] = ack[m] /\ (m \in exposed => m \in exposed'),
           \A q \in RowsOf(rows', n) :
              \/ q.st = "pending"
              \/ Uses(p) /\ q.key = req[p].key /\ q.key \in blobs
              \/ \E r \in rows : r.key = q.key /\ r.st # "pending",
           "gc" \in Ops => \A q \in RowsOf(rows', n) : q.st # "orphaned",
           n \notin exposed' /\ ack'[n] # None =>
              \A q \in ActiveRows(rows', n) : content[q.key] = ack'[n],
           sync'[n] = "active" /\ n \notin exposed' => ~Bare(n)',
           sync'[n] = "absent" => ack'[n] = None,
           Uses(p)' => req'[p].key \notin minted \/ (Uses(p) /\ req'[p].key = req[p].key),
           Request(p)'
    PROVE  Held'
<1>1. \A q \in Req : q = p
  BY DEF Lone
<1>2. \A q \in rows' : /\ q.node \in Node /\ (q.node = n => q \in RowsOf(rows', n))
                       /\ (q.node # n => q \in rows)
  BY DEF Single, IInv, WellFormed, Row, RowsOf
<1>3. KeysDescend
  BY <1>2 DEF KeysDescend
<1>4. \A k \in gc'.todo : Spare(k)'
  BY <1>1, <1>3, SpareStays
<1>5. Backed'
  BY <1>2 DEF Held, Backed
<1>6. Truthful'
  <2> SUFFICES ASSUME NEW q \in rows', q.st = "active", q.node \notin exposed', ack'[q.node] # None
               PROVE  content'[q.key] = ack'[q.node]
    BY DEF Truthful
  <2>1. CASE q.node = n
    BY <1>2, <2>1 DEF ActiveRows, Having
  <2>2. CASE q.node # n
    BY <1>2, <2>2 DEF Held, Truthful
  <2> QED BY <2>1, <2>2
<1>7. Serving'
  BY DEF Held, Serving, Bare, ActiveRows, Having
<1>8. Unacknowledged' /\ Unevicted'
  BY <1>2 DEF Held, Unacknowledged, Unevicted
<1> QED BY <1>1, <1>4, <1>5, <1>6, <1>7, <1>8 DEF Held

\* TX1 of an upload or an overwrite: a rollback has a row to bring back.
LEMMA PrepareHeld ==
    ASSUME Shared, Single', Held, Sharing, NEW p \in Req, NEW n \in Node, NEW k \in Key, NEW R,
           WellFormed(R), Tidy(R), \A r \in R : r.key # k, k \notin minted,
           \A m : m # n => RowsOf(R, m) = RowsOf(rows, m),
           rows' = Evict(Upsert(R, n, k, "pending"), n, Cap), minted \subseteq minted', gc' = gc,
           UNCHANGED <<blobs, content, ack>>,
           \A r \in RowsOf(R, n) :
              \/ r.st = "pending"
              \/ Uses(p) /\ r.key = req[p].key /\ r.key \in blobs
              \/ \E t \in rows : t.key = r.key /\ t.st # "pending",
           "gc" \in Ops => \A r \in R : r.st # "orphaned",
           NEW s, req'[p] = s, s.op \in {"upload", "overwrite"}, s.pc = "put", s.node = n, s.key = k,
           s.op = "overwrite" /\ n \notin exposed' =>
              \E r \in ActiveRows(R, n) : s.prev = r.key /\ (ack[n] # None => content[r.key] = ack[n]),
           \A m \in Node \ {n} : sync'[m] = sync[m] /\ (m \in exposed => m \in exposed'),
           sync'[n] = "pending_upload"
    PROVE  Held'
<1>1. /\ \A q \in rows' : /\ q.key = k => q.node = n /\ q.st = "pending"
                          /\ q.key # k => \E r \in R :
                                /\ q.node = r.node /\ q.key = r.key
                                /\ \/ q = r
                                   \/ r.node = n /\ r.st \in {"active", "history"}
      /\ \A r \in R : \E q \in rows' : q.node = r.node /\ q.key = r.key
      /\ ActiveRows(rows', n) = {}
  BY PrepareRows, CapAssumption
<1>2. PICK U : U = Upsert(R, n, k, "pending")
  OBVIOUS
<1>3. /\ WellFormed(U) /\ Tidy(U)
      /\ \A m : m # n => RowsOf(U, m) = RowsOf(R, m)
      /\ \A q \in U : q.key = k => q.st = "pending"
      /\ \A q \in U : q.key # k => \E r \in R :
            IF r.node = n /\ r.st = "active" THEN q.st = "history" ELSE q = r
  BY <1>2, UpsertTidy, UpsertWellFormed DEF Status
<1>4. \A m : m # n => RowsOf(rows', m) = RowsOf(rows, m)
  BY <1>2, <1>3, EvictTidy, CapAssumption
<1>5. "gc" \in Ops => \A q \in rows' : q.st # "orphaned"
  <2> SUFFICES ASSUME "gc" \in Ops, NEW q \in rows' PROVE q.st # "orphaned"
    OBVIOUS
  <2>1. rows' = U
    BY <1>2 DEF Sharing, Evict
  <2> QED BY <1>3, <2>1
<1>6. ASSUME NEW q \in RowsOf(rows', n)
      PROVE  \/ q.st = "pending"
             \/ Uses(p) /\ q.key = req[p].key /\ q.key \in blobs
             \/ \E t \in rows : t.key = q.key /\ t.st # "pending"
  <2>1. q \in rows' /\ q.node = n
    BY DEF RowsOf
  <2>2. CASE q.key = k
    BY <1>1, <2>1, <2>2
  <2>3. CASE q.key # k
    <3>1. PICK r \in R : q.node = r.node /\ q.key = r.key /\ (q = r \/ r.st \in {"active", "history"})
      BY <1>1, <2>1, <2>3
    <3> QED BY <2>1, <3>1 DEF RowsOf
  <2> QED BY <2>2, <2>3
<1>7. Request(p)'
  <2>1. Plain(p)' /\ Arrived(p)' /\ Duplicates(p)' /\ Discards(p)'
    BY DEF Plain, Arrived, Duplicates, Discards, Splitting
  <2>2. Returns(p)'
    <3> SUFFICES ASSUME s.op = "overwrite", n \notin exposed' PROVE Returns(p)'
      BY DEF Returns
    <3>1. PICK r \in ActiveRows(R, n) : s.prev = r.key /\ (ack[n] # None => content[r.key] = ack[n])
      OBVIOUS
    <3>2. PICK q \in rows' : q.node = n /\ q.key = r.key
      BY <1>1 DEF ActiveRows, Having, RowsOf
    <3> QED BY <3>1, <3>2 DEF Returns
  <2> QED BY <2>1, <2>2 DEF Request
<1>8. Lone /\ (Uses(p)' => req'[p].key \notin minted)
  BY DEF Sharing
<1>9. \A q \in RowsOf(rows', n) : q \in rows'
  BY DEF RowsOf
<1> QED BY <1>1, <1>4, <1>5, <1>6, <1>7, <1>8, <1>9, AloneHeld

\* TX1 of an upload, whose file has no row.
LEMMA UploadStartHeld ==
    ASSUME Shared, Single', Held, Sharing, NEW p \in Req, NEW n \in Node, NEW k \in Key,
           UploadStart(p, n, k)
    PROVE  Held'
<1>1. PICK s : s.op = "upload" /\ s.pc = "put" /\ s.node = n /\ s.key = k /\ Becomes(p, s)
  BY DEF UploadStart, Idle
<1>2. req'[p] = s
  BY <1>1 DEF Becomes, Shared, Single, IInv, TypeOK
<1>3. /\ WellFormed(rows) /\ Tidy(rows) /\ (\A r \in rows : r.key # k) /\ k \notin minted
      /\ minted \subseteq minted' /\ gc' = gc
      /\ rows' = Evict(Upsert(rows, n, k, "pending"), n, Cap)
      /\ UNCHANGED <<blobs, content, ack, exposed>>
  BY DEF Shared, Single, IInv, KeysMinted, UploadStart, Fresh, ghosts
<1>4. RowsOf(rows, n) = {}
  BY DEF UploadStart, Unused, Shared, Single, IInv, NodesExist, RowsOf
<1>5. sync'[n] = "pending_upload" /\ \A m \in Node \ {n} : sync'[m] = sync[m]
  BY DEF UploadStart, Shared, Single, IInv, TypeOK
<1> QED BY <1>1, <1>2, <1>3, <1>4, <1>5, PrepareHeld DEF Held, Unevicted

\* What Prepare makes of the request and of the file.
LEMMA PreparedRequest ==
    ASSUME Single, NEW p \in Req, NEW n \in Node, NEW k \in Key, NEW R, NEW M, Prepare(p, n, k, R, M),
           sync[n] # "absent"
    PROVE  /\ \E s : /\ req'[p] = s /\ s.op = "overwrite" /\ s.pc = "put" /\ s.node = n /\ s.key = k
                     /\ ActiveRows(R, n) # {} => \E r \in ActiveRows(R, n) : s.prev = r.key
           /\ sync'[n] = "pending_upload" /\ \A m \in Node \ {n} : sync'[m] = sync[m]
<1>1. PICK prev \in (IF ActiveRows(R, n) = {} THEN {None} ELSE {r.key : r \in ActiveRows(R, n)}) :
         Becomes(p, [Idle EXCEPT !.op = "overwrite", !.pc = "put", !.node = n, !.key = k,
                                 !.prev = prev])
  BY DEF Prepare
<1>2. PICK s : /\ s.op = "overwrite" /\ s.pc = "put" /\ s.node = n /\ s.key = k /\ s.prev = prev
               /\ Becomes(p, s)
  BY <1>1 DEF Idle
<1>3. req'[p] = s
  BY <1>2 DEF Becomes, Single, IInv, TypeOK
<1>4. ActiveRows(R, n) # {} => \E r \in ActiveRows(R, n) : s.prev = r.key
  BY <1>1, <1>2
<1>5. sync'[n] = "pending_upload" /\ \A m \in Node \ {n} : sync'[m] = sync[m]
  BY DEF Prepare, SetSync, Single, IInv, TypeOK
<1> QED BY <1>2, <1>3, <1>4, <1>5

\* TX1 of an overwrite of a file whose blob is its own.
LEMMA OverwriteStartHeld ==
    ASSUME Shared, Single', Held, Sharing, NEW p \in Req, NEW n \in Node, NEW k \in Key,
           OverwriteStart(p, n, k)
    PROVE  Held'
<1>1. Prepare(p, n, k, rows, minted) /\ Risks(n) /\ sync[n] # "absent"
  BY DEF OverwriteStart, Live
<1>2. PICK s : /\ req'[p] = s /\ s.op = "overwrite" /\ s.pc = "put" /\ s.node = n /\ s.key = k
               /\ ActiveRows(rows, n) # {} => \E r \in ActiveRows(rows, n) : s.prev = r.key
  BY <1>1, PreparedRequest DEF Shared
<1>3. /\ WellFormed(rows) /\ Tidy(rows) /\ (\A r \in rows : r.key # k) /\ k \notin minted
      /\ minted \subseteq minted' /\ gc' = gc
      /\ rows' = Evict(Upsert(rows, n, k, "pending"), n, Cap)
      /\ UNCHANGED <<blobs, content, ack>>
  BY <1>1 DEF Shared, Single, IInv, KeysMinted, OverwriteStart, Fresh, Prepare
<1>4. sync'[n] = "pending_upload" /\ \A m \in Node \ {n} : sync'[m] = sync[m]
  BY <1>1, PreparedRequest DEF Shared
<1>5. exposed \subseteq exposed' /\ (n \notin exposed' => ActiveRows(rows, n) # {} /\ n \notin exposed)
  BY <1>1 DEF Risks
<1>6. n \notin exposed' =>
         \E r \in ActiveRows(rows, n) : s.prev = r.key /\ (ack[n] # None => content[r.key] = ack[n])
  BY <1>2, <1>5 DEF Held, Truthful, ActiveRows, Having, RowsOf
<1>7. \A r \in RowsOf(rows, n) : r \in rows
  BY DEF RowsOf
<1> QED BY <1>2, <1>3, <1>4, <1>5, <1>6, <1>7, PrepareHeld DEF Held, Unevicted

\* TX1 after a split: the private row holds the same bytes as the one that was shared.
LEMMA SplitDoneHeld ==
    ASSUME Shared, Single', Held, Sharing, NEW p \in Req, NEW k \in Key, OverwriteSplitDone(p, k)
    PROVE  Held'
<1>a. PICK n \in Node, h \in Key : n = req[p].node /\ h = req[p].key
  BY DEF OverwriteSplitDone, Shared, Single, IInv, RequestsNamed
<1>b. PICK R : R = Upsert(rows, n, h, "active")
  OBVIOUS
<1>1. Prepare(p, n, k, R, minted) /\ Risks(n) /\ sync[n] # "absent"
  BY <1>a, <1>b DEF OverwriteSplitDone
<1>2. PICK s : /\ req'[p] = s /\ s.op = "overwrite" /\ s.pc = "put" /\ s.node = n /\ s.key = k
               /\ ActiveRows(R, n) # {} => \E r \in ActiveRows(R, n) : s.prev = r.key
  BY <1>1, PreparedRequest DEF Shared
<1>3. /\ WellFormed(rows) /\ Tidy(rows) /\ \A r \in rows : r.key # h /\ r.key \in minted
      /\ h \in minted /\ k \notin minted /\ Splitting(p) /\ gc' = gc
      /\ UNCHANGED <<blobs, content, ack>>
  BY <1>a, NoneAssumption DEF Shared, Single, IInv, KeysMinted, Splits, Splitting, OverwriteSplitDone, Fresh
<1>4. /\ Tidy(R) /\ WellFormed(R)
      /\ \A m : m # n => RowsOf(R, m) = RowsOf(rows, m)
      /\ \A q \in R : q.key # h => \E r \in rows :
            /\ q.key = r.key /\ IF r.node = n /\ r.st = "active" THEN q.st = "history" ELSE q = r
      /\ \A q \in R : q.key = h => q.node = n /\ q.st = "active"
      /\ \E q \in R : q.key = h /\ q.node = n /\ q.st = "active"
  BY <1>3, <1>b, UpsertTidy, UpsertWellFormed DEF Status
<1>5. \A r \in R : r.key # k
  BY <1>3, <1>4
<1>6. h \in blobs /\ \E r \in ActiveRows(rows, n) : content[h] = content[r.key]
  BY <1>a DEF OverwriteSplitDone, Held, Request, Arrived, Duplicates, Splitting
<1>7. exposed \subseteq exposed'
  BY <1>1 DEF Risks
<1>8. \A r \in ActiveRows(R, n) : r.key = h
  BY <1>4 DEF ActiveRows, Having, RowsOf
<1>9. ActiveRows(R, n) # {}
  BY <1>4 DEF ActiveRows, Having, RowsOf
<1>10. n \notin exposed' /\ ack[n] # None => content[h] = ack[n]
  BY <1>6, <1>7 DEF Held, Truthful, ActiveRows, Having, RowsOf
<1>11. n \notin exposed' =>
         \E r \in ActiveRows(R, n) : s.prev = r.key /\ (ack[n] # None => content[r.key] = ack[n])
  BY <1>2, <1>8, <1>9, <1>10
<1>12. ASSUME NEW r \in RowsOf(R, n)
       PROVE  \/ r.st = "pending"
              \/ Uses(p) /\ r.key = req[p].key /\ r.key \in blobs
              \/ \E t \in rows : t.key = r.key /\ t.st # "pending"
  <2>1. r \in R
    BY DEF RowsOf
  <2>2. CASE r.key = h
    BY <1>a, <1>3, <1>6, <2>2 DEF Uses
  <2>3. CASE r.key # h
    <3>1. PICK t \in rows : r.key = t.key /\ (r = t \/ t.st = "active")
      BY <1>4, <2>1, <2>3
    <3> QED BY <3>1
  <2> QED BY <2>2, <2>3
<1>13. "gc" \in Ops => \A r \in R : r.st # "orphaned"
  BY <1>4 DEF Held, Unevicted
<1>14. minted \subseteq minted' /\ rows' = Evict(Upsert(R, n, k, "pending"), n, Cap)
  BY <1>1 DEF Prepare
<1>15. sync'[n] = "pending_upload" /\ \A m \in Node \ {n} : sync'[m] = sync[m]
  BY <1>1, PreparedRequest DEF Shared
<1> QED BY <1>2, <1>3, <1>4, <1>5, <1>7, <1>11, <1>12, <1>13, <1>14, <1>15, PrepareHeld

\* A split or a duplication starts, with a key that is nowhere.
LEMMA SplitStartHeld ==
    ASSUME Shared, Held, Lone, NEW p \in Req, NEW n \in Node, NEW k \in Key,
           OverwriteSplit(p, n, k) \/ \E m \in Node : CopyDup(p, n, m, k)
    PROVE  Held'
<1>1. PICK s : /\ s.pc = "dup" /\ s.key = k /\ Becomes(p, s)
               /\ s.op = "overwrite" => \E r \in ActiveRows(rows, s.node) : r.key = s.prev
  <2>1. CASE OverwriteSplit(p, n, k)
    <3>1. PICK r \in ActiveRows(rows, n) :
             Becomes(p, [Idle EXCEPT !.op = "overwrite", !.pc = "dup", !.node = n, !.key = k,
                                     !.prev = r.key])
      BY <2>1 DEF OverwriteSplit
    <3>2. PICK s : s.pc = "dup" /\ s.key = k /\ s.node = n /\ s.prev = r.key /\ Becomes(p, s)
      BY <3>1 DEF Idle
    <3> QED BY <3>2
  <2>2. ASSUME NEW m \in Node, CopyDup(p, n, m, k)
        PROVE  \E s : s.pc = "dup" /\ s.key = k /\ Becomes(p, s) /\ s.op = "copy"
    <3>1. PICK r \in ActiveRows(rows, n) :
             Becomes(p, [Idle EXCEPT !.op = "copy", !.pc = "dup", !.node = m, !.key = k,
                                     !.prev = r.key])
      BY <2>2 DEF CopyDup
    <3>2. PICK s : s.pc = "dup" /\ s.key = k /\ s.op = "copy" /\ Becomes(p, s)
      BY <3>1 DEF Idle
    <3> QED BY <3>2
  <2> QED BY <2>1, <2>2
<1>2. /\ req'[p] = s /\ UNCHANGED <<sync, rows, blobs, gc, content, ack, exposed>>
      /\ minted \subseteq minted' /\ k \notin minted
  BY <1>1 DEF Becomes, Shared, Single, IInv, TypeOK, OverwriteSplit, CopyDup, Fresh, ghosts
<1>3. Request(p)'
  BY <1>1, <1>2 DEF Request, Plain, Arrived, Duplicates, Returns, Discards, Filling, Splitting
<1>4. \A q \in Req : q = p
  BY DEF Lone
<1>5. \A j \in gc'.todo : Spare(j)'
  BY <1>1, <1>2, <1>4, SpareStays, SameKeys
<1> QED BY <1>2, <1>3, <1>4, <1>5, CalmHeld DEF Held, Backed

\* TX2: the row that is activated holds what the caller is told.
LEMMA FinishHeld ==
    ASSUME Shared, Single', Held, Lone, NEW p \in Req, Finish(p)
    PROVE  Held'
<1>a. PICK n \in Node, k \in Key : n = req[p].node /\ k = req[p].key
  BY DEF Finish, Shared, Single, IInv, RequestsNamed
<1>1. /\ Filling(p) /\ req[p].pc = "landed" /\ rows' = Activate(rows, k) /\ Ends(p) /\ Known(rows, k)
      /\ Tell(n, k) /\ sync' = SetSync(n, "active")
      /\ UNCHANGED <<blobs, minted, gc, content, exposed>>
  BY <1>a DEF Finish, Filling
<1>2. /\ Bare(n) /\ k \in blobs
      /\ \A r \in rows : r.key = k => r.node = n /\ r.st = "pending"
  BY <1>a, <1>1 DEF Shared, Single, Fills, Held, Request, Arrived
<1>3. \A m : m # n => RowsOf(rows', m) = RowsOf(rows, m)
  BY <1>1, <1>2, ActivateTidy DEF Bare, Shared, Single, IInv
<1>4. rows \subseteq Row
  BY DEF Shared, Single, IInv, WellFormed
<1>5. /\ \A r \in rows : r.key = k => \E q \in rows' : q.node = r.node /\ q.st = "active"
      /\ \A q \in rows' : \/ q \in rows /\ q.key # k
                          \/ q.key = k /\ q.st = "active"
  BY <1>1, <1>2, <1>4, ActivateRows
<1>6. PICK r \in rows : r.key = k /\ r.node = n
  BY <1>1, <1>2 DEF Known
<1>7. sync[n] # "absent"
  BY <1>6 DEF Shared, Single, IInv, NodesExist
<1>8. /\ sync'[n] = "active" /\ ack'[n] = content[k]
      /\ \A m \in Node \ {n} : sync'[m] = sync[m] /\ ack'[m] = ack[m]
  BY <1>1, <1>7 DEF Tell, SetSync, Shared, Single, IInv, TypeOK
<1>9. ~Bare(n)'
  BY <1>5, <1>6 DEF Bare, ActiveRows, Having, RowsOf
<1>10. \A q \in ActiveRows(rows', n) : content[q.key] = ack'[n]
  <2> SUFFICES ASSUME NEW q \in ActiveRows(rows', n) PROVE q.key = k
    BY <1>8
  <2>1. q \in rows' /\ q.node = n /\ q.st = "active"
    BY DEF ActiveRows, Having, RowsOf
  <2> QED BY <1>2, <1>5, <2>1 DEF Bare, ActiveRows, Having, RowsOf
<1>11. ASSUME NEW q \in RowsOf(rows', n)
       PROVE  \/ q.st = "pending"
              \/ Uses(p) /\ q.key = req[p].key /\ q.key \in blobs
              \/ \E t \in rows : t.key = q.key /\ t.st # "pending"
  BY <1>a, <1>1, <1>2, <1>5 DEF RowsOf, Uses
<1>12. "gc" \in Ops => \A q \in RowsOf(rows', n) : q.st # "orphaned"
  BY <1>5 DEF RowsOf, Held, Unevicted
<1>13. req'[p].pc = "idle"
  BY <1>1 DEF Ends, Idle, Shared, Single, IInv, TypeOK
<1>14. Request(p)' /\ ~Uses(p)'
  BY <1>13, AtRestHeld
<1> QED BY <1>1, <1>3, <1>8, <1>9, <1>10, <1>11, <1>12, <1>14, AloneHeld

\* A failed upload takes its file along.
LEMMA UploadFailsHeld ==
    ASSUME Shared, Single', Held, Lone, NEW p \in Req, UploadFails(p)
    PROVE  Held'
<1>a. PICK n \in Node : n = req[p].node
  BY DEF UploadFails, Shared, Single, IInv, RequestsNamed
<1>1. HardDelete(n) /\ Ends(p) /\ UNCHANGED <<blobs, minted, gc, content>>
  BY <1>a DEF UploadFails, HardDelete
<1>2. RowsOf(rows', n) = {} /\ \A m : m # n => RowsOf(rows', m) = RowsOf(rows, m)
  BY <1>1 DEF HardDelete, CascadeDelete, RowsOf
<1>3. /\ sync'[n] = "absent" /\ ack'[n] = None
      /\ \A m \in Node \ {n} : sync'[m] = sync[m] /\ ack'[m] = ack[m] /\ (m \in exposed => m \in exposed')
  BY <1>1 DEF HardDelete, Shared, Single, IInv, TypeOK
<1>4. req'[p].pc = "idle"
  BY <1>1 DEF Ends, Idle, Shared, Single, IInv, TypeOK
<1>5. Request(p)' /\ ~Uses(p)'
  BY <1>4, AtRestHeld
<1> QED BY <1>1, <1>2, <1>3, <1>5, AloneHeld

\* rollbackOverwrite brings back the row that was active, with what was acknowledged.
LEMMA OverwriteFailsHeld ==
    ASSUME Shared, Single', Held, Lone, NEW p \in Req, OverwriteFails(p)
    PROVE  Held'
<1>a. PICK n \in Node, k \in Key : n = req[p].node /\ k = req[p].key
  BY DEF OverwriteFails, Shared, Single, IInv, RequestsNamed
<1>b. PICK R, prev : prev = req[p].prev /\ R = Reactivate(rows, n, prev)
  OBVIOUS
<1>1. /\ Filling(p) /\ Goes(p, "undo") /\ minted' = minted /\ gc' = gc /\ req[p].op = "overwrite"
      /\ rows' \subseteq R /\ (\A r \in R \ rows' : r.key = k)
      /\ sync' = SetSync(n, "active") /\ UNCHANGED <<blobs, content, ack, exposed>>
  BY <1>a, <1>b DEF OverwriteFails, Filling, ghosts
<1>2. Bare(n) /\ \A r \in rows : r.key = k => r.node = n /\ r.st = "pending"
  BY <1>a, <1>1 DEF Shared, Single, Fills
<1>3. \A m : m # n => RowsOf(R, m) = RowsOf(rows, m)
  BY <1>2, <1>b, ReactivateTidy DEF Bare, Shared, Single, IInv
<1>4. rows \subseteq Row
  BY DEF Shared, Single, IInv, WellFormed
<1>5. /\ \A r \in rows : Restorable(r, n, prev) =>
            \E q \in R : q.node = n /\ q.key = prev /\ q.st = "active"
      /\ \A q \in R : \/ q \in rows
                      \/ /\ q.node = n /\ q.key = prev /\ q.st = "active"
                         /\ \E r \in rows : Restorable(r, n, prev)
  BY <1>4, <1>b, ReactivateRows
<1>6. \A r \in rows : Restorable(r, n, prev) => prev # k
  BY <1>2 DEF Restorable
<1>7. \A q \in R : q.key = k => q \in rows
  BY <1>5, <1>6
<1>8. \A m : m # n => RowsOf(rows', m) = RowsOf(rows, m)
  BY <1>1, <1>2, <1>3, <1>7 DEF RowsOf
<1>9. \A m \in Node \ {n} : sync'[m] = sync[m]
  BY <1>1 DEF SetSync, Shared, Single, IInv, TypeOK
<1>10. \A q \in ActiveRows(rows', n) : q.key = prev /\ \E r \in rows : Restorable(r, n, prev)
  BY <1>1, <1>2, <1>5 DEF Bare, ActiveRows, Having, RowsOf
<1>11. n \notin exposed =>
          \E r \in rows : Restorable(r, n, prev) /\ (ack[n] # None => content[prev] = ack[n])
  <2> SUFFICES ASSUME n \notin exposed
               PROVE  \E r \in rows : Restorable(r, n, prev) /\ (ack[n] # None => content[prev] = ack[n])
    OBVIOUS
  <2>1. PICK r \in rows : r.node = n /\ r.key = prev /\ (ack[r.node] # None => content[r.key] = ack[r.node])
    BY <1>a, <1>b, <1>1 DEF Held, Request, Returns
  <2>2. r.st \in {"history", "orphaned"}
    BY <1>a, <1>b, <1>1, <2>1 DEF Shared, Undoable, RowId
  <2> QED BY <2>1, <2>2 DEF Restorable
<1>12. n \notin exposed => ~Bare(n)'
  <2> SUFFICES ASSUME n \notin exposed PROVE ~Bare(n)'
    OBVIOUS
  <2>1. PICK q \in R : q.node = n /\ q.key = prev /\ q.st = "active" /\ prev # k
    BY <1>5, <1>6, <1>11
  <2>2. q \in rows'
    BY <1>1, <2>1
  <2> QED BY <2>1, <2>2 DEF Bare, ActiveRows, Having, RowsOf
<1>13. ASSUME NEW q \in RowsOf(rows', n)
       PROVE  q.st = "pending" \/ \E t \in rows : t.key = q.key /\ t.st # "pending"
  <2>1. q \in R
    BY <1>1 DEF RowsOf
  <2> QED BY <1>5, <2>1 DEF Restorable
<1>14. "gc" \in Ops => \A q \in RowsOf(rows', n) : q.st # "orphaned"
  <2>1. \A q \in RowsOf(rows', n) : q \in R
    BY <1>1 DEF RowsOf
  <2> QED BY <1>5, <2>1 DEF Held, Unevicted
<1>15. req'[p].pc = "undo" /\ req'[p].key = k
  BY <1>a, <1>1 DEF Goes, Shared, Single, IInv, TypeOK, ReqState
<1>16. Request(p)' /\ ~Uses(p)'
  <2>1. Discards(p)'
    BY <1>1, <1>2, <1>7, <1>15 DEF Discards
  <2> QED BY <1>15, <2>1 DEF Request, Plain, Arrived, Duplicates, Returns, Uses, Filling, Splitting
<1>17. sync'[n] = "absent" => ack'[n] = None
  BY <1>1 DEF SetSync, Shared, Single, IInv, TypeOK, Held, Unacknowledged
<1> QED BY <1>1, <1>8, <1>9, <1>10, <1>11, <1>12, <1>13, <1>14, <1>16, <1>17, AloneHeld

\* A file that is new, its row linked or not.
LEMMA LinkHeld ==
    ASSUME Shared, Single', Held, Lone, NEW p \in Req, NEW m \in Node, NEW k, sync[m] = "absent",
           rows' = InsertFirst(rows, m, k) \/ rows' = rows,
           UNCHANGED <<blobs, minted, gc, content, exposed>>,
           \/ Uses(p) /\ k = req[p].key /\ k \in blobs
           \/ \E r \in rows : r.key = k /\ r.st # "pending",
           \A o \in Node \ {m} : sync'[o] = sync[o] /\ ack'[o] = ack[o],
           \/ sync'[m] = "active" /\ ack'[m] = content[k] /\ rows' = InsertFirst(rows, m, k)
           \/ sync'[m] = "pending_upload" /\ ack'[m] = None,
           req'[p].pc = "idle"
    PROVE  Held'
<1>1. RowsOf(rows, m) = {}
  BY DEF Shared, Single, IInv, NodesExist, RowsOf
<1>2. /\ \A o : o # m => RowsOf(rows', o) = RowsOf(rows, o)
      /\ \A q \in RowsOf(rows', m) : q.key = k /\ q.st = "active"
      /\ rows' = InsertFirst(rows, m, k) => ~Bare(m)'
  <2>1. PICK x : /\ x.node = m /\ x.key = k /\ x.st = "active"
                 /\ rows' = rows \/ rows' = rows \cup {x}
                 /\ rows' = InsertFirst(rows, m, k) => x \in rows'
    <3>1. PICK x : x = [node |-> m, key |-> k, ver |-> 1, st |-> "active"]
      OBVIOUS
    <3>2. x.node = m /\ x.key = k /\ x.st = "active" /\ InsertFirst(rows, m, k) = rows \cup {x}
      BY <3>1 DEF InsertFirst
    <3> QED BY <3>2
  <2>2. \A o : o # m => RowsOf(rows', o) = RowsOf(rows, o)
    BY <2>1 DEF RowsOf
  <2>3. \A q \in RowsOf(rows', m) : q = x
    BY <1>1, <2>1 DEF RowsOf
  <2>4. rows' = InsertFirst(rows, m, k) => ~Bare(m)'
    BY <2>1 DEF Bare, ActiveRows, Having, RowsOf
  <2> QED BY <2>1, <2>2, <2>3, <2>4
<1>3. Request(p)' /\ ~Uses(p)'
  BY AtRestHeld
<1>4. \A q \in ActiveRows(rows', m) : q.key = k
  BY <1>2 DEF ActiveRows, Having
<1> QED BY <1>2, <1>3, <1>4, AloneHeld

\* A copy is told what its source is active with, a torn one nothing.
LEMMA CopyHeld ==
    ASSUME Shared, Single', Held, Lone, NEW p \in Req,
           \/ \E n, m \in Node : CopyLink(p, n, m)
           \/ CopyDupDone(p) \/ CopyDupUnlinked(p)
    PROVE  Held'
<1>1. ASSUME NEW n \in Node, NEW m \in Node, CopyLink(p, n, m) PROVE Held'
  <2>1. PICK r \in ActiveRows(rows, n) : Link(m, r.key)
    BY <1>1 DEF CopyLink
  <2>2. r \in rows /\ r.st # "pending"
    BY DEF ActiveRows, Having, RowsOf
  <2>3. sync[m] = "absent" /\ req'[p].pc = "idle" /\ UNCHANGED <<blobs, minted, gc, content, exposed>>
    BY <1>1 DEF CopyLink, Unused, ReadyFor
  <2>4. /\ rows' = InsertFirst(rows, m, r.key) /\ sync'[m] = "active" /\ ack'[m] = content[r.key]
        /\ \A o \in Node \ {m} : sync'[o] = sync[o] /\ ack'[o] = ack[o]
    BY <2>1 DEF Link, Shared, Single, IInv, TypeOK
  <2> QED BY <2>2, <2>3, <2>4, LinkHeld
<1>2. CASE CopyDupDone(p) \/ CopyDupUnlinked(p)
  <2>a. PICK m \in Node, k \in Key : m = req[p].node /\ k = req[p].key
    BY <1>2 DEF CopyDupDone, CopyDupUnlinked, Shared, Single, IInv, RequestsNamed
  <2>1. /\ req[p].pc = "duped" /\ req[p].op = "copy" /\ Ends(p)
        /\ UNCHANGED <<blobs, minted, gc, content, exposed>>
        /\ Link(m, k) \/ (HalfLink(m, k) /\ ack' = ack)
    BY <1>2, <2>a DEF CopyDupDone, CopyDupUnlinked, ghosts
  <2>2. Uses(p) /\ k \in blobs /\ sync[m] = "absent"
    BY <2>a, <2>1 DEF Uses, Splitting, Held, Request, Arrived, Shared, Single, IInv, CopiesReserved
  <2>3. ack[m] = None
    BY <2>2 DEF Held, Unacknowledged
  <2>4. rows' = InsertFirst(rows, m, k) \/ rows' = rows
    BY <2>1 DEF Link, HalfLink
  <2>5. \A o \in Node \ {m} : sync'[o] = sync[o] /\ ack'[o] = ack[o]
    BY <2>1 DEF Link, HalfLink, Shared, Single, IInv, TypeOK
  <2>6. \/ sync'[m] = "active" /\ ack'[m] = content[k] /\ rows' = InsertFirst(rows, m, k)
        \/ sync'[m] = "pending_upload" /\ ack'[m] = None
    BY <2>1, <2>3 DEF Link, HalfLink, Shared, Single, IInv, TypeOK
  <2>7. req'[p].pc = "idle"
    BY <2>1 DEF Ends, Idle, Shared, Single, IInv, TypeOK
  <2> QED BY <2>a, <2>1, <2>2, <2>4, <2>5, <2>6, <2>7, LinkHeld
<1> QED BY <1>1, <1>2

\* A split torn before the overwrite: the private row is inserted, with the same bytes, or
\* the file is exposed.
LEMMA SplitTornHeld ==
    ASSUME Shared, Single', Held, Lone, NEW p \in Req, SplitTorn(p)
    PROVE  Held'
<1>a. PICK n \in Node, h \in Key : n = req[p].node /\ h = req[p].key
  BY DEF SplitTorn, Shared, Single, IInv, RequestsNamed
<1>b. PICK U : U = Upsert(rows, n, h, "active")
  OBVIOUS
<1>1. /\ Splitting(p) /\ Ends(p) /\ UNCHANGED <<sync, blobs, minted, gc, content, ack>>
      /\ exposed \subseteq exposed'
      /\ \/ rows' = DemoteActive(rows, n) /\ n \in exposed'
         \/ rows' = U
  BY <1>a, <1>b DEF SplitTorn, Splitting, Risks
<1>2. WellFormed(rows) /\ Tidy(rows) /\ \A r \in rows : r.key # h
  BY <1>a, <1>1 DEF Shared, Single, IInv, Splits
<1>3. /\ \A m : m # n => RowsOf(U, m) = RowsOf(rows, m)
      /\ \A q \in U : q.key # h => \E r \in rows :
            /\ q.key = r.key /\ IF r.node = n /\ r.st = "active" THEN q.st = "history" ELSE q = r
      /\ \A q \in U : q.key = h => q.node = n /\ q.st = "active"
      /\ \E q \in U : q.key = h /\ q.node = n /\ q.st = "active"
  BY <1>2, <1>b, UpsertTidy
<1>4. rows' \subseteq U /\ \A q \in U \ rows' : q.node = n
  BY <1>1, <1>b DEF Upsert
<1>5. \A m : m # n => RowsOf(rows', m) = RowsOf(rows, m)
  BY <1>3, <1>4 DEF RowsOf
<1>6. h \in blobs /\ \E r \in ActiveRows(rows, n) : content[h] = content[r.key]
  BY <1>a DEF SplitTorn, Held, Request, Arrived, Duplicates, Splitting
<1>7. n \notin exposed' /\ ack[n] # None => content[h] = ack[n]
  BY <1>1, <1>6 DEF Held, Truthful, ActiveRows, Having, RowsOf
<1>8. \A q \in ActiveRows(rows', n) : q.key = h
  BY <1>3, <1>4 DEF ActiveRows, Having, RowsOf
<1>9. n \notin exposed' => ~Bare(n)'
  BY <1>1, <1>3 DEF Bare, ActiveRows, Having, RowsOf
<1>10. ASSUME NEW q \in RowsOf(rows', n)
       PROVE  \/ q.st = "pending"
              \/ Uses(p) /\ q.key = req[p].key /\ q.key \in blobs
              \/ \E t \in rows : t.key = q.key /\ t.st # "pending"
  <2>1. q \in U
    BY <1>4 DEF RowsOf
  <2>2. CASE q.key = h
    BY <1>a, <1>1, <1>6, <2>2 DEF Uses
  <2>3. CASE q.key # h
    <3>1. PICK t \in rows : q.key = t.key /\ (q = t \/ t.st = "active")
      BY <1>3, <2>1, <2>3
    <3> QED BY <3>1
  <2> QED BY <2>2, <2>3
<1>11. "gc" \in Ops => \A q \in RowsOf(rows', n) : q.st # "orphaned"
  <2>1. \A q \in RowsOf(rows', n) : q \in U
    BY <1>4 DEF RowsOf
  <2> QED BY <1>3, <2>1 DEF Held, Unevicted
<1>12. req'[p].pc = "idle"
  BY <1>1 DEF Ends, Idle, Shared, Single, IInv, TypeOK
<1>13. Request(p)' /\ ~Uses(p)'
  BY <1>12, AtRestHeld
<1>14. sync'[n] = "absent" => ack'[n] = None
  BY <1>1 DEF Held, Unacknowledged
<1> QED BY <1>1, <1>5, <1>7, <1>8, <1>9, <1>10, <1>11, <1>13, <1>14, AloneHeld

\* A step that touches none of this.
LEMMA SameHeld ==
    ASSUME Held, UNCHANGED <<sync, rows, blobs, minted, req, gc, content, ack, exposed>>
    PROVE  Held'
<1>1. \A p \in Req : Request(p)'
  BY DEF Held, Request, Plain, Arrived, Duplicates, Returns, Discards, Filling, Splitting
<1>2. \A k \in gc'.todo : Spare(k)'
  BY DEF Held, Spare, Uses, Filling, Splitting
<1> QED BY <1>1, <1>2, CalmHeld DEF Held, Backed

\* The process is killed: what it had in hand is forgotten, what is stored is not.
LEMMA CrashHeld ==
    ASSUME Held, Crash
    PROVE  Held'
<1>1. \A p \in Req : req'[p].pc = "idle"
  BY DEF Crash, Idle
<1>2. gc'.todo = {} /\ UNCHANGED <<sync, rows, blobs, minted, content, ack, exposed>>
  BY DEF Crash, GcIdle, ghosts
<1> QED BY <1>1, <1>2, AtRestHeld, CalmHeld DEF Held, Backed

\* An upload torn between its commits leaves a file without a row.
LEMMA UnpreparedHeld ==
    ASSUME Shared, Held, NEW n \in Node, UploadUnprepared(n)
    PROVE  Held'
<1>1. /\ UNCHANGED <<rows, blobs, minted, req, gc, content, ack, exposed>>
      /\ sync'[n] = "pending_upload" /\ \A m \in Node \ {n} : sync'[m] = sync[m]
  BY DEF UploadUnprepared, ghosts, Shared, Single, IInv, TypeOK
<1>2. \A p \in Req : Request(p)'
  BY <1>1 DEF Held, Request, Plain, Arrived, Duplicates, Returns, Discards, Filling, Splitting
<1>3. \A k \in gc'.todo : Spare(k)'
  BY <1>1 DEF Held, Spare, Uses, Filling, Splitting
<1>4. Backed' /\ Truthful' /\ Unevicted'
  BY <1>1 DEF Held, Backed, Truthful, Unevicted
<1>5. Serving' /\ Unacknowledged'
  BY <1>1 DEF Held, Serving, Unacknowledged, Bare
<1> QED BY <1>2, <1>3, <1>4, <1>5 DEF Held

\* A copy torn between its commits, whatever the request is at: nobody has been told of
\* the new file, whose key is that of an active row.
LEMMA CopyUnlinkedHeld ==
    ASSUME Shared, Held, NEW n \in Node, NEW m \in Node, CopyUnlinked(n, m)
    PROVE  Held'
<1>1. PICK r \in ActiveRows(rows, n) : HalfLink(m, r.key)
  BY DEF CopyUnlinked
<1>2. r \in rows /\ r.st = "active"
  BY DEF ActiveRows, Having, RowsOf
<1>3. /\ sync[m] = "absent" /\ UNCHANGED <<blobs, minted, req, gc, content, ack, exposed>>
      /\ sync'[m] = "pending_upload" /\ \A o \in Node \ {m} : sync'[o] = sync[o]
  BY <1>1 DEF CopyUnlinked, HalfLink, Unused, ghosts, Shared, Single, IInv, TypeOK
<1>4. PICK x : /\ x.node = m /\ x.key = r.key /\ x.st = "active"
               /\ rows' = rows \/ rows' = rows \cup {x}
  <2>1. rows' = rows \/ rows' = InsertFirst(rows, m, r.key)
    BY <1>1 DEF HalfLink
  <2> QED BY <2>1 DEF InsertFirst
<1>5. ack[m] = None
  BY <1>3 DEF Held, Unacknowledged
<1>6. rows \subseteq rows' /\ \A q \in rows' : q \in rows \/ q = x
  BY <1>4
<1>7. ASSUME NEW p \in Req PROVE Request(p)'
  <2>1. Request(p)
    BY DEF Held
  <2>2. Plain(p)' /\ Arrived(p)'
    BY <1>3, <2>1 DEF Request, Plain, Arrived, Filling
  <2>3. Duplicates(p)'
    BY <1>3, <1>6, <2>1 DEF Request, Duplicates, Splitting, ActiveRows, Having, RowsOf
  <2>4. Returns(p)'
    BY <1>3, <1>6, <2>1 DEF Request, Returns, Filling
  <2>5. Discards(p)'
    BY <1>2, <1>3, <1>4, <1>6, <2>1 DEF Request, Discards
  <2> QED BY <2>2, <2>3, <2>4, <2>5 DEF Request
<1>8. KeysDescend
  BY <1>2, <1>4, <1>6 DEF KeysDescend
<1>9. \A k \in gc'.todo : Spare(k)'
  BY <1>3, <1>8, SpareStays DEF Uses, Filling, Splitting
<1>10. Backed' /\ Truthful' /\ Unevicted'
  BY <1>2, <1>3, <1>4, <1>5, <1>6 DEF Held, Backed, Truthful, Unevicted
<1>11. Serving'
  BY <1>3, <1>6 DEF Held, Serving, Bare, ActiveRows, Having, RowsOf
<1>12. Unacknowledged'
  BY <1>3 DEF Held, Unacknowledged
<1> QED BY <1>7, <1>9, <1>10, <1>11, <1>12 DEF Held

-----------------------------------------------------------------------------
(* The collector deletes nothing that somebody counts on                   *)

\* What it has in hand stays spare, step by step.
LEMMA CollectSpares ==
    ASSUME Shared, Held, Collect
    PROVE  \A k \in gc'.todo : Spare(k)'
<1>1. /\ rows' \subseteq rows /\ UNCHANGED <<minted, req>>
      /\ \A p : Uses(p)' <=> Uses(p)
  BY CollectShrinks DEF Uses, Filling, Splitting
<1>2. \A p \in Req : Uses(p) => req[p].key \in InFlight
  BY DEF Uses, Filling, Splitting, InFlight, Shared, Single, IInv, RequestsNamed
<1>3. CASE \E D \in SUBSET rows : GcBegin(D)
  <2>1. PICK D \in SUBSET rows : GcBegin(D)
    BY <1>3
  <2>2. "gc" \in Ops /\ D \subseteq Evicted(rows, sync) /\ gc'.todo = {r.key : r \in D}
    BY <2>1 DEF GcBegin
  <2>3. D = {}
    BY <2>2 DEF Held, Unevicted, Evicted
  <2> QED BY <2>2, <2>3
<1>4. CASE \E D \in SUBSET rows : GcRows(D)
  <2>1. PICK D \in SUBSET rows : GcRows(D)
    BY <1>4
  <2>2. /\ D \subseteq StalePending(rows, sync) /\ NotInFlight(D)
        /\ gc'.todo = {r.key : r \in D}
    BY <2>1 DEF GcRows
  <2> SUFFICES ASSUME NEW k \in gc'.todo PROVE Spare(k)'
    OBVIOUS
  <2>3. PICK r \in D : r.key = k
    BY <2>2
  <2>4. r \in rows /\ r.st = "pending" /\ k \notin InFlight
    BY <2>2, <2>3 DEF StalePending, NotInFlight
  <2>5. k \in minted /\ \A q \in rows : q.key = k => q = r
    BY <2>3, <2>4 DEF Shared, Single, KeysMinted, Tidy, PendingAlone
  <2> QED BY <1>1, <1>2, <2>4, <2>5 DEF Spare
<1>5. CASE \E C \in SUBSET blobs : GcList(C)
  <2>1. PICK C \in SUBSET blobs : GcList(C)
    BY <1>5
  <2>2. gc'.pc = "listed" /\ gc'.todo = C /\ C \subseteq blobs \ InFlight
    BY <2>1 DEF GcList, Shared, Single, IInv, TypeOK, GcState
  <2>3. \A k \in C : k \in minted
    BY <2>2 DEF Held, Backed
  <2> QED BY <1>1, <1>2, <2>2, <2>3 DEF Spare
<1>6. CASE GcReconcile
  <2>1. /\ gc'.todo = gc.todo \ KeptKeys(rows, sync) /\ rows' = rows
    BY <1>6 DEF GcReconcile, Shared, Single, IInv, TypeOK, GcState
  <2> SUFFICES ASSUME NEW k \in gc'.todo PROVE Spare(k)'
    OBVIOUS
  <2>2. Spare(k) /\ k \notin KeptKeys(rows, sync)
    BY <2>1 DEF Held
  <2>3. \A r \in rows : r.key = k => r.st = "pending"
    BY <2>2 DEF KeptKeys, Shared, Single, IInv, WellFormed, Row, Status
  <2> QED BY <1>1, <2>1, <2>2, <2>3 DEF Spare
<1>7. CASE GcBlob
  <2>1. gc'.pc = gc.pc /\ gc'.todo \subseteq gc.todo /\ rows' = rows
    BY <1>7 DEF GcBlob, Shared, Single, IInv, TypeOK, GcState
  <2> QED BY <1>1, <2>1, SpareStays, SameKeys
<1>8. CASE GcStaleRows \/ GcEnd
  <2>1. gc'.todo = {}
    BY <1>8 DEF GcStaleRows, GcEnd, GcIdle
  <2> QED BY <2>1
<1> QED BY <1>3, <1>4, <1>5, <1>6, <1>7, <1>8 DEF Collect

\* The blobs it deletes are spare, the rows those it has selected.
LEMMA CollectTakes ==
    ASSUME Shared, Held, Collect
    PROVE  /\ \/ blobs' = blobs
              \/ \E k : Spare(k) /\ gc.pc # "listed" /\ rows' = rows /\ blobs' = blobs \ {k}
           /\ \A r \in rows : RowId(r) \notin gc.ids => r \in rows'
           /\ content' = content
<1>1. CASE GcBlob
  <2>1. PICK k \in gc.todo : blobs' \in {blobs, blobs \ {k}}
    BY <1>1 DEF GcBlob
  <2>2. gc.pc # "listed" /\ rows' = rows /\ content' = content
    BY <1>1 DEF GcBlob, ghosts
  <2>3. Spare(k)
    BY DEF Held
  <2> QED BY <2>1, <2>2, <2>3
<1>2. CASE \/ \E D \in SUBSET rows : GcBegin(D) \/ GcRows(D)
           \/ \E C \in SUBSET blobs : GcList(C)
           \/ GcStaleRows \/ GcReconcile \/ GcEnd
  BY <1>2 DEF GcBegin, GcRows, GcList, GcStaleRows, GcReconcile, GcEnd, DeleteRows, ghosts
<1> QED BY <1>1, <1>2 DEF Collect

\* So every version keeps its blob, and every request what it has in hand.
LEMMA CollectHeld ==
    ASSUME Shared, Single', Held, Collect
    PROVE  Held'
<1>1. /\ rows' \subseteq rows /\ UNCHANGED <<sync, minted, req, ack, exposed, content>>
      /\ \A r \in rows : RowId(r) \notin gc.ids => r \in rows'
      /\ blobs' \subseteq blobs
  BY CollectShrinks, CollectTakes
<1>2. \A m : ActiveRows(rows', m) = ActiveRows(rows, m)
  BY CollectShares
<1>3. ASSUME NEW j \in blobs \ blobs'
      PROVE  /\ \A r \in rows' : r.key = j => r.st = "pending"
             /\ \A p \in Req : Uses(p) => req[p].key # j
  <2>1. PICK k : Spare(k) /\ gc.pc # "listed" /\ rows' = rows /\ blobs' = blobs \ {k}
    BY CollectTakes
  <2> QED BY <2>1 DEF Spare
<1>4. ASSUME NEW p \in Req PROVE Request(p)'
  <2>1. Request(p)
    BY DEF Held
  <2>2. Plain(p)' /\ Discards(p)'
    BY <1>1, <2>1 DEF Request, Plain, Discards, Filling
  <2>3. Arrived(p)'
    BY <1>1, <1>3, <2>1 DEF Request, Arrived, Uses, Filling, Splitting
  <2>4. Duplicates(p)'
    BY <1>1, <1>2, <2>1 DEF Request, Duplicates, Splitting
  <2>5. Returns(p)'
    <3> SUFFICES ASSUME Filling(p), req[p].op = "overwrite", req[p].node \notin exposed
                 PROVE  \E r \in rows' : /\ r.node = req[p].node /\ r.key = req[p].prev
                                         /\ ack[r.node] # None => content[r.key] = ack[r.node]
      BY <1>1 DEF Returns, Filling
    <3>1. PICK r \in rows : /\ r.node = req[p].node /\ r.key = req[p].prev
                            /\ ack[r.node] # None => content[r.key] = ack[r.node]
      BY <2>1 DEF Request, Returns
    <3>2. RowId(r) \notin gc.ids
      BY <3>1 DEF Shared, Undoable, RowId
    <3> QED BY <1>1, <3>1, <3>2
  <2> QED BY <2>2, <2>3, <2>4, <2>5 DEF Request
<1>5. Backed'
  BY <1>1, <1>3 DEF Held, Backed
<1>6. Truthful' /\ Unacknowledged' /\ Unevicted'
  BY <1>1 DEF Held, Truthful, Unacknowledged, Unevicted
<1>7. Serving'
  BY <1>1, <1>2 DEF Held, Serving, Bare
<1> QED BY <1>4, <1>5, <1>6, <1>7, CollectSpares DEF Held

-----------------------------------------------------------------------------
(* Every step keeps the fourth invariant                                   *)

\* A request begins: nobody restores a version, repairs or purges.
LEMMA BeginHeld ==
    ASSUME Shared, Single', Held, Sharing, NEW p \in Req, Begin(p)
    PROVE  Held'
<1>1. Lone /\ {"restoreVersion", "repair", "purge"} \cap Ops = {}
  BY DEF Sharing
<1>2. \A n \in Node : /\ ~RestoreVersionStart(p, n) /\ ~RepairRestore(p, n) /\ ~RepairDelete(p, n)
                      /\ \A action : ~RepairProbe(p, n, action)
                      /\ \A queue : ~PurgeStart(p, n, queue)
  BY <1>1 DEF RestoreVersionStart, RepairRestore, RepairDelete, RepairProbe, PurgeStart, ReadyFor
<1>3. CASE \E n \in Node, k \in Key : UploadStart(p, n, k) \/ OverwriteStart(p, n, k)
  BY <1>3, UploadStartHeld, OverwriteStartHeld
<1>4. CASE \E n \in Node, k \in Key : OverwriteSplit(p, n, k) \/ \E m \in Node : CopyDup(p, n, m, k)
  BY <1>1, <1>4, SplitStartHeld
<1>5. CASE \E n, m \in Node : CopyLink(p, n, m)
  BY <1>1, <1>5, CopyHeld
<1> QED BY <1>2, <1>3, <1>4, <1>5 DEF Begin

\* A request goes on.
LEMMA EffectHeld ==
    ASSUME Shared, Single', Held, Sharing, NEW p \in Req, Succeeds(p) \/ Fails(p)
    PROVE  Held'
<1>1. Lone
  BY DEF Sharing
<1>2. req[p].pc \notin {"head", "headed", "kill", "killed", "purge"}
  BY DEF Held, Request, Plain
<1>3. /\ ~HeadFinds(p) /\ ~RestoreVersionSwap(p) /\ ~RepairComplete(p) /\ ~RepairBlobMissing(p)
      /\ ~RepairKillBlob(p) /\ ~RepairKillNode(p) /\ ~PurgeBlob(p) /\ ~PurgeNode(p) /\ ~HeadRefused(p)
  BY <1>2 DEF HeadFinds, RestoreVersionSwap, RepairComplete, RepairBlobMissing, RepairKillBlob,
              RepairKillNode, PurgeBlob, PurgeNode, HeadRefused
<1>4. CASE Succeeds(p)
  <2>1. \/ BlobLands(p) \/ Finish(p) \/ DupLands(p) \/ CopyDupDone(p)
        \/ (\E k \in Key : OverwriteSplitDone(p, k)) \/ UndoBlob(p)
    BY <1>3, <1>4 DEF Succeeds
  <2> QED BY <1>1, <2>1, GoesHeld, FinishHeld, DupLandsHeld, CopyHeld, SplitDoneHeld, GivesUpHeld
<1>5. CASE Fails(p)
  <2>1. \/ UploadFails(p) \/ UploadCleanupFails(p) \/ DupFails(p)
        \/ OverwriteFails(p) \/ OverwriteRollbackFails(p)
    BY <1>3, <1>5 DEF Fails
  <2> QED BY <1>1, <2>1, UploadFailsHeld, GivesUpHeld, OverwriteFailsHeld, GoesHeld
<1> QED BY <1>4, <1>5

\* Every step of every actor.
LEMMA HeldStep ==
    ASSUME Shared, Single', Held, Sharing, [Next]_vars
    PROVE  Held'
<1>1. ASSUME NEW p \in Req, Begin(p) \/ Succeeds(p) \/ Fails(p) PROVE Held'
  BY <1>1, BeginHeld, EffectHeld
<1>2. ASSUME NEW n \in Node, Trash(n) \/ Untrash(n) \/ RepairDeleteAtOnce(n) PROVE Held'
  <2>1. UNCHANGED <<sync, rows, blobs, minted, req, gc, content, ack, exposed>>
    BY <1>2 DEF Trash, Untrash, RepairDeleteAtOnce, Sharing, ghosts
  <2> QED BY <2>1, SameHeld
<1>3. CASE Tears
  <2>1. ASSUME NEW n \in Node, UploadUnprepared(n) PROVE Held'
    BY <2>1, UnpreparedHeld
  <2>2. ASSUME NEW n \in Node, NEW m \in Node, CopyUnlinked(n, m) PROVE Held'
    BY <2>2, CopyUnlinkedHeld
  <2>3. ASSUME NEW p \in Req, CopyDupUnlinked(p) \/ SplitTorn(p) PROVE Held'
    BY <2>3, CopyHeld, SplitTornHeld DEF Sharing
  <2>4. ASSUME NEW p \in Req PROVE ~PurgeNodeFails(p)
    BY DEF PurgeNodeFails, Held, Request, Plain
  <2> QED BY <1>3, <2>1, <2>2, <2>3, <2>4 DEF Tears
<1>4. CASE Collect
  BY <1>4, CollectHeld
<1>5. CASE Crash
  BY <1>5, CrashHeld
<1>6. CASE UNCHANGED vars
  <2>1. UNCHANGED <<sync, rows, blobs, minted, req, gc, content, ack, exposed>>
    BY <1>6 DEF vars
  <2> QED BY <2>1, SameHeld
<1> QED BY <1>1, <1>2, <1>3, <1>4, <1>5, <1>6 DEF Next

\* Nothing is stored at first.
LEMMA HeldInit ==
    ASSUME Init
    PROVE  Held
<1>1. /\ rows = {} /\ blobs = {} /\ gc.todo = {}
      /\ sync = [n \in Node |-> "absent"] /\ ack = [n \in Node |-> None]
      /\ \A p \in Req : req[p].pc = "idle"
  BY DEF Init, Idle, GcIdle
<1>2. \A p \in Req : Request(p)
  BY <1>1 DEF Request, Plain, Arrived, Duplicates, Returns, Discards, Filling, Splitting
<1>3. Backed /\ Truthful /\ Serving /\ Unacknowledged /\ Unevicted
  BY <1>1 DEF Backed, Truthful, Serving, Unacknowledged, Unevicted
<1> QED BY <1>1, <1>2, <1>3 DEF Held

\* Files that share a blob download what was last acknowledged, for one request at a time
\* that neither restores versions, repairs nor purges, whatever fails or crashes and
\* whatever the trash does; with the collector too, as long as no version is evicted.  A
\* version that is evicted may share its blob with another file, and the collector deletes
\* the blob of an evicted row without a look at the others.
THEOREM CopiesReadable ==
    ASSUME Sharing
    PROVE  Spec => []AcknowledgedReadable
<1>1. ASSUME Shared, Held PROVE AcknowledgedReadable
  <2> SUFFICES ASSUME NEW n \in Owed, sync[n] = "active"
               PROVE  /\ Cardinality(ActiveRows(rows, n)) = 1
                      /\ \A r \in ActiveRows(rows, n) : Holds(n, r)
    BY DEF AcknowledgedReadable
  <2>1. n \in Node /\ ack[n] # None /\ n \notin exposed
    BY DEF Owed, Promised
  <2>2. PICK r : r \in ActiveRows(rows, n)
    BY <1>1, <2>1 DEF Held, Serving, Bare
  <2>3. \A q \in ActiveRows(rows, n) : q \in rows /\ q.node = n /\ q.st = "active"
    BY DEF ActiveRows, Having, RowsOf
  <2>4. ActiveRows(rows, n) = {r}
    BY <1>1, <2>2, <2>3 DEF Shared, Single, Tidy, OneActive
  <2>5. \A q \in ActiveRows(rows, n) : Holds(n, q)
    BY <1>1, <2>1, <2>3 DEF Held, Truthful, Backed, Holds
  <2> QED BY <2>4, <2>5, FS_Singleton
<1>2. Spec => [](Shared /\ Single)
  BY SharedAlways DEF Sharing, Forward
<1>3. Init => Held
  BY HeldInit
<1>4. Shared /\ Single' /\ Held /\ [Next]_vars => Held'
  BY HeldStep
<1> QED BY <1>1, <1>2, <1>3, <1>4, PTL DEF Spec
=============================================================================
