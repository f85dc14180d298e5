-------------------------- MODULE BlobReadableProofs --------------------------
(***************************************************************************)
(* A file downloads the bytes last acknowledged, and a stuck one still has *)
(* them: for any files, keys and cap, without copies; with any number of   *)
(* requests, or with one that may also repair stuck files or restore       *)
(* versions.                                                               *)
(***************************************************************************)
EXTENDS BlobLifecycleProofs

Lone == \A p, q \in Req : p = q

\* A copy lets two files share a blob.  Two requests may meet in any way if they only
\* upload, overwrite and purge; a repair needs the newest version to be the last good.
Setting ==
    /\ "copy" \notin Ops
    /\ "repair" \in Ops \/ "restoreVersion" \in Ops => Lone
    /\ ~({"repair", "restoreVersion"} \subseteq Ops)

-----------------------------------------------------------------------------
(* The inductive invariant *)

\* Without copies a key has one row, and a blob holds what its key was drawn for.
OneRowPerKey ==
    /\ content = [k \in Key |-> k]
    /\ \A r, s \in rows : r.key = s.key => r = s

\* Keys are drawn before they are used.
KeysMinted ==
    /\ \A r \in rows : r.key \in minted
    /\ \A p \in Req : req[p].key \in minted \cup {None} /\ req[p].todo \subseteq minted
    /\ gc.todo \subseteq minted /\ \A i \in gc.ids : i[2] \in minted
    /\ blobs \subseteq minted

\* The requests whose key is that of a pending row they made or found, if the row is
\* still there.
Pends(p) ==
    \/ req[p].pc \in {"put", "landed", "undo", "kill", "killed"}
    \/ req[p].pc \in {"head", "headed"} /\ req[p].op \in {"auto", "complete"}

Writing(p) == req[p].pc \in {"put", "landed"}

\* The requests to restore a version that have chosen it.
Restoring(p) == req[p].pc \in {"head", "headed"} /\ req[p].op = "restoreVersion"

\* The requests whose blob is there: they have put it, or HEAD has found it.
Found(p) ==
    \/ req[p].pc = "landed"
    \/ req[p].pc = "headed" /\ req[p].op \in {"auto", "complete"}

Writers(n) == {p \in Req : req[p].node = n /\ Writing(p)}

\* A file that exists and that the code has not itself put at risk.
Sound(n) == sync[n] # "absent" /\ n \notin exposed

Pendings(n) == Having(rows, n, {"pending"})
Histories(n) == Having(rows, n, {"history"})

RunsItsOp(p) ==
    req[p].pc # "idle" =>
        /\ req[p].pc \notin {"dup", "duped"}
        /\ Writing(p) => req[p].op \in {"upload", "overwrite"}
        /\ req[p].op \in {"auto", "complete", "delete"} => "repair" \in Ops
        /\ req[p].op = "restoreVersion" => "restoreVersion" \in Ops
        /\ req[p].pc \in {"kill", "killed"} => "repair" \in Ops
        /\ req[p].pc \in {"head", "headed"} => req[p].op \in {"auto", "complete", "restoreVersion"}

OwnsRow(p) ==
    Pends(p) => \A r \in rows : r.key = req[p].key => r.node = req[p].node /\ r.st = "pending"

\* The active row a restore has read is of its node; if the file is sound it is at
\* rest, and the row chosen is one of its history rows.
Restores(p) ==
    Restoring(p) =>
        /\ req[p].prev \in minted \cup {None}
        /\ \A r \in rows : r.key = req[p].prev => r.node = req[p].node
        /\ Sound(req[p].node) =>
              /\ sync[req[p].node] = "active"
              /\ req[p].prev = ack[req[p].node]
              /\ \E r \in Histories(req[p].node) : r.key = req[p].key

\* What a purge deletes belongs to its node, and its nodes are doomed or gone.
Purges(p) ==
    req[p].pc = "purge" =>
        /\ \A m \in req[p].queue \cup {req[p].node} : sync[m] = "absent" \/ m \in doomed
        /\ \A r \in rows : r.key \in req[p].todo => r.node = req[p].node

\* Such a blob stays, unless the collector has selected its row.
Landed(p) ==
    Found(p) =>
        \A r \in rows :
           r.key = req[p].key /\ r.node \notin doomed \cup exposed /\ RowId(r) \notin gc.ids
              => r.key \in blobs

Request(p) == RunsItsOp(p) /\ OwnsRow(p) /\ Restores(p) /\ Purges(p) /\ Landed(p)

KeysApart == \A p, q \in Req : p # q /\ Pends(p) /\ Pends(q) => req[p].key # req[q].key

\* One writer at a time, and one pending row, the writer's: a second one would have
\* found no active row and exposed the file.
OneWriter(n) ==
    /\ \A p, q \in Writers(n) : p = q
    /\ \A r, s \in Pendings(n) : r = s
    /\ \A p \in Writers(n), r \in Pendings(n) : r.key = req[p].key

\* A healthy file has one active row, which holds what was last acknowledged.
HealthyAt(n) ==
    sync[n] = "active" =>
        /\ Writers(n) = {} /\ Pendings(n) = {}
        /\ \E r \in rows : ActiveRows(rows, n) = {r} /\ r.key = ack[n]

\* The row that holds what was last acknowledged of a stuck file: the collector has
\* not selected it, and it is the newest, unless an older version was restored.
Good(n, r) ==
    /\ r.st \in {"history", "orphaned"} /\ r.key = ack[n] /\ RowId(r) \notin gc.ids
    /\ "restoreVersion" \notin Ops =>
          r.st = "history" /\ \A q \in Histories(n) : q.ver <= r.ver

\* A stuck file has such a row, or has never been acknowledged; a writer that fails
\* goes back to it.
StuckAt(n) ==
    sync[n] = "pending_upload" =>
        /\ ActiveRows(rows, n) = {}
        /\ IF ack[n] = None THEN RowsOf(rows, n) \subseteq Pendings(n)
           ELSE \E r \in RowsOf(rows, n) : Good(n, r)
        /\ \A p \in Writers(n) :
              IF req[p].op = "upload" THEN ack[n] = None
              ELSE ack[n] # None /\ req[p].prev = ack[n]

NewestLast(n) ==
    "restoreVersion" \notin Ops =>
        \A r \in Having(rows, n, {"active", "pending"}), q \in Histories(n) : q.ver <= r.ver

File(n) ==
    /\ sync[n] = "absent" => ack[n] = None
    /\ Sound(n) => OneWriter(n) /\ HealthyAt(n) /\ StuckAt(n) /\ NewestLast(n)

\* The rows whose blob must be there.
Needed(r) ==
    \/ r.st \in {"active", "history"}
    \/ r.st = "orphaned" /\ sync[r.node] = "pending_upload" /\ r.key = ack[r.node]

BlobsThere == \A r \in rows : Needed(r) /\ r.node \notin doomed \cup exposed => r.key \in blobs

\* What the collector has selected it may delete: it stays an orphaned row, or a
\* pending one that nobody is writing.
Selected(r) ==
    IF gc.pc = "evicted" THEN r.st = "orphaned"
    ELSE r.st = "pending" /\ \A p \in Req : Writing(p) => req[p].key # r.key

Collects ==
    /\ \A i \in gc.ids, r \in rows : i[2] = r.key => i[1] = r.node
    /\ gc.pc \in {"evicted", "pending"} => \A k \in gc.todo : \E i \in gc.ids : i[2] = k
    /\ gc.pc \notin {"evicted", "pending"} => gc.ids = {}
    /\ \A r \in rows : r.node \notin exposed =>
          /\ RowId(r) \in gc.ids => Selected(r)
          /\ gc.pc = "sweep" => r.key \notin gc.todo

Kept ==
    /\ IInv /\ OneRowPerKey /\ KeysMinted /\ KeysApart
    /\ \A p \in Req : Request(p)
    /\ \A n \in Node : File(n)
    /\ BlobsThere /\ Collects

-----------------------------------------------------------------------------
(* What a step leaves alone                                                *)

\* A file that keeps its marks and its rows, but for some that are neither active,
\* nor history, nor its good row, that gets no new writer and whose good row the
\* collector does not select, stays as sound as it was.
LEMMA FileStays ==
    ASSUME NEW n \in Node, File(n), sync'[n] = sync[n], ack'[n] = ack[n],
           n \in exposed => n \in exposed', RowsOf(rows', n) \subseteq RowsOf(rows, n),
           Sound(n) => \A r \in RowsOf(rows, n) \ RowsOf(rows', n) :
                          r.st \notin {"active", "history"} /\ ~Good(n, r),
           \A p \in Req : Writing(p)' /\ req'[p].node = n =>
              /\ Writing(p) /\ req'[p].op = req[p].op /\ req'[p].node = req[p].node
              /\ req'[p].key = req[p].key /\ req'[p].prev = req[p].prev,
           Sound(n) /\ sync[n] = "pending_upload" =>
              \A r \in RowsOf(rows, n) : Good(n, r) => RowId(r) \notin gc'.ids
    PROVE  File(n)'
<1>1. \A S : Having(rows', n, S) \subseteq Having(rows, n, S)
  BY DEF Having
<1>2. Writers(n)' \subseteq Writers(n)
  BY DEF Writers
<1>3. CASE Sound(n)'
  <2>1. Sound(n)
    BY <1>3 DEF Sound
  <2>2. ActiveRows(rows', n) = ActiveRows(rows, n) /\ Histories(n)' = Histories(n)
    BY <1>1, <2>1 DEF ActiveRows, Histories, Having
  <2>3. OneWriter(n)'
    BY <1>1, <1>2, <2>1 DEF File, OneWriter, Writers, Pendings
  <2>4. HealthyAt(n)'
    <3> SUFFICES ASSUME sync[n] = "active"
                 PROVE  /\ Writers(n)' = {} /\ Pendings(n)' = {}
                        /\ \E r \in rows' : ActiveRows(rows', n) = {r} /\ r.key = ack'[n]
      BY DEF HealthyAt
    <3>1. PICK r \in rows : ActiveRows(rows, n) = {r} /\ r.key = ack[n]
      BY <2>1 DEF File, HealthyAt
    <3>2. r \in rows'
      BY <2>2, <3>1 DEF ActiveRows, Having, RowsOf
    <3>3. Writers(n) = {} /\ Pendings(n) = {}
      BY <2>1 DEF File, HealthyAt
    <3> QED BY <1>1, <1>2, <2>2, <3>1, <3>2, <3>3 DEF Pendings
  <2>5. StuckAt(n)'
    <3> SUFFICES ASSUME sync[n] = "pending_upload" PROVE StuckAt(n)'
      BY DEF StuckAt
    <3>1. StuckAt(n)
      BY <2>1 DEF File
    <3>2. \A r \in RowsOf(rows, n) : Good(n, r) => r \in RowsOf(rows', n) /\ Good(n, r)'
      BY <2>1, <2>2 DEF Good
    <3>3. RowsOf(rows, n) \subseteq Pendings(n) => RowsOf(rows', n) \subseteq Pendings(n)'
      BY DEF Pendings, Having
    <3>4. \A p \in Writers(n)' :
             p \in Writers(n) /\ req'[p].op = req[p].op /\ req'[p].prev = req[p].prev
      BY <1>2 DEF Writers
    <3>5. ActiveRows(rows', n) = {}
      BY <2>2, <3>1 DEF StuckAt
    <3> QED BY <3>1, <3>2, <3>3, <3>4, <3>5 DEF StuckAt
  <2>6. NewestLast(n)'
    BY <1>1, <2>1, <2>2 DEF File, NewestLast
  <2> QED BY <2>3, <2>4, <2>5, <2>6 DEF File
<1> QED BY <1>3 DEF File

\* Every row of the new table has the key and the node of a row of the old one, or a
\* key that was not drawn before.
RowsDescend ==
    \A r \in rows' : r.key \notin minted \/ \E s \in rows : s.key = r.key /\ s.node = r.node

\* What a step must leave to a request that it does not advance.
Leaves(q) ==
    /\ req'[q] = req[q]
    /\ Pends(q) => \A r \in rows' : r.key = req[q].key => r \in rows
    /\ req[q].pc = "purge" => \A m \in req[q].queue \cup {req[q].node} :
          (sync[m] = "absent" \/ m \in doomed) => (sync'[m] = "absent" \/ m \in doomed')
    /\ Found(q) => \A r \in rows' :
          r.key = req[q].key /\ r.node \notin doomed' \cup exposed' /\ RowId(r) \notin gc'.ids =>
             /\ r.node \notin doomed \cup exposed /\ RowId(r) \notin gc.ids
             /\ r.key \in blobs => r.key \in blobs'
    /\ Restoring(q) /\ Sound(req[q].node)' =>
          /\ Sound(req[q].node)
          /\ sync'[req[q].node] = sync[req[q].node] /\ ack'[req[q].node] = ack[req[q].node]
          /\ Histories(req[q].node) \subseteq Histories(req[q].node)'

\* Then the request is as sound as it was.
LEMMA RequestStays ==
    ASSUME Kept, IInv', NEW q \in Req, RowsDescend, Leaves(q), minted \subseteq minted'
    PROVE  Request(q)'
<1>1. Request(q)
  BY DEF Kept
<1>2. RunsItsOp(q)'
  BY <1>1 DEF Request, RunsItsOp, Leaves, Writing
<1>3. OwnsRow(q)'
  BY <1>1 DEF Request, OwnsRow, Leaves, Pends
<1>4. Restores(q)'
  <2>1. None \notin minted /\ \A r \in rows' : r.key # None
    BY NoneAssumption DEF Kept, IInv, TypeOK, Row
  <2>2. ASSUME Restoring(q),
               NEW r \in rows', r.key = req[q].prev
        PROVE  r.node = req[q].node
    BY <1>1, <2>1, <2>2 DEF Request, Restores, Restoring, RowsDescend
  <2> QED BY <1>1, <2>2 DEF Request, Restores, Restoring, Leaves
<1>5. Purges(q)'
  BY <1>1 DEF Request, Purges, Leaves, RowsDescend, Kept, KeysMinted
<1>6. Landed(q)'
  <2> SUFFICES ASSUME Found(q)',
                      NEW r \in rows', r.key = req'[q].key, r.node \notin doomed' \cup exposed',
                      RowId(r) \notin gc'.ids
               PROVE  r.key \in blobs'
    BY DEF Landed
  <2>1. Found(q) /\ req'[q] = req[q]
    BY DEF Leaves, Found
  <2>2. r \in rows
    BY <2>1 DEF Leaves, Found, Pends
  <2> QED BY <1>1, <2>1, <2>2 DEF Request, Landed, Leaves
<1> QED BY <1>2, <1>3, <1>4, <1>5, <1>6 DEF Request

\* A request that is not there is sound.
LEMMA IdleRequest ==
    ASSUME NEW p, req'[p] = Idle
    PROVE  Request(p)' /\ ~Writing(p)' /\ ~Pends(p)'
BY DEF Idle, Request, RunsItsOp, OwnsRow, Restores, Restoring, Purges, Landed, Found, Pends, Writing

\* A blob that may go: no file that matters needs it, and no request has just put or
\* found it, or the collector has selected its row.
MayGo(k) ==
    \A r \in rows : r.key = k =>
        \/ r.node \in doomed \cup exposed
        \/ ~Needed(r) /\ (RowId(r) \in gc.ids \/ \A q \in Req : Found(q) => req[q].key # k)

\* A step of some requests that writes no row and answers nobody.
LEMMA QuietStep ==
    ASSUME Kept, IInv', UNCHANGED <<sync, rows, content, ack, exposed, gc>>,
           minted \subseteq minted', doomed \subseteq doomed', blobs' \subseteq minted',
           \A k \in blobs \ blobs' : MayGo(k),
           NEW P \in SUBSET Req, \A q \in Req \ P : req'[q] = req[q],
           \A p \in P :
              /\ Request(p)' /\ req'[p].key \in minted' \cup {None} /\ req'[p].todo \subseteq minted'
              /\ Writing(p)' =>
                    /\ Writing(p) /\ req'[p].op = req[p].op /\ req'[p].node = req[p].node
                    /\ req'[p].key = req[p].key /\ req'[p].prev = req[p].prev
              /\ Pends(p)' => (Pends(p) /\ req'[p].key = req[p].key) \/ Lone
    PROVE  Kept'
<1>1. OneRowPerKey'
  BY DEF Kept, OneRowPerKey
<1>2. KeysMinted'
  BY DEF Kept, KeysMinted
<1>3. KeysApart'
  BY DEF Kept, KeysApart, Pends, Lone
<1>4. ASSUME NEW q \in Req PROVE Request(q)'
  <2>1. CASE q \in P
    BY <2>1
  <2>2. CASE q \notin P
    <3>1. RowsDescend
      BY DEF RowsDescend
    <3>2. Leaves(q)
      BY <2>2 DEF Leaves, MayGo, Sound, Histories, Kept, Request, Landed
    <3> QED BY <3>1, <3>2, RequestStays
  <2> QED BY <2>1, <2>2
<1>5. ASSUME NEW n \in Node PROVE File(n)'
  <2>1. \A q \in Req : Writing(q)' =>
           /\ Writing(q) /\ req'[q].op = req[q].op /\ req'[q].node = req[q].node
           /\ req'[q].key = req[q].key /\ req'[q].prev = req[q].prev
    BY DEF Writing
  <2> QED BY <2>1, FileStays DEF Kept, Good
<1>6. BlobsThere'
  BY DEF Kept, BlobsThere, Needed, MayGo
<1>7. Collects'
  <2>1. \A q \in Req : Writing(q)' => Writing(q) /\ req'[q].key = req[q].key
    BY DEF Writing
  <2>2. \A r \in rows : Selected(r) => Selected(r)'
    BY <2>1 DEF Selected
  <2> QED BY <2>2 DEF Kept, Collects
<1> QED BY <1>1, <1>2, <1>3, <1>4, <1>5, <1>6, <1>7 DEF Kept

-----------------------------------------------------------------------------
(* Steps that write no row                                                 *)

\* A request that ends.
LEMMA EndsKept ==
    ASSUME Kept, IInv', NEW p \in Req, Ends(p), blobs' \subseteq blobs,
           \A k \in blobs \ blobs' : MayGo(k), UNCHANGED <<sync, rows, minted, gc, ghosts>>
    PROVE  Kept'
<1>1. req'[p] = Idle /\ \A q \in Req \ {p} : req'[q] = req[q]
  BY DEF Ends, Kept, IInv, TypeOK
<1>2. Request(p)' /\ ~Writing(p)' /\ ~Pends(p)' /\ Idle.key = None /\ Idle.todo = {}
  BY <1>1, IdleRequest DEF Idle
<1>3. blobs' \subseteq minted'
  BY DEF Kept, KeysMinted
<1> QED BY <1>1, <1>2, <1>3, QuietStep DEF ghosts

\* A blob of which the row is pending, or gone, may go, if its request has not just
\* put it, or found it.
LEMMA PendedMayGo ==
    ASSUME Kept, NEW p \in Req, Pends(p), ~Found(p)
    PROVE  MayGo(req[p].key)
<1>1. \A r \in rows : r.key = req[p].key => r.st = "pending"
  BY DEF Kept, Request, OwnsRow
<1>2. \A q \in Req : Pends(q) /\ req[q].key = req[p].key => q = p
  BY DEF Kept, KeysApart
<1>3. \A q \in Req : Found(q) => Pends(q)
  BY DEF Pends, Found
<1> QED BY <1>1, <1>2, <1>3 DEF MayGo, Needed

\* The best-effort delete after a failed overwrite or a repair.
LEMMA UndoKept ==
    ASSUME Kept, IInv', NEW p \in Req, UndoBlob(p)
    PROVE  Kept'
<1>1. MayGo(req[p].key)
  BY PendedMayGo DEF UndoBlob, Pends, Found
<1> QED BY <1>1, EndsKept DEF UndoBlob

\* A request that goes on in its operation and keeps its key.
LEMMA GoesKept ==
    ASSUME Kept, IInv', NEW p \in Req, NEW label \in {"landed", "undo", "headed", "kill", "killed"},
           Goes(p, label), Pends(p), label = "landed" => Writing(p),
           label = "headed" => req[p].pc = "head",
           label \in {"kill", "killed"} => "repair" \in Ops,
           blobs' \subseteq blobs \cup {req[p].key},
           label \in {"landed", "headed"} => req[p].key \in blobs',
           \A k \in blobs \ blobs' : MayGo(k), UNCHANGED <<sync, rows, minted, gc, ghosts>>
    PROVE  Kept'
<1>1. req[p] \in ReqState /\ req' = [req EXCEPT ![p].pc = label]
  BY DEF Goes, Kept, IInv, TypeOK
<1>2. /\ req'[p].pc = label /\ req'[p].op = req[p].op /\ req'[p].node = req[p].node
      /\ req'[p].key = req[p].key /\ req'[p].prev = req[p].prev /\ req'[p].todo = req[p].todo
      /\ \A q \in Req \ {p} : req'[q] = req[q]
  BY <1>1 DEF ReqState, Kept, IInv, TypeOK
<1>3. Request(p)
  BY DEF Kept
<1>4. Request(p)'
  <2>1. RunsItsOp(p)'
    BY <1>2, <1>3 DEF Request, RunsItsOp, Pends, Writing
  <2>2. OwnsRow(p)'
    BY <1>2, <1>3 DEF Request, OwnsRow
  <2>3. Restores(p)' /\ Purges(p)' /\ Landed(p)'
    BY <1>2 DEF Restores, Restoring, Purges, Landed, Found, Pends
  <2> QED BY <2>1, <2>2, <2>3 DEF Request
<1>5. req[p].key \in minted \cup {None} /\ req[p].todo \subseteq minted /\ blobs \subseteq minted
  BY DEF Kept, KeysMinted
<1>6. req[p].key \in Key
  BY DEF Kept, IInv, RequestsNamed, Pends
<1>7. blobs' \subseteq minted'
  BY <1>5, <1>6, NoneAssumption
<1>8. /\ Writing(p)' => Writing(p)
      /\ minted' = minted /\ doomed' = doomed /\ UNCHANGED <<sync, rows, content, ack, exposed, gc>>
  BY <1>2 DEF Writing, ghosts
<1>9. \A q \in {p} :
         /\ Request(q)' /\ req'[q].key \in minted' \cup {None} /\ req'[q].todo \subseteq minted'
         /\ Writing(q)' =>
               /\ Writing(q) /\ req'[q].op = req[q].op /\ req'[q].node = req[q].node
               /\ req'[q].key = req[q].key /\ req'[q].prev = req[q].prev
         /\ Pends(q)' => (Pends(q) /\ req'[q].key = req[q].key) \/ Lone
  BY <1>2, <1>4, <1>5, <1>8
<1>10. {p} \in SUBSET Req
  OBVIOUS
<1> QED BY <1>2, <1>7, <1>8, <1>9, <1>10, QuietStep

\* The blob of an upload or an overwrite lands: its request goes on.
LEMMA BlobLandsKept ==
    ASSUME Kept, IInv', NEW p \in Req, BlobLands(p)
    PROVE  Kept'
BY GoesKept DEF BlobLands, Pends, Writing

\* An overwrite whose rollback fails leaves its row pending, as a crash would.
LEMMA RollbackFailsKept ==
    ASSUME Kept, IInv', NEW p \in Req, OverwriteRollbackFails(p)
    PROVE  Kept'
BY GoesKept DEF OverwriteRollbackFails, Pends, Writing

\* A repair that finds no blob under the pending row goes on to delete the row.
LEMMA BlobMissingKept ==
    ASSUME Kept, IInv', NEW p \in Req, RepairBlobMissing(p)
    PROVE  Kept'
<1>1. Pends(p) /\ "repair" \in Ops
  BY DEF RepairBlobMissing, Pends, Kept, Request, RunsItsOp
<1> QED BY <1>1, GoesKept DEF RepairBlobMissing

\* HEAD finds the blob that a repair, or a restore, asked for.
LEMMA HeadFindsKept ==
    ASSUME Kept, IInv', NEW p \in Req, HeadFinds(p)
    PROVE  Kept'
<1>1. /\ req[p].pc = "head" /\ req[p].key \in blobs /\ Goes(p, "headed")
      /\ UNCHANGED <<sync, trashed, rows, blobs, minted, gc, ghosts>>
  BY DEF HeadFinds
<1>2. CASE Pends(p)
  BY <1>1, <1>2, GoesKept
<1>3. CASE ~Pends(p)
  <2>1. /\ req'[p].pc = "headed" /\ req'[p].op = req[p].op /\ req'[p].node = req[p].node
        /\ req'[p].key = req[p].key /\ req'[p].prev = req[p].prev /\ req'[p].todo = req[p].todo
        /\ \A q \in Req \ {p} : req'[q] = req[q]
    BY <1>1 DEF Goes, ReqState, Kept, IInv, TypeOK
  <2>2. Request(p) /\ req[p].op = "restoreVersion"
    BY <1>1, <1>3 DEF Kept, Request, RunsItsOp, Pends
  <2>3. /\ UNCHANGED <<sync, rows, content, ack, exposed, gc, minted, doomed, blobs>>
        /\ blobs' \subseteq minted'
    BY <1>1 DEF ghosts, Kept, KeysMinted
  <2>4. Restores(p)'
    BY <1>1, <2>1, <2>2, <2>3 DEF Request, Restores, Restoring, Sound, Histories
  <2>5. Request(p)' /\ ~Writing(p)' /\ ~Pends(p)'
    BY <1>1, <2>1, <2>2, <2>4
       DEF Request, RunsItsOp, OwnsRow, Purges, Landed, Found, Pends, Writing
  <2>6. \A q \in {p} :
           /\ Request(q)' /\ req'[q].key \in minted' \cup {None} /\ req'[q].todo \subseteq minted'
           /\ ~Writing(q)' /\ ~Pends(q)'
    BY <2>1, <2>3, <2>5 DEF Kept, KeysMinted
  <2>7. {p} \in SUBSET Req
    OBVIOUS
  <2> QED BY <2>1, <2>3, <2>6, <2>7, QuietStep
<1> QED BY <1>2, <1>3

\* A repair may delete the blob of the pending row: no row that must have its blob has that key.
LEMMA KillBlobKept ==
    ASSUME Kept, IInv', NEW p \in Req, RepairKillBlob(p)
    PROVE  Kept'
<1>1. Pends(p) /\ ~Found(p) /\ "repair" \in Ops
  BY DEF RepairKillBlob, Pends, Found, Kept, Request, RunsItsOp
<1>2. MayGo(req[p].key)
  BY <1>1, PendedMayGo
<1> QED BY <1>1, <1>2, GoesKept DEF RepairKillBlob

\* A request that starts on what it has read, and writes no row.
LEMMA BecomesKept ==
    ASSUME Kept, IInv', NEW p \in Req, NEW s, Becomes(p, s), Request(p)',
           s.key \in minted' \cup {None}, s.todo \subseteq minted', s.pc \notin {"put", "landed"},
           Pends(p)' => Lone, minted \subseteq minted', doomed \subseteq doomed',
           UNCHANGED <<sync, rows, blobs, gc, content, ack, exposed>>
    PROVE  Kept'
<1>1. req'[p] = s /\ \A q \in Req \ {p} : req'[q] = req[q]
  BY DEF Becomes, Kept, IInv, TypeOK
<1>2. ~Writing(p)' /\ blobs' \subseteq minted'
  BY <1>1 DEF Writing, Kept, KeysMinted
<1>3. \A q \in {p} :
         /\ Request(q)' /\ req'[q].key \in minted' \cup {None} /\ req'[q].todo \subseteq minted'
         /\ ~Writing(q)' /\ (Pends(q)' => Lone)
  BY <1>1, <1>2
<1>4. {p} \in SUBSET Req
  OBVIOUS
<1> QED BY <1>1, <1>2, <1>3, <1>4, QuietStep

\* A repair that probes or deletes: the request holds the pending row it has found.
LEMMA RepairStarts ==
    ASSUME Kept, IInv', Setting, NEW p \in Req, NEW n \in Node, NEW s,
           Becomes(p, s), s.node = n, s.todo = {}, "repair" \in Ops,
           \/ s.pc = "head" /\ s.op \in {"auto", "complete"}
           \/ s.pc = "kill" /\ s.op = "delete",
           NEW r \in PendingRow(rows, n), s.key = r.key,
           UNCHANGED <<sync, trashed, rows, blobs, minted, gc, ghosts>>
    PROVE  Kept'
<1>1. r \in rows /\ r.node = n /\ r.st = "pending"
  BY PendingRowKnown DEF Kept
<1>2. req'[p] = s
  BY DEF Becomes, Kept, IInv, TypeOK
<1>3. Lone /\ r.key \in minted
  BY <1>1 DEF Setting, Kept, KeysMinted
<1>4. Request(p)'
  BY <1>1, <1>2 DEF Request, RunsItsOp, OwnsRow, Restores, Restoring, Purges, Landed, Found, Writing, Kept,
                    OneRowPerKey
<1> QED BY <1>3, <1>4, BecomesKept DEF ghosts

\* A restore of a version of a file at rest has chosen one of its history rows.
LEMMA RestoreStartKept ==
    ASSUME Kept, IInv', Setting, NEW p \in Req, NEW n \in Node, RestoreVersionStart(p, n)
    PROVE  Kept'
<1> PICK current :
       current = IF ActiveRows(rows, n) = {} THEN None ELSE Newest(ActiveRows(rows, n)).key
  OBVIOUS
<1> PICK t \in Having(rows, n, {"active", "history"}) :
       /\ t.key # current
       /\ Becomes(p, [Idle EXCEPT !.op = "restoreVersion", !.pc = "head", !.node = n,
                                  !.key = t.key, !.prev = current])
  BY DEF RestoreVersionStart
<1>1. PICK s : /\ s.op = "restoreVersion" /\ s.pc = "head" /\ s.node = n /\ s.key = t.key
               /\ s.prev = current /\ s.todo = {} /\ Becomes(p, s)
  BY DEF Idle
<1>2. req'[p] = s
  BY <1>1 DEF Becomes, Kept, IInv, TypeOK
<1>3. /\ sync[n] = "active" /\ "restoreVersion" \in Ops
      /\ UNCHANGED <<sync, trashed, rows, blobs, minted, gc, ghosts>>
  BY DEF RestoreVersionStart, ReadyFor, Live, Kept, IInv, TypeOK
<1>4. ASSUME Sound(n) PROVE current = ack[n] /\ t \in Histories(n)
  <2>1. PICK r \in rows : ActiveRows(rows, n) = {r} /\ r.key = ack[n]
    BY <1>3, <1>4 DEF Kept, File, HealthyAt
  <2>2. Newest({r}) = r
    BY DEF Newest, Kept, IInv, TypeOK, Row
  <2>3. current = ack[n] /\ t # r
    BY <2>1, <2>2
  <2> QED BY <2>1, <2>3 DEF Histories, ActiveRows, Having
<1>5. current \in minted \cup {None} /\ \A r \in rows : r.key = current => r.node = n
  <2>1. CASE ActiveRows(rows, n) = {}
    BY <2>1, NoneAssumption DEF Kept, IInv, TypeOK, Row
  <2>2. CASE ActiveRows(rows, n) # {}
    <3>1. Newest(ActiveRows(rows, n)) \in ActiveRows(rows, n)
      BY <2>2, NewestIsMember DEF Kept, IInv, ActiveRows, Having, RowsOf
    <3>2. PICK a \in rows : a.node = n /\ a.key = current
      BY <2>2, <3>1 DEF ActiveRows, Having, RowsOf
    <3> QED BY <3>2 DEF Kept, OneRowPerKey, KeysMinted
  <2> QED BY <2>1, <2>2
<1>6. RunsItsOp(p)' /\ OwnsRow(p)' /\ Purges(p)' /\ Landed(p)' /\ ~Pends(p)'
  BY <1>1, <1>2, <1>3 DEF RunsItsOp, OwnsRow, Purges, Landed, Found, Writing, Pends
<1>7. Restores(p)'
  BY <1>1, <1>2, <1>3, <1>4, <1>5 DEF Restores, Restoring, Sound, Histories, ghosts
<1>8. t.key \in minted
  BY DEF Having, RowsOf, Kept, KeysMinted
<1> QED BY <1>1, <1>3, <1>6, <1>7, <1>8, BecomesKept DEF ghosts, Request

\* Repairs that have to ask the blob store first.
LEMMA RepairProbeKept ==
    ASSUME Kept, IInv', Setting, NEW p \in Req, NEW n \in Node, NEW action, RepairProbe(p, n, action)
    PROVE  Kept'
<1>1. PICK r \in PendingRow(rows, n) :
         Becomes(p, [Idle EXCEPT !.op = action, !.pc = "head", !.node = n, !.key = r.key])
  BY DEF RepairProbe
<1>2. PICK s : /\ s.op = action /\ s.pc = "head" /\ s.node = n /\ s.key = r.key /\ s.todo = {}
               /\ Becomes(p, s)
  BY <1>1 DEF Idle
<1> QED BY <1>2, RepairStarts DEF RepairProbe, ReadyFor

\* A repair that deletes a stuck file takes over its pending row, and owns it.
LEMMA RepairDeleteKept ==
    ASSUME Kept, IInv', Setting, NEW p \in Req, NEW n \in Node, RepairDelete(p, n)
    PROVE  Kept'
<1>1. PICK r \in PendingRow(rows, n) :
         Becomes(p, [Idle EXCEPT !.op = "delete", !.pc = "kill", !.node = n, !.key = r.key])
  BY DEF RepairDelete
<1>2. PICK s : /\ s.op = "delete" /\ s.pc = "kill" /\ s.node = n /\ s.key = r.key /\ s.todo = {}
               /\ Becomes(p, s)
  BY <1>1 DEF Idle
<1> QED BY <1>2, RepairStarts DEF RepairDelete, ReadyFor

\* A purge that turns to a doomed node reads the keys of that node alone.
LEMMA PurgingSound ==
    ASSUME Kept, NEW p \in Req, NEW m, NEW queue, Purging(p, m, queue), rows' \subseteq rows,
           \A o \in queue \cup {m} : sync'[o] = "absent" \/ o \in doomed'
    PROVE  /\ Request(p)' /\ ~Writing(p)' /\ ~Pends(p)'
           /\ req'[p].key = None /\ req'[p].todo \subseteq minted
           /\ \A q \in Req \ {p} : req'[q] = req[q]
<1>1. PICK s : /\ s.op = "purge" /\ s.pc = "purge" /\ s.node = m /\ s.key = None
               /\ s.queue = queue /\ s.todo = {r.key : r \in RowsOf(rows, m)} /\ Becomes(p, s)
  BY DEF Idle, Purging
<1>2. req'[p] = s /\ \A q \in Req \ {p} : req'[q] = req[q]
  BY <1>1 DEF Becomes, Kept, IInv, TypeOK
<1>3. \A r \in rows' : r.key \in s.todo => r.node = m
  BY <1>1 DEF RowsOf, Kept, OneRowPerKey
<1>4. Purges(p)'
  BY <1>1, <1>2, <1>3 DEF Purges
<1>5. RunsItsOp(p)' /\ OwnsRow(p)' /\ Restores(p)' /\ Landed(p)' /\ ~Writing(p)' /\ ~Pends(p)'
  BY <1>1, <1>2 DEF RunsItsOp, OwnsRow, Restores, Restoring, Landed, Found, Pends, Writing
<1>6. s.todo \subseteq minted
  BY <1>1 DEF RowsOf, Kept, KeysMinted
<1> QED BY <1>1, <1>2, <1>4, <1>5, <1>6 DEF Request

\* A purge starts: whatever it lists is doomed from here on.
LEMMA PurgeStartKept ==
    ASSUME Kept, IInv', NEW p \in Req, NEW n \in Node, NEW queue \in SUBSET trashed,
           PurgeStart(p, n, queue)
    PROVE  Kept'
<1>1. PICK s : Becomes(p, s)
  BY DEF PurgeStart, Purging
<1>2. req'[p] = s
  BY <1>1 DEF Becomes, Kept, IInv, TypeOK
<1>3. /\ Request(p)' /\ ~Writing(p)' /\ ~Pends(p)'
      /\ req'[p].key = None /\ req'[p].todo \subseteq minted
  BY PurgingSound DEF PurgeStart
<1> QED BY <1>1, <1>2, <1>3, BecomesKept DEF PurgeStart, Writing

\* The next file of a purge list, or the end of the purge.
LEMMA PurgeNextSound ==
    ASSUME Kept, NEW p \in Req, PurgeNext(p), req[p].pc = "purge", rows' \subseteq rows,
           \A m : sync[m] = "absent" \/ m \in doomed => sync'[m] = "absent" \/ m \in doomed'
    PROVE  /\ Request(p)' /\ ~Writing(p)' /\ ~Pends(p)'
           /\ req'[p].key = None /\ req'[p].todo \subseteq minted
           /\ \A q \in Req \ {p} : req'[q] = req[q]
<1>1. \A m \in req[p].queue : sync'[m] = "absent" \/ m \in doomed'
  BY DEF Kept, Request, Purges
<1>2. CASE Ends(p)
  <2>1. req'[p] = Idle /\ Idle.key = None /\ Idle.todo = {} /\ \A q \in Req \ {p} : req'[q] = req[q]
    BY <1>2 DEF Ends, Idle, Kept, IInv, TypeOK
  <2> QED BY <2>1, IdleRequest
<1>3. ASSUME NEW left, left \subseteq req[p].queue, NEW m \in left, Purging(p, m, left \ {m})
      PROVE  /\ Request(p)' /\ ~Writing(p)' /\ ~Pends(p)'
             /\ req'[p].key = None /\ req'[p].todo \subseteq minted
             /\ \A q \in Req \ {p} : req'[q] = req[q]
  BY <1>1, <1>3, PurgingSound
<1> QED BY <1>2, <1>3 DEF PurgeNext

\* A purge that fails on one node goes on with the next of its list.
LEMMA PurgeNodeFailsKept ==
    ASSUME Kept, IInv', NEW p \in Req, PurgeNodeFails(p)
    PROVE  Kept'
<1>1. /\ req[p].pc = "purge" /\ PurgeNext(p)
      /\ UNCHANGED <<sync, rows, content, ack, doomed, exposed, gc, minted, blobs>>
  BY DEF PurgeNodeFails, ghosts
<1>2. /\ Request(p)' /\ ~Writing(p)' /\ ~Pends(p)'
      /\ req'[p].key = None /\ req'[p].todo \subseteq minted
      /\ \A q \in Req \ {p} : req'[q] = req[q]
  BY <1>1, PurgeNextSound
<1>3. {p} \in SUBSET Req /\ blobs' \subseteq minted'
  BY <1>1 DEF Kept, KeysMinted
<1> QED BY <1>1, <1>2, <1>3, QuietStep

\* A purge deletes a blob: the rows of its keys are of a doomed node.
LEMMA PurgeBlobKept ==
    ASSUME Kept, IInv', NEW p \in Req, PurgeBlob(p)
    PROVE  Kept'
<1> PICK k \in req[p].todo :
       req' = [req EXCEPT ![p].todo = @ \ {k}] /\ blobs' \in {blobs, blobs \ {k}}
  BY DEF PurgeBlob
<1>1. /\ req[p].pc = "purge" /\ req[p] \in ReqState
      /\ UNCHANGED <<sync, rows, content, ack, doomed, exposed, gc, minted>>
  BY DEF PurgeBlob, ghosts, Kept, IInv, TypeOK
<1>2. /\ req'[p].pc = "purge" /\ req'[p].op = req[p].op /\ req'[p].node = req[p].node
      /\ req'[p].key = req[p].key /\ req'[p].queue = req[p].queue
      /\ req'[p].todo \subseteq req[p].todo /\ \A q \in Req \ {p} : req'[q] = req[q]
  BY <1>1 DEF ReqState, Kept, IInv, TypeOK
<1>3. Request(p)
  BY DEF Kept
<1>4. Request(p)' /\ ~Writing(p)' /\ ~Pends(p)'
  BY <1>1, <1>2, <1>3
     DEF Request, RunsItsOp, OwnsRow, Restores, Restoring, Purges, Landed, Found, Pends, Writing
<1>5. MayGo(k)
  BY <1>1, <1>3 DEF MayGo, Request, Purges, Kept, IInv, NodesExist
<1>6. /\ req'[p].key \in minted' \cup {None} /\ req'[p].todo \subseteq minted'
      /\ blobs' \subseteq minted' /\ {p} \in SUBSET Req
  BY <1>1, <1>2 DEF Kept, KeysMinted
<1> QED BY <1>1, <1>2, <1>4, <1>5, <1>6, QuietStep

\* Trash and restore from it, and a step that changes nothing.
LEMMA TrashKept ==
    ASSUME Kept, IInv', UNCHANGED <<sync, rows, blobs, minted, req, gc, ghosts>>
    PROVE  Kept'
<1>1. {} \in SUBSET Req /\ blobs' \subseteq minted'
  BY DEF Kept, KeysMinted
<1> QED BY <1>1, QuietStep DEF ghosts

-----------------------------------------------------------------------------
(* The collector, and the death of the process                             *)

\* The blob of a row that the collector has selected may go.
LEMMA SelectedMayGo ==
    ASSUME Kept, NEW k \in gc.todo, gc.pc \in {"evicted", "pending", "sweep"}
    PROVE  MayGo(k)
<1> SUFFICES ASSUME NEW r \in rows, r.key = k, r.node \notin exposed
             PROVE  ~Needed(r) /\ RowId(r) \in gc.ids
  BY DEF MayGo
<1>1. RowId(r) \in gc.ids /\ Selected(r) /\ gc.pc # "sweep"
  <2>1. gc.pc # "sweep"
    BY DEF Kept, Collects
  <2>2. PICK i \in gc.ids : i[2] = k
    BY <2>1 DEF Kept, Collects
  <2>3. i[1] = r.node /\ i = <<i[1], i[2]>>
    BY <2>1, <2>2 DEF Kept, Collects, IInv, TypeOK, GcState
  <2> QED BY <2>1, <2>2, <2>3 DEF RowId, Kept, Collects
<1>2. CASE gc.pc = "evicted"
  <2>1. r.st = "orphaned"
    BY <1>1, <1>2 DEF Selected
  <2>3. ASSUME sync[r.node] = "pending_upload", r.key = ack[r.node] PROVE FALSE
    <3>1. r.node \in Node /\ r.key \in Key /\ Sound(r.node)
      BY <2>3 DEF Sound, Kept, IInv, TypeOK, Row
    <3>2. PICK g \in RowsOf(rows, r.node) : Good(r.node, g)
      BY <2>3, <3>1, NoneAssumption DEF Kept, File, StuckAt
    <3>3. g = r
      BY <2>3, <3>2 DEF Good, RowsOf, Kept, OneRowPerKey
    <3> QED BY <1>1, <3>2, <3>3 DEF Good
  <2> QED BY <1>1, <2>1, <2>3 DEF Needed
<1>3. CASE gc.pc = "pending"
  BY <1>1, <1>3 DEF Selected, Needed
<1> QED BY <1>1, <1>2, <1>3

\* A step of the collector that deletes rows it has selected, or none, and blobs that
\* may go, and selects no good row.
LEMMA GcStepKept ==
    ASSUME Kept, IInv', UNCHANGED <<sync, trashed, minted, req, ghosts>>,
           rows' \subseteq rows, \A r \in rows \ rows' : RowId(r) \in gc.ids,
           \A r \in rows' : RowId(r) \in gc.ids => RowId(r) \in gc'.ids,
           blobs' \subseteq blobs, \A k \in blobs \ blobs' : MayGo(k),
           gc'.todo \subseteq minted, \A i \in gc'.ids : i[2] \in minted, Collects',
           \A n \in Node : Sound(n) /\ sync[n] = "pending_upload" =>
              \A r \in RowsOf(rows, n) : Good(n, r) => RowId(r) \notin gc'.ids
    PROVE  Kept'
<1>1. UNCHANGED <<content, ack, doomed, exposed>>
  BY DEF ghosts
<1>2. \A r \in rows \ rows' : r.node \notin exposed => r.st \in {"orphaned", "pending"}
  BY DEF Kept, Collects, Selected
<1>3. OneRowPerKey' /\ KeysMinted' /\ KeysApart'
  BY <1>1 DEF Kept, OneRowPerKey, KeysMinted, KeysApart, Pends
<1>4. ASSUME NEW q \in Req PROVE Request(q)'
  <2>1. RowsDescend
    BY DEF RowsDescend
  <2>2. Found(q) => \A r \in rows' :
           r.key = req[q].key /\ r.node \notin doomed \cup exposed
           /\ r.key \in blobs /\ RowId(r) \notin gc.ids
              => r.key \in blobs'
    <3> SUFFICES ASSUME Found(q), NEW r \in rows', r.key = req[q].key,
                        r.node \notin doomed \cup exposed, r.key \in blobs, r.key \notin blobs',
                        RowId(r) \notin gc.ids
                 PROVE  FALSE
      OBVIOUS
    <3>1. r \in rows /\ r.key \in blobs \ blobs'
      OBVIOUS
    <3>2. MayGo(r.key)
      BY <3>1
    <3> QED BY <3>1, <3>2 DEF MayGo
  <2>3. \A n : n \notin exposed => Histories(n) \subseteq Histories(n)'
    BY <1>2 DEF Histories, Having, RowsOf
  <2>4. Leaves(q)
    BY <1>1, <2>2, <2>3 DEF Leaves, Sound
  <2> QED BY <2>1, <2>4, RequestStays
<1>5. ASSUME NEW n \in Node PROVE File(n)'
  <2>1. RowsOf(rows', n) \subseteq RowsOf(rows, n)
    BY DEF RowsOf
  <2>2. Sound(n) => \A r \in RowsOf(rows, n) \ RowsOf(rows', n) :
                       r.st \notin {"active", "history"} /\ ~Good(n, r)
    BY <1>2 DEF RowsOf, Good, Sound
  <2>3. \A p \in Req : Writing(p)' => Writing(p)
    BY DEF Writing
  <2>4. File(n)
    BY DEF Kept
  <2> QED BY <1>1, <2>1, <2>2, <2>3, <2>4, FileStays
<1>6. BlobsThere'
  BY <1>1 DEF Kept, BlobsThere, Needed, MayGo
<1> QED BY <1>3, <1>4, <1>5, <1>6 DEF Kept

\* Two rows with one identifier are one row.
LEMMA RowIdOne ==
    ASSUME Kept, NEW r \in rows, NEW s \in rows, RowId(r) = RowId(s)
    PROVE  r = s
BY DEF RowId, Kept, OneRowPerKey

\* Tier 1 selects rows beyond the cap: neither an active row nor the last good one.
LEMMA GcBeginKept ==
    ASSUME Kept, IInv', NEW D \in SUBSET rows, GcBegin(D)
    PROVE  Kept'
<1>1. /\ D \subseteq Evicted(rows, sync) /\ gc'.pc = "evicted"
      /\ gc'.todo = {r.key : r \in D} /\ gc'.ids = {RowId(r) : r \in D}
      /\ UNCHANGED <<sync, trashed, rows, blobs, minted, req, ghosts>>
  BY DEF GcBegin
<1>2. \A r \in rows : RowId(r) \in gc'.ids => r \in D
  BY <1>1, RowIdOne
<1>3. \A r \in D : r \in rows /\ r.st = "orphaned" /\ RowId(r)[1] = r.node /\ RowId(r)[2] = r.key
  BY <1>1 DEF Evicted, RowId
<1>4. Collects'
  <2>1. \A i \in gc'.ids, r \in rows : i[2] = r.key => i[1] = r.node
    BY <1>1, <1>3 DEF Kept, OneRowPerKey
  <2>2. \A k \in gc'.todo : \E i \in gc'.ids : i[2] = k
    BY <1>1, <1>3
  <2>3. \A r \in rows : RowId(r) \in gc'.ids => Selected(r)'
    BY <1>1, <1>2, <1>3 DEF Selected
  <2> QED BY <1>1, <2>1, <2>2, <2>3 DEF Collects
<1>5. ASSUME NEW n \in Node, Sound(n), sync[n] = "pending_upload", NEW r \in RowsOf(rows, n)
      PROVE  RowId(r) \notin gc'.ids
  <2>1. ActiveRows(rows, n) = {}
    BY <1>5 DEF Kept, File, StuckAt
  <2>2. r \in rows /\ r.node = n
    BY DEF RowsOf
  <2> QED BY <1>1, <1>2, <1>5, <2>1, <2>2 DEF Evicted
<1>6. gc'.todo \subseteq minted /\ \A i \in gc'.ids : i[2] \in minted
  BY <1>1, <1>3 DEF Kept, KeysMinted
<1>7. gc.ids = {}
  BY DEF GcBegin, Kept, Collects
<1> QED BY <1>1, <1>4, <1>5, <1>6, <1>7, GcStepKept

\* The collector deletes the blob of a row it has selected, or one that no row refers to.
LEMMA GcBlobKept ==
    ASSUME Kept, IInv', GcBlob
    PROVE  Kept'
<1> PICK k \in gc.todo : gc' = [gc EXCEPT !.todo = @ \ {k}] /\ blobs' \in {blobs, blobs \ {k}}
  BY DEF GcBlob
<1>1. /\ gc.pc \in {"evicted", "pending", "sweep"}
      /\ UNCHANGED <<sync, trashed, rows, minted, req, ghosts>>
  BY DEF GcBlob
<1>2. gc'.pc = gc.pc /\ gc'.ids = gc.ids /\ gc'.todo = gc.todo \ {k}
  BY DEF Kept, IInv, TypeOK, GcState
<1>3. MayGo(k)
  BY <1>1, SelectedMayGo
<1>4. Collects'
  <2>1. \A r \in rows : Selected(r) => Selected(r)'
    BY <1>1, <1>2 DEF Selected, Writing
  <2> QED BY <1>1, <1>2, <2>1 DEF Kept, Collects, ghosts
<1>5. gc'.todo \subseteq minted /\ \A i \in gc'.ids : i[2] \in minted
  BY <1>2 DEF Kept, KeysMinted
<1> QED BY <1>1, <1>2, <1>3, <1>4, <1>5, GcStepKept DEF Good

\* Tier 1 deletes the rows it has selected, and selects the stale pending ones.
LEMMA GcRowsKept ==
    ASSUME Kept, IInv', NEW D \in SUBSET rows, GcRows(D)
    PROVE  Kept'
<1>1. /\ rows' = DeleteRows(rows, gc.ids)
      /\ D \subseteq StalePending(rows, sync) /\ NotInFlight(D) /\ gc'.pc = "pending"
      /\ gc'.todo = {r.key : r \in D} /\ gc'.ids = {RowId(r) : r \in D}
      /\ UNCHANGED <<sync, trashed, blobs, minted, req, ghosts>>
  BY DEF GcRows
<1>2. \A r \in rows : RowId(r) \in gc'.ids => r \in D
  BY <1>1, RowIdOne
<1>3. \A r \in D : r \in rows /\ r.st = "pending" /\ RowId(r)[1] = r.node /\ RowId(r)[2] = r.key
  BY <1>1 DEF StalePending, RowId
<1>4. /\ rows' \subseteq rows /\ \A r \in rows \ rows' : RowId(r) \in gc.ids
      /\ \A r \in rows' : RowId(r) \notin gc.ids
  BY <1>1 DEF DeleteRows
<1>5. Collects'
  <2>1. \A i \in gc'.ids, r \in rows' : i[2] = r.key => i[1] = r.node
    BY <1>1, <1>3, <1>4 DEF Kept, OneRowPerKey
  <2>2. \A k \in gc'.todo : \E i \in gc'.ids : i[2] = k
    BY <1>1, <1>3
  <2>3. \A r \in D, p \in Req : Writing(p)' => req'[p].key # r.key
    BY <1>1 DEF NotInFlight, InFlight, Writing, Kept, Request, RunsItsOp
  <2>4. \A r \in rows' : RowId(r) \in gc'.ids => Selected(r)'
    BY <1>1, <1>2, <1>3, <1>4, <2>3 DEF Selected
  <2> QED BY <1>1, <2>1, <2>2, <2>4 DEF Collects
<1>6. ASSUME NEW n \in Node, NEW r \in RowsOf(rows, n), Good(n, r)
      PROVE  RowId(r) \notin gc'.ids
  BY <1>2, <1>3, <1>6 DEF Good, RowsOf
<1>7. gc'.todo \subseteq minted /\ \A i \in gc'.ids : i[2] \in minted
  BY <1>1, <1>3 DEF Kept, KeysMinted
<1> QED BY <1>1, <1>4, <1>5, <1>6, <1>7, GcStepKept

\* The rest of a cycle deletes only rows it has selected, and keeps the keys of the table.
LEMMA GcRestKept ==
    ASSUME Kept, IInv', GcStaleRows \/ (\E C \in SUBSET blobs : GcList(C)) \/ GcReconcile \/ GcEnd
    PROVE  Kept'
<1>1. UNCHANGED <<sync, trashed, blobs, minted, req, ghosts>> /\ gc \in GcState
  BY DEF GcStaleRows, GcList, GcReconcile, GcEnd, Kept, IInv, TypeOK
<1>2. /\ rows' \subseteq rows /\ \A r \in rows \ rows' : RowId(r) \in gc.ids
      /\ \A r \in rows' : RowId(r) \notin gc.ids
  BY DEF GcStaleRows, GcList, GcReconcile, GcEnd, DeleteRows, Kept, Collects
<1>3. /\ gc'.ids = {} /\ gc'.todo \subseteq minted /\ gc'.pc \notin {"evicted", "pending"}
      /\ gc'.pc = "sweep" => GcReconcile
  <2>1. gc.pc \notin {"evicted", "pending"} => gc.ids = {}
    BY DEF Kept, Collects
  <2>2. CASE GcStaleRows \/ GcEnd
    BY <2>2 DEF GcStaleRows, GcEnd, GcIdle
  <2>3. ASSUME NEW C \in SUBSET blobs, GcList(C)
        PROVE  gc'.ids = {} /\ gc'.todo \subseteq minted /\ gc'.pc = "listed"
    BY <1>1, <2>1, <2>3 DEF GcList, GcState, Kept, KeysMinted
  <2>4. CASE GcReconcile
    BY <1>1, <2>1, <2>4 DEF GcReconcile, GcState, Kept, KeysMinted
  <2> QED BY <2>2, <2>3, <2>4
<1>4. ASSUME gc'.pc = "sweep", NEW r \in rows', r.node \notin exposed
      PROVE  r.key \notin gc'.todo
  <2>1. GcReconcile /\ r \in rows
    BY <1>2, <1>3, <1>4
  <2>2. gc'.todo = gc.todo \ KeptKeys(rows, sync)
    BY <1>1, <2>1 DEF GcReconcile, GcState
  <2>3. r.st = "pending" => sync[r.node] = "pending_upload"
    <3>1. r.node \in Node /\ Sound(r.node) /\ sync[r.node] \in {"active", "pending_upload"}
      BY <1>4, <2>1 DEF Sound, Kept, IInv, TypeOK, NodesExist, Row
    <3> QED BY <2>1, <3>1 DEF Kept, File, HealthyAt, Pendings, Having, RowsOf
  <2>4. r.st \in Status
    BY <2>1 DEF Kept, IInv, TypeOK, Row
  <2> QED BY <2>1, <2>2, <2>3, <2>4 DEF KeptKeys, StalePending, Status
<1>5. Collects'
  BY <1>1, <1>3, <1>4 DEF Collects, ghosts
<1> QED BY <1>1, <1>2, <1>3, <1>5, GcStepKept

\* The process dies: no request and no collector is left, nothing else changes.
LEMMA CrashKept ==
    ASSUME Kept, IInv', Crash
    PROVE  Kept'
<1>1. /\ \A p \in Req : req'[p] = Idle
      /\ gc'.pc = "idle" /\ gc'.ids = {} /\ gc'.todo = {}
      /\ UNCHANGED <<sync, trashed, rows, blobs, minted, content, ack, doomed, exposed>>
  BY DEF Crash, GcIdle, ghosts
<1>2. \A p \in Req : Request(p)' /\ ~Writing(p)' /\ ~Pends(p)'
  BY <1>1, IdleRequest
<1>3. OneRowPerKey' /\ KeysMinted' /\ KeysApart'
  BY <1>1, <1>2 DEF Kept, OneRowPerKey, KeysMinted, KeysApart, Idle
<1>4. \A n \in Node : File(n)'
  BY <1>1, <1>2, FileStays DEF Kept
<1>5. BlobsThere' /\ Collects'
  BY <1>1 DEF Kept, BlobsThere, Needed, Collects
<1> QED BY <1>2, <1>3, <1>4, <1>5 DEF Kept

-----------------------------------------------------------------------------
(* Steps that write the rows of one file                                   *)

\* What such a step of at most one request must do at the file n that it writes: the
\* other conjuncts of the invariant follow for every other file and request.
LEMMA OneFileStep ==
    ASSUME Kept, IInv', UNCHANGED <<content, blobs, gc>>, minted \subseteq minted',
           NEW n \in Node,
           \A m \in Node \ {n} :
              /\ RowsOf(rows', m) = RowsOf(rows, m) /\ sync'[m] = sync[m] /\ ack'[m] = ack[m]
              /\ m \in exposed' <=> m \in exposed
              /\ m \in doomed' <=> m \in doomed,
           OneRowEach(rows'),
           \A r \in RowsOf(rows', n) :
              /\ r.key \in minted' /\ (n \in exposed => n \in exposed') /\ (n \in doomed => n \in doomed')
              /\ \/ r.key \notin minted
                 \/ \E s \in RowsOf(rows, n) :
                       s.key = r.key /\ (n \notin exposed' /\ RowId(s) \in gc.ids => r.st = s.st)
              /\ Needed(r)' /\ n \notin doomed' \cup exposed' => r.key \in blobs,
           File(n)',
           NEW P \in SUBSET Req, \A p, q \in P : p = q,
           \A p \in P :
              /\ Request(p)' /\ req'[p].key \in minted' \cup {None} /\ req'[p].todo \subseteq minted'
              /\ Writing(p)' => /\ req'[p].node = n
                                /\ (Writing(p) /\ req'[p].key = req[p].key) \/ req'[p].key \notin minted
              /\ Pends(p)' => (Pends(p) /\ req'[p].key = req[p].key) \/ req'[p].key \notin minted \/ Lone,
           \A q \in Req \ P :
              /\ req'[q] = req[q]
              /\ Pends(q) => \A r \in RowsOf(rows', n) : r.key = req[q].key => r \in rows
              /\ req[q].pc = "purge" /\ n \in req[q].queue \cup {req[q].node} =>
                    ((sync[n] = "absent" \/ n \in doomed) => (sync'[n] = "absent" \/ n \in doomed'))
              /\ Restoring(q) => req[q].node # n
    PROVE  Kept'
<1>1. /\ \A r \in rows : r \in Row /\ r.node \in Node /\ r.key \in Key
      /\ \A r \in rows' : r \in Row /\ r.node \in Node /\ r.key \in Key
      /\ \A m : RowsOf(rows, m) = {r \in rows : r.node = m}
      /\ \A m : RowsOf(rows', m) = {r \in rows' : r.node = m}
  BY DEF Kept, IInv, TypeOK, Row, RowsOf
<1>2. \A r \in rows' : r.node # n => r \in rows
  BY <1>1
<1>3. /\ minted \subseteq Key /\ None \notin Key
      /\ \A q \in Req : req[q].key \in minted \cup {None} /\ req[q].todo \subseteq minted
      /\ \A q \in Req : Pends(q) => req[q].key \in minted
      /\ \A q \in Req : Pends(q)' => req'[q].key \in Key
  <2>1. \A q \in Req : Pends(q) => req[q].key \in Key
    BY DEF Kept, IInv, RequestsNamed, Pends
  <2>2. \A q \in Req : Pends(q)' => req'[q].key \in Key
    BY DEF IInv, RequestsNamed, Pends
  <2> QED BY <2>1, <2>2, NoneAssumption DEF Kept, IInv, TypeOK, KeysMinted
<1>4. OneRowPerKey'
  BY DEF Kept, OneRowPerKey, OneRowEach
<1>5. KeysMinted'
  <2>1. \A q \in Req : req'[q].key \in minted' \cup {None} /\ req'[q].todo \subseteq minted'
    BY <1>3
  <2>2. \A r \in rows' : r.key \in minted'
    BY <1>1, <1>2 DEF Kept, KeysMinted
  <2> QED BY <2>1, <2>2 DEF Kept, KeysMinted
<1>6. KeysApart'
  <2> SUFFICES ASSUME NEW p \in Req, NEW q \in Req, p # q, Pends(p)', Pends(q)',
                      req'[p].key = req'[q].key
               PROVE  FALSE
    BY DEF KeysApart
  <2>1. \A o \in Req : Pends(o)' => (Pends(o) /\ req'[o].key = req[o].key)
                                       \/ (o \in P /\ req'[o].key \notin minted)
    <3>1. ~Lone
      BY DEF Lone
    <3>2. \A o \in Req \ P : Pends(o)' => Pends(o) /\ req'[o].key = req[o].key
      BY DEF Pends
    <3> QED BY <3>1, <3>2
  <2> QED BY <1>3, <2>1 DEF Kept, KeysApart
<1>7. RowsDescend
  BY <1>1, <1>2 DEF RowsDescend
<1>8. ASSUME NEW q \in Req PROVE Request(q)'
  <2>1. CASE q \in P
    BY <2>1
  <2>2. CASE q \notin P
    <3>1. Pends(q) => \A r \in rows' : r.key = req[q].key => r \in rows
      BY <1>1, <1>2, <2>2
    <3>2. req[q].pc = "purge" => \A m \in req[q].queue \cup {req[q].node} :
             (sync[m] = "absent" \/ m \in doomed) => (sync'[m] = "absent" \/ m \in doomed')
      <4>1. req[q].pc = "purge" => req[q].queue \cup {req[q].node} \subseteq Node
        BY DEF Kept, IInv, TypeOK, ReqState, RequestsNamed
      <4> QED BY <2>2, <4>1
    <3>3. \A r \in rows' : r.node \notin doomed' \cup exposed' => r.node \notin doomed \cup exposed
      BY <1>1
    <3>4. ASSUME Restoring(q)
          PROVE  LET m == req[q].node
                 IN  /\ sync'[m] = sync[m] /\ ack'[m] = ack[m] /\ (m \in exposed' <=> m \in exposed)
                     /\ Histories(m) \subseteq Histories(m)'
      <4>1. req[q].node \in Node \ {n}
        BY <2>2, <3>4 DEF Restoring, Kept, IInv, RequestsNamed
      <4> QED BY <2>2, <4>1 DEF Histories, Having
    <3>5. Leaves(q)
      BY <2>2, <3>1, <3>2, <3>3, <3>4 DEF Leaves, Sound
    <3> QED BY <1>7, <3>5, RequestStays
  <2> QED BY <2>1, <2>2
<1>9. ASSUME NEW m \in Node PROVE File(m)'
  <2>1. CASE m = n
    BY <2>1
  <2>2. CASE m # n
    <3>1. \A p \in Req : Writing(p)' /\ req'[p].node = m => p \notin P /\ req'[p] = req[p]
      BY <2>2
    <3>2. \A p \in Req : Writing(p)' /\ req'[p].node = m =>
             /\ Writing(p) /\ req'[p].op = req[p].op /\ req'[p].node = req[p].node
             /\ req'[p].key = req[p].key /\ req'[p].prev = req[p].prev
      BY <3>1 DEF Writing
    <3>3. File(m) /\ \A r \in RowsOf(rows, m) : Good(m, r) => RowId(r) \notin gc'.ids
      BY DEF Kept, Good
    <3> QED BY <2>2, <3>2, <3>3, FileStays
  <2> QED BY <2>1, <2>2
<1>10. BlobsThere'
  <2>1. \A r \in rows' : r.node # n =>
           /\ r \in rows /\ (Needed(r)' => Needed(r))
           /\ (r.node \notin doomed' \cup exposed' => r.node \notin doomed \cup exposed)
    BY <1>1, <1>2 DEF Needed
  <2> QED BY <1>1, <2>1 DEF Kept, BlobsThere
<1>11. Collects'
  <2>1. /\ \A i \in gc.ids : i[2] \in minted
        /\ gc.todo \subseteq minted
    BY DEF Kept, KeysMinted
  <2>2. \A i \in gc.ids, r \in rows' : i[2] = r.key => i[1] = r.node
    BY <1>7, <2>1 DEF RowsDescend, Kept, Collects
  <2>3. ASSUME NEW r \in rows', r.node \notin exposed', RowId(r) \in gc.ids \/ r.key \in gc.todo
        PROVE  \E s \in rows : /\ s.key = r.key /\ s.node = r.node /\ r.node \notin exposed
                               /\ RowId(s) = RowId(r) /\ (RowId(s) \in gc.ids => r.st = s.st)
    <3>1. r.key \in minted
      BY <2>1, <2>3 DEF RowId
    <3>2. CASE r.node = n
      BY <1>1, <2>3, <3>1, <3>2 DEF RowId
    <3>3. CASE r.node # n
      BY <1>1, <1>2, <2>3, <3>3
    <3> QED BY <3>2, <3>3
  <2>4. \A q \in Req : Writing(q)' => (Writing(q) /\ req'[q].key = req[q].key) \/ req'[q].key \notin minted
    BY DEF Writing
  <2>5. ASSUME NEW r \in rows', r.node \notin exposed', RowId(r) \in gc.ids
        PROVE  Selected(r)'
    <3>1. PICK s \in rows : /\ s.key = r.key /\ s.node = r.node /\ r.node \notin exposed
                            /\ RowId(s) = RowId(r) /\ r.st = s.st
      BY <2>3, <2>5
    <3>2. Selected(s) /\ r.key \in minted
      BY <2>5, <3>1 DEF Kept, Collects, KeysMinted
    <3> QED BY <2>4, <3>1, <3>2 DEF Selected
  <2>6. ASSUME NEW r \in rows', r.node \notin exposed', gc.pc = "sweep"
        PROVE  r.key \notin gc.todo
    BY <2>3, <2>6 DEF Kept, Collects
  <2> QED BY <2>2, <2>5, <2>6 DEF Kept, Collects
<1> QED BY <1>4, <1>5, <1>6, <1>8, <1>9, <1>10, <1>11 DEF Kept

\* While a request that may restore versions is waiting there is no other.
LEMMA NobodyRestores ==
    ASSUME Kept, Setting, NEW q \in Req, \/ "restoreVersion" \notin Ops
                                         \/ \E p \in Req : p # q
    PROVE  ~Restoring(q)
BY DEF Setting, Lone, Restoring, Kept, Request, RunsItsOp

\* A node not yet created has no row, no acknowledged content, and no request.
LEMMA UnusedIsBare ==
    ASSUME Kept, NEW n \in Node, Unused(n)
    PROVE  /\ RowsOf(rows, n) = {} /\ ack[n] = None /\ sync[n] = "absent"
           /\ \A q \in Req : req[q].node # n /\ n \notin req[q].queue
           /\ Writers(n) = {}
BY DEF Unused, Kept, IInv, NodesExist, RowsOf, File, Writers

\* A file created without its first row was never acknowledged.
LEMMA UploadUnpreparedKept ==
    ASSUME Kept, IInv', NEW n \in Node, UploadUnprepared(n)
    PROVE  Kept'
<1>1. /\ UNCHANGED <<rows, blobs, minted, req, gc, content, ack, doomed, exposed>>
      /\ sync'[n] = "pending_upload" /\ \A m \in Node \ {n} : sync'[m] = sync[m]
  BY DEF UploadUnprepared, ghosts, Kept, IInv, TypeOK
<1>2. /\ RowsOf(rows, n) = {} /\ ack[n] = None /\ sync[n] = "absent"
      /\ \A q \in Req : req[q].node # n /\ n \notin req[q].queue
      /\ Writers(n) = {}
  BY UnusedIsBare DEF UploadUnprepared
<1>3. File(n)'
  BY <1>1, <1>2
     DEF File, OneWriter, HealthyAt, StuckAt, NewestLast, Writers, Writing, Pendings, Having,
         ActiveRows
<1>4. {} \in SUBSET Req /\ OneRowEach(rows')
  BY <1>1 DEF Kept, OneRowPerKey, OneRowEach
<1> QED BY <1>1, <1>2, <1>3, <1>4, OneFileStep

\* TX1 of an upload or an overwrite leaves the rows of other files alone.
LEMMA PrepareOthers ==
    ASSUME Kept, NEW n \in Node, NEW k \in Key, k \notin minted,
           rows' = Evict(Upsert(rows, n, k, "pending"), n, Cap)
    PROVE  /\ \A m \in Node \ {n} : RowsOf(rows', m) = RowsOf(rows, m)
           /\ OneRowEach(rows')
<1>1. WellFormed(rows) /\ OneRowEach(rows) /\ \A r \in rows : r.key # k
  BY DEF Kept, IInv, OneRowPerKey, OneRowEach, KeysMinted
<1>2. /\ \A q \in rows' : q.key = k => q.node = n
      /\ \A q \in rows' : q.key # k => \E r \in rows : q.node = r.node /\ (q = r \/ r.node = n)
      /\ \A r \in rows : \E q \in rows' : q = r \/ r.node = n
      /\ OneRowEach(rows')
  BY <1>1, PrepareRows, CapAssumption
<1> QED BY <1>2 DEF RowsOf

\* A request that has begun to write holds the one pending row of a fresh key.
LEMMA WriterSound ==
    ASSUME NEW p, NEW s, req'[p] = s, s.pc = "put", s.op \in {"upload", "overwrite"},
           \A r \in rows' : r.key = s.key => r.node = s.node /\ r.st = "pending"
    PROVE  Request(p)'
BY DEF Request, RunsItsOp, OwnsRow, Restores, Restoring, Purges, Landed, Found, Writing

\* A new file has one row, pending, and one writer.
LEMMA UploadStartKept ==
    ASSUME Kept, IInv', Setting, NEW p \in Req, NEW n \in Node, NEW k \in Key, UploadStart(p, n, k)
    PROVE  Kept'
<1>1. PICK s : /\ s.op = "upload" /\ s.pc = "put" /\ s.node = n /\ s.key = k /\ s.todo = {}
               /\ Becomes(p, s)
  BY DEF UploadStart, Idle
<1>2. /\ req'[p] = s /\ \A q \in Req \ {p} : req'[q] = req[q]
      /\ sync'[n] = "pending_upload" /\ \A m \in Node \ {n} : sync'[m] = sync[m]
      /\ minted' = minted \cup {k} /\ k \notin minted
      /\ rows' = Evict(Upsert(rows, n, k, "pending"), n, Cap)
      /\ UNCHANGED <<blobs, gc, content, ack, doomed, exposed>>
  BY <1>1 DEF UploadStart, Becomes, Fresh, ghosts, Kept, IInv, TypeOK
<1>3. /\ RowsOf(rows, n) = {} /\ ack[n] = None /\ sync[n] = "absent"
      /\ \A q \in Req : req[q].node # n /\ n \notin req[q].queue
      /\ Writers(n) = {}
  BY UnusedIsBare DEF UploadStart
<1>4. /\ \A m \in Node \ {n} : RowsOf(rows', m) = RowsOf(rows, m)
      /\ OneRowEach(rows')
  BY <1>2, PrepareOthers
<1>5. /\ \A r \in rows' : r.key = k => r.node = n /\ r.st = "pending"
      /\ \A r \in RowsOf(rows', n) : r.key = k /\ r.st = "pending"
  <2>1. WellFormed(rows) /\ \A r \in rows : r.key # k
    BY <1>2 DEF Kept, IInv, KeysMinted
  <2>2. /\ \A q \in rows' : q.key = k => q.node = n /\ q.st = "pending"
        /\ \A q \in rows' : q.key # k => \E r \in rows : q.node = r.node
    BY <1>2, <2>1, PrepareRows, CapAssumption
  <2> QED BY <1>3, <2>2 DEF RowsOf
<1>6. Writers(n)' = {p}
  BY <1>1, <1>2, <1>3 DEF Writers, Writing
<1>7. File(n)'
  <2>1. \A r \in RowsOf(rows', n), q \in RowsOf(rows', n) : r = q
    BY <1>4, <1>5 DEF OneRowEach, RowsOf
  <2>2. Pendings(n)' = RowsOf(rows', n) /\ ActiveRows(rows', n) = {} /\ Histories(n)' = {}
    BY <1>5 DEF Pendings, Histories, ActiveRows, Having
  <2>3. OneWriter(n)'
    BY <1>1, <1>2, <1>5, <1>6, <2>1, <2>2 DEF OneWriter
  <2>4. StuckAt(n)' /\ HealthyAt(n)' /\ NewestLast(n)'
    BY <1>1, <1>2, <1>3, <1>6, <2>2 DEF StuckAt, HealthyAt, NewestLast
  <2> QED BY <1>2, <2>3, <2>4 DEF File
<1>8. Request(p)'
  BY <1>1, <1>2, <1>5, WriterSound
<1>9. \A r \in RowsOf(rows', n) :
         /\ r.key \in minted' /\ (n \in exposed => n \in exposed') /\ (n \in doomed => n \in doomed')
         /\ r.key \notin minted /\ ~Needed(r)'
  BY <1>2, <1>5 DEF Needed
<1> PICK P \in SUBSET Req : P = {p}
  OBVIOUS
<1>10. \A q \in P :
          /\ Request(q)' /\ req'[q].key \in minted' \cup {None} /\ req'[q].todo \subseteq minted'
          /\ req'[q].node = n /\ req'[q].key \notin minted
  BY <1>1, <1>2, <1>8
<1>11. \A q \in Req \ P :
          /\ req'[q] = req[q] /\ n \notin req[q].queue \cup {req[q].node}
          /\ Pends(q) => \A r \in RowsOf(rows', n) : r.key # req[q].key
  <2>1. \A q \in Req : req[q].key \in minted \cup {None} /\ k # None
    BY NoneAssumption DEF Kept, KeysMinted
  <2> QED BY <1>2, <1>3, <1>5, <2>1
<1>12. \A m \in Node \ {n} :
          /\ RowsOf(rows', m) = RowsOf(rows, m) /\ sync'[m] = sync[m] /\ ack'[m] = ack[m]
          /\ m \in exposed' <=> m \in exposed
          /\ m \in doomed' <=> m \in doomed
  BY <1>2, <1>4
<1>13. (\A a, b \in P : a = b) /\ minted \subseteq minted' /\ UNCHANGED <<content, blobs, gc>>
  BY <1>2
<1> QED BY <1>4, <1>7, <1>9, <1>10, <1>11, <1>12, <1>13, OneFileStep

\* A node deleted with its rows: nothing is left of it to be kept.
LEMMA HardDeleteKept ==
    ASSUME Kept, IInv', NEW n \in Node, HardDelete(n), UNCHANGED <<blobs, minted, gc>>,
           NEW P \in SUBSET Req, \A p, q \in P : p = q,
           \A p \in P : /\ Request(p)' /\ ~Writing(p)' /\ ~Pends(p)'
                        /\ req'[p].key \in minted \cup {None} /\ req'[p].todo \subseteq minted,
           \A q \in Req \ P :
              req'[q] = req[q] /\ ~Restoring(q)
    PROVE  Kept'
<1>1. /\ rows' = CascadeDelete(rows, n) /\ UNCHANGED <<content, blobs, gc, minted>>
      /\ sync'[n] = "absent" /\ ack'[n] = None
      /\ doomed' = doomed \ {n} /\ exposed' = exposed \ {n}
      /\ \A m \in Node \ {n} : sync'[m] = sync[m] /\ ack'[m] = ack[m]
  BY DEF HardDelete, Kept, IInv, TypeOK
<1>2. RowsOf(rows', n) = {} /\ \A m \in Node \ {n} : RowsOf(rows', m) = RowsOf(rows, m)
  BY <1>1 DEF CascadeDelete, RowsOf
<1>3. OneRowEach(rows')
  BY <1>1 DEF CascadeDelete, OneRowEach, Kept, OneRowPerKey
<1>4. File(n)'
  BY <1>1 DEF File, Sound
<1>5. \A p \in P :
         /\ Request(p)' /\ ~Writing(p)' /\ ~Pends(p)'
         /\ req'[p].key \in minted' \cup {None} /\ req'[p].todo \subseteq minted'
  BY <1>1
<1>6. \A m \in Node \ {n} :
         /\ RowsOf(rows', m) = RowsOf(rows, m) /\ sync'[m] = sync[m] /\ ack'[m] = ack[m]
         /\ m \in exposed' <=> m \in exposed
         /\ m \in doomed' <=> m \in doomed
  BY <1>1, <1>2
<1> QED BY <1>1, <1>2, <1>3, <1>4, <1>5, <1>6, OneFileStep

\* The same, by a request that ends.
LEMMA DeleteEndsKept ==
    ASSUME Kept, IInv', Setting, NEW p \in Req, req[p].pc \notin {"idle", "head", "headed"},
           HardDelete(req[p].node), Ends(p), UNCHANGED <<blobs, minted, gc>>
    PROVE  Kept'
<1> PICK P \in SUBSET Req : P = {p}
  OBVIOUS
<1>1. req'[p] = Idle /\ \A q \in Req \ {p} : req'[q] = req[q]
  BY DEF Ends, Kept, IInv, TypeOK
<1>2. \A q \in Req \ P :
         req'[q] = req[q] /\ ~Restoring(q)
  BY <1>1, NobodyRestores
<1>3. \A q \in P : /\ Request(q)' /\ ~Writing(q)' /\ ~Pends(q)'
                   /\ req'[q].key \in minted \cup {None} /\ req'[q].todo \subseteq minted
  <2>1. Idle.key = None /\ Idle.todo = {}
    BY DEF Idle
  <2> QED BY <1>1, <2>1, IdleRequest
<1>4. req[p].node \in Node /\ \A a, b \in P : a = b
  BY DEF Kept, IInv, RequestsNamed
<1> QED BY <1>2, <1>3, <1>4, HardDeleteKept

\* A failed upload deletes the node it had created; so does a repair in its delete arm.
LEMMA UploadFailsKept ==
    ASSUME Kept, IInv', Setting, NEW p \in Req, UploadFails(p) \/ RepairKillNode(p)
    PROVE  Kept'
<1>1. /\ req[p].pc \notin {"idle", "head", "headed"} /\ HardDelete(req[p].node) /\ Ends(p)
      /\ UNCHANGED <<blobs, minted, gc>>
  BY DEF UploadFails, RepairKillNode
<1> QED BY <1>1, DeleteEndsKept

\* A purge deletes its node and turns to the next.
LEMMA PurgeNodeKept ==
    ASSUME Kept, IInv', Setting, NEW p \in Req, PurgeNode(p)
    PROVE  Kept'
<1> PICK P \in SUBSET Req : P = {p}
  OBVIOUS
<1>1. /\ req[p].pc = "purge" /\ HardDelete(req[p].node) /\ PurgeNext(p)
      /\ UNCHANGED <<blobs, minted, gc>>
  BY DEF PurgeNode
<1>2. req[p].node \in Node /\ \A a, b \in P : a = b
  BY <1>1 DEF Kept, IInv, RequestsNamed
<1>3. /\ rows' \subseteq rows
      /\ \A m : sync[m] = "absent" \/ m \in doomed => sync'[m] = "absent" \/ m \in doomed'
  BY <1>1, <1>2 DEF HardDelete, CascadeDelete, Kept, IInv, TypeOK
<1>4. /\ Request(p)' /\ ~Writing(p)' /\ ~Pends(p)'
      /\ req'[p].key = None /\ req'[p].todo \subseteq minted
      /\ \A q \in Req \ {p} : req'[q] = req[q]
  BY <1>1, <1>3, PurgeNextSound
<1>5. \A q \in Req \ P :
         req'[q] = req[q] /\ ~Restoring(q)
  BY <1>4, NobodyRestores
<1>6. \A q \in P : /\ Request(q)' /\ ~Writing(q)' /\ ~Pends(q)'
                   /\ req'[q].key \in minted \cup {None} /\ req'[q].todo \subseteq minted
  BY <1>4
<1> QED BY <1>1, <1>2, <1>5, <1>6, HardDeleteKept

\* A repair that deletes a stuck node without a pending row.
LEMMA DeleteAtOnceKept ==
    ASSUME Kept, IInv', Setting, NEW n \in Node, RepairDeleteAtOnce(n)
    PROVE  Kept'
<1> PICK P \in SUBSET Req : P = {}
  OBVIOUS
<1>1. "repair" \in Ops /\ HardDelete(n) /\ UNCHANGED <<blobs, minted, gc, req>>
  BY DEF RepairDeleteAtOnce
<1>2. \A q \in Req \ P :
         req'[q] = req[q] /\ ~Restoring(q)
  BY <1>1, NobodyRestores DEF Setting
<1> QED BY <1>1, <1>2, HardDeleteKept

\* The update of the status of one row: its file's rows but for that one are as they
\* were, and the rows of other files are.
LEMMA RestatedOne ==
    ASSUME OneRowEach(rows), NEW r \in rows, NEW q, q.node = r.node, q.key = r.key,
           rows' = (rows \ {r}) \cup {q}
    PROVE  /\ OneRowEach(rows')
           /\ \A m : m # r.node => RowsOf(rows', m) = RowsOf(rows, m)
           /\ RowsOf(rows', r.node) = (RowsOf(rows, r.node) \ {r}) \cup {q}
           /\ \A s \in rows' : s.key # r.key => s \in rows
<1>1. OneRowEach(rows')
  BY DEF OneRowEach
<1> QED BY <1>1 DEF RowsOf

\* TX2 of an upload or an overwrite: the writer's pending row, the only one, becomes
\* the active row.
LEMMA FinishKept ==
    ASSUME Kept, IInv', Setting, NEW p \in Req, Finish(p)
    PROVE  Kept'
<1> PICK P \in SUBSET Req : P = {p}
  OBVIOUS
<1> PICK n \in Node, k \in Key : n = req[p].node /\ k = req[p].key
  BY DEF Finish, Kept, IInv, RequestsNamed
<1>1. req[p].pc = "landed" /\ Pends(p) /\ Writing(p) /\ p \in Writers(n)
  BY DEF Finish, Pends, Writing, Writers
<1>2. PICK r \in rows : r.key = k /\ r.node = n /\ r.st = "pending"
  BY <1>1 DEF Finish, Known, Kept, Request, OwnsRow
<1>3. /\ rows \subseteq Row /\ OneRowEach(rows) /\ sync[n] # "absent" /\ content[k] = k
      /\ sync \in [Node -> {"absent", "pending_upload", "active"}]
      /\ ack \in [Node -> Key \cup {None}]
  BY <1>1, <1>2 DEF Kept, IInv, TypeOK, OneRowPerKey, OneRowEach, NodesExist
<1>4. /\ sync'[n] = "active" /\ ack'[n] = k
      /\ \A m \in Node \ {n} : sync'[m] = sync[m] /\ ack'[m] = ack[m]
      /\ req'[p] = Idle /\ \A q \in Req \ {p} : req'[q] = req[q]
      /\ UNCHANGED <<blobs, minted, gc, content, doomed, exposed>>
  BY <1>1, <1>3 DEF Finish, SetSync, Tell, Ends, Kept, IInv, TypeOK
<1>5. PICK q : /\ q.node = n /\ q.key = k /\ q.ver = r.ver /\ q.st = "active"
               /\ rows' = (rows \ {r}) \cup {q}
  <2>1. rows' = Restated(rows, r, "active")
    BY <1>2, <1>3, ActivateOne DEF Finish
  <2> QED BY <1>2, <1>3, <2>1, RestatedRows
<1>6. /\ OneRowEach(rows')
      /\ \A m \in Node \ {n} : RowsOf(rows', m) = RowsOf(rows, m)
      /\ RowsOf(rows', n) = (RowsOf(rows, n) \ {r}) \cup {q}
      /\ \A s \in rows' : s.key # k => s \in rows
  <2>1. OneRowEach(rows) /\ q.node = r.node /\ q.key = r.key
    BY <1>2, <1>3, <1>5
  <2>2. rows' = (rows \ {r}) \cup {q}
    BY <1>5
  <2>3. /\ OneRowEach(rows')
        /\ \A m : m # r.node => RowsOf(rows', m) = RowsOf(rows, m)
        /\ RowsOf(rows', r.node) = (RowsOf(rows, r.node) \ {r}) \cup {q}
        /\ \A s \in rows' : s.key # r.key => s \in rows
    BY <2>1, <2>2, RestatedOne
  <2> QED BY <1>2, <2>3
<1>7. File(n)'
  <2> SUFFICES ASSUME n \notin exposed PROVE OneWriter(n)' /\ HealthyAt(n)' /\ StuckAt(n)' /\ NewestLast(n)'
    BY <1>4 DEF File, Sound
  <2>1. OneWriter(n) /\ HealthyAt(n) /\ StuckAt(n) /\ NewestLast(n)
    BY <1>1, <1>3 DEF Kept, File, Sound
  <2>2. sync[n] = "pending_upload" /\ ActiveRows(rows, n) = {}
    BY <1>1, <1>3, <2>1 DEF HealthyAt, StuckAt
  <2>3. Writers(n) = {p} /\ Pendings(n) = {r}
    BY <1>1, <1>2, <2>1 DEF OneWriter, Pendings, Having, RowsOf
  <2>4. Writers(n)' = {}
    BY <1>4, <2>3 DEF Writers, Writing, Idle
  <2>5. /\ ActiveRows(rows', n) = {q} /\ Pendings(n)' = {} /\ Histories(n)' = Histories(n)
        /\ q \in rows'
    BY <1>2, <1>5, <1>6, <2>2, <2>3 DEF ActiveRows, Pendings, Histories, Having
  <2>6. NewestLast(n)'
    <3>1. Having(rows', n, {"active", "pending"}) = {q} /\ r \in Having(rows, n, {"active", "pending"})
      BY <1>2, <2>5 DEF ActiveRows, Pendings, Having, RowsOf
    <3> QED BY <1>5, <2>1, <2>5, <3>1 DEF NewestLast
  <2> QED BY <1>4, <1>5, <2>4, <2>5, <2>6 DEF OneWriter, HealthyAt, StuckAt
<1>8. ASSUME NEW s \in RowsOf(rows', n)
      PROVE  /\ s.key \in minted /\ \E t \in RowsOf(rows, n) :
                   t.key = s.key /\ (n \notin exposed /\ RowId(t) \in gc.ids => s.st = t.st)
             /\ Needed(s)' /\ n \notin doomed \cup exposed => s.key \in blobs
  <2>1. CASE s = q
    <3>1. RowId(r) \in gc.ids => n \in exposed
      BY <1>1, <1>2 DEF Kept, Collects, Selected
    <3>2. n \notin doomed \cup exposed => k \in blobs
      BY <1>1, <1>2, <3>1 DEF Kept, Request, Landed, Found
    <3>3. r \in RowsOf(rows, n) /\ r.key \in minted
      BY <1>2 DEF RowsOf, Kept, KeysMinted
    <3> QED BY <1>2, <1>5, <2>1, <3>1, <3>2, <3>3
  <2>2. CASE s # q
    <3>1. s \in RowsOf(rows, n) /\ s \in rows /\ s.node = n /\ s.key \in minted
      BY <1>6, <2>2 DEF RowsOf, Kept, KeysMinted
    <3>2. Needed(s)' => Needed(s)
      BY <1>4, <3>1 DEF Needed
    <3> QED BY <3>1, <3>2 DEF Kept, BlobsThere
  <2> QED BY <2>1, <2>2
<1>9. \A o \in P : /\ Request(o)' /\ ~Writing(o)' /\ ~Pends(o)'
                   /\ req'[o].key \in minted' \cup {None} /\ req'[o].todo \subseteq minted'
  <2>1. Idle.key = None /\ Idle.todo = {}
    BY DEF Idle
  <2> QED BY <1>4, <2>1, IdleRequest
<1>10. \A o \in Req \ P :
          /\ req'[o] = req[o]
          /\ Pends(o) => \A s \in RowsOf(rows', n) : s.key = req[o].key => s \in rows
          /\ req[o].pc = "purge" /\ n \in req[o].queue \cup {req[o].node} =>
                ((sync[n] = "absent" \/ n \in doomed) => (sync'[n] = "absent" \/ n \in doomed'))
          /\ Restoring(o) => req[o].node # n
  <2>1. \A o \in Req \ P : Pends(o) => req[o].key # k
    BY <1>1 DEF Kept, KeysApart
  <2>2. \A s \in RowsOf(rows', n) : s \in rows'
    BY DEF RowsOf
  <2> QED BY <1>3, <1>4, <1>6, <2>1, <2>2, NobodyRestores
<1>11. \A m \in Node \ {n} :
          /\ RowsOf(rows', m) = RowsOf(rows, m) /\ sync'[m] = sync[m] /\ ack'[m] = ack[m]
          /\ m \in exposed' <=> m \in exposed
          /\ m \in doomed' <=> m \in doomed
  BY <1>4, <1>6
<1>12. /\ (\A a, b \in P : a = b) /\ minted \subseteq minted' /\ UNCHANGED <<content, blobs, gc>>
       /\ OneRowEach(rows')
       /\ \A s \in RowsOf(rows', n) :
              /\ s.key \in minted' /\ (n \in exposed => n \in exposed') /\ (n \in doomed => n \in doomed')
              /\ \/ s.key \notin minted
                 \/ \E t \in RowsOf(rows, n) :
                       t.key = s.key /\ (n \notin exposed' /\ RowId(t) \in gc.ids => s.st = t.st)
              /\ Needed(s)' /\ n \notin doomed' \cup exposed' => s.key \in blobs
  BY <1>1, <1>3, <1>4, <1>6, <1>8
<1> QED BY <1>7, <1>9, <1>10, <1>11, <1>12, OneFileStep

\* TX1 of an overwrite of a sound file: the row that was active is the good row of a
\* stuck file now, and the writer will go back to it.
LEMMA OverwriteStartKept ==
    ASSUME Kept, IInv', Setting, NEW p \in Req, NEW n \in Node, NEW k \in Key, OverwriteStart(p, n, k)
    PROVE  Kept'
<1> PICK P \in SUBSET Req : P = {p}
  OBVIOUS
<1>0. /\ k \notin minted /\ sync[n] # "absent" /\ Prepare(p, n, k, rows, minted) /\ Risks(n)
      /\ UNCHANGED <<blobs, gc, content, ack, doomed>>
  BY DEF OverwriteStart, Fresh, Live
<1> PICK prev \in (IF ActiveRows(rows, n) = {} THEN {None} ELSE {r.key : r \in ActiveRows(rows, n)}) :
       Becomes(p, [Idle EXCEPT !.op = "overwrite", !.pc = "put", !.node = n, !.key = k,
                               !.prev = prev])
  BY <1>0 DEF Prepare
<1>1. PICK s : /\ s.op = "overwrite" /\ s.pc = "put" /\ s.node = n /\ s.key = k /\ s.todo = {}
               /\ s.prev = prev /\ Becomes(p, s)
  BY DEF Idle
<1>2. /\ req'[p] = s /\ \A q \in Req \ {p} : req'[q] = req[q]
      /\ sync'[n] = "pending_upload" /\ \A m \in Node \ {n} : sync'[m] = sync[m]
      /\ minted' = minted \cup {k} /\ UNCHANGED <<blobs, gc, content, ack, doomed>>
      /\ rows' = Evict(Upsert(rows, n, k, "pending"), n, Cap)
      /\ exposed' = IF ActiveRows(rows, n) = {} THEN exposed \cup {n} ELSE exposed
  BY <1>0, <1>1 DEF Prepare, Becomes, SetSync, Risks, Kept, IInv, TypeOK
<1>3. /\ \A m \in Node \ {n} : RowsOf(rows', m) = RowsOf(rows, m)
      /\ OneRowEach(rows')
  BY <1>0, <1>2, PrepareOthers
<1>4. /\ \A q \in rows' : q.key = k =>
            q.node = n /\ q.st = "pending" /\ \A r \in RowsOf(rows, n) : r.ver <= q.ver
      /\ \A q \in rows' : q.key # k => \E r \in rows :
            /\ q.node = r.node /\ q.key = r.key /\ q.ver = r.ver
            /\ \/ q = r
               \/ r.node = n /\ r.st \in {"active", "history"} /\ q.st \in {"history", "orphaned"}
      /\ \A r \in rows : \E q \in rows' :
            /\ q.node = r.node /\ q.key = r.key /\ q.ver = r.ver
            /\ \/ q = r
               \/ r.node = n /\ r.st \in {"active", "history"} /\ q.st \in {"history", "orphaned"}
      /\ ActiveRows(rows', n) = {}
      /\ \A r \in Having(rows, n, {"active", "history"}) :
            (\A q \in Having(rows, n, {"active", "history"}) : q.ver <= r.ver) =>
               \E q \in rows' : q.node = n /\ q.key = r.key /\ q.ver = r.ver /\ q.st = "history"
  <2>1. WellFormed(rows) /\ \A r \in rows : r.key # k
    BY <1>0 DEF Kept, IInv, KeysMinted
  <2> QED BY <1>2, <2>1, PrepareRows, CapAssumption
<1>5. ASSUME n \notin exposed'
      PROVE  /\ Sound(n) /\ sync[n] = "active" /\ NewestLast(n) /\ Writers(n) = {} /\ Pendings(n) = {}
             /\ \E r \in rows : ActiveRows(rows, n) = {r} /\ r.key = ack[n] /\ prev = r.key
  <2>1. Sound(n) /\ ActiveRows(rows, n) # {}
    BY <1>0, <1>2, <1>5 DEF Sound
  <2>2. sync[n] = "active"
    BY <2>1, <1>0 DEF Kept, File, StuckAt, IInv, TypeOK
  <2>3. PICK r \in rows : ActiveRows(rows, n) = {r} /\ r.key = ack[n]
    BY <2>1, <2>2 DEF Kept, File, HealthyAt
  <2>4. prev = r.key
    BY <2>3
  <2> QED BY <2>1, <2>2, <2>3, <2>4 DEF Kept, File, HealthyAt
<1>6. ASSUME NEW t \in RowsOf(rows', n), t.key # k
      PROVE  \E r \in RowsOf(rows, n) :
                /\ t.key = r.key /\ t.ver = r.ver /\ t.key \in minted
                /\ t = r \/ (r.st \in {"active", "history"} /\ t.st \in {"history", "orphaned"})
  BY <1>4, <1>6 DEF RowsOf, Kept, KeysMinted
<1>7. File(n)'
  <2> SUFFICES ASSUME n \notin exposed'
               PROVE  OneWriter(n)' /\ HealthyAt(n)' /\ StuckAt(n)' /\ NewestLast(n)'
    BY <1>2 DEF File, Sound
  <2>1. PICK r \in rows : ActiveRows(rows, n) = {r} /\ r.key = ack[n] /\ prev = r.key
    BY <1>5
  <2>2. Writers(n)' = {p}
    BY <1>1, <1>2, <1>5 DEF Writers, Writing
  <2>3. \A q \in Pendings(n)' : q.key = k
    <3> SUFFICES ASSUME NEW q \in Pendings(n)', q.key # k PROVE FALSE
      OBVIOUS
    <3>1. q \in RowsOf(rows', n) /\ q.st = "pending"
      BY DEF Pendings, Having
    <3>2. q \in Pendings(n)
      BY <1>6, <3>1 DEF Pendings, Having
    <3> QED BY <1>5, <3>2
  <2>4. OneWriter(n)'
    BY <1>1, <1>2, <1>3, <2>2, <2>3 DEF OneWriter, OneRowEach, Pendings, Having, RowsOf
  <2>5. \A q \in Histories(n)' : \E t \in Having(rows, n, {"active", "history"}) : q.ver = t.ver
    <3> SUFFICES ASSUME NEW q \in Histories(n)'
                 PROVE  \E t \in Having(rows, n, {"active", "history"}) : q.ver = t.ver
      OBVIOUS
    <3>1. q \in RowsOf(rows', n) /\ q.st = "history" /\ q.key # k
      BY <1>4 DEF Histories, Having, RowsOf
    <3> QED BY <1>6, <3>1 DEF Having
  <2>6. "restoreVersion" \notin Ops => \A t \in Having(rows, n, {"active", "history"}) : t.ver <= r.ver
    <3> SUFFICES ASSUME "restoreVersion" \notin Ops, NEW t \in Having(rows, n, {"active", "history"})
                 PROVE  t.ver <= r.ver
      OBVIOUS
    <3>1. r \in Having(rows, n, {"active", "pending"})
      BY <2>1 DEF ActiveRows, Having
    <3>2. CASE t \in Histories(n)
      BY <1>5, <3>1, <3>2 DEF NewestLast
    <3>3. CASE t \notin Histories(n)
      <4>1. t = r /\ r.ver \in Nat
        BY <2>1, <3>3 DEF ActiveRows, Histories, Having, Kept, IInv, TypeOK, Row
      <4> QED BY <4>1
    <3> QED BY <3>2, <3>3
  <2>7. RowId(r) \notin gc.ids /\ r \in Having(rows, n, {"active", "history"}) /\ ack[n] # None
    BY <1>5, <2>1, NoneAssumption
       DEF ActiveRows, Having, RowsOf, Kept, Collects, Selected, Sound, IInv, TypeOK, Row
  <2>8. \E g \in RowsOf(rows', n) : Good(n, g)'
    <3>1. CASE "restoreVersion" \notin Ops
      <4>1. PICK g \in rows' : g.node = n /\ g.key = r.key /\ g.ver = r.ver /\ g.st = "history"
        BY <1>4, <2>6, <2>7, <3>1
      <4>2. RowId(g) = RowId(r) /\ g \in RowsOf(rows', n)
        BY <2>7, <4>1 DEF RowId, RowsOf, Having
      <4> QED BY <1>2, <2>1, <2>5, <2>6, <2>7, <3>1, <4>1, <4>2 DEF Good
    <3>2. CASE "restoreVersion" \in Ops
      <4>1. PICK g \in rows' : /\ g.node = n /\ g.key = r.key
                               /\ g = r \/ g.st \in {"history", "orphaned"}
        BY <1>4, <2>7 DEF Having, RowsOf
      <4>2. RowId(g) = RowId(r) /\ g \in RowsOf(rows', n)
        BY <2>7, <4>1 DEF RowId, RowsOf, Having
      <4>3. g.st # "active"
        BY <1>4, <4>2 DEF ActiveRows, Having
      <4>4. r.st = "active"
        BY <2>1 DEF ActiveRows, Having
      <4> QED BY <1>2, <2>1, <2>7, <3>2, <4>1, <4>2, <4>3, <4>4 DEF Good
    <3> QED BY <3>1, <3>2
  <2>9. StuckAt(n)' /\ HealthyAt(n)'
    BY <1>1, <1>2, <1>4, <2>1, <2>2, <2>7, <2>8 DEF StuckAt, HealthyAt
  <2>10. NewestLast(n)'
    <3> SUFFICES ASSUME NEW a \in Having(rows', n, {"active", "pending"}), NEW q \in Histories(n)'
                 PROVE  q.ver <= a.ver
      BY DEF NewestLast
    <3>1. a \in Pendings(n)' /\ a \in rows'
      BY <1>4 DEF ActiveRows, Pendings, Having, RowsOf
    <3>2. \A t \in RowsOf(rows, n) : t.ver <= a.ver
      BY <1>4, <2>3, <3>1
    <3> QED BY <2>5, <3>2 DEF Having
  <2> QED BY <2>4, <2>9, <2>10
<1>8. ASSUME NEW t \in RowsOf(rows', n)
      PROVE  /\ t.key \in minted' /\ (n \in exposed => n \in exposed') /\ (n \in doomed => n \in doomed')
             /\ \/ t.key \notin minted
                \/ \E r \in RowsOf(rows, n) :
                      r.key = t.key /\ (n \notin exposed' /\ RowId(r) \in gc.ids => t.st = r.st)
             /\ Needed(t)' /\ n \notin doomed' \cup exposed' => t.key \in blobs
  <2>1. CASE t.key = k
    <3>1. ~Needed(t)'
      BY <1>4, <2>1 DEF Needed, RowsOf
    <3> QED BY <1>0, <1>2, <2>1, <3>1
  <2>2. CASE t.key # k
    <3>1. PICK r \in RowsOf(rows, n) :
             /\ t.key = r.key /\ t.ver = r.ver /\ t.key \in minted
             /\ t = r \/ (r.st \in {"active", "history"} /\ t.st \in {"history", "orphaned"})
      BY <1>6, <2>2
    <3>2. r \in rows /\ r.node = n /\ (n \notin exposed' => n \notin exposed)
      BY <1>2 DEF RowsOf
    <3>3. n \notin exposed' /\ RowId(r) \in gc.ids => t.st = r.st
      BY <3>1, <3>2 DEF Kept, Collects, Selected
    <3>4. Needed(t)' /\ n \notin doomed' \cup exposed' => t.key \in blobs
      <4> SUFFICES ASSUME Needed(t)', n \notin doomed' \cup exposed' PROVE Needed(r)
        BY <1>2, <3>1, <3>2 DEF Kept, BlobsThere
      <4>1. PICK a \in rows : ActiveRows(rows, n) = {a} /\ a.key = ack[n]
        BY <1>5
      <4>2. CASE r.st \in {"active", "history"}
        BY <4>2 DEF Needed
      <4>3. CASE t = r
        <5>1. a.st = "active" /\ (r.key = a.key => r = a)
          BY <3>2, <4>1 DEF ActiveRows, Having, Kept, OneRowPerKey
        <5> QED BY <1>2, <3>2, <4>1, <4>3, <5>1 DEF Needed
      <4> QED BY <3>1, <4>2, <4>3
    <3> QED BY <1>2, <3>1, <3>3, <3>4
  <2> QED BY <2>1, <2>2
<1>9. Request(p)'
  BY <1>1, <1>2, <1>4, WriterSound
<1>10. \A q \in P :
          /\ Request(q)' /\ req'[q].key \in minted' \cup {None} /\ req'[q].todo \subseteq minted'
          /\ req'[q].node = n /\ req'[q].key \notin minted
  BY <1>0, <1>1, <1>2, <1>9
<1>11. \A q \in Req \ P :
          /\ req'[q] = req[q]
          /\ Pends(q) => \A t \in RowsOf(rows', n) : t.key = req[q].key => t \in rows
          /\ (sync[n] = "absent" \/ n \in doomed) => (sync'[n] = "absent" \/ n \in doomed')
          /\ Restoring(q) => req[q].node # n
  <2>1. ASSUME NEW q \in Req, Pends(q), NEW t \in RowsOf(rows', n), t.key = req[q].key
        PROVE  t \in rows
    <3>1. t.key # k
      BY <1>0, <2>1, NoneAssumption DEF Kept, KeysMinted
    <3>2. PICK r \in RowsOf(rows, n) :
             /\ t.key = r.key
             /\ t = r \/ (r.st \in {"active", "history"} /\ t.st \in {"history", "orphaned"})
      BY <1>6, <3>1
    <3> QED BY <2>1, <3>2 DEF RowsOf, Kept, Request, OwnsRow
  <2> QED BY <1>0, <1>2, <2>1, NobodyRestores
<1>12. \A m \in Node \ {n} :
          /\ RowsOf(rows', m) = RowsOf(rows, m) /\ sync'[m] = sync[m] /\ ack'[m] = ack[m]
          /\ m \in exposed' <=> m \in exposed
          /\ m \in doomed' <=> m \in doomed
  BY <1>2, <1>3
<1>13. (\A a, b \in P : a = b) /\ minted \subseteq minted' /\ UNCHANGED <<content, blobs, gc>>
  BY <1>2
<1> QED BY <1>3, <1>7, <1>8, <1>10, <1>11, <1>12, <1>13, OneFileStep

\* A row that a request's key names, if it is there, is its pending row.
LEMMA OwnPending ==
    ASSUME Kept, NEW p \in Req, Pends(p), NEW r \in rows, r.key = req[p].key
    PROVE  r.node = req[p].node /\ r.st = "pending"
BY DEF Kept, Request, OwnsRow

\* The rollback of an overwrite: the good row is active again, and the new row is gone.
LEMMA OverwriteFailsKept ==
    ASSUME Kept, IInv', Setting, NEW p \in Req, OverwriteFails(p)
    PROVE  Kept'
<1> PICK P \in SUBSET Req : P = {p}
  OBVIOUS
<1> PICK n \in Node, k \in Key : n = req[p].node /\ k = req[p].key
  BY DEF OverwriteFails, Kept, IInv, RequestsNamed
<1> PICK prev : prev = req[p].prev
  OBVIOUS
<1>0. PICK R : R = Reactivate(rows, n, prev)
  OBVIOUS
<1>1. Pends(p) /\ Writing(p) /\ p \in Writers(n) /\ req[p].op = "overwrite" /\ k \in minted
  BY NoneAssumption DEF OverwriteFails, Pends, Writing, Writers, Kept, KeysMinted
<1>2. /\ rows \subseteq Row /\ OneRowEach(rows) /\ exposed' = exposed
      /\ sync \in [Node -> {"absent", "pending_upload", "active"}]
      /\ \A r \in rows : r.node = n => sync[n] # "absent"
  BY DEF Kept, IInv, TypeOK, OneRowPerKey, OneRowEach, NodesExist, OverwriteFails, ghosts
<1>3. /\ sync'[n] = IF sync[n] = "absent" THEN "absent" ELSE "active"
      /\ \A m \in Node \ {n} : sync'[m] = sync[m]
      /\ Goes(p, "undo")
      /\ UNCHANGED <<blobs, minted, gc, content, ack, doomed, exposed>>
  BY <1>2 DEF OverwriteFails, SetSync, ghosts
<1>4. /\ req'[p].pc = "undo" /\ req'[p].op = req[p].op /\ req'[p].node = n /\ req'[p].key = k
      /\ req'[p].todo = req[p].todo /\ \A q \in Req \ {p} : req'[q] = req[q]
  <2>1. req[p] \in ReqState /\ req' = [req EXCEPT ![p].pc = "undo"]
    BY <1>3 DEF Goes, Kept, IInv, TypeOK
  <2> QED BY <2>1 DEF ReqState, Kept, IInv, TypeOK
<1>5. /\ \A r \in rows : ~Restorable(r, n, prev) => r \in R
      /\ \A r \in rows : Restorable(r, n, prev) =>
            \E q \in R : q.node = n /\ q.key = prev /\ q.ver = r.ver /\ q.st = "active"
      /\ \A q \in R :
            \/ q \in rows /\ ~Restorable(q, n, prev)
            \/ /\ q.node = n /\ q.key = prev /\ q.st = "active"
               /\ \E r \in rows : Restorable(r, n, prev) /\ q.ver = r.ver
      /\ OneRowEach(R)
  BY <1>0, <1>2, ReactivateRows
<1>6. \A r \in R : r.key = k => r \in rows /\ r.st = "pending"
  <2> SUFFICES ASSUME NEW r \in R, r.key = k PROVE r \in rows /\ r.st = "pending"
    OBVIOUS
  <2>1. CASE r \in rows
    BY <1>1, <2>1, OwnPending
  <2>2. CASE r \notin rows
    <3>1. PICK g \in rows : Restorable(g, n, prev) /\ prev = k
      BY <1>5, <2>2
    <3> QED BY <1>1, <3>1, OwnPending DEF Restorable
  <2> QED BY <2>1, <2>2
<1>7. rows' = {r \in R : r.key # k}
  <2> PICK new : new = {r \in R : r.key = k /\ r.st \in {"pending", "active"}}
    OBVIOUS
  <2>1. IF new = {} THEN rows' = R ELSE \E r \in new : rows' = R \ {r}
    BY <1>0 DEF OverwriteFails
  <2>2. new = {r \in R : r.key = k}
    BY <1>6
  <2> QED BY <1>5, <2>1, <2>2 DEF OneRowEach
<1>8. /\ OneRowEach(rows')
      /\ \A m \in Node \ {n} : RowsOf(rows', m) = RowsOf(rows, m)
  <2>1. OneRowEach(rows')
    BY <1>5, <1>7 DEF OneRowEach
  <2>2. \A r \in rows : r.key = k => r.node = n
    BY <1>1, OwnPending
  <2> QED BY <1>5, <1>7, <2>1, <2>2 DEF RowsOf, Restorable
<1>9. ASSUME Sound(n)
      PROVE  /\ sync[n] = "pending_upload" /\ prev = ack[n] /\ ActiveRows(rows, n) = {}
             /\ Writers(n) = {p} /\ OneWriter(n)
             /\ \E g \in RowsOf(rows, n) : Good(n, g)
  <2>1. OneWriter(n) /\ HealthyAt(n) /\ StuckAt(n)
    BY <1>9 DEF Kept, File
  <2>2. sync[n] = "pending_upload"
    BY <1>1, <1>2, <1>9, <2>1 DEF HealthyAt, Sound
  <2>3. Writers(n) = {p}
    BY <1>1, <2>1 DEF OneWriter
  <2>4. ack[n] # None /\ prev = ack[n] /\ ActiveRows(rows, n) = {}
    BY <1>1, <2>1, <2>2 DEF StuckAt
  <2>5. \E g \in RowsOf(rows, n) : Good(n, g)
    BY <2>1, <2>2, <2>4 DEF StuckAt
  <2> QED BY <2>1, <2>2, <2>3, <2>4, <2>5
<1>10. File(n)'
  <2>1. sync'[n] = "absent" => ack'[n] = None
    BY <1>3 DEF Kept, File
  <2> SUFFICES ASSUME Sound(n)
               PROVE  OneWriter(n)' /\ HealthyAt(n)' /\ StuckAt(n)' /\ NewestLast(n)'
    BY <1>3, <2>1 DEF File, Sound
  <2>2. PICK g \in RowsOf(rows, n) : Good(n, g)
    BY <1>9
  <2>3. g \in rows /\ g.node = n /\ Restorable(g, n, prev)
    BY <1>9, <2>2 DEF Good, Restorable, RowsOf
  <2>4. PICK q \in R : q.node = n /\ q.key = prev /\ q.ver = g.ver /\ q.st = "active"
    BY <1>5, <2>3
  <2>5. q \in rows' /\ prev # k
    BY <1>6, <1>7, <2>4
  <2>6. ActiveRows(rows', n) = {q}
    <3>1. \A r \in rows : r.node = n => r.st # "active"
      BY <1>9 DEF ActiveRows, Having, RowsOf
    <3>2. \A r \in rows' : r.node = n /\ r.st = "active" => r.key = prev
      BY <1>5, <1>7, <3>1
    <3> QED BY <1>8, <2>4, <2>5, <3>2 DEF OneRowEach, ActiveRows, Having, RowsOf
  <2>7. Writers(n)' = {}
    BY <1>4, <1>9 DEF Writers, Writing
  <2>8. Pendings(n)' = {}
    <3>1. \A r \in Pendings(n) : r.key = k
      BY <1>9 DEF OneWriter
    <3>2. \A r \in Pendings(n)' : r \in Pendings(n) /\ r.key # k
      BY <1>5, <1>7 DEF Pendings, Having, RowsOf
    <3> QED BY <3>1, <3>2
  <2>9. Histories(n)' \subseteq Histories(n)
    BY <1>5, <1>7 DEF Histories, Having, RowsOf
  <2>10. NewestLast(n)'
    <3>1. Having(rows', n, {"active", "pending"}) = {q}
      BY <2>6, <2>8 DEF ActiveRows, Pendings, Having
    <3>2. "restoreVersion" \notin Ops => \A r \in Histories(n) : r.ver <= g.ver
      BY <2>2 DEF Good
    <3> QED BY <2>4, <2>9, <3>1, <3>2 DEF NewestLast
  <2>11. HealthyAt(n)' /\ OneWriter(n)' /\ StuckAt(n)'
    BY <1>3, <1>9, <2>4, <2>5, <2>6, <2>7, <2>8 DEF HealthyAt, OneWriter, StuckAt
  <2> QED BY <2>10, <2>11
<1>11. ASSUME NEW t \in RowsOf(rows', n)
       PROVE  /\ t.key \in minted' /\ (n \in exposed => n \in exposed') /\ (n \in doomed => n \in doomed')
              /\ \/ t.key \notin minted
                 \/ \E r \in RowsOf(rows, n) :
                       r.key = t.key /\ (n \notin exposed' /\ RowId(r) \in gc.ids => t.st = r.st)
              /\ Needed(t)' /\ n \notin doomed' \cup exposed' => t.key \in blobs
  <2>1. CASE t \in rows
    <3>1. t \in RowsOf(rows, n) /\ t.node = n /\ t.key \in minted
      BY <2>1 DEF RowsOf, Kept, KeysMinted
    <3>2. Needed(t)' => Needed(t)
      BY <1>2, <1>3, <2>1, <3>1 DEF Needed
    <3> QED BY <1>3, <2>1, <3>1, <3>2 DEF Kept, BlobsThere
  <2>2. CASE t \notin rows
    <3>1. PICK r \in rows : Restorable(r, n, prev) /\ t.key = prev /\ t.node = n
      BY <1>5, <1>7, <2>2 DEF RowsOf
    <3>2. r \in RowsOf(rows, n) /\ r.key = t.key /\ r.node = n /\ t.key \in minted
      BY <3>1 DEF Restorable, RowsOf, Kept, KeysMinted
    <3>3. ASSUME n \notin exposed
          PROVE  RowId(r) \notin gc.ids /\ Needed(r)
      <4>1. Sound(n)
        BY <1>2, <3>2, <3>3 DEF Sound
      <4>2. PICK g \in RowsOf(rows, n) : Good(n, g)
        BY <1>9, <4>1
      <4>3. g = r
        BY <1>2, <1>9, <3>1, <3>2, <4>1, <4>2 DEF Good, OneRowEach, RowsOf, Restorable
      <4> QED BY <1>9, <3>2, <4>1, <4>2, <4>3 DEF Good, Needed
    <3> QED BY <1>3, <3>2, <3>3 DEF Kept, BlobsThere
  <2> QED BY <2>1, <2>2
<1>12. Request(p)'
  BY <1>1, <1>4, <1>7 DEF Request, RunsItsOp, OwnsRow, Restores, Restoring, Purges, Landed, Found, Writing
<1>13. \A o \in P :
          /\ Request(o)' /\ req'[o].key \in minted' \cup {None} /\ req'[o].todo \subseteq minted'
          /\ ~Writing(o)'
          /\ Pends(o)' => (Pends(o) /\ req'[o].key = req[o].key) \/ req'[o].key \notin minted \/ Lone
  BY <1>1, <1>3, <1>4, <1>12 DEF Writing, Kept, KeysMinted
<1>14. \A o \in Req \ P :
          /\ req'[o] = req[o]
          /\ Pends(o) => \A t \in RowsOf(rows', n) : t.key = req[o].key => t \in rows
          /\ (sync[n] = "absent" \/ n \in doomed) => (sync'[n] = "absent" \/ n \in doomed')
          /\ Restoring(o) => req[o].node # n
  <2>1. ASSUME NEW o \in Req, Pends(o), NEW t \in RowsOf(rows', n), t.key = req[o].key
        PROVE  t \in rows
    <3> SUFFICES ASSUME t \notin rows PROVE FALSE
      OBVIOUS
    <3>1. PICK r \in rows : Restorable(r, n, prev) /\ t.key = prev
      BY <1>5, <1>7 DEF RowsOf
    <3> QED BY <2>1, <3>1, OwnPending DEF Restorable
  <2> QED BY <1>3, <1>4, <2>1, NobodyRestores
<1>15. \A m \in Node \ {n} :
          /\ RowsOf(rows', m) = RowsOf(rows, m) /\ sync'[m] = sync[m] /\ ack'[m] = ack[m]
          /\ m \in exposed' <=> m \in exposed
          /\ m \in doomed' <=> m \in doomed
  BY <1>3, <1>8
<1>16. (\A a, b \in P : a = b) /\ minted \subseteq minted' /\ UNCHANGED <<content, blobs, gc>>
  BY <1>3
<1>17. OneRowEach(rows')
  BY <1>8
<1> QED BY <1>10, <1>11, <1>13, <1>14, <1>15, <1>16, <1>17, OneFileStep

\* The swap of a restore: the chosen version is active, the one that was is history.
LEMMA RestoreSwapKept ==
    ASSUME Kept, IInv', Setting, NEW p \in Req, RestoreVersionSwap(p)
    PROVE  Kept'
<1> PICK P \in SUBSET Req : P = {p}
  OBVIOUS
<1> PICK n \in Node, k \in Key : n = req[p].node /\ k = req[p].key
  BY DEF RestoreVersionSwap, Kept, IInv, RequestsNamed
<1>0. PICK R : R = Reactivate(rows, n, k)
  OBVIOUS
<1>1. PICK prev : prev = req[p].prev
  OBVIOUS
<1>2. Restoring(p) /\ "restoreVersion" \in Ops /\ Lone
  BY DEF RestoreVersionSwap, Restoring, Kept, Request, RunsItsOp, Setting
<1>3. /\ rows \subseteq Row /\ R \subseteq Row /\ OneRowEach(rows) /\ content[k] = k
      /\ sync \in [Node -> {"absent", "pending_upload", "active"}]
      /\ ack \in [Node -> Key \cup {None}]
      /\ \A r \in rows : r.node = n => sync[n] # "absent"
  BY <1>0, ReactivateWellFormed DEF Kept, IInv, TypeOK, WellFormed, OneRowPerKey, OneRowEach, NodesExist
<1>4. /\ sync[n] # "absent" => sync'[n] = "active" /\ ack'[n] = k
      /\ sync[n] = "absent" => sync'[n] = "absent" /\ ack'[n] = ack[n]
      /\ \A m \in Node \ {n} : sync'[m] = sync[m] /\ ack'[m] = ack[m]
      /\ rows' = DemoteByKey(R, prev) /\ req'[p] = Idle
      /\ UNCHANGED <<blobs, minted, gc, content, doomed, exposed>>
  BY <1>0, <1>1, <1>3 DEF RestoreVersionSwap, SetSync, Tell, Ends, Kept, IInv, TypeOK
<1>5. /\ \A r \in rows : ~Restorable(r, n, k) => r \in R
      /\ \A r \in rows : Restorable(r, n, k) =>
            \E q \in R : q.node = n /\ q.key = k /\ q.ver = r.ver /\ q.st = "active"
      /\ \A q \in R :
            \/ q \in rows /\ ~Restorable(q, n, k)
            \/ /\ q.node = n /\ q.key = k /\ q.st = "active"
               /\ \E r \in rows : Restorable(r, n, k) /\ q.ver = r.ver
      /\ OneRowEach(R)
  BY <1>0, <1>3, ReactivateRows
<1>6. /\ \A r \in R : ~(r.key = prev /\ r.st = "active") => r \in rows'
      /\ \A r \in R : r.key = prev /\ r.st = "active" =>
            \E q \in rows' : q.node = r.node /\ q.key = prev /\ q.ver = r.ver /\ q.st = "history"
      /\ \A q \in rows' :
            \/ q \in R /\ ~(q.key = prev /\ q.st = "active")
            \/ /\ q.key = prev /\ q.st = "history"
               /\ \E r \in R : /\ r.key = prev /\ r.st = "active"
                               /\ q.node = r.node /\ q.ver = r.ver
      /\ OneRowEach(rows')
  BY <1>3, <1>4, <1>5, DemoteRows
<1>7. \A r \in R : r.key = prev => r.node = n
  BY <1>1, <1>2, <1>5 DEF Kept, Request, Restores
<1>8. \A m \in Node \ {n} : RowsOf(rows', m) = RowsOf(rows, m)
  <2>1. \A m \in Node \ {n} : RowsOf(R, m) = RowsOf(rows, m)
    BY <1>5 DEF RowsOf, Restorable
  <2>2. \A m \in Node \ {n} : RowsOf(rows', m) = RowsOf(R, m)
    BY <1>6, <1>7 DEF RowsOf
  <2> QED BY <2>1, <2>2
<1>9. ASSUME Sound(n)
      PROVE  /\ sync[n] = "active" /\ Writers(n) = {} /\ Pendings(n) = {} /\ prev # k
             /\ \E a \in rows : ActiveRows(rows, n) = {a} /\ a.key = prev
             /\ \E h \in rows : h.node = n /\ h.key = k /\ h.st = "history"
  <2>1. /\ sync[n] = "active" /\ prev = ack[n] /\ HealthyAt(n)
        /\ \E h \in Histories(n) : h.key = k
    BY <1>1, <1>2, <1>9 DEF Kept, File, Request, Restores
  <2>2. PICK a \in rows : ActiveRows(rows, n) = {a} /\ a.key = prev
    BY <2>1 DEF HealthyAt
  <2>3. PICK h \in rows : h.node = n /\ h.key = k /\ h.st = "history"
    BY <2>1 DEF Histories, Having, RowsOf
  <2>4. a.st = "active"
    BY <2>2 DEF ActiveRows, Having
  <2> QED BY <1>3, <2>1, <2>2, <2>3, <2>4 DEF HealthyAt, OneRowEach
<1>10. File(n)'
  <2>1. sync'[n] = "absent" => ack'[n] = None
    BY <1>4 DEF Kept, File
  <2> SUFFICES ASSUME Sound(n)
               PROVE  OneWriter(n)' /\ HealthyAt(n)' /\ StuckAt(n)' /\ NewestLast(n)'
    BY <1>4, <2>1 DEF File, Sound
  <2>2. PICK a \in rows : ActiveRows(rows, n) = {a} /\ a.key = prev
    BY <1>9
  <2>3. PICK h \in rows : h.node = n /\ h.key = k /\ h.st = "history"
    BY <1>9
  <2>4. PICK q \in R : q.node = n /\ q.key = k /\ q.st = "active"
    BY <1>5, <2>3 DEF Restorable
  <2>5. q \in rows'
    BY <1>6, <1>9, <2>4
  <2>6. ActiveRows(rows', n) = {q}
    <3>1. \A r \in rows : r.node = n /\ r.st = "active" => r.key = prev
      BY <2>2 DEF ActiveRows, Having, RowsOf
    <3>2. \A r \in rows' : r.node = n /\ r.st = "active" => r.key = k
      BY <1>5, <1>6, <3>1
    <3> QED BY <1>6, <2>4, <2>5, <3>2 DEF OneRowEach, ActiveRows, Having, RowsOf
  <2>7. Writers(n)' = {}
    BY <1>2, <1>4 DEF Writers, Writing, Idle, Lone
  <2>8. Pendings(n)' = {}
    BY <1>5, <1>6, <1>9 DEF Pendings, Having, RowsOf
  <2> QED BY <1>2, <1>4, <1>9, <2>4, <2>5, <2>6, <2>7, <2>8
          DEF HealthyAt, OneWriter, StuckAt, NewestLast
<1>11. ASSUME NEW t \in RowsOf(rows', n)
       PROVE  \E r \in RowsOf(rows, n) :
                 /\ r.key = t.key
                 /\ \/ t = r
                    \/ n \notin exposed => r.st \in {"active", "history"}
  <2>1. PICK u \in R : /\ u.key = t.key /\ u.node = n
                       /\ t = u \/ (u.key = prev /\ u.st = "active")
    BY <1>6 DEF RowsOf
  <2>2. PICK r \in rows : /\ r.key = u.key /\ r.node = n
                          /\ u = r \/ Restorable(r, n, k)
    BY <1>5, <2>1 DEF Restorable
  <2>3. ASSUME n \notin exposed, t # r PROVE r.st \in {"active", "history"}
    <3>1. Sound(n)
      BY <1>3, <2>2, <2>3 DEF Sound
    <3>2. CASE u = r
      BY <2>1, <2>3, <3>2
    <3>3. CASE Restorable(r, n, k)
      <4>1. PICK h \in rows : h.node = n /\ h.key = k /\ h.st = "history"
        BY <1>9, <3>1
      <4> QED BY <1>3, <3>3, <4>1 DEF OneRowEach, Restorable
    <3> QED BY <2>2, <3>2, <3>3
  <2> QED BY <2>1, <2>2, <2>3 DEF RowsOf
<1>12. ASSUME NEW t \in RowsOf(rows', n)
       PROVE  /\ t.key \in minted' /\ (n \in exposed => n \in exposed') /\ (n \in doomed => n \in doomed')
              /\ \/ t.key \notin minted
                 \/ \E r \in RowsOf(rows, n) :
                       r.key = t.key /\ (n \notin exposed' /\ RowId(r) \in gc.ids => t.st = r.st)
              /\ Needed(t)' /\ n \notin doomed' \cup exposed' => t.key \in blobs
  <2>1. PICK r \in RowsOf(rows, n) :
           r.key = t.key /\ (t = r \/ (n \notin exposed => r.st \in {"active", "history"}))
    BY <1>11
  <2>2. r \in rows /\ r.node = n /\ r.key \in minted /\ sync'[n] = "active" /\ t.node = n
    BY <1>3, <1>4 DEF RowsOf, Kept, KeysMinted
  <2>3. n \notin exposed /\ RowId(r) \in gc.ids => t.st = r.st
    BY <2>1, <2>2 DEF Kept, Collects, Selected
  <2>4. n \notin exposed /\ Needed(t)' => Needed(r)
    BY <2>1, <2>2 DEF Needed
  <2> QED BY <1>4, <2>1, <2>2, <2>3, <2>4 DEF Kept, BlobsThere
<1>13. \A o \in P :
          /\ Request(o)' /\ req'[o].key \in minted' \cup {None} /\ req'[o].todo \subseteq minted'
          /\ ~Writing(o)' /\ ~Pends(o)'
  <2>1. Idle.key = None /\ Idle.todo = {}
    BY DEF Idle
  <2> QED BY <1>4, <2>1, IdleRequest
<1>14. Req \ P = {}
  BY <1>2 DEF Lone
<1>15. \A m \in Node \ {n} :
          /\ RowsOf(rows', m) = RowsOf(rows, m) /\ sync'[m] = sync[m] /\ ack'[m] = ack[m]
          /\ m \in exposed' <=> m \in exposed
          /\ m \in doomed' <=> m \in doomed
  BY <1>4, <1>8
<1>16. /\ (\A a, b \in P : a = b) /\ minted \subseteq minted' /\ UNCHANGED <<content, blobs, gc>>
       /\ OneRowEach(rows')
  BY <1>4, <1>6
<1> QED BY <1>10, <1>12, <1>13, <1>14, <1>15, <1>16, OneFileStep

\* The last good row that a repair looks up is the good row.
LEMMA GoodIsLastGood ==
    ASSUME Kept, "restoreVersion" \notin Ops, NEW n \in Node, NEW g \in RowsOf(rows, n), Good(n, g)
    PROVE  LastGood(rows, n) = {g}
<1> PICK best : best = Newest(Histories(n))
  OBVIOUS
<1>1. g \in Histories(n) /\ \A q \in Histories(n) : q.ver <= g.ver
  BY DEF Good, Histories, Having
<1>2. best \in Histories(n) /\ \A q \in Histories(n) : q.ver <= best.ver
  BY <1>1 DEF Newest
<1>3. WellFormed(rows) /\ best \in rows /\ g \in rows /\ best.node = g.node
  BY <1>1, <1>2 DEF Kept, IInv, Histories, Having, RowsOf
<1>4. best.ver \in Nat /\ g.ver \in Nat /\ best.ver <= g.ver /\ g.ver <= best.ver
  BY <1>1, <1>2, <1>3 DEF WellFormed, Row
<1>5. best = g
  BY <1>3, <1>4 DEF WellFormed, DistinctVersions
<1> QED BY <1>1, <1>5 DEF LastGood, Histories

\* A repair that goes back: the good row is the one it finds, and the pending row goes.
LEMMA RepairRestoreKept ==
    ASSUME Kept, IInv', Setting, NEW p \in Req, NEW n \in Node, RepairRestore(p, n)
    PROVE  Kept'
<1> PICK P \in SUBSET Req : P = {p}
  OBVIOUS
<1>0. PICK good \in LastGood(rows, n) :
         rows' = DeleteRows(Reactivate(rows, n, good.key), {RowId(r) : r \in PendingRow(rows, n)})
  BY DEF RepairRestore
<1>1. PICK k : k = good.key
  OBVIOUS
<1>2. PICK R : R = Reactivate(rows, n, k)
  OBVIOUS
<1>3. /\ Lone /\ "restoreVersion" \notin Ops /\ sync[n] = "pending_upload" /\ req[p].pc = "idle"
      /\ UNCHANGED <<blobs, minted, gc, content, ack, doomed, exposed>>
  BY DEF RepairRestore, ReadyFor, Stuck, Setting, ghosts
<1>4. /\ rows \subseteq Row /\ OneRowEach(rows) /\ R \subseteq Row
      /\ sync'[n] = "active" /\ \A m \in Node \ {n} : sync'[m] = sync[m]
      /\ req[p].key \in minted \cup {None} /\ req[p].todo \subseteq minted
  BY <1>2, ReactivateWellFormed
     DEF RepairRestore, Kept, IInv, TypeOK, WellFormed, OneRowPerKey, OneRowEach, KeysMinted
<1>5. /\ \A r \in rows : ~Restorable(r, n, k) => r \in R
      /\ \A r \in rows : Restorable(r, n, k) =>
            \E q \in R : q.node = n /\ q.key = k /\ q.ver = r.ver /\ q.st = "active"
      /\ \A q \in R :
            \/ q \in rows /\ ~Restorable(q, n, k)
            \/ /\ q.node = n /\ q.key = k /\ q.st = "active"
               /\ \E r \in rows : Restorable(r, n, k) /\ q.ver = r.ver
      /\ OneRowEach(R)
  BY <1>2, <1>4, ReactivateRows
<1>6. \A r \in PendingRow(rows, n) : r \in rows /\ r.node = n /\ r.st = "pending"
  BY PendingRowKnown DEF Kept
<1>7. /\ rows' = {r \in R : \A q \in PendingRow(rows, n) : RowId(r) # RowId(q)}
      /\ \A r \in rows' : r \in R /\ \A q \in PendingRow(rows, n) : r.key # q.key
      /\ \A r \in R : (\A q \in PendingRow(rows, n) : r.key # q.key) => r \in rows'
  <2>1. rows' = {r \in R : \A q \in PendingRow(rows, n) : RowId(r) # RowId(q)}
    BY <1>0, <1>1, <1>2 DEF DeleteRows
  <2>2. \A r \in R : \E s \in rows : s.node = r.node /\ s.key = r.key
    BY <1>5 DEF Restorable
  <2>3. \A r \in R, q \in PendingRow(rows, n) : r.key = q.key => RowId(r) = RowId(q)
    BY <1>4, <1>6, <2>2 DEF OneRowEach, RowId
  <2>4. \A r \in R, q \in PendingRow(rows, n) : RowId(r) = RowId(q) => r.key = q.key
    BY DEF RowId
  <2> QED BY <2>1, <2>3, <2>4
<1>8. OneRowEach(rows') /\ \A m \in Node \ {n} : RowsOf(rows', m) = RowsOf(rows, m)
  <2>1. \A m \in Node \ {n} : RowsOf(R, m) = RowsOf(rows, m)
    BY <1>5 DEF RowsOf, Restorable
  <2>2. \A m \in Node \ {n} : RowsOf(rows', m) = RowsOf(R, m)
    BY <1>6, <1>7 DEF RowsOf, RowId
  <2>3. OneRowEach(rows')
    BY <1>5, <1>7 DEF OneRowEach
  <2> QED BY <2>1, <2>2, <2>3
<1>9. ASSUME Sound(n)
      PROVE  /\ good \in RowsOf(rows, n) /\ Good(n, good) /\ k = ack[n] /\ ActiveRows(rows, n) = {}
             /\ PendingRow(rows, n) = Pendings(n)
  <2>1. OneWriter(n) /\ StuckAt(n)
    BY <1>9 DEF Kept, File
  <2>2. ack[n] # None
    <3> SUFFICES ASSUME ack[n] = None PROVE FALSE
      OBVIOUS
    <3>1. RowsOf(rows, n) \subseteq Pendings(n)
      BY <1>3, <2>1 DEF StuckAt
    <3>2. Having(rows, n, {"history"}) = {} /\ Having(rows, n, {"orphaned"}) = {}
      BY <3>1 DEF Pendings, Having
    <3> QED BY <3>2 DEF LastGood
  <2>3. PICK g \in RowsOf(rows, n) : Good(n, g)
    BY <1>3, <2>1, <2>2 DEF StuckAt
  <2>7. good = g
    BY <1>3, <2>3, GoodIsLastGood
  <2>8. PendingRow(rows, n) = Pendings(n)
    <3>1. \A r \in PendingRow(rows, n) : r \in Pendings(n)
      BY <1>6 DEF Pendings, Having, RowsOf
    <3>2. Pendings(n) # {} => PendingRow(rows, n) # {}
      BY DEF PendingRow, Pendings
    <3> QED BY <2>1, <3>1, <3>2 DEF OneWriter
  <2> QED BY <1>1, <1>3, <2>1, <2>3, <2>7, <2>8 DEF Good, StuckAt
<1>10. \A o \in P : /\ Request(o)' /\ ~Writing(o)'
                    /\ req'[o].key \in minted' \cup {None} /\ req'[o].todo \subseteq minted'
  <2>1. CASE PendingRow(rows, n) = {}
    <3>1. req' = req
      BY <2>1 DEF RepairRestore
    <3>2. Request(p)' /\ ~Writing(p)'
      BY <1>3, <3>1 DEF Request, RunsItsOp, OwnsRow, Restores, Restoring, Purges, Landed, Found, Pends, Writing
    <3> QED BY <1>3, <1>4, <3>1, <3>2
  <2>2. CASE PendingRow(rows, n) # {}
    <3>1. PICK r \in PendingRow(rows, n) :
             Becomes(p, [Idle EXCEPT !.op = "auto", !.pc = "undo", !.node = n, !.key = r.key])
      BY <2>2 DEF RepairRestore
    <3>2. PICK s : /\ s.op = "auto" /\ s.pc = "undo" /\ s.node = n /\ s.key = r.key /\ s.todo = {}
                   /\ Becomes(p, s)
      BY <3>1 DEF Idle
    <3>3. req'[p] = s /\ "repair" \in Ops
      BY <3>2 DEF RepairRestore, ReadyFor, Becomes, Kept, IInv, TypeOK
    <3>4. Request(p)' /\ ~Writing(p)'
      BY <1>7, <3>2, <3>3
         DEF Request, RunsItsOp, OwnsRow, Restores, Restoring, Purges, Landed, Found, Writing
    <3>5. r.key \in minted
      BY <1>6 DEF Kept, KeysMinted
    <3> QED BY <1>3, <3>2, <3>3, <3>4, <3>5
  <2> QED BY <2>1, <2>2
<1>11. ASSUME NEW t \in RowsOf(rows', n)
       PROVE  /\ t.key \in minted' /\ (n \in exposed => n \in exposed') /\ (n \in doomed => n \in doomed')
              /\ \/ t.key \notin minted
                 \/ \E r \in RowsOf(rows, n) :
                       r.key = t.key /\ (n \notin exposed' /\ RowId(r) \in gc.ids => t.st = r.st)
              /\ Needed(t)' /\ n \notin doomed' \cup exposed' => t.key \in blobs
  <2>1. t \in R /\ t.node = n
    BY <1>7 DEF RowsOf
  <2>2. CASE t \in rows
    <3>1. t \in RowsOf(rows, n) /\ t.key \in minted
      BY <2>1, <2>2 DEF RowsOf, Kept, KeysMinted
    <3>2. Needed(t)' => Needed(t)
      BY <1>3, <1>4, <2>1 DEF Needed
    <3> QED BY <1>3, <2>1, <2>2, <3>1, <3>2 DEF Kept, BlobsThere
  <2>3. CASE t \notin rows
    <3>1. PICK r \in rows : Restorable(r, n, k) /\ t.key = k
      BY <1>5, <2>1, <2>3
    <3>2. r \in RowsOf(rows, n) /\ r.key = t.key /\ r.node = n /\ t.key \in minted
      BY <3>1 DEF Restorable, RowsOf, Kept, KeysMinted
    <3>3. ASSUME n \notin exposed PROVE RowId(r) \notin gc.ids /\ Needed(r)
      <4>1. Sound(n)
        BY <1>3, <3>3 DEF Sound
      <4>2. good = r
        BY <1>1, <1>4, <1>9, <3>1, <4>1 DEF OneRowEach, Restorable, RowsOf
      <4> QED BY <1>3, <1>9, <4>1, <4>2 DEF Good, Needed
    <3> QED BY <1>3, <3>2, <3>3 DEF Kept, BlobsThere
  <2> QED BY <2>2, <2>3
<1>12. File(n)'
  <2> SUFFICES ASSUME Sound(n)
               PROVE  OneWriter(n)' /\ HealthyAt(n)' /\ StuckAt(n)' /\ NewestLast(n)'
    BY <1>3, <1>4 DEF File, Sound
  <2>1. Restorable(good, n, k) /\ good \in rows
    BY <1>1, <1>9 DEF Good, Restorable, RowsOf
  <2>2. PICK q \in R : q.node = n /\ q.key = k /\ q.ver = good.ver /\ q.st = "active"
    BY <1>5, <2>1
  <2>3. q \in rows'
    <3>1. \A r \in PendingRow(rows, n) : r.key # k
      BY <1>4, <1>6, <2>1 DEF OneRowEach, Restorable
    <3> QED BY <1>7, <2>2, <3>1
  <2>4. ActiveRows(rows', n) = {q}
    <3>1. \A r \in rows : r.node = n => r.st # "active"
      BY <1>9 DEF ActiveRows, Having, RowsOf
    <3>2. \A r \in rows' : r.node = n /\ r.st = "active" => r.key = k
      BY <1>5, <1>7, <3>1
    <3> QED BY <1>8, <2>2, <2>3, <3>2 DEF OneRowEach, ActiveRows, Having, RowsOf
  <2>5. Pendings(n)' = {}
    <3>1. \A r \in rows : r.node = n /\ r.st = "pending" => r \in PendingRow(rows, n)
      BY <1>9 DEF Pendings, Having, RowsOf
    <3>2. \A r \in rows' : r.node = n => r.st # "pending"
      BY <1>5, <1>7, <3>1
    <3> QED BY <3>2 DEF Pendings, Having, RowsOf
  <2>6. Writers(n)' = {}
    BY <1>3, <1>10 DEF Writers, Lone
  <2>7. Histories(n)' \subseteq Histories(n)
    BY <1>5, <1>7 DEF Histories, Having, RowsOf
  <2>8. NewestLast(n)'
    <3>1. Having(rows', n, {"active", "pending"}) = {q}
      BY <2>4, <2>5 DEF ActiveRows, Pendings, Having
    <3>2. \A r \in Histories(n) : r.ver <= good.ver
      BY <1>3, <1>9 DEF Good
    <3> QED BY <2>2, <2>7, <3>1, <3>2 DEF NewestLast
  <2>9. HealthyAt(n)' /\ OneWriter(n)' /\ StuckAt(n)'
    BY <1>3, <1>4, <1>9, <2>2, <2>3, <2>4, <2>5, <2>6 DEF HealthyAt, OneWriter, StuckAt
  <2> QED BY <2>8, <2>9
<1>13. Req \ P = {} /\ Lone
  BY <1>3 DEF Lone
<1>14. \A m \in Node \ {n} :
          /\ RowsOf(rows', m) = RowsOf(rows, m) /\ sync'[m] = sync[m] /\ ack'[m] = ack[m]
          /\ m \in exposed' <=> m \in exposed
          /\ m \in doomed' <=> m \in doomed
  BY <1>3, <1>4, <1>8
<1>15. /\ (\A a, b \in P : a = b) /\ minted \subseteq minted' /\ UNCHANGED <<content, blobs, gc>>
       /\ OneRowEach(rows')
  BY <1>3, <1>8
<1> QED BY <1>10, <1>11, <1>12, <1>13, <1>14, <1>15, OneFileStep

\* A repair that goes forward: the pending row is the active row now, and its blob is
\* there; one that the collector had selected, or deleted, exposes the file.
LEMMA RepairCompleteKept ==
    ASSUME Kept, IInv', Setting, NEW p \in Req, RepairComplete(p)
    PROVE  Kept'
<1> PICK P \in SUBSET Req : P = {p}
  OBVIOUS
<1> PICK n \in Node, k \in Key : n = req[p].node /\ k = req[p].key
  BY DEF RepairComplete, Kept, IInv, RequestsNamed
<1>1. /\ req[p].pc = "headed" /\ req[p].op \in {"auto", "complete"} /\ Pends(p) /\ Lone
      /\ Found(p) /\ sync[n] # "absent"
  BY DEF RepairComplete, Pends, Found, Kept, Request, RunsItsOp, Setting
<1>2. /\ rows \subseteq Row /\ OneRowEach(rows) /\ content[k] = k
      /\ sync \in [Node -> {"absent", "pending_upload", "active"}]
      /\ ack \in [Node -> Key \cup {None}]
  BY DEF Kept, IInv, TypeOK, OneRowPerKey, OneRowEach
<1>3. /\ sync'[n] = "active" /\ ack'[n] = k
      /\ \A m \in Node \ {n} : sync'[m] = sync[m] /\ ack'[m] = ack[m]
      /\ req'[p] = Idle /\ rows' = Activate(rows, k)
      /\ exposed' = IF <<n, k>> \in gc.ids \/ ~Known(rows, k) THEN exposed \cup {n} ELSE exposed
      /\ UNCHANGED <<blobs, minted, gc, content, doomed>>
  BY <1>1, <1>2 DEF RepairComplete, SetSync, Tell, Ends, Kept, IInv, TypeOK
<1>4. \A r \in rows : r.key = k => r.node = n /\ r.st = "pending"
  BY <1>1, OwnPending
<1>5. /\ \A r \in rows : r.key # k => r \in rows'
      /\ \A r \in rows : r.key = k =>
            \E q \in rows' : q.node = n /\ q.key = k /\ q.ver = r.ver /\ q.st = "active"
      /\ \A q \in rows' :
            \/ q \in rows /\ q.key # k
            \/ /\ q.node = n /\ q.key = k /\ q.st = "active"
               /\ \E r \in rows : r.key = k /\ q.ver = r.ver
      /\ OneRowEach(rows')
  BY <1>2, <1>3, <1>4, ActivateRows
<1>6. \A m \in Node \ {n} : RowsOf(rows', m) = RowsOf(rows, m)
  BY <1>4, <1>5 DEF RowsOf
<1>7. ASSUME n \notin exposed'
      PROVE  /\ Sound(n) /\ sync[n] = "pending_upload" /\ ActiveRows(rows, n) = {}
             /\ \E r \in rows : /\ r.node = n /\ r.key = k /\ Pendings(n) = {r}
                                /\ RowId(r) \notin gc.ids
  <2>1. Sound(n) /\ <<n, k>> \notin gc.ids /\ Known(rows, k)
    BY <1>1, <1>3, <1>7 DEF Sound
  <2>2. PICK r \in rows : r.key = k /\ r.node = n /\ r.st = "pending"
    BY <1>4, <2>1 DEF Known
  <2>3. r \in Pendings(n)
    BY <2>2 DEF Pendings, Having, RowsOf
  <2>4. sync[n] = "pending_upload" /\ ActiveRows(rows, n) = {} /\ Pendings(n) = {r}
    BY <1>1, <1>2, <2>1, <2>3 DEF Kept, File, OneWriter, HealthyAt, StuckAt
  <2> QED BY <2>1, <2>2, <2>4 DEF RowId
<1>8. File(n)'
  <2> SUFFICES ASSUME n \notin exposed'
               PROVE  OneWriter(n)' /\ HealthyAt(n)' /\ StuckAt(n)' /\ NewestLast(n)'
    BY <1>3 DEF File, Sound
  <2>1. PICK r \in rows : r.node = n /\ r.key = k /\ Pendings(n) = {r}
    BY <1>7
  <2>2. PICK q \in rows' : q.node = n /\ q.key = k /\ q.ver = r.ver /\ q.st = "active"
    BY <1>5, <2>1
  <2>3. ActiveRows(rows', n) = {q}
    <3>1. \A t \in rows : t.node = n => t.st # "active"
      BY <1>7 DEF ActiveRows, Having, RowsOf
    <3>2. \A t \in rows' : t.node = n /\ t.st = "active" => t.key = k
      BY <1>5, <3>1
    <3> QED BY <1>5, <2>2, <3>2 DEF OneRowEach, ActiveRows, Having, RowsOf
  <2>4. Pendings(n)' = {}
    <3>1. \A t \in rows : t.node = n /\ t.st = "pending" => t.key = k
      BY <2>1 DEF Pendings, Having, RowsOf
    <3>2. \A t \in rows' : t.node = n => t.st # "pending"
      BY <1>5, <3>1
    <3> QED BY <3>2 DEF Pendings, Having, RowsOf
  <2>5. Writers(n)' = {}
    BY <1>1, <1>3 DEF Writers, Writing, Idle, Lone
  <2>6. NewestLast(n)'
    <3>1. Having(rows', n, {"active", "pending"}) = {q} /\ r \in Having(rows, n, {"active", "pending"})
      BY <2>1, <2>3, <2>4 DEF ActiveRows, Pendings, Having
    <3>2. Histories(n)' \subseteq Histories(n)
      BY <1>5 DEF Histories, Having, RowsOf
    <3>3. NewestLast(n)
      BY <1>7 DEF Kept, File
    <3> QED BY <2>2, <3>1, <3>2, <3>3 DEF NewestLast
  <2> QED BY <1>3, <2>2, <2>3, <2>4, <2>5, <2>6 DEF HealthyAt, OneWriter, StuckAt
<1>9. ASSUME NEW t \in RowsOf(rows', n)
      PROVE  /\ t.key \in minted' /\ (n \in exposed => n \in exposed') /\ (n \in doomed => n \in doomed')
             /\ \/ t.key \notin minted
                \/ \E r \in RowsOf(rows, n) :
                      r.key = t.key /\ (n \notin exposed' /\ RowId(r) \in gc.ids => t.st = r.st)
             /\ Needed(t)' /\ n \notin doomed' \cup exposed' => t.key \in blobs
  <2>1. t \in rows' /\ t.node = n /\ (n \in exposed => n \in exposed') /\ (n \in doomed => n \in doomed')
    BY <1>3 DEF RowsOf
  <2>2. CASE t \in rows
    <3>1. t \in RowsOf(rows, n) /\ t.key \in minted
      BY <2>1, <2>2 DEF RowsOf, Kept, KeysMinted
    <3>2. Needed(t)' => Needed(t)
      BY <1>3, <2>1 DEF Needed
    <3> QED BY <1>3, <2>1, <2>2, <3>1, <3>2 DEF Kept, BlobsThere
  <2>3. CASE t \notin rows
    <3>1. PICK r \in rows : r.key = k /\ r.node = n /\ t.key = k
      BY <1>4, <1>5, <2>1, <2>3
    <3>2. r \in RowsOf(rows, n) /\ t.key \in minted
      BY <3>1 DEF RowsOf, Kept, KeysMinted
    <3>3. n \notin exposed' => RowId(r) \notin gc.ids
      BY <1>2, <1>7, <3>1 DEF OneRowEach
    <3>4. n \notin doomed \cup exposed' => k \in blobs
      BY <1>1, <1>3, <3>1, <3>3 DEF Kept, Request, Landed
    <3> QED BY <1>3, <2>1, <3>1, <3>2, <3>3, <3>4
  <2> QED BY <2>2, <2>3
<1>10. \A o \in P :
          /\ Request(o)' /\ req'[o].key \in minted' \cup {None} /\ req'[o].todo \subseteq minted'
          /\ ~Writing(o)' /\ ~Pends(o)'
  <2>1. Idle.key = None /\ Idle.todo = {}
    BY DEF Idle
  <2> QED BY <1>3, <2>1, IdleRequest
<1>11. Req \ P = {}
  BY <1>1 DEF Lone
<1>12. \A m \in Node \ {n} :
          /\ RowsOf(rows', m) = RowsOf(rows, m) /\ sync'[m] = sync[m] /\ ack'[m] = ack[m]
          /\ m \in exposed' <=> m \in exposed
          /\ m \in doomed' <=> m \in doomed
  BY <1>3, <1>6
<1>13. /\ (\A a, b \in P : a = b) /\ minted \subseteq minted' /\ UNCHANGED <<content, blobs, gc>>
       /\ OneRowEach(rows')
  BY <1>3, <1>5
<1> QED BY <1>8, <1>9, <1>10, <1>11, <1>12, <1>13, OneFileStep

-----------------------------------------------------------------------------
(* Every step                                                              *)

\* Steps that the setting excludes: no two files share a blob, and no request waits
\* for a copy of one.
LEMMA NoSharing ==
    ASSUME Kept, Setting
    PROVE  /\ \A p \in Req : req[p].pc \notin {"dup", "duped"}
           /\ \A n \in Node : \A r \in ActiveRows(rows, n) : ActiveCount(rows, r.key) = 1
<1>1. \A p \in Req : req[p].pc \notin {"dup", "duped"}
  BY DEF Kept, Request, RunsItsOp
<1>2. ASSUME NEW n \in Node, NEW r \in ActiveRows(rows, n) PROVE ActiveCount(rows, r.key) = 1
  <2>1. {q \in rows : q.key = r.key /\ q.st = "active"} = {r}
    BY DEF ActiveRows, Having, RowsOf, Kept, OneRowPerKey
  <2> QED BY <2>1, FS_Singleton DEF ActiveCount
<1> QED BY <1>1, <1>2

\* Whatever a request begins keeps the invariant.
LEMMA BeginKept ==
    ASSUME Kept, IInv', Setting, NEW p \in Req, Begin(p)
    PROVE  Kept'
<1>1. PICK n \in Node :
         \/ \E k \in Key : UploadStart(p, n, k) \/ OverwriteStart(p, n, k) \/ OverwriteSplit(p, n, k)
         \/ \E m \in Node : CopyLink(p, n, m) \/ \E k \in Key : CopyDup(p, n, m, k)
         \/ RestoreVersionStart(p, n)
         \/ RepairRestore(p, n)
         \/ \E action \in {"auto", "complete"} : RepairProbe(p, n, action)
         \/ RepairDelete(p, n)
         \/ \E queue \in SUBSET trashed : PurgeStart(p, n, queue)
  BY DEF Begin
<1>2. \A k \in Key, m \in Node :
         ~OverwriteSplit(p, n, k) /\ ~CopyLink(p, n, m) /\ ~CopyDup(p, n, m, k)
  <2>1. \A r \in ActiveRows(rows, n) : ~(ActiveCount(rows, r.key) > 1)
    BY NoSharing
  <2> QED BY <2>1 DEF OverwriteSplit, CopyLink, CopyDup, ReadyFor, Setting
<1>3. \A m \in Node : ~CopyLink(p, n, m)
  BY DEF CopyLink, ReadyFor, Setting
<1>4. CASE \E k \in Key : UploadStart(p, n, k) \/ OverwriteStart(p, n, k)
  BY <1>4, UploadStartKept, OverwriteStartKept
<1>5. CASE RestoreVersionStart(p, n)
  BY <1>5, RestoreStartKept
<1>6. CASE RepairRestore(p, n) \/ RepairDelete(p, n)
  BY <1>6, RepairRestoreKept, RepairDeleteKept
<1>7. CASE \E action \in {"auto", "complete"} : RepairProbe(p, n, action)
  BY <1>7, RepairProbeKept
<1>8. CASE \E queue \in SUBSET trashed : PurgeStart(p, n, queue)
  BY <1>8, PurgeStartKept
<1> QED BY <1>1, <1>2, <1>3, <1>4, <1>5, <1>6, <1>7, <1>8

\* So does whatever answer it gets.
LEMMA SucceedsKept ==
    ASSUME Kept, IInv', Setting, NEW p \in Req, Succeeds(p)
    PROVE  Kept'
<1>1. ~DupLands(p) /\ ~CopyDupDone(p) /\ ~\E k \in Key : OverwriteSplitDone(p, k)
  BY NoSharing DEF DupLands, CopyDupDone, OverwriteSplitDone
<1>2. CASE BlobLands(p) \/ Finish(p) \/ UndoBlob(p)
  BY <1>2, BlobLandsKept, FinishKept, UndoKept
<1>3. CASE HeadFinds(p) \/ RestoreVersionSwap(p) \/ RepairComplete(p) \/ RepairBlobMissing(p)
  BY <1>3, HeadFindsKept, RestoreSwapKept, RepairCompleteKept, BlobMissingKept
<1>4. CASE RepairKillBlob(p) \/ RepairKillNode(p)
  BY <1>4, KillBlobKept, UploadFailsKept
<1>5. CASE PurgeBlob(p) \/ PurgeNode(p)
  BY <1>5, PurgeBlobKept, PurgeNodeKept
<1> QED BY <1>1, <1>2, <1>3, <1>4, <1>5 DEF Succeeds

\* So does whatever failure it meets.
LEMMA FailsKept ==
    ASSUME Kept, IInv', Setting, NEW p \in Req, Fails(p)
    PROVE  Kept'
<1>1. ~DupFails(p)
  BY NoSharing DEF DupFails
<1>2. CASE UploadFails(p)
  BY <1>2, UploadFailsKept
<1>3. CASE UploadCleanupFails(p) \/ HeadRefused(p)
  <2>1. Ends(p) /\ UNCHANGED <<sync, rows, blobs, minted, gc, ghosts>>
    BY <1>3 DEF UploadCleanupFails, HeadRefused
  <2> QED BY <2>1, EndsKept
<1>4. CASE OverwriteFails(p) \/ OverwriteRollbackFails(p)
  BY <1>4, OverwriteFailsKept, RollbackFailsKept
<1> QED BY <1>1, <1>2, <1>3, <1>4 DEF Fails

\* So does a fault between two commits.
LEMMA TearsKept ==
    ASSUME Kept, IInv', Setting, Tears
    PROVE  Kept'
<1>1. \A n, m \in Node : ~CopyUnlinked(n, m)
  BY DEF CopyUnlinked, Setting
<1>2. \A p \in Req : ~CopyDupUnlinked(p) /\ ~SplitTorn(p)
  BY NoSharing DEF CopyDupUnlinked, SplitTorn
<1> QED BY <1>1, <1>2, UploadUnpreparedKept, PurgeNodeFailsKept DEF Tears

\* Every step keeps the invariant.
LEMMA Preserved ==
    ASSUME Setting, Kept, [Next]_vars
    PROVE  Kept'
<1>0. IInv'
  BY Inductive DEF Kept
<1>1. CASE \E p \in Req : Begin(p) \/ Succeeds(p) \/ Fails(p)
  BY <1>0, <1>1, BeginKept, SucceedsKept, FailsKept
<1>2. CASE \E n \in Node : Trash(n) \/ Untrash(n)
  <2>1. UNCHANGED <<sync, rows, blobs, minted, req, gc, ghosts>>
    BY <1>2 DEF Trash, Untrash
  <2> QED BY <1>0, <2>1, TrashKept
<1>3. CASE \E n \in Node : RepairDeleteAtOnce(n)
  BY <1>0, <1>3, DeleteAtOnceKept
<1>4. CASE Tears
  BY <1>0, <1>4, TearsKept
<1>5. CASE Collect
  BY <1>0, <1>5, GcBeginKept, GcRowsKept, GcBlobKept, GcRestKept DEF Collect
<1>6. CASE Crash
  BY <1>0, <1>6, CrashKept
<1>7. CASE UNCHANGED vars
  <2>1. UNCHANGED <<sync, rows, blobs, minted, req, gc, ghosts>>
    BY <1>7 DEF vars, ghosts
  <2> QED BY <1>0, <2>1, TrashKept
<1> QED BY <1>1, <1>2, <1>3, <1>4, <1>5, <1>6, <1>7 DEF Next

\* A new installation has no file, no row and no request.
LEMMA KeptInitially == Init => Kept
<1> SUFFICES ASSUME Init PROVE Kept
  OBVIOUS
<1>1. IInv
  BY Initially
<1>2. /\ rows = {} /\ gc.pc = "idle" /\ gc.ids = {} /\ gc.todo = {} /\ blobs = {}
      /\ content = [k \in Key |-> k]
      /\ \A p \in Req : req[p].pc = "idle" /\ req[p].key = None /\ req[p].todo = {}
      /\ \A n \in Node : sync[n] = "absent" /\ ack[n] = None
  BY DEF Init, GcIdle, Idle
<1>3. OneRowPerKey /\ KeysMinted /\ KeysApart /\ BlobsThere /\ Collects
  BY <1>2 DEF OneRowPerKey, KeysMinted, KeysApart, Pends, BlobsThere, Collects
<1>4. \A p \in Req : Request(p)
  BY <1>2 DEF Request, RunsItsOp, OwnsRow, Restores, Restoring, Purges, Landed, Found, Pends, Writing
<1>5. \A n \in Node : File(n)
  BY <1>2 DEF File, Sound
<1> QED BY <1>1, <1>3, <1>4, <1>5 DEF Kept

\* The invariant holds in every reachable state.
THEOREM KeptAlways ==
    ASSUME Setting
    PROVE  Spec => []Kept
<1>1. Init => Kept
  BY KeptInitially
<1>2. Kept /\ [Next]_vars => Kept'
  BY Preserved
<1> QED BY <1>1, <1>2, PTL DEF Spec

\* What a sound file must keep: its bytes are in the store, and were never replaced.
LEMMA RowHolds ==
    ASSUME Kept, NEW n \in Owed, NEW r \in RowsOf(rows, n), r.key = ack[n], Needed(r)
    PROVE  Holds(n, r)
<1>1. r \in rows /\ r.node = n /\ n \notin doomed \cup exposed /\ r.key \in Key
  BY DEF RowsOf, Owed, Promised, Kept, IInv, TypeOK, Row
<1> QED BY <1>1 DEF Holds, Kept, BlobsThere, OneRowPerKey

\* uploadService: a healthy file downloads exactly the bytes last acknowledged, whatever
\* uploads, overwrites, rollbacks, purges, collector cycles, faults and crashes have met.
THEOREM Readable ==
    ASSUME Setting
    PROVE  Spec => []AcknowledgedReadable
<1>1. Kept => AcknowledgedReadable
  <2> SUFFICES ASSUME Kept, NEW n \in Owed, sync[n] = "active"
               PROVE  /\ Cardinality(ActiveRows(rows, n)) = 1
                      /\ \A r \in ActiveRows(rows, n) : Holds(n, r)
    BY DEF AcknowledgedReadable
  <2>1. n \in Node /\ Sound(n)
    BY DEF Owed, Promised, Sound
  <2>2. PICK r \in rows : ActiveRows(rows, n) = {r} /\ r.key = ack[n]
    BY <2>1 DEF Kept, File, HealthyAt
  <2>3. r \in RowsOf(rows, n) /\ Needed(r)
    BY <2>2 DEF ActiveRows, Having, Needed
  <2>4. Holds(n, r)
    BY <2>2, <2>3, RowHolds
  <2> QED BY <2>2, <2>4, FS_Singleton
<1> QED BY <1>1, KeptAlways, PTL

\* gcService, the last-good guard: whatever the collector evicts, the bytes last
\* acknowledged of a stuck file are under one of its rows, with their blob.
THEOREM StuckKeeps ==
    ASSUME Setting
    PROVE  Spec => []StuckKeepsAcknowledged
<1>1. Kept => StuckKeepsAcknowledged
  <2> SUFFICES ASSUME Kept, NEW n \in Owed, sync[n] = "pending_upload"
               PROVE  \E r \in RowsOf(rows, n) : Holds(n, r)
    BY DEF StuckKeepsAcknowledged
  <2>1. n \in Node /\ Sound(n) /\ ack[n] # None
    BY DEF Owed, Promised, Sound
  <2>2. PICK r \in RowsOf(rows, n) : Good(n, r)
    BY <2>1 DEF Kept, File, StuckAt
  <2>3. r.key = ack[n] /\ Needed(r)
    BY <2>2 DEF Good, Needed, RowsOf
  <2> QED BY <2>2, <2>3, RowHolds
<1> QED BY <1>1, KeptAlways, PTL

\* failSafeService: the row that a repair of a stuck file would reactivate holds the
\* bytes last acknowledged, with their blob.
THEOREM LastGoodIsGood ==
    ASSUME Setting, "restoreVersion" \notin Ops
    PROVE  Spec => []LastGoodKept
<1>1. Kept => LastGoodKept
  <2> SUFFICES ASSUME Kept, NEW n \in Owed, sync[n] = "pending_upload"
               PROVE  \E r \in LastGood(rows, n) : Holds(n, r)
    BY DEF LastGoodKept
  <2>1. n \in Node /\ Sound(n) /\ ack[n] # None
    BY DEF Owed, Promised, Sound
  <2>2. PICK r \in RowsOf(rows, n) : Good(n, r)
    BY <2>1 DEF Kept, File, StuckAt
  <2>3. r.key = ack[n] /\ Needed(r) /\ LastGood(rows, n) = {r}
    BY <2>1, <2>2, GoodIsLastGood DEF Good, Needed, RowsOf
  <2> QED BY <2>2, <2>3, RowHolds
<1> QED BY <1>1, KeptAlways, PTL

\* versionsService: every version that is listed has its blob.
THEOREM VersionsThere ==
    ASSUME Setting
    PROVE  Spec => []VersionsHaveBlobs
<1>1. Kept => VersionsHaveBlobs
  BY DEF Kept, BlobsThere, Needed, VersionsHaveBlobs
<1> QED BY <1>1, KeptAlways, PTL
=============================================================================
