--------------------------- MODULE BlobLifecycle ---------------------------
(***************************************************************************)
(* The life of a file's bytes in s3 storage mode: uploads, overwrites,     *)
(* copies, version restores, repair of stuck uploads, trash, purge and the *)
(* garbage collector, over one metadata store and one blob store that do   *)
(* not share a transaction.                                                *)
(*                                                                         *)
(* Granularity.  The metadata store is the default sqlite backend: its     *)
(* driver is synchronous, so everything a handler does between two awaits  *)
(* on the blob store runs in one turn of the event loop, and a failed      *)
(* transaction is really rolled back.  A step of this module is therefore  *)
(* one such turn, or one effect of the blob store.                         *)
(*                                                                         *)
(* Files are the leaves of the tree; directories are left out.             *)
(***************************************************************************)
EXTENDS ObjectMap

CONSTANTS Req,      \* requests that can be in progress at once
          Cap,      \* GC_VERSION_MAX_PER_NODE; 0 is unbounded
          Ops,      \* the operations this instance runs
          None

AllOps == {"upload", "overwrite", "copy", "restoreVersion", "repair", "trash", "purge", "gc",
           "fault", "crash"}

ASSUME CapAssumption == Cap \in Nat
ASSUME OpsAssumption == Ops \subseteq AllOps
ASSUME NoneAssumption == None \notin Node \cup Key

VARIABLES
    sync,       \* file_nodes.sync_status; "absent": no such row
    trashed,    \* nodes with deleted_at set
    rows,       \* object_map
    blobs,      \* keys present in the blob store
    minted,     \* keys already drawn from randomUUID
    req,        \* what each request is waiting for
    gc          \* what the collector is waiting for

\* History variables: they only record, no guard reads them.
VARIABLES
    content,    \* content[k]: the upload whose bytes blob k holds
    ack,        \* ack[n]: content a caller was last told n holds
    doomed,     \* nodes somebody asked to purge
    exposed     \* nodes the code itself put at risk, see below

ghosts == <<content, ack, doomed, exposed>>
vars == <<sync, trashed, rows, blobs, minted, req, gc, content, ack, doomed, exposed>>

Idle == [op |-> "none", pc |-> "idle", node |-> None, key |-> None, prev |-> None, todo |-> {},
         queue |-> {}]

ReqState == [op   : {"none", "upload", "overwrite", "copy", "restoreVersion", "auto", "complete",
                     "delete", "purge"},
             pc   : {"idle", "dup", "duped", "put", "landed", "undo", "head", "headed", "kill",
                     "killed", "purge"},
             node : Node \cup {None}, key : Key \cup {None}, prev : Key \cup {None},
             todo : SUBSET Key, queue : SUBSET Node]

GcIdle == [pc |-> "idle", todo |-> {}, ids |-> {}]

GcState == [pc : {"idle", "evicted", "pending", "list", "listed", "sweep"},
            todo : SUBSET Key, ids : SUBSET (Node \X Key)]

Init ==
    /\ sync = [n \in Node |-> "absent"]
    /\ trashed = {}
    /\ rows = {}
    /\ blobs = {}
    /\ minted = {}
    /\ req = [p \in Req |-> Idle]
    /\ gc = GcIdle
    /\ content = [k \in Key |-> k]
    /\ ack = [n \in Node |-> None]
    /\ doomed = {}
    /\ exposed = {}

Live == {n \in Node : sync[n] # "absent" /\ n \notin trashed}

\* A node identifier is an autoincrement primary key, never issued twice: a request
\* or a collector that still names a deleted node must not meet a newer one.
Unused(n) ==
    /\ sync[n] = "absent"
    /\ \A p \in Req : n \notin req[p].queue \cup {req[p].node}
    /\ \A i \in gc.ids : i[1] # n

Fresh(k) == k \notin minted

\* Keys whose blobs a request is writing.
InFlight == {req[p].key : p \in {q \in Req : req[q].op \in {"upload", "overwrite", "copy"}}}

\* UPDATE file_nodes SET sync_status: nothing to update when the row is gone.
SetSync(n, s) == IF sync[n] = "absent" THEN sync ELSE [sync EXCEPT ![n] = s]

ReadyFor(p, op) == op \in Ops /\ req[p].pc = "idle"

Becomes(p, s) == req' = [req EXCEPT ![p] = s]
Goes(p, label) == req' = [req EXCEPT ![p].pc = label]
Ends(p) == req' = [req EXCEPT ![p] = Idle]

\* A caller is told that n holds blob k.  An update of a file that has gone
\* matches no row and still answers.
Tell(n, k) == ack' = IF sync[n] = "absent" THEN ack ELSE [ack EXCEPT ![n] = content[k]]

\* fileNodeService.deleteNode of a file: the row, and by cascade its versions.
HardDelete(n) ==
    /\ sync' = [sync EXCEPT ![n] = "absent"]
    /\ trashed' = trashed \ {n}
    /\ rows' = CascadeDelete(rows, n)
    /\ ack' = [ack EXCEPT ![n] = None]
    /\ doomed' = doomed \ {n}
    /\ exposed' = exposed \ {n}
    /\ UNCHANGED content

-----------------------------------------------------------------------------
(* uploadFile: createFile and prepareUpload; PUT; completeUpload.          *)

UploadStart(p, n, k) ==
    /\ ReadyFor(p, "upload") /\ Unused(n) /\ Fresh(k)
    /\ sync' = [sync EXCEPT ![n] = "pending_upload"]
    /\ rows' = Evict(Upsert(rows, n, k, "pending"), n, Cap)
    /\ minted' = minted \cup {k}
    /\ Becomes(p, [Idle EXCEPT !.op = "upload", !.pc = "put", !.node = n, !.key = k])
    /\ UNCHANGED <<trashed, blobs, gc, ghosts>>

BlobLands(p) ==
    /\ req[p].pc = "put"
    /\ blobs' = blobs \cup {req[p].key}
    /\ Goes(p, "landed")
    /\ UNCHANGED <<sync, trashed, rows, minted, gc, ghosts>>

\* TX2 of uploadFile and overwriteFile.
Finish(p) ==
    LET n == req[p].node
        k == req[p].key
    IN  /\ req[p].pc = "landed" /\ Known(rows, k)
        /\ rows' = Activate(rows, k)
        /\ sync' = SetSync(n, "active")
        /\ Tell(n, k)
        /\ Ends(p)
        /\ UNCHANGED <<trashed, blobs, minted, gc, content, doomed, exposed>>

\* The PUT or TX2 failed: the new node is deleted, its blob is left behind.
UploadFails(p) ==
    /\ req[p].op = "upload" /\ req[p].pc \in {"put", "landed"}
    /\ HardDelete(req[p].node)
    /\ Ends(p)
    /\ UNCHANGED <<blobs, minted, gc>>

\* The best-effort clean-up of a failed upload fails too.
UploadCleanupFails(p) ==
    /\ req[p].op = "upload" /\ req[p].pc \in {"put", "landed"}
    /\ Ends(p)
    /\ UNCHANGED <<sync, trashed, rows, blobs, minted, gc, ghosts>>

-----------------------------------------------------------------------------
(* fileService.uploadFile onto an existing file: ensureExclusiveBlob, then *)
(* overwriteFile.                                                          *)

\* Step 0 and TX1 of overwriteFile, from the table R.  getActiveObject has no
\* ORDER BY: with several active rows any of them may be the previous one.
Prepare(p, n, k, R, mintedNow) ==
    /\ \E prev \in (IF ActiveRows(R, n) = {} THEN {None} ELSE {r.key : r \in ActiveRows(R, n)}) :
          Becomes(p, [Idle EXCEPT !.op = "overwrite", !.pc = "put", !.node = n, !.key = k,
                                  !.prev = prev])
    /\ rows' = Evict(Upsert(R, n, k, "pending"), n, Cap)
    /\ sync' = SetSync(n, "pending_upload")
    /\ minted' = mintedNow \cup {k}

\* An overwrite of a file without an active row has nothing to roll back to.
Risks(n) == exposed' = IF ActiveRows(rows, n) = {} THEN exposed \cup {n} ELSE exposed

OverwriteStart(p, n, k) ==
    /\ ReadyFor(p, "overwrite") /\ n \in Live /\ Fresh(k)
    /\ \/ ActiveRows(rows, n) = {}
       \/ \E r \in ActiveRows(rows, n) : ActiveCount(rows, r.key) = 1
    /\ Prepare(p, n, k, rows, minted)
    /\ Risks(n)
    /\ UNCHANGED <<trashed, blobs, gc, content, ack, doomed>>

\* The active blob is shared: copy it to a private key first.
OverwriteSplit(p, n, k) ==
    /\ ReadyFor(p, "overwrite") /\ n \in Live /\ Fresh(k)
    /\ \E r \in ActiveRows(rows, n) :
          /\ ActiveCount(rows, r.key) > 1
          /\ Becomes(p, [Idle EXCEPT !.op = "overwrite", !.pc = "dup", !.node = n, !.key = k,
                                     !.prev = r.key])
    /\ minted' = minted \cup {k}
    /\ UNCHANGED <<sync, trashed, rows, blobs, gc, ghosts>>

\* copyBlob, for a split and for a copy.
DupLands(p) ==
    /\ req[p].pc = "dup" /\ req[p].prev \in blobs
    /\ blobs' = blobs \cup {req[p].key}
    /\ content' = [content EXCEPT ![req[p].key] = content[req[p].prev]]
    /\ Goes(p, "duped")
    /\ UNCHANGED <<sync, trashed, rows, minted, gc, ack, doomed, exposed>>

DupFails(p) ==
    /\ req[p].pc \in {"dup", "duped"}
    /\ Ends(p)
    /\ UNCHANGED <<sync, trashed, rows, blobs, minted, gc, ghosts>>

\* The rest of ensureExclusiveBlob and TX1 run in the turn the copy answers.
\* The node may have gone meanwhile: the insert then fails on its foreign key
\* (DupFails).
OverwriteSplitDone(p, k) ==
    LET n == req[p].node
    IN  /\ req[p].op = "overwrite" /\ req[p].pc = "duped"
        /\ sync[n] # "absent" /\ Fresh(k)
        /\ Prepare(p, n, k, Upsert(rows, n, req[p].key, "active"), minted)
        /\ Risks(n)
        /\ UNCHANGED <<trashed, blobs, gc, content, ack, doomed>>

\* rollbackOverwrite, its transaction.  The new row is looked up by its key, one
\* row whatever the file.
OverwriteFails(p) ==
    LET n == req[p].node
        k == req[p].key
    IN  /\ req[p].op = "overwrite" /\ req[p].pc \in {"put", "landed"}
        /\ LET R   == Reactivate(rows, n, req[p].prev)
               new == {r \in R : r.key = k /\ r.st \in {"pending", "active"}}
           IN  IF new = {} THEN rows' = R ELSE \E r \in new : rows' = R \ {r}
        /\ sync' = SetSync(n, "active")
        /\ Goes(p, "undo")
        /\ UNCHANGED <<trashed, blobs, minted, gc, ghosts>>

\* The transaction of rollbackOverwrite fails and is ignored.
OverwriteRollbackFails(p) ==
    /\ req[p].op = "overwrite" /\ req[p].pc \in {"put", "landed"}
    /\ Goes(p, "undo")
    /\ UNCHANGED <<sync, trashed, rows, blobs, minted, gc, ghosts>>

\* The best-effort deleteBlob after a rollback or a restore-previous.
UndoBlob(p) ==
    /\ req[p].pc = "undo"
    /\ blobs' \in {blobs, blobs \ {req[p].key}}
    /\ Ends(p)
    /\ UNCHANGED <<sync, trashed, rows, minted, gc, ghosts>>

-----------------------------------------------------------------------------
(* copyFile: link the source's blob, or duplicate it when it is shared.    *)

\* createFile, linkObject and updateSyncStatus('active') for the new node m.
Link(m, k) ==
    /\ rows' = InsertFirst(rows, m, k)
    /\ sync' = [sync EXCEPT ![m] = "active"]
    /\ ack' = [ack EXCEPT ![m] = content[k]]

CopyLinkShared(p, n, m) ==
    /\ ReadyFor(p, "copy") /\ n \in Live /\ Unused(m)
    /\ \E r \in ActiveRows(rows, n) : Link(m, r.key)
    /\ UNCHANGED <<trashed, blobs, minted, req, gc, content, doomed, exposed>>

CopyLink(p, n, m) ==
    /\ ReadyFor(p, "copy") /\ n \in Live /\ Unused(m)
    /\ \E r \in ActiveRows(rows, n) :
          /\ ActiveCount(rows, r.key) = 1
          /\ Link(m, r.key)
    /\ UNCHANGED <<trashed, blobs, minted, req, gc, content, doomed, exposed>>

CopyDup(p, n, m, k) ==
    /\ ReadyFor(p, "copy") /\ n \in Live /\ Unused(m) /\ Fresh(k)
    /\ \E r \in ActiveRows(rows, n) :
          /\ ActiveCount(rows, r.key) > 1
          /\ Becomes(p, [Idle EXCEPT !.op = "copy", !.pc = "dup", !.node = m, !.key = k,
                                     !.prev = r.key])
    /\ minted' = minted \cup {k}
    /\ UNCHANGED <<sync, trashed, rows, blobs, gc, ghosts>>

CopyDupDone(p) ==
    /\ req[p].op = "copy" /\ req[p].pc = "duped"
    /\ Link(req[p].node, req[p].key)
    /\ Ends(p)
    /\ UNCHANGED <<trashed, blobs, minted, gc, content, doomed, exposed>>

-----------------------------------------------------------------------------
(* versionsService.restoreVersion: choose, HEAD the blob, swap.            *)

RestoreVersionStart(p, n) ==
    LET versions == Having(rows, n, {"active", "history"})
        current  == IF ActiveRows(rows, n) = {} THEN None ELSE Newest(ActiveRows(rows, n)).key
    IN  /\ ReadyFor(p, "restoreVersion") /\ n \in Live /\ sync[n] # "pending_upload"
        /\ \E t \in versions :
              /\ t.key # current
              /\ Becomes(p, [Idle EXCEPT !.op = "restoreVersion", !.pc = "head", !.node = n,
                                         !.key = t.key, !.prev = current])
        /\ UNCHANGED <<sync, trashed, rows, blobs, minted, gc, ghosts>>

\* HEAD finds a blob, here and in a repair; what is done then is done later.
HeadFinds(p) ==
    /\ req[p].pc = "head" /\ req[p].key \in blobs
    /\ Goes(p, "headed")
    /\ UNCHANGED <<sync, trashed, rows, blobs, minted, gc, ghosts>>

RestoreVersionSwap(p) ==
    LET n == req[p].node
        k == req[p].key
    IN  /\ req[p].op = "restoreVersion" /\ req[p].pc = "headed"
        /\ rows' = DemoteByKey(Reactivate(rows, n, k), req[p].prev)
        /\ sync' = SetSync(n, "active")
        /\ Tell(n, k)
        /\ Ends(p)
        /\ UNCHANGED <<trashed, blobs, minted, gc, content, doomed, exposed>>

\* The HEAD fails, or it finds no blob where the handler answers 409, or the
\* transaction after it fails.
HeadRefused(p) ==
    /\ req[p].pc \in {"head", "headed"}
    /\ Ends(p)
    /\ UNCHANGED <<sync, trashed, rows, blobs, minted, gc, ghosts>>

-----------------------------------------------------------------------------
(* failSafeService.repairPendingUploadNode.                                *)

Stuck(n) == n \in Live /\ sync[n] = "pending_upload"

\* restore-previous, and auto when there is a last good row.
RepairRestore(p, n) ==
    /\ ReadyFor(p, "repair") /\ Stuck(n)
    /\ \E good \in LastGood(rows, n) :
          rows' = DeleteRows(Reactivate(rows, n, good.key),
                             {RowId(r) : r \in PendingRow(rows, n)})
    /\ sync' = [sync EXCEPT ![n] = "active"]
    /\ IF PendingRow(rows, n) = {}
       THEN UNCHANGED req
       ELSE \E r \in PendingRow(rows, n) :
                Becomes(p, [Idle EXCEPT !.op = "auto", !.pc = "undo", !.node = n, !.key = r.key])
    /\ UNCHANGED <<trashed, blobs, minted, gc, ghosts>>

\* auto without a last good row, or complete: HEAD the pending blob.
RepairProbe(p, n, action) ==
    /\ ReadyFor(p, "repair") /\ Stuck(n)
    /\ action \in {"auto", "complete"}
    /\ action = "auto" => LastGood(rows, n) = {}
    /\ \E r \in PendingRow(rows, n) :
          Becomes(p, [Idle EXCEPT !.op = action, !.pc = "head", !.node = n, !.key = r.key])
    /\ UNCHANGED <<sync, trashed, rows, blobs, minted, gc, ghosts>>

\* The cache row it writes needs the node (else HeadRefused); the pending row is
\* not looked for again.
RepairComplete(p) ==
    LET n == req[p].node
        k == req[p].key
    IN  /\ req[p].op \in {"auto", "complete"} /\ req[p].pc = "headed"
        /\ sync[n] # "absent"
        /\ rows' = Activate(rows, k)
        /\ sync' = SetSync(n, "active")
        /\ Tell(n, k)
        /\ exposed' = IF <<n, k>> \in gc.ids \/ ~Known(rows, k) THEN exposed \cup {n} ELSE exposed
        /\ Ends(p)
        /\ UNCHANGED <<trashed, blobs, minted, gc, content, doomed>>

\* auto without a blob takes the delete arm; complete answers 409 (HeadRefused).
RepairBlobMissing(p) ==
    /\ req[p].op = "auto" /\ req[p].pc = "head" /\ req[p].key \notin blobs
    /\ Goes(p, "kill")
    /\ UNCHANGED <<sync, trashed, rows, blobs, minted, gc, ghosts>>

\* delete: the pending blob first, then the node.
RepairDelete(p, n) ==
    /\ ReadyFor(p, "repair") /\ Stuck(n)
    /\ \E r \in PendingRow(rows, n) :
          Becomes(p, [Idle EXCEPT !.op = "delete", !.pc = "kill", !.node = n, !.key = r.key])
    /\ UNCHANGED <<sync, trashed, rows, blobs, minted, gc, ghosts>>

\* delete without a pending row, and auto without a last good row either: no
\* blob to wait for.
RepairDeleteAtOnce(n) ==
    /\ "repair" \in Ops /\ Stuck(n) /\ PendingRow(rows, n) = {}
    /\ HardDelete(n)
    /\ UNCHANGED <<blobs, minted, req, gc>>

RepairKillBlob(p) ==
    /\ req[p].pc = "kill"
    /\ blobs' \in {blobs, blobs \ {req[p].key}}
    /\ Goes(p, "killed")
    /\ UNCHANGED <<sync, trashed, rows, minted, gc, ghosts>>

RepairKillNode(p) ==
    /\ req[p].pc = "killed"
    /\ HardDelete(req[p].node)
    /\ Ends(p)
    /\ UNCHANGED <<blobs, minted, gc>>

-----------------------------------------------------------------------------
(* Trash and purge.                                                        *)

\* deleteNode: mark the node; no blob is touched in s3 mode.
Trash(n) ==
    /\ "trash" \in Ops /\ n \in Live
    /\ trashed' = trashed \cup {n}
    /\ UNCHANGED <<sync, rows, blobs, minted, req, gc, ghosts>>

\* restoreNode of a file.
Untrash(n) ==
    /\ "trash" \in Ops /\ n \in trashed
    /\ trashed' = trashed \ {n}
    /\ UNCHANGED <<sync, rows, blobs, minted, req, gc, ghosts>>

\* purgeNode reads the keys of every version of the node.
Purging(p, n, queue) ==
    Becomes(p, [Idle EXCEPT !.op = "purge", !.pc = "purge", !.node = n, !.queue = queue,
                            !.todo = {r.key : r \in RowsOf(rows, n)}])

\* Permanent delete of one item (no queue), emptyTrash (every trashed file) and
\* the third tier of the collector (those trashed long enough).
PurgeStart(p, n, queue) ==
    /\ ReadyFor(p, "purge") /\ n \in trashed
    /\ queue \subseteq trashed \ {n}
    /\ Purging(p, n, queue)
    /\ doomed' = doomed \cup {n} \cup queue
    /\ UNCHANGED <<sync, trashed, rows, blobs, minted, gc, content, ack, exposed>>

PurgeBlob(p) ==
    /\ req[p].pc = "purge"
    /\ \E k \in req[p].todo :
          /\ req' = [req EXCEPT ![p].todo = @ \ {k}]
          /\ blobs' \in {blobs, blobs \ {k}}
    /\ UNCHANGED <<sync, trashed, rows, minted, gc, ghosts>>

\* The next file of the list read at the start, trashed or not by now; one that
\* has gone answers 404 and is passed over.
PurgeNext(p) ==
    LET left == {m \in req[p].queue : sync[m] # "absent"}
    IN  IF left = {} THEN Ends(p) ELSE \E m \in left : Purging(p, m, left \ {m})

PurgeNode(p) ==
    /\ req[p].pc = "purge" /\ req[p].todo = {}
    /\ HardDelete(req[p].node)
    /\ PurgeNext(p)
    /\ UNCHANGED <<blobs, minted, gc>>

-----------------------------------------------------------------------------
(* gcService.runGcCycle, tiers 1 and 2.  Ages are abstract: D and C are    *)
(* the rows and blobs old enough to collect, any set that holds nothing a  *)
(* request in progress is still writing (a request lasts minutes, the      *)
(* shortest retention is a day).                                           *)

NotInFlight(D) == \A r \in D : r.key \notin InFlight

GcBegin(D) ==
    /\ "gc" \in Ops /\ gc.pc = "idle"
    /\ D \subseteq Evicted(rows, sync)
    /\ gc' = [pc |-> "evicted", todo |-> {r.key : r \in D}, ids |-> {RowId(r) : r \in D}]
    /\ UNCHANGED <<sync, trashed, rows, blobs, minted, req, ghosts>>

\* deleteBlobsForRows and the deletions of tier 2; a failure is only counted.
GcBlob ==
    /\ gc.pc \in {"evicted", "pending", "sweep"}
    /\ \E k \in gc.todo :
          /\ gc' = [gc EXCEPT !.todo = @ \ {k}]
          /\ blobs' \in {blobs, blobs \ {k}}
    /\ UNCHANGED <<sync, trashed, rows, minted, req, ghosts>>

\* Delete the evicted rows, then select the stale pending ones.
GcRows(D) ==
    /\ gc.pc = "evicted" /\ gc.todo = {}
    /\ rows' = DeleteRows(rows, gc.ids)
    /\ D \subseteq StalePending(rows, sync) /\ NotInFlight(D)
    /\ gc' = [pc |-> "pending", todo |-> {r.key : r \in D}, ids |-> {RowId(r) : r \in D}]
    /\ UNCHANGED <<sync, trashed, blobs, minted, req, ghosts>>

GcStaleRowsKept ==
    /\ gc.pc = "pending" /\ gc.todo = {}
    /\ gc' = [GcIdle EXCEPT !.pc = "list"]
    /\ UNCHANGED <<sync, trashed, rows, blobs, minted, req, ghosts>>

GcStaleRows ==
    /\ gc.pc = "pending" /\ gc.todo = {}
    /\ rows' = DeleteRows(rows, gc.ids)
    /\ gc' = [GcIdle EXCEPT !.pc = "list"]
    /\ UNCHANGED <<sync, trashed, blobs, minted, req, ghosts>>

\* listOrphanedKeys: what the bucket held at some point of the listing.
GcList(C) ==
    /\ gc.pc = "list"
    /\ C \subseteq blobs \ InFlight
    /\ gc' = [gc EXCEPT !.pc = "listed", !.todo = C]
    /\ UNCHANGED <<sync, trashed, rows, blobs, minted, req, ghosts>>

GcReconcileByRow ==
    /\ gc.pc = "listed"
    /\ gc' = [gc EXCEPT !.pc = "sweep", !.todo = @ \ {r.key : r \in rows}]
    /\ UNCHANGED <<sync, trashed, rows, blobs, minted, req, ghosts>>

\* getKeptKeys, read after the listing.
GcReconcile ==
    /\ gc.pc = "listed"
    /\ gc' = [gc EXCEPT !.pc = "sweep", !.todo = @ \ KeptKeys(rows, sync)]
    /\ UNCHANGED <<sync, trashed, rows, blobs, minted, req, ghosts>>

GcEnd ==
    /\ gc.pc = "sweep" /\ gc.todo = {}
    /\ gc' = GcIdle
    /\ UNCHANGED <<sync, trashed, rows, blobs, minted, req, ghosts>>

-----------------------------------------------------------------------------
(* Between two commits of one turn a statement can fail, or the process be *)
(* killed: what the first commit did stays.                                *)

\* uploadFile: createFile has committed, prepareUpload has not, and the
\* clean-up of a failed upload does not cover this step.
UploadUnprepared(n) ==
    /\ {"upload", "fault"} \subseteq Ops /\ Unused(n)
    /\ sync' = [sync EXCEPT ![n] = "pending_upload"]
    /\ UNCHANGED <<trashed, rows, blobs, minted, req, gc, ghosts>>

\* copyFile: createFile has committed; linkObject too, or not yet.
HalfLink(m, k) ==
    /\ sync' = [sync EXCEPT ![m] = "pending_upload"]
    /\ rows' \in {rows, InsertFirst(rows, m, k)}

CopyUnlinked(n, m) ==
    /\ {"copy", "fault"} \subseteq Ops /\ n \in Live /\ Unused(m)
    /\ \E r \in ActiveRows(rows, n) : ActiveCount(rows, r.key) = 1 /\ HalfLink(m, r.key)
    /\ UNCHANGED <<trashed, blobs, minted, req, gc, ghosts>>

CopyDupUnlinked(p) ==
    /\ "fault" \in Ops /\ req[p].op = "copy" /\ req[p].pc = "duped"
    /\ HalfLink(req[p].node, req[p].key)
    /\ Ends(p)
    /\ UNCHANGED <<trashed, blobs, minted, gc, ghosts>>

\* purgeNode: the blobs have gone, the delete of the node fails; emptyTrash only
\* collects the error.
PurgeNodeFails(p) ==
    /\ "fault" \in Ops /\ req[p].pc = "purge" /\ req[p].todo = {}
    /\ PurgeNext(p)
    /\ UNCHANGED <<sync, trashed, rows, blobs, minted, gc, ghosts>>

\* ensureExclusiveBlob: upsertObjectMap outside any transaction has demoted the
\* shared row, and has inserted the private one or not; overwriteFile is not
\* reached.
SplitTorn(p) ==
    LET n == req[p].node
    IN  /\ "fault" \in Ops /\ req[p].op = "overwrite" /\ req[p].pc = "duped"
        /\ sync[n] # "absent"
        /\ \/ rows' = DemoteActive(rows, n) /\ exposed' = exposed \cup {n}
           \/ rows' = Upsert(rows, n, req[p].key, "active") /\ Risks(n)
        /\ Ends(p)
        /\ UNCHANGED <<sync, trashed, blobs, minted, gc, content, ack, doomed>>

-----------------------------------------------------------------------------
\* The process dies and restarts: requests and the collector are forgotten.
\* Start-up only reports stuck nodes (runStartupRecovery), it repairs nothing.
Crash ==
    /\ "crash" \in Ops
    /\ (\E p \in Req : req[p].pc # "idle") \/ gc.pc # "idle"
    /\ req' = [p \in Req |-> Idle]
    /\ gc' = GcIdle
    /\ UNCHANGED <<sync, trashed, rows, blobs, minted, ghosts>>

Begin(p) ==
    \E n \in Node :
       \/ \E k \in Key : UploadStart(p, n, k) \/ OverwriteStart(p, n, k) \/ OverwriteSplit(p, n, k)
       \/ \E m \in Node : CopyLink(p, n, m) \/ \E k \in Key : CopyDup(p, n, m, k)
       \/ RestoreVersionStart(p, n)
       \/ RepairRestore(p, n)
       \/ \E action \in {"auto", "complete"} : RepairProbe(p, n, action)
       \/ RepairDelete(p, n)
       \/ \E queue \in SUBSET trashed : PurgeStart(p, n, queue)

\* The answers the handlers want.
Succeeds(p) ==
    \/ BlobLands(p) \/ Finish(p)
    \/ DupLands(p) \/ CopyDupDone(p) \/ \E k \in Key : OverwriteSplitDone(p, k)
    \/ UndoBlob(p)
    \/ HeadFinds(p) \/ RestoreVersionSwap(p)
    \/ RepairComplete(p) \/ RepairBlobMissing(p) \/ RepairKillBlob(p) \/ RepairKillNode(p)
    \/ PurgeBlob(p) \/ PurgeNode(p)

Fails(p) ==
    \/ UploadFails(p) \/ UploadCleanupFails(p)
    \/ DupFails(p)
    \/ OverwriteFails(p) \/ OverwriteRollbackFails(p)
    \/ HeadRefused(p)

Tears ==
    \/ \E n \in Node : UploadUnprepared(n) \/ \E m \in Node : CopyUnlinked(n, m)
    \/ \E p \in Req : CopyDupUnlinked(p) \/ SplitTorn(p) \/ PurgeNodeFails(p)

Collect ==
    \/ \E D \in SUBSET rows : GcBegin(D) \/ GcRows(D)
    \/ \E C \in SUBSET blobs : GcList(C)
    \/ GcBlob \/ GcStaleRows \/ GcReconcile \/ GcEnd

Next ==
    \/ \E p \in Req : Begin(p) \/ Succeeds(p) \/ Fails(p)
    \/ \E n \in Node : Trash(n) \/ Untrash(n) \/ RepairDeleteAtOnce(n)
    \/ Tears
    \/ Collect
    \/ Crash

Spec == Init /\ [][Next]_vars

-----------------------------------------------------------------------------
TypeOK ==
    /\ sync \in [Node -> {"absent", "pending_upload", "active"}]
    /\ trashed \in SUBSET Node
    /\ rows \in SUBSET Row
    /\ blobs \in SUBSET Key
    /\ minted \in SUBSET Key
    /\ req \in [Req -> ReqState]
    /\ gc \in GcState
    /\ content \in [Key -> Key]
    /\ ack \in [Node -> Key \cup {None}]
    /\ doomed \in SUBSET Node
    /\ exposed \in SUBSET Node

-----------------------------------------------------------------------------
(* What callers and operators rely on.                                     *)

\* Files whose content must survive: some caller was told it is stored and
\* nobody has asked to destroy it.
Promised == {n \in Node : ack[n] # None /\ n \notin doomed}

\* Those that no step known to be unsafe has touched: an overwrite, or the split
\* before it, that found the file without an active row (it was stuck, or another
\* overwrite was under way), a split torn between its two statements, or a repair
\* completing a row that the collector had selected or deleted.
Owed == Promised \ exposed

Holds(n, r) == content[r.key] = ack[n] /\ r.key \in blobs

\* uploadService, the failure table: a healthy file downloads exactly the bytes
\* last acknowledged; one active row holds them and its blob is present.
AcknowledgedReadable ==
    \A n \in Owed : sync[n] = "active" =>
        /\ Cardinality(ActiveRows(rows, n)) = 1
        /\ \A r \in ActiveRows(rows, n) : Holds(n, r)

\* failSafeService: a stuck overwrite can be undone; the row repair would
\* reactivate holds the bytes last acknowledged and its blob is still there.
LastGoodKept ==
    \A n \in Owed : sync[n] = "pending_upload" =>
        \E r \in LastGood(rows, n) : Holds(n, r)

\* gcService, the last-good guard: whatever was evicted, the bytes last
\* acknowledged are under some row of a stuck file, with their blob.
StuckKeepsAcknowledged ==
    \A n \in Owed : sync[n] = "pending_upload" =>
        \E r \in RowsOf(rows, n) : Holds(n, r)

\* versionsService: every version that listVersions shows has its blob.
VersionsHaveBlobs ==
    \A r \in rows : (r.st \in {"active", "history"} /\ r.node \notin doomed \cup exposed)
                        => r.key \in blobs

\* object_map_version_unique: the insert of upsertObjectMap never collides.
VersionsUnique == \A r, s \in rows : (r.node = s.node /\ r.ver = s.ver) => r = s

\* upsertObjectMap: "at most one active version per node exists at any time".
AtMostOneActive == \A n \in Node : Cardinality(ActiveRows(rows, n)) <= 1

\* What GC_VERSION_MAX_PER_NODE promises: active and history rows within the cap.
VersionsWithinCap ==
    Cap > 0 => \A n \in Node : Cardinality(Having(rows, n, {"active", "history"})) <= Cap

\* What the code keeps of it: evictVersionsBeyondCap runs before the new row becomes
\* active, so a file holds at most one version more than the cap.
VersionsBounded ==
    Cap > 0 => \A n \in Node : Cardinality(Having(rows, n, {"active", "history"})) <= Cap + 1

\* copyFile duplicates a blob that is already shared "so new copy doesn't add
\* another sharer": at most two files have the same active blob.
SharersBounded == \A k \in Key : ActiveCount(rows, k) <= 2

\* The trash: a purge deletes a file only while it is trashed.
PurgesTrashed ==
    [][\A p \in Req :
          (req[p].pc = "purge" /\ req'[p] # req[p] /\ sync[req[p].node] # "absent"
             /\ sync'[req[p].node] = "absent") => req[p].node \in trashed]_vars

\* Copy-on-write: a step changes the active version of one file only.
CopiesIsolated ==
    [][\A m, n \in Node :
          (ActiveRows(rows', m) # ActiveRows(rows, m) /\ ActiveRows(rows', n) # ActiveRows(rows, n))
             => m = n]_vars

-----------------------------------------------------------------------------
(* Liveness.  Requests end because every blob-store call answers or errors *)
(* out; the scheduler runs the collector again and again (maintenance      *)
(* timers), everything at rest grows old, and no deletion fails for ever.  *)

OldEvicted == Evicted(rows, sync)
OldPending == {r \in StalePending(rows, sync) : r.key \notin InFlight}

Fairness ==
    /\ \A p \in Req : WF_vars(Succeeds(p) \/ Fails(p))
    /\ WF_vars(Collect)
    /\ SF_vars(GcBegin(OldEvicted))
    /\ SF_vars(GcRows(OldPending))
    /\ SF_vars(GcList(blobs \ InFlight))
    /\ SF_vars(GcBlob /\ blobs' # blobs)

FairSpec == Spec /\ Fairness

\* Tier 2: a blob that nothing refers to is reclaimed, or adopted by a row.
UntrackedReclaimed ==
    \A k \in Key : (k \in blobs /\ k \notin InFlight /\ k \notin KeptKeys(rows, sync))
        ~> (k \notin blobs \/ k \in KeptKeys(rows, sync))

\* Tier 1: an evicted row, and the pending row of a stuck upload, do not stay
\* collectable for ever.
CollectableReclaimed ==
    \A n \in Node, k \in Key :
        (\E r \in Evicted(rows, sync) \cup StalePending(rows, sync) : RowId(r) = <<n, k>>)
            ~> (\A r \in Evicted(rows, sync) \cup StalePending(rows, sync) : RowId(r) # <<n, k>>)

\* emptyTrash: every file of the list is purged, whatever happens to the others.
ListedPurged ==
    \A p \in Req, n \in Node : (n \in req[p].queue) ~> (sync[n] = "absent")
=============================================================================
