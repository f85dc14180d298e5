--------------------------- MODULE StorageMigration ---------------------------
(***************************************************************************)
(* The two storage modes and the migration of the blobs from one to the    *)
(* other, with the requests that are in flight when it starts, crashes and *)
(* restarts.                                                               *)
(*                                                                         *)
(* On S3 a file is served by its active row, whose key names one blob that *)
(* is never rewritten: the row stands for that blob here.  On WebDAV the   *)
(* file is what lies at its path, and a trashed one lies at a path of its  *)
(* own in the trash.  A restart takes the configured mode; only a finished *)
(* migration configures another.                                           *)
(*                                                                         *)
(* A step is one remote call, one transaction, or one read.  A node is a   *)
(* file at a place of its own, with one request at a time: names, folders, *)
(* copies, purges, versions and the collector are left to the other        *)
(* modules, and so are stuck uploads.                                      *)
(***************************************************************************)
EXTENDS Naturals, FiniteSets

CONSTANTS Node,         \* files
          Content,      \* what may be uploaded; each once
          Short,        \* the contents of one size; the others are of another
          MaxFaults,    \* bound: remote calls that fail
          MaxRuns,      \* bound: migrations started
          MaxRestarts,  \* bound: crashes and restarts
          None

ASSUME ShortAssumption == Short \subseteq Content /\ None \notin Content

Torn == "torn"
Place == {"live", "trash"}
Other(m) == IF m = "s3" THEN "webdav" ELSE "s3"

\* Bytes; a PUT cut short leaves fewer.
SizeOf(b) == IF b = None THEN 0 ELSE IF b = Torn THEN 1 ELSE IF b \in Short THEN 2 ELSE 3

VARIABLES
    mode,       \* the storage mode this process started with
    stored,     \* WEA_FILE_STORAGE as the settings now have it
    file,       \* rows of file_nodes
    object,     \* the active row of object_map
    dav,        \* what lies on the WebDAV server
    cache,      \* filecache.size
    req,        \* the request under way on a file
    gate,       \* the migration gate
    lock,       \* the row of the migration lock
    job,        \* the migration job and its worker
    used, faults, runs, restarts

storage == <<file, object, dav, cache>>
bounds == <<used, faults, runs, restarts>>

\* History variables: what was last acknowledged, the files booked by a run and
\* not touched since, those the code does not take care of when the mode
\* changes, and those it has let down.
VARIABLES acked, booked, risk, lost

history == <<acked, booked, risk, lost>>
vars == <<mode, stored, storage, req, gate, lock, job, bounds, history>>

NoFile == [status |-> "absent", trashed |-> FALSE]
NoRow == [blob |-> None, backend |-> "s3"]
Idle == [at |-> "idle", blob |-> None, prev |-> NoRow, new |-> FALSE]
NoJob == [at |-> "none", force |-> FALSE, todo |-> {},
          seen |-> [n \in Node |-> <<FALSE, NoRow>>], cur |-> None, buf |-> None,
          doubtful |-> {}]

Init ==
    /\ mode \in {"s3", "webdav"} /\ stored = mode
    /\ file = [n \in Node |-> NoFile]
    /\ object = [n \in Node |-> NoRow]
    /\ dav = [n \in Node |-> [p \in Place |-> None]]
    /\ cache = [n \in Node |-> 0]
    /\ req = [n \in Node |-> Idle]
    /\ gate = FALSE /\ lock = "free" /\ job = NoJob
    /\ used = {} /\ faults = 0 /\ runs = 0 /\ restarts = 0
    /\ acked = [n \in Node |-> None]
    /\ booked = {} /\ risk = {} /\ lost = {}

Fault == faults < MaxFaults /\ faults' = faults + 1

Present(n) == file[n].status # "absent"
HasRow(n) == object[n].blob # None
IoPath(trashed) == IF trashed THEN "trash" ELSE "live"

-----------------------------------------------------------------------------
(* What a request leaves for the migration to trip over.                   *)

\* A run is on, or one has finished and waits for the restart.
Exposed == gate \/ stored # mode

\* A content of the same size already lies at the destination.
Lookalike(n, b) ==
    \E p \in Place : dav[n][p] \notin {None, b} /\ SizeOf(dav[n][p]) = SizeOf(b)

\* The copy that an earlier run made would not be made again.
WriteAtRisk(n, b) ==
    Exposed \/ IF mode = "s3" THEN Lookalike(n, b) ELSE HasRow(n)

\* Its place changes: a copy made at the other one, or an older content there.
TrashAtRisk(n) ==
    mode = "s3" /\ (Exposed \/ object[n].backend = "webdav" \/ Lookalike(n, acked[n]))

Acknowledge(n, b) ==
    /\ acked' = [acked EXCEPT ![n] = b]
    /\ lost' = lost \ {n}
    /\ booked' = booked \ {n}
    /\ risk' = IF WriteAtRisk(n, b) THEN risk \cup {n} ELSE risk \ {n}

-----------------------------------------------------------------------------
(* Requests.  The gate is looked at once, as a request comes in.  What     *)
(* follows before it changes anything - the body, the checks, a job that   *)
(* waits for its worker - may last until a migration runs.                 *)

Arrive(n) ==
    /\ ~gate /\ req[n] = Idle
    /\ req' = [req EXCEPT ![n].at = "in"]
    /\ UNCHANGED <<mode, stored, storage, gate, lock, job, bounds, history>>

Accepts(n) == req[n].at = "in"

Answered(n) == req' = [req EXCEPT ![n] = Idle]

\* It is refused, or changes nothing.
Leave(n) ==
    /\ Accepts(n) /\ Answered(n)
    /\ UNCHANGED <<mode, stored, storage, gate, lock, job, bounds, history>>

Put(n, b, prev) ==
    /\ b \notin used /\ used' = used \cup {b}
    /\ req' = [req EXCEPT ![n] = [at |-> "put", blob |-> b, prev |-> prev, new |-> ~Present(n)]]
    /\ file' = [file EXCEPT ![n].status =
                    IF mode = "s3" \/ ~Present(n) THEN "pending_upload" ELSE @]

\* uploadFile, overwriteFile on S3: the first transaction demotes the active row,
\* if there is one.
S3Begin(n, b) ==
    /\ mode = "s3" /\ Accepts(n) /\ ~file[n].trashed
    /\ Put(n, b, object[n])
    /\ object' = [object EXCEPT ![n] = NoRow]
    /\ UNCHANGED <<mode, stored, dav, cache, gate, lock, job, faults, runs, restarts, history>>

S3Commit(n) ==
    /\ mode = "s3" /\ req[n].at = "put"
    /\ object' = [object EXCEPT ![n] = [blob |-> req[n].blob, backend |-> "s3"]]
    /\ cache' = [cache EXCEPT ![n] = SizeOf(req[n].blob)]
    /\ file' = [file EXCEPT ![n].status = "active"]
    /\ Acknowledge(n, req[n].blob) /\ Answered(n)
    /\ UNCHANGED <<mode, stored, dav, gate, lock, job, bounds>>

\* A new file's node is deleted again.
Undone(n) ==
    /\ file' = [file EXCEPT ![n] = NoFile]
    /\ cache' = [cache EXCEPT ![n] = 0]

S3Fail(n) ==
    /\ mode = "s3" /\ req[n].at = "put" /\ Fault
    /\ IF req[n].new THEN Undone(n) /\ UNCHANGED object
       ELSE /\ object' = [object EXCEPT ![n] = req[n].prev]
            /\ file' = [file EXCEPT ![n].status = "active"] /\ UNCHANGED cache
    /\ Answered(n)
    /\ UNCHANGED <<mode, stored, dav, gate, lock, job, used, runs, restarts, history>>

\* On WebDAV an overwrite first copies what it is about to overwrite.
DavBegin(n, b) ==
    /\ mode = "webdav" /\ Accepts(n) /\ ~file[n].trashed
    /\ Put(n, b, [blob |-> IF Present(n) THEN dav[n]["live"] ELSE None, backend |-> "webdav"])
    /\ UNCHANGED <<mode, stored, object, dav, cache, gate, lock, job,
                   faults, runs, restarts, history>>

DavPut(n) ==
    /\ mode = "webdav" /\ req[n].at = "put"
    /\ dav' = [dav EXCEPT ![n]["live"] = req[n].blob]
    /\ req' = [req EXCEPT ![n].at = "ack"]
    /\ UNCHANGED <<mode, stored, file, object, cache, gate, lock, job, bounds, history>>

\* The PUT fails, before, while or after it is carried out.
DavPutFails(n) ==
    /\ mode = "webdav" /\ req[n].at = "put" /\ Fault
    /\ \E b \in {dav[n]["live"], Torn, req[n].blob} : dav' = [dav EXCEPT ![n]["live"] = b]
    /\ req' = [req EXCEPT ![n].at = "undo"]
    /\ UNCHANGED <<mode, stored, file, object, cache, gate, lock, job,
                   used, runs, restarts, history>>

DavAck(n) ==
    /\ req[n].at = "ack"
    /\ cache' = [cache EXCEPT ![n] = SizeOf(req[n].blob)]
    /\ Acknowledge(n, req[n].blob) /\ Answered(n)
    /\ UNCHANGED <<mode, stored, file, object, dav, gate, lock, job, bounds>>

Marked(n) ==
    /\ file' = [file EXCEPT ![n].status = "orphaned_node"]
    /\ lost' = lost \cup {n}

\* The copy is moved back; what cannot be brought back is marked.
DavUndo(n) ==
    /\ req[n].at = "undo"
    /\ \/ /\ req[n].new
          /\ Undone(n) /\ object' = [object EXCEPT ![n] = NoRow]
          /\ UNCHANGED <<dav, faults, lost>>
       \/ /\ ~req[n].new /\ req[n].prev.blob # None
          /\ dav' = [dav EXCEPT ![n]["live"] = req[n].prev.blob]
          /\ UNCHANGED <<file, object, cache, faults, lost>>
       \/ /\ ~req[n].new /\ Marked(n)
          /\ IF req[n].prev.blob = None THEN UNCHANGED faults ELSE Fault
          /\ UNCHANGED <<object, dav, cache>>
    /\ Answered(n)
    /\ UNCHANGED <<mode, stored, gate, lock, job, used, runs, restarts, acked, booked, risk>>

-----------------------------------------------------------------------------
(* The trash: a mark in the database, and on WebDAV a MOVE before it.      *)

Mark(n, t) ==
    /\ file' = [file EXCEPT ![n].trashed = t]
    /\ booked' = booked \ {n}
    /\ risk' = IF TrashAtRisk(n) THEN risk \cup {n} ELSE risk

S3Trash(n) ==
    /\ mode = "s3" /\ Accepts(n) /\ Present(n)
    /\ Mark(n, ~file[n].trashed) /\ Answered(n)
    /\ UNCHANGED <<mode, stored, object, dav, cache, gate, lock, job, bounds, acked, lost>>

Moved(n, from, to) ==
    IF dav[n][from] = None THEN dav
    ELSE [dav EXCEPT ![n][to] = dav[n][from], ![n][from] = None]

\* A MOVE that fails, the source missing for one, marks the node and ends it.
DavTrash(n) ==
    /\ mode = "webdav" /\ Accepts(n) /\ Present(n) /\ ~file[n].trashed
    /\ dav[n]["trash"] = None
    /\ \/ /\ dav[n]["live"] # None /\ dav' = Moved(n, "live", "trash")
          /\ req' = [req EXCEPT ![n].at = "trash"]
          /\ UNCHANGED <<file, faults, lost>>
       \/ /\ dav' \in {dav, Moved(n, "live", "trash")} /\ Marked(n)
          /\ IF dav[n]["live"] = None THEN UNCHANGED faults ELSE Fault
          /\ Answered(n)
    /\ UNCHANGED <<mode, stored, object, cache, gate, lock, job,
                   used, runs, restarts, acked, booked, risk>>

\* What lies in the trash is moved back first; if nothing does, nothing is moved.
DavRestore(n) ==
    /\ mode = "webdav" /\ Accepts(n) /\ file[n].trashed
    /\ dav' = Moved(n, "trash", "live")
    /\ req' = [req EXCEPT ![n].at = "restore"]
    /\ UNCHANGED <<mode, stored, file, object, cache, gate, lock, job, bounds, history>>

DavMark(n) ==
    /\ req[n].at \in {"trash", "restore"}
    /\ Mark(n, req[n].at = "trash") /\ Answered(n)
    /\ UNCHANGED <<mode, stored, object, dav, cache, gate, lock, job, bounds, acked, lost>>

-----------------------------------------------------------------------------
(* A migration run.                                                        *)

\* The route answers, the gate is up, the worker takes the lock.
StartRun(force) ==
    /\ ~gate /\ runs < MaxRuns /\ runs' = runs + 1
    /\ gate' = TRUE
    /\ job' = [NoJob EXCEPT !.at = "lock", !.force = force]
    /\ UNCHANGED <<mode, stored, storage, req, lock, used, faults, restarts, history>>

\* What the snapshot leaves out by its own rule: what is not known to be good.
LeftOut ==
    {n \in Node : Present(n) /\ IF mode = "s3" THEN file[n].status # "active" \/ ~HasRow(n)
                                ELSE file[n].status = "orphaned_node"}

Snapshot == {n \in Node : Present(n)} \ LeftOut

\* Requests that the gate let in and that have not ended, begun or not.
UnderWay == {n \in Node : req[n] # Idle}

\* The lock is not waited for: a row left by a dead run ends this one.
TakeLock ==
    /\ job.at = "lock"
    /\ IF lock # "free" THEN job' = [job EXCEPT !.at = "end"] /\ UNCHANGED lock
       ELSE /\ lock' = "held"
            /\ job' = [job EXCEPT !.at = "next", !.todo = Snapshot, !.doubtful = UnderWay \cup LeftOut,
                                  !.seen = [n \in Node |-> <<file[n].trashed, object[n]>>]]
    /\ UNCHANGED <<mode, stored, storage, req, gate, bounds, history>>

\* The snapshot or the destination fails.
RunFails ==
    /\ job.at = "lock" /\ lock = "free" /\ Fault
    /\ job' = [job EXCEPT !.at = "end"]
    /\ UNCHANGED <<mode, stored, storage, req, gate, lock, used, runs, restarts, history>>

SeenPath(n) == IoPath(job.seen[n][1])
SeenRow(n) == job.seen[n][2]

\* Mutant: a file at the destination will do.
SkipIfThere(n) ==
    IF mode = "webdav" THEN ~job.force /\ SeenRow(n).blob # None
    ELSE \/ SeenRow(n).backend # "s3"
         \/ ~job.force /\ dav[n][SeenPath(n)] # None

\* Mutant: the marker of an earlier run is not looked at.
SkipLookalikes(n) ==
    mode = "s3" /\ ~job.force /\ SizeOf(dav[n][SeenPath(n)]) = cache[n] /\ cache[n] # 0

\* shouldSkip: a row already flipped, a marker of an earlier run, or a file of
\* the right size at the destination.
ShouldSkip(n) ==
    IF mode = "webdav" THEN ~job.force /\ SeenRow(n).blob # None
    ELSE \/ SeenRow(n).backend # "s3"
         \/ /\ ~job.force /\ cache[n] # 0
            /\ dav[n][SeenPath(n)] # None /\ SizeOf(dav[n][SeenPath(n)]) = cache[n]

Failed(j) == [j EXCEPT !.at = "next", !.doubtful = @ \cup {j.cur}]

\* The path, the size or the look at the destination may fail.
NextFile ==
    /\ job.at = "next"
    /\ \E n \in job.todo :
          \/ /\ job' = [job EXCEPT !.at = IF ShouldSkip(n) THEN "next" ELSE "read",
                                   !.todo = @ \ {n}, !.cur = n]
             /\ UNCHANGED faults
          \/ Fault /\ job' = Failed([job EXCEPT !.todo = @ \ {n}, !.cur = n])
    /\ UNCHANGED <<mode, stored, storage, req, gate, lock, used, runs, restarts, history>>

\* No file is left, or the job has been cancelled: the lock goes.
StopRun ==
    /\ job.at = "next"
    /\ job' = [job EXCEPT !.at = "end", !.cur = None, !.buf = None]
    /\ lock' = "free"
    /\ UNCHANGED <<mode, stored, storage, req, gate, bounds, history>>

FinishRun ==
    /\ job.at = "next" /\ job.todo = {}
    /\ job' = [job EXCEPT !.at = "persist", !.cur = None, !.buf = None]
    /\ lock' = "free"
    /\ UNCHANGED <<mode, stored, storage, req, gate, bounds, history>>

Source(n) == IF mode = "s3" THEN SeenRow(n).blob ELSE dav[n][SeenPath(n)]

Read ==
    /\ job.at = "read"
    /\ LET b == Source(job.cur)
       IN  \/ /\ job' = IF b = None THEN Failed(job) ELSE [job EXCEPT !.at = "write", !.buf = b]
              /\ UNCHANGED faults
           \/ Fault /\ job' = Failed(job)
    /\ UNCHANGED <<mode, stored, storage, req, gate, lock, used, runs, restarts, history>>

\* A new key on S3, which no row has yet; the path on WebDAV.
Written(n, b) == IF mode = "s3" THEN [dav EXCEPT ![n][SeenPath(n)] = b] ELSE dav

\* A write that fails has done nothing, some, or all of it.
Write ==
    /\ job.at = "write"
    /\ \/ /\ dav' = Written(job.cur, job.buf)
          /\ job' = [job EXCEPT !.at = "book"] /\ UNCHANGED faults
       \/ /\ dav' \in {dav, Written(job.cur, Torn), Written(job.cur, job.buf)}
          /\ job' = Failed(job) /\ Fault
    /\ risk' = IF job.cur \in job.doubtful \/ stored # mode THEN risk \cup {job.cur} ELSE risk
    /\ UNCHANGED <<mode, stored, file, object, cache, req, gate, lock,
                   used, runs, restarts, acked, booked, lost>>

\* A node that is deleted meanwhile fails the statement that would refer to it.
Vanished ==
    /\ job.at \in {"book", "mark"} /\ ~Present(job.cur)
    /\ job' = Failed(job)
    /\ UNCHANGED <<mode, stored, storage, req, gate, lock, bounds, history>>

\* The first statement after the copy: a new active row, or the size.
Book ==
    /\ job.at = "book" /\ Present(job.cur) /\ job' = [job EXCEPT !.at = "mark"]
    /\ LET n == job.cur
       IN  IF mode = "webdav"
           THEN object' = [object EXCEPT ![n] = [blob |-> job.buf, backend |-> "s3"]]
                /\ UNCHANGED cache
           ELSE cache' = [cache EXCEPT ![n] = SizeOf(job.buf)] /\ UNCHANGED object
    /\ UNCHANGED <<mode, stored, file, dav, req, gate, lock, bounds, history>>

\* The last ones: the status, or the flip of the row that is now active.
MarkCopied ==
    /\ job.at = "mark" /\ Present(job.cur) /\ job' = [job EXCEPT !.at = "next"]
    /\ LET n == job.cur
       IN  /\ IF mode = "webdav"
              THEN /\ file' = [file EXCEPT ![n].status = "active"]
                   /\ cache' = [cache EXCEPT ![n] = SizeOf(job.buf)]
                   /\ UNCHANGED object
              ELSE /\ object' = IF HasRow(n) THEN [object EXCEPT ![n].backend = "webdav"]
                                ELSE object
                   /\ UNCHANGED <<file, cache>>
           /\ IF n \in job.doubtful THEN UNCHANGED <<booked, risk>>
              ELSE booked' = booked \cup {n} /\ risk' = risk \ {n}
    /\ UNCHANGED <<mode, stored, dav, req, gate, lock, bounds, acked, lost>>

\* Files that failed are reported, and do not stop it.  Only the first of the
\* settings is looked at, the mode; those after it are the destination's address.
Persist ==
    /\ job.at = "persist"
    /\ stored' \in {stored, Other(mode)}
    /\ risk' = risk \cup job.doubtful
    /\ job' = [job EXCEPT !.at = "end"]
    /\ UNCHANGED <<mode, storage, req, gate, lock, bounds, acked, booked, lost>>

\* Mutant: a run that ends leaves the gate as it is.
EndRunClosed ==
    /\ job.at = "end" /\ job' = NoJob
    /\ UNCHANGED <<mode, stored, storage, req, gate, lock, bounds, history>>

EndRun ==
    /\ job.at = "end" /\ gate' = FALSE /\ job' = NoJob
    /\ UNCHANGED <<mode, stored, storage, req, lock, bounds, history>>

-----------------------------------------------------------------------------
(* Crashes and restarts, in any state.                                     *)

\* Files that a request had half changed.
HalfDone ==
    {n \in Node : IF mode = "s3" THEN req[n].at = "put"
                  ELSE req[n].at \in {"ack", "undo", "trash"}}

Restart ==
    /\ restarts < MaxRestarts /\ restarts' = restarts + 1
    /\ mode' = stored
    /\ gate' = FALSE /\ job' = NoJob
    /\ lock' = IF lock = "held" THEN "stale" ELSE lock
    /\ req' = [n \in Node |-> Idle]
    /\ IF stored = mode THEN lost' = lost \cup HalfDone /\ UNCHANGED <<booked, risk>>
       ELSE lost' = lost \cup HalfDone \cup risk /\ booked' = {} /\ risk' = {}
    /\ UNCHANGED <<stored, storage, used, faults, runs, acked>>

\* A day later.
LockExpires ==
    /\ lock = "stale" /\ lock' = "free"
    /\ UNCHANGED <<mode, stored, storage, req, gate, job, bounds, history>>

-----------------------------------------------------------------------------

Request(n) ==
    \/ Arrive(n) \/ Leave(n)
    \/ \E b \in Content : S3Begin(n, b) \/ DavBegin(n, b)
    \/ S3Commit(n) \/ S3Fail(n)
    \/ DavPut(n) \/ DavPutFails(n) \/ DavAck(n) \/ DavUndo(n)
    \/ S3Trash(n) \/ DavTrash(n) \/ DavRestore(n) \/ DavMark(n)

Work == TakeLock \/ RunFails \/ NextFile \/ StopRun \/ FinishRun
            \/ Read \/ Write \/ Book \/ Vanished \/ MarkCopied \/ Persist \/ EndRun

Next ==
    \/ \E n \in Node : Request(n)
    \/ \E force \in BOOLEAN : StartRun(force)
    \/ Work \/ Restart \/ LockExpires

Spec == Init /\ [][Next]_vars

-----------------------------------------------------------------------------
(* Properties.                                                             *)

Blob == Content \cup {None, Torn}
Row == [blob : Blob, backend : {"s3", "webdav"}]

\* Types, and where a run can be.
TypeOK ==
    /\ mode \in {"s3", "webdav"} /\ stored \in {"s3", "webdav"}
    /\ file \in [Node -> [status : {"absent", "pending_upload", "active", "orphaned_node"},
                          trashed : BOOLEAN]]
    /\ object \in [Node -> Row]
    /\ dav \in [Node -> [Place -> Blob]]
    /\ cache \in [Node -> 0..3]
    /\ req \in [Node -> [at : {"idle", "in", "put", "ack", "undo", "trash", "restore"},
                         blob : Blob, prev : Row, new : BOOLEAN]]
    /\ gate \in BOOLEAN /\ (gate <=> job.at # "none")
    /\ lock \in {"free", "held", "stale"}
    /\ job.cur \in Node \cup {None} /\ job.buf \in Blob
    /\ acked \in [Node -> Content \cup {None}]

\* What a download returns; of a trashed file, what its restore would bring back.
Serves(n) ==
    IF mode = "s3" THEN object[n].blob
    ELSE IF file[n].trashed /\ dav[n]["trash"] # None THEN dav[n]["trash"]
    ELSE dav[n]["live"]

\* Whatever runs, is cancelled, fails halfway or dies, and after a change of
\* mode and back: a file serves what was last acknowledged for it, unless it
\* was left in a way the code makes no promise about (lost).  Among these are,
\* once the mode has changed, the files that a request was still under way on
\* as the run took its snapshot, or changed behind the gate: see
\* BooksWhatIsServed.
ServesAcknowledged ==
    \A n \in Node : acked[n] # None /\ req[n] = Idle /\ n \notin lost => Serves(n) = acked[n]

\* A run that resumes does not copy again what an earlier one has booked and
\* nobody has touched, unless forced to.
ResumesWhereItLeft ==
    [][\A n \in booked :
         ~(job.at = "read" /\ job'.at = "write" /\ job.cur = n /\ ~job.force)]_vars

\* What a run books as copied is what its file serves at that moment.  It would
\* be if, while a migration runs, the whole app were locked (migrationGate): a
\* request that the gate let in before may change the file after it was read.
BooksWhatIsServed ==
    [][\A n \in Node :
         /\ job.at = "mark" /\ job'.at = "next" /\ job.cur = n /\ Present(n)
         /\ req[n] = Idle /\ acked[n] # None /\ n \notin lost
         => job.buf = Serves(n)]_vars

=============================================================================
