------------------------ MODULE StorageMigrationProofs ------------------------
(***************************************************************************)
(* For any files, contents and bounds:                                     *)
(*                                                                         *)
(* 1. A migration that resumes copies no file again: what a run books      *)
(* stays recognisable to shouldSkip, through requests in flight, failed    *)
(* overwrites, crashes and later runs.                                     *)
(*                                                                         *)
(* 2. A file that the history variable lost does not name serves what was  *)
(* last acknowledged for it, in either mode, whatever migrations run,      *)
(* fail, are cancelled or die.                                             *)
(***************************************************************************)
EXTENDS StorageMigration, TLAPS

Job == [at : {"none", "lock", "next", "read", "write", "book", "mark", "persist", "end"},
        force : BOOLEAN, todo : SUBSET Node, seen : [Node -> BOOLEAN \X Row],
        cur : Node \cup {None}, buf : Blob, doubtful : SUBSET Node]

FileRow == [status : {"absent", "pending_upload", "active", "orphaned_node"}, trashed : BOOLEAN]

ReqState == [at : {"idle", "in", "put", "ack", "undo", "trash", "restore"},
             blob : Content \cup {None}, prev : Row, new : BOOLEAN]

Switches ==
    /\ mode \in {"s3", "webdav"} /\ stored \in {"s3", "webdav"}
    /\ lock \in {"free", "held", "stale"}
    /\ gate \in BOOLEAN /\ (gate <=> job.at # "none")

Typed ==
    /\ Switches
    /\ file \in [Node -> FileRow] /\ object \in [Node -> Row]
    /\ dav \in [Node -> [Place -> Blob]] /\ cache \in [Node -> 0..3]
    /\ req \in [Node -> ReqState] /\ job \in Job
    /\ acked \in [Node -> Content \cup {None}] /\ booked \subseteq Node

Copying == job.at \in {"read", "write", "book", "mark"}
Running == job.at = "next" \/ Copying

\* The file being copied is a file, is done with, and has been read.
Current ==
    Copying => job.cur \in Node \ job.todo /\ (job.at # "read" => job.buf # None)

\* What the run has still to finish.
Ahead == IF Copying THEN job.todo \cup {job.cur} ELSE job.todo

\* The gate keeps new requests out; those that are in at the snapshot are doubtful.
Quiet ==
    Running \/ job.at = "persist" => \A n \in Node \ job.doubtful : req[n] = Idle

\* So nobody else changes the files ahead, the doubtful ones apart.
Undisturbed ==
    Running => \A n \in Ahead \ job.doubtful :
        /\ Present(n)
        /\ mode = "s3" => HasRow(n) /\ file[n].status = "active"
        /\ mode = "webdav" /\ job.at = "mark" /\ n = job.cur => HasRow(n)

\* An overwrite on S3 keeps its file pending.
PendingAt(n) ==
    mode = "s3" =>
        /\ req[n].at \in {"idle", "in", "put"}
        /\ req[n].at = "put" => file[n].status = "pending_upload"

Pending == \A n \in Node : PendingAt(n)

\* A booked file keeps the marker that its run left: a row on WebDAV, a flipped
\* row on S3, which an overwrite that has not ended puts aside.
MarkerAt(n) ==
    /\ Present(n) /\ ~req[n].new
    /\ mode = "webdav" => HasRow(n)
    /\ mode = "s3" /\ HasRow(n) => object[n].backend = "webdav"
    /\ mode = "s3" /\ req[n].at = "put" =>
          ~HasRow(n) /\ (req[n].prev.blob # None => req[n].prev.backend = "webdav")

Booked == \A n \in booked : MarkerAt(n)

SeenMarker(n) ==
    IF mode = "webdav" THEN SeenRow(n).blob # None ELSE SeenRow(n).backend # "s3"

\* A run that is not forced finds the marker of what is booked, or has passed it.
Recognised ==
    Running /\ ~job.force =>
        /\ \A n \in booked \cap job.todo : SeenMarker(n)
        /\ Copying => job.cur \notin booked

IInv == Typed /\ Current /\ Quiet /\ Undisturbed /\ Pending /\ Booked /\ Recognised

-----------------------------------------------------------------------------
\* Sizes are bounded.
LEMMA Sizes == \A b : SizeOf(b) \in 0..3
    BY DEF SizeOf

\* The start of everything: no file, no run.
LEMMA Constants ==
    NoFile \in FileRow /\ NoRow \in Row /\ Idle \in ReqState /\ NoJob \in Job
    BY DEF NoFile, FileRow, NoRow, Row, Idle, ReqState, NoJob, Job, Blob

\* The types hold at the start.
LEMMA InitTyped == Init => Typed
<1> SUFFICES ASSUME Init PROVE Typed
    OBVIOUS
<1>1. Switches
    BY DEF Init, Switches, NoJob
<1>2. cache \in [Node -> 0..3] /\ dav \in [Node -> [Place -> Blob]]
    BY DEF Init, Blob
<1> QED
    BY <1>1, <1>2, Constants DEF Init, Typed

\* The next file is skipped, read or given up.
Takes(n) ==
    \/ job' = [job EXCEPT !.at = IF ShouldSkip(n) THEN "next" ELSE "read",
                          !.todo = @ \ {n}, !.cur = n]
    \/ job' = [job EXCEPT !.at = "next", !.todo = @ \ {n}, !.cur = n, !.doubtful = @ \cup {n}]

LEMMA NextTakes == ASSUME Typed, NextFile PROVE \E n \in job.todo : Takes(n)
<1>1. ASSUME NEW n, job' = Failed([job EXCEPT !.todo = @ \ {n}, !.cur = n]) PROVE Takes(n)
  <2> DEFINE taken == [job EXCEPT !.todo = @ \ {n}, !.cur = n]
  <2>1. job' = [taken EXCEPT !.at = "next", !.doubtful = taken.doubtful \cup {taken.cur}]
      BY <1>1 DEF Failed
  <2>2. taken.cur = n /\ taken.doubtful = job.doubtful
      BY DEF Typed, Job
  <2>3. job' = [taken EXCEPT !.at = "next", !.doubtful = job.doubtful \cup {n}]
      BY <2>1, <2>2
  <2> QED
      BY <2>3 DEF Takes, Typed, Job
<1> QED
    BY <1>1 DEF NextFile, Takes

\* Every step keeps the types.
LEMMA TypesKept == ASSUME Typed, Current, [Next]_vars PROVE Typed'
<1>1. ASSUME NEW n \in Node, NEW b \in Content, S3Begin(n, b) PROVE Typed'
  <2>1. file' \in [Node -> FileRow]
    BY <1>1, Constants DEF S3Begin, Typed, FileRow, Put
  <2>2. object' \in [Node -> Row]
    BY <1>1, Constants DEF S3Begin, Typed
  <2>3. req' \in [Node -> ReqState]
    BY <1>1, Constants DEF S3Begin, Typed, Put, ReqState, Present
  <2> QED
    BY <1>1, <2>1, <2>2, <2>3 DEF S3Begin, Typed, history, Switches, Put
<1>2. ASSUME NEW n \in Node, NEW b \in Content, DavBegin(n, b) PROVE Typed'
  <2>1. file' \in [Node -> FileRow]
    BY <1>2, Constants DEF DavBegin, Typed, FileRow, Put
  <2>2. req' \in [Node -> ReqState]
    BY <1>2, Constants DEF DavBegin, Typed, Put, ReqState, Row, Blob, Place, Present
  <2> QED
    BY <1>2, <2>1, <2>2 DEF DavBegin, Typed, history, Switches, Put
<1>3. ASSUME NEW n \in Node, S3Commit(n) PROVE Typed'
  <2>1. file' \in [Node -> FileRow]
    BY <1>3, Constants DEF S3Commit, Typed, FileRow
  <2>2. object' \in [Node -> Row]
    <3>1. [blob |-> req[n].blob, backend |-> "s3"] \in Row
        BY DEF Typed, ReqState, Row, Blob
    <3> QED
        BY <1>3, <3>1 DEF S3Commit, Typed
  <2>3. cache' \in [Node -> 0..3]
    BY <1>3, Constants, Sizes DEF S3Commit, Typed
  <2>4. req' \in [Node -> ReqState]
    BY <1>3, Constants DEF S3Commit, Typed, Answered
  <2>5. acked' \in [Node -> Content \cup {None}]
    BY <1>3, Constants DEF S3Commit, Typed, Acknowledge, ReqState
  <2>6. booked' \subseteq Node
    BY <1>3, Constants DEF S3Commit, Typed, Acknowledge
  <2> QED
    BY <1>3, <2>1, <2>2, <2>3, <2>4, <2>5, <2>6 DEF S3Commit, Typed, Switches
<1>4. ASSUME NEW n \in Node, S3Fail(n) PROVE Typed'
  <2>1. file' \in [Node -> FileRow]
    <3>1. CASE req[n].new
        BY <1>4, <3>1, Constants DEF S3Fail, Typed, Undone
    <3>2. CASE ~req[n].new
      <4>1. file' = [file EXCEPT ![n].status = "active"]
          BY <1>4, <3>2 DEF S3Fail
      <4> QED
          BY <4>1 DEF Typed, FileRow
    <3> QED
        BY <3>1, <3>2
  <2>2. object' \in [Node -> Row]
    BY <1>4, Constants DEF S3Fail, Typed, ReqState
  <2>3. cache' \in [Node -> 0..3]
    BY <1>4, Constants, Sizes DEF S3Fail, Typed, Undone
  <2>4. req' \in [Node -> ReqState]
    BY <1>4, Constants DEF S3Fail, Typed, Answered
  <2> QED
    BY <1>4, <2>1, <2>2, <2>3, <2>4 DEF S3Fail, Typed, history, Switches
<1>5. ASSUME NEW n \in Node, DavPut(n) PROVE Typed'
  <2>1. dav' \in [Node -> [Place -> Blob]]
    <3>1. req[n].blob \in Blob
        BY DEF Typed, ReqState, Blob
    <3> QED
        BY <1>5, <3>1 DEF DavPut, Typed, Place
  <2>2. req' \in [Node -> ReqState]
    BY <1>5 DEF DavPut, Typed, ReqState
  <2> QED
    BY <1>5, <2>1, <2>2 DEF DavPut, Typed, history, Switches
<1>6. ASSUME NEW n \in Node, DavPutFails(n) PROVE Typed'
  <2>1. dav' \in [Node -> [Place -> Blob]]
    BY <1>6 DEF DavPutFails, Typed, ReqState, Place, Blob, Torn
  <2>2. req' \in [Node -> ReqState]
    <3>1. req' = [req EXCEPT ![n].at = "undo"]
        BY <1>6 DEF DavPutFails
    <3> QED
        BY <3>1 DEF Typed, ReqState
  <2> QED
    BY <1>6, <2>1, <2>2 DEF DavPutFails, Typed, history, Switches
<1>7. ASSUME NEW n \in Node, DavAck(n) PROVE Typed'
  <2>1. cache' \in [Node -> 0..3]
    BY <1>7, Constants, Sizes DEF DavAck, Typed
  <2>2. req' \in [Node -> ReqState]
    BY <1>7, Constants DEF DavAck, Typed, Answered
  <2>3. acked' \in [Node -> Content \cup {None}]
    BY <1>7, Constants DEF DavAck, Typed, Acknowledge, ReqState
  <2>4. booked' \subseteq Node
    BY <1>7, Constants DEF DavAck, Typed, Acknowledge
  <2> QED
    BY <1>7, <2>1, <2>2, <2>3, <2>4 DEF DavAck, Typed, Switches
<1>8. ASSUME NEW n \in Node, DavUndo(n) PROVE Typed'
  <2>1. file' \in [Node -> FileRow]
    <3>1. CASE Undone(n)
        BY <3>1, Constants DEF Typed, Undone
    <3>2. CASE Marked(n)
        BY <3>2 DEF Typed, FileRow, Marked
    <3> QED
        BY <1>8, <3>1, <3>2 DEF DavUndo, Typed
  <2>2. object' \in [Node -> Row]
    BY <1>8, Constants DEF DavUndo, Typed
  <2>3. dav' \in [Node -> [Place -> Blob]]
    <3>1. req[n].prev.blob \in Blob
        BY DEF Typed, ReqState, Row
    <3> QED
        BY <1>8, <3>1 DEF DavUndo, Typed, Place
  <2>4. cache' \in [Node -> 0..3]
    BY <1>8, Constants, Sizes DEF DavUndo, Typed, Undone
  <2>5. req' \in [Node -> ReqState]
    BY <1>8, Constants DEF DavUndo, Typed, Answered
  <2> QED
    BY <1>8, <2>1, <2>2, <2>3, <2>4, <2>5 DEF DavUndo, Typed, Switches
<1>9. ASSUME NEW n \in Node, S3Trash(n) PROVE Typed'
  <2>1. file' \in [Node -> FileRow]
    BY <1>9 DEF S3Trash, Typed, FileRow, Mark
  <2>2. booked' \subseteq Node
    BY <1>9 DEF S3Trash, Typed, Mark
  <2>3. req' \in [Node -> ReqState]
    BY <1>9, Constants DEF S3Trash, Typed, Answered
  <2> QED
    BY <1>9, <2>1, <2>2, <2>3 DEF S3Trash, Typed, Switches
<1>10. ASSUME NEW n \in Node, DavTrash(n) PROVE Typed'
  <2>1. file' \in [Node -> FileRow]
    BY <1>10 DEF DavTrash, Typed, FileRow, Marked
  <2>2. dav' \in [Node -> [Place -> Blob]]
    BY <1>10 DEF DavTrash, Typed, Moved, Place
  <2>3. req' \in [Node -> ReqState]
    <3>1. req' \in {[req EXCEPT ![n] = Idle], [req EXCEPT ![n].at = "trash"]}
        BY <1>10 DEF DavTrash, Answered
    <3>2. /\ [req EXCEPT ![n] = Idle] \in [Node -> ReqState]
          /\ [req EXCEPT ![n].at = "trash"] \in [Node -> ReqState]
        BY Constants DEF Typed, ReqState
    <3> QED
        BY <3>1, <3>2 DEF Typed
  <2> QED
    BY <1>10, <2>1, <2>2, <2>3 DEF DavTrash, Typed, Switches
<1>11. ASSUME NEW n \in Node, DavRestore(n) PROVE Typed'
  <2>1. dav' \in [Node -> [Place -> Blob]]
    BY <1>11 DEF DavRestore, Typed, Moved, Place
  <2>2. req' \in [Node -> ReqState]
    BY <1>11 DEF DavRestore, Typed, ReqState
  <2> QED
    BY <1>11, <2>1, <2>2 DEF DavRestore, Typed, history, Switches
<1>12. ASSUME NEW n \in Node, DavMark(n) PROVE Typed'
  <2>1. file' \in [Node -> FileRow]
    BY <1>12, Constants DEF DavMark, Typed, FileRow, Mark
  <2>2. req' \in [Node -> ReqState]
    BY <1>12, Constants DEF DavMark, Typed, Answered
  <2>3. booked' \subseteq Node
    BY <1>12, Constants DEF DavMark, Typed, Mark
  <2> QED
    BY <1>12, <2>1, <2>2, <2>3 DEF DavMark, Typed, Switches
<1>13. ASSUME NEW force \in BOOLEAN, StartRun(force) PROVE Typed'
  <2>1. job' \in Job
    BY <1>13, Constants DEF StartRun, Job, NoJob
  <2>2. Switches'
    BY <1>13, Constants DEF StartRun, Typed, Switches, NoJob
  <2> QED
    BY <1>13, <2>1, <2>2 DEF StartRun, Typed, storage, history
<1>14. ASSUME TakeLock PROVE Typed'
  <2>1. job' \in Job
    <3>1. [n \in Node |-> <<file[n].trashed, object[n]>>] \in [Node -> BOOLEAN \X Row]
        BY DEF Typed, FileRow
    <3>2. Snapshot \subseteq Node /\ LeftOut \subseteq Node /\ UnderWay \subseteq Node
        BY DEF Snapshot, LeftOut, UnderWay
    <3>3. CASE lock # "free"
        BY <1>14, <3>3 DEF TakeLock, Typed, Job
    <3>4. CASE lock = "free"
      <4>1. job' = [job EXCEPT !.at = "next", !.todo = Snapshot, !.doubtful = UnderWay \cup LeftOut,
                      !.seen = [n \in Node |-> <<file[n].trashed, object[n]>>]]
          BY <1>14, <3>4 DEF TakeLock
      <4> QED
          BY <3>1, <3>2, <4>1 DEF Typed, Job
    <3> QED
        BY <3>3, <3>4
  <2>2. Switches'
    BY <1>14 DEF TakeLock, Typed, Switches, Job
  <2> QED
    BY <1>14, <2>1, <2>2 DEF TakeLock, Typed, storage, history
<1>15. ASSUME RunFails PROVE Typed'
  <2>1. job' \in Job
    BY <1>15 DEF RunFails, Typed, Job
  <2>2. Switches'
    BY <1>15 DEF RunFails, Typed, Switches
  <2> QED
    BY <1>15, <2>1, <2>2 DEF RunFails, Typed, storage, history
<1>16. ASSUME NextFile PROVE Typed'
  <2>1. job' \in Job
    <3>1. PICK n \in job.todo : Takes(n)
        BY <1>16, NextTakes
    <3>2. job \in Job /\ n \in Node
        BY <3>1 DEF Typed, Job
    <3>3. CASE job' = [job EXCEPT !.at = "next", !.todo = @ \ {n}, !.cur = n,
                                  !.doubtful = @ \cup {n}]
        BY <3>2, <3>3 DEF Job
    <3>4. CASE job' = [job EXCEPT !.at = IF ShouldSkip(n) THEN "next" ELSE "read",
                                  !.todo = @ \ {n}, !.cur = n]
        BY <3>2, <3>4 DEF Job
    <3> QED
        BY <3>1, <3>3, <3>4 DEF Takes
  <2>2. Switches'
    <3>1. job'.at # "none" /\ job.at # "none"
        BY <1>16, NextTakes DEF Takes, NextFile, Typed, Job
    <3> QED
        BY <1>16, <3>1 DEF NextFile, Typed, Switches
  <2> QED
    BY <1>16, <2>1, <2>2 DEF NextFile, Typed, storage, history
<1>17. ASSUME StopRun PROVE Typed'
  <2>1. job' \in Job
    BY <1>17 DEF StopRun, Typed, Job, Blob
  <2>2. Switches'
    BY <1>17 DEF StopRun, Typed, Switches
  <2> QED
    BY <1>17, <2>1, <2>2 DEF StopRun, Typed, storage, history
<1>18. ASSUME FinishRun PROVE Typed'
  <2>1. job' \in Job
    BY <1>18 DEF FinishRun, Typed, Job, Blob
  <2>2. Switches'
    BY <1>18 DEF FinishRun, Typed, Switches
  <2> QED
    BY <1>18, <2>1, <2>2 DEF FinishRun, Typed, storage, history
<1>19. ASSUME Read PROVE Typed'
  <2>1. job' \in Job
    <3>1. job.cur \in Node
        BY <1>19 DEF Read, Current, Copying
    <3>2. Source(job.cur) \in Blob
      <4>1. SeenRow(job.cur) \in Row /\ SeenPath(job.cur) \in Place
          BY <3>1 DEF SeenRow, SeenPath, IoPath, Place, Typed, Job
      <4> QED
          BY <3>1, <4>1 DEF Source, Row, Typed
    <3>3. Failed(job) \in Job
        BY <3>1 DEF Failed, Typed, Job
    <3>4. \A b \in Blob : [job EXCEPT !.at = "write", !.buf = b] \in Job
        BY DEF Typed, Job
    <3> QED
        BY <1>19, <3>2, <3>3, <3>4 DEF Read
  <2>2. Switches'
    BY <1>19 DEF Read, Typed, Switches, Failed, Job
  <2> QED
    BY <1>19, <2>1, <2>2 DEF Read, Typed, storage, history
<1>20. ASSUME Write PROVE Typed'
  <2>1. dav' \in [Node -> [Place -> Blob]]
    <3>1. job.cur \in Node /\ job.buf \in Blob /\ Torn \in Blob
        BY <1>20 DEF Write, Current, Copying, Typed, Job, Blob
    <3>2. /\ [dav EXCEPT ![job.cur][SeenPath(job.cur)] = job.buf] \in [Node -> [Place -> Blob]]
          /\ [dav EXCEPT ![job.cur][SeenPath(job.cur)] = Torn] \in [Node -> [Place -> Blob]]
        BY <3>1 DEF Typed
    <3>3. dav' \in {dav, [dav EXCEPT ![job.cur][SeenPath(job.cur)] = job.buf],
                    [dav EXCEPT ![job.cur][SeenPath(job.cur)] = Torn]}
        BY <1>20 DEF Write, Written
    <3> QED
        BY <3>2, <3>3 DEF Typed
  <2>2. job' \in Job
    <3>1. job.cur \in Node
        BY <1>20 DEF Write, Current, Copying
    <3>2. Failed(job) \in Job /\ [job EXCEPT !.at = "book"] \in Job
        BY <3>1 DEF Failed, Typed, Job
    <3> QED
        BY <1>20, <3>2 DEF Write
  <2>3. Switches'
    BY <1>20 DEF Write, Typed, Switches, Failed, Job
  <2> QED
    BY <1>20, <2>1, <2>2, <2>3 DEF Write, Typed
<1>21. ASSUME Book PROVE Typed'
  <2>1. object' \in [Node -> Row]
    <3>1. [blob |-> job.buf, backend |-> "s3"] \in Row
        BY DEF Typed, Job, Row
    <3> QED
        BY <1>21, <3>1 DEF Book, Typed
  <2>2. cache' \in [Node -> 0..3]
    BY <1>21, Sizes DEF Book, Typed
  <2>3. job' \in Job
    BY <1>21, Sizes DEF Book, Typed, Job
  <2>4. Switches'
    BY <1>21, Sizes DEF Book, Typed, Switches
  <2> QED
    BY <1>21, <2>1, <2>2, <2>3, <2>4 DEF Book, Typed, history
<1>22. ASSUME MarkCopied PROVE Typed'
  <2>1. file' \in [Node -> FileRow]
    <3>1. job.cur \in Node
        BY <1>22 DEF MarkCopied, Current, Copying
    <3>2. [file EXCEPT ![job.cur].status = "active"] \in [Node -> FileRow]
        BY <3>1 DEF Typed, FileRow
    <3> QED
        BY <1>22, <3>2 DEF MarkCopied, Typed
  <2>2. object' \in [Node -> Row]
    <3>1. job.cur \in Node
        BY <1>22 DEF MarkCopied, Current, Copying
    <3>2. [object EXCEPT ![job.cur].backend = "webdav"] \in [Node -> Row]
        BY <3>1 DEF Typed, Row
    <3> QED
        BY <1>22, <3>2 DEF MarkCopied, Typed
  <2>3. cache' \in [Node -> 0..3]
    BY <1>22, Sizes DEF MarkCopied, Typed
  <2>4. job' \in Job
    BY <1>22, Sizes DEF MarkCopied, Typed, Job
  <2>5. booked' \subseteq Node
    BY <1>22, Sizes DEF MarkCopied, Typed, Current, Copying
  <2>6. Switches'
    BY <1>22, Sizes DEF MarkCopied, Typed, Switches
  <2> QED
    BY <1>22, <2>1, <2>2, <2>3, <2>4, <2>5, <2>6 DEF MarkCopied, Typed
<1>23. ASSUME Persist PROVE Typed'
  <2>1. job' \in Job
    BY <1>23 DEF Persist, Typed, Job
  <2>2. Switches'
    BY <1>23 DEF Persist, Typed, Switches, Other
  <2> QED
    BY <1>23, <2>1, <2>2 DEF Persist, Typed, storage
<1>24. ASSUME EndRun PROVE Typed'
  <2>1. job' \in Job
    BY <1>24, Constants DEF EndRun
  <2>2. Switches'
    BY <1>24, Constants DEF EndRun, Typed, Switches, NoJob
  <2> QED
    BY <1>24, <2>1, <2>2 DEF EndRun, Typed, storage, history
<1>25. ASSUME Restart PROVE Typed'
  <2>1. req' \in [Node -> ReqState]
    BY <1>25, Constants DEF Restart
  <2>2. job' \in Job
    BY <1>25, Constants DEF Restart
  <2>3. booked' \subseteq Node
    BY <1>25, Constants DEF Restart, Typed
  <2>4. Switches'
    BY <1>25, Constants DEF Restart, Typed, Switches, NoJob
  <2> QED
    BY <1>25, <2>1, <2>2, <2>3, <2>4 DEF Restart, Typed, storage
<1>26. ASSUME LockExpires PROVE Typed'
  <2>1. Switches'
    BY <1>26 DEF LockExpires, Typed, Switches
  <2> QED
    BY <1>26, <2>1 DEF LockExpires, Typed, storage, history
<1>29. ASSUME NEW n \in Node, Arrive(n) \/ Leave(n) PROVE Typed'
  <2>1. req' \in [Node -> ReqState]
    <3>1. req' \in {[req EXCEPT ![n] = Idle], [req EXCEPT ![n].at = "in"]}
        BY <1>29 DEF Arrive, Leave, Answered
    <3>2. /\ [req EXCEPT ![n] = Idle] \in [Node -> ReqState]
          /\ [req EXCEPT ![n].at = "in"] \in [Node -> ReqState]
        BY Constants DEF Typed, ReqState
    <3> QED
        BY <3>1, <3>2
  <2> QED
    BY <1>29, <2>1 DEF Arrive, Leave, Typed, storage, history, Switches
<1>27. CASE UNCHANGED vars
    BY <1>27 DEF vars, storage, history, Typed, Switches
<1>28. ASSUME Vanished PROVE Typed'
  <2>1. job' \in Job
    BY <1>28 DEF Vanished, Typed, Job, Failed, Current, Copying
  <2>2. Switches'
    BY <1>28 DEF Vanished, Typed, Switches, Job, Failed
  <2> QED
    BY <1>28, <2>1, <2>2 DEF Vanished, Typed, storage, history
<1> QED
    BY <1>1, <1>2, <1>3, <1>4, <1>5, <1>6, <1>7, <1>8, <1>9, <1>10, <1>11, <1>12, <1>13, <1>14, <1>15, <1>16, <1>17, <1>18, <1>19, <1>20, <1>21, <1>22, <1>23, <1>24, <1>25, <1>26, <1>27, <1>28, <1>29
       DEF Next, Request, Work
-----------------------------------------------------------------------------
\* What a step of a request leaves alone: the run, the other files, and its own
\* file if the gate has come up since.
Alone(n) ==
    /\ mode' = mode /\ job' = job /\ gate' = gate /\ booked' \subseteq booked
    /\ gate => req[n] # Idle
    /\ \A m \in Node \ {n} :
          file'[m] = file[m] /\ object'[m] = object[m] /\ req'[m] = req[m]

\* A step of a request stays with its own file, keeps it pending while it must be,
\* and keeps its marker while it is booked.
LEMMA RequestKeeps ==
    ASSUME IInv, NEW n \in Node, Request(n)
    PROVE  Alone(n) /\ PendingAt(n)' /\ (n \in booked' => MarkerAt(n)')
<1> USE DEF IInv, Typed, Alone, PendingAt, MarkerAt, Present, HasRow, storage, history
<1>1. PendingAt(n) /\ (n \in booked => MarkerAt(n))
    BY DEF Pending, Booked
<1>2. ASSUME NEW b \in Content, S3Begin(n, b)
      PROVE  Alone(n) /\ PendingAt(n)' /\ (n \in booked' => MarkerAt(n)')
    BY <1>1, <1>2 DEF S3Begin, Put, Accepts, ReqState, FileRow, NoRow, Idle
<1>3. ASSUME NEW b \in Content, DavBegin(n, b)
      PROVE  Alone(n) /\ PendingAt(n)' /\ (n \in booked' => MarkerAt(n)')
    BY <1>1, <1>3 DEF DavBegin, Put, Accepts, ReqState, FileRow, NoRow, Idle
<1>4. ASSUME S3Commit(n)
      PROVE  Alone(n) /\ PendingAt(n)' /\ (n \in booked' => MarkerAt(n)')
    BY <1>1, <1>4 DEF S3Commit, Acknowledge, Answered, Idle, FileRow
<1>5. ASSUME S3Fail(n)
      PROVE  Alone(n) /\ PendingAt(n)' /\ (n \in booked' => MarkerAt(n)')
    BY <1>1, <1>5 DEF S3Fail, Undone, Answered, Idle, FileRow, NoFile
<1>6. ASSUME DavPut(n)
      PROVE  Alone(n) /\ PendingAt(n)' /\ (n \in booked' => MarkerAt(n)')
    BY <1>1, <1>6 DEF DavPut, Idle, ReqState
<1>7. ASSUME DavPutFails(n)
      PROVE  Alone(n) /\ PendingAt(n)' /\ (n \in booked' => MarkerAt(n)')
    BY <1>1, <1>7 DEF DavPutFails, Idle, ReqState
<1>8. ASSUME DavAck(n)
      PROVE  Alone(n) /\ PendingAt(n)' /\ (n \in booked' => MarkerAt(n)')
    BY <1>1, <1>8 DEF DavAck, Acknowledge, Answered, Idle
<1>9. ASSUME DavUndo(n)
      PROVE  Alone(n) /\ PendingAt(n)' /\ (n \in booked' => MarkerAt(n)')
    BY <1>1, <1>9 DEF DavUndo, Undone, NoFile, NoRow, Marked, Answered, Idle, FileRow
<1>10. ASSUME S3Trash(n)
      PROVE  Alone(n) /\ PendingAt(n)' /\ (n \in booked' => MarkerAt(n)')
    BY <1>1, <1>10 DEF S3Trash, Mark, Accepts, Answered, Idle, FileRow
<1>11. ASSUME DavTrash(n)
      PROVE  Alone(n) /\ PendingAt(n)' /\ (n \in booked' => MarkerAt(n)')
    BY <1>1, <1>11 DEF DavTrash, Accepts, Answered, Marked, Idle, ReqState, FileRow
<1>12. ASSUME DavRestore(n)
      PROVE  Alone(n) /\ PendingAt(n)' /\ (n \in booked' => MarkerAt(n)')
    BY <1>1, <1>12 DEF DavRestore, Accepts, Idle, ReqState
<1>13. ASSUME DavMark(n)
      PROVE  Alone(n) /\ PendingAt(n)' /\ (n \in booked' => MarkerAt(n)')
    BY <1>1, <1>13 DEF DavMark, Mark, Answered, Idle, FileRow
<1>14. ASSUME Arrive(n) \/ Leave(n)
      PROVE  Alone(n) /\ PendingAt(n)' /\ (n \in booked' => MarkerAt(n)')
    BY <1>1, <1>14 DEF Arrive, Leave, Accepts, Answered, Idle, ReqState
<1> QED
    BY <1>2, <1>3, <1>4, <1>5, <1>6, <1>7, <1>8, <1>9, <1>10, <1>11, <1>12, <1>13, <1>14 DEF Request
-----------------------------------------------------------------------------
\* What the other files and the run need is what a request leaves alone.
LEMMA RequestsKept == ASSUME IInv, NEW n \in Node, Request(n) PROVE IInv'
<1>1. Alone(n) /\ PendingAt(n)' /\ (n \in booked' => MarkerAt(n)')
    BY RequestKeeps
<1>2. Typed'
    BY TypesKept DEF IInv, Next
<1>3. Current' /\ Recognised'
    BY <1>1 DEF IInv, Alone, Current, Recognised, Running, Copying, SeenMarker, SeenRow
<1>4. Quiet'
  <2>1. Running \/ job.at = "persist" => gate
      BY DEF IInv, Typed, Switches, Running, Copying
  <2> QED
      BY <1>1, <2>1 DEF IInv, Alone, Quiet, Running, Copying
<1>5. Undisturbed'
  <2>1. ASSUME NEW m \in Ahead \ job.doubtful, Running
        PROVE  m \in Node \ {n}
    <3>1. gate /\ m \in Node
        BY <2>1 DEF IInv, Typed, Switches, Job, Current, Running, Copying, Ahead
    <3>2. req[m] = Idle
        BY <2>1, <3>1 DEF IInv, Quiet
    <3> QED
        BY <1>1, <3>1, <3>2 DEF Alone
  <2> QED
      BY <1>1, <2>1 DEF IInv, Alone, Undisturbed, Running, Copying, Ahead, Present, HasRow
<1>6. Pending'
    BY <1>1 DEF IInv, Alone, Pending, PendingAt
<1>7. Booked'
  <2>1. ASSUME NEW m \in booked', m # n PROVE MarkerAt(m)'
      BY <1>1, <2>1 DEF IInv, Typed, Alone, Booked, MarkerAt, Present, HasRow
  <2> QED
      BY <1>1, <2>1 DEF Booked
<1> QED
    BY <1>2, <1>3, <1>4, <1>5, <1>6, <1>7 DEF IInv

\* The gate comes up; nothing runs yet.
LEMMA StartKept == ASSUME IInv, NEW force \in BOOLEAN, StartRun(force) PROVE IInv'
<1>1. Typed'
    BY TypesKept DEF IInv, Next
<1> QED
    BY <1>1 DEF IInv, StartRun, NoJob, storage, history, Current, Quiet, Undisturbed, Pending,
                PendingAt, Booked, MarkerAt, Recognised, Running, Copying, Present, HasRow

\* Most steps of a run change nothing but the job and what lies at the destination.
LEMMA StorageLeft ==
    ASSUME IInv, UNCHANGED <<mode, file, object, req, booked>>
    PROVE  Pending' /\ Booked'
BY DEF IInv, Pending, PendingAt, Booked, MarkerAt, Present, HasRow

\* The snapshot is taken behind the gate: what is not doubtful stays as it is, and
\* what is booked shows its marker.
LEMMA TakeLockKept == ASSUME IInv, TakeLock PROVE IInv'
<1>1. Typed' /\ Pending' /\ Booked'
    BY TypesKept, StorageLeft DEF IInv, Next, Work, TakeLock, storage, history
<1>2. CASE lock # "free"
  <2>1. job' = [job EXCEPT !.at = "end"] /\ UNCHANGED <<gate, req>>
      BY <1>2 DEF TakeLock
  <2>2. job'.at = "end" /\ job'.doubtful = job.doubtful
      BY <2>1 DEF IInv, Typed, Job
  <2> QED
      BY <1>1, <2>1, <2>2 DEF IInv, Current, Quiet, Undisturbed, Recognised, Running, Copying
<1>3. CASE lock = "free"
  <2>1. /\ job.at = "lock" /\ job'.at = "next" /\ job'.todo = Snapshot
        /\ job'.doubtful = UnderWay \cup LeftOut
        /\ job'.seen = [n \in Node |-> <<file[n].trashed, object[n]>>]
        /\ UNCHANGED <<mode, file, object, req, gate, booked>>
    <3>1. job' = [job EXCEPT !.at = "next", !.todo = Snapshot, !.doubtful = UnderWay \cup LeftOut,
                             !.seen = [n \in Node |-> <<file[n].trashed, object[n]>>]]
        BY <1>3 DEF TakeLock
    <3> QED
        BY <3>1 DEF TakeLock, IInv, Typed, Job, storage, history
  <2>2. Current' /\ Quiet'
      BY <2>1 DEF IInv, Current, Copying, Quiet, UnderWay
  <2>3. Undisturbed'
      BY <2>1 DEF Undisturbed, Running, Copying, Ahead, Snapshot, LeftOut, Present, HasRow
  <2>4. ASSUME NEW n \in booked, n \in Snapshot PROVE SeenMarker(n)'
    <3>1. MarkerAt(n) /\ n \in Node /\ mode \in {"s3", "webdav"}
        BY DEF IInv, Booked, Typed, Switches
    <3>2. mode = "s3" => HasRow(n)
        BY <2>4 DEF Snapshot, LeftOut
    <3> QED
        BY <2>1, <3>1, <3>2 DEF SeenMarker, SeenRow, MarkerAt, HasRow
  <2>5. Recognised'
      BY <2>1, <2>4 DEF Recognised, Running, Copying
  <2> QED
      BY <1>1, <2>2, <2>3, <2>5 DEF IInv
<1> QED
    BY <1>2, <1>3

\* The next file, unless it is skipped, is not booked.
LEMMA NextFileKept == ASSUME IInv, NextFile PROVE IInv'
<1>1. Typed' /\ Pending' /\ Booked'
    BY TypesKept, StorageLeft DEF IInv, Next, Work, NextFile, storage, history
<1>2. PICK n \in job.todo : Takes(n)
    BY NextTakes DEF IInv
<1>3. /\ job.at = "next" /\ n \in Node /\ UNCHANGED <<mode, file, object, req, booked>>
      /\ job'.todo = job.todo \ {n} /\ job'.cur = n
      /\ job'.seen = job.seen /\ job'.force = job.force
      /\ \/ job'.at = "next" /\ job'.doubtful = job.doubtful \cup {n}
         \/ /\ job'.at = IF ShouldSkip(n) THEN "next" ELSE "read"
            /\ job'.doubtful = job.doubtful
    BY <1>2 DEF Takes, NextFile, IInv, Typed, Job, storage, history
<1>4. Current' /\ Quiet' /\ Undisturbed'
    BY <1>2, <1>3 DEF IInv, Current, Quiet, Undisturbed, Running, Copying, Ahead, Present, HasRow
<1>5. Recognised'
  <2>1. ~ShouldSkip(n) /\ ~job.force /\ n \in booked => FALSE
      BY <1>2, <1>3 DEF IInv, Typed, Switches, Recognised, Running, ShouldSkip, SeenMarker
  <2> QED
      BY <1>2, <1>3, <2>1 DEF IInv, Recognised, Running, Copying, SeenMarker, SeenRow
<1> QED
    BY <1>1, <1>4, <1>5 DEF IInv

\* What has been read is written, and what fails on the way is doubtful.
LEMMA CopyKept == ASSUME IInv, Read \/ Write \/ Vanished PROVE IInv'
<1>1. Typed' /\ Pending' /\ Booked'
    BY TypesKept, StorageLeft DEF IInv, Next, Work, Read, Write, Vanished, storage, history
<1>2. /\ UNCHANGED <<mode, file, object, req, gate, booked>>
      /\ \/ job' = Failed(job)
         \/ job.at = "read" /\ \E b : b # None /\ job' = [job EXCEPT !.at = "write", !.buf = b]
         \/ job.at = "write" /\ job' = [job EXCEPT !.at = "book"]
    BY DEF Read, Write, Vanished, storage, history
<1>3. Current' /\ Quiet'
  <2>1. Copying /\ job.at # "persist"
      BY DEF Read, Write, Vanished, Copying
  <2>2. /\ job'.todo = job.todo /\ job'.cur = job.cur /\ job.doubtful \subseteq job'.doubtful
        /\ Copying' => job'.buf # None
      BY <1>2, <2>1 DEF IInv, Typed, Job, Current, Copying, Failed
  <2> QED
      BY <1>2, <2>1, <2>2 DEF IInv, Current, Quiet, Running, Copying
<1>4. Undisturbed' /\ Recognised'
    BY <1>2 DEF IInv, Typed, Job, Undisturbed, Recognised, Running, Copying, Ahead, Failed,
                SeenMarker, SeenRow, Present, HasRow, Read, Write, Vanished
<1> QED
    BY <1>1, <1>3, <1>4 DEF IInv

\* On S3 the new row of the file is its marker.
LEMMA BookKept == ASSUME IInv, Book PROVE IInv'
<1>1. Typed'
    BY TypesKept DEF IInv, Next, Work
<1>2. /\ job.at = "book" /\ job' = [job EXCEPT !.at = "mark"] /\ job.cur \in Node /\ job.buf # None
      /\ UNCHANGED <<mode, file, req, gate, booked>>
      /\ object' = IF mode = "webdav"
                   THEN [object EXCEPT ![job.cur] = [blob |-> job.buf, backend |-> "s3"]]
                   ELSE object
    BY DEF Book, IInv, Current, Copying, history
<1>3. Current' /\ Quiet' /\ Pending' /\ Recognised'
    BY <1>2 DEF IInv, Typed, Job, Current, Quiet, Pending, PendingAt, Recognised, Running, Copying,
                SeenMarker, SeenRow
<1>4. Undisturbed'
    BY <1>2 DEF IInv, Typed, Job, Undisturbed, Running, Copying, Ahead, Present, HasRow
<1>5. Booked'
  <2>1. ASSUME NEW n \in booked PROVE MarkerAt(n)'
      BY <1>2, MarkerAt(n) DEF IInv, Typed, Booked, MarkerAt, Present, HasRow
  <2> QED
      BY <1>2, <2>1 DEF Booked
<1> QED
    BY <1>1, <1>3, <1>4, <1>5 DEF IInv

\* A file is booked with its marker, unless it is doubtful.
LEMMA MarkKept == ASSUME IInv, MarkCopied PROVE IInv'
<1>0. PICK n \in Node \ job.todo : n = job.cur
    BY DEF IInv, Current, Copying, MarkCopied
<1>1. Typed'
    BY TypesKept DEF IInv, Next, Work
<1>2. /\ job.at = "mark" /\ job' = [job EXCEPT !.at = "next"]
      /\ UNCHANGED <<mode, req, gate>>
      /\ \A m \in Node \ {n} : file'[m] = file[m] /\ object'[m] = object[m]
      /\ mode = "s3" =>
            file'[n] = file[n]
            /\ object'[n] = IF HasRow(n) THEN [object[n] EXCEPT !.backend = "webdav"] ELSE object[n]
      /\ mode = "webdav" => object'[n] = object[n] /\ file'[n].status = "active"
      /\ booked' = IF n \in job.doubtful THEN booked ELSE booked \cup {n}
    BY <1>0 DEF MarkCopied, IInv, Typed, Switches, FileRow, Row
<1>3. Current' /\ Quiet' /\ Recognised'
    BY <1>0, <1>2 DEF IInv, Typed, Job, Current, Quiet, Recognised, Running, Copying, SeenMarker, SeenRow
<1>4. Undisturbed'
    BY <1>0, <1>2 DEF IInv, Typed, Job, Undisturbed, Running, Copying, Ahead, Present, HasRow
<1>5. Pending'
    BY <1>2 DEF IInv, Typed, Pending, PendingAt
<1>6. Booked'
  <2>1. ASSUME n \notin job.doubtful PROVE MarkerAt(n)'
    <3>1. /\ req[n] = Idle /\ Present(n)
          /\ mode = "s3" => HasRow(n) /\ file[n].status = "active"
          /\ mode = "webdav" => HasRow(n)
        BY <1>0, <1>2, <2>1 DEF IInv, Typed, Switches, Quiet, Undisturbed, Running, Copying, Ahead
    <3>2. CASE mode = "s3"
      <4>1. object'[n] = [object[n] EXCEPT !.backend = "webdav"] /\ object[n] \in Row
          BY <1>2, <3>1, <3>2 DEF IInv, Typed
      <4>2. object'[n].backend = "webdav"
          BY <4>1 DEF Row
      <4> QED
          BY <1>2, <3>1, <3>2, <4>2 DEF MarkerAt, Present, Idle
    <3>3. CASE mode = "webdav"
        BY <1>2, <3>1, <3>3 DEF MarkerAt, Present, HasRow, Idle
    <3> QED
        BY <3>2, <3>3 DEF IInv, Typed, Switches
  <2>2. ASSUME NEW m \in booked PROVE MarkerAt(m)'
    <3>1. MarkerAt(m) /\ m \in Node
        BY DEF IInv, Booked, Typed
    <3> QED
        BY <1>2, <3>1 DEF IInv, Typed, Switches, Row, NoRow, MarkerAt, Present, HasRow
  <2> QED
      BY <1>2, <2>1, <2>2 DEF Booked
<1> QED
    BY <1>1, <1>3, <1>4, <1>5, <1>6 DEF IInv

\* However a run ends, it leaves what it has booked.
LEMMA EndKept ==
    ASSUME IInv, RunFails \/ StopRun \/ FinishRun \/ Persist \/ EndRun
    PROVE  IInv'
<1>1. Typed' /\ Pending' /\ Booked'
    BY TypesKept, StorageLeft DEF IInv, Next, Work, RunFails, StopRun, FinishRun, Persist, EndRun,
                                  storage, history
<1>2. job'.at \in {"end", "persist", "none"} /\ req' = req
  <2>1. CASE EndRun
      BY <2>1 DEF EndRun, NoJob
  <2>2. CASE RunFails \/ StopRun \/ FinishRun \/ Persist
      BY <2>2 DEF RunFails, StopRun, FinishRun, Persist, IInv, Typed, Job
  <2> QED
      BY <2>1, <2>2
<1>3. Current' /\ Undisturbed' /\ Recognised'
    BY <1>2 DEF Current, Undisturbed, Recognised, Running, Copying
<1>4. Quiet'
  <2>1. CASE ~FinishRun
    <3>1. CASE EndRun
        BY <3>1 DEF EndRun, NoJob, Quiet, Running, Copying
    <3>2. CASE RunFails \/ StopRun \/ Persist
      <4>1. job'.at = "end"
          BY <3>2 DEF RunFails, StopRun, Persist, IInv, Typed, Job
      <4> QED
          BY <4>1 DEF Quiet, Running, Copying
    <3> QED
        BY <2>1, <3>1, <3>2
  <2>2. CASE FinishRun
    <3>1. job.at = "next" /\ job'.doubtful = job.doubtful
        BY <2>2 DEF FinishRun, IInv, Typed, Job
    <3> QED
        BY <1>2, <3>1 DEF IInv, Quiet, Running
  <2> QED
      BY <2>1, <2>2
<1> QED
    BY <1>1, <1>3, <1>4 DEF IInv

\* A crash ends the run and the requests; another mode forgets what was booked.
LEMMA RestartKept == ASSUME IInv, Restart PROVE IInv'
<1>1. Typed'
    BY TypesKept DEF IInv, Next
<1>2. Current' /\ Quiet' /\ Undisturbed' /\ Recognised'
    BY DEF Restart, NoJob, Current, Quiet, Undisturbed, Recognised, Running, Copying
<1>3. Pending' /\ Booked'
    BY DEF Restart, IInv, Typed, Idle, Pending, PendingAt, Booked, MarkerAt, Present, HasRow, storage
<1> QED
    BY <1>1, <1>2, <1>3 DEF IInv

-----------------------------------------------------------------------------
\* Nothing is booked, and no run is on, at the start.
LEMMA InitKept == Init => IInv
<1> SUFFICES ASSUME Init PROVE IInv
    OBVIOUS
<1>1. Typed
    BY InitTyped
<1> QED
    BY <1>1 DEF Init, IInv, Current, Quiet, Undisturbed, Pending, PendingAt, Booked, Recognised,
                Running, Copying, NoJob, Idle

\* Every step keeps the invariant.
LEMMA StepKept == ASSUME IInv, [Next]_vars PROVE IInv'
<1>1. CASE LockExpires \/ UNCHANGED vars
  <2>1. Typed'
      BY TypesKept DEF IInv
  <2>2. Pending' /\ Booked'
      BY <1>1, StorageLeft DEF LockExpires, vars, storage, history
  <2>3. UNCHANGED <<mode, file, object, req, gate, job, booked>>
      BY <1>1 DEF LockExpires, vars, storage, history
  <2> QED
      BY <2>1, <2>2, <2>3 DEF IInv, Current, Quiet, Undisturbed, Recognised, Running, Copying, Ahead,
                              SeenMarker, SeenRow, Present, HasRow
<1> QED
    BY <1>1, RequestsKept, StartKept, TakeLockKept, NextFileKept, CopyKept, BookKept, MarkKept,
       EndKept, RestartKept DEF Next, Work

\* What is booked is recognised, and what is ahead of a run and not doubtful is left
\* alone by everybody else, in every reachable state.
THEOREM MigrationInvariant == Spec => []IInv
BY InitKept, StepKept, PTL DEF Spec

\* Every run keeps its types: the job, the rows and the files are what they can be.
THEOREM MigrationTypeCorrect == Spec => []TypeOK
<1>1. IInv => TypeOK
    BY DEF IInv, Typed, Switches, TypeOK, FileRow, ReqState, Job, Blob
<1> QED
    BY <1>1, MigrationInvariant, PTL

\* A run that resumes copies no file again that an earlier one has booked and that
\* nobody has touched since (shouldSkip), however often runs are cancelled, fail or
\* die, for any files and contents.
THEOREM RunsResume == Spec => ResumesWhereItLeft
<1>1. IInv => [\A n \in booked :
                  ~(job.at = "read" /\ job'.at = "write" /\ job.cur = n /\ ~job.force)]_vars
    BY DEF IInv, Recognised, Running, Copying
<1> QED
    BY <1>1, MigrationInvariant, PTL DEF ResumesWhereItLeft

-----------------------------------------------------------------------------
(* 2. Files serve what was acknowledged: the invariant continued *)

Good(n) == acked[n] # None /\ n \notin lost

\* A file that is written to is there, and one that has been acknowledged is never
\* new again.
KnownAt(n) ==
    /\ req[n].at \notin {"idle", "in"} \/ file[n].trashed => Present(n)
    /\ acked[n] # None => Present(n) /\ ~req[n].new

\* Where the acknowledged bytes are while a request is under way.
OnS3(n) == IF req[n].at = "put" THEN req[n].prev.blob ELSE object[n].blob

FromDav(n) ==
    IF file[n].trashed /\ dav[n]["trash"] # None THEN dav[n]["trash"] ELSE dav[n]["live"]

OnDav(n) ==
    CASE req[n].at \in {"put", "undo"} -> req[n].prev.blob
      [] req[n].at = "trash"           -> dav[n]["trash"]
      [] OTHER                         -> FromDav(n)

\* What an overwrite or a move on WebDAV can rely on.
DavAt(n) ==
    mode = "webdav" =>
        /\ req[n].at \in {"put", "undo", "ack"} => ~file[n].trashed
        /\ req[n].at = "put" /\ ~req[n].new => req[n].prev.blob = dav[n]["live"]
        /\ req[n].at = "ack" => dav[n]["live"] = req[n].blob
        /\ req[n].at = "restore" => dav[n]["trash"] = None

KeptAt(n) == Good(n) /\ req[n].at # "ack" => (IF mode = "s3" THEN OnS3(n) ELSE OnDav(n)) = acked[n]

\* What would be served after a change of mode.
AfterChange(n) == IF mode = "s3" THEN FromDav(n) ELSE object[n].blob

\* The row that an overwrite in flight may bring back.
RowOf(n) == IF req[n].at = "put" THEN req[n].prev ELSE object[n]

\* What shouldSkip would take for a copy is one.
TrueMarker(n) ==
    IF mode = "webdav" THEN HasRow(n) => object[n].blob = acked[n]
    ELSE IF RowOf(n).backend = "webdav" THEN FromDav(n) = acked[n]
    ELSE LET b == dav[n][IoPath(file[n].trashed)]
         IN  b \in {None, acked[n]} \/ SizeOf(b) # SizeOf(acked[n])

SafeAt(n) ==
    Good(n) /\ n \notin risk =>
        /\ cache[n] = SizeOf(acked[n])
        /\ TrueMarker(n)
        /\ stored # mode => AfterChange(n) = acked[n]

Sound(n) == KnownAt(n) /\ DavAt(n) /\ KeptAt(n) /\ SafeAt(n)

Files == \A n \in Node : Sound(n)

\* The snapshot still shows the files ahead, the doubtful ones apart.
Snapped ==
    Running => \A n \in Ahead \ job.doubtful :
        /\ SeenPath(n) = IoPath(file[n].trashed)
        /\ ~(mode = "webdav" /\ job.at = "mark" /\ n = job.cur) => SeenRow(n) = object[n]

\* The copy under way is one of the acknowledged bytes, unless the file is doubtful
\* and at risk.
Carried ==
    Copying =>
        LET n == job.cur
        IN  /\ mode = "s3" => SeenRow(n).backend = "s3"
            /\ n \notin job.doubtful /\ Good(n) /\ job.at # "read" => job.buf = acked[n]
            /\ n \notin job.doubtful /\ mode = "s3" /\ job.at \in {"book", "mark"} =>
                  dav[n][SeenPath(n)] = job.buf
            /\ mode = "s3" /\ job.at = "mark" /\ n \notin job.doubtful => cache[n] = SizeOf(job.buf)
            /\ mode = "webdav" /\ job.at = "mark" /\ n \notin job.doubtful =>
                  object[n].blob = job.buf
            /\ n \in job.doubtful /\ job.at \in {"book", "mark"} => n \in risk

\* What the run has passed is ready for the change of mode.
Passed ==
    /\ job.at = "persist" => job.todo = {}
    /\ Running \/ job.at = "persist" =>
          \A n \in Node \ (Ahead \cup job.doubtful \cup risk) : Good(n) => AfterChange(n) = acked[n]

Served == Files /\ Snapped /\ Carried /\ Passed

-----------------------------------------------------------------------------
\* A file that a step does not touch stays sound.
LEMMA Untouched ==
    ASSUME NEW m \in Node, Sound(m), mode' = mode, stored' = stored,
           file'[m] = file[m], object'[m] = object[m], dav'[m] = dav[m], cache'[m] = cache[m],
           req'[m] = req[m], acked'[m] = acked[m], m \in lost => m \in lost', m \in risk => m \in risk'
    PROVE  Sound(m)'
BY DEF Sound, KnownAt, DavAt, KeptAt, SafeAt, Good, OnS3, OnDav, FromDav, AfterChange, RowOf, TrueMarker,
       Present, HasRow, IoPath

\* What a step of a request leaves alone, beyond Alone.
Aside(n) ==
    /\ stored' = stored
    /\ gate /\ n \in risk => n \in risk'
    /\ \A m \in Node \ {n} :
          /\ dav'[m] = dav[m] /\ cache'[m] = cache[m] /\ acked'[m] = acked[m]
          /\ (m \in lost' <=> m \in lost) /\ (m \in risk' <=> m \in risk)

\* A step of a request keeps its file sound, and leaves the others alone.
LEMMA RequestSound ==
    ASSUME IInv, Served, NEW n \in Node, Request(n)
    PROVE  Aside(n) /\ Sound(n)'
<1>1. Sound(n) /\ PendingAt(n)
    BY DEF Served, Files, IInv, Pending
<1>2. Typed
    BY DEF IInv
<1>3. ASSUME NEW b \in Content, S3Begin(n, b) PROVE Aside(n) /\ Sound(n)'
  <2>1. Aside(n)
    BY <1>2, <1>3 DEF S3Begin, Aside, history
  <2>2. KnownAt(n)'
    BY <1>1, <1>2, <1>3 DEF S3Begin, Put, Typed, ReqState, history, Sound, KnownAt, Present
  <2>3. DavAt(n)'
    BY <1>1, <1>2, <1>3 DEF S3Begin, DavAt
  <2>4. KeptAt(n)'
    BY <1>1, <1>2, <1>3 DEF S3Begin, Put, Accepts, Idle, Typed, history, Sound, KeptAt, Good, OnS3
  <2>5. SafeAt(n)'
    BY <1>1, <1>2, <1>3 DEF S3Begin, Put, Accepts, Idle, Typed, history, Sound, SafeAt, Good,
       FromDav, AfterChange, RowOf, TrueMarker
  <2> QED
    BY <2>1, <2>2, <2>3, <2>4, <2>5 DEF Sound
<1>4. ASSUME NEW b \in Content, DavBegin(n, b) PROVE Aside(n) /\ Sound(n)'
  <2>1. Aside(n)
    BY <1>2, <1>4 DEF DavBegin, Aside, history
  <2>2. KnownAt(n)'
    BY <1>1, <1>2, <1>4 DEF DavBegin, Put, Typed, ReqState, history, Sound, KnownAt, Present
  <2>3. DavAt(n)'
    BY <1>1, <1>2, <1>4 DEF DavBegin, Put, Typed, FileRow, DavAt
  <2>4. KeptAt(n)'
    BY <1>1, <1>2, <1>4 DEF DavBegin, Put, Accepts, Idle, history, Sound, KnownAt, KeptAt, Good,
       OnDav, FromDav
  <2>5. SafeAt(n)'
    BY <1>1, <1>2, <1>4 DEF DavBegin, history, Sound, SafeAt, Good, AfterChange, TrueMarker, HasRow
  <2> QED
    BY <2>1, <2>2, <2>3, <2>4, <2>5 DEF Sound
<1>5. ASSUME S3Commit(n) PROVE Aside(n) /\ Sound(n)'
  <2>1. Aside(n)
    BY <1>2, <1>5 DEF S3Commit, Acknowledge, Aside, WriteAtRisk, Exposed
  <2>2. KnownAt(n)'
    BY <1>1, <1>2, <1>5 DEF S3Commit, Answered, Idle, Typed, KnownAt, Present
  <2>3. DavAt(n)'
    BY <1>1, <1>2, <1>5 DEF S3Commit, DavAt
  <2>4. KeptAt(n)'
    BY <1>1, <1>2, <1>5 DEF S3Commit, Acknowledge, Answered, Idle, Typed, KeptAt, OnS3
  <2>5. SafeAt(n)'
    BY <1>1, <1>2, <1>5 DEF S3Commit, Acknowledge, Answered, Idle, Typed, Place, SafeAt, RowOf,
       TrueMarker, IoPath, WriteAtRisk, Exposed, Lookalike
  <2> QED
    BY <2>1, <2>2, <2>3, <2>4, <2>5 DEF Sound
<1>6. ASSUME S3Fail(n) PROVE Aside(n) /\ Sound(n)'
  <2>1. Aside(n)
    BY <1>2, <1>6 DEF S3Fail, Undone, Typed, Aside, history
  <2>2. KnownAt(n)'
    BY <1>1, <1>2, <1>6 DEF S3Fail, Undone, Answered, Idle, NoFile, Typed, FileRow, history, Sound,
       KnownAt, Present
  <2>3. DavAt(n)'
    BY <1>1, <1>2, <1>6 DEF S3Fail, DavAt
  <2>4. KeptAt(n)'
    BY <1>1, <1>2, <1>6 DEF S3Fail, Answered, Idle, Typed, history, Sound, KnownAt, KeptAt, Good,
       OnS3
  <2>5. SafeAt(n)'
    <3>1. CASE req[n].new
        BY <1>1, <1>2, <1>6, <3>1 DEF S3Fail, history, Sound, KnownAt, SafeAt, Good
    <3>2. CASE ~req[n].new
      <4>1. /\ RowOf(n)' = RowOf(n) /\ file'[n].trashed = file[n].trashed /\ mode = "s3"
            /\ UNCHANGED <<mode, stored, dav, cache, acked, risk, lost>>
          BY <1>2, <1>6, <3>2 DEF S3Fail, Answered, Idle, Typed, FileRow, RowOf, history
      <4> QED
          BY <1>1, <4>1 DEF Sound, SafeAt, Good, TrueMarker, AfterChange, FromDav
    <3> QED
        BY <3>1, <3>2
  <2> QED
    BY <2>1, <2>2, <2>3, <2>4, <2>5 DEF Sound
<1>7. ASSUME DavPut(n) PROVE Aside(n) /\ Sound(n)'
  <2>1. Aside(n)
    BY <1>2, <1>7 DEF DavPut, Aside, history
  <2>2. KnownAt(n)'
    BY <1>1, <1>2, <1>7 DEF DavPut, history, Sound, KnownAt, Present
  <2>3. DavAt(n)'
    BY <1>1, <1>2, <1>7 DEF DavPut, Typed, Place, Sound, DavAt
  <2>4. KeptAt(n)'
    BY <1>1, <1>2, <1>7 DEF DavPut, history, Sound, KeptAt, Good, OnDav
  <2>5. SafeAt(n)'
    BY <1>1, <1>2, <1>7 DEF DavPut, history, Sound, SafeAt, Good, AfterChange, TrueMarker, HasRow
  <2> QED
    BY <2>1, <2>2, <2>3, <2>4, <2>5 DEF Sound
<1>8. ASSUME DavPutFails(n) PROVE Aside(n) /\ Sound(n)'
  <2>1. Aside(n)
    BY <1>2, <1>8 DEF DavPutFails, Aside, history
  <2>2. KnownAt(n)'
    BY <1>1, <1>2, <1>8 DEF DavPutFails, history, Sound, KnownAt, Present
  <2>3. DavAt(n)'
    BY <1>1, <1>2, <1>8 DEF DavPutFails, Typed, Sound, DavAt
  <2>4. KeptAt(n)'
    BY <1>1, <1>2, <1>8 DEF DavPutFails, history, Sound, KeptAt, Good, OnDav
  <2>5. SafeAt(n)'
    BY <1>1, <1>2, <1>8 DEF DavPutFails, history, Sound, SafeAt, Good, AfterChange, TrueMarker,
       HasRow
  <2> QED
    BY <2>1, <2>2, <2>3, <2>4, <2>5 DEF Sound
<1>9. ASSUME DavAck(n) PROVE Aside(n) /\ Sound(n)'
  <2>1. Aside(n)
    BY <1>2, <1>9 DEF DavAck, Acknowledge, Aside, WriteAtRisk, Exposed
  <2>2. KnownAt(n)'
    BY <1>1, <1>2, <1>9 DEF DavAck, Answered, Idle, Typed, Sound, KnownAt, Present
  <2>3. DavAt(n)'
    BY <1>1, <1>2, <1>9 DEF DavAck, Answered, Idle, Sound, DavAt
  <2>4. KeptAt(n)'
    BY <1>1, <1>2, <1>9 DEF DavAck, Acknowledge, Answered, Idle, Typed, Switches, Sound, PendingAt,
       DavAt, KeptAt, OnDav, FromDav
  <2>5. SafeAt(n)'
    BY <1>1, <1>2, <1>9 DEF DavAck, Acknowledge, Typed, Switches, PendingAt, SafeAt, TrueMarker,
       HasRow, WriteAtRisk, Exposed
  <2> QED
    BY <2>1, <2>2, <2>3, <2>4, <2>5 DEF Sound
<1>10. ASSUME DavUndo(n) PROVE Aside(n) /\ Sound(n)'
  <2>1. Aside(n)
    BY <1>2, <1>10 DEF DavUndo, Undone, Marked, Typed, Aside
  <2>2. KnownAt(n)'
    BY <1>1, <1>2, <1>10 DEF DavUndo, Undone, NoFile, Marked, Answered, Idle, Typed, FileRow, Sound,
       KnownAt, Present
  <2>3. DavAt(n)'
    BY <1>1, <1>2, <1>10 DEF DavUndo, Answered, Idle, Typed, DavAt
  <2>4. KeptAt(n)'
    BY <1>1, <1>2, <1>10 DEF DavUndo, Marked, Answered, Idle, Typed, Switches, Place, Sound,
       KnownAt, DavAt, KeptAt, Good, OnS3, OnDav, FromDav
  <2>5. SafeAt(n)'
    BY <1>1, <1>2, <1>10 DEF DavUndo, Marked, Typed, Switches, Sound, PendingAt, KnownAt, SafeAt,
       Good, AfterChange, TrueMarker, HasRow
  <2> QED
    BY <2>1, <2>2, <2>3, <2>4, <2>5 DEF Sound
<1>11. ASSUME S3Trash(n) PROVE Aside(n) /\ Sound(n)'
  <2>1. Aside(n)
    BY <1>2, <1>11 DEF S3Trash, Mark, Aside
  <2>2. KnownAt(n)'
    BY <1>1, <1>2, <1>11 DEF S3Trash, Mark, Answered, Idle, Typed, Sound, KnownAt, Present
  <2>3. DavAt(n)'
    BY <1>1, <1>2, <1>11 DEF S3Trash, DavAt
  <2>4. KeptAt(n)'
    BY <1>1, <1>2, <1>11 DEF S3Trash, Accepts, Answered, Idle, Typed, Sound, KeptAt, Good, OnS3
  <2>5. SafeAt(n)'
    BY <1>1, <1>2, <1>11 DEF S3Trash, Mark, Accepts, Answered, Idle, Typed, Place, Sound, SafeAt, Good, RowOf,
       TrueMarker, IoPath, TrashAtRisk, Exposed, Lookalike
  <2> QED
    BY <2>1, <2>2, <2>3, <2>4, <2>5 DEF Sound
<1>12. ASSUME DavTrash(n) PROVE Aside(n) /\ Sound(n)'
  <2>1. Aside(n)
    BY <1>2, <1>12 DEF DavTrash, Marked, Moved, Typed, Aside
  <2>2. KnownAt(n)'
    BY <1>1, <1>2, <1>12 DEF DavTrash, Answered, Idle, Marked, Moved, Typed, FileRow, Place, Sound,
       KnownAt, Present
  <2>3. DavAt(n)'
    BY <1>1, <1>2, <1>12 DEF DavTrash, Accepts, Answered, Idle, Marked, Moved, Typed, Switches,
       FileRow, Place, Sound, DavAt
  <2>4. KeptAt(n)'
    BY <1>1, <1>2, <1>12 DEF DavTrash, Answered, Marked, Moved, Typed, Place, KeptAt, Good
  <2>5. SafeAt(n)'
    BY <1>1, <1>2, <1>12 DEF DavTrash, Marked, Sound, SafeAt, Good, AfterChange, TrueMarker, HasRow
  <2> QED
    BY <2>1, <2>2, <2>3, <2>4, <2>5 DEF Sound
<1>13. ASSUME DavRestore(n) PROVE Aside(n) /\ Sound(n)'
  <2>1. Aside(n)
    BY <1>2, <1>13 DEF DavRestore, Moved, Typed, Aside, history
  <2>2. KnownAt(n)'
    BY <1>1, <1>2, <1>13 DEF DavRestore, history, Sound, KnownAt, Present
  <2>3. DavAt(n)'
    BY <1>1, <1>2, <1>13 DEF DavRestore, Moved, Typed, Place, DavAt
  <2>4. KeptAt(n)'
    BY <1>1, <1>2, <1>13 DEF DavRestore, Moved, Typed, Place, history, Sound, DavAt, KeptAt, Good,
       OnDav, FromDav
  <2>5. SafeAt(n)'
    BY <1>1, <1>2, <1>13 DEF DavRestore, history, Sound, SafeAt, Good, AfterChange, TrueMarker,
       HasRow
  <2> QED
    BY <2>1, <2>2, <2>3, <2>4, <2>5 DEF Sound
<1>14. ASSUME DavMark(n) PROVE Aside(n) /\ Sound(n)'
  <2>1. Aside(n)
    BY <1>2, <1>14 DEF DavMark, Mark, Aside
  <2>2. KnownAt(n)'
    BY <1>1, <1>2, <1>14 DEF DavMark, Mark, Answered, Idle, Sound, KnownAt, Present
  <2>3. DavAt(n)'
    BY <1>1, <1>2, <1>14 DEF DavMark, Answered, Idle, Sound, DavAt
  <2>4. KeptAt(n)'
    <3>1. CASE req[n].at = "trash"
      <4>1. /\ file'[n].trashed /\ req'[n].at = "idle" /\ mode = "webdav"
            /\ UNCHANGED <<mode, dav, acked, lost>>
          BY <1>1, <1>2, <1>14, <3>1 DEF DavMark, Mark, Answered, Idle, Typed, Switches, FileRow,
             PendingAt
      <4> QED
          BY <1>1, <3>1, <4>1 DEF Sound, KeptAt, Good, OnDav, FromDav
    <3>2. CASE req[n].at = "restore"
        BY <1>1, <1>2, <1>14, <3>2 DEF DavMark, Answered, Idle, Typed, Switches, Sound, DavAt,
           KeptAt, Good, OnS3, OnDav, FromDav
    <3> QED
        BY <1>14, <3>1, <3>2 DEF DavMark
  <2>5. SafeAt(n)'
    BY <1>1, <1>2, <1>14 DEF DavMark, Mark, Typed, Switches, Sound, PendingAt, SafeAt, Good,
       AfterChange, TrueMarker, HasRow
  <2> QED
    BY <2>1, <2>2, <2>3, <2>4, <2>5 DEF Sound
<1>15. ASSUME Arrive(n) \/ Leave(n) PROVE Aside(n) /\ Sound(n)'
  <2>1. Aside(n)
    BY <1>2, <1>15 DEF Arrive, Leave, storage, Aside, history
  <2>2. /\ req[n].at \in {"idle", "in"} /\ req'[n].at \in {"idle", "in"}
        /\ req'[n].new => req[n].new
    BY <1>2, <1>15 DEF Arrive, Leave, Accepts, Answered, Idle, Typed, ReqState
  <2>3. UNCHANGED <<mode, stored, file, object, dav, cache, acked, risk, lost>>
    BY <1>15 DEF Arrive, Leave, storage, history
  <2>4. KnownAt(n)' /\ DavAt(n)' /\ KeptAt(n)'
    BY <1>1, <2>2, <2>3 DEF Sound, KnownAt, DavAt, KeptAt, Good, OnS3, OnDav, FromDav, Present
  <2>5. SafeAt(n)'
    BY <1>1, <2>2, <2>3 DEF Sound, SafeAt, Good, FromDav, AfterChange, RowOf, TrueMarker, HasRow
  <2> QED
    BY <2>1, <2>4, <2>5 DEF Sound
<1> QED
    BY <1>3, <1>4, <1>5, <1>6, <1>7, <1>8, <1>9, <1>10, <1>11, <1>12, <1>13, <1>14, <1>15 DEF Request
\* Requests act on files that are doubtful by the time a run is on.
LEMMA RequestServed == ASSUME IInv, Served, NEW n \in Node, Request(n) PROVE Served'
<1>1. Aside(n) /\ Sound(n)' /\ Alone(n)
    BY RequestSound, RequestKeeps
<1>2. Files'
  <2>1. ASSUME NEW m \in Node, m # n PROVE Sound(m)'
      BY <1>1, <2>1, Untouched DEF Served, Files, Aside, Alone
  <2> QED
      BY <1>1, <2>1 DEF Files
<1>4. Running \/ job.at = "persist" => gate
    BY DEF IInv, Typed, Switches, Running, Copying
<1>3. Running \/ job.at = "persist" => n \in job.doubtful
    BY <1>1, <1>4 DEF IInv, Quiet, Alone
<1>5. UNCHANGED <<Running, Copying, Ahead>> /\ Ahead \subseteq Node /\ (Copying => job.cur \in Node)
    BY <1>1 DEF Alone, Running, Copying, Ahead, IInv, Typed, Job, Current
<1>6. Snapped'
    BY <1>1, <1>3, <1>4, <1>5 DEF Served, Snapped, Alone, SeenPath, SeenRow, IoPath
<1>7. Carried'
  <2>1. Copying /\ n # job.cur => Carried'
      BY <1>1, <1>4, <1>5 DEF Served, Carried, Alone, Aside, Good, SeenPath, SeenRow, Running, IoPath
  <2>2. Copying /\ n = job.cur => Carried'
      BY <1>1, <1>3, <1>4, <1>5 DEF Served, Carried, Alone, Aside, SeenRow, Running
  <2> QED
      BY <1>5, <2>1, <2>2 DEF Carried
<1>8. Passed'
    BY <1>1, <1>3, <1>4, <1>5 DEF Served, Passed, Alone, Aside, Good, AfterChange, FromDav
<1> QED
    BY <1>2, <1>6, <1>7, <1>8 DEF Served

-----------------------------------------------------------------------------
\* Steps of a run that touch no file keep all files sound.
LEMMA FilesLeft ==
    ASSUME Served, UNCHANGED <<mode, stored, storage, req, acked, lost, risk>>
    PROVE  Files'
BY Untouched DEF Served, Files, storage

\* A run that has not taken its snapshot, or has ended, carries nothing.
LEMMA OffServed ==
    ASSUME IInv, Served,
           (\E force \in BOOLEAN : StartRun(force)) \/ RunFails \/ StopRun \/ EndRun \/ LockExpires
               \/ UNCHANGED vars
    PROVE  Served'
<1>1. Files'
    BY FilesLeft DEF StartRun, RunFails, StopRun, EndRun, LockExpires, vars, history
<1>2. CASE LockExpires \/ UNCHANGED vars
    BY <1>1, <1>2 DEF LockExpires, vars, storage, history, Served, Snapped, Carried, Passed, Running,
                      Copying, Ahead, SeenPath, SeenRow, IoPath, Good, AfterChange, FromDav
<1>3. ASSUME NEW force \in BOOLEAN, StartRun(force) PROVE Served'
  <2>1. job'.at = "lock"
      BY <1>3 DEF StartRun, NoJob
  <2> QED
      BY <1>1, <2>1 DEF Served, Snapped, Carried, Passed, Running, Copying
<1>4. CASE RunFails \/ StopRun \/ EndRun
  <2>1. job'.at \in {"end", "none"}
    <3>1. CASE EndRun
        BY <3>1 DEF EndRun, NoJob
    <3>2. CASE RunFails \/ StopRun
        BY <3>2 DEF RunFails, StopRun, IInv, Typed, Job
    <3> QED
        BY <1>4, <3>1, <3>2
  <2> QED
      BY <1>1, <2>1 DEF Served, Snapped, Carried, Passed, Running, Copying
<1> QED
    BY <1>2, <1>3, <1>4

\* The snapshot shows the files as they are; what it leaves out is doubtful, or is not
\* there.
LEMMA TakeLockServed == ASSUME IInv, Served, TakeLock PROVE Served'
<1>1. Files'
    BY FilesLeft DEF TakeLock, history
<1>2. CASE lock # "free"
  <2>1. job'.at = "end"
      BY <1>2 DEF TakeLock, IInv, Typed, Job
  <2> QED
      BY <1>1, <2>1 DEF Served, Snapped, Carried, Passed, Running, Copying
<1>3. CASE lock = "free"
  <2>1. /\ job'.at = "next" /\ job'.todo = Snapshot
        /\ job'.doubtful = UnderWay \cup LeftOut
        /\ job'.seen = [n \in Node |-> <<file[n].trashed, object[n]>>]
        /\ UNCHANGED <<mode, stored, storage, req, risk, acked, lost>>
    <3>1. job' = [job EXCEPT !.at = "next", !.todo = Snapshot, !.doubtful = UnderWay \cup LeftOut,
                             !.seen = [n \in Node |-> <<file[n].trashed, object[n]>>]]
        BY <1>3 DEF TakeLock
    <3> QED
        BY <3>1 DEF TakeLock, IInv, Typed, Job, history
  <2>2. Snapped' /\ Carried'
      BY <2>1 DEF Snapped, Carried, Running, Copying, Ahead, SeenPath, SeenRow, IoPath, Snapshot, storage
  <2>3. ASSUME NEW n \in Node, n \notin Snapshot, n \notin LeftOut PROVE ~Good(n)
      BY <2>3 DEF Snapshot, Served, Files, Sound, KnownAt, Good
  <2>4. Passed'
      BY <2>1, <2>3 DEF Passed, Running, Copying, Ahead, Good
  <2> QED
      BY <1>1, <2>2, <2>4 DEF Served
<1> QED
    BY <1>2, <1>3

\* A file is skipped for a marker, which is true unless the file is doubtful or at
\* risk.
LEMMA NextFileServed == ASSUME IInv, Served, NextFile PROVE Served'
<1>1. Files'
    BY FilesLeft DEF NextFile, history
<1>2. PICK n \in job.todo : Takes(n)
    BY NextTakes DEF IInv
<1>3. /\ job.at = "next" /\ n \in Node
      /\ UNCHANGED <<mode, stored, storage, req, risk, acked, lost>>
      /\ job'.todo = job.todo \ {n} /\ job'.seen = job.seen /\ job'.cur = n
      /\ \/ job'.at = "next" /\ job'.doubtful = job.doubtful \cup {n}
         \/ /\ job'.at = IF ShouldSkip(n) THEN "next" ELSE "read"
            /\ job'.doubtful = job.doubtful
    BY <1>2 DEF Takes, NextFile, IInv, Typed, Job, history
<1>4. Snapped'
    BY <1>2, <1>3 DEF Served, Snapped, Running, Copying, Ahead, SeenPath, SeenRow, IoPath, storage
<1>5. Carried'
  <2>1. ~ShouldSkip(n) /\ mode = "s3" => SeenRow(n).backend = "s3"
      BY DEF ShouldSkip
  <2> QED
      BY <1>3, <2>1 DEF Carried, Copying, SeenRow
<1>6. ASSUME ShouldSkip(n), n \notin job.doubtful, n \notin risk, Good(n)
      PROVE  AfterChange(n) = acked[n]
  <2>1. /\ SeenPath(n) = IoPath(file[n].trashed) /\ SeenRow(n) = object[n]
        /\ cache[n] = SizeOf(acked[n]) /\ TrueMarker(n) /\ mode \in {"s3", "webdav"}
      BY <1>2, <1>3, <1>6 DEF Served, Snapped, Files, Sound, SafeAt, Running, Copying, Ahead,
                              IInv, Typed, Switches
  <2>2. req[n] = Idle /\ object[n] \in Row
      BY <1>3, <1>6 DEF IInv, Quiet, Typed, Running
  <2> QED
      BY <1>6, <2>1, <2>2 DEF ShouldSkip, TrueMarker, AfterChange, FromDav, HasRow, RowOf, Idle, Row, IoPath
<1>7. Passed'
    BY <1>2, <1>3, <1>6 DEF Served, Passed, Running, Copying, Ahead, Good, AfterChange, FromDav, storage
<1> QED
    BY <1>1, <1>4, <1>5, <1>7 DEF Served

\* What is read is what is served.
LEMMA ReadServed == ASSUME IInv, Served, Read PROVE Served'
<1>1. Files'
    BY FilesLeft DEF Read, history
<1>2. PICK n \in Node \ job.todo : n = job.cur
    BY DEF IInv, Current, Copying, Read
<1>3. /\ job.at = "read" /\ UNCHANGED <<mode, stored, storage, req, risk, acked, lost>>
      /\ job'.seen = job.seen /\ job'.todo = job.todo /\ job'.cur = n
      /\ \/ job'.at = "next" /\ job'.doubtful = job.doubtful \cup {n}
         \/ /\ job'.at = "write" /\ job'.doubtful = job.doubtful
            /\ job'.buf = Source(n) /\ Source(n) # None
    BY <1>2 DEF Read, Failed, IInv, Typed, Job, history
<1>4. Snapped'
    BY <1>2, <1>3 DEF Served, Snapped, Running, Copying, Ahead, SeenPath, SeenRow, IoPath, storage
<1>5. ASSUME n \notin job.doubtful, Good(n), Source(n) # None PROVE Source(n) = acked[n]
  <2>1. SeenPath(n) = IoPath(file[n].trashed) /\ SeenRow(n) = object[n] /\ KeptAt(n)
      BY <1>2, <1>3, <1>5 DEF Served, Snapped, Files, Sound, Running, Copying, Ahead
  <2>2. req[n] = Idle
      BY <1>3, <1>5 DEF IInv, Quiet, Running, Copying
  <2> QED
      BY <1>5, <2>1, <2>2 DEF Source, KeptAt, OnS3, OnDav, FromDav, IoPath, Idle
<1>6. Carried'
    BY <1>2, <1>3, <1>5 DEF Served, Carried, Copying, SeenRow, Good
<1>7. Passed'
    BY <1>2, <1>3 DEF Served, Passed, Running, Copying, Ahead, Good, AfterChange, FromDav, storage
<1> QED
    BY <1>1, <1>4, <1>6, <1>7 DEF Served

\* A copy that is written or torn lies where nobody looks before the mode changes; a
\* torn one is not taken for a copy.
LEMMA WriteServed == ASSUME IInv, Served, Write PROVE Served'
<1>1. PICK n \in Node \ job.todo : n = job.cur
    BY DEF IInv, Current, Copying, Write
<1>2. /\ job.at = "write" /\ UNCHANGED <<mode, stored, file, object, cache, req, acked, lost>>
      /\ job'.seen = job.seen /\ job'.todo = job.todo /\ job'.cur = n /\ job'.buf = job.buf
      /\ \/ job'.at = "book" /\ job'.doubtful = job.doubtful
         \/ job'.at = "next" /\ job'.doubtful = job.doubtful \cup {n}
      /\ risk' = IF n \in job.doubtful \/ stored # mode THEN risk \cup {n} ELSE risk
    BY <1>1 DEF Write, Failed, IInv, Typed, Job
<1>3. \/ job'.at = "book" /\ dav' = Written(n, job.buf)
      \/ job'.at = "next" /\ dav' \in {dav, Written(n, Torn), Written(n, job.buf)}
    BY <1>1, <1>2 DEF Write, Failed, IInv, Typed, Job
<1>4. SeenPath(n) \in Place /\ dav[n] \in [Place -> Blob]
    BY DEF IInv, Typed, Job, SeenPath, IoPath, Place
<1>5. /\ mode = "webdav" => dav' = dav
      /\ \A m \in Node \ {n} : dav'[m] = dav[m]
    BY <1>3 DEF Written, IInv, Typed
<1>6. n \notin job.doubtful =>
        /\ SeenPath(n) = IoPath(file[n].trashed) /\ SeenRow(n) = object[n] /\ req[n] = Idle
    BY <1>1, <1>2 DEF Served, Snapped, Running, Copying, Ahead, IInv, Quiet, Typed, Switches
<1>7. /\ mode = "s3" => SeenRow(n).backend = "s3"
      /\ n \notin job.doubtful /\ Good(n) => job.buf = acked[n]
    BY <1>1, <1>2 DEF Served, Carried, Copying
<1>8. ASSUME mode = "s3"
      PROVE  /\ job'.at = "book" => dav'[n][SeenPath(n)] = job.buf
             /\ dav' = dav \/ dav'[n][SeenPath(n)] \in {Torn, job.buf}
    BY <1>1, <1>2, <1>3, <1>4, <1>8 DEF Written, IInv, Typed
<1>9. Sound(n)'
  <2>1. Sound(n)
      BY DEF Served, Files
  <2>2. KnownAt(n)' /\ DavAt(n)' /\ KeptAt(n)'
      BY <1>2, <1>5, <2>1 DEF Sound, KnownAt, DavAt, KeptAt, Good, OnS3, OnDav, FromDav, Present,
                              IInv, Typed, Switches
  <2>3. ASSUME Good(n), n \notin risk' PROVE n \notin job.doubtful /\ n \notin risk /\ stored = mode
      BY <1>2, <2>3
  <2>4. ASSUME Good(n), n \notin risk', mode = "s3" PROVE TrueMarker(n)'
    <3>1. RowOf(n)' = SeenRow(n) /\ IoPath(file[n].trashed)' = SeenPath(n)
        BY <1>2, <1>6, <2>3, <2>4 DEF RowOf, Idle
    <3>2. CASE dav' = dav
        BY <1>2, <2>1, <2>3, <2>4, <3>2 DEF Sound, SafeAt, TrueMarker, RowOf, FromDav
    <3>3. Torn \in {None, acked[n]} \/ SizeOf(Torn) # SizeOf(acked[n])
        BY <2>4 DEF Good, SizeOf
    <3>4. CASE dav'[n][SeenPath(n)] \in {Torn, job.buf}
        BY <1>2, <1>7, <2>3, <2>4, <3>1, <3>3, <3>4 DEF TrueMarker
    <3> QED
        BY <1>8, <2>4, <3>2, <3>4
  <2>5. ASSUME Good(n), n \notin risk', mode = "webdav" PROVE TrueMarker(n)'
      BY <1>2, <2>1, <2>3, <2>5 DEF Sound, SafeAt, TrueMarker, HasRow
  <2>6. SafeAt(n)'
      BY <1>2, <2>1, <2>3, <2>4, <2>5 DEF Sound, SafeAt, Good, IInv, Typed, Switches
  <2> QED
      BY <2>2, <2>6 DEF Sound
<1>10. Files'
    BY <1>2, <1>5, <1>9, Untouched DEF Served, Files
<1>11. Snapped'
    BY <1>1, <1>2 DEF Served, Snapped, Running, Copying, Ahead, SeenPath, SeenRow, IoPath
<1>12. Carried'
    BY <1>1, <1>2, <1>7, <1>8 DEF Carried, Copying, SeenPath, SeenRow, Good
<1>13. Passed'
    BY <1>1, <1>2, <1>5 DEF Served, Passed, Running, Copying, Ahead, Good, AfterChange, FromDav
<1> QED
    BY <1>10, <1>11, <1>12, <1>13 DEF Served

\* A file whose copy is given up is doubtful.
LEMMA VanishedServed == ASSUME IInv, Served, Vanished PROVE Served'
<1>1. Files'
    BY FilesLeft DEF Vanished, history
<1>2. PICK n \in Node \ job.todo : n = job.cur
    BY DEF IInv, Current, Copying, Vanished
<1>3. /\ job'.at = "next" /\ job'.doubtful = job.doubtful \cup {n}
      /\ job'.seen = job.seen /\ job'.todo = job.todo /\ Copying
      /\ UNCHANGED <<mode, stored, storage, req, risk, acked, lost>>
    BY <1>2 DEF Vanished, Failed, IInv, Typed, Job, history, Copying
<1> QED
    BY <1>1, <1>2, <1>3 DEF Served, Snapped, Carried, Passed, Running, Copying, Ahead, Good, AfterChange,
                            FromDav, SeenPath, SeenRow, IoPath, storage

\* The new row on S3, or the size, is that of what was copied.
LEMMA BookServed == ASSUME IInv, Served, Book PROVE Served'
<1>1. PICK n \in Node \ job.todo : n = job.cur
    BY DEF IInv, Current, Copying, Book
<1>2. /\ job.at = "book" /\ UNCHANGED <<mode, stored, file, dav, req, risk, acked, lost>>
      /\ job'.at = "mark" /\ job'.seen = job.seen /\ job'.todo = job.todo
      /\ job'.cur = n /\ job'.buf = job.buf /\ job'.doubtful = job.doubtful
    BY <1>1 DEF Book, IInv, Typed, Job, history
<1>3. /\ mode = "webdav" => cache' = cache /\ object'[n] = [blob |-> job.buf, backend |-> "s3"]
      /\ mode # "webdav" => object' = object /\ cache'[n] = SizeOf(job.buf)
      /\ \A m \in Node \ {n} : object'[m] = object[m] /\ cache'[m] = cache[m]
    BY <1>1, <1>2 DEF Book, IInv, Typed
<1>4. /\ n \in job.doubtful => n \in risk
      /\ n \notin job.doubtful /\ Good(n) => job.buf = acked[n]
      /\ n \notin job.doubtful /\ mode = "s3" => dav[n][SeenPath(n)] = job.buf
      /\ mode = "s3" => SeenRow(n).backend = "s3"
    BY <1>1, <1>2 DEF Served, Carried, Copying
<1>5. Sound(n)'
  <2>1. Sound(n)
      BY DEF Served, Files
  <2>2. KnownAt(n)' /\ DavAt(n)' /\ KeptAt(n)'
      BY <1>2, <1>3, <2>1 DEF Sound, KnownAt, DavAt, KeptAt, Good, OnS3, OnDav, FromDav, Present,
                              IInv, Typed, Switches
  <2>3. SafeAt(n)'
    <3>1. CASE mode = "webdav"
        BY <1>2, <1>3, <1>4, <2>1, <3>1 DEF Sound, SafeAt, Good, TrueMarker, AfterChange, HasRow
    <3>2. CASE mode # "webdav"
        BY <1>2, <1>3, <1>4, <2>1, <3>2
           DEF Sound, SafeAt, Good, TrueMarker, AfterChange, FromDav, RowOf, IoPath, IInv, Typed, Switches
    <3> QED
        BY <3>1, <3>2
  <2> QED
      BY <2>2, <2>3 DEF Sound
<1>6. Files'
    BY <1>2, <1>3, <1>5, Untouched DEF Served, Files
<1>7. Snapped'
    BY <1>1, <1>2, <1>3 DEF Served, Snapped, Running, Copying, Ahead, SeenPath, SeenRow, IoPath,
                            IInv, Typed, Switches, Job
<1>8. Carried'
    BY <1>1, <1>2, <1>3, <1>4 DEF Carried, Copying, SeenPath, SeenRow, Good
<1>9. Passed'
    BY <1>1, <1>2, <1>3 DEF Served, Passed, Running, Copying, Ahead, Good, AfterChange, FromDav
<1> QED
    BY <1>6, <1>7, <1>8, <1>9 DEF Served

\* A file that is passed has its copy, with a row that says so; if it was doubtful it
\* stays at risk.
LEMMA MarkServed == ASSUME IInv, Served, MarkCopied PROVE Served'
<1>1. PICK n \in Node \ job.todo : n = job.cur
    BY DEF IInv, Current, Copying, MarkCopied
<1>2. /\ job.at = "mark" /\ UNCHANGED <<mode, stored, dav, req, acked, lost>> /\ Present(n)
      /\ job'.at = "next" /\ job'.seen = job.seen /\ job'.todo = job.todo
      /\ job'.doubtful = job.doubtful
      /\ risk' = IF n \in job.doubtful THEN risk ELSE risk \ {n}
    BY <1>1 DEF MarkCopied, IInv, Typed, Job
<1>3. /\ file'[n].trashed = file[n].trashed /\ file'[n].status # "absent"
      /\ mode = "webdav" => object' = object /\ cache'[n] = SizeOf(job.buf)
      /\ mode # "webdav" =>
            cache' = cache
            /\ object'[n] = IF HasRow(n) THEN [object[n] EXCEPT !.backend = "webdav"] ELSE object[n]
      /\ \A m \in Node \ {n} :
            object'[m] = object[m] /\ cache'[m] = cache[m] /\ file'[m] = file[m]
    BY <1>1, <1>2 DEF MarkCopied, Present, IInv, Typed, FileRow
<1>4. object[n] \in Row
    BY DEF IInv, Typed
<1>5. object'[n].blob = object[n].blob
    BY <1>3, <1>4 DEF Row
<1>6. n \in job.doubtful => n \in risk
    BY <1>1, <1>2 DEF Served, Carried, Copying
<1>7. ASSUME n \notin job.doubtful, Good(n)
      PROVE  /\ SizeOf(job.buf) = SizeOf(acked[n]) /\ req[n].at = "idle"
             /\ mode = "webdav" => object[n].blob = acked[n]
             /\ mode # "webdav" => /\ cache[n] = SizeOf(acked[n]) /\ FromDav(n)' = acked[n]
                                   /\ object'[n].backend = "webdav"
  <2>1. SeenPath(n) = IoPath(file[n].trashed) /\ req[n] = Idle /\ (mode = "s3" => HasRow(n))
      BY <1>1, <1>2, <1>7 DEF Served, Snapped, Running, Copying, Ahead, IInv, Quiet, Undisturbed,
                              Typed, Switches
  <2>2. mode # "webdav" => object'[n].backend = "webdav"
      BY <1>3, <1>4, <2>1 DEF Row, IInv, Typed, Switches
  <2>3. /\ job.buf = acked[n] /\ acked[n] # None
        /\ mode = "webdav" => object[n].blob = job.buf
        /\ mode # "webdav" => cache[n] = SizeOf(job.buf) /\ dav[n][SeenPath(n)] = job.buf
      BY <1>1, <1>2, <1>7 DEF Served, Carried, Copying, Good, IInv, Typed, Switches
  <2>4. mode # "webdav" => FromDav(n)' = acked[n]
      BY <1>2, <1>3, <2>1, <2>3 DEF FromDav, IoPath
  <2> QED
      BY <2>1, <2>2, <2>3, <2>4 DEF Idle
<1>8. Sound(n)'
  <2>1. Sound(n)
      BY DEF Served, Files
  <2>2. KnownAt(n)' /\ DavAt(n)' /\ KeptAt(n)'
      BY <1>2, <1>3, <1>5, <2>1 DEF Sound, KnownAt, DavAt, KeptAt, Good, OnS3, OnDav, FromDav, Present,
                              IInv, Typed, Switches
  <2>3. Good(n)' /\ n \notin risk' => Good(n) /\ n \notin job.doubtful
      BY <1>2, <1>6 DEF Good
  <2>4. SafeAt(n)'
    <3>1. CASE mode = "webdav"
        BY <1>2, <1>3, <1>5, <1>7, <2>3, <3>1 DEF SafeAt, TrueMarker, AfterChange, HasRow
    <3>2. CASE mode # "webdav"
        BY <1>2, <1>3, <1>7, <2>3, <3>2 DEF SafeAt, TrueMarker, AfterChange, RowOf, IInv, Typed, Switches
    <3> QED
        BY <3>1, <3>2
  <2> QED
      BY <2>2, <2>4 DEF Sound
<1>9. Files'
  <2>1. ASSUME NEW m \in Node, m # n PROVE Sound(m)'
      BY <1>2, <1>3, <2>1, Untouched DEF Served, Files
  <2> QED
      BY <1>8, <2>1 DEF Files
<1>10. Snapped'
    BY <1>1, <1>2, <1>3 DEF Served, Snapped, Running, Copying, Ahead, SeenPath, SeenRow, IoPath,
                            IInv, Typed, Job
<1>11. Carried'
    BY <1>2 DEF Carried, Copying
<1>12. Passed'
  <2>1. ASSUME NEW m \in Node \ (job.todo \cup job.doubtful \cup risk'), Good(m)
        PROVE  AfterChange(m)' = acked[m]
    <3>1. CASE m = n
        BY <1>2, <1>3, <1>5, <1>7, <2>1, <3>1 DEF AfterChange, IInv, Typed, Switches
    <3>2. CASE m # n
        BY <1>1, <1>2, <1>3, <2>1, <3>2 DEF Served, Passed, Running, Copying, Ahead, AfterChange, FromDav
    <3> QED
        BY <3>1, <3>2
  <2> QED
      BY <1>2, <2>1 DEF Passed, Running, Copying, Ahead, Good
<1> QED
    BY <1>9, <1>10, <1>11, <1>12 DEF Served

\* At its end the run has passed all files but those that are doubtful, and they are
\* at risk from the moment that the other mode is configured.
LEMMA CutOverServed == ASSUME IInv, Served, FinishRun \/ Persist PROVE Served'
<1>1. CASE FinishRun
  <2>1. /\ job.at = "next" /\ job'.at = "persist" /\ job.todo = {} /\ job'.todo = {}
        /\ job'.doubtful = job.doubtful
        /\ UNCHANGED <<mode, stored, storage, req, risk, acked, lost>>
      BY <1>1 DEF FinishRun, IInv, Typed, Job, history
  <2>2. Files'
      BY <2>1, FilesLeft
  <2>3. Snapped' /\ Carried'
      BY <2>1 DEF Snapped, Carried, Running, Copying
  <2>4. Passed'
      BY <2>1 DEF Served, Passed, Running, Copying, Ahead, Good, AfterChange, FromDav, storage
  <2> QED
      BY <2>2, <2>3, <2>4 DEF Served
<1>2. CASE Persist
  <2>1. /\ job.at = "persist" /\ job'.at = "end" /\ risk' = risk \cup job.doubtful
        /\ UNCHANGED <<mode, storage, req, acked, lost>>
      BY <1>2 DEF Persist, IInv, Typed, Job
  <2>2. ASSUME NEW n \in Node PROVE Sound(n)'
    <3>1. Sound(n)
        BY DEF Served, Files
    <3>2. KnownAt(n)' /\ DavAt(n)' /\ KeptAt(n)'
        BY <2>1, <3>1 DEF Sound, KnownAt, DavAt, KeptAt, Good, OnS3, OnDav, FromDav, Present, storage
    <3>3. Good(n) /\ n \notin risk' => AfterChange(n) = acked[n]
        BY <2>1 DEF Served, Passed, Running, Copying, Ahead
    <3>4. SafeAt(n)'
        BY <2>1, <3>1, <3>3 DEF Sound, SafeAt, Good, AfterChange, FromDav, TrueMarker, RowOf, HasRow, storage
    <3> QED
        BY <3>2, <3>4 DEF Sound
  <2>3. Snapped' /\ Carried' /\ Passed'
      BY <2>1 DEF Snapped, Carried, Passed, Running, Copying
  <2> QED
      BY <2>2, <2>3 DEF Served, Files
<1> QED
    BY <1>1, <1>2

\* A restart drops the requests; in the other mode it serves the copies, all of which
\* are good but those at risk.
LEMMA RestartServed == ASSUME IInv, Served, Restart PROVE Served'
<1>1. /\ mode' = stored /\ stored' = stored /\ job'.at = "none"
      /\ file' = file /\ object' = object /\ dav' = dav /\ cache' = cache /\ acked' = acked
      /\ stored = mode => lost' = lost \cup HalfDone /\ risk' = risk
      /\ stored # mode => lost' = lost \cup HalfDone \cup risk
    BY DEF Restart, NoJob, storage
<1>2. mode \in {"s3", "webdav"} /\ stored \in {"s3", "webdav"}
    BY DEF IInv, Typed, Switches
<1>3. ASSUME NEW n \in Node PROVE Sound(n)'
  <2>1. Sound(n) /\ PendingAt(n)
      BY DEF Served, Files, IInv, Pending
  <2>2. req'[n].at = "idle" /\ ~req'[n].new
      BY DEF Restart, Idle
  <2>3. KnownAt(n)' /\ DavAt(n)'
      BY <1>1, <2>1, <2>2 DEF Sound, KnownAt, DavAt, Present
  <2>4. ASSUME Good(n)'
        PROVE  /\ Good(n) /\ n \notin HalfDone /\ (stored # mode => n \notin risk)
               /\ (IF mode = "s3" THEN object[n].blob ELSE FromDav(n)) = acked[n]
               /\ mode = "s3" => RowOf(n) = object[n]
    <3>1. Good(n) /\ n \notin HalfDone /\ (stored # mode => n \notin risk)
        BY <1>1, <2>4 DEF Good
    <3>2. CASE mode = "s3"
        BY <2>1, <3>1, <3>2 DEF Sound, PendingAt, KeptAt, OnS3, HalfDone, RowOf
    <3>3. CASE mode = "webdav"
      <4>1. req[n].at \in {"idle", "in", "put", "restore"}
          BY <3>1, <3>3 DEF HalfDone, IInv, Typed, ReqState
      <4>2. OnDav(n) = acked[n] /\ (req[n].at = "put" => OnDav(n) = FromDav(n))
          BY <2>1, <3>1, <3>3, <4>1 DEF Sound, KnownAt, DavAt, KeptAt, Good, OnDav, FromDav
      <4> QED
          BY <3>1, <3>3, <4>1, <4>2 DEF OnDav
    <3> QED
        BY <1>2, <3>1, <3>2, <3>3
  <2>5. KeptAt(n)'
      BY <1>1, <1>2, <2>1, <2>2, <2>4 DEF Sound, SafeAt, KeptAt, OnS3, OnDav, FromDav, AfterChange
  <2>6. ASSUME Good(n)', n \notin risk PROVE TrueMarker(n)'
    <3>1. CASE stored = mode
      <4>1. TrueMarker(n) /\ FromDav(n)' = FromDav(n) /\ mode' = mode
          BY <1>1, <2>1, <2>4, <2>6, <3>1 DEF Sound, SafeAt, FromDav
      <4>2. mode = "s3" => RowOf(n)' = RowOf(n)
          BY <1>1, <2>2, <2>4, <2>6 DEF RowOf
      <4> QED
          BY <1>1, <1>2, <4>1, <4>2 DEF TrueMarker, HasRow
    <3>2. CASE stored # mode /\ stored = "webdav"
        BY <1>1, <1>2, <2>4, <2>6, <3>2 DEF TrueMarker
    <3>3. CASE stored # mode /\ stored = "s3"
        BY <1>1, <1>2, <2>2, <2>4, <2>6, <3>3 DEF TrueMarker, RowOf, FromDav, IoPath
    <3> QED
        BY <1>2, <3>1, <3>2, <3>3
  <2>7. SafeAt(n)'
      BY <1>1, <2>1, <2>4, <2>6 DEF Sound, SafeAt
  <2> QED
      BY <2>3, <2>5, <2>7 DEF Sound
<1> QED
    BY <1>1, <1>3 DEF Served, Files, Snapped, Carried, Passed, Running, Copying

-----------------------------------------------------------------------------
\* At the start nothing has been acknowledged.
LEMMA InitServed == Init => Served
BY DEF Init, Served, Files, Sound, KnownAt, DavAt, KeptAt, SafeAt, Good, Snapped, Carried, Passed,
       Running, Copying, NoJob, Idle, NoFile

\* Every step keeps what is served.
LEMMA StepServed == ASSUME IInv, Served, [Next]_vars PROVE Served'
BY RequestServed, OffServed, TakeLockServed, NextFileServed, ReadServed, WriteServed, VanishedServed,
   BookServed, MarkServed, CutOverServed, RestartServed DEF Next, Work

\* Where the acknowledged bytes of a file are, in every reachable state.
THEOREM ServedInvariant == Spec => [](IInv /\ Served)
BY InitKept, StepKept, InitServed, StepServed, PTL DEF Spec

\* A file serves what was last acknowledged for it, in either mode and after any
\* migrations, unless it was left in a way the code makes no promise about
\* (processNode, shouldSkip, uploadFile, the trash), for any files, contents and bounds.
THEOREM ServesWhatWasAcknowledged == Spec => []ServesAcknowledged
<1>1. IInv /\ Served => ServesAcknowledged
    BY DEF IInv, Typed, Switches, Served, Files, Sound, KeptAt, Good, OnS3, OnDav, FromDav,
           ServesAcknowledged, Serves, Idle
<1> QED
    BY <1>1, ServedInvariant, PTL
=============================================================================
