------------------------------- MODULE AiJobs -------------------------------
(***************************************************************************)
(* The queue of AI jobs and its workers, for the embed job of one file:    *)
(* contents are committed and their hooks enqueue them; server processes   *)
(* poll, reap, claim, execute and mark; executions time out and go on.     *)
(*                                                                         *)
(* A step is one statement or transaction, one read of the file, or one    *)
(* answer of the model.  The row of the job is unique per node, kind and   *)
(* generation; other kinds, which a pass drains one after the other, only  *)
(* repeat the reaping.  Attempts are not counted: there is no cap.         *)
(***************************************************************************)
EXTENDS Naturals, Sequences, Functions

CONSTANTS Content,      \* what the file may hold, and its hash
          Unreadable,   \* the contents that no text can be had from
          Proc,         \* server processes
          Slots,        \* bound: executions at one time, those given up included
          MaxCommits,   \* bound: contents ever committed
          MaxFaults,    \* bound: time-outs, failures, crashes, lost hooks, missing hashes
          None

ASSUME ContentAssumption == None \notin Content /\ Unreadable \subseteq Content

Slot == 1..Slots

VARIABLES
    content,    \* what the file holds
    commits,    \* contents committed so far
    hooks,      \* hooks that have not enqueued yet: number of the commit, hash
    job,        \* the row of ai_jobs
    index,      \* the pooled row: the hash on it, and what it was made from
    draining,   \* processes inside a pass
    exec,       \* the executions
    faults

\* History variable: what has happened that the queue does not make up for.
VARIABLE harm

vars == <<content, commits, hooks, job, index, draining, exec, faults, harm>>

NoJob == [st |-> "none", hash |-> None, due |-> TRUE]
NoIndex == [stamp |-> None, made |-> None]

\* by: the process, awaited: the pass waits for it, over: the row has been
\* claimed again since.
Free == [pc |-> "free", hash |-> None, made |-> None, by |-> None,
         awaited |-> FALSE, over |-> FALSE]

Init ==
    /\ content = None /\ commits = <<>>
    /\ hooks = {}
    /\ job = NoJob /\ index = NoIndex
    /\ draining = {}
    /\ exec = [e \in Slot |-> Free]
    /\ faults = 0 /\ harm = {}

Fault == faults < MaxFaults /\ faults' = faults + 1

InFlight == hooks # {} \/ \E e \in Slot : exec[e].pc # "free"

-----------------------------------------------------------------------------
(* Commits and hooks.                                                      *)

\* An upload, an overwrite or a restored version; the hook follows, with the
\* hash, or without one if it could not be had.
Commit(c, h) ==
    /\ Len(commits) < MaxCommits /\ c # content
    /\ \/ h = c /\ UNCHANGED faults
       \/ h = None /\ Fault
    /\ content' = c
    /\ commits' = Append(commits, c)
    /\ hooks' = hooks \cup {[n |-> Len(commits) + 1, hash |-> h]}
    /\ harm' = harm \cup IF c \in Range(commits) /\ (InFlight \/ index.made # index.stamp)
                         THEN {"back"} ELSE {}
    /\ UNCHANGED <<job, index, draining, exec>>

\* The hook fails, or its process dies: logged at most.
HookLost(h) ==
    /\ Fault
    /\ hooks' = hooks \ {h} /\ harm' = harm \cup {"lost"}
    /\ UNCHANGED <<content, commits, job, index, draining, exec>>

Differs(h) == h # None /\ job.hash # None /\ h # job.hash

\* Mutants: a running row is left alone; next_retry_at is.
RunningKept(h) ==
    IF job.st = "none" \/ (Differs(h) /\ job.st # "running")
    THEN [st |-> "pending", hash |-> h, due |-> TRUE] ELSE job

DueKept(h) ==
    IF job.st = "none" \/ Differs(h) THEN [job EXCEPT !.st = "pending", !.hash = h] ELSE job

\* The INSERT with its ON CONFLICT clause: whatever the row does, another hash
\* makes it pending.
Enqueued(h) ==
    IF job.st = "none" \/ Differs(h) THEN [st |-> "pending", hash |-> h, due |-> TRUE] ELSE job

\* The hook of a later commit has been here.
Overtaken(h) == \E n \in h.n + 1..Len(commits) : \A g \in hooks : g.n # n

Enqueue(h) ==
    /\ hooks' = hooks \ {h}
    /\ job' = Enqueued(h.hash)
    /\ harm' = harm \cup IF job.st # "none" /\ (h.hash = None \/ job.hash = None)
                         THEN {"unstamped"} ELSE {}
                    \cup IF Overtaken(h) THEN {"overtaken"} ELSE {}
    /\ UNCHANGED <<content, commits, index, draining, exec, faults>>

\* A collection is seeded from a file that has no pooled row yet.
SeedEnqueue ==
    /\ content # None /\ index = NoIndex /\ job' = Enqueued(None) /\ job' # job
    /\ UNCHANGED <<content, commits, hooks, index, draining, exec, faults, harm>>

-----------------------------------------------------------------------------
(* The worker of a process.                                                *)

Executing(p) == \E e \in Slot : exec[e].by = p /\ exec[e].awaited

\* Mutant: what a crash left running is not reaped.
OnlyAwaited(due) ==
    IF job.st = "running" /\ ~due THEN [job EXCEPT !.st = "failed", !.due = due] ELSE job

\* markFailed, on whatever execution the row is running for.
Failed(due) == IF job.st = "running" THEN [job EXCEPT !.st = "failed", !.due = due] ELSE job

\* Every pass begins by reaping: recoverStaleRunning(0), any running row.
StartPass(p) ==
    /\ p \notin draining
    /\ draining' = draining \cup {p}
    /\ job' = Failed(TRUE)
    /\ harm' = harm \cup IF job.st = "running" /\ \E e \in Slot : exec[e].by # p /\ exec[e].awaited
                         THEN {"reaped"} ELSE {}
    /\ UNCHANGED <<content, commits, hooks, index, exec, faults>>

Claimable == job.st = "pending" \/ (job.st = "failed" /\ job.due)

\* Slots have no identity: the first free one.
FirstFree(e) == exec[e] = Free /\ \A f \in 1..e - 1 : exec[f] # Free

ClaimNext(p, e) ==
    /\ p \in draining /\ ~Executing(p) /\ Claimable /\ FirstFree(e)
    /\ job' = [job EXCEPT !.st = "running"]
    /\ exec' = [f \in Slot |->
                  IF f = e THEN [Free EXCEPT !.pc = "check", !.hash = job.hash, !.by = p,
                                             !.awaited = TRUE]
                  ELSE IF exec[f] = Free THEN Free ELSE [exec[f] EXCEPT !.over = TRUE]]
    /\ UNCHANGED <<content, commits, hooks, index, draining, faults, harm>>

EndPass(p) ==
    /\ p \in draining /\ ~Executing(p) /\ ~Claimable
    /\ draining' = draining \ {p}
    /\ UNCHANGED <<content, commits, hooks, job, index, exec, faults, harm>>

\* The same hash on the pooled row: nothing to pay for.
Deduped(e) == exec[e].hash # None /\ index.stamp = exec[e].hash

Check(e) ==
    /\ exec[e].pc = "check"
    /\ exec' = [exec EXCEPT ![e].pc = IF Deduped(e) THEN "skip" ELSE "read"]
    /\ UNCHANGED <<content, commits, hooks, job, index, draining, faults, harm>>

\* What the file holds by now, not what the job was enqueued for.
ReadText(e) ==
    /\ exec[e].pc = "read"
    /\ exec' = [exec EXCEPT ![e].pc = IF content \in Unreadable THEN "skip" ELSE "embed",
                            ![e].made = content]
    /\ UNCHANGED <<content, commits, hooks, job, index, draining, faults, harm>>

\* The model answers, and the vectors are written with the hash of the job.
PersistVectors(e) ==
    /\ exec[e].pc = "embed"
    /\ exec' = [exec EXCEPT ![e].pc = "mark"]
    /\ index' = [stamp |-> exec[e].hash, made |-> exec[e].made]
    /\ harm' = harm \cup IF exec[e].over /\ exec[e].made # content THEN {"late"} ELSE {}
    /\ UNCHANGED <<content, commits, hooks, job, draining, faults>>

\* markDone and markSkipped ask only that the row is running.
Mark(e) ==
    /\ exec[e].pc \in {"mark", "skip"}
    /\ job' = IF job.st = "running"
              THEN [job EXCEPT !.st = IF exec[e].pc = "mark" THEN "done" ELSE "skipped"] ELSE job
    /\ exec' = [exec EXCEPT ![e] = Free]
    /\ harm' = harm \cup IF exec[e].over /\ job.st = "running" /\ index.made # content
                         THEN {"late"} ELSE {}
    /\ UNCHANGED <<content, commits, hooks, index, draining, faults>>

\* An exception, of the model or of a statement: the pass marks the row, unless
\* it has given the execution up.
Throws(e) ==
    /\ exec[e].pc # "free" /\ Fault
    /\ job' = IF exec[e].awaited THEN Failed(FALSE) ELSE job
    /\ exec' = [exec EXCEPT ![e] = Free]
    /\ UNCHANGED <<content, commits, hooks, index, draining, harm>>

\* The pass gives up; the execution goes on.
TimesOut(e) ==
    /\ exec[e].awaited /\ Fault
    /\ job' = Failed(FALSE)
    /\ exec' = [exec EXCEPT ![e].awaited = FALSE]
    /\ UNCHANGED <<content, commits, hooks, index, draining, harm>>

Crash(p) ==
    /\ p \in draining \/ (\E e \in Slot : exec[e].by = p)
    /\ Fault
    /\ draining' = draining \ {p}
    /\ exec' = [e \in Slot |-> IF exec[e].by = p THEN Free ELSE exec[e]]
    /\ UNCHANGED <<content, commits, hooks, job, index, harm>>

\* next_retry_at passes.
FallsDue ==
    /\ job.st = "failed" /\ ~job.due
    /\ job' = [job EXCEPT !.due = TRUE]
    /\ UNCHANGED <<content, commits, hooks, index, draining, exec, faults, harm>>

Proceeds(e) == Check(e) \/ ReadText(e) \/ PersistVectors(e) \/ Mark(e)

Works(p) == StartPass(p) \/ EndPass(p) \/ \E e \in Slot : ClaimNext(p, e)

Next ==
    \/ \E c \in Content : \E h \in {c, None} : Commit(c, h)
    \/ \E h \in hooks : Enqueue(h) \/ HookLost(h)
    \/ SeedEnqueue
    \/ \E p \in Proc : Works(p) \/ Crash(p)
    \/ \E e \in Slot : Proceeds(e) \/ Throws(e) \/ TimesOut(e)
    \/ FallsDue

Spec == Init /\ [][Next]_vars

\* Timers fire, statements and models answer, hooks run.
Fairness ==
    /\ WF_vars(\E h \in hooks : Enqueue(h)) /\ WF_vars(FallsDue)
    /\ \A p \in Proc : WF_vars(Works(p))
    /\ \A e \in Slot : WF_vars(Proceeds(e))

FairSpec == Spec /\ Fairness

-----------------------------------------------------------------------------
Hash == Content \cup {None}

\* The row, the pooled row and the executions have their types.
TypeOK ==
    /\ content \in Hash /\ Range(commits) \subseteq Content
    /\ \A h \in hooks : h.n \in 1..Len(commits) /\ h.hash \in Hash
    /\ job \in [st : {"none", "pending", "running", "done", "failed", "skipped"},
                hash : Hash, due : BOOLEAN]
    /\ job.due \/ job.st = "failed"
    /\ index \in [stamp : Hash, made : Hash]
    /\ draining \subseteq Proc
    /\ exec \in [Slot -> [pc : {"free", "check", "read", "embed", "mark", "skip"},
                          hash : Hash, made : Hash, by : Proc \cup {None},
                          awaited : BOOLEAN, over : BOOLEAN]]
    /\ harm \subseteq {"back", "lost", "unstamped", "reaped", "late", "overtaken"}

Settled == job.st \in {"done", "skipped"}

\* A job that is done has done it: when no hook is on its way, the vectors were
\* made from what the file holds, if anything can be made from it.
DoneIsIndexed ==
    (Settled /\ hooks = {} /\ content \notin Unreadable /\ harm \subseteq {"reaped"})
        => index.made = content

\* runWithTimeout: whatever an execution that has been given up still does, it
\* does not mark the row.
LateMarksNothing ==
    [][\A e \in Slot : (exec[e] # Free /\ ~exec[e].awaited /\ exec'[e] = Free) => job' = job]_vars

\* Jobs come to an end, through time-outs, failures and crashes, but for two
\* processes that reap each other's.
JobsEnd == <>[](job.st = "none" \/ Settled \/ "reaped" \in harm)
=============================================================================
