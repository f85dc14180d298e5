---------------------------- MODULE AiJobsProofs ----------------------------
(***************************************************************************)
(* A job that is done leaves vectors made from what the file holds: for    *)
(* any contents, processes, executions, commits and faults.                *)
(***************************************************************************)
EXTENDS AiJobs, SequenceTheorems, TLAPS

HarmFree == harm \subseteq {"reaped"}

Committed == Range(commits)

-----------------------------------------------------------------------------
(* The inductive invariant *)

\* The file holds what was committed last; nothing happens before that.
Holds ==
    /\ commits \in Seq(Content)
    /\ content = IF commits = <<>> THEN None ELSE commits[Len(commits)]
    /\ commits = <<>> => job.st = "none"
    /\ job.st = "none" => \A e \in Slot : exec[e] = Free

\* One hook per commit, with its hash or none.
Hooks ==
    /\ \A g, h \in hooks : g.n = h.n => g = h
    /\ \A h \in hooks : h.hash \in {commits[h.n], None}

\* Whatever a hash or vectors are of has been committed.
Stems ==
    /\ job.hash \in Committed \cup {None}
    /\ index.stamp \in Committed \cup {None} /\ index.made \in Committed \cup {None}

Busy(e) == exec[e].pc # "free"

\* The execution for which the row was claimed last.
Latest(e) == Busy(e) /\ ~exec[e].over

Runs(e) ==
    /\ Busy(e) \/ exec[e] = Free
    /\ exec[e].hash \in Committed \cup {None}
    /\ exec[e].pc \in {"embed", "mark"} => exec[e].made \in Committed
    /\ exec[e].pc = "skip" /\ exec[e].hash = None => exec[e].made \in Committed \cap Unreadable
    /\ exec[e].pc = "mark" => index.made # None
    /\ Latest(e) /\ job.st # "pending" => exec[e].hash = job.hash

OneLatest == \A e, f \in Slot : Latest(e) /\ Latest(f) => e = f

\* The commits whose hooks have been here.
Heard == {n \in 1..Len(commits) : \A h \in hooks : h.n # n}

\* The row has the hash of the newest commit whose hook has been here, or none when it
\* is new.
Order ==
    /\ job.st = "none" => Heard = {}
    /\ job.hash = None => \A m, n \in Heard : m = n
    /\ job.hash # None => \E n \in Heard : job.hash = commits[n] /\ \A m \in Heard : m <= n

\* A stamp that is the hash of the file's content is a true one, and so is what an
\* execution for that content will write.
TrueStamp == content # None /\ index.stamp = content => index.made = content

Fresh(e) ==
    /\ exec[e].pc = "embed" /\ exec[e].hash = content => exec[e].made = content
    /\ Latest(e) /\ exec[e].pc \in {"mark", "skip"} /\ exec[e].hash = content
          /\ content \notin Unreadable => index.made = content

\* What is settled for the content of the file, or for its only one, is indexed.
SettledIndexed ==
    (/\ Settled /\ content \notin Unreadable
     /\ job.hash = content \/ (job.hash = None /\ Len(commits) = 1))
       => index.made = content

Harmless == Order /\ TrueStamp /\ SettledIndexed /\ \A e \in Slot : Fresh(e)

Inv ==
    /\ TypeOK /\ Holds /\ Hooks /\ Stems /\ OneLatest
    /\ \A e \in Slot : Runs(e)
    /\ HarmFree => Harmless

ExecState == [pc : {"free", "check", "read", "embed", "mark", "skip"},
              hash : Hash, made : Hash, by : Proc \cup {None},
              awaited : BOOLEAN, over : BOOLEAN]

-----------------------------------------------------------------------------
(* Types *)

\* A commit more.
LEMMA CommitsAppend ==
    ASSUME NEW s \in Seq(Content), NEW c \in Content
    PROVE  /\ Append(s, c) \in Seq(Content) /\ Append(s, c) # <<>>
           /\ Len(s) \in Nat /\ Len(Append(s, c)) = Len(s) + 1
           /\ \A i \in 1..Len(s) : Append(s, c)[i] = s[i]
           /\ Append(s, c)[Len(s) + 1] = c
           /\ Range(Append(s, c)) = Range(s) \cup {c}
<1>1. /\ Append(s, c) \in Seq(Content) /\ Append(s, c) # <<>>
      /\ Len(s) \in Nat /\ Len(Append(s, c)) = Len(s) + 1
      /\ \A i \in 1..Len(s) : Append(s, c)[i] = s[i]
      /\ Append(s, c)[Len(s) + 1] = c
  BY AppendProperties, LenProperties
<1>2. DOMAIN s = 1..Len(s) /\ DOMAIN Append(s, c) = 1..Len(s) + 1
  BY <1>1, LenProperties
<1> QED BY <1>1, <1>2 DEF Range

\* The states of a row and of a slot that have not been used.
LEMMA NullState == NoJob.st = "none" /\ NoJob.hash = None /\ Free.pc = "free" /\ Free.hash = None
                   /\ Free \in ExecState
BY DEF NoJob, Free, ExecState, Hash

\* Every step keeps the types.
LEMMA Typed ==
    ASSUME TypeOK, commits \in Seq(Content), [Next]_vars
    PROVE  TypeOK'
<1> USE DEF Hash
<1>0. Len(commits) \in Nat /\ Free \in ExecState /\ exec \in [Slot -> ExecState]
  BY NullState, LenProperties DEF TypeOK, ExecState
<1>1. ASSUME NEW c \in Content, NEW h \in {c, None}, Commit(c, h)
      PROVE  TypeOK'
  <2>1. Range(commits') \subseteq Content /\ Len(commits') = Len(commits) + 1
    BY <1>1, CommitsAppend DEF Commit, TypeOK
  <2>2. harm' \subseteq {"back", "lost", "unstamped", "reaped", "late", "overtaken"}
    BY <1>1 DEF Commit, TypeOK
  <2>3. \A g \in hooks' : g.n \in 1..Len(commits') /\ g.hash \in Content \cup {None}
    BY <1>0, <1>1, <2>1 DEF Commit, TypeOK
  <2> QED BY <1>1, <2>1, <2>2, <2>3 DEF Commit, TypeOK
<1>2. ASSUME NEW h \in hooks, Enqueue(h) \/ HookLost(h)
      PROVE  TypeOK'
  <2>1. harm' \subseteq {"back", "lost", "unstamped", "reaped", "late", "overtaken"}
    BY <1>2 DEF Enqueue, HookLost, TypeOK
  <2>2. job' = job \/ job' = [st |-> "pending", hash |-> h.hash, due |-> TRUE]
    BY <1>2 DEF Enqueue, HookLost, Enqueued
  <2>3. hooks' = hooks \ {h}
    BY <1>2 DEF Enqueue, HookLost
  <2>4. h.hash \in Content \cup {None} /\ UNCHANGED <<content, commits, index, draining, exec>>
    BY <1>2 DEF Enqueue, HookLost, TypeOK
  <2>5. /\ job' \in [st : {"none", "pending", "running", "done", "failed", "skipped"},
                     hash : Content \cup {None}, due : BOOLEAN]
        /\ job'.due \/ job'.st = "failed"
    <3>1. CASE job' = job
      BY <3>1 DEF TypeOK
    <3>2. CASE job' = [st |-> "pending", hash |-> h.hash, due |-> TRUE]
      BY <2>4, <3>2
    <3> QED BY <2>2, <3>1, <3>2
  <2> QED BY <2>1, <2>3, <2>4, <2>5 DEF TypeOK
<1>3. CASE SeedEnqueue
  BY <1>3 DEF SeedEnqueue, Enqueued, TypeOK
<1>4. ASSUME NEW p \in Proc, StartPass(p) \/ EndPass(p)
      PROVE  TypeOK'
  BY <1>4 DEF StartPass, EndPass, Failed, TypeOK
<1>5. ASSUME NEW p \in Proc, NEW e \in Slot, ClaimNext(p, e)
      PROVE  TypeOK'
  <2>1. exec' \in [Slot -> ExecState]
    BY <1>0, <1>5 DEF ClaimNext, ExecState, Free, TypeOK
  <2> QED BY <1>5, <2>1 DEF ClaimNext, Claimable, TypeOK, ExecState
<1>6. ASSUME NEW p \in Proc, Crash(p)
      PROVE  TypeOK'
  <2>1. exec' \in [Slot -> ExecState]
    BY <1>0, <1>6 DEF Crash
  <2> QED BY <1>6, <2>1 DEF Crash, TypeOK, ExecState
<1>7. ASSUME NEW e \in Slot, Proceeds(e) \/ Throws(e) \/ TimesOut(e)
      PROVE  TypeOK'
  <2>1. exec[e] \in ExecState /\ content \in Content \cup {None}
    BY <1>0 DEF TypeOK
  <2>2. CASE Check(e) \/ ReadText(e)
    <3>1. exec' \in [Slot -> ExecState]
      BY <1>0, <2>1, <2>2 DEF Check, ReadText, ExecState
    <3> QED BY <2>2, <3>1 DEF Check, ReadText, TypeOK, ExecState
  <2>3. CASE PersistVectors(e)
    <3>1. exec' \in [Slot -> ExecState]
      BY <1>0, <2>1, <2>3 DEF PersistVectors, ExecState
    <3>2. index' \in [stamp : Content \cup {None}, made : Content \cup {None}]
      BY <2>1, <2>3 DEF PersistVectors, ExecState
    <3>3. harm' \subseteq {"back", "lost", "unstamped", "reaped", "late", "overtaken"}
      BY <2>3 DEF PersistVectors, TypeOK
    <3> QED BY <2>3, <3>1, <3>2, <3>3 DEF PersistVectors, TypeOK, ExecState
  <2>4. CASE Mark(e)
    <3>1. exec' \in [Slot -> ExecState]
      BY <1>0, <2>4 DEF Mark
    <3>2. harm' \subseteq {"back", "lost", "unstamped", "reaped", "late", "overtaken"}
      BY <2>4 DEF Mark, TypeOK
    <3> QED BY <2>4, <3>1, <3>2 DEF Mark, TypeOK, ExecState
  <2>5. CASE Throws(e) \/ TimesOut(e)
    <3>1. exec' \in [Slot -> ExecState]
      <4>1. CASE Throws(e)
        BY <1>0, <4>1 DEF Throws
      <4>2. CASE TimesOut(e)
        <5>1. [exec[e] EXCEPT !.awaited = FALSE] \in ExecState
          BY <2>1 DEF ExecState
        <5> QED BY <1>0, <4>2, <5>1 DEF TimesOut
      <4> QED BY <2>5, <4>1, <4>2
    <3> QED BY <2>5, <3>1 DEF Throws, TimesOut, Failed, TypeOK, ExecState
  <2> QED BY <1>7, <2>2, <2>3, <2>4, <2>5 DEF Proceeds
<1>8. CASE FallsDue
  BY <1>8 DEF FallsDue, TypeOK
<1>9. CASE UNCHANGED vars
  BY <1>9 DEF vars, TypeOK
<1> QED BY <1>1, <1>2, <1>3, <1>4, <1>5, <1>6, <1>7, <1>8, <1>9 DEF Next, Works

-----------------------------------------------------------------------------
(* One lemma per action *)

\* A content that comes back does so when nothing is under way and the index is true,
\* so no stamp, hash or execution is for it unless rightly.
LEMMA CommitKept ==
    ASSUME Inv, TypeOK', NEW c \in Content, NEW h \in {c, None}, Commit(c, h)
    PROVE  Inv'
<1>1. /\ commits' = Append(commits, c) /\ content' = c /\ c # content
      /\ hooks' = hooks \cup {[n |-> Len(commits) + 1, hash |-> h]}
      /\ UNCHANGED <<job, index, exec>>
      /\ harm' = harm \cup IF c \in Range(commits) /\ (InFlight \/ index.made # index.stamp)
                           THEN {"back"} ELSE {}
  BY DEF Commit
<1>2. /\ commits' \in Seq(Content) /\ commits' # <<>>
      /\ Len(commits) \in Nat /\ Len(commits') = Len(commits) + 1
      /\ \A i \in 1..Len(commits) : commits'[i] = commits[i]
      /\ commits'[Len(commits) + 1] = c
      /\ Committed' = Committed \cup {c}
  BY <1>1, CommitsAppend DEF Inv, Holds, Committed
<1>3. /\ \A g \in hooks : g.n \in 1..Len(commits)
      /\ None \notin Content
  BY ContentAssumption DEF Inv, TypeOK
<1>4. Holds'
  BY <1>1, <1>2 DEF Inv, Holds
<1>5. Hooks'
  BY <1>1, <1>2, <1>3 DEF Inv, Hooks
<1>6. Stems' /\ OneLatest' /\ \A e \in Slot : Runs(e)'
  BY <1>1, <1>2 DEF Inv, Stems, OneLatest, Runs, Latest, Busy
<1>7. ASSUME HarmFree'
      PROVE  Harmless'
  <2>1. HarmFree /\ Harmless
    BY <1>1, <1>7 DEF HarmFree, Inv
  <2>2. c \in Committed => ~InFlight /\ index.made = index.stamp
    BY <1>1, <1>7 DEF HarmFree, Committed
  <2>3. Heard' = Heard
    <3>1. Heard' = {n \in 1..Len(commits) + 1 : \A g \in hooks' : g.n # n}
      BY <1>2 DEF Heard
    <3>2. PICK g : g.n = Len(commits) + 1 /\ hooks' = hooks \cup {g}
      BY <1>1
    <3> QED BY <1>2, <3>1, <3>2 DEF Heard
  <2>4. Order'
    BY <1>1, <1>2, <2>1, <2>3 DEF Harmless, Order, Heard
  <2>5. TrueStamp'
    BY <1>1, <1>3, <2>2 DEF TrueStamp, Inv, Stems
  <2>6. \A e \in Slot : Fresh(e)'
    <3> SUFFICES ASSUME NEW e \in Slot PROVE Fresh(e)'
      OBVIOUS
    <3>1. Busy(e) => exec[e].hash # c
      BY <1>3, <2>2 DEF Inv, Runs, InFlight, Busy
    <3> QED BY <1>1, <3>1 DEF Fresh, Latest, Busy
  <2>7. SettledIndexed'
    <3> SUFFICES ASSUME Settled PROVE ~(job.hash = c \/ (job.hash = None /\ Len(commits) + 1 = 1))
      BY <1>1, <1>2 DEF SettledIndexed, Settled
    <3>1. commits # <<>>
      BY DEF Inv, Holds, Settled
    <3>2. Len(commits) > 0 /\ content = commits[Len(commits)]
      BY <1>2, <3>1, EmptySeq DEF Inv, Holds
    <3>3. CASE job.hash = c
      <4>1. ~InFlight
        BY <1>3, <2>2, <3>3 DEF Inv, Stems
      <4>2. Heard = 1..Len(commits)
        BY <4>1 DEF InFlight, Heard
      <4>3. job.hash = commits[Len(commits)]
        BY <1>2, <1>3, <2>1, <3>2, <3>3, <4>2 DEF Harmless, Order
      <4> QED BY <1>1, <3>2, <3>3, <4>3
    <3> QED BY <1>2, <3>2, <3>3
  <2> QED BY <2>4, <2>5, <2>6, <2>7 DEF Harmless
<1> QED BY <1>4, <1>5, <1>6, <1>7 DEF Inv

\* A hook that comes in order gives the row its hash; one that does not is harm.
LEMMA EnqueueKept ==
    ASSUME Inv, TypeOK', NEW h \in hooks, Enqueue(h)
    PROVE  Inv'
<1>1. /\ hooks' = hooks \ {h}
      /\ UNCHANGED <<content, commits, index, exec>>
      /\ harm' = harm \cup IF job.st # "none" /\ (h.hash = None \/ job.hash = None)
                           THEN {"unstamped"} ELSE {}
                      \cup IF Overtaken(h) THEN {"overtaken"} ELSE {}
  BY DEF Enqueue
<1>2. \/ job' = job /\ job.st # "none" /\ ~Differs(h.hash)
      \/ job'.st = "pending" /\ job'.hash = h.hash /\ (job.st = "none" \/ Differs(h.hash))
  BY DEF Enqueue, Enqueued
<1>3. /\ Len(commits) \in Nat /\ h.n \in 1..Len(commits) /\ h.hash \in {commits[h.n], None}
      /\ commits[h.n] \in Committed
  BY LenProperties DEF Inv, Holds, TypeOK, Hooks, Committed, Range
<1>4. Holds'
  BY <1>1, <1>2, <1>3, EmptySeq DEF Inv, Holds
<1>5. Hooks' /\ Stems' /\ OneLatest'
  BY <1>1, <1>2, <1>3 DEF Inv, Hooks, Stems, OneLatest, Latest, Busy, Committed
<1>6. \A e \in Slot : Runs(e)'
  BY <1>1, <1>2 DEF Inv, Runs, Latest, Busy, Committed
<1>7. ASSUME HarmFree'
      PROVE  Harmless'
  <2>1. HarmFree /\ Harmless
    BY <1>1, <1>7 DEF HarmFree, Inv
  <2>2. /\ ~Overtaken(h)
        /\ job.st # "none" => h.hash # None /\ job.hash # None
    BY <1>1, <1>7 DEF HarmFree
  <2>3. Heard' = Heard \cup {h.n}
    BY <1>1, <1>3 DEF Heard, Inv, Hooks
  <2>4. \A n \in Heard : n <= h.n
    BY <1>3, <2>2 DEF Heard, Overtaken
  <2>5. Order'
    <3>1. CASE job.st = "none"
      BY <1>1, <1>2, <1>3, <2>1, <2>3, <3>1 DEF Harmless, Order
    <3>2. CASE job.st # "none"
      <4>1. job'.hash = h.hash /\ h.hash = commits[h.n] /\ h.hash # None /\ job'.st # "none"
        BY <1>2, <1>3, <2>2, <3>2 DEF Differs
      <4> QED BY <1>1, <1>3, <2>3, <2>4, <4>1 DEF Order
    <3> QED BY <3>1, <3>2
  <2>6. TrueStamp' /\ SettledIndexed'
    BY <1>1, <1>2, <2>1 DEF Harmless, TrueStamp, SettledIndexed, Settled
  <2>7. \A e \in Slot : Fresh(e)'
    BY <1>1, <2>1 DEF Harmless, Fresh, Latest, Busy
  <2> QED BY <2>5, <2>6, <2>7 DEF Harmless
<1> QED BY <1>4, <1>5, <1>6, <1>7 DEF Inv

\* A hook that is lost is harm.
LEMMA HookLostKept ==
    ASSUME Inv, TypeOK', NEW h \in hooks, HookLost(h)
    PROVE  Inv'
<1>1. /\ hooks' = hooks \ {h} /\ ~HarmFree'
      /\ UNCHANGED <<content, commits, job, index, exec>>
  BY DEF HookLost, HarmFree
<1> QED BY <1>1 DEF Inv, Holds, Hooks, Stems, OneLatest, Runs, Latest, Busy, Committed

\* A seeded job is new and has no hash.
LEMMA SeedKept ==
    ASSUME Inv, TypeOK', SeedEnqueue
    PROVE  Inv'
<1>1. /\ content # None /\ job.st = "none" /\ job'.st = "pending" /\ job'.hash = None
      /\ UNCHANGED <<content, commits, hooks, index, exec, harm>>
  BY DEF SeedEnqueue, Enqueued, Differs
<1>2. Holds' /\ Hooks' /\ Stems' /\ OneLatest' /\ \A e \in Slot : Runs(e)'
  BY <1>1 DEF Inv, Holds, Hooks, Stems, OneLatest, Runs, Latest, Busy, Committed
<1>3. HarmFree => Harmless'
  BY <1>1 DEF Inv, Harmless, Order, Heard, TrueStamp, SettledIndexed, Settled, Fresh, Latest, Busy
<1> QED BY <1>1, <1>2, <1>3 DEF Inv, HarmFree

\* A row that fails, falls due or is taken from its execution keeps its hash, and
\* executions that stop leave nothing behind.
LEMMA FailingKept ==
    ASSUME Inv, TypeOK', UNCHANGED <<content, commits, hooks, index>>,
           harm \subseteq harm', job'.hash = job.hash,
           job'.st = job.st \/ (job.st \in {"running", "failed"} /\ job'.st = "failed"),
           \A e \in Slot : \/ exec'[e] = Free
                           \/ /\ exec'[e].pc = exec[e].pc /\ exec'[e].hash = exec[e].hash
                              /\ exec'[e].made = exec[e].made /\ exec'[e].over = exec[e].over
                              /\ exec[e] = Free => exec'[e] = Free
    PROVE  Inv'
<1>1. Free.pc = "free" /\ Free.hash = None
  BY NullState
<1>2. Holds' /\ Hooks' /\ Stems' /\ OneLatest'
  BY <1>1 DEF Inv, Holds, Hooks, Stems, OneLatest, Latest, Busy, Committed
<1>3. \A e \in Slot : Runs(e)'
  <2> SUFFICES ASSUME NEW e \in Slot PROVE Runs(e)'
    OBVIOUS
  <2>1. CASE exec'[e] = Free
    BY <1>1, <2>1 DEF Runs, Latest, Busy
  <2>2. CASE exec'[e] # Free
    <3>1. /\ exec'[e].pc = exec[e].pc /\ exec'[e].hash = exec[e].hash
          /\ exec'[e].made = exec[e].made /\ exec'[e].over = exec[e].over
          /\ exec[e] # Free
      BY <2>2
    <3> QED BY <3>1 DEF Inv, Runs, Latest, Busy, Committed
  <2> QED BY <2>1, <2>2
<1>4. HarmFree' => Harmless'
  BY <1>1 DEF Inv, HarmFree, Harmless, Order, Heard, TrueStamp, SettledIndexed, Settled, Fresh,
              Latest, Busy
<1> QED BY <1>2, <1>3, <1>4 DEF Inv

\* A claim takes the hash of the row and makes all earlier executions late ones.
LEMMA ClaimKept ==
    ASSUME Inv, TypeOK', NEW p \in Proc, NEW e \in Slot, ClaimNext(p, e)
    PROVE  Inv'
<1>1. /\ job.st \in {"pending", "failed"} /\ job'.st = "running" /\ job'.hash = job.hash
      /\ UNCHANGED <<content, commits, hooks, index, harm>>
  BY DEF ClaimNext, Claimable, Inv, TypeOK
<1>2. /\ exec'[e].pc = "check" /\ exec'[e].hash = job.hash /\ ~exec'[e].over
      /\ \A f \in Slot \ {e} :
            /\ exec'[f].pc = exec[f].pc /\ exec'[f].hash = exec[f].hash
            /\ exec'[f].made = exec[f].made
            /\ IF exec[f] = Free THEN exec'[f] = Free ELSE exec'[f].over
  BY DEF ClaimNext, Inv, TypeOK, Free
<1>3. \A f \in Slot \ {e} : ~Latest(f)'
  BY <1>2, NullState DEF Latest, Busy
<1>4. Holds' /\ Hooks' /\ Stems' /\ OneLatest'
  BY <1>1, <1>3 DEF Inv, Holds, Hooks, Stems, OneLatest, Committed
<1>5. \A f \in Slot : Runs(f)'
  <2>1. Runs(e)'
    BY <1>1, <1>2 DEF Inv, Runs, Stems, Latest, Busy, Committed
  <2>2. \A f \in Slot \ {e} : Runs(f)'
    BY <1>1, <1>2, <1>3 DEF Inv, Runs, Busy, Committed
  <2> QED BY <2>1, <2>2
<1>6. HarmFree' => Harmless'
  BY <1>1, <1>2, <1>3 DEF Inv, HarmFree, Harmless, Order, Heard, TrueStamp, SettledIndexed, Settled,
                          Fresh
<1> QED BY <1>4, <1>5, <1>6 DEF Inv

\* An execution moves on, with vectors or without: what it finds stamped with its
\* hash, reads or writes is of the content of the file, if its hash is.
LEMMA CheckKept ==
    ASSUME Inv, TypeOK', NEW e \in Slot, Check(e) \/ ReadText(e)
    PROVE  Inv'
<1>1. /\ UNCHANGED <<content, commits, hooks, job, index, harm>>
      /\ exec'[e].hash = exec[e].hash /\ exec'[e].over = exec[e].over
      /\ exec[e].pc \in {"check", "read"}
      /\ \A f \in Slot \ {e} : exec'[f] = exec[f]
  BY DEF Check, ReadText, Inv, TypeOK
<1>2. \/ exec'[e].pc = "read"
      \/ exec'[e].pc = "skip" /\ Deduped(e)
      \/ exec'[e].pc = "skip" /\ exec'[e].made = content /\ content \in Unreadable
      \/ exec'[e].pc = "embed" /\ exec'[e].made = content
  BY DEF Check, ReadText, Inv, TypeOK
<1>3. Busy(e) /\ Busy(e)'
  BY <1>1, <1>2 DEF Busy
<1>4. content \in Committed
  <2>1. commits # <<>> /\ commits \in Seq(Content) /\ content = commits[Len(commits)]
    BY <1>1, NullState DEF Inv, Holds
  <2>2. Len(commits) \in 1..Len(commits) /\ DOMAIN commits = 1..Len(commits)
    BY <2>1, EmptySeq, LenProperties
  <2> QED BY <2>1, <2>2 DEF Committed, Range
<1>5. Holds' /\ Hooks' /\ Stems' /\ OneLatest'
  <2>1. \A f \in Slot : Latest(f)' <=> Latest(f)
    BY <1>1, <1>3 DEF Latest, Busy
  <2>2. job.st # "none"
    BY <1>1, NullState DEF Inv, Holds
  <2> QED BY <1>1, <2>1, <2>2 DEF Inv, Holds, Hooks, Stems, OneLatest, Committed
<1>6. \A f \in Slot : Runs(f)'
  <2>1. Runs(e)'
    BY <1>1, <1>2, <1>3, <1>4 DEF Inv, Runs, Latest, Committed, Deduped
  <2>2. \A f \in Slot \ {e} : Runs(f)'
    BY <1>1 DEF Inv, Runs, Latest, Busy, Committed
  <2> QED BY <2>1, <2>2
<1>7. ASSUME HarmFree'
      PROVE  Harmless'
  <2>1. Harmless
    BY <1>1, <1>7 DEF Inv, HarmFree
  <2>2. Order' /\ TrueStamp' /\ SettledIndexed'
    BY <1>1, <2>1 DEF Harmless, Order, Heard, TrueStamp, SettledIndexed, Settled
  <2>3. Fresh(e)'
    BY <1>1, <1>2, <2>1, ContentAssumption DEF Harmless, Fresh, TrueStamp, Deduped
  <2>4. \A f \in Slot \ {e} : Fresh(f)'
    BY <1>1, <2>1 DEF Harmless, Fresh, Latest, Busy
  <2> QED BY <2>2, <2>3, <2>4 DEF Harmless
<1> QED BY <1>5, <1>6, <1>7 DEF Inv

\* Vectors are written: of what the file holds, if they come late
\* without harm or are stamped with its hash.
LEMMA PersistKept ==
    ASSUME Inv, TypeOK', NEW e \in Slot, PersistVectors(e)
    PROVE  Inv'
<1>1. /\ UNCHANGED <<content, commits, hooks, job>>
      /\ exec'[e].hash = exec[e].hash /\ exec'[e].over = exec[e].over
      /\ exec'[e].made = exec[e].made
      /\ exec[e].pc = "embed" /\ exec'[e].pc = "mark"
      /\ \A f \in Slot \ {e} : exec'[f] = exec[f]
      /\ index'.stamp = exec[e].hash /\ index'.made = exec[e].made
      /\ harm' = harm \cup IF exec[e].over /\ exec[e].made # content THEN {"late"} ELSE {}
  BY DEF PersistVectors, Inv, TypeOK
<1>2. Busy(e) /\ Busy(e)' /\ exec[e].made \in Committed /\ Committed \subseteq Content
      /\ None \notin Content
  BY <1>1, ContentAssumption DEF Busy, Inv, Runs, TypeOK, Committed
<1>3. \A f \in Slot : Latest(f)' <=> Latest(f)
  BY <1>1, <1>2 DEF Latest, Busy
<1>4. job.st # "none"
  BY <1>1, NullState DEF Inv, Holds
<1>5. Holds' /\ Hooks' /\ Stems' /\ OneLatest'
  BY <1>1, <1>2, <1>3, <1>4 DEF Inv, Holds, Hooks, Stems, Runs, OneLatest, Committed
<1>6. \A f \in Slot : Runs(f)'
  <2>1. Runs(e)'
    BY <1>1, <1>2, <1>3 DEF Inv, Runs, Committed
  <2>2. \A f \in Slot \ {e} : Runs(f)'
    BY <1>1, <1>2, <1>3 DEF Inv, Runs, Busy, Committed
  <2> QED BY <2>1, <2>2
<1>7. ASSUME HarmFree'
      PROVE  Harmless'
  <2>1. Harmless /\ (exec[e].over => exec[e].made = content)
    BY <1>1, <1>7 DEF Inv, HarmFree
  <2>2. exec[e].over \/ exec[e].hash = content => index'.made = content
    BY <1>1, <2>1 DEF Harmless, Fresh
  <2>3. Order' /\ TrueStamp'
    BY <1>1, <2>1, <2>2 DEF Harmless, Order, Heard, TrueStamp
  <2>4. SettledIndexed'
    <3>1. CASE exec[e].over
      BY <1>1, <2>2, <3>1 DEF SettledIndexed
    <3>2. CASE ~exec[e].over
      <4>1. Settled => exec[e].hash = job.hash
        BY <1>2, <3>2 DEF Inv, Runs, Latest, Settled
      <4>2. Len(commits) = 1 => index'.made = content
        <5> HAVE Len(commits) = 1
        <5>1. DOMAIN commits = 1..Len(commits)
          BY LenProperties DEF Inv, Holds
        <5>2. PICK i \in 1..Len(commits) : exec[e].made = commits[i]
          BY <1>2, <5>1 DEF Committed, Range
        <5>3. i = Len(commits) /\ content = commits[Len(commits)]
          BY <1>1, <1>4 DEF Inv, Holds
        <5> QED BY <1>1, <5>2, <5>3
      <4> QED BY <1>1, <2>2, <4>1, <4>2 DEF SettledIndexed, Settled
    <3> QED BY <3>1, <3>2 DEF Inv, TypeOK
  <2>5. \A f \in Slot : Fresh(f)'
    <3>1. \A f \in Slot \ {e} : Latest(f) => exec[e].over
      BY <1>2 DEF Inv, OneLatest, Latest, TypeOK
    <3> QED BY <1>1, <1>3, <2>1, <2>2, <3>1 DEF Harmless, Fresh
  <2> QED BY <2>3, <2>4, <2>5 DEF Harmless
<1> QED BY <1>5, <1>6, <1>7 DEF Inv

\* The row is settled for the execution that it was claimed for, or by a late one that
\* is not harm if the index is right.
LEMMA MarkKept ==
    ASSUME Inv, TypeOK', NEW e \in Slot, Mark(e)
    PROVE  Inv'
<1>1. /\ UNCHANGED <<content, commits, hooks, index>>
      /\ exec[e].pc \in {"mark", "skip"} /\ exec'[e] = Free
      /\ \A f \in Slot \ {e} : exec'[f] = exec[f]
      /\ job'.hash = job.hash
      /\ IF job.st = "running" THEN job'.st \in {"done", "skipped"} ELSE job'.st = job.st
      /\ harm' = harm \cup IF exec[e].over /\ job.st = "running" /\ index.made # content
                           THEN {"late"} ELSE {}
  BY DEF Mark, Inv, TypeOK
<1>2. /\ \A f \in Slot : Latest(f)' => Latest(f) /\ f # e
      /\ Free.pc = "free" /\ Free.hash = None
  BY <1>1, NullState DEF Latest, Busy
<1>3. Holds' /\ Hooks' /\ Stems' /\ OneLatest'
  BY <1>1, <1>2 DEF Inv, Holds, Hooks, Stems, OneLatest, Committed
<1>4. \A f \in Slot : Runs(f)'
  <2>1. Runs(e)'
    BY <1>1, <1>2 DEF Runs, Latest, Busy
  <2>2. \A f \in Slot \ {e} : Runs(f)'
    BY <1>1 DEF Inv, Runs, Latest, Busy, Committed
  <2> QED BY <2>1, <2>2
<1>5. ASSUME HarmFree'
      PROVE  Harmless'
  <2>1. Harmless /\ (exec[e].over /\ job.st = "running" => index.made = content)
    BY <1>1, <1>5 DEF Inv, HarmFree
  <2>2. Order' /\ TrueStamp' /\ \A f \in Slot : Fresh(f)'
    BY <1>1, <1>2, <2>1 DEF Harmless, Order, Heard, TrueStamp, Fresh
  <2>3. SettledIndexed'
    <3> SUFFICES ASSUME job.st = "running", ~exec[e].over, content \notin Unreadable,
                        job.hash = content \/ (job.hash = None /\ Len(commits) = 1)
                 PROVE  index.made = content
      BY <1>1, <2>1 DEF Harmless, SettledIndexed, Settled, Inv, TypeOK
    <3>1. Latest(e) /\ exec[e].hash = job.hash
      BY <1>1 DEF Inv, Runs, Latest, Busy
    <3>2. CASE job.hash = content
      BY <1>1, <2>1, <3>1, <3>2 DEF Harmless, Fresh
    <3>3. CASE job.hash = None /\ Len(commits) = 1
      <4>1. \A x \in Committed : x = content
        BY <3>3, LenProperties, EmptySeq DEF Inv, Holds, Committed, Range
      <4> QED BY <1>1, <3>1, <3>3, <4>1 DEF Inv, Runs, Stems
    <3> QED BY <3>2, <3>3
  <2> QED BY <2>2, <2>3 DEF Harmless
<1> QED BY <1>3, <1>4, <1>5 DEF Inv

-----------------------------------------------------------------------------
\* At first nothing has been committed.
LEMMA InvInitially == Init => Inv
<1> SUFFICES ASSUME Init PROVE Inv
  OBVIOUS
<1>1. /\ content = None /\ commits = <<>> /\ hooks = {} /\ job = NoJob /\ index = NoIndex
      /\ draining = {} /\ exec = [e \in Slot |-> Free] /\ harm = {}
  BY DEF Init
<1>2. Range(commits) = {} /\ Len(commits) = 0 /\ commits \in Seq(Content)
  BY <1>1, EmptySeq, LenProperties DEF Range
<1>3. TypeOK
  BY <1>1, <1>2 DEF TypeOK, NoJob, NoIndex, Free, Hash
<1>4. Heard = {}
  BY <1>2 DEF Heard
<1> QED BY <1>1, <1>2, <1>3, <1>4, NullState
        DEF Inv, Holds, Hooks, Stems, OneLatest, Runs, Latest, Busy, Committed, Harmless, Order,
            TrueStamp, SettledIndexed, Settled, Fresh, NoJob, NoIndex

\* Every step keeps the invariant.
LEMMA InvStep ==
    ASSUME Inv, [Next]_vars
    PROVE  Inv'
<1>0. TypeOK'
  BY Typed DEF Inv, Holds
<1>1. ASSUME NEW c \in Content, NEW h \in {c, None}, Commit(c, h)
      PROVE  Inv'
  BY <1>0, <1>1, CommitKept
<1>2. ASSUME NEW h \in hooks, Enqueue(h) \/ HookLost(h)
      PROVE  Inv'
  BY <1>0, <1>2, EnqueueKept, HookLostKept
<1>3. CASE SeedEnqueue
  BY <1>0, <1>3, SeedKept
<1>4. ASSUME NEW p \in Proc, StartPass(p) \/ EndPass(p)
      PROVE  Inv'
  BY <1>0, <1>4, FailingKept DEF StartPass, EndPass, Failed, Inv, TypeOK
<1>5. ASSUME NEW p \in Proc, NEW e \in Slot, ClaimNext(p, e)
      PROVE  Inv'
  BY <1>0, <1>5, ClaimKept
<1>6. ASSUME NEW p \in Proc, Crash(p)
      PROVE  Inv'
  <2>1. \A e \in Slot : exec'[e] = Free \/ exec'[e] = exec[e]
    BY <1>6 DEF Crash
  <2> QED BY <1>0, <1>6, <2>1, FailingKept DEF Crash
<1>7. ASSUME NEW e \in Slot, Proceeds(e)
      PROVE  Inv'
  BY <1>0, <1>7, CheckKept, PersistKept, MarkKept DEF Proceeds
<1>8. ASSUME NEW e \in Slot, Throws(e)
      PROVE  Inv'
  <2>1. \A f \in Slot : exec'[f] = Free \/ exec'[f] = exec[f]
    BY <1>8 DEF Throws, Inv, TypeOK
  <2>2. job'.hash = job.hash /\ (job'.st = job.st \/ (job.st = "running" /\ job'.st = "failed"))
    BY <1>8 DEF Throws, Failed, Inv, TypeOK
  <2> QED BY <1>0, <1>8, <2>1, <2>2, FailingKept DEF Throws
<1>9. ASSUME NEW e \in Slot, TimesOut(e)
      PROVE  Inv'
  <2>1. \A f \in Slot :
           /\ exec'[f].pc = exec[f].pc /\ exec'[f].hash = exec[f].hash
           /\ exec'[f].made = exec[f].made /\ exec'[f].over = exec[f].over
           /\ exec[f] = Free => exec'[f] = Free
    <3>1. exec[e].awaited /\ exec' = [exec EXCEPT ![e].awaited = FALSE]
      BY <1>9 DEF TimesOut
    <3>2. exec[e] # Free
      BY <3>1 DEF Free
    <3> QED BY <3>1, <3>2 DEF Inv, TypeOK
  <2>2. job'.hash = job.hash /\ (job'.st = job.st \/ (job.st = "running" /\ job'.st = "failed"))
    BY <1>9 DEF TimesOut, Failed, Inv, TypeOK
  <2> QED BY <1>0, <1>9, <2>1, <2>2, FailingKept DEF TimesOut
<1>10. CASE FallsDue \/ UNCHANGED vars
  <2>1. /\ UNCHANGED <<content, commits, hooks, index, exec, harm>>
        /\ job'.hash = job.hash /\ job'.st = job.st
    BY <1>10 DEF FallsDue, vars, Inv, TypeOK
  <2> QED BY <1>0, <2>1, FailingKept
<1> QED BY <1>1, <1>2, <1>3, <1>4, <1>5, <1>6, <1>7, <1>8, <1>9, <1>10 DEF Next, Works

\* The invariant holds in every reachable state.
THEOREM InvAlways == Spec => []Inv
<1>1. Init => Inv
  BY InvInitially
<1>2. Inv /\ [Next]_vars => Inv'
  BY InvStep
<1> QED BY <1>1, <1>2, PTL DEF Spec

\* aiJobsRepository: the row, the pooled row and the executions keep their types.
THEOREM JobsTyped == Spec => []TypeOK
<1>1. Inv => TypeOK
  BY DEF Inv
<1> QED BY <1>1, InvAlways, PTL

\* jobService, embedPipeline: when a job is done and no hook is on its way, the vectors
\* were made from what the file holds, through time-outs, failures, late executions and
\* crashes, but for the harm that the property names.
THEOREM DoneJobsIndexed == Spec => []DoneIsIndexed
<1>1. Inv => DoneIsIndexed
  <2> SUFFICES ASSUME Inv, Settled, hooks = {}, content \notin Unreadable, HarmFree
               PROVE  index.made = content
    BY DEF DoneIsIndexed, HarmFree
  <2>1. Harmless
    BY DEF Inv
  <2>2. /\ commits \in Seq(Content) /\ commits # <<>> /\ content = commits[Len(commits)]
        /\ Len(commits) \in Nat \ {0}
    BY LenProperties, EmptySeq DEF Inv, Holds, Settled
  <2>3. Heard = 1..Len(commits)
    BY DEF Heard
  <2>4. job.hash = content \/ (job.hash = None /\ Len(commits) = 1)
    <3>1. CASE job.hash = None
      <4>1. 1 \in Heard /\ Len(commits) \in Heard
        BY <2>2, <2>3
      <4> QED BY <2>1, <3>1, <4>1 DEF Harmless, Order
    <3>2. CASE job.hash # None
      <4>1. PICK n \in Heard : job.hash = commits[n] /\ \A m \in Heard : m <= n
        BY <2>1, <3>2 DEF Harmless, Order
      <4>2. n = Len(commits)
        BY <2>2, <2>3, <4>1
      <4> QED BY <2>2, <4>1, <4>2
    <3> QED BY <3>1, <3>2
  <2> QED BY <2>1, <2>4 DEF Harmless, SettledIndexed
<1> QED BY <1>1, InvAlways, PTL
=============================================================================
