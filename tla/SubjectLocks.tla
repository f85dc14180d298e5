---------------------------- MODULE SubjectLocks ----------------------------
(***************************************************************************)
(* The lock rows that serialise work on a subject (lockManager), and how   *)
(* the journal (commitChange, undoAction), deleteCollectionPermanent and   *)
(* mergeCollections use them: one lock around one transaction, or, for a   *)
(* merge, the loser's lock and then the survivor's.                        *)
(*                                                                         *)
(* The requests are of any number of server processes, which share nothing *)
(* but the table of locks.  A step is an attempt at a lock (on PostgreSQL  *)
(* the DELETE of an expired row and the INSERT, on sqlite one              *)
(* transaction), the end of the work, the DELETE of a release, a tick of   *)
(* the clock, or a death.                                                  *)
(***************************************************************************)
EXTENDS Naturals

CONSTANTS Subject,    \* what a lock is named after
          Req,        \* requests that can be in progress at once
          Ttl,        \* ttlMs, in ticks
          Wait,       \* waitMs, in ticks
          Dialect,    \* the backend: "postgresql" or "sqlite"
          None, Orphan

ASSUME TimesAssumption == Ttl \in Nat \ {0} /\ Wait \in Nat
ASSUME DialectAssumption == Dialect \in {"postgresql", "sqlite"}
ASSUME LockMarksAssumption ==
    /\ None \notin Req \cup Subject /\ Orphan \notin Req /\ Orphan # None

VARIABLES lock,     \* the row of each subject: whose token, and time left
          req       \* each request: how far it is, and with which subjects

\* History variable: requests that saw another take the lock they wait for.
VARIABLE overtaken

vars == <<lock, req, overtaken>>

NoRow == [by |-> None, left |-> 0]
Idle == [pc |-> "idle", subject |-> None, loser |-> None, left |-> 0]

Init ==
    /\ lock = [s \in Subject |-> NoRow]
    /\ req = [p \in Req |-> Idle]
    /\ overtaken = {}

\* Every user of the locks works on one subject; a merge takes the lock of the
\* loser first.
Ask(p, s, l) ==
    /\ req[p].pc = "idle" /\ s # l
    /\ req' = [req EXCEPT ![p] = [pc |-> IF l = None THEN "wants" ELSE "wantsLoser",
                                 subject |-> s, loser |-> l, left |-> Wait]]
    /\ UNCHANGED <<lock, overtaken>>

Waiting(p) == req[p].pc \in {"wantsLoser", "wants"}

\* The lock p waits for.
Wants(p) == IF req[p].pc = "wantsLoser" THEN req[p].loser ELSE req[p].subject

\* Mutant: on PostgreSQL too.
NeverExpired(s) == FALSE

\* The DELETE before an INSERT takes away a row that has expired.  sqlite
\* compares an ISO string with CURRENT_TIMESTAMP as text: the T of the one is
\* greater than the blank of the other, and a row of the day never expires.
Expired(s) == Dialect = "postgresql" /\ lock[s].left = 0

Takeable(s) == lock[s].by = None \/ Expired(s)

\* Mutant: the time of expiry counts from the deadline of the request.
RowFromDeadline(p) == [by |-> p, left |-> req[p].left + Ttl]

\* The row a request writes, expiring Ttl from now.
RowOf(p) == [by |-> p, left |-> Ttl]

Acquire(p) ==
    LET s == Wants(p)
    IN  /\ Waiting(p) /\ Takeable(s)
        /\ lock' = [lock EXCEPT ![s] = RowOf(p)]
        /\ req' = [req EXCEPT ![p] = IF @.pc = "wantsLoser"
                                     THEN [@ EXCEPT !.pc = "wants", !.left = Wait]
                                     ELSE [@ EXCEPT !.pc = "inside", !.left = 0]]
        /\ overtaken' = (overtaken \ {p}) \cup {q \in Req \ {p} : Waiting(q) /\ Wants(q) = s}

\* Mutant: every attempt has a deadline of its own.
DeadlineRestarts(p) ==
    /\ Waiting(p) /\ req[p].left = 0 /\ ~Takeable(Wants(p))
    /\ req' = [req EXCEPT ![p].left = Wait]
    /\ UNCHANGED <<lock, overtaken>>

\* The deadline is looked at after an attempt that failed; a merge that has the
\* lock of its loser gives it back.
TimesOut(p) ==
    /\ Waiting(p) /\ req[p].left = 0 /\ ~Takeable(Wants(p))
    /\ req' = [req EXCEPT ![p] = IF @.pc = "wants" /\ @.loser # None
                                 THEN [@ EXCEPT !.pc = "leavesLoser"] ELSE Idle]
    /\ overtaken' = overtaken \ {p}
    /\ UNCHANGED lock

\* The transaction commits or is rolled back.
Ends(p) ==
    /\ req[p].pc = "inside"
    /\ req' = [req EXCEPT ![p].pc = "leaves"]
    /\ UNCHANGED <<lock, overtaken>>

\* Mutant: the token is not asked for.
WhoeverHolds(s, p) == [lock EXCEPT ![s] = NoRow]

\* DELETE by key and token: another request's row stays.
Without(s, p) == IF lock[s].by = p THEN [lock EXCEPT ![s] = NoRow] ELSE lock

\* The finally blocks: the subject's lock, then the loser's.
Release(p) ==
    /\ req[p].pc = "leaves"
    /\ lock' = Without(req[p].subject, p)
    /\ req' = [req EXCEPT ![p] = IF @.loser # None THEN [@ EXCEPT !.pc = "leavesLoser"] ELSE Idle]
    /\ UNCHANGED overtaken

ReleaseLoser(p) ==
    /\ req[p].pc = "leavesLoser"
    /\ lock' = Without(req[p].loser, p)
    /\ req' = [req EXCEPT ![p] = Idle]
    /\ UNCHANGED overtaken

\* The process of a request dies: its transaction is rolled back, its rows stay
\* with a token nobody has.
Dies(p) ==
    /\ req[p].pc # "idle"
    /\ req' = [req EXCEPT ![p] = Idle]
    /\ lock' = [s \in Subject |->
                   IF lock[s].by = p THEN [lock[s] EXCEPT !.by = Orphan] ELSE lock[s]]
    /\ overtaken' = overtaken \ {p}

Less(n) == IF n = 0 THEN 0 ELSE n - 1

\* Two assumptions about speed: a transaction ends before the row of its subject
\* expires, and a request at its deadline makes its last attempt within the tick.
Tick ==
    /\ \A p \in Req : req[p].pc = "inside" => lock[req[p].subject].left > 1
    /\ \A p \in Req : Waiting(p) => req[p].left > 0
    /\ lock' = [s \in Subject |-> [lock[s] EXCEPT !.left = Less(@)]]
    /\ req' = [p \in Req |-> [req[p] EXCEPT !.left = Less(@)]]
    /\ UNCHANGED overtaken

Moves(p) == Acquire(p) \/ TimesOut(p) \/ Ends(p) \/ Release(p) \/ ReleaseLoser(p)

Next ==
    \/ \E p \in Req :
          \/ Moves(p) \/ Dies(p)
          \/ \E s \in Subject, l \in Subject \cup {None} : Ask(p, s, l)
    \/ Tick

Spec == Init /\ [][Next]_vars

\* Timers fire, statements answer; nobody has to ask, and nobody has to die.
Fairness == WF_vars(Tick) /\ \A p \in Req : WF_vars(Moves(p))

FairSpec == Spec /\ Fairness

-----------------------------------------------------------------------------
ReqState == [pc : {"idle", "wantsLoser", "wants", "inside", "leaves", "leavesLoser"},
             subject : Subject \cup {None}, loser : Subject \cup {None}, left : 0..Wait]

TypeOK ==
    /\ lock \in [Subject -> [by : Req \cup {None, Orphan}, left : 0..Ttl]]
    /\ req \in [Req -> ReqState]
    /\ \A p \in Req : /\ req[p].pc # "idle" => req[p].subject \in Subject
                      /\ req[p].pc \in {"wantsLoser", "leavesLoser"} => req[p].loser \in Subject
    /\ overtaken \in SUBSET Req

\* The locks are a mutual exclusion per subject.
Mutex == INSTANCE SubjectMutex WITH
    worksOn <- [p \in Req |-> IF req[p].pc = "inside" THEN req[p].subject ELSE None]

MutualExclusion == Mutex!Spec

\* A request gives up only when another took the lock while it waited.
OnlyOvertakenGiveUp == [][\A p \in Req : TimesOut(p) => p \in overtaken]_vars

\* Every request ends.
RequestsEnd == \A p \in Req : (req[p].pc # "idle") ~> (req[p].pc = "idle")
=============================================================================
