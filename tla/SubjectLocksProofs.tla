------------------------- MODULE SubjectLocksProofs -------------------------
(***************************************************************************)
(* Type correctness of SubjectLocks, and that its rows, tokens and clocks  *)
(* implement SubjectMutex: for every set of subjects and of requests, all  *)
(* times and both backends, one request at a time works on a subject.      *)
(***************************************************************************)
EXTENDS SubjectLocks, TLAPS

\* Whoever works on a subject has its row, and the row has time left: it is not
\* the expiry that keeps others out, it is that a row still running is not taken
\* away.  The exclusion is not inductive without it.
RowHeld ==
    \A p \in Req : req[p].pc = "inside" =>
        /\ lock[req[p].subject].by = p
        /\ lock[req[p].subject].left > 0

IInv == TypeOK /\ RowHeld

-----------------------------------------------------------------------------
\* No row, no request: the invariant holds at the start.
LEMMA Initially == Init => IInv
    BY TimesAssumption DEF Init, Idle, NoRow, IInv, TypeOK, ReqState, RowHeld

\* The lock a request waits for is that of a subject.
LEMMA WantsSubject == ASSUME TypeOK, NEW p \in Req, Waiting(p) PROVE Wants(p) \in Subject
    BY DEF TypeOK, ReqState, Waiting, Wants

\* Every step keeps the types.
LEMMA TypesKept == ASSUME TypeOK, [Next]_vars PROVE TypeOK'
<1> USE TimesAssumption
<1>1. ASSUME NEW p \in Req, NEW s \in Subject, NEW l \in Subject \cup {None}, Ask(p, s, l)
      PROVE  TypeOK'
    BY <1>1 DEF Ask, TypeOK, ReqState
<1>2. ASSUME NEW p \in Req, Acquire(p) PROVE TypeOK'
  <2>1. lock' \in [Subject -> [by : Req \cup {None, Orphan}, left : 0..Ttl]]
    <3>1. lock' = [lock EXCEPT ![Wants(p)] = [by |-> p, left |-> Ttl]]
        BY <1>2 DEF Acquire, RowOf
    <3>2. Wants(p) \in Subject
        BY <1>2, WantsSubject DEF Acquire, RowOf
    <3> QED BY <3>1, <3>2 DEF TypeOK, ReqState
  <2>2. overtaken' \in SUBSET Req
    <3> DEFINE W == {q \in Req \ {p} : Waiting(q) /\ Wants(q) = Wants(p)}
    <3>1. overtaken' = (overtaken \ {p}) \cup W
        BY <1>2 DEF Acquire, RowOf
    <3>2. W \subseteq Req
        OBVIOUS
    <3> HIDE DEF W
    <3> QED BY <3>1, <3>2 DEF TypeOK, ReqState
  <2>3. CASE req[p].pc = "wantsLoser"
    <3> DEFINE r == [req[p] EXCEPT !.pc = "wants", !.left = Wait]
    <3>1. req' = [req EXCEPT ![p] = r]
        BY <1>2, <2>3 DEF Acquire, RowOf
    <3>2. r \in ReqState /\ r.pc = "wants" /\ r.subject \in Subject
      <4>1. req[p] \in ReqState /\ req[p].subject \in Subject
          BY <2>3 DEF TypeOK
      <4>2. Wait \in 0..Wait
          OBVIOUS
      <4>3. r.pc = "wants" /\ r.subject = req[p].subject /\ r \in ReqState
          BY <4>1, <4>2 DEF ReqState
      <4> QED BY <4>1, <4>3 
    <3> HIDE DEF r
    <3>3. req' \in [Req -> ReqState]
        BY <3>1, <3>2 DEF TypeOK
    <3>4. \A q \in Req : /\ req'[q].pc # "idle" => req'[q].subject \in Subject
                         /\ req'[q].pc \in {"wantsLoser", "leavesLoser"} => req'[q].loser \in Subject
        BY <3>1, <3>2 DEF TypeOK
    <3> QED BY <2>1, <2>2, <3>3, <3>4 DEF TypeOK
  <2>4. CASE req[p].pc = "wants"
    <3> DEFINE r == [req[p] EXCEPT !.pc = "inside", !.left = 0]
    <3>1. req' = [req EXCEPT ![p] = r]
        BY <1>2, <2>4 DEF Acquire, RowOf
    <3>2. r \in ReqState /\ r.pc = "inside" /\ r.subject \in Subject
      <4>1. req[p] \in ReqState /\ req[p].subject \in Subject
          BY <2>4 DEF TypeOK
      <4>2. 0 \in 0..Wait
          OBVIOUS
      <4>3. r.pc = "inside" /\ r.subject = req[p].subject /\ r \in ReqState
          BY <4>1, <4>2 DEF ReqState
      <4> QED BY <4>1, <4>3 
    <3> HIDE DEF r
    <3>3. req' \in [Req -> ReqState]
        BY <3>1, <3>2 DEF TypeOK
    <3>4. \A q \in Req : /\ req'[q].pc # "idle" => req'[q].subject \in Subject
                         /\ req'[q].pc \in {"wantsLoser", "leavesLoser"} => req'[q].loser \in Subject
        BY <3>1, <3>2 DEF TypeOK
    <3> QED BY <2>1, <2>2, <3>3, <3>4 DEF TypeOK
  <2> QED BY <1>2, <2>3, <2>4 DEF Acquire, RowOf, Waiting
<1>3. ASSUME NEW p \in Req, TimesOut(p) PROVE TypeOK'
    BY <1>3 DEF TimesOut, TypeOK, ReqState, Idle
<1>4. ASSUME NEW p \in Req, Ends(p) PROVE TypeOK'
    BY <1>4 DEF Ends, TypeOK, ReqState
<1>5. ASSUME NEW p \in Req, Release(p) PROVE TypeOK'
    BY <1>5 DEF Release, Without, NoRow, TypeOK, ReqState, Idle
<1>6. ASSUME NEW p \in Req, ReleaseLoser(p) PROVE TypeOK'
    BY <1>6 DEF ReleaseLoser, Without, NoRow, TypeOK, ReqState, Idle
<1>7. ASSUME NEW p \in Req, Dies(p) PROVE TypeOK'
    BY <1>7 DEF Dies, TypeOK, ReqState, Idle
<1>8. ASSUME Tick PROVE TypeOK'
  <2>1. /\ lock' = [s \in Subject |-> [lock[s] EXCEPT !.left = Less(@)]]
        /\ req' = [p \in Req |-> [req[p] EXCEPT !.left = Less(@)]]
        /\ overtaken' = overtaken
      BY <1>8 DEF Tick
  <2>2. /\ \A n \in 0..Ttl : Less(n) \in 0..Ttl
        /\ \A n \in 0..Wait : Less(n) \in 0..Wait
      BY DEF Less
  <2>3. lock' \in [Subject -> [by : Req \cup {None, Orphan}, left : 0..Ttl]]
      BY <2>1, <2>2 DEF TypeOK
  <2>4. req' \in [Req -> ReqState]
      BY <2>1, <2>2 DEF TypeOK, ReqState
  <2>5. \A p \in Req : /\ req'[p].pc = req[p].pc
                       /\ req'[p].subject = req[p].subject /\ req'[p].loser = req[p].loser
      BY <2>1 DEF TypeOK, ReqState
  <2> QED BY <2>1, <2>3, <2>4, <2>5 DEF TypeOK
<1>9. ASSUME UNCHANGED vars PROVE TypeOK'
    BY <1>9 DEF vars, TypeOK, ReqState
<1> QED BY <1>1, <1>2, <1>3, <1>4, <1>5, <1>6, <1>7, <1>8, <1>9 DEF Next, Moves

\* The row a request works under is touched by no other request, and by the
\* clock only while that leaves time.
LEMMA RowsKept == ASSUME IInv, [Next]_vars PROVE RowHeld'
<1> USE TimesAssumption, LockMarksAssumption DEF IInv
<1> DEFINE Held(q) == lock[req[q].subject].by = q /\ lock[req[q].subject].left > 0
<1> SUFFICES ASSUME NEW q \in Req, (req[q].pc = "inside")' PROVE Held(q)'
    BY DEF RowHeld
<1>1. ASSUME NEW p \in Req, NEW s \in Subject, NEW l \in Subject \cup {None}, Ask(p, s, l)
      PROVE  Held(q)'
    BY <1>1 DEF Ask, TypeOK, ReqState, RowHeld
<1>2. ASSUME NEW p \in Req, Acquire(p) PROVE Held(q)'
  <2>1. CASE q = p
      BY <1>2, <2>1, WantsSubject DEF Acquire, RowOf, TypeOK, ReqState, Wants
  <2>2. CASE q # p
    <3>1. req'[q] = req[q] /\ req[q].subject \in Subject /\ Held(q)
        BY <1>2, <2>2 DEF Acquire, RowOf, TypeOK, ReqState, RowHeld
    <3>2. req[q].subject # Wants(p)
        BY <1>2, <3>1 DEF Acquire, RowOf, Takeable, Expired
    <3> QED BY <1>2, <3>1, <3>2 DEF Acquire, RowOf, TypeOK, ReqState
  <2> QED BY <2>1, <2>2
<1>3. ASSUME NEW p \in Req, TimesOut(p) \/ Ends(p) PROVE Held(q)'
    BY <1>3 DEF TimesOut, Ends, TypeOK, ReqState, RowHeld, Idle
<1>4. ASSUME NEW p \in Req, Release(p) \/ ReleaseLoser(p) PROVE Held(q)'
  <2>1. q # p /\ req'[q] = req[q] /\ req[q].subject \in Subject /\ Held(q)
      BY <1>4 DEF Release, ReleaseLoser, TypeOK, ReqState, Idle, RowHeld
  <2>2. lock'[req[q].subject] = lock[req[q].subject]
      BY <1>4, <2>1 DEF Release, ReleaseLoser, Without, TypeOK, ReqState
  <2> QED BY <2>1, <2>2
<1>5. ASSUME NEW p \in Req, Dies(p) PROVE Held(q)'
  <2>1. q # p /\ req'[q] = req[q] /\ req[q].subject \in Subject /\ Held(q)
      BY <1>5 DEF Dies, TypeOK, ReqState, Idle, RowHeld
  <2> QED BY <1>5, <2>1 DEF Dies, TypeOK, ReqState
<1>6. ASSUME Tick PROVE Held(q)'
  <2>1. /\ req[q].pc = "inside" /\ req'[q].subject = req[q].subject
        /\ req[q].subject \in Subject /\ Held(q) /\ lock[req[q].subject].left > 1
      BY <1>6 DEF Tick, TypeOK, ReqState, RowHeld
  <2> QED BY <1>6, <2>1 DEF Tick, Less, TypeOK, ReqState
<1>7. ASSUME UNCHANGED vars PROVE Held(q)'
    BY <1>7 DEF vars, RowHeld
<1> QED BY <1>1, <1>2, <1>3, <1>4, <1>5, <1>6, <1>7 DEF Next, Moves

\* The invariant holds in every reachable state.
LEMMA Invariant == Spec => []IInv
<1>1. IInv /\ [Next]_vars => IInv'
    BY TypesKept, RowsKept DEF IInv
<1> QED BY Initially, <1>1, PTL DEF Spec

\* Type correctness of the lock rows and of the requests that use them.
THEOREM LocksTypeCorrect == Spec => []TypeOK
<1>1. IInv => TypeOK
    BY DEF IInv
<1> QED BY Invariant, <1>1, PTL

-----------------------------------------------------------------------------
(* The refinement.                                                         *)

\* The abstract state: the subject each request works on.
WorksOn == [p \in Req |-> IF req[p].pc = "inside" THEN req[p].subject ELSE None]

\* A request that enters, and nobody else moving, is an abstract Enter.
LEMMA Enters ==
    ASSUME IInv, NEW p \in Req, Acquire(p), req[p].pc = "wants"
    PROVE  Mutex!Enter(p, req[p].subject)
<1> USE LockMarksAssumption DEF IInv
<1> DEFINE s == req[p].subject
<1>1. s \in Subject /\ s = Wants(p) /\ Takeable(s)
    BY DEF Acquire, RowOf, TypeOK, ReqState, Wants
<1>2. WorksOn[p] = None
    BY DEF WorksOn
<1>3. \A q \in Req : WorksOn[q] # s
  <2> SUFFICES ASSUME NEW q \in Req, WorksOn[q] = s PROVE FALSE
      OBVIOUS
  <2>1. req[q].pc = "inside" /\ req[q].subject = s
      BY <1>1 DEF WorksOn
  <2> QED BY <1>1, <2>1 DEF RowHeld, Takeable, Expired
<1>4. WorksOn' = [WorksOn EXCEPT ![p] = s]
    BY DEF WorksOn, Acquire, RowOf, TypeOK, ReqState
<1> QED BY <1>2, <1>3, <1>4 DEF Mutex!Enter, WorksOn

\* One request at a time works on a subject: the rows, tokens and clocks of
\* lockManager implement the mutual exclusion its callers rely on.
THEOREM LocksExclude == Spec => MutualExclusion
<1>1. Init => Mutex!Init
    BY DEF Init, Idle, Mutex!Init
<1>2. IInv /\ [Next]_vars => [Mutex!Next]_WorksOn
  <2> SUFFICES ASSUME IInv, [Next]_vars PROVE Mutex!Next \/ WorksOn' = WorksOn
      OBVIOUS
  <2> USE LockMarksAssumption DEF IInv
  <2>1. ASSUME NEW p \in Req, NEW s \in Subject, NEW l \in Subject \cup {None}, Ask(p, s, l)
        PROVE  WorksOn' = WorksOn
      BY <2>1 DEF Ask, TypeOK, ReqState, WorksOn
  <2>2. ASSUME NEW p \in Req, Acquire(p) PROVE Mutex!Next \/ WorksOn' = WorksOn
    <3>1. CASE req[p].pc = "wants"
      <4>1. req[p].subject \in Subject
          BY <3>1 DEF TypeOK, ReqState
      <4>2. Mutex!Enter(p, req[p].subject)
          BY <2>2, <3>1, Enters
      <4> QED BY <4>1, <4>2 DEF Mutex!Next, Mutex!Enter
    <3>2. CASE req[p].pc = "wantsLoser"
        BY <2>2, <3>2 DEF Acquire, RowOf, TypeOK, ReqState, WorksOn
    <3> QED BY <2>2, <3>1, <3>2 DEF Acquire, RowOf, Waiting
  <2>3. ASSUME NEW p \in Req, TimesOut(p) PROVE WorksOn' = WorksOn
      BY <2>3 DEF TimesOut, Waiting, Idle, TypeOK, ReqState, WorksOn
  <2>4. ASSUME NEW p \in Req, Ends(p) PROVE Mutex!Leave(p)
      BY <2>4 DEF Ends, TypeOK, ReqState, Mutex!Leave
  <2>5. ASSUME NEW p \in Req, Release(p) \/ ReleaseLoser(p) PROVE WorksOn' = WorksOn
      BY <2>5 DEF Release, ReleaseLoser, Idle, TypeOK, ReqState, WorksOn
  <2>6. ASSUME NEW p \in Req, Dies(p) PROVE Mutex!Leave(p) \/ WorksOn' = WorksOn
    <3>1. CASE req[p].pc = "inside"
        BY <2>6, <3>1 DEF Dies, Idle, TypeOK, ReqState, Mutex!Leave
    <3>2. CASE req[p].pc # "inside"
        BY <2>6, <3>2 DEF Dies, Idle, TypeOK, ReqState, WorksOn
    <3> QED BY <3>1, <3>2
  <2>7. ASSUME Tick PROVE WorksOn' = WorksOn
      BY <2>7 DEF Tick, TypeOK, ReqState, WorksOn
  <2>8. ASSUME UNCHANGED vars PROVE WorksOn' = WorksOn
      BY <2>8 DEF vars, WorksOn
  <2> QED BY <2>1, <2>2, <2>3, <2>4, <2>5, <2>6, <2>7, <2>8 DEF Next, Moves, Mutex!Next
<1> QED BY Invariant, <1>1, <1>2, PTL DEF Spec, MutualExclusion, Mutex!Spec, WorksOn

-----------------------------------------------------------------------------
(* Giving up.                                                              *)

\* The row that keeps a request waiting runs out no later than its patience, unless
\* another request has taken the lock meanwhile.
RunsOut(p) ==
    Waiting(p) /\ p \notin overtaken =>
        lock[Wants(p)].by = None \/ lock[Wants(p)].left <= req[p].left

Patience == \A p \in Req : RunsOut(p)

\* Row and patience run out by the same clock; a new row makes whoever waits for it
\* overtaken; a new wait is as long as any row lasts.
LEMMA PatienceKept ==
    ASSUME Ttl <= Wait, IInv, Patience, [Next]_vars
    PROVE  Patience'
<1> USE TimesAssumption, LockMarksAssumption DEF IInv
<1> SUFFICES ASSUME NEW q \in Req PROVE RunsOut(q)'
    BY DEF Patience
<1>0. RunsOut(q) /\ (Waiting(q) => Wants(q) \in Subject)
    BY WantsSubject DEF Patience
<1>1. ASSUME NEW p \in Req, NEW s \in Subject, NEW l \in Subject \cup {None}, Ask(p, s, l)
      PROVE  RunsOut(q)'
  <2>1. CASE q = p
    <3>1. /\ lock' = lock /\ req'[q].left = Wait
          /\ Wants(q)' \in Subject
        BY <1>1, <2>1 DEF Ask, Wants, TypeOK, ReqState
    <3> QED BY <3>1 DEF RunsOut, TypeOK
  <2>2. CASE q # p
      BY <1>0, <1>1, <2>2 DEF Ask, RunsOut, Waiting, Wants, TypeOK
  <2> QED BY <2>1, <2>2
<1>2. ASSUME NEW p \in Req, Acquire(p) PROVE RunsOut(q)'
  <2>1. CASE q = p
    <3>1. CASE req[p].pc = "wantsLoser"
      <4>1. req'[q].left = Wait /\ Wants(q)' \in Subject
          BY <1>2, <2>1, <3>1 DEF Acquire, RowOf, Wants, TypeOK, ReqState
      <4>2. lock'[Wants(q)'].left <= Ttl
          BY <1>2, <4>1, TypesKept DEF Acquire, RowOf, Wants, Waiting, TypeOK, ReqState
      <4>3. lock'[Wants(q)'].left \in 0..Ttl
          BY <4>1, TypesKept DEF TypeOK
      <4> QED BY <4>1, <4>2, <4>3 DEF RunsOut
    <3>2. CASE req[p].pc = "wants"
        BY <1>2, <2>1, <3>2 DEF Acquire, RowOf, RunsOut, Waiting, TypeOK, ReqState
    <3> QED BY <1>2, <3>1, <3>2 DEF Acquire, RowOf, Waiting
  <2>2. CASE q # p
    <3>1. req'[q] = req[q] /\ (Waiting(q)' <=> Waiting(q)) /\ Wants(q)' = Wants(q)
        BY <1>2, <2>2 DEF Acquire, RowOf, Waiting, Wants, TypeOK
    <3>2. CASE Waiting(q) /\ Wants(q) = Wants(p)
      <4>1. q \in overtaken'
          BY <1>2, <2>2, <3>2 DEF Acquire, RowOf
      <4> QED BY <4>1 DEF RunsOut
    <3>3. CASE Waiting(q) /\ Wants(q) # Wants(p)
      <4>1. lock'[Wants(q)] = lock[Wants(q)] /\ (q \in overtaken => q \in overtaken')
          BY <1>0, <1>2, <2>2, <3>3 DEF Acquire, RowOf, TypeOK
      <4> QED BY <1>0, <3>1, <4>1 DEF RunsOut
    <3> QED BY <3>1, <3>2, <3>3 DEF RunsOut
  <2> QED BY <2>1, <2>2
<1>3. ASSUME NEW p \in Req, TimesOut(p) \/ Ends(p) PROVE RunsOut(q)'
  <2>1. CASE q = p
      BY <1>3, <2>1 DEF TimesOut, Ends, RunsOut, Waiting, Idle, TypeOK, ReqState
  <2>2. CASE q # p
      BY <1>0, <1>3, <2>2 DEF TimesOut, Ends, RunsOut, Waiting, Wants, TypeOK
  <2> QED BY <2>1, <2>2
<1>4. ASSUME NEW p \in Req, Release(p) \/ ReleaseLoser(p) PROVE RunsOut(q)'
  <2>1. CASE q = p
      BY <1>4, <2>1 DEF Release, ReleaseLoser, RunsOut, Waiting, Idle, TypeOK, ReqState
  <2>2. CASE q # p
    <3>1. req'[q] = req[q] /\ (Waiting(q)' <=> Waiting(q)) /\ Wants(q)' = Wants(q)
          /\ overtaken' = overtaken
        BY <1>4, <2>2 DEF Release, ReleaseLoser, Waiting, Wants, TypeOK
    <3>2. \A s \in Subject : lock'[s] = lock[s] \/ lock'[s].by = None
        BY <1>4 DEF Release, ReleaseLoser, Without, NoRow, TypeOK
    <3> QED BY <1>0, <3>1, <3>2 DEF RunsOut
  <2> QED BY <2>1, <2>2
<1>5. ASSUME NEW p \in Req, Dies(p) PROVE RunsOut(q)'
  <2>1. CASE q = p
      BY <1>5, <2>1 DEF Dies, RunsOut, Waiting, Idle, TypeOK
  <2>2. CASE q # p
    <3>1. req'[q] = req[q] /\ (Waiting(q)' <=> Waiting(q)) /\ Wants(q)' = Wants(q)
          /\ (q \in overtaken' <=> q \in overtaken)
        BY <1>5, <2>2 DEF Dies, Waiting, Wants, TypeOK
    <3>2. \A s \in Subject : /\ lock'[s].left = lock[s].left
                             /\ lock[s].by = None => lock'[s].by = None
        BY <1>5 DEF Dies, TypeOK
    <3> QED BY <1>0, <3>1, <3>2 DEF RunsOut
  <2> QED BY <2>1, <2>2
<1>6. ASSUME Tick PROVE RunsOut(q)'
  <2>1. /\ (Waiting(q)' <=> Waiting(q)) /\ Wants(q)' = Wants(q) /\ overtaken' = overtaken
        /\ req'[q].left = Less(req[q].left)
        /\ \A s \in Subject : lock'[s].by = lock[s].by /\ lock'[s].left = Less(lock[s].left)
      BY <1>6 DEF Tick, Waiting, Wants, TypeOK, ReqState
  <2>2. \A m, n \in Nat : m <= n => Less(m) <= Less(n)
      BY DEF Less
  <2>3. req[q].left \in Nat /\ \A s \in Subject : lock[s].left \in Nat
      BY DEF TypeOK, ReqState
  <2> QED BY <1>0, <2>1, <2>2, <2>3 DEF RunsOut
<1>7. ASSUME UNCHANGED vars PROVE RunsOut(q)'
    BY <1>0, <1>7 DEF vars, RunsOut, Waiting, Wants
<1> QED BY <1>1, <1>2, <1>3, <1>4, <1>5, <1>6, <1>7 DEF Next, Moves

\* On PostgreSQL a dead holder's row is no reason to give up: with a patience no shorter
\* than the time rows are given (both are 30 seconds by default), LOCK_TIMEOUT means that
\* another request took the lock meanwhile.
THEOREM OnlyTheLivingRefuse ==
    ASSUME Dialect = "postgresql", Ttl <= Wait
    PROVE  Spec => OnlyOvertakenGiveUp
<1>1. Init => Patience
    BY DEF Init, Idle, Patience, RunsOut, Waiting
<1>2. IInv /\ Patience /\ [Next]_vars => Patience'
    BY PatienceKept
<1>3. IInv /\ Patience /\ [Next]_vars => [\A p \in Req : TimesOut(p) => p \in overtaken]_vars
  <2> SUFFICES ASSUME IInv, Patience, NEW p \in Req, TimesOut(p) PROVE p \in overtaken
      OBVIOUS
  <2>1. /\ Waiting(p) /\ req[p].left = 0 /\ Wants(p) \in Subject
        /\ lock[Wants(p)].by # None /\ lock[Wants(p)].left # 0
      BY WantsSubject DEF TimesOut, Takeable, Expired, IInv
  <2>2. lock[Wants(p)].left \in Nat
      BY <2>1, TimesAssumption DEF IInv, TypeOK
  <2> QED BY <2>1, <2>2 DEF Patience, RunsOut
<1> QED BY Invariant, <1>1, <1>2, <1>3, PTL DEF Spec, OnlyOvertakenGiveUp
=============================================================================
