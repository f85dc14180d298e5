---------------------------- MODULE SubjectMutex ----------------------------
(***************************************************************************)
(* What the journal and the collections take from their locks: one request *)
(* at a time works on a subject.  Rows, tokens, clocks, attempts, deaths   *)
(* and time-outs are SubjectLocks.                                         *)
(***************************************************************************)
CONSTANTS Subject, Req, None

VARIABLE worksOn    \* the subject each request works on, or None

Init == worksOn = [p \in Req |-> None]

Enter(p, s) ==
    /\ worksOn[p] = None /\ \A q \in Req : worksOn[q] # s
    /\ worksOn' = [worksOn EXCEPT ![p] = s]

Leave(p) ==
    /\ worksOn[p] # None
    /\ worksOn' = [worksOn EXCEPT ![p] = None]

Next == \E p \in Req : Leave(p) \/ \E s \in Subject : Enter(p, s)

Spec == Init /\ [][Next]_worksOn
=============================================================================
