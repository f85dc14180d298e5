------------------------------ MODULE UndoLog ------------------------------
(***************************************************************************)
(* What the journal promises of the acts on a subject, whatever they did:  *)
(* they form a chain, taken back from its end.  Taking one back takes back *)
(* with it every later act that still stands; an act taken back or expired *)
(* stays so.                                                               *)
(***************************************************************************)
EXTENDS Naturals, Sequences

CONSTANT Subject

VARIABLE log    \* the status of each subject's acts, oldest first

Init == log = [s \in Subject |-> <<>>]

Act(s) == log' = [log EXCEPT ![s] = Append(@, "applied")]

\* The act at i and all later ones.
TakeBack(s, i) ==
    /\ log[s][i] = "applied"
    /\ log' = [log EXCEPT ![s] = [j \in DOMAIN @ |->
                 IF j >= i /\ @[j] = "applied" THEN "undone" ELSE @[j]]]

\* The oldest acts of every subject, up to some point of each chain.
Expire ==
    /\ DOMAIN log' = Subject
    /\ \A s \in Subject : \E past \in SUBSET DOMAIN log[s] :
          /\ \A j \in past, i \in DOMAIN log[s] : i < j => i \in past
          /\ log'[s] = [j \in DOMAIN log[s] |->
                          IF j \in past /\ log[s][j] = "applied" THEN "expired" ELSE log[s][j]]

Purge(s) == log' = [log EXCEPT ![s] = <<>>]

Next ==
    \/ \E s \in Subject : Act(s) \/ Purge(s) \/ \E i \in DOMAIN log[s] : TakeBack(s, i)
    \/ Expire

Spec == Init /\ [][Next]_log
=============================================================================
