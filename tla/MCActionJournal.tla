-------------------------- MODULE MCActionJournal --------------------------
(***************************************************************************)
(* Three families of scenarios.  "acts": one request at a time, all acts,  *)
(* and undo, on two collections without members at first, two acts.        *)
(* "chains": one request at a time, up to three acts of a few kinds on two *)
(* collections with a member each, merging, creating, deleting, undo and   *)
(* retention.  "races": the same kinds, two acts, in two requests at a     *)
(* time.                                                                   *)
(***************************************************************************)
EXTENDS ActionJournal, TLC, FiniteSets

CONSTANTS c1, c2, c3, name1, name2, name3

VARIABLE family

MCInit ==
    /\ Init /\ issued = Coll \ {c3}
    /\ col[c1][Title] = name1 /\ col[c2][Title] = name2
    /\ \/ family = "acts" /\ \A x \in issued, i \in Items : col[x][i] = "none"
       \/ /\ family \in {"chains", "races"}
          /\ \A i \in Items : col[c1][i] = "held" /\ col[c2][i] = "published"

Kinds ==
    IF family = "acts" THEN Acts
    ELSE {"rename", "archive", "addItems", "removeItems", "merge", "create", "delete"}

\* A request that the bound on rows keeps from committing is not begun.
Rows == acts + Cardinality({p \in Req : req[p].op \notin {"none", "delete"}})

\* name3 is a name nobody has at first; only the acts use it.
MCNext ==
    /\ Next /\ UNCHANGED family
    /\ \A p \in Req : req'[p] # Idle =>
          /\ req'[p].op \in Kinds
          /\ family # "acts" /\ Title \in DOMAIN req'[p].set => req'[p].set[Title] # name3
          /\ family # "races" => \A q \in Req \ {p} : req'[q] = Idle
    /\ Rows' <= IF family = "chains" THEN 3 ELSE 2
    /\ family = "acts" => old' = 0

MCSpec == MCInit /\ [][MCNext]_<<vars, family>>

Symmetry == Permutations(Req)
=============================================================================
