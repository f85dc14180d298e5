--------------------------- MODULE ActionJournal ---------------------------
(***************************************************************************)
(* The undo journal of the collections: the acts that are journaled with   *)
(* an inverse, the inverses, undo with and without cascade, merging,       *)
(* permanent deletion and retention.                                       *)
(*                                                                         *)
(* Granularity.  An act first reads what its inverse will need, then waits *)
(* for the lock of its subject and runs one transaction: two steps, with   *)
(* any steps of other requests between them.  The transaction is one step: *)
(* the lock keeps other requests off the subject (SubjectLocks).  What an  *)
(* undo reads before its lock only names the lock, so an undo is one step. *)
(*                                                                         *)
(* A collection is a function of its aspects: columns, members, grants.    *)
(* All collections have one owner and origin 'user'; the automatic pin of  *)
(* system collections, exclusions and derived members are left out.        *)
(***************************************************************************)
EXTENDS Naturals, Sequences

CONSTANTS Coll,       \* identifiers of collections, each issued once
          Name,       \* names
          Node,       \* file nodes that can be members
          User,       \* users a collection can be shared with
          Req,        \* requests between their reads and their transaction
          Dialect,    \* the metadata store: "postgresql" or "sqlite"
          MaxActs,    \* bound: journal rows ever written
          None, Gone

ASSUME BoundAssumption == MaxActs \in Nat

Acts == {"rename", "pin", "mode", "archive", "restore", "addItems", "removeItems", "publish",
         "grant", "revoke", "properties"}

VARIABLES
    col,        \* each collection, or Gone
    issued,     \* identifiers drawn so far
    acts,       \* identifiers of journal rows drawn so far
    old,        \* rows with an identifier up to this are past expires_at
    journal,    \* the rows of each subject, by chain_seq
    req         \* what each request has read and wants

vars == <<col, issued, acts, old, journal, req>>

Title == <<"name">>
Pinned == <<"pinned">>
Mode == <<"publishMode">>
Status == <<"status">>
Item(n) == <<"item", n>>
Grant(u) == <<"grant", u>>

Items == {Item(n) : n \in Node}
Grants == {Grant(u) : u \in User}
Aspect == {Title, Pinned, Mode, Status} \cup Items \cup Grants

Values(a) ==
    CASE a = Title   -> Name
      [] a = Pinned  -> {"yes", "no"}
      [] a = Mode    -> {"ask", "auto"}
      [] a = Status  -> {"active", "archived"}
      [] a \in Items -> {"none", "held", "published"}
      [] OTHER       -> {"none", "viewer", "editor"}

\* That a collection is gone is not one of the values of a row.
ASSUME GoneAssumption == Gone \notin [Aspect -> UNION {Values(a) : a \in Aspect}]

Created(v) ==
    [a \in Aspect |-> CASE a = Title  -> v       [] a = Pinned -> "no" [] a = Mode -> "ask"
                        [] a = Status -> "active" [] OTHER     -> "none"]

Active(x) == x # Gone /\ x[Status] = "active"

NameTaken(cs, v) == \E c \in Coll : Active(cs[c]) /\ cs[c][Title] = v

\* The partial unique index: names of active collections.
IndexHolds(cs) ==
    \A c, d \in Coll : (Active(cs[c]) /\ Active(cs[d]) /\ cs[c][Title] = cs[d][Title]) => c = d

Nothing == [a \in {} |-> "none"]

Idle == [op |-> "none", on |-> None, loser |-> None, set |-> Nothing, back |-> Nothing,
         seen |-> Gone, seenLoser |-> Gone]

\* Any collections with members: acts before the first one of the model have
\* expired, and an expired row is neither undone nor counted.
Init ==
    /\ issued \in SUBSET Coll
    /\ \E v \in [Coll -> Name], m \in [Coll -> [Node -> {"none", "held", "published"}]] :
          /\ \A c, d \in issued : v[c] = v[d] => c = d
          /\ col = [c \in Coll |-> IF c \in issued
                     THEN [a \in Aspect |-> IF a \in Items THEN m[c][a[2]] ELSE Created(v[c])[a]]
                     ELSE Gone]
    /\ acts = 0 /\ old = 0
    /\ journal = [c \in Coll |-> <<>>]
    /\ req = [p \in Req |-> Idle]

-----------------------------------------------------------------------------
(* What each act reads, and the inverse it writes down from it.            *)

Reads(p, op, c, set, back) ==
    /\ req[p] = Idle /\ col[c] # Gone
    /\ req' = [req EXCEPT ![p] = [Idle EXCEPT !.op = op, !.on = c, !.set = set, !.back = back,
                                              !.seen = col[c]]]
    /\ UNCHANGED <<col, issued, acts, old, journal>>

One(a, v) == [x \in {a} |-> v]

\* "The previous row is read BEFORE the TX."
Rename(p, c, v) ==
    /\ ~NameTaken(col, v)
    /\ Reads(p, "rename", c, One(Title, v), One(Title, col[c][Title]))

Other(b) == CASE b = "yes" -> "no" [] b = "no" -> "yes"
              [] b = "held" -> "published" [] b = "published" -> "held"

\* The inverse of a pin is an unpin, whatever the row says.
SetPinned(p, c, b) == Reads(p, "pin", c, One(Pinned, b), One(Pinned, Other(b)))

SetPublishMode(p, c, m) == Reads(p, "mode", c, One(Mode, m), One(Mode, col[c][Mode]))

Archive(p, c) == Reads(p, "archive", c, One(Status, "archived"), One(Status, "active"))

\* A name that has been taken meanwhile is first replaced, by a rename of its own.
Restore(p, c) ==
    /\ col[c] # Gone /\ col[c][Status] = "archived" /\ ~NameTaken(col, col[c][Title])
    /\ Reads(p, "restore", c, One(Status, "active"), One(Status, "archived"))

\* Members already there are left out; a new one is published at once only in
\* publish mode auto.
AddItems(p, c, S) ==
    LET new == {Item(n) : n \in {n \in S : col[c][Item(n)] = "none"}}
    IN  Reads(p, "addItems", c,
              [a \in new |-> IF col[c][Mode] = "auto" THEN "published" ELSE "held"],
              [a \in new |-> "none"])

\* The inverse of a removal adds a published member.
RemoveItems(p, c, S) ==
    LET there == {Item(n) : n \in {n \in S : col[c][Item(n)] # "none"}}
    IN  Reads(p, "removeItems", c, [a \in there |-> "none"], [a \in there |-> "published"])

Publish(p, c, n, b) ==
    /\ col[c][Item(n)] # "none"
    /\ Reads(p, "publish", c, One(Item(n), b), One(Item(n), Other(b)))

\* The role replaced, or none.
GrantAccess(p, c, u, role) ==
    Reads(p, "grant", c, One(Grant(u), role), One(Grant(u), col[c][Grant(u)]))

RevokeAccess(p, c, u) ==
    /\ col[c][Grant(u)] # "none"
    /\ Reads(p, "revoke", c, One(Grant(u), "none"), One(Grant(u), col[c][Grant(u)]))

\* The dialog saves what differs, in one act.
UpdateProperties(p, c, a, v, u, role) ==
    /\ a \in {Title, Pinned, Mode} /\ v # col[c][a] /\ role # col[c][Grant(u)]
    /\ a = Title => ~NameTaken(col, v)
    /\ Reads(p, "properties", c,
             [x \in {a, Grant(u)} |-> IF x = a THEN v ELSE role],
             [x \in {a, Grant(u)} |-> col[c][x]])

CreateCollection(p, v) ==
    /\ req[p] = Idle /\ ~NameTaken(col, v)
    /\ req' = [req EXCEPT ![p] = [Idle EXCEPT !.op = "create", !.set = One(Title, v)]]
    /\ UNCHANGED <<col, issued, acts, old, journal>>

\* The row of the loser is read before its lock is taken.
MergeCollections(p, s, l) ==
    /\ req[p] = Idle /\ s # l /\ Active(col[s]) /\ Active(col[l])
    /\ req' = [req EXCEPT ![p] = [Idle EXCEPT !.op = "merge", !.on = s, !.loser = l,
                                              !.seen = col[s], !.seenLoser = col[l]]]
    /\ UNCHANGED <<col, issued, acts, old, journal>>

DeletePermanent(p, c) ==
    /\ col[c] # Gone /\ col[c][Status] = "archived"
    /\ Reads(p, "delete", c, Nothing, Nothing)

-----------------------------------------------------------------------------
(* The transactions.                                                       *)

\* The statements of an act: an INSERT of a member does nothing when it is there,
\* a flip of its flag does nothing when it is not.
Written(x, op, set) ==
    [a \in Aspect |->
        IF \/ a \notin DOMAIN set
           \/ op = "addItems" /\ x[a] # "none"
           \/ op = "publish" /\ x[a] = "none"
        THEN x[a] ELSE set[a]]

\* Mutant: the identifier of the row before.
RecordsLate(c, op, back, lost, dropped, was, now, fresh) ==
    /\ acts < MaxActs
    /\ acts' = acts + 1
    /\ journal' = [journal EXCEPT ![c] =
                     Append(@, [id |-> acts, op |-> op, back |-> back, lost |-> lost,
                                dropped |-> dropped, st |-> "applied",
                                was |-> was, now |-> now, fresh |-> fresh])]

\* lost: the loser of a merge as it was; was, now and fresh: the subject before
\* and after, and whether the act found what it had read.  History, but for the
\* part of lost that the payload holds.
Records(c, op, back, lost, dropped, was, now, fresh) ==
    /\ acts < MaxActs
    /\ acts' = acts + 1
    /\ journal' = [journal EXCEPT ![c] =
                     Append(@, [id |-> acts + 1, op |-> op, back |-> back, lost |-> lost,
                                dropped |-> dropped, st |-> "applied",
                                was |-> was, now |-> now, fresh |-> fresh])]

Ended(p) == req' = [req EXCEPT ![p] = Idle]

Inserts(r) ==
    \/ r.op = "addItems" /\ DOMAIN r.set # {}
    \/ \E a \in Grants \cap DOMAIN r.set : r.set[a] # "none"

\* commitChange.  Statements about a collection that has gone match nothing, and
\* the act is recorded all the same, unless one of them inserts.
CommitAct(p) ==
    LET r   == req[p]
        was == col[r.on]
        now == IF was = Gone THEN Gone ELSE Written(was, r.op, r.set)
        cs  == [col EXCEPT ![r.on] = now]
    IN  /\ r.op \in Acts
        /\ ~(was = Gone /\ Inserts(r))
        /\ IndexHolds(cs)
        /\ col' = cs
        /\ Records(r.on, r.op, r.back, Gone, {}, was, now, r.seen = was)
        /\ Ended(p)
        /\ UNCHANGED <<issued, old>>

CommitCreate(p, c) ==
    LET now == Created(req[p].set[Title])
        cs  == [col EXCEPT ![c] = now]
    IN  /\ req[p].op = "create" /\ c \notin issued
        /\ IndexHolds(cs)
        /\ col' = cs
        /\ issued' = issued \cup {c}
        /\ Records(c, "create", Nothing, Gone, {}, Gone, now, TRUE)
        /\ Ended(p)
        /\ UNCHANGED old

\* The members of the loser move to the survivor, those the survivor has are
\* dropped, the loser goes with its grants.  The code lists them before it waits
\* for the survivor's lock; it holds the loser's from before the listing to the end,
\* and whoever changes members takes that one: the list is that of the commit,
\* as long as the loser's lock does not expire in the wait.
CommitMerge(p) ==
    LET r       == req[p]
        was     == col[r.on]
        found   == col[r.loser]
        members == IF found = Gone THEN {} ELSE {a \in Items : found[a] # "none"}
        dropped == IF was = Gone THEN {} ELSE {a \in members : was[a] # "none"}
        now     == IF was = Gone THEN Gone
                   ELSE [a \in Aspect |-> IF a \in members \ dropped THEN found[a] ELSE was[a]]
        lost    == [a \in Aspect |-> IF a \in Items THEN IF a \in members THEN found[a] ELSE "none"
                                     ELSE r.seenLoser[a]]
    IN  /\ r.op = "merge"
        /\ was = Gone => members = {}
        /\ col' = [col EXCEPT ![r.on] = now, ![r.loser] = Gone]
        /\ Records(r.on, "merge", Nothing, lost, dropped, was, now,
                   r.seen = was /\ r.seenLoser = found)
        /\ Ended(p)
        /\ UNCHANGED <<issued, old>>

\* deleteCollectionPermanent: the row goes whatever its status is by now, and
\* its journal with it.
CommitDelete(p) ==
    LET c == req[p].on
    IN  /\ req[p].op = "delete"
        /\ col' = [col EXCEPT ![c] = Gone]
        /\ journal' = IF col[c] = Gone THEN journal ELSE [journal EXCEPT ![c] = <<>>]
        /\ Ended(p)
        /\ UNCHANGED <<issued, acts, old>>

\* No lock in time, a constraint, a failed statement, a dead process: nothing
\* has happened.
Fails(p) ==
    /\ req[p] # Idle /\ Ended(p)
    /\ UNCHANGED <<col, issued, acts, old, journal>>

-----------------------------------------------------------------------------
(* Undo.                                                                   *)

\* Does a statement of an inverse find what it expects?
Fits(x, op, a, v) ==
    /\ x # Gone
    /\ CASE a \in Items /\ op = "publish" -> x[a] # "none"
         [] a \in Items /\ op # "publish" -> (x[a] = "none") # (v = "none")
         [] a \in Grants                  -> v = "none" => x[a] # "none"
         [] OTHER                         -> x[a] # v

Unit(op) == op \in {"addItems", "removeItems"}

\* Mutant: members come back published, the default of the column.
RestoredPublished(lost) ==
    [a \in Aspect |-> CASE a \in Grants -> "none" [] a = Status -> "active"
                        [] a \in Items /\ lost[a] # "none" -> "published"
                        [] OTHER -> lost[a]]

Restored(lost) ==
    [a \in Aspect |-> CASE a \in Grants -> "none" [] a = Status -> "active" [] OTHER -> lost[a]]

\* The name of a loser is looked for outside the transaction: on sqlite that is
\* the same connection, on PostgreSQL the inverses before it are not seen.
SeenOutside(w) == IF Dialect = "sqlite" THEN w.col ELSE col

\* What the inverse of a row makes of w, the collections and the identifiers as
\* the inverses before it in the transaction have left them.  A unit of items
\* skips those that do not fit; any other inverse is refused, and ends the undo.
Inverted(c, w, row) ==
    LET x    == w.col[c]
        fit  == {a \in DOMAIN row.back : Fits(x, row.op, a, row.back[a])}
        y    == [a \in Aspect |-> IF a \in fit THEN row.back[a] ELSE x[a]]
        done == IF Unit(row.op) THEN DOMAIN row.back # {} ELSE fit = DOMAIN row.back
    IN  CASE row.op = "create" -> [w EXCEPT !.col[c] = Gone, !.ok = @ /\ x # Gone]
          [] row.op = "merge" ->
               IF x = Gone \/ NameTaken(SeenOutside(w), row.lost[Title]) \/ w.issued = Coll
               THEN [w EXCEPT !.ok = FALSE]
               ELSE LET d == CHOOSE d \in Coll \ w.issued : TRUE
                    IN  [w EXCEPT !.issued = @ \cup {d},
                                  !.col[d] = Restored(row.lost),
                                  !.col[c] = [a \in Aspect |->
                                      IF a \in Items \ row.dropped /\ row.lost[a] # "none"
                                      THEN "none" ELSE x[a]]]
          [] OTHER -> IF fit = {} THEN [w EXCEPT !.ok = @ /\ done /\ Unit(row.op)]
                      ELSE [w EXCEPT !.col[c] = y, !.ok = @ /\ done]

\* Mutant: later rows are not looked at.
StandingAlone(c, i) == {j \in {i} : journal[c][j].st = "applied"}

\* The rows i and later that still stand.
Standing(c, i) == {j \in i..Len(journal[c]) : journal[c][j].st = "applied"}

\* Mutant: ORDER BY chain_seq ASC.
TakenBackOldestFirst(c, S) ==
    LET w[i \in 0..Len(journal[c])] ==
            IF i = 0 THEN [col |-> col, issued |-> issued, ok |-> TRUE]
            ELSE IF i \notin S THEN w[i - 1]
            ELSE LET v == Inverted(c, w[i - 1], journal[c][i])
                 IN  [v EXCEPT !.ok = @ /\ IndexHolds(v.col)]
    IN  w[Len(journal[c])]

\* The inverses of the rows S, the newest first: w[i] is what those of the rows i
\* and later have made of the collections.
TakenBack(c, S) ==
    LET end == Len(journal[c]) + 1
        w[i \in 1..end] ==
            IF i = end THEN [col |-> col, issued |-> issued, ok |-> TRUE]
            ELSE IF i \notin S THEN w[i + 1]
            ELSE LET v == Inverted(c, w[i + 1], journal[c][i])
                 IN  [v EXCEPT !.ok = @ /\ IndexHolds(v.col)]
    IN  w[1]

\* undoAction: a later act that stands needs the consent to a cascade.
UndoAction(c, i, cascade) ==
    LET S == Standing(c, i)
        w == TakenBack(c, S)
    IN  /\ i \in S /\ (S = {i} \/ cascade)
        /\ w.ok
        /\ col' = w.col
        /\ issued' = w.issued
        /\ journal' = [journal EXCEPT ![c] = [j \in DOMAIN @ |->
                         IF j \in S THEN [@[j] EXCEPT !.st = "undone"] ELSE @[j]]]
        /\ UNCHANGED <<acts, old, req>>

-----------------------------------------------------------------------------
(* Retention.                                                              *)

\* Rows are created, and pass their expires_at, in the order of their identifiers.
Ages ==
    /\ old < acts
    /\ old' = old + 1
    /\ UNCHANGED <<col, issued, acts, journal, req>>

\* Mutant: every row that stands, as on sqlite.
PastAny(row) == TRUE

\* On sqlite the cutoff compares julianday, a number, with datetime, a text: a
\* number is less than any text.
PastExpiry(row) == row.id <= old \/ Dialect = "sqlite"

ExpireRows ==
    /\ journal' = [c \in Coll |-> [i \in DOMAIN journal[c] |->
                     IF journal[c][i].st = "applied" /\ PastExpiry(journal[c][i])
                     THEN [journal[c][i] EXCEPT !.st = "expired"] ELSE journal[c][i]]]
    /\ UNCHANGED <<col, issued, acts, old, req>>

Starts(p, c) ==
    \/ \E v \in Name : Rename(p, c, v)
    \/ \E b \in Values(Pinned) : SetPinned(p, c, b)
    \/ \E m \in Values(Mode) : SetPublishMode(p, c, m)
    \/ Archive(p, c) \/ Restore(p, c) \/ DeletePermanent(p, c)
    \/ \E S \in SUBSET Node \ {{}} : AddItems(p, c, S) \/ RemoveItems(p, c, S)
    \/ \E n \in Node, b \in {"held", "published"} : Publish(p, c, n, b)
    \/ \E u \in User :
          \/ RevokeAccess(p, c, u)
          \/ \E role \in {"viewer", "editor"} : GrantAccess(p, c, u, role)
          \/ \E a \in {Title, Pinned, Mode} : \E v \in Values(a), role \in Values(Grant(u)) :
                UpdateProperties(p, c, a, v, u, role)
    \/ \E l \in Coll : MergeCollections(p, c, l)

Next ==
    \/ \E p \in Req :
          \/ \E c \in Coll : (col[c] # Gone /\ Starts(p, c)) \/ CommitCreate(p, c)
          \/ \E v \in Name : CreateCollection(p, v)
          \/ CommitAct(p) \/ CommitMerge(p) \/ CommitDelete(p) \/ Fails(p)
    \/ \E c \in Coll, cascade \in BOOLEAN : \E i \in DOMAIN journal[c] : UndoAction(c, i, cascade)
    \/ Ages \/ ExpireRows

Spec == Init /\ [][Next]_vars

-----------------------------------------------------------------------------
IsCollection(x) == DOMAIN x = Aspect /\ \A a \in Aspect : x[a] \in Values(a)

\* Collections are rows or gone and the index of active names holds; a row of the
\* journal has an identifier, a status and values to give back that its aspects
\* can have; requests are known operations.
TypeOK ==
    /\ \A c \in Coll : col[c] = Gone \/ (c \in issued /\ IsCollection(col[c]))
    /\ issued \subseteq Coll /\ acts \in 0..MaxActs /\ old \in 0..acts
    /\ \A c \in Coll : \A i \in DOMAIN journal[c] :
          /\ journal[c][i].id \in 1..acts
          /\ journal[c][i].st \in {"applied", "undone", "expired"}
          /\ \A a \in DOMAIN journal[c][i].back : journal[c][i].back[a] \in Values(a)
    /\ \A p \in Req : req[p].op \in Acts \cup {"create", "merge", "delete", "none"}
    /\ IndexHolds(col)

\* An act its inverse can take back: it found what it had read before its lock,
\* it changed something, and it removed no member that was not published.  The
\* code journals the others too (archiving what is archived, pinning what is
\* pinned, adding a member that has been added meanwhile).
Invertible(row) ==
    /\ row.fresh
    /\ row.op # "merge" => row.was # row.now
    /\ row.op = "removeItems" => \A a \in DOMAIN row.back : row.was[a] = "published"

InEffect(c) == {i \in DOMAIN journal[c] : journal[c][i].st # "undone"}

\* What the acts S leave: what the last of them made of the subject.
After(c, S) ==
    IF S = {} THEN journal[c][1].was
    ELSE journal[c][CHOOSE i \in S : \A j \in S : j <= i].now

\* The journal explains the subject: a collection is what the last act that has
\* not been taken back made of it, and each such act starts from what the one
\* before it left; so an undo, alone or in a cascade, leads back exactly to the
\* state before the act it names (commitChange, undoAction, applyInverseTx).
JournalExplains ==
    \A c \in Coll :
        (/\ col[c] # Gone /\ journal[c] # <<>>
         /\ \A i \in DOMAIN journal[c] : Invertible(journal[c][i])) =>
            /\ col[c] = After(c, InEffect(c))
            /\ \A i \in InEffect(c) :
                  journal[c][i].was = After(c, {j \in InEffect(c) : j < i})

\* What an undo needs of the rows stays in them for the time of retention, and
\* the last act of a subject that stands can be taken back, when no act of its
\* chain was one an inverse cannot take back: fingerprintRefusal is for races
\* only, or for a name that another active collection has by now (expireRows,
\* undoAction, applyInverseTx).
UndoPossible ==
    \A c \in Coll : \A i \in DOMAIN journal[c] :
        /\ journal[c][i].id > old /\ i \in InEffect(c) => i \in Standing(c, i)
        /\ (/\ Standing(c, i) = {i} /\ journal[c][i].op # "merge" /\ col[c] # Gone
            /\ \A j \in DOMAIN journal[c] : Invertible(journal[c][j])) =>
               \/ TakenBack(c, {i}).ok
               \/ \E d \in Coll \ {c}, v \in {col[c][Title], journal[c][i].was[Title]} :
                     Active(col[d]) /\ col[d][Title] = v

\* Taking back a merge that raced with nobody brings the loser back under a new
\* identifier, as it was but for its grants (applyMergeCollectionsInverseTx).
LoserComesBack ==
    [][\A c \in Coll : \A i \in DOMAIN journal[c] \cap DOMAIN journal'[c] :
          LET row == journal[c][i]
          IN  (/\ row.op = "merge" /\ row.fresh
               /\ row.st = "applied" /\ journal'[c][i].st = "undone") =>
                 \E d \in Coll \ issued :
                    \A a \in Aspect \ Grants : col'[d] # Gone /\ col'[d][a] = row.lost[a]]_vars

Log == INSTANCE UndoLog WITH
    Subject <- Coll,
    log <- [c \in Coll |-> [i \in DOMAIN journal[c] |-> journal[c][i].st]]

\* The journal is a chain per subject, taken back from its end (UndoLog).
KeepsPromise == Log!Spec
=============================================================================
