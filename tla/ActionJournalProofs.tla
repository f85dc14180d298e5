------------------------ MODULE ActionJournalProofs ------------------------
(***************************************************************************)
(* The journal of the collections, for any collections, names, nodes,      *)
(* users, requests, number of acts and either backend.                     *)
(*                                                                         *)
(* First, a subject's rows are a chain taken back from its end:            *)
(* ActionJournal implements UndoLog.  Then, what the rows tell of the      *)
(* collections: each is what its rows not taken back make of it (Story).   *)
(* Then undo by undo: a row that has not expired can be taken back, and a  *)
(* merge taken back brings its loser back.                                 *)
(***************************************************************************)
EXTENDS ActionJournal, SequenceTheorems, WellFoundedInduction, TLAPS

Stands == {"applied", "undone", "expired"}

Row(r, n) == {"id", "st"} \subseteq DOMAIN r /\ r.id \in 1..n /\ r.st \in Stands

\* The rows of a subject: a sequence, in the order of their identifiers, which
\* go up to n.
Rows(s, n) ==
    /\ \E S : s \in Seq(S)
    /\ \A i \in DOMAIN s : Row(s[i], n)
    /\ \A i, j \in DOMAIN s : i < j => s[i].id < s[j].id

\* So what has passed its expiry is the beginning of each chain.
Chain ==
    /\ acts \in Nat /\ old \in Nat
    /\ journal = [c \in Coll |-> journal[c]]
    /\ \A c \in Coll : Rows(journal[c], acts)

Statuses(s) == [i \in DOMAIN s |-> s[i].st]

\* What UndoLog sees of the journal.
Seen == [c \in Coll |-> Statuses(journal[c])]

-----------------------------------------------------------------------------
\* A row more at the end of a chain, with the next identifier.
LEMMA RowsAppend ==
    ASSUME NEW n \in Nat, NEW s, Rows(s, n), NEW r, Row(r, n + 1), r.id = n + 1
    PROVE  /\ Rows(Append(s, r), n + 1)
           /\ Statuses(Append(s, r)) = Append(Statuses(s), r.st)
<1>1. PICK S : s \in Seq(S)
  BY DEF Rows
<1> DEFINE T == S \cup {r}
           U == {s[i].st : i \in 1..Len(s)} \cup {r.st}
           q == Statuses(s)
<1>2. Len(s) \in Nat /\ DOMAIN s = 1..Len(s)
  BY <1>1, LenProperties
<1>3. s \in Seq(T) /\ r \in T
  BY <1>1, SeqMonotonic
<1>4. /\ Append(s, r) \in Seq(T)
      /\ DOMAIN Append(s, r) = 1..(Len(s) + 1)
      /\ \A i \in 1..Len(s) : Append(s, r)[i] = s[i]
      /\ Append(s, r)[Len(s) + 1] = r
  <2>1. Append(s, r) \in Seq(T) /\ Len(Append(s, r)) = Len(s) + 1
    BY <1>3, AppendProperties
  <2>2. QED
    BY <1>2, <1>3, <2>1, AppendProperties, LenProperties
<1>5. q \in Seq(U) /\ Len(q) = Len(s)
  <2>1. q \in [1..Len(s) -> U]
    BY <1>2 DEF Statuses
  <2>2. q \in Seq(U)
    BY <1>2, <2>1, SeqDef
  <2>3. QED
    BY <1>2, <2>1, <2>2, LenProperties
<1>6. Rows(Append(s, r), n + 1)
  <2>1. \A i \in 1..Len(s) : Row(s[i], n)
    BY <1>2 DEF Rows
  <2>2. \A i \in 1..Len(s) + 1 : Row(Append(s, r)[i], n + 1)
    BY <2>1, <1>2, <1>4 DEF Row
  <2>3. \A i, j \in 1..Len(s) : i < j => s[i].id < s[j].id
    BY <1>2 DEF Rows
  <2>4. \A i, j \in 1..Len(s) + 1 : i < j => Append(s, r)[i].id < Append(s, r)[j].id
    BY <2>1, <2>3, <1>2, <1>4 DEF Row
  <2>5. QED
    BY <1>4, <2>2, <2>4 DEF Rows
<1>7. Statuses(Append(s, r)) = Append(q, r.st)
  BY <1>2, <1>4, <1>5, AppendProperties DEF Statuses
<1>8. QED
  BY <1>6, <1>7

\* Rows that change in nothing but their status are still a chain.
LEMMA RowsRestated ==
    ASSUME NEW n \in Nat, NEW s, Rows(s, n), NEW t, t = [i \in DOMAIN s |-> t[i]],
           \A i \in DOMAIN s : Row(t[i], n) /\ t[i].id = s[i].id
    PROVE  Rows(t, n)
<1>1. PICK S : s \in Seq(S)
  BY DEF Rows
<1> DEFINE T == {t[i] : i \in 1..Len(s)}
<1>2. Len(s) \in Nat /\ DOMAIN s = 1..Len(s)
  BY <1>1, LenProperties
<1>3. t \in [1..Len(s) -> T]
  BY <1>2
<1>4. t \in Seq(T) /\ DOMAIN t = DOMAIN s
  BY <1>2, <1>3, SeqDef
<1>5. QED
  BY <1>4 DEF Rows

-----------------------------------------------------------------------------
(* What the actions do to the chains.                                      *)

\* Reading, and time that passes.
LEMMA Quiet ==
    ASSUME Chain, journal' = journal, acts' = acts, old' \in Nat
    PROVE  Chain' /\ Seen' = Seen
BY DEF Chain, Seen

\* An act is recorded at the end of its subject's chain.  A subject that is no
\* collection changes nothing.
LEMMA Recorded ==
    ASSUME Chain, old' = old,
           \E c, op, back, lost, dropped, was, now, fresh :
              Records(c, op, back, lost, dropped, was, now, fresh)
    PROVE  Chain' /\ (Seen' = Seen \/ Log!Next)
<1>1. PICK c, op, back, lost, dropped, was, now, fresh :
         Records(c, op, back, lost, dropped, was, now, fresh)
  OBVIOUS
<1>2. PICK r : r = [id |-> acts + 1, op |-> op, back |-> back, lost |-> lost,
                    dropped |-> dropped, st |-> "applied",
                    was |-> was, now |-> now, fresh |-> fresh]
  OBVIOUS
<1>3. {"id", "st"} \subseteq DOMAIN r /\ r.id = acts + 1 /\ r.st = "applied"
  BY <1>2
<1>4. acts \in Nat /\ acts' = acts + 1 /\ journal' = [journal EXCEPT ![c] = Append(@, r)]
  BY <1>1, <1>2 DEF Records, Chain
<1>5. Row(r, acts + 1)
  BY <1>3, <1>4 DEF Row, Stands
<1>6. journal' = [d \in Coll |-> IF d = c THEN Append(journal[c], r) ELSE journal[d]]
  BY <1>4 DEF Chain
<1>7. \A d \in Coll : Rows(journal[d], acts) => Rows(journal[d], acts')
  BY <1>4 DEF Rows, Row
<1>8. \A d \in Coll : Rows(journal[d], acts)
  BY DEF Chain
<1>9. CASE c \in Coll
  <2>1. /\ Rows(Append(journal[c], r), acts + 1)
        /\ Statuses(Append(journal[c], r)) = Append(Statuses(journal[c]), "applied")
    BY <1>3, <1>4, <1>5, <1>8, <1>9, RowsAppend
  <2>2. Chain'
    <3>1. acts' \in Nat /\ old' \in Nat
      BY <1>4 DEF Chain
    <3>2. journal' = [d \in Coll |-> journal'[d]]
      BY <1>6
    <3>3. \A d \in Coll : Rows(journal'[d], acts')
      BY <1>4, <1>6, <1>7, <1>8, <2>1
    <3>4. QED
      BY <3>1, <3>2, <3>3 DEF Chain
  <2>3. Seen' = [Seen EXCEPT ![c] = Append(@, "applied")]
    BY <1>6, <1>9, <2>1 DEF Seen
  <2>4. Log!Act(c)
    BY <2>3 DEF Seen, Statuses, Log!Act
  <2>5. QED
    BY <1>9, <2>2, <2>4 DEF Log!Next
<1>10. CASE c \notin Coll
  <2>1. journal' = journal
    BY <1>6, <1>10 DEF Chain
  <2>2. QED
    BY <1>4, <1>7, <1>8, <2>1 DEF Chain, Seen
<1>11. QED
  BY <1>9, <1>10

\* Permanent deletion empties one chain.
LEMMA Emptied ==
    ASSUME Chain, acts' = acts, old' = old, NEW c, journal' = [journal EXCEPT ![c] = <<>>]
    PROVE  Chain' /\ (Seen' = Seen \/ Log!Next)
<1>1. journal' = [d \in Coll |-> IF d = c THEN <<>> ELSE journal[d]]
  BY DEF Chain
<1>2. Rows(<<>>, acts)
  <2>1. <<>> \in Seq({}) /\ DOMAIN <<>> = {}
    BY EmptySeq, LenProperties
  <2>2. QED
    BY <2>1 DEF Rows
<1>3. Chain'
  BY <1>1, <1>2 DEF Chain
<1>4. Statuses(<<>>) = <<>>
  BY DEF Statuses
<1>5. CASE c \in Coll
  <2>1. Seen' = [Seen EXCEPT ![c] = <<>>]
    BY <1>1, <1>4, <1>5 DEF Seen
  <2>2. Log!Purge(c)
    BY <2>1 DEF Seen, Statuses, Log!Purge
  <2>3. QED
    BY <1>3, <1>5, <2>2 DEF Log!Next
<1>6. CASE c \notin Coll
  <2>1. journal' = journal
    BY <1>1, <1>6 DEF Chain
  <2>2. QED
    BY <1>3, <2>1 DEF Seen
<1>7. QED
  BY <1>5, <1>6

\* An undo takes back an act that stands and all later ones that do.
LEMMA Undone ==
    ASSUME Chain, NEW c \in Coll, NEW i \in DOMAIN journal[c], NEW cascade \in BOOLEAN,
           UndoAction(c, i, cascade)
    PROVE  Chain' /\ Log!Next
<1> DEFINE s == journal[c]
           S == Standing(c, i)
           t == [j \in DOMAIN s |-> IF j \in S THEN [s[j] EXCEPT !.st = "undone"] ELSE s[j]]
<1>1. /\ i \in S /\ acts' = acts /\ old' = old
      /\ journal' = [journal EXCEPT ![c] = t]
  BY DEF UndoAction
<1>2. journal' = [d \in Coll |-> IF d = c THEN t ELSE journal[d]]
  BY <1>1 DEF Chain
<1>3. Rows(s, acts) /\ acts \in Nat /\ old \in Nat
  BY DEF Chain
<1>4. PICK T : s \in Seq(T)
  BY <1>3 DEF Rows
<1>5. Len(s) \in Nat /\ DOMAIN s = 1..Len(s)
  BY <1>4, LenProperties
<1>6. S = {j \in DOMAIN s : j >= i /\ s[j].st = "applied"}
  BY <1>5 DEF Standing
<1>7. \A j \in DOMAIN s : Row(s[j], acts)
  BY <1>3 DEF Rows
<1>8. \A j \in DOMAIN s : /\ Row(t[j], acts) /\ t[j].id = s[j].id
                          /\ t[j].st = IF j \in S THEN "undone" ELSE s[j].st
  BY <1>7 DEF Row, Stands
<1>9. Rows(t, acts)
  <2> HIDE DEF S
  <2>1. t = [j \in DOMAIN s |-> t[j]]
    OBVIOUS
  <2> HIDE DEF t
  <2>2. QED
    BY <1>3, <1>8, <2>1, RowsRestated
<1>10. Chain'
  <2> HIDE DEF t
  <2>1. QED
    BY <1>1, <1>2, <1>3, <1>9 DEF Chain
<1>11. Statuses(t) = [j \in DOMAIN Statuses(s) |->
                        IF j >= i /\ Statuses(s)[j] = "applied" THEN "undone" ELSE Statuses(s)[j]]
  BY <1>6, <1>8 DEF Statuses
<1>12. Seen' = [d \in Coll |-> IF d = c THEN Statuses(t) ELSE Statuses(journal[d])]
  <2> HIDE DEF t
  <2>1. QED
    BY <1>2 DEF Seen
<1>13. Seen[c][i] = "applied"
  BY <1>1, <1>6 DEF Seen, Statuses
<1>14. Log!TakeBack(c, i)
  <2> HIDE DEF t
  <2>1. Seen' = [Seen EXCEPT ![c] = [j \in DOMAIN @ |->
                   IF j >= i /\ @[j] = "applied" THEN "undone" ELSE @[j]]]
    BY <1>11, <1>12 DEF Seen
  <2>2. QED
    BY <1>13, <2>1 DEF Log!TakeBack, Seen, Statuses
<1>15. i \in DOMAIN Seen[c]
  BY DEF Seen, Statuses
<1>16. QED
  BY <1>10, <1>14, <1>15 DEF Log!Next, Seen, Statuses

\* Retention expires what is past its time, which is the beginning of each chain.
LEMMA Expired ==
    ASSUME Chain, ExpireRows
    PROVE  Chain' /\ Log!Next
<1> DEFINE t(c) == [i \in DOMAIN journal[c] |->
                     IF journal[c][i].st = "applied" /\ PastExpiry(journal[c][i])
                     THEN [journal[c][i] EXCEPT !.st = "expired"] ELSE journal[c][i]]
<1>1. journal' = [c \in Coll |-> t(c)] /\ acts' = acts /\ old' = old
  BY DEF ExpireRows
<1>2. acts \in Nat /\ old \in Nat /\ \A c \in Coll : Rows(journal[c], acts)
  BY DEF Chain
<1>3. ASSUME NEW c \in Coll
      PROVE  /\ Rows(t(c), acts)
             /\ \E past \in SUBSET DOMAIN Statuses(journal[c]) :
                   /\ \A j \in past, i \in DOMAIN Statuses(journal[c]) : i < j => i \in past
                   /\ Statuses(t(c)) = [j \in DOMAIN Statuses(journal[c]) |->
                         IF j \in past /\ Statuses(journal[c])[j] = "applied"
                         THEN "expired" ELSE Statuses(journal[c])[j]]
  <2> DEFINE s == journal[c]
             past == {i \in DOMAIN s : PastExpiry(s[i])}
  <2>1. \A i \in DOMAIN s : Row(s[i], acts)
    BY <1>2, <1>3 DEF Rows
  <2>2. \A i \in DOMAIN s : /\ Row(t(c)[i], acts) /\ t(c)[i].id = s[i].id
                            /\ t(c)[i].st = IF s[i].st = "applied" /\ PastExpiry(s[i])
                                           THEN "expired" ELSE s[i].st
    BY <2>1 DEF Row, Stands
  <2>3. \A i, j \in DOMAIN s : i < j => s[i].id < s[j].id
    BY <1>2, <1>3 DEF Rows
  <2>4. \A j \in past, i \in DOMAIN s : i < j => i \in past
    BY <1>2, <2>1, <2>3 DEF PastExpiry, Row
  <2>5. Statuses(t(c)) = [j \in DOMAIN Statuses(s) |->
                            IF j \in past /\ Statuses(s)[j] = "applied"
                            THEN "expired" ELSE Statuses(s)[j]]
    BY <2>2 DEF Statuses
  <2>6. DOMAIN Statuses(s) = DOMAIN s
    BY DEF Statuses
  <2>7. t(c) = [i \in DOMAIN s |-> t(c)[i]] /\ DOMAIN t(c) = DOMAIN s
    OBVIOUS
  <2>8. Rows(t(c), acts)
    <3>1. PICK u : u = t(c)
      OBVIOUS
    <3>2. u = [i \in DOMAIN s |-> u[i]]
      BY <2>7, <3>1
    <3>3. \A i \in DOMAIN s : Row(u[i], acts) /\ u[i].id = s[i].id
      BY <2>2, <3>1
    <3> HIDE DEF t
    <3>4. QED
      BY <1>2, <1>3, <3>1, <3>2, <3>3, RowsRestated
  <2>9. QED
    <3> HIDE DEF t
    <3>1. QED
      BY <2>4, <2>5, <2>6, <2>8
<1> HIDE DEF t
<1>4. Chain'
  BY <1>1, <1>2, <1>3 DEF Chain
<1>5. Seen' = [c \in Coll |-> Statuses(t(c))]
  BY <1>1 DEF Seen
<1>6. /\ DOMAIN Seen' = Coll
      /\ \A c \in Coll : Seen[c] = Statuses(journal[c]) /\ Seen'[c] = Statuses(t(c))
  BY <1>5 DEF Seen
<1>7. Log!Expire
  <2>1. \A c \in Coll : \E past \in SUBSET DOMAIN Seen[c] :
           /\ \A j \in past, i \in DOMAIN Seen[c] : i < j => i \in past
           /\ Seen'[c] = [j \in DOMAIN Seen[c] |->
                            IF j \in past /\ Seen[c][j] = "applied"
                            THEN "expired" ELSE Seen[c][j]]
    BY <1>3, <1>6
  <2> DEFINE L == [c \in Coll |-> [i \in DOMAIN journal[c] |-> journal[c][i].st]]
  <2>2. Seen = L /\ Seen' = L'
    BY DEF Seen, Statuses
  <2> HIDE DEF L
  <2>3. /\ DOMAIN L' = Coll
        /\ \A s \in Coll : \E past \in SUBSET DOMAIN L[s] :
              /\ \A j \in past, i \in DOMAIN L[s] : i < j => i \in past
              /\ L'[s] = [j \in DOMAIN L[s] |->
                            IF j \in past /\ L[s][j] = "applied" THEN "expired" ELSE L[s][j]]
    BY <1>6, <2>1, <2>2
  <2>4. QED
    BY <2>3, Zenon DEF Log!Expire, L
<1>8. QED
  BY <1>4, <1>7 DEF Log!Next

-----------------------------------------------------------------------------
\* No act is journaled at first.
LEMMA ChainInit == Init => Chain /\ Log!Init
<1> SUFFICES ASSUME Init PROVE Chain /\ Log!Init
  OBVIOUS
<1>1. journal = [c \in Coll |-> <<>>] /\ acts = 0 /\ old = 0
  BY DEF Init
<1>2. <<>> \in Seq({}) /\ DOMAIN <<>> = {}
  BY EmptySeq, LenProperties
<1>3. Rows(<<>>, 0) /\ Statuses(<<>>) = <<>>
  BY <1>2 DEF Rows, Statuses
<1>4. Chain
  BY <1>1, <1>3 DEF Chain
<1>5. Seen = [c \in Coll |-> <<>>]
  BY <1>1, <1>3 DEF Seen
<1>6. QED
  BY <1>4, <1>5 DEF Log!Init, Seen, Statuses

\* A request that begins, whatever it is for, only reads.
LEMMA BeginsQuietly ==
    ASSUME NEW p, NEW c, Starts(p, c)
    PROVE  journal' = journal /\ acts' = acts /\ old' = old
BY DEF Starts, Rename, SetPinned, SetPublishMode, Archive, Restore, DeletePermanent, AddItems,
       RemoveItems, Publish, GrantAccess, RevokeAccess, UpdateProperties, MergeCollections, Reads

\* Every step keeps the chains, and is a step of UndoLog or none.
LEMMA ChainStep ==
    ASSUME Chain, [Next]_vars
    PROVE  Chain' /\ (Seen' = Seen \/ Log!Next)
<1>1. CASE journal' = journal /\ acts' = acts /\ old' = old
  BY <1>1, Quiet DEF Chain
<1>2. ASSUME NEW p \in Req, NEW c \in Coll, Starts(p, c)
      PROVE  journal' = journal /\ acts' = acts /\ old' = old
  BY <1>2, BeginsQuietly
<1>3. ASSUME NEW p \in Req, NEW c \in Coll, CommitCreate(p, c)
      PROVE  Chain' /\ (Seen' = Seen \/ Log!Next)
  BY <1>3, Recorded DEF CommitCreate
<1>4. ASSUME NEW p \in Req, CommitAct(p)
      PROVE  Chain' /\ (Seen' = Seen \/ Log!Next)
  BY <1>4, Recorded DEF CommitAct
<1>5. ASSUME NEW p \in Req, CommitMerge(p)
      PROVE  Chain' /\ (Seen' = Seen \/ Log!Next)
  BY <1>5, Recorded DEF CommitMerge
<1>6. ASSUME NEW p \in Req, CommitDelete(p)
      PROVE  Chain' /\ (Seen' = Seen \/ Log!Next)
  <2>1. PICK d : d = req[p].on
    OBVIOUS
  <2>2. acts' = acts /\ old' = old
        /\ (journal' = journal \/ journal' = [journal EXCEPT ![d] = <<>>])
    BY <1>6, <2>1 DEF CommitDelete
  <2>3. QED
    BY <1>1, <2>2, Emptied
<1>7. ASSUME NEW p \in Req, \/ \E v \in Name : CreateCollection(p, v)
                            \/ Fails(p)
      PROVE  journal' = journal /\ acts' = acts /\ old' = old
  BY <1>7 DEF CreateCollection, Fails
<1>8. CASE Ages
  BY <1>8, Quiet DEF Ages, Chain
<1>9. CASE ExpireRows
  BY <1>9, Expired
<1>10. ASSUME NEW c \in Coll, NEW cascade \in BOOLEAN, NEW i \in DOMAIN journal[c],
              UndoAction(c, i, cascade)
       PROVE  Chain' /\ (Seen' = Seen \/ Log!Next)
  BY <1>10, Undone
<1>11. CASE UNCHANGED vars
  BY <1>1, <1>11 DEF vars
<1>12. QED
  BY <1>1, <1>2, <1>3, <1>4, <1>5, <1>6, <1>7, <1>8, <1>9, <1>10, <1>11 DEF Next

\* ActionJournal implements UndoLog: whatever acts, undos, deletions and runs of
\* retention do, in whatever order, the acts on a subject are a chain that is
\* taken back from its end, and an act taken back or expired stays so
\* (commitChange, undoAction, expireRows).
THEOREM JournalKeepsPromise == Spec => KeepsPromise
<1>1. Init => Chain /\ Log!Init
  BY ChainInit
<1>2. Chain /\ [Next]_vars => Chain' /\ [Log!Next]_Seen
  BY ChainStep
<1>3. Seen = [c \in Coll |-> [i \in DOMAIN journal[c] |-> journal[c][i].st]]
  BY DEF Seen, Statuses
<1>4. QED
  BY <1>1, <1>2, <1>3, PTL DEF Spec, KeepsPromise, Log!Spec, Seen, Statuses

-----------------------------------------------------------------------------
(* The story that the journal tells.                                       *)

\* A row of the collections, with what belongs to it.
Whole(x) == x = [a \in Aspect |-> x[a]] /\ \A a \in Aspect : x[a] \in Values(a)

\* Values for some of the aspects.
Partial(f) == f = [a \in DOMAIN f |-> f[a]] /\ DOMAIN f \subseteq Aspect
              /\ \A a \in DOMAIN f : f[a] \in Values(a)

\* The inverse back leads from y to x.
LeadsBack(op, back, x, y) ==
    /\ DOMAIN back # {}
    /\ \A a \in Aspect : IF a \in DOMAIN back THEN back[a] = x[a] /\ Fits(y, op, a, back[a])
                         ELSE y[a] = x[a]

Reversible(op, back, x, y) ==
    x # y /\ (op = "removeItems" => \A a \in DOMAIN back : x[a] = "published")

\* What a request has read, and what it is going to write.
Asks(r) ==
    /\ r.op \in Acts \cup {"create", "merge", "delete", "none"}
    /\ r.op \in Acts =>
          /\ r.on \in issued /\ Whole(r.seen) /\ Partial(r.set) /\ Partial(r.back)
          /\ LET y == Written(r.seen, r.op, r.set)
             IN  Reversible(r.op, r.back, r.seen, y) => LeadsBack(r.op, r.back, r.seen, y)
    /\ r.op = "merge" =>
          /\ r.on \in issued /\ r.loser \in issued /\ r.on # r.loser
          /\ Whole(r.seen) /\ Whole(r.seenLoser) /\ r.seenLoser[Status] = "active"
    /\ r.op = "delete" => r.on \in issued
    /\ r.op = "create" => r.set[Title] \in Name

Shaped(row) ==
    {"id", "op", "back", "lost", "dropped", "st", "was", "now", "fresh"} \subseteq DOMAIN row

\* A row of the journal.
Told(row) ==
    /\ row.op \in Acts \cup {"create", "merge"}
    /\ Partial(row.back)
    /\ row.op \in Acts /\ Invertible(row) =>
          Whole(row.was) /\ Whole(row.now) /\ LeadsBack(row.op, row.back, row.was, row.now)
    /\ row.op = "create" => row.was = Gone /\ Whole(row.now)
    /\ row.op = "merge" =>
          /\ Whole(row.lost)
          /\ row.fresh =>
                /\ Whole(row.was) /\ row.lost[Status] = "active"
                /\ row.now = [a \in Aspect |-> IF a \in Items \ row.dropped /\ row.lost[a] # "none"
                                               THEN row.lost[a] ELSE row.was[a]]
                /\ \A a \in Items \ row.dropped : row.lost[a] # "none" => row.was[a] = "none"

Effective(s) == {i \in DOMAIN s : s[i].st # "undone"}

\* What the acts S of a chain leave.
Left(s, S) ==
    IF S = {} THEN s[1].was ELSE s[CHOOSE i \in S : \A j \in S : j <= i].now

Explained(s, x) ==
    (x # Gone /\ s # <<>> /\ \A i \in DOMAIN s : Invertible(s[i])) =>
        /\ x = Left(s, Effective(s))
        /\ \A i \in Effective(s) : s[i].was = Left(s, {j \in Effective(s) : j < i})

\* What has expired is the beginning of a chain.
OldestExpired(s) == \A i, j \in DOMAIN s : i < j /\ s[i].st = "applied" => s[j].st # "expired"

Collections ==
    /\ col = [c \in Coll |-> col[c]]
    /\ issued \subseteq Coll
    /\ \A c \in Coll : col[c] = Gone \/ (c \in issued /\ Whole(col[c]))
    /\ \A c \in Coll \ issued : journal[c] = <<>>
    /\ IndexHolds(col)

History ==
    /\ Chain /\ acts <= MaxActs /\ old <= acts
    /\ \A c \in Coll :
          /\ \A i \in DOMAIN journal[c] : Shaped(journal[c][i]) /\ Told(journal[c][i])
          /\ OldestExpired(journal[c])
          /\ Explained(journal[c], col[c])

Requests == req = [p \in Req |-> req[p]] /\ \A p \in Req : Asks(req[p])

Story == Collections /\ History /\ Requests

-----------------------------------------------------------------------------
(* The values of the aspects.                                              *)

\* No two aspects are one.
LEMMA AspectsDiffer ==
    /\ Title # Pinned /\ Title # Mode /\ Title # Status /\ Pinned # Mode /\ Pinned # Status
          /\ Mode # Status
    /\ {Title, Pinned, Mode, Status} \cap (Items \cup Grants) = {}
    /\ Items \cap Grants = {}
BY DEF Title, Pinned, Mode, Status, Items, Grants, Item, Grant

\* The values of each of them.
LEMMA ValuesOf ==
    /\ Values(Title) = Name /\ Values(Pinned) = {"yes", "no"} /\ Values(Mode) = {"ask", "auto"}
    /\ Values(Status) = {"active", "archived"}
    /\ \A a \in Items : Values(a) = {"none", "held", "published"}
    /\ \A a \in Grants : Values(a) = {"none", "viewer", "editor"}
BY AspectsDiffer DEF Values

\* A row of the collections is not Gone.
LEMMA WholeNotGone == ~Whole(Gone)
<1>1. ASSUME Whole(Gone) PROVE Gone \in [Aspect -> UNION {Values(a) : a \in Aspect}]
  BY <1>1 DEF Whole
<1> QED BY <1>1, GoneAssumption

\* A value for one aspect.
LEMMA PartialOne ==
    ASSUME NEW a \in Aspect, NEW v \in Values(a)
    PROVE  Partial(One(a, v)) /\ DOMAIN One(a, v) = {a} /\ One(a, v)[a] = v
BY DEF Partial, One

\* What an act writes.
LEMMA WrittenWhole ==
    ASSUME NEW x, Whole(x), NEW op, NEW set, Partial(set)
    PROVE  Whole(Written(x, op, set))
BY DEF Whole, Written, Partial

-----------------------------------------------------------------------------
(* The inverse that each act writes down from what it has read.            *)

Undoes(op, x, set, back) ==
    /\ Partial(set) /\ Partial(back)
    /\ Reversible(op, back, x, Written(x, op, set)) => LeadsBack(op, back, x, Written(x, op, set))

\* An act on one aspect, whose inverse gives back what it has read, unless that
\* is what the act writes.
LEMMA InverseOne ==
    ASSUME NEW x, Whole(x), NEW a \in Aspect, NEW v \in Values(a), NEW b \in Values(a), NEW op,
           op # "addItems", op # "removeItems", a \in Items => op = "publish" /\ v # "none",
           a \in Grants /\ b = "none" => v # "none",
           x[a] # v /\ (op = "publish" => x[a] # "none") => b = x[a]
    PROVE  Undoes(op, x, One(a, v), One(a, b))
<1> DEFINE y == Written(x, op, One(a, v))
<1>1. Partial(One(a, v)) /\ Partial(One(a, b)) /\ DOMAIN One(a, v) = {a} /\ DOMAIN One(a, b) = {a}
      /\ One(a, v)[a] = v /\ One(a, b)[a] = b
  BY PartialOne
<1>2. y = [e \in Aspect |-> IF e # a \/ (op = "publish" /\ x[e] = "none") THEN x[e] ELSE v]
  BY <1>1 DEF Written
<1>3. Whole(y)
  BY <1>1, WrittenWhole
<1>4. y # Gone
  BY <1>3, WholeNotGone
<1> HIDE DEF y
<1>5. ASSUME x # y PROVE LeadsBack(op, One(a, b), x, y)
  <2>1. x[a] # v /\ (op = "publish" => x[a] # "none")
    BY <1>2, <1>5 DEF Whole
  <2>2. y[a] = v /\ b = x[a]
    BY <1>2, <2>1
  <2>3. Fits(y, op, a, b)
    BY <1>4, <2>1, <2>2, AspectsDiffer DEF Fits
  <2> QED BY <1>1, <1>2, <2>2, <2>3 DEF LeadsBack
<1> QED BY <1>1, <1>5 DEF Undoes, Reversible, y

\* Members that are added were not there.
LEMMA InverseAdd ==
    ASSUME NEW x, Whole(x), NEW S \in SUBSET Items, \A a \in S : x[a] = "none",
           NEW v \in {"held", "published"}
    PROVE  Undoes("addItems", x, [a \in S |-> v], [a \in S |-> "none"])
<1> DEFINE y == Written(x, "addItems", [a \in S |-> v])
           set == [a \in S |-> v]
           back == [a \in S |-> "none"]
<1>1. Items \subseteq Aspect /\ \A a \in Items : v \in Values(a) /\ "none" \in Values(a)
  BY ValuesOf DEF Aspect
<1>2. Partial(set) /\ Partial(back) /\ DOMAIN back = S
  BY <1>1 DEF Partial
<1>3. y = [e \in Aspect |-> IF e \in S THEN v ELSE x[e]]
  BY <1>1 DEF Written
<1>4. y # Gone
  BY <1>2, WrittenWhole, WholeNotGone
<1> HIDE DEF y
<1>5. ASSUME x # y PROVE S # {}
  BY <1>3, <1>5 DEF Whole
<1>6. \A a \in S : y[a] = v /\ back[a] = x[a] /\ back[a] = "none"
  BY <1>1, <1>3
<1>7. \A a \in S : Fits(y, "addItems", a, back[a])
  BY <1>4, <1>6 DEF Fits
<1> QED BY <1>2, <1>3, <1>5, <1>6, <1>7 DEF Undoes, Reversible, LeadsBack, y

\* Members that are removed come back published.
LEMMA InverseRemove ==
    ASSUME NEW x, Whole(x), NEW S \in SUBSET Items, \A a \in S : x[a] # "none"
    PROVE  Undoes("removeItems", x, [a \in S |-> "none"], [a \in S |-> "published"])
<1> DEFINE set == [a \in S |-> "none"]
           back == [a \in S |-> "published"]
           y == Written(x, "removeItems", set)
<1>1. Items \subseteq Aspect /\ \A a \in Items : "published" \in Values(a) /\ "none" \in Values(a)
  BY ValuesOf DEF Aspect
<1>2. Partial(set) /\ Partial(back) /\ DOMAIN back = S
  BY <1>1 DEF Partial
<1>3. y = [e \in Aspect |-> IF e \in S THEN "none" ELSE x[e]]
  BY <1>1 DEF Written
<1>4. y # Gone
  BY <1>2, WrittenWhole, WholeNotGone
<1> HIDE DEF y
<1>5. ASSUME x # y PROVE S # {}
  BY <1>3, <1>5 DEF Whole
<1>6. \A a \in S : y[a] = "none" /\ back[a] = "published"
  BY <1>1, <1>3
<1>7. \A a \in S : Fits(y, "removeItems", a, back[a])
  BY <1>4, <1>6 DEF Fits
<1> QED BY <1>2, <1>3, <1>5, <1>6, <1>7 DEF Undoes, Reversible, LeadsBack, y

\* A column and a grant in one act.
LEMMA InverseProperties ==
    ASSUME NEW x, Whole(x), NEW a \in {Title, Pinned, Mode}, NEW g \in Grants,
           NEW v \in Values(a), NEW role \in Values(g), v # x[a], role # x[g]
    PROVE  Undoes("properties", x, [e \in {a, g} |-> IF e = a THEN v ELSE role],
                   [e \in {a, g} |-> x[e]])
<1> DEFINE set == [e \in {a, g} |-> IF e = a THEN v ELSE role]
           back == [e \in {a, g} |-> x[e]]
           y == Written(x, "properties", set)
<1>1. a # g /\ a \in Aspect /\ g \in Aspect /\ a \notin Items /\ g \notin Items /\ a \notin Grants
  BY AspectsDiffer DEF Aspect
<1>2. Partial(set) /\ Partial(back) /\ DOMAIN back = {a, g}
  BY <1>1 DEF Partial, Whole
<1>3. y = [e \in Aspect |-> IF e = a THEN v ELSE IF e = g THEN role ELSE x[e]]
  BY <1>1 DEF Written
<1>4. y # Gone
  BY <1>2, WrittenWhole, WholeNotGone
<1> HIDE DEF y
<1>5. y[a] = v /\ y[g] = role
  BY <1>1, <1>3
<1>6. Fits(y, "properties", a, back[a]) /\ Fits(y, "properties", g, back[g])
  BY <1>1, <1>4, <1>5 DEF Fits
<1> QED BY <1>2, <1>3, <1>6 DEF Undoes, LeadsBack, y

-----------------------------------------------------------------------------
(* What a request that begins asks for.                                    *)

LEMMA AsksOfInverse ==
    ASSUME NEW op \in Acts, NEW c \in issued, NEW x, Whole(x), NEW set, NEW back,
           Undoes(op, x, set, back)
    PROVE  Asks([Idle EXCEPT !.op = op, !.on = c, !.set = set, !.back = back, !.seen = x])
<1>1. PICK r : r = [Idle EXCEPT !.op = op, !.on = c, !.set = set, !.back = back, !.seen = x]
  OBVIOUS
<1>2. r.op = op /\ r.on = c /\ r.set = set /\ r.back = back /\ r.seen = x
  BY <1>1 DEF Idle
<1>3. op \notin {"create", "merge", "delete", "none"}
  BY DEF Acts
<1>4. Asks(r)
  BY <1>2, <1>3 DEF Asks, Undoes
<1> QED BY <1>1, <1>4

\* A request that begins or ends, and the others, which go on as before.
LEMMA OneRequest ==
    ASSUME Requests, NEW p \in Req, NEW r, Asks(r), req' = [req EXCEPT ![p] = r],
           issued \subseteq issued'
    PROVE  Requests'
<1>1. req' = [q \in Req |-> IF q = p THEN r ELSE req[q]]
  BY DEF Requests
<1>2. \A x : Asks(x) => Asks(x)'
  BY DEF Asks
<1>3. \A q \in Req : Asks(req[q])'
  BY <1>1, <1>2 DEF Requests
<1>4. req' = [q \in Req |-> req'[q]]
  BY <1>1
<1> QED BY <1>3, <1>4 DEF Requests

\* Reading, for an act whose inverse leads back from what the act will write.
LEMMA ReadsAsks ==
    ASSUME Collections, Requests, NEW p \in Req, NEW c \in Coll, col[c] # Gone,
           NEW op \in Acts, NEW set, NEW back, Reads(p, op, c, set, back),
           Whole(col[c]) => Undoes(op, col[c], set, back)
    PROVE  Requests'
<1>1. c \in issued /\ Whole(col[c]) /\ issued' = issued
  BY DEF Collections, Reads
<1>2. Asks([Idle EXCEPT !.op = op, !.on = c, !.set = set, !.back = back, !.seen = col[c]])
  BY <1>1, AsksOfInverse
<1>3. PICK r : r = [Idle EXCEPT !.op = op, !.on = c, !.set = set, !.back = back, !.seen = col[c]]
  OBVIOUS
<1>4. req' = [req EXCEPT ![p] = r] /\ Asks(r)
  BY <1>2, <1>3 DEF Reads
<1> QED BY <1>1, <1>4, OneRequest

\* Whatever a request begins, the inverse it has written down fits.
LEMMA StartsAsks ==
    ASSUME Collections, Requests, NEW p \in Req, NEW c \in Coll, col[c] # Gone, Starts(p, c)
    PROVE  Requests'
<1>1. Whole(col[c]) /\ c \in issued
  BY DEF Collections
<1>2. {Title, Pinned, Mode, Status} \subseteq Aspect /\ Items \subseteq Aspect
      /\ Grants \subseteq Aspect
  BY DEF Aspect
<1>3. \A a \in Aspect : col[c][a] \in Values(a)
  BY <1>1 DEF Whole
<1>4. ASSUME NEW v \in Name, Rename(p, c, v) PROVE Requests'
  <2>1. Undoes("rename", col[c], One(Title, v), One(Title, col[c][Title]))
    BY <1>1, <1>2, <1>3, AspectsDiffer, ValuesOf, InverseOne
  <2> QED BY <1>4, <2>1, ReadsAsks DEF Rename, Acts
<1>5. ASSUME NEW b \in Values(Pinned), SetPinned(p, c, b) PROVE Requests'
  <2>1. Other(b) \in Values(Pinned) /\ (col[c][Pinned] # b => Other(b) = col[c][Pinned])
    BY <1>2, <1>3, ValuesOf DEF Other
  <2>2. Undoes("pin", col[c], One(Pinned, b), One(Pinned, Other(b)))
    BY <1>1, <1>2, <2>1, AspectsDiffer, InverseOne
  <2> QED BY <1>5, <2>2, ReadsAsks DEF SetPinned, Acts
<1>6. ASSUME NEW m \in Values(Mode), SetPublishMode(p, c, m) PROVE Requests'
  <2>1. Undoes("mode", col[c], One(Mode, m), One(Mode, col[c][Mode]))
    BY <1>1, <1>2, <1>3, AspectsDiffer, InverseOne
  <2> QED BY <1>6, <2>1, ReadsAsks DEF SetPublishMode, Acts
<1>7. CASE Archive(p, c)
  <2>1. Undoes("archive", col[c], One(Status, "archived"), One(Status, "active"))
    BY <1>1, <1>2, <1>3, AspectsDiffer, ValuesOf, InverseOne
  <2> QED BY <1>7, <2>1, ReadsAsks DEF Archive, Acts
<1>8. CASE Restore(p, c)
  <2>1. Undoes("restore", col[c], One(Status, "active"), One(Status, "archived"))
    BY <1>1, <1>2, <1>3, AspectsDiffer, ValuesOf, InverseOne
  <2> QED BY <1>8, <2>1, ReadsAsks DEF Restore, Acts
<1>9. CASE DeletePermanent(p, c)
  <2>1. Reads(p, "delete", c, Nothing, Nothing)
    BY <1>9 DEF DeletePermanent
  <2>2. PICK r : r = [Idle EXCEPT !.op = "delete", !.on = c, !.set = Nothing, !.back = Nothing,
                                  !.seen = col[c]]
    OBVIOUS
  <2>3. r.op = "delete" /\ r.on = c /\ "delete" \notin Acts
    BY <2>2 DEF Idle, Acts
  <2>4. req' = [req EXCEPT ![p] = r] /\ issued' = issued
    BY <2>1, <2>2 DEF Reads
  <2>5. Asks(r)
    BY <1>1, <2>3 DEF Asks
  <2> QED BY <2>4, <2>5, OneRequest
<1>10. ASSUME NEW S \in SUBSET Node, AddItems(p, c, S) PROVE Requests'
  <2> DEFINE new == {Item(n) : n \in {n \in S : col[c][Item(n)] = "none"}}
             v == IF col[c][Mode] = "auto" THEN "published" ELSE "held"
  <2>1. new \in SUBSET Items /\ \A a \in new : col[c][a] = "none"
    BY DEF Items
  <2>2. v \in {"held", "published"}
    OBVIOUS
  <2>3. Undoes("addItems", col[c], [a \in new |-> v], [a \in new |-> "none"])
    <3> HIDE DEF new, v
    <3> QED BY <1>1, <2>1, <2>2, InverseAdd
  <2>4. Reads(p, "addItems", c, [a \in new |-> v], [a \in new |-> "none"])
    BY <1>10 DEF AddItems
  <2> HIDE DEF new, v
  <2> QED BY <2>3, <2>4, ReadsAsks DEF Acts
<1>11. ASSUME NEW S \in SUBSET Node, RemoveItems(p, c, S) PROVE Requests'
  <2> DEFINE there == {Item(n) : n \in {n \in S : col[c][Item(n)] # "none"}}
  <2>1. there \in SUBSET Items /\ \A a \in there : col[c][a] # "none"
    BY DEF Items
  <2>2. Reads(p, "removeItems", c, [a \in there |-> "none"], [a \in there |-> "published"])
    BY <1>11 DEF RemoveItems
  <2> HIDE DEF there
  <2>3. Undoes("removeItems", col[c], [a \in there |-> "none"], [a \in there |-> "published"])
    BY <1>1, <2>1, InverseRemove
  <2> QED BY <2>2, <2>3, ReadsAsks DEF Acts
<1>12. ASSUME NEW n \in Node, NEW b \in {"held", "published"}, Publish(p, c, n, b) PROVE Requests'
  <2>1. Item(n) \in Items /\ Item(n) \in Aspect /\ Item(n) \notin Grants
    BY <1>2, AspectsDiffer DEF Items
  <2>2. b \in Values(Item(n)) /\ Other(b) \in Values(Item(n)) /\ b # "none"
    BY <2>1, ValuesOf DEF Other
  <2>3. col[c][Item(n)] \in {"none", "held", "published"}
    BY <1>3, <2>1, ValuesOf
  <2>4. col[c][Item(n)] # b /\ col[c][Item(n)] # "none" => Other(b) = col[c][Item(n)]
    BY <2>3 DEF Other
  <2>5. Undoes("publish", col[c], One(Item(n), b), One(Item(n), Other(b)))
    BY <1>1, <2>1, <2>2, <2>4, InverseOne
  <2> QED BY <1>12, <2>5, ReadsAsks DEF Publish, Acts
<1>13. ASSUME NEW u \in User, RevokeAccess(p, c, u) PROVE Requests'
  <2>1. Grant(u) \in Grants /\ Grant(u) \in Aspect /\ Grant(u) \notin Items
    BY <1>2, AspectsDiffer DEF Grants
  <2>2. "none" \in Values(Grant(u)) /\ col[c][Grant(u)] \in Values(Grant(u))
    BY <1>3, <2>1, ValuesOf
  <2>3. col[c][Grant(u)] # "none"
    BY <1>13 DEF RevokeAccess
  <2>4. Undoes("revoke", col[c], One(Grant(u), "none"), One(Grant(u), col[c][Grant(u)]))
    BY <1>1, <2>1, <2>2, <2>3, InverseOne
  <2> QED BY <1>13, <2>4, ReadsAsks DEF RevokeAccess, Acts
<1>14. ASSUME NEW u \in User, NEW role \in {"viewer", "editor"}, GrantAccess(p, c, u, role)
       PROVE  Requests'
  <2>1. Grant(u) \in Grants /\ Grant(u) \in Aspect /\ Grant(u) \notin Items
    BY <1>2, AspectsDiffer DEF Grants
  <2>2. role \in Values(Grant(u)) /\ col[c][Grant(u)] \in Values(Grant(u)) /\ role # "none"
    BY <1>3, <2>1, ValuesOf
  <2>3. Undoes("grant", col[c], One(Grant(u), role), One(Grant(u), col[c][Grant(u)]))
    BY <1>1, <2>1, <2>2, InverseOne
  <2> QED BY <1>14, <2>3, ReadsAsks DEF GrantAccess, Acts
<1>15. ASSUME NEW u \in User, NEW a \in {Title, Pinned, Mode}, NEW v \in Values(a),
              NEW role \in Values(Grant(u)), UpdateProperties(p, c, a, v, u, role)
       PROVE  Requests'
  <2>1. Grant(u) \in Grants
    BY DEF Grants
  <2>2. v # col[c][a] /\ role # col[c][Grant(u)]
    BY <1>15 DEF UpdateProperties
  <2>3. Undoes("properties", col[c], [x \in {a, Grant(u)} |-> IF x = a THEN v ELSE role],
                [x \in {a, Grant(u)} |-> col[c][x]])
    BY <1>1, <2>1, <2>2, InverseProperties
  <2> QED BY <1>15, <2>3, ReadsAsks DEF UpdateProperties, Acts
<1>16. ASSUME NEW l \in Coll, MergeCollections(p, c, l) PROVE Requests'
  <2>1. PICK r : r = [Idle EXCEPT !.op = "merge", !.on = c, !.loser = l,
                                  !.seen = col[c], !.seenLoser = col[l]]
    OBVIOUS
  <2>2. req' = [req EXCEPT ![p] = r] /\ issued' = issued /\ c # l /\ Active(col[l])
    BY <1>16, <2>1 DEF MergeCollections
  <2>3. /\ r.op = "merge" /\ r.on = c /\ r.loser = l /\ r.seen = col[c] /\ r.seenLoser = col[l]
        /\ "merge" \notin Acts
    BY <2>1 DEF Idle, Acts
  <2>4. l \in issued /\ Whole(col[l]) /\ col[l][Status] = "active"
    BY <2>2 DEF Collections, Active
  <2>5. Asks(r)
    BY <1>1, <2>2, <2>3, <2>4 DEF Asks
  <2> QED BY <2>2, <2>5, OneRequest
<1> QED BY <1>4, <1>5, <1>6, <1>7, <1>8, <1>9, <1>10, <1>11, <1>12, <1>13, <1>14, <1>15, <1>16
        DEF Starts

-----------------------------------------------------------------------------
(* The acts in effect, and the last of them.                               *)

\* A set of naturals has a least element.
LEMMA LeastElement ==
    ASSUME NEW S, S \subseteq Nat, S # {}
    PROVE  \E m \in S : \A v \in S : m <= v
<1>1. PICK m \in S : \A v \in S : ~(<<v, m>> \in OpToRel(<, Nat))
  BY NatLessThanWellFounded, WFMin
<1>2. \A x, y \in Nat : x < y => <<x, y>> \in OpToRel(<, Nat)
  BY DEF OpToRel
<1>3. \A v \in S : ~(v < m)
  BY <1>1, <1>2
<1> QED BY <1>3

\* Some of the rows have a last one.
LEMMA LastOne ==
    ASSUME NEW n \in Nat, NEW T, T \subseteq 1..n, T # {}
    PROVE  \E m \in T : \A j \in T : j <= m
<1> DEFINE S == {n - i : i \in T}
<1>1. S \subseteq Nat /\ S # {}
  <2>1. \A i \in T : n - i \in Nat
    OBVIOUS
  <2>2. PICK i : i \in T
    OBVIOUS
  <2>3. n - i \in S
    BY <2>2
  <2> QED BY <2>1, <2>3
<1>2. PICK v \in S : \A u \in S : v <= u
  <2> HIDE DEF S
  <2> QED BY <1>1, LeastElement
<1>3. PICK m \in T : v = n - m
  OBVIOUS
<1>4. ASSUME NEW j \in T PROVE j <= m
  <2>1. v <= n - j
    BY <1>2
  <2> QED BY <1>3, <2>1
<1> QED BY <1>4

\* What holds of the end, and of each row when of the one after it, holds of all.
LEMMA Descends ==
    ASSUME NEW n \in Nat, NEW G, n + 1 \in G, \A i \in 1..n : i + 1 \in G => i \in G
    PROVE  1..(n + 1) \subseteq G
<1>1. SUFFICES ASSUME NEW k \in 1..(n + 1), k \notin G PROVE FALSE
  OBVIOUS
<1> DEFINE T == {i \in 1..n : i \notin G}
<1>2. k \in T /\ T \subseteq 1..n
  <2>1. k # n + 1
    BY <1>1
  <2>2. k \in 1..n
    BY <2>1
  <2> QED BY <1>1, <2>2
<1>3. PICK m \in T : \A j \in T : j <= m
  <2> HIDE DEF T
  <2> QED BY <1>2, LastOne
<1>4. m + 1 \notin G /\ m \in 1..n
  OBVIOUS
<1>5. m + 1 \in T
  BY <1>4
<1> QED BY <1>3, <1>4, <1>5

\* The last of some acts is what they leave.
LEMMA LeftLast ==
    ASSUME NEW s, NEW T, T \subseteq Nat, NEW m \in T, \A j \in T : j <= m
    PROVE  Left(s, T) = s[m].now
<1>1. \A i \in T : (\A j \in T : j <= i) => i = m
  OBVIOUS
<1>2. (CHOOSE i \in T : \A j \in T : j <= i) = m
  BY <1>1
<1> QED BY <1>2 DEF Left

\* It does not depend on the statuses, nor on the rows that follow.
LEMMA LeftSame ==
    ASSUME NEW n \in Nat \ {0}, NEW s, NEW t, NEW T \in SUBSET (1..n),
           \A i \in 1..n : t[i].was = s[i].was /\ t[i].now = s[i].now
    PROVE  Left(t, T) = Left(s, T)
<1>1. CASE T = {}
  BY <1>1 DEF Left
<1>2. CASE T # {}
  <2>1. PICK m \in T : \A j \in T : j <= m
    BY <1>2, LastOne
  <2>2. T \subseteq Nat
    OBVIOUS
  <2>3. Left(t, T) = t[m].now /\ Left(s, T) = s[m].now
    BY <2>1, <2>2, LeftLast
  <2> QED BY <2>3
<1> QED BY <1>1, <1>2

\* An act more, that starts from what the others have left.
LEMMA ExplainedAppend ==
    ASSUME NEW S, NEW s \in Seq(S), NEW r, r.st = "applied", NEW x, Explained(s, x),
           r.was = x, x = Gone => s = <<>> \/ r.now = Gone
    PROVE  Explained(Append(s, r), r.now)
<1> DEFINE n == Len(s)
           t == Append(s, r)
<1>1. n \in Nat /\ DOMAIN s = 1..n
  BY LenProperties
<1>2. DOMAIN t = 1..(n + 1) /\ t[n + 1] = r /\ \A i \in 1..n : t[i] = s[i]
  <2>1. s \in Seq(S \cup {r}) /\ r \in S \cup {r}
    BY SeqMonotonic
  <2>2. t \in Seq(S \cup {r}) /\ Len(t) = n + 1 /\ t[n + 1] = r /\ \A i \in 1..n : t[i] = s[i]
    BY <1>1, <2>1, AppendProperties
  <2> QED BY <2>2, LenProperties
<1> HIDE DEF n, t
<1>3. SUFFICES ASSUME r.now # Gone, \A i \in DOMAIN t : Invertible(t[i])
               PROVE  /\ r.now = Left(t, Effective(t))
                      /\ \A i \in Effective(t) : t[i].was = Left(t, {j \in Effective(t) : j < i})
  BY DEF Explained, t
<1>4. Effective(s) \subseteq 1..n /\ Effective(t) = Effective(s) \cup {n + 1}
  <2>1. \A i : i \in Effective(s) <=> i \in 1..n /\ s[i].st # "undone"
    BY <1>1 DEF Effective
  <2>2. \A i : i \in Effective(t) <=> i \in 1..(n + 1) /\ t[i].st # "undone"
    BY <1>2 DEF Effective
  <2>3. n + 1 \in Effective(t)
    BY <1>1, <1>2, <2>2
  <2>4. \A i \in 1..n : i \in Effective(t) <=> i \in Effective(s)
    BY <1>1, <1>2, <2>1, <2>2
  <2>5. 1..(n + 1) = 1..n \cup {n + 1}
    BY <1>1
  <2> QED BY <2>1, <2>2, <2>3, <2>4, <2>5
<1>5. r.now = Left(t, Effective(t))
  <2>1. \A j \in Effective(t) : j <= n + 1
    BY <1>1, <1>4
  <2>2. Left(t, Effective(t)) = t[n + 1].now
    BY <1>1, <1>4, <2>1, LeftLast
  <2> QED BY <1>2, <2>2
<1>6. {j \in Effective(t) : j < n + 1} = Effective(s)
  BY <1>1, <1>4
<1>7. CASE n = 0
  <2>1. Effective(s) = {} /\ Effective(t) = {1} /\ t[1] = r
    BY <1>1, <1>2, <1>4, <1>7
  <2>2. s = <<>>
    BY <1>7, EmptySeq DEF n
  <2>3. {j \in Effective(t) : j < 1} = {}
    BY <2>1
  <2>4. Left(t, {}) = r.was
    BY <2>1 DEF Left
  <2> QED BY <1>5, <2>1, <2>3, <2>4
<1>8. CASE n # 0
  <2>1. s # <<>> /\ n \in Nat \ {0}
    BY <1>1, <1>8, EmptySeq DEF n
  <2>2. \A i \in DOMAIN s : Invertible(s[i])
    BY <1>1, <1>2, <1>3
  <2>3. x # Gone
    BY <1>3, <2>1
  <2>4. x = Left(s, Effective(s))
        /\ \A i \in Effective(s) : s[i].was = Left(s, {j \in Effective(s) : j < i})
    BY <2>1, <2>2, <2>3 DEF Explained
  <2>5. \A T \in SUBSET (1..n) : Left(t, T) = Left(s, T)
    BY <1>2, <2>1, LeftSame
  <2>6. ASSUME NEW i \in Effective(t) PROVE t[i].was = Left(t, {j \in Effective(t) : j < i})
    <3>1. CASE i = n + 1
      BY <1>2, <1>4, <1>6, <2>4, <2>5, <3>1
    <3>2. CASE i \in Effective(s)
      <4>1. {j \in Effective(t) : j < i} = {j \in Effective(s) : j < i}
        BY <1>1, <1>4, <3>2
      <4>2. {j \in Effective(s) : j < i} \in SUBSET (1..n)
        BY <1>4
      <4> QED BY <1>2, <1>4, <2>4, <2>5, <3>2, <4>1, <4>2
    <3> QED BY <1>4, <3>1, <3>2
  <2> QED BY <1>5, <2>6
<1> QED BY <1>1, <1>7, <1>8

-----------------------------------------------------------------------------
(* The transactions.                                                       *)

\* A row more, for the collection as the transaction has found and left it.
LEMMA RecordedHistory ==
    ASSUME History, Chain', old' = old, NEW c \in Coll,
           NEW op, NEW back, NEW lost, NEW dropped, NEW was, NEW now, NEW fresh,
           Records(c, op, back, lost, dropped, was, now, fresh),
           \A r : /\ r.op = op /\ r.back = back /\ r.lost = lost /\ r.dropped = dropped
                  /\ r.was = was /\ r.now = now /\ r.fresh = fresh
                  => Told(r),
           was = col[c], col'[c] = now, was = Gone => journal[c] = <<>> \/ now = Gone,
           \A d \in Coll \ {c} : col'[d] = col[d] \/ col'[d] = Gone
    PROVE  History'
<1>1. PICK r : r = [id |-> acts + 1, op |-> op, back |-> back, lost |-> lost, dropped |-> dropped,
                    st |-> "applied", was |-> was, now |-> now, fresh |-> fresh]
  OBVIOUS
<1>2. /\ r.op = op /\ r.back = back /\ r.lost = lost /\ r.dropped = dropped /\ r.st = "applied"
      /\ r.was = was /\ r.now = now /\ r.fresh = fresh
  BY <1>1
<1>3. Shaped(r) /\ Told(r)
  BY <1>1, <1>2 DEF Shaped
<1>4. journal' = [journal EXCEPT ![c] = Append(@, r)] /\ acts' = acts + 1 /\ acts < MaxActs
  BY <1>1 DEF Records
<1>5. journal' = [d \in Coll |-> IF d = c THEN Append(journal[c], r) ELSE journal[d]]
  BY <1>4 DEF History, Chain
<1>6. acts \in Nat /\ old \in Nat /\ Rows(journal[c], acts)
  BY DEF History, Chain
<1>7. acts' <= MaxActs /\ old' <= acts'
  BY <1>4, <1>6, BoundAssumption DEF History
<1>8. PICK S : journal[c] \in Seq(S)
  BY <1>6 DEF Rows
<1>9. Explained(Append(journal[c], r), now)
  BY <1>2, <1>8, ExplainedAppend DEF History
<1>10. /\ \A i \in DOMAIN Append(journal[c], r) :
             Shaped(Append(journal[c], r)[i]) /\ Told(Append(journal[c], r)[i])
       /\ OldestExpired(Append(journal[c], r))
  <2> DEFINE s == journal[c]
             t == Append(s, r)
             n == Len(s)
  <2>1. n \in Nat /\ DOMAIN s = 1..n
    BY <1>8, LenProperties
  <2>2. DOMAIN t = 1..(n + 1) /\ t[n + 1] = r /\ \A i \in 1..n : t[i] = s[i]
    <3>1. s \in Seq(S \cup {r}) /\ r \in S \cup {r}
      BY <1>8, SeqMonotonic
    <3>2. t \in Seq(S \cup {r}) /\ Len(t) = n + 1 /\ t[n + 1] = r /\ \A i \in 1..n : t[i] = s[i]
      BY <2>1, <3>1, AppendProperties
    <3> QED BY <3>2, LenProperties
  <2>3. (\A i \in DOMAIN s : Shaped(s[i]) /\ Told(s[i])) /\ OldestExpired(s)
    BY DEF History
  <2> HIDE DEF n, t, s
  <2>4. \A i \in DOMAIN t : i \in 1..n \/ i = n + 1
    BY <2>1, <2>2
  <2>5. \A i \in DOMAIN t : Shaped(t[i]) /\ Told(t[i])
    BY <1>3, <2>1, <2>2, <2>3, <2>4
  <2>6. OldestExpired(t)
    <3> SUFFICES ASSUME NEW i \in DOMAIN t, NEW j \in DOMAIN t, i < j, t[i].st = "applied"
                 PROVE  t[j].st # "expired"
      BY DEF OldestExpired
    <3>1. CASE j = n + 1
      BY <1>2, <2>2, <3>1
    <3>2. CASE j \in 1..n
      <4>1. i \in 1..n
        BY <2>1, <2>4, <3>2
      <4> QED BY <2>1, <2>2, <2>3, <3>2, <4>1 DEF OldestExpired
    <3> QED BY <2>4, <3>1, <3>2
  <2> QED BY <2>5, <2>6 DEF t, s
<1>11. ASSUME NEW d \in Coll
       PROVE  /\ \A i \in DOMAIN journal'[d] : Shaped(journal'[d][i]) /\ Told(journal'[d][i])
              /\ OldestExpired(journal'[d])
              /\ Explained(journal'[d], col'[d])
  <2>1. CASE d = c
    BY <1>5, <1>9, <1>10, <2>1
  <2>2. CASE d # c
    <3>1. journal'[d] = journal[d]
      BY <1>5, <2>2
    <3>2. Explained(journal[d], col[d]) /\ Explained(journal[d], Gone)
      BY DEF History, Explained
    <3>3. col'[d] = col[d] \/ col'[d] = Gone
      BY <2>2
    <3>4. (\A i \in DOMAIN journal[d] : Shaped(journal[d][i]) /\ Told(journal[d][i]))
          /\ OldestExpired(journal[d])
      BY DEF History
    <3> QED BY <3>1, <3>2, <3>3, <3>4
  <2> QED BY <2>1, <2>2
<1> QED BY <1>7, <1>11 DEF History

\* The request is done.
LEMMA EndedAsks ==
    ASSUME Requests, NEW p \in Req, Ended(p), issued \subseteq issued'
    PROVE  Requests'
<1>1. PICK r : r = Idle
  OBVIOUS
<1>2. r.op = "none" /\ "none" \notin Acts
  BY <1>1 DEF Idle, Acts
<1>3. Asks(r)
  BY <1>2 DEF Asks
<1> QED BY <1>1, <1>3, OneRequest DEF Ended

\* An act tells of itself what it has done, under its lock (commitChange).
LEMMA CommitActStory ==
    ASSUME Story, Chain', NEW p \in Req, CommitAct(p)
    PROVE  Story'
<1> DEFINE r == req[p]
           c == r.on
           was == col[c]
           now == IF was = Gone THEN Gone ELSE Written(was, r.op, r.set)
           cs == [col EXCEPT ![c] = now]
<1>1. /\ r.op \in Acts /\ IndexHolds(cs) /\ col' = cs /\ Ended(p)
      /\ Records(c, r.op, r.back, Gone, {}, was, now, r.seen = was)
      /\ issued' = issued /\ old' = old
  BY DEF CommitAct
<1>2. Asks(r) /\ col = [d \in Coll |-> col[d]] /\ issued \subseteq Coll
  BY DEF Story, Requests, Collections
<1>3. /\ c \in Coll /\ c \in issued /\ Whole(r.seen) /\ Partial(r.set) /\ Partial(r.back)
      /\ LET y == Written(r.seen, r.op, r.set)
         IN  Reversible(r.op, r.back, r.seen, y) => LeadsBack(r.op, r.back, r.seen, y)
  BY <1>1, <1>2 DEF Asks
<1>4. was = Gone \/ Whole(was)
  BY <1>3 DEF Story, Collections
<1>5. now = Gone \/ Whole(now)
  BY <1>3, <1>4, WrittenWhole
<1>6. ASSUME NEW x, x.op = r.op, x.back = r.back, x.was = was, x.now = now, x.fresh = (r.seen = was)
      PROVE  Told(x)
  <2>1. x.op \in Acts /\ x.op # "create" /\ x.op # "merge"
    BY <1>1, <1>6 DEF Acts
  <2>2. ASSUME Invertible(x) PROVE Whole(was) /\ Whole(now) /\ LeadsBack(x.op, x.back, was, now)
    <3> HIDE DEF now, was
    <3>1. r.seen = was /\ was # now /\ (x.op = "removeItems"
          => \A a \in DOMAIN x.back : was[a] = "published")
      BY <1>6, <2>1, <2>2 DEF Invertible
    <3>2. Whole(was) /\ was # Gone
      BY <1>3, <3>1, WholeNotGone
    <3>3. now = Written(r.seen, r.op, r.set)
      BY <3>1, <3>2 DEF now
    <3>4. Reversible(x.op, x.back, was, now)
      BY <3>1 DEF Reversible
    <3>5. Whole(now)
      BY <1>3, <3>1, <3>2, <3>3, WrittenWhole
    <3> QED BY <1>3, <1>6, <3>1, <3>2, <3>3, <3>4, <3>5
  <2> HIDE DEF now, was
  <2> QED BY <1>3, <1>6, <2>1, <2>2 DEF Told
<1>7. col' = [d \in Coll |-> IF d = c THEN now ELSE col[d]]
  BY <1>1, <1>2
<1>8. was = Gone => now = Gone
  OBVIOUS
<1> HIDE DEF now
<1>9. History'
  <2>1. History /\ was = col[c] /\ col'[c] = now
    BY <1>3, <1>7 DEF Story
  <2>2. \A d \in Coll \ {c} : col'[d] = col[d]
    BY <1>7
  <2> HIDE DEF was, c
  <2>3. \A x : /\ x.op = r.op /\ x.back = r.back /\ x.lost = Gone /\ x.dropped = {}
               /\ x.was = was /\ x.now = now /\ x.fresh = (r.seen = was)
               => Told(x)
    BY <1>6
  <2> HIDE DEF r
  <2> QED BY <1>1, <1>3, <1>8, <2>1, <2>2, <2>3, RecordedHistory
<1>10. journal' = [journal EXCEPT ![c] = journal'[c]]
  BY <1>1, <1>3 DEF Records, Story, History, Chain
<1>11. Collections'
  <2>1. \A d \in Coll : col'[d] = Gone \/ (d \in issued /\ Whole(col'[d]))
    BY <1>3, <1>5, <1>7 DEF Story, Collections
  <2>2. \A d \in Coll \ issued : journal'[d] = <<>>
    BY <1>3, <1>10 DEF Story, Collections, History, Chain
  <2>3. col' = [d \in Coll |-> col'[d]]
    BY <1>7
  <2> QED BY <1>1, <1>2, <2>1, <2>2, <2>3 DEF Collections
<1>12. Requests'
  BY <1>1, EndedAsks DEF Story
<1> QED BY <1>9, <1>11, <1>12 DEF Story

\* A new collection has a value for every aspect.
LEMMA CreatedWhole ==
    ASSUME NEW v \in Name
    PROVE  Whole(Created(v))
<1>1. ASSUME NEW a \in Aspect PROVE Created(v)[a] \in Values(a)
  <2>1. CASE a = Title
    BY <2>1, ValuesOf DEF Created
  <2>2. CASE a = Pinned
    BY <2>2, ValuesOf, AspectsDiffer DEF Created
  <2>3. CASE a = Mode
    BY <2>3, ValuesOf, AspectsDiffer DEF Created
  <2>4. CASE a = Status
    BY <2>4, ValuesOf, AspectsDiffer DEF Created
  <2>5. CASE a \in Items \cup Grants
    BY <2>5, ValuesOf, AspectsDiffer DEF Created
  <2> QED BY <2>1, <2>2, <2>3, <2>4, <2>5 DEF Aspect
<1>2. Created(v) = [a \in Aspect |-> Created(v)[a]]
  BY DEF Created
<1> QED BY <1>1, <1>2 DEF Whole

\* A creation is the first row of its collection.
LEMMA CommitCreateStory ==
    ASSUME Story, Chain', NEW p \in Req, NEW c \in Coll, CommitCreate(p, c)
    PROVE  Story'
<1> DEFINE now == Created(req[p].set[Title])
           cs == [col EXCEPT ![c] = now]
<1>1. /\ req[p].op = "create" /\ c \notin issued /\ IndexHolds(cs) /\ col' = cs /\ Ended(p)
      /\ Records(c, "create", Nothing, Gone, {}, Gone, now, TRUE)
      /\ issued' = issued \cup {c} /\ old' = old
  BY DEF CommitCreate
<1>2. col = [d \in Coll |-> col[d]] /\ issued \subseteq Coll
  BY DEF Story, Collections
<1>3. col[c] = Gone /\ journal[c] = <<>>
  BY <1>1 DEF Story, Collections
<1>4. Whole(now)
  BY <1>1, CreatedWhole DEF Story, Requests, Asks
<1>5. col' = [d \in Coll |-> IF d = c THEN now ELSE col[d]]
  BY <1>1, <1>2
<1> HIDE DEF now, cs
<1>6. Partial(Nothing)
  BY DEF Partial, Nothing
<1>7. ASSUME NEW x, x.op = "create", x.back = Nothing, x.was = Gone, x.now = now
      PROVE  Told(x)
  <2>1. x.op \notin Acts
    BY <1>7 DEF Acts
  <2> QED BY <1>4, <1>6, <1>7, <2>1 DEF Told
<1>8. History'
  <2>1. History /\ Gone = col[c] /\ col'[c] = now /\ \A d \in Coll \ {c} : col'[d] = col[d]
    BY <1>3, <1>5 DEF Story
  <2> QED BY <1>1, <1>3, <1>7, <2>1, RecordedHistory
<1>9. journal' = [journal EXCEPT ![c] = journal'[c]]
  BY <1>1 DEF Records, Story, History, Chain
<1>10. Collections'
  <2>1. \A d \in Coll : col'[d] = Gone \/ (d \in issued' /\ Whole(col'[d]))
    BY <1>1, <1>4, <1>5 DEF Story, Collections
  <2>2. \A d \in Coll \ issued' : journal'[d] = <<>>
    BY <1>1, <1>9 DEF Story, Collections, History, Chain
  <2>3. col' = [d \in Coll |-> col'[d]]
    BY <1>5
  <2> QED BY <1>1, <1>2, <2>1, <2>2, <2>3 DEF Collections
<1>11. Requests'
  BY <1>1, EndedAsks DEF Story
<1> QED BY <1>8, <1>10, <1>11 DEF Story

\* A merge tells what it has moved, and what the loser was.
LEMMA CommitMergeStory ==
    ASSUME Story, Chain', NEW p \in Req, CommitMerge(p)
    PROVE  Story'
<1> DEFINE r == req[p]
           c == r.on
           l == r.loser
           was == col[c]
           found == col[l]
           members == IF found = Gone THEN {} ELSE {a \in Items : found[a] # "none"}
           dropped == IF was = Gone THEN {} ELSE {a \in members : was[a] # "none"}
           now == IF was = Gone THEN Gone
                  ELSE [a \in Aspect |-> IF a \in members \ dropped THEN found[a] ELSE was[a]]
           lost == [a \in Aspect |-> IF a \in Items THEN IF a \in members THEN found[a] ELSE "none"
                                     ELSE r.seenLoser[a]]
           fresh == r.seen = was /\ r.seenLoser = found
<1>1. /\ r.op = "merge" /\ (was = Gone => members = {})
      /\ col' = [col EXCEPT ![c] = now, ![l] = Gone]
      /\ Records(c, "merge", Nothing, lost, dropped, was, now, fresh)
      /\ Ended(p) /\ issued' = issued /\ old' = old
  BY DEF CommitMerge
<1>2. Asks(r) /\ col = [d \in Coll |-> col[d]] /\ issued \subseteq Coll
  BY DEF Story, Requests, Collections
<1>3. /\ c \in Coll /\ c \in issued /\ l \in Coll /\ l \in issued /\ c # l
      /\ Whole(r.seen) /\ Whole(r.seenLoser) /\ r.seenLoser[Status] = "active"
  BY <1>1, <1>2 DEF Asks
<1>4. (was = Gone \/ Whole(was)) /\ (found = Gone \/ Whole(found))
  BY <1>3 DEF Story, Collections
<1>5. /\ Items \subseteq Aspect /\ \A a \in Items : Values(a) = {"none", "held", "published"}
      /\ Status \in Aspect /\ Status \notin Items /\ Title \in Aspect /\ Title \notin Items
  BY AspectsDiffer, ValuesOf DEF Aspect
<1>6. col' = [d \in Coll |-> IF d = c THEN now ELSE IF d = l THEN Gone ELSE col[d]]
  <2> HIDE DEF now, l
  <2> QED BY <1>1, <1>2, <1>3
<1>7. members \subseteq Items /\ \A a \in members : found[a] \in Values(a)
  BY <1>4, <1>5 DEF Whole
<1>8. Whole(lost)
  <2> HIDE DEF members
  <2> QED BY <1>3, <1>5, <1>7 DEF Whole
<1>9. now = Gone \/ Whole(now)
  <2> HIDE DEF members, dropped
  <2> QED BY <1>4, <1>7 DEF Whole
<1>10. was = Gone => now = Gone
  OBVIOUS
<1>11. Partial(Nothing)
  BY DEF Partial, Nothing
<1>12. lost[Status] = "active"
  BY <1>3, <1>5
<1>13. ASSUME fresh
       PROVE  /\ Whole(was)
              /\ now = [a \in Aspect |-> IF a \in Items \ dropped /\ lost[a] # "none"
                                         THEN lost[a] ELSE was[a]]
              /\ \A a \in Items \ dropped : lost[a] # "none" => was[a] = "none"
  <2>1. Whole(was) /\ was # Gone /\ Whole(found) /\ found # Gone
    BY <1>3, <1>13, WholeNotGone
  <2>2. \A a \in Items : lost[a] = IF a \in members THEN found[a] ELSE "none"
    BY <1>5
  <2>3. \A a \in Aspect : a \in members <=> a \in Items /\ found[a] # "none"
    BY <2>1, <1>5
  <2>4. \A a \in Items : lost[a] # "none" <=> a \in members
    BY <2>2, <2>3, <1>5
  <2>5. \A a \in members : lost[a] = found[a]
    BY <1>7, <2>2
  <2>6. \A a \in members : a \in dropped <=> was[a] # "none"
    BY <2>1
  <2>7. now = [a \in Aspect |-> IF a \in members \ dropped THEN found[a] ELSE was[a]]
    BY <2>1
  <2> HIDE DEF members, dropped, lost, now, found, was
  <2> QED BY <1>5, <1>7, <2>1, <2>4, <2>5, <2>6, <2>7
<1> HIDE DEF now, lost, members, dropped, fresh
<1>14. ASSUME NEW x, x.op = "merge", x.back = Nothing, x.was = was, x.now = now, x.lost = lost,
              x.dropped = dropped, x.fresh = fresh
       PROVE  Told(x)
  <2>1. x.op \notin Acts
    BY <1>14 DEF Acts
  <2> HIDE DEF was
  <2> QED BY <1>8, <1>11, <1>12, <1>13, <1>14, <2>1 DEF Told
<1>15. History'
  <2>1. History /\ was = col[c] /\ col'[c] = now
    BY <1>3, <1>6 DEF Story
  <2>2. \A d \in Coll \ {c} : col'[d] = col[d] \/ col'[d] = Gone
    BY <1>6
  <2> HIDE DEF was, c
  <2> QED BY <1>1, <1>3, <1>10, <1>14, <2>1, <2>2, RecordedHistory
<1>16. journal' = [journal EXCEPT ![c] = journal'[c]]
  BY <1>1, <1>3 DEF Records, Story, History, Chain
<1>17. Collections'
  <2>1. \A d \in Coll : col'[d] = Gone \/ (d \in issued /\ Whole(col'[d]))
    BY <1>3, <1>6, <1>9 DEF Story, Collections
  <2>2. \A d \in Coll \ issued : journal'[d] = <<>>
    BY <1>3, <1>16 DEF Story, Collections, History, Chain
  <2>3. col' = [d \in Coll |-> col'[d]]
    BY <1>6
  <2>4. ASSUME NEW d \in Coll, Active(col'[d])
        PROVE  Active(col[d]) /\ col'[d][Title] = col[d][Title]
    <3>1. CASE d = c
      <4>1. col'[d] = now /\ now # Gone /\ was # Gone
        BY <1>6, <1>10, <2>4, <3>1 DEF Active
      <4>2. now = [a \in Aspect |-> IF a \in members \ dropped THEN found[a] ELSE was[a]]
        BY <4>1 DEF now
      <4>3. now[Status] = was[Status] /\ now[Title] = was[Title]
        BY <1>5, <1>7, <4>2
      <4> QED BY <2>4, <3>1, <4>1, <4>3 DEF Active
    <3>2. CASE d # c
      BY <1>6, <2>4, <3>2 DEF Active
    <3> QED BY <3>1, <3>2
  <2>5. IndexHolds(col')
    BY <2>4 DEF IndexHolds, Story, Collections
  <2> QED BY <1>1, <1>2, <2>1, <2>2, <2>3, <2>5 DEF Collections
<1>18. Requests'
  BY <1>1, EndedAsks DEF Story
<1> QED BY <1>15, <1>17, <1>18 DEF Story

\* A deleted collection takes its rows with it.
LEMMA CommitDeleteStory ==
    ASSUME Story, Chain', NEW p \in Req, CommitDelete(p)
    PROVE  Story'
<1> DEFINE c == req[p].on
<1>1. /\ req[p].op = "delete" /\ col' = [col EXCEPT ![c] = Gone]
      /\ journal' = IF col[c] = Gone THEN journal ELSE [journal EXCEPT ![c] = <<>>]
      /\ Ended(p) /\ issued' = issued /\ acts' = acts /\ old' = old
  BY DEF CommitDelete
<1>2. c \in issued /\ c \in Coll
  BY <1>1 DEF Story, Requests, Asks, Collections
<1> HIDE DEF c
<1>3. col' = [d \in Coll |-> IF d = c THEN Gone ELSE col[d]]
  BY <1>1 DEF Story, Collections
<1>4. \A d \in Coll : journal'[d] = journal[d] \/ (d = c /\ journal'[d] = <<>>)
  BY <1>1, <1>2 DEF Story, History, Chain
<1>5. Collections'
  <2>1. \A d \in Coll : Active(col'[d]) => col'[d] = col[d]
    BY <1>3 DEF Active
  <2> QED BY <1>1, <1>2, <1>3, <1>4, <2>1 DEF Story, Collections, IndexHolds
<1>6. ASSUME NEW d \in Coll
      PROVE  /\ \A i \in DOMAIN journal'[d] : Shaped(journal'[d][i]) /\ Told(journal'[d][i])
             /\ OldestExpired(journal'[d]) /\ Explained(journal'[d], col'[d])
  <2>1. CASE d = c
    <3>1. Explained(journal'[d], col'[d])
      BY <1>3, <2>1 DEF Explained
    <3>2. DOMAIN <<>> = {}
      OBVIOUS
    <3> QED BY <1>4, <3>1, <3>2 DEF Story, History, OldestExpired
  <2>2. CASE d # c
    BY <1>3, <1>4, <2>2 DEF Story, History
  <2> QED BY <2>1, <2>2
<1>7. History'
  BY <1>1, <1>6 DEF Story, History
<1>8. Requests'
  BY <1>1, EndedAsks DEF Story
<1> QED BY <1>5, <1>7, <1>8 DEF Story

\* Steps that leave the collections and the journal.
LEMMA UnmovedStory ==
    ASSUME Story, Chain', UNCHANGED <<col, issued, acts, journal>>, old' <= acts, Requests'
    PROVE  Story'
<1>1. Collections'
  BY DEF Story, Collections
<1>2. History'
  BY DEF Story, History
<1> QED BY <1>1, <1>2 DEF Story

-----------------------------------------------------------------------------
(* Retention.                                                              *)

\* A row with another status is the same row.
LEMMA Restated ==
    ASSUME NEW row, Shaped(row), NEW st, NEW t, t = [row EXCEPT !.st = st]
    PROVE  /\ Shaped(t) /\ t.st = st /\ t.was = row.was /\ t.now = row.now /\ t.id = row.id
           /\ Told(row) => Told(t)
           /\ Invertible(t) <=> Invertible(row)
<1>1. /\ t.id = row.id /\ t.op = row.op /\ t.back = row.back /\ t.lost = row.lost
      /\ t.dropped = row.dropped /\ t.st = st /\ t.was = row.was /\ t.now = row.now
      /\ t.fresh = row.fresh /\ Shaped(t)
  BY DEF Shaped
<1>2. Invertible(t) <=> Invertible(row)
  BY <1>1 DEF Invertible
<1>3. Told(row) => Told(t)
  BY <1>1, <1>2 DEF Told
<1> QED BY <1>1, <1>2, <1>3

\* Which rows have expired does not matter to what the acts have made.
LEMMA ExplainedRestated ==
    ASSUME NEW S, NEW s \in Seq(S), NEW t, DOMAIN t = DOMAIN s, s = <<>> => t = <<>>,
           NEW x, Explained(s, x),
           \A i \in DOMAIN s : /\ t[i].was = s[i].was /\ t[i].now = s[i].now
                               /\ Invertible(t[i]) <=> Invertible(s[i])
                               /\ t[i].st = "undone" <=> s[i].st = "undone"
    PROVE  Explained(t, x)
<1>1. Len(s) \in Nat /\ DOMAIN s = 1..Len(s)
  BY LenProperties
<1>2. Effective(t) = Effective(s) /\ Effective(s) \subseteq 1..Len(s)
  BY <1>1 DEF Effective
<1>3. SUFFICES ASSUME x # Gone, t # <<>>, \A i \in DOMAIN t : Invertible(t[i])
               PROVE  /\ x = Left(t, Effective(t))
                      /\ \A i \in Effective(t) : t[i].was = Left(t, {j \in Effective(t) : j < i})
  BY DEF Explained
<1>4. CASE s = <<>>
  BY <1>3, <1>4
<1>5. CASE s # <<>>
  <2>1. Len(s) \in Nat \ {0}
    BY <1>1, <1>5, EmptySeq
  <2>2. x = Left(s, Effective(s))
        /\ \A i \in Effective(s) : s[i].was = Left(s, {j \in Effective(s) : j < i})
    BY <1>3, <1>5 DEF Explained
  <2>3. \A i \in 1..Len(s) : t[i].was = s[i].was /\ t[i].now = s[i].now
    BY <1>1
  <2>4. \A T \in SUBSET (1..Len(s)) : Left(t, T) = Left(s, T)
    <3>1. PICK n \in Nat \ {0} : n = Len(s)
      BY <2>1
    <3>2. \A i \in 1..n : t[i].was = s[i].was /\ t[i].now = s[i].now
      BY <2>3, <3>1
    <3>3. \A T \in SUBSET (1..n) : Left(t, T) = Left(s, T)
      BY ONLY <3>2, n \in Nat \ {0}, LeftSame
    <3> QED BY <3>1, <3>3
  <2>5. \A i : {j \in Effective(s) : j < i} \in SUBSET (1..Len(s))
    BY <1>2
  <2>6. \A i \in Effective(s) : t[i].was = s[i].was
    BY <1>1, <1>2
  <2> QED BY <1>2, <2>2, <2>4, <2>5, <2>6
<1> QED BY <1>4, <1>5

\* Retention changes nothing but the statuses of the oldest rows.
LEMMA ExpireStory ==
    ASSUME Story, Chain', ExpireRows
    PROVE  Story'
<1>1. /\ UNCHANGED <<col, issued, acts, old, req>>
      /\ journal' = [c \in Coll |-> [i \in DOMAIN journal[c] |->
                       IF journal[c][i].st = "applied" /\ PastExpiry(journal[c][i])
                       THEN [journal[c][i] EXCEPT !.st = "expired"] ELSE journal[c][i]]]
  BY DEF ExpireRows
<1>2. ASSUME NEW c \in Coll
      PROVE  /\ \A i \in DOMAIN journal'[c] : Shaped(journal'[c][i]) /\ Told(journal'[c][i])
             /\ OldestExpired(journal'[c])
             /\ Explained(journal'[c], col[c])
             /\ journal[c] = <<>> => journal'[c] = <<>>
  <2> DEFINE s == journal[c]
             t == journal'[c]
  <2>1. t = [i \in DOMAIN s |-> IF s[i].st = "applied" /\ PastExpiry(s[i])
                                THEN [s[i] EXCEPT !.st = "expired"] ELSE s[i]]
    BY <1>1
  <2>2. /\ \A i \in DOMAIN s : Shaped(s[i]) /\ Told(s[i])
        /\ OldestExpired(s) /\ Explained(s, col[c]) /\ Rows(s, acts)
    BY DEF Story, History, Chain
  <2>3. PICK S : s \in Seq(S)
    BY <2>2 DEF Rows
  <2> HIDE DEF s, t
  <2>4. DOMAIN t = DOMAIN s
    BY <2>1
  <2>5. ASSUME NEW i \in DOMAIN s
        PROVE  /\ Shaped(t[i]) /\ Told(t[i]) /\ t[i].was = s[i].was /\ t[i].now = s[i].now
               /\ Invertible(t[i]) <=> Invertible(s[i])
               /\ t[i].st = IF s[i].st = "applied" /\ PastExpiry(s[i]) THEN "expired" ELSE s[i].st
    <3>1. CASE s[i].st = "applied" /\ PastExpiry(s[i])
      <4>1. t[i] = [s[i] EXCEPT !.st = "expired"]
        BY <2>1, <3>1
      <4> QED BY <2>2, <3>1, <4>1, Restated
    <3>2. CASE ~(s[i].st = "applied" /\ PastExpiry(s[i]))
      <4>1. t[i] = s[i]
        BY <2>1, <3>2
      <4> QED BY <2>2, <3>2, <4>1
    <3> QED BY <3>1, <3>2
  <2>6. s = <<>> => t = <<>>
    BY <2>1
  <2>7. OldestExpired(t)
    <3> SUFFICES ASSUME NEW i \in DOMAIN s, NEW j \in DOMAIN s, i < j, t[i].st = "applied",
                        t[j].st = "expired"
                 PROVE  FALSE
      BY <2>4 DEF OldestExpired
    <3>1. s[i].st = "applied" /\ ~PastExpiry(s[i])
      BY <2>5
    <3>2. s[j].st # "expired"
      BY <2>2, <3>1 DEF OldestExpired
    <3>3. PastExpiry(s[j])
      BY <2>5, <3>2
    <3>4. s[i].id < s[j].id /\ s[i].id \in 1..acts /\ s[j].id \in 1..acts
      BY <2>2 DEF Rows, Row
    <3>5. old \in Nat /\ acts \in Nat
      BY DEF Story, History, Chain
    <3> QED BY <3>1, <3>3, <3>4, <3>5 DEF PastExpiry
  <2>8. Explained(t, col[c])
    <3>1. \A i \in DOMAIN s : t[i].st = "undone" <=> s[i].st = "undone"
      BY <2>5
    <3> QED BY <2>2, <2>3, <2>4, <2>5, <2>6, <3>1, ExplainedRestated
  <2> QED BY <2>2, <2>4, <2>5, <2>7, <2>8, <2>6 DEF s, t
<1>3. Collections'
  BY <1>1, <1>2 DEF Story, Collections
<1>4. History'
  BY <1>1, <1>2 DEF Story, History
<1>5. Requests'
  <2>1. req = [p \in Req |-> req[p]] /\ \A p \in Req : Asks(req[p])
    BY DEF Story, Requests
  <2>2. \A x : Asks(x) => Asks(x)'
    BY <1>1 DEF Asks
  <2> QED BY <1>1, <2>1, <2>2 DEF Requests
<1> QED BY <1>3, <1>4, <1>5 DEF Story

-----------------------------------------------------------------------------
(* Undo.                                                                   *)

Start == [col |-> col, issued |-> issued, ok |-> TRUE]

\* The inverse of row i of c, after those of the rows that follow it.
Turn(c, i, w) ==
    LET v == Inverted(c, w, journal[c][i])
    IN  [v EXCEPT !.ok = @ /\ IndexHolds(v.col)]

\* The function that TakenBack is defined by exists.
LEMMA TakenBackSteps ==
    ASSUME NEW c, NEW S, NEW n \in Nat, Len(journal[c]) = n
    PROVE  \E w : /\ w[n + 1] = Start
                  /\ \A i \in 1..n : w[i] = IF i \notin S THEN w[i + 1] ELSE Turn(c, i, w[i + 1])
                  /\ TakenBack(c, S) = w[1]
<1> DEFINE Body(f, i) == IF i = n + 1 THEN Start ELSE IF i \notin S THEN f[i + 1]
                         ELSE Turn(c, i, f[i + 1])
           G == {k \in 1..(n + 1) : \E f : f = [i \in k..(n + 1) |-> Body(f, i)]}
<1>1. n + 1 \in G
  <2>1. PICK f : f = [i \in (n + 1)..(n + 1) |-> Start]
    OBVIOUS
  <2>2. f = [i \in (n + 1)..(n + 1) |-> Body(f, i)]
    BY <2>1
  <2> QED BY <2>2
<1>2. ASSUME NEW k \in 1..n, k + 1 \in G PROVE k \in G
  <2> HIDE DEF Body
  <2>1. PICK f : f = [i \in (k + 1)..(n + 1) |-> Body(f, i)]
    BY <1>2
  <2>2. PICK g : g = [i \in k..(n + 1) |-> IF i = k THEN Body(f, i) ELSE f[i]]
    OBVIOUS
  <2>3. \A i \in (k + 1)..(n + 1) : f[i] = g[i] /\ f[i] = Body(f, i)
    BY <2>1, <2>2
  <2>4. ASSUME NEW i \in k..(n + 1) PROVE Body(f, i) = Body(g, i)
    <3>1. CASE i = n + 1
      BY <3>1 DEF Body
    <3>2. CASE i # n + 1
      <4>1. f[i + 1] = g[i + 1]
        BY <2>3, <3>2
      <4> QED BY <3>2, <4>1 DEF Body
    <3> QED BY <3>1, <3>2
  <2>5. ASSUME NEW i \in k..(n + 1) PROVE g[i] = Body(g, i)
    <3>1. CASE i = k
      BY <2>2, <2>4, <3>1
    <3>2. CASE i # k
      BY <2>2, <2>3, <2>4, <3>2
    <3> QED BY <3>1, <3>2
  <2>6. g = [i \in k..(n + 1) |-> Body(g, i)]
    BY <2>2, <2>5
  <2>7. k \in 1..(n + 1)
    OBVIOUS
  <2> QED BY <2>6, <2>7
<1>3. 1 \in G
  <2>1. \A k \in 1..n : k + 1 \in G => k \in G
    BY <1>2
  <2> HIDE DEF G
  <2> QED BY <1>1, <2>1, Descends
<1> DEFINE w == CHOOSE f : f = [i \in 1..(n + 1) |-> Body(f, i)]
<1>4. w = [i \in 1..(n + 1) |-> Body(w, i)]
  <2> HIDE DEF Body
  <2> QED BY <1>3
<1>5. TakenBack(c, S) = w[1]
  BY DEF TakenBack, Turn, Start
<1> HIDE DEF w
<1>6. w[n + 1] = Start /\ \A i \in 1..n : w[i] = IF i \notin S THEN w[i + 1]
                                            ELSE Turn(c, i, w[i + 1])
  BY <1>4
<1> QED BY <1>5, <1>6

\* The collections and identifiers as the inverses so far have left them.
Made(w) == w = [col |-> w.col, issued |-> w.issued, ok |-> w.ok] /\ w.ok \in BOOLEAN

\* A record of these fields, field by field.
LEMMA MadeOf ==
    ASSUME NEW C, NEW I, NEW K, K \in BOOLEAN, NEW v, v = [col |-> C, issued |-> I, ok |-> K]
    PROVE  Made(v) /\ v.col = C /\ v.issued = I /\ v.ok = K
BY DEF Made

Put(cs, c, x) == [cs EXCEPT ![c] = x]

\* A survivor without the members that it has from a loser.
Without(x, row) ==
    [a \in Aspect |-> IF a \in Items \ row.dropped /\ row.lost[a] # "none" THEN "none" ELSE x[a]]

\* What an inverse can give back to x, and x with it.
Fit(x, row) == {a \in DOMAIN row.back : Fits(x, row.op, a, row.back[a])}

GivenBack(x, row) == [a \in Aspect |-> IF a \in Fit(x, row) THEN row.back[a] ELSE x[a]]

\* Taking back a creation.
LEMMA InvertedCreate ==
    ASSUME NEW c, NEW w, NEW row, NEW v, Made(w), row.op = "create", v = Inverted(c, w, row)
    PROVE  /\ Made(v) /\ v.issued = w.issued /\ v.col = Put(w.col, c, Gone)
           /\ v.ok <=> w.ok /\ w.col[c] # Gone
<1>1. v = [w EXCEPT !.col[c] = Gone, !.ok = @ /\ w.col[c] # Gone]
  BY DEF Inverted
<1>2. PICK k \in BOOLEAN : k = (w.ok /\ w.col[c] # Gone)
  OBVIOUS
<1>3. v = [col |-> [w.col EXCEPT ![c] = Gone], issued |-> w.issued, ok |-> k]
  BY <1>1, <1>2 DEF Made
<1>4. Made(v) /\ v.issued = w.issued /\ v.col = [w.col EXCEPT ![c] = Gone] /\ v.ok = k
  BY <1>3, MadeOf
<1>5. v.ok <=> w.ok /\ w.col[c] # Gone
  BY <1>2, <1>4, Zenon
<1> QED BY <1>4, <1>5 DEF Put

\* Taking back a merge: refused, or the loser comes back under an identifier of its own.
LEMMA InvertedMerge ==
    ASSUME NEW c, NEW w, NEW row, NEW v, Made(w), row.op = "merge", v = Inverted(c, w, row),
           w.issued \subseteq Coll
    PROVE  /\ Made(v)
           /\ \/ ~v.ok /\ v.issued = w.issued /\ v.col = w.col
              \/ /\ v.ok = w.ok /\ w.col[c] # Gone
                 /\ \E d \in Coll \ w.issued :
                       /\ v.issued = w.issued \cup {d}
                       /\ v.col = Put(Put(w.col, d, Restored(row.lost)), c, Without(w.col[c], row))
<1>1. CASE w.col[c] = Gone \/ NameTaken(SeenOutside(w), row.lost[Title]) \/ w.issued = Coll
  <2>1. v = [w EXCEPT !.ok = FALSE]
    BY <1>1 DEF Inverted
  <2>2. v = [col |-> w.col, issued |-> w.issued, ok |-> FALSE]
    BY <2>1 DEF Made
  <2> QED BY <2>2 DEF Made
<1>2. CASE ~(w.col[c] = Gone \/ NameTaken(SeenOutside(w), row.lost[Title]) \/ w.issued = Coll)
  <2> DEFINE d == CHOOSE d \in Coll \ w.issued : TRUE
             y == Without(w.col[c], row)
  <2>1. d \in Coll \ w.issued
    BY <1>2
  <2>2. v = [w EXCEPT !.issued = @ \cup {d}, !.col[d] = Restored(row.lost), !.col[c] = y]
    BY <1>2 DEF Inverted, Without
  <2> HIDE DEF d, y
  <2>3. v = [col |-> Put(Put(w.col, d, Restored(row.lost)), c, y),
        issued |-> w.issued \cup {d}, ok |-> w.ok]
    BY <2>2 DEF Made, Put
  <2>4. Made(v) /\ v.ok = w.ok /\ v.issued = w.issued \cup {d}
        /\ v.col = Put(Put(w.col, d, Restored(row.lost)), c, y)
    BY <2>3 DEF Made
  <2> QED BY <1>2, <2>1, <2>4 DEF y
<1> QED BY <1>1, <1>2

\* Taking back an act on the aspects: those that fit get their value back.
LEMMA InvertedAct ==
    ASSUME NEW c, NEW w, NEW row, NEW v, Made(w), row.op # "create", row.op # "merge",
          v = Inverted(c, w, row)
    PROVE  /\ Made(v) /\ v.issued = w.issued
           /\ Fit(w.col[c], row) = {} => v.col = w.col
           /\ Fit(w.col[c], row) # {} => v.col = Put(w.col, c, GivenBack(w.col[c], row))
           /\ v.ok => w.ok
           /\ w.ok /\ Fit(w.col[c], row) = DOMAIN row.back /\ DOMAIN row.back # {} => v.ok
<1> DEFINE fit == Fit(w.col[c], row)
           y == GivenBack(w.col[c], row)
           done == IF Unit(row.op) THEN DOMAIN row.back # {} ELSE fit = DOMAIN row.back
<1>1. v = IF fit = {} THEN [w EXCEPT !.ok = @ /\ done /\ Unit(row.op)]
          ELSE [w EXCEPT !.col[c] = y, !.ok = @ /\ done]
  BY DEF Inverted, Fit, GivenBack
<1>2. done <=> IF Unit(row.op) THEN DOMAIN row.back # {} ELSE fit = DOMAIN row.back
  OBVIOUS
<1> HIDE DEF done, y, fit
<1>3. CASE fit = {}
  <2>1. PICK k \in BOOLEAN : k = (w.ok /\ done /\ Unit(row.op))
    OBVIOUS
  <2>2. v = [col |-> w.col, issued |-> w.issued, ok |-> k]
    BY <1>1, <1>3, <2>1 DEF Made
  <2>3. Made(v) /\ v.issued = w.issued /\ v.col = w.col /\ v.ok = k
    BY <2>2, MadeOf
  <2>4. v.ok <=> w.ok /\ done /\ Unit(row.op)
    BY <2>1, <2>3, Zenon
  <2> QED BY <1>2, <1>3, <2>3, <2>4 DEF fit
<1>4. CASE fit # {}
  <2>1. PICK k \in BOOLEAN : k = (w.ok /\ done)
    OBVIOUS
  <2>2. v = [col |-> Put(w.col, c, y), issued |-> w.issued, ok |-> k]
    BY <1>1, <1>4, <2>1 DEF Made, Put
  <2>3. Made(v) /\ v.issued = w.issued /\ v.col = Put(w.col, c, y) /\ v.ok = k
    BY <2>2, MadeOf
  <2>4. v.ok <=> w.ok /\ done
    BY <2>1, <2>3, Zenon
  <2> QED BY <1>2, <1>4, <2>3, <2>4 DEF fit, y
<1> QED BY <1>3, <1>4

\* The index is asked after each inverse.
LEMMA Turned ==
    ASSUME NEW c, NEW i, NEW w, NEW v, v = Inverted(c, w, journal[c][i]), Made(v)
    PROVE  /\ Made(Turn(c, i, w)) /\ Turn(c, i, w).col = v.col /\ Turn(c, i, w).issued = v.issued
           /\ Turn(c, i, w).ok <=> v.ok /\ IndexHolds(v.col)
<1>1. Turn(c, i, w) = [v EXCEPT !.ok = @ /\ IndexHolds(v.col)]
  BY DEF Turn
<1>2. IndexHolds(v.col) \in BOOLEAN
  BY DEF IndexHolds
<1>3. PICK k \in BOOLEAN : k = (v.ok /\ IndexHolds(v.col))
  OBVIOUS
<1>4. Turn(c, i, w) = [col |-> v.col, issued |-> v.issued, ok |-> k]
  BY <1>1, <1>3 DEF Made
<1>5. Made(Turn(c, i, w)) /\ Turn(c, i, w).col = v.col /\ Turn(c, i, w).issued = v.issued
      /\ Turn(c, i, w).ok = k
  BY <1>4, MadeOf
<1>6. Turn(c, i, w).ok <=> v.ok /\ IndexHolds(v.col)
  BY <1>3, <1>5, Zenon
<1> QED BY <1>5, <1>6

\* What the inverses so far have made: collections as there can be, without a name
\* taken twice if none has failed; the others as they were.
Good(c, w) ==
    /\ Made(w) /\ issued \subseteq w.issued /\ w.issued \subseteq Coll
    /\ w.col = [d \in Coll |-> w.col[d]]
    /\ \A d \in Coll : w.col[d] = Gone \/ (d \in w.issued /\ Whole(w.col[d]))
    /\ \A d \in issued \ {c} : w.col[d] = col[d]
    /\ col[c] = Gone => w.col[c] = Gone
    /\ w.ok => IndexHolds(w.col)

\* The loser that comes back has a value for every aspect.
LEMMA RestoredWhole ==
    ASSUME NEW lost, Whole(lost)
    PROVE  Whole(Restored(lost))
<1>1. \A a \in Grants : "none" \in Values(a)
  BY ValuesOf
<1>2. "active" \in Values(Status)
  BY ValuesOf
<1> QED BY <1>1, <1>2 DEF Whole, Restored

\* One inverse more.
LEMMA TurnGood ==
    ASSUME NEW c \in issued, NEW i, NEW w, NEW v, v = Turn(c, i, w), Good(c, w), Told(journal[c][i])
    PROVE  /\ Good(c, v) /\ w.issued \subseteq v.issued
           /\ v.ok => w.ok
           /\ \A d \in w.issued \ {c} : v.col[d] = w.col[d]
<1>1. PICK row : row = journal[c][i]
  OBVIOUS
<1>2. Told(row)
  BY <1>1
<1>3. PICK u : u = Inverted(c, w, row)
  OBVIOUS
<1>4. v = Turn(c, i, w)
  OBVIOUS
<1>5. /\ Made(w) /\ issued \subseteq w.issued /\ w.issued \subseteq Coll /\ c \in Coll
         /\ c \in w.issued
      /\ w.col = [d \in Coll |-> w.col[d]]
      /\ \A d \in Coll : w.col[d] = Gone \/ (d \in w.issued /\ Whole(w.col[d]))
      /\ \A d \in issued \ {c} : w.col[d] = col[d]
      /\ col[c] = Gone => w.col[c] = Gone
  BY DEF Good
<1>6. Made(w) /\ w.issued \subseteq Coll
  BY <1>5
<1> DEFINE Kept == /\ Made(u) /\ issued \subseteq u.issued /\ u.issued \subseteq Coll
                   /\ u.col = [d \in Coll |-> u.col[d]]
                   /\ \A d \in Coll : u.col[d] = Gone \/ (d \in u.issued /\ Whole(u.col[d]))
                   /\ \A d \in issued \ {c} : u.col[d] = col[d]
                   /\ col[c] = Gone => u.col[c] = Gone
                   /\ u.ok => w.ok
                   /\ w.issued \subseteq u.issued
                   /\ \A d \in w.issued \ {c} : u.col[d] = w.col[d]
<1>7. SUFFICES Kept
  <2>1. ASSUME Kept
        PROVE  /\ Made(v) /\ v.col = u.col /\ v.issued = u.issued
               /\ v.ok <=> u.ok /\ IndexHolds(u.col)
    <3>1. /\ Made(Turn(c, i, w)) /\ Turn(c, i, w).col = u.col /\ Turn(c, i, w).issued = u.issued
          /\ Turn(c, i, w).ok <=> u.ok /\ IndexHolds(u.col)
      BY ONLY <1>3, <1>1, <2>1, Turned
    <3> QED BY ONLY <1>4, <3>1
  <2> QED BY <1>4, <2>1 DEF Good
<1>8. CASE row.op = "create"
  <2>1. Made(u) /\ u.issued = w.issued /\ u.col = Put(w.col, c, Gone) /\ (u.ok => w.ok)
    BY ONLY <1>3, <1>8, <1>6, InvertedCreate
  <2>2. u.col = [d \in Coll |-> IF d = c THEN Gone ELSE w.col[d]]
    BY <1>5, <2>1 DEF Put
  <2> QED BY <1>5, <2>1, <2>2
<1>9. CASE row.op = "merge"
  <2>1. Whole(Restored(row.lost))
    BY <1>9, <1>2, RestoredWhole DEF Told
  <2>2. Made(u)
    BY <1>3, <1>5, <1>9, InvertedMerge
  <2>3. CASE ~u.ok /\ u.issued = w.issued /\ u.col = w.col
    BY <1>5, <2>2, <2>3
  <2>4. CASE /\ u.ok = w.ok /\ w.col[c] # Gone
             /\ \E d \in Coll \ w.issued :
                   /\ u.issued = w.issued \cup {d}
                   /\ u.col = Put(Put(w.col, d, Restored(row.lost)), c, Without(w.col[c], row))
    <3> DEFINE y == Without(w.col[c], row)
    <3>1. PICK d \in Coll \ w.issued : /\ u.issued = w.issued \cup {d}
                                       /\ u.col = Put(Put(w.col, d, Restored(row.lost)), c, y)
      BY <2>4
    <3>2. Whole(y)
      <4>1. \A a \in Items : "none" \in Values(a)
        BY ValuesOf
      <4>2. Whole(w.col[c])
        BY <1>5, <2>4
      <4> QED BY <4>1, <4>2 DEF Whole, Without
    <3> HIDE DEF y
    <3>3. u.col = [e \in Coll |-> IF e = c THEN y ELSE IF e = d THEN Restored(row.lost)
          ELSE w.col[e]]
      BY <1>5, <3>1 DEF Put
    <3>4. \A e \in Coll : u.col[e] = IF e = c THEN y ELSE IF e = d THEN Restored(row.lost)
          ELSE w.col[e]
      BY <3>3
    <3>5. u.col = [e \in Coll |-> u.col[e]]
      BY <3>3
    <3>6. u.ok => w.ok
      BY <2>4
    <3> QED BY <1>5, <2>1, <2>2, <2>4, <3>1, <3>2, <3>4, <3>5, <3>6
  <2> QED BY <1>3, <1>6, <1>9, <2>3, <2>4, InvertedMerge
<1>10. CASE row.op # "create" /\ row.op # "merge"
  <2> DEFINE fit == Fit(w.col[c], row)
             y == GivenBack(w.col[c], row)
  <2>1. /\ Made(u) /\ u.issued = w.issued
        /\ fit = {} => u.col = w.col
        /\ fit # {} => u.col = Put(w.col, c, y)
        /\ u.ok => w.ok
    BY ONLY <1>3, <1>6, <1>10, InvertedAct
  <2>2. CASE fit = {}
    BY <1>5, <2>1, <2>2
  <2>3. CASE fit # {}
    <3>1. w.col[c] # Gone
      BY <2>3 DEF Fit, Fits
    <3>2. Whole(w.col[c])
      BY <1>5, <3>1
    <3>3. Partial(row.back) /\ fit \subseteq DOMAIN row.back
      BY <1>2 DEF Told, Fit
    <3>4. Whole(y)
      BY <3>2, <3>3 DEF Whole, Partial, GivenBack
    <3> HIDE DEF y, fit
    <3>5. u.col = [e \in Coll |-> IF e = c THEN y ELSE w.col[e]]
      BY <1>5, <2>1, <2>3 DEF Put
    <3> QED BY <1>5, <2>1, <3>1, <3>4, <3>5
  <2> QED BY <2>2, <2>3
<1> QED BY <1>8, <1>9, <1>10

\* The inverse of the act that has led to what is there leads back.
LEMMA TurnBack ==
    ASSUME NEW c \in issued, NEW i, NEW w, Good(c, w), Told(journal[c][i]),
          Invertible(journal[c][i]),
           w.col[c] = journal[c][i].now, Turn(c, i, w).ok
    PROVE  Turn(c, i, w).col[c] = journal[c][i].was
<1>1. Invertible(journal[c][i]) /\ w.col[c] = journal[c][i].now
  OBVIOUS
<1>2. PICK row : row = journal[c][i]
  OBVIOUS
<1>3. Told(row) /\ Invertible(row) /\ w.col[c] = row.now
  BY <1>1, <1>2
<1>4. PICK u : u = Inverted(c, w, row)
  OBVIOUS
<1>5. /\ Made(w) /\ issued \subseteq w.issued /\ w.issued \subseteq Coll /\ c \in Coll
         /\ c \in w.issued
      /\ w.col = [d \in Coll |-> w.col[d]]
  BY DEF Good
<1>6. Made(w) /\ w.issued \subseteq Coll
  BY <1>5
<1>7. SUFFICES Made(u) /\ (u.ok => u.col[c] = row.was)
  <2>1. ASSUME Made(u)
        PROVE  /\ Turn(c, i, w).col = u.col
               /\ Turn(c, i, w).ok <=> u.ok /\ IndexHolds(u.col)
    BY ONLY <1>4, <1>2, <2>1, Turned
  <2> QED BY <1>2, <2>1
<1>8. CASE row.op = "create"
  <2>1. Made(u) /\ u.col = Put(w.col, c, Gone)
    BY <1>4, <1>5, <1>8, InvertedCreate
  <2>2. row.was = Gone
    BY <1>8, <1>3 DEF Told
  <2> QED BY <1>5, <2>1, <2>2 DEF Put
<1>9. CASE row.op = "merge"
  <2>1. Made(u)
    BY <1>4, <1>5, <1>9, InvertedMerge
  <2>2. ASSUME u.ok PROVE u.col[c] = row.was
    <3> DEFINE y == Without(w.col[c], row)
    <3>1. PICK d \in Coll \ w.issued : u.col = Put(Put(w.col, d, Restored(row.lost)), c, y)
      BY ONLY <1>4, <1>6, <1>9, <2>2, InvertedMerge DEF y
    <3>2. /\ Whole(row.was)
          /\ row.now = [a \in Aspect |-> IF a \in Items \ row.dropped /\ row.lost[a] # "none"
                                         THEN row.lost[a] ELSE row.was[a]]
          /\ \A a \in Items \ row.dropped : row.lost[a] # "none" => row.was[a] = "none"
      BY <1>9, <1>3 DEF Told, Invertible
    <3>3. y = row.was
      BY <1>3, <3>2 DEF Whole, Without
    <3> HIDE DEF y
    <3> QED BY <1>5, <3>1, <3>3 DEF Put
  <2> QED BY <2>1, <2>2
<1>10. row.op # "create" /\ row.op # "merge" => row.op \in Acts
  BY <1>3 DEF Told
<1>11. CASE row.op # "create" /\ row.op # "merge"
  <2> DEFINE fit == Fit(w.col[c], row)
             y == GivenBack(w.col[c], row)
  <2>1. Made(u) /\ (fit # {} => u.col = Put(w.col, c, y))
    BY ONLY <1>4, <1>6, <1>11, InvertedAct DEF fit, y
  <2>2. Whole(row.was) /\ Whole(row.now) /\ LeadsBack(row.op, row.back, row.was, row.now)
    BY <1>11, <1>10, <1>3 DEF Told
  <2>3. fit = DOMAIN row.back /\ fit # {}
        /\ \A a \in DOMAIN row.back : row.back[a] \in Values(a) /\ a \in Aspect
    BY <1>3, <2>2 DEF LeadsBack, Told, Partial, Fit
  <2>4. y = [a \in Aspect |-> IF a \in DOMAIN row.back THEN row.back[a] ELSE row.now[a]]
    BY <1>3, <2>3 DEF GivenBack
  <2>5. y = row.was
    BY <2>2, <2>4 DEF Whole, LeadsBack
  <2> HIDE DEF y
  <2> QED BY <1>5, <2>1, <2>3, <2>5 DEF Put
<1> QED BY <1>8, <1>9, <1>11

\* The steps of TakenBack: from the newest of n rows to the oldest.
Walk(c, S, n, w) ==
    /\ w[n + 1] = Start
    /\ \A k \in 1..n : w[k] = IF k \notin S THEN w[k + 1] ELSE Turn(c, k, w[k + 1])

\* Before the first inverse.
LEMMA StartGood ==
    ASSUME Collections, NEW c \in issued
    PROVE  Good(c, Start)
<1>1. Made(Start) /\ Start.col = col /\ Start.issued = issued
  BY DEF Made, Start
<1> QED BY <1>1 DEF Good, Collections

\* And so after all of them.
LEMMA WalkGood ==
    ASSUME Collections, NEW c \in issued, NEW n \in Nat, \A k \in 1..n : Told(journal[c][k]),
           NEW S, NEW w, Walk(c, S, n, w)
    PROVE  \A k \in 1..(n + 1) : Good(c, w[k])
<1> DEFINE G == {k \in 1..(n + 1) : Good(c, w[k])}
<1>1. n + 1 \in G
  BY StartGood DEF Walk
<1>2. ASSUME NEW k \in 1..n, k + 1 \in G PROVE k \in G
  <2>1. CASE k \notin S
    BY <1>2, <2>1 DEF Walk
  <2>2. CASE k \in S
    <3>1. w[k] = Turn(c, k, w[k + 1]) /\ k \in 1..(n + 1)
      BY <2>2 DEF Walk
    <3>2. c \in issued /\ Good(c, w[k + 1]) /\ Told(journal[c][k])
      BY <1>2
    <3>3. Good(c, w[k])
      BY ONLY <3>1, <3>2, TurnGood
    <3> QED BY <3>1, <3>3
  <2> QED BY <2>1, <2>2
<1>3. 1..(n + 1) \subseteq G
  <2> HIDE DEF G
  <2> QED BY <1>1, <1>2, Descends
<1> QED BY <1>3

\* Taking back the acts in effect from the row i on leads to what those before it
\* have left.
LEMMA WalkBack ==
    ASSUME NEW c \in issued, NEW n \in Nat, NEW s, NEW E \in SUBSET (1..n), NEW i \in 1..n,
           NEW S, NEW w, NEW x,
           Collections, s = journal[c], \A k \in 1..n : Told(s[k]) /\ Invertible(s[k]),
           col[c] = Left(s, E), \A k \in E : s[k].was = Left(s, {j \in E : j < k}),
           S = {k \in E : i <= k}, Walk(c, S, n, w), w[1].ok, x = Left(s, {j \in E : j < i})
    PROVE  w[1].col[c] = x
<1> DEFINE Before(k) == {j \in E : j < k \/ j < i}
           G == {k \in 1..(n + 1) : w[k].ok => w[k].col[c] = Left(s, Before(k))}
<1>1. E \in SUBSET (1..n) /\ n \in Nat /\ i \in 1..n /\ S = {k \in E : i <= k}
  OBVIOUS
<1>2. n + 1 \in G
  <2>1. w[n + 1].col[c] = col[c]
    BY DEF Walk, Start
  <2>2. Before(n + 1) = E
    <3>1. \A j \in E : j < n + 1 \/ j < i
      BY ONLY <1>1
    <3> QED BY ONLY <3>1
  <2>3. Left(s, Before(n + 1)) = col[c]
    BY <2>2
  <2>4. n + 1 \in 1..(n + 1)
    OBVIOUS
  <2> HIDE DEF Before
  <2> QED BY <2>1, <2>3, <2>4
<1>3. \A k \in 1..n : Told(journal[c][k])
  OBVIOUS
<1>4. \A k \in 1..(n + 1) : Good(c, w[k])
  BY <1>3, WalkGood
<1>5. ASSUME NEW k \in 1..n, k + 1 \in G PROVE k \in G
  <2>1. CASE k \notin S
    <3>1. w[k] = w[k + 1]
      BY <2>1 DEF Walk
    <3>2. Before(k) = Before(k + 1)
      <4>1. k \in 1..n /\ k \notin S
        BY <2>1
      <4>2. \A j \in E : (j < k \/ j < i) <=> (j < k + 1 \/ j < i)
        BY ONLY <1>1, <4>1
      <4> QED BY ONLY <4>2
    <3>3. w[k + 1].ok => w[k + 1].col[c] = Left(s, Before(k + 1))
      BY <1>5
    <3> HIDE DEF Before
    <3>4. w[k].ok => w[k].col[c] = Left(s, Before(k))
      BY ONLY <3>1, <3>2, <3>3
    <3> QED BY <3>4 DEF Before
  <2>2. CASE k \in S
    <3> SUFFICES ASSUME w[k].ok PROVE w[k].col[c] = Left(s, Before(k))
      OBVIOUS
    <3>1. k \in 1..n /\ k \in S
      BY <2>2
    <3>2. w[k] = Turn(c, k, w[k + 1])
      BY <2>2 DEF Walk
    <3>3. Good(c, w[k + 1]) /\ Told(journal[c][k]) /\ Invertible(journal[c][k])
      BY <1>4
    <3>4. Turn(c, k, w[k + 1]).ok => w[k + 1].ok
      <4>1. c \in issued
        OBVIOUS
      <4> QED BY ONLY <3>3, <4>1, TurnGood
    <3>5. w[k + 1].ok /\ Turn(c, k, w[k + 1]).ok
      BY <3>2, <3>4
    <3>6. w[k + 1].col[c] = Left(s, Before(k + 1))
      BY <1>5, <3>5
    <3>7. E \subseteq Nat /\ k \in E /\ i <= k /\ k < k + 1
          /\ \A j \in E : j < k + 1 \/ j < i => j <= k
      BY ONLY <1>1, <3>1
    <3>8. Before(k + 1) \subseteq Nat /\ k \in Before(k + 1) /\ \A j \in Before(k + 1) : j <= k
      BY ONLY <3>7
    <3>9. Left(s, Before(k + 1)) = s[k].now
      <4> HIDE DEF Before
      <4> QED BY <3>8, LeftLast
    <3>10. w[k].col[c] = s[k].was
      <4>1. w[k + 1].col[c] = journal[c][k].now
        BY <3>6, <3>9
      <4>2. Turn(c, k, w[k + 1]).col[c] = journal[c][k].was
        BY <3>3, <3>5, <4>1, TurnBack
      <4> QED BY <3>2, <4>2
    <3>11. Before(k) = {j \in E : j < k} /\ k \in E
      <4>1. \A j \in E : j < i => j < k
        BY ONLY <1>1, <3>7, <3>1
      <4> QED BY ONLY <3>7, <4>1
    <3> QED BY <3>10, <3>11
  <2> QED BY <2>1, <2>2
<1>6. 1 \in G
  <2>1. 1..(n + 1) \subseteq G
    <3> HIDE DEF G
    <3> QED BY <1>2, <1>5, Descends
  <2> QED BY <2>1
<1>7. Before(1) = {j \in E : j < i}
  <2>1. \A j \in E : j < 1 => j < i
    BY ONLY <1>1
  <2> QED BY ONLY <2>1
<1> QED BY <1>6, <1>7

\* A loser that has come back stays, under an identifier of its own.
LEMMA WalkRevives ==
    ASSUME Collections, NEW c \in issued, NEW n \in Nat, \A k \in 1..n : Told(journal[c][k]),
           NEW i \in 1..n, journal[c][i].op = "merge",
           NEW S, i \in S, NEW w, Walk(c, S, n, w), w[1].ok
    PROVE  \E d \in Coll \ issued : w[1].col[d] = Restored(journal[c][i].lost)
<1>1. PICK x : x = Restored(journal[c][i].lost)
  OBVIOUS
<1> DEFINE Back(u) == \E d \in u.issued \ issued : u.col[d] = x
           G == {k \in 1..(n + 1) : k <= i /\ w[k].ok => Back(w[k])}
<1>2. n + 1 \in G
  OBVIOUS
<1>3. \A k \in 1..(n + 1) : Good(c, w[k])
  BY WalkGood
<1>4. ASSUME NEW k \in 1..n, k + 1 \in G PROVE k \in G
  <2>1. CASE k \notin S
    <3>1. w[k] = w[k + 1] /\ (k <= i => k + 1 <= i)
      BY <2>1 DEF Walk
    <3> QED BY <1>4, <3>1
  <2>2. CASE k \in S
    <3> SUFFICES ASSUME w[k].ok, k <= i PROVE Back(w[k])
      OBVIOUS
    <3>1. PICK u : u = w[k + 1]
      OBVIOUS
    <3>2. PICK v : v = Turn(c, k, u)
      OBVIOUS
    <3>3. v = w[k] /\ v.ok /\ Good(c, u)
      BY <1>3, <2>2, <3>1, <3>2 DEF Walk
    <3>4. /\ Good(c, v) /\ u.issued \subseteq v.issued
          /\ v.ok => u.ok
          /\ \A d \in u.issued \ {c} : v.col[d] = u.col[d]
      <4>1. c \in issued /\ Told(journal[c][k])
        OBVIOUS
      <4>2. Good(c, u)
        BY <3>3
      <4> QED BY ONLY <3>2, <4>1, <4>2, TurnGood
    <3>5. CASE k < i
      <4>1. PICK d \in u.issued \ issued : u.col[d] = x
        BY <1>4, <3>1, <3>3, <3>4, <3>5
      <4> QED BY <3>3, <3>4, <4>1
    <3>6. CASE k = i
      <4>1. PICK row : row = journal[c][k]
        OBVIOUS
      <4>2. PICK y : y = Inverted(c, u, row)
        OBVIOUS
      <4>3. row.op = "merge" /\ Made(u) /\ u.issued \subseteq Coll
            /\ issued \subseteq u.issued /\ c \in u.issued
            /\ c \in Coll /\ u.col = [d \in Coll |-> u.col[d]] /\ x = Restored(row.lost)
        BY <1>1, <3>3, <3>6, <4>1 DEF Good
      <4>4. Made(y)
        BY ONLY <4>2, <4>3, InvertedMerge
      <4>5. v.col = y.col /\ v.issued = y.issued /\ (v.ok => y.ok)
        BY ONLY <3>2, <4>1, <4>2, <4>4, Turned
      <4>6. y.ok
        BY <3>3, <4>5
      <4>7. PICK d \in Coll \ u.issued :
               /\ y.issued = u.issued \cup {d}
               /\ y.col = Put(Put(u.col, d, Restored(row.lost)), c, Without(u.col[c], row))
        <5>1. \/ ~y.ok /\ y.issued = u.issued /\ y.col = u.col
              \/ /\ y.ok = u.ok /\ u.col[c] # Gone
                 /\ \E d \in Coll \ u.issued :
                       /\ y.issued = u.issued \cup {d}
                       /\ y.col = Put(Put(u.col, d, Restored(row.lost)), c, Without(u.col[c], row))
          <6>1. Made(u) /\ row.op = "merge" /\ u.issued \subseteq Coll
            BY <4>3
          <6> QED BY ONLY <4>2, <6>1, InvertedMerge
        <5> QED BY <4>6, <5>1
      <4>8. y.col[d] = x
        BY <4>3, <4>7 DEF Put
      <4> QED BY <3>3, <4>3, <4>5, <4>7, <4>8
    <3> QED BY <3>5, <3>6
  <2> QED BY <2>1, <2>2
<1>5. 1 \in G
  <2>1. 1..(n + 1) \subseteq G
    <3> HIDE DEF G
    <3> QED BY <1>2, <1>4, Descends
  <2> QED BY <2>1
<1>6. Good(c, w[1])
  BY <1>3
<1>7. PICK d \in w[1].issued \ issued : w[1].col[d] = x
  <2>1. 1 <= i
    OBVIOUS
  <2> QED BY <1>5, <2>1
<1> QED BY <1>1, <1>6, <1>7 DEF Good

\* The walk over the n rows of c that takes back the rows S, and what is known of
\* the rows.
Course(c, i, S, n, w) ==
    /\ c \in issued /\ DOMAIN journal[c] = 1..n /\ Len(journal[c]) = n /\ i \in 1..n
    /\ \A k \in 1..n :
          Told(journal[c][k]) /\ Shaped(journal[c][k]) /\ journal[c][k].st \in Stands
    /\ Walk(c, S, n, w) /\ TakenBack(c, S) = w[1] /\ Good(c, w[1])

\* What TakenBack does to a collection that has rows.
LEMMA UndoWalk ==
    ASSUME Story, NEW c \in Coll, NEW i \in DOMAIN journal[c], NEW S
    PROVE  \E n \in Nat \ {0} : \E w : Course(c, i, S, n, w)
<1>1. Rows(journal[c], acts)
  BY DEF Story, History, Chain
<1>2. PICK T : journal[c] \in Seq(T)
  BY <1>1 DEF Rows
<1>3. PICK n \in Nat : Len(journal[c]) = n /\ DOMAIN journal[c] = 1..n
  BY <1>2, LenProperties
<1>4. n \in Nat \ {0} /\ i \in 1..n
  BY <1>3
<1>5. c \in issued
  <2>1. DOMAIN <<>> = {}
    OBVIOUS
  <2> QED BY <2>1 DEF Story, Collections
<1>6. \A k \in 1..n : Told(journal[c][k]) /\ Shaped(journal[c][k]) /\ journal[c][k].st \in Stands
  BY <1>1, <1>3 DEF Rows, Row, Story, History
<1>7. PICK w : Walk(c, S, n, w) /\ TakenBack(c, S) = w[1]
  <2>1. Len(journal[c]) = n
    BY <1>3
  <2> QED BY <2>1, TakenBackSteps DEF Walk
<1>8. Good(c, w[1])
  <2>1. \A k \in 1..n : Told(journal[c][k])
    BY <1>6
  <2>2. \A k \in 1..(n + 1) : Good(c, w[k])
    BY <1>5, <1>7, <2>1, WalkGood DEF Story
  <2>3. 1 \in 1..(n + 1)
    BY <1>4
  <2> QED BY <2>2, <2>3
<1> QED BY <1>3, <1>4, <1>5, <1>6, <1>7, <1>8 DEF Course

\* What stands from an act that stands on is what is in effect from there on.
LEMMA StandingEffective ==
    ASSUME NEW n \in Nat, NEW c, Len(journal[c]) = n, DOMAIN journal[c] = 1..n,
           OldestExpired(journal[c]), \A k \in 1..n : journal[c][k].st \in Stands,
           NEW i \in 1..n, journal[c][i].st = "applied"
    PROVE  /\ Standing(c, i) = {k \in Effective(journal[c]) : i <= k}
           /\ i \in Standing(c, i) /\ Effective(journal[c]) \in SUBSET (1..n)
<1>1. PICK s : s = journal[c]
  OBVIOUS
<1>2. Standing(c, i) = {k \in i..n : s[k].st = "applied"}
  BY <1>1 DEF Standing
<1>3. Effective(s) = {k \in 1..n : s[k].st # "undone"}
  BY <1>1 DEF Effective
<1>4. \A k \in 1..n : i <= k /\ s[k].st # "undone" => s[k].st = "applied"
  BY <1>1 DEF OldestExpired, Stands
<1> QED BY <1>1, <1>2, <1>3, <1>4

\* An undo leaves what the acts before those it takes back have left (undoAction).
LEMMA UndoStory ==
    ASSUME Story, Chain', NEW c \in Coll, NEW i \in DOMAIN journal[c], NEW cascade,
           UndoAction(c, i, cascade)
    PROVE  Story'
<1>1. PICK S : S = Standing(c, i)
  OBVIOUS
<1>2. PICK s : s = journal[c]
  OBVIOUS
<1>3. PICK n \in Nat \ {0} : \E w : Course(c, i, S, n, w)
  BY UndoWalk
<1>4. PICK w : /\ c \in issued /\ DOMAIN s = 1..n /\ Len(s) = n /\ i \in 1..n
               /\ \A k \in 1..n : Told(s[k]) /\ Shaped(s[k]) /\ s[k].st \in Stands
               /\ Walk(c, S, n, w) /\ TakenBack(c, S) = w[1] /\ Good(c, w[1])
  BY <1>2, <1>3 DEF Course
<1>5. PICK t : t = [j \in 1..n |-> IF j \in S THEN [s[j] EXCEPT !.st = "undone"] ELSE s[j]]
  OBVIOUS
<1>6. /\ i \in S /\ w[1].ok /\ col' = w[1].col /\ issued' = w[1].issued
      /\ journal' = [journal EXCEPT ![c] = t] /\ acts' = acts /\ old' = old /\ req' = req
  BY <1>1, <1>2, <1>4, <1>5 DEF UndoAction
<1>7. journal = [d \in Coll |-> journal[d]] /\ OldestExpired(s) /\ Explained(s, col[c]) /\ History
      /\ Collections
  BY <1>2 DEF Story, History, Chain
<1>8. journal' = [d \in Coll |-> IF d = c THEN t ELSE journal[d]]
  BY <1>6, <1>7
<1>9. s[i].st = "applied"
  BY <1>1, <1>2, <1>6 DEF Standing
<1>10. S = {k \in Effective(s) : i <= k} /\ Effective(s) \in SUBSET (1..n)
  <2>1. Len(journal[c]) = n /\ DOMAIN journal[c] = 1..n /\ OldestExpired(journal[c])
        /\ (\A k \in 1..n : journal[c][k].st \in Stands) /\ journal[c][i].st = "applied"
        /\ n \in Nat /\ i \in 1..n
    BY <1>2, <1>4, <1>7, <1>9
  <2> QED BY ONLY <1>1, <1>2, <2>1, StandingEffective
<1>11. DOMAIN t = 1..n
  BY <1>5
<1>12. ASSUME NEW j \in 1..n
       PROVE  /\ Shaped(t[j]) /\ Told(t[j]) /\ t[j].was = s[j].was /\ t[j].now = s[j].now
              /\ Invertible(t[j]) <=> Invertible(s[j])
              /\ t[j].st = IF j \in S THEN "undone" ELSE s[j].st
  <2>1. CASE j \in S
    <3>1. t[j] = [s[j] EXCEPT !.st = "undone"]
      BY <1>5, <2>1
    <3> QED BY <1>4, <2>1, <3>1, Restated
  <2>2. CASE j \notin S
    <3>1. t[j] = s[j]
      BY <1>5, <2>2
    <3> QED BY <1>4, <2>2, <3>1
  <2> QED BY <2>1, <2>2
<1>13. OldestExpired(t)
  <2> SUFFICES ASSUME NEW a \in 1..n, NEW b \in 1..n, a < b, t[a].st = "applied"
        PROVE t[b].st # "expired"
    BY <1>11 DEF OldestExpired
  <2>1. s[a].st = "applied"
    BY <1>12
  <2>2. s[b].st # "expired"
    BY <1>4, <1>7, <2>1 DEF OldestExpired
  <2> QED BY <1>12, <2>2
<1>14. Effective(t) = {j \in Effective(s) : j < i}
  <2>1. Effective(s) = {j \in 1..n : s[j].st # "undone"}
    BY <1>4 DEF Effective
  <2>2. Effective(t) = {j \in 1..n : t[j].st # "undone"}
    BY <1>11 DEF Effective
  <2>3. \A j \in 1..n : t[j].st # "undone" <=> s[j].st # "undone" /\ j < i
    <3>1. \A j \in 1..n : j \in S <=> s[j].st # "undone" /\ i <= j
      BY ONLY <1>10, <2>1
    <3>2. \A j \in 1..n : t[j].st = IF j \in S THEN "undone" ELSE s[j].st
      BY <1>12
    <3>3. \A j \in 1..n : i <= j <=> ~(j < i)
      BY <1>4
    <3> QED BY ONLY <3>1, <3>2, <3>3
  <2> QED BY ONLY <2>1, <2>2, <2>3
<1>15. Explained(t, w[1].col[c])
  <2>1. SUFFICES ASSUME w[1].col[c] # Gone, \A j \in 1..n : Invertible(t[j])
                 PROVE  /\ w[1].col[c] = Left(t, Effective(t))
                        /\ \A k \in Effective(t) : t[k].was = Left(t, {j \in Effective(t) : j < k})
    BY <1>11 DEF Explained
  <2>2. \A j \in 1..n : Told(s[j]) /\ Invertible(s[j])
    BY <1>4, <1>12, <2>1
  <2>3. col[c] # Gone
    BY <1>4, <2>1 DEF Good
  <2>4. s # <<>>
    <3>1. DOMAIN <<>> = {}
      OBVIOUS
    <3> QED BY <1>4, <3>1
  <2>5. col[c] = Left(s, Effective(s))
        /\ \A k \in Effective(s) : s[k].was = Left(s, {j \in Effective(s) : j < k})
    BY <1>4, <1>7, <2>2, <2>3, <2>4 DEF Explained
  <2>6. w[1].col[c] = Left(s, {j \in Effective(s) : j < i})
    <3>1. PICK E : E = Effective(s)
      OBVIOUS
    <3>2. E \in SUBSET (1..n) /\ col[c] = Left(s, E)
          /\ (\A k \in E : s[k].was = Left(s, {j \in E : j < k})) /\ S = {k \in E : i <= k}
      BY <1>10, <2>5, <3>1
    <3>3. c \in issued /\ n \in Nat /\ i \in 1..n /\ Walk(c, S, n, w) /\ w[1].ok /\ Collections
      BY <1>4, <1>6, <1>7
    <3>4. PICK x : x = Left(s, {j \in E : j < i})
      OBVIOUS
    <3>5. w[1].col[c] = x
      BY ONLY <1>2, <2>2, <3>2, <3>3, <3>4, WalkBack
    <3> QED BY <3>1, <3>4, <3>5
  <2>7. \A T \in SUBSET (1..n) : Left(t, T) = Left(s, T)
    <3>1. \A j \in 1..n : t[j].was = s[j].was /\ t[j].now = s[j].now
      BY <1>12
    <3>2. n \in Nat \ {0}
      OBVIOUS
    <3> QED BY ONLY <3>1, <3>2, LeftSame
  <2>8. w[1].col[c] = Left(t, Effective(t))
    <3>1. {j \in Effective(s) : j < i} \in SUBSET (1..n)
      BY <1>10
    <3> QED BY <1>14, <2>6, <2>7, <3>1
  <2>9. ASSUME NEW k \in Effective(t) PROVE t[k].was = Left(t, {j \in Effective(t) : j < k})
    <3>1. k \in Effective(s) /\ k \in 1..n /\ k < i
      BY <1>10, <1>14
    <3>2. {j \in Effective(t) : j < k} = {j \in Effective(s) : j < k}
      <4>1. \A j \in Effective(s) : j < k => j < i
        BY <1>4, <1>10, <3>1
      <4> QED BY ONLY <1>14, <4>1
    <3>3. {j \in Effective(s) : j < k} \in SUBSET (1..n)
      BY <1>10
    <3>4. Left(t, {j \in Effective(s) : j < k}) = Left(s, {j \in Effective(s) : j < k})
      BY <2>7, <3>3
    <3>5. t[k].was = s[k].was
      BY <1>12, <3>1
    <3> QED BY <2>5, <3>1, <3>2, <3>4, <3>5
  <2> QED BY <2>8, <2>9
<1>16. Collections'
  <2>1. \A d \in Coll \ issued' : journal'[d] = <<>>
    BY <1>4, <1>6, <1>7, <1>8 DEF Good, Collections
  <2> QED BY <1>4, <1>6, <2>1 DEF Good, Collections
<1>17. ASSUME NEW d \in Coll
       PROVE  /\ \A k \in DOMAIN journal'[d] : Shaped(journal'[d][k]) /\ Told(journal'[d][k])
              /\ OldestExpired(journal'[d]) /\ Explained(journal'[d], col'[d])
  <2>1. CASE d = c
    <3>1. journal'[d] = t /\ col'[d] = w[1].col[c]
      BY <1>6, <1>8, <2>1
    <3> QED BY <1>11, <1>12, <1>13, <1>15, <3>1
  <2>2. CASE d # c
    <3>1. journal'[d] = journal[d]
      BY <1>8, <2>2
    <3>2. Explained(journal[d], col'[d])
      <4>1. CASE d \in issued
        <5>1. col'[d] = col[d]
          BY <1>4, <1>6, <2>2, <4>1 DEF Good
        <5> QED BY <1>7, <5>1 DEF History
      <4>2. CASE d \notin issued
        BY <1>7, <4>2 DEF Collections, Explained
      <4> QED BY <4>1, <4>2
    <3> QED BY <1>7, <3>1, <3>2 DEF History
  <2> QED BY <2>1, <2>2
<1>18. History'
  <2>1. acts' <= MaxActs /\ old' <= acts'
    BY <1>6, <1>7 DEF History
  <2> QED BY <1>17, <2>1 DEF History
<1>19. Requests'
  <2>1. issued \subseteq issued' /\ req' = req
    BY <1>4, <1>6 DEF Good
  <2>2. \A x : Asks(x) => Asks(x)'
    BY <2>1 DEF Asks
  <2>3. Requests
    BY DEF Story
  <2> QED BY <2>1, <2>2, <2>3 DEF Requests
<1> QED BY <1>16, <1>18, <1>19 DEF Story

-----------------------------------------------------------------------------
(* The whole story.                                                        *)

\* It begins with collections as there can be, and no rows.
LEMMA StoryInit == Init => Story
<1> SUFFICES ASSUME Init PROVE Story
  OBVIOUS
<1>1. PICK v \in [Coll -> Name], m \in [Coll -> [Node -> {"none", "held", "published"}]] :
         /\ \A c, d \in issued : v[c] = v[d] => c = d
         /\ col = [c \in Coll |-> IF c \in issued
                    THEN [a \in Aspect |-> IF a \in Items THEN m[c][a[2]] ELSE Created(v[c])[a]]
                    ELSE Gone]
  BY DEF Init
<1>2. /\ issued \subseteq Coll /\ acts = 0 /\ old = 0 /\ journal = [c \in Coll |-> <<>>]
      /\ req = [p \in Req |-> Idle]
  BY DEF Init
<1>3. ASSUME NEW c \in issued
      PROVE  /\ Whole(col[c]) /\ col[c][Title] = v[c]
  <2>1. PICK x : x = [a \in Aspect |-> IF a \in Items THEN m[c][a[2]] ELSE Created(v[c])[a]]
    OBVIOUS
  <2>2. col[c] = x /\ c \in Coll /\ v[c] \in Name
    BY <1>1, <1>2, <2>1
  <2>3. Whole(Created(v[c]))
    BY <2>2, CreatedWhole
  <2>4. ASSUME NEW a \in Items PROVE m[c][a[2]] \in Values(a)
    <3>1. PICK k \in Node : a = <<"item", k>>
      BY DEF Items, Item
    <3>2. m[c][k] \in {"none", "held", "published"}
      BY <2>2
    <3> QED BY <3>1, <3>2, ValuesOf
  <2>5. \A a \in Aspect : x[a] \in Values(a)
    BY <2>1, <2>3, <2>4 DEF Whole
  <2>6. Title \in Aspect /\ Title \notin Items
    BY AspectsDiffer DEF Aspect
  <2>7. x[Title] = v[c]
    <3>1. \A e : Created(e)[Title] = e
      BY <2>6, AspectsDiffer DEF Created
    <3> QED BY <2>1, <2>6, <3>1
  <2> QED BY <2>1, <2>2, <2>5, <2>7 DEF Whole
<1>4. Collections
  <2>1. col = [c \in Coll |-> col[c]]
    BY <1>1
  <2>2. \A c \in Coll : c \notin issued => col[c] = Gone
    BY <1>1
  <2>3. IndexHolds(col)
    BY <1>1, <1>3, <2>2 DEF IndexHolds, Active
  <2> QED BY <1>2, <1>3, <2>1, <2>2, <2>3 DEF Collections
<1>5. History
  <2>1. \A c \in Coll : journal[c] = <<>>
    BY <1>2
  <2>2. DOMAIN <<>> = {}
    OBVIOUS
  <2>3. Chain
    BY ChainInit
  <2> QED BY <1>2, <2>1, <2>2, <2>3, BoundAssumption DEF History, OldestExpired, Explained
<1>6. Requests
  <2>1. PICK r : r = Idle
    OBVIOUS
  <2>2. r.op = "none" /\ "none" \notin Acts
    BY <2>1 DEF Idle, Acts
  <2>3. Asks(r)
    BY <2>2 DEF Asks
  <2>4. req = [p \in Req |-> r]
    BY <1>2, <2>1
  <2> QED BY <2>3, <2>4 DEF Requests
<1> QED BY <1>4, <1>5, <1>6 DEF Story

\* A request that begins leaves everything as it is.
LEMMA BeginsUnmoved ==
    ASSUME NEW p, NEW c, Starts(p, c)
    PROVE  UNCHANGED <<col, issued, acts, old, journal>>
BY DEF Starts, Rename, SetPinned, SetPublishMode, Archive, Restore, DeletePermanent, AddItems,
       RemoveItems, Publish, GrantAccess, RevokeAccess, UpdateProperties, MergeCollections, Reads

\* Every step keeps the story.
LEMMA StoryStep ==
    ASSUME Story, [Next]_vars
    PROVE  Story'
<1>1. Chain'
  BY ChainStep DEF Story, History
<1>2. Collections /\ Requests /\ old <= acts /\ acts \in Nat /\ old \in Nat
  BY DEF Story, History, Chain
<1>3. ASSUME NEW p \in Req, NEW c \in Coll, col[c] # Gone, Starts(p, c) PROVE Story'
  <2>1. UNCHANGED <<col, issued, acts, old, journal>>
    BY <1>3, BeginsUnmoved
  <2>2. Requests'
    BY <1>2, <1>3, StartsAsks
  <2> QED BY <1>1, <1>2, <2>1, <2>2, UnmovedStory
<1>4. ASSUME NEW p \in Req, NEW c \in Coll, CommitCreate(p, c) PROVE Story'
  BY <1>1, <1>4, CommitCreateStory
<1>5. ASSUME NEW p \in Req, NEW v \in Name, CreateCollection(p, v) PROVE Story'
  <2>1. PICK r : r = [Idle EXCEPT !.op = "create", !.set = One(Title, v)]
    OBVIOUS
  <2>2. req' = [req EXCEPT ![p] = r] /\ UNCHANGED <<col, issued, acts, old, journal>>
    BY <1>5, <2>1 DEF CreateCollection
  <2>3. r.op = "create" /\ r.set = One(Title, v) /\ "create" \notin Acts
    BY <2>1 DEF Idle, Acts
  <2>4. r.set[Title] = v
    BY <2>3 DEF One
  <2>5. Asks(r)
    BY <2>3, <2>4 DEF Asks
  <2>6. Requests'
    BY <1>2, <2>2, <2>5, OneRequest
  <2> QED BY <1>1, <1>2, <2>2, <2>6, UnmovedStory
<1>6. ASSUME NEW p \in Req, CommitAct(p) PROVE Story'
  BY <1>1, <1>6, CommitActStory
<1>7. ASSUME NEW p \in Req, CommitMerge(p) PROVE Story'
  BY <1>1, <1>7, CommitMergeStory
<1>8. ASSUME NEW p \in Req, CommitDelete(p) PROVE Story'
  BY <1>1, <1>8, CommitDeleteStory
<1>9. ASSUME NEW p \in Req, Fails(p) PROVE Story'
  <2>1. Ended(p) /\ UNCHANGED <<col, issued, acts, old, journal>>
    BY <1>9 DEF Fails
  <2>2. Requests'
    BY <1>2, <2>1, EndedAsks
  <2> QED BY <1>1, <1>2, <2>1, <2>2, UnmovedStory
<1>10. ASSUME NEW c \in Coll, NEW cascade \in BOOLEAN, NEW i \in DOMAIN journal[c],
              UndoAction(c, i, cascade)
       PROVE  Story'
  BY <1>1, <1>10, UndoStory
<1>11. ASSUME req' = req, issued' = issued PROVE Requests'
  <2>1. \A x : Asks(x) => Asks(x)'
    BY <1>11 DEF Asks
  <2> QED BY <1>2, <1>11, <2>1 DEF Requests
<1>12. CASE Ages
  <2>1. UNCHANGED <<col, issued, acts, journal>> /\ req' = req /\ old' <= acts
    BY <1>2, <1>12 DEF Ages
  <2> QED BY <1>1, <1>11, <2>1, UnmovedStory
<1>13. CASE ExpireRows
  BY <1>1, <1>13, ExpireStory
<1>14. CASE UNCHANGED vars
  <2>1. UNCHANGED <<col, issued, acts, journal>> /\ req' = req /\ old' <= acts
    BY <1>2, <1>14 DEF vars
  <2> QED BY <1>1, <1>11, <2>1, UnmovedStory
<1> QED BY <1>3, <1>4, <1>5, <1>6, <1>7, <1>8, <1>9, <1>10, <1>12, <1>13, <1>14 DEF Next

\* The inductive invariant: the collections, the rows of each with what they have
\* found and left and the values that lead back, and what each request has read
\* (commitChange, undoAction, applyInverseTx, expireRows).
THEOREM StoryAlways == Spec => []Story
<1>1. Init => Story
  BY StoryInit
<1>2. Story /\ [Next]_vars => Story'
  BY StoryStep
<1> QED BY <1>1, <1>2, PTL DEF Spec

\* Whatever requests do, in whatever order, collections have a value for every
\* aspect, no two active ones share a name, and a row of the journal has an
\* identifier, a status and values to give back that its aspects can have
\* (commitChange, undoAction, the partial unique index of names).
THEOREM JournalTyped == Spec => []TypeOK
<1>1. ASSUME Story PROVE TypeOK
  <2>1. \A c \in Coll : col[c] = Gone \/ (c \in issued /\ IsCollection(col[c]))
    <3>1. \A x : Whole(x) => IsCollection(x)
      BY DEF Whole, IsCollection
    <3> QED BY <1>1, <3>1 DEF Story, Collections
  <2>2. issued \subseteq Coll /\ acts \in 0..MaxActs /\ old \in 0..acts /\ IndexHolds(col)
    BY <1>1, BoundAssumption DEF Story, Collections, History, Chain
  <2>3. ASSUME NEW c \in Coll, NEW i \in DOMAIN journal[c]
        PROVE  /\ journal[c][i].id \in 1..acts
               /\ journal[c][i].st \in {"applied", "undone", "expired"}
               /\ \A a \in DOMAIN journal[c][i].back : journal[c][i].back[a] \in Values(a)
    <3>1. Rows(journal[c], acts) /\ Told(journal[c][i])
      BY <1>1 DEF Story, History, Chain
    <3> QED BY <3>1 DEF Rows, Row, Stands, Told, Partial
  <2>4. \A p \in Req : req[p].op \in Acts \cup {"create", "merge", "delete", "none"}
    BY <1>1 DEF Story, Requests, Asks
  <2> QED BY <2>1, <2>2, <2>3, <2>4 DEF TypeOK
<1> QED BY <1>1, StoryAlways, PTL

\* The journal explains the collections: each is what the last act that has not
\* been taken back made of it, and each such act starts from what the one before
\* it left, for chains whose acts an inverse can take back (commitChange,
\* undoAction, applyInverseTx).
THEOREM JournalTrue == Spec => []JournalExplains
<1>1. ASSUME Story PROVE JournalExplains
  <2> SUFFICES ASSUME NEW c \in Coll, col[c] # Gone, journal[c] # <<>>,
                      \A i \in DOMAIN journal[c] : Invertible(journal[c][i])
               PROVE  /\ col[c] = After(c, InEffect(c))
                      /\ \A i \in InEffect(c) :
                            journal[c][i].was = After(c, {j \in InEffect(c) : j < i})
    BY DEF JournalExplains
  <2>1. Explained(journal[c], col[c])
    BY <1>1 DEF Story, History
  <2>2. InEffect(c) = Effective(journal[c])
    BY DEF InEffect, Effective
  <2>3. \A S : After(c, S) = Left(journal[c], S)
    BY DEF After, Left
  <2> QED BY <2>1, <2>2, <2>3 DEF Explained
<1> QED BY <1>1, StoryAlways, PTL

-----------------------------------------------------------------------------
(* Undo is possible.                                                       *)

\* What has expired is past its time: elsewhere than on sqlite, where rows expire
\* at once.
Aged == \A c \in Coll : \A i \in DOMAIN journal[c] : journal[c][i].st = "expired"
      => journal[c][i].id <= old

\* A row more.
LEMMA AgedRecords ==
    ASSUME Aged, Chain, old' = old, NEW c \in Coll,
           NEW op, NEW back, NEW lost, NEW dropped, NEW was, NEW now, NEW fresh,
           Records(c, op, back, lost, dropped, was, now, fresh)
    PROVE  Aged'
<1>1. PICK r : r = [id |-> acts + 1, op |-> op, back |-> back, lost |-> lost, dropped |-> dropped,
                    st |-> "applied", was |-> was, now |-> now, fresh |-> fresh]
  OBVIOUS
<1>2. r.st = "applied"
  BY <1>1
<1>3. PICK s : s = journal[c]
  OBVIOUS
<1>4. journal' = [d \in Coll |-> IF d = c THEN Append(s, r) ELSE journal[d]]
  BY <1>1, <1>3 DEF Records, Chain
<1>5. PICK S : s \in Seq(S)
  BY <1>3 DEF Chain, Rows
<1>6. PICK n \in Nat : n = Len(s) /\ DOMAIN s = 1..n
  BY <1>5, LenProperties
<1>7. /\ DOMAIN Append(s, r) = 1..(n + 1) /\ Append(s, r)[n + 1] = r
      /\ \A i \in 1..n : Append(s, r)[i] = s[i]
  <2>1. s \in Seq(S \cup {r}) /\ r \in S \cup {r}
    BY <1>5, SeqMonotonic
  <2>2. Append(s, r) \in Seq(S \cup {r}) /\ Len(Append(s, r)) = n + 1 /\ Append(s, r)[n + 1] = r
        /\ \A i \in 1..n : Append(s, r)[i] = s[i]
    BY <1>6, <2>1, AppendProperties
  <2> QED BY <2>2, LenProperties
<1>8. \A i \in 1..(n + 1) : i \in 1..n \/ i = n + 1
  OBVIOUS
<1>9. \A i \in DOMAIN Append(s, r) : Append(s, r)[i].st = "expired" => Append(s, r)[i].id <= old
  BY <1>2, <1>3, <1>6, <1>7, <1>8 DEF Aged
<1> QED BY <1>3, <1>4, <1>9 DEF Aged

\* Every step keeps that, where retention compares times.
LEMMA AgedStep ==
    ASSUME Story, Aged, [Next]_vars, Dialect # "sqlite"
    PROVE  Aged'
<1>1. Chain /\ old \in Nat /\ Story'
  BY StoryStep DEF Story, History, Chain
<1>2. CASE journal' = journal /\ old' = old
  BY <1>2 DEF Aged
<1>3. ASSUME NEW p \in Req, NEW c \in Coll, CommitCreate(p, c) PROVE Aged'
  BY <1>1, <1>3, AgedRecords DEF CommitCreate
<1>4. ASSUME NEW p \in Req, CommitAct(p) PROVE Aged'
  <2>1. PICK c : c = req[p].on
    OBVIOUS
  <2>2. c \in Coll
    BY <1>4, <2>1 DEF CommitAct, Story, Requests, Asks, Collections
  <2>3. old' = old /\ \E op, back, lost, dropped, was, now, fresh :
                         Records(c, op, back, lost, dropped, was, now, fresh)
    BY <1>4, <2>1 DEF CommitAct
  <2> QED BY <1>1, <2>2, <2>3, AgedRecords
<1>5. ASSUME NEW p \in Req, CommitMerge(p) PROVE Aged'
  <2>1. PICK c : c = req[p].on
    OBVIOUS
  <2>2. c \in Coll
    BY <1>5, <2>1 DEF CommitMerge, Story, Requests, Asks, Collections
  <2>3. old' = old /\ \E op, back, lost, dropped, was, now, fresh :
                         Records(c, op, back, lost, dropped, was, now, fresh)
    BY <1>5, <2>1 DEF CommitMerge
  <2> QED BY <1>1, <2>2, <2>3, AgedRecords
<1>6. ASSUME NEW p \in Req, CommitDelete(p) PROVE Aged'
  <2>1. PICK c : c = req[p].on
    OBVIOUS
  <2>2. old' = old /\ (journal' = journal \/ journal' = [journal EXCEPT ![c] = <<>>])
    BY <1>6, <2>1 DEF CommitDelete
  <2>3. \A d \in Coll : journal'[d] = journal[d] \/ journal'[d] = <<>>
    BY <1>1, <2>2 DEF Chain
  <2>4. DOMAIN <<>> = {}
    OBVIOUS
  <2> QED BY <2>2, <2>3, <2>4 DEF Aged
<1>7. ASSUME NEW c \in Coll, NEW cascade, NEW i \in DOMAIN journal[c], UndoAction(c, i, cascade)
      PROVE  Aged'
  <2>1. PICK S : S = Standing(c, i)
    OBVIOUS
  <2>2. PICK t : t = [j \in DOMAIN journal[c] |->
                        IF j \in S THEN [journal[c][j] EXCEPT !.st = "undone"] ELSE journal[c][j]]
    OBVIOUS
  <2>3. journal' = [journal EXCEPT ![c] = t] /\ old' = old
    BY <1>7, <2>1, <2>2 DEF UndoAction
  <2>4. \A d \in Coll : journal'[d] = IF d = c THEN t ELSE journal[d]
    BY <1>1, <2>3 DEF Chain
  <2>5. DOMAIN t = DOMAIN journal[c]
    BY <2>2
  <2>6. ASSUME NEW j \in DOMAIN journal[c] PROVE t[j].st = "undone" \/ t[j] = journal[c][j]
    <3>1. Shaped(journal[c][j])
      BY DEF Story, History
    <3>2. CASE j \in S
      <4>1. t[j] = [journal[c][j] EXCEPT !.st = "undone"]
        BY <2>2, <3>2
      <4> QED BY <3>1, <4>1 DEF Shaped
    <3>3. CASE j \notin S
      BY <2>2, <3>3
    <3> QED BY <3>2, <3>3
  <2> QED BY <2>3, <2>4, <2>5, <2>6 DEF Aged
<1>8. CASE Ages
  <2>1. journal' = journal /\ old' = old + 1
    BY <1>8 DEF Ages
  <2>2. \A c \in Coll : \A i \in DOMAIN journal[c] : journal[c][i].id \in Nat
    BY <1>1 DEF Chain, Rows, Row
  <2>3. \A x \in Nat : x <= old => x <= old + 1
    BY <1>1
  <2> QED BY <2>1, <2>2, <2>3 DEF Aged
<1>9. CASE ExpireRows
  <2>1. old' = old /\ journal' = [c \in Coll |-> [i \in DOMAIN journal[c] |->
                       IF journal[c][i].st = "applied" /\ PastExpiry(journal[c][i])
                       THEN [journal[c][i] EXCEPT !.st = "expired"] ELSE journal[c][i]]]
    BY <1>9 DEF ExpireRows
  <2> SUFFICES ASSUME NEW c \in Coll, NEW i \in DOMAIN journal'[c], journal'[c][i].st = "expired"
               PROVE  journal'[c][i].id <= old
    BY <2>1 DEF Aged
  <2>2. i \in DOMAIN journal[c]
    BY <2>1
  <2>3. PICK x : x = journal[c][i]
    OBVIOUS
  <2>4. journal'[c][i] = IF x.st = "applied" /\ PastExpiry(x)
                         THEN [x EXCEPT !.st = "expired"] ELSE x
    BY <2>1, <2>2, <2>3
  <2>5. Shaped(x)
    BY <2>2, <2>3 DEF Story, History
  <2>6. CASE x.st = "applied" /\ PastExpiry(x)
    <3>1. journal'[c][i].id = x.id
      BY <2>4, <2>5, <2>6 DEF Shaped
    <3> QED BY <2>6, <3>1 DEF PastExpiry
  <2>7. CASE ~(x.st = "applied" /\ PastExpiry(x))
    BY <2>2, <2>3, <2>4, <2>7 DEF Aged
  <2> QED BY <2>6, <2>7
<1>10. ASSUME NEW p \in Req, NEW c \in Coll, Starts(p, c) PROVE Aged'
  BY <1>2, <1>10, BeginsUnmoved
<1>11. ASSUME NEW p \in Req, (\E v \in Name : CreateCollection(p, v)) \/ Fails(p) PROVE Aged'
  BY <1>2, <1>11 DEF CreateCollection, Fails
<1>12. CASE UNCHANGED vars
  BY <1>2, <1>12 DEF vars
<1> QED BY <1>3, <1>4, <1>5, <1>6, <1>7, <1>8, <1>9, <1>10, <1>11, <1>12 DEF Next

\* Taking back one act only.
LEMMA WalkOnce ==
    ASSUME NEW n \in Nat, NEW c, NEW i \in 1..n, NEW w, Walk(c, {i}, n, w)
    PROVE  w[1] = Turn(c, i, Start)
<1> DEFINE G == {k \in 1..(n + 1) : w[k] = IF k > i THEN Start ELSE Turn(c, i, Start)}
<1>1. n + 1 \in G
  BY DEF Walk
<1>2. ASSUME NEW k \in 1..n, k + 1 \in G PROVE k \in G
  <2>1. CASE k = i
    BY <1>2, <2>1 DEF Walk
  <2>2. CASE k # i
    <3>1. k + 1 > i <=> k > i
      BY <2>2
    <3>2. w[k] = w[k + 1]
      BY <2>2 DEF Walk
    <3> QED BY <1>2, <3>1, <3>2
  <2> QED BY <2>1, <2>2
<1>3. 1..(n + 1) \subseteq G
  <2> HIDE DEF G
  <2> QED BY <1>1, <1>2, Descends
<1>4. 1 \in G /\ ~(1 > i)
  BY <1>3
<1> QED BY <1>4

\* Taking back the act that has led to what is there is refused for a name only.
LEMMA TurnHolds ==
    ASSUME NEW c \in issued, NEW i, NEW row, row = journal[c][i], Collections, Told(row),
          Invertible(row),
           row.op # "merge", col[c] = row.now, col[c] # Gone
    PROVE  \/ Turn(c, i, Start).ok
           \/ \E d \in Coll \ {c} : Active(col[d]) /\ col[d][Title] = row.was[Title]
<1>1. PICK w : w = Start
  OBVIOUS
<1>2. Made(w) /\ w.col = col /\ w.issued = issued /\ w.ok
  BY <1>1 DEF Made, Start
<1>3. PICK u : u = Inverted(c, w, row)
  OBVIOUS
<1>4. c \in Coll /\ col = [d \in Coll |-> col[d]] /\ IndexHolds(col)
  BY DEF Collections
<1>5. Made(u) /\ u.ok /\ u.col[c] = row.was /\ \A d \in Coll \ {c} : u.col[d] = col[d]
  <2>1. CASE row.op = "create"
    <3>1. w.col[c] # Gone
      BY <1>2
    <3>2. u.ok /\ Made(u) /\ u.col = Put(w.col, c, Gone)
      <4>1. Made(u) /\ u.col = Put(w.col, c, Gone) /\ (u.ok <=> w.ok /\ w.col[c] # Gone)
        BY ONLY <1>2, <1>3, <2>1, InvertedCreate
      <4> QED BY <1>2, <3>1, <4>1
    <3>3. row.was = Gone
      BY <2>1 DEF Told
    <3> QED BY <1>2, <1>4, <3>2, <3>3 DEF Put
  <2>2. CASE row.op # "create"
    <3>1. row.op \in Acts
      BY <2>2 DEF Told
    <3>2. Whole(row.was) /\ Whole(row.now) /\ LeadsBack(row.op, row.back, row.was, row.now)
      BY <3>1 DEF Told
    <3>3. Fit(w.col[c], row) = DOMAIN row.back /\ DOMAIN row.back # {}
      BY <1>2, <3>2 DEF LeadsBack, Told, Partial, Fit
    <3>4. /\ Made(u) /\ u.issued = w.issued
          /\ Fit(w.col[c], row) # {} => u.col = Put(w.col, c, GivenBack(w.col[c], row))
          /\ w.ok /\ Fit(w.col[c], row) = DOMAIN row.back /\ DOMAIN row.back # {} => u.ok
      <4>1. row.op # "merge"
        OBVIOUS
      <4> QED BY ONLY <1>2, <1>3, <2>2, <4>1, InvertedAct
    <3>5. u.col = Put(w.col, c, GivenBack(w.col[c], row)) /\ u.ok
      BY <1>2, <3>3, <3>4
    <3>6. GivenBack(w.col[c], row) = row.was
      <4>1. GivenBack(w.col[c], row)
              = [a \in Aspect |-> IF a \in DOMAIN row.back THEN row.back[a] ELSE row.now[a]]
        BY <1>2, <3>3 DEF GivenBack
      <4> QED BY <3>2, <4>1 DEF Whole, LeadsBack
    <3> QED BY <1>2, <1>4, <3>4, <3>5, <3>6 DEF Put
  <2> QED BY <2>1, <2>2
<1>6. Turn(c, i, w).ok <=> u.ok /\ IndexHolds(u.col)
  <2>1. u = Inverted(c, w, journal[c][i]) /\ Made(u)
    BY <1>3, <1>5
  <2> QED BY ONLY <2>1, Turned
<1>7. CASE IndexHolds(u.col)
  BY <1>1, <1>5, <1>6, <1>7
<1>8. CASE ~IndexHolds(u.col)
  <2>1. PICK a \in Coll, b \in Coll : Active(u.col[a]) /\ Active(u.col[b])
        /\ u.col[a][Title] = u.col[b][Title]
                                      /\ a # b
    BY <1>8 DEF IndexHolds
  <2>2. a = c \/ b = c
    BY <1>4, <1>5, <2>1 DEF IndexHolds
  <2> QED BY <1>5, <2>1, <2>2
<1> QED BY <1>7, <1>8

\* Off sqlite, a row keeps what an undo needs until it is past its expiry, and the
\* last act of a collection that stands can be taken back unless another active
\* collection has the name, for chains whose acts an inverse can take back
\* (expireRows, undoAction, applyInverseTx).  On sqlite rows expire at once.
THEOREM UndoStaysPossible == ASSUME Dialect # "sqlite" PROVE Spec => []UndoPossible
<1>1. ASSUME Story, Aged PROVE UndoPossible
  <2> SUFFICES ASSUME NEW c \in Coll, NEW i \in DOMAIN journal[c]
               PROVE  /\ journal[c][i].id > old /\ i \in InEffect(c) => i \in Standing(c, i)
                      /\ (/\ Standing(c, i) = {i} /\ journal[c][i].op # "merge" /\ col[c] # Gone
                          /\ \A j \in DOMAIN journal[c] : Invertible(journal[c][j])) =>
                             \/ TakenBack(c, {i}).ok
                             \/ \E d \in Coll \ {c},
                                 v \in {col[c][Title], journal[c][i].was[Title]} :
                                   Active(col[d]) /\ col[d][Title] = v
    BY DEF UndoPossible
  <2>1. PICK n \in Nat \ {0} : \E w : Course(c, i, {i}, n, w)
    BY <1>1, UndoWalk
  <2>2. PICK w :
           /\ c \in issued /\ DOMAIN journal[c] = 1..n /\ Len(journal[c]) = n /\ i \in 1..n
           /\ \A k \in 1..n : Told(journal[c][k]) /\ journal[c][k].st \in Stands
           /\ Walk(c, {i}, n, w) /\ TakenBack(c, {i}) = w[1]
    BY <2>1 DEF Course
  <2>3. ASSUME journal[c][i].id > old, i \in InEffect(c) PROVE i \in Standing(c, i)
    <3>1. journal[c][i].st # "expired"
      <4>1. journal[c][i].id \in Nat /\ old \in Nat
        BY <1>1 DEF Story, History, Chain, Rows, Row
      <4> QED BY <1>1, <2>3, <4>1 DEF Aged
    <3>2. journal[c][i].st = "applied"
      BY <2>2, <2>3, <3>1 DEF InEffect, Stands
    <3> QED BY <2>2, <3>2 DEF Standing
  <2>4. ASSUME Standing(c, i) = {i}, journal[c][i].op # "merge", col[c] # Gone,
               \A j \in DOMAIN journal[c] : Invertible(journal[c][j])
        PROVE  \/ TakenBack(c, {i}).ok
               \/ \E d \in Coll \ {c}, v \in {col[c][Title], journal[c][i].was[Title]} :
                     Active(col[d]) /\ col[d][Title] = v
    <3>1. w[1] = Turn(c, i, Start)
      BY <2>2, WalkOnce
    <3>2. journal[c][i].st = "applied"
      BY <2>4 DEF Standing
    <3>3. Collections /\ OldestExpired(journal[c]) /\ Explained(journal[c], col[c])
      BY <1>1 DEF Story, History
    <3>4. PICK E : E = Effective(journal[c])
      OBVIOUS
    <3>5. {i} = {k \in E : i <= k} /\ E \in SUBSET (1..n)
      <4>1. Len(journal[c]) = n /\ DOMAIN journal[c] = 1..n /\ OldestExpired(journal[c])
            /\ (\A k \in 1..n : journal[c][k].st \in Stands) /\ n \in Nat /\ i \in 1..n
        BY <2>2, <3>3
      <4>2. Standing(c, i) = {k \in E : i <= k} /\ E \in SUBSET (1..n)
        BY ONLY <3>2, <3>4, <4>1, StandingEffective
      <4> QED BY <2>4, <4>2
    <3>6. E \subseteq Nat /\ i \in E /\ \A j \in E : j <= i
      BY <2>2, <3>5
    <3>7. journal[c] # <<>>
      <4>1. DOMAIN <<>> = {}
        OBVIOUS
      <4> QED BY <4>1
    <3>8. col[c] = journal[c][i].now
      <4>1. col[c] = Left(journal[c], E)
        BY <2>4, <3>3, <3>4, <3>7 DEF Explained
      <4> QED BY <3>6, <4>1, LeftLast
    <3>9. PICK row : row = journal[c][i]
      OBVIOUS
    <3>10. \/ Turn(c, i, Start).ok
           \/ \E d \in Coll \ {c} : Active(col[d]) /\ col[d][Title] = row.was[Title]
      <4>1. c \in issued /\ Told(row) /\ Invertible(row) /\ row.op # "merge" /\ col[c] = row.now
            /\ col[c] # Gone /\ Collections
        BY <2>2, <2>4, <3>3, <3>8, <3>9
      <4> QED BY ONLY <3>9, <4>1, TurnHolds
    <3> QED BY <2>2, <3>1, <3>9, <3>10
  <2> QED BY <2>3, <2>4
<1>2. Init => Aged
  <2>1. DOMAIN <<>> = {}
    OBVIOUS
  <2> QED BY <2>1 DEF Init, Aged
<1>3. Story /\ Aged /\ [Next]_vars => Aged'
  BY AgedStep
<1> QED BY <1>1, <1>2, <1>3, StoryAlways, PTL DEF Spec

-----------------------------------------------------------------------------
(* Merging.                                                                *)

\* Nothing else than an undo of the subject takes an act back.
LEMMA OnlyUndo ==
    ASSUME Story, [Next]_vars, NEW c \in Coll, NEW i \in DOMAIN journal[c] \cap DOMAIN journal'[c],
           journal[c][i].st = "applied", journal'[c][i].st = "undone"
    PROVE  \E k \in DOMAIN journal[c], cascade \in BOOLEAN : UndoAction(c, k, cascade)
<1>1. Chain /\ \A d \in Coll : \A j \in DOMAIN journal[d] : Shaped(journal[d][j])
  BY DEF Story, History
<1>2. CASE journal' = journal
  BY <1>2
<1>3. ASSUME NEW d, NEW op, NEW back, NEW lost, NEW dropped, NEW was, NEW now, NEW fresh,
             Records(d, op, back, lost, dropped, was, now, fresh)
      PROVE  FALSE
  <2>1. PICK r : journal' = [journal EXCEPT ![d] = Append(@, r)]
    BY <1>3 DEF Records
  <2>2. PICK s : s = journal[c]
    OBVIOUS
  <2>3. PICK S : s \in Seq(S)
    BY <1>1, <2>2 DEF Chain, Rows
  <2>4. PICK n \in Nat : n = Len(s) /\ DOMAIN s = 1..n
    BY <2>3, LenProperties
  <2>5. \A j \in 1..n : Append(s, r)[j] = s[j]
    <3>1. s \in Seq(S \cup {r}) /\ r \in S \cup {r}
      BY <2>3, SeqMonotonic
    <3> QED BY <2>4, <3>1, AppendProperties
  <2>6. journal'[c] = s \/ journal'[c] = Append(s, r)
    BY <1>1, <2>1, <2>2 DEF Chain
  <2>7. journal'[c][i] = journal[c][i]
    BY <2>2, <2>4, <2>5, <2>6
  <2> QED BY <2>7
<1>4. ASSUME NEW p \in Req, NEW d \in Coll, CommitCreate(p, d) PROVE FALSE
  BY <1>3, <1>4 DEF CommitCreate
<1>5. ASSUME NEW p \in Req, CommitAct(p) PROVE FALSE
  BY <1>3, <1>5 DEF CommitAct
<1>6. ASSUME NEW p \in Req, CommitMerge(p) PROVE FALSE
  BY <1>3, <1>6 DEF CommitMerge
<1>7. ASSUME NEW p \in Req, CommitDelete(p) PROVE FALSE
  <2>1. PICK d : d = req[p].on
    OBVIOUS
  <2>2. journal' = journal \/ journal' = [journal EXCEPT ![d] = <<>>]
    BY <1>7, <2>1 DEF CommitDelete
  <2>3. journal'[c] = journal[c] \/ journal'[c] = <<>>
    BY <1>1, <2>2 DEF Chain
  <2>4. DOMAIN <<>> = {}
    OBVIOUS
  <2> QED BY <2>3, <2>4
<1>8. ASSUME NEW d \in Coll, NEW cascade \in BOOLEAN, NEW k \in DOMAIN journal[d],
      UndoAction(d, k, cascade)
      PROVE  d = c
  <2>1. PICK t : journal' = [journal EXCEPT ![d] = t]
    BY <1>8 DEF UndoAction
  <2>2. d # c => journal'[c] = journal[c]
    BY <1>1, <2>1 DEF Chain
  <2> QED BY <2>2
<1>9. CASE ExpireRows
  <2>1. PICK x : x = journal[c][i]
    OBVIOUS
  <2>2. journal'[c][i] = IF x.st = "applied" /\ PastExpiry(x)
                         THEN [x EXCEPT !.st = "expired"] ELSE x
    BY <1>9, <2>1 DEF ExpireRows
  <2>3. Shaped(x)
    BY <1>1, <2>1
  <2>4. [x EXCEPT !.st = "expired"].st = "expired"
    BY <2>3 DEF Shaped
  <2> QED BY <2>1, <2>2, <2>4
<1>10. CASE Ages
  BY <1>2, <1>10 DEF Ages
<1>11. ASSUME NEW p \in Req, NEW d \in Coll, Starts(p, d) PROVE FALSE
  BY <1>2, <1>11, BeginsUnmoved
<1>12. ASSUME NEW p \in Req, (\E v \in Name : CreateCollection(p, v)) \/ Fails(p) PROVE FALSE
  BY <1>2, <1>12 DEF CreateCollection, Fails
<1>13. CASE UNCHANGED vars
  BY <1>2, <1>13 DEF vars
<1> QED BY <1>4, <1>5, <1>6, <1>7, <1>8, <1>9, <1>10, <1>11, <1>12, <1>13 DEF Next

\* Taking back a merge that raced with nobody, alone or in a cascade, brings the
\* loser back under a new identifier, as it was but for its grants
\* (applyMergeCollectionsInverseTx, undoAction).
THEOREM LoserReturns == Spec => LoserComesBack
<1> DEFINE Returns ==
             \A c \in Coll : \A i \in DOMAIN journal[c] \cap DOMAIN journal'[c] :
                LET row == journal[c][i]
                IN  (/\ row.op = "merge" /\ row.fresh
                     /\ row.st = "applied" /\ journal'[c][i].st = "undone") =>
                       \E d \in Coll \ issued :
                          \A a \in Aspect \ Grants : col'[d] # Gone /\ col'[d][a] = row.lost[a]
<1>1. ASSUME Story, [Next]_vars PROVE Returns
  <2> SUFFICES ASSUME NEW c \in Coll, NEW i \in DOMAIN journal[c] \cap DOMAIN journal'[c],
                      journal[c][i].op = "merge", journal[c][i].fresh, journal[c][i].st = "applied",
                      journal'[c][i].st = "undone"
               PROVE  \E d \in Coll \ issued :
                         \A a \in Aspect \ Grants : col'[d] # Gone
                               /\ col'[d][a] = journal[c][i].lost[a]
    OBVIOUS
  <2>1. PICK k \in DOMAIN journal[c], cascade \in BOOLEAN : UndoAction(c, k, cascade)
    BY <1>1, OnlyUndo
  <2>2. PICK S : S = Standing(c, k)
    OBVIOUS
  <2>3. PICK n \in Nat \ {0} : \E w : Course(c, k, S, n, w)
    BY <1>1, UndoWalk
  <2>4. PICK w :
           /\ c \in issued /\ DOMAIN journal[c] = 1..n /\ k \in 1..n
           /\ \A j \in 1..n : Told(journal[c][j])
           /\ Walk(c, S, n, w) /\ TakenBack(c, S) = w[1]
    BY <2>3 DEF Course
  <2>5. /\ w[1].ok /\ col' = w[1].col
        /\ journal' = [journal EXCEPT ![c] = [j \in DOMAIN @ |->
                         IF j \in S THEN [@[j] EXCEPT !.st = "undone"] ELSE @[j]]]
    BY <2>1, <2>2, <2>4 DEF UndoAction
  <2>6. i \in S
    <3>1. journal'[c] = [j \in DOMAIN journal[c] |->
                           IF j \in S THEN [journal[c][j] EXCEPT !.st = "undone"]
                                 ELSE journal[c][j]]
      BY <1>1, <2>5 DEF Story, History, Chain
    <3> QED BY <3>1
  <2>7. PICK d \in Coll \ issued : col'[d] = Restored(journal[c][i].lost)
    <3>1. Collections /\ i \in 1..n /\ \A j \in 1..n : Told(journal[c][j])
      BY <1>1, <2>4 DEF Story
    <3>2. c \in issued /\ n \in Nat /\ Walk(c, S, n, w) /\ w[1].ok /\ journal[c][i].op = "merge"
      BY <2>4, <2>5
    <3>3. \E d \in Coll \ issued : w[1].col[d] = Restored(journal[c][i].lost)
      BY ONLY <2>6, <3>1, <3>2, WalkRevives
    <3> QED BY <2>5, <3>3
  <2>8. Whole(journal[c][i].lost) /\ journal[c][i].lost[Status] = "active"
    BY <2>4 DEF Told
  <2>9. col'[d] # Gone
    BY <2>7, <2>8, RestoredWhole, WholeNotGone
  <2>10. \A a \in Aspect \ Grants : Restored(journal[c][i].lost)[a] = journal[c][i].lost[a]
    BY <2>8 DEF Restored
  <2> QED BY <2>7, <2>9, <2>10
<1>2. Story /\ [Next]_vars => Returns
  BY <1>1
<1>3. Returns <=> \A c \in Coll : \A i \in DOMAIN journal[c] \cap DOMAIN journal'[c] :
                LET row == journal[c][i]
                IN  (/\ row.op = "merge" /\ row.fresh
                     /\ row.st = "applied" /\ journal'[c][i].st = "undone") =>
                       \E d \in Coll \ issued :
                          \A a \in Aspect \ Grants : col'[d] # Gone /\ col'[d][a] = row.lost[a]
  OBVIOUS
<1> QED BY <1>2, StoryAlways, PTL DEF LoserComesBack, Spec
=============================================================================
