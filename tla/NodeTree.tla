------------------------------- MODULE NodeTree -------------------------------
(***************************************************************************)
(* The tree of files and folders: parent pointers (file_nodes.parent_id),  *)
(* the closure table that answers every ancestry question                  *)
(* (node_ancestors), and the trash marks (deleted_at), in s3 storage mode  *)
(* on sqlite, where a handler that awaits no blob runs in one turn.  Only  *)
(* a purge awaits blobs: it is a request in progress.                      *)
(*                                                                         *)
(* Names, permissions, and the difference between a file and an empty      *)
(* folder are left out; so is the depth column, which only orders paths.   *)
(***************************************************************************)
CONSTANTS Node,     \* identifiers, never issued twice
          Purger,   \* purges that can be in progress at once
          Top,      \* parent_id IS NULL
          TrashOps  \* what clients do in the trash besides restoring and purging

\* "under": create or move something under a trashed folder, seen in an old listing.
\* "move": move a folder that holds trashed items (or, from an old listing, a
\* trashed item).
ASSUME TrashOpsAssumption == TrashOps \subseteq {"under", "move"}
ASSUME TopAssumption == Top \notin Node

VARIABLES
    nodes,      \* rows of file_nodes
    parent,     \* parent_id
    trashed,    \* deleted_at IS NOT NULL
    closure,    \* rows <<ancestor_id, descendant_id>> of node_ancestors
    purge,      \* for each purge, the node it is at and those it has yet to do
    hung        \* a rebuild walks a cycle for ever: the process answers no more

vars == <<nodes, parent, trashed, closure, purge, hung>>

NoPurge == [now |-> Top, left |-> {}]

Init ==
    /\ nodes = {}
    /\ parent = [n \in Node |-> Top]
    /\ trashed = {}
    /\ closure = {}
    /\ purge = [p \in Purger |-> NoPurge]
    /\ hung = FALSE

Live == nodes \ trashed

\* getDescendantIds and getAncestorChain
Descendants(n) == {d \in nodes : <<n, d>> \in closure}
Ancestors(n) == {a \in nodes : <<a, n>> \in closure}

Unused(n) == n \notin nodes /\ \A p \in Purger : n # purge[p].now /\ n \notin purge[p].left

\* The nodes from which the parent pointers par, through the nodes of S, lead to n:
\* the least set with n and, in S, the children of its members.
Below(par, S, n) ==
    LET closed == {T \in SUBSET (S \cup {n}) : n \in T /\ \A m \in S : par[m] \in T => m \in T}
    IN  {d \in S \cup {n} : \A T \in closed : d \in T}

-----------------------------------------------------------------------------
\* createFile, createDirectory: the row, and its ancestors copied from its parent's.
Create(n, q) ==
    /\ ~hung /\ Unused(n) /\ q \in nodes \cup {Top}
    /\ q \in trashed => "under" \in TrashOps
    /\ nodes' = nodes \cup {n}
    /\ parent' = [parent EXCEPT ![n] = q]
    /\ closure' = closure \cup {<<n, n>>} \cup {<<a, n>> : a \in Ancestors(q)}
    /\ UNCHANGED <<trashed, purge, hung>>

RowsOfSubtree(par, n, q) ==
    LET moved == Below(par, Live, n)
    IN  {r \in nodes \X moved :
            (r[1] \in moved /\ r[2] \in Below(par, Live, r[1])) \/ r[1] \in Ancestors(q)}

RebuiltKeepingOld(par, n, q) == closure \cup RowsOfSubtree(par, n, q)

RebuiltWithoutChain(par, n, q) ==
    {r \in closure : r[2] \notin Descendants(n)} \cup RowsOfSubtree(par, n, Top)

\* Every row of the subtree is dropped and those of the live part are inserted.
Rebuilt(par, n, q) ==
    {r \in closure : r[2] \notin Descendants(n)} \cup RowsOfSubtree(par, n, q)

\* An insert repeats a row that was not dropped, or its own: the transaction fails.
Collides(par, n, q) ==
    \/ \E r \in RowsOfSubtree(par, n, q) : r \in closure /\ r[2] \notin Descendants(n)
    \/ Ancestors(q) \cap Below(par, Live, n) # {}

\* The walk over live children comes back to where it started.
Cyclic(par, n) == \E c \in Below(par, Live, n) : par[n] = c /\ n \in Live

NotItself(n, q) == q # n

\* The cycle check of moveNode asks the closure table.
Allowed(n, q) == q \notin Descendants(n)

\* moveNode.  A walk that comes round never ends, and neither does the turn: the
\* driver is synchronous, and the process answers nobody from then on.
Move(n, q) ==
    LET par == [parent EXCEPT ![n] = q]
    IN  /\ ~hung /\ n \in nodes /\ q \in nodes \cup {Top}
        /\ q \in trashed => "under" \in TrashOps
        /\ trashed \cap Below(parent, nodes, n) # {} => "move" \in TrashOps
        /\ Allowed(n, q)
        /\ IF Cyclic(par, n)
           THEN hung' = TRUE /\ UNCHANGED <<parent, closure>>
           ELSE /\ ~Collides(par, n, q)
                /\ parent' = par
                /\ closure' = Rebuilt(par, n, q)
                /\ UNCHANGED hung
        /\ UNCHANGED <<nodes, trashed, purge>>

TrashChildren(n) ==
    /\ ~hung /\ n \in Live
    /\ trashed' = trashed \cup {n} \cup {c \in nodes : parent[c] = n}
    /\ UNCHANGED <<nodes, parent, closure, purge, hung>>

\* fileService.deleteNode
Trash(n) ==
    /\ ~hung /\ n \in Live
    /\ trashed' = trashed \cup {n} \cup Descendants(n)
    /\ UNCHANGED <<nodes, parent, closure, purge, hung>>

\* restoreNode: the trashed ancestors up to the first live one, and everything
\* trashed below.
Untrash(n) ==
    /\ ~hung /\ n \in trashed
    /\ trashed' = trashed \ ({a \in trashed : n \in Below(parent, trashed, a)}
                               \cup Below(parent, trashed, n))
    /\ UNCHANGED <<nodes, parent, closure, purge, hung>>

HardDeleteUncleaned(n) ==
    LET gone == UNION {Below(parent, nodes, d) : d \in Descendants(n)}
    IN  /\ nodes' = nodes \ gone
        /\ parent' = [m \in Node |-> IF m \in gone THEN Top ELSE parent[m]]
        /\ trashed' = trashed \ gone
        /\ closure' = {r \in closure : r[1] # n /\ r[2] # n}

\* fileNodeService.deleteNode: the rows the closure table names, and by cascade
\* of parent_id whatever hangs below them.
HardDelete(n) ==
    LET gone == UNION {Below(parent, nodes, d) : d \in Descendants(n)}
    IN  /\ nodes' = nodes \ gone
        /\ parent' = [m \in Node |-> IF m \in gone THEN Top ELSE parent[m]]
        /\ trashed' = trashed \ gone
        /\ closure' = {r \in closure : r[1] \notin gone /\ r[2] \notin gone}

\* A failed upload or copy takes back the file it created.
Discard(n) ==
    /\ ~hung /\ n \in nodes /\ \A c \in nodes : parent[c] # n
    /\ HardDelete(n)
    /\ UNCHANGED <<purge, hung>>

\* getTopmostTrashedNodes
Topmost == {n \in trashed : parent[n] \notin trashed}

\* Permanent delete of one item, emptyTrash, and tier 3 of the collector (those
\* trashed long enough).
PurgeStart(p, n, left) ==
    /\ ~hung /\ purge[p] = NoPurge /\ n \in trashed
    /\ left # {} => n \in Topmost
    /\ left \subseteq Topmost \ {n}
    /\ purge' = [purge EXCEPT ![p] = [now |-> n, left |-> left]]
    /\ UNCHANGED <<nodes, parent, trashed, closure, hung>>

PurgeNodeOnly(p) ==
    /\ ~hung /\ purge[p] # NoPurge
    /\ HardDelete(purge[p].now)
    /\ purge' = [purge EXCEPT ![p] = NoPurge]
    /\ UNCHANGED hung

\* The blobs are gone: delete the node, then take the next that still exists.
PurgeNode(p) ==
    LET left == purge[p].left \cap nodes'
    IN  /\ ~hung /\ purge[p] # NoPurge
        /\ HardDelete(purge[p].now)
        /\ IF left = {}
           THEN purge' = [purge EXCEPT ![p] = NoPurge]
           ELSE \E m \in left : purge' = [purge EXCEPT ![p] = [now |-> m, left |-> left \ {m}]]
        /\ UNCHANGED hung

Next ==
    \/ \E n \in Node, q \in Node \cup {Top} : Create(n, q) \/ Move(n, q)
    \/ \E n \in Node : Trash(n) \/ Untrash(n) \/ Discard(n)
    \/ \E p \in Purger :
          \/ \E n \in Node : \E left \in SUBSET trashed : PurgeStart(p, n, left)
          \/ PurgeNode(p)

Spec == Init /\ [][Next]_vars

-----------------------------------------------------------------------------
TypeOK ==
    /\ nodes \in SUBSET Node
    /\ parent \in [Node -> Node \cup {Top}]
    /\ trashed \in SUBSET nodes
    /\ closure \in SUBSET (nodes \X nodes)
    /\ purge \in [Purger -> [now : Node \cup {Top}, left : SUBSET Node]]
    /\ hung \in BOOLEAN

\* _ancestryHelper: the closure table is the reflexive transitive closure of the
\* parent pointers, whatever is created, moved, trashed, restored and purged.
ClosureExact ==
    \A a, d \in nodes : <<a, d>> \in closure <=> d \in Below(parent, nodes, a)

\* fileNodeService.moveNode "cannot move a node into its own descendant": the walk
\* that rebuilds a moved subtree comes to an end.
MovesEnd == ~hung

\* fileService.deleteNode: nothing live is left below an item that goes to the trash.
TrashedWhole ==
    [][\A n \in trashed' \ trashed : Below(parent, nodes, n) \subseteq trashed']_vars

\* Purges and clean-ups leave the rest of the tree alone: what goes was below a
\* node that was being purged, or a childless node of its own.
DeletesSubtreeOnly ==
    [][\A d \in nodes \ nodes' :
          \/ \E p \in Purger : purge[p].now \in nodes /\ d \in Below(parent, nodes, purge[p].now)
          \/ nodes \ nodes' = {d}]_vars

\* trashService.emptyTrash: a purge drops no node from its list but by deleting it,
\* whatever is moved, trashed, restored and purged meanwhile.
PurgesWhole ==
    [][\A p \in Purger :
          (purge[p].left \cup {purge[p].now}) \cap nodes' \subseteq purge'[p].left \cup {purge'[p].now}]_vars
=============================================================================
