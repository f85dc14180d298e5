---------------------------- MODULE NodeTreeProofs ----------------------------
(***************************************************************************)
(* The closure table is the ancestry of the tree, for any number of nodes  *)
(* and purges, as long as nothing that is or holds a trashed item moves.   *)
(***************************************************************************)
EXTENDS NodeTree, TLAPS

-----------------------------------------------------------------------------
(* Subtrees *)

\* A set with n that contains the children of its members contains what is below n.
LEMMA BelowLeast ==
    ASSUME NEW par, NEW S, NEW n, NEW T,
           n \in T, \A m \in S : par[m] \in T => m \in T
    PROVE  Below(par, S, n) \subseteq T
<1> DEFINE U == T \cap (S \cup {n})
<1>1. U \in SUBSET (S \cup {n}) /\ n \in U /\ \A m \in S : par[m] \in U => m \in U
  OBVIOUS
<1>2. Below(par, S, n) \subseteq U
  BY <1>1 DEF Below
<1> QED BY <1>2

\* What is below n is n or in S.
LEMMA BelowWithin ==
    ASSUME NEW par, NEW S, NEW n
    PROVE  Below(par, S, n) \subseteq S \cup {n}
BY DEF Below

\* A node is below itself.
LEMMA BelowSelf ==
    ASSUME NEW par, NEW S, NEW n
    PROVE  n \in Below(par, S, n)
BY DEF Below

\* The children of what is below n are below n.
LEMMA BelowChild ==
    ASSUME NEW par, NEW S, NEW n, NEW m \in S, par[m] \in Below(par, S, n)
    PROVE  m \in Below(par, S, n)
BY DEF Below

\* What is below something below n is below n.
LEMMA BelowTrans ==
    ASSUME NEW par, NEW S, NEW n, NEW m \in Below(par, S, n)
    PROVE  Below(par, S, m) \subseteq Below(par, S, n)
<1>1. \A c \in S : par[c] \in Below(par, S, n) => c \in Below(par, S, n)
  BY BelowChild
<1> QED BY <1>1, BelowLeast

\* What is below n is n or has its parent below n.
LEMMA BelowStep ==
    ASSUME NEW par, NEW S, NEW n, NEW d \in Below(par, S, n), d # n
    PROVE  d \in S /\ par[d] \in Below(par, S, n)
<1> DEFINE B == Below(par, S, n)
           T == {n} \cup {m \in S : par[m] \in B}
<1>1. T \subseteq B
  BY BelowSelf, BelowChild
<1>2. \A m \in S : par[m] \in T => m \in T
  BY <1>1
<1>3. n \in T
  OBVIOUS
<1> HIDE DEF T
<1>4. B \subseteq T
  BY <1>2, <1>3, BelowLeast
<1> QED BY <1>4 DEF T

\* What is below a node stays so under other pointers and in another set if these
\* keep its members and their parents and give it no new child.
LEMMA BelowFrame ==
    ASSUME NEW par, NEW S, NEW par2, NEW S2, NEW n,
           Below(par, S, n) \subseteq S2,
           \A m \in Below(par, S, n) \ {n} : par2[m] = par[m],
           \A m \in S2 : par2[m] \in Below(par, S, n) => m \in Below(par, S, n)
    PROVE  Below(par2, S2, n) = Below(par, S, n)
<1> DEFINE B == Below(par, S, n)
           C == Below(par2, S2, n)
<1>1. C \subseteq B
  BY BelowSelf, BelowLeast
<1>2. ASSUME NEW m \in S, par[m] \in C
      PROVE  m \in C
  <2>1. m \in B
    BY <1>1, <1>2, BelowChild
  <2>2. CASE m = n
    BY <2>2, BelowSelf
  <2>3. CASE m # n
    BY <1>2, <2>1, <2>3, BelowChild
  <2> QED BY <2>2, <2>3
<1>3. B \subseteq C
  BY <1>2, BelowSelf, BelowLeast
<1> QED BY <1>1, <1>3

-----------------------------------------------------------------------------
(* Types *)

\* What the delete of a node takes away.
Gone(n) == UNION {Below(parent, nodes, d) : d \in Descendants(n)}

\* It is rows of the tree only.
LEMMA GoneWithin ==
    ASSUME NEW n
    PROVE  Gone(n) \subseteq nodes
<1>1. \A d \in Descendants(n) : Below(parent, nodes, d) \subseteq nodes
  BY BelowWithin DEF Descendants
<1> QED BY <1>1 DEF Gone

\* The delete of a node keeps the types of the four tables.
LEMMA HardDeleteTypes ==
    ASSUME TypeOK, NEW n, HardDelete(n)
    PROVE  /\ nodes' \in SUBSET Node
           /\ parent' \in [Node -> Node \cup {Top}]
           /\ trashed' \in SUBSET nodes'
           /\ closure' \in SUBSET (nodes' \X nodes')
BY DEF TypeOK, HardDelete

\* Every step keeps the types.
LEMMA TypeStep == TypeOK /\ [Next]_vars => TypeOK'
<1> SUFFICES ASSUME TypeOK, [Next]_vars PROVE TypeOK'
  OBVIOUS
<1>1. ASSUME NEW n \in Node, NEW q \in Node \cup {Top}, Create(n, q)
      PROVE  TypeOK'
  <2>1. Ancestors(q) \subseteq nodes
    BY DEF Ancestors
  <2>2. {<<a, n>> : a \in Ancestors(q)} \subseteq nodes' \X nodes'
    BY <1>1, <2>1 DEF Create
  <2>3. closure' \in SUBSET (nodes' \X nodes')
    BY <1>1, <2>2 DEF TypeOK, Create
  <2> QED BY <1>1, <2>3 DEF TypeOK, Create
<1>2. ASSUME NEW n \in Node, NEW q \in Node \cup {Top}, Move(n, q)
      PROVE  TypeOK'
  <2> DEFINE par == [parent EXCEPT ![n] = q]
  <2>1. Below(par, Live, n) \subseteq nodes
    BY <1>2, BelowWithin DEF Live, Move
  <2>2. Rebuilt(par, n, q) \in SUBSET (nodes \X nodes)
    BY <2>1 DEF Rebuilt, RowsOfSubtree, TypeOK
  <2>3. parent' \in [Node -> Node \cup {Top}] /\ closure' \in SUBSET (nodes \X nodes)
        /\ hung' \in BOOLEAN
    BY <1>2, <2>2 DEF Move, TypeOK
  <2> QED BY <1>2, <2>3 DEF Move, TypeOK
<1>3. ASSUME NEW n \in Node, Trash(n) \/ Untrash(n)
      PROVE  TypeOK'
  BY <1>3 DEF Trash, Untrash, TypeOK, Live, Descendants
<1>4. ASSUME NEW n \in Node, Discard(n)
      PROVE  TypeOK'
  BY <1>4, HardDeleteTypes DEF Discard, TypeOK
<1>5. ASSUME NEW p \in Purger, NEW n \in Node, NEW left \in SUBSET trashed, PurgeStart(p, n, left)
      PROVE  TypeOK'
  BY <1>5 DEF PurgeStart, TypeOK
<1>6. ASSUME NEW p \in Purger, PurgeNode(p)
      PROVE  TypeOK'
  <2>1. HardDelete(purge[p].now) /\ UNCHANGED hung
    BY <1>6 DEF PurgeNode
  <2>2. purge[p].left \cap nodes' \subseteq Node
    BY <1>6 DEF TypeOK
  <2>3. purge' \in [Purger -> [now : Node \cup {Top}, left : SUBSET Node]]
    BY <1>6, <2>2 DEF PurgeNode, TypeOK, NoPurge
  <2> QED BY <2>1, <2>3, HardDeleteTypes DEF TypeOK
<1>7. CASE UNCHANGED vars
  BY <1>7 DEF vars, TypeOK
<1> QED BY <1>1, <1>2, <1>3, <1>4, <1>5, <1>6, <1>7 DEF Next

\* The empty tree is of its types.
LEMMA TypesHold == Init => TypeOK
<1> SUFFICES ASSUME Init PROVE TypeOK
  OBVIOUS
<1>1. purge \in [Purger -> [now : Node \cup {Top}, left : SUBSET Node]]
  BY DEF Init, NoPurge
<1>2. parent \in [Node -> Node \cup {Top}]
  BY DEF Init
<1> QED BY <1>1, <1>2 DEF Init, TypeOK

\* The tables keep their types: rows of the closure table and trash marks are of
\* nodes that exist, whatever clients do in the trash.
THEOREM TypesKept == Spec => []TypeOK
BY TypesHold, TypeStep, PTL DEF Spec


-----------------------------------------------------------------------------
(* The inductive invariant *)

Sub(n) == Below(parent, nodes, n)

ParentsExist == \A n \in nodes : parent[n] \in nodes \cup {Top}

\* No node is below itself by its parent.
Acyclic == \A n \in nodes : parent[n] \notin Sub(n)

Tree == TypeOK /\ ParentsExist /\ Acyclic /\ ClosureExact /\ MovesEnd

\* In such a tree the closure table answers with the subtree, and with the nodes
\* whose subtree holds the one asked about.
LEMMA TableAnswers ==
    ASSUME TypeOK, ClosureExact
    PROVE  /\ \A n \in nodes : Descendants(n) = Sub(n)
           /\ \A n : n \notin nodes => Descendants(n) = {}
           /\ \A q \in nodes \cup {Top} : Ancestors(q) = {a \in nodes : q \in Sub(a)}
<1>1. \A n \in nodes : Sub(n) \subseteq nodes
  BY BelowWithin DEF Sub
<1>2. Top \notin nodes
  BY TopAssumption DEF TypeOK
<1>3. ASSUME NEW n \in nodes PROVE Descendants(n) = Sub(n)
  BY <1>1 DEF Descendants, ClosureExact, Sub
<1>4. ASSUME NEW n, n \notin nodes PROVE Descendants(n) = {}
  BY <1>4 DEF Descendants, TypeOK
<1>5. ASSUME NEW q \in nodes \cup {Top} PROVE Ancestors(q) = {a \in nodes : q \in Sub(a)}
  <2>1. CASE q \in nodes
    BY <2>1 DEF Ancestors, ClosureExact, Sub
  <2>2. CASE q = Top
    BY <1>1, <1>2, <2>2 DEF Ancestors, TypeOK
  <2> QED BY <2>1, <2>2
<1> QED BY <1>3, <1>4, <1>5

\* Two nodes are below one another only if they are the same.
LEMMA Antisymmetric ==
    ASSUME Acyclic, NEW n \in nodes, NEW a \in Sub(n), n \in Sub(a)
    PROVE  a = n
<1> SUFFICES ASSUME a # n PROVE FALSE
  OBVIOUS
<1>1. parent[n] \in Sub(a)
  BY BelowStep DEF Sub
<1>2. Sub(a) \subseteq Sub(n)
  BY BelowTrans DEF Sub
<1> QED BY <1>1, <1>2 DEF Acyclic

-----------------------------------------------------------------------------
(* Create *)

\* A new node is below itself and below what its parent is below, and nothing is
\* below it.
LEMMA CreateBelow ==
    ASSUME Tree, NEW n \in Node, NEW q \in Node \cup {Top}, Create(n, q)
    PROVE  /\ Sub(n)' = {n}
           /\ \A a \in nodes : Sub(a)' = Sub(a) \cup (IF q \in Sub(a) THEN {n} ELSE {})
<1>1. /\ n \notin nodes /\ nodes' = nodes \cup {n} /\ parent'[n] = q /\ q \in nodes \cup {Top}
      /\ \A m \in nodes : parent'[m] = parent[m] /\ parent[m] # n
  BY TopAssumption DEF Create, Unused, Tree, TypeOK, ParentsExist
<1>2. Sub(n)' = {n}
  <2>1. \A m \in nodes' : parent'[m] \in {n} => m \in {n}
    BY <1>1
  <2>2. Sub(n)' \subseteq {n}
    BY <2>1, BelowLeast DEF Sub
  <2> QED BY <2>2, BelowSelf DEF Sub
<1>3. ASSUME NEW a \in nodes
      PROVE  Sub(a)' = Sub(a) \cup (IF q \in Sub(a) THEN {n} ELSE {})
  <2> DEFINE T == Sub(a) \cup (IF q \in Sub(a) THEN {n} ELSE {})
  <2>1. a \in Sub(a) /\ Sub(a) \subseteq nodes
    BY BelowSelf, BelowWithin DEF Sub
  <2>2. \A m \in nodes : parent[m] \in Sub(a) => m \in Sub(a)
    BY BelowChild DEF Sub
  <2>3. \A m \in nodes' : parent'[m] \in T => m \in T
    BY <1>1, <2>1, <2>2
  <2>4. a \in T
    BY <2>1
  <2> HIDE DEF T
  <2>5. Sub(a)' \subseteq T
    BY <2>3, <2>4, BelowLeast DEF Sub
  <2>6. a \in Sub(a)' /\ \A m \in nodes' : parent'[m] \in Sub(a)' => m \in Sub(a)'
    BY BelowSelf, BelowChild DEF Sub
  <2>7. Sub(a) \subseteq Sub(a)'
    BY <1>1, <2>6, BelowLeast DEF Sub
  <2> QED BY <1>1, <2>5, <2>6, <2>7 DEF T
<1> QED BY <1>2, <1>3

\* Creating a node keeps the invariant.
LEMMA CreateStep ==
    ASSUME Tree, NEW n \in Node, NEW q \in Node \cup {Top}, Create(n, q)
    PROVE  ParentsExist' /\ Acyclic' /\ ClosureExact' /\ MovesEnd'
<1>1. /\ n \notin nodes /\ nodes' = nodes \cup {n} /\ parent'[n] = q /\ q \in nodes \cup {Top}
      /\ \A m \in nodes : parent'[m] = parent[m] /\ parent[m] # n
      /\ closure' = closure \cup {<<n, n>>} \cup {<<a, n>> : a \in Ancestors(q)}
      /\ closure \subseteq nodes \X nodes /\ n # Top
  BY TopAssumption DEF Create, Unused, Tree, TypeOK, ParentsExist
<1>2. /\ Sub(n)' = {n}
      /\ \A a \in nodes : Sub(a)' = Sub(a) \cup (IF q \in Sub(a) THEN {n} ELSE {})
  BY CreateBelow
<1>3. ParentsExist'
  BY <1>1 DEF Tree, ParentsExist
<1>4. Acyclic'
  BY <1>1, <1>2 DEF Tree, Acyclic
<1>5. \A a, d \in nodes' : <<a, d>> \in closure' <=> d \in Sub(a)'
  <2> SUFFICES ASSUME NEW a \in nodes', NEW d \in nodes'
               PROVE  <<a, d>> \in closure' <=> d \in Sub(a)'
    OBVIOUS
  <2>1. CASE d \in nodes /\ a \in nodes
    BY <1>1, <1>2, <2>1 DEF Tree, ClosureExact, Sub
  <2>2. CASE d = n /\ a \in nodes
    <3>1. a \in Ancestors(q) <=> q \in Sub(a)
      BY <1>1, <2>2, TableAnswers DEF Tree
    <3>2. n \notin Sub(a)
      BY <1>1, <2>2, BelowWithin DEF Sub
    <3> QED BY <1>1, <1>2, <2>2, <3>1, <3>2
  <2>3. CASE a = n
    <3>1. Ancestors(q) \subseteq nodes
      BY DEF Ancestors
    <3> QED BY <1>1, <1>2, <2>3, <3>1
  <2> QED BY <1>1, <2>1, <2>2, <2>3
<1>6. MovesEnd'
  BY DEF Tree, MovesEnd, Create
<1> QED BY <1>3, <1>4, <1>5, <1>6 DEF ClosureExact, Sub

-----------------------------------------------------------------------------
(* Move *)

Moved(n, q) == [parent EXCEPT ![n] = q]

\* Where a move is allowed, the walk over the live children collects the whole
\* subtree and never comes back to its start; a node of the subtree keeps what is
\* below it, and any other loses the subtree unless the target is below it.
LEMMA MoveBelow ==
    ASSUME Tree, NEW n \in nodes, NEW q \in nodes \cup {Top}, q \notin Sub(n),
           Sub(n) \cap trashed = {},
           NEW par, par = Moved(n, q)
    PROVE  /\ \A a \in Sub(n) : Below(par, nodes, a) = Sub(a) /\ Below(par, Live, a) = Sub(a)
           /\ \A a \in nodes \ Sub(n) :
                 Below(par, nodes, a) = (Sub(a) \ Sub(n)) \cup (IF q \in Sub(a) THEN Sub(n) ELSE {})
<1>1. par[n] = q /\ \A m \in nodes : m # n => par[m] = parent[m]
  BY DEF Tree, TypeOK, Moved
<1>2. /\ \A a \in nodes : a \in Sub(a) /\ Sub(a) \subseteq nodes
      /\ \A a : \A m \in nodes : parent[m] \in Sub(a) => m \in Sub(a)
  BY BelowSelf, BelowWithin, BelowChild DEF Sub
<1>3. \A a \in Sub(n) : Sub(a) \subseteq Sub(n)
  BY BelowTrans DEF Sub
<1>4. ASSUME NEW a \in Sub(n)
      PROVE  Below(par, nodes, a) = Sub(a) /\ Below(par, Live, a) = Sub(a)
  <2> Sub(a) \subseteq Sub(n) /\ Sub(a) \subseteq nodes
    BY <1>2, <1>3
  <2>1. \A m \in Sub(a) \ {a} : par[m] = parent[m]
    BY <1>1, Antisymmetric DEF Tree
  <2>2. \A m \in nodes : par[m] \in Sub(a) => m \in Sub(a)
    BY <1>1, <1>2
  <2>3. Sub(a) \subseteq Live /\ Live \subseteq nodes
    BY DEF Live
  <2>4. \A S2 \in {nodes, Live} : Below(par, S2, a) = Sub(a)
    <3> SUFFICES ASSUME NEW S2 \in {nodes, Live} PROVE Below(par, S2, a) = Sub(a)
      OBVIOUS
    <3>1. Sub(a) \subseteq S2 /\ \A m \in S2 : par[m] \in Sub(a) => m \in Sub(a)
      BY <2>2, <2>3
    <3> QED BY <2>1, <3>1, BelowFrame DEF Sub
  <2> QED BY <2>4
<1>5. ASSUME NEW a \in nodes \ Sub(n)
      PROVE  Below(par, nodes, a)
               = (Sub(a) \ Sub(n)) \cup (IF q \in Sub(a) THEN Sub(n) ELSE {})
  <2> DEFINE B == Below(par, nodes, a)
             T == (Sub(a) \ Sub(n)) \cup (IF q \in Sub(a) THEN Sub(n) ELSE {})
  <2>1. a \in T
    BY <1>2
  <2>2. ASSUME NEW m \in nodes, par[m] \in T
        PROVE  m \in T
    <3>1. CASE m = n
      BY <1>1, <1>2, <2>2, <3>1
    <3>2. CASE m # n
      <4>1. m \in Sub(n) => parent[m] \in Sub(n)
        BY <3>2, BelowStep DEF Sub
      <4> QED BY <1>1, <1>2, <2>2, <3>2, <4>1
    <3> QED BY <3>1, <3>2
  <2>3. B \subseteq T
    <3> HIDE DEF T
    <3> QED BY <2>1, <2>2, BelowLeast
  <2>4. a \in B /\ \A m \in nodes : par[m] \in B => m \in B
    BY BelowSelf, BelowChild
  <2>5. Sub(a) \subseteq B \cup Sub(n)
    <3>1. \A m \in nodes : parent[m] \in B \cup Sub(n) => m \in B \cup Sub(n)
      BY <1>1, <1>2, <2>4
    <3> DEFINE U == B \cup Sub(n)
    <3>2. a \in U /\ \A m \in nodes : parent[m] \in U => m \in U
      BY <2>4, <3>1
    <3> HIDE DEF U
    <3>3. Sub(a) \subseteq U
      BY <3>2, BelowLeast DEF Sub
    <3> QED BY <3>3 DEF U
  <2>6. ASSUME q \in Sub(a) PROVE Sub(n) \subseteq B
    <3>1. n \in B
      BY <1>1, <2>4, <2>5, <2>6
    <3>2. Below(par, nodes, n) = Sub(n)
      BY <1>2, <1>4
    <3> QED BY <3>1, <3>2, BelowTrans
  <2> QED BY <2>3, <2>5, <2>6
<1> QED BY <1>4, <1>5

\* Moving a node whose subtree holds nothing trashed keeps the invariant.
LEMMA MoveStep ==
    ASSUME "move" \notin TrashOps, Tree, NEW n \in Node, NEW q \in Node \cup {Top}, Move(n, q)
    PROVE  ParentsExist' /\ Acyclic' /\ ClosureExact' /\ MovesEnd'
<1> PICK par : par = Moved(n, q)
  OBVIOUS
<1>1. /\ n \in nodes /\ q \in nodes \cup {Top} /\ Sub(n) \cap trashed = {}
      /\ nodes' = nodes /\ closure \subseteq nodes \X nodes
      /\ par[n] = q /\ \A m \in nodes : m # n => par[m] = parent[m]
  BY DEF Move, Sub, Tree, TypeOK, Moved
<1>2. \A m \in nodes : Descendants(m) = Sub(m)
  BY TableAnswers DEF Tree
<1>3. q \notin Sub(n)
  BY <1>1, <1>2 DEF Move, Allowed
<1>4. /\ \A a \in Sub(n) : Below(par, nodes, a) = Sub(a) /\ Below(par, Live, a) = Sub(a)
      /\ \A a \in nodes \ Sub(n) :
            Below(par, nodes, a) = (Sub(a) \ Sub(n)) \cup (IF q \in Sub(a) THEN Sub(n) ELSE {})
  BY <1>1, <1>3, MoveBelow
<1>5. /\ \A a \in nodes : a \in Sub(a) /\ Sub(a) \subseteq nodes
      /\ \A a : \A m \in nodes : parent[m] \in Sub(a) => m \in Sub(a)
      /\ \A a \in Sub(n) : Sub(a) \subseteq Sub(n)
  BY BelowSelf, BelowWithin, BelowChild, BelowTrans DEF Sub
<1>6. ~Cyclic(par, n)
  BY <1>1, <1>3, <1>4, <1>5 DEF Cyclic
<1>7. parent' = par /\ closure' = Rebuilt(par, n, q) /\ hung' = hung
  BY <1>6 DEF Move, Moved
<1>8. ParentsExist'
  BY <1>1, <1>7 DEF Tree, ParentsExist
<1>9. \A m \in nodes : par[m] \notin Below(par, nodes, m)
  <2> SUFFICES ASSUME NEW m \in nodes PROVE par[m] \notin Below(par, nodes, m)
    OBVIOUS
  <2>1. CASE m \in Sub(n)
    BY <1>1, <1>3, <1>4, <2>1 DEF Tree, Acyclic
  <2>2. CASE m \notin Sub(n)
    <3>1. par[m] = parent[m] /\ parent[m] \notin Sub(n) /\ parent[m] \notin Sub(m)
      BY <1>1, <1>5, <2>2 DEF Tree, Acyclic
    <3>2. Below(par, nodes, m) \subseteq Sub(m) \cup Sub(n)
      BY <1>4, <2>2
    <3> QED BY <3>1, <3>2
  <2> QED BY <2>1, <2>2
<1>10. \A a, d \in nodes : <<a, d>> \in Rebuilt(par, n, q) <=> d \in Below(par, nodes, a)
  <2> SUFFICES ASSUME NEW a \in nodes, NEW d \in nodes
               PROVE  <<a, d>> \in Rebuilt(par, n, q) <=> d \in Below(par, nodes, a)
    OBVIOUS
  <2>1. a \in Ancestors(q) <=> q \in Sub(a)
    BY <1>1, TableAnswers DEF Tree
  <2>2. /\ Below(par, Live, n) = Sub(n)
        /\ a \in Sub(n) => Below(par, Live, a) = Sub(a)
    BY <1>1, <1>4, <1>5
  <2>3. <<a, d>> \in closure <=> d \in Sub(a)
    BY DEF Tree, ClosureExact, Sub
  <2>4. CASE d \in Sub(n)
    <3>1. <<a, d>> \in Rebuilt(par, n, q) <=> (a \in Sub(n) /\ d \in Sub(a)) \/ q \in Sub(a)
      BY <1>1, <1>2, <2>1, <2>2, <2>4 DEF Rebuilt, RowsOfSubtree
    <3>2. CASE a \in Sub(n)
      BY <1>3, <1>4, <1>5, <3>1, <3>2
    <3>3. CASE a \notin Sub(n)
      BY <1>4, <2>4, <3>1, <3>3
    <3> QED BY <3>2, <3>3
  <2>5. CASE d \notin Sub(n)
    <3>1. <<a, d>> \in Rebuilt(par, n, q) <=> d \in Sub(a)
      BY <1>1, <1>2, <2>2, <2>3, <2>5 DEF Rebuilt, RowsOfSubtree
    <3>2. CASE a \in Sub(n)
      BY <1>4, <1>5, <2>5, <3>1, <3>2
    <3>3. CASE a \notin Sub(n)
      BY <1>4, <2>5, <3>1, <3>3
    <3> QED BY <3>2, <3>3
  <2> QED BY <2>4, <2>5
<1>11. Acyclic' /\ ClosureExact'
  BY <1>1, <1>7, <1>9, <1>10 DEF Acyclic, ClosureExact, Sub
<1>12. MovesEnd'
  BY <1>7 DEF Tree, MovesEnd
<1> QED BY <1>8, <1>11, <1>12

-----------------------------------------------------------------------------
(* Delete *)

\* What a delete takes away is the subtree of the node, if the node exists; it is
\* closed under children, so a subtree keeps exactly what is not taken away.
LEMMA GoneIs ==
    ASSUME Tree, NEW n
    PROVE  /\ Gone(n) = IF n \in nodes THEN Sub(n) ELSE {}
           /\ \A m \in nodes : parent[m] \in Gone(n) => m \in Gone(n)
<1>1. CASE n \in nodes
  <2>1. Descendants(n) = Sub(n)
    BY <1>1, TableAnswers DEF Tree
  <2>2. n \in Sub(n) /\ \A d \in Sub(n) : Sub(d) \subseteq Sub(n)
    BY BelowSelf, BelowTrans DEF Sub
  <2>3. Gone(n) = Sub(n)
    BY <2>1, <2>2 DEF Gone, Sub
  <2>4. \A m \in nodes : parent[m] \in Sub(n) => m \in Sub(n)
    BY BelowChild DEF Sub
  <2> QED BY <1>1, <2>3, <2>4
<1>2. CASE n \notin nodes
  BY <1>2, TableAnswers DEF Tree, Gone
<1> QED BY <1>1, <1>2

\* A delete keeps the invariant.
LEMMA DeleteStep ==
    ASSUME Tree, NEW n, HardDelete(n)
    PROVE  ParentsExist' /\ Acyclic' /\ ClosureExact'
<1> PICK gone : gone = Gone(n)
  OBVIOUS
<1>1. \A m \in nodes : parent[m] \in gone => m \in gone
  BY GoneIs
<1>2. /\ nodes' = nodes \ gone
      /\ \A m \in nodes' : parent'[m] = parent[m]
      /\ closure' = {r \in closure : r[1] \notin gone /\ r[2] \notin gone}
  BY DEF HardDelete, Gone, Tree, TypeOK
<1>3. ASSUME NEW a \in nodes' PROVE Sub(a)' = Sub(a) \ gone
  <2>1. a \in Sub(a) /\ \A m \in nodes : parent[m] \in Sub(a) => m \in Sub(a)
    BY BelowSelf, BelowChild DEF Sub
  <2>2. a \in Sub(a)' /\ \A m \in nodes' : parent'[m] \in Sub(a)' => m \in Sub(a)'
    BY BelowSelf, BelowChild DEF Sub
  <2>3. Sub(a)' \subseteq Sub(a) \ gone
    <3> DEFINE T == Sub(a) \ gone
    <3>1. a \in T /\ \A m \in nodes' : parent'[m] \in T => m \in T
      BY <1>2, <2>1
    <3> HIDE DEF T
    <3>2. Sub(a)' \subseteq T
      BY <3>1, BelowLeast DEF Sub
    <3> QED BY <3>2 DEF T
  <2>4. Sub(a) \subseteq Sub(a)' \cup gone
    <3> DEFINE T == Sub(a)' \cup gone
    <3>1. a \in T /\ \A m \in nodes : parent[m] \in T => m \in T
      BY <1>1, <1>2, <2>2
    <3> HIDE DEF T
    <3>2. Sub(a) \subseteq T
      BY <3>1, BelowLeast DEF Sub
    <3> QED BY <3>2 DEF T
  <2> QED BY <2>3, <2>4
<1>4. ParentsExist'
  BY <1>1, <1>2 DEF Tree, ParentsExist
<1>5. Acyclic'
  BY <1>2, <1>3 DEF Tree, Acyclic
<1>6. ASSUME NEW a \in nodes', NEW d \in nodes'
      PROVE  <<a, d>> \in closure' <=> d \in Sub(a)'
  <2>1. <<a, d>> \in closure' <=> <<a, d>> \in closure
    BY <1>2
  <2>2. <<a, d>> \in closure <=> d \in Sub(a)
    BY <1>2 DEF Tree, ClosureExact, Sub
  <2> QED BY <1>2, <1>3, <2>1, <2>2
<1> QED BY <1>4, <1>5, <1>6 DEF ClosureExact, Sub

-----------------------------------------------------------------------------
(* Every step *)

\* Every step keeps the invariant, if nothing that is or holds a trashed item moves.
LEMMA TreeStep ==
    ASSUME "move" \notin TrashOps, Tree, [Next]_vars
    PROVE  Tree'
<1>1. TypeOK'
  BY TypeStep DEF Tree
<1>2. ASSUME UNCHANGED <<nodes, parent, closure, hung>>
      PROVE  ParentsExist' /\ Acyclic' /\ ClosureExact' /\ MovesEnd'
  BY <1>2 DEF Tree, ParentsExist, Acyclic, ClosureExact, MovesEnd, Sub
<1>3. ASSUME NEW n \in Node, NEW q \in Node \cup {Top}, Create(n, q)
      PROVE  ParentsExist' /\ Acyclic' /\ ClosureExact' /\ MovesEnd'
  BY <1>3, CreateStep
<1>4. ASSUME NEW n \in Node, NEW q \in Node \cup {Top}, Move(n, q)
      PROVE  ParentsExist' /\ Acyclic' /\ ClosureExact' /\ MovesEnd'
  BY <1>4, MoveStep
<1>5. ASSUME NEW n \in Node, Trash(n) \/ Untrash(n)
      PROVE  ParentsExist' /\ Acyclic' /\ ClosureExact' /\ MovesEnd'
  BY <1>2, <1>5 DEF Trash, Untrash
<1>6. ASSUME NEW n \in Node, Discard(n)
      PROVE  ParentsExist' /\ Acyclic' /\ ClosureExact' /\ MovesEnd'
  BY <1>6, DeleteStep DEF Discard, Tree, MovesEnd
<1>7. ASSUME NEW p \in Purger, NEW n \in Node, NEW left \in SUBSET trashed, PurgeStart(p, n, left)
      PROVE  ParentsExist' /\ Acyclic' /\ ClosureExact' /\ MovesEnd'
  BY <1>2, <1>7 DEF PurgeStart
<1>8. ASSUME NEW p \in Purger, PurgeNode(p)
      PROVE  ParentsExist' /\ Acyclic' /\ ClosureExact' /\ MovesEnd'
  BY <1>8, DeleteStep DEF PurgeNode, Tree, MovesEnd
<1>9. ASSUME UNCHANGED vars
      PROVE  ParentsExist' /\ Acyclic' /\ ClosureExact' /\ MovesEnd'
  BY <1>2, <1>9 DEF vars
<1> QED BY <1>1, <1>3, <1>4, <1>5, <1>6, <1>7, <1>8, <1>9 DEF Next, Tree

\* The invariant holds of every reachable state.
LEMMA TreeKept ==
    ASSUME "move" \notin TrashOps
    PROVE  Spec => []Tree
<1>1. ASSUME Init PROVE Tree
  BY <1>1, TypesHold DEF Init, Tree, ParentsExist, Acyclic, ClosureExact, MovesEnd
<1> QED BY <1>1, TreeStep, PTL DEF Spec

\* ClosureExact: the closure table is the reflexive transitive closure of the parent
\* pointers, whatever is created, moved, trashed, restored and purged, unless what
\* moves is or holds a trashed item.
THEOREM TableExact ==
    ASSUME "move" \notin TrashOps
    PROVE  Spec => []ClosureExact
<1>1. Tree => ClosureExact
  BY DEF Tree
<1> QED BY <1>1, TreeKept, PTL

\* MovesEnd: the walk that rebuilds a moved subtree comes to an end, under the same
\* condition: the check against the closure table lets no cycle through.
THEOREM WalksEnd ==
    ASSUME "move" \notin TrashOps
    PROVE  Spec => []MovesEnd
<1>1. Tree => MovesEnd
  BY DEF Tree
<1> QED BY <1>1, TreeKept, PTL

-----------------------------------------------------------------------------
(* What a step may not do *)

\* What a delete of n takes away is gone from the tree, n itself if it was there.
LEMMA DeleteTakes ==
    ASSUME Tree, NEW n, HardDelete(n)
    PROVE  n \notin nodes' /\ nodes \ nodes' = IF n \in nodes THEN Sub(n) ELSE {}
<1>1. nodes' = nodes \ Gone(n)
  BY DEF HardDelete, Gone
<1>2. Gone(n) = IF n \in nodes THEN Sub(n) ELSE {}
  BY GoneIs
<1>3. Gone(n) \subseteq nodes /\ n \in Sub(n)
  BY GoneWithin, BelowSelf DEF Sub
<1> QED BY <1>1, <1>2, <1>3

\* No other step takes a node away.
LEMMA OnlyDeletes ==
    ASSUME [Next]_vars, NEW d \in nodes \ nodes'
    PROVE  \/ \E n \in Node : Discard(n)
           \/ \E p \in Purger : PurgeNode(p)
BY DEF Next, vars, Create, Move, Trash, Untrash, PurgeStart

\* TrashedWhole: nothing live is left below an item that goes to the trash.
THEOREM TrashTakesAll ==
    ASSUME "move" \notin TrashOps
    PROVE  Spec => TrashedWhole
<1>1. ASSUME Tree, [Next]_vars
      PROVE  \A n \in trashed' \ trashed : Below(parent, nodes, n) \subseteq trashed'
  <2> SUFFICES ASSUME NEW m \in trashed' \ trashed PROVE Sub(m) \subseteq trashed'
    BY DEF Sub
  <2>1. PICK n \in Node : Trash(n)
    BY <1>1 DEF Next, vars, Create, Move, Untrash, Discard, HardDelete, PurgeStart, PurgeNode
  <2>2. n \in nodes /\ trashed' = trashed \cup {n} \cup Descendants(n)
    BY <2>1 DEF Trash, Live
  <2>3. Descendants(n) = Sub(n)
    BY <1>1, <2>2, TableAnswers DEF Tree
  <2>4. m \in Sub(n)
    BY <2>2, <2>3, BelowSelf DEF Sub
  <2>5. Sub(m) \subseteq Sub(n)
    BY <2>4, BelowTrans DEF Sub
  <2> QED BY <2>2, <2>3, <2>5
<1> QED BY <1>1, TreeKept, PTL DEF Spec, TrashedWhole

\* DeletesSubtreeOnly: what a purge or a clean-up takes away was below a node that
\* was being purged, or was a childless node of its own.
THEOREM DeletesNothingElse ==
    ASSUME "move" \notin TrashOps
    PROVE  Spec => DeletesSubtreeOnly
<1> DEFINE Only == \A d \in nodes \ nodes' :
                      \/ \E p \in Purger :
                            purge[p].now \in nodes /\ d \in Below(parent, nodes, purge[p].now)
                      \/ nodes \ nodes' = {d}
<1>1. ASSUME Tree, [Next]_vars PROVE Only
  <2> SUFFICES ASSUME NEW d \in nodes \ nodes'
               PROVE  \/ \E p \in Purger :
                            purge[p].now \in nodes /\ d \in Below(parent, nodes, purge[p].now)
                      \/ nodes \ nodes' = {d}
    OBVIOUS
  <2>1. ASSUME NEW n \in Node, Discard(n) PROVE nodes \ nodes' = {d}
    <3>1. n \in nodes /\ HardDelete(n) /\ \A c \in nodes : parent[c] # n
      BY <2>1 DEF Discard
    <3>2. Sub(n) \subseteq {n}
      BY <3>1, BelowLeast DEF Sub
    <3>3. nodes \ nodes' = Sub(n)
      BY <1>1, <3>1, DeleteTakes
    <3> QED BY <3>2, <3>3
  <2>2. ASSUME NEW p \in Purger, PurgeNode(p)
        PROVE  purge[p].now \in nodes /\ d \in Below(parent, nodes, purge[p].now)
    <3>1. HardDelete(purge[p].now)
      BY <2>2 DEF PurgeNode
    <3>2. nodes \ nodes' = IF purge[p].now \in nodes THEN Sub(purge[p].now) ELSE {}
      BY <1>1, <3>1, DeleteTakes
    <3> QED BY <3>2 DEF Sub
  <2> QED BY <1>1, <2>1, <2>2, OnlyDeletes
<1> QED BY <1>1, TreeKept, PTL DEF Spec, DeletesSubtreeOnly

\* PurgesWhole: a purge drops no node from its list but by deleting it, whatever is
\* moved, trashed, restored and purged meanwhile.
THEOREM PurgesAll ==
    ASSUME "move" \notin TrashOps
    PROVE  Spec => PurgesWhole
<1> DEFINE Keeps == \A p \in Purger :
                       (purge[p].left \cup {purge[p].now}) \cap nodes'
                          \subseteq purge'[p].left \cup {purge'[p].now}
<1>1. ASSUME Tree, [Next]_vars PROVE Keeps
  <2>1. CASE purge' = purge
    BY <2>1
  <2>2. ASSUME NEW p \in Purger, NEW n \in Node, NEW left \in SUBSET trashed, PurgeStart(p, n, left)
        PROVE  Keeps
    <3>1. Top \notin nodes'
      BY <1>1, <2>2, TopAssumption DEF PurgeStart, Tree, TypeOK
    <3>2. purge[p] = NoPurge /\ \A o \in Purger : o # p => purge'[o] = purge[o]
      BY <1>1, <2>2 DEF PurgeStart, Tree, TypeOK
    <3> QED BY <3>1, <3>2 DEF NoPurge
  <2>3. ASSUME NEW p \in Purger, PurgeNode(p)
        PROVE  Keeps
    <3>1. purge[p].now \notin nodes'
      BY <1>1, <2>3, DeleteTakes DEF PurgeNode
    <3>2. \A o \in Purger : o # p => purge'[o] = purge[o]
      BY <1>1, <2>3 DEF PurgeNode, Tree, TypeOK
    <3>3. purge[p].left \cap nodes' \subseteq purge'[p].left \cup {purge'[p].now}
      BY <1>1, <2>3 DEF PurgeNode, Tree, TypeOK
    <3> QED BY <3>1, <3>2, <3>3
  <2> QED BY <1>1, <2>1, <2>2, <2>3
          DEF Next, vars, Create, Move, Trash, Untrash, Discard
<1> QED BY <1>1, TreeKept, PTL DEF Spec, PurgesWhole
=============================================================================
