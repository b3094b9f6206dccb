------------------------------- MODULE ConTree -------------------------------
(***************************************************************************)
(* The tree of i3ipcCon objects that i3ipc_con_new builds from one reply:  *)
(* who keeps whom alive, and what the functions that walk the tree find.   *)
(*                                                                         *)
(* A con owns a reference to each of its children and to the connection;   *)
(* it points to its parent without a reference, through a weak             *)
(* notification.  An application that keeps one con of a tree and releases *)
(* the others is left with the part below it, and every walk must work on  *)
(* such a part.                                                            *)
(***************************************************************************)
EXTENDS Naturals, Sequences, FiniteSets, SequencesExt

CONSTANTS
    Kinds,    \* the pairs of "type" and "name" in the reply
    MaxCons,  \* bound: cons in a tree
    MaxRefs   \* bound: references the application has at a time

ASSUME BoundsAssumption == MaxCons \in Nat \ {0} /\ MaxRefs \in Nat

Types == {kind[1] : kind \in Kinds}
Names == {kind[2] : kind \in Kinds}

VARIABLES
    tree,     \* the reply: what the cons contain
    built,    \* i3ipc_con_new has returned
    refs,     \* [Con -> reference count]; 0 once finalized
    parent,   \* [Con -> priv->parent]
    held,     \* [Con -> references the application owns]
    connHeld, \* the application owns a reference to the connection
    connRefs, \* reference count of the connection
    pending   \* cons still to be unreferenced by the g_object_unref in progress

vars == <<tree, built, refs, parent, held, connHeld, connRefs, pending>>

Con == 1..MaxCons
Null == 0

-----------------------------------------------------------------------------
(* The reply.  Cons are numbered as i3ipc_con_new makes them: a con before *)
(* its children, its nodes before its floating_nodes.                      *)

\* up: the con that contains it; floating: it is among its floating_nodes.
Reply(n) == [size : {n}, up : [2..n -> 1..n], floating : SUBSET (2..n),
             type : [1..n -> Types], name : [1..n -> Names]]

\* c and the cons that contain it: what is in every set with c in which no con
\* but the first lacks the con that contains it.
Enclosing(up, c) ==
    {k \in 1..c : \A S \in SUBSET (1..c) :
                      c \in S /\ (\A j \in S \ {1} : up[j] \in S) => k \in S}

InCreationOrder(n, up, floating) ==
    /\ \A k \in 2..n : up[k] < k
    /\ \A k \in 3..n : up[k] \in Enclosing(up, k - 1)
    /\ \A j, k \in 2..n : up[j] = up[k] /\ j \in floating /\ k \notin floating => k < j

\* The i-th has i - 1 before it.
InOrder(S) ==
    [i \in 1..Cardinality(S) |-> CHOOSE k \in S : Cardinality({j \in S : j < k}) = i - 1]

\* priv->nodes and priv->floating_nodes.
nodes(c) == InOrder({k \in (2..tree.size) \ tree.floating : tree.up[k] = c})
floating_nodes(c) == InOrder({k \in tree.floating : tree.up[k] = c})
Children(c) == nodes(c) \o floating_nodes(c)

Alive(c) == refs[c] > 0

Below(c) == {k \in 1..tree.size : c \in Enclosing(tree.up, k)}

\* The trees i3 sends: workspaces do not nest, and only they have
\* floating_nodes, which are not workspaces.
TreeOfI3 ==
    /\ \A k \in tree.floating : tree.type[tree.up[k]] = "workspace"
    /\ \A k \in 1..tree.size : tree.type[k] = "workspace" =>
          \A j \in Below(k) \ {k} : tree.type[j] # "workspace"

-----------------------------------------------------------------------------
(* Lifetimes.                                                              *)

Init ==
    /\ \E n \in 1..MaxCons : \E up \in [2..n -> 1..n], floating \in SUBSET (2..n) :
          /\ InCreationOrder(n, up, floating)
          /\ \E kind \in [1..n -> Kinds] :
                /\ tree = [size |-> n, up |-> up, floating |-> floating,
                           type |-> [k \in 1..n |-> kind[k][1]],
                           name |-> [k \in 1..n |-> kind[k][2]]]
                /\ TreeOfI3
    /\ built = FALSE
    /\ refs = [c \in Con |-> 0]
    /\ parent = [c \in Con |-> Null]
    /\ held = {}
    /\ connHeld = TRUE
    /\ connRefs = 1
    /\ pending = <<>>

\* Every con of the tree has one owner, the list of its parent or the caller,
\* and owns a reference to the connection.
i3ipc_con_new ==
    /\ ~built
    /\ connHeld
    /\ built' = TRUE
    /\ refs' = [c \in Con |-> IF c <= tree.size THEN 1 ELSE 0]
    /\ parent' = [c \in Con |-> IF c \in 2..tree.size THEN tree.up[c] ELSE Null]
    /\ held' = {1}
    /\ connRefs' = connRefs + tree.size
    /\ UNCHANGED <<tree, connHeld, pending>>

\* The walks return cons the application does not own; it may keep one.
Ref(c) ==
    /\ pending = <<>>
    /\ Alive(c)
    /\ c \notin held
    /\ Cardinality(held) < MaxRefs
    /\ held' = held \cup {c}
    /\ refs' = [refs EXCEPT ![c] = @ + 1]
    /\ UNCHANGED <<tree, built, parent, connHeld, connRefs, pending>>

Unref(c) ==
    /\ pending = <<>>
    /\ c \in held
    /\ held' = held \ {c}
    /\ pending' = <<c>>
    /\ UNCHANGED <<tree, built, refs, parent, connHeld, connRefs>>

UnrefConnection ==
    /\ pending = <<>>
    /\ connHeld
    /\ connHeld' = FALSE
    /\ connRefs' = connRefs - 1
    /\ UNCHANGED <<tree, built, refs, parent, held, pending>>

\* Variant: the parent is not told to be gone.
NoNotification(c) == parent

\* i3ipc_con_parent_weak_notify for each con whose parent is c, and the parent
\* pointer i3ipc_con_dispose clears in c itself.
ParentsWithout(c) == [k \in Con |-> IF k = c \/ parent[k] = c THEN Null ELSE parent[k]]

\* Variant: only one of the two lists is released.
ReleaseNodes(c) == nodes(c)

\* Variant: floating_nodes are released twice.
ReleaseFloatingTwice(c) == Children(c) \o floating_nodes(c)

\* What i3ipc_con_finalize unreferences, in this order.
Released(c) == Children(c)

\* Variant: finalize keeps the reference to the connection.
KeepConnection == connRefs

ConnectionReleased == connRefs - 1

\* One g_object_unref of the recursion, with i3ipc_con_dispose and
\* i3ipc_con_finalize when it is the last.
ReleaseOne ==
    /\ pending # <<>>
    /\ LET c == Head(pending)
       IN  /\ refs' = [refs EXCEPT ![c] = @ - 1]
           /\ IF refs[c] > 1
              THEN /\ pending' = Tail(pending)
                   /\ UNCHANGED <<parent, connRefs>>
              ELSE /\ parent' = ParentsWithout(c)
                   /\ connRefs' = ConnectionReleased
                   /\ pending' = Released(c) \o Tail(pending)
    /\ UNCHANGED <<tree, built, held, connHeld>>

Next ==
    \/ i3ipc_con_new
    \/ \E c \in Con : Ref(c) \/ Unref(c)
    \/ UnrefConnection
    \/ ReleaseOne

Spec == Init /\ [][Next]_vars

-----------------------------------------------------------------------------
(* The walks.                                                              *)

\* Variant: the climb stops below the top.
ParentOnly(c) == IF parent[c] = Null THEN c ELSE parent[c]

i3ipc_con_root(c) ==
    LET top[k \in Con] == IF parent[k] = Null THEN k ELSE top[parent[k]] IN top[c]

\* Variant: the children are collected before anything below them.
ChildrenFirst(c) ==
    LET below[k \in Con] ==
            Children(k) \o FlattenSeq([i \in DOMAIN Children(k) |-> below[Children(k)[i]]])
    IN  below[c]

i3ipc_con_descendents(c) ==
    LET with[k \in Con] ==
            <<k>> \o FlattenSeq([i \in DOMAIN Children(k) |-> with[Children(k)[i]]])
    IN  Tail(with[c])

\* The loop of the searches: those of the wanted cons that are in the list.
Select(list, wanted) ==
    FlattenSeq([i \in DOMAIN list |-> IF list[i] \in wanted THEN <<list[i]>> ELSE <<>>])

\* Variant: the clients of docks are not left out.
NoDockTest(k) == nodes(k) = <<>> /\ tree.type[k] = "con"

IsLeaf(k) ==
    /\ nodes(k) = <<>>
    /\ tree.type[k] = "con"
    /\ tree.type[parent[k]] # "dockarea"

i3ipc_con_leaves(c) ==
    LET below == i3ipc_con_descendents(c)
    IN  Select(below, {k \in Range(below) : IsLeaf(k)})

\* Variant: the search stops before the last descendent.
AllButLast(c, wanted) ==
    Select(Front(<<c>> \o i3ipc_con_descendents(c)), wanted \ {c})

\* i3ipc_con_find_named, _classed and _marked, with the cons whose name, class
\* or mark the pattern matches.
FindAll(c, wanted) == Select(i3ipc_con_descendents(c), wanted)

\* i3ipc_con_find_focused, _by_id and _by_window, with the cons that have the
\* focus, the id or the window.
FindFirst(c, wanted) ==
    LET below == i3ipc_con_descendents(c)
        found == {i \in DOMAIN below : below[i] \in wanted}
    IN  IF found = {} THEN Null ELSE below[Min(found)]

Internal == {"__i3", "__i3_scratch"}
IsListedWorkspace(k) == tree.type[k] = "workspace" /\ tree.name[k] \notin Internal

\* Variant: nothing below a con of the root is visited.
TopLevelWorkspaces(c) ==
    Select(nodes(i3ipc_con_root(c)), {k \in 1..tree.size : IsListedWorkspace(k)})

i3ipc_con_workspaces(c) ==
    LET collect[k \in Con] ==
            IF IsListedWorkspace(k)
            THEN <<k>>
            ELSE FlattenSeq([i \in DOMAIN nodes(k) |-> collect[nodes(k)[i]]])
        top == nodes(i3ipc_con_root(c))
    IN  FlattenSeq([i \in DOMAIN top |-> collect[top[i]]])

i3ipc_con_workspace(c) ==
    LET closest[k \in Con] ==
            IF parent[k] = Null \/ tree.type[parent[k]] = "workspace"
            THEN parent[k]
            ELSE closest[parent[k]]
    IN  closest[c]

\* The first of the nodes of c with that name.
NodeNamed(c, name) ==
    LET found == IF c = Null THEN {} ELSE {k \in Range(nodes(c)) : tree.name[k] = name}
    IN  IF found = {} THEN Null ELSE Min(found)

\* Variant: the con inside "__i3" is taken for granted.
ScratchpadAnywhere(c) == NodeNamed(NodeNamed(i3ipc_con_root(c), "__i3"), "__i3_scratch")

i3ipc_con_scratchpad(c) ==
    NodeNamed(NodeNamed(NodeNamed(i3ipc_con_root(c), "__i3"), "content"), "__i3_scratch")

-----------------------------------------------------------------------------
(* Properties.                                                             *)

\* Every variable has the type its declaration promises; reference counts are
\* not decremented below zero.
TypeOK ==
    /\ \E n \in 1..MaxCons : tree \in Reply(n)
    /\ built \in BOOLEAN /\ connHeld \in BOOLEAN
    /\ refs \in [Con -> 0..2]
    /\ parent \in [Con -> Con \cup {Null}]
    /\ held \subseteq Con
    /\ connRefs \in 0..(MaxCons + 1)
    /\ pending \in Seq(Con)

\* priv->parent, which is not a reference, never points to a con that is gone,
\* at no moment of a release.
ParentIsAlive == \A c \in Con : Alive(c) /\ parent[c] # Null => Alive(parent[c])

\* Between calls exactly the cons in or below one the application keeps exist:
\* nothing it can reach is freed, and nothing else is kept.
ReachableIsAlive ==
    built /\ pending = <<>> => {c \in Con : Alive(c)} = UNION {Below(c) : c \in held}

\* i3ipc_con_command may use the connection of any con, and the connection goes
\* when the application and the last con have released it.
ConnectionOutlivesCons ==
    connRefs = Cardinality({c \in Con : Alive(c)}) + (IF connHeld THEN 1 ELSE 0)

Walkable == {c \in Con : pending = <<>> /\ Alive(c)}

\* i3ipc_con_root leads to the top of what is left of the tree, from which
\* i3ipc_con_descendents leads back.
RootReachesAll ==
    \A c \in Walkable :
        LET top == i3ipc_con_root(c)
        IN  /\ Alive(top) /\ parent[top] = Null
            /\ c = top \/ c \in Range(i3ipc_con_descendents(top))

\* Descendents come once each, in the order of the reply.
DescendentsInReplyOrder ==
    \A c \in Walkable : i3ipc_con_descendents(c) = InOrder(Below(c) \ {c})

\* Whatever is looked for, the functions that find one con and those that find
\* all of them agree, and a search from anywhere in what is left of the tree
\* finds what the same search from the top finds there.
SearchesAgree ==
    \A c \in Walkable, name \in Names :
        LET wanted == {k \in 1..tree.size : tree.name[k] = name}
            found == FindAll(c, wanted)
        IN  /\ FindFirst(c, wanted) = IF found = <<>> THEN Null ELSE Head(found)
            /\ found = FindAll(i3ipc_con_root(c), wanted \cap (Below(c) \ {c}))

\* "Finds the leaf descendent nodes excluding dock clients": cons without any
\* child, not in a dock area.  i3ipc_con_leaves looks at nodes only, and reads
\* a parent without testing it, on what is left of the tree too.
LeavesAreLeaves ==
    \A c \in Walkable :
        i3ipc_con_leaves(c) =
                InOrder({k \in Below(c) \ {c} :
                            /\ tree.type[k] = "con"
                            /\ Below(k) = {k}
                            /\ tree.type[tree.up[k]] # "dockarea"})

\* The workspace of a con is in the list of workspaces, unless it is one of
\* i3's own or the top of the tree.
OwnWorkspaceListed ==
    \A c \in Walkable :
        LET w == i3ipc_con_workspace(c)
        IN  w # Null /\ w # i3ipc_con_root(c) /\ IsListedWorkspace(w)
               => w \in Range(i3ipc_con_workspaces(c))

\* The scratchpad is found from every con of a complete tree that has one.
ScratchpadFound ==
    \A c \in Walkable, k \in 4..tree.size :
        LET content == tree.up[k]
            i3 == IF content > 1 THEN tree.up[content] ELSE Null
        IN  /\ 1 \in held
            /\ {k, content, i3} \cap (tree.floating \cup {1, Null}) = {}
            /\ tree.up[i3] = 1
            /\ tree.name[k] = "__i3_scratch" /\ tree.name[content] = "content"
            /\ \A j \in 1..tree.size : tree.name[j] = "__i3" <=> j = i3
            /\ \A j \in Below(i3) : tree.name[j] = "content" => j = content
            /\ \A j \in Below(i3) : tree.name[j] = "__i3_scratch" => j = k
            => i3ipc_con_scratchpad(c) = k
=============================================================================
