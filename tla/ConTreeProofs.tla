---------------------------- MODULE ConTreeProofs ----------------------------
(***************************************************************************)
(* Theorems about ConTree, for trees of every size and kind.               *)
(***************************************************************************)
EXTENDS ConTree, FiniteSetTheorems, SequenceTheorems, TLAPS

\* A con is contained in another one of the tree, and a pointer to a parent
\* that is set has a parent to point to.
ParentInv ==
    /\ tree.size \in 1..MaxCons
    /\ \A c \in 2..tree.size : tree.up[c] \in 1..tree.size
    /\ refs \in [Con -> Int]
    /\ parent \in [Con -> Con \cup {Null}]
    /\ ParentIsAlive

LEMMA ParentInit == Init => ParentInv
<1> SUFFICES ASSUME Init PROVE ParentInv
  OBVIOUS
<1>1. tree.size \in 1..MaxCons /\ \A c \in 2..tree.size : tree.up[c] \in 1..tree.size
  <2>1. PICK n \in 1..MaxCons : \E up \in [2..n -> 1..n] : tree.size = n /\ tree.up = up
    BY DEF Init
  <2> QED
    BY <2>1
<1>2. refs \in [Con -> Int] /\ parent \in [Con -> Con \cup {Null}]
  BY DEF Init
<1>3. ParentIsAlive
  BY DEF Init, ParentIsAlive
<1> QED
  BY <1>1, <1>2, <1>3 DEF ParentInv

\* A new tree is alive as a whole.
LEMMA ParentNew == ASSUME ParentInv, i3ipc_con_new PROVE ParentInv'
<1>1. /\ tree' = tree
      /\ refs' = [c \in Con |-> IF c <= tree.size THEN 1 ELSE 0]
      /\ parent' = [c \in Con |-> IF c \in 2..tree.size THEN tree.up[c] ELSE Null]
  BY DEF i3ipc_con_new
<1>2. MaxCons \in Nat /\ tree.size \in 1..MaxCons
  BY BoundsAssumption DEF ParentInv
<1>3. \A c \in 2..tree.size : tree.up[c] \in 1..tree.size /\ tree.up[c] \in Con
  BY <1>2 DEF ParentInv, Con
<1>4. refs' \in [Con -> Int] /\ parent' \in [Con -> Con \cup {Null}]
  BY <1>1, <1>3
<1>5. ASSUME NEW c \in Con, parent'[c] # Null PROVE refs'[parent'[c]] > 0
  <2>1. c \in 2..tree.size /\ parent'[c] = tree.up[c]
    BY <1>1, <1>5
  <2> QED
    BY <1>1, <1>3, <2>1
<1>6. ParentIsAlive'
  BY <1>5 DEF ParentIsAlive, Alive
<1> QED
  BY <1>1, <1>4, <1>6 DEF ParentInv

\* One more reference kills nobody.
LEMMA ParentRef == ASSUME ParentInv, NEW c \in Con, Ref(c) PROVE ParentInv'
<1>1. tree' = tree /\ parent' = parent /\ refs' = [refs EXCEPT ![c] = @ + 1]
  BY DEF Ref
<1>2. refs' \in [Con -> Int] /\ \A k \in Con : refs'[k] >= refs[k]
  BY <1>1 DEF ParentInv
<1>3. \A k \in Con \ {c} : refs'[k] = refs[k]
  BY <1>1 DEF ParentInv
<1>4. refs[c] > 0
  BY DEF Ref, Alive
<1>5. \A k \in Con : refs[k] > 0 <=> refs'[k] > 0
  BY <1>2, <1>3, <1>4 DEF ParentInv
<1>6. ParentIsAlive'
  <2>1. ASSUME NEW k \in Con, refs'[k] > 0, parent'[k] # Null PROVE refs'[parent'[k]] > 0
    <3>1. parent[k] \in Con /\ refs[parent[k]] > 0
      BY <1>1, <1>5, <2>1 DEF ParentInv, ParentIsAlive, Alive
    <3> QED
      BY <1>1, <1>5, <3>1
  <2> QED
    BY <2>1 DEF ParentIsAlive, Alive
<1> QED
  BY <1>1, <1>2, <1>6 DEF ParentInv

\* The last reference to a con takes the pointers of its children with it.
LEMMA ParentRelease == ASSUME ParentInv, ReleaseOne PROVE ParentInv'
<1> PICK c : c = Head(pending)
  OBVIOUS
<1>1. tree' = tree /\ refs' = [refs EXCEPT ![c] = @ - 1]
  BY DEF ReleaseOne
<1>2. refs \in [Con -> Int] /\ refs' \in [Con -> Int]
  <2>1. refs \in [Con -> Int]
    BY DEF ParentInv
  <2>2. CASE c \in Con
    BY <1>1, <2>1, <2>2
  <2>3. CASE c \notin Con
    <3>1. refs' = [k \in Con |-> refs[k]]
      BY <1>1, <2>1, <2>3
    <3> QED
      BY <2>1, <3>1
  <2> QED
    BY <2>1, <2>2, <2>3
<1>3. /\ \A k \in Con \ {c} : refs'[k] = refs[k]
      /\ c \in Con => refs'[c] = refs[c] - 1
  BY <1>1 DEF ParentInv
<1>4. CASE refs[c] > 1
  <2>1. parent' = parent
    BY <1>4 DEF ReleaseOne
  <2>2. \A k \in Con : refs[k] > 0 <=> refs'[k] > 0
    BY <1>2, <1>3, <1>4
  <2> QED
    BY <1>1, <1>2, <2>1, <2>2 DEF ParentInv, ParentIsAlive, Alive, Null
<1>5. CASE ~(refs[c] > 1)
  <2>1. parent' = [k \in Con |-> IF k = c \/ parent[k] = c THEN Null ELSE parent[k]]
    BY <1>5 DEF ReleaseOne, ParentsWithout
  <2>2. parent' \in [Con -> Con \cup {Null}]
    BY <2>1 DEF ParentInv
  <2>3. ASSUME NEW k \in Con, refs'[k] > 0, parent'[k] # Null
        PROVE  refs'[parent'[k]] > 0
    <3>1. k # c /\ parent[k] # c /\ parent'[k] = parent[k] /\ parent[k] \in Con
      BY <2>1, <2>3 DEF ParentInv
    <3>2. refs[k] > 0 /\ refs[parent[k]] > 0
      BY <1>3, <2>3, <3>1 DEF ParentInv, ParentIsAlive, Alive
    <3> QED
      BY <1>3, <3>1, <3>2
  <2>4. ParentIsAlive'
    BY <2>3 DEF ParentIsAlive, Alive
  <2> QED
    BY <1>1, <1>2, <2>2, <2>4 DEF ParentInv
<1> QED
  BY <1>4, <1>5

LEMMA ParentStep == ParentInv /\ [Next]_vars => ParentInv'
<1> SUFFICES ASSUME ParentInv, [Next]_vars PROVE ParentInv'
  OBVIOUS
<1>1. CASE i3ipc_con_new
  BY <1>1, ParentNew
<1>2. CASE \E c \in Con : Ref(c)
  BY <1>2, ParentRef
<1>3. CASE (\E c \in Con : Unref(c)) \/ UnrefConnection \/ UNCHANGED vars
  <2>1. tree' = tree /\ refs' = refs /\ parent' = parent
    BY <1>3 DEF Unref, UnrefConnection, vars
  <2> QED
    BY <2>1 DEF ParentInv, ParentIsAlive, Alive
<1>4. CASE ReleaseOne
  BY <1>4, ParentRelease
<1> QED
  BY <1>1, <1>2, <1>3, <1>4 DEF Next

-----------------------------------------------------------------------------
(* Ranks.                                                                  *)

Before(S, k) == Cardinality({j \in S : j < k})

\* The members of a finite set of numbers have the ranks 0, 1, ...
LEMMA Ranks ==
    ASSUME NEW S, S \subseteq Nat, IsFiniteSet(S)
    PROVE  /\ \A k \in S : Before(S, k) \in 0..(Cardinality(S) - 1)
           /\ \A j, k \in S : j < k => Before(S, j) < Before(S, k)
           /\ \A i \in 1..Cardinality(S) : \E k \in S : Before(S, k) = i - 1
<1> DEFINE less(k) == {j \in S : j < k}
           n == Cardinality(S)
<1>1. n \in Nat
  BY FS_CardinalityType
<1>2. ASSUME NEW T, T \subseteq S, NEW k \in S \ T
      PROVE  IsFiniteSet(T) /\ Cardinality(T) \in Nat /\ Cardinality(T) <= n - 1
  <2>1. IsFiniteSet(T) /\ Cardinality(T) \in Nat
    BY <1>2, FS_Subset, FS_CardinalityType
  <2>2. Cardinality(T) <= n /\ Cardinality(T) # n
    BY <1>2, FS_Subset
  <2> QED
    BY <1>1, <2>1, <2>2
<1>3. ASSUME NEW k \in S PROVE Before(S, k) \in 0..(n - 1)
  <2>1. less(k) \subseteq S /\ k \in S \ less(k)
    OBVIOUS
  <2>2. Cardinality(less(k)) \in Nat /\ Cardinality(less(k)) <= n - 1
    BY <1>2, <2>1
  <2> QED
    BY <1>1, <2>2 DEF Before
<1>4. ASSUME NEW j \in S, NEW k \in S, j < k PROVE Before(S, j) < Before(S, k)
  <2>1. less(j) \subseteq less(k) /\ j \in less(k) /\ j \notin less(j)
    <3>1. ASSUME NEW i \in less(j) PROVE i \in less(k)
      <4>1. i \in S /\ i \in Nat /\ j \in Nat /\ k \in Nat /\ i < j
        OBVIOUS
      <4>2. i < k
        BY <1>4, <4>1
      <4> QED
        BY <4>1, <4>2
    <3>2. j \in Nat /\ ~(j < j)
      OBVIOUS
    <3> QED
      BY <1>4, <3>1, <3>2
  <2>2. IsFiniteSet(less(k)) /\ IsFiniteSet(less(j))
    BY FS_Subset
  <2>3. Cardinality(less(j)) <= Cardinality(less(k)) /\ Cardinality(less(j)) # Cardinality(less(k))
    BY <2>1, <2>2, FS_Subset
  <2>4. Cardinality(less(j)) \in Nat /\ Cardinality(less(k)) \in Nat
    BY <2>2, FS_CardinalityType
  <2> QED
    BY <2>3, <2>4 DEF Before
<1> DEFINE rank == [k \in S |-> Before(S, k)]
           T == 0..(n - 1)
<1>5. rank \in Injection(S, T)
  <2>1. rank \in [S -> T]
    BY <1>3
  <2>2. ASSUME NEW j \in S, NEW k \in S, rank[j] = rank[k] PROVE j = k
    <3>1. ~(j < k) /\ ~(k < j)
      BY <1>3, <1>4, <2>2
    <3> QED
      BY <3>1
  <2> QED
    BY <2>1, <2>2 DEF Injection, IsInjective
<1>6. IsFiniteSet(T) /\ Cardinality(T) = n
  <2>1. 0 \in Int /\ n - 1 \in Int
    BY <1>1
  <2>2. /\ IsFiniteSet(T)
        /\ Cardinality(T) = IF 0 > n - 1 THEN 0 ELSE (n - 1) - 0 + 1
    BY <2>1, FS_Interval
  <2>3. (IF 0 > n - 1 THEN 0 ELSE (n - 1) - 0 + 1) = n
    BY <1>1
  <2> QED
    BY <2>2, <2>3
<1>7. rank \in Surjection(S, T)
  <2> HIDE DEF rank, T
  <2> QED
    BY <1>5, <1>6, FS_Injection
<1>8. ASSUME NEW i \in 1..n PROVE \E k \in S : Before(S, k) = i - 1
  <2>1. i - 1 \in T
    BY <1>1
  <2>2. \E k \in S : rank[k] = i - 1
    BY <1>7, <2>1 DEF Surjection
  <2> QED
    BY <2>2
<1> QED
  BY <1>3, <1>4, <1>8

\* Some member has none before it.
LEMMA Least ==
    ASSUME NEW S, S \subseteq Nat, IsFiniteSet(S), S # {}
    PROVE  \E k \in S : \A j \in S : k <= j
<1>1. Cardinality(S) \in Nat /\ Cardinality(S) # 0
  BY FS_EmptySet, FS_CardinalityType
<1>2. PICK k \in S : Before(S, k) = 0
  <2>1. 1 \in 1..Cardinality(S) /\ 1 - 1 = 0
    BY <1>1
  <2> QED
    BY <2>1, Ranks
<1>3. ASSUME NEW j \in S PROVE ~(j < k)
  <2>1. IsFiniteSet({i \in S : i < k})
    BY FS_Subset
  <2>2. {i \in S : i < k} = {}
    BY <1>2, <2>1, FS_EmptySet DEF Before
  <2> QED
    BY <2>2
<1> QED
  BY <1>3

-----------------------------------------------------------------------------
(* Lists of cons.                                                          *)

\* The members of S, each once.
LEMMA InOrderLists ==
    ASSUME NEW S, S \subseteq Nat, IsFiniteSet(S)
    PROVE  /\ InOrder(S) \in Seq(S) /\ Len(InOrder(S)) = Cardinality(S)
           /\ \A i \in 1..Len(InOrder(S)) : InOrder(S)[i] \in S
           /\ \A i, j \in 1..Len(InOrder(S)) : i # j => InOrder(S)[i] # InOrder(S)[j]
           /\ \A k \in S : \E i \in 1..Len(InOrder(S)) : InOrder(S)[i] = k
<1> DEFINE n == Cardinality(S)
           s == InOrder(S)
<1>1. n \in Nat
  BY FS_CardinalityType
<1> DEFINE at(i) == CHOOSE k \in S : Before(S, k) = i - 1
<1>2. ASSUME NEW i \in 1..n PROVE at(i) \in S /\ Before(S, at(i)) = i - 1
  <2>1. \E k \in S : Before(S, k) = i - 1
    BY Ranks
  <2> QED
    BY <2>1
<1>3. s = [i \in 1..n |-> at(i)]
  BY DEF InOrder, Before
<1> HIDE DEF at
<1> HIDE DEF s
<1>4. /\ s \in Seq(S) /\ Len(s) = n
      /\ \A i \in 1..n : s[i] \in S /\ Before(S, s[i]) = i - 1
  BY <1>1, <1>2, <1>3
<1>5. ASSUME NEW i \in 1..n, NEW j \in 1..n, i # j PROVE s[i] # s[j]
  BY <1>4, <1>5
<1>6. ASSUME NEW k \in S PROVE \E i \in 1..n : s[i] = k
  <2>1. Before(S, k) \in 0..(n - 1)
    BY Ranks
  <2>2. Before(S, k) + 1 \in 1..n
    BY <1>1, <2>1
  <2>3. PICK i \in 1..n : i = Before(S, k) + 1
    BY <2>2
  <2>4. s[i] \in S /\ Before(S, s[i]) = Before(S, k)
    BY <1>4, <2>1, <2>3
  <2>5. ~(s[i] < k) /\ ~(k < s[i])
    <3>1. /\ s[i] < k => Before(S, s[i]) < Before(S, k)
          /\ k < s[i] => Before(S, k) < Before(S, s[i])
      BY <2>4, Ranks
    <3> QED
      BY <2>1, <2>4, <3>1
  <2>6. s[i] = k
    <3>1. s[i] \in Nat /\ k \in Nat
      BY <2>4
    <3> QED
      BY <2>5, <3>1
  <2> QED
    BY <2>6
<1> QED
  BY <1>4, <1>5, <1>6 DEF s

\* The sequence lists the members of S, each once.
Lists(s, S) ==
    /\ s \in Seq(S)
    /\ \A k \in S : \E i \in 1..Len(s) : s[i] = k
    /\ \A i, j \in 1..Len(s) : i # j => s[i] # s[j]

LEMMA ListsOfTwo ==
    ASSUME NEW S, NEW T, S \cap T = {}, NEW s, NEW t, Lists(s, S), Lists(t, T)
    PROVE  Lists(s \o t, S \cup T)
<1> DEFINE U == S \cup T
           st == s \o t
<1>1. s \in Seq(U) /\ t \in Seq(U) /\ Len(s) \in Nat /\ Len(t) \in Nat
  BY SeqMonotonic, LenProperties DEF Lists
<1>2. /\ st \in Seq(U) /\ Len(st) = Len(s) + Len(t)
      /\ \A i \in 1..Len(s) : st[i] = s[i]
      /\ \A i \in 1..Len(t) : st[i + Len(s)] = t[i]
  BY <1>1, ConcatProperties
<1>3. /\ \A i \in 1..Len(s) : s[i] \in S
      /\ \A i \in 1..Len(t) : t[i] \in T
  BY ElementOfSeq DEF Lists
<1> HIDE DEF st
<1>4. ASSUME NEW i \in 1..Len(st)
      PROVE  \/ i \in 1..Len(s) /\ st[i] = s[i] /\ st[i] \in S
             \/ \E j \in 1..Len(t) : i = j + Len(s) /\ st[i] = t[j] /\ st[i] \in T
  <2>1. CASE i <= Len(s)
    BY <1>1, <1>2, <1>3, <2>1
  <2>2. CASE ~(i <= Len(s))
    <3> DEFINE j == i - Len(s)
    <3>1. j \in 1..Len(t) /\ i = j + Len(s)
      BY <1>1, <1>2, <2>2
    <3> HIDE DEF j
    <3> QED
      BY <1>2, <1>3, <3>1
  <2> QED
    BY <2>1, <2>2
<1>5. ASSUME NEW i \in 1..Len(st), NEW j \in 1..Len(st), i # j PROVE st[i] # st[j]
  <2>1. CASE st[i] \in S /\ st[j] \in S
    <3>1. i \in 1..Len(s) /\ j \in 1..Len(s) /\ st[i] = s[i] /\ st[j] = s[j]
      BY <1>4, <2>1
    <3> QED
      BY <1>5, <3>1 DEF Lists
  <2>2. CASE st[i] \in T /\ st[j] \in T
    <3>1. PICK k \in 1..Len(t) : i = k + Len(s) /\ st[i] = t[k]
      BY <1>4, <2>2
    <3>2. PICK l \in 1..Len(t) : j = l + Len(s) /\ st[j] = t[l]
      BY <1>4, <2>2
    <3>3. k # l
      BY <1>5, <3>1, <3>2
    <3> QED
      BY <3>1, <3>2, <3>3 DEF Lists
  <2>3. CASE \/ st[i] \in S /\ st[j] \in T
             \/ st[i] \in T /\ st[j] \in S
    BY <2>3
  <2> QED
    BY <1>4, <2>1, <2>2, <2>3
<1>6. ASSUME NEW k \in U PROVE \E i \in 1..Len(st) : st[i] = k
  <2>1. CASE k \in S
    <3>1. PICK i \in 1..Len(s) : s[i] = k
      BY <2>1 DEF Lists
    <3>2. i \in 1..Len(st) /\ st[i] = k
      BY <1>1, <1>2, <3>1
    <3> QED
      BY <3>2
  <2>2. CASE k \in T
    <3>1. PICK i \in 1..Len(t) : t[i] = k
      BY <2>2 DEF Lists
    <3>2. i + Len(s) \in 1..Len(st) /\ st[i + Len(s)] = k
      BY <1>1, <1>2, <3>1
    <3> QED
      BY <3>2
  <2> QED
    BY <2>1, <2>2
<1> QED
  BY <1>2, <1>5, <1>6 DEF Lists, st

LEMMA ListOfItsMembers ==
    ASSUME NEW S, NEW s, Lists(s, S)
    PROVE  S = {s[i] : i \in 1..Len(s)}
BY ElementOfSeq DEF Lists

LEMMA ListWithoutHead ==
    ASSUME NEW S, NEW s, Lists(s, S), s # <<>>
    PROVE  /\ Head(s) \in S /\ Head(s) = s[1] /\ 1 \in 1..Len(s)
           /\ Lists(Tail(s), S \ {Head(s)})
           /\ \A i \in 1..Len(Tail(s)) : Tail(s)[i] = s[i + 1] /\ i + 1 \in 2..Len(s)
<1> DEFINE t == Tail(s)
<1>1. s \in Seq(S) /\ Len(s) \in Nat \ {0}
  BY EmptySeq DEF Lists
<1>2. /\ t \in Seq(S) /\ Len(t) = Len(s) - 1
      /\ \A i \in 1..Len(t) : t[i] = s[i + 1]
      /\ Head(s) \in S
  BY <1>1, HeadTailProperties
<1>3. Head(s) = s[1] /\ 1 \in 1..Len(s)
  BY <1>1
<1> HIDE DEF t
<1>4. ASSUME NEW i \in 1..Len(t) PROVE i + 1 \in 2..Len(s) /\ i + 1 \in 1..Len(s) /\ i + 1 # 1
  BY <1>1, <1>2
<1>5. ASSUME NEW i \in 1..Len(t) PROVE t[i] \in S \ {Head(s)}
  <2>1. t[i] \in S
    BY <1>2, ElementOfSeq
  <2>2. s[i + 1] # s[1]
    BY <1>3, <1>4 DEF Lists
  <2> QED
    BY <1>2, <1>3, <2>1, <2>2
<1>6. t \in Seq(S \ {Head(s)})
  <2>1. Len(t) \in Nat /\ t = [i \in 1..Len(t) |-> t[i]]
    BY <1>2, LenProperties
  <2> QED
    BY <1>5, <2>1
<1>7. ASSUME NEW k \in S \ {Head(s)} PROVE \E i \in 1..Len(t) : t[i] = k
  <2>1. PICK i \in 1..Len(s) : s[i] = k
    BY DEF Lists
  <2>2. i # 1
    BY <1>3, <1>7, <2>1
  <2> DEFINE j == i - 1
  <2>3. j \in 1..Len(t) /\ i = j + 1
    BY <1>1, <1>2, <2>2
  <2> HIDE DEF j
  <2> QED
    BY <1>2, <2>1, <2>3
<1>8. ASSUME NEW i \in 1..Len(t), NEW j \in 1..Len(t), i # j PROVE t[i] # t[j]
  <2> DEFINE k == i + 1
             l == j + 1
  <2>1. k \in 1..Len(s) /\ l \in 1..Len(s) /\ k # l /\ t[i] = s[k] /\ t[j] = s[l]
    BY <1>2, <1>4, <1>8
  <2> HIDE DEF k, l
  <2> QED
    BY <2>1 DEF Lists
<1> QED
  BY <1>2, <1>3, <1>4, <1>6, <1>7, <1>8 DEF Lists, t

-----------------------------------------------------------------------------
(* Who owns the cons.                                                      *)

Shape ==
    /\ tree.size \in 1..MaxCons
    /\ tree \in Reply(tree.size)
    /\ \A c \in 2..tree.size : tree.up[c] \in 1..(c - 1)

\* The cons that the list of a parent owns, and those about to lose a reference.
Owned == {c \in 2..tree.size : Alive(tree.up[c])}
Queued == {pending[i] : i \in 1..Len(pending)}

One(c, S) == IF c \in S THEN 1 ELSE 0

\* A con has a reference for the application, one for the list of its parent
\* and one that is about to go.
Counted ==
    /\ refs \in [Con -> Nat]
    /\ held \subseteq 1..tree.size
    /\ \A c \in Con : refs[c] = One(c, held) + One(c, Owned) + One(c, Queued)
    /\ built \in BOOLEAN
    /\ ~built => held = {} /\ pending = <<>> /\ \A c \in Con : refs[c] = 0

\* No con is about to lose two references, and all but the one that the
\* application has released have lost their parent.
Releasing ==
    /\ Lists(pending, Queued)
    /\ Queued \subseteq 1..tree.size
    /\ \A i \in 2..Len(pending) : pending[i] \in 2..tree.size /\ pending[i] \notin Owned
    /\ \A c \in Queued : c \in Owned => c \notin held

Connected == connHeld \in BOOLEAN /\ ConnectionOutlivesCons

TreeInv == Shape /\ Counted /\ Releasing /\ Connected

\* The cons that c contains.
Kids(c) == {k \in 2..tree.size : tree.up[k] = c}

LEMMA ChildrenAreKids == ASSUME Shape, NEW c PROVE Lists(Children(c), Kids(c))
<1> DEFINE A == {k \in (2..tree.size) \ tree.floating : tree.up[k] = c}
           B == {k \in tree.floating : tree.up[k] = c}
<1>1. tree.size \in Nat /\ tree.floating \subseteq 2..tree.size /\ 2..tree.size \subseteq Nat
  <2>1. tree.size \in Nat
    BY BoundsAssumption DEF Shape
  <2>2. tree.floating \subseteq 2..tree.size
    BY DEF Shape, Reply
  <2> QED
    BY <2>1, <2>2
<1>2. IsFiniteSet(2..tree.size)
  BY <1>1, FS_Interval
<1>3. A \subseteq Nat /\ IsFiniteSet(A) /\ B \subseteq Nat /\ IsFiniteSet(B)
  <2>1. A \subseteq 2..tree.size /\ B \subseteq 2..tree.size
    BY <1>1
  <2> QED
    BY <1>1, <1>2, <2>1, FS_Subset
<1>4. A \cap B = {} /\ A \cup B = Kids(c)
  BY <1>1 DEF Kids
<1>5. nodes(c) = InOrder(A) /\ floating_nodes(c) = InOrder(B)
  BY DEF nodes, floating_nodes
<1> HIDE DEF A, B
<1>6. Lists(InOrder(A), A) /\ Lists(InOrder(B), B)
  BY <1>3, InOrderLists DEF Lists
<1>7. Lists(InOrder(A) \o InOrder(B), A \cup B)
  BY <1>4, <1>6, ListsOfTwo
<1> QED
  BY <1>4, <1>5, <1>7 DEF Children

\* Cons that are alive are counted.
LEMMA AliveFinite ==
    ASSUME NEW S, S \subseteq Con
    PROVE  IsFiniteSet(S) /\ Cardinality(S) \in Nat
<1>1. IsFiniteSet(Con)
  BY BoundsAssumption, FS_Interval DEF Con
<1> QED
  BY <1>1, FS_Subset, FS_CardinalityType

LEMMA TreeInit == ASSUME Init PROVE TreeInv
<1>1. PICK n \in 1..MaxCons : \E up \in [2..n -> 1..n], floating \in SUBSET (2..n) :
          /\ InCreationOrder(n, up, floating)
          /\ \E kind \in [1..n -> Kinds] :
                tree = [size |-> n, up |-> up, floating |-> floating,
                        type |-> [k \in 1..n |-> kind[k][1]],
                        name |-> [k \in 1..n |-> kind[k][2]]]
  BY DEF Init
<1>2. PICK up \in [2..n -> 1..n], floating \in SUBSET (2..n), kind \in [1..n -> Kinds] :
          /\ InCreationOrder(n, up, floating)
          /\ tree = [size |-> n, up |-> up, floating |-> floating,
                     type |-> [k \in 1..n |-> kind[k][1]],
                     name |-> [k \in 1..n |-> kind[k][2]]]
  BY <1>1
<1>3. Shape
  <2>1. [k \in 1..n |-> kind[k][1]] \in [1..n -> Types]
    BY DEF Types
  <2>2. [k \in 1..n |-> kind[k][2]] \in [1..n -> Names]
    BY DEF Names
  <2>3. tree.size = n /\ tree.up = up
    BY <1>2
  <2>4. tree \in Reply(tree.size)
    BY <1>2, <2>1, <2>2, <2>3 DEF Reply
  <2>5. ASSUME NEW c \in 2..n PROVE up[c] \in 1..(c - 1)
    <3>1. up[c] < c /\ up[c] \in 1..n
      BY <1>2 DEF InCreationOrder
    <3> QED
      BY <3>1
  <2> QED
    BY <2>3, <2>4, <2>5 DEF Shape
<1>4. /\ built = FALSE /\ refs = [c \in Con |-> 0] /\ held = {} /\ pending = <<>>
      /\ connHeld = TRUE /\ connRefs = 1
  BY DEF Init
<1>5. tree.size \in 1..MaxCons /\ \A c \in 2..tree.size : tree.up[c] \in Con
  <2>1. ASSUME NEW c \in 2..tree.size PROVE tree.up[c] \in 1..MaxCons
    BY <1>3, BoundsAssumption DEF Shape
  <2> QED
    BY <1>3, <2>1 DEF Shape, Con
<1>6. \A c \in Con : ~Alive(c)
  BY <1>4 DEF Alive
<1>7. Owned = {} /\ Queued = {}
  BY <1>4, <1>5, <1>6 DEF Owned, Queued
<1>8. Counted
  <2>1. /\ refs \in [Con -> Nat] /\ held \subseteq 1..tree.size
        /\ held = {} /\ pending = <<>> /\ \A c \in Con : refs[c] = 0
    BY <1>4
  <2>2. ASSUME NEW c \in Con PROVE refs[c] = One(c, held) + One(c, Owned) + One(c, Queued)
    <3>1. One(c, held) = 0 /\ One(c, Owned) = 0 /\ One(c, Queued) = 0
      BY <1>4, <1>7 DEF One
    <3> QED
      BY <2>1, <3>1
  <2>3. built \in BOOLEAN
    BY <1>4
  <2> QED
    BY <2>1, <2>2, <2>3 DEF Counted
<1>9. Releasing
  BY <1>4, <1>7, EmptySeq DEF Releasing, Lists
<1>10. Connected
  <2>1. {c \in Con : Alive(c)} = {} /\ Cardinality({}) = 0
    BY <1>6, FS_EmptySet
  <2>2. connRefs = Cardinality({c \in Con : Alive(c)}) + 1
    <3>1. connRefs = 1
      BY <1>4
    <3>2. Cardinality({c \in Con : Alive(c)}) = 0
      BY <2>1
    <3> QED
      BY <3>1, <3>2
  <2>3. connHeld = TRUE
    BY <1>4
  <2> QED
    BY <2>2, <2>3 DEF Connected, ConnectionOutlivesCons
<1> QED
  BY <1>3, <1>8, <1>9, <1>10 DEF TreeInv

\* A new tree belongs to the caller.
LEMMA TreeNew == ASSUME TreeInv, i3ipc_con_new PROVE TreeInv'
<1> USE DEF TreeInv
<1>1. /\ ~built /\ connHeld /\ built' = TRUE /\ held' = {1}
      /\ refs' = [c \in Con |-> IF c <= tree.size THEN 1 ELSE 0]
      /\ connRefs' = connRefs + tree.size
      /\ UNCHANGED <<tree, connHeld, pending>>
  BY DEF i3ipc_con_new
<1>2. pending = <<>> /\ \A c \in Con : refs[c] = 0
  BY <1>1 DEF Counted
<1>3. Shape'
  BY <1>1 DEF Shape, Reply, Types, Names
<1>4. tree.size \in 1..MaxCons /\ MaxCons \in Nat /\ 1..tree.size \subseteq Con
  BY BoundsAssumption DEF Shape, Con
<1>5. \A c \in 1..tree.size : refs'[c] = 1
  BY <1>1, <1>4
<1>6. Owned' = 2..tree.size /\ Queued' = {}
  <2>1. \A c \in 2..tree.size : tree.up[c] \in 1..tree.size
    BY <1>4 DEF Shape
  <2> QED
    BY <1>1, <1>2, <1>5, <2>1 DEF Owned, Queued, Alive
<1>7. Counted'
  <2>1. refs' \in [Con -> Nat] /\ held' \subseteq 1..tree.size /\ built' = TRUE
    BY <1>1, <1>4
  <2>2. ASSUME NEW c \in Con
        PROVE  refs'[c] = One(c, held') + One(c, Owned') + One(c, Queued')
    <3>1. refs'[c] = IF c <= tree.size THEN 1 ELSE 0
      BY <1>1
    <3>2. c \in Nat /\ c >= 1
      BY <1>4 DEF Con
    <3>3. One(c, held') = (IF c = 1 THEN 1 ELSE 0) /\ One(c, Queued') = 0
          /\ One(c, Owned') = (IF c \in 2..tree.size THEN 1 ELSE 0)
      BY <1>1, <1>6 DEF One
    <3> QED
      BY <1>4, <3>1, <3>2, <3>3
  <2> QED
    BY <1>1, <2>1, <2>2 DEF Counted, One
<1>8. Releasing'
  <2>1. Lists(<<>>, {})
    BY EmptySeq DEF Lists
  <2> QED
    BY <1>1, <1>2, <1>6, <2>1 DEF Releasing, Lists
<1>9. Connected'
  <2>1. {c \in Con : Alive(c)} = {}
    BY <1>2 DEF Alive
  <2>2. {c \in Con : refs'[c] > 0} = 1..tree.size
    <3>1. ASSUME NEW c \in Con PROVE refs'[c] > 0 <=> c \in 1..tree.size
      <4>1. c \in Nat /\ c >= 1 /\ refs'[c] = IF c <= tree.size THEN 1 ELSE 0
        BY <1>1, <1>4 DEF Con
      <4> QED
        BY <1>4, <4>1
    <3> QED
      BY <1>4, <3>1
  <2>3. Cardinality({}) = 0 /\ Cardinality(1..tree.size) = tree.size
    BY <1>4, FS_EmptySet, FS_Interval
  <2>4. connRefs = 0 + 1
    BY <1>1, <2>1, <2>3 DEF Connected, ConnectionOutlivesCons
  <2>5. connRefs' = Cardinality({c \in Con : refs'[c] > 0}) + 1
    <3>1. connRefs' = 1 + tree.size
      BY <1>1, <2>4
    <3>2. Cardinality({c \in Con : refs'[c] > 0}) = tree.size
      BY <2>2, <2>3
    <3>3. tree.size \in Nat
      BY <1>4
    <3> QED
      BY <3>1, <3>2, <3>3
  <2>6. connHeld' = TRUE
    BY <1>1 DEF Connected
  <2> QED
    BY <2>5, <2>6 DEF Connected, ConnectionOutlivesCons, Alive, Con
<1> QED
  BY <1>3, <1>7, <1>8, <1>9

\* Reference counts that change nobody's life.
LEMMA AliveAsBefore ==
    ASSUME Connected, UNCHANGED <<connHeld, connRefs, tree>>,
           \A c \in Con : refs'[c] > 0 <=> refs[c] > 0, Shape
    PROVE  Connected' /\ Owned' = Owned
<1>1. {c \in Con : Alive(c)}' = {c \in Con : Alive(c)}
  BY DEF Alive, Con
<1>2. Connected'
  BY <1>1 DEF Connected, ConnectionOutlivesCons
<1>3. \A c \in 2..tree.size : tree.up[c] \in Con
  BY BoundsAssumption DEF Shape, Con
<1>4. Owned' = Owned
  BY <1>3 DEF Owned, Alive
<1> QED
  BY <1>2, <1>4

LEMMA TreeRef == ASSUME TreeInv, NEW k \in Con, Ref(k) PROVE TreeInv'
<1> USE DEF TreeInv
<1>1. /\ pending = <<>> /\ refs[k] > 0 /\ k \notin held
      /\ held' = held \cup {k}
      /\ refs' = [refs EXCEPT ![k] = @ + 1]
      /\ UNCHANGED <<tree, built, parent, connHeld, connRefs, pending>>
  BY DEF Ref, Alive
<1>2. Shape'
  BY <1>1 DEF Shape, Reply, Types, Names
<1>3. refs' \in [Con -> Nat] /\ \A c \in Con : refs'[c] = IF c = k THEN refs[c] + 1 ELSE refs[c]
  BY <1>1 DEF Counted
<1>4. Connected' /\ Owned' = Owned
  <2>1. \A c \in Con : refs'[c] > 0 <=> refs[c] > 0
    BY <1>1, <1>3 DEF Counted
  <2> QED
    BY <1>1, <2>1, AliveAsBefore
<1>5. Queued' = Queued /\ Queued = {}
  BY <1>1 DEF Queued
<1>6. Counted'
  <2>1. k \in 1..tree.size
    <3>1. refs[k] = One(k, held) + One(k, Owned) + One(k, Queued)
      BY DEF Counted
    <3>2. k \in held \/ k \in Owned
      BY <1>1, <1>5, <3>1 DEF One
    <3> QED
      BY <3>2 DEF Counted, Owned
  <2>2. ASSUME NEW c \in Con
        PROVE  refs'[c] = One(c, held') + One(c, Owned') + One(c, Queued')
    <3>1. refs[c] = One(c, held) + One(c, Owned) + One(c, Queued)
      BY DEF Counted
    <3> QED
      BY <1>1, <1>3, <1>4, <1>5, <3>1 DEF One
  <2>3. built' \in BOOLEAN /\ built'
    BY <1>1 DEF Counted
  <2>4. held' \subseteq 1..tree.size
    BY <1>1, <2>1 DEF Counted
  <2> QED
    BY <1>1, <1>3, <2>2, <2>3, <2>4 DEF Counted, One
<1>7. Releasing'
  BY <1>1, <1>4, <1>5 DEF Releasing, Lists
<1> QED
  BY <1>2, <1>4, <1>6, <1>7

LEMMA TreeUnref == ASSUME TreeInv, NEW k \in Con, Unref(k) PROVE TreeInv'
<1> USE DEF TreeInv
<1>1. /\ pending = <<>> /\ k \in held
      /\ held' = held \ {k} /\ pending' = <<k>>
      /\ UNCHANGED <<tree, built, refs, parent, connHeld, connRefs>>
  BY DEF Unref
<1>2. Shape'
  BY <1>1 DEF Shape, Reply, Types, Names
<1>3. Connected' /\ Owned' = Owned
  BY <1>1, AliveAsBefore
<1>4. Queued' = {k} /\ Queued = {}
  BY <1>1 DEF Queued
<1>5. Counted'
  <2>1. ASSUME NEW c \in Con
        PROVE  refs'[c] = One(c, held') + One(c, Owned') + One(c, Queued')
    <3>1. refs[c] = One(c, held) + One(c, Owned) + One(c, Queued)
      BY DEF Counted
    <3> QED
      BY <1>1, <1>3, <1>4, <3>1 DEF One
  <2>2. built' = TRUE
    BY <1>1 DEF Counted
  <2>3. held' \subseteq 1..tree.size /\ refs' \in [Con -> Nat]
    BY <1>1 DEF Counted
  <2> QED
    BY <1>1, <2>1, <2>2, <2>3 DEF Counted, One
<1>6. Releasing'
  <2>1. k \in 1..tree.size
    BY <1>1 DEF Counted
  <2>2. Lists(<<k>>, {k})
    BY DEF Lists
  <2>3. Lists(pending', Queued')
    BY <1>1, <1>4, <2>2
  <2> QED
    BY <1>1, <1>4, <2>1, <2>3 DEF Releasing, Lists
<1> QED
  BY <1>2, <1>3, <1>5, <1>6

LEMMA TreeUnrefConnection == ASSUME TreeInv, UnrefConnection PROVE TreeInv'
<1> USE DEF TreeInv
<1>1. /\ connHeld /\ connHeld' = FALSE /\ connRefs' = connRefs - 1
      /\ UNCHANGED <<tree, built, refs, parent, held, pending>>
  BY DEF UnrefConnection
<1>2. Shape'
  BY <1>1 DEF Shape, Reply, Types, Names
<1>3. Owned' = Owned /\ Queued' = Queued
  BY <1>1 DEF Owned, Queued, Alive
<1>4. Counted' /\ Releasing'
  BY <1>1, <1>3 DEF Counted, Releasing, Lists
<1>5. Connected'
  <2>1. {c \in Con : Alive(c)}' = {c \in Con : Alive(c)}
    BY <1>1 DEF Alive, Con
  <2>2. connRefs = Cardinality({c \in Con : Alive(c)}) + 1
    BY <1>1 DEF Connected, ConnectionOutlivesCons
  <2>3. Cardinality({c \in Con : Alive(c)}) \in Nat
    BY AliveFinite
  <2>4. connRefs' = Cardinality({c \in Con : Alive(c)}) + 0
    BY <1>1, <2>2, <2>3
  <2>5. connHeld' = FALSE
    BY <1>1
  <2> QED
    BY <2>1, <2>4, <2>5 DEF Connected, ConnectionOutlivesCons
<1> QED
  BY <1>2, <1>4, <1>5

\* One reference of a recursion goes, of a con that stays or of the last one.
LEMMA TreeRelease == ASSUME TreeInv, ReleaseOne PROVE TreeInv'
<1> USE DEF TreeInv
<1> DEFINE c == Head(pending)
           rest == Tail(pending)
<1>1. /\ pending # <<>>
      /\ refs' = [refs EXCEPT ![c] = @ - 1]
      /\ IF refs[c] > 1
         THEN pending' = rest /\ connRefs' = connRefs
         ELSE pending' = Children(c) \o rest /\ connRefs' = connRefs - 1
      /\ UNCHANGED <<tree, built, held, connHeld>>
  BY DEF ReleaseOne, Released, ConnectionReleased
<1>2. /\ c \in Queued /\ c = pending[1] /\ Lists(rest, Queued \ {c})
      /\ \A i \in 1..Len(rest) : rest[i] = pending[i + 1] /\ i + 1 \in 2..Len(pending)
  BY <1>1, ListWithoutHead DEF Releasing
<1>3. c \in 1..tree.size /\ c \in Con /\ 1..tree.size \subseteq Con
  <2>1. 1..tree.size \subseteq Con
    BY BoundsAssumption DEF Shape, Con
  <2> QED
    BY <1>2, <2>1 DEF Releasing
<1>4. \A i \in 1..Len(rest) : rest[i] \in 2..tree.size /\ rest[i] \notin Owned
  BY <1>2 DEF Releasing
<1> HIDE DEF c, rest
<1>5. Queued \ {c} = {rest[i] : i \in 1..Len(rest)}
  BY <1>2, ListOfItsMembers
<1>6. Shape'
  BY <1>1 DEF Shape, Reply, Types, Names
<1>7. /\ \A k \in Con : refs'[k] = IF k = c THEN refs[k] - 1 ELSE refs[k]
      /\ refs[c] = One(c, held) + One(c, Owned) + One(c, Queued)
      /\ refs[c] >= 1 /\ refs' \in [Con -> Nat]
  <2>1. refs[c] = One(c, held) + One(c, Owned) + One(c, Queued)
    BY <1>3 DEF Counted
  <2>2. refs[c] >= 1
    BY <1>2, <2>1 DEF One
  <2>3. refs \in [Con -> Nat]
    BY DEF Counted
  <2>4. \A k \in Con : refs'[k] = IF k = c THEN refs[k] - 1 ELSE refs[k]
    BY <1>1, <2>3
  <2>5. refs[c] - 1 \in Nat
    BY <1>3, <2>2, <2>3
  <2>6. refs' \in [Con -> Nat]
    BY <1>1, <1>3, <2>3, <2>5
  <2> QED
    BY <2>1, <2>2, <2>4, <2>6
<1>8. held' \subseteq 1..tree.size' /\ built' /\ built' \in BOOLEAN
  BY <1>1 DEF Counted
<1>9. CASE refs[c] > 1
  <2>1. pending' = rest /\ connRefs' = connRefs
    BY <1>1, <1>9
  <2>2. Connected' /\ Owned' = Owned
    <3>1. \A k \in Con : refs'[k] > 0 <=> refs[k] > 0
      BY <1>3, <1>7, <1>9 DEF Counted
    <3> QED
      BY <1>1, <2>1, <3>1, AliveAsBefore
  <2>3. Queued' = Queued \ {c}
    BY <1>5, <2>1 DEF Queued
  <2>4. Counted'
    <3>1. ASSUME NEW k \in Con
          PROVE  refs'[k] = One(k, held') + One(k, Owned') + One(k, Queued')
      <4>1. refs[k] = One(k, held) + One(k, Owned) + One(k, Queued)
        BY DEF Counted
      <4> QED
        BY <1>1, <1>2, <1>7, <2>2, <2>3, <4>1 DEF One
    <3> QED
      BY <1>7, <1>8, <3>1 DEF Counted, One
  <2>5. Releasing'
    <3>1. Lists(pending', Queued')
      BY <1>2, <2>1, <2>3
    <3>2. \A i \in 2..Len(pending') : pending'[i] \in 2..tree.size /\ pending'[i] \notin Owned'
      BY <1>4, <2>1, <2>2
    <3>3. Queued' \subseteq 1..tree.size /\ \A k \in Queued' : k \in Owned' => k \notin held'
      BY <1>1, <2>2, <2>3 DEF Releasing
    <3> QED
      BY <1>1, <3>1, <3>2, <3>3 DEF Releasing, Lists
  <2> QED
    BY <1>6, <2>2, <2>4, <2>5
<1>10. CASE ~(refs[c] > 1)
  <2>1. pending' = Children(c) \o rest /\ connRefs' = connRefs - 1
    BY <1>1, <1>10
  <2>2. refs[c] = 1 /\ refs'[c] = 0 /\ c \notin held /\ c \notin Owned
    <3>1. refs[c] = 1
      BY <1>3, <1>7, <1>10 DEF Counted
    <3>2. c \notin held /\ c \notin Owned
      BY <1>2, <1>7, <3>1 DEF One
    <3> QED
      BY <1>3, <1>7, <3>1, <3>2
  <2>3. \A k \in 2..tree.size : tree.up[k] \in Con /\ tree.up[k] # k
    BY <1>3 DEF Shape
  <2>4. Owned' = Owned \ Kids(c) /\ Kids(c) \subseteq Owned
    <3>1. \A k \in Con : refs'[k] > 0 <=> refs[k] > 0 /\ k # c
      BY <1>7, <2>2 DEF Counted
    <3>2. refs[c] > 0
      BY <2>2
    <3> QED
      BY <1>1, <2>3, <3>1, <3>2 DEF Owned, Kids, Alive
  <2>5. Kids(c) \cap (Queued \ {c}) = {}
    BY <1>4, <1>5, <2>4
  <2>6. Lists(pending', Kids(c) \cup (Queued \ {c}))
    BY <1>2, <2>1, <2>5, ChildrenAreKids, ListsOfTwo
  <2>7. Queued' = Kids(c) \cup (Queued \ {c})
    BY <2>6, ListOfItsMembers DEF Queued
  <2>8. Kids(c) \subseteq Con /\ c \notin Kids(c) /\ Kids(c) \subseteq 2..tree.size
    BY <1>3, <2>3 DEF Kids
  <2>9. Counted'
    <3>1. ASSUME NEW k \in Con
          PROVE  refs'[k] = One(k, held') + One(k, Owned') + One(k, Queued')
      <4>1. refs[k] = One(k, held) + One(k, Owned) + One(k, Queued)
        BY DEF Counted
      <4>2. CASE k = c
        BY <1>1, <2>2, <2>4, <2>7, <2>8, <4>2 DEF One
      <4>3. CASE k \in Kids(c)
        BY <1>1, <1>7, <2>4, <2>5, <2>7, <2>8, <4>1, <4>3 DEF One
      <4>4. CASE k # c /\ k \notin Kids(c)
        BY <1>1, <1>7, <2>4, <2>7, <4>1, <4>4 DEF One
      <4> QED
        BY <4>2, <4>3, <4>4
    <3> QED
      BY <1>7, <1>8, <3>1 DEF Counted, One
  <2>10. Releasing'
    <3>1. Lists(pending', Queued')
      BY <2>6, <2>7
    <3>2. \A k \in Queued' : k \in 2..tree.size /\ k \notin Owned'
      BY <1>4, <1>5, <2>4, <2>7, <2>8
    <3>3. ASSUME NEW i \in 2..Len(pending') PROVE pending'[i] \in Queued'
      <4>1. pending' \in Seq(Queued') /\ i \in 1..Len(pending')
        BY <3>1 DEF Lists
      <4> QED
        BY <4>1, ElementOfSeq
    <3>4. \A i \in 2..Len(pending') : pending'[i] \in 2..tree.size /\ pending'[i] \notin Owned'
      BY <3>2, <3>3
    <3>5. Queued' \subseteq 1..tree.size
      BY <1>3, <3>2
    <3>6. \A k \in Queued' : k \in Owned' => k \notin held'
      BY <3>2
    <3>7. Lists(pending, Queued)'
      BY <3>1 DEF Lists
    <3> QED
      BY <1>1, <3>4, <3>5, <3>6, <3>7 DEF Releasing
  <2>11. Connected'
    <3> DEFINE old == {k \in Con : Alive(k)}
               new == {k \in Con : refs'[k] > 0}
    <3>1. new = old \ {c} /\ c \in old
      BY <1>3, <1>7, <2>2 DEF Alive, Counted
    <3>2. old \subseteq Con
      OBVIOUS
    <3> HIDE DEF old, new
    <3>3. IsFiniteSet(old) /\ Cardinality(old) \in Nat
      BY <3>2, AliveFinite
    <3>4. Cardinality(new) = Cardinality(old) - 1
      BY <3>1, <3>3, FS_RemoveElement
    <3> DEFINE mine == IF connHeld THEN 1 ELSE 0
    <3>5. mine \in Nat /\ connHeld \in BOOLEAN /\ connRefs = Cardinality(old) + mine
      BY DEF Connected, ConnectionOutlivesCons, old
    <3> HIDE DEF mine
    <3>6. connRefs' = Cardinality(new) + mine
      BY <2>1, <3>3, <3>4, <3>5
    <3> QED
      BY <1>1, <3>5, <3>6 DEF Connected, ConnectionOutlivesCons, new, mine, Alive, Con
  <2> QED
    BY <1>6, <2>9, <2>10, <2>11
<1> QED
  BY <1>9, <1>10

LEMMA TreeStep == TreeInv /\ [Next]_vars => TreeInv'
<1> SUFFICES ASSUME TreeInv, [Next]_vars PROVE TreeInv'
  OBVIOUS
<1>1. CASE i3ipc_con_new
  BY <1>1, TreeNew
<1>2. ASSUME NEW k \in Con, Ref(k) PROVE TreeInv'
  BY <1>2, TreeRef
<1>3. ASSUME NEW k \in Con, Unref(k) PROVE TreeInv'
  BY <1>3, TreeUnref
<1>4. CASE UnrefConnection
  BY <1>4, TreeUnrefConnection
<1>5. CASE ReleaseOne
  BY <1>5, TreeRelease
<1>6. CASE UNCHANGED vars
  <2>1. UNCHANGED <<tree, built, refs, parent, held, connHeld, connRefs, pending>>
    BY <1>6 DEF vars
  <2>2. Shape' /\ Owned' = Owned /\ Queued' = Queued
    BY <2>1 DEF Shape, Reply, Types, Names, Owned, Queued, Alive, TreeInv
  <2>3. Counted' /\ Releasing'
    BY <2>1, <2>2 DEF Counted, Releasing, Lists, TreeInv
  <2>4. Connected'
    BY <2>1, AliveAsBefore DEF TreeInv
  <2> QED
    BY <2>2, <2>3, <2>4 DEF TreeInv
<1> QED
  BY <1>1, <1>2, <1>3, <1>4, <1>5, <1>6 DEF Next

LEMMA TreeInvariant == Spec => []TreeInv
<1>1. Init => TreeInv
  BY TreeInit
<1> QED
  BY <1>1, TreeStep, PTL DEF Spec

-----------------------------------------------------------------------------
(* What it means.                                                          *)

\* What contains a con contains what the con contains.
LEMMA EnclosingOuter ==
    ASSUME Shape, NEW k \in 2..tree.size
    PROVE  Enclosing(tree.up, tree.up[k]) \subseteq Enclosing(tree.up, k)
<1> DEFINE up == tree.up
           p == up[k]
<1>1. k \in Nat /\ p \in 1..(k - 1) /\ \A j \in 2..k : up[j] \in 1..(j - 1)
  BY BoundsAssumption DEF Shape
<1> HIDE DEF up, p
<1>2. ASSUME NEW j \in Enclosing(up, p) PROVE j \in Enclosing(up, k)
  <2>1. ASSUME NEW S \in SUBSET (1..k), k \in S, \A i \in S \ {1} : up[i] \in S
        PROVE  j \in S
    <3> DEFINE T == S \cap (1..p)
    <3>1. p \in S
      BY <1>1, <2>1 DEF p
    <3>2. T \in SUBSET (1..p) /\ p \in T
      BY <1>1, <3>1
    <3>3. ASSUME NEW i \in T \ {1} PROVE up[i] \in T
      <4>1. i \in S \ {1} /\ i \in 2..k /\ i <= p
        BY <1>1
      <4>2. up[i] \in S /\ up[i] \in 1..(i - 1)
        BY <1>1, <2>1, <4>1
      <4> QED
        BY <1>1, <4>1, <4>2
    <3> HIDE DEF T
    <3>4. j \in T
      BY <3>2, <3>3 DEF Enclosing
    <3> QED
      BY <3>4 DEF T
  <2>2. j \in 1..k
    BY <1>1 DEF Enclosing
  <2> QED
    BY <2>1, <2>2 DEF Enclosing
<1> QED
  BY <1>2 DEF up, p

\* Nothing is about to go, so a con is alive when the application holds it or
\* the con that contains it is alive.
LEMMA AliveWhenOwned ==
    ASSUME TreeInv, pending = <<>>, NEW k \in Con
    PROVE  Alive(k) <=> k \in held \/ k \in Owned
<1>1. Queued = {}
  BY DEF Queued
<1>2. refs[k] = One(k, held) + One(k, Owned) + One(k, Queued)
  BY DEF TreeInv, Counted
<1> QED
  BY <1>1, <1>2 DEF One, Alive

LEMMA InvReachable == TreeInv => ReachableIsAlive
<1> SUFFICES ASSUME TreeInv, pending = <<>>
             PROVE  {c \in Con : Alive(c)} = UNION {Below(c) : c \in held}
  BY DEF ReachableIsAlive
<1>1. /\ tree.size \in Nat /\ 1..tree.size \subseteq Con /\ held \subseteq 1..tree.size
      /\ \A k \in 2..tree.size : tree.up[k] \in 1..(k - 1)
  <2>1. tree.size \in 1..MaxCons /\ MaxCons \in Nat
    BY BoundsAssumption DEF TreeInv, Shape
  <2>2. 1..tree.size \subseteq Con
    BY <2>1 DEF Con
  <2> QED
    BY <2>1, <2>2 DEF TreeInv, Shape, Counted
<1>2. ASSUME NEW k \in Con, Alive(k) PROVE k \in 1..tree.size
  <2>1. k \in held \/ k \in Owned
    BY <1>2, AliveWhenOwned
  <2>2. CASE k \in held
    BY <1>1, <2>2
  <2>3. CASE k \in Owned
    <3>1. k \in 2..tree.size
      BY <2>3 DEF Owned
    <3>2. tree.size \in Nat
      BY <1>1
    <3> QED
      BY <3>1, <3>2
  <2> QED
    BY <2>1, <2>2, <2>3
<1> DEFINE up == tree.up
           Kept == {k \in 1..tree.size : \E h \in held : h \in Enclosing(up, k)}
<1>3. UNION {Below(c) : c \in held} = Kept
  BY DEF Below
<1>4. ASSUME NEW k \in Kept PROVE Alive(k)
  <2>1. PICK h \in held : h \in Enclosing(up, k)
    OBVIOUS
  <2>2. Alive(h)
    BY <1>1, AliveWhenOwned
  <2> DEFINE S == {j \in 1..k : ~Alive(j)}
  <2>3. k \in 1..tree.size /\ k \in Nat /\ S \in SUBSET (1..k) /\ \A j \in 1..k : j \in Con
    BY <1>1
  <2>4. ASSUME NEW j \in S \ {1} PROVE up[j] \in S
    <3>1. j \in 2..tree.size /\ j \in Con /\ ~Alive(j)
      BY <1>1, <2>3
    <3>2. ~Alive(up[j])
      BY <3>1, AliveWhenOwned DEF Owned
    <3>3. up[j] \in 1..k
      BY <1>1, <2>3, <3>1
    <3> QED
      BY <3>2, <3>3
  <2>5. CASE ~Alive(k)
    <3>1. k \in S
      BY <2>3, <2>5
    <3> HIDE DEF S
    <3>2. h \in S
      BY <2>1, <2>3, <2>4, <3>1 DEF Enclosing
    <3> QED
      BY <2>2, <3>2 DEF S
  <2> QED
    BY <2>5
<1>5. ASSUME NEW k \in Con, Alive(k) PROVE k \in Kept
  <2> DEFINE Lost == {j \in 1..tree.size : Alive(j) /\ j \notin Kept}
  <2>1. CASE Lost # {}
    <3>1. Lost \subseteq Nat /\ IsFiniteSet(Lost)
      BY <1>1, AliveFinite
    <3> HIDE DEF Lost
    <3>2. PICK j \in Lost : \A i \in Lost : j <= i
      BY <2>1, <3>1, Least
    <3>3. j \in 1..tree.size /\ Alive(j) /\ j \notin Kept /\ j \in Con
      BY <1>1 DEF Lost
    <3>4. j \in Enclosing(up, j)
      BY <1>1, <3>3 DEF Enclosing
    <3>5. j \notin held
      BY <3>3, <3>4
    <3>6. j \in 2..tree.size /\ Alive(up[j])
      BY <3>3, <3>5, AliveWhenOwned DEF Owned
    <3>7. up[j] \in 1..tree.size /\ up[j] < j
      BY <1>1, <3>6
    <3>8. up[j] \notin Lost
      BY <3>1, <3>2, <3>7
    <3>9. PICK h \in held : h \in Enclosing(up, up[j])
      BY <3>6, <3>7, <3>8 DEF Lost
    <3>10. h \in Enclosing(up, j)
      BY <3>6, <3>9, EnclosingOuter DEF TreeInv
    <3> QED
      BY <3>3, <3>10
  <2>2. CASE Lost = {}
    BY <1>2, <1>5, <2>2
  <2> QED
    BY <2>1, <2>2
<1> QED
  BY <1>1, <1>3, <1>4, <1>5

LEMMA InvTypes == TreeInv /\ ParentInv => TypeOK
<1> SUFFICES ASSUME TreeInv, ParentInv PROVE TypeOK
  OBVIOUS
<1> USE DEF TreeInv
<1>1. MaxCons \in Nat /\ tree.size \in 1..MaxCons /\ 1..tree.size \subseteq Con
  BY BoundsAssumption DEF Shape, Con
<1>2. \E n \in 1..MaxCons : tree \in Reply(n)
  BY <1>1 DEF Shape
<1>3. refs \in [Con -> 0..2]
  <2>1. ASSUME NEW c \in Con PROVE refs[c] \in 0..2
    <3>1. refs[c] = One(c, held) + One(c, Owned) + One(c, Queued)
      BY DEF Counted
    <3>2. ~(c \in held /\ c \in Owned /\ c \in Queued)
      BY DEF Releasing
    <3> QED
      BY <3>1, <3>2 DEF One
  <2> QED
    BY <2>1 DEF Counted
<1>4. pending \in Seq(Con)
  <2>1. pending \in Seq(Queued) /\ Queued \subseteq Con
    BY <1>1 DEF Releasing, Lists
  <2> QED
    BY <2>1, SeqMonotonic
<1>5. connRefs \in 0..(MaxCons + 1) /\ connHeld \in BOOLEAN
  <2> DEFINE mine == IF connHeld THEN 1 ELSE 0
             alive == {c \in Con : Alive(c)}
  <2>1. mine \in 0..1 /\ connHeld \in BOOLEAN /\ connRefs = Cardinality(alive) + mine
    BY DEF Connected, ConnectionOutlivesCons
  <2>2. alive \subseteq Con
    OBVIOUS
  <2> HIDE DEF mine, alive
  <2>3. IsFiniteSet(Con) /\ Cardinality(Con) = MaxCons
    BY <1>1, FS_Interval DEF Con
  <2>4. Cardinality(alive) \in 0..MaxCons
    BY <1>1, <2>2, <2>3, AliveFinite, FS_Subset
  <2>5. connRefs \in 0..(MaxCons + 1)
    BY <1>1, <2>1, <2>4
  <2> QED
    BY <2>1, <2>5
<1>6. built \in BOOLEAN /\ held \subseteq Con /\ parent \in [Con -> Con \cup {Null}]
  BY <1>1 DEF Counted, ParentInv
<1> QED
  BY <1>2, <1>3, <1>4, <1>5, <1>6 DEF TypeOK

\* Every variable keeps its type; a reference count of a con is at most two and
\* never below zero, whatever is kept and released.
THEOREM TypeCorrect == Spec => []TypeOK
<1>1. Spec => []ParentInv
  BY ParentInit, ParentStep, PTL DEF Spec
<1> QED
  BY <1>1, TreeInvariant, InvTypes, PTL

\* The parent of a con that exists exists, at every moment of every release of
\* a tree of any size and shape.
THEOREM ParentsAlive == Spec => []ParentIsAlive
<1>1. ParentInv => ParentIsAlive
  BY DEF ParentInv
<1> QED
  BY <1>1, ParentInit, ParentStep, PTL DEF Spec

\* Between calls the cons that exist are those in or below a con that the
\* application keeps, for every tree and every order of g_object_ref and
\* g_object_unref.
THEOREM WhatIsReachableIsAlive == Spec => []ReachableIsAlive
BY TreeInvariant, InvReachable, PTL

\* The connection has a reference for every con that exists and one for the
\* application, at every moment of a release.
THEOREM ConnectionsOutliveCons == Spec => []ConnectionOutlivesCons
<1>1. TreeInv => ConnectionOutlivesCons
  BY DEF TreeInv, Connected
<1> QED
  BY <1>1, TreeInvariant, PTL

-----------------------------------------------------------------------------
(* Claims about all the numbers up to a bound.                             *)

\* The least number that breaks the claim.
LEMMA LeastUpTo ==
    ASSUME NEW n \in Nat, NEW S, S \subseteq 0..n, S # {}
    PROVE  \E k \in S : \A j \in S : k <= j
<1>1. IsFiniteSet(0..n)
  BY FS_Interval
<1>2. IsFiniteSet(S)
  BY <1>1, FS_Subset
<1>3. S \subseteq Nat
  OBVIOUS
<1> QED
  BY <1>2, <1>3, Least

\* What holds of a number when it holds of those before it.
LEMMA UpTo ==
    ASSUME NEW n \in Nat, NEW Good,
           \A m \in 1..n : (\A k \in 1..(m - 1) : k \in Good) => m \in Good
    PROVE  1..n \subseteq Good
<1> DEFINE Bad == (1..n) \ Good
<1>1. SUFFICES ASSUME Bad # {} PROVE FALSE
  OBVIOUS
<1>2. Bad \subseteq 0..n
  OBVIOUS
<1>3. PICK m \in Bad : \A k \in Bad : m <= k
  <2> HIDE DEF Bad
  <2> QED
    BY <1>1, <1>2, LeastUpTo
<1>4. ASSUME NEW k \in 1..(m - 1) PROVE k \in Good
  <2>1. k \in 1..n /\ ~(m <= k)
    OBVIOUS
  <2> QED
    BY <1>3, <2>1
<1> QED
  BY <1>4

\* What holds of a number when it holds of those after it.
LEMMA DownFrom ==
    ASSUME NEW n \in Nat, NEW Good,
           \A m \in 1..n : (\A k \in (m + 1)..n : k \in Good) => m \in Good
    PROVE  1..n \subseteq Good
<1> DEFINE Mirror == {d \in 1..n : n + 1 - d \in Good}
<1>1. ASSUME NEW d \in 1..n, \A e \in 1..(d - 1) : e \in Mirror PROVE d \in Mirror
  <2> DEFINE m == n + 1 - d
  <2>1. ASSUME NEW k \in (m + 1)..n PROVE k \in Good
    <3>1. n + 1 - k \in 1..(d - 1) /\ n + 1 - (n + 1 - k) = k
      OBVIOUS
    <3>2. n + 1 - k \in Mirror
      BY <1>1, <3>1
    <3> QED
      BY <3>1, <3>2
  <2>2. m \in 1..n
    OBVIOUS
  <2> HIDE DEF m
  <2>3. m \in Good
    BY <2>1, <2>2
  <2> QED
    BY <2>3 DEF m
<1>2. 1..n \subseteq Mirror
  <2> HIDE DEF Mirror
  <2> QED
    BY <1>1, UpTo
<1>3. ASSUME NEW k \in 1..n PROVE k \in Good
  <2>1. n + 1 - k \in 1..n /\ n + 1 - (n + 1 - k) = k
    OBVIOUS
  <2>2. n + 1 - k \in Mirror
    BY <1>2, <2>1
  <2> QED
    BY <2>1, <2>2
<1> QED
  BY <1>3

-----------------------------------------------------------------------------
(* Sequences in ascending order.                                           *)

\* The sequence lists the members of S in order.
Ascending(s, S) ==
    /\ S \subseteq Nat
    /\ s \in Seq(S)
    /\ \A i, j \in 1..Len(s) : i < j => s[i] < s[j]
    /\ \A k \in S : \E i \in 1..Len(s) : s[i] = k

\* There is only one such sequence: at the first place where two differ, each
\* has a number that the other has later.
LEMMA AscendingAgree ==
    ASSUME NEW S, NEW s, NEW t, Ascending(s, S), Ascending(t, S),
           NEW i \in 1..Len(s), \A j \in 1..(i - 1) : j \in 1..Len(t) => s[j] = t[j]
    PROVE  i \in 1..Len(t) /\ ~(s[i] < t[i])
<1>1. /\ Len(s) \in Nat /\ Len(t) \in Nat
      /\ \A j \in 1..Len(s) : s[j] \in S /\ s[j] \in Nat
      /\ \A j \in 1..Len(t) : t[j] \in S /\ t[j] \in Nat
  BY ElementOfSeq, LenProperties DEF Ascending
<1>2. PICK j \in 1..Len(t) : t[j] = s[i]
  BY <1>1 DEF Ascending
<1>3. ~(j < i)
  <2>1. SUFFICES ASSUME j < i PROVE FALSE
    OBVIOUS
  <2>2. j \in 1..(i - 1) /\ j \in 1..Len(s)
    BY <1>1, <2>1
  <2>3. s[j] = s[i] /\ s[j] < s[i] /\ s[i] \in Nat
    BY <1>1, <1>2, <2>1, <2>2 DEF Ascending
  <2> QED
    BY <2>3
<1>4. i \in 1..Len(t)
  BY <1>1, <1>3
<1>5. i < j => t[i] < t[j]
  BY <1>4 DEF Ascending
<1> QED
  BY <1>1, <1>2, <1>3, <1>4, <1>5

LEMMA AscendingUnique ==
    ASSUME NEW S, NEW s, NEW t, Ascending(s, S), Ascending(t, S)
    PROVE  s = t
<1>1. /\ Len(s) \in Nat /\ Len(t) \in Nat /\ s \in Seq(S) /\ t \in Seq(S)
      /\ \A j \in 1..Len(s) : s[j] \in Nat
      /\ \A j \in 1..Len(t) : t[j] \in Nat
  BY ElementOfSeq, LenProperties DEF Ascending
<1> DEFINE Same == {i \in 1..Len(s) : i \in 1..Len(t) /\ s[i] = t[i]}
<1>2. ASSUME NEW i \in 1..Len(s), \A j \in 1..(i - 1) : j \in Same PROVE i \in Same
  <2>1. \A j \in 1..(i - 1) : j \in 1..Len(s) /\ j \in 1..Len(t) /\ s[j] = t[j]
    BY <1>2
  <2>2. i \in 1..Len(t) /\ ~(s[i] < t[i])
    BY <2>1, AscendingAgree
  <2>3. ~(t[i] < s[i])
    BY <2>1, <2>2, AscendingAgree
  <2> QED
    BY <1>1, <2>2, <2>3
<1>3. \A i \in 1..Len(s) : i \in 1..Len(t) /\ s[i] = t[i]
  <2>1. 1..Len(s) \subseteq Same
    <3> HIDE DEF Same
    <3> QED
      BY <1>1, <1>2, UpTo
  <2> QED
    BY <2>1
<1>4. Len(s) = Len(t)
  <2>1. SUFFICES ASSUME Len(s) < Len(t) PROVE FALSE
    <3>1. Len(s) <= Len(t)
      BY <1>1, <1>3
    <3> QED
      BY <1>1, <3>1
  <2> DEFINE i == Len(s) + 1
  <2>2. i \in 1..Len(t) /\ \A j \in 1..(i - 1) : j \in 1..Len(s)
    BY <1>1, <2>1
  <2> HIDE DEF i
  <2>3. i \in 1..Len(s)
    BY <1>3, <2>2, AscendingAgree
  <2> QED
    BY <1>1, <2>3 DEF i
<1> QED
  BY <1>1, <1>3, <1>4, SeqEqual

LEMMA InOrderAscending ==
    ASSUME NEW S, S \subseteq Nat, IsFiniteSet(S)
    PROVE  Ascending(InOrder(S), S)
<1> DEFINE n == Cardinality(S)
           s == InOrder(S)
           at(i) == CHOOSE k \in S : Before(S, k) = i - 1
<1>1. n \in Nat
  BY FS_CardinalityType
<1>2. ASSUME NEW i \in 1..n PROVE at(i) \in S /\ Before(S, at(i)) = i - 1
  <2>1. \E k \in S : Before(S, k) = i - 1
    BY Ranks
  <2> QED
    BY <2>1
<1>3. s = [i \in 1..n |-> at(i)]
  BY DEF InOrder, Before
<1> HIDE DEF at
<1>4. /\ s \in Seq(S) /\ Len(s) = n
      /\ \A k \in S : \E i \in 1..Len(s) : s[i] = k
  BY InOrderLists
<1> HIDE DEF s
<1>5. \A i \in 1..n : s[i] \in S /\ s[i] \in Nat /\ Before(S, s[i]) = i - 1
  BY <1>2, <1>3
<1>6. ASSUME NEW i \in 1..n, NEW j \in 1..n, i < j PROVE s[i] < s[j]
  <2>1. s[j] < s[i] => Before(S, s[j]) < Before(S, s[i])
    BY <1>5, Ranks
  <2>2. Before(S, s[i]) < Before(S, s[j])
    BY <1>1, <1>5, <1>6
  <2>3. Before(S, s[i]) \in Int /\ Before(S, s[j]) \in Int
    BY <1>1, <1>5
  <2>4. s[i] # s[j] /\ ~(s[j] < s[i])
    BY <2>1, <2>2, <2>3
  <2> QED
    BY <1>5, <2>4
<1> QED
  BY <1>4, <1>6 DEF Ascending, s

LEMMA AscendingRange ==
    ASSUME NEW S, NEW s, Ascending(s, S)
    PROVE  /\ Range(s) = S /\ DOMAIN s = 1..Len(s) /\ Len(s) \in Nat
           /\ IsFiniteSet(S) /\ s = InOrder(S)
<1>1. s \in Seq(S) /\ Len(s) \in Nat /\ DOMAIN s = 1..Len(s)
      /\ \A i \in 1..Len(s) : s[i] \in S
  BY ElementOfSeq, LenProperties DEF Ascending
<1>2. Range(s) = S
  BY <1>1 DEF Range, Ascending
<1>3. IsFiniteSet(S)
  <2>1. S = {s[i] : i \in 1..Len(s)}
    BY <1>1, <1>2 DEF Range
  <2>2. IsFiniteSet(1..Len(s))
    BY <1>1, FS_Interval
  <2> DEFINE f == [i \in 1..Len(s) |-> s[i]]
  <2>3. f \in Surjection(1..Len(s), S)
    BY <1>1, <2>1 DEF Surjection
  <2> HIDE DEF f
  <2> QED
    BY <2>2, <2>3, FS_Surjection
<1>4. s = InOrder(S)
  <2>1. Ascending(InOrder(S), S)
    BY <1>3, InOrderAscending DEF Ascending
  <2> QED
    BY <2>1, AscendingUnique
<1> QED
  BY <1>1, <1>2, <1>3, <1>4

\* One list after another.
LEMMA AscendingConcat ==
    ASSUME NEW S, NEW s, Ascending(s, S), NEW T, NEW t, Ascending(t, T),
           \A x \in S, y \in T : x < y
    PROVE  Ascending(s \o t, S \cup T)
<1> DEFINE U == S \cup T
           st == s \o t
<1>1. s \in Seq(U) /\ t \in Seq(U) /\ Len(s) \in Nat /\ Len(t) \in Nat /\ U \subseteq Nat
  BY SeqMonotonic, LenProperties DEF Ascending
<1>2. /\ st \in Seq(U) /\ Len(st) = Len(s) + Len(t)
      /\ \A i \in 1..Len(s) : st[i] = s[i]
      /\ \A i \in 1..Len(t) : st[i + Len(s)] = t[i]
  BY <1>1, ConcatProperties
<1>3. /\ \A i \in 1..Len(s) : s[i] \in S
      /\ \A i \in 1..Len(t) : t[i] \in T
  BY ElementOfSeq DEF Ascending
<1> HIDE DEF st
<1>4. ASSUME NEW i \in 1..Len(st)
      PROVE  \/ i \in 1..Len(s)
             \/ i - Len(s) \in 1..Len(t) /\ st[i] = t[i - Len(s)]
  <2>1. ~(i <= Len(s)) => i - Len(s) \in 1..Len(t) /\ (i - Len(s)) + Len(s) = i
    BY <1>1, <1>2
  <2> QED
    BY <1>1, <1>2, <2>1
<1>5. ASSUME NEW i \in 1..Len(st), NEW j \in 1..Len(st), i < j PROVE st[i] < st[j]
  <2>1. CASE i \in 1..Len(s) /\ j \in 1..Len(s)
    BY <1>2, <1>5, <2>1 DEF Ascending
  <2>2. CASE i \in 1..Len(s) /\ j \notin 1..Len(s)
    BY <1>2, <1>3, <1>4, <2>2
  <2>3. CASE i \notin 1..Len(s)
    <3> DEFINE k == i - Len(s)
               l == j - Len(s)
    <3>1. j \notin 1..Len(s)
      BY <1>1, <1>2, <1>5, <2>3
    <3>2. k \in 1..Len(t) /\ l \in 1..Len(t) /\ st[i] = t[k] /\ st[j] = t[l]
      BY <1>4, <2>3, <3>1
    <3>3. k < l
      BY <1>1, <1>2, <1>5
    <3> HIDE DEF k, l
    <3> QED
      BY <3>2, <3>3 DEF Ascending
  <2> QED
    BY <2>1, <2>2, <2>3
<1>6. ASSUME NEW x \in U PROVE \E i \in 1..Len(st) : st[i] = x
  <2>1. CASE x \in S
    <3>1. PICK i \in 1..Len(s) : s[i] = x
      BY <2>1 DEF Ascending
    <3> QED
      BY <1>1, <1>2, <3>1
  <2>2. CASE x \in T
    <3>1. PICK i \in 1..Len(t) : t[i] = x
      BY <2>2 DEF Ascending
    <3>2. i + Len(s) \in 1..Len(st)
      BY <1>1, <1>2
    <3> QED
      BY <1>2, <3>1, <3>2
  <2> QED
    BY <2>1, <2>2
<1> QED
  BY <1>1, <1>2, <1>5, <1>6 DEF Ascending, st

LEMMA AscendingFew ==
    /\ Ascending(<<>>, {})
    /\ \A x \in Nat : Ascending(<<x>>, {x})
BY DEF Ascending

-----------------------------------------------------------------------------
(* Lists of lists.                                                         *)

Union(A, i) == UNION {A[j] : j \in 1..i}

\* The lists in a list, each of them ascending and one above the other.
Stacked(seqs, A) ==
    /\ \A i \in 1..Len(seqs) : Ascending(seqs[i], A[i])
    /\ \A i, j \in 1..Len(seqs) : i < j => \A x \in A[i], y \in A[j] : x < y

LEMMA StackedStep ==
    ASSUME NEW seqs, NEW A, Stacked(seqs, A), Len(seqs) \in Nat, NEW i \in 2..Len(seqs),
           NEW s, Ascending(s, Union(A, i - 1))
    PROVE  Ascending(s \o seqs[i], Union(A, i))
<1>1. i \in 1..Len(seqs) /\ \A j \in 1..(i - 1) : j \in 1..Len(seqs) /\ j < i
  OBVIOUS
<1>2. \A x \in Union(A, i - 1), y \in A[i] : x < y
  BY <1>1 DEF Stacked, Union
<1>3. Ascending(seqs[i], A[i])
  BY <1>1 DEF Stacked
<1>4. Ascending(s \o seqs[i], Union(A, i - 1) \cup A[i])
  BY <1>2, <1>3, AscendingConcat
<1>5. Union(A, i - 1) \cup A[i] = Union(A, i)
  <2>1. 1..i = (1..(i - 1)) \cup {i}
    OBVIOUS
  <2> QED
    BY <2>1 DEF Union
<1> QED
  BY <1>4, <1>5

\* FlattenSeq is defined by a recursion.  That a function obeys it is shown by
\* one: the lists of what the first lists have.  That whichever function it is
\* has the same values is then shown from the first list on.
LEMMA FlattenAscending ==
    ASSUME NEW seqs, NEW A, Len(seqs) \in Nat, Stacked(seqs, A), Len(seqs) = 0 => seqs = <<>>
    PROVE  Ascending(FlattenSeq(seqs), Union(A, Len(seqs)))
<1> DEFINE n == Len(seqs)
           Flattens(f) == f = [i \in 1..n |-> IF i = 1 THEN seqs[i] ELSE f[i - 1] \o seqs[i]]
           f0 == CHOOSE f : Flattens(f)
<1>1. CASE n = 0
  <2>1. FlattenSeq(seqs) = <<>>
    BY <1>1 DEF FlattenSeq
  <2>2. Union(A, n) = {}
    BY <1>1 DEF Union
  <2> QED
    BY <2>1, <2>2, AscendingFew
<1>2. CASE n # 0
  <2>1. FlattenSeq(seqs) = f0[n]
    BY <1>2 DEF FlattenSeq
  <2>2. Ascending(seqs[1], Union(A, 1))
    <3>1. 1 \in 1..n /\ Union(A, 1) = A[1]
      BY <1>2 DEF Union
    <3> QED
      BY <3>1 DEF Stacked
  <2> DEFINE g == [i \in 1..n |-> InOrder(Union(A, i))]
  <2>3. ASSUME NEW i \in 1..n PROVE Ascending(g[i], Union(A, i))
    <3> DEFINE Right == {j \in 1..n : Ascending(g[j], Union(A, j))}
    <3>1. ASSUME NEW j \in 1..n, \A k \in 1..(j - 1) : k \in Right PROVE j \in Right
      <4>1. \E s : Ascending(s, Union(A, j))
        <5>1. CASE j = 1
          BY <2>2, <5>1
        <5>2. CASE j # 1
          <6>1. j \in 2..n /\ j - 1 \in 1..(j - 1)
            BY <5>2
          <6>2. Ascending(g[j - 1], Union(A, j - 1))
            BY <3>1, <6>1
          <6> QED
            BY <6>1, <6>2, StackedStep
        <5> QED
          BY <5>1, <5>2
      <4>2. Ascending(InOrder(Union(A, j)), Union(A, j))
        BY <4>1, AscendingRange
      <4> QED
        BY <4>2
    <3>2. 1..n \subseteq Right
      <4> HIDE DEF Right
      <4> QED
        BY <3>1, UpTo
    <3> QED
      BY <3>2
  <2>4. ASSUME NEW i \in 1..n, i # 1
        PROVE  g[i] = g[i - 1] \o seqs[i]
    <3>1. i \in 2..n /\ i - 1 \in 1..n
      BY <2>4
    <3>2. Ascending(g[i - 1] \o seqs[i], Union(A, i))
      BY <2>3, <3>1, StackedStep
    <3> QED
      BY <2>3, <3>2, AscendingUnique
  <2>5. n # 0 => g[1] = seqs[1]
    <3>1. 1 \in 1..n
      BY <1>2
    <3> HIDE DEF g
    <3> QED
      BY <2>2, <2>3, <3>1, AscendingUnique
  <2>6. Flattens(g)
    <3>1. \A i \in 1..n : g[i] = IF i = 1 THEN seqs[i] ELSE g[i - 1] \o seqs[i]
      BY <1>2, <2>4, <2>5
    <3>2. g = [i \in 1..n |-> g[i]]
      OBVIOUS
    <3> HIDE DEF g
    <3> QED
      BY <3>1, <3>2
  <2>7. Flattens(f0)
    <3> HIDE DEF Flattens, g
    <3> QED
      BY <2>6
  <2> HIDE DEF f0, g
  <2> DEFINE Equal == {i \in 1..n : f0[i] = g[i]}
  <2>8. ASSUME NEW j \in 1..n, \A k \in 1..(j - 1) : k \in Equal PROVE j \in Equal
    <3>1. f0[j] = IF j = 1 THEN seqs[j] ELSE f0[j - 1] \o seqs[j]
      BY <2>7
    <3>2. j # 1 => f0[j - 1] = g[j - 1]
      <4>1. j # 1 => j - 1 \in 1..(j - 1)
        OBVIOUS
      <4> QED
        BY <2>8, <4>1
    <3> QED
      BY <1>2, <2>4, <2>5, <3>1, <3>2
  <2>9. n \in 1..n /\ f0[n] = g[n]
    <3>1. 1..n \subseteq Equal
      <4> HIDE DEF Equal
      <4> QED
        BY <2>8, UpTo
    <3> QED
      BY <1>2, <3>1
  <2> QED
    BY <2>1, <2>3, <2>9
<1> QED
  BY <1>1, <1>2

\* What a search selects from an ascending list.
LEMMA SelectAscending ==
    ASSUME NEW S, NEW s, Ascending(s, S), NEW wanted
    PROVE  Ascending(Select(s, wanted), S \cap wanted)
<1> DEFINE seqs == [i \in DOMAIN s |-> IF s[i] \in wanted THEN <<s[i]>> ELSE <<>>]
           A == [i \in 1..Len(s) |-> {s[i]} \cap wanted]
<1>1. /\ Range(s) = S /\ DOMAIN s = 1..Len(s) /\ Len(s) \in Nat /\ S \subseteq Nat
      /\ \A i \in 1..Len(s) : s[i] \in S /\ s[i] \in Nat
  BY AscendingRange, ElementOfSeq DEF Ascending
<1>2. seqs \in Seq(Seq(Nat)) /\ Len(seqs) = Len(s)
  <2>1. \A i \in 1..Len(s) : (IF s[i] \in wanted THEN <<s[i]>> ELSE <<>>) \in Seq(Nat)
    BY <1>1
  <2> QED
    BY <1>1, <2>1
<1>3. ASSUME NEW i \in 1..Len(s) PROVE Ascending(seqs[i], A[i])
  <2>1. CASE s[i] \in wanted
    <3>1. seqs[i] = <<s[i]>> /\ A[i] = {s[i]}
      BY <1>1, <2>1
    <3> QED
      BY <1>1, <3>1, AscendingFew
  <2>2. CASE s[i] \notin wanted
    <3>1. seqs[i] = <<>> /\ A[i] = {}
      BY <1>1, <2>2
    <3> QED
      BY <3>1, AscendingFew
  <2> QED
    BY <2>1, <2>2
<1>4. \A i, j \in 1..Len(s) : i < j => \A x \in A[i], y \in A[j] : x < y
  BY DEF Ascending
<1>5. Select(s, wanted) = FlattenSeq(seqs)
  BY DEF Select
<1>6. Union(A, Len(s)) = S \cap wanted
  <2>1. S = {s[i] : i \in 1..Len(s)}
    BY <1>1 DEF Range
  <2>2. \A i \in 1..Len(s) : A[i] = {s[i]} \cap wanted
    OBVIOUS
  <2> HIDE DEF A
  <2> QED
    BY <2>1, <2>2 DEF Union
<1> HIDE DEF seqs, A
<1>7. Stacked(seqs, A) /\ (Len(seqs) = 0 => seqs = <<>>) /\ Len(seqs) \in Nat
  BY <1>1, <1>2, <1>3, <1>4, EmptySeq DEF Stacked
<1> QED
  BY <1>2, <1>5, <1>6, <1>7, FlattenAscending

-----------------------------------------------------------------------------
(* What encloses what.                                                     *)

\* The tree is numbered as i3ipc_con_new makes it, and laid out by i3.
Layout ==
    /\ Shape
    /\ InCreationOrder(tree.size, tree.up, tree.floating)
    /\ TreeOfI3

Around(k) == Enclosing(tree.up, k)

LEMMA TreeNumbers ==
    ASSUME Shape
    PROVE  /\ tree.size \in Nat /\ tree.size \in 1..MaxCons /\ 1..tree.size \subseteq Con
           /\ \A k \in 2..tree.size : tree.up[k] \in 1..(k - 1) /\ tree.up[k] \in 1..tree.size
           /\ tree.floating \subseteq 2..tree.size
<1>1. MaxCons \in Nat /\ tree.size \in 1..MaxCons
      /\ \A k \in 2..tree.size : tree.up[k] \in 1..(k - 1)
  BY BoundsAssumption DEF Shape
<1>2. tree.floating \subseteq 2..tree.size
  BY DEF Shape, Reply
<1> QED
  BY <1>1, <1>2 DEF Con

LEMMA AroundFirst ==
    ASSUME Shape, NEW k \in 1..tree.size
    PROVE  k \in Around(k) /\ Around(k) \subseteq 1..k
BY TreeNumbers DEF Around, Enclosing

\* A con is around itself, and whatever else is around it is around the con that
\* contains it.
LEMMA AroundSplit ==
    ASSUME Shape, NEW k \in 2..tree.size
    PROVE  Around(k) = Around(tree.up[k]) \cup {k}
<1> DEFINE up == tree.up
           p == up[k]
<1>1. /\ k \in Nat /\ p \in 1..(k - 1) /\ k \in 1..tree.size
      /\ \A j \in 2..k : up[j] \in 1..(j - 1)
  BY TreeNumbers
<1>2. Around(p) \subseteq Around(k) /\ k \in Around(k) /\ Around(k) \subseteq 1..k
  BY <1>1, EnclosingOuter, AroundFirst DEF Around
<1>3. ASSUME NEW j \in Around(k), j # k PROVE j \in Around(p)
  <2>1. \A S \in SUBSET (1..k) : k \in S /\ (\A i \in S \ {1} : up[i] \in S) => j \in S
    BY DEF Around, Enclosing
  <2>2. ASSUME NEW S \in SUBSET (1..p), p \in S, \A i \in S \ {1} : up[i] \in S
        PROVE  j \in S
    <3> DEFINE T == S \cup {k}
    <3>1. T \in SUBSET (1..k) /\ k \in T
      BY <1>1
    <3>2. \A i \in T \ {1} : up[i] \in T
      BY <2>2
    <3>3. j \in T
      BY <2>1, <3>1, <3>2
    <3> QED
      BY <1>3, <3>3
  <2>3. j \in 1..p
    <3>1. 1..p \in SUBSET (1..p) /\ p \in 1..p
      BY <1>1
    <3>2. \A i \in (1..p) \ {1} : up[i] \in 1..p
      BY <1>1
    <3> QED
      BY <2>2, <3>1, <3>2
  <2> QED
    BY <2>2, <2>3 DEF Around, Enclosing
<1> QED
  BY <1>2, <1>3

LEMMA AroundTop == ASSUME Shape PROVE Around(1) = {1}
<1>1. 1 \in 1..tree.size
  BY TreeNumbers
<1>2. 1 \in Around(1) /\ Around(1) \subseteq 1..1
  BY <1>1, AroundFirst
<1> QED
  BY <1>2

LEMMA AroundTransitive ==
    ASSUME Shape, NEW c \in 1..tree.size, NEW b \in Around(c)
    PROVE  Around(b) \subseteq Around(c)
<1> DEFINE Good == {k \in 1..tree.size : b \in Around(k) => Around(b) \subseteq Around(k)}
<1>1. ASSUME NEW k \in 1..tree.size, \A j \in 1..(k - 1) : j \in Good PROVE k \in Good
  <2>1. SUFFICES ASSUME b \in Around(k), k # b PROVE Around(b) \subseteq Around(k)
    OBVIOUS
  <2>2. k # 1
    BY <2>1, AroundTop
  <2>3. k \in 2..tree.size
    BY <2>2, TreeNumbers
  <2>4. tree.up[k] \in 1..(k - 1)
    BY <2>3, TreeNumbers
  <2>5. b \in Around(tree.up[k]) /\ Around(tree.up[k]) \subseteq Around(k)
    BY <2>1, <2>3, AroundSplit
  <2> QED
    BY <1>1, <2>4, <2>5
<1>2. 1..tree.size \subseteq Good
  <2> HIDE DEF Good
  <2> QED
    BY <1>1, TreeNumbers, UpTo
<1> QED
  BY <1>2

\* Of two cons around a third, the one with the smaller number is around the
\* other.
LEMMA AroundChain ==
    ASSUME Shape, NEW c \in 1..tree.size, NEW a \in Around(c), NEW b \in Around(c), a <= b
    PROVE  a \in Around(b)
<1> DEFINE Good == {k \in 1..tree.size : a \in Around(k) /\ b \in Around(k) => a \in Around(b)}
<1>1. ASSUME NEW k \in 1..tree.size, \A j \in 1..(k - 1) : j \in Good PROVE k \in Good
  <2>1. SUFFICES ASSUME a \in Around(k), b \in Around(k), k # b PROVE a \in Around(b)
    OBVIOUS
  <2>2. Around(k) \subseteq 1..k /\ tree.size \in Nat
    BY AroundFirst, TreeNumbers
  <2>3. k # a
    BY <2>1, <2>2
  <2>4. k # 1
    BY <2>1, AroundTop
  <2>5. k \in 2..tree.size
    BY <2>2, <2>4
  <2>6. tree.up[k] \in 1..(k - 1)
    BY <2>5, TreeNumbers
  <2>7. a \in Around(tree.up[k]) /\ b \in Around(tree.up[k])
    BY <2>1, <2>3, <2>5, AroundSplit
  <2> QED
    BY <1>1, <2>6, <2>7
<1>2. 1..tree.size \subseteq Good
  <2> HIDE DEF Good
  <2> QED
    BY <1>1, TreeNumbers, UpTo
<1> QED
  BY <1>2

\* What is below a con is numbered without a gap, because a con is made right
\* after one that its parent is around.
LEMMA BelowWithoutGap ==
    ASSUME Layout, NEW x \in 1..tree.size, NEW c \in Around(x), NEW y \in c..x
    PROVE  c \in Around(y)
<1> DEFINE Good == {k \in 1..x : c <= k => c \in Around(k)}
<1>1. Shape /\ tree.size \in Nat /\ x \in Nat /\ c \in 1..x
  BY AroundFirst, TreeNumbers DEF Layout
<1>2. ASSUME NEW j \in 1..x, \A k \in (j + 1)..x : k \in Good PROVE j \in Good
  <2>1. SUFFICES ASSUME c <= j, j # x PROVE c \in Around(j)
    BY <1>1
  <2> DEFINE k == j + 1
  <2>2. k \in 2..tree.size /\ k \in (j + 1)..x /\ c <= k /\ k # c /\ j = k - 1
    BY <1>1, <2>1
  <2>3. c \in Around(k)
    BY <1>2, <2>2
  <2> HIDE DEF k
  <2>4. c \in Around(tree.up[k])
    BY <1>1, <2>2, <2>3, AroundSplit
  <2>5. CASE k = 2
    <3>1. c = 1 /\ j = 1
      BY <1>1, <2>1, <2>2, <2>5
    <3> QED
      BY <1>1, <3>1, AroundTop
  <2>6. CASE k # 2
    <3>1. k \in 3..tree.size /\ j \in 1..tree.size
      BY <1>1, <2>2, <2>6
    <3>2. tree.up[k] \in Around(j)
      BY <2>2, <3>1 DEF Layout, InCreationOrder, Around
    <3> QED
      BY <1>1, <2>4, <3>1, <3>2, AroundTransitive
  <2> QED
    BY <2>5, <2>6
<1>3. 1..x \subseteq Good
  <2> HIDE DEF Good
  <2> QED
    BY <1>1, <1>2, DownFrom
<1> QED
  BY <1>1, <1>3

\* So all below one child of a con comes before all below a later one.
LEMMA ChildByChild ==
    ASSUME Layout, NEW c \in 1..tree.size, NEW k \in Kids(c), NEW l \in Kids(c), k < l,
           NEW x \in Below(k), NEW y \in Below(l)
    PROVE  x < y
<1>1. /\ Shape /\ tree.size \in Nat /\ k \in 2..tree.size /\ l \in 2..tree.size
      /\ tree.up[k] = c /\ tree.up[l] = c /\ c < k /\ c \in Nat
      /\ k \in Around(x) /\ l \in Around(y) /\ x \in 1..tree.size /\ y \in 1..tree.size
  BY TreeNumbers DEF Layout, Kids, Below, Around
<1>2. l \in 1..y
  BY <1>1, AroundFirst
<1>3. ASSUME ~(x < y) PROVE FALSE
  <2>1. l \in k..x
    BY <1>1, <1>2, <1>3
  <2>2. k \in Around(l)
    BY <1>1, <2>1, BelowWithoutGap
  <2>3. k \in Around(c) /\ Around(c) \subseteq 1..c
    BY <1>1, <2>2, AroundSplit, AroundFirst
  <2> QED
    BY <1>1, <2>3
<1> QED
  BY <1>3

LEMMA BelowMembers ==
    ASSUME Shape, NEW c \in 1..tree.size
    PROVE  /\ Below(c) \subseteq c..tree.size /\ c \in Below(c)
           /\ Below(c) \ {c} = UNION {Below(k) : k \in Kids(c)}
<1>1. tree.size \in Nat /\ c \in Below(c)
  BY AroundFirst, TreeNumbers DEF Below, Around
<1>2. ASSUME NEW x \in Below(c) PROVE x \in c..tree.size
  <2>1. x \in 1..tree.size /\ c \in Around(x)
    BY DEF Below, Around
  <2>2. c \in 1..x
    BY <2>1, AroundFirst
  <2> QED
    BY <1>1, <2>1, <2>2
<1>3. ASSUME NEW k \in Kids(c), NEW x \in Below(k) PROVE x \in Below(c) \ {c}
  <2>1. /\ k \in 2..tree.size /\ tree.up[k] = c /\ c < k
        /\ k \in 1..tree.size /\ x \in 1..tree.size /\ k \in Around(x)
    BY <1>1, TreeNumbers DEF Kids, Below, Around
  <2>2. c \in Around(k)
    BY <2>1, AroundSplit, AroundFirst
  <2>3. c \in Around(x) /\ k \in 1..x
    BY <2>1, <2>2, AroundTransitive, AroundFirst
  <2> QED
    BY <1>1, <2>1, <2>3 DEF Below, Around
<1>4. ASSUME NEW x \in Below(c) \ {c} PROVE \E k \in Kids(c) : x \in Below(k)
  <2> DEFINE P == {j \in 1..x : j \in Around(x) /\ j # c /\ c \in Around(j)}
  <2>1. x \in 1..tree.size /\ c \in Around(x) /\ x \in Nat
    BY <1>1 DEF Below, Around
  <2>2. x \in P
    BY <2>1, AroundFirst
  <2>3. PICK k \in P : \A j \in P : k <= j
    <3>1. P \subseteq 0..x
      BY <2>1
    <3> HIDE DEF P
    <3> QED
      BY <2>1, <2>2, <3>1, LeastUpTo
  <2>4. k \in 1..tree.size /\ k \in Around(x) /\ k # c /\ c \in Around(k)
    BY <1>1, <2>1
  <2>5. k \in 2..tree.size
    <3>1. k # 1
      BY <2>4, AroundTop
    <3> QED
      BY <1>1, <2>4, <3>1
  <2>6. c \in Around(tree.up[k]) /\ tree.up[k] \in Around(k) /\ tree.up[k] < k
        /\ tree.up[k] \in 1..tree.size
    <3>1. tree.up[k] \in 1..tree.size /\ tree.up[k] < k
      BY <1>1, <2>5, TreeNumbers
    <3>2. tree.up[k] \in Around(tree.up[k])
      BY <3>1, AroundFirst
    <3> QED
      BY <2>4, <2>5, <3>1, <3>2, AroundSplit
  <2>7. tree.up[k] = c
    <3>1. tree.up[k] \in Around(x) /\ tree.up[k] \in 1..x
      BY <2>1, <2>4, <2>6, AroundTransitive, AroundFirst
    <3>2. tree.up[k] \notin P
      BY <1>1, <2>3, <2>4, <2>6
    <3> QED
      BY <2>6, <3>1, <3>2
  <2> QED
    BY <2>1, <2>4, <2>5, <2>7 DEF Kids, Below, Around
<1> QED
  BY <1>1, <1>2, <1>3, <1>4

-----------------------------------------------------------------------------
(* i3ipc_con_descendents.                                                  *)

NodesOf(c) == {k \in (2..tree.size) \ tree.floating : tree.up[k] = c}

\* The nodes of a con are numbered before its floating_nodes, so the two lists
\* one after the other are in order.
LEMMA ChildrenAscending ==
    ASSUME Layout, NEW c
    PROVE  /\ Ascending(nodes(c), NodesOf(c))
           /\ Ascending(Children(c), Kids(c))
<1> DEFINE A == NodesOf(c)
           B == {k \in tree.floating : tree.up[k] = c}
<1>1. /\ Shape /\ tree.size \in Nat /\ tree.floating \subseteq 2..tree.size
      /\ A \subseteq 0..tree.size /\ B \subseteq 0..tree.size
  BY TreeNumbers DEF Layout, NodesOf
<1>2. IsFiniteSet(0..tree.size) /\ 0..tree.size \subseteq Nat
  BY <1>1, FS_Interval
<1>3. IsFiniteSet(A) /\ IsFiniteSet(B)
  BY <1>1, <1>2, FS_Subset
<1>4. A \subseteq Nat /\ B \subseteq Nat
  BY <1>1, <1>2
<1>5. Ascending(InOrder(A), A) /\ Ascending(InOrder(B), B)
  BY <1>3, <1>4, InOrderAscending
<1>6. ASSUME NEW x \in A, NEW y \in B PROVE x < y
  <2>1. x \in 2..tree.size /\ x \notin tree.floating /\ tree.up[x] = c
    BY DEF NodesOf
  <2>2. y \in 2..tree.size /\ y \in tree.floating /\ tree.up[y] = c
    BY <1>1
  <2> QED
    BY <2>1, <2>2 DEF Layout, InCreationOrder
<1>7. A \cup B = Kids(c)
  BY <1>1 DEF Kids, NodesOf
<1>8. nodes(c) = InOrder(A) /\ floating_nodes(c) = InOrder(B)
  BY DEF nodes, floating_nodes, NodesOf
<1> HIDE DEF A, B
<1>9. Ascending(InOrder(A) \o InOrder(B), A \cup B)
  BY <1>5, <1>6, AscendingConcat
<1> QED
  BY <1>5, <1>7, <1>8, <1>9 DEF A, Children

\* What a callback that makes of each con the list f has for it makes of a list.
Walked(f, s) == FlattenSeq([i \in DOMAIN s |-> f[s[i]]])

BelowAny(S, wanted) == UNION {Below(k) \cap wanted : k \in S}

\* The lists that a walk makes of what is below the cons of a list, one after
\* the other.
LEMMA WalkOfList ==
    ASSUME Layout, NEW c \in 1..tree.size, NEW S, S \subseteq Kids(c),
           NEW s, Ascending(s, S), NEW wanted, NEW f,
           \A k \in S : Ascending(f[k], Below(k) \cap wanted)
    PROVE  Ascending(Walked(f, s), BelowAny(S, wanted))
<1> DEFINE seqs == [i \in DOMAIN s |-> f[s[i]]]
           A == [i \in 1..Len(s) |-> Below(s[i]) \cap wanted]
<1>1. /\ Range(s) = S /\ DOMAIN s = 1..Len(s) /\ Len(s) \in Nat
      /\ \A i \in 1..Len(s) : s[i] \in S
  BY AscendingRange, ElementOfSeq DEF Ascending
<1>2. ASSUME NEW i \in 1..Len(s) PROVE f[s[i]] \in Seq(Nat)
  <2>1. Ascending(f[s[i]], Below(s[i]) \cap wanted)
    BY <1>1
  <2> QED
    BY <2>1, SeqMonotonic DEF Ascending
<1>3. seqs \in Seq(Seq(Nat)) /\ Len(seqs) = Len(s)
  BY <1>1, <1>2
<1>4. \A i \in 1..Len(s) : Ascending(seqs[i], A[i])
  BY <1>1
<1>5. ASSUME NEW i \in 1..Len(s), NEW j \in 1..Len(s), i < j,
             NEW x \in A[i], NEW y \in A[j]
      PROVE  x < y
  <2>1. s[i] \in Kids(c) /\ s[j] \in Kids(c) /\ s[i] < s[j]
    BY <1>1, <1>5 DEF Ascending
  <2>2. x \in Below(s[i]) /\ y \in Below(s[j])
    OBVIOUS
  <2> QED
    BY <2>1, <2>2, ChildByChild
<1>6. Union(A, Len(s)) = BelowAny(S, wanted)
  <2>1. S = {s[i] : i \in 1..Len(s)}
    BY <1>1 DEF Range
  <2>2. \A i \in 1..Len(s) : A[i] = Below(s[i]) \cap wanted
    OBVIOUS
  <2> HIDE DEF A
  <2> QED
    BY <2>1, <2>2 DEF Union, BelowAny
<1> HIDE DEF seqs, A
<1>7. Stacked(seqs, A) /\ (Len(seqs) = 0 => seqs = <<>>) /\ Len(seqs) \in Nat
  BY <1>1, <1>3, <1>4, <1>5, EmptySeq DEF Stacked
<1>8. Ascending(FlattenSeq(seqs), Union(A, Len(seqs)))
  BY <1>7, FlattenAscending
<1> QED
  BY <1>3, <1>6, <1>8 DEF seqs, Walked

\* What the callback collects of c and below it, if it does so of its children.
Collected(f, c) == Walked(f, Children(c))

LEMMA CollectedStep ==
    ASSUME Layout, NEW c \in 1..tree.size, NEW f,
           \A k \in Kids(c) : Ascending(f[k], Below(k))
    PROVE  /\ Ascending(Collected(f, c), Below(c) \ {c})
           /\ Ascending(<<c>> \o Collected(f, c), Below(c))
<1>1. Ascending(Children(c), Kids(c)) /\ Shape
  BY ChildrenAscending DEF Layout
<1>2. \A k \in Kids(c) : Below(k) \cap Nat = Below(k)
  BY TreeNumbers, <1>1 DEF Below
<1>3. Ascending(Collected(f, c), BelowAny(Kids(c), Nat))
  <2>1. \A k \in Kids(c) : Ascending(f[k], Below(k) \cap Nat)
    BY <1>2
  <2> QED
    BY <1>1, <2>1, WalkOfList DEF Collected
<1>4. BelowAny(Kids(c), Nat) = Below(c) \ {c}
  BY <1>1, <1>2, BelowMembers DEF BelowAny
<1>5. Ascending(<<c>>, {c}) /\ \A x \in {c}, y \in Below(c) \ {c} : x < y
  BY <1>1, TreeNumbers, BelowMembers, AscendingFew
<1>6. {c} \cup (Below(c) \ {c}) = Below(c)
  BY <1>1, BelowMembers
<1> HIDE DEF Collected
<1>7. Ascending(<<c>> \o Collected(f, c), {c} \cup (Below(c) \ {c}))
  BY <1>3, <1>4, <1>5, AscendingConcat
<1> QED
  BY <1>3, <1>4, <1>6, <1>7

\* A number of no con has no children.
LEMMA NoChildren ==
    ASSUME Layout, NEW c, c \notin 1..tree.size
    PROVE  nodes(c) = <<>> /\ Children(c) = <<>>
<1>1. Ascending(nodes(c), NodesOf(c)) /\ Ascending(Children(c), Kids(c)) /\ Shape
  BY ChildrenAscending DEF Layout
<1>2. NodesOf(c) = {} /\ Kids(c) = {}
  BY <1>1, TreeNumbers DEF NodesOf, Kids
<1> QED
  BY <1>1, <1>2, AscendingFew, AscendingUnique

\* The recursion of the callback, whichever function obeys it, from the con with
\* the largest number down.
Walks(with) == with = [k \in Con |-> <<k>> \o Collected(with, k)]

LEMMA WalksAscend ==
    ASSUME Layout, NEW with, Walks(with), NEW c \in 1..tree.size
    PROVE  Ascending(with[c], Below(c))
<1> DEFINE n == tree.size
           Right == {k \in 1..n : Ascending(with[k], Below(k))}
<1>1. Shape /\ n \in Nat /\ 1..n \subseteq Con
  BY TreeNumbers DEF Layout
<1>2. ASSUME NEW m \in 1..n, \A k \in (m + 1)..n : k \in Right PROVE m \in Right
  <2>1. ASSUME NEW k \in Kids(m) PROVE Ascending(with[k], Below(k))
    <3>1. k \in (m + 1)..n
      BY <1>1, TreeNumbers DEF Kids
    <3> QED
      BY <1>2, <3>1
  <2>2. with[m] = <<m>> \o Collected(with, m)
    BY <1>1 DEF Walks
  <2>3. Ascending(with[m], Below(m))
    BY <2>1, <2>2, CollectedStep
  <2> QED
    BY <2>3
<1>3. 1..n \subseteq Right
  <2> HIDE DEF Right, n
  <2> QED
    BY <1>1, <1>2, DownFrom
<1> QED
  BY <1>3

\* A function that obeys it: the cons below each con in order.
LEMMA WalksExist == ASSUME Layout PROVE \E with : Walks(with)
<1> DEFINE with == [k \in Con |-> IF k \in 1..tree.size THEN InOrder(Below(k)) ELSE <<k>>]
<1>1. Shape /\ tree.size \in Nat /\ 1..tree.size \subseteq Con /\ Con \subseteq Nat
  BY TreeNumbers DEF Layout, Con
<1>2. ASSUME NEW k \in 1..tree.size PROVE Ascending(with[k], Below(k))
  <2>1. Below(k) \subseteq Nat /\ Below(k) \subseteq Con
    BY <1>1 DEF Below
  <2> QED
    BY <1>1, <2>1, AliveFinite, InOrderAscending
<1> HIDE DEF with
<1>3. ASSUME NEW k \in Con PROVE with[k] = <<k>> \o Collected(with, k)
  <2>1. CASE k \in 1..tree.size
    <3>1. \A j \in Kids(k) : Ascending(with[j], Below(j))
      BY <1>1, <1>2 DEF Kids
    <3>2. Ascending(<<k>> \o Collected(with, k), Below(k))
      BY <2>1, <3>1, CollectedStep
    <3> QED
      BY <1>2, <2>1, <3>2, AscendingUnique
  <2>2. CASE k \notin 1..tree.size
    <3>1. Children(k) = <<>>
      BY <2>2, NoChildren
    <3>2. [i \in DOMAIN Children(k) |-> with[Children(k)[i]]] = <<>>
      BY <3>1
    <3>3. Collected(with, k) = <<>>
      BY <3>2 DEF Collected, Walked, FlattenSeq
    <3>4. with[k] = <<k>>
      BY <2>2 DEF with
    <3> QED
      BY <3>3, <3>4
  <2> QED
    BY <2>1, <2>2
<1>4. with = [k \in Con |-> with[k]]
  BY DEF with
<1> QED
  BY <1>3, <1>4 DEF Walks

LEMMA DescendentsAscending ==
    ASSUME Layout, NEW c \in 1..tree.size
    PROVE  Ascending(i3ipc_con_descendents(c), Below(c) \ {c})
<1> DEFINE with == CHOOSE f : Walks(f)
<1>1. Walks(with)
  BY WalksExist
<1>2. i3ipc_con_descendents(c) = Tail(with[c])
  BY DEF i3ipc_con_descendents, Walks, Collected, Walked
<1> HIDE DEF with
<1>3. c \in Con /\ with[c] = <<c>> \o Collected(with, c)
  BY <1>1, TreeNumbers DEF Layout, Walks
<1>4. \A k \in Kids(c) : Ascending(with[k], Below(k))
  <2>1. Kids(c) \subseteq 1..tree.size
    BY TreeNumbers DEF Layout, Kids
  <2> QED
    BY <1>1, <2>1, WalksAscend
<1>5. Ascending(Collected(with, c), Below(c) \ {c})
  BY <1>4, CollectedStep
<1>6. Tail(<<c>> \o Collected(with, c)) = Collected(with, c)
  <2>1. Collected(with, c) \in Seq(Nat) /\ c \in Nat
    BY <1>5, SeqMonotonic, TreeNumbers DEF Ascending, Layout
  <2> HIDE DEF Collected
  <2> QED
    BY <2>1
<1> QED
  BY <1>2, <1>3, <1>5, <1>6

-----------------------------------------------------------------------------
(* The pointers to the parents.                                            *)

\* priv->parent is the con whose list has the con, while that con exists.
Pointers == \A c \in Con : parent[c] = IF c \in Owned THEN tree.up[c] ELSE Null

WalkInv == TreeInv /\ Layout /\ Pointers

LEMMA WalkInit == ASSUME Init PROVE WalkInv
<1>1. TreeInv
  BY TreeInit
<1>2. PICK n \in 1..MaxCons : \E up \in [2..n -> 1..n], floating \in SUBSET (2..n) :
          /\ InCreationOrder(n, up, floating)
          /\ \E type, name : tree = [size |-> n, up |-> up, floating |-> floating,
                                     type |-> type, name |-> name]
  BY DEF Init
<1>3. InCreationOrder(tree.size, tree.up, tree.floating)
  BY <1>2
<1>4. TreeOfI3
  BY DEF Init
<1>5. Pointers
  <2>1. \A c \in 2..tree.size : tree.up[c] \in Con
    BY <1>1, TreeNumbers DEF TreeInv
  <2>2. Owned = {}
    BY <2>1 DEF Init, Owned, Alive
  <2> QED
    BY <2>2 DEF Init, Pointers
<1> QED
  BY <1>1, <1>3, <1>4, <1>5 DEF WalkInv, Layout, TreeInv

LEMMA LayoutKept == ASSUME Layout, tree' = tree PROVE Layout'
BY DEF Layout, Shape, Reply, Types, Names, InCreationOrder, Enclosing, TreeOfI3, Below

LEMMA PointersNew == ASSUME WalkInv, i3ipc_con_new PROVE Pointers'
<1>1. /\ tree' = tree /\ \A c \in Con : refs'[c] = IF c <= tree.size THEN 1 ELSE 0
      /\ parent' = [c \in Con |-> IF c \in 2..tree.size THEN tree.up[c] ELSE Null]
  BY DEF i3ipc_con_new
<1>2. \A c \in 2..tree.size : tree.up[c] \in 1..tree.size /\ tree.up[c] \in Con
  BY TreeNumbers DEF WalkInv, Layout
<1>3. \A c \in 2..tree.size : refs'[tree.up[c]] > 0
  BY <1>1, <1>2
<1>4. Owned' = 2..tree.size
  BY <1>1, <1>3 DEF Owned, Alive
<1> QED
  BY <1>1, <1>4 DEF Pointers, Con

LEMMA PointersRelease == ASSUME WalkInv, ReleaseOne PROVE Pointers'
<1> USE DEF WalkInv
<1> DEFINE c == Head(pending)
<1>1. /\ pending # <<>> /\ refs' = [refs EXCEPT ![c] = @ - 1]
      /\ refs[c] > 1 => parent' = parent /\ connRefs' = connRefs
      /\ ~(refs[c] > 1) => parent' = ParentsWithout(c)
      /\ UNCHANGED <<tree, built, held, connHeld>>
  BY DEF ReleaseOne
<1>2. c \in Queued /\ c \in Con
  <2>1. c \in Queued /\ Queued \subseteq 1..tree.size
    BY <1>1, ListWithoutHead DEF Releasing, TreeInv
  <2> QED
    BY <2>1, TreeNumbers DEF Layout
<1> HIDE DEF c
<1>3. /\ refs \in [Con -> Nat]
      /\ refs[c] = One(c, held) + One(c, Owned) + One(c, Queued)
      /\ \A k \in Con : refs'[k] = IF k = c THEN refs[k] - 1 ELSE refs[k]
  BY <1>1, <1>2 DEF TreeInv, Counted
<1>4. \A k \in 2..tree.size : tree.up[k] \in Con
  BY TreeNumbers DEF Layout
<1>5. CASE refs[c] > 1
  <2>1. \A k \in Con : refs'[k] > 0 <=> refs[k] > 0
    BY <1>2, <1>3, <1>5
  <2>2. Owned' = Owned
    BY <1>1, <1>4, <2>1 DEF Owned, Alive
  <2> QED
    BY <1>1, <1>5, <2>2 DEF Pointers, Con
<1>6. CASE ~(refs[c] > 1)
  <2>1. refs[c] = 1 /\ c \notin Owned
    BY <1>2, <1>3, <1>6 DEF One
  <2>2. \A k \in Con : refs'[k] > 0 <=> refs[k] > 0 /\ k # c
    BY <1>2, <1>3, <2>1
  <2>3. \A k : k \in Owned' <=> k \in Owned /\ tree.up[k] # c
    BY <1>1, <1>4, <2>2 DEF Owned, Alive
  <2>4. \A k \in Con : parent'[k] = IF k = c \/ parent[k] = c THEN Null ELSE parent[k]
    BY <1>1, <1>6 DEF ParentsWithout
  <2>5. \A k \in Con : parent[k] = IF k \in Owned THEN tree.up[k] ELSE Null
    BY DEF Pointers
  <2>6. c # Null
    BY <1>2 DEF Con, Null
  <2>7. ASSUME NEW k \in Con
        PROVE  parent'[k] = IF k \in Owned' THEN tree.up[k] ELSE Null
    BY <2>1, <2>3, <2>4, <2>5, <2>6
  <2> QED
    BY <1>1, <2>7 DEF Pointers, Con, Null
<1> QED
  BY <1>5, <1>6

LEMMA WalkStep == WalkInv /\ [Next]_vars => WalkInv'
<1> SUFFICES ASSUME WalkInv, [Next]_vars PROVE WalkInv'
  OBVIOUS
<1>1. TreeInv'
  BY TreeStep DEF WalkInv
<1>2. tree' = tree
  BY DEF Next, vars, i3ipc_con_new, Ref, Unref, UnrefConnection, ReleaseOne
<1>3. Layout'
  BY <1>2, LayoutKept DEF WalkInv
<1>4. Pointers'
  <2>1. \A k \in 2..tree.size : tree.up[k] \in Con
    BY TreeNumbers DEF WalkInv, Layout
  <2>2. ASSUME parent' = parent, \A k \in Con : refs'[k] > 0 <=> refs[k] > 0
        PROVE  Pointers'
    <3>1. Owned' = Owned
      BY <1>2, <2>1, <2>2 DEF Owned, Alive
    <3> QED
      BY <1>2, <2>2, <3>1 DEF WalkInv, Pointers, Con
  <2>3. CASE i3ipc_con_new
    BY <2>3, PointersNew
  <2>4. ASSUME NEW c \in Con, Ref(c) PROVE Pointers'
    <3>1. refs \in [Con -> Nat] /\ refs' = [refs EXCEPT ![c] = @ + 1]
          /\ refs[c] > 0 /\ parent' = parent
      BY <2>4 DEF WalkInv, TreeInv, Counted, Ref, Alive
    <3> QED
      BY <2>2, <3>1
  <2>5. CASE (\E c \in Con : Unref(c)) \/ UnrefConnection \/ UNCHANGED vars
    <3>1. parent' = parent /\ refs' = refs
      BY <2>5 DEF Unref, UnrefConnection, vars
    <3> QED
      BY <2>2, <3>1
  <2>6. CASE ReleaseOne
    BY <2>6, PointersRelease
  <2> QED
    BY <2>3, <2>4, <2>5, <2>6 DEF Next
<1> QED
  BY <1>1, <1>3, <1>4 DEF WalkInv

LEMMA WalkInvariant == Spec => []WalkInv
BY WalkInit, WalkStep, PTL DEF Spec

-----------------------------------------------------------------------------
(* Up the tree.                                                            *)

LEMMA OwnedIsAlive ==
    ASSUME TreeInv, NEW c \in Con
    PROVE  /\ c \in Owned => Alive(c)
           /\ Alive(c) => c \in 1..tree.size
<1>1. /\ refs[c] = One(c, held) + One(c, Owned) + One(c, Queued)
      /\ held \subseteq 1..tree.size /\ Queued \subseteq 1..tree.size
  BY DEF TreeInv, Counted, Releasing
<1>2. Owned \subseteq 1..tree.size
  BY TreeNumbers DEF TreeInv, Owned
<1>3. c \in Owned => refs[c] > 0
  BY <1>1 DEF One
<1>4. refs[c] > 0 => c \in held \/ c \in Owned \/ c \in Queued
  BY <1>1 DEF One
<1>5. c \in held \/ c \in Owned \/ c \in Queued => c \in 1..tree.size
  BY <1>1, <1>2
<1> QED
  BY <1>3, <1>4, <1>5 DEF Alive

\* Where a con exists, all below it exists and points to its parent.
LEMMA AliveBelow ==
    ASSUME WalkInv, NEW c \in 1..tree.size, Alive(c), NEW k \in Below(c)
    PROVE  /\ k \in 1..tree.size /\ Alive(k)
           /\ k # c => k \in Owned /\ parent[k] = tree.up[k]
<1> DEFINE Good == {j \in 1..tree.size : j \in Below(c) => Alive(j)}
<1>1. /\ TreeInv /\ Shape /\ tree.size \in Nat /\ 1..tree.size \subseteq Con
      /\ k \in 1..tree.size
  BY TreeNumbers DEF WalkInv, Layout, Below
<1>2. ASSUME NEW j \in Below(c), j # c
      PROVE  j \in 2..tree.size /\ tree.up[j] \in Below(c) /\ tree.up[j] < j
  <2>1. j \in 1..tree.size /\ c \in Around(j) /\ j # 1
    BY <1>1, <1>2, AroundTop DEF Below, Around
  <2>2. j \in 2..tree.size
    BY <1>1, <2>1
  <2> QED
    BY <1>1, <1>2, <2>1, <2>2, AroundSplit, TreeNumbers DEF Below, Around
<1>3. 1..tree.size \subseteq Good
  <2>1. ASSUME NEW j \in 1..tree.size, \A i \in 1..(j - 1) : i \in Good PROVE j \in Good
    <3>1. SUFFICES ASSUME j \in Below(c), j # c PROVE Alive(j)
      OBVIOUS
    <3>2. j \in 2..tree.size /\ tree.up[j] \in Below(c) /\ tree.up[j] \in 1..(j - 1)
      BY <1>1, <1>2, <3>1, TreeNumbers
    <3>3. j \in Owned
      BY <2>1, <3>2 DEF Owned
    <3> QED
      BY <1>1, <3>3, OwnedIsAlive
  <2> HIDE DEF Good
  <2> QED
    BY <1>1, <2>1, UpTo
<1>4. k # c => k \in Owned
  BY <1>1, <1>2, <1>3 DEF Owned, Below
<1> QED
  BY <1>1, <1>3, <1>4 DEF WalkInv, Pointers

\* A loop that follows pointers to smaller numbers until it is told to stop
\* comes to an end: the recursion that models it has a solution.
Climbs(f, n, next, end) == f = [k \in 1..n |-> IF next[k] = Null THEN end[k] ELSE f[next[k]]]

LEMMA ClimbEnds ==
    ASSUME NEW n \in Nat, NEW next, NEW end, \A k \in 1..n : next[k] = Null \/ next[k] \in 1..(k - 1)
    PROVE  \E f : Climbs(f, n, next, end)
<1> DEFINE Good == {m \in 1..n : \E f : Climbs(f, m, next, end)}
<1>1. \E f : Climbs(f, 0, next, end)
  <2>1. Climbs([k \in 1..0 |-> 0], 0, next, end)
    BY DEF Climbs
  <2> QED
    BY <2>1
<1>2. ASSUME NEW m \in 1..n, \A k \in 1..(m - 1) : k \in Good PROVE m \in Good
  <2>1. m - 1 = 0 \/ m - 1 \in 1..(m - 1)
    OBVIOUS
  <2>2. PICK f : Climbs(f, m - 1, next, end)
    BY <1>1, <1>2, <2>1
  <2> DEFINE last == IF next[m] = Null THEN end[m] ELSE f[next[m]]
             g == [k \in 1..m |-> IF k = m THEN last ELSE f[k]]
  <2>3. ASSUME NEW k \in 1..m
        PROVE  g[k] = IF next[k] = Null THEN end[k] ELSE g[next[k]]
    <3>1. k \in 1..n /\ (next[k] = Null \/ next[k] \in 1..(k - 1))
      OBVIOUS
    <3>2. next[k] # Null => next[k] \in 1..m /\ next[k] # m
      BY <3>1
    <3>3. k # m => f[k] = IF next[k] = Null THEN end[k] ELSE f[next[k]]
      BY <2>2 DEF Climbs
    <3> QED
      BY <3>2, <3>3
  <2>4. g = [k \in 1..m |-> g[k]]
    OBVIOUS
  <2> HIDE DEF g
  <2>5. Climbs(g, m, next, end)
    BY <2>3, <2>4 DEF Climbs
  <2> QED
    BY <2>5
<1>3. 1..n \subseteq Good
  <2> HIDE DEF Good
  <2> QED
    BY <1>2, UpTo
<1>4. n = 0 \/ n \in 1..n
  OBVIOUS
<1> QED
  BY <1>1, <1>3, <1>4

LEMMA PointersUp ==
    ASSUME WalkInv, NEW k \in Con
    PROVE  /\ parent[k] = Null \/ parent[k] \in 1..(k - 1)
           /\ parent[k] # Null => /\ k \in 2..tree.size /\ parent[k] = tree.up[k]
                                  /\ parent[k] \in 1..tree.size /\ Alive(parent[k])
           /\ parent[k] = Null => k \notin Owned
<1>1. \A j \in Owned : /\ j \in 2..tree.size /\ Alive(tree.up[j])
                       /\ tree.up[j] \in 1..(j - 1) /\ tree.up[j] \in 1..tree.size
  BY TreeNumbers DEF WalkInv, Layout, Owned
<1>2. parent[k] = IF k \in Owned THEN tree.up[k] ELSE Null
  BY DEF WalkInv, Pointers
<1> QED
  BY <1>1, <1>2 DEF Null

LEMMA RootUnfold ==
    ASSUME WalkInv, NEW c \in Con
    PROVE  i3ipc_con_root(c) = IF parent[c] = Null THEN c ELSE i3ipc_con_root(parent[c])
<1> DEFINE Tops(f) == f = [k \in Con |-> IF parent[k] = Null THEN k ELSE f[parent[k]]]
           top == CHOOSE f : Tops(f)
           self == [k \in Con |-> k]
<1>1. \E f : Tops(f)
  <2>1. \A k \in 1..MaxCons : parent[k] = Null \/ parent[k] \in 1..(k - 1)
    BY PointersUp DEF Con
  <2>2. PICK f : Climbs(f, MaxCons, parent, self)
    <3> HIDE DEF self
    <3> QED
      BY <2>1, ClimbEnds, BoundsAssumption
  <2>3. Tops(f)
    <3>1. f = [k \in Con |-> IF parent[k] = Null THEN self[k] ELSE f[parent[k]]]
      BY <2>2 DEF Climbs, Con
    <3> QED
      BY <3>1
  <2> QED
    BY <2>3
<1>2. Tops(top)
  <2> HIDE DEF Tops
  <2> QED
    BY <1>1
<1>3. \A k : i3ipc_con_root(k) = top[k]
  BY DEF i3ipc_con_root
<1> HIDE DEF top
<1>4. top[c] = IF parent[c] = Null THEN c ELSE top[parent[c]]
  BY <1>2
<1> QED
  BY <1>3, <1>4

\* The loop of i3ipc_con_root ends on a con that exists, contains c, and has no
\* parent.
LEMMA RootOf ==
    ASSUME WalkInv, NEW c \in 1..tree.size, Alive(c)
    PROVE  LET r == i3ipc_con_root(c)
           IN  /\ r \in 1..tree.size /\ Alive(r) /\ parent[r] = Null
               /\ r \in Around(c) /\ c \in Below(r)
<1> DEFINE Good(k) == LET r == i3ipc_con_root(k)
                      IN  /\ r \in 1..tree.size /\ Alive(r) /\ parent[r] = Null
                          /\ r \in Around(k)
           Right == {k \in 1..tree.size : Alive(k) => Good(k)}
<1>1. /\ Shape /\ tree.size \in Nat /\ 1..tree.size \subseteq Con
  BY TreeNumbers DEF WalkInv, Layout
<1>2. ASSUME NEW k \in 1..tree.size, \A j \in 1..(k - 1) : j \in Right PROVE k \in Right
  <2>1. SUFFICES ASSUME Alive(k) PROVE Good(k)
    OBVIOUS
  <2>2. k \in Con
    BY <1>1
  <2>3. CASE parent[k] = Null
    <3>1. i3ipc_con_root(k) = k
      BY <2>2, <2>3, RootUnfold
    <3> QED
      BY <1>1, <2>1, <2>3, <3>1, AroundFirst
  <2>4. CASE parent[k] # Null
    <3> DEFINE p == tree.up[k]
    <3>1. k \in 2..tree.size /\ parent[k] = p /\ p \in 1..(k - 1) /\ Alive(p)
      BY <2>2, <2>4, PointersUp
    <3>2. Good(p)
      BY <1>2, <3>1
    <3>3. i3ipc_con_root(k) = i3ipc_con_root(p)
      BY <2>2, <2>4, <3>1, RootUnfold
    <3>4. Around(p) \subseteq Around(k)
      BY <1>1, <3>1, AroundSplit
    <3> QED
      BY <3>2, <3>3, <3>4
  <2> QED
    BY <2>3, <2>4
<1>3. 1..tree.size \subseteq Right
  <2> HIDE DEF Right
  <2> QED
    BY <1>1, <1>2, UpTo
<1>4. Good(c)
  BY <1>3
<1> QED
  BY <1>4 DEF Below, Around

LEMMA WorkspaceUnfold ==
    ASSUME WalkInv, NEW c \in Con
    PROVE  i3ipc_con_workspace(c) =
               IF parent[c] = Null \/ tree.type[parent[c]] = "workspace"
               THEN parent[c] ELSE i3ipc_con_workspace(parent[c])
<1> DEFINE Closest(f) == f = [k \in Con |->
                                 IF parent[k] = Null \/ tree.type[parent[k]] = "workspace"
                                 THEN parent[k] ELSE f[parent[k]]]
           closest == CHOOSE f : Closest(f)
           next == [k \in Con |-> IF parent[k] = Null \/ tree.type[parent[k]] = "workspace"
                                  THEN Null ELSE parent[k]]
<1>1. \E f : Closest(f)
  <2>1. \A k \in 1..MaxCons : next[k] = Null \/ next[k] \in 1..(k - 1)
    BY PointersUp DEF Con
  <2>2. PICK f : Climbs(f, MaxCons, next, parent)
    <3> HIDE DEF next
    <3> QED
      BY <2>1, ClimbEnds, BoundsAssumption
  <2>3. f = [k \in Con |-> IF next[k] = Null THEN parent[k] ELSE f[next[k]]]
    BY <2>2 DEF Climbs, Con
  <2>4. \A k \in Con : f[k] = IF parent[k] = Null \/ tree.type[parent[k]] = "workspace"
                              THEN parent[k] ELSE f[parent[k]]
    BY <2>3
  <2>5. f = [k \in Con |-> f[k]]
    BY <2>3
  <2> HIDE DEF next
  <2>6. Closest(f)
    BY <2>4, <2>5
  <2> QED
    BY <2>6
<1>2. Closest(closest)
  <2> HIDE DEF Closest
  <2> QED
    BY <1>1
<1>3. \A k : i3ipc_con_workspace(k) = closest[k]
  BY DEF i3ipc_con_workspace
<1> HIDE DEF closest
<1>4. closest[c] = IF parent[c] = Null \/ tree.type[parent[c]] = "workspace"
                   THEN parent[c] ELSE closest[parent[c]]
  BY <1>2
<1> QED
  BY <1>3, <1>4

\* i3ipc_con_workspace finds nothing or a con that exists and contains c.
LEMMA WorkspaceOf ==
    ASSUME WalkInv, NEW c \in 1..tree.size, Alive(c), i3ipc_con_workspace(c) # Null
    PROVE  LET w == i3ipc_con_workspace(c)
           IN  w \in 1..tree.size /\ Alive(w) /\ w \in Around(c)
<1> DEFINE Good(k) == LET w == i3ipc_con_workspace(k)
                      IN  w # Null => w \in 1..tree.size /\ Alive(w) /\ w \in Around(k)
           Right == {k \in 1..tree.size : Alive(k) => Good(k)}
<1>1. /\ Shape /\ tree.size \in Nat /\ 1..tree.size \subseteq Con
  BY TreeNumbers DEF WalkInv, Layout
<1>2. ASSUME NEW k \in 1..tree.size, \A j \in 1..(k - 1) : j \in Right PROVE k \in Right
  <2> DEFINE p == tree.up[k]
  <2>1. SUFFICES ASSUME Alive(k), i3ipc_con_workspace(k) # Null PROVE Good(k)
    OBVIOUS
  <2>2. k \in Con
    BY <1>1
  <2>3. parent[k] # Null
    BY <2>1, <2>2, WorkspaceUnfold
  <2>4. k \in 2..tree.size /\ parent[k] = p /\ p \in 1..(k - 1) /\ p \in 1..tree.size /\ Alive(p)
    BY <2>2, <2>3, PointersUp
  <2>5. Around(p) \subseteq Around(k) /\ p \in Around(p)
    BY <1>1, <2>4, AroundSplit, AroundFirst
  <2>6. Good(p)
    BY <1>2, <2>4
  <2>7. i3ipc_con_workspace(k) = p \/ i3ipc_con_workspace(k) = i3ipc_con_workspace(p)
    BY <2>2, <2>3, <2>4, WorkspaceUnfold
  <2> QED
    BY <2>4, <2>5, <2>6, <2>7
<1>3. 1..tree.size \subseteq Right
  <2> HIDE DEF Right
  <2> QED
    BY <1>1, <1>2, UpTo
<1>4. Good(c)
  BY <1>3
<1> QED
  BY <1>4

-----------------------------------------------------------------------------
(* i3ipc_con_workspaces.                                                   *)

Listed == {k \in 1..tree.size : IsListedWorkspace(k)}

\* No workspace is lost because the loop looks at nodes only: floating_nodes are
\* in a workspace, which has none below it.
LEMMA ListedBelow ==
    ASSUME Layout, NEW c \in 1..tree.size
    PROVE  /\ BelowAny(NodesOf(c), Listed) = (Below(c) \ {c}) \cap Listed
           /\ c \in Listed => Below(c) \cap Listed = {c}
<1>1. /\ Shape /\ TreeOfI3 /\ tree.floating \subseteq 2..tree.size
      /\ c \in Below(c) /\ Below(c) \ {c} = UNION {Below(k) : k \in Kids(c)}
  BY TreeNumbers, BelowMembers DEF Layout
<1>2. NodesOf(c) \subseteq Kids(c)
  BY DEF NodesOf, Kids
<1>3. ASSUME NEW x \in (Below(c) \ {c}) \cap Listed PROVE \E k \in NodesOf(c) : x \in Below(k)
  <2>1. PICK k \in Kids(c) : x \in Below(k)
    BY <1>1
  <2>2. tree.type[x] = "workspace" /\ x \in Below(c) \ {c}
    BY DEF Listed, IsListedWorkspace
  <2>3. tree.type[c] # "workspace"
    BY <1>1, <2>2 DEF TreeOfI3
  <2>4. k \notin tree.floating
    BY <1>1, <2>3 DEF TreeOfI3, Kids
  <2> QED
    BY <2>1, <2>4 DEF NodesOf, Kids
<1>4. BelowAny(NodesOf(c), Listed) = (Below(c) \ {c}) \cap Listed
  BY <1>1, <1>2, <1>3 DEF BelowAny
<1>5. c \in Listed => Below(c) \cap Listed = {c}
  BY <1>1 DEF TreeOfI3, Listed, IsListedWorkspace
<1> QED
  BY <1>4, <1>5

\* What the callback gathers of c, if it does so of the nodes of c.
Gathered(f, c) == IF IsListedWorkspace(c) THEN <<c>> ELSE Walked(f, nodes(c))

LEMMA GatheredStep ==
    ASSUME Layout, NEW c \in 1..tree.size, NEW f,
           \A k \in Kids(c) : Ascending(f[k], Below(k) \cap Listed)
    PROVE  /\ Ascending(Walked(f, nodes(c)), (Below(c) \ {c}) \cap Listed)
           /\ Ascending(Gathered(f, c), Below(c) \cap Listed)
<1>1. /\ Shape /\ c \in Nat /\ NodesOf(c) \subseteq Kids(c)
      /\ Ascending(nodes(c), NodesOf(c))
  <2>1. NodesOf(c) \subseteq Kids(c)
    BY DEF NodesOf, Kids
  <2>2. Shape
    BY DEF Layout
  <2> QED
    BY <2>1, <2>2, TreeNumbers, ChildrenAscending
<1>2. Ascending(Walked(f, nodes(c)), (Below(c) \ {c}) \cap Listed)
  <2>1. Ascending(Walked(f, nodes(c)), BelowAny(NodesOf(c), Listed))
    BY <1>1, WalkOfList
  <2> QED
    BY <2>1, ListedBelow
<1>3. CASE c \in Listed
  <2>1. Gathered(f, c) = <<c>> /\ Below(c) \cap Listed = {c}
    BY <1>3, ListedBelow DEF Gathered, Listed
  <2> QED
    BY <1>1, <1>2, <2>1, AscendingFew
<1>4. CASE c \notin Listed
  <2>1. Gathered(f, c) = Walked(f, nodes(c)) /\ Below(c) \cap Listed = (Below(c) \ {c}) \cap Listed
    BY <1>4 DEF Gathered, Listed
  <2> QED
    BY <1>2, <2>1
<1> QED
  BY <1>3, <1>4

Gathers(collect) == collect = [k \in Con |-> Gathered(collect, k)]

LEMMA GathersAscend ==
    ASSUME Layout, NEW collect, Gathers(collect), NEW c \in 1..tree.size
    PROVE  Ascending(collect[c], Below(c) \cap Listed)
<1> DEFINE n == tree.size
           Right == {k \in 1..n : Ascending(collect[k], Below(k) \cap Listed)}
<1>1. Shape /\ n \in Nat /\ 1..n \subseteq Con
  BY TreeNumbers DEF Layout
<1>2. ASSUME NEW m \in 1..n, \A k \in (m + 1)..n : k \in Right PROVE m \in Right
  <2>1. ASSUME NEW k \in Kids(m) PROVE Ascending(collect[k], Below(k) \cap Listed)
    <3>1. k \in (m + 1)..n
      BY <1>1, TreeNumbers DEF Kids
    <3> QED
      BY <1>2, <3>1
  <2>2. collect[m] = Gathered(collect, m)
    BY <1>1 DEF Gathers
  <2>3. Ascending(collect[m], Below(m) \cap Listed)
    BY <2>1, <2>2, GatheredStep
  <2> QED
    BY <2>3
<1>3. 1..n \subseteq Right
  <2> HIDE DEF Right, n
  <2> QED
    BY <1>1, <1>2, DownFrom
<1> QED
  BY <1>3

LEMMA GathersExist == ASSUME Layout PROVE \E collect : Gathers(collect)
<1> DEFINE collect == [k \in Con |-> IF k \in 1..tree.size THEN InOrder(Below(k) \cap Listed)
                                     ELSE IF IsListedWorkspace(k) THEN <<k>> ELSE <<>>]
<1>1. Shape /\ tree.size \in Nat /\ 1..tree.size \subseteq Con /\ Con \subseteq Nat
  BY TreeNumbers DEF Layout, Con
<1>2. ASSUME NEW k \in 1..tree.size PROVE Ascending(collect[k], Below(k) \cap Listed)
  <2>1. Below(k) \cap Listed \subseteq Nat /\ Below(k) \cap Listed \subseteq Con
    BY <1>1 DEF Below
  <2> QED
    BY <1>1, <2>1, AliveFinite, InOrderAscending
<1> HIDE DEF collect
<1>3. ASSUME NEW k \in Con PROVE collect[k] = Gathered(collect, k)
  <2>1. CASE k \in 1..tree.size
    <3>1. \A j \in Kids(k) : Ascending(collect[j], Below(j) \cap Listed)
      BY <1>1, <1>2 DEF Kids
    <3>2. Ascending(Gathered(collect, k), Below(k) \cap Listed)
      BY <2>1, <3>1, GatheredStep
    <3> QED
      BY <1>2, <2>1, <3>2, AscendingUnique
  <2>2. CASE k \notin 1..tree.size
    <3>1. nodes(k) = <<>>
      BY <2>2, NoChildren
    <3>2. [i \in DOMAIN nodes(k) |-> collect[nodes(k)[i]]] = <<>>
      BY <3>1
    <3>3. Walked(collect, nodes(k)) = <<>>
      BY <3>2 DEF Walked, FlattenSeq
    <3>4. collect[k] = IF IsListedWorkspace(k) THEN <<k>> ELSE <<>>
      BY <2>2 DEF collect
    <3> QED
      BY <3>3, <3>4 DEF Gathered
  <2> QED
    BY <2>1, <2>2
<1>4. collect = [k \in Con |-> collect[k]]
  BY DEF collect
<1> QED
  BY <1>3, <1>4 DEF Gathers

LEMMA WorkspacesAscending ==
    ASSUME WalkInv, NEW c \in 1..tree.size, Alive(c)
    PROVE  LET r == i3ipc_con_root(c)
           IN  Ascending(i3ipc_con_workspaces(c), (Below(r) \ {r}) \cap Listed)
<1> DEFINE collect == CHOOSE f : Gathers(f)
           r == i3ipc_con_root(c)
<1>1. Gathers(collect)
  BY GathersExist DEF WalkInv
<1>2. i3ipc_con_workspaces(c) = Walked(collect, nodes(r))
  BY DEF i3ipc_con_workspaces, Gathers, Gathered, Walked
<1> HIDE DEF collect
<1>3. r \in 1..tree.size
  BY RootOf
<1>4. \A k \in Kids(r) : Ascending(collect[k], Below(k) \cap Listed)
  <2>1. Kids(r) \subseteq 1..tree.size
    BY TreeNumbers DEF WalkInv, Layout, Kids
  <2> QED
    BY <1>1, <2>1, GathersAscend DEF WalkInv
<1> HIDE DEF r
<1>5. Ascending(Walked(collect, nodes(r)), (Below(r) \ {r}) \cap Listed)
  BY <1>3, <1>4, GatheredStep DEF WalkInv
<1> QED
  BY <1>2, <1>5 DEF r

-----------------------------------------------------------------------------
(* What the walks find.                                                    *)

LEMMA AscendingHead ==
    ASSUME NEW S, NEW s, Ascending(s, S), S # {}
    PROVE  s # <<>> /\ Head(s) \in S /\ \A x \in S : Head(s) <= x
<1>1. s \in Seq(S) /\ Len(s) \in Nat /\ \A i \in 1..Len(s) : s[i] \in S /\ s[i] \in Nat
  BY ElementOfSeq, LenProperties DEF Ascending
<1>2. Len(s) # 0 /\ 1 \in 1..Len(s)
  <2>1. PICK x \in S : TRUE
    OBVIOUS
  <2>2. PICK i \in 1..Len(s) : s[i] = x
    BY DEF Ascending
  <2> QED
    BY <1>1, <2>2
<1>3. s # <<>> /\ Head(s) = s[1]
  BY <1>1, <1>2, EmptySeq
<1>4. ASSUME NEW x \in S PROVE s[1] <= x
  <2>1. PICK i \in 1..Len(s) : s[i] = x
    BY DEF Ascending
  <2>2. CASE i = 1
    BY <1>1, <1>2, <2>1, <2>2
  <2>3. CASE i # 1
    <3>1. 1 < i
      BY <1>1, <2>3
    <3>2. s[1] < s[i] /\ s[1] \in Nat /\ s[i] \in Nat
      BY <1>1, <1>2, <3>1 DEF Ascending
    <3> QED
      BY <2>1, <3>2
  <2> QED
    BY <2>2, <2>3
<1> QED
  BY <1>1, <1>2, <1>3, <1>4

LEMMA WalkableInTree ==
    ASSUME WalkInv, NEW c \in Walkable
    PROVE  c \in 1..tree.size /\ c \in Con /\ Alive(c) /\ pending = <<>>
BY OwnedIsAlive DEF WalkInv, Walkable

LEMMA InvRoot == WalkInv => RootReachesAll
<1> SUFFICES ASSUME WalkInv, NEW c \in Walkable
             PROVE  LET top == i3ipc_con_root(c)
                    IN  /\ Alive(top) /\ parent[top] = Null
                        /\ c = top \/ c \in Range(i3ipc_con_descendents(top))
  BY DEF RootReachesAll
<1> DEFINE top == i3ipc_con_root(c)
<1>1. top \in 1..tree.size /\ Alive(top) /\ parent[top] = Null /\ c \in Below(top)
  BY WalkableInTree, RootOf
<1> HIDE DEF top
<1>2. Ascending(i3ipc_con_descendents(top), Below(top) \ {top})
  BY <1>1, DescendentsAscending DEF WalkInv
<1>3. Range(i3ipc_con_descendents(top)) = Below(top) \ {top}
  BY <1>2, AscendingRange
<1> QED
  BY <1>1, <1>3 DEF top

LEMMA InvDescendents == WalkInv => DescendentsInReplyOrder
<1> SUFFICES ASSUME WalkInv, NEW c \in Walkable
             PROVE  i3ipc_con_descendents(c) = InOrder(Below(c) \ {c})
  BY DEF DescendentsInReplyOrder
<1>1. Ascending(i3ipc_con_descendents(c), Below(c) \ {c})
  BY WalkableInTree, DescendentsAscending DEF WalkInv
<1> QED
  BY <1>1, AscendingRange

\* The members at the places where the wanted cons are.
LEMMA FindFirstLeast ==
    ASSUME Layout, NEW c \in 1..tree.size, NEW wanted
    PROVE  LET S == (Below(c) \ {c}) \cap wanted
           IN  /\ S = {} => FindFirst(c, wanted) = Null
               /\ S # {} => /\ FindFirst(c, wanted) \in S
                            /\ \A x \in S : FindFirst(c, wanted) <= x
<1> DEFINE s == i3ipc_con_descendents(c)
           D == Below(c) \ {c}
           S == D \cap wanted
           found == {i \in DOMAIN s : s[i] \in wanted}
           first == Min(found)
<1>1. Ascending(s, D)
  BY DescendentsAscending
<1>2. FindFirst(c, wanted) = IF found = {} THEN Null ELSE s[first]
  BY DEF FindFirst
<1> HIDE DEF s, D, first
<1>3. /\ DOMAIN s = 1..Len(s) /\ Len(s) \in Nat
      /\ \A i \in 1..Len(s) : s[i] \in D /\ s[i] \in Nat
  BY <1>1, AscendingRange, ElementOfSeq DEF Ascending
<1>4. S = {s[i] : i \in found}
  BY <1>1, <1>3 DEF Ascending
<1>5. CASE found = {}
  <2>1. S = {}
    BY <1>4, <1>5
  <2> QED
    BY <1>2, <1>5, <2>1 DEF D
<1>6. CASE found # {}
  <2>1. first \in found /\ \A i \in found : first <= i
    <3>1. \E i \in found : \A j \in found : i <= j
      <4>1. found \subseteq 0..Len(s)
        BY <1>3
      <4> HIDE DEF found
      <4> QED
        BY <1>3, <1>6, <4>1, LeastUpTo
    <3>2. first = CHOOSE i \in found : \A j \in found : i <= j
      BY DEF first, Min
    <3> HIDE DEF found
    <3> QED
      BY <3>1, <3>2
  <2>2. ASSUME NEW x \in S PROVE s[first] <= x
    <3>1. PICK i \in found : s[i] = x
      BY <1>4
    <3>2. first \in 1..Len(s) /\ i \in 1..Len(s) /\ first <= i
      BY <1>3, <2>1
    <3>3. first = i \/ first < i
      BY <1>3, <3>2
    <3>4. first < i => s[first] < s[i]
      BY <1>1, <3>2 DEF Ascending
    <3>5. s[first] \in Nat /\ s[i] \in Nat
      BY <1>3, <3>2
    <3> QED
      BY <3>1, <3>3, <3>4, <3>5
  <2>3. s[first] \in S
    BY <1>4, <2>1
  <2>4. FindFirst(c, wanted) = s[first]
    BY <1>2, <1>6
  <2> HIDE DEF found
  <2> QED
    BY <2>2, <2>3, <2>4 DEF D
<1> QED
  BY <1>5, <1>6

LEMMA FindAllAscending ==
    ASSUME Layout, NEW c \in 1..tree.size, NEW wanted
    PROVE  Ascending(FindAll(c, wanted), (Below(c) \ {c}) \cap wanted)
BY DescendentsAscending, SelectAscending DEF FindAll

LEMMA InvSearches == WalkInv => SearchesAgree
<1> SUFFICES ASSUME WalkInv, NEW c \in Walkable, NEW wanted
             PROVE  /\ FindFirst(c, wanted) =
                           IF FindAll(c, wanted) = <<>> THEN Null ELSE Head(FindAll(c, wanted))
                    /\ FindAll(c, wanted) =
                           FindAll(i3ipc_con_root(c), wanted \cap (Below(c) \ {c}))
  BY DEF SearchesAgree
<1> DEFINE r == i3ipc_con_root(c)
           D == Below(c) \ {c}
           S == D \cap wanted
           all == FindAll(c, wanted)
           first == FindFirst(c, wanted)
<1>1. /\ c \in 1..tree.size /\ r \in 1..tree.size /\ r \in Around(c) /\ Layout /\ Shape
      /\ tree.size \in Nat
  BY WalkableInTree, RootOf, TreeNumbers DEF WalkInv, Layout
<1> HIDE DEF r
<1>2. Ascending(all, S)
  BY <1>1, FindAllAscending
<1>3. first = IF all = <<>> THEN Null ELSE Head(all)
  <2>1. /\ S = {} => first = Null
        /\ S # {} => first \in S /\ \A x \in S : first <= x
    BY <1>1, FindFirstLeast
  <2>2. S \subseteq Nat
    BY <1>2 DEF Ascending
  <2> HIDE DEF first, all
  <2>3. CASE S = {}
    <3>1. all = <<>>
      BY <1>2, <2>3, AscendingFew, AscendingUnique
    <3> QED
      BY <2>1, <2>3, <3>1
  <2>4. CASE S # {}
    <3>1. all # <<>> /\ Head(all) \in S /\ \A x \in S : Head(all) <= x
      BY <1>2, <2>4, AscendingHead
    <3> HIDE DEF S
    <3>2. first \in Nat /\ Head(all) \in Nat /\ first <= Head(all) /\ Head(all) <= first
      BY <2>1, <2>2, <2>4, <3>1
    <3>3. first = Head(all)
      BY <3>2
    <3> QED
      BY <3>1, <3>3
  <2> QED
    BY <2>3, <2>4
<1>4. D \subseteq Below(r) \ {r}
  <2>1. ASSUME NEW x \in D PROVE x \in Below(r) \ {r}
    <3>1. x \in c..tree.size /\ x # c
      BY <1>1, BelowMembers
    <3>2. r \in 1..c
      BY <1>1, AroundFirst
    <3>3. x \in 1..tree.size /\ c \in Around(x) /\ x # r
      BY <1>1, <3>1, <3>2 DEF Below, Around
    <3>4. r \in Around(x)
      BY <1>1, <3>3, AroundTransitive
    <3> QED
      BY <3>3, <3>4 DEF Below, Around
  <2> QED
    BY <2>1
<1>5. FindAll(r, wanted \cap D) = all
  <2>1. (Below(r) \ {r}) \cap (wanted \cap D) = S
    BY <1>4
  <2>2. Ascending(FindAll(r, wanted \cap D), (Below(r) \ {r}) \cap (wanted \cap D))
    BY <1>1, FindAllAscending
  <2> QED
    BY <1>2, <2>1, <2>2, AscendingUnique
<1> QED
  BY <1>3, <1>5 DEF r

\* A con without nodes has no floating_nodes either, unless it is a workspace.
LEMMA InvLeaves == WalkInv => LeavesAreLeaves
<1> SUFFICES ASSUME WalkInv, NEW c \in Walkable
             PROVE  i3ipc_con_leaves(c) =
                        InOrder({k \in Below(c) \ {c} :
                                    /\ tree.type[k] = "con"
                                    /\ Below(k) = {k}
                                    /\ tree.type[tree.up[k]] # "dockarea"})
  BY DEF LeavesAreLeaves
<1> DEFINE D == Below(c) \ {c}
           s == i3ipc_con_descendents(c)
           L == {k \in D : /\ tree.type[k] = "con"
                           /\ Below(k) = {k}
                           /\ tree.type[tree.up[k]] # "dockarea"}
<1>1. c \in 1..tree.size /\ Alive(c) /\ Layout /\ Shape
  BY WalkableInTree DEF WalkInv, Layout
<1>2. Ascending(s, D)
  BY <1>1, DescendentsAscending
<1>3. ASSUME NEW k \in D
      PROVE  IsLeaf(k) <=> /\ tree.type[k] = "con"
                           /\ Below(k) = {k}
                           /\ tree.type[tree.up[k]] # "dockarea"
  <2>1. k \in 1..tree.size /\ parent[k] = tree.up[k]
    BY <1>1, AliveBelow
  <2>2. nodes(k) = <<>> <=> NodesOf(k) = {}
    <3>1. Ascending(nodes(k), NodesOf(k))
      BY <1>1, ChildrenAscending
    <3>2. NodesOf(k) = {} => nodes(k) = <<>>
      BY <3>1, AscendingFew, AscendingUnique
    <3>3. NodesOf(k) # {} => nodes(k) # <<>>
      BY <3>1, AscendingHead
    <3> QED
      BY <3>2, <3>3
  <2>3. tree.type[k] = "con" => NodesOf(k) = Kids(k)
    <3>1. tree.floating \subseteq 2..tree.size /\ TreeOfI3
      BY <1>1, TreeNumbers DEF Layout
    <3>2. \A j \in tree.floating : tree.type[tree.up[j]] = "workspace"
      BY <3>1 DEF TreeOfI3
    <3> QED
      BY <3>1, <3>2 DEF NodesOf, Kids
  <2>4. Kids(k) = {} <=> Below(k) = {k}
    <3>1. k \in Below(k) /\ Below(k) \ {k} = UNION {Below(j) : j \in Kids(k)}
      BY <1>1, <2>1, BelowMembers
    <3>2. \A j \in Kids(k) : j \in Below(j)
      BY <1>1, TreeNumbers, BelowMembers DEF Kids
    <3> QED
      BY <3>1, <3>2
  <2> QED
    BY <2>1, <2>2, <2>3, <2>4 DEF IsLeaf
<1>4. i3ipc_con_leaves(c) = Select(s, {k \in Range(s) : IsLeaf(k)})
  BY DEF i3ipc_con_leaves
<1> HIDE DEF s, D
<1>5. D \cap {k \in Range(s) : IsLeaf(k)} = L
  <2>1. Range(s) = D
    BY <1>2, AscendingRange
  <2> QED
    BY <1>3, <2>1
<1> HIDE DEF L
<1>6. Ascending(i3ipc_con_leaves(c), L)
  BY <1>2, <1>4, <1>5, SelectAscending
<1>7. i3ipc_con_leaves(c) = InOrder(L)
  BY <1>6, AscendingRange
<1> QED
  BY <1>7 DEF L, D

LEMMA InvOwnWorkspace == WalkInv => OwnWorkspaceListed
<1> DEFINE w(c) == i3ipc_con_workspace(c)
           r(c) == i3ipc_con_root(c)
<1> SUFFICES ASSUME WalkInv, NEW c \in Walkable,
                    w(c) # Null, w(c) # r(c), IsListedWorkspace(w(c))
             PROVE  w(c) \in Range(i3ipc_con_workspaces(c))
  BY DEF OwnWorkspaceListed
<1>1. /\ c \in 1..tree.size /\ Alive(c) /\ Shape /\ tree.size \in Nat /\ TreeInv
      /\ 1..tree.size \subseteq Con
  BY WalkableInTree, TreeNumbers DEF WalkInv, Layout
<1>2. w(c) \in 1..tree.size /\ Alive(w(c)) /\ w(c) \in Around(c)
  BY <1>1, WorkspaceOf
<1>3. r(c) \in 1..tree.size /\ r(c) \in Around(c) /\ parent[r(c)] = Null
  BY <1>1, RootOf
<1>4. Ascending(i3ipc_con_workspaces(c), (Below(r(c)) \ {r(c)}) \cap Listed)
  BY <1>1, WorkspacesAscending
<1> HIDE DEF w, r
<1>5. r(c) \in Around(w(c))
  <2>1. CASE r(c) <= w(c)
    BY <1>1, <1>2, <1>3, <2>1, AroundChain
  <2>2. CASE ~(r(c) <= w(c))
    <3>1. w(c) <= r(c)
      BY <1>1, <1>2, <1>3, <2>2
    <3>2. w(c) \in Around(r(c))
      BY <1>1, <1>2, <1>3, <3>1, AroundChain
    <3>3. r(c) \in Below(w(c))
      BY <1>3, <3>2 DEF Below, Around
    <3>4. r(c) \in Owned
      BY <1>2, <3>3, AliveBelow
    <3>5. r(c) \in Con /\ r(c) \notin Owned
      BY <1>1, <1>3, PointersUp
    <3> QED
      BY <3>4, <3>5
  <2> QED
    BY <2>1, <2>2
<1>6. w(c) \in (Below(r(c)) \ {r(c)}) \cap Listed
  BY <1>2, <1>5 DEF Below, Around, Listed
<1> QED
  BY <1>4, <1>6, AscendingRange

\* In a complete tree the loop of i3ipc_con_root ends on the first con.
LEMMA CompleteRoot ==
    ASSUME WalkInv, NEW c \in 1..tree.size, Alive(c), 1 \in held
    PROVE  i3ipc_con_root(c) = 1
<1> DEFINE r == i3ipc_con_root(c)
           Good == {k \in 1..tree.size : 1 \in Around(k)}
<1>1. /\ Shape /\ tree.size \in Nat /\ 1 \in 1..tree.size /\ 1..tree.size \subseteq Con
      /\ r \in 1..tree.size /\ parent[r] = Null
  BY RootOf, TreeNumbers DEF WalkInv, Layout
<1> HIDE DEF r
<1>2. 1..tree.size \subseteq Good
  <2>1. ASSUME NEW k \in 1..tree.size, \A j \in 1..(k - 1) : j \in Good PROVE k \in Good
    <3>1. SUFFICES ASSUME k # 1 PROVE 1 \in Around(k)
      BY <1>1, AroundTop
    <3>2. k \in 2..tree.size
      BY <1>1, <3>1
    <3>3. tree.up[k] \in 1..(k - 1) /\ Around(tree.up[k]) \subseteq Around(k)
      BY <1>1, <3>2, AroundSplit, TreeNumbers
    <3> QED
      BY <2>1, <3>3
  <2> HIDE DEF Good
  <2> QED
    BY <1>1, <2>1, UpTo
<1>3. r \in Below(1)
  BY <1>1, <1>2 DEF Below, Around
<1>4. Alive(1)
  <2>1. refs[1] = One(1, held) + One(1, Owned) + One(1, Queued)
    BY <1>1 DEF WalkInv, TreeInv, Counted
  <2> QED
    BY <2>1 DEF One, Alive
<1>5. r # 1 => r \in Owned
  BY <1>1, <1>3, <1>4, AliveBelow
<1>6. r \in Con /\ r \notin Owned
  BY <1>1, PointersUp
<1> QED
  BY <1>5, <1>6 DEF r

\* i3ipc_con_scratchpad takes the only node with the name.
LEMMA NodeNamedOnly ==
    ASSUME Layout, NEW c \in 1..tree.size, NEW name, NEW k \in NodesOf(c), tree.name[k] = name,
           \A j \in NodesOf(c) : tree.name[j] = name => j = k
    PROVE  NodeNamed(c, name) = k
<1> DEFINE found == {j \in Range(nodes(c)) : tree.name[j] = name}
<1>1. c # Null /\ k \in Nat
  BY TreeNumbers DEF Null, Layout, NodesOf
<1>2. Range(nodes(c)) = NodesOf(c)
  BY ChildrenAscending, AscendingRange
<1>3. found = {k}
  BY <1>2
<1>4. NodeNamed(c, name) = IF found = {} THEN Null ELSE Min(found)
  BY <1>1 DEF NodeNamed
<1> HIDE DEF found
<1>5. Min({k}) = k
  BY <1>1 DEF Min
<1> QED
  BY <1>3, <1>4, <1>5

LEMMA InvScratchpad == WalkInv => ScratchpadFound
<1> DEFINE content(k) == tree.up[k]
           i3(k) == IF content(k) > 1 THEN tree.up[content(k)] ELSE Null
<1> SUFFICES ASSUME WalkInv, NEW c \in Walkable, NEW k \in 4..tree.size,
                    1 \in held,
                    {k, content(k), i3(k)} \cap (tree.floating \cup {1, Null}) = {},
                    tree.up[i3(k)] = 1,
                    tree.name[k] = "__i3_scratch", tree.name[content(k)] = "content",
                    \A j \in 1..tree.size : tree.name[j] = "__i3" <=> j = i3(k),
                    \A j \in Below(i3(k)) : tree.name[j] = "content" => j = content(k),
                    \A j \in Below(i3(k)) : tree.name[j] = "__i3_scratch" => j = k
             PROVE  i3ipc_con_scratchpad(c) = k
  BY DEF ScratchpadFound
<1>1. /\ c \in 1..tree.size /\ Alive(c) /\ Layout /\ Shape
      /\ tree.size \in Nat /\ 1 \in 1..tree.size
  BY WalkableInTree, TreeNumbers DEF WalkInv, Layout
<1>2. i3ipc_con_root(c) = 1
  BY <1>1, CompleteRoot
<1>3. k \in 2..tree.size /\ content(k) \in 2..tree.size /\ tree.name[k] = "__i3_scratch"
      /\ k \notin tree.floating /\ content(k) \notin tree.floating
  <2>1. k \in 2..tree.size
    BY <1>1
  <2>2. content(k) \in 1..tree.size /\ content(k) # 1
    BY <1>1, <2>1, TreeNumbers
  <2> QED
    BY <1>1, <2>1, <2>2
<1>4. /\ i3(k) = tree.up[content(k)] /\ i3(k) \in 2..tree.size /\ i3(k) \notin tree.floating
      /\ tree.name[i3(k)] = "__i3"
  <2>1. i3(k) = tree.up[content(k)]
    BY <1>3
  <2>2. i3(k) \in 1..tree.size /\ i3(k) # 1
    BY <1>1, <1>3, <2>1, TreeNumbers
  <2> QED
    BY <1>1, <2>1, <2>2
<1> HIDE DEF i3
<1>5. /\ i3(k) \in NodesOf(1) /\ content(k) \in NodesOf(i3(k)) /\ k \in NodesOf(content(k))
  BY <1>3, <1>4 DEF NodesOf
<1> HIDE DEF content
<1>6. \A a \in 1..tree.size : Kids(a) \subseteq Below(a) /\ NodesOf(a) \subseteq Kids(a)
                              /\ \A b \in Kids(a) : Below(b) \subseteq Below(a)
  <2>1. ASSUME NEW a \in 1..tree.size, NEW b \in Kids(a)
        PROVE  b \in Below(a) /\ Below(b) \subseteq Below(a)
    <3>1. b \in 1..tree.size
      BY <1>1 DEF Kids
    <3> QED
      BY <1>1, <3>1, BelowMembers
  <2> QED
    BY <2>1 DEF NodesOf, Kids
<1>7. i3(k) \in 1..tree.size /\ content(k) \in 1..tree.size
  BY <1>1, <1>3, <1>4
<1>8. NodesOf(i3(k)) \subseteq Below(i3(k)) /\ NodesOf(content(k)) \subseteq Below(i3(k))
  BY <1>5, <1>6, <1>7
<1>9. NodeNamed(1, "__i3") = i3(k)
  <2>1. \A j \in NodesOf(1) : j \in 1..tree.size
    BY <1>1 DEF NodesOf
  <2> QED
    BY <1>1, <1>4, <1>5, <2>1, NodeNamedOnly
<1>10. NodeNamed(i3(k), "content") = content(k)
  BY <1>1, <1>5, <1>7, <1>8, NodeNamedOnly
<1>11. NodeNamed(content(k), "__i3_scratch") = k
  BY <1>1, <1>3, <1>5, <1>7, <1>8, NodeNamedOnly
<1> QED
  BY <1>2, <1>9, <1>10, <1>11 DEF i3ipc_con_scratchpad

\* i3ipc_con_root ends on the top of what is left of a tree, and
\* i3ipc_con_descendents leads from there to where it began, for every tree and
\* whatever has been released of it.
THEOREM RootsReachAll == Spec => []RootReachesAll
BY WalkInvariant, InvRoot, PTL

\* i3ipc_con_descendents lists exactly what is below a con, each con once, in
\* the order of the reply.
THEOREM DescendentsAreListed == Spec => []DescendentsInReplyOrder
BY WalkInvariant, InvDescendents, PTL

\* i3ipc_con_find_focused and its like find the first of what
\* i3ipc_con_find_named and its like find, from every con that is left.
THEOREM AllSearchesAgree == Spec => []SearchesAgree
BY WalkInvariant, InvSearches, PTL

\* i3ipc_con_leaves lists the cons without children outside dock areas, in the
\* order of the reply, and the parent it reads is there.
THEOREM LeavesAreListed == Spec => []LeavesAreLeaves
BY WalkInvariant, InvLeaves, PTL

\* What i3ipc_con_workspace finds, i3ipc_con_workspaces lists, whatever is left
\* of the tree.
THEOREM OwnWorkspacesAreListed == Spec => []OwnWorkspaceListed
BY WalkInvariant, InvOwnWorkspace, PTL

\* i3ipc_con_scratchpad finds the scratchpad of every complete tree that has
\* one where i3 puts it.
THEOREM ScratchpadsAreFound == Spec => []ScratchpadFound
BY WalkInvariant, InvScratchpad, PTL

\* i3ipc_con_workspaces lists exactly the workspaces below the top of what is
\* left, but for i3's own, each once and in the order of the reply.
WorkspacesInReplyOrder ==
    \A c \in Walkable :
        LET top == i3ipc_con_root(c)
        IN  i3ipc_con_workspaces(c) = InOrder({k \in Below(top) \ {top} : IsListedWorkspace(k)})

LEMMA InvWorkspaces == WalkInv => WorkspacesInReplyOrder
<1> SUFFICES ASSUME WalkInv, NEW c \in Walkable
             PROVE  LET top == i3ipc_con_root(c)
                    IN  i3ipc_con_workspaces(c) =
                            InOrder({k \in Below(top) \ {top} : IsListedWorkspace(k)})
  BY DEF WorkspacesInReplyOrder
<1> DEFINE top == i3ipc_con_root(c)
<1>1. Ascending(i3ipc_con_workspaces(c), (Below(top) \ {top}) \cap Listed)
  BY WalkableInTree, WorkspacesAscending
<1> HIDE DEF top
<1>2. (Below(top) \ {top}) \cap Listed = {k \in Below(top) \ {top} : IsListedWorkspace(k)}
  BY DEF Below, Listed
<1>3. i3ipc_con_workspaces(c) = InOrder({k \in Below(top) \ {top} : IsListedWorkspace(k)})
  BY <1>1, <1>2, AscendingRange
<1> QED
  BY <1>3 DEF top

\* So it does in every tree, whatever is left of it.
THEOREM WorkspacesAreListed == Spec => []WorkspacesInReplyOrder
BY WalkInvariant, InvWorkspaces, PTL

\* i3ipc_con_find_named and its like list the cons below c that the pattern
\* matches, whichever these are, each once and in the order of the reply.
MatchesInReplyOrder ==
    \A c \in Walkable : \A wanted \in SUBSET (1..tree.size) :
        FindAll(c, wanted) = InOrder(wanted \cap (Below(c) \ {c}))

LEMMA InvMatches == WalkInv => MatchesInReplyOrder
<1> SUFFICES ASSUME WalkInv, NEW c \in Walkable, NEW wanted
             PROVE  FindAll(c, wanted) = InOrder(wanted \cap (Below(c) \ {c}))
  BY DEF MatchesInReplyOrder
<1>1. Ascending(FindAll(c, wanted), (Below(c) \ {c}) \cap wanted)
  BY WalkableInTree, FindAllAscending DEF WalkInv
<1>2. (Below(c) \ {c}) \cap wanted = wanted \cap (Below(c) \ {c})
  OBVIOUS
<1> QED
  BY <1>1, <1>2, AscendingRange

\* So it does in every tree, whatever is left of it.
THEOREM MatchesAreListed == Spec => []MatchesInReplyOrder
BY WalkInvariant, InvMatches, PTL
=============================================================================
