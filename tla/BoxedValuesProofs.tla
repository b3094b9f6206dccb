-------------------------- MODULE BoxedValuesProofs --------------------------
(***************************************************************************)
(* Theorems about BoxedValues, for every bound.                            *)
(***************************************************************************)
EXTENDS BoxedValues, FiniteSetTheorems, FunctionTheorems, SequenceTheorems, TLAPS

Fields == UNION {ConsOf(type) : type \in EventTypes}

\* For every type, what copy duplicates and references is what free frees and
\* clears.
LEMMA Tables ==
    ASSUME NEW type \in DOMAIN Boxed
    PROVE  /\ DataOf(type) = Boxed[type].duplicated /\ DataOf(type) = Boxed[type].freed
           /\ ConsOf(type) = Boxed[type].referenced /\ ConsOf(type) = Boxed[type].cleared
<1> DEFINE Symmetric(b) == b.duplicated = b.freed /\ b.referenced = b.cleared
<1>1. Symmetric(Strings) /\ Symmetric(i3ipcCommandReply) /\ Symmetric(i3ipcVersionReply)
  BY DEF Strings, i3ipcCommandReply, i3ipcVersionReply, BoxedType
<1>2. Symmetric(i3ipcBarConfigReply) /\ Symmetric(i3ipcOutputReply)
      /\ Symmetric(i3ipcWorkspaceReply)
  BY DEF i3ipcBarConfigReply, i3ipcOutputReply, i3ipcWorkspaceReply, BoxedType
<1>3. Symmetric(i3ipcGenericEvent) /\ Symmetric(i3ipcBarconfigUpdateEvent)
      /\ Symmetric(i3ipcWorkspaceEvent) /\ Symmetric(i3ipcWindowEvent)
  BY DEF i3ipcGenericEvent, i3ipcBarconfigUpdateEvent, i3ipcWorkspaceEvent,
         i3ipcWindowEvent, BoxedType
<1>4. i3ipcBindingInfo.duplicated = i3ipcBindingInfo.freed
  BY DEF i3ipcBindingInfo, BoxedType
<1>5. Symmetric(i3ipcBindingEvent)
  BY <1>4 DEF i3ipcBindingEvent, BoxedType
<1> HIDE DEF Symmetric
<1>6. Symmetric(Boxed[type])
  BY <1>1, <1>2, <1>3, <1>5 DEF Boxed
<1>7. Boxed[type].duplicated = Boxed[type].freed /\ Boxed[type].referenced = Boxed[type].cleared
  BY <1>6 DEF Symmetric
<1> QED
  BY <1>7 DEF DataOf, ConsOf

\* The fields that hold cons are few, and only events have them.
LEMMA FieldsOfEvents ==
    /\ EventTypes \subseteq DOMAIN Boxed
    /\ IsFiniteSet(Fields)
    /\ \A type \in DOMAIN Boxed : ConsOf(type) \subseteq Fields
<1>1. EventTypes \subseteq DOMAIN Boxed
  BY DEF EventTypes, Boxed
<1>2. \A type \in DOMAIN Boxed \ EventTypes : ConsOf(type) = {}
  <2> SUFFICES ASSUME NEW type \in DOMAIN Boxed \ EventTypes
               PROVE  Boxed[type].referenced = {} /\ Boxed[type].cleared = {}
    BY DEF ConsOf
  <2>1. \/ Boxed[type] = Strings \/ Boxed[type] = i3ipcCommandReply
        \/ Boxed[type] = i3ipcVersionReply \/ Boxed[type] = i3ipcBarConfigReply
        \/ Boxed[type] = i3ipcOutputReply \/ Boxed[type] = i3ipcWorkspaceReply
    BY DEF Boxed, EventTypes
  <2> QED
    BY <2>1 DEF Strings, i3ipcCommandReply, i3ipcVersionReply, i3ipcBarConfigReply,
                i3ipcOutputReply, i3ipcWorkspaceReply, BoxedType
<1>3. \A type \in DOMAIN Boxed : ConsOf(type) \subseteq Fields
  BY <1>2 DEF Fields
<1>4. ASSUME NEW type \in EventTypes
      PROVE  ConsOf(type) \subseteq {"current", "old", "container"}
  <2>1. \/ Boxed[type] = i3ipcWorkspaceEvent \/ Boxed[type] = i3ipcGenericEvent
        \/ Boxed[type] = i3ipcWindowEvent \/ Boxed[type] = i3ipcBarconfigUpdateEvent
        \/ Boxed[type] = i3ipcBindingEvent
    BY DEF Boxed, EventTypes
  <2>2. /\ Boxed[type].referenced \subseteq {"current", "old", "container"}
        /\ Boxed[type].cleared \subseteq {"current", "old", "container"}
    BY <2>1 DEF i3ipcWorkspaceEvent, i3ipcGenericEvent, i3ipcWindowEvent,
                i3ipcBarconfigUpdateEvent, i3ipcBindingEvent, BoxedType
  <2> QED
    BY <2>2 DEF ConsOf
<1>5. Fields \subseteq {"current", "old", "container"}
  BY <1>4 DEF Fields
<1>6. IsFiniteSet({"current", "old", "container"})
  <2>1. {"current", "old", "container"} = {"current"} \cup ({"old"} \cup {"container"})
    OBVIOUS
  <2>2. IsFiniteSet({"old"} \cup {"container"})
    BY FS_Singleton, FS_Union
  <2>3. IsFiniteSet({"current"})
    BY FS_Singleton
  <2>4. IsFiniteSet({"current"} \cup ({"old"} \cup {"container"}))
    BY <2>2, <2>3, FS_Union
  <2> QED
    BY <2>1, <2>4
<1> QED
  BY <1>1, <1>3, <1>5, <1>6, FS_Subset

-----------------------------------------------------------------------------
(* The invariant.                                                          *)

\* A structure in v has data of its own and shares its cons.
IsStructure(v, x) ==
    /\ x = [type |-> x.type, owner |-> x.owner, data |-> x.data, cons |-> x.cons]
    /\ x.type \in DOMAIN Boxed
    /\ x.owner \in {"application", "emission", "nobody"}
    /\ DOMAIN x.data \subseteq DataOf(x.type)
    /\ \A f \in DOMAIN x.data : x.data[f] = Cell(v, f)
    /\ DOMAIN x.cons \subseteq ConsOf(x.type)
    /\ \A f \in DOMAIN x.cons : x.cons[f] \in Con

Structured ==
    /\ values = [v \in Slot |-> values[v]]
    /\ \A v \in Used : IsStructure(v, values[v])

\* What is allocated is what the structures point to.
Allocated == memory = UNION {Cells(v, DOMAIN values[v].data) : v \in Used}

\* A con is referenced by the application and by the fields that point to it.
Pointers(c) == {p \in Used \X Fields :
                   p[2] \in DOMAIN values[p[1]].cons /\ values[p[1]].cons[p[2]] = c}
Counted ==
    /\ conRefs \in [Con -> Nat]
    /\ heldCons \subseteq Con
    /\ \A c \in Con : conRefs[c] = (IF c \in heldCons THEN 1 ELSE 0) + Cardinality(Pointers(c))

\* Each emission has its copy to itself.
Emission == [e : Slot, copy : Slot]
Emissions ==
    /\ emitting \in Seq(Emission)
    /\ \A i \in 1..Len(emitting) : values[emitting[i].copy].owner = "emission"
    /\ \A i, j \in 1..Len(emitting) : i # j => emitting[i].copy # emitting[j].copy

\* The connection is referenced by the application, by each con and by each
\* emission.
AliveCons == {c \in Con : conRefs[c] > 0}
Connected ==
    /\ connHeld \in BOOLEAN
    /\ connRefs = (IF connHeld THEN 1 ELSE 0) + Cardinality(AliveCons) + Len(emitting)

BoxedInv == /\ Structured /\ Allocated /\ Counted /\ Emissions /\ Connected
            /\ fault = FALSE

-----------------------------------------------------------------------------
(* Sets.                                                                   *)

LEMMA CellsDiffer ==
    ASSUME NEW v, NEW f, NEW w, NEW g, Cell(v, f) = Cell(w, g)
    PROVE  v = w /\ f = g
BY DEF Cell

\* The fields of one structure that point to a con.
Pointing(x, c) == {f \in DOMAIN x.cons : x.cons[f] = c}

LEMMA PointingFinite ==
    ASSUME NEW v, NEW x, IsStructure(v, x), NEW c
    PROVE  /\ IsFiniteSet(Pointing(x, c)) /\ Cardinality(Pointing(x, c)) \in Nat
           /\ Pointing(x, c) \subseteq Fields
           /\ IsFiniteSet({v} \X Pointing(x, c))
           /\ Cardinality({v} \X Pointing(x, c)) = Cardinality(Pointing(x, c))
<1>1. Pointing(x, c) \subseteq Fields
  BY FieldsOfEvents DEF Pointing, IsStructure
<1>2. IsFiniteSet(Pointing(x, c))
  BY <1>1, FieldsOfEvents, FS_Subset
<1>3. Cardinality(Pointing(x, c)) \in Nat
  BY <1>2, FS_CardinalityType
<1>4. IsFiniteSet({v}) /\ Cardinality({v}) = 1
  BY FS_Singleton
<1>5. /\ IsFiniteSet({v} \X Pointing(x, c))
      /\ Cardinality({v} \X Pointing(x, c)) = Cardinality({v}) * Cardinality(Pointing(x, c))
  BY <1>2, <1>4, FS_Product
<1> QED
  BY <1>1, <1>2, <1>3, <1>4, <1>5

LEMMA PointersFinite ==
    ASSUME NEW c
    PROVE  IsFiniteSet(Pointers(c)) /\ Cardinality(Pointers(c)) \in Nat
<1>1. IsFiniteSet(Slot)
  BY BoundsAssumption, FS_Interval DEF Slot
<1>2. Used \subseteq Slot
  BY DEF Used
<1>3. IsFiniteSet(Used \X Fields)
  BY <1>1, <1>2, FieldsOfEvents, FS_Subset, FS_Product
<1>4. IsFiniteSet(Pointers(c))
  BY <1>3, FS_Subset DEF Pointers
<1> QED
  BY <1>4, FS_CardinalityType

LEMMA AliveFinite == IsFiniteSet(AliveCons) /\ Cardinality(AliveCons) \in Nat
<1>1. IsFiniteSet(Con)
  BY BoundsAssumption, FS_Interval DEF Con
<1>2. AliveCons \subseteq Con
  BY DEF AliveCons
<1>3. IsFiniteSet(AliveCons)
  BY <1>1, <1>2, FS_Subset
<1> QED
  BY <1>3, FS_CardinalityType

\* A con that nothing points to is free.
LEMMA FreeConsUnpointed ==
    ASSUME Counted, NEW c \in Con, conRefs[c] = 0
    PROVE  c \notin heldCons /\ Pointers(c) = {}
<1>1. Cardinality(Pointers(c)) \in Nat /\ IsFiniteSet(Pointers(c))
  BY PointersFinite
<1>2. c \notin heldCons /\ Cardinality(Pointers(c)) = 0
  BY <1>1 DEF Counted
<1> QED
  BY <1>1, <1>2, FS_EmptySet

-----------------------------------------------------------------------------
(* Structures that come and go.                                            *)

LEMMA UsedIsStructured ==
    ASSUME NEW v, NEW x, IsStructure(v, x)
    PROVE  x # Unused
<1>1. x.type \in DOMAIN Boxed
  BY DEF IsStructure
<1>2. "none" \notin DOMAIN Boxed
  BY DEF Boxed
<1> QED
  BY <1>1, <1>2 DEF Unused

\* Fields of x[v] that point to c, for the structures x[v] in the slots S.
PointersFrom(S, x, c) ==
    {p \in S \X Fields : p[2] \in DOMAIN x[p[1]].cons /\ x[p[1]].cons[p[2]] = c}

\* Structures put in free slots leave the others alone.
LEMMA Adding ==
    ASSUME Structured, Allocated,
           NEW S, S \subseteq FreeSlots,
           NEW x, \A v \in S : IsStructure(v, x[v]),
           values' = [v \in Slot |-> IF v \in S THEN x[v] ELSE values[v]],
           memory' = memory \cup UNION {Cells(v, DOMAIN x[v].data) : v \in S}
    PROVE  /\ Used' = Used \cup S
           /\ \A v \in Used : values'[v] = values[v]
           /\ \A v \in S : values'[v] = x[v]
           /\ Structured' /\ Allocated'
           /\ \A c : Pointers(c)' = Pointers(c) \cup PointersFrom(S, x, c)
<1>1. S \subseteq Slot /\ S \cap Used = {} /\ Used \subseteq Slot
  BY DEF FreeSlots, Used
<1>2. \A v \in Used : values'[v] = values[v]
  BY <1>1
<1>3. \A v \in S : values'[v] = x[v]
  BY <1>1
<1>4. \A v \in S : x[v] # Unused
  BY UsedIsStructured
<1>5. Used' = Used \cup S
  <2>1. ASSUME NEW v \in Slot PROVE v \in Used' <=> v \in Used \cup S
    BY <1>1, <1>4, <2>1 DEF Used
  <2> QED
    BY <1>1, <2>1 DEF Used
<1>6. Structured'
  <2>1. values' = [v \in Slot |-> values'[v]]
    OBVIOUS
  <2>2. \A v \in Used' : IsStructure(v, values'[v])
    BY <1>2, <1>3, <1>5 DEF Structured
  <2>3. \A v \in Used' : IsStructure(v, values[v])'
    BY <2>2 DEF IsStructure
  <2> QED
    BY <2>1, <2>3 DEF Structured
<1>7. Allocated'
  <2> DEFINE old == {Cells(v, DOMAIN values[v].data) : v \in Used}
             new == {Cells(v, DOMAIN x[v].data) : v \in S}
             all == {Cells(v, DOMAIN values'[v].data) : v \in Used'}
  <2>1. all = old \cup new
    BY <1>2, <1>3, <1>5
  <2>2. UNION all = (UNION old) \cup (UNION new)
    BY <2>1
  <2>3. memory' = UNION all
    BY <2>2 DEF Allocated
  <2> QED
    BY <2>3 DEF Allocated, Cells, Cell
<1>8. ASSUME NEW c PROVE Pointers(c)' = Pointers(c) \cup PointersFrom(S, x, c)
  <2>1. Pointers(c)' = {p \in Used' \X Fields :
                   p[2] \in DOMAIN values'[p[1]].cons /\ values'[p[1]].cons[p[2]] = c}
    BY DEF Pointers, Fields, ConsOf
  <2>2. Used' \X Fields = (Used \X Fields) \cup (S \X Fields)
    BY <1>5
  <2>3. \A p \in Used \X Fields : p[1] \in Used /\ values'[p[1]] = values[p[1]]
    BY <1>2
  <2>4. \A p \in S \X Fields : p[1] \in S /\ values'[p[1]] = x[p[1]]
    BY <1>3
  <2> QED
    BY <2>1, <2>2, <2>3, <2>4 DEF Pointers, PointersFrom
<1> QED
  BY <1>2, <1>3, <1>5, <1>6, <1>7, <1>8

\* One structure adds as many pointers to a con as it has fields with it.
LEMMA AddingOne ==
    ASSUME NEW w, NEW x, IsStructure(w, x[w]), NEW c,
           NEW P, IsFiniteSet(P), \A p \in P : p[1] # w
    PROVE  /\ IsFiniteSet(P \cup PointersFrom({w}, x, c))
           /\ Cardinality(P \cup PointersFrom({w}, x, c))
                = Cardinality(P) + Cardinality(Pointing(x[w], c))
<1>1. /\ IsFiniteSet({w} \X Pointing(x[w], c))
      /\ Cardinality({w} \X Pointing(x[w], c)) = Cardinality(Pointing(x[w], c))
      /\ Pointing(x[w], c) \subseteq Fields
      /\ Cardinality(Pointing(x[w], c)) \in Nat
  BY PointingFinite
<1>2. PointersFrom({w}, x, c) = {w} \X Pointing(x[w], c)
  <2>1. ASSUME NEW p
        PROVE  p \in PointersFrom({w}, x, c) <=> p \in {w} \X Pointing(x[w], c)
    BY <1>1 DEF PointersFrom, Pointing
  <2> QED
    BY <2>1
<1>3. Cardinality(P) \in Nat
  BY FS_CardinalityType
<1>4. P \cap ({w} \X Pointing(x[w], c)) = {}
  OBVIOUS
<1>5. /\ IsFiniteSet(P \cup ({w} \X Pointing(x[w], c)))
      /\ Cardinality(P \cup ({w} \X Pointing(x[w], c)))
           = Cardinality(P) + Cardinality({w} \X Pointing(x[w], c)) - Cardinality({})
  BY <1>1, <1>4, FS_Union
<1>6. Cardinality({}) = 0
  BY FS_EmptySet
<1>7. Cardinality(P \cup ({w} \X Pointing(x[w], c)))
        = Cardinality(P) + Cardinality(Pointing(x[w], c))
  BY <1>1, <1>3, <1>5, <1>6
<1> HIDE DEF PointersFrom
<1> QED
  BY <1>2, <1>5, <1>7

\* A structure that is freed takes its own data and pointers and no others.
LEMMA Removing ==
    ASSUME Structured, Allocated, NEW v \in Used,
           values' = [u \in Slot |-> IF u \in {v} THEN Unused ELSE values[u]],
           memory' = memory \ UNION {FreedData(u) : u \in {v}}
    PROVE  /\ Used' = Used \ {v}
           /\ \A u \in Used \ {v} : values'[u] = values[u]
           /\ UNION {FreedData(u) : u \in {v}} \subseteq memory
           /\ Structured' /\ Allocated'
           /\ \A c : /\ {v} \X Pointing(values[v], c) \subseteq Pointers(c)
                     /\ Pointers(c)' = Pointers(c) \ ({v} \X Pointing(values[v], c))
<1>1. Used \subseteq Slot /\ IsStructure(v, values[v])
  BY DEF Used, Structured
<1>2. \A u \in Used \ {v} : values'[u] = values[u]
  BY <1>1
<1>3. Used' = Used \ {v}
  BY <1>1 DEF Used
<1>4. Structured'
  <2>1. values' = [u \in Slot |-> values'[u]]
    OBVIOUS
  <2>2. \A u \in Used' : IsStructure(u, values'[u])
    BY <1>2, <1>3 DEF Structured
  <2>3. \A u \in Used' : IsStructure(u, values[u])'
    BY <2>2 DEF IsStructure
  <2> QED
    BY <2>1, <2>3 DEF Structured
<1>5. UNION {FreedData(u) : u \in {v}} = Cells(v, DOMAIN values[v].data)
  <2>1. DOMAIN values[v].data \cap Boxed[values[v].type].freed = DOMAIN values[v].data
    BY <1>1, Tables DEF IsStructure
  <2>2. \A f \in DOMAIN values[v].data : values[v].data[f] = Cell(v, f)
    BY <1>1 DEF IsStructure
  <2>3. FreedData(v) = Cells(v, DOMAIN values[v].data)
    BY <2>1, <2>2 DEF FreedData, Cells
  <2> QED
    BY <2>3
<1>6. Cells(v, DOMAIN values[v].data) \subseteq memory
  BY DEF Allocated
<1>7. Allocated'
  <2> DEFINE all == {Cells(u, DOMAIN values[u].data) : u \in Used}
             rest == {Cells(u, DOMAIN values'[u].data) : u \in Used'}
  <2>1. \A m \in UNION rest : m \in UNION all
    BY <1>2, <1>3
  <2>2. \A m \in UNION rest : m \notin Cells(v, DOMAIN values[v].data)
    BY <1>3, CellsDiffer DEF Cells
  <2>3. \A m \in UNION all : m \in UNION rest \/ m \in Cells(v, DOMAIN values[v].data)
    BY <1>2, <1>3
  <2>4. UNION rest = memory \ Cells(v, DOMAIN values[v].data)
    BY <2>1, <2>2, <2>3 DEF Allocated
  <2>5. memory' = UNION rest
    BY <1>5, <2>4
  <2> QED
    BY <2>5 DEF Allocated, Cells, Cell
<1>8. ASSUME NEW c
      PROVE  /\ {v} \X Pointing(values[v], c) \subseteq Pointers(c)
             /\ Pointers(c)' = Pointers(c) \ ({v} \X Pointing(values[v], c))
  <2>1. Pointers(c)' = {p \in Used' \X Fields :
                   p[2] \in DOMAIN values'[p[1]].cons /\ values'[p[1]].cons[p[2]] = c}
    BY DEF Pointers, Fields, ConsOf
  <2>2. \A p \in Used' \X Fields : p[1] \in Used \ {v} /\ values'[p[1]] = values[p[1]]
    BY <1>2, <1>3
  <2>3. Pointing(values[v], c) \subseteq Fields
    BY <1>1, PointingFinite
  <2>4. {v} \X Pointing(values[v], c) \subseteq Pointers(c)
    BY <2>3 DEF Pointers, Pointing
  <2>5. ASSUME NEW p \in Used \X Fields
        PROVE  p \in Pointers(c)' <=> p \in Pointers(c) /\ p \notin {v} \X Pointing(values[v], c)
    <3>1. p = <<p[1], p[2]>> /\ p[1] \in Used /\ p[2] \in Fields
      OBVIOUS
    <3>2. CASE p[1] = v
      <4>1. p \notin Pointers(c)'
        BY <2>1, <2>2, <3>2
      <4>2. p \in Pointers(c) => p[2] \in Pointing(values[v], c)
        BY <3>2 DEF Pointers, Pointing
      <4> QED
        BY <3>1, <3>2, <4>1, <4>2
    <3>3. CASE p[1] # v
      <4>1. p \in Used' \X Fields
        BY <1>3, <3>1, <3>3
      <4>2. p \notin {v} \X Pointing(values[v], c)
        BY <3>3
      <4> QED
        BY <2>1, <2>2, <4>1, <4>2 DEF Pointers
    <3> QED
      BY <3>2, <3>3
  <2>6. Pointers(c)' \subseteq Used \X Fields /\ Pointers(c) \subseteq Used \X Fields
    BY <1>3, <2>1 DEF Pointers
  <2> QED
    BY <2>4, <2>5, <2>6
<1> QED
  BY <1>2, <1>3, <1>4, <1>5, <1>6, <1>7, <1>8

\* A con that a structure points to is alive.
LEMMA PointedIsAlive ==
    ASSUME Structured, Counted, NEW v \in Used, NEW c \in Con, Pointing(values[v], c) # {}
    PROVE  conRefs[c] > 0
<1>1. IsStructure(v, values[v])
  BY DEF Structured
<1>2. PICK f \in Pointing(values[v], c) : TRUE
  OBVIOUS
<1>3. <<v, f>> \in Pointers(c)
  BY <1>1, <1>2, PointingFinite DEF Pointers, Pointing
<1>4. IsFiniteSet(Pointers(c)) /\ Cardinality(Pointers(c)) \in Nat
  BY PointersFinite
<1>5. Cardinality(Pointers(c)) # 0
  BY <1>3, <1>4, FS_EmptySet
<1> QED
  BY <1>4, <1>5 DEF Counted

\* A structure that something is said of is in use.
LEMMA OwnedIsUsed ==
    ASSUME Structured, NEW v \in Slot, values[v].owner \in {"application", "emission", "nobody"}
    PROVE  v \in Used
BY DEF Used, Unused

LEMMA EmittedAreUsed ==
    ASSUME Structured, Emissions, NEW i \in 1..Len(emitting)
    PROVE  emitting[i] \in Emission /\ emitting[i].copy \in Used
<1>1. emitting[i] \in Emission
  BY DEF Emissions
<1>2. emitting[i].copy \in Slot
  BY <1>1 DEF Emission
<1> QED
  BY <1>1, <1>2, OwnedIsUsed DEF Emissions

-----------------------------------------------------------------------------
(* Requests.                                                               *)

LEMMA NewStep ==
    ASSUME BoxedInv, NEW S, S \subseteq FreeSlots,
           NEW type \in DOMAIN Boxed, NEW owner \in {"application", "emission", "nobody"},
           NEW with, \A v \in S : with[v] \subseteq DataOf(type),
           New(S, type, owner, with)
    PROVE  BoxedInv'
<1> USE DEF BoxedInv
<1> DEFINE x == [v \in S |-> [type |-> type, owner |-> owner,
                              data |-> [f \in with[v] |-> Cell(v, f)], cons |-> <<>>]]
<1>1. /\ values' = [v \in Slot |-> IF v \in S THEN x[v] ELSE values[v]]
      /\ memory' = memory \cup UNION {Cells(v, with[v]) : v \in S}
      /\ UNCHANGED <<conRefs, heldCons, connHeld, connRefs, emitting, fault>>
  BY DEF New
<1>2. DOMAIN <<>> = {}
  OBVIOUS
<1>3. \A v \in S : /\ DOMAIN x[v].data = with[v] /\ DOMAIN x[v].cons = {}
                   /\ IsStructure(v, x[v])
  BY <1>2 DEF IsStructure
<1>4. {Cells(v, with[v]) : v \in S} = {Cells(v, DOMAIN x[v].data) : v \in S}
  BY <1>3
<1>5. memory' = memory \cup UNION {Cells(v, DOMAIN x[v].data) : v \in S}
  BY <1>1, <1>4
<1> HIDE DEF x
<1>6. /\ Used' = Used \cup S
      /\ \A v \in Used : values'[v] = values[v]
      /\ \A v \in S : values'[v] = x[v]
      /\ Structured' /\ Allocated'
      /\ \A c : Pointers(c)' = Pointers(c) \cup PointersFrom(S, x, c)
  BY <1>1, <1>3, <1>5, Adding
<1>7. \A c : PointersFrom(S, x, c) = {}
  BY <1>3 DEF PointersFrom
<1>8. \A c : Pointers(c)' = Pointers(c)
  BY <1>6, <1>7
<1>9. Counted' /\ AliveCons' = AliveCons
  BY <1>1, <1>8 DEF Counted, AliveCons, Con
<1>10. Emissions'
  <2>1. ASSUME NEW i \in 1..Len(emitting) PROVE values'[emitting[i].copy].owner = "emission"
    BY <1>6, EmittedAreUsed DEF Emissions
  <2> QED
    BY <1>1, <2>1 DEF Emissions, Emission, Slot
<1>11. Connected'
  BY <1>1, <1>9 DEF Connected
<1> QED
  BY <1>1, <1>6, <1>9, <1>10, <1>11

LEMMA ListStep ==
    ASSUME BoxedInv, NEW type \in DOMAIN Boxed,
           NEW with, with \subseteq SUBSET DataOf(type), List(type, with)
    PROVE  BoxedInv'
<1>0. PICK n \in 1..MaxElements : \E each \in [Lowest(FreeSlots, n) -> with] :
             New(DOMAIN each, type, "application", each)
  BY DEF List
<1>1. PICK each \in [Lowest(FreeSlots, n) -> with] :
             New(DOMAIN each, type, "application", each)
  BY <1>0
<1>2. /\ DOMAIN each \subseteq FreeSlots
      /\ \A v \in DOMAIN each : each[v] \subseteq DataOf(type)
  BY DEF Lowest
<1> QED
  BY <1>1, <1>2, NewStep

LEMMA StructureStep ==
    ASSUME BoxedInv, NEW type \in DOMAIN Boxed,
           NEW owner \in {"application", "nobody"},
           NEW with, with \subseteq DataOf(type), Structure(type, owner, with)
    PROVE  BoxedInv'
<1> DEFINE slots == Lowest(FreeSlots, 1)
           each == [v \in slots |-> with]
<1>1. New(slots, type, owner, each)
  BY DEF Structure
<1>2. slots \subseteq FreeSlots /\ \A v \in slots : each[v] \subseteq DataOf(type)
  BY DEF Lowest
<1> HIDE DEF slots, each
<1> QED
  BY <1>1, <1>2, NewStep

LEMMA RequestStep ==
    ASSUME BoxedInv,
           \/ i3ipc_connection_command \/ i3ipc_connection_get_workspaces
           \/ i3ipc_connection_get_outputs \/ i3ipc_connection_get_marks
           \/ i3ipc_connection_get_bar_config_list \/ i3ipc_connection_get_config
           \/ i3ipc_connection_get_version \/ i3ipc_connection_get_bar_config
    PROVE  BoxedInv'
<1>1. {"strings", "command_reply", "version_reply", "bar_config_reply", "output_reply",
       "workspace_reply"} \subseteq DOMAIN Boxed
  BY DEF Boxed
<1>2. /\ Boxed["command_reply"] = i3ipcCommandReply
      /\ Boxed["workspace_reply"] = i3ipcWorkspaceReply
      /\ Boxed["output_reply"] = i3ipcOutputReply
      /\ Boxed["strings"] = Strings
      /\ Boxed["version_reply"] = i3ipcVersionReply
      /\ Boxed["bar_config_reply"] = i3ipcBarConfigReply
  BY DEF Boxed
<1>3. CASE i3ipc_connection_command
  <2>1. {{}, {"error"}} \subseteq SUBSET DataOf("command_reply")
    BY <1>2 DEF DataOf, i3ipcCommandReply, BoxedType
  <2> QED
    BY <1>1, <1>3, <2>1, ListStep DEF i3ipc_connection_command
<1>4. CASE i3ipc_connection_get_workspaces
  <2>1. {{"name", "output", "rect"}} \subseteq SUBSET DataOf("workspace_reply")
    BY <1>2 DEF DataOf, i3ipcWorkspaceReply, BoxedType
  <2> QED
    BY <1>1, <1>4, <2>1, ListStep DEF i3ipc_connection_get_workspaces
<1>5. CASE i3ipc_connection_get_outputs
  <2>1. {{"name", "rect"}, {"name", "rect", "current_workspace"}}
          \subseteq SUBSET DataOf("output_reply")
    BY <1>2 DEF DataOf, i3ipcOutputReply, BoxedType
  <2> QED
    BY <1>1, <1>5, <2>1, ListStep DEF i3ipc_connection_get_outputs
<1>6. CASE \/ i3ipc_connection_get_marks \/ i3ipc_connection_get_bar_config_list
           \/ i3ipc_connection_get_config
  <2>1. {"text"} \subseteq DataOf("strings")
    BY <1>2 DEF DataOf, Strings, BoxedType
  <2>2. Structure("strings", "application", {"text"})
    BY <1>6 DEF i3ipc_connection_get_marks, i3ipc_connection_get_bar_config_list,
                i3ipc_connection_get_config
  <2> QED
    BY <1>1, <2>1, <2>2, StructureStep
<1>7. CASE i3ipc_connection_get_version
  <2>1. {"human_readable"} \subseteq DataOf("version_reply")
    BY <1>2 DEF DataOf, i3ipcVersionReply, BoxedType
  <2> QED
    BY <1>1, <1>7, <2>1, StructureStep DEF i3ipc_connection_get_version
<1>8. CASE i3ipc_connection_get_bar_config
  <2>1. {"colors"} \subseteq DataOf("bar_config_reply")
    BY <1>2 DEF DataOf, i3ipcBarConfigReply, BoxedType
  <2> QED
    BY <1>1, <1>8, <2>1, StructureStep DEF i3ipc_connection_get_bar_config
<1> QED
  BY <1>3, <1>4, <1>5, <1>6, <1>7, <1>8

LEMMA TreeStep == ASSUME BoxedInv, i3ipc_connection_get_tree PROVE BoxedInv'
<1> USE DEF BoxedInv
<1>1. PICK con \in Lowest(FreeCons, 1) :
          /\ conRefs' = [conRefs EXCEPT ![con] = 1]
          /\ heldCons' = heldCons \cup {con}
          /\ connRefs' = connRefs + 1
  BY DEF i3ipc_connection_get_tree
<1>2. con \in Con /\ conRefs[con] = 0
  BY DEF Lowest, FreeCons
<1>3. UNCHANGED <<values, memory, connHeld, emitting, fault>>
  BY DEF i3ipc_connection_get_tree
<1>4. Used' = Used /\ \A c : Pointers(c)' = Pointers(c)
  BY <1>3 DEF Used, Pointers
<1>5. con \notin heldCons /\ Pointers(con) = {}
  BY <1>2, FreeConsUnpointed
<1>6. Counted'
  <2>1. conRefs' \in [Con -> Nat] /\ heldCons' \subseteq Con
    BY <1>1, <1>2 DEF Counted
  <2>2. ASSUME NEW c \in Con
        PROVE  conRefs'[c] = (IF c \in heldCons' THEN 1 ELSE 0) + Cardinality(Pointers(c)')
    <3>1. CASE c = con
      <4>1. conRefs'[c] = 1 /\ c \in heldCons' /\ Cardinality(Pointers(c)') = 0
        BY <1>1, <1>4, <1>5, <3>1, FS_EmptySet DEF Counted
      <4> QED
        BY <4>1
    <3>2. CASE c # con
      BY <1>1, <1>4, <3>2 DEF Counted
    <3> QED
      BY <3>1, <3>2
  <2> QED
    BY <2>1, <2>2 DEF Counted
<1>7. Connected'
  <2>1. AliveCons' = AliveCons \cup {con} /\ con \notin AliveCons
    BY <1>1, <1>2 DEF AliveCons, Counted
  <2>2. Cardinality(AliveCons') = Cardinality(AliveCons) + 1
    BY <2>1, AliveFinite, FS_AddElement
  <2>3. connRefs' = connRefs + 1 /\ Cardinality(AliveCons) \in Nat /\ Len(emitting) \in Nat
    BY <1>1, AliveFinite DEF Emissions
  <2> QED
    BY <1>3, <2>2, <2>3 DEF Connected
<1>8. Structured' /\ Allocated' /\ Emissions'
  BY <1>3 DEF Structured, Allocated, Emissions, Used
<1> QED
  BY <1>3, <1>6, <1>7, <1>8

-----------------------------------------------------------------------------
(* Copies.                                                                 *)

\* A copy has the cons of the original and data of its own.
LEMMA CopyOfStructure ==
    ASSUME NEW v, NEW x, IsStructure(v, x), NEW w,
           NEW owner \in {"application", "emission"}
    PROVE  LET y == Copied(w, owner, x)
           IN  /\ IsStructure(w, y) /\ y.owner = owner /\ y.cons = x.cons
               /\ y.type = x.type
               /\ DOMAIN y.data = DOMAIN x.data
<1> DEFINE y == Copied(w, owner, x)
           data == [f \in DOMAIN x.data |->
                       IF f \in Boxed[x.type].duplicated THEN Cell(w, f) ELSE x.data[f]]
<1>1. y = [type |-> x.type, owner |-> owner, data |-> data, cons |-> x.cons]
  <2>1. x = [type |-> x.type, owner |-> x.owner, data |-> x.data, cons |-> x.cons]
    BY DEF IsStructure
  <2>2. y = [x EXCEPT !.owner = owner, !.data = data]
    BY <2>1 DEF Copied
  <2> HIDE DEF y, data
  <2> QED
    BY <2>1, <2>2
<1>2. y.owner = owner /\ y.cons = x.cons /\ y.type = x.type /\ y.data = data
  BY <1>1
<1>3. DOMAIN data = DOMAIN x.data
  OBVIOUS
<1>4. \A f \in DOMAIN data : data[f] = Cell(w, f)
  BY Tables DEF IsStructure
<1>5. y = [type |-> y.type, owner |-> y.owner, data |-> y.data, cons |-> y.cons]
  BY <1>1, <1>2
<1> HIDE DEF y, data
<1>6. IsStructure(w, y)
  BY <1>2, <1>3, <1>4, <1>5 DEF IsStructure
<1> QED
  BY <1>2, <1>3, <1>6 DEF y

\* What is referenced for a con is what points to it.
LEMMA ReferencesOfStructure ==
    ASSUME NEW v, NEW x, IsStructure(v, x), NEW c
    PROVE  /\ References(x) = DOMAIN x.cons
           /\ To(x, References(x), c) = Cardinality(Pointing(x, c))
<1>1. References(x) = DOMAIN x.cons
  BY Tables DEF References, IsStructure
<1>2. {f \in References(x) : x.cons[f] = c} = Pointing(x, c)
  BY <1>1 DEF Pointing
<1> QED
  BY <1>1, <1>2 DEF To

LEMMA CopyStep == ASSUME BoxedInv, NEW v \in Slot, Copy(v) PROVE BoxedInv'
<1> USE DEF BoxedInv
<1>1. v \in Used /\ IsStructure(v, values[v])
  BY DEF Copy, Structured
<1>2. PICK w \in Lowest(FreeSlots, 1) :
          LET copy == Copied(w, "application", values[v])
          IN  /\ values' = [values EXCEPT ![w] = copy]
              /\ memory' = memory \cup Cells(w, DOMAIN copy.data \cap Boxed[copy.type].duplicated)
  BY DEF Copy
<1> DEFINE copy == Copied(w, "application", values[v])
           x == [u \in {w} |-> copy]
<1>3. /\ IsStructure(w, copy) /\ copy.owner = "application" /\ copy.cons = values[v].cons
      /\ DOMAIN copy.data = DOMAIN values[v].data
  BY <1>1, CopyOfStructure
<1>4. /\ conRefs' = [c \in Con |-> conRefs[c] + To(values[v], References(values[v]), c)]
      /\ fault' = (fault \/ \E f \in DOMAIN values[v].data : values[v].data[f] \notin memory)
      /\ UNCHANGED <<heldCons, connHeld, connRefs, emitting>>
  BY DEF Copy
<1>5. w \in FreeSlots /\ w \in Slot /\ w \notin Used
  BY DEF Lowest, FreeSlots
<1>6. /\ values' = [values EXCEPT ![w] = copy]
      /\ memory' = memory \cup Cells(w, DOMAIN copy.data)
  <2>1. DOMAIN copy.data \cap Boxed[copy.type].duplicated = DOMAIN copy.data
    BY <1>3, Tables DEF IsStructure
  <2> QED
    BY <1>2, <2>1
<1> HIDE DEF copy
<1>7. x[w] = copy
  OBVIOUS
<1>8. /\ values' = [u \in Slot |-> IF u \in {w} THEN x[u] ELSE values[u]]
      /\ memory' = memory \cup UNION {Cells(u, DOMAIN x[u].data) : u \in {w}}
  <2>1. values' = [u \in Slot |-> IF u \in {w} THEN x[u] ELSE values[u]]
    BY <1>5, <1>6, <1>7 DEF Structured
  <2>2. UNION {Cells(u, DOMAIN x[u].data) : u \in {w}} = Cells(w, DOMAIN copy.data)
    BY <1>7
  <2> QED
    BY <1>6, <2>1, <2>2
<1> HIDE DEF x
<1>9. /\ Used' = Used \cup {w}
      /\ \A u \in Used : values'[u] = values[u]
      /\ values'[w] = copy
      /\ Structured' /\ Allocated'
      /\ \A c : Pointers(c)' = Pointers(c) \cup PointersFrom({w}, x, c)
  <2>1. {w} \subseteq FreeSlots /\ \A u \in {w} : IsStructure(u, x[u])
    BY <1>3, <1>5, <1>7
  <2>2. /\ Used' = Used \cup {w}
        /\ \A u \in Used : values'[u] = values[u]
        /\ \A u \in {w} : values'[u] = x[u]
        /\ Structured' /\ Allocated'
        /\ \A c : Pointers(c)' = Pointers(c) \cup PointersFrom({w}, x, c)
    BY <1>8, <2>1, Adding
  <2> QED
    BY <1>7, <2>2
<1>10. ASSUME NEW c
       PROVE  /\ To(values[v], References(values[v]), c) = Cardinality(Pointing(values[v], c))
              /\ Pointing(copy, c) = Pointing(values[v], c)
              /\ Cardinality(Pointing(copy, c)) \in Nat
  <2>1. Pointing(copy, c) = Pointing(values[v], c)
    BY <1>3 DEF Pointing
  <2>2. Cardinality(Pointing(copy, c)) \in Nat
    BY <1>3, PointingFinite
  <2>3. To(values[v], References(values[v]), c) = Cardinality(Pointing(values[v], c))
    BY <1>1, ReferencesOfStructure
  <2> QED
    BY <2>1, <2>2, <2>3
<1>11. \A c \in Con : conRefs'[c] = conRefs[c] + Cardinality(Pointing(copy, c))
  BY <1>4, <1>10
<1>12. ~fault'
  <2>1. ASSUME NEW f \in DOMAIN values[v].data PROVE values[v].data[f] \in memory
    <3>1. values[v].data[f] = Cell(v, f)
      BY <1>1 DEF IsStructure
    <3> QED
      BY <1>1, <3>1 DEF Allocated, Cells
  <2> QED
    BY <1>4, <2>1
<1>13. Counted'
  <2>1. conRefs' \in [Con -> Nat]
    BY <1>4, <1>10 DEF Counted
  <2>2. ASSUME NEW c \in Con
        PROVE  conRefs'[c] = (IF c \in heldCons' THEN 1 ELSE 0) + Cardinality(Pointers(c)')
    <3>1. IsFiniteSet(Pointers(c)) /\ Cardinality(Pointers(c)) \in Nat
          /\ \A p \in Pointers(c) : p[1] # w
      BY <1>5, PointersFinite DEF Pointers
    <3>2. Cardinality(Pointers(c) \cup PointersFrom({w}, x, c))
            = Cardinality(Pointers(c)) + Cardinality(Pointing(copy, c))
      <4>1. IsStructure(w, x[w])
        BY <1>3, <1>7
      <4> DEFINE P == Pointers(c)
      <4>2. IsFiniteSet(P) /\ \A p \in P : p[1] # w
        BY <3>1
      <4> HIDE DEF P
      <4>3. Cardinality(P \cup PointersFrom({w}, x, c))
              = Cardinality(P) + Cardinality(Pointing(x[w], c))
        BY <4>1, <4>2, AddingOne
      <4> QED
        BY <1>7, <4>3 DEF P
    <3>3. Cardinality(Pointers(c)') = Cardinality(Pointers(c)) + Cardinality(Pointing(copy, c))
      BY <1>9, <3>2
    <3>4. heldCons' = heldCons
      BY <1>4
    <3> QED
      BY <1>10, <1>11, <3>1, <3>3, <3>4 DEF Counted
  <2> QED
    BY <1>4, <2>1, <2>2 DEF Counted
<1>14. AliveCons' = AliveCons
  <2>1. ASSUME NEW c \in Con PROVE conRefs'[c] > 0 <=> conRefs[c] > 0
    <3>1. CASE Pointing(values[v], c) = {}
      <4>1. Cardinality(Pointing(copy, c)) = 0
        BY <1>10, <3>1, FS_EmptySet
      <4> QED
        BY <1>11, <4>1 DEF Counted
    <3>2. CASE Pointing(values[v], c) # {}
      <4>1. conRefs[c] > 0
        BY <1>1, <3>2, PointedIsAlive
      <4> QED
        BY <1>10, <1>11, <4>1 DEF Counted
    <3> QED
      BY <3>1, <3>2
  <2> QED
    BY <2>1 DEF AliveCons, Con
<1>15. Connected'
  BY <1>4, <1>14 DEF Connected
<1>16. Emissions'
  <2>1. ASSUME NEW i \in 1..Len(emitting) PROVE values'[emitting[i].copy].owner = "emission"
    BY <1>9, EmittedAreUsed DEF Emissions
  <2> QED
    BY <1>4, <2>1 DEF Emissions, Emission, Slot
<1> QED
  BY <1>9, <1>12, <1>13, <1>15, <1>16

-----------------------------------------------------------------------------
(* Releases.                                                               *)

\* The connection loses a reference for each con that is gone.
LEMMA Dropped ==
    ASSUME conRefs \in [Con -> Nat], connRefs \in Nat,
           NEW lost \in [Con -> Nat], \A c \in Con : lost[c] <= conRefs[c],
           NEW others \in Nat, Drop(lost, others)
    PROVE  /\ conRefs' \in [Con -> Nat]
           /\ \A c \in Con : conRefs'[c] = conRefs[c] - lost[c]
           /\ Cardinality(AliveCons') \in Nat
           /\ connRefs' = connRefs - others - Cardinality(AliveCons) + Cardinality(AliveCons')
<1> DEFINE gone == {c \in Con : lost[c] > 0 /\ conRefs[c] = lost[c]}
<1>1. /\ conRefs' = [c \in Con |-> conRefs[c] - lost[c]]
      /\ connRefs' = connRefs - others - Cardinality(gone)
  BY DEF Drop, Finalized
<1>2. \A c \in Con : conRefs'[c] = conRefs[c] - lost[c] /\ conRefs'[c] \in Nat
  BY <1>1
<1>3. AliveCons' = AliveCons \ gone /\ gone \subseteq AliveCons
  BY <1>2 DEF AliveCons, Con
<1> HIDE DEF gone
<1>4. /\ IsFiniteSet(AliveCons \ gone) /\ IsFiniteSet(gone)
      /\ Cardinality(AliveCons \ gone) = Cardinality(AliveCons) - Cardinality(AliveCons \cap gone)
  BY <1>3, AliveFinite, FS_Difference, FS_Subset
<1>5. AliveCons \cap gone = gone
  BY <1>3
<1>6. /\ Cardinality(AliveCons') \in Nat /\ Cardinality(gone) \in Nat
      /\ Cardinality(AliveCons) \in Nat
  BY <1>3, <1>4, AliveFinite, FS_CardinalityType
<1>7. Cardinality(AliveCons') = Cardinality(AliveCons) - Cardinality(gone)
  BY <1>3, <1>4, <1>5
<1> QED
  BY <1>1, <1>2, <1>6, <1>7

\* i3ipc_*_free of one structure.
LEMMA FreeOne ==
    ASSUME BoxedInv, NEW v \in Used, values[v].owner # "nobody",
           NEW others \in Nat, FreeAll({v}, others), heldCons' = heldCons
    PROVE  /\ Structured' /\ Allocated' /\ Counted' /\ ~fault'
           /\ Used' = Used \ {v}
           /\ \A u \in Used \ {v} : values'[u] = values[u]
           /\ Cardinality(AliveCons') \in Nat
           /\ connRefs' = connRefs - others - Cardinality(AliveCons) + Cardinality(AliveCons')
<1> USE DEF BoxedInv
<1> DEFINE Lost(c) == {p \in {v} \X UNION {Clears(u) : u \in {v}} :
                           p[2] \in Clears(p[1]) /\ values[p[1]].cons[p[2]] = c}
           lost == [c \in Con |-> Cardinality(Lost(c))]
<1>1. /\ values' = [u \in Slot |-> IF u \in {v} THEN Unused ELSE values[u]]
      /\ memory' = memory \ UNION {FreedData(u) : u \in {v}}
      /\ Drop(lost, others)
      /\ fault' = (fault \/ ~(UNION {FreedData(u) : u \in {v}} \subseteq memory))
  BY DEF FreeAll
<1>2. IsStructure(v, values[v])
  BY DEF Structured
<1>3. ASSUME NEW c PROVE Lost(c) = {v} \X Pointing(values[v], c)
  <2>1. Clears(v) = DOMAIN values[v].cons
    BY <1>2, Tables DEF Clears, IsStructure
  <2>2. UNION {Clears(u) : u \in {v}} = DOMAIN values[v].cons
    BY <2>1
  <2> QED
    BY <2>1, <2>2 DEF Pointing
<1>4. \A c \in Con : lost[c] = Cardinality({v} \X Pointing(values[v], c))
  BY <1>3
<1> HIDE DEF lost, Lost
<1>5. /\ Used' = Used \ {v}
      /\ \A u \in Used \ {v} : values'[u] = values[u]
      /\ UNION {FreedData(u) : u \in {v}} \subseteq memory
      /\ Structured' /\ Allocated'
      /\ \A c : /\ {v} \X Pointing(values[v], c) \subseteq Pointers(c)
                /\ Pointers(c)' = Pointers(c) \ ({v} \X Pointing(values[v], c))
  BY <1>1, Removing
<1>6. ~fault'
  BY <1>1, <1>5
<1>7. ASSUME NEW c \in Con
      PROVE  /\ lost[c] \in Nat /\ Cardinality(Pointers(c)) \in Nat
             /\ Cardinality(Pointers(c)') = Cardinality(Pointers(c)) - lost[c]
             /\ lost[c] <= Cardinality(Pointers(c))
  <2> DEFINE own == {v} \X Pointing(values[v], c)
  <2>1. IsFiniteSet(own) /\ Cardinality(own) = lost[c] /\ lost[c] \in Nat
    BY <1>2, <1>4, PointingFinite
  <2>2. IsFiniteSet(Pointers(c)) /\ Cardinality(Pointers(c)) \in Nat
    BY PointersFinite
  <2>3. own \subseteq Pointers(c) /\ Pointers(c)' = Pointers(c) \ own
    BY <1>5
  <2> HIDE DEF own
  <2>4. Cardinality(own) <= Cardinality(Pointers(c))
    BY <2>2, <2>3, FS_Subset
  <2>5. Cardinality(Pointers(c) \ own) = Cardinality(Pointers(c)) - Cardinality(Pointers(c) \cap own)
    BY <2>2, FS_Difference
  <2>6. Pointers(c) \cap own = own
    BY <2>3
  <2> QED
    BY <2>1, <2>2, <2>3, <2>4, <2>5, <2>6
<1>8. lost \in [Con -> Nat] /\ \A c \in Con : lost[c] <= conRefs[c]
  <2>1. lost \in [Con -> Nat]
    BY <1>7 DEF lost
  <2>2. ASSUME NEW c \in Con PROVE lost[c] <= conRefs[c]
    BY <1>7 DEF Counted
  <2> QED
    BY <2>1, <2>2
<1>9. connRefs \in Nat
  BY AliveFinite DEF Connected, Emissions
<1>10. /\ conRefs' \in [Con -> Nat]
       /\ \A c \in Con : conRefs'[c] = conRefs[c] - lost[c]
       /\ Cardinality(AliveCons') \in Nat
       /\ connRefs' = connRefs - others - Cardinality(AliveCons) + Cardinality(AliveCons')
  <2>1. conRefs \in [Con -> Nat] /\ Drop(lost, others)
    BY <1>1 DEF Counted
  <2> QED
    BY <1>8, <1>9, <2>1, Dropped
<1>11. Counted'
  <2>1. ASSUME NEW c \in Con
        PROVE  conRefs'[c] = (IF c \in heldCons' THEN 1 ELSE 0) + Cardinality(Pointers(c)')
    BY <1>7, <1>10 DEF Counted
  <2> QED
    BY <1>10, <2>1 DEF Counted
<1> QED
  BY <1>5, <1>6, <1>10, <1>11

LEMMA FreeStep == ASSUME BoxedInv, NEW v \in Slot, Free(v) PROVE BoxedInv'
<1> USE DEF BoxedInv
<1>1. /\ v \in Used /\ values[v].owner = "application"
      /\ FreeAll({v}, 0)
      /\ UNCHANGED <<heldCons, connHeld, emitting>>
  BY DEF Free
<1>2. /\ Structured' /\ Allocated' /\ Counted' /\ ~fault'
      /\ \A u \in Used \ {v} : values'[u] = values[u]
      /\ Cardinality(AliveCons') \in Nat
      /\ connRefs' = connRefs - 0 - Cardinality(AliveCons) + Cardinality(AliveCons')
  BY <1>1, FreeOne
<1>3. Emissions'
  <2>1. ASSUME NEW i \in 1..Len(emitting) PROVE values'[emitting[i].copy].owner = "emission"
    BY <1>1, <1>2, EmittedAreUsed DEF Emissions
  <2> QED
    BY <1>1, <2>1 DEF Emissions, Emission, Slot
<1>4. Connected'
  <2>1. Cardinality(AliveCons) \in Nat /\ Len(emitting) \in Nat
    BY AliveFinite DEF Emissions
  <2> QED
    BY <1>1, <1>2, <2>1 DEF Connected
<1> QED
  BY <1>2, <1>3, <1>4

LEMMA UnrefConStep == ASSUME BoxedInv, NEW k \in Con, UnrefCon(k) PROVE BoxedInv'
<1> USE DEF BoxedInv
<1> DEFINE lost == [c \in Con |-> IF c = k THEN 1 ELSE 0]
<1>1. /\ k \in heldCons /\ heldCons' = heldCons \ {k}
      /\ Drop(lost, 0)
      /\ UNCHANGED <<values, memory, connHeld, emitting, fault>>
  BY DEF UnrefCon
<1>2. \A c : Pointers(c)' = Pointers(c)
  BY <1>1 DEF Pointers, Used
<1>3. \A c \in Con : Cardinality(Pointers(c)) \in Nat
  BY PointersFinite
<1>4. lost \in [Con -> Nat] /\ \A c \in Con : lost[c] <= conRefs[c]
  BY <1>1, <1>3 DEF Counted
<1>5. connRefs \in Nat
  BY AliveFinite DEF Connected, Emissions
<1>6. /\ conRefs' \in [Con -> Nat]
      /\ \A c \in Con : conRefs'[c] = conRefs[c] - lost[c]
      /\ Cardinality(AliveCons') \in Nat
      /\ connRefs' = connRefs - 0 - Cardinality(AliveCons) + Cardinality(AliveCons')
  <2>1. conRefs \in [Con -> Nat]
    BY DEF Counted
  <2> HIDE DEF lost
  <2> QED
    BY <1>1, <1>4, <1>5, <2>1, Dropped
<1>7. Counted'
  <2>1. ASSUME NEW c \in Con
        PROVE  conRefs'[c] = (IF c \in heldCons' THEN 1 ELSE 0) + Cardinality(Pointers(c)')
    BY <1>1, <1>2, <1>3, <1>6 DEF Counted
  <2> QED
    BY <1>1, <1>6, <2>1 DEF Counted
<1>8. Connected'
  <2>1. Cardinality(AliveCons) \in Nat /\ Len(emitting) \in Nat
    BY AliveFinite DEF Emissions
  <2> QED
    BY <1>1, <1>6, <2>1 DEF Connected
<1>9. Structured' /\ Allocated' /\ Emissions'
  BY <1>1 DEF Structured, Allocated, Emissions, Used
<1> QED
  BY <1>1, <1>7, <1>8, <1>9

LEMMA UnrefConnectionStep == ASSUME BoxedInv, UnrefConnection PROVE BoxedInv'
<1> USE DEF BoxedInv
<1>1. /\ connHeld /\ connHeld' = FALSE
      /\ connRefs' = connRefs - 1
      /\ UNCHANGED <<values, memory, conRefs, heldCons, emitting, fault>>
  BY DEF UnrefConnection
<1>2. Connected'
  <2>1. Cardinality(AliveCons) \in Nat /\ Len(emitting) \in Nat /\ AliveCons' = AliveCons
    BY <1>1, AliveFinite DEF Emissions, AliveCons
  <2>2. connRefs = 1 + Cardinality(AliveCons) + Len(emitting)
    BY <1>1 DEF Connected
  <2>3. connRefs' = 0 + Cardinality(AliveCons') + Len(emitting')
    BY <1>1, <2>1, <2>2
  <2>4. connHeld' = FALSE
    BY <1>1
  <2> QED
    BY <2>3, <2>4 DEF Connected
<1>3. \A c : Pointers(c)' = Pointers(c)
  BY <1>1 DEF Pointers, Used
<1>4. Counted'
  BY <1>1, <1>3 DEF Counted
<1>5. Structured' /\ Allocated' /\ Emissions'
  BY <1>1 DEF Structured, Allocated, Emissions, Used
<1> QED
  BY <1>1, <1>2, <1>4, <1>5

LEMMA RefConStep == ASSUME BoxedInv, NEW v \in Slot, NEW f, RefCon(v, f) PROVE BoxedInv'
<1> USE DEF BoxedInv
<1> DEFINE k == values[v].cons[f]
<1>1. /\ v \in Used /\ f \in DOMAIN values[v].cons
      /\ k \notin heldCons
      /\ heldCons' = heldCons \cup {k}
      /\ conRefs' = [conRefs EXCEPT ![k] = @ + 1]
      /\ UNCHANGED <<values, memory, connHeld, connRefs, emitting, fault>>
  BY DEF RefCon
<1>2. k \in Con
  BY <1>1 DEF Structured, IsStructure
<1>3. conRefs[k] > 0
  <2>1. f \in Pointing(values[v], k)
    BY <1>1 DEF Pointing
  <2> HIDE DEF k
  <2> QED
    BY <1>1, <1>2, <2>1, PointedIsAlive
<1> HIDE DEF k
<1>4. \A c : Pointers(c)' = Pointers(c)
  BY <1>1 DEF Pointers, Used
<1>5. \A c \in Con : Cardinality(Pointers(c)) \in Nat
  BY PointersFinite
<1>6. Counted'
  <2>1. conRefs' \in [Con -> Nat] /\ heldCons' \subseteq Con
    BY <1>1, <1>2 DEF Counted
  <2>2. ASSUME NEW c \in Con
        PROVE  conRefs'[c] = (IF c \in heldCons' THEN 1 ELSE 0) + Cardinality(Pointers(c)')
    BY <1>1, <1>4, <1>5 DEF Counted
  <2> QED
    BY <2>1, <2>2 DEF Counted
<1>7. Connected'
  <2>1. AliveCons' = AliveCons
    BY <1>1, <1>2, <1>3 DEF AliveCons, Counted, Con
  <2> QED
    BY <1>1, <2>1 DEF Connected
<1>8. Structured' /\ Allocated' /\ Emissions'
  BY <1>1 DEF Structured, Allocated, Emissions, Used
<1> QED
  BY <1>1, <1>6, <1>7, <1>8

-----------------------------------------------------------------------------
(* Events.                                                                 *)

\* The fields that i3 may fill are fields of the type.
LEMMA SentFields ==
    ASSUME NEW type \in EventTypes, NEW with \in Sent(type)
    PROVE  type \in DOMAIN Boxed /\ with \subseteq DataOf(type)
<1>1. type \in DOMAIN Boxed
  BY FieldsOfEvents
<1>2. {"change"} \subseteq DataOf("generic_event")
  <2>1. Boxed["generic_event"] = i3ipcGenericEvent
    BY DEF Boxed
  <2> QED
    BY <2>1 DEF DataOf, i3ipcGenericEvent, BoxedType
<1> QED
  BY <1>1, <1>2 DEF Sent

\* The cons that come with an event are alive, each for the first time.
LEMMA NewCons ==
    ASSUME conRefs \in [Con -> Nat],
           NEW new \in SUBSET FreeCons, NEW refs,
           conRefs' = [c \in Con |-> conRefs[c] + refs[c]],
           \A c \in new : refs[c] \in Nat /\ refs[c] > 0,
           \A c \in Con \ new : refs[c] \in Nat /\ (refs[c] > 0 => conRefs[c] > 0)
    PROVE  Cardinality(AliveCons') = Cardinality(AliveCons) + Cardinality(new)
<1>1. new \subseteq Con /\ \A c \in new : conRefs[c] = 0
  BY DEF FreeCons
<1>2. ASSUME NEW c \in Con PROVE conRefs'[c] > 0 <=> (conRefs[c] > 0 \/ c \in new)
  <2>1. conRefs'[c] = conRefs[c] + refs[c] /\ conRefs[c] \in Nat
    OBVIOUS
  <2>2. CASE c \in new
    BY <1>1, <2>1, <2>2
  <2>3. CASE c \notin new
    BY <2>1, <2>3
  <2> QED
    BY <2>2, <2>3
<1>3. AliveCons' = AliveCons \cup new
  BY <1>1, <1>2 DEF AliveCons, Con
<1>4. AliveCons \cap new = {}
  BY <1>1 DEF AliveCons
<1>5. IsFiniteSet(new)
  <2>1. IsFiniteSet(Con)
    BY BoundsAssumption, FS_Interval DEF Con
  <2> QED
    BY <1>1, <2>1, FS_Subset
<1>6. Cardinality(AliveCons \cup new)
        = Cardinality(AliveCons) + Cardinality(new) - Cardinality({})
  BY <1>4, <1>5, AliveFinite, FS_Union
<1>7. /\ Cardinality({}) = 0 /\ Cardinality(AliveCons) \in Nat /\ Cardinality(new) \in Nat
  BY <1>5, AliveFinite, FS_EmptySet, FS_CardinalityType
<1> QED
  BY <1>3, <1>6, <1>7

\* Two structures with the same cons: the event and the copy of its emission.
LEMMA AddingTwo ==
    ASSUME NEW v, NEW w, v # w, v \notin Used, w \notin Used,
           NEW x, IsStructure(v, x[v]), IsStructure(w, x[w]), x[w].cons = x[v].cons, NEW c
    PROVE  Cardinality(Pointers(c) \cup PointersFrom({v, w}, x, c))
             = Cardinality(Pointers(c)) + Cardinality(Pointing(x[v], c))
                                        + Cardinality(Pointing(x[v], c))
<1> DEFINE P == Pointers(c)
           Q == P \cup PointersFrom({v}, x, c)
<1>1. IsFiniteSet(P) /\ \A p \in P : p[1] # v /\ p[1] # w
  BY PointersFinite DEF Pointers
<1>2. \A p \in PointersFrom({v}, x, c) : p[1] # w
  BY DEF PointersFrom
<1>3. \A p \in Q : p[1] # w
  BY <1>1, <1>2
<1>4. Pointing(x[w], c) = Pointing(x[v], c)
  BY DEF Pointing
<1>5. PointersFrom({v, w}, x, c) = PointersFrom({v}, x, c) \cup PointersFrom({w}, x, c)
  BY DEF PointersFrom
<1>6. Pointers(c) \cup PointersFrom({v, w}, x, c) = Q \cup PointersFrom({w}, x, c)
  BY <1>5
<1> HIDE DEF P
<1>7. IsFiniteSet(Q) /\ Cardinality(Q) = Cardinality(P) + Cardinality(Pointing(x[v], c))
  BY <1>1, AddingOne
<1> HIDE DEF Q
<1>8. Cardinality(Q \cup PointersFrom({w}, x, c)) = Cardinality(Q) + Cardinality(Pointing(x[w], c))
  <2>1. IsFiniteSet(Q) /\ IsStructure(w, x[w])
    BY <1>7
  <2> QED
    BY <1>3, <2>1, AddingOne
<1> QED
  BY <1>4, <1>6, <1>7, <1>8 DEF P

\* An event of which `with' and `cons' are there.
LEMMA EmitStep ==
    ASSUME BoxedInv, NEW type \in DOMAIN Boxed,
           NEW with, with \subseteq DataOf(type),
           NEW present, present \subseteq ConsOf(type),
           NEW cons \in [present -> FreeCons],
           NEW v \in FreeSlots, NEW w \in FreeSlots, v # w,
           Emit(type, with, cons, v, w)
    PROVE  BoxedInv'
<1> USE DEF BoxedInv
<1> DEFINE e == [type |-> type, owner |-> "nobody",
                 data |-> [f \in with |-> Cell(v, f)], cons |-> cons]
           copy == Copied(w, "emission", e)
           x == [u \in {v, w} |-> IF u = v THEN e ELSE copy]
<1>1. /\ values' = [values EXCEPT ![v] = e, ![w] = copy]
      /\ memory' = memory \cup Cells(v, with) \cup Cells(w, with \cap Boxed[type].duplicated)
      /\ conRefs' = [c \in Con |-> conRefs[c] + To(e, DOMAIN cons, c) + To(e, References(e), c)]
      /\ connRefs' = connRefs + 1 + Cardinality(Range(cons))
      /\ emitting' = Append(emitting, [e |-> v, copy |-> w])
      /\ UNCHANGED <<heldCons, connHeld, fault>>
  BY DEF Emit
<1>2. /\ v \in Slot /\ v \notin Used /\ w \in Slot /\ w \notin Used
      /\ DOMAIN cons = present /\ \A f \in present : cons[f] \in Con
  BY DEF FreeSlots, FreeCons
<1>3. /\ IsStructure(v, e) /\ DOMAIN e.data = with /\ e.cons = cons
      /\ e.owner = "nobody" /\ e.type = type
  BY <1>2 DEF IsStructure
<1> HIDE DEF e
<1>4. /\ IsStructure(w, copy) /\ copy.owner = "emission" /\ copy.cons = cons
      /\ DOMAIN copy.data = with
  BY <1>3, CopyOfStructure
<1> HIDE DEF copy
<1>5. x[v] = e /\ x[w] = copy
  OBVIOUS
<1>6. values' = [u \in Slot |-> IF u \in {v, w} THEN x[u] ELSE values[u]]
  <2>1. values' = [u \in Slot |-> IF u = w THEN copy ELSE IF u = v THEN e ELSE values[u]]
    BY <1>1, <1>2 DEF Structured
  <2> QED
    BY <1>5, <2>1
<1>7. memory' = memory \cup UNION {Cells(u, DOMAIN x[u].data) : u \in {v, w}}
  <2>1. with \cap Boxed[type].duplicated = with
    BY Tables
  <2>2. UNION {Cells(u, DOMAIN x[u].data) : u \in {v, w}} = Cells(v, with) \cup Cells(w, with)
    BY <1>3, <1>4, <1>5
  <2> QED
    BY <1>1, <2>1, <2>2
<1> HIDE DEF x
<1>8. /\ Used' = Used \cup {v, w}
      /\ \A u \in Used : values'[u] = values[u]
      /\ values'[v] = e /\ values'[w] = copy
      /\ Structured' /\ Allocated'
      /\ \A c : Pointers(c)' = Pointers(c) \cup PointersFrom({v, w}, x, c)
  <2>1. {v, w} \subseteq FreeSlots /\ \A u \in {v, w} : IsStructure(u, x[u])
    BY <1>3, <1>4, <1>5
  <2>2. /\ Used' = Used \cup {v, w}
        /\ \A u \in Used : values'[u] = values[u]
        /\ \A u \in {v, w} : values'[u] = x[u]
        /\ Structured' /\ Allocated'
        /\ \A c : Pointers(c)' = Pointers(c) \cup PointersFrom({v, w}, x, c)
    BY <1>6, <1>7, <2>1, Adding
  <2> QED
    BY <1>5, <2>2
<1> DEFINE n(c) == Cardinality(Pointing(e, c))
           refs == [c \in Con |-> n(c) + n(c)]
<1>9. ASSUME NEW c
      PROVE  n(c) \in Nat /\ IsFiniteSet(Pointing(e, c))
             /\ To(e, DOMAIN cons, c) = n(c) /\ To(e, References(e), c) = n(c)
  <2>1. n(c) \in Nat /\ IsFiniteSet(Pointing(e, c))
    BY <1>3, PointingFinite
  <2>2. References(e) = present /\ To(e, References(e), c) = n(c)
    BY <1>2, <1>3, ReferencesOfStructure
  <2> QED
    BY <2>1, <2>2
<1>10. conRefs' = [c \in Con |-> conRefs[c] + refs[c]]
  <2>1. ASSUME NEW c \in Con
        PROVE  conRefs[c] + To(e, DOMAIN cons, c) + To(e, References(e), c) = conRefs[c] + refs[c]
    BY <1>9 DEF Counted
  <2> QED
    BY <1>1, <2>1
<1>11. Counted'
  <2>1. conRefs' \in [Con -> Nat] /\ heldCons' \subseteq Con
    BY <1>1, <1>9, <1>10 DEF Counted
  <2>2. ASSUME NEW c \in Con
        PROVE  conRefs'[c] = (IF c \in heldCons' THEN 1 ELSE 0) + Cardinality(Pointers(c)')
    <3>1. Cardinality(Pointers(c) \cup PointersFrom({v, w}, x, c))
            = Cardinality(Pointers(c)) + n(c) + n(c)
      <4>1. IsStructure(v, x[v]) /\ IsStructure(w, x[w]) /\ x[w].cons = x[v].cons
        BY <1>3, <1>4, <1>5
      <4>2. Cardinality(Pointers(c) \cup PointersFrom({v, w}, x, c))
              = Cardinality(Pointers(c)) + Cardinality(Pointing(x[v], c))
                                         + Cardinality(Pointing(x[v], c))
        BY <1>2, <4>1, AddingTwo
      <4> QED
        BY <1>5, <4>2
    <3>2. Cardinality(Pointers(c)') = Cardinality(Pointers(c)) + n(c) + n(c)
      BY <1>8, <3>1
    <3>3. /\ Cardinality(Pointers(c)) \in Nat /\ n(c) \in Nat /\ heldCons' = heldCons
          /\ conRefs'[c] = conRefs[c] + n(c) + n(c)
      BY <1>1, <1>9, <1>10, PointersFinite DEF Counted
    <3> HIDE DEF n
    <3> QED
      BY <3>2, <3>3 DEF Counted
  <2> QED
    BY <2>1, <2>2 DEF Counted
<1>12. Cardinality(AliveCons') = Cardinality(AliveCons) + Cardinality(Range(cons))
  <2>1. Range(cons) \subseteq FreeCons
    BY DEF Range
  <2>2. ASSUME NEW c \in Range(cons) PROVE refs[c] \in Nat /\ refs[c] > 0
    <3>1. Pointing(e, c) # {} /\ c \in Con
      BY <1>3, <2>1 DEF Pointing, Range, FreeCons
    <3>2. n(c) # 0 /\ n(c) \in Nat
      BY <1>9, <3>1, FS_EmptySet
    <3> QED
      BY <3>1, <3>2
  <2>3. ASSUME NEW c \in Con \ Range(cons) PROVE refs[c] = 0
    <3>1. Pointing(e, c) = {}
      BY <1>3 DEF Pointing, Range
    <3>2. n(c) = 0
      BY <3>1, FS_EmptySet
    <3> QED
      BY <3>2
  <2> HIDE DEF refs
  <2>4. \A c \in Con \ Range(cons) : refs[c] \in Nat /\ (refs[c] > 0 => conRefs[c] > 0)
    BY <2>3
  <2>5. conRefs \in [Con -> Nat] /\ Range(cons) \in SUBSET FreeCons
    BY <2>1 DEF Counted
  <2> QED
    BY <1>10, <2>2, <2>4, <2>5, NewCons
<1>13. Emissions' /\ Len(emitting') = Len(emitting) + 1
  <2> DEFINE new == [e |-> v, copy |-> w]
  <2>1. new \in Emission /\ new.copy = w
    BY <1>2 DEF Emission
  <2>2. /\ emitting' \in Seq(Emission) /\ Len(emitting') = Len(emitting) + 1
        /\ Len(emitting) \in Nat
        /\ \A i \in 1..Len(emitting) : emitting'[i] = emitting[i]
        /\ emitting'[Len(emitting) + 1].copy = w
    BY <1>1, <2>1, AppendProperties DEF Emissions
  <2>3. \A i \in 1..Len(emitting) : emitting[i].copy \in Used
    BY EmittedAreUsed
  <2>4. \A i \in 1..Len(emitting') : values'[emitting'[i].copy].owner = "emission"
    BY <1>4, <1>8, <2>2, <2>3 DEF Emissions
  <2>5. \A i, j \in 1..Len(emitting') : i # j => emitting'[i].copy # emitting'[j].copy
    BY <1>2, <2>2, <2>3 DEF Emissions
  <2> QED
    BY <2>2, <2>4, <2>5 DEF Emissions, Emission, Slot
<1>14. Connected'
  <2>1. /\ Cardinality(AliveCons) \in Nat /\ Len(emitting) \in Nat
        /\ connRefs' = connRefs + 1 + Cardinality(Range(cons))
        /\ connHeld' = connHeld
    BY <1>1, AliveFinite DEF Emissions
  <2>2. Cardinality(Range(cons)) \in Nat
    <3>1. IsFiniteSet(Con)
      BY BoundsAssumption, FS_Interval DEF Con
    <3>2. Range(cons) \subseteq Con
      BY DEF Range, FreeCons
    <3> QED
      BY <3>1, <3>2, FS_Subset, FS_CardinalityType
  <2> DEFINE held == IF connHeld THEN 1 ELSE 0
  <2>3. held \in Nat /\ connHeld \in BOOLEAN /\ connRefs = held + Cardinality(AliveCons) + Len(emitting)
    BY DEF Connected
  <2> HIDE DEF held
  <2>4. connRefs' = held + Cardinality(AliveCons') + Len(emitting')
    <3>1. connRefs' = (held + Cardinality(AliveCons) + Len(emitting)) + 1 + Cardinality(Range(cons))
      BY <2>1, <2>3
    <3>2. held + Cardinality(AliveCons') + Len(emitting')
            = held + (Cardinality(AliveCons) + Cardinality(Range(cons))) + (Len(emitting) + 1)
      BY <1>12, <1>13
    <3>3. /\ held \in Nat /\ Cardinality(AliveCons) \in Nat /\ Len(emitting) \in Nat
          /\ Cardinality(Range(cons)) \in Nat
      BY <2>1, <2>2, <2>3
    <3>4. (held + Cardinality(AliveCons) + Len(emitting)) + 1 + Cardinality(Range(cons))
            = held + (Cardinality(AliveCons) + Cardinality(Range(cons))) + (Len(emitting) + 1)
      BY <3>3
    <3> QED
      BY <3>1, <3>2, <3>4
  <2> QED
    BY <2>1, <2>3, <2>4 DEF Connected, held
<1> QED
  BY <1>1, <1>8, <1>11, <1>13, <1>14

LEMMA EventStep ==
    ASSUME BoxedInv, NEW type \in EventTypes, ipc_on_data(type)
    PROVE  BoxedInv'
<1>1. PICK with \in Sent(type), present \in SUBSET ConsOf(type) :
         \E cons \in [present -> Lowest(FreeCons, Cardinality(present))] :
         \E v, w \in Lowest(FreeSlots, 2) : v < w /\ Emit(type, with, cons, v, w)
  BY DEF ipc_on_data
<1>2. PICK cons \in [present -> Lowest(FreeCons, Cardinality(present))] :
         \E v, w \in Lowest(FreeSlots, 2) : v < w /\ Emit(type, with, cons, v, w)
  BY <1>1
<1>3. PICK v \in Lowest(FreeSlots, 2), w \in Lowest(FreeSlots, 2) :
         v < w /\ Emit(type, with, cons, v, w)
  BY <1>2
<1>5. type \in DOMAIN Boxed /\ with \subseteq DataOf(type)
  BY SentFields
<1>6. /\ present \subseteq ConsOf(type) /\ cons \in [present -> FreeCons]
      /\ v \in FreeSlots /\ w \in FreeSlots /\ v # w
  <2>1. present \subseteq ConsOf(type) /\ cons \in [present -> FreeCons]
    BY DEF Lowest
  <2>2. v \in FreeSlots /\ w \in FreeSlots
    BY DEF Lowest
  <2>3. v \in Nat /\ w \in Nat /\ v < w
    BY <1>3, <2>2 DEF FreeSlots, Slot
  <2> QED
    BY <2>1, <2>2, <2>3
<1> QED
  BY <1>3, <1>5, <1>6, EmitStep

\* The innermost emission ends and takes its copy and its reference with it.
LEMMA EmissionEndsStep == ASSUME BoxedInv, EmissionEnds PROVE BoxedInv'
<1> USE DEF BoxedInv
<1> DEFINE n == Len(emitting)
           v == emitting[n].copy
<1>1. /\ emitting # <<>> /\ emitting' = SubSeq(emitting, 1, n - 1)
      /\ FreeAll({v}, 1)
      /\ UNCHANGED <<heldCons, connHeld>>
  BY DEF EmissionEnds, Last, Front
<1>2. emitting \in Seq(Emission) /\ n \in Nat /\ n >= 1
  BY <1>1, EmptySeq DEF Emissions
<1>3. n \in 1..Len(emitting)
  BY <1>2
<1>4. v \in Used /\ values[v].owner = "emission"
  BY <1>3, EmittedAreUsed DEF Emissions
<1>5. \A i \in 1..(n - 1) : /\ emitting[i] \in Emission
                            /\ emitting[i].copy \in Used \ {v}
                            /\ values[emitting[i].copy].owner = "emission"
  <2> SUFFICES ASSUME NEW i \in 1..(n - 1)
               PROVE  /\ emitting[i] \in Emission
                      /\ emitting[i].copy \in Used \ {v}
                      /\ values[emitting[i].copy].owner = "emission"
    OBVIOUS
  <2>1. i \in 1..Len(emitting) /\ i # n
    BY <1>2
  <2>2. emitting[i].copy # v
    BY <1>3, <2>1 DEF Emissions
  <2> QED
    BY <2>1, <2>2, EmittedAreUsed DEF Emissions
<1>6. /\ emitting' \in Seq(Emission) /\ Len(emitting') = n - 1
      /\ \A i \in 1..(n - 1) : emitting'[i] = emitting[i]
  <2>1. \A i \in 1..(n - 1) : emitting[i] \in Emission
    BY <1>5
  <2>2. n - 1 \in Int /\ 1 \in Int /\ (n - 1) - 1 + 1 = n - 1
    BY <1>2
  <2> HIDE DEF n
  <2>3. /\ SubSeq(emitting, 1, n - 1) \in Seq(Emission)
        /\ Len(SubSeq(emitting, 1, n - 1)) = IF 1 <= n - 1 THEN (n - 1) - 1 + 1 ELSE 0
        /\ \A i \in 1..((n - 1) - 1 + 1) : SubSeq(emitting, 1, n - 1)[i] = emitting[1 + i - 1]
    BY <2>1, <2>2, SubSeqProperties
  <2>4. \A i \in 1..(n - 1) : 1 + i - 1 = i
    OBVIOUS
  <2>5. (IF 1 <= n - 1 THEN n - 1 ELSE 0) = n - 1
    BY <1>2
  <2> QED
    BY <1>1, <2>2, <2>3, <2>4, <2>5
<1> HIDE DEF n, v
<1>7. /\ Structured' /\ Allocated' /\ Counted' /\ ~fault'
      /\ \A u \in Used \ {v} : values'[u] = values[u]
      /\ Cardinality(AliveCons') \in Nat
      /\ connRefs' = connRefs - 1 - Cardinality(AliveCons) + Cardinality(AliveCons')
  <2>1. values[v].owner # "nobody"
    BY <1>4
  <2> QED
    BY <1>1, <1>4, <2>1, FreeOne
<1>8. Emissions'
  <2>1. \A i \in 1..(n - 1) : values'[emitting'[i].copy].owner = "emission"
    BY <1>5, <1>6, <1>7
  <2>2. \A i, j \in 1..(n - 1) : i # j => emitting'[i].copy # emitting'[j].copy
    <3>1. \A i \in 1..(n - 1) : i \in 1..Len(emitting)
      BY <1>2 DEF n
    <3> QED
      BY <1>6, <3>1 DEF Emissions
  <2> QED
    BY <1>6, <2>1, <2>2 DEF Emissions, Emission, Slot
<1>9. Connected'
  <2> DEFINE held == IF connHeld THEN 1 ELSE 0
  <2>1. held \in Nat /\ connHeld \in BOOLEAN /\ connRefs = held + Cardinality(AliveCons) + n
    BY DEF Connected, n
  <2>2. Cardinality(AliveCons) \in Nat
    BY AliveFinite
  <2> HIDE DEF held
  <2>3. connRefs' = held + Cardinality(AliveCons') + Len(emitting')
    <3>1. /\ connRefs = held + Cardinality(AliveCons) + n /\ held \in Nat
          /\ Cardinality(AliveCons) \in Nat /\ n \in Nat
      BY <1>2, <2>1, <2>2
    <3>2. /\ connRefs' = connRefs - 1 - Cardinality(AliveCons) + Cardinality(AliveCons')
          /\ Cardinality(AliveCons') \in Nat /\ Len(emitting') = n - 1
      BY <1>6, <1>7
    <3> DEFINE a == Cardinality(AliveCons)
               b == Cardinality(AliveCons')
    <3> HIDE DEF a, b
    <3>3. /\ connRefs = held + a + n /\ held \in Nat /\ a \in Nat /\ n \in Nat
          /\ connRefs' = connRefs - 1 - a + b /\ b \in Nat
      BY <3>1, <3>2 DEF a, b
    <3>4. connRefs' = held + b + (n - 1)
      BY <3>3
    <3> QED
      BY <3>2, <3>4 DEF b
  <2> QED
    BY <1>1, <2>1, <2>3 DEF Connected, held
<1> QED
  BY <1>7, <1>8, <1>9

-----------------------------------------------------------------------------
(* The invariant is inductive.                                             *)

LEMMA BoxedInit == Init => BoxedInv
<1> SUFFICES ASSUME Init PROVE BoxedInv
  OBVIOUS
<1> USE DEF Init
<1>1. Used = {}
  BY DEF Used
<1>2. Structured /\ Allocated
  BY <1>1 DEF Structured, Allocated
<1>3. \A c : Pointers(c) = {}
  BY <1>1 DEF Pointers
<1>4. Cardinality({}) = 0
  BY FS_EmptySet
<1>5. Counted
  <2>1. conRefs \in [Con -> Nat] /\ heldCons = {}
    OBVIOUS
  <2>2. ASSUME NEW c \in Con
        PROVE  conRefs[c] = (IF c \in heldCons THEN 1 ELSE 0) + Cardinality(Pointers(c))
    <3>1. Cardinality(Pointers(c)) = 0 /\ conRefs[c] = 0
      BY <1>3, <1>4
    <3> QED
      BY <2>1, <3>1
  <2> QED
    BY <2>1, <2>2 DEF Counted
<1>6. Emissions
  BY EmptySeq DEF Emissions
<1>7. AliveCons = {} /\ Len(emitting) = 0
  BY DEF AliveCons
<1>8. Connected
  BY <1>4, <1>7 DEF Connected
<1> QED
  BY <1>2, <1>5, <1>6, <1>8 DEF BoxedInv

LEMMA BoxedStep == BoxedInv /\ [Next]_vars => BoxedInv'
<1> SUFFICES ASSUME BoxedInv, [Next]_vars PROVE BoxedInv'
  OBVIOUS
<1>1. CASE \/ i3ipc_connection_command \/ i3ipc_connection_get_workspaces
           \/ i3ipc_connection_get_outputs \/ i3ipc_connection_get_marks
           \/ i3ipc_connection_get_bar_config_list \/ i3ipc_connection_get_config
           \/ i3ipc_connection_get_version \/ i3ipc_connection_get_bar_config
  BY <1>1, RequestStep
<1>2. CASE i3ipc_connection_get_tree
  BY <1>2, TreeStep
<1>3. ASSUME NEW v \in Slot, Copy(v) PROVE BoxedInv'
  BY <1>3, CopyStep
<1>4. ASSUME NEW v \in Slot, Free(v) PROVE BoxedInv'
  BY <1>4, FreeStep
<1>5. ASSUME NEW v \in Slot, NEW f, RefCon(v, f) PROVE BoxedInv'
  BY <1>5, RefConStep
<1>6. ASSUME NEW c \in Con, UnrefCon(c) PROVE BoxedInv'
  BY <1>6, UnrefConStep
<1>7. CASE UnrefConnection
  BY <1>7, UnrefConnectionStep
<1>8. ASSUME NEW type \in EventTypes, ipc_on_data(type) PROVE BoxedInv'
  BY <1>8, EventStep
<1>9. CASE EmissionEnds
  BY <1>9, EmissionEndsStep
<1>10. CASE UNCHANGED vars
  <2>1. UNCHANGED <<values, memory, conRefs, heldCons, connHeld, connRefs, emitting,
                    fault>>
    BY <1>10 DEF vars
  <2>2. \A c : Pointers(c)' = Pointers(c)
    BY <2>1 DEF Pointers, Used
  <2>3. Counted'
    BY <2>1, <2>2 DEF Counted, BoxedInv
  <2>4. Connected'
    BY <2>1 DEF Connected, AliveCons, BoxedInv
  <2>5. Structured' /\ Allocated' /\ Emissions' /\ ~fault'
    BY <2>1 DEF Structured, Allocated, Emissions, Used, BoxedInv
  <2> QED
    BY <2>3, <2>4, <2>5 DEF BoxedInv
<1> QED
  BY <1>1, <1>2, <1>3, <1>4, <1>5, <1>6, <1>7, <1>8, <1>9, <1>10 DEF Next

LEMMA BoxedInvariant == Spec => []BoxedInv
BY BoxedInit, BoxedStep, PTL DEF Spec

-----------------------------------------------------------------------------
(* What it means.                                                          *)

LEMMA InvNothingDangles == BoxedInv => NothingDangles
<1> SUFFICES ASSUME BoxedInv PROVE NothingDangles
  OBVIOUS
<1> USE DEF BoxedInv
<1>1. ASSUME NEW v \in Used, NEW f \in DOMAIN values[v].data
      PROVE  values[v].data[f] = Cell(v, f) /\ values[v].data[f] \in memory
  <2>1. values[v].data[f] = Cell(v, f)
    BY DEF Structured, IsStructure
  <2> QED
    BY <2>1 DEF Allocated, Cells
<1>2. ASSUME NEW v \in Used, NEW w \in Used, v # w,
             NEW f \in DOMAIN values[v].data, NEW g \in DOMAIN values[w].data
      PROVE  values[v].data[f] # values[w].data[g]
  <2>1. values[v].data[f] = Cell(v, f) /\ values[w].data[g] = Cell(w, g)
    BY <1>1
  <2> QED
    BY <1>2, <2>1, CellsDiffer
<1>3. ASSUME NEW v \in Used, NEW f \in DOMAIN values[v].cons
      PROVE  conRefs[values[v].cons[f]] > 0
  <2> DEFINE c == values[v].cons[f]
  <2>1. c \in Con
    BY DEF Structured, IsStructure
  <2>2. Pointing(values[v], c) # {}
    BY DEF Pointing
  <2> HIDE DEF c
  <2>3. conRefs[c] > 0
    BY <2>1, <2>2, PointedIsAlive
  <2> QED
    BY <2>3 DEF c
<1> QED
  BY <1>1, <1>2, <1>3 DEF NothingDangles

LEMMA InvNothingIsLost == BoxedInv => NothingIsLost
<1> SUFFICES ASSUME BoxedInv PROVE NothingIsLost
  OBVIOUS
<1> USE DEF BoxedInv
<1>1. ASSUME NEW m \in memory
      PROVE  \E v \in Used : \E f \in DOMAIN values[v].data : values[v].data[f] = m
  <2>1. PICK v \in Used : m \in Cells(v, DOMAIN values[v].data)
    BY DEF Allocated
  <2>2. PICK f \in DOMAIN values[v].data : m = Cell(v, f)
    BY <2>1 DEF Cells
  <2>3. values[v].data[f] = m
    BY <2>2 DEF Structured, IsStructure
  <2> QED
    BY <2>3
<1>2. ASSUME NEW c \in Con
      PROVE  conRefs[c] = (IF c \in heldCons THEN 1 ELSE 0)
                 + Cardinality({p \in Used \X UNION {ConsOf(type) : type \in EventTypes} :
                       p[2] \in DOMAIN values[p[1]].cons /\ values[p[1]].cons[p[2]] = c})
  BY DEF Counted, Pointers, Fields
<1> QED
  BY <1>1, <1>2 DEF NothingIsLost

LEMMA InvConnectionEnds == BoxedInv => ConnectionEnds
<1> SUFFICES ASSUME BoxedInv PROVE ConnectionEnds
  OBVIOUS
<1> USE DEF BoxedInv
<1>1. IsFiniteSet(AliveCons) /\ Cardinality(AliveCons) \in Nat /\ Len(emitting) \in Nat
  BY AliveFinite DEF Emissions
<1>2. connRefs = 0 <=> ~connHeld /\ Cardinality(AliveCons) = 0 /\ Len(emitting) = 0
  <2>1. CASE connHeld
    <3>1. connRefs = 1 + Cardinality(AliveCons) + Len(emitting)
      BY <2>1 DEF Connected
    <3>2. connRefs # 0
      BY <1>1, <3>1
    <3> QED
      BY <2>1, <3>2
  <2>2. CASE ~connHeld
    <3>1. connRefs = 0 + Cardinality(AliveCons) + Len(emitting)
      BY <2>2 DEF Connected
    <3>2. connRefs = 0 <=> Cardinality(AliveCons) = 0 /\ Len(emitting) = 0
      BY <1>1, <3>1
    <3> QED
      BY <2>2, <3>2
  <2> QED
    BY <2>1, <2>2
<1>3. Cardinality(AliveCons) = 0 <=> AliveCons = {}
  BY <1>1, FS_EmptySet
<1>4. Len(emitting) = 0 <=> emitting = <<>>
  BY EmptySeq DEF Emissions
<1> DEFINE NoConLeft == \A v \in Used : DOMAIN values[v].cons = {}
<1>5. AliveCons = {} <=> heldCons = {} /\ NoConLeft
  <2>1. ASSUME AliveCons = {} PROVE heldCons = {}
    <3>1. ASSUME NEW c \in heldCons PROVE FALSE
      <4>1. c \in Con /\ conRefs[c] \in Nat /\ ~(conRefs[c] > 0)
        BY <2>1 DEF AliveCons, Counted
      <4> QED
        BY <4>1, FreeConsUnpointed
    <3> QED
      BY <3>1
  <2>2. ASSUME AliveCons = {}, NEW v \in Used, NEW f \in DOMAIN values[v].cons PROVE FALSE
    <3>1. values[v].cons[f] \in Con
      BY DEF Structured, IsStructure
    <3>2. Pointing(values[v], values[v].cons[f]) # {}
      BY DEF Pointing
    <3>3. conRefs[values[v].cons[f]] > 0
      BY <3>1, <3>2, PointedIsAlive
    <3> QED
      BY <2>2, <3>1, <3>3 DEF AliveCons
  <2>3. ASSUME NoConLeft, heldCons = {} PROVE AliveCons = {}
    <3>1. ASSUME NEW c \in Con PROVE conRefs[c] = 0
      <4>1. Pointers(c) = {}
        BY <2>3 DEF Pointers
      <4>2. Cardinality(Pointers(c)) = 0
        BY <4>1, FS_EmptySet
      <4> QED
        BY <2>3, <4>2 DEF Counted
    <3> QED
      BY <3>1 DEF AliveCons
  <2>4. ASSUME AliveCons = {} PROVE NoConLeft
    BY <2>2, <2>4
  <2> QED
    BY <2>1, <2>3, <2>4
<1> QED
  BY <1>2, <1>3, <1>4, <1>5 DEF ConnectionEnds

-----------------------------------------------------------------------------
(* The bounds in TypeOK.                                                   *)

\* A structure points to cons from two fields at most, and one is `old'.
LEMMA TwoFields ==
    ASSUME NEW type \in DOMAIN Boxed, NEW f \in ConsOf(type), NEW g \in ConsOf(type),
           f = "old" <=> g = "old"
    PROVE  f = g
<1>1. \/ Boxed[type].referenced = {} /\ Boxed[type].cleared = {}
      \/ Boxed[type] = i3ipcWorkspaceEvent \/ Boxed[type] = i3ipcWindowEvent
  <2>1. \/ Boxed[type] = Strings \/ Boxed[type] = i3ipcCommandReply
        \/ Boxed[type] = i3ipcVersionReply \/ Boxed[type] = i3ipcBarConfigReply
        \/ Boxed[type] = i3ipcOutputReply \/ Boxed[type] = i3ipcWorkspaceReply
        \/ Boxed[type] = i3ipcGenericEvent \/ Boxed[type] = i3ipcBarconfigUpdateEvent
        \/ Boxed[type] = i3ipcBindingEvent
        \/ Boxed[type] = i3ipcWorkspaceEvent \/ Boxed[type] = i3ipcWindowEvent
    BY DEF Boxed
  <2> QED
    BY <2>1 DEF Strings, i3ipcCommandReply, i3ipcVersionReply, i3ipcBarConfigReply,
                i3ipcOutputReply, i3ipcWorkspaceReply, i3ipcGenericEvent,
                i3ipcBarconfigUpdateEvent, i3ipcBindingEvent, BoxedType
<1>2. CASE Boxed[type].referenced = {} /\ Boxed[type].cleared = {}
  BY <1>2 DEF ConsOf
<1>3. CASE Boxed[type] = i3ipcWorkspaceEvent
  BY <1>3 DEF ConsOf, i3ipcWorkspaceEvent, BoxedType
<1>4. CASE Boxed[type] = i3ipcWindowEvent
  BY <1>4 DEF ConsOf, i3ipcWindowEvent, BoxedType
<1> QED
  BY <1>1, <1>2, <1>3, <1>4

LEMMA UpTo ==
    ASSUME NEW n \in Nat PROVE IsFiniteSet(1..n) /\ Cardinality(1..n) = n
<1>1. Cardinality(1..n) = IF 1 > n THEN 0 ELSE n - 1 + 1
  BY FS_Interval
<1>2. IsFiniteSet(1..n)
  BY FS_Interval
<1> QED
  BY <1>1, <1>2

\* A con is referenced twice by each structure at most.
LEMMA PointersBounded ==
    ASSUME Structured, NEW c PROVE Cardinality(Pointers(c)) <= 2 * MaxValues
<1> DEFINE T == Slot \X (1..2)
           side == [p \in Pointers(c) |-> <<p[1], IF p[2] = "old" THEN 1 ELSE 2>>]
<1>1. side \in [Pointers(c) -> T]
  BY DEF Pointers, Used
<1>2. ASSUME NEW p \in Pointers(c), NEW q \in Pointers(c), side[p] = side[q]
      PROVE  p = q
  <2>1. /\ p[1] = q[1] /\ (p[2] = "old" <=> q[2] = "old")
        /\ p = <<p[1], p[2]>> /\ q = <<q[1], q[2]>>
        /\ p[1] \in Used
        /\ p[2] \in DOMAIN values[p[1]].cons /\ q[2] \in DOMAIN values[p[1]].cons
    BY <1>2 DEF Pointers
  <2>2. /\ values[p[1]].type \in DOMAIN Boxed
        /\ DOMAIN values[p[1]].cons \subseteq ConsOf(values[p[1]].type)
    BY <2>1 DEF Structured, IsStructure
  <2>3. p[2] = q[2]
    BY <2>1, <2>2, TwoFields
  <2> QED
    BY <2>1, <2>3
<1>3. side \in Injection(Pointers(c), T)
  BY <1>1, <1>2, Fun_IsInj
<1>4. MaxValues \in Nat
  BY BoundsAssumption
<1>5. IsFiniteSet(T) /\ Cardinality(T) = 2 * MaxValues
  <2>1. /\ IsFiniteSet(Slot) /\ Cardinality(Slot) = MaxValues
        /\ IsFiniteSet(1..2) /\ Cardinality(1..2) = 2
    BY <1>4, UpTo DEF Slot
  <2>2. IsFiniteSet(T) /\ Cardinality(T) = Cardinality(Slot) * Cardinality(1..2)
    BY <2>1, FS_Product
  <2> HIDE DEF T
  <2> QED
    BY <1>4, <2>1, <2>2
<1> HIDE DEF T, side
<1>6. Cardinality(Pointers(c)) <= Cardinality(T)
  BY <1>3, <1>5, FS_Injection
<1> QED
  BY <1>5, <1>6

LEMMA InvTypes == BoxedInv => TypeOK
<1> SUFFICES ASSUME BoxedInv PROVE TypeOK
  OBVIOUS
<1> USE DEF BoxedInv
<1>1. MaxValues \in Nat /\ MaxCons \in Nat
  BY BoundsAssumption
<1>2. \A v \in Used : IsStructure(v, values[v])
  BY DEF Structured
<1>3. conRefs \in [Con -> 0..(2 * MaxValues + 1)]
  <2>1. ASSUME NEW c \in Con PROVE conRefs[c] \in 0..(2 * MaxValues + 1)
    <3>1. Cardinality(Pointers(c)) \in Nat /\ Cardinality(Pointers(c)) <= 2 * MaxValues
      BY PointersFinite, PointersBounded
    <3>2. conRefs[c] = (IF c \in heldCons THEN 1 ELSE 0) + Cardinality(Pointers(c))
      BY DEF Counted
    <3> QED
      BY <1>1, <3>1, <3>2
  <2> QED
    BY <2>1 DEF Counted
<1>4. connRefs \in 0..(1 + MaxCons + MaxValues)
  <2>1. Cardinality(AliveCons) \in Nat /\ Cardinality(AliveCons) <= MaxCons
    <3>1. IsFiniteSet(Con) /\ Cardinality(Con) = MaxCons
      BY <1>1, UpTo DEF Con
    <3>2. AliveCons \subseteq Con
      BY DEF AliveCons
    <3>3. Cardinality(AliveCons) <= Cardinality(Con)
      BY <3>1, <3>2, FS_Subset
    <3> QED
      BY <3>1, <3>3, AliveFinite
  <2>2. Len(emitting) \in Nat /\ Len(emitting) <= MaxValues
    <3> DEFINE N == 1..Len(emitting)
               copies == [i \in N |-> emitting[i].copy]
    <3>1. emitting \in Seq(Emission) /\ Len(emitting) \in Nat
      BY DEF Emissions
    <3>2. \A i \in N : emitting[i] \in Emission
      BY <3>1
    <3>3. copies \in [N -> Slot]
      BY <3>2 DEF Emission
    <3>4. \A i, j \in N : copies[i] = copies[j] => i = j
      BY DEF Emissions
    <3>5. IsFiniteSet(Slot) /\ Cardinality(Slot) = MaxValues
      BY <1>1, UpTo DEF Slot
    <3>6. copies \in Injection(N, Slot)
      BY <3>3, <3>4, Fun_IsInj
    <3>7. Cardinality(N) = Len(emitting)
      BY <3>1, UpTo
    <3> HIDE DEF N, copies
    <3>8. Cardinality(N) <= Cardinality(Slot)
      BY <3>5, <3>6, FS_Injection
    <3> QED
      BY <3>1, <3>5, <3>7, <3>8
  <2>3. connRefs = (IF connHeld THEN 1 ELSE 0) + Cardinality(AliveCons) + Len(emitting)
    BY DEF Connected
  <2> QED
    BY <1>1, <2>1, <2>2, <2>3
<1>5. memory \subseteq UNION {Cells(v, UNION {DataOf(type) : type \in DOMAIN Boxed}) : v \in Slot}
  <2>1. ASSUME NEW m \in memory
        PROVE  \E v \in Slot : m \in Cells(v, UNION {DataOf(type) : type \in DOMAIN Boxed})
    <3>1. PICK v \in Used : m \in Cells(v, DOMAIN values[v].data)
      BY DEF Allocated
    <3>2. PICK f \in DOMAIN values[v].data : m = Cell(v, f)
      BY <3>1 DEF Cells
    <3>3. f \in UNION {DataOf(type) : type \in DOMAIN Boxed}
      BY <1>2, <3>2 DEF IsStructure
    <3>4. m \in Cells(v, UNION {DataOf(type) : type \in DOMAIN Boxed})
      BY <3>2, <3>3 DEF Cells
    <3>5. v \in Slot
      BY DEF Used
    <3> QED
      BY <3>4, <3>5
  <2> QED
    BY <2>1
<1>6. \A i \in DOMAIN emitting : emitting[i].e \in Slot /\ emitting[i].copy \in Slot
  <2>1. emitting \in Seq(Emission)
    BY DEF Emissions
  <2>2. \A i \in DOMAIN emitting : emitting[i] \in Emission
    BY <2>1
  <2> QED
    BY <2>2 DEF Emission
<1>7. heldCons \subseteq Con /\ connHeld \in BOOLEAN /\ fault \in BOOLEAN
  BY DEF Counted, Connected
<1> QED
  BY <1>2, <1>3, <1>4, <1>5, <1>6, <1>7 DEF TypeOK, IsStructure

-----------------------------------------------------------------------------
\* Every structure has the fields of its type, and no reference count goes
\* below zero or beyond what the structures and emissions in memory account for.
THEOREM TypeCorrect == Spec => []TypeOK
BY BoxedInvariant, InvTypes, PTL

\* Whatever the application copies, keeps and frees, inside handlers or out of
\* them, no structure points to something freed, no two share data and nothing
\* is freed twice, however many structures there are (the *_copy and *_free
\* functions and ipc_on_data).
THEOREM NothingDanglesEver == Spec => []NothingDangles
BY BoxedInvariant, InvNothingDangles, PTL

\* What a structure pointed to goes with the last structure that points to it,
\* and the reference count of each con is the number of its owners.
THEOREM NothingIsLostEver == Spec => []NothingIsLost
BY BoxedInvariant, InvNothingIsLost, PTL

\* The connection is finalized with the last of its owners, the application,
\* the emissions and the cons, and a con in a structure keeps it as long as the
\* structure is in memory, which is for ever in the events that ipc_on_data
\* makes.
THEOREM ConnectionEndsWithItsOwners == Spec => []ConnectionEnds
BY BoxedInvariant, InvConnectionEnds, PTL
=============================================================================
