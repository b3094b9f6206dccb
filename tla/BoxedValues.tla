----------------------------- MODULE BoxedValues -----------------------------
(***************************************************************************)
(* Who owns the structures that the library hands out: the replies of the  *)
(* i3ipc_connection_get_* calls and the events that ipc_on_data builds.    *)
(*                                                                         *)
(* A structure points to strings, rectangles, lists and tables of its own  *)
(* and to cons it shares.  The *_copy functions start from a bitwise copy  *)
(* and must replace each of the former and reference each of the latter;   *)
(* the *_free functions must undo exactly that.  A signal handler is given *)
(* a copy that goes away after the emission, and may copy it, keep its     *)
(* cons, send requests and release the connection meanwhile.               *)
(***************************************************************************)
EXTENDS Naturals, Sequences, FiniteSets, SequencesExt

CONSTANTS
    MaxValues,   \* bound: structures in memory at a time
    MaxTypes,    \* bound: types of structures in memory at a time
    MaxCons,     \* bound: cons in memory at a time
    MaxElements  \* bound: elements of a list i3 answers with

ASSUME BoundsAssumption == {MaxValues, MaxTypes, MaxCons, MaxElements} \subseteq Nat

VARIABLES
    values,    \* [Slot -> the structure there]
    memory,    \* the allocated strings, rectangles, lists and tables
    conRefs,   \* [Con -> reference count of the con there]; 0: none
    heldCons,  \* cons the application owns a reference to
    connHeld,  \* it owns a reference to the connection
    connRefs,  \* reference count of the connection
    emitting,  \* the emissions in progress, the innermost last
    fault      \* something freed has been read or freed again

vars == <<values, memory, conRefs, heldCons, connHeld, connRefs, emitting, fault>>

Slot == 1..MaxValues
Con == 1..MaxCons

-----------------------------------------------------------------------------
(* The types.                                                              *)

\* What a *_copy function duplicates and references, and what the *_free
\* function of the same type frees and clears.
BoxedType(duplicated, referenced, freed, cleared) ==
    [duplicated |-> duplicated, referenced |-> referenced,
     freed |-> freed, cleared |-> cleared]

\* Variants: a rectangle is shared by the copies; the con of a window event is
\* not referenced; the modifiers of a binding are not freed.
SharesRect == BoxedType({"name", "output"}, {}, {"name", "output", "rect"}, {})
NoReference == BoxedType({"change"}, {}, {"change"}, {"container"})
KeepsMods == BoxedType({"command", "symbol", "input_type", "mods"}, {},
                       {"command", "input_type", "symbol"}, {})

i3ipcCommandReply == BoxedType({"error"}, {}, {"error"}, {})
i3ipcVersionReply == BoxedType({"human_readable"}, {}, {"human_readable"}, {})
i3ipcBarConfigReply ==
    BoxedType({"position", "font", "mode", "id", "status_command", "colors"}, {},
              {"id", "mode", "position", "status_command", "font", "colors"}, {})
i3ipcOutputReply == BoxedType({"name", "current_workspace", "rect"}, {},
                              {"name", "current_workspace", "rect"}, {})
i3ipcWorkspaceReply == BoxedType({"name", "output", "rect"}, {},
                                 {"name", "output", "rect"}, {})
i3ipcGenericEvent == BoxedType({"change"}, {}, {"change"}, {})
i3ipcBarconfigUpdateEvent == BoxedType({"hidden_state", "id", "mode"}, {},
                                       {"id", "hidden_state", "mode"}, {})
\* Cons that are NULL are left alone, or refused by g_object_ref.
i3ipcWorkspaceEvent == BoxedType({"change"}, {"current", "old"},
                                 {"change"}, {"current", "old"})
i3ipcWindowEvent == BoxedType({"change"}, {"container"}, {"change"}, {"container"})
i3ipcBindingInfo == BoxedType({"command", "symbol", "input_type", "mods"}, {},
                              {"command", "input_type", "symbol", "mods"}, {})
\* The structure behind `binding' and what it points to.
i3ipcBindingEvent ==
    BoxedType({"binding", "change"} \cup i3ipcBindingInfo.duplicated, {},
              {"change", "binding"} \cup i3ipcBindingInfo.freed, {})
\* A list of strings or one string, for which GLib has the functions.
Strings == BoxedType({"text"}, {}, {"text"}, {})

Boxed == [strings |-> Strings, command_reply |-> i3ipcCommandReply,
          version_reply |-> i3ipcVersionReply, bar_config_reply |-> i3ipcBarConfigReply,
          output_reply |-> i3ipcOutputReply,
          workspace_reply |-> i3ipcWorkspaceReply, generic_event |-> i3ipcGenericEvent,
          barconfig_update_event |-> i3ipcBarconfigUpdateEvent,
          workspace_event |-> i3ipcWorkspaceEvent, window_event |-> i3ipcWindowEvent,
          binding_event |-> i3ipcBindingEvent]

DataOf(type) == Boxed[type].duplicated \cup Boxed[type].freed
ConsOf(type) == Boxed[type].referenced \cup Boxed[type].cleared

-----------------------------------------------------------------------------
(* Memory.  An allocation is named by the structure it was made for and    *)
(* the field it was made for.                                              *)

Unused == [type |-> "none", owner |-> "none", data |-> <<>>, cons |-> <<>>]
Used == {v \in Slot : values[v] # Unused}

\* The n lowest members of S, where the next structures and cons go.
Lowest(S, n) == {i \in S : Cardinality({j \in S : j < i}) < n}
FreeSlots == Slot \ Used
RoomFor(type) == Cardinality({type} \cup {values[v].type : v \in Used}) <= MaxTypes
FreeCons == {c \in Con : conRefs[c] = 0}

Cell(v, f) == <<v, f>>
Cells(v, fields) == {Cell(v, f) : f \in fields}

Init ==
    /\ values = [v \in Slot |-> Unused]
    /\ memory = {}
    /\ conRefs = [c \in Con |-> 0]
    /\ heldCons = {}
    /\ connHeld = TRUE /\ connRefs = 1
    /\ emitting = <<>>
    /\ fault = FALSE

\* The application has the connection, or is in a handler that is given it.
InUse == connHeld \/ emitting # <<>>

\* The library makes structures; the fields that stay NULL are not in `with'.
New(slots, type, owner, with) ==
    /\ values' = [v \in Slot |->
                     IF v \in slots
                     THEN [type |-> type, owner |-> owner,
                           data |-> [f \in with[v] |-> Cell(v, f)], cons |-> <<>>]
                     ELSE values[v]]
    /\ memory' = memory \cup UNION {Cells(v, with[v]) : v \in slots}
    /\ UNCHANGED <<conRefs, heldCons, connHeld, connRefs, emitting, fault>>

-----------------------------------------------------------------------------
(* Requests.  A call that fails returns nothing, except where it has begun *)
(* the result before the reply is parsed.  A call that i3 does not answer  *)
(* because it has exited goes on with a NULL reply: a list is then empty,  *)
(* and a structure has no fields.                                          *)

List(type, with) ==
    /\ InUse /\ RoomFor(type)
    /\ \E n \in 1..MaxElements :
          /\ n <= Cardinality(FreeSlots)
          /\ \E each \in [Lowest(FreeSlots, n) -> with] :
                New(DOMAIN each, type, "application", each)

Structure(type, owner, with) ==
    /\ InUse /\ RoomFor(type)
    /\ FreeSlots # {}
    /\ LET slots == Lowest(FreeSlots, 1)
       IN  New(slots, type, owner, [v \in slots |-> with])

i3ipc_connection_command == List("command_reply", {{}, {"error"}})
i3ipc_connection_get_workspaces == List("workspace_reply", {{"name", "output", "rect"}})
i3ipc_connection_get_outputs ==
    List("output_reply", {{"name", "rect"}, {"name", "rect", "current_workspace"}})

i3ipc_connection_get_marks == Structure("strings", "application", {"text"})
i3ipc_connection_get_bar_config_list == Structure("strings", "application", {"text"})
i3ipc_connection_get_config == Structure("strings", "application", {"text"})

\* After a reply that cannot be parsed, nobody has the structure.
i3ipc_connection_get_version ==
    \/ Structure("version_reply", "application", {"human_readable"})
    \/ Structure("version_reply", "application", {})
    \/ Structure("version_reply", "nobody", {})

i3ipc_connection_get_bar_config ==
    \/ Structure("bar_config_reply", "application", DataOf("bar_config_reply"))
    \/ Structure("bar_config_reply", "application", {"colors"})
    \/ Structure("bar_config_reply", "nobody", {"colors"})

\* A con stands for the tree below it.
i3ipc_connection_get_tree ==
    /\ InUse
    /\ \E con \in Lowest(FreeCons, 1) :
          /\ conRefs' = [conRefs EXCEPT ![con] = 1]
          /\ heldCons' = heldCons \cup {con}
          /\ connRefs' = connRefs + 1
    /\ UNCHANGED <<values, memory, connHeld, emitting, fault>>

-----------------------------------------------------------------------------
(* Copying and freeing.                                                    *)

Copied(w, owner, original) ==
    LET table == Boxed[original.type]
    IN  [original EXCEPT
            !.owner = owner,
            !.data = [f \in DOMAIN @ |-> IF f \in table.duplicated THEN Cell(w, f) ELSE @[f]]]

References(value) == {f \in DOMAIN value.cons : f \in Boxed[value.type].referenced}
To(value, fields, c) == Cardinality({f \in fields : value.cons[f] = c})

\* i3ipc_*_copy of what is in v, by the application.
Copy(v) ==
    /\ v \in Used
    /\ values[v].owner \in {"application", "emission"}
    /\ FreeSlots # {}
    /\ \E w \in Lowest(FreeSlots, 1) :
          LET copy == Copied(w, "application", values[v])
          IN  /\ values' = [values EXCEPT ![w] = copy]
              /\ memory' = memory \cup Cells(w, DOMAIN copy.data \cap Boxed[copy.type].duplicated)
    /\ conRefs' = [c \in Con |-> conRefs[c] + To(values[v], References(values[v]), c)]
    /\ fault' = (fault \/ \E f \in DOMAIN values[v].data : values[v].data[f] \notin memory)
    /\ UNCHANGED <<heldCons, connHeld, connRefs, emitting>>

FreedData(v) == {values[v].data[f] : f \in DOMAIN values[v].data \cap Boxed[values[v].type].freed}
Clears(v) == DOMAIN values[v].cons \cap Boxed[values[v].type].cleared

\* Variant: a con that is finalized keeps its reference to the connection.
KeepsConnection(lost) == {}

\* The cons that are finalized, and let go of the connection.
Finalized(lost) == {c \in Con : lost[c] > 0 /\ conRefs[c] = lost[c]}

\* Cons lose references, and the connection those of the cons that are gone.
Drop(lost, others) ==
    /\ conRefs' = [c \in Con |-> conRefs[c] - lost[c]]
    /\ connRefs' = connRefs - others - Cardinality(Finalized(lost))

\* i3ipc_*_free of the structures in S; others: further references to the
\* connection that go.
FreeAll(S, others) ==
    /\ values' = [v \in Slot |-> IF v \in S THEN Unused ELSE values[v]]
    /\ memory' = memory \ UNION {FreedData(v) : v \in S}
    /\ Drop([c \in Con |-> Cardinality({p \in S \X UNION {Clears(v) : v \in S} :
                              p[2] \in Clears(p[1]) /\ values[p[1]].cons[p[2]] = c})],
            others)
    /\ fault' = (fault \/ ~(UNION {FreedData(v) : v \in S} \subseteq memory))

Free(v) ==
    /\ v \in Used
    /\ values[v].owner = "application"
    /\ FreeAll({v}, 0)
    /\ UNCHANGED <<heldCons, connHeld, emitting>>

\* The application keeps a con of a structure it has or is given.
RefCon(v, f) ==
    /\ v \in Used
    /\ values[v].owner \in {"application", "emission"}
    /\ f \in DOMAIN values[v].cons
    /\ values[v].cons[f] \notin heldCons
    /\ heldCons' = heldCons \cup {values[v].cons[f]}
    /\ conRefs' = [conRefs EXCEPT ![values[v].cons[f]] = @ + 1]
    /\ UNCHANGED <<values, memory, connHeld, connRefs, emitting, fault>>

UnrefCon(c) ==
    /\ c \in heldCons
    /\ heldCons' = heldCons \ {c}
    /\ Drop([k \in Con |-> IF k = c THEN 1 ELSE 0], 0)
    /\ UNCHANGED <<values, memory, connHeld, emitting, fault>>

UnrefConnection ==
    /\ connHeld
    /\ connHeld' = FALSE
    /\ connRefs' = connRefs - 1
    /\ UNCHANGED <<values, memory, conRefs, heldCons, emitting, fault>>

-----------------------------------------------------------------------------
(* Events.  The emission has a copy of the structure that ipc_on_data has  *)
(* made and a reference to the connection.                                 *)

\* The cons of an event may be missing, and so is all that a displaced answer
\* to a subscription lacks.
Sent(type) == IF type = "generic_event" THEN {{}, {"change"}} ELSE {DataOf(type)}

\* i3's event, made in v, is emitted, with its copy in w.
Emit(type, with, cons, v, w) ==
    LET e == [type |-> type, owner |-> "nobody",
              data |-> [f \in with |-> Cell(v, f)], cons |-> cons]
        copy == Copied(w, "emission", e)
    IN  /\ values' = [values EXCEPT ![v] = e, ![w] = copy]
        /\ memory' = memory \cup Cells(v, with)
                       \cup Cells(w, with \cap Boxed[type].duplicated)
        /\ conRefs' = [c \in Con |-> conRefs[c] + To(e, DOMAIN cons, c)
                                       + To(e, References(e), c)]
        /\ connRefs' = connRefs + 1 + Cardinality(Range(cons))
        /\ emitting' = Append(emitting, [e |-> v, copy |-> w])
        /\ UNCHANGED <<heldCons, connHeld, fault>>

ipc_on_data(type) ==
    /\ connRefs > 0 /\ RoomFor(type)
    /\ Cardinality(FreeSlots) >= 2
    /\ \E with \in Sent(type), present \in SUBSET ConsOf(type) :
          /\ Cardinality(present) <= Cardinality(FreeCons)
          /\ \E cons \in [present -> Lowest(FreeCons, Cardinality(present))] :
                /\ IsInjective(cons)
                /\ \E v, w \in Lowest(FreeSlots, 2) : v < w /\ Emit(type, with, cons, v, w)

\* g_signal_emit returns, and with it ipc_on_data, which keeps the event.
EmissionEnds ==
    /\ emitting # <<>>
    /\ FreeAll({Last(emitting).copy}, 1)
    /\ emitting' = Front(emitting)
    /\ UNCHANGED <<heldCons, connHeld>>

-----------------------------------------------------------------------------
EventTypes == {"workspace_event", "generic_event", "window_event",
               "barconfig_update_event", "binding_event"}

Next ==
    \/ i3ipc_connection_command
    \/ i3ipc_connection_get_workspaces
    \/ i3ipc_connection_get_outputs
    \/ i3ipc_connection_get_marks
    \/ i3ipc_connection_get_bar_config_list
    \/ i3ipc_connection_get_config
    \/ i3ipc_connection_get_version
    \/ i3ipc_connection_get_bar_config
    \/ i3ipc_connection_get_tree
    \/ \E v \in Slot : Copy(v) \/ Free(v)
    \/ \E v \in Slot, f \in UNION {ConsOf(type) : type \in EventTypes} : RefCon(v, f)
    \/ \E c \in Con : UnrefCon(c)
    \/ UnrefConnection
    \/ \E type \in EventTypes : ipc_on_data(type)
    \/ EmissionEnds

Spec == Init /\ [][Next]_vars

-----------------------------------------------------------------------------
(* Properties.                                                             *)

\* Every variable has the type its declaration promises.
TypeOK ==
    /\ \A v \in Used :
          /\ values[v].type \in DOMAIN Boxed
          /\ values[v].owner \in {"application", "emission", "nobody"}
          /\ DOMAIN values[v].data \subseteq DataOf(values[v].type)
          /\ DOMAIN values[v].cons \subseteq ConsOf(values[v].type)
    /\ memory \subseteq UNION {Cells(v, UNION {DataOf(type) : type \in DOMAIN Boxed}) : v \in Slot}
    /\ conRefs \in [Con -> 0..(2 * MaxValues + 1)]
    /\ heldCons \subseteq Con
    /\ connHeld \in BOOLEAN
    /\ connRefs \in 0..(1 + MaxCons + MaxValues)
    /\ \A i \in DOMAIN emitting : emitting[i].e \in Slot /\ emitting[i].copy \in Slot
    /\ fault \in BOOLEAN

\* Whatever is copied, kept and freed in which order, from inside or outside a
\* handler: no structure points to something freed, no two share data, and
\* nothing is freed twice (the *_copy and *_free functions).
NothingDangles ==
    /\ ~fault
    /\ \A v \in Used : \A f \in DOMAIN values[v].data : values[v].data[f] \in memory
    /\ \A v, w \in Used : v # w =>
          \A f \in DOMAIN values[v].data, g \in DOMAIN values[w].data :
              values[v].data[f] # values[w].data[g]
    /\ \A v \in Used : \A f \in DOMAIN values[v].cons : conRefs[values[v].cons[f]] > 0

\* Nothing outlives the structures that point to it and the references the
\* application owns (the *_copy and *_free functions).
NothingIsLost ==
    /\ \A m \in memory : \E v \in Used : \E f \in DOMAIN values[v].data : values[v].data[f] = m
    /\ \A c \in Con :
          conRefs[c] = (IF c \in heldCons THEN 1 ELSE 0)
              + Cardinality({p \in Used \X UNION {ConsOf(type) : type \in EventTypes} :
                                p[2] \in DOMAIN values[p[1]].cons /\ values[p[1]].cons[p[2]] = c})

\* The connection is finalized exactly when the application and the emissions
\* have let go of it and no con is left, in the application's hands or in a
\* structure: never under a con that could still ask it, and never later.
ConnectionEnds ==
    connRefs = 0 <=> /\ ~connHeld /\ heldCons = {} /\ emitting = <<>>
                     /\ \A v \in Used : DOMAIN values[v].cons = {}
=============================================================================
