# A formal model of i3ipc-GLib

TLA+ modules, TLC configurations and TLAPS proofs for the library in
`src/i3ipc-glib/`. Line numbers below refer to files of that directory;
`PROJECT.json` maps every definition to its lines.

## The system

i3ipc-GLib is a single-threaded GObject client of the window manager i3. An
`i3ipcConnection` holds **two** sockets to the same i3 process:

* `cmd_channel` carries commands and queries;
* `sub_channel` carries SUBSCRIBE requests, their replies, *and* every event.

A request is synchronous: `i3ipc_connection_message` writes it and then reads
the next message of the channel. Events are asynchronous: the GLib main loop
polls `sub_channel` and calls `ipc_on_data`, which reads the next message and
emits a signal. Nothing compares the type or the sender of a message with what
is expected, so everything depends on who reads when.

### Inventory

| Component | State | Operations | What makes it hard | Must hold | Module |
|---|---|---|---|---|---|
| Session (`i3ipc-connection.c` 445-658, 720-1038) | `subscriptions`, connected closures, both sockets' queues, i3's own subscriptions | message, command, subscribe, on, `ipc_on_data` | replies and events share a channel; blocking calls; i3 exits between any two steps | who gets which message; calls return; what the connection believes i3 believes | `IpcSession`, `EventFeed` |
| Lifecycle (117-148, 308-440, 660-715, 776-779) | `socket_path`, `connected`, `init_error`, both channels, sources of the main loop | new, constructed, initable_init, dispose, finalize | initialisation runs twice, each step may fail, the source outlives the object, one GError has several owners | usable objects have two open channels and a watched one; sockets are owned | `Lifecycle` |
| Main loop (529-537, 1570-1611) | `main_loop`, stack of loops and handlers | main, main_with_context, main_quit, shutdown | nesting, several contexts, a loop started late | the loop told to quit is the right one, and ends | `MainLoop` |
| Con tree (`i3ipc-con.c` 234-287, 447-1094) | children (owned), parent (weak), reference counts, connection reference | con_new, ref/unref, dispose/finalize, root, descendents, leaves, searches, workspace(s), scratchpad, command(_children) | part of a tree outlives the rest; recursive release | no dangling parent, nothing reachable is freed, walks work on partial trees | `ConTree` |
| Framing (445-508, 720-755) | bytes read and written | ipc_recv_message, ipc_send_message | short reads, lengths, i3 gone inside a message | message boundaries and order are kept; a read returns | `Framing`, `MessageChannel` |
| Queries (1049-1568) | none | get_workspaces ... get_config | no reply, a reply that cannot be parsed, ownership on error paths | each result has one owner | `BoxedValues`, with `IpcSession` for the request and `ConTree` for the tree |
| Boxed types (`i3ipc-event-types.c`, `i3ipc-reply-types.c`; 511-658) | owned fields, shared cons, the copy an emission is given | copy, free, emission of an event | bitwise copies, NULL members, shared cons, handlers that keep what they are given | each allocation freed once, nothing shared | `BoxedValues` |
| Properties and type registration; tests, example, build, packaging | - | - | - | - | not modelled |

Interaction: `ipc_on_data` (Session) ends the loop (Main loop) and emits on the
object (Lifecycle) a structure (Boxed types); a con (Con tree) holds a reference
to the connection and sends commands through Session; `g_object_unref` of the
connection is what Lifecycle calls `Unref`. Session takes its messages from
Framing: `MessageChannel` is the promise between the two, checked of `Framing`
and assumed by `IpcSession`, whose queues hold whole messages.

## Modules

### `IpcSession` (checked through `MCIpcSession`, proved in `IpcSessionProofs`)

One established connection and one i3 process. `toI3[c]` and `fromI3[c]` are the
two directions of each socket. `call` is the blocking call in progress:
`i3ipc_connection_message` sets it when the request is written (or sets `result`
at once if i3 has closed the socket, in which case the request stays in the write
buffer of its channel, `unsent`), and `Receive` ends it with the next
message, the end of the stream, or an error, doing what the callers
(`i3ipc_connection_command`, `_subscribe`, `_on`) do with that outcome.
`ipc_on_data` is enabled only when no call blocks the thread. It flushes the channel
before it reads, and a flush with a refused request in the buffer fails, each time:
`DispatchMessage` and `DispatchEof` need `Flushable`, and `DispatchError` is what is
left of `ipc_on_data` without it.
`I3Answer`, `I3Publish` and `I3Exit` are the external i3: an event may be written
between reading a subscription and the next request, and i3 may exit with
requests unread, or on the request it has just read.

`requests`, `signals`, `swallowed` and the `id` fields are history: they number
requests and events so that the properties can say which one was taken by whom.

Abstractions: messages are whole (`Framing` shows why they may be); the JSON of a message is its
kind, so a missing member (`success` in an event, `change` in a reply) is what
json-glib returns for it, FALSE or NULL; i3 grants every subscription; a signal
handler that calls into the library is the same call made right after the
emission, because `ipc_on_data` uses no connection state after emitting an event;
names that `i3ipc_connection_on` does not know only connect a closure and are
left out; event bits outside the enumeration are left out. Writing to an i3 that
is gone is modelled as the error EPIPE: a program that keeps the default action
of SIGPIPE dies there instead. A socket that i3 closed with requests unread gives
ECONNRESET once, after the data it had delivered, then the end of the stream.
When an error of the flush or the read makes `ipc_on_data` free the unset `reply`
(line 542) the process may or may not survive (`crashed' \in BOOLEAN`).

### `EventFeed`

What a connection promises about events, without requests, replies or sockets:
a feed consumed in order, in which an event may be lost and a stray signal may
stand in for a lost one, and whose end is announced when it is empty.
`IpcSession` implements it: `Feed` maps the events still queued, the signals
emitted and the events swallowed by calls to the variables of the feed, and
`ImplementsFeed` is `Feed!Spec`. The mapping needs the history variables, because
the code itself forgets what it swallowed.

### `Lifecycle`

One object from `g_object_new` or `i3ipc_connection_new` to its end. The second
goes through `g_initable_new`, which constructs the object and then calls the
initialisation that `constructed` (line 145) has called already; `run` counts
them. `pc` walks the steps of `initable_init` while i3 starts and exits between
them. Sockets are numbered by the run that opened them, so a leaked socket is a
member of `open` that is neither `cmd` nor `sub`; `watches` are the sources
attached to the main loop, which nothing removes at dispose. `fault` records
undefined behaviour: a second free of the one shared `GError`
(`"error"`), the free of a `reply` that was not set (`"reply"`), `ipc_on_data` on a finalized object (`"self"`), a handler of
`ipc_shutdown` that released the connection whose `main_loop` is read next
(`"released"`), and the endless read loop on a closed descriptor that got reused
(`"spin"`). `ipc_on_data` is `OnEof` or, when its flush or its read fails, `OnError`:
`resets` are the sockets whose next read fails, `unsent` those whose channel has a
refused subscription (`RefusedSubscription`) and never flushes again.
`get_file_descriptor` without a connection may or may not leave a
socket open (`LeftOpen`). Failures of the X server are not modelled, nor is the
truncation of long paths; `g_io_channel_set_encoding(NULL)` cannot fail, so its
error branches (694-704) are dead.

### `MainLoop`

`main_loop` is the field; `stack` is what the thread really runs: loops and the
handlers they dispatch, which may call any function of the API. A loop goes in
iterations: `Poll` finds the source of the connection ready, or not, and up to
`MaxReady` sources of the application (`polled`, `apps`), and all of them are
dispatched before the loop looks whether it was told to quit. A loop inside a handler
iterates on its own, and discards what an outer iteration on the same context had
still to dispatch (`Discarded`). The source of the connection belongs to the default
context (line 706) and is not dispatched again from inside its own handler.
`DispatchWatch` is an event, the end of the stream, or an error of the flush or the
read, which leaves the source and calls no handler; `RefusedSubscription` makes the
flush fail for good. `Nesters` names the handlers from which the application starts
loops.

### `ConTree`

`tree` is any reply: `Init` ranges over every shape, type and name within the
bounds that i3 can send (`TreeOfI3`: workspaces do not nest and only they have
floating children). `Kinds` are the type and name pairs a con may have; `MCConTree`
gives the ones that the walks tell apart. `i3ipc_con_new` builds all its cons at
once. `ReleaseOne` is a single `g_object_unref` of the recursion in
`i3ipc_con_finalize`, so invariants hold at every moment of a release. The walks
are functions of the state and are checked on everything the application can have
left of a tree; a dereference of a NULL parent is an application of a function
outside its domain, which TLC reports. The matching of a regular expression, an
id, a window or the focus is a set of cons `wanted`, and `Select` is the loop that
keeps the matching ones of a list.

### `Framing` and `MessageChannel`

One socket from i3 to the client, byte by byte. A byte is a record that says
which message it belongs to and at which place, so that a reply put together
wrongly is visible; the magic, the length and the type take one byte each
(`to_read` is 3, not 14). `Modulus` stands for 2^32. `g_io_channel_fill_buffer`
moves a chunk of any size up to `BufSize` from the socket into the channel's
buffer; `ReadHeader` and `ReadBody` are the two loops of `ipc_recv_message`, one
iteration at a time, with `read_bytes` overwritten and not added to, as in the
code. i3 writes a message (`I3Write`) into the socket in parts of any size
(`I3Send`); `held` is what has not got there, and `I3Exit` loses it: the stream is
cut after any byte and left ended or reset. i3 may also stop in the middle of a
message and go on running. An error that GLib meets after some bytes is dropped with them (`ReadsBytes`). A
header whose length was not read gives any length in `Lengths`. The flush at the
start fails for a request that cannot be written (`FlushFails`), and from then on in
every call, because the channel keeps the request (`unsent`). Writing behind
the end of the reply sets `overrun`; nothing is said of the process after that
(`Halted`).

`MessageChannel` is the abstract channel: whole messages in order, then an error
or the end. `Framing` implements it (`ImplementsChannel`, proved in `ChannelProofs`).

### `BoxedValues`

Who owns the replies and events. For each type, `BoxedType` lists the fields its
`*_copy` function duplicates or references and those its `*_free` function frees
or clears, read off the two functions separately. A copy starts from the bits of
the original, so a field that is not duplicated is shared. An allocation is named
by the structure and the field it was made for; `memory` is what is allocated,
`fault` that something freed was read or freed again. Owners are `"application"`,
`"emission"` (the copy g_signal_emit makes of a boxed argument and frees after the
handlers) and `"nobody"`: the event structure that `ipc_on_data` allocated and
forgets, and the structure of `get_bar_config` or `get_version` when the reply
cannot be parsed. The structure of an event thus stays, with its con, whose reference
keeps the connection: this leak is in the model, and `NothingIsLost` and
`ConnectionEnds` count its structure among the owners, so that they would hold of a
corrected `ipc_on_data` as well. A request that i3 did not answer goes on with a NULL reply and
yields empty lists and structures without fields. The cons here are whole trees
(their inside is `ConTree`'s), each with its reference to the connection.

## Runs

`MaxEvents`, `MaxRequests`, `MaxStarts`, `MaxHeld`, `MaxLoops`, `MaxDepth`,
`MaxReady`, `MaxCons`, `MaxRefs`, `MaxMessages`, `MaxValues`, `MaxTypes` and `MaxElements` are
the bounds; each is a guard of the action it bounds. `Modulus` and `BufSize` are
sizes of the code, made small.

| Run | Properties | Bounds and why they are enough |
|---|---|---|
| `session` | `TypeOK`, `ToldToI3`, `AwaitedReplyComing`, `CommandReplyIsOwn`, `FirstSubscribeIsClean`, `EachLossLeavesOneStray`, `EventFate`, `DrainedBeforeShutdown`, `CallsReturn`, `ShutdownSignalled`, `ImplementsFeed` | two event types (one whose number is that of the SUBSCRIBE reply), 2 events, 3 requests per channel: a swallowed event, its displaced reply, and a third subscription that takes that reply |
| `lifecycle` | `TypeOK`, `MessageHasChannels`, `EventsAreWatched`, `OneInitOwnsItsSockets`, `ShutdownOncePerInit`, `ShutdownHeard` | 2 paths, i3 started 3 times: once before each initialisation and once after |
| `main_loop` | `TypeOK`, `QuitReachesInnermost`, `LossEndsWaitingMain` | 3 loops in a stack of 6, 2 events, 2 sources of the application ready in one poll, both contexts: a loop in a handler in a loop in a handler in a loop, with handlers of every kind, and sources still to be dispatched at each level |
| `con_tree` | `TypeOK`, `ParentIsAlive`, `ReachableIsAlive`, `ConnectionOutlivesCons`, `RootReachesAll`, `DescendentsInReplyOrder`, `SearchesAgree`, `ScratchpadFound`, `LeavesAreLeaves`, `OwnWorkspaceListed` | every tree of up to 4 cons of the kinds the walks distinguish, 2 references: chains as long as the path to the scratchpad, and both kinds of children |
| `framing` | `TypeOK`, `RepliesAreBodies`, `ShortReadsEndTheStream`, `OnlyTheLargestOverruns`, `ImplementsChannel`, `RecvReturns` | 3 messages of 0 to 3 bytes, each sent in parts of any size, a modulus of 4, so that the largest length wraps, and a buffer of 4, so that a chunk ends inside headers and bodies and spans two messages |
| `boxed_values` | `TypeOK`, `NothingDangles`, `NothingIsLost`, `ConnectionEnds` | 4 structures of 2 types at a time, 2 cons, lists of 2: an event, the copy of its emission, a copy the handler keeps and another structure; both cons of a workspace event |

What they show, in short. A connection that pairs nothing with anything is still
right about a good deal: commands always get their own answer; a call is never
stuck on an i3 that runs; the guard that skips a subscription is never wrong; a
program that subscribes once loses nothing. After a second subscription, each
lost event leaves exactly one reply astray, for good, and the events are never worse
than a feed with gaps. An object in use always
has two open channels and hears of the end of i3, even when its two
initialisations fare differently or a read fails first, with one exception: it must
not have subscribed to anything once i3 was gone. The field `main_loop` is NULL or the innermost
loop, at any nesting. The tree is safe in any order of release, and every walk
works on every part of it, for the trees i3 sends. `ipc_recv_message` keeps
messages together although it miscounts short reads: the channel is buffered and
the socket blocks, so a short read is always the last. (With an unbuffered channel
`ShortReadsEndTheStream` fails at once, which is the mutant of that property.) A read
waits for ever only when i3, running, sends no whole message. No
copy of a reply or event shares anything with its original, each allocation has a
structure that owns it, and the connection lasts exactly as long as the application,
an emission or a con needs it.

Deadlock is checked in `session`, `main_loop` and `framing`. It is not in
`lifecycle`, `con_tree` and `boxed_values`: an object that is gone, and a tree or
a structure that is released, really stop. Nor is it in `doc_main_custom_context`,
where the loop has nothing left to dispatch, which is the point.

Six more runs each check one statement of the repository's own documentation and
show what the code does instead (`findings` in `PROJECT.json` quotes the lines):

| Run | The documentation says | The code |
|---|---|---|
| `doc_event_describes_change` | the event object describes what has changed | a displaced reply is emitted as `mode` with a NULL change |
| `doc_shutdown_signalled_once` | `ipc_shutdown` is sent when the ipc has shut down | connections of `i3ipc_connection_new` emit it twice |
| `doc_errors_freed_once` | `err` may be NULL | the one `GError` is freed by several owners |
| `doc_emitted_on_live_connection` | `self` is the connection of the signal | `ipc_on_data` may run on a finalized object |
| `doc_main_custom_context` | the loop ends when the connection is lost | not on another context |
| `doc_reply_is_a_string` | the reply of the ipc is returned as a string | cut inside the body, it is returned unterminated and without an error |

`LossEndsMain` gives the documentation the benefit of the doubt: it asks for the end
of the loop only where the loss is still to be reported and no subscription was
refused.

The models have other behaviours of this kind that no run states. After a
subscription that a dead i3 refuses, every flush of `sub_channel` fails (454-459), so
that `ipc_on_data` returns at 544 each time, never reads the end of the stream, never
emits `ipc_shutdown` and never ends the loop, which spins; `ShutdownSignalled`,
`ShutdownHeard` and `LossEndsWaitingMain` name this as their exception. A message that
i3 leaves unfinished blocks the main loop (494), and `RecvReturns` does not cover that
read. The structure of each event is freed by nobody (601), so a connection that has
dispatched one with a con is never finalized. And from lines that a run above is
about: a subscription may swallow a `mode` event, so that a change
of mode is not signalled (797); `i3ipc_connection_subscribe` may return an event read as
a refusal (`result.got = "event"`, 797); at the end of the stream
`i3ipc_connection_message` returns NULL without an error (`result.got = "eof"`, 804);
a connected object may refuse every request with the error of its first
initialisation (`connected /\ initError`, 776); a loop started after the end of
the stream was reported, or one that had another run from a handler, is not ended
by the loss (536, 1579); and `i3ipc_con_workspaces` misses a workspace that is the
top of what is left of a tree (`i3ipc-con.c` 800).

## Fairness

Weak fairness of what the thread and i3 do of themselves; nothing else. A step that
may be undefined behaviour may always turn out harmless, so no property relies on the
process dying: the fair steps are those after which it lives (`~crashed'`,
`fault' # "reply"`).

* `IpcSession`: a read that can return does (`Receive`), the application returns to
  its main loop and the loop dispatches (`ipc_on_data`), and i3 answers what it has
  read while it runs (`I3Answer`). i3 need not exit or publish anything. Once i3
  is gone, a call in progress ends by `Receive` and every later one is refused in the
  step it begins in, so that the source stays ready and is dispatched.
* `Lifecycle`: the constructor goes on and the main loop runs.
* `Framing`: a blocking read returns once it can: more bytes, a whole message or
  the end. i3 need not write, finish a message or exit.
* `MainLoop`: handlers return, a loop told to quit ends, a loop whose source of the
  connection is ready polls, and what it polled is dispatched. No fairness between
  sources is assumed: that the source of the connection gets its turn follows from
  `Poll`. `ipc_on_data` has the default priority, and one iteration of a GLib context
  dispatches *all* ready sources of the highest ready priority; the sources of the
  application are taken to have that priority or a lower one.

## Proofs

Eight modules, for every value of the constants, from the named assumptions of the
modules they extend only.

### `IpcSessionProofs`

* `TypeCorrect`: `Spec => []TypeOK`, inductive as it stands. It carries one fact
  about the code, that masking the type of any message i3 sends leads to a
  declared signal (`SignalOfType`).
* `SubscriptionsToldToI3`: `ToldToI3` is inductive with `TypeOK`; the heart is that
  `Receive` only ever moves `call.events`, which were put on their way to i3 when
  the call began, into `subscriptions` and `handlers`, whichever message came.
* `ShutdownAfterDrain`: the dead i3 writes nothing.
* `CommandsGetTheirAnswer`: `CommandReplyIsOwn` is not inductive. The invariant
  `CommandInv` adds `CommandChannelExclusive`: `cmd_channel` is empty between
  commands, and holds either the request or its answer during one. Lemmas
  `CommandSends`, `CommandReceives`, `CommandAnswered` and `CommandUntouched` treat
  the actions that touch the channel and those that do not.
* `CallsHaveAnAnswerComing`: `AwaitedReplyComing` is inductive with `TypeOK`; the
  lemmas say what appending to and taking from a queue does to the requests and
  replies in it. That nothing but the call itself reads a reply while it waits is
  what the guard `InMainLoop` gives.

### `EventFateProofs`

Many actions do the same thing to the events. Each step is first shown to have one
of seven *effects*: nothing (`Kept`), i3 gone (`Exited`), an event published
(`Published`), an answer queued (`Replied`), a message signalled (`Signalled`) or
taken by a call (`Taken`), the end announced (`Announced`). Everything else is
proved of the effects.

* `EveryEventHasOneFate`: `EventFate`, from `FateInv`, which adds that the events in
  the queue are in the order of their numbers, each once, and newer than whatever
  has left it.
* `LossesBalanceStrays`: `EachLossLeavesOneStray`, from `StrayInv`. The counts are
  cardinalities of sets of queue positions; a taken event adds to the losses what
  the reply it displaced adds to the replies left over.
* `FirstSubscriptionClean`: `FirstSubscribeIsClean`, from `FirstInv`: until the
  second subscription nothing has been taken and the only answer in the queue is
  the one that is waited for.
* `SessionImplementsFeed`: `Spec` implies `Feed!Spec`. Each effect
  is a step of the feed or a stutter.

### `LifecycleProofs`

`LifeInv` is `TypeOK`, `Progress` (which step goes with which run and state),
`Channels` (the channels are open, those of the initialisation in progress and in
the end those of the last), `OneInit` (what an object initialised once owns) and `Sources`
(the sources and the signals emitted, per initialisation; it holds through errors,
which leave both alone: `OnErrorStep`). From it follow
`TypeCorrect`, `ChannelsOpen`, `Watched`, `OwnSockets` and `ShutdownPerInit`.

### `MainLoopProofs`

`TypeCorrect` for every depth, and `QuitsInnermost`: the field names the innermost
loop that has not ended, because a loop is only started and only finished on the top
of the stack. What iterations do, to poll, discard and take sources, changes no number
of a loop (`SameFrames`).

### `ConTreeProofs`

For a tree of any size and shape. `ParentsAlive`: `priv->parent` names a con that
exists at every moment of a release. The step that matters is the last unref of a
con, which clears the pointers of all its children before the con is gone.

`TypeCorrect`, `ConnectionsOutliveCons` and `WhatIsReachableIsAlive` come from
`TreeInv`, which says where each reference is:

* `Counted`: a con has one reference for the application that holds it, one for the
  list of its parent while the parent exists, and one if it is about to lose one;
* `Releasing`: no con is twice among those about to lose a reference, and all of
  them but the first have lost their parent. Without it the release of a con could
  queue a child that is there already;
* `Connected`: the connection has a reference for each con that exists;
* `Shape`: a con is built before what it contains, so its number is the smaller.

That a con exists only when it is in or below one that is held is then an induction
over the tree, done by the least con that would break it: its parent has a smaller
number, so it is in or below one that is held, and so is the con itself. `Ranks` and
`Least` are what this needs of finite sets of numbers.

The walks: `RootsReachAll`, `DescendentsAreListed`, `AllSearchesAgree`,
`LeavesAreListed`, `OwnWorkspacesAreListed` and `ScratchpadsAreFound` are the six
properties of the run, for every tree and whatever has been released of it.
`WorkspacesAreListed` and `MatchesAreListed` say more than the run asks: exactly which
cons `i3ipc_con_workspaces` and the searches list, and in which order. The invariant is
`WalkInv`, which adds to `TreeInv`

* `Layout`: the tree is numbered in the order in which `i3ipc_con_new` makes the cons,
  and is one that i3 sends. Neither changes, but all that is below a con depends on them;
* `Pointers`: `priv->parent` is the con whose list has the con as long as that con
  exists, and NULL after that. `ParentIsAlive` says only that it does not dangle; the
  walks need that it is not cleared too early either.

The argument has four parts.

1. *What encloses what* (`AroundSplit` to `BelowMembers`). The cons around a con are
   itself and those around its parent; of two cons around a third one is around the
   other; the cons below a con have consecutive numbers (`BelowWithoutGap`, the only use
   of the order of creation), so that everything below one child comes before everything
   below the next (`ChildByChild`).
2. *Ascending lists.* `Ascending(s, S)` says that `s` lists the members of `S` in order.
   There is one such list (`AscendingUnique`), and it is `InOrder(S)`. Appending one list
   to another, `FlattenSeq` and `Select` keep lists ascending (`AscendingConcat`,
   `FlattenAscending`, `SelectAscending`).
3. *Recursion.* A recursive function stands for some function that obeys its equation,
   so each one takes two steps. That there is such a function is shown by giving one: the
   sets of part 1 in order (`WalksExist`, `GathersExist`), or for the climbs to the root
   and to the workspace a function built number by number (`ClimbEnds`; the loops end
   because a parent has the smaller number). Whichever function it is then has the values
   claimed, from the con with the largest number down (`WalksAscend`, `GathersAscend`).
   The inductions are over the numbers of the cons, `UpTo` and `DownFrom`, which need no
   operator as a parameter because what is proved is a set of numbers.
4. *What is left of a tree* (`AliveBelow`, `RootOf`, `WorkspaceOf`). Below a con that
   exists all cons exist and point to their parents; hence `i3ipc_con_leaves` never
   reads through NULL, and a workspace found on the way up is at or below the root found
   on the way up: were it above, the root would still have a parent.

That only workspaces have floating children, and none that are workspaces, is what makes
`i3ipc_con_leaves` and `i3ipc_con_workspaces` right although they look at `nodes` alone
(`InvLeaves`, `ListedBelow`).

### `FramingProofs`

`RepliesAreWhole`, `ShortReadsAreTheLast` and `RepliesFit` for every length, part
that i3 sends, chunk and buffer size and any number of messages. `FramingInv` has the three properties,
the types, and `InStep`: the header, the body so far, the channel's buffer and the
socket, put together, are one piece of i3's stream. That the stream is in order is
stated for all pairs of bytes and not for neighbours (`InOrder`), which makes it
inductive without an induction over positions. `HeldType` bounds what i3 holds back by
what it has written, so a chunk is always a part of the socket (`PartOfWire`).

### `ChannelProofs`

`FramingImplementsChannel`: `Spec` implies the specification of `MessageChannel`
under the mapping of `Framing`. The messages the abstract channel still holds are
counted by their last bytes in the pipe (`Counted`, where the pipe is the channel's
buffer followed by the socket). `ReadCounted` is the step that matters: what a call
takes off the pipe has at most one last byte in it (`FirstEnds`), and exactly one
when the call returns a reply. A stream cut by i3's exit has lost the last bytes
behind the cut (`ExitCuts`), and a part that i3 sends changes nothing here
(`ChannelSend`). After an overrun the count is only a bound. `TypeCorrect` is the
`TypeOK` of `Framing`, from `FramingInv` and the length of the pipe (`Bounded`).

### `BoxedValuesProofs`

`NothingDanglesEver`, `NothingIsLostEver` and `ConnectionEndsWithItsOwners`, for any
number of structures, types and cons. `BoxedInv` says who owns what, exactly:

* `Structured` and `Allocated`: each structure points to the data allocated for its
  own fields, and that is all there is in memory;
* `Counted`: a con has one reference for each field that points to it and one for
  the application. Reference counts are cardinalities of sets of fields, and what a
  copy, a free, a new event do to them are lemmas about these sets (`AddingOne`,
  `AddingTwo`, `Removing`, `NewCons`, `Dropped`);
* `Connected`: the connection has one reference for the application, one for each
  con and one for each emission;
* `Emissions`: an emission has its copy to itself.

The fact about the code is `Tables`: for each of the eleven types, the copy
duplicates and references just what the free frees and clears. Without it no
step of a copy or a free goes through.

`TypeCorrect` adds the bounds of the counts: of each structure at most two fields
point to one con, the second being `old` (`TwoFields`), so a con has at most
`2 * MaxValues + 1` references (`PointersBounded`), and the connection at most one
for each con and each structure beside the application's.

### Only model-checked

All liveness (`CallsReturn`, `ShutdownSignalled`, `ShutdownHeard`,
`LossEndsWaitingMain`, `RecvReturns`), which rests on fairness and ENABLED. Every
invariant and every action property of every passing run, and both refinements, are
theorems.

## Plan

What is left, in order of importance:

1. `Lifecycle` with an application that tries again until i3 is up, as
   `test/ipctest.py` does, and the descriptors the failed attempts leave open.
2. The bytes of a request of which i3 took a part before it exited: `unsent` says that
   some are left in the channel, not which.

## Not modelled, and why

The build, packaging, example and test runner have no run-time behaviour of the
library. `get_property`, `class_init` and the enum templates only read fields or
register types. The X protocol behind `get_socket_path` appears as its result (a
path, a stale path, or none); a failed `xcb_connect`, which the code dereferences,
and the truncation of a path longer than `sun_path` are left out. Of
`ipc_send_message` only the outcome is modelled: the request is written, or refused
because i3 is gone and left in the write buffer, where it makes every later flush
fail; it writes one message into a buffer that takes it whole, and the one flush is
in `ipc_recv_message`. The JSON text of replies and events is
abstracted to what the receiver distinguishes, here and in the queries: which field
of a reply goes to which member is left to the unit tests. A full socket that makes
i3 wait is i3's code.
