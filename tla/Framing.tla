------------------------------- MODULE Framing -------------------------------
(***************************************************************************)
(* The bytes of one socket from i3 to the client: ipc_recv_message takes   *)
(* messages out of a GIOChannel, which reads the socket in chunks of its   *)
(* own into a buffer.                                                      *)
(*                                                                         *)
(* Both loops of ipc_recv_message read into the place that read_bytes      *)
(* names, and let the channel overwrite read_bytes with the size of the    *)
(* last chunk instead of adding to it.  What keeps messages together is    *)
(* that a buffered channel on a blocking socket hands out fewer bytes than *)
(* it is asked for only when no more will ever come.                       *)
(***************************************************************************)
EXTENDS Naturals, Sequences, FiniteSets

CONSTANTS
    Modulus,     \* 2^32, the number of values of a uint32_t
    Lengths,     \* the lengths of the bodies i3 sends
    BufSize,     \* bytes the channel asks the socket for
    MaxMessages  \* bound: messages i3 writes in a behaviour

ASSUME ModulusAssumption == Modulus \in Nat \ {0}
ASSUME LengthsAssumption == Lengths \subseteq 0..(Modulus - 1)
ASSUME BufSizeAssumption == BufSize \in Nat \ {0}
ASSUME BoundsAssumption == MaxMessages \in Nat

VARIABLES
    lengths,      \* the bodies of the messages i3 has begun to write
    whole,        \* how many of them its exit has not cut short
    wire,         \* bytes i3 has for the client, the ones in the socket first
    held,         \* how many of them, the last ones, are not in the socket yet
    stream,       \* "open", or what a read of the empty socket gives
    read_buf,     \* bytes in the channel
    unsent,       \* a request that was refused is in the channel's write buffer
    pc,           \* "idle", or the loop that ipc_recv_message is in
    caller,       \* who called it
    read_bytes,
    msg,          \* the local buffer for the header
    reply_length,
    reply,        \* the buffer for the body
    taken,        \* history: messages returned so far
    outcome,      \* what the last call returned
    overrun       \* bytes were written behind the end of reply

i3Vars == <<lengths, whole, wire, held, stream>>
recvVars == <<unsent, pc, caller, read_bytes, msg, reply_length, reply, taken,
              outcome, overrun>>
vars == <<lengths, whole, wire, held, stream, read_buf, unsent, pc, caller,
          read_bytes, msg, reply_length, reply, taken, outcome, overrun>>

-----------------------------------------------------------------------------
(* The magic, the length and the type of a message are one byte each; a    *)
(* byte is known by its message and its place in it.                       *)

to_read == 3
MagicAt == 1
LengthAt == 2

Junk == [of |-> 0, at |-> 0]
Byte == [of : 0..MaxMessages, at : 0..(to_read + Modulus)]

MessageBytes(n, length) == [k \in 1..(to_read + length) |-> [of |-> n, at |-> k]]

\* The places of the body in `reply'; there is room for what malloc was asked.
Uninitialised(size) == [k \in 1..size |-> Junk]

\* Variant: no room for the terminator.
ExactSize(length) == length

\* *reply_length + 1 is a sum of 32 bits.
Allocated(length) == (length + 1) % Modulus

\* reply: "unset", "string" or "partial"; bytes is what it holds.
Returned(got, holds, bytes) == [got |-> got, reply |-> holds, bytes |-> bytes]

Init ==
    /\ lengths = <<>> /\ whole = 0
    /\ wire = <<>> /\ held = 0 /\ stream = "open"
    /\ read_buf = <<>> /\ unsent = FALSE
    /\ pc = "idle" /\ caller = "i3ipc_connection_message"
    /\ read_bytes = 0 /\ msg = Uninitialised(to_read)
    /\ reply_length = 0 /\ reply = <<>>
    /\ taken = 0
    /\ outcome = Returned("nothing", "unset", <<>>)
    /\ overrun = FALSE

-----------------------------------------------------------------------------
(* i3 writes a message in parts, and may stop in the middle of one.        *)

I3Write(length) ==
    /\ stream = "open"
    /\ Len(lengths) < MaxMessages
    /\ lengths' = Append(lengths, length)
    /\ whole' = whole + 1
    /\ wire' = wire \o MessageBytes(whole', length)
    /\ held' = held + to_read + length
    /\ UNCHANGED <<stream, read_buf>>
    /\ UNCHANGED recvVars

\* A part of any size reaches the socket.
I3Send ==
    /\ stream = "open"
    /\ held' \in 0..(held - 1)
    /\ UNCHANGED <<lengths, whole, wire, stream, read_buf>>
    /\ UNCHANGED recvVars

IsLastByte(b) == b.at = to_read + lengths[b.of]

\* How many bytes are in the socket, and how many messages have left i3.
InSocket == Len(wire) - held
Sent == whole - Cardinality({i \in (InSocket + 1)..Len(wire) : IsLastByte(wire[i])})

\* i3 exits, and what is not in the socket is lost.
I3Exit ==
    /\ stream = "open"
    /\ stream' \in {"eof", "reset"}
    /\ wire' = SubSeq(wire, 1, InSocket)
    /\ whole' = Sent
    /\ held' = 0
    /\ UNCHANGED <<lengths, read_buf>>
    /\ UNCHANGED recvVars

-----------------------------------------------------------------------------
(* The channel.                                                            *)

Wanted == IF pc = "header" THEN to_read - read_bytes ELSE reply_length - read_bytes

\* Variant: the channel is not buffered, and a read gives what there is.
Unbuffered(count) == read_buf # <<>>

\* g_io_channel_read_chars goes on filling its buffer until it has enough.
Enough(count) == Len(read_buf) >= count

Drained == wire = <<>> /\ stream # "open"

\* A chunk of any size is moved from the socket to the channel.
g_io_channel_fill_buffer ==
    /\ pc # "idle" /\ ~overrun
    /\ ~Enough(Wanted)
    /\ \E k \in 1..BufSize :
          /\ k <= InSocket
          /\ read_buf' = read_buf \o SubSeq(wire, 1, k)
          /\ wire' = SubSeq(wire, k + 1, Len(wire))
    /\ UNCHANGED <<lengths, whole, held, stream>>
    /\ UNCHANGED recvVars

\* The size of what g_io_channel_read_chars hands out, once it can.
Chunk == IF Len(read_buf) < Wanted THEN Len(read_buf) ELSE Wanted

\* The read returns NORMAL with at least a byte; an error after the last bytes
\* is dropped for good.
ReadsBytes ==
    /\ ~overrun
    /\ read_buf # <<>>
    /\ Enough(Wanted) \/ Drained
    /\ read_buf' = SubSeq(read_buf, Chunk + 1, Len(read_buf))
    /\ stream' = IF Enough(Wanted) THEN stream ELSE "eof"

\* It returns EOF or an error and no byte.
ReadsEnd == ~overrun /\ read_buf = <<>> /\ Drained /\ stream' = "eof"

\* The bytes that arrive in `buffer', after the ones the last chunk left there.
Stored(buffer) ==
    [k \in DOMAIN buffer |->
        IF k > read_bytes /\ k <= read_bytes + Chunk THEN read_buf[k - read_bytes]
                                                     ELSE buffer[k]]

-----------------------------------------------------------------------------
(* ipc_recv_message.                                                       *)

\* A flush fails when there is a request to write and i3 is gone.  The channel
\* keeps the request, and every later flush fails with it.
FlushFails(who) == (unsent \/ who = "i3ipc_connection_message") /\ stream # "open"

\* ipc_on_data is called when there is something to read, or the end.
Ready(who) ==
    who = "ipc_on_data" => read_buf # <<>> \/ InSocket > 0 \/ stream # "open"

ipc_recv_message(who) ==
    /\ pc = "idle" /\ ~overrun
    /\ Ready(who)
    /\ caller' = who
    /\ \/ /\ ~unsent
          /\ pc' = "header"
          /\ read_bytes' = 0
          /\ msg' = Uninitialised(to_read)
          /\ UNCHANGED <<unsent, outcome>>
       \/ /\ FlushFails(who)
          /\ unsent' = TRUE
          /\ outcome' = Returned("error", "unset", <<>>)
          /\ UNCHANGED <<pc, read_bytes, msg>>
    /\ UNCHANGED <<reply_length, reply, taken, overrun, read_buf>>
    /\ UNCHANGED i3Vars

\* The end of the call: its local variables are gone.
Return(result) ==
    /\ pc' = "idle"
    /\ outcome' = result
    /\ read_bytes' = 0 /\ msg' = Uninitialised(to_read) /\ reply' = <<>>

\* A message has come, and the callers put reply[reply_length] = '\0'.
Finish(buffer, length) ==
    /\ Return(Returned("message", "string", SubSeq(buffer, 1, length)))
    /\ taken' = taken + 1
    /\ overrun' = (length + 1 > Len(buffer))

\* What the header says: the length of a message, if this is its length.
HeaderLengths(header) ==
    IF header[LengthAt].at = LengthAt THEN {lengths[header[LengthAt].of]} ELSE Lengths

\* Variant: the header is taken for complete whatever was read of it.
OneRead(count, total) == TRUE

\* The loops go on until the last chunk has at least the size of the whole.
Complete(count, total) == count >= total

HeaderComplete(header) ==
    IF header[MagicAt].at = MagicAt
    THEN \E length \in HeaderLengths(header) :
            /\ reply_length' = length
            /\ IF length = 0
               THEN Finish(Uninitialised(Allocated(length)), length)
               ELSE /\ pc' = "body"
                    /\ read_bytes' = 0
                    /\ msg' = header
                    /\ reply' = Uninitialised(Allocated(length))
                    /\ UNCHANGED <<taken, outcome, overrun>>
    ELSE /\ Return(Returned("error", "unset", <<>>))
         /\ UNCHANGED <<reply_length, taken, overrun>>

\* A chunk of the header, and the allocation of the reply after the last one.
ReadHeader ==
    /\ pc = "header"
    /\ ReadsBytes
    /\ IF Complete(Chunk, to_read)
       THEN HeaderComplete(Stored(msg))
       ELSE /\ msg' = Stored(msg)
            /\ read_bytes' = Chunk
            /\ UNCHANGED <<pc, reply_length, reply, taken, outcome, overrun>>
    /\ UNCHANGED <<lengths, whole, wire, held, unsent, caller>>

BodyComplete(buffer) == Finish(buffer, reply_length)

\* A chunk of the body.  What does not fit in reply overwrites other memory.
ReadBody ==
    /\ pc = "body"
    /\ ReadsBytes
    /\ \/ /\ read_bytes + Chunk <= Len(reply)
          /\ IF Complete(Chunk, reply_length)
             THEN BodyComplete(Stored(reply))
             ELSE /\ reply' = Stored(reply)
                  /\ read_bytes' = Chunk
                  /\ UNCHANGED <<pc, msg, taken, outcome, overrun>>
       \/ /\ read_bytes + Chunk > Len(reply)
          /\ overrun' = TRUE
          /\ UNCHANGED <<pc, read_bytes, msg, reply, taken, outcome>>
    /\ UNCHANGED <<lengths, whole, wire, held, unsent, caller, reply_length>>

\* Variant: the loops do not test the status of a read.
Spins ==
    /\ pc # "idle"
    /\ ReadsEnd
    /\ UNCHANGED <<lengths, whole, wire, held, read_buf>>
    /\ UNCHANGED recvVars

\* Nothing more comes.  In the header no reply has been set; in the body it
\* holds the bytes that came, and nobody terminates it.
ReadEnd ==
    /\ pc # "idle"
    /\ ReadsEnd
    /\ LET got == IF stream = "reset" THEN "error" ELSE "eof"
       IN  Return(IF pc = "header" THEN Returned(got, "unset", <<>>)
                                   ELSE Returned(got, "partial", reply))
    /\ UNCHANGED <<lengths, whole, wire, held, read_buf, unsent, caller, reply_length,
                   taken, overrun>>

\* Nothing is said of a process that has overwritten its memory.
Halted == overrun /\ UNCHANGED vars

-----------------------------------------------------------------------------
Callers == {"i3ipc_connection_message", "ipc_on_data"}

Next ==
    \/ \E length \in Lengths : I3Write(length)
    \/ I3Send
    \/ I3Exit
    \/ g_io_channel_fill_buffer
    \/ \E who \in Callers : ipc_recv_message(who)
    \/ ReadHeader
    \/ ReadBody
    \/ ReadEnd
    \/ Halted

Spec == Init /\ [][Next]_vars

Recv == g_io_channel_fill_buffer \/ ReadHeader \/ ReadBody \/ ReadEnd

\* A blocking read returns once it can.
FairSpec == Spec /\ WF_vars(Recv)

-----------------------------------------------------------------------------
(* Properties.                                                             *)

Body(n) == [k \in 1..lengths[n] |-> [of |-> n, at |-> to_read + k]]

\* Every variable has the type its declaration promises.
TypeOK ==
    /\ lengths \in Seq(Lengths) /\ Len(lengths) <= MaxMessages
    /\ taken \in 0..whole /\ whole \in 0..Len(lengths)
    /\ wire \in Seq(Byte) /\ held \in 0..Len(wire)
    /\ read_buf \in Seq(Byte) /\ unsent \in BOOLEAN
    /\ stream \in {"open", "eof", "reset"}
    /\ pc \in {"idle", "header", "body"} /\ caller \in Callers
    /\ read_bytes \in 0..(Modulus + to_read)
    /\ msg \in [1..to_read -> Byte]
    /\ reply_length \in 0..(Modulus - 1) /\ reply \in Seq(Byte)
    /\ outcome.got \in {"nothing", "message", "error", "eof"}
    /\ outcome.reply \in {"unset", "string", "partial"}
    /\ outcome.bytes \in Seq(Byte)
    /\ overrun \in BOOLEAN

\* Whatever the chunks and the neighbours of a message in the stream, a reply
\* is the body of one message, byte for byte, and messages come one by one in
\* the order i3 wrote them (the two loops of ipc_recv_message).
RepliesAreBodies ==
    outcome.got = "message" => taken > 0 /\ outcome.bytes = Body(taken)

\* Overwriting read_bytes is harmless: a loop goes round again only when the
\* stream is over and nothing is left to be put in the wrong place.
ShortReadsEndTheStream ==
    pc # "idle" /\ read_bytes > 0 => read_buf = <<>> /\ wire = <<>> /\ stream = "eof"

\* The reply and its terminator fit in what *reply_length + 1 allocates, for
\* every length but the largest of a uint32_t, where the sum wraps to zero.
OnlyTheLargestOverruns == overrun => reply_length = Modulus - 1

\* The library gets from this what IpcSession builds on: whole messages in
\* order, then an error or the end, which no message is behind.
Channel == INSTANCE MessageChannel WITH
               written <- whole,
               open <- stream = "open",
               reset <- stream = "reset",
               last <- [got |-> outcome.got,
                        number |-> IF outcome.got = "message" THEN taken ELSE 0]

ImplementsChannel == Channel!Spec

\* A read that a whole message has been sent to, or that i3 will never write
\* to, returns.  One that i3 leaves in the middle of a message need not.
RecvReturns ==
    (pc # "idle" /\ (taken < Sent \/ stream # "open")) ~> (pc = "idle" \/ overrun)

\* "Returns: (transfer full): The reply of the ipc as a string": what
\* i3ipc_connection_message returns is a string or NULL.
ReplyIsAString ==
    pc = "idle" /\ caller = "i3ipc_connection_message" /\ outcome.got # "error"
        => outcome.reply # "partial"
=============================================================================
