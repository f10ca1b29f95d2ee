------------------------------- MODULE Console -------------------------------
(***************************************************************************)
(* Console: the console device (dev/console.c, vfs/device_vops.c), the     *)
(* serial line it runs over (libserial/src/serial.c) and the send queue of *)
(* the TCP socket below that (picotcp, with Nagle off as SOS leaves it).   *)
(*                                                                         *)
(* A read yields until console_handler has seen a newline.  SOS is single  *)
(* threaded: while serial_recv_handler works through the characters that   *)
(* have arrived, or serial_send through the data it was given, no other    *)
(* handler runs.  Both loops are modelled one turn per step.  A character  *)
(* is its position in the input, and whether it is a newline.              *)
(***************************************************************************)
EXTENDS Integers, Sequences, FiniteSets, FiniteSetsExt

CONSTANTS
  Proc,         \* user processes
  None,         \* NULL where a process or a coroutine is expected
  BufferSize,   \* BUFFER_SIZE of console.c
  ReadLen,      \* the lengths reads ask for
  WriteLen,     \* the lengths writes ask for
  Space,        \* payload of a full segment (pico_socket_xmit_avail_space)
  Overhead,     \* headers in the buffer of a segment
  OutMax,       \* tcpq_out.max_size
  Disciplined,  \* one reader at a time, not killed, and lines that fit
  MaxTyped,     \* bound on the characters that ever arrive
  MaxBurst      \* bound on the characters that arrive together

ASSUME ConsoleAssumption ==
  /\ None \notin Proc
  /\ BufferSize \in Nat \ {0}
  /\ ReadLen \subseteq Nat \ {0}
  /\ WriteLen \subseteq Nat \ {0}
  /\ Space \in Nat \ {0}
  /\ Overhead \in Nat
  /\ OutMax \in Nat
  /\ Disciplined \in BOOLEAN
  /\ MaxTyped \in Nat
  /\ MaxBurst \in Nat

VARIABLES
  reader,    \* of struct console
  reading,   \* console.c: a read is waiting
  curr,      \* console.c: the process whose coroutine waits
  buffer,    \* console.c: the characters stored; nbytes_read is its length
  packet,    \* what serial_recv_handler has still to hand on
  typed,     \* how many characters have arrived
  holds,     \* the processes that have the console open
  gone,      \* the processes that have been destroyed
  wait,      \* of each process: the read its coroutine is in
  got,       \* the last read that returned
  out,       \* tcpq_out: the payload of each segment that is not acknowledged
  send,      \* the serial_send that is running
  stream,    \* what the last console_write has queued, as pieces of its data
  fault      \* what stopped SOS

input == <<reading, curr, buffer, packet, typed, wait, got>>
output == <<out, send, stream>>
vars == <<reader, input, holds, gone, output, fault>>

Modes == {"O_RDONLY", "O_WRONLY", "O_RDWR"}
Char == [at : 1 .. MaxTyped, nl : BOOLEAN]
NotReading == [len |-> 0, from |-> 0]
Waiting(p) == wait[p] # NotReading
NotSending == [len |-> 0, total_sent |-> 0, written |-> 0, ret |-> 0]
Sending == send.len # 0

\* SOS is in its event loop.
Free == fault = "none" /\ packet = <<>> /\ ~Sending

Init ==
  /\ reader = None
  /\ reading = FALSE
  /\ curr = None
  /\ buffer = <<>>
  /\ packet = <<>>
  /\ typed = 0
  /\ holds = {}
  /\ gone = {}
  /\ wait = [p \in Proc |-> NotReading]
  /\ got = [from |-> 0, len |-> 0, chars |-> <<>>]
  /\ out = <<>>
  /\ send = NotSending
  /\ stream = <<>>
  /\ fault = "none"

-----------------------------------------------------------------------------
\* The test "flags & O_ACCMODE == O_RDONLY" is flags & (O_ACCMODE == O_RDONLY),
\* and O_ACCMODE is not O_RDONLY.
OpensToRead(flags) == FALSE

\* console_open, from an open of "console".
console_open(p, flags) ==
  /\ Free
  /\ p \notin holds \cup gone
  /\ IF OpensToRead(flags) /\ reader # None
       THEN UNCHANGED <<reader, holds>>
       ELSE /\ reader' = IF OpensToRead(flags) THEN p ELSE reader
            /\ holds' = holds \cup {p}
  /\ UNCHANGED <<input, gone, output, fault>>

\* console_close, from VOP_RECLAIM of syscall_close.
console_close(p) ==
  /\ Free
  /\ p \in holds
  /\ ~Waiting(p)
  /\ reader' = IF reader = p THEN None ELSE reader
  /\ holds' = holds \ {p}
  /\ UNCHANGED <<input, gone, output, fault>>

\* Mutant of console_read: reading is set only after the yield.
console_read_unset(p, len) ==
  /\ Free
  /\ p \in holds
  /\ ~Waiting(p)
  /\ Disciplined => \A q \in Proc : ~Waiting(q)
  /\ curr' = p
  /\ wait' = [wait EXCEPT ![p] = [len |-> len, from |-> typed]]
  /\ UNCHANGED <<reader, reading, buffer, packet, typed, got, holds, gone, output, fault>>

\* console_read up to its yield.  It does not look at who waits already.
console_read(p, len) ==
  /\ Free
  /\ p \in holds
  /\ ~Waiting(p)
  /\ Disciplined => \A q \in Proc : ~Waiting(q)
  /\ reading' = TRUE
  /\ curr' = p
  /\ wait' = [wait EXCEPT ![p] = [len |-> len, from |-> typed]]
  /\ UNCHANGED <<reader, buffer, packet, typed, got, holds, gone, output, fault>>

\* Characters arrive on the socket.  A disciplined typist ends a line before
\* it fills the buffer.
Arrive(s) ==
  /\ Free
  /\ s # <<>>
  /\ typed + Len(s) <= MaxTyped
  /\ packet' = [i \in DOMAIN s |-> [at |-> typed + i, nl |-> s[i]]]
  /\ typed' = typed + Len(s)
  /\ Disciplined =>
       Max({0} \cup {i \in DOMAIN s : \A j \in 1 .. i : ~s[j]}) + Len(buffer) + 1 < BufferSize
  /\ UNCHANGED <<reader, reading, curr, buffer, wait, got, holds, gone, output, fault>>

\* Mutant of Reset: the stored characters are kept.
Reset_kept(stored) == reading' = FALSE /\ buffer' = stored

\* Mutant of Reset: reading is not cleared.
Reset_reading(stored) == buffer' = <<>> /\ UNCHANGED reading

\* The end of console_read.
Reset(stored) == reading' = FALSE /\ buffer' = <<>>

\* console_read after its yield, run by resume(curr).  It copies to the
\* shared buffer of the process, ends msg with a 0 and replies.  A coroutine
\* that has ended, or whose process is gone, is freed memory.
Finish(stored) ==
  LET p == curr
      i == Min({wait[p].len, Len(stored)})
  IN  IF p \in gone \/ ~Waiting(p) \/ i >= BufferSize
        THEN /\ fault' = "memory"
             /\ UNCHANGED <<reading, buffer, wait, got>>
        ELSE /\ got' = [from |-> wait[p].from, len |-> wait[p].len,
                        chars |-> SubSeq(stored, 1, i)]
             /\ Reset(stored)
             /\ wait' = [wait EXCEPT ![p] = NotReading]
             /\ UNCHANGED fault

\* One turn of the loop in serial_recv_handler: console_handler.
console_handler ==
  /\ fault = "none"
  /\ packet # <<>>
  /\ packet' = Tail(packet)
  /\ LET c == Head(packet)
     IN CASE ~reading ->
               UNCHANGED <<reading, buffer, wait, got, fault>>
          [] reading /\ Len(buffer) = BufferSize ->
               fault' = "memory" /\ UNCHANGED <<reading, buffer, wait, got>>
          [] reading /\ Len(buffer) < BufferSize /\ c.nl ->
               Finish(Append(buffer, c))
          [] reading /\ Len(buffer) < BufferSize /\ ~c.nl ->
               buffer' = Append(buffer, c) /\ UNCHANGED <<reading, wait, got, fault>>
  /\ UNCHANGED <<reader, curr, typed, holds, gone, output>>

\* A process is killed.  console_read does not count itself in coro_count, so
\* reap() destroys the process before the next event; fdt_destroy closes the
\* console for it.
proc_destroy(p) ==
  /\ Free
  /\ p \notin gone
  /\ Disciplined => ~Waiting(p)
  /\ gone' = gone \cup {p}
  /\ holds' = holds \ {p}
  /\ reader' = IF p \in holds /\ reader = p THEN None ELSE reader
  /\ UNCHANGED <<input, output, fault>>

-----------------------------------------------------------------------------
\* tcpq_out.size: the buffers of the segments in the queue.
Size(q) ==
  LET upto[i \in 0 .. Len(q)] == IF i = 0 THEN 0 ELSE upto[i - 1] + q[i] + Overhead
  IN  upto[Len(q)]

\* serial_send, called by console_write: the loop below does the work.
console_write(p, len) ==
  /\ Free
  /\ p \in holds
  /\ ~Waiting(p)
  /\ send' = [len |-> len, total_sent |-> 0, written |-> 0, ret |-> 0]
  /\ stream' = <<>>
  /\ UNCHANGED <<reader, input, holds, gone, out, fault>>

\* The next segment of pico_socket_xmit.
Chunk(len, written) == Min({len - written, Space})

\* Mutant of Stops: the loop is left after one segment, as for a datagram.
Stops_single(len, written) ==
  written > 0 \/ Size(Append(out, Chunk(len, written))) > OutMax

\* The loop of pico_socket_xmit ends: all the data is queued, or
\* do_enqueue_segment has no room for the buffer of the next segment.
Stops(len, written) ==
  written = len \/ Size(Append(out, Chunk(len, written))) > OutMax

\* pico_socket_xmit_one: pico_tcp_push queues a segment of the data, from
\* offset written on.
pico_socket_xmit_one ==
  LET chunk == Chunk(send.len, send.written)
  IN  /\ fault = "none"
      /\ Sending
      /\ ~Stops(send.len, send.written)
      /\ out' = Append(out, chunk)
      /\ stream' = Append(stream, [off |-> send.written, len |-> chunk])
      /\ send' = [send EXCEPT !.written = @ + chunk]
      /\ UNCHANGED <<reader, input, holds, gone, fault>>

\* serial_send calls pico_socket_sendto again.
Again(sent, total) == sent > 0 /\ total < send.len

\* pico_socket_sendto returns to serial_send, which tries again from the
\* start of its data, unless nothing was sent.
serial_send ==
  LET sent == send.written
      total == send.total_sent + sent
  IN  /\ fault = "none"
      /\ Sending
      /\ Stops(send.len, send.written)
      /\ send' = IF Again(sent, total)
                   THEN [send EXCEPT !.total_sent = total, !.written = 0]
                   ELSE [NotSending EXCEPT !.ret = IF sent = 0 THEN total ELSE send.len]
      /\ UNCHANGED <<reader, input, holds, gone, out, stream, fault>>

\* An acknowledgement releases the first n segments (release_all_until).
tcp_ack(n) ==
  /\ Free
  /\ n \in 1 .. Len(out)
  /\ out' = SubSeq(out, n + 1, Len(out))
  /\ UNCHANGED <<reader, input, holds, gone, send, stream, fault>>

-----------------------------------------------------------------------------
Bursts == UNION {[1 .. n -> BOOLEAN] : n \in 1 .. MaxBurst}

Next ==
  \/ \E p \in Proc :
       \/ \E flags \in Modes : console_open(p, flags)
       \/ console_close(p)
       \/ \E len \in ReadLen : console_read(p, len)
       \/ \E len \in WriteLen : console_write(p, len)
       \/ proc_destroy(p)
  \/ \E s \in Bursts : Arrive(s)
  \/ console_handler
  \/ pico_socket_xmit_one
  \/ serial_send
  \/ \E n \in 1 .. OutMax : tcp_ack(n)

Spec == Init /\ [][Next]_vars

\* serial_recv_handler works through all it has received.
FairSpec == Spec /\ WF_vars(console_handler)

-----------------------------------------------------------------------------
\* The variables stay in their types, the buffer in its bound and the send
\* queue in its limit.
TypeOK ==
  /\ reader \in Proc \cup {None}
  /\ reading \in BOOLEAN
  /\ curr \in Proc \cup {None}
  /\ buffer \in Seq(Char) /\ Len(buffer) <= BufferSize
  /\ packet \in Seq(Char) /\ Len(packet) <= MaxBurst
  /\ typed \in 0 .. MaxTyped
  /\ holds \subseteq Proc \ gone
  /\ wait \in [Proc -> [len : ReadLen, from : 0 .. MaxTyped] \cup {NotReading}]
  /\ out \in Seq(1 .. Space) /\ Size(out) <= OutMax
  /\ send.total_sent \in 0 .. send.len /\ send.written \in 0 .. send.len
  /\ fault \in {"none", "memory"}

\* console.c remembers one waiting coroutine, in curr.  The process it belongs
\* to is alive and really waits there, and nobody else waits: a newline never
\* resumes a coroutine that has ended, and no reader is forgotten.
ReaderKnown ==
  /\ TypeOK
  /\ {p \in Proc : Waiting(p)} = IF reading THEN {curr} ELSE {}
  /\ reading => curr \notin gone
  /\ fault = "none"

\* A read returns what was typed after it began and nothing older: the
\* characters that arrived since, in order, up to its length, and up to the
\* newline (console_read and console_handler).  "Once the read is finished,
\* the console no longer stores any data".
ReadsFresh ==
  /\ Len(got.chars) <= got.len
  /\ \A i \in DOMAIN got.chars :
       /\ got.chars[i].at = got.from + i
       /\ got.chars[i].nl => i = Len(got.chars)
  /\ ~reading => buffer = <<>>

\* Where the i-th piece of the data ends.
End(i) == IF i = 0 THEN 0 ELSE stream[i].off + stream[i].len

\* serial_send starts again at the beginning of its data after a partial
\* send.  No byte is queued twice even so: what a console_write queues is
\* the first bytes of its data, in order, as many as it returns.
SentOnce ==
  /\ \A i \in DOMAIN stream : stream[i].off = End(i - 1)
  /\ ~Sending => send.ret = End(Len(stream))

\* A process that waits in console_read when a newline arrives gets its line.
LineDelivered ==
  \A p \in Proc :
    (Waiting(p) /\ \E i \in DOMAIN packet : packet[i].nl) ~> ~Waiting(p)
=============================================================================
