-------------------------------- MODULE Rpc --------------------------------
(***************************************************************************)
(* The transport under every file operation of SOS: the RPC layer of       *)
(* libnfs (pdu.c, socket.c, init.c), driven by nfslib_poll of network.c    *)
(* over one picoTCP socket, from the moment the export is mounted.         *)
(*                                                                         *)
(* Everything runs in the one SOS thread.  A network interrupt or the 1 ms *)
(* watchdog tick first lets picoTCP take in what has arrived (the actions  *)
(* of the network below) and then calls nfslib_poll, whose loops are       *)
(* stepped through by pc; a system call that issues a request does so when *)
(* pc is "idle", or from inside a callback.  The byte streams are counted  *)
(* in units: a request is RequestLen units, a reply ReplyLen, its first    *)
(* the record marker.  A unit carries the xid it belongs to.  TCP itself   *)
(* (retransmission, ordering) is abstracted to reliable streams that may   *)
(* break; a reply carries the acknowledgement of its request, so that the  *)
(* server has a request exactly when picoTCP has seen it acknowledged.     *)
(*                                                                         *)
(* No request has a timeout (rpc->timeout is -1), auto_reconnect is -1     *)
(* since the mount, and the socket is not blocking.                        *)
(***************************************************************************)
EXTENDS Integers, Sequences, FiniteSets, Functions

CONSTANTS
    XIDS,        \* xids are counted modulo this number (2^32 in the code)
    HASHES,      \* buckets of waitpdu
    MaxCalls,    \* coroutines that wait for the server at once
    RequestLen, ReplyLen,
    MaxSize,     \* units the send queue of the socket holds
    MayClose     \* whether the connection may break

ASSUME RpcAssumption ==
    /\ {XIDS, HASHES, MaxCalls, RequestLen, MaxSize} \subseteq Nat \ {0}
    /\ ReplyLen \in Nat \ {0, 1}
    /\ MaxCalls < XIDS
    /\ MayClose \in BOOLEAN

VARIABLES
    xid,         \* rpc->xid, the next one
    outqueue,    \* requests to send, the first possibly in part
    written,     \* outqueue.head->written
    waitpdu,     \* per hash, the requests sent and not answered
    waitpdu_len,
    fd, old_fd, is_connected,
    inbuf,       \* units of the reply being read; inpos is its length
    pollout,     \* revents & POLLOUT
    pc,          \* where nfslib_poll is
    purged,      \* requests rpc_purge_all_pdus has still to fail
    blocked,     \* xids whose coroutine waits for its callback
    tcpq_out,    \* units given to the socket and not acknowledged
    EV_WR,       \* the writable event of the socket's endpoint
    tcpq_in,     \* units received and not read
    part,        \* units the server has of an incomplete request
    server,      \* requests the server has not answered
    coming,      \* the rest of a reply that has arrived in part
    remote_closed, \* the server's FIN arrived behind unread data
    hup,         \* EV_CLOSE, EV_FIN or EV_ERR of the endpoint
    dead         \* why SOS stopped

queues == <<xid, outqueue, written, waitpdu, waitpdu_len, blocked>>
service == <<inbuf, pollout, pc, purged>>
socket == <<fd, old_fd, is_connected>>
network == <<tcpq_out, EV_WR, tcpq_in, part, server, coming, remote_closed, hup>>
vars == <<queues, service, socket, network, dead>>

Xid == 0 .. XIDS - 1
rpc_hash_xid(x) == (x * 7919) % HASHES
Units(x, n) == [i \in 1 .. n |-> x]
Empty == [h \in 0 .. HASHES - 1 |-> <<>>]

\* A queue without the first of its requests that is x.
Unlink(q, x) ==
    LET k == CHOOSE i \in DOMAIN q : q[i] = x /\ \A j \in 1 .. i - 1 : q[j] # x
    IN  SubSeq(q, 1, k - 1) \o SubSeq(q, k + 1, Len(q))

\* The buckets one after the other, and a queue pushed one by one on another.
Chain(qs) ==
    LET chain[i \in 1 .. Len(qs)] == IF i = 1 THEN qs[i] ELSE chain[i - 1] \o qs[i]
    IN  chain[Len(qs)]
Reverse(q) == [i \in 1 .. Len(q) |-> q[(Len(q) - i) + 1]]

\* The socket the export was mounted on; each reconnection makes the next.
Mounted == 1

\* The last reply of the mount has been read: its request is acknowledged,
\* so the endpoint is writable.
Init ==
    /\ xid \in Xid
    /\ outqueue = <<>> /\ written = 0
    /\ waitpdu = Empty /\ waitpdu_len = 0
    /\ fd = Mounted /\ old_fd = 0 /\ is_connected = TRUE
    /\ inbuf = <<>> /\ pollout = FALSE /\ pc = "idle" /\ purged = <<>>
    /\ blocked = {}
    /\ tcpq_out = <<>> /\ EV_WR = TRUE /\ tcpq_in = <<>>
    /\ part = 0 /\ server = {} /\ coming = <<>>
    /\ remote_closed = FALSE /\ hup = FALSE
    /\ dead = "no"

-----------------------------------------------------------------------------
(* Requests and callbacks *)

\* A coroutine, one of those in b having just continued, asks nothing more.
NoCall(b) == blocked' = b /\ UNCHANGED <<xid, outqueue>>

\* rpc_allocate_pdu2 and rpc_queue_pdu: a request with the next xid goes to
\* the tail of outqueue, and its coroutine waits.  No call outlasts the 2^32
\* that come after it.
rpc_queue_pdu(b) ==
    /\ Cardinality(b) < MaxCalls
    /\ xid \notin blocked
    /\ outqueue' = Append(outqueue, xid)
    /\ xid' = (xid + 1) % XIDS
    /\ blocked' = b \cup {xid}

Issue ==
    /\ pc = "idle" /\ dead = "no"
    /\ rpc_queue_pdu(blocked)
    /\ UNCHANGED <<written, waitpdu, waitpdu_len, service, socket, network, dead>>

\* The callbacks of libnfs_vops.c.  Each resumes its coroutine, which ends
\* its system call or asks for the next step of it; on an error the callbacks
\* of read, write, opendir, create and close stop SOS instead, those of stat
\* and open resume.  The loader ignores that its open failed and asks for the
\* first page.
callback(x) ==
    \/ dead' = "exit" /\ NoCall(blocked)
    \/ /\ UNCHANGED dead
       /\ NoCall(blocked \ {x}) \/ rpc_queue_pdu(blocked \ {x})

-----------------------------------------------------------------------------
(* nfslib_poll and rpc_service *)

rpc_get_fd == IF old_fd # 0 THEN old_fd ELSE fd

\* POLLOUT is asked for while there is something to send.
rpc_which_events == outqueue # <<>>

\* pico_ppoll has an event to report.  A socket made by a reconnection never
\* has one: it is neither bound nor connected.  On the mounted one POLLIN is
\* always reported, since nothing clears EV_CONN after a connect that did not
\* block; EV_CLOSE and EV_FIN are never cleared either.
pico_ppoll == rpc_get_fd = Mounted

\* The socket is the mounted one and not connected only once hup is set.
nfslib_poll ==
    /\ pc = "idle" /\ dead = "no"
    /\ pico_ppoll
    /\ pc' = IF hup THEN "requeue" ELSE "read"
    /\ pollout' = (EV_WR /\ rpc_which_events /\ ~hup)
    /\ UNCHANGED <<queues, inbuf, purged, socket, network, dead>>

Wanted == IF inbuf = <<>> THEN 1 ELSE ReplyLen - Len(inbuf)

\* The loop of rpc_read_from_socket goes on while replies are due.
Again(len) == IF len > 0 THEN "read" ELSE "write"

\* pico_recvfrom: what is asked for, or what there is of it.  A read after
\* the server's FIN closes the endpoint, whatever is left to read.
recv ==
    LET n == IF Wanted < Len(tcpq_in) THEN Wanted ELSE Len(tcpq_in)
    IN  /\ inbuf' = inbuf \o SubSeq(tcpq_in, 1, n)
        /\ tcpq_in' = SubSeq(tcpq_in, n + 1, Len(tcpq_in))
        /\ hup' = (hup \/ remote_closed)

\* One round of rpc_read_from_socket.  A closed endpoint reads as the end of
\* the file and an empty one as EAGAIN.
rpc_read_from_socket ==
    /\ pc = "read" /\ dead = "no"
    /\ \/ hup /\ pc' = "requeue" /\ UNCHANGED <<inbuf, tcpq_in, hup>>
       \/ ~hup /\ tcpq_in = <<>> /\ pc' = "write" /\ UNCHANGED <<inbuf, tcpq_in, hup>>
       \/ /\ ~hup /\ tcpq_in # <<>>
          /\ recv
          /\ pc' = IF Len(inbuf') = ReplyLen THEN "reply" ELSE Again(waitpdu_len)
    /\ UNCHANGED <<queues, pollout, purged, socket, tcpq_out, EV_WR, part, server,
                   coming, remote_closed, dead>>

\* Mutant of rpc_process_pdu: the request stays linked.
rpc_process_pdu_linked ==
    LET x == inbuf[2]
        h == rpc_hash_xid(x)
    IN  /\ pc = "reply" /\ dead = "no"
        /\ inbuf' = <<>>
        /\ waitpdu_len' = waitpdu_len - 1
        /\ callback(x)
        /\ pc' = Again(waitpdu_len')
        /\ UNCHANGED <<waitpdu, written, pollout, purged, socket, network>>

\* rpc_process_pdu and rpc_process_reply: the request with the xid of the
\* reply is unlinked and its callback called; a reply to none is dropped.
rpc_process_pdu ==
    LET x == inbuf[2]
        h == rpc_hash_xid(x)
    IN  /\ pc = "reply" /\ dead = "no"
        /\ inbuf' = <<>>
        /\ IF x \in Range(waitpdu[h])
           THEN /\ waitpdu' = [waitpdu EXCEPT ![h] = Unlink(@, x)]
                /\ waitpdu_len' = waitpdu_len - 1
                /\ callback(x)
           ELSE NoCall(blocked) /\ UNCHANGED <<waitpdu, waitpdu_len, dead>>
        /\ pc' = Again(waitpdu_len')
        /\ UNCHANGED <<written, pollout, purged, socket, network>>

\* Mutant of Sent: the request waits in the bucket of the next xid.
Sent_bucket ==
    LET h == rpc_hash_xid(xid)
    IN  /\ outqueue' = Tail(outqueue) /\ written' = 0
        /\ waitpdu' = [waitpdu EXCEPT ![h] = Append(@, Head(outqueue))]
        /\ waitpdu_len' = waitpdu_len + 1

\* The whole request is written: it waits for its reply.
Sent ==
    LET h == rpc_hash_xid(Head(outqueue))
    IN  /\ outqueue' = Tail(outqueue) /\ written' = 0
        /\ waitpdu' = [waitpdu EXCEPT ![h] = Append(@, Head(outqueue))]
        /\ waitpdu_len' = waitpdu_len + 1

\* pico_sendto puts the next n units of request x into the send queue and
\* clears EV_WR, whether there is room left or not.
pico_sendto(x, n) == tcpq_out' = tcpq_out \o Units(x, n) /\ EV_WR' = FALSE

\* One round of rpc_write_to_socket, with what fits into the send queue;
\* sys_sendto makes an error of nothing sent.
rpc_write_to_socket ==
    /\ pc = "write" /\ dead = "no"
    /\ pollout /\ outqueue # <<>>
    /\ LET left == RequestLen - written
           room == MaxSize - Len(tcpq_out)
           n == IF left < room THEN left ELSE room
       IN  /\ pico_sendto(Head(outqueue), n)
           /\ pc' = IF n = 0 THEN "idle" ELSE "write"
           /\ IF n = left THEN Sent
              ELSE /\ written' = written + n
                   /\ UNCHANGED <<outqueue, waitpdu, waitpdu_len>>
    /\ UNCHANGED <<xid, blocked, inbuf, pollout, purged, socket, tcpq_in, part,
                   server, coming, remote_closed, hup, dead>>

\* rpc_service returns.
rpc_service_end ==
    /\ pc = "write" /\ dead = "no"
    /\ ~pollout \/ outqueue = <<>>
    /\ pc' = "idle" /\ pollout' = FALSE
    /\ UNCHANGED <<queues, inbuf, purged, socket, network, dead>>

-----------------------------------------------------------------------------
(* A broken connection *)

\* The reconnection: SOS has no dup3, so rpc_connect_sockaddr_async fails at
\* dup2 with rpc->fd already the new socket.
rpc_connect_sockaddr_async == old_fd' = fd /\ fd' = fd + 1 /\ is_connected' = FALSE

\* rpc_reconnect_requeue puts every waiting request back in front of
\* outqueue, each before the last, and connects a new socket.  When that has
\* failed rpc_purge_all_pdus takes the whole queue away.
rpc_reconnect_requeue ==
    /\ pc = "requeue" /\ dead = "no"
    /\ rpc_connect_sockaddr_async
    /\ written' = 0
    /\ purged' = Reverse(Chain([i \in 1 .. HASHES |-> waitpdu[i - 1]])) \o outqueue
    /\ outqueue' = <<>> /\ waitpdu' = Empty /\ waitpdu_len' = 0
    /\ pc' = "purge" /\ pollout' = FALSE
    /\ UNCHANGED <<xid, blocked, inbuf, network, dead>>

\* rpc_purge_all_pdus fails the next request of the queue.
rpc_purge_all_pdus ==
    /\ pc = "purge" /\ dead = "no"
    /\ purged # <<>>
    /\ callback(Head(purged))
    /\ purged' = Tail(purged)
    /\ UNCHANGED <<written, waitpdu, waitpdu_len, inbuf, pollout, pc, socket, network>>

\* Its assertions: no callback has queued a request.
rpc_purge_end ==
    /\ pc = "purge" /\ dead = "no"
    /\ purged = <<>>
    /\ pc' = "idle"
    /\ dead' = IF outqueue = <<>> THEN "no" ELSE "assert"
    /\ UNCHANGED <<queues, inbuf, pollout, purged, socket, network>>

-----------------------------------------------------------------------------
(* The network, taken in by pico_bsd_stack_tick *)

Open == ~hup /\ ~remote_closed /\ pc = "idle" /\ dead = "no"

\* Mutant of tcp_ack: only a full send queue makes its reader wake.
tcp_ack_full ==
    \E n \in 1 .. Len(tcpq_out) :
        /\ Open
        /\ tcpq_out' = SubSeq(tcpq_out, n + 1, Len(tcpq_out))
        /\ EV_WR' = (EV_WR \/ Len(tcpq_out) = MaxSize)
        /\ server' = server \cup {tcpq_out[i] : i \in {j \in 1 .. n : (part + j) % RequestLen = 0}}
        /\ part' = (part + n) % RequestLen
        /\ UNCHANGED <<queues, service, socket, tcpq_in, coming, remote_closed, hup, dead>>

\* tcp_ack: the server has the first n units; each acknowledgement that frees
\* a segment wakes the writer.
tcp_ack ==
    \E n \in 1 .. Len(tcpq_out) :
        /\ Open
        /\ tcpq_out' = SubSeq(tcpq_out, n + 1, Len(tcpq_out))
        /\ EV_WR' = TRUE
        /\ server' = server \cup {tcpq_out[i] : i \in {j \in 1 .. n : (part + j) % RequestLen = 0}}
        /\ part' = (part + n) % RequestLen
        /\ UNCHANGED <<queues, service, socket, tcpq_in, coming, remote_closed, hup, dead>>

\* The server answers in any order.  tcp_data_in: the first n units of the
\* reply arrive.
Reply(x) ==
    /\ Open /\ coming = <<>> /\ x \in server
    /\ \E n \in 1 .. ReplyLen :
        /\ tcpq_in' = tcpq_in \o Units(x, n)
        /\ coming' = Units(x, ReplyLen - n)
    /\ server' = server \ {x}
    /\ UNCHANGED <<queues, service, socket, tcpq_out, EV_WR, part, remote_closed, hup, dead>>

\* tcp_data_in: the rest of a reply arrives, in one or several steps.
tcp_data_in ==
    /\ Open
    /\ \E n \in 1 .. Len(coming) :
        /\ tcpq_in' = tcpq_in \o SubSeq(coming, 1, n)
        /\ coming' = SubSeq(coming, n + 1, Len(coming))
    /\ UNCHANGED <<queues, service, socket, tcpq_out, EV_WR, part, server, remote_closed,
                   hup, dead>>

\* The connection breaks: a reset, the last retransmission or a FIN with
\* nothing left to read close the endpoint at once, a FIN behind unread data
\* when that is next read.
tcp_closewait ==
    /\ MayClose /\ Open
    /\ \/ hup' = TRUE /\ UNCHANGED remote_closed
       \/ tcpq_in # <<>> /\ remote_closed' = TRUE /\ UNCHANGED hup
    /\ UNCHANGED <<queues, service, socket, tcpq_out, EV_WR, tcpq_in, part, server,
                   coming, dead>>

-----------------------------------------------------------------------------
Poll ==
    \/ nfslib_poll \/ rpc_read_from_socket \/ rpc_process_pdu \/ rpc_write_to_socket
    \/ rpc_service_end \/ rpc_reconnect_requeue \/ rpc_purge_all_pdus \/ rpc_purge_end

Next ==
    \/ Poll \/ Issue \/ tcp_ack \/ tcp_data_in \/ tcp_closewait
    \/ \E x \in Xid : Reply(x)

Spec == Init /\ [][Next]_vars

\* The watchdog ticks every millisecond and each tick polls; before that it
\* takes in what has arrived, so an acknowledgement or a unit on its way is
\* not put off for ever.  The server answers every request it has.
FairSpec ==
    /\ Spec /\ WF_vars(Poll)
    /\ SF_vars(tcp_ack) /\ SF_vars(tcp_data_in)
    /\ \A x \in Xid : SF_vars(Reply(x))

-----------------------------------------------------------------------------
\* The variables have their types; no more calls wait than coroutines.
TypeOK ==
    /\ xid \in Xid /\ blocked \subseteq Xid /\ Cardinality(blocked) <= MaxCalls
    /\ outqueue \in Seq(Xid) /\ purged \in Seq(Xid)
    /\ written \in 0 .. RequestLen - 1
    /\ waitpdu \in [0 .. HASHES - 1 -> Seq(Xid)]
    /\ waitpdu_len \in 0 .. MaxCalls
    /\ fd \in Mounted .. Mounted + 2 /\ old_fd \in 0 .. fd - 1
    /\ is_connected \in BOOLEAN /\ pollout \in BOOLEAN
    /\ inbuf \in Seq(Xid) /\ Len(inbuf) <= ReplyLen
    /\ pc \in {"idle", "read", "reply", "write", "requeue", "purge"}
    /\ tcpq_out \in Seq(Xid) /\ Len(tcpq_out) <= MaxSize
    /\ EV_WR \in BOOLEAN /\ remote_closed \in BOOLEAN /\ hup \in BOOLEAN
    /\ tcpq_in \in Seq(Xid) /\ coming \in Seq(Xid)
    /\ part \in 0 .. RequestLen - 1 /\ server \subseteq Xid
    /\ dead \in {"no", "exit", "assert"}

\* The requests that have been sent and not answered.
Unanswered == UNION {Range(waitpdu[h]) : h \in DOMAIN waitpdu}

\* Each coroutine that waits has its request in exactly one of the queues of
\* libnfs, and no request belongs to a coroutine that has gone on: whatever
\* order rpc_process_pdu, rpc_reconnect_requeue and rpc_purge_all_pdus run
\* in, a callback is called once.  A callback that stops SOS never returns.
\* rpc_read_from_socket reads on exactly while requests wait: waitpdu_len is
\* their number, after a requeue too.
OnePlace ==
    /\ TypeOK
    /\ \A s \in {outqueue, purged} \cup Range(waitpdu) : IsInjective(s)
    /\ \A g, h \in DOMAIN waitpdu : g = h \/ Range(waitpdu[g]) \cap Range(waitpdu[h]) = {}
    /\ Range(outqueue) \cap Unanswered = {}
    /\ Range(purged) \cap (Range(outqueue) \cup Unanswered) = {}
    /\ dead = "no" => blocked = Range(outqueue) \cup Unanswered \cup Range(purged)
    /\ waitpdu_len = Cardinality(Unanswered)

\* While the connection lasts, every request the server has and every reply
\* on its way finds its request in the bucket rpc_process_pdu looks in, and a
\* request waits only if the server has it, will get it, or has answered it.
\* rpc_read_from_socket keeps the record boundaries: however the units come
\* in, the reply handed to rpc_process_pdu is the units of one reply.
RepliesExpected ==
    /\ (is_connected /\ ~hup /\ dead = "no") =>
        LET due == server \cup Range(tcpq_in) \cup Range(coming) \cup Range(inbuf)
        IN  /\ \A x \in due : x \in Range(waitpdu[rpc_hash_xid(x)])
            /\ Unanswered \subseteq due \cup Range(tcpq_out)
    /\ \A u \in Range(inbuf) : u = inbuf[1]

\* No wakeup is lost: a request in outqueue finds the socket writable, or
\* something unacknowledged in its send queue whose acknowledgement will make
\* it so, although pico_sendto clears EV_WR after every send.
WakeupKept ==
    (is_connected /\ outqueue # <<>>) => EV_WR \/ tcpq_out # <<>>

\* The coroutines of the file system see NfsCalls: every callback answers a
\* call that was asked and, while the connection lasts, every call is
\* answered.
Calls == INSTANCE NfsCalls WITH
    Call <- Xid, asked <- blocked,
    ended <- (dead # "no" \/ hup \/ remote_closed \/ fd # Mounted)

ImplementsCalls == Calls!Spec

\* A call is answered, with an error at worst, also when the session fails:
\* libnfs tries "to reconnect forever on session failures".
CallsReturn == \A x \in Xid : x \in blocked ~> (x \notin blocked \/ dead # "no")
=============================================================================
