---------------------------- MODULE ConsoleProofs ----------------------------
(***************************************************************************)
(* Proofs about Console for any number of processes, any lengths of reads  *)
(* and writes, any sizes of the buffer, of a segment and of the send       *)
(* queue.  What is sent holds for every client; what is read for clients   *)
(* that read one at a time and lines that fit.                             *)
(***************************************************************************)
EXTENDS Console, TLAPS, WellFoundedInduction

\* A serial_send, and the pieces it has queued.
SendRec == [len : Nat, total_sent : Nat, written : Nat, ret : Nat]
Piece == [off : Nat, len : Nat]

\* There is no room in the send queue for the first segment of the data.
NoRoom == Size(Append(out, Chunk(send.len, 0))) > OutMax

\* The pieces follow one another, and serial_send begins again only when the
\* queue has no room for the segment it begins with.
OutInv ==
  /\ out \in Seq(1 .. Space) /\ Size(out) <= OutMax
  /\ send \in SendRec /\ send.total_sent <= send.len /\ send.written <= send.len
  /\ stream \in Seq(Piece)
  /\ \A i \in 1 .. Len(stream) : stream[i].off = End(i - 1)
  /\ End(Len(stream)) = IF ~Sending THEN send.ret
                        ELSE IF send.total_sent = 0 THEN send.written
                        ELSE send.total_sent
  /\ send.total_sent # 0 => send.written = 0 /\ NoRoom

\* The variables of the input side.
InTypes ==
  /\ reader \in Proc \cup {None}
  /\ reading \in BOOLEAN
  /\ curr \in Proc \cup {None}
  /\ buffer \in Seq(Char)
  /\ packet \in Seq(Char) /\ Len(packet) <= MaxBurst
  /\ typed \in 0 .. MaxTyped
  /\ holds \subseteq Proc \ gone
  /\ wait \in [Proc -> [len : ReadLen, from : 0 .. MaxTyped] \cup {NotReading}]
  /\ got \in [from : Nat, len : Nat, chars : Seq(Char)]

\* The coroutine of curr is the one that waits, while reading is set.
OneReader ==
  /\ \A p \in Proc : Waiting(p) <=> (reading /\ p = curr)
  /\ reading => curr \in Proc \ gone

\* The characters that serial_recv_handler still has are the last that
\* arrived, in order; those stored are the ones that arrived before them,
\* back to where the read began, and none is a newline.
Consecutive ==
  /\ \A i \in 1 .. Len(packet) : packet[i].at = typed - Len(packet) + i
  /\ reading =>
       /\ wait[curr].from + Len(buffer) = typed - Len(packet)
       /\ \A i \in 1 .. Len(buffer) : buffer[i].at = wait[curr].from + i /\ ~buffer[i].nl

\* The characters up to the next newline fit in the buffer.
LineFits ==
  (reading /\ packet # <<>>) =>
    \A i \in 0 .. Len(packet) :
      (\A j \in 1 .. i : ~packet[j].nl) => i + Len(buffer) + 1 < BufferSize

InInv ==
  /\ fault = "none"
  /\ InTypes
  /\ Len(buffer) <= BufferSize
  /\ OneReader
  /\ Consecutive
  /\ LineFits
  /\ ReadsFresh
-----------------------------------------------------------------------------
\* A set of natural numbers that is not empty has a smallest one.
LEMMA Smallest ==
  ASSUME NEW S, S \subseteq Nat, S # {}
  PROVE  \E i \in S : \A j \in S : i <= j
<1> DEFINE R == OpToRel(<, Nat)
<1>1. PICK x \in S : \A y \in S : ~(<<y, x>> \in R)
  BY NatLessThanWellFounded, WFMin
<1>2. \A y \in Nat : y < x => <<y, x>> \in R
  BY DEF OpToRel
<1> HIDE DEF R
<1>3. \A y \in S : ~(y < x)
  BY <1>1, <1>2
<1> QED
  BY <1>3

\* A bounded one has a largest, the smallest of its bounds.
LEMMA Largest ==
  ASSUME NEW S, S \subseteq Nat, S # {}, NEW n \in Nat, \A i \in S : i <= n
  PROVE  Max(S) \in S /\ \A i \in S : i <= Max(S)
<1> DEFINE U == {u \in Nat : \A i \in S : i <= u}
<1>1. U \subseteq Nat /\ n \in U
  OBVIOUS
<1>2. PICK m \in U : \A u \in U : m <= u
  BY <1>1, Smallest
<1>3. m \in S
  <2> SUFFICES ASSUME m \notin S PROVE FALSE
    OBVIOUS
  <2>1. \A i \in S : i <= m - 1
    BY <1>2
  <2>2. PICK i \in S : TRUE
    OBVIOUS
  <2>3. m - 1 \in Nat
    BY <1>2, <2>1, <2>2
  <2> QED
    BY <1>2, <2>1, <2>3
<1>4. \A i \in S : i <= m
  BY <1>2
<1>5. \E x \in S : \A y \in S : x >= y
  BY <1>3, <1>4
<1>6. Max(S) \in S /\ \A y \in S : Max(S) >= y
  BY <1>5 DEF Max
<1> QED
  BY <1>6

\* Induction over the natural numbers, for a set.
LEMMA SetInduction ==
  ASSUME NEW S, 0 \in S, \A n \in Nat : n \in S => n + 1 \in S
  PROVE  Nat \subseteq S
<1> SUFFICES ASSUME ~(Nat \subseteq S) PROVE FALSE
  OBVIOUS
<1>1. PICK m \in Nat \ S : \A j \in Nat \ S : m <= j
  BY Smallest
<1>2. m # 0 /\ m - 1 \in Nat
  BY <1>1
<1>3. m - 1 \in S
  BY <1>1, <1>2
<1>4. (m - 1) + 1 \in S
  BY <1>2, <1>3
<1> QED
  BY <1>1, <1>4

LEMMA MinPair ==
  ASSUME NEW a \in Int, NEW b \in Int
  PROVE  /\ Min({a, b}) = IF a <= b THEN a ELSE b
         /\ Min({a, b}) \in Int
<1>1. \E x \in {a, b} : \A y \in {a, b} : x <= y
  OBVIOUS
<1>2. Min({a, b}) \in {a, b} /\ \A y \in {a, b} : Min({a, b}) <= y
  BY <1>1 DEF Min
<1> QED
  BY <1>2

-----------------------------------------------------------------------------
(* What tcpq_out.size is. *)

\* f[i] is the size of the first i segments of q.
Sums(q, f) ==
  f = [i \in 0 .. Len(q) |-> IF i = 0 THEN 0 ELSE f[i - 1] + q[i] + Overhead]

LEMMA SizeIs ==
  ASSUME NEW q
  PROVE  Size(q) = (CHOOSE f : Sums(q, f))[Len(q)]
BY DEF Size, Sums

\* The sums of a sequence, step by step.
Steps(q, f, n) ==
  /\ f \in [0 .. n -> Nat]
  /\ f[0] = 0
  /\ \A i \in 1 .. n : f[i] = f[i - 1] + q[i] + Overhead

LEMMA StepsExist ==
  ASSUME NEW q \in Seq(Nat)
  PROVE  \E f : Steps(q, f, Len(q))
<1> DEFINE S == {n \in Nat : n <= Len(q) => \E f : Steps(q, f, n)}
<1>1. 0 \in S
  <2>1. Steps(q, [i \in 0 .. 0 |-> 0], 0)
    BY DEF Steps
  <2> QED
    BY <2>1
<1>2. ASSUME NEW n \in Nat, n \in S PROVE n + 1 \in S
  <2> SUFFICES ASSUME n + 1 <= Len(q) PROVE \E f : Steps(q, f, n + 1)
    OBVIOUS
  <2>1. PICK f : Steps(q, f, n)
    BY <1>2
  <2> DEFINE g == [i \in 0 .. n + 1 |-> IF i <= n THEN f[i] ELSE f[n] + q[n + 1] + Overhead]
  <2>2. Overhead \in Nat /\ q[n + 1] \in Nat /\ f[n] \in Nat
    BY <2>1, ConsoleAssumption DEF Steps
  <2>3. g \in [0 .. n + 1 -> Nat]
    BY <2>1, <2>2 DEF Steps
  <2>4. g[0] = 0
    BY <2>1 DEF Steps
  <2>5. ASSUME NEW i \in 1 .. n + 1 PROVE g[i] = g[i - 1] + q[i] + Overhead
    <3>1. i \in 0 .. n + 1 /\ i - 1 \in 0 .. n + 1 /\ i - 1 <= n /\ i \in Int
      OBVIOUS
    <3>2. g[i - 1] = f[i - 1]
      BY <3>1
    <3>3. CASE i <= n
      BY <2>1, <3>1, <3>2, <3>3 DEF Steps
    <3>4. CASE i = n + 1
      <4>1. g[i] = f[n] + q[n + 1] + Overhead /\ i - 1 = n
        BY <3>1, <3>4
      <4> QED
        BY <3>2, <3>4, <4>1
    <3> QED
      BY <3>1, <3>3, <3>4
  <2>6. Steps(q, g, n + 1)
    BY <2>3, <2>4, <2>5 DEF Steps
  <2> QED
    BY <2>6
<1>3. Nat \subseteq S
  <2> HIDE DEF S
  <2> QED
    BY <1>1, <1>2, SetInduction
<1> QED
  BY <1>3

LEMMA StepsSums ==
  ASSUME NEW q \in Seq(Nat), NEW f
  PROVE  Sums(q, f) <=> Steps(q, f, Len(q))
<1>1. Len(q) \in Nat /\ Overhead \in Nat
  BY ConsoleAssumption
<1>2. ASSUME Steps(q, f, Len(q)) PROVE Sums(q, f)
  BY <1>1, <1>2 DEF Steps, Sums
<1>3. ASSUME Sums(q, f) PROVE Steps(q, f, Len(q))
  <2> DEFINE g == [i \in 0 .. Len(q) |-> IF i = 0 THEN 0 ELSE f[i - 1] + q[i] + Overhead]
  <2>1. f = g
    BY <1>3 DEF Sums
  <2>2. f[0] = 0
    BY <1>1, <2>1
  <2>3. \A i \in 1 .. Len(q) : f[i] = f[i - 1] + q[i] + Overhead
    BY <1>1, <2>1
  <2>4. f = [i \in 0 .. Len(q) |-> f[i]]
    BY <2>1
  <2> HIDE DEF g
  <2> DEFINE S == {n \in Nat : n <= Len(q) => f[n] \in Nat}
  <2>5. 0 \in S
    BY <2>2
  <2>6. ASSUME NEW n \in Nat, n \in S PROVE n + 1 \in S
    BY <1>1, <2>3, <2>6
  <2>7. Nat \subseteq S
    <3> HIDE DEF S
    <3> QED
      BY <2>5, <2>6, SetInduction
  <2>8. \A i \in 0 .. Len(q) : f[i] \in Nat
    BY <1>1, <2>7
  <2> QED
    BY <2>2, <2>3, <2>4, <2>8 DEF Steps
<1> QED
  BY <1>2, <1>3

LEMMA SizeFacts ==
  ASSUME NEW q \in Seq(Nat)
  PROVE  \E f : Steps(q, f, Len(q)) /\ Size(q) = f[Len(q)]
<1>1. \E f : Sums(q, f)
  BY StepsExist, StepsSums
<1>2. Sums(q, CHOOSE f : Sums(q, f))
  BY <1>1
<1> QED
  BY <1>2, StepsSums, SizeIs

\* Two sums that grow by the same amounts keep their distance.
LEMMA Parallel ==
  ASSUME NEW n \in Nat, NEW k \in Nat, NEW f, NEW g,
         \A i \in 0 .. n : f[i] \in Nat /\ g[i] \in Nat,
         f[0] = g[0] + k,
         \A i \in 1 .. n : f[i] - f[i - 1] = g[i] - g[i - 1]
  PROVE  f[n] = g[n] + k
<1> DEFINE S == {i \in Nat : i <= n => f[i] = g[i] + k}
<1>1. 0 \in S
  OBVIOUS
<1>2. ASSUME NEW i \in Nat, i \in S PROVE i + 1 \in S
  <2> SUFFICES ASSUME i + 1 <= n PROVE f[i + 1] = g[i + 1] + k
    OBVIOUS
  <2>1. /\ f[i] \in Nat /\ f[i + 1] \in Nat /\ g[i] \in Nat /\ g[i + 1] \in Nat
        /\ f[i] = g[i] + k
    BY <1>2
  <2>2. i + 1 \in 1 .. n /\ (i + 1) - 1 = i
    OBVIOUS
  <2>3. f[i + 1] - f[i] = g[i + 1] - g[i]
    BY <2>2
  <2> QED
    BY <2>1, <2>3
<1>3. Nat \subseteq S
  <2> HIDE DEF S
  <2> QED
    BY <1>1, <1>2, SetInduction
<1> QED
  BY <1>3

LEMMA SizeAppend ==
  ASSUME NEW q \in Seq(Nat), NEW x \in Nat
  PROVE  /\ Size(q) \in Nat
         /\ Size(Append(q, x)) = Size(q) + x + Overhead
<1> DEFINE n == Len(q)
<1>1. /\ Append(q, x) \in Seq(Nat) /\ Len(Append(q, x)) = n + 1 /\ n \in Nat
      /\ \A i \in 1 .. n : Append(q, x)[i] = q[i] /\ q[i] \in Nat
      /\ Append(q, x)[n + 1] = x
      /\ Overhead \in Nat
  BY ConsoleAssumption
<1>2. PICK f : Steps(Append(q, x), f, n + 1) /\ Size(Append(q, x)) = f[n + 1]
  BY <1>1, SizeFacts
<1>3. PICK g : Steps(q, g, n) /\ Size(q) = g[n]
  BY SizeFacts
<1> DEFINE h == [i \in 0 .. n |-> f[i]]
<1>4. /\ h \in [0 .. n -> Nat] /\ g \in [0 .. n -> Nat] /\ h[0] = g[0] + 0 /\ 0 \in Nat
      /\ f[n + 1] = f[n] + x + Overhead /\ f[n] \in Nat
  BY <1>1, <1>2, <1>3 DEF Steps
<1>5. ASSUME NEW i \in 1 .. n PROVE h[i] - h[i - 1] = g[i] - g[i - 1]
  <2>1. f[i] = f[i - 1] + q[i] + Overhead /\ f[i - 1] \in Nat /\ i \in 0 .. n /\ i - 1 \in 0 .. n
    BY <1>1, <1>2, SMTT(40) DEF Steps
  <2>2. g[i] = g[i - 1] + q[i] + Overhead
    BY <1>3 DEF Steps
  <2>3. g[i - 1] \in Nat /\ q[i] \in Nat
    BY <1>1, <1>4, <2>1
  <2> QED
    BY <1>1, <2>1, <2>2, <2>3
<1>6. h[n] = g[n] + 0
  <2>1. \A i \in 0 .. n : h[i] \in Nat /\ g[i] \in Nat
    BY <1>4
  <2>2. \A i \in 1 .. n : h[i] - h[i - 1] = g[i] - g[i - 1]
    BY <1>5
  <2>3. n \in Nat /\ h[0] = g[0] + 0
    BY <1>1, <1>4
  <2> HIDE DEF h, n
  <2> QED
    BY <2>1, <2>2, <2>3, Parallel
<1>7. f[n] = g[n] /\ g[n] \in Nat
  BY <1>1, <1>4, <1>6
<1> QED
  BY <1>1, <1>2, <1>3, <1>4, <1>7

\* Releasing the first segments makes the queue no larger.
LEMMA SizeSuffix ==
  ASSUME NEW q \in Seq(Nat), NEW n \in 1 .. Len(q)
  PROVE  Size(SubSeq(q, n + 1, Len(q))) <= Size(q)
<1> DEFINE r == SubSeq(q, n + 1, Len(q))
<1> DEFINE m == Len(q) - n
<1>1. /\ r \in Seq(Nat) /\ Len(r) = m /\ m \in Nat /\ n \in Nat /\ n + m = Len(q)
      /\ \A i \in 1 .. m : r[i] = q[n + i]
  OBVIOUS
<1>2. \A i \in 1 .. Len(q) : q[i] \in Nat
  OBVIOUS
<1>3. PICK f : Steps(q, f, Len(q)) /\ Size(q) = f[Len(q)]
  BY SizeFacts
<1>4. PICK g : Steps(r, g, m) /\ Size(r) = g[m]
  <2> HIDE DEF r
  <2> QED
    BY <1>1, SizeFacts
<1> HIDE DEF r, m
<1> DEFINE h == [i \in 0 .. m |-> f[n + i]]
<1>5. \A i \in 0 .. m : n + i \in 0 .. Len(q) /\ h[i] = f[n + i]
  BY <1>1
<1> DEFINE k == f[n]
<1>6. /\ \A i \in 0 .. m : h[i] \in Nat /\ g[i] \in Nat
      /\ k \in Nat /\ h[0] = g[0] + k
  <2>1. \A i \in 0 .. Len(q) : f[i] \in Nat
    BY <1>3 DEF Steps
  <2>2. g[0] = 0 /\ \A i \in 0 .. m : g[i] \in Nat
    BY <1>4 DEF Steps
  <2>3. 0 \in 0 .. m /\ n \in 0 .. Len(q) /\ n + 0 = n
    BY <1>1
  <2>4. h[0] = k
    BY <1>5, <2>3
  <2>5. \A i \in 0 .. m : h[i] \in Nat
    BY <1>5, <2>1
  <2>6. k \in Nat
    BY <2>1, <2>3
  <2> HIDE DEF h, k
  <2>7. h[0] = g[0] + k
    BY <2>2, <2>4, <2>6
  <2> QED
    BY <2>2, <2>5, <2>6, <2>7
<1>7. \A i \in 1 .. m : h[i] - h[i - 1] = g[i] - g[i - 1]
  <2> SUFFICES ASSUME NEW i \in 1 .. m PROVE h[i] - h[i - 1] = g[i] - g[i - 1]
    OBVIOUS
  <2>1. /\ i \in 0 .. m /\ i - 1 \in 0 .. m /\ n + i \in 1 .. Len(q)
        /\ (n + i) - 1 = n + (i - 1)
    BY <1>1
  <2>2. h[i] = f[n + i] /\ h[i - 1] = f[n + (i - 1)] /\ h[i - 1] \in Nat /\ g[i - 1] \in Nat
    BY <1>5, <1>6, <2>1
  <2>3. f[n + i] = f[(n + i) - 1] + q[n + i] + Overhead
    BY <1>3, <2>1 DEF Steps
  <2>4. g[i] = g[i - 1] + r[i] + Overhead /\ r[i] = q[n + i]
    BY <1>1, <1>4 DEF Steps
  <2>5. h[i] = h[i - 1] + q[n + i] + Overhead
    BY <2>1, <2>2, <2>3
  <2>6. q[n + i] \in Nat /\ Overhead \in Nat
    BY <1>2, <2>1, ConsoleAssumption
  <2> HIDE DEF h
  <2> QED
    BY <2>2, <2>4, <2>5, <2>6, SMTT(40)
<1>8. m \in 0 .. m
  BY <1>1
<1>9. h[m] = f[Len(q)] /\ g[m] \in Nat
  BY <1>1, <1>5, <1>6, <1>8
<1> HIDE DEF h, k
<1>10. h[m] = g[m] + k
  <2>1. m \in Nat /\ k \in Nat /\ h[0] = g[0] + k
    BY <1>1, <1>6
  <2>2. \A i \in 0 .. m : h[i] \in Nat /\ g[i] \in Nat
    BY <1>6
  <2> QED
    BY <1>7, <2>1, <2>2, Parallel
<1> QED
  BY <1>3, <1>4, <1>6, <1>9, <1>10 DEF r

LEMMA SizeEmpty == Size(<<>>) = 0
<1>1. <<>> \in Seq(Nat) /\ Len(<<>>) = 0
  OBVIOUS
<1>2. PICK f : Steps(<<>>, f, Len(<<>>)) /\ Size(<<>>) = f[Len(<<>>)]
  BY <1>1, SizeFacts
<1> QED
  BY <1>1, <1>2 DEF Steps

-----------------------------------------------------------------------------
(* What serial_send queues, for every client. *)

LEMMA InitOut == Init => OutInv
<1> SUFFICES ASSUME Init PROVE OutInv
  OBVIOUS
<1>1. out = <<>> /\ send = NotSending /\ stream = <<>>
  BY DEF Init
<1>2. /\ send \in SendRec /\ send.total_sent = 0 /\ send.written = 0 /\ send.len = 0
      /\ send.ret = 0
  BY <1>1 DEF NotSending, SendRec
<1>3. out \in Seq(1 .. Space) /\ Size(out) <= OutMax
  BY <1>1, SizeEmpty, ConsoleAssumption
<1>4. stream \in Seq(Piece) /\ Len(stream) = 0
  BY <1>1
<1> QED
  BY <1>2, <1>3, <1>4 DEF OutInv, End, Sending

\* A segment is not empty, and the first of the data is the largest.
LEMMA ChunkFacts ==
  ASSUME NEW len \in Nat, NEW written \in Nat, written < len
  PROVE  /\ Chunk(len, written) \in 1 .. Space
         /\ Chunk(len, written) <= len - written
         /\ Chunk(len, 0) \in 1 .. Space
         /\ Chunk(len, written) <= Chunk(len, 0)
<1>1. Space \in Nat \ {0} /\ len - written \in Int /\ len - 0 \in Int /\ Space \in Int
  BY ConsoleAssumption
<1>2. /\ Chunk(len, written) = IF len - written <= Space THEN len - written ELSE Space
      /\ Chunk(len, 0) = IF len - 0 <= Space THEN len - 0 ELSE Space
  BY <1>1, MinPair DEF Chunk
<1> QED
  BY <1>1, <1>2

LEMMA SegmentSize ==
  ASSUME out \in Seq(1 .. Space), NEW c \in 1 .. Space
  PROVE  /\ Append(out, c) \in Seq(1 .. Space)
         /\ Size(Append(out, c)) = Size(out) + c + Overhead
         /\ Size(out) \in Nat /\ Size(Append(out, c)) \in Nat
<1>1. out \in Seq(Nat) /\ c \in Nat /\ Append(out, c) \in Seq(1 .. Space) /\ Overhead \in Nat
  BY ConsoleAssumption
<1>2. Size(out) \in Nat /\ Size(Append(out, c)) = Size(out) + c + Overhead
  BY <1>1, SizeAppend
<1> QED
  BY <1>1, <1>2

LEMMA WriteOut ==
  ASSUME OutInv, NEW p, NEW len \in WriteLen, console_write(p, len)
  PROVE  OutInv'
<1>1. /\ send' = [len |-> len, total_sent |-> 0, written |-> 0, ret |-> 0]
      /\ stream' = <<>> /\ out' = out
      /\ len \in Nat /\ len # 0
  BY ConsoleAssumption DEF console_write
<1>2. /\ send' \in SendRec /\ send'.total_sent = 0 /\ send'.written = 0 /\ send'.len = len
  BY <1>1 DEF SendRec
<1>3. out' \in Seq(1 .. Space) /\ Size(out') <= OutMax
  BY <1>1 DEF OutInv
<1>4. stream' \in Seq(Piece) /\ Len(stream') = 0
  BY <1>1
<1> QED
  BY <1>1, <1>2, <1>3, <1>4 DEF OutInv, End, Sending

LEMMA PushOut ==
  ASSUME OutInv, pico_socket_xmit_one
  PROVE  OutInv'
<1> DEFINE c == Chunk(send.len, send.written)
<1> DEFINE piece == [off |-> send.written, len |-> c]
<1>1. /\ send \in SendRec /\ send.len \in Nat /\ send.written \in Nat /\ send.total_sent \in Nat
      /\ send.written <= send.len /\ send.total_sent <= send.len
  BY DEF OutInv, SendRec
<1>2. /\ send.written # send.len /\ ~(Size(Append(out, c)) > OutMax)
      /\ out' = Append(out, c) /\ stream' = Append(stream, piece)
      /\ send' = [send EXCEPT !.written = @ + c]
      /\ Sending
  BY DEF pico_socket_xmit_one, Stops
<1>3. c \in 1 .. Space /\ c <= send.len - send.written /\ c <= Chunk(send.len, 0)
      /\ Chunk(send.len, 0) \in 1 .. Space
  BY <1>1, <1>2, ChunkFacts
<1> HIDE DEF c
<1>4. c \in Nat
  BY <1>3
<1>5. out \in Seq(1 .. Space) /\ stream \in Seq(Piece) /\ OutMax \in Nat
  BY ConsoleAssumption DEF OutInv
<1>6. out' \in Seq(1 .. Space) /\ Size(out') <= OutMax
  <2>1. /\ Append(out, c) \in Seq(1 .. Space) /\ Size(Append(out, c)) \in Nat
    BY <1>3, <1>5, SegmentSize
  <2> QED
    BY <1>2, <1>5, <2>1
<1>7. /\ send' \in SendRec /\ send'.len = send.len /\ send'.total_sent = send.total_sent
      /\ send'.written = send.written + c /\ send'.written <= send.len
      /\ send'.len # 0
  <2>1. send.len # 0 /\ send.written + c \in Nat /\ send.written + c <= send.len
    BY <1>1, <1>2, <1>3, <1>4 DEF Sending
  <2>2. /\ send'.len = send.len /\ send'.total_sent = send.total_sent
        /\ send'.written = send.written + c
    BY <1>1, <1>2 DEF SendRec
  <2>3. send' \in SendRec
    BY <1>1, <1>2, <2>1 DEF SendRec
  <2> QED
    BY <2>1, <2>2, <2>3
<1>8. send.total_sent = 0
  <2> SUFFICES ASSUME send.total_sent # 0 PROVE FALSE
    OBVIOUS
  <2>1. send.written = 0 /\ Size(Append(out, Chunk(send.len, 0))) > OutMax
    BY DEF OutInv, NoRoom
  <2> QED
    BY <1>2, <2>1 DEF c
<1>9. End(Len(stream)) = send.written
  BY <1>2, <1>8 DEF OutInv
<1>10. piece \in Piece /\ piece.off = send.written /\ piece.len = c
  BY <1>1, <1>4 DEF Piece
<1>n. PICK n \in Nat : n = Len(stream)
  BY <1>5
<1>11. /\ stream' \in Seq(Piece) /\ Len(stream') = n + 1
       /\ \A i \in 1 .. n : stream'[i] = stream[i]
       /\ stream'[n + 1] = piece
  <2> HIDE DEF piece
  <2> QED
    BY <1>2, <1>5, <1>10, <1>n
<1> HIDE DEF piece
<1>12. ASSUME NEW i \in 1 .. n + 1 PROVE stream'[i].off = End(i - 1)'
  <2>1. CASE i = n + 1
    <3>1. i - 1 = n /\ (n = 0 \/ n \in 1 .. n)
      BY <1>11, <2>1
    <3>2. End(n)' = End(n)
      BY <1>11, <3>1 DEF End
    <3> QED
      BY <1>9, <1>10, <1>11, <2>1, <3>1, <3>2, <1>n
  <2>2. CASE i # n + 1
    <3>1. i \in 1 .. n /\ (i - 1 = 0 \/ i - 1 \in 1 .. n)
      BY <1>11, <2>2
    <3>2. End(i - 1)' = End(i - 1)
      BY <1>11, <3>1 DEF End
    <3>3. stream[i].off = End(i - 1)
      BY <1>n, <3>1 DEF OutInv
    <3> QED
      BY <1>11, <3>1, <3>2, <3>3
  <2> QED
    BY <2>1, <2>2
<1>13. End(n + 1)' = send.written + c
  BY <1>10, <1>11 DEF End
<1>14. /\ \A i \in 1 .. Len(stream') : stream'[i].off = End(i - 1)'
       /\ End(Len(stream))' = send'.written
  <2>1. End(Len(stream))' = End(n + 1)'
    BY <1>11 DEF End
  <2> QED
    BY <1>7, <1>11, <1>12, <1>13, <2>1
<1> QED
  BY <1>6, <1>7, <1>8, <1>11, <1>14 DEF OutInv, Sending

LEMMA SendOut ==
  ASSUME OutInv, serial_send
  PROVE  OutInv'
<1>1. /\ send \in SendRec /\ send.len \in Nat /\ send.written \in Nat /\ send.total_sent \in Nat
      /\ send.written <= send.len /\ send.total_sent <= send.len
      /\ out \in Seq(1 .. Space) /\ Size(out) <= OutMax
      /\ stream \in Seq(Piece)
  BY DEF OutInv, SendRec
<1>2. /\ Sending /\ Stops(send.len, send.written) /\ out' = out /\ stream' = stream
      /\ send' = IF Again(send.written, send.total_sent + send.written)
                   THEN [send EXCEPT !.total_sent = send.total_sent + send.written,
                                     !.written = 0]
                   ELSE [NotSending EXCEPT !.ret =
                           IF send.written = 0 THEN send.total_sent + send.written
                           ELSE send.len]
  BY DEF serial_send
<1>3. /\ send.total_sent # 0 => send.written = 0 /\ NoRoom
      /\ End(Len(stream)) = IF send.total_sent = 0 THEN send.written ELSE send.total_sent
      /\ \A i \in 1 .. Len(stream) : stream[i].off = End(i - 1)
  BY <1>2 DEF OutInv
<1>4. /\ out' \in Seq(1 .. Space) /\ Size(out') <= OutMax /\ stream' \in Seq(Piece)
      /\ \A i \in 1 .. Len(stream') : stream'[i].off = End(i - 1)'
      /\ End(Len(stream))' = End(Len(stream))
  BY <1>1, <1>2, <1>3 DEF End
<1>5. CASE Again(send.written, send.total_sent + send.written)
  <2>1. send.written > 0 /\ send.total_sent + send.written < send.len
    BY <1>5 DEF Again
  <2>2. send.total_sent = 0
    BY <1>1, <1>3, <2>1
  <2>3. send.written < send.len
    BY <1>1, <2>1, <2>2
  <2>4. Size(Append(out, Chunk(send.len, send.written))) > OutMax
    BY <1>1, <1>2, <2>3 DEF Stops
  <2>5. /\ Chunk(send.len, send.written) \in 1 .. Space /\ Chunk(send.len, 0) \in 1 .. Space
        /\ Chunk(send.len, send.written) <= Chunk(send.len, 0)
    BY <1>1, <2>3, ChunkFacts
  <2>6. Size(Append(out, Chunk(send.len, 0))) > OutMax
    <3> DEFINE c == Chunk(send.len, send.written)
    <3> DEFINE d == Chunk(send.len, 0)
    <3> HIDE DEF c, d
    <3>1. c \in 1 .. Space /\ d \in 1 .. Space /\ c <= d /\ Size(Append(out, c)) > OutMax
      BY <2>4, <2>5 DEF c, d
    <3>2. /\ Size(Append(out, c)) = Size(out) + c + Overhead
          /\ Size(Append(out, d)) = Size(out) + d + Overhead
          /\ Size(out) \in Nat
      BY <1>1, <3>1, SegmentSize
    <3>3. Size(Append(out, d)) > OutMax
      BY <3>1, <3>2, ConsoleAssumption
    <3> QED
      BY <3>3 DEF d
  <2>7. send' = [send EXCEPT !.total_sent = send.total_sent + send.written, !.written = 0]
    BY <1>2, <1>5
  <2>8. /\ send'.len = send.len /\ send'.total_sent = send.written /\ send'.written = 0
        /\ send' \in SendRec
    <3>1. send.total_sent + send.written = send.written
      BY <1>1, <2>2
    <3> QED
      BY <1>1, <2>7, <3>1 DEF SendRec
  <2>9. NoRoom'
    BY <1>2, <2>6, <2>8 DEF NoRoom, Chunk
  <2>10. send'.len # 0
    BY <1>2, <2>8 DEF Sending
  <2> QED
    BY <1>1, <1>3, <1>4, <2>1, <2>2, <2>3, <2>8, <2>9, <2>10 DEF OutInv, Sending
<1>6. CASE ~Again(send.written, send.total_sent + send.written)
  <2> DEFINE r == IF send.written = 0 THEN send.total_sent + send.written ELSE send.len
  <2>1. send' = [NotSending EXCEPT !.ret = r]
    BY <1>2, <1>6
  <2>2. r \in Nat
    BY <1>1
  <2>3. r = End(Len(stream))
    <3>1. CASE send.written = 0
      BY <1>1, <1>3, <3>1
    <3>2. CASE send.written # 0
      <4>1. send.total_sent = 0 /\ send.written >= send.len
        BY <1>1, <1>3, <1>6, <3>2 DEF Again
      <4> QED
        BY <1>1, <1>3, <3>2, <4>1
    <3> QED
      BY <3>1, <3>2
  <2> HIDE DEF r
  <2>4. /\ send'.len = 0 /\ send'.total_sent = 0 /\ send'.written = 0 /\ send'.ret = r
        /\ send' \in SendRec
    BY <2>1, <2>2 DEF NotSending, SendRec
  <2> QED
    BY <1>4, <2>3, <2>4 DEF OutInv, Sending
<1> QED
  BY <1>5, <1>6

LEMMA SuffixIn ==
  ASSUME NEW S, NEW q \in Seq(S), NEW n \in 1 .. Len(q)
  PROVE  SubSeq(q, n + 1, Len(q)) \in Seq(S)
OBVIOUS

LEMMA AckOut ==
  ASSUME OutInv, NEW n, tcp_ack(n)
  PROVE  OutInv'
<1>1. /\ ~Sending /\ n \in 1 .. Len(out) /\ out' = SubSeq(out, n + 1, Len(out))
      /\ send' = send /\ stream' = stream
  BY DEF tcp_ack, Free
<1>2. out \in Seq(1 .. Space) /\ out \in Seq(Nat)
  BY ConsoleAssumption DEF OutInv
<1>3. out' \in Seq(1 .. Space) /\ out' \in Seq(Nat)
  BY <1>1, <1>2, SuffixIn
<1>4. Size(out') <= Size(out) /\ Size(out) \in Nat /\ Size(out') \in Nat
  <2>1. Size(out) \in Nat /\ Size(out') \in Nat
    BY <1>2, <1>3, SizeAppend
  <2>2. Size(SubSeq(out, n + 1, Len(out))) <= Size(out)
    BY <1>1, <1>2, SizeSuffix
  <2> QED
    BY <1>1, <2>1, <2>2
<1>5. Size(out') <= OutMax
  BY <1>4, ConsoleAssumption DEF OutInv
<1>6. send.total_sent = 0
  BY <1>1 DEF OutInv, Sending, SendRec
<1> QED
  BY <1>1, <1>3, <1>5, <1>6 DEF OutInv, End, Sending

LEMMA SameOut ==
  ASSUME OutInv, UNCHANGED output
  PROVE  OutInv'
BY DEF OutInv, output, End, Sending, NoRoom, Chunk

LEMMA NextOut == OutInv /\ [Next]_vars => OutInv'
<1> SUFFICES ASSUME OutInv, [Next]_vars PROVE OutInv'
  OBVIOUS
<1>1. CASE UNCHANGED output
  BY <1>1, SameOut
<1>2. ASSUME NEW p \in Proc, NEW len \in WriteLen, console_write(p, len) PROVE OutInv'
  BY <1>2, WriteOut
<1>3. CASE pico_socket_xmit_one
  BY <1>3, PushOut
<1>4. CASE serial_send
  BY <1>4, SendOut
<1>5. ASSUME NEW n \in 1 .. OutMax, tcp_ack(n) PROVE OutInv'
  BY <1>5, AckOut
<1>6. ASSUME NEW p \in Proc,
             \/ \E flags \in Modes : console_open(p, flags)
             \/ console_close(p)
             \/ \E len \in ReadLen : console_read(p, len)
             \/ proc_destroy(p)
      PROVE  UNCHANGED output
  BY <1>6 DEF console_open, console_close, console_read, proc_destroy
<1>7. ASSUME NEW s \in Bursts, Arrive(s) PROVE UNCHANGED output
  BY <1>7 DEF Arrive
<1>8. console_handler => UNCHANGED output
  BY DEF console_handler
<1>9. UNCHANGED vars => UNCHANGED output
  BY DEF vars
<1> QED
  BY <1>1, <1>2, <1>3, <1>4, <1>5, <1>6, <1>7, <1>8, <1>9 DEF Next

\* For every client, every length and every size of the send queue: although
\* serial_send begins again at the start of its data after a partial send,
\* what a console_write queues is the first bytes of its data, each once, and
\* it returns how many they are.
THEOREM NothingSentTwice == Spec => []SentOnce
<1>1. Init => OutInv
  BY InitOut
<1>2. OutInv /\ [Next]_vars => OutInv'
  BY NextOut
<1>3. OutInv => SentOnce
  BY DEF OutInv, SentOnce
<1> QED
  BY <1>1, <1>2, <1>3, PTL DEF Spec

-----------------------------------------------------------------------------
(* What console_read returns, for clients that read one at a time. *)

LEMMA InitIn == Init => InInv
<1> SUFFICES ASSUME Init PROVE InInv
  OBVIOUS
<1> USE ConsoleAssumption
<1>1. /\ reader = None /\ reading = FALSE /\ curr = None /\ buffer = <<>> /\ packet = <<>>
      /\ typed = 0 /\ holds = {} /\ gone = {} /\ wait = [p \in Proc |-> NotReading]
      /\ got = [from |-> 0, len |-> 0, chars |-> <<>>] /\ fault = "none"
  BY DEF Init
<1>2. /\ got \in [from : Nat, len : Nat, chars : Seq(Char)]
      /\ got.chars = <<>> /\ got.len = 0 /\ Len(got.chars) = 0
  BY <1>1
<1>3. wait \in [Proc -> [len : ReadLen, from : 0 .. MaxTyped] \cup {NotReading}]
  BY <1>1
<1>4. /\ buffer \in Seq(Char) /\ packet \in Seq(Char) /\ Len(packet) = 0 /\ Len(buffer) = 0
  BY <1>1
<1>5. typed \in 0 .. MaxTyped
  BY <1>1
<1>6. reading \in BOOLEAN
  BY <1>1, Zenon
<1>7. InTypes
  BY <1>1, <1>2, <1>3, <1>4, <1>5, <1>6 DEF InTypes
<1>8. OneReader
  BY <1>1 DEF OneReader, Waiting
<1>9. Consecutive /\ LineFits
  BY <1>1, <1>4 DEF Consecutive, LineFits
<1>10. ReadsFresh
  BY <1>1, <1>2 DEF ReadsFresh
<1> QED
  BY <1>1, <1>4, <1>7, <1>8, <1>9, <1>10 DEF InInv

\* A handler that leaves the input side alone.
LEMMA SameIn ==
  ASSUME InInv, UNCHANGED <<input, fault>>,
         reader' \in Proc \cup {None}, holds' \subseteq Proc \ gone',
         reading => curr \notin gone'
  PROVE  InInv'
<1>1. UNCHANGED <<reading, curr, buffer, packet, typed, wait, got, fault>>
  BY DEF input
<1>2. InTypes'
  BY <1>1 DEF InInv, InTypes
<1>3. OneReader'
  BY <1>1 DEF InInv, OneReader, Waiting
<1>4. Consecutive' /\ LineFits' /\ ReadsFresh'
  BY <1>1 DEF InInv, Consecutive, LineFits, ReadsFresh
<1> QED
  BY <1>1, <1>2, <1>3, <1>4 DEF InInv

LEMMA OpenIn ==
  ASSUME InInv, NEW p \in Proc, NEW flags, console_open(p, flags)
  PROVE  InInv'
BY SameIn DEF InInv, InTypes, OneReader, console_open, OpensToRead

LEMMA CloseIn ==
  ASSUME InInv, NEW p \in Proc, console_close(p)
  PROVE  InInv'
BY SameIn DEF InInv, InTypes, OneReader, console_close

LEMMA DestroyIn ==
  ASSUME Disciplined, InInv, NEW p \in Proc, proc_destroy(p)
  PROVE  InInv'
<1>1. reading => p # curr
  BY DEF InInv, OneReader, proc_destroy
<1>2. /\ UNCHANGED <<input, fault>> /\ gone' = gone \cup {p} /\ holds' = holds \ {p}
      /\ reader' \in {None, reader}
  BY DEF proc_destroy
<1> QED
  BY <1>1, <1>2, SameIn DEF InInv, InTypes, OneReader

LEMMA OutputIn ==
  ASSUME InInv, UNCHANGED <<reader, input, holds, gone, fault>>
  PROVE  InInv'
BY SameIn DEF InInv, InTypes, OneReader

LEMMA ReadIn ==
  ASSUME Disciplined, InInv, NEW p \in Proc, NEW len \in ReadLen, console_read(p, len)
  PROVE  InInv'
<1> DEFINE w == [len |-> len, from |-> typed]
<1>1. /\ reading' = TRUE /\ curr' = p /\ wait' = [wait EXCEPT ![p] = w]
      /\ UNCHANGED <<reader, buffer, packet, typed, got, holds, gone, fault>>
      /\ packet = <<>> /\ p \in holds
      /\ \A q \in Proc : ~Waiting(q)
  BY DEF console_read, Free
<1>2. InTypes
  BY DEF InInv
<1>3. /\ w \in [len : ReadLen, from : 0 .. MaxTyped] /\ w # NotReading /\ w.from = typed
  BY <1>2, ConsoleAssumption DEF InTypes, NotReading
<1> HIDE DEF w
<1>4. ~reading
  BY <1>1 DEF InInv, OneReader, InTypes
<1>5. buffer = <<>> /\ Len(buffer) = 0 /\ Len(packet) = 0
  BY <1>1, <1>4 DEF InInv, ReadsFresh
<1>6. reading' \in BOOLEAN
  BY <1>1, Zenon
<1>7. wait' \in [Proc -> [len : ReadLen, from : 0 .. MaxTyped] \cup {NotReading}]
  BY <1>1, <1>2, <1>3 DEF InTypes
<1>8. InTypes'
  BY <1>1, <1>2, <1>6, <1>7 DEF InTypes
<1>9. \A q \in Proc : wait'[q] = IF q = p THEN w ELSE wait[q]
  BY <1>1, <1>2 DEF InTypes
<1>10. OneReader'
  BY <1>1, <1>2, <1>3, <1>9 DEF OneReader, Waiting, InTypes
<1>11. Consecutive'
  BY <1>1, <1>2, <1>3, <1>5, <1>9 DEF InTypes, Consecutive
<1>12. LineFits' /\ ReadsFresh'
  BY <1>1 DEF LineFits, ReadsFresh, InInv
<1>13. fault' = "none" /\ Len(buffer') <= BufferSize
  BY <1>1 DEF InInv
<1> QED
  BY <1>8, <1>10, <1>11, <1>12, <1>13 DEF InInv

LEMMA ArriveIn ==
  ASSUME Disciplined, InInv, NEW s \in Bursts, Arrive(s)
  PROVE  InInv'
<1>1. PICK n \in 1 .. MaxBurst : s \in [1 .. n -> BOOLEAN]
  BY DEF Bursts
<1>2. /\ n \in Nat /\ DOMAIN s = 1 .. n /\ Len(s) = n /\ MaxTyped \in Nat /\ BufferSize \in Nat
  BY <1>1, ConsoleAssumption
<1>3. /\ packet = <<>> /\ typed + n <= MaxTyped /\ typed' = typed + n
      /\ packet' = [i \in 1 .. n |-> [at |-> typed + i, nl |-> s[i]]]
      /\ Max({0} \cup {i \in 1 .. n : \A j \in 1 .. i : ~s[j]}) + Len(buffer) + 1 < BufferSize
      /\ UNCHANGED <<reader, reading, curr, buffer, wait, got, holds, gone, fault>>
  BY <1>2 DEF Arrive, Free
<1>4. InTypes /\ typed \in Nat /\ Len(buffer) \in Nat
  BY ConsoleAssumption DEF InInv, InTypes
<1>5. typed' \in 0 .. MaxTyped
  BY <1>2, <1>3, <1>4
<1>6. \A i \in 1 .. n : /\ [at |-> typed + i, nl |-> s[i]] \in Char
                        /\ packet'[i].at = typed + i /\ packet'[i].nl = s[i]
  <2> SUFFICES ASSUME NEW i \in 1 .. n
               PROVE  /\ [at |-> typed + i, nl |-> s[i]] \in Char
                      /\ packet'[i].at = typed + i /\ packet'[i].nl = s[i]
    OBVIOUS
  <2>1. typed + i \in 1 .. MaxTyped
    BY <1>2, <1>3, <1>4
  <2>2. s[i] \in BOOLEAN
    BY <1>1
  <2> QED
    BY <1>3, <2>1, <2>2 DEF Char
<1>7. packet' \in Seq(Char) /\ Len(packet') = n
  BY <1>2, <1>3, <1>6
<1>8. InTypes'
  BY <1>1, <1>3, <1>4, <1>5, <1>7 DEF InTypes
<1>9. OneReader'
  BY <1>3 DEF InInv, OneReader, Waiting
<1>10. Consecutive'
  <2>1. \A i \in 1 .. n : packet'[i].at = typed' - n + i
    BY <1>2, <1>3, <1>4, <1>6
  <2>2. ASSUME reading
        PROVE  /\ wait[curr].from + Len(buffer) = typed
               /\ \A i \in 1 .. Len(buffer) : buffer[i].at = wait[curr].from + i /\ ~buffer[i].nl
    <3>1. Len(packet) = 0 /\ typed - 0 = typed
      BY <1>3, <1>4
    <3> QED
      BY <2>2, <3>1 DEF InInv, Consecutive
  <2>3. typed' - n = typed
    BY <1>2, <1>3, <1>4
  <2> QED
    BY <1>3, <1>7, <2>1, <2>2, <2>3 DEF Consecutive
<1>11. LineFits'
  <2> DEFINE S == {0} \cup {i \in 1 .. n : \A j \in 1 .. i : ~s[j]}
  <2>1. S \subseteq Nat /\ S # {} /\ \A i \in S : i <= n
    BY <1>2
  <2>2. Max(S) \in S /\ \A i \in S : i <= Max(S)
    <3> HIDE DEF S
    <3> QED
      BY <1>2, <2>1, Largest
  <2>3. Max(S) \in Nat /\ Max(S) + Len(buffer) + 1 < BufferSize
    BY <1>3, <2>1, <2>2
  <2>4. ASSUME NEW i \in 0 .. n, \A j \in 1 .. i : ~s[j]
        PROVE  i \in S
    BY <1>2, <2>4
  <2> HIDE DEF S
  <2>5. ASSUME NEW i \in 0 .. n, \A j \in 1 .. i : ~packet'[j].nl
        PROVE  i + Len(buffer) + 1 < BufferSize
    <3>0. \A j \in 1 .. i : j \in 1 .. n
      BY <1>2
    <3>1. \A j \in 1 .. i : ~s[j]
      BY <1>6, <2>5, <3>0
    <3>2. i \in S
      BY <2>4, <3>1
    <3> QED
      BY <1>2, <1>4, <2>2, <2>3, <3>2
  <2> QED
    BY <1>3, <1>7, <2>5 DEF LineFits
<1>12. ReadsFresh' /\ fault' = "none" /\ Len(buffer') <= BufferSize
  BY <1>3 DEF InInv, ReadsFresh
<1> QED
  BY <1>8, <1>9, <1>10, <1>11, <1>12 DEF InInv

\* The characters that are left after the first.
LEMMA TailFacts ==
  ASSUME NEW S, NEW q \in Seq(S), q # <<>>
  PROVE  /\ Tail(q) \in Seq(S) /\ Len(q) \in Nat \ {0} /\ Len(Tail(q)) = Len(q) - 1
         /\ \A i \in 1 .. Len(q) - 1 : Tail(q)[i] = q[i + 1]
         /\ Head(q) = q[1] /\ q[1] \in S
OBVIOUS

LEMMA AppendFacts ==
  ASSUME NEW S, NEW q \in Seq(S), NEW c \in S
  PROVE  /\ Append(q, c) \in Seq(S) /\ Len(q) \in Nat /\ Len(Append(q, c)) = Len(q) + 1
         /\ \A i \in 1 .. Len(q) : Append(q, c)[i] = q[i]
         /\ Append(q, c)[Len(q) + 1] = c
OBVIOUS

LEMMA PrefixFacts ==
  ASSUME NEW S, NEW q \in Seq(S), NEW n \in 0 .. Len(q)
  PROVE  /\ SubSeq(q, 1, n) \in Seq(S) /\ Len(SubSeq(q, 1, n)) = n
         /\ \A i \in 1 .. n : SubSeq(q, 1, n)[i] = q[i]
OBVIOUS

LEMMA HandlerIn ==
  ASSUME InInv, console_handler
  PROVE  InInv'
<1> DEFINE c == Head(packet)
<1> DEFINE stored == Append(buffer, c)
<1>1. /\ fault = "none" /\ packet # <<>> /\ packet' = Tail(packet)
      /\ UNCHANGED <<reader, curr, typed, holds, gone>>
  BY DEF console_handler
<1>2. /\ InTypes /\ OneReader /\ Consecutive /\ LineFits /\ ReadsFresh
      /\ packet \in Seq(Char) /\ buffer \in Seq(Char) /\ typed \in Nat
      /\ BufferSize \in Nat /\ Len(buffer) \in Nat /\ MaxTyped \in Nat
  BY ConsoleAssumption DEF InInv, InTypes
<1>3. /\ packet' \in Seq(Char) /\ Len(packet) \in Nat \ {0} /\ Len(packet') = Len(packet) - 1
      /\ \A i \in 1 .. Len(packet) - 1 : packet'[i] = packet[i + 1]
      /\ c = packet[1] /\ c \in Char
  BY <1>1, <1>2, TailFacts
<1>4. c.at = typed - Len(packet) + 1
  BY <1>2, <1>3 DEF Consecutive
<1>5. \A i \in 1 .. Len(packet') : packet'[i].at = typed - Len(packet') + i
  <2> SUFFICES ASSUME NEW i \in 1 .. Len(packet) - 1
               PROVE  packet'[i].at = typed - (Len(packet) - 1) + i
    BY <1>3
  <2>1. i + 1 \in 1 .. Len(packet) /\ packet'[i] = packet[i + 1]
    BY <1>3
  <2>2. packet[i + 1].at = typed - Len(packet) + (i + 1)
    BY <1>2, <2>1 DEF Consecutive
  <2> QED
    BY <1>2, <1>3, <2>1, <2>2
<1>6. Len(packet') <= MaxBurst
  BY <1>2, <1>3, ConsoleAssumption DEF InTypes
<1> HIDE DEF c
<1>7. CASE ~reading
  <2>1. UNCHANGED <<reading, buffer, wait, got, fault>>
    BY <1>7 DEF console_handler
  <2>2. InTypes'
    BY <1>1, <1>2, <1>3, <1>6, <2>1 DEF InTypes
  <2>3. OneReader' /\ ReadsFresh' /\ LineFits'
    BY <1>1, <1>2, <1>7, <2>1 DEF OneReader, ReadsFresh, LineFits, Waiting
  <2>4. Consecutive'
    BY <1>1, <1>5, <1>7, <2>1 DEF Consecutive
  <2> QED
    BY <1>1, <2>1, <2>2, <2>3, <2>4 DEF InInv
<1>8. CASE reading
  <2>1. Len(buffer) + 1 < BufferSize
    <3>1. 0 \in 0 .. Len(packet) /\ \A j \in 1 .. 0 : ~packet[j].nl
      BY <1>3
    <3>2. 0 + Len(buffer) + 1 < BufferSize
      BY <1>1, <1>2, <1>8, <3>1 DEF LineFits
    <3> QED
      BY <1>2, <3>2
  <2>2. /\ curr \in Proc /\ curr \notin gone /\ Waiting(curr)
        /\ wait[curr] \in [len : ReadLen, from : 0 .. MaxTyped]
        /\ wait[curr].len \in Nat \ {0} /\ wait[curr].from \in Nat
    <3>1. curr \in Proc /\ curr \notin gone /\ Waiting(curr)
      BY <1>2, <1>8 DEF OneReader
    <3>2. wait[curr] \in [len : ReadLen, from : 0 .. MaxTyped]
      BY <1>2, <3>1 DEF InTypes, Waiting
    <3>3. wait[curr].len \in ReadLen /\ wait[curr].from \in 0 .. MaxTyped
      BY <3>2
    <3>4. \A l \in ReadLen : l \in Nat \ {0}
      BY ConsoleAssumption
    <3>5. \A f \in 0 .. MaxTyped : f \in Nat
      BY ConsoleAssumption
    <3> QED
      BY <3>1, <3>2, <3>3, <3>4, <3>5
  <2>3. /\ wait[curr].from + Len(buffer) = typed - Len(packet)
        /\ \A i \in 1 .. Len(buffer) : buffer[i].at = wait[curr].from + i /\ ~buffer[i].nl
    BY <1>2, <1>8 DEF Consecutive
  <2>4. /\ stored \in Seq(Char) /\ Len(stored) = Len(buffer) + 1
        /\ \A i \in 1 .. Len(buffer) : stored[i] = buffer[i]
        /\ stored[Len(buffer) + 1] = c
    BY <1>2, <1>3, AppendFacts
  <2> HIDE DEF stored
  <2>4a. \A f, b, t, l \in Nat :
          f + b = t - l => t - l + 1 = f + (b + 1) /\ t - (l - 1) = f + (b + 1)
    OBVIOUS
  <2>4b. /\ typed \in Nat /\ Len(packet) \in Nat /\ Len(buffer) \in Nat
         /\ wait[curr].from \in Nat
    BY <1>2, <1>3, <2>2
  <2>5. c.at = wait[curr].from + (Len(buffer) + 1)
    BY <1>4, <2>3, <2>4a, <2>4b
  <2>6. \A i \in 1 .. Len(buffer) + 1 :
          stored[i].at = wait[curr].from + i /\ (stored[i].nl => i = Len(buffer) + 1)
    <3> SUFFICES ASSUME NEW i \in 1 .. Len(buffer) + 1
                 PROVE  stored[i].at = wait[curr].from + i /\ (stored[i].nl => i = Len(buffer) + 1)
      OBVIOUS
    <3>1. CASE i = Len(buffer) + 1
      BY <2>4, <2>5, <3>1
    <3>2. CASE i # Len(buffer) + 1
      <4>1. i \in 1 .. Len(buffer)
        BY <1>2, <3>2
      <4> QED
        BY <2>3, <2>4, <4>1
    <3> QED
      BY <3>1, <3>2
  <2>7. CASE c.nl
    <3> DEFINE k == Min({wait[curr].len, Len(stored)})
    <3>1. Finish(stored)
      <4>1. Len(buffer) # BufferSize /\ Len(buffer) < BufferSize
        BY <1>2, <2>1
      <4> QED
        BY <1>8, <2>7, <4>1 DEF console_handler, c, stored
    <3>2. k \in 0 .. Len(stored) /\ k < BufferSize /\ k <= wait[curr].len /\ ~(k >= BufferSize)
      <4>1. wait[curr].len \in Int /\ Len(stored) \in Int
        BY <1>2, <2>2, <2>4
      <4>2. k = IF wait[curr].len <= Len(stored) THEN wait[curr].len ELSE Len(stored)
        BY <4>1, MinPair
      <4> QED
        BY <1>2, <2>1, <2>2, <2>4, <4>2
    <3>3. /\ got' = [from |-> wait[curr].from, len |-> wait[curr].len,
                     chars |-> SubSeq(stored, 1, k)]
          /\ reading' = FALSE /\ buffer' = <<>>
          /\ wait' = [wait EXCEPT ![curr] = NotReading]
          /\ fault' = fault
      BY <2>2, <3>1, <3>2 DEF Finish, Reset
    <3> HIDE DEF k
    <3>4. /\ SubSeq(stored, 1, k) \in Seq(Char) /\ Len(SubSeq(stored, 1, k)) = k
          /\ \A i \in 1 .. k : SubSeq(stored, 1, k)[i] = stored[i]
      BY <2>4, <3>2, PrefixFacts
    <3>5. /\ got' \in [from : Nat, len : Nat, chars : Seq(Char)]
          /\ got'.from = wait[curr].from /\ got'.len = wait[curr].len
          /\ got'.chars = SubSeq(stored, 1, k)
      BY <2>2, <3>3, <3>4
    <3>6. ReadsFresh'
      <4>1. Len(got'.chars) <= got'.len /\ DOMAIN got'.chars = 1 .. k
        BY <3>2, <3>4, <3>5
      <4>2. ASSUME NEW i \in 1 .. k
            PROVE  /\ got'.chars[i].at = got'.from + i
                   /\ got'.chars[i].nl => i = Len(got'.chars)
        <5>1. i \in 1 .. Len(buffer) + 1 /\ got'.chars[i] = stored[i]
          BY <1>2, <2>4, <3>2, <3>4, <3>5
        <5>2. i = Len(buffer) + 1 => i = k
          BY <1>2, <2>4, <3>2
        <5> QED
          BY <2>6, <3>4, <3>5, <5>1, <5>2
      <4> QED
        BY <3>3, <4>1, <4>2 DEF ReadsFresh
    <3>7. reading' \in BOOLEAN
      BY <3>3, Zenon
    <3>8. wait' \in [Proc -> [len : ReadLen, from : 0 .. MaxTyped] \cup {NotReading}]
      BY <1>2, <3>3 DEF InTypes
    <3>9. buffer' \in Seq(Char) /\ Len(buffer') = 0
      BY <3>3
    <3>10. InTypes'
      BY <1>1, <1>2, <1>3, <1>6, <3>5, <3>7, <3>8, <3>9 DEF InTypes
    <3>11. OneReader'
      <4>1. \A q \in Proc : wait'[q] = IF q = curr THEN NotReading ELSE wait[q]
        BY <1>2, <3>3 DEF InTypes
      <4> QED
        BY <1>1, <1>2, <1>8, <3>3, <4>1 DEF OneReader, Waiting
    <3>12. Consecutive' /\ LineFits'
      BY <1>1, <1>5, <3>3 DEF Consecutive, LineFits
    <3> QED
      BY <1>1, <1>2, <3>3, <3>6, <3>9, <3>10, <3>11, <3>12 DEF InInv
  <2>8. CASE ~c.nl
    <3>1. buffer' = stored /\ UNCHANGED <<reading, wait, got, fault>>
      <4>1. Len(buffer) # BufferSize /\ Len(buffer) < BufferSize
        BY <1>2, <2>1
      <4> QED
        BY <1>8, <2>8, <4>1 DEF console_handler, c, stored
    <3>2. InTypes'
      BY <1>1, <1>2, <1>3, <1>6, <2>4, <3>1 DEF InTypes
    <3>3. OneReader' /\ ReadsFresh'
      BY <1>1, <1>2, <1>8, <3>1 DEF OneReader, ReadsFresh, Waiting
    <3>4. Consecutive'
      <4>1. wait[curr].from + (Len(buffer) + 1) = typed - (Len(packet) - 1)
        BY <2>3, <2>4a, <2>4b
      <4>2. \A i \in 1 .. Len(buffer) + 1 : stored[i].at = wait[curr].from + i /\ ~stored[i].nl
        BY <2>4, <2>6, <2>8
      <4> QED
        BY <1>1, <1>3, <1>5, <2>4, <3>1, <4>1, <4>2 DEF Consecutive
    <3>5. LineFits'
      <4> SUFFICES ASSUME NEW i \in 0 .. Len(packet) - 1, \A j \in 1 .. i : ~packet'[j].nl
                   PROVE  i + (Len(buffer) + 1) + 1 < BufferSize
        BY <1>3, <2>4, <3>1 DEF LineFits
      <4>1. i + 1 \in 0 .. Len(packet)
        BY <1>3
      <4>2. ASSUME NEW j \in 1 .. i + 1 PROVE ~packet[j].nl
        <5>1. CASE j = 1
          BY <1>3, <2>8, <5>1
        <5>2. CASE j # 1
          <6>1. j - 1 \in 1 .. i /\ j - 1 \in 1 .. Len(packet) - 1 /\ (j - 1) + 1 = j
            BY <1>3, <5>2
          <6>2. packet'[j - 1] = packet[j]
            BY <1>3, <6>1
          <6> QED
            BY <6>1, <6>2
        <5> QED
          BY <5>1, <5>2
      <4>3. (i + 1) + Len(buffer) + 1 < BufferSize
        BY <1>1, <1>2, <1>8, <4>1, <4>2 DEF LineFits
      <4> QED
        BY <1>2, <4>3
    <3>6. Len(buffer') <= BufferSize
      BY <1>2, <2>1, <2>4, <3>1
    <3> QED
      BY <1>1, <3>1, <3>2, <3>3, <3>4, <3>5, <3>6 DEF InInv
  <2> QED
    BY <2>7, <2>8
<1> QED
  BY <1>2, <1>7, <1>8 DEF InTypes

LEMMA NextIn ==
  ASSUME Disciplined
  PROVE  InInv /\ [Next]_vars => InInv'
<1> SUFFICES ASSUME InInv, [Next]_vars PROVE InInv'
  OBVIOUS
<1>1. ASSUME NEW p \in Proc, NEW flags \in Modes, console_open(p, flags) PROVE InInv'
  BY <1>1, OpenIn
<1>2. ASSUME NEW p \in Proc, console_close(p) PROVE InInv'
  BY <1>2, CloseIn
<1>3. ASSUME NEW p \in Proc, NEW len \in ReadLen, console_read(p, len) PROVE InInv'
  BY <1>3, ReadIn
<1>4. ASSUME NEW p \in Proc, NEW len \in WriteLen, console_write(p, len) PROVE InInv'
  BY <1>4, OutputIn DEF console_write
<1>5. ASSUME NEW p \in Proc, proc_destroy(p) PROVE InInv'
  BY <1>5, DestroyIn
<1>6. ASSUME NEW s \in Bursts, Arrive(s) PROVE InInv'
  BY <1>6, ArriveIn
<1>7. CASE console_handler
  BY <1>7, HandlerIn
<1>8. CASE pico_socket_xmit_one
  BY <1>8, OutputIn DEF pico_socket_xmit_one
<1>9. CASE serial_send
  BY <1>9, OutputIn DEF serial_send
<1>10. ASSUME NEW n \in 1 .. OutMax, tcp_ack(n) PROVE InInv'
  BY <1>10, OutputIn DEF tcp_ack
<1>11. CASE UNCHANGED vars
  BY <1>11, OutputIn DEF vars
<1> QED
  BY <1>1, <1>2, <1>3, <1>4, <1>5, <1>6, <1>7, <1>8, <1>9, <1>10, <1>11 DEF Next

LEMMA Known == InInv /\ OutInv => ReaderKnown
<1> SUFFICES ASSUME InInv, OutInv PROVE ReaderKnown
  OBVIOUS
<1>1. /\ send \in SendRec /\ send.total_sent <= send.len /\ send.written <= send.len
      /\ out \in Seq(1 .. Space) /\ Size(out) <= OutMax
  BY DEF OutInv
<1>2. send.total_sent \in 0 .. send.len /\ send.written \in 0 .. send.len
  BY <1>1 DEF SendRec
<1>3. TypeOK
  BY <1>1, <1>2 DEF InInv, InTypes, TypeOK
<1>4. {p \in Proc : Waiting(p)} = IF reading THEN {curr} ELSE {}
  BY DEF InInv, OneReader, InTypes
<1> QED
  BY <1>3, <1>4 DEF ReaderKnown, InInv, OneReader

LEMMA InputInductive ==
  ASSUME Disciplined
  PROVE  Spec => [](InInv /\ OutInv)
<1>1. InInv /\ [Next]_vars => InInv'
  BY NextIn
<1> QED
  BY <1>1, InitIn, InitOut, NextOut, PTL DEF Spec

\* One reader at a time, not killed while it reads, and lines that fit: then,
\* for any number of processes and any sizes, the coroutine that console.c
\* remembers in curr is the one that waits, whenever one does, and the
\* buffer never overflows.
THEOREM ReaderAlwaysKnown ==
  ASSUME Disciplined
  PROVE  Spec => []ReaderKnown
BY InputInductive, Known, PTL

\* The same clients read what was typed since the read began, in order and up
\* to the newline, and nothing that an earlier read left behind.
THEOREM NothingStale ==
  ASSUME Disciplined
  PROVE  Spec => []ReadsFresh
<1>1. InInv /\ OutInv => ReadsFresh
  BY DEF InInv
<1> QED
  BY <1>1, InputInductive, PTL

=============================================================================
