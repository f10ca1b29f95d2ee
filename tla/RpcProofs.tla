------------------------------ MODULE RpcProofs ------------------------------
(***************************************************************************)
(* Proofs about Rpc for any number of coroutines, any number of buckets,   *)
(* any lengths of requests and replies and any size of the send queue.     *)
(***************************************************************************)
EXTENDS Rpc, TLAPS, FiniteSetTheorems, WellFoundedInduction

Hash == 0 .. HASHES - 1

\* The requests in the buckets of w.
In(w) == UNION {Range(w[h]) : h \in Hash}

\* The requests of outqueue o, of waitpdu w and of the purged queue p are each
\* in one place, in waitpdu in their bucket, and together they are b.
Placed(o, w, p, b) ==
    /\ o \in Seq(Xid) /\ p \in Seq(Xid) /\ w \in [Hash -> Seq(Xid)]
    /\ IsInjective(o) /\ IsInjective(p) /\ \A h \in Hash : IsInjective(w[h])
    /\ \A h \in Hash : \A x \in Range(w[h]) : rpc_hash_xid(x) = h
    /\ Range(o) \cap In(w) = {}
    /\ Range(p) \cap (Range(o) \cup In(w)) = {}
    /\ b = Range(o) \cup In(w) \cup Range(p)

\* Where the requests of the coroutines are.  A callback that stops SOS
\* leaves its coroutine waiting.
Requests == Range(outqueue) \cup In(waitpdu) \cup Range(purged)
Queues ==
    /\ Placed(outqueue, waitpdu, purged, Requests)
    /\ Requests \subseteq blocked /\ (dead = "no" => Requests = blocked)
    /\ waitpdu_len = Cardinality(In(waitpdu))

\* What holds where nfslib_poll is, and which sockets there are.
Service ==
    /\ pc = "reply" => Len(inbuf) = ReplyLen
    /\ pc = "requeue" => hup
    /\ pc # "purge" => purged = <<>>
    /\ \/ fd = Mounted /\ old_fd = 0
       \/ fd # Mounted /\ old_fd = fd - 1
    /\ pc \in {"read", "reply", "write", "requeue"} => rpc_get_fd = Mounted
    /\ fd # Mounted => hup
    /\ EV_WR \/ tcpq_out # <<>>

IInv == TypeOK /\ Queues /\ Service
-----------------------------------------------------------------------------
\* A set of natural numbers that is not empty has a smallest one.
LEMMA Smallest ==
  ASSUME NEW S, S \subseteq Nat, S # {}
  PROVE  \E i \in S : \A j \in S : i <= j
<1> DEFINE R == OpToRel(<, Nat)
<1>1. PICK x \in S : \A y \in S : ~(<<y, x>> \in R)
  BY NatLessThanWellFounded, WFMin, Zenon
<1>2. \A y \in Nat : y < x => <<y, x>> \in R
  BY DEF OpToRel
<1> HIDE DEF R
<1>3. \A y \in S : ~(y < x)
  BY <1>1, <1>2, Zenon
<1> QED
  BY <1>3

\* Induction over the natural numbers, for a set.
LEMMA SetInduction ==
  ASSUME NEW S, 0 \in S, \A n \in Nat : n \in S => n + 1 \in S
  PROVE  Nat \subseteq S
<1> SUFFICES ASSUME ~(Nat \subseteq S) PROVE FALSE
  OBVIOUS
<1>1. PICK m \in Nat \ S : \A j \in Nat \ S : m <= j
  BY Smallest, Zenon
<1>2. m # 0 /\ m - 1 \in Nat
  BY <1>1
<1>3. m - 1 \in S
  BY <1>1, <1>2
<1>4. (m - 1) + 1 \in S
  BY <1>2, <1>3
<1> QED
  BY <1>1, <1>4

-----------------------------------------------------------------------------
(* Queues as sets of requests. *)

LEMMA AppendSet ==
    ASSUME NEW S, NEW s \in Seq(S), NEW x \in S
    PROVE  /\ Append(s, x) \in Seq(S)
           /\ Range(Append(s, x)) = Range(s) \cup {x}
           /\ IsInjective(s) /\ x \notin Range(s) => IsInjective(Append(s, x))
<1>1. /\ Append(s, x) \in Seq(S) /\ Len(Append(s, x)) = Len(s) + 1 /\ Len(s) \in Nat
      /\ \A i \in 1 .. Len(s) : Append(s, x)[i] = s[i]
      /\ Append(s, x)[Len(s) + 1] = x
      /\ DOMAIN s = 1 .. Len(s) /\ DOMAIN Append(s, x) = 1 .. Len(s) + 1
    OBVIOUS
<1>2. \A i \in 1 .. Len(s) + 1 : i = Len(s) + 1 \/ i \in 1 .. Len(s)
    BY <1>1
<1>3. 1 .. Len(s) \subseteq 1 .. Len(s) + 1 /\ Len(s) + 1 \in 1 .. Len(s) + 1
    BY <1>1
<1>4. Range(Append(s, x)) = Range(s) \cup {x}
    BY <1>1, <1>2, <1>3 DEF Range
<1>5. IsInjective(s) /\ x \notin Range(s) => IsInjective(Append(s, x))
    BY <1>1, <1>2, <1>3 DEF Range, IsInjective
<1> QED
    BY <1>1, <1>4, <1>5

LEMMA TailSet ==
    ASSUME NEW S, NEW s \in Seq(S), s # <<>>, IsInjective(s)
    PROVE  /\ Tail(s) \in Seq(S) /\ Head(s) \in S /\ Head(s) \in Range(s)
           /\ Range(Tail(s)) = Range(s) \ {Head(s)}
           /\ IsInjective(Tail(s))
<1>1. /\ Tail(s) \in Seq(S) /\ Len(Tail(s)) = Len(s) - 1 /\ Len(s) \in Nat \ {0}
      /\ \A i \in 1 .. Len(s) - 1 : Tail(s)[i] = s[i + 1]
      /\ Head(s) = s[1] /\ s[1] \in S
      /\ DOMAIN s = 1 .. Len(s) /\ DOMAIN Tail(s) = 1 .. Len(s) - 1
    OBVIOUS
<1>2. 1 \in 1 .. Len(s) /\ \A i \in 1 .. Len(s) - 1 : i + 1 \in 1 .. Len(s) /\ i + 1 # 1
    BY <1>1
<1>3. \A i \in 1 .. Len(s) : i # 1 => i - 1 \in 1 .. Len(s) - 1 /\ (i - 1) + 1 = i
    BY <1>1
<1>4. Head(s) \in Range(s)
    BY <1>1, <1>2 DEF Range
<1>5. ASSUME NEW x \in Range(Tail(s)) PROVE x \in Range(s) \ {Head(s)}
    <2>1. PICK i \in 1 .. Len(s) - 1 : x = s[i + 1]
        BY <1>1 DEF Range
    <2> QED
        BY <1>1, <1>2, <2>1 DEF Range, IsInjective
<1>6. ASSUME NEW x \in Range(s) \ {Head(s)} PROVE x \in Range(Tail(s))
    <2>1. PICK i \in 1 .. Len(s) : x = s[i] /\ i # 1
        BY <1>1 DEF Range
    <2>2. x = Tail(s)[i - 1] /\ i - 1 \in DOMAIN Tail(s)
        BY <1>1, <1>3, <2>1
    <2> QED
        BY <2>2, Zenon DEF Range
<1>7. IsInjective(Tail(s))
    <2> SUFFICES ASSUME NEW i \in 1 .. Len(s) - 1, NEW j \in 1 .. Len(s) - 1,
                        s[i + 1] = s[j + 1]
                 PROVE  i = j
        BY <1>1 DEF IsInjective
    <2>1. i + 1 = j + 1
        BY <1>1, <1>2 DEF IsInjective
    <2> QED
        BY <2>1
<1> QED
    BY <1>1, <1>4, <1>5, <1>6, <1>7

LEMMA ConcatSet ==
    ASSUME NEW S, NEW s \in Seq(S), NEW t \in Seq(S)
    PROVE  /\ s \o t \in Seq(S)
           /\ Range(s \o t) = Range(s) \cup Range(t)
           /\ IsInjective(s) /\ IsInjective(t) /\ Range(s) \cap Range(t) = {}
                => IsInjective(s \o t)
<1> DEFINE u == s \o t
<1> DEFINE m == Len(s)
<1> DEFINE n == Len(t)
<1>1. /\ u \in Seq(S) /\ Len(u) = m + n /\ m \in Nat /\ n \in Nat
      /\ DOMAIN s = 1 .. m /\ DOMAIN t = 1 .. n /\ DOMAIN u = 1 .. m + n
      /\ \A i \in 1 .. m : u[i] = s[i]
      /\ \A i \in 1 .. n : u[m + i] = t[i]
    OBVIOUS
<1> HIDE DEF u, m, n
<1>2. \A i \in 1 .. m + n :
        \/ i \in 1 .. m /\ u[i] = s[i]
        \/ i - m \in 1 .. n /\ i = m + (i - m) /\ u[i] = t[i - m]
    <2> SUFFICES ASSUME NEW i \in 1 .. m + n, i \notin 1 .. m
                 PROVE  i - m \in 1 .. n /\ i = m + (i - m) /\ u[i] = t[i - m]
        BY <1>1
    <2>1. i - m \in 1 .. n /\ i = m + (i - m)
        BY <1>1
    <2> QED
        BY <1>1, <2>1
<1>3. /\ \A i \in 1 .. m : i \in 1 .. m + n
      /\ \A i \in 1 .. n : m + i \in 1 .. m + n
    BY <1>1
<1>4. Range(u) = Range(s) \cup Range(t)
    <2>1. Range(u) \subseteq Range(s) \cup Range(t)
        BY <1>1, <1>2 DEF Range
    <2>2. Range(s) \cup Range(t) \subseteq Range(u)
        BY <1>1, <1>3 DEF Range
    <2> QED
        BY <2>1, <2>2
<1>5. ASSUME IsInjective(s), IsInjective(t), Range(s) \cap Range(t) = {}
      PROVE  IsInjective(u)
    <2> SUFFICES ASSUME NEW i \in 1 .. m + n, NEW j \in 1 .. m + n, u[i] = u[j]
                 PROVE  i = j
        BY <1>1 DEF IsInjective
    <2>1. CASE i \in 1 .. m /\ u[i] = s[i] /\ j \in 1 .. m /\ u[j] = s[j]
        BY <1>1, <1>5, <2>1, Zenon DEF IsInjective
    <2>2. ASSUME NEW k \in 1 .. m, NEW l \in 1 .. n, s[k] = t[l] PROVE FALSE
        BY <1>1, <1>5, <2>2, Zenon DEF Range
    <2>3. CASE i - m \in 1 .. n /\ u[i] = t[i - m] /\ j - m \in 1 .. n /\ u[j] = t[j - m]
        <3>1. i - m = j - m
            BY <1>1, <1>5, <2>3, Zenon DEF IsInjective
        <3> QED
            BY <1>1, <3>1
    <2> QED
        BY <1>2, <2>1, <2>2, <2>3
<1> QED
    BY <1>1, <1>4, <1>5 DEF u

LEMMA ReverseSet ==
    ASSUME NEW S, NEW s \in Seq(S)
    PROVE  /\ Reverse(s) \in Seq(S)
           /\ Range(Reverse(s)) = Range(s)
           /\ IsInjective(s) => IsInjective(Reverse(s))
<1> DEFINE n == Len(s)
<1>1. /\ n \in Nat /\ DOMAIN s = 1 .. n /\ \A i \in 1 .. n : s[i] \in S
      /\ Reverse(s) = [i \in 1 .. n |-> s[(n - i) + 1]]
    BY DEF Reverse
<1>2. \A i \in 1 .. n : (n - i) + 1 \in 1 .. n /\ (n - ((n - i) + 1)) + 1 = i
    BY <1>1
<1>3. Reverse(s) \in Seq(S) /\ DOMAIN Reverse(s) = 1 .. n
    BY <1>1, <1>2
<1> HIDE DEF n
<1>4. Range(Reverse(s)) = Range(s)
    <2>1. Range(Reverse(s)) \subseteq Range(s)
        BY <1>1, <1>2 DEF Range
    <2>2. ASSUME NEW i \in 1 .. n PROVE s[i] \in Range(Reverse(s))
        <3>1. Reverse(s)[(n - i) + 1] = s[i]
            BY <1>1, <1>2
        <3> QED
            BY <1>2, <1>3, <3>1 DEF Range
    <2> QED
        BY <1>1, <2>1, <2>2, Zenon DEF Range
<1>5. ASSUME IsInjective(s) PROVE IsInjective(Reverse(s))
    <2> SUFFICES ASSUME NEW i \in 1 .. n, NEW j \in 1 .. n,
                        s[(n - i) + 1] = s[(n - j) + 1]
                 PROVE  i = j
        BY <1>1, <1>3 DEF IsInjective
    <2>1. (n - i) + 1 = (n - j) + 1
        BY <1>1, <1>2, <1>5 DEF IsInjective
    <2> QED
        BY <1>1, <2>1
<1> QED
    BY <1>3, <1>4, <1>5

LEMMA ConcatLen ==
    ASSUME NEW S, NEW s \in Seq(S), NEW t \in Seq(S)
    PROVE  s \o t \in Seq(S) /\ Len(s \o t) = Len(s) + Len(t)
OBVIOUS

LEMMA SubSeqFacts ==
    ASSUME NEW S, NEW s \in Seq(S), NEW a \in 1 .. Len(s) + 1, NEW b \in a - 1 .. Len(s)
    PROVE  /\ SubSeq(s, a, b) \in Seq(S) /\ Len(SubSeq(s, a, b)) = (b - a) + 1
           /\ \A i \in 1 .. (b - a) + 1 : SubSeq(s, a, b)[i] = s[(a + i) - 1]
<1>1. Len(s) \in Nat /\ a \in Nat /\ b \in Nat /\ a >= 1 /\ b >= a - 1 /\ b <= Len(s)
    OBVIOUS
<1>2. \A i \in a .. b : s[i] \in S
    BY <1>1
<1> QED
    BY <1>1, <1>2

\* Unlinking a request from its queue.
LEMMA RemoveSet ==
    ASSUME NEW S, NEW s \in Seq(S), IsInjective(s), NEW x \in Range(s)
    PROVE  /\ Unlink(s, x) \in Seq(S)
           /\ Range(Unlink(s, x)) = Range(s) \ {x}
           /\ IsInjective(Unlink(s, x))
<1> DEFINE n == Len(s)
<1>1. n \in Nat /\ DOMAIN s = 1 .. n
    OBVIOUS
<1>2. PICK k \in 1 .. n : s[k] = x
    BY <1>1 DEF Range
<1>3. \A i \in 1 .. n : s[i] = x => i = k
    BY <1>1, <1>2 DEF IsInjective
<1>4. \A j \in 1 .. k - 1 : s[j] # x
    BY <1>1, <1>2, <1>3
<1>5. Unlink(s, x) = SubSeq(s, 1, k - 1) \o SubSeq(s, k + 1, n)
    <2>1. k = CHOOSE i \in DOMAIN s : s[i] = x /\ \A j \in 1 .. i - 1 : s[j] # x
        BY <1>1, <1>2, <1>3, <1>4
    <2> QED
        BY <2>1 DEF Unlink
<1> DEFINE u == SubSeq(s, 1, k - 1)
<1> DEFINE v == SubSeq(s, k + 1, n)
<1>6. /\ u \in Seq(S) /\ v \in Seq(S) /\ Len(u) = k - 1 /\ Len(v) = n - k
      /\ \A i \in 1 .. k - 1 : u[i] = s[i]
      /\ \A i \in 1 .. n - k : v[i] = s[k + i]
      /\ DOMAIN u = 1 .. k - 1 /\ DOMAIN v = 1 .. n - k
    <2>1. /\ 1 \in 1 .. n + 1 /\ k - 1 \in 1 - 1 .. n /\ k + 1 \in 1 .. n + 1
          /\ n \in (k + 1) - 1 .. n
          /\ ((k - 1) - 1) + 1 = k - 1 /\ (n - (k + 1)) + 1 = n - k
          /\ \A i \in 1 .. k - 1 : (1 + i) - 1 = i
          /\ \A i \in 1 .. n - k : ((k + 1) + i) - 1 = k + i
        BY <1>1, <1>2
    <2>2. /\ u \in Seq(S) /\ Len(u) = k - 1 /\ \A i \in 1 .. k - 1 : u[i] = s[i]
        <3>1. /\ u \in Seq(S) /\ Len(u) = ((k - 1) - 1) + 1
              /\ \A i \in 1 .. ((k - 1) - 1) + 1 : u[i] = s[(1 + i) - 1]
            BY <2>1, SubSeqFacts
        <3> HIDE DEF u
        <3> QED
            BY <2>1, <3>1
    <2>3. /\ v \in Seq(S) /\ Len(v) = n - k /\ \A i \in 1 .. n - k : v[i] = s[k + i]
        <3>1. /\ v \in Seq(S) /\ Len(v) = (n - (k + 1)) + 1
              /\ \A i \in 1 .. (n - (k + 1)) + 1 : v[i] = s[((k + 1) + i) - 1]
            BY <2>1, SubSeqFacts, Zenon
        <3> HIDE DEF v
        <3> QED
            BY <2>1, <3>1
    <2> HIDE DEF u, v
    <2> QED
        BY <2>2, <2>3
<1> HIDE DEF u, v, n
<1>7. /\ \A i \in 1 .. k - 1 : i \in 1 .. n /\ i # k
      /\ \A i \in 1 .. n - k : k + i \in 1 .. n /\ k + i # k
      /\ \A i \in 1 .. n : i # k => i \in 1 .. k - 1 \/ (i - k \in 1 .. n - k /\ i = k + (i - k))
    BY <1>1, <1>2
<1>8. Range(u) \cup Range(v) = Range(s) \ {x}
    <2>0. \A i \in 1 .. n : i # k => s[i] \in Range(s) \ {x}
        BY <1>1, <1>2 DEF Range, IsInjective
    <2>1. Range(u) \subseteq Range(s) \ {x}
        BY <1>6, <1>7, <2>0 DEF Range
    <2>2. Range(v) \subseteq Range(s) \ {x}
        BY <1>6, <1>7, <2>0 DEF Range
    <2>3. ASSUME NEW i \in 1 .. n, s[i] # x PROVE s[i] \in Range(u) \cup Range(v)
        <3>1. CASE i \in 1 .. k - 1
            BY <1>6, <3>1 DEF Range
        <3>2. CASE i - k \in 1 .. n - k /\ i = k + (i - k)
            <4>1. v[i - k] = s[i]
                BY <1>6, <3>2
            <4> QED
                BY <1>6, <3>2, <4>1, Zenon DEF Range
        <3> QED
            BY <1>2, <1>7, <2>3, <3>1, <3>2
    <2> QED
        BY <1>1, <2>1, <2>2, <2>3, Zenon DEF Range
<1>9. IsInjective(u) /\ IsInjective(v)
    <2>1. IsInjective(u)
        BY <1>1, <1>6, <1>7 DEF IsInjective
    <2>2. ASSUME NEW i \in 1 .. n - k, NEW j \in 1 .. n - k, s[k + i] = s[k + j]
          PROVE  i = j
        <3>1. k + i = k + j
            BY <1>1, <1>7, <2>2 DEF IsInjective
        <3> QED
            BY <1>1, <1>2, <3>1
    <2> QED
        BY <1>6, <2>1, <2>2 DEF IsInjective
<1>10. Range(u) \cap Range(v) = {}
    <2> SUFFICES ASSUME NEW i \in 1 .. k - 1, NEW j \in 1 .. n - k, s[i] = s[k + j]
                 PROVE  FALSE
        BY <1>6 DEF Range
    <2>1. i = k + j
        BY <1>1, <1>7 DEF IsInjective
    <2> QED
        BY <1>1, <1>2, <2>1
<1> QED
    <2>1. /\ u \o v \in Seq(S) /\ Range(u \o v) = Range(u) \cup Range(v)
          /\ IsInjective(u \o v)
        BY <1>6, <1>9, <1>10, ConcatSet
    <2>2. Unlink(s, x) = u \o v
        BY <1>5 DEF u, v, n
    <2> QED
        BY <1>8, <2>1, <2>2

\* f[i] is the concatenation of the first i sequences of q.
Flat(q, f, n) ==
    f = [i \in 1 .. n |-> IF i = 1 THEN q[i] ELSE f[i - 1] \o q[i]]

LEMMA FlatSteps ==
    ASSUME NEW q, NEW f, NEW n \in Nat \ {0}
    PROVE  Flat(q, f, n) <=>
             /\ f = [i \in 1 .. n |-> f[i]]
             /\ f[1] = q[1]
             /\ \A i \in 1 .. n : i # 1 => f[i] = f[i - 1] \o q[i]
<1>1. ASSUME Flat(q, f, n)
      PROVE  /\ f = [i \in 1 .. n |-> f[i]]
             /\ f[1] = q[1]
             /\ \A i \in 1 .. n : i # 1 => f[i] = f[i - 1] \o q[i]
    <2> DEFINE g == [i \in 1 .. n |-> IF i = 1 THEN q[i] ELSE f[i - 1] \o q[i]]
    <2>1. f = g
        BY <1>1, Zenon DEF Flat
    <2>2. \A i \in 1 .. n : g[i] = IF i = 1 THEN q[i] ELSE f[i - 1] \o q[i]
        OBVIOUS
    <2>3. g = [i \in 1 .. n |-> g[i]]
        OBVIOUS
    <2> HIDE DEF g
    <2>4. f[1] = q[1]
        BY <2>1, <2>2
    <2>5. \A i \in 1 .. n : i # 1 => f[i] = f[i - 1] \o q[i]
        BY <2>1, <2>2, Zenon
    <2> QED
        BY <2>1, <2>3, <2>4, <2>5, Zenon
<1>2. ASSUME f = [i \in 1 .. n |-> f[i]], f[1] = q[1],
             \A i \in 1 .. n : i # 1 => f[i] = f[i - 1] \o q[i]
      PROVE  Flat(q, f, n)
    <2>1. [i \in 1 .. n |-> f[i]] = [i \in 1 .. n |-> IF i = 1 THEN q[i] ELSE f[i - 1] \o q[i]]
        BY <1>2, Zenon
    <2> QED
        BY <1>2, <2>1, Zenon DEF Flat
<1> QED
    BY <1>1, <1>2, Zenon

LEMMA FlattenIs ==
    ASSUME NEW q, Len(q) # 0
    PROVE  Chain(q) = (CHOOSE f : Flat(q, f, Len(q)))[Len(q)]
BY DEF Chain, Flat

LEMMA FlatExists ==
    ASSUME NEW q, NEW n \in Nat \ {0}
    PROVE  \E f : Flat(q, f, n)
<1> DEFINE S == {m \in Nat : \E f : Flat(q, f, m + 1)}
<1>1. 0 \in S
    <2>1. Flat(q, [i \in 1 .. 1 |-> q[1]], 0 + 1)
        BY DEF Flat
    <2> QED
        BY <2>1
<1>2. ASSUME NEW m \in Nat, m \in S PROVE m + 1 \in S
    <2> DEFINE k == m + 1
    <2>1. PICK f : Flat(q, f, k)
        BY <1>2
    <2>2. k \in Nat \ {0} /\ k + 1 \in Nat \ {0} /\ k >= 1
        OBVIOUS
    <2> HIDE DEF k
    <2>3. f[1] = q[1] /\ \A i \in 1 .. k : i # 1 => f[i] = f[i - 1] \o q[i]
        BY <2>1, <2>2, FlatSteps, ZenonT(40)
    <2> DEFINE g == [i \in 1 .. k + 1 |-> IF i <= k THEN f[i] ELSE f[k] \o q[k + 1]]
    <2>4. g = [i \in 1 .. k + 1 |-> g[i]] /\ g[1] = q[1]
        BY <2>2, <2>3
    <2>g. \A i \in 1 .. k + 1 : g[i] = IF i <= k THEN f[i] ELSE f[k] \o q[k + 1]
        OBVIOUS
    <2> HIDE DEF g
    <2>5. ASSUME NEW i \in 1 .. k + 1, i # 1 PROVE g[i] = g[i - 1] \o q[i]
        <3>0. i \in Nat /\ k \in Nat
            BY <2>2
        <3>1. i - 1 \in 1 .. k + 1 /\ i - 1 <= k
            BY <2>2, <2>5
        <3>2. g[i - 1] = f[i - 1]
            BY <2>g, <3>1
        <3>3. CASE i <= k
            <4>1. i \in 1 .. k /\ g[i] = f[i]
                BY <3>0, <2>g, <3>3
            <4> QED
                BY <2>3, <2>5, <3>2, <4>1, Zenon
        <3>4. CASE i = k + 1
            <4>1. ~(k + 1 <= k) /\ i - 1 = k
                BY <3>0, <3>4
            <4>2. g[i] = f[k] \o q[k + 1]
                BY <2>g, <3>4, <4>1, Zenon
            <4> QED
                BY <3>2, <3>4, <4>1, <4>2, Zenon
        <3>5. i <= k \/ i = k + 1
            BY <3>0
        <3> QED
            BY <3>3, <3>4, <3>5, Zenon
    <2>6. Flat(q, g, k + 1)
        BY <2>2, <2>4, <2>5, FlatSteps, Zenon
    <2> QED
        BY <2>6 DEF k
<1>3. Nat \subseteq S
    <2> HIDE DEF S
    <2> QED
        BY <1>1, <1>2, SetInduction
<1>4. n - 1 \in S /\ (n - 1) + 1 = n
    BY <1>3
<1> QED
    BY <1>4

\* The queues of q have no request twice and none in common.
Separate(q, n) ==
    /\ \A i \in 1 .. n : IsInjective(q[i])
    /\ \A i, j \in 1 .. n : i # j => Range(q[i]) \cap Range(q[j]) = {}

LEMMA FlatSet ==
    ASSUME NEW S, NEW n \in Nat \ {0}, NEW q \in [1 .. n -> Seq(S)],
           Separate(q, n),
           NEW f, Flat(q, f, n)
    PROVE  /\ f[n] \in Seq(S)
           /\ Range(f[n]) = UNION {Range(q[i]) : i \in 1 .. n}
           /\ IsInjective(f[n])
<1>4. f[1] = q[1] /\ \A i \in 1 .. n : i # 1 => f[i] = f[i - 1] \o q[i]
    BY FlatSteps, Zenon
<1> DEFINE Upto(i) == UNION {Range(q[j]) : j \in 1 .. i}
<1> DEFINE Good(i) == f[i] \in Seq(S) /\ Range(f[i]) = Upto(i) /\ IsInjective(f[i])
<1> DEFINE T == {m \in Nat : m + 1 <= n => Good(m + 1)}
<1>5. 0 \in T
    <2>1. 1 \in 1 .. n /\ 1 .. 1 = {1}
        OBVIOUS
    <2>2. Upto(1) = Range(q[1])
        BY <2>1
    <2> QED
        BY <1>4, <2>1, <2>2 DEF Separate
<1>6. ASSUME NEW m \in Nat, m \in T PROVE m + 1 \in T
    <2> SUFFICES ASSUME (m + 1) + 1 <= n PROVE Good((m + 1) + 1)
        OBVIOUS
    <2> DEFINE k == m + 1
    <2>1. /\ k \in Nat /\ k \in 1 .. n /\ k + 1 \in 1 .. n /\ k + 1 # 1 /\ (k + 1) - 1 = k
          /\ Good(k)
        BY <1>6
    <2> HIDE DEF k
    <2>2. f[k + 1] = f[k] \o q[k + 1]
        BY <1>4, <2>1, Zenon
    <2>3. Upto(k) \cap Range(q[k + 1]) = {}
        <3>1. \A j \in 1 .. k : j \in 1 .. n /\ j # k + 1
            BY <2>1
        <3> QED
            BY <2>1, <3>1 DEF Separate
    <2>4. Upto(k + 1) = Upto(k) \cup Range(q[k + 1])
        <3>1. 1 .. k + 1 = (1 .. k) \cup {k + 1}
            BY <2>1
        <3> QED
            BY <3>1
    <2>5. q[k + 1] \in Seq(S) /\ IsInjective(q[k + 1])
        BY <2>1 DEF Separate
    <2> HIDE DEF Upto
    <2>6. Good(k + 1)
        <3> DEFINE a == f[k]
        <3> DEFINE b == q[k + 1]
        <3>1. /\ a \in Seq(S) /\ b \in Seq(S) /\ IsInjective(a) /\ IsInjective(b)
              /\ Range(a) \cap Range(b) = {}
            BY <2>1, <2>3, <2>5
        <3>2. f[k + 1] = a \o b /\ Upto(k + 1) = Range(a) \cup Range(b)
            BY <2>1, <2>2, <2>4
        <3> HIDE DEF a, b
        <3>3. /\ a \o b \in Seq(S) /\ Range(a \o b) = Range(a) \cup Range(b)
              /\ IsInjective(a \o b)
            BY <3>1, ConcatSet
        <3> QED
            BY <3>2, <3>3
    <2> QED
        BY <2>6 DEF k
<1>7. Nat \subseteq T
    <2> HIDE DEF T
    <2> QED
        BY <1>5, <1>6, SetInduction, Zenon
<1>8. n - 1 \in Nat /\ (n - 1) + 1 = n /\ n <= n
    OBVIOUS
<1>9. n - 1 \in T
    BY <1>7, <1>8, Zenon
<1>10. Good(n)
    <2> HIDE DEF Good
    <2> QED
        BY <1>8, <1>9
<1>11. f[n] \in Seq(S) /\ Range(f[n]) = Upto(n) /\ IsInjective(f[n])
    BY <1>10
<1> QED
    BY <1>11

LEMMA FlattenOf ==
    ASSUME NEW S, NEW n \in Nat \ {0}, NEW q \in [1 .. n -> S]
    PROVE  \E f : Flat(q, f, n) /\ Chain(q) = f[n]
<1>1. Len(q) = n /\ n # 0
    OBVIOUS
<1> QED
    BY <1>1, FlatExists, FlattenIs, Zenon

-----------------------------------------------------------------------------
(* The requests stay in one place. *)

LEMMA HashFacts ==
    ASSUME NEW x \in Xid
    PROVE  rpc_hash_xid(x) \in Hash
<1>1. XIDS \in Nat \ {0} /\ HASHES \in Nat \ {0}
    BY RpcAssumption
<1>2. x * 7919 \in Nat
    BY <1>1 DEF Xid
<1>3. (x * 7919) % HASHES \in 0 .. HASHES - 1
    BY <1>1, <1>2
<1> QED
    BY <1>3 DEF rpc_hash_xid, Hash

\* A request is in waitpdu exactly if it is in its bucket.
LEMMA InBucket ==
    ASSUME NEW o, NEW w, NEW p, NEW b, Placed(o, w, p, b), NEW x
    PROVE  x \in In(w) <=> rpc_hash_xid(x) \in Hash /\ x \in Range(w[rpc_hash_xid(x)])
BY DEF Placed, In

LEMMA InXid ==
    ASSUME NEW o, NEW w, NEW p, NEW b, Placed(o, w, p, b)
    PROVE  b \subseteq Xid /\ In(w) \subseteq b /\ In(w) \subseteq Xid
<1>1. \A s \in Seq(Xid) : Range(s) \subseteq Xid
    BY DEF Range
<1>2. /\ o \in Seq(Xid) /\ p \in Seq(Xid) /\ \A h \in Hash : w[h] \in Seq(Xid)
      /\ b = Range(o) \cup In(w) \cup Range(p)
    BY DEF Placed
<1>3. In(w) \subseteq Xid
    BY <1>1, <1>2 DEF In
<1> QED
    BY <1>1, <1>2, <1>3

LEMMA PlaceQueued ==
    ASSUME NEW o, NEW w, NEW p, NEW b, Placed(o, w, p, b), NEW x \in Xid, x \notin b
    PROVE  Placed(Append(o, x), w, p, b \cup {x})
<1>1. /\ o \in Seq(Xid) /\ IsInjective(o) /\ x \notin Range(o)
      /\ x \notin In(w) /\ x \notin Range(p)
    BY DEF Placed
<1>2. /\ Append(o, x) \in Seq(Xid) /\ Range(Append(o, x)) = Range(o) \cup {x}
      /\ IsInjective(Append(o, x))
    BY <1>1, AppendSet
<1> QED
    BY <1>1, <1>2 DEF Placed

LEMMA PlaceFailed ==
    ASSUME NEW o, NEW w, NEW p, NEW b, Placed(o, w, p, b), p # <<>>
    PROVE  /\ Placed(o, w, Tail(p), b \ {Head(p)})
           /\ Head(p) \in b
<1>1. /\ p \in Seq(Xid) /\ IsInjective(p)
    BY DEF Placed
<1>2. /\ Tail(p) \in Seq(Xid) /\ Head(p) \in Range(p)
      /\ Range(Tail(p)) = Range(p) \ {Head(p)} /\ IsInjective(Tail(p))
    BY <1>1, TailSet
<1> QED
    BY <1>1, <1>2 DEF Placed

LEMMA PlaceSent ==
    ASSUME NEW o, NEW w, NEW p, NEW b, Placed(o, w, p, b), o # <<>>, NEW v,
           v = [w EXCEPT ![rpc_hash_xid(Head(o))] = Append(@, Head(o))]
    PROVE  /\ Placed(Tail(o), v, p, b)
           /\ In(v) = In(w) \cup {Head(o)} /\ Head(o) \notin In(w) /\ Head(o) \in Xid
<1> DEFINE x == Head(o)
<1> DEFINE k == rpc_hash_xid(x)
<1>1. /\ o \in Seq(Xid) /\ IsInjective(o) /\ w \in [Hash -> Seq(Xid)]
      /\ Range(o) \cap In(w) = {}
    BY DEF Placed
<1>2. /\ Tail(o) \in Seq(Xid) /\ x \in Xid /\ x \in Range(o)
      /\ Range(Tail(o)) = Range(o) \ {x} /\ IsInjective(Tail(o))
    BY <1>1, TailSet
<1>3. k \in Hash /\ v = [w EXCEPT ![k] = Append(w[k], x)]
    BY <1>1, <1>2, HashFacts
<1> HIDE DEF x
<1>4. x \notin In(w) /\ x \notin Range(w[k])
    BY <1>1, <1>2, <1>3 DEF In
<1>5. k = rpc_hash_xid(x)
    OBVIOUS
<1> HIDE DEF k
<1>6. /\ Append(w[k], x) \in Seq(Xid) /\ Range(Append(w[k], x)) = Range(w[k]) \cup {x}
      /\ IsInjective(Append(w[k], x))
    <2>1. w[k] \in Seq(Xid) /\ IsInjective(w[k])
        BY <1>1, <1>3 DEF Placed
    <2> QED
        BY <1>2, <1>4, <2>1, AppendSet
<1>7. /\ v \in [Hash -> Seq(Xid)]
      /\ \A h \in Hash : v[h] = IF h = k THEN Append(w[k], x) ELSE w[h]
    BY <1>1, <1>3, <1>6
<1>8. In(v) = In(w) \cup {x}
    <2>1. \A h \in Hash : Range(v[h]) = IF h = k THEN Range(w[k]) \cup {x} ELSE Range(w[h])
        BY <1>6, <1>7, Zenon
    <2> QED
        BY <1>3, <2>1 DEF In
<1>9. \A h \in Hash : /\ IsInjective(v[h])
                      /\ \A y \in Range(v[h]) : rpc_hash_xid(y) = h
    BY <1>5, <1>6, <1>7 DEF Placed
<1>10. Placed(Tail(o), v, p, b)
    <2>1. /\ p \in Seq(Xid) /\ IsInjective(p)
          /\ Range(p) \cap (Range(o) \cup In(w)) = {}
          /\ b = Range(o) \cup In(w) \cup Range(p)
        BY DEF Placed
    <2>2. Range(Tail(o)) \cap In(v) = {}
        BY <1>1, <1>2, <1>8, Zenon
    <2>3. Range(p) \cap (Range(Tail(o)) \cup In(v)) = {}
        BY <1>2, <1>8, <2>1, Zenon
    <2>4. b = Range(Tail(o)) \cup In(v) \cup Range(p)
        BY <1>2, <1>8, <2>1, Zenon
    <2> QED
        BY <1>2, <1>7, <1>9, <2>1, <2>2, <2>3, <2>4, Zenon DEF Placed
<1> QED
    BY <1>2, <1>4, <1>8, <1>10, Zenon DEF x

\* v is waitpdu w after request x of it is unlinked.
Unlinked(w, v, x) ==
    /\ x \in Range(w[rpc_hash_xid(x)])
    /\ v = [w EXCEPT ![rpc_hash_xid(x)] = Unlink(@, x)]

LEMMA PlaceAnswered ==
    ASSUME NEW o, NEW w, NEW p, NEW b, Placed(o, w, p, b),
           NEW x \in Xid, NEW v, Unlinked(w, v, x)
    PROVE  /\ Placed(o, v, p, b \ {x})
           /\ In(v) = In(w) \ {x} /\ x \in In(w) /\ x \in b
<1>1. PICK k \in Hash : k = rpc_hash_xid(x)
    BY HashFacts
<1>2. /\ w \in [Hash -> Seq(Xid)] /\ w[k] \in Seq(Xid) /\ IsInjective(w[k])
      /\ x \in Range(w[k]) /\ v = [w EXCEPT ![k] = Unlink(w[k], x)]
    BY <1>1 DEF Placed, Unlinked
<1>3. /\ Unlink(w[k], x) \in Seq(Xid)
      /\ Range(Unlink(w[k], x)) = Range(w[k]) \ {x}
      /\ IsInjective(Unlink(w[k], x))
    BY <1>2, RemoveSet
<1>4. /\ v \in [Hash -> Seq(Xid)]
      /\ \A h \in Hash : v[h] = IF h = k THEN Unlink(w[k], x) ELSE w[h]
    BY <1>2, <1>3
<1>5. \A h \in Hash : h # k => x \notin Range(w[h])
    BY <1>1 DEF Placed
<1>6. In(v) = In(w) \ {x} /\ x \in In(w)
    <2>1. \A h \in Hash : Range(v[h]) = Range(w[h]) \ {x}
        BY <1>3, <1>4, <1>5
    <2> QED
        BY <1>2, <2>1 DEF In
<1>7. \A h \in Hash : /\ IsInjective(v[h])
                      /\ \A y \in Range(v[h]) : rpc_hash_xid(y) = h
    BY <1>3, <1>4, Zenon DEF Placed
<1>8. x \notin Range(o) /\ x \notin Range(p) /\ x \in b
    BY <1>6 DEF Placed
<1>9. Placed(o, v, p, b \ {x})
    BY <1>4, <1>6, <1>7, <1>8 DEF Placed
<1> QED
    BY <1>6, <1>8, <1>9

LEMMA PlaceRequeued ==
    ASSUME NEW o, NEW w, NEW b, Placed(o, w, <<>>, b)
    PROVE  /\ Placed(<<>>, Empty,
                     Reverse(Chain([i \in 1 .. HASHES |-> w[i - 1]])) \o o, b)
           /\ In(Empty) = {}
<1> DEFINE q == [i \in 1 .. HASHES |-> w[i - 1]]
<1>1. HASHES \in Nat \ {0}
    BY RpcAssumption
<1>2. /\ w \in [Hash -> Seq(Xid)] /\ o \in Seq(Xid) /\ IsInjective(o)
      /\ Range(o) \cap In(w) = {}
    BY DEF Placed
<1>3. \A i \in 1 .. HASHES : i - 1 \in Hash /\ q[i] = w[i - 1]
    BY <1>1 DEF Hash
<1>4. q \in [1 .. HASHES -> Seq(Xid)]
    BY <1>2, <1>3
<1>5. Separate(q, HASHES)
    <2>1. \A i \in 1 .. HASHES : IsInjective(q[i])
        BY <1>3 DEF Placed
    <2>2. ASSUME NEW i \in 1 .. HASHES, NEW j \in 1 .. HASHES, i # j
          PROVE  Range(q[i]) \cap Range(q[j]) = {}
        <3>1. i - 1 # j - 1
            BY <1>1, <2>2
        <3> QED
            BY <1>3, <3>1 DEF Placed
    <2> QED
        BY <2>1, <2>2 DEF Separate
<1>6. UNION {Range(q[i]) : i \in 1 .. HASHES} = In(w)
    <2>1. \A h \in Hash : h + 1 \in 1 .. HASHES /\ (h + 1) - 1 = h
        BY <1>1 DEF Hash
    <2>2. \A h \in Hash : q[h + 1] = w[h]
        BY <1>3, <2>1
    <2> HIDE DEF q
    <2> QED
        BY <1>3, <2>1, <2>2 DEF In
<1> HIDE DEF q
<1>7. PICK f : Flat(q, f, HASHES) /\ Chain(q) = f[HASHES]
    BY <1>1, <1>4, FlattenOf, Zenon
<1>8. /\ f[HASHES] \in Seq(Xid)
      /\ Range(f[HASHES]) = UNION {Range(q[i]) : i \in 1 .. HASHES}
      /\ IsInjective(f[HASHES])
    BY <1>1, <1>4, <1>5, <1>7, FlatSet, Zenon
<1> DEFINE r == Reverse(f[HASHES])
<1>9. r \in Seq(Xid) /\ Range(r) = In(w) /\ IsInjective(r)
    BY <1>6, <1>8, ReverseSet, Zenon
<1> HIDE DEF r
<1>10. r \o o \in Seq(Xid) /\ Range(r \o o) = In(w) \cup Range(o) /\ IsInjective(r \o o)
    BY <1>2, <1>9, ConcatSet
<1>11. Range(<<>>) = {} /\ <<>> \in Seq(Xid) /\ IsInjective(<<>>)
    BY DEF Range, IsInjective
<1>12. In(Empty) = {} /\ Empty \in [Hash -> Seq(Xid)] /\ \A h \in Hash : Empty[h] = <<>>
    BY <1>11 DEF In, Empty, Hash
<1>13. b = Range(o) \cup In(w)
    BY <1>11 DEF Placed
<1>14. Placed(<<>>, Empty, r \o o, b)
    BY <1>10, <1>11, <1>12, <1>13 DEF Placed
<1> QED
    BY <1>7, <1>12, <1>14 DEF q, r

\* The types, by who changes the variables.
TypeQ ==
    /\ xid \in Xid /\ blocked \subseteq Xid /\ Cardinality(blocked) <= MaxCalls
    /\ outqueue \in Seq(Xid) /\ purged \in Seq(Xid)
    /\ written \in 0 .. RequestLen - 1
    /\ waitpdu \in [0 .. HASHES - 1 -> Seq(Xid)]
    /\ waitpdu_len \in 0 .. MaxCalls
TypeS ==
    /\ fd \in Mounted .. Mounted + 2 /\ old_fd \in 0 .. fd - 1
    /\ is_connected \in BOOLEAN /\ pollout \in BOOLEAN
    /\ inbuf \in Seq(Xid) /\ Len(inbuf) <= ReplyLen
    /\ pc \in {"idle", "read", "reply", "write", "requeue", "purge"}
TypeN ==
    /\ tcpq_out \in Seq(Xid) /\ Len(tcpq_out) <= MaxSize
    /\ EV_WR \in BOOLEAN /\ remote_closed \in BOOLEAN /\ hup \in BOOLEAN
    /\ tcpq_in \in Seq(Xid) /\ coming \in Seq(Xid)
    /\ part \in 0 .. RequestLen - 1 /\ server \subseteq Xid

LEMMA Types == TypeOK <=> TypeQ /\ TypeS /\ TypeN /\ dead \in {"no", "exit", "assert"}
BY DEF TypeOK, TypeQ, TypeS, TypeN

LEMMA FiniteXid ==
    /\ IsFiniteSet(Xid)
    /\ \A S \in SUBSET Xid : IsFiniteSet(S) /\ Cardinality(S) \in Nat
<1>1. XIDS \in Nat \ {0} /\ 0 \in Int /\ XIDS - 1 \in Int
    BY RpcAssumption
<1>2. IsFiniteSet(Xid)
    BY <1>1, FS_Interval DEF Xid
<1> QED
    BY <1>2, FS_Subset, FS_CardinalityType

LEMMA InitIInv == Init => IInv
<1> SUFFICES ASSUME Init PROVE IInv
    OBVIOUS
<1>1. /\ XIDS \in Nat \ {0} /\ HASHES \in Nat \ {0} /\ MaxCalls \in Nat \ {0}
      /\ RequestLen \in Nat \ {0} /\ MaxSize \in Nat \ {0} /\ ReplyLen \in Nat
    BY RpcAssumption
<1>2. Cardinality({}) = 0 /\ <<>> \in Seq(Xid) /\ Len(<<>>) = 0
    BY FS_EmptySet
<1>3. Empty \in [Hash -> Seq(Xid)] /\ \A h \in Hash : Empty[h] = <<>>
    BY <1>2 DEF Empty, Hash
<1>4. TypeQ
    BY <1>1, <1>2, <1>3 DEF Init, TypeQ, Hash
<1>5. TypeS
    <2>1. fd \in Mounted .. Mounted + 2 /\ old_fd \in 0 .. fd - 1
        BY DEF Init, Mounted
    <2>2. is_connected \in BOOLEAN /\ pollout \in BOOLEAN
        BY Zenon DEF Init
    <2>3. inbuf \in Seq(Xid) /\ Len(inbuf) <= ReplyLen
        BY <1>1, <1>2 DEF Init
    <2>4. pc \in {"idle", "read", "reply", "write", "requeue", "purge"}
        BY DEF Init
    <2> QED
        BY <2>1, <2>2, <2>3, <2>4 DEF TypeS
<1>6. TypeN
    <2>1. EV_WR \in BOOLEAN /\ remote_closed \in BOOLEAN /\ hup \in BOOLEAN
        BY Zenon DEF Init
    <2> QED
        BY <1>1, <1>2, <2>1 DEF Init, TypeN
<1>7. Range(<<>>) = {} /\ IsInjective(<<>>)
    BY DEF Range, IsInjective
<1>8. In(Empty) = {}
    BY <1>3, <1>7 DEF In
<1>9. Placed(<<>>, Empty, <<>>, {})
    BY <1>2, <1>3, <1>7, <1>8 DEF Placed
<1>10. Queues
    BY <1>2, <1>7, <1>8, <1>9, Zenon DEF Queues, Requests, Init
<1>11. Service
    BY DEF Init, Service, Mounted
<1> QED
    BY <1>4, <1>5, <1>6, <1>10, <1>11, Types DEF IInv, Init

LEMMA SameQueues ==
    ASSUME Queues, dead = "no",
           UNCHANGED <<outqueue, waitpdu, waitpdu_len, blocked, purged>>
    PROVE  Queues'
BY DEF Queues, Requests, In

\* waitpdu_len is a number of coroutines.
LEMMA LenBound ==
    ASSUME NEW o, NEW w, NEW p, NEW b, Placed(o, w, p, b), NEW c \in SUBSET Xid, b \subseteq c,
           Cardinality(c) <= MaxCalls
    PROVE  Cardinality(In(w)) \in 0 .. MaxCalls
<1>1. In(w) \subseteq c
    BY InXid
<1>2. Cardinality(In(w)) <= Cardinality(c) /\ Cardinality(In(w)) \in Nat /\ Cardinality(c) \in Nat
    BY <1>1, FiniteXid, FS_Subset
<1> QED
    BY <1>2, RpcAssumption

\* A coroutine continues, the queues being o, w and p without its request.
LEMMA CalledBack ==
    ASSUME TypeOK, dead = "no", NEW x \in blocked, callback(x),
           Placed(outqueue, waitpdu', purged', blocked \ {x}),
           waitpdu_len' = Cardinality(In(waitpdu')), written' = written
    PROVE  Queues' /\ TypeQ' /\ dead' \in {"no", "exit"}
<1>1. blocked \subseteq Xid /\ xid \in Xid /\ Cardinality(blocked) <= MaxCalls
      /\ MaxCalls \in Nat /\ XIDS \in Nat \ {0} /\ written \in 0 .. RequestLen - 1
    BY RpcAssumption DEF TypeOK
<1> DEFINE b == blocked \ {x}
<1>2. /\ IsFiniteSet(b) /\ IsFiniteSet(blocked) /\ Cardinality(b) \in Nat
      /\ Cardinality(blocked) \in Nat /\ Cardinality(b) <= Cardinality(blocked)
    <2>1. b \subseteq blocked /\ b \in SUBSET Xid /\ blocked \in SUBSET Xid
        BY <1>1
    <2> QED
        BY <2>1, FiniteXid, FS_Subset
<1>3. ASSUME NEW c, Placed(outqueue', waitpdu', purged', c), c \subseteq blocked',
             dead' = "no" => c = blocked', blocked' \subseteq Xid,
             Cardinality(blocked') <= MaxCalls, xid' \in Xid
      PROVE  Queues' /\ TypeQ'
    <2>1. c = Range(outqueue') \cup In(waitpdu') \cup Range(purged')
        BY <1>3 DEF Placed
    <2>2. Queues'
        BY <1>3, <2>1 DEF Queues, Requests
    <2>3. waitpdu_len' \in 0 .. MaxCalls
        BY <1>3, LenBound
    <2>4. TypeQ'
        BY <1>1, <1>3, <2>3 DEF TypeQ, Placed, Hash
    <2> QED
        BY <2>2, <2>4
<1>4. CASE dead' = "exit" /\ NoCall(blocked)
    <2>1. blocked' = blocked /\ xid' = xid /\ outqueue' = outqueue
        BY <1>4 DEF NoCall
    <2> QED
        BY <1>1, <1>3, <1>4, <2>1
<1>5. CASE dead' = dead /\ NoCall(b)
    <2>1. blocked' = b /\ xid' = xid /\ outqueue' = outqueue
        BY <1>5 DEF NoCall
    <2>2. Cardinality(blocked') <= MaxCalls
        BY <1>1, <1>2, <2>1
    <2> QED
        BY <1>1, <1>3, <1>5, <2>1, <2>2
<1>6. CASE dead' = dead /\ rpc_queue_pdu(b)
    <2>1. /\ Cardinality(b) < MaxCalls /\ xid \notin blocked
          /\ outqueue' = Append(outqueue, xid) /\ xid' = (xid + 1) % XIDS
          /\ blocked' = b \cup {xid}
        BY <1>6 DEF rpc_queue_pdu
    <2>2. Placed(outqueue', waitpdu', purged', blocked')
        BY <1>1, <2>1, PlaceQueued
    <2>3. Cardinality(blocked') <= MaxCalls
        <3>1. Cardinality(blocked') = Cardinality(b) + 1
            BY <1>2, <2>1, FS_AddElement, Zenon
        <3> QED
            BY <1>1, <1>2, <2>1, <3>1
    <2>4. xid' \in Xid
        BY <1>1, <2>1 DEF Xid
    <2>5. blocked' \subseteq Xid
        BY <1>1, <2>1
    <2> QED
        BY <1>3, <1>6, <2>2, <2>3, <2>4, <2>5
<1> QED
    BY <1>4, <1>5, <1>6 DEF callback

LEMMA Parts ==
    ASSUME IInv
    PROVE  TypeQ /\ TypeS /\ TypeN /\ Queues /\ Service /\ TypeOK
BY Types DEF IInv

\* What a step shows to keep the invariant.
LEMMA Kept ==
    ASSUME TypeQ', TypeS', TypeN', dead' \in {"no", "exit", "assert"}, Queues', Service'
    PROVE  IInv'
BY Types, Zenon DEF IInv, TypeOK, TypeQ, TypeS, TypeN

LEMMA SameQ ==
    ASSUME IInv, dead = "no",
           UNCHANGED <<xid, outqueue, written, waitpdu, waitpdu_len, blocked, purged>>
    PROVE  TypeQ' /\ Queues'
<1>1. Queues'
    BY Parts, SameQueues
<1>2. TypeQ'
    BY Parts DEF TypeQ
<1> QED
    BY <1>1, <1>2

LEMMA SameN ==
    ASSUME IInv, UNCHANGED network
    PROVE  TypeN'
BY Parts DEF TypeN, network

LEMMA IssueIInv ==
    ASSUME IInv, Issue
    PROVE  IInv'
<1>1. /\ TypeQ /\ TypeS /\ TypeN /\ Queues /\ Service
    BY Parts
<1>2. /\ pc = "idle" /\ dead = "no" /\ rpc_queue_pdu(blocked)
      /\ UNCHANGED <<written, waitpdu, waitpdu_len, service, socket, network, dead>>
    BY DEF Issue
<1>3. UNCHANGED <<inbuf, pollout, pc, purged, fd, old_fd, is_connected, dead>>
    BY <1>2 DEF service, socket
<1>4. /\ Cardinality(blocked) < MaxCalls /\ xid \notin blocked
      /\ outqueue' = Append(outqueue, xid) /\ xid' = (xid + 1) % XIDS
      /\ blocked' = blocked \cup {xid}
    BY <1>2 DEF rpc_queue_pdu
<1>5. /\ blocked \subseteq Xid /\ xid \in Xid /\ XIDS \in Nat \ {0} /\ MaxCalls \in Nat
      /\ Placed(outqueue, waitpdu, purged, blocked)
      /\ waitpdu_len = Cardinality(In(waitpdu))
    BY <1>1, <1>2, RpcAssumption DEF TypeQ, Queues
<1>6. Placed(outqueue', waitpdu', purged', blocked')
    BY <1>2, <1>3, <1>4, <1>5, PlaceQueued
<1>7. xid' \in Xid /\ blocked' \subseteq Xid
    <2>1. xid' \in Xid
        BY <1>4, <1>5 DEF Xid
    <2> QED
        BY <1>4, <1>5, <2>1
<1>8. Cardinality(blocked') <= MaxCalls
    <2>1. IsFiniteSet(blocked) /\ Cardinality(blocked) \in Nat
        BY <1>5, FiniteXid
    <2>2. Cardinality(blocked') = Cardinality(blocked) + 1
        BY <1>4, <2>1, FS_AddElement
    <2> QED
        BY <1>4, <1>5, <2>1, <2>2
<1>9. Queues'
    <2>1. blocked' = Range(outqueue') \cup In(waitpdu') \cup Range(purged')
        BY <1>6 DEF Placed
    <2> QED
        BY <1>2, <1>5, <1>6, <2>1 DEF Queues, Requests
<1>10. TypeQ'
    BY <1>1, <1>2, <1>6, <1>7, <1>8 DEF TypeQ, Placed
<1>11. TypeS'
    BY <1>1, <1>3 DEF TypeS
<1>12. TypeN'
    BY <1>2, SameN
<1>13. Service'
    BY <1>1, <1>2, <1>3 DEF Service, rpc_get_fd, network
<1> QED
    BY <1>2, <1>9, <1>10, <1>11, <1>12, <1>13, Kept

LEMMA PollIInv ==
    ASSUME IInv, nfslib_poll
    PROVE  IInv'
<1>1. /\ TypeQ /\ TypeS /\ TypeN /\ Queues /\ Service
    BY Parts
<1>2. /\ pc = "idle" /\ dead = "no" /\ rpc_get_fd = Mounted
      /\ pc' = IF hup THEN "requeue" ELSE "read"
      /\ pollout' = (EV_WR /\ rpc_which_events /\ ~hup)
      /\ UNCHANGED <<queues, inbuf, purged, socket, network, dead>>
    BY DEF nfslib_poll, pico_ppoll
<1>3. UNCHANGED <<xid, outqueue, written, waitpdu, waitpdu_len, blocked, purged>>
      /\ UNCHANGED <<fd, old_fd, is_connected, inbuf, dead>>
    BY <1>2 DEF queues, socket
<1>4. pollout' \in BOOLEAN
    BY <1>2, Zenon
<1>5. TypeS'
    BY <1>1, <1>2, <1>3, <1>4 DEF TypeS
<1>6. Service'
    BY <1>1, <1>2, <1>3 DEF Service, rpc_get_fd, network
<1> QED
    BY <1>2, <1>3, <1>5, <1>6, SameQ, SameN, Kept

\* What recv takes.
LEMMA RecvFacts ==
    ASSUME IInv, recv
    PROVE  /\ inbuf' \in Seq(Xid) /\ Len(inbuf') <= ReplyLen
           /\ tcpq_in' \in Seq(Xid) /\ hup' \in BOOLEAN /\ (hup => hup')
<1>1. TypeS /\ TypeN
    BY Parts
<1>2. /\ inbuf \in Seq(Xid) /\ tcpq_in \in Seq(Xid) /\ Len(inbuf) \in Nat
      /\ Len(tcpq_in) \in Nat /\ Len(inbuf) <= ReplyLen /\ ReplyLen \in Nat \ {0, 1}
    BY <1>1, RpcAssumption DEF TypeS, TypeN
<1>3. Wanted \in Nat /\ Len(inbuf) + Wanted <= ReplyLen
    <2>1. CASE inbuf = <<>>
        BY <1>2, <2>1 DEF Wanted
    <2>2. CASE inbuf # <<>>
        BY <1>2, <2>2 DEF Wanted
    <2> QED
        BY <2>1, <2>2
<1> DEFINE n == IF Wanted < Len(tcpq_in) THEN Wanted ELSE Len(tcpq_in)
<1>4. n \in 0 .. Len(tcpq_in) /\ n <= Wanted /\ n \in Nat
    BY <1>2, <1>3
<1>5. /\ inbuf' = inbuf \o SubSeq(tcpq_in, 1, n)
      /\ tcpq_in' = SubSeq(tcpq_in, n + 1, Len(tcpq_in))
      /\ hup' = (hup \/ remote_closed)
    BY DEF recv
<1> HIDE DEF n
<1>6. SubSeq(tcpq_in, 1, n) \in Seq(Xid) /\ Len(SubSeq(tcpq_in, 1, n)) = n
    <2>1. 1 \in 1 .. Len(tcpq_in) + 1 /\ n \in 1 - 1 .. Len(tcpq_in) /\ (n - 1) + 1 = n
        BY <1>2, <1>4
    <2>2. SubSeq(tcpq_in, 1, n) \in Seq(Xid) /\ Len(SubSeq(tcpq_in, 1, n)) = (n - 1) + 1
        BY <1>2, <2>1, SubSeqFacts
    <2> QED
        BY <2>1, <2>2
<1>7. tcpq_in' \in Seq(Xid)
    <2>1. n + 1 \in 1 .. Len(tcpq_in) + 1 /\ Len(tcpq_in) \in (n + 1) - 1 .. Len(tcpq_in)
        BY <1>2, <1>4
    <2> QED
        BY <1>2, <1>5, <2>1, SubSeqFacts
<1>8. inbuf' \in Seq(Xid) /\ Len(inbuf') = Len(inbuf) + n
    BY <1>2, <1>5, <1>6
<1>9. Len(inbuf') <= ReplyLen
    BY <1>2, <1>3, <1>4, <1>8
<1>10. hup' \in BOOLEAN /\ (hup => hup')
    BY <1>5, Zenon
<1> QED
    BY <1>7, <1>8, <1>9, <1>10

LEMMA ReadIInv ==
    ASSUME IInv, rpc_read_from_socket
    PROVE  IInv'
<1>1. /\ TypeQ /\ TypeS /\ TypeN /\ Queues /\ Service
    BY Parts
<1>2. /\ pc = "read" /\ dead = "no"
      /\ UNCHANGED <<queues, pollout, purged, socket, tcpq_out, EV_WR, part, server,
                     coming, remote_closed, dead>>
    BY DEF rpc_read_from_socket
<1>3. /\ UNCHANGED <<xid, outqueue, written, waitpdu, waitpdu_len, blocked, purged>>
      /\ UNCHANGED <<fd, old_fd, is_connected, pollout, dead>>
    BY <1>2 DEF queues, socket
<1>4. /\ inbuf' \in Seq(Xid) /\ Len(inbuf') <= ReplyLen /\ tcpq_in' \in Seq(Xid)
      /\ hup' \in BOOLEAN /\ (hup => hup')
    <2>1. CASE UNCHANGED <<inbuf, tcpq_in, hup>>
        BY <1>1, <2>1 DEF TypeS, TypeN
    <2>2. CASE recv
        BY <2>2, RecvFacts
    <2> QED
        BY <2>1, <2>2 DEF rpc_read_from_socket
<1>5. /\ pc' \in {"read", "reply", "write", "requeue"}
      /\ pc' = "reply" => Len(inbuf') = ReplyLen
      /\ pc' = "requeue" => hup
    BY DEF rpc_read_from_socket, Again
<1>6. TypeS'
    BY <1>1, <1>3, <1>4, <1>5 DEF TypeS
<1>7. TypeN'
    BY <1>1, <1>2, <1>4 DEF TypeN
<1>8. Service'
    BY <1>1, <1>2, <1>3, <1>4, <1>5 DEF Service, rpc_get_fd
<1> QED
    BY <1>2, <1>3, <1>6, <1>7, <1>8, SameQ, Kept

LEMMA ProcessIInv ==
    ASSUME IInv, rpc_process_pdu
    PROVE  IInv'
<1>1. /\ TypeQ /\ TypeS /\ TypeN /\ Queues /\ Service /\ TypeOK
    BY Parts
<1>2. /\ pc = "reply" /\ dead = "no" /\ inbuf' = <<>> /\ pc' = Again(waitpdu_len')
      /\ UNCHANGED <<written, pollout, purged, socket, network>>
    BY DEF rpc_process_pdu
<1>3. UNCHANGED <<fd, old_fd, is_connected, tcpq_out, EV_WR, hup>>
    BY <1>2 DEF socket, network
<1>4. PICK x \in Xid : x = inbuf[2]
    BY <1>1, <1>2, RpcAssumption DEF TypeS, Service
<1>5. Queues' /\ TypeQ' /\ dead' \in {"no", "exit"}
    <2>1. CASE x \in Range(waitpdu[rpc_hash_xid(x)])
        <3>1. /\ waitpdu' = [waitpdu EXCEPT ![rpc_hash_xid(x)] = Unlink(@, x)]
              /\ waitpdu_len' = waitpdu_len - 1 /\ callback(x)
            BY <1>4, <2>1 DEF rpc_process_pdu
        <3>2. Placed(outqueue, waitpdu, purged, blocked) /\ waitpdu_len = Cardinality(In(waitpdu))
            BY <1>1, <1>2 DEF Queues
        <3>3. /\ Placed(outqueue, waitpdu', purged, blocked \ {x})
              /\ In(waitpdu') = In(waitpdu) \ {x} /\ x \in In(waitpdu) /\ x \in blocked
            <4>1. Unlinked(waitpdu, waitpdu', x)
                BY <2>1, <3>1 DEF Unlinked
            <4> QED
                BY <3>2, <4>1, PlaceAnswered
        <3>4. IsFiniteSet(In(waitpdu)) /\ Cardinality(In(waitpdu)) \in Nat
            BY <3>2, InXid, FiniteXid
        <3>5. waitpdu_len' = Cardinality(In(waitpdu'))
            BY <3>1, <3>2, <3>3, <3>4, FS_RemoveElement, Zenon
        <3> QED
            BY <1>1, <1>2, <3>1, <3>3, <3>5, CalledBack, Zenon
    <2>2. CASE x \notin Range(waitpdu[rpc_hash_xid(x)])
        <3>1. UNCHANGED <<xid, outqueue, written, waitpdu, waitpdu_len, blocked, purged, dead>>
            BY <1>2, <1>4, <2>2 DEF rpc_process_pdu, NoCall
        <3> QED
            BY <1>2, <3>1, SameQ
    <2> QED
        BY <2>1, <2>2
<1>6. inbuf' \in Seq(Xid) /\ Len(inbuf') <= ReplyLen /\ pc' \in {"read", "write"}
    <2>1. pc' \in {"read", "write"}
        BY <1>2 DEF Again
    <2> QED
        BY <1>2, <2>1, RpcAssumption
<1>7. TypeS'
    BY <1>1, <1>2, <1>3, <1>6 DEF TypeS
<1>8. Service'
    BY <1>1, <1>2, <1>3, <1>6 DEF Service, rpc_get_fd
<1> QED
    BY <1>2, <1>5, <1>7, <1>8, SameN, Kept

\* What pico_sendto leaves in the send queue.
LEMMA SendFacts ==
    ASSUME IInv, NEW x \in Xid, NEW n \in Nat, n <= MaxSize - Len(tcpq_out),
           n # 0 \/ Len(tcpq_out) = MaxSize, pico_sendto(x, n)
    PROVE  /\ tcpq_out' \in Seq(Xid) /\ Len(tcpq_out') <= MaxSize
           /\ tcpq_out' # <<>> /\ EV_WR' = FALSE /\ Len(tcpq_out') = Len(tcpq_out) + n
<1>1. tcpq_out \in Seq(Xid) /\ Len(tcpq_out) \in Nat /\ MaxSize \in Nat \ {0}
    BY Parts, RpcAssumption DEF TypeN
<1>2. Units(x, n) \in Seq(Xid) /\ Len(Units(x, n)) = n
    BY DEF Units
<1>3. tcpq_out' = tcpq_out \o Units(x, n) /\ EV_WR' = FALSE
    BY DEF pico_sendto
<1>4. tcpq_out' \in Seq(Xid) /\ Len(tcpq_out') = Len(tcpq_out) + n
    BY <1>1, <1>2, <1>3, ConcatLen, Zenon
<1>5. Len(tcpq_out') <= MaxSize /\ Len(tcpq_out') # 0
    BY <1>1, <1>4
<1> QED
    BY <1>3, <1>4, <1>5

LEMMA WriteIInv ==
    ASSUME IInv, rpc_write_to_socket
    PROVE  IInv'
<1>1. /\ TypeQ /\ TypeS /\ TypeN /\ Queues /\ Service /\ TypeOK
    BY Parts
<1> DEFINE left == RequestLen - written
           room == MaxSize - Len(tcpq_out)
           n == IF left < room THEN left ELSE room
<1>2. /\ pc = "write" /\ dead = "no" /\ outqueue # <<>>
      /\ pico_sendto(Head(outqueue), n)
      /\ pc' = IF n = 0 THEN "idle" ELSE "write"
      /\ UNCHANGED <<xid, blocked, inbuf, pollout, purged, socket, tcpq_in, part,
                     server, coming, remote_closed, hup, dead>>
    BY DEF rpc_write_to_socket
<1>3. \/ n = left /\ Sent
      \/ n # left /\ written' = written + n /\ UNCHANGED <<outqueue, waitpdu, waitpdu_len>>
    BY DEF rpc_write_to_socket
<1>4. UNCHANGED <<fd, old_fd, is_connected>>
    BY <1>2 DEF socket
<1>5. /\ n \in Nat /\ n <= room /\ n <= left /\ (n # 0 \/ Len(tcpq_out) = MaxSize)
      /\ RequestLen \in Nat /\ written \in 0 .. RequestLen - 1
    <2>1. /\ RequestLen \in Nat /\ written \in 0 .. RequestLen - 1
          /\ MaxSize \in Nat /\ Len(tcpq_out) \in Nat /\ Len(tcpq_out) <= MaxSize
        BY <1>1, RpcAssumption DEF TypeQ, TypeN
    <2> QED
        BY <2>1
<1> HIDE DEF n
<1>6. Placed(outqueue, waitpdu, purged, blocked) /\ waitpdu_len = Cardinality(In(waitpdu))
    BY <1>1, <1>2 DEF Queues
<1>7. Head(outqueue) \in Xid
    <2>1. outqueue \in Seq(Xid)
        BY <1>1 DEF TypeQ
    <2> QED
        BY <1>2, <2>1
<1>8. /\ tcpq_out' \in Seq(Xid) /\ Len(tcpq_out') <= MaxSize
      /\ tcpq_out' # <<>> /\ EV_WR' = FALSE
    BY <1>2, <1>5, <1>7, SendFacts, Zenon
<1>9. /\ Placed(outqueue', waitpdu', purged', blocked')
      /\ waitpdu_len' = Cardinality(In(waitpdu')) /\ written' \in 0 .. RequestLen - 1
    <2>1. CASE n = left /\ Sent
        <3>1. /\ outqueue' = Tail(outqueue) /\ written' = 0 /\ waitpdu_len' = waitpdu_len + 1
              /\ waitpdu' = [waitpdu EXCEPT ![rpc_hash_xid(Head(outqueue))]
                                = Append(@, Head(outqueue))]
            BY <2>1 DEF Sent
        <3>2. /\ Placed(Tail(outqueue), waitpdu', purged, blocked)
              /\ In(waitpdu') = In(waitpdu) \cup {Head(outqueue)}
              /\ Head(outqueue) \notin In(waitpdu)
            BY <1>2, <1>6, <3>1, PlaceSent, Zenon
        <3>3. IsFiniteSet(In(waitpdu)) /\ Cardinality(In(waitpdu)) \in Nat
            BY <1>6, InXid, FiniteXid
        <3>4. waitpdu_len' = Cardinality(In(waitpdu'))
            BY <1>6, <3>1, <3>2, <3>3, FS_AddElement, Zenon
        <3>5. written' \in 0 .. RequestLen - 1
            BY <1>5, <3>1
        <3> QED
            BY <1>2, <3>1, <3>2, <3>4, <3>5
    <2>2. CASE n # left /\ written' = written + n /\ UNCHANGED <<outqueue, waitpdu, waitpdu_len>>
        <3>1. written' \in 0 .. RequestLen - 1
            BY <1>5, <2>2
        <3> QED
            BY <1>2, <1>6, <2>2, <3>1
    <2> QED
        BY <1>3, <2>1, <2>2
<1>10. Queues'
    <2>1. blocked' = Range(outqueue') \cup In(waitpdu') \cup Range(purged')
        BY <1>9 DEF Placed
    <2> QED
        BY <1>9, <2>1 DEF Queues, Requests
<1>11. TypeQ'
    <2>1. blocked' \in SUBSET Xid /\ Cardinality(blocked') <= MaxCalls
        BY <1>1, <1>2 DEF TypeQ
    <2>2. waitpdu_len' \in 0 .. MaxCalls
        BY <1>9, <2>1, LenBound
    <2>3. /\ outqueue' \in Seq(Xid) /\ purged' \in Seq(Xid)
          /\ waitpdu' \in [0 .. HASHES - 1 -> Seq(Xid)]
        BY <1>9 DEF Placed, Hash
    <2>4. xid' \in Xid
        BY <1>1, <1>2 DEF TypeQ
    <2> QED
        BY <1>9, <2>1, <2>2, <2>3, <2>4 DEF TypeQ
<1>12. pc' \in {"idle", "write"}
    BY <1>2
<1>13. TypeS'
    BY <1>1, <1>2, <1>4, <1>12 DEF TypeS
<1>14. EV_WR' \in BOOLEAN
    BY <1>8, Zenon
<1>15. TypeN'
    BY <1>1, <1>2, <1>8, <1>14 DEF TypeN
<1>16. Service'
    BY <1>1, <1>2, <1>4, <1>8, <1>12 DEF Service, rpc_get_fd
<1> QED
    BY <1>2, <1>10, <1>11, <1>13, <1>15, <1>16, Kept

LEMMA ServiceEndIInv ==
    ASSUME IInv, rpc_service_end
    PROVE  IInv'
<1>1. /\ TypeQ /\ TypeS /\ TypeN /\ Queues /\ Service
    BY Parts
<1>2. /\ pc = "write" /\ dead = "no" /\ pc' = "idle" /\ pollout' = FALSE
      /\ UNCHANGED <<queues, inbuf, purged, socket, network, dead>>
    BY DEF rpc_service_end
<1>3. UNCHANGED <<xid, outqueue, written, waitpdu, waitpdu_len, blocked, purged>>
      /\ UNCHANGED <<fd, old_fd, is_connected, inbuf, dead>>
    BY <1>2 DEF queues, socket
<1>4. pollout' \in BOOLEAN
    BY <1>2, Zenon
<1>5. TypeS'
    BY <1>1, <1>2, <1>3, <1>4 DEF TypeS
<1>6. Service'
    BY <1>1, <1>2, <1>3 DEF Service, rpc_get_fd, network
<1> QED
    BY <1>2, <1>3, <1>5, <1>6, SameQ, SameN, Kept

LEMMA RequeueIInv ==
    ASSUME IInv, rpc_reconnect_requeue
    PROVE  IInv'
<1>1. /\ TypeQ /\ TypeS /\ TypeN /\ Queues /\ Service
    BY Parts
<1>2. /\ pc = "requeue" /\ dead = "no" /\ rpc_connect_sockaddr_async
      /\ written' = 0 /\ outqueue' = <<>> /\ waitpdu' = Empty /\ waitpdu_len' = 0
      /\ purged' = Reverse(Chain([i \in 1 .. HASHES |-> waitpdu[i - 1]])) \o outqueue
      /\ pc' = "purge" /\ pollout' = FALSE
      /\ UNCHANGED <<xid, blocked, inbuf, network, dead>>
    BY DEF rpc_reconnect_requeue
<1>3. old_fd' = fd /\ fd' = fd + 1 /\ is_connected' = FALSE
    BY <1>2 DEF rpc_connect_sockaddr_async
<1>4. Placed(outqueue, waitpdu, <<>>, blocked)
    <2>1. purged = <<>> /\ Requests = blocked
        BY <1>1, <1>2 DEF Queues, Service
    <2> QED
        BY <1>1, <2>1 DEF Queues
<1>5. Placed(outqueue', waitpdu', purged', blocked') /\ In(waitpdu') = {}
    BY <1>2, <1>4, PlaceRequeued
<1>6. waitpdu_len' = Cardinality(In(waitpdu'))
    BY <1>2, <1>5, FS_EmptySet
<1>7. Queues'
    <2>1. blocked' = Range(outqueue') \cup In(waitpdu') \cup Range(purged')
        BY <1>5 DEF Placed
    <2> QED
        BY <1>5, <1>6, <2>1 DEF Queues, Requests
<1>8. TypeQ'
    <2>1. blocked' \in SUBSET Xid /\ Cardinality(blocked') <= MaxCalls /\ xid' \in Xid
        BY <1>1, <1>2 DEF TypeQ
    <2>2. waitpdu_len' \in 0 .. MaxCalls /\ written' \in 0 .. RequestLen - 1
        BY <1>2, RpcAssumption
    <2>3. /\ outqueue' \in Seq(Xid) /\ purged' \in Seq(Xid)
          /\ waitpdu' \in [0 .. HASHES - 1 -> Seq(Xid)]
        BY <1>5 DEF Placed, Hash
    <2> QED
        BY <2>1, <2>2, <2>3 DEF TypeQ
<1>9. pollout' \in BOOLEAN /\ is_connected' \in BOOLEAN
    BY <1>2, <1>3, Zenon
<1>10. fd \in Nat /\ (fd = Mounted \/ fd = Mounted + 1)
    BY <1>1, <1>2 DEF Service, TypeS, rpc_get_fd, Mounted
<1>11. fd' \in Mounted .. Mounted + 2 /\ old_fd' \in 0 .. fd' - 1 /\ fd' # Mounted
       /\ old_fd' = fd' - 1
    BY <1>3, <1>10 DEF Mounted
<1>12. TypeS'
    BY <1>1, <1>2, <1>9, <1>11, Zenon DEF TypeS
<1>13. UNCHANGED <<hup, EV_WR, tcpq_out>>
    BY <1>2 DEF network
<1>14. Service'
    BY <1>1, <1>2, <1>11, <1>13 DEF Service
<1> QED
    BY <1>2, <1>7, <1>8, <1>12, <1>14, SameN, Kept

LEMMA PurgeIInv ==
    ASSUME IInv, rpc_purge_all_pdus
    PROVE  IInv'
<1>1. /\ TypeQ /\ TypeS /\ TypeN /\ Queues /\ Service /\ TypeOK
    BY Parts
<1>2. /\ pc = "purge" /\ dead = "no" /\ purged # <<>> /\ callback(Head(purged))
      /\ purged' = Tail(purged)
      /\ UNCHANGED <<written, waitpdu, waitpdu_len, inbuf, pollout, pc, socket, network>>
    BY DEF rpc_purge_all_pdus
<1>3. UNCHANGED <<fd, old_fd, is_connected, hup, EV_WR, tcpq_out>>
    BY <1>2 DEF socket, network
<1>4. Placed(outqueue, waitpdu, purged, blocked) /\ waitpdu_len' = Cardinality(In(waitpdu'))
    BY <1>1, <1>2 DEF Queues
<1>5. Placed(outqueue, waitpdu', purged', blocked \ {Head(purged)}) /\ Head(purged) \in blocked
    BY <1>2, <1>4, PlaceFailed
<1>6. Queues' /\ TypeQ' /\ dead' \in {"no", "exit"}
    BY <1>1, <1>2, <1>4, <1>5, CalledBack
<1>7. TypeS'
    BY <1>1, <1>2, <1>3 DEF TypeS
<1>8. Service'
    BY <1>1, <1>2, <1>3 DEF Service
<1> QED
    BY <1>2, <1>6, <1>7, <1>8, SameN, Kept

LEMMA PurgeEndIInv ==
    ASSUME IInv, rpc_purge_end
    PROVE  IInv'
<1>1. /\ TypeQ /\ TypeS /\ TypeN /\ Queues /\ Service
    BY Parts
<1>2. /\ pc = "purge" /\ dead = "no" /\ purged = <<>> /\ pc' = "idle"
      /\ dead' = IF outqueue = <<>> THEN "no" ELSE "assert"
      /\ UNCHANGED <<queues, inbuf, pollout, purged, socket, network>>
    BY DEF rpc_purge_end
<1>3. UNCHANGED <<xid, outqueue, written, waitpdu, waitpdu_len, blocked, purged>>
      /\ UNCHANGED <<fd, old_fd, is_connected, inbuf, pollout>>
    BY <1>2 DEF queues, socket
<1>4. dead' \in {"no", "exit", "assert"}
    BY <1>2
<1>5. TypeS'
    BY <1>1, <1>2, <1>3 DEF TypeS
<1>6. Service'
    BY <1>1, <1>2, <1>3 DEF Service, rpc_get_fd, network
<1> QED
    BY <1>2, <1>3, <1>4, <1>5, <1>6, SameQ, SameN, Kept

\* A step of the network leaves the queues and the service loop alone.
LEMMA NetworkIInv ==
    ASSUME IInv, dead = "no", UNCHANGED <<queues, service, socket, dead>>, TypeN',
           hup => hup', EV_WR' \/ tcpq_out' # <<>>
    PROVE  IInv'
<1>1. /\ TypeQ /\ TypeS /\ TypeN /\ Queues /\ Service
    BY Parts
<1>2. UNCHANGED <<xid, outqueue, written, waitpdu, waitpdu_len, blocked, purged>>
      /\ UNCHANGED <<fd, old_fd, is_connected, inbuf, pollout, pc>>
    BY DEF queues, socket, service
<1>3. TypeS'
    BY <1>1, <1>2 DEF TypeS
<1>4. Service'
    BY <1>1, <1>2 DEF Service, rpc_get_fd
<1> QED
    BY <1>1, <1>2, <1>3, <1>4, SameQ, Kept DEF IInv, TypeOK

LEMMA AckIInv ==
    ASSUME IInv, tcp_ack
    PROVE  IInv'
<1>1. TypeN /\ Service
    BY Parts
<1>2. PICK n \in 1 .. Len(tcpq_out) :
          /\ Open
          /\ tcpq_out' = SubSeq(tcpq_out, n + 1, Len(tcpq_out))
          /\ EV_WR' = TRUE
          /\ server' = server \cup {tcpq_out[i] : i \in {j \in 1 .. n : (part + j) % RequestLen = 0}}
          /\ part' = (part + n) % RequestLen
          /\ UNCHANGED <<queues, service, socket, tcpq_in, coming, remote_closed, hup, dead>>
    BY DEF tcp_ack
<1>3. /\ tcpq_out \in Seq(Xid) /\ Len(tcpq_out) \in Nat /\ Len(tcpq_out) <= MaxSize
      /\ MaxSize \in Nat /\ RequestLen \in Nat \ {0} /\ part \in Nat /\ server \subseteq Xid
    BY <1>1, RpcAssumption DEF TypeN
<1>4. tcpq_out' \in Seq(Xid) /\ Len(tcpq_out') <= MaxSize
    <2>1. n + 1 \in 1 .. Len(tcpq_out) + 1 /\ Len(tcpq_out) \in (n + 1) - 1 .. Len(tcpq_out)
        BY <1>3
    <2>2. tcpq_out' \in Seq(Xid) /\ Len(tcpq_out') = (Len(tcpq_out) - (n + 1)) + 1
        BY <1>2, <1>3, <2>1, SubSeqFacts
    <2> QED
        BY <1>3, <2>2
<1>5. part' \in 0 .. RequestLen - 1
    BY <1>2, <1>3
<1>6. server' \subseteq Xid
    <2>1. \A i \in 1 .. n : tcpq_out[i] \in Xid
        BY <1>3
    <2> QED
        BY <1>2, <1>3, <2>1
<1>7. EV_WR' \in BOOLEAN
    BY <1>2, Zenon
<1>8. TypeN'
    BY <1>1, <1>2, <1>4, <1>5, <1>6, <1>7 DEF TypeN
<1> QED
    BY <1>2, <1>8, NetworkIInv DEF Open

LEMMA ReplyIInv ==
    ASSUME IInv, NEW x \in Xid, Reply(x)
    PROVE  IInv'
<1>1. TypeN /\ Service
    BY Parts
<1>2. /\ Open /\ server' = server \ {x}
      /\ UNCHANGED <<queues, service, socket, tcpq_out, EV_WR, part, remote_closed, hup, dead>>
    BY DEF Reply
<1>3. PICK n \in 1 .. ReplyLen : tcpq_in' = tcpq_in \o Units(x, n)
                                 /\ coming' = Units(x, ReplyLen - n)
    BY DEF Reply
<1>4. n \in Nat /\ ReplyLen - n \in Nat
    BY RpcAssumption
<1>5. \A k \in Nat : Units(x, k) \in Seq(Xid)
    BY DEF Units
<1>6. tcpq_in' \in Seq(Xid) /\ coming' \in Seq(Xid)
    BY <1>1, <1>3, <1>4, <1>5, ConcatLen DEF TypeN
<1>7. TypeN'
    BY <1>1, <1>2, <1>6 DEF TypeN
<1> QED
    BY <1>1, <1>2, <1>7, NetworkIInv DEF Open, Service

LEMMA DataInIInv ==
    ASSUME IInv, tcp_data_in
    PROVE  IInv'
<1>1. TypeN /\ Service
    BY Parts
<1>2. /\ Open
      /\ UNCHANGED <<queues, service, socket, tcpq_out, EV_WR, part, server, remote_closed,
                     hup, dead>>
    BY DEF tcp_data_in
<1>3. PICK n \in 1 .. Len(coming) : tcpq_in' = tcpq_in \o SubSeq(coming, 1, n)
                                    /\ coming' = SubSeq(coming, n + 1, Len(coming))
    BY Zenon DEF tcp_data_in
<1>4. coming \in Seq(Xid) /\ Len(coming) \in Nat /\ tcpq_in \in Seq(Xid)
    BY <1>1 DEF TypeN
<1>5. /\ 1 \in 1 .. Len(coming) + 1 /\ n \in 1 - 1 .. Len(coming)
      /\ n + 1 \in 1 .. Len(coming) + 1 /\ Len(coming) \in (n + 1) - 1 .. Len(coming)
    BY <1>4
<1>6. SubSeq(coming, 1, n) \in Seq(Xid) /\ coming' \in Seq(Xid)
    BY <1>3, <1>4, <1>5, SubSeqFacts
<1>7. tcpq_in' \in Seq(Xid)
    BY <1>3, <1>4, <1>6, ConcatLen
<1>8. TypeN'
    BY <1>1, <1>2, <1>6, <1>7 DEF TypeN
<1> QED
    BY <1>1, <1>2, <1>8, NetworkIInv DEF Open, Service

LEMMA CloseIInv ==
    ASSUME IInv, tcp_closewait
    PROVE  IInv'
<1>1. TypeN /\ Service
    BY Parts
<1>2. /\ Open
      /\ \/ hup' = TRUE /\ UNCHANGED remote_closed
         \/ remote_closed' = TRUE /\ UNCHANGED hup
      /\ UNCHANGED <<queues, service, socket, tcpq_out, EV_WR, tcpq_in, part, server,
                     coming, dead>>
    BY DEF tcp_closewait
<1>3. hup \in BOOLEAN /\ remote_closed \in BOOLEAN
    BY <1>1 DEF TypeN
<1>4. hup' \in BOOLEAN /\ remote_closed' \in BOOLEAN /\ (hup => hup')
    BY <1>2, <1>3, Zenon
<1>5. TypeN'
    BY <1>1, <1>2, <1>4 DEF TypeN
<1> QED
    BY <1>1, <1>2, <1>4, <1>5, NetworkIInv DEF Open, Service

LEMMA NextIInv == IInv /\ [Next]_vars => IInv'
<1>1. ASSUME IInv, UNCHANGED vars
      PROVE  IInv'
    <2>1. TypeOK'
        BY <1>1 DEF IInv, TypeOK, vars, queues, service, socket, network
    <2>2. Queues'
        BY <1>1 DEF IInv, Queues, Requests, Placed, In, vars, queues, service, socket, network
    <2>3. Service'
        BY <1>1 DEF IInv, Service, rpc_get_fd, vars, queues, service, socket, network
    <2> QED
        BY <2>1, <2>2, <2>3 DEF IInv
<1>2. ASSUME IInv, Poll
      PROVE  IInv'
    BY <1>2, PollIInv, ReadIInv, ProcessIInv, WriteIInv, ServiceEndIInv, RequeueIInv,
       PurgeIInv, PurgeEndIInv DEF Poll
<1>3. ASSUME IInv, Next
      PROVE  IInv'
    BY <1>2, <1>3, IssueIInv, AckIInv, DataInIInv, CloseIInv, ReplyIInv DEF Next
<1> QED
    BY <1>1, <1>3

LEMMA Inductive == Spec => []IInv
BY InitIInv, NextIInv, PTL DEF Spec

-----------------------------------------------------------------------------
\* For any number of xids, buckets, coroutines and units, whenever the
\* connection breaks: the request of a coroutine that waits is in exactly one
\* queue of libnfs, no other request is in any, and waitpdu_len counts
\* waitpdu.  So rpc_process_pdu, rpc_reconnect_requeue and rpc_purge_all_pdus
\* call each callback once.
THEOREM InOnePlace == Spec => []OnePlace
<1>1. IInv => OnePlace
    <2> SUFFICES ASSUME IInv
                 PROVE  OnePlace
        OBVIOUS
    <2>1. TypeOK /\ Queues
        BY DEF IInv
    <2>2. Placed(outqueue, waitpdu, purged, Requests) /\ Hash = DOMAIN waitpdu
        BY <2>1 DEF Queues, TypeOK, Hash
    <2>3. Unanswered = In(waitpdu)
        BY <2>2 DEF Unanswered, In
    <2>4. \A s \in {outqueue, purged} \cup Range(waitpdu) : IsInjective(s)
        BY <2>2 DEF Placed, Range
    <2>5. \A g, h \in Hash : g = h \/ Range(waitpdu[g]) \cap Range(waitpdu[h]) = {}
        BY <2>2 DEF Placed
    <2>6. /\ Range(outqueue) \cap In(waitpdu) = {}
          /\ Range(purged) \cap (Range(outqueue) \cup In(waitpdu)) = {}
          /\ dead = "no" => blocked = Range(outqueue) \cup In(waitpdu) \cup Range(purged)
          /\ waitpdu_len = Cardinality(In(waitpdu))
        BY <2>1, <2>2 DEF Placed, Queues, Requests
    <2> QED
        BY <2>1, <2>2, <2>3, <2>4, <2>5, <2>6 DEF OnePlace
<1> QED
    BY <1>1, Inductive, PTL

\* No wakeup is lost: pico_sendto clears EV_WR only when it leaves something
\* in the send queue whose acknowledgement sets it again.
THEOREM NoWakeupLost == Spec => []WakeupKept
<1>1. IInv => WakeupKept
    BY DEF IInv, Service, WakeupKept
<1> QED
    BY <1>1, Inductive, PTL

-----------------------------------------------------------------------------
(* The callers see NfsCalls *)

Ended == dead # "no" \/ hup \/ remote_closed \/ fd # Mounted

\* A step that leaves the waiting coroutines alone is none of NfsCalls, or
\* the end.
LEMMA Unseen ==
    ASSUME UNCHANGED blocked, Ended => Ended'
    PROVE  [Calls!Next]_(Calls!vars)
<1>1. Ended \in BOOLEAN /\ Ended' \in BOOLEAN
    BY Zenon DEF Ended
<1>2. CASE Ended' = Ended
    BY <1>2 DEF Calls!vars, Ended
<1>3. CASE ~Ended /\ Ended' = TRUE
    BY <1>3 DEF Calls!Next, Calls!End, Ended
<1> QED
    BY <1>1, <1>2, <1>3, Zenon

\* A callback answers its call.
LEMMA Answers ==
    ASSUME TypeOK, NEW x \in blocked, callback(x), dead = "no",
           UNCHANGED <<hup, remote_closed, fd>>
    PROVE  [Calls!Next]_(Calls!vars)
<1>1. CASE dead' = "exit" /\ NoCall(blocked)
    <2>1. blocked' = blocked /\ Ended'
        BY <1>1 DEF NoCall, Ended
    <2> QED
        BY <2>1, Unseen
<1>2. CASE UNCHANGED dead /\ (NoCall(blocked \ {x}) \/ rpc_queue_pdu(blocked \ {x}))
    <2>1. Ended' = Ended
        BY <1>2 DEF Ended
    <2>2. x \in Xid /\ xid \in Xid
        BY DEF TypeOK
    <2>3. \/ blocked' = blocked \ {x}
          \/ xid \notin blocked /\ blocked' = (blocked \ {x}) \cup {xid}
        BY <1>2 DEF NoCall, rpc_queue_pdu
    <2>4. Calls!Answer(x)
        BY <2>1, <2>2, <2>3 DEF Calls!Answer, Ended
    <2> QED
        BY <2>2, <2>4 DEF Calls!Next
<1> QED
    BY <1>1, <1>2 DEF callback

LEMMA PollSim ==
    ASSUME IInv, Poll
    PROVE  [Calls!Next]_(Calls!vars)
<1>1. TypeOK /\ Queues /\ Service
    BY Parts
<1>2. ASSUME UNCHANGED <<queues, socket, network>>, dead = "no"
      PROVE  [Calls!Next]_(Calls!vars)
    <2>1. UNCHANGED blocked /\ (Ended => Ended')
        BY <1>2 DEF queues, socket, network, Ended
    <2> QED
        BY <2>1, Unseen
<1>3. CASE nfslib_poll \/ rpc_service_end \/ rpc_purge_end
    BY <1>2, <1>3 DEF nfslib_poll, rpc_service_end, rpc_purge_end
<1>4. CASE rpc_read_from_socket
    <2>1. UNCHANGED <<blocked, fd, remote_closed, dead>>
        BY <1>4 DEF rpc_read_from_socket, queues, socket
    <2>2. hup => hup'
        BY <1>4 DEF rpc_read_from_socket, recv
    <2> QED
        BY <2>1, <2>2, Unseen DEF Ended
<1>5. CASE rpc_process_pdu
    <2>1. UNCHANGED <<hup, remote_closed, fd>> /\ dead = "no" /\ pc = "reply"
        BY <1>5 DEF rpc_process_pdu, network, socket
    <2>2. PICK x \in Xid : x = inbuf[2]
        BY <1>1, <2>1, RpcAssumption DEF TypeOK, Service
    <2>3. CASE x \in Range(waitpdu[rpc_hash_xid(x)])
        <3>1. callback(x)
            BY <1>5, <2>2, <2>3 DEF rpc_process_pdu
        <3>2. Placed(outqueue, waitpdu, purged, blocked)
            BY <1>1, <2>1 DEF Queues
        <3>3. x \in blocked
            BY <2>3, <3>2, InBucket, InXid, HashFacts
        <3> QED
            BY <1>1, <2>1, <3>1, <3>3, Answers
    <2>4. CASE x \notin Range(waitpdu[rpc_hash_xid(x)])
        <3>1. UNCHANGED <<blocked, dead>>
            BY <1>5, <2>2, <2>4 DEF rpc_process_pdu, NoCall
        <3> QED
            BY <2>1, <3>1, Unseen DEF Ended
    <2> QED
        BY <2>3, <2>4
<1>6. CASE rpc_write_to_socket
    <2>1. UNCHANGED <<blocked, hup, remote_closed, fd, dead>>
        BY <1>6 DEF rpc_write_to_socket, socket
    <2> QED
        BY <2>1, Unseen DEF Ended
<1>7. CASE rpc_reconnect_requeue
    <2>1. UNCHANGED <<blocked, hup>> /\ hup
        BY <1>1, <1>7 DEF rpc_reconnect_requeue, network, Service
    <2> QED
        BY <2>1, Unseen DEF Ended
<1>8. CASE rpc_purge_all_pdus
    <2>1. UNCHANGED <<hup, remote_closed, fd>> /\ dead = "no" /\ purged # <<>>
          /\ callback(Head(purged))
        BY <1>8 DEF rpc_purge_all_pdus, network, socket
    <2>2. Placed(outqueue, waitpdu, purged, blocked)
        BY <1>1, <2>1 DEF Queues
    <2>3. Head(purged) \in blocked
        BY <2>1, <2>2, PlaceFailed, Zenon
    <2> QED
        BY <1>1, <2>1, <2>3, Answers
<1> QED
    BY <1>3, <1>4, <1>5, <1>6, <1>7, <1>8 DEF Poll

LEMMA NextSim ==
    ASSUME IInv, Next
    PROVE  [Calls!Next]_(Calls!vars)
<1>1. CASE Poll
    BY <1>1, PollSim
<1>2. CASE Issue
    <2>1. xid \in Xid
        BY DEF IInv, TypeOK
    <2>2. /\ xid \notin blocked /\ blocked' = blocked \cup {xid}
          /\ UNCHANGED <<hup, remote_closed, fd, dead>>
        BY <1>2 DEF Issue, rpc_queue_pdu, socket, network
    <2>3. Calls!Issue(xid)
        BY <2>2 DEF Calls!Issue
    <2> QED
        BY <2>1, <2>3 DEF Calls!Next
<1>3. CASE tcp_ack \/ tcp_data_in \/ tcp_closewait \/ \E x \in Xid : Reply(x)
    <2>1. UNCHANGED <<blocked, fd, dead>> /\ ~hup /\ ~remote_closed
        BY <1>3, Zenon DEF tcp_ack, tcp_data_in, tcp_closewait, Reply, Open, queues, socket
    <2> QED
        BY <2>1, Unseen DEF Ended
<1> QED
    BY <1>1, <1>2, <1>3 DEF Next

\* Every step of libnfs and of the network is a step its callers expect: a
\* callback is called for a call that was asked, once, and the coroutine it
\* resumes may ask the next; nothing else is seen of a reply to no request, of
\* a reconnection or of a purge.
THEOREM SafeCalls == Spec => Calls!Safety
<1>1. Init => Calls!Init
    BY DEF Init, Calls!Init
<1>2. IInv /\ [Next]_vars => [Calls!Next]_(Calls!vars)
    <2>1. ASSUME UNCHANGED vars
          PROVE  UNCHANGED Calls!vars
        BY <2>1 DEF vars, queues, service, socket, network, Calls!vars
    <2> QED
        BY <2>1, NextSim
<1> QED
    BY <1>1, <1>2, Inductive, PTL DEF Spec, Calls!Safety

-----------------------------------------------------------------------------
(* The streams of the connection *)

LEMMA Multiple ==
    ASSUME NEW R \in Nat \ {0}, NEW p \in Int, NEW q \in Int,
           NEW a \in 0 .. R - 1, NEW b \in 0 .. R - 1, R * p + a = R * q + b
    PROVE  p = q /\ a = b
<1>1. CASE p > q
    <2>1. PICK d \in Nat : p = q + d /\ d >= 1
        BY <1>1
    <2>2. R * p = R * q + R * d
        BY <2>1
    <2>3. R * d >= R
        BY <2>1
    <2> QED
        BY <2>2, <2>3
<1>2. CASE p < q
    <2>1. PICK d \in Nat : q = p + d /\ d >= 1
        BY <1>2
    <2>2. R * q = R * p + R * d
        BY <2>1
    <2>3. R * d >= R
        BY <2>1
    <2> QED
        BY <2>2, <2>3
<1> QED
    BY <1>1, <1>2

LEMMA Divided ==
    ASSUME NEW R \in Nat \ {0}, NEW m \in Nat
    PROVE  m \div R \in Nat /\ m % R \in 0 .. R - 1 /\ m = R * (m \div R) + (m % R)
OBVIOUS

LEMMA ModIs ==
    ASSUME NEW R \in Nat \ {0}, NEW q \in Int, NEW a \in 0 .. R - 1, R * q + a \in Nat
    PROVE  (R * q + a) % R = a
<1>1. PICK m \in Nat : m = R * q + a
    OBVIOUS
<1>2. m % R \in 0 .. R - 1 /\ m \div R \in Nat /\ m = R * (m \div R) + (m % R)
    BY Divided, Zenon
<1>3. PICK p \in Int, b \in 0 .. R - 1 : p = m \div R /\ b = m % R
    BY <1>2
<1>4. R * p + b = R * q + a
    BY <1>1, <1>2, <1>3
<1>5. b = a
    BY <1>4, Multiple
<1> QED
    BY <1>1, <1>3, <1>5

\* Counting on in a record.
LEMMA ModAdd ==
    ASSUME NEW R \in Nat \ {0}, NEW m \in Nat, NEW k \in Nat
    PROVE  /\ (m + k) % R = ((m % R) + k) % R
           /\ (m % R) + k < R => (m + k) % R = (m % R) + k
           /\ (m % R) + k = R => (m + k) % R = 0
<1>1. PICK q \in Nat, a \in 0 .. R - 1 : m = R * q + a /\ m % R = a
    BY Divided, Zenon
<1>2. PICK p \in Nat, b \in 0 .. R - 1 : a + k = R * p + b /\ (a + k) % R = b
    <2>1. a + k \in Nat
        OBVIOUS
    <2> QED
        BY <2>1, Divided, Zenon
<1>3. m + k = R * (q + p) + b
    <2>1. R * (q + p) = R * q + R * p
        OBVIOUS
    <2> QED
        BY <1>1, <1>2, <2>1
<1>4. (m + k) % R = b
    <2>1. R * (q + p) + b \in Nat /\ q + p \in Int
        BY <1>3
    <2> QED
        BY <1>3, <2>1, ModIs, Zenon
<1>5. ASSUME a + k < R
      PROVE  b = a + k
    <2>1. R * 0 = 0 /\ a + k \in 0 .. R - 1
        BY <1>5
    <2>2. R * p + b = R * 0 + (a + k)
        BY <1>2, <2>1
    <2> QED
        BY <2>1, <2>2, Multiple
<1>6. ASSUME a + k = R
      PROVE  b = 0
    <2>1. R * 1 = R
        OBVIOUS
    <2>2. R * p + b = R * 1 + 0
        BY <1>2, <1>6, <2>1
    <2>3. 0 \in 0 .. R - 1 /\ 1 \in Int
        OBVIOUS
    <2> QED
        BY <2>2, <2>3, Multiple
<1> QED
    BY <1>1, <1>2, <1>4, <1>5, <1>6

\* The replies in the stream s: each starts where the one before ends, is
\* ReplyLen units long, and no two have an xid.
Starts(s, i) == i \in 1 .. Len(s) /\ (i = 1 \/ s[i - 1] # s[i])
Runs(s) ==
    /\ \A i, j \in 1 .. Len(s) : i <= j /\ s[i] = s[j] => j - i < ReplyLen
    /\ \A i \in 1 .. Len(s) : Starts(s, i) =>
          \A k \in 0 .. ReplyLen - 1 : i + k \in 1 .. Len(s) /\ s[i + k] = s[i]

\* What has been read of the first reply is of one xid.
LEMMA FirstReply ==
    ASSUME NEW s \in Seq(Xid), Runs(s), NEW n \in 1 .. Len(s), n <= ReplyLen
    PROVE  s[n] = s[1] /\ ReplyLen <= Len(s)
<1>1. Len(s) \in Nat /\ ReplyLen \in Nat \ {0, 1} /\ 1 \in 1 .. Len(s)
    BY RpcAssumption
<1>2. Starts(s, 1)
    BY <1>1 DEF Starts
<1>3. \A k \in 0 .. ReplyLen - 1 : 1 + k \in 1 .. Len(s) /\ s[1 + k] = s[1]
    BY <1>1, <1>2 DEF Runs
<1>4. n - 1 \in 0 .. ReplyLen - 1 /\ 1 + (n - 1) = n
    BY <1>1
<1>5. ReplyLen - 1 \in 0 .. ReplyLen - 1 /\ 1 + (ReplyLen - 1) = ReplyLen
    BY <1>1
<1> QED
    BY <1>3, <1>4, <1>5

\* The first reply is taken off.
LEMMA RunsTaken ==
    ASSUME NEW s \in Seq(Xid), Runs(s), s # <<>>, NEW t \in Seq(Xid),
           Len(t) = Len(s) - ReplyLen, \A i \in 1 .. Len(t) : t[i] = s[i + ReplyLen]
    PROVE  Runs(t) /\ Range(t) = Range(s) \ {s[1]}
<1>1. /\ Len(s) \in Nat /\ Len(t) \in Nat /\ ReplyLen \in Nat \ {0, 1} /\ Len(s) >= 1
      /\ 1 \in 1 .. Len(s)
    BY RpcAssumption
<1>2. \A i \in 1 .. Len(s) : i <= ReplyLen => s[i] = s[1]
    BY FirstReply
<1>3. \A i \in 1 .. Len(t) : t[i] # s[1]
    <2> TAKE i \in 1 .. Len(t)
    <2>1. i + ReplyLen \in 1 .. Len(s) /\ 1 <= i + ReplyLen /\ (i + ReplyLen) - 1 >= ReplyLen
        BY <1>1
    <2>2. s[1] # s[i + ReplyLen]
        BY <1>1, <2>1 DEF Runs
    <2> QED
        BY <2>2
<1>4. Range(t) = Range(s) \ {s[1]}
    <2>1. \A x \in Range(t) : x \in Range(s) \ {s[1]}
        <3> TAKE x \in Range(t)
        <3>1. PICK i \in 1 .. Len(t) : x = t[i]
            BY DEF Range
        <3>2. i + ReplyLen \in 1 .. Len(s)
            BY <1>1
        <3> QED
            BY <1>3, <3>1, <3>2 DEF Range
    <2>2. \A x \in Range(s) \ {s[1]} : x \in Range(t)
        <3> TAKE x \in Range(s) \ {s[1]}
        <3>1. PICK i \in 1 .. Len(s) : x = s[i]
            BY DEF Range
        <3>2. i > ReplyLen
            BY <1>1, <1>2, <3>1
        <3>3. i - ReplyLen \in 1 .. Len(t) /\ (i - ReplyLen) + ReplyLen = i
            BY <1>1, <3>2
        <3>4. t[i - ReplyLen] = x
            BY <3>1, <3>3
        <3> QED
            BY <3>3, <3>4 DEF Range
    <2> QED
        BY <2>1, <2>2
<1>5. ASSUME NEW i \in 1 .. Len(t), NEW j \in 1 .. Len(t), i <= j, t[i] = t[j]
      PROVE  j - i < ReplyLen
    <2>1. /\ i + ReplyLen \in 1 .. Len(s) /\ j + ReplyLen \in 1 .. Len(s)
          /\ i + ReplyLen <= j + ReplyLen /\ s[i + ReplyLen] = s[j + ReplyLen]
        BY <1>1, <1>5
    <2>2. (j + ReplyLen) - (i + ReplyLen) < ReplyLen
        BY <2>1 DEF Runs
    <2> QED
        BY <1>1, <2>2
<1>6. ASSUME NEW i \in 1 .. Len(t), Starts(t, i), NEW k \in 0 .. ReplyLen - 1
      PROVE  i + k \in 1 .. Len(t) /\ t[i + k] = t[i]
    <2>1. i + ReplyLen \in 1 .. Len(s)
        BY <1>1
    <2>2. s[(i + ReplyLen) - 1] # s[i + ReplyLen]
        <3>1. CASE i = 1
            <4>1. (i + ReplyLen) - 1 = ReplyLen /\ ReplyLen \in 1 .. Len(s)
                BY <1>1, <3>1
            <4>2. s[ReplyLen] = s[1]
                BY <1>1, <1>2, <4>1
            <4> QED
                BY <1>3, <4>1, <4>2
        <3>2. CASE i # 1
            <4>1. i - 1 \in 1 .. Len(t) /\ (i - 1) + ReplyLen = (i + ReplyLen) - 1
                BY <1>1, <3>2
            <4>2. t[i - 1] # t[i]
                BY <1>6, <3>2 DEF Starts
            <4>3. t[i - 1] = s[(i - 1) + ReplyLen]
                BY <4>1
            <4> QED
                BY <4>1, <4>2, <4>3
        <3> QED
            BY <3>1, <3>2
    <2>3. Starts(s, i + ReplyLen)
        BY <2>1, <2>2 DEF Starts
    <2>4. (i + ReplyLen) + k \in 1 .. Len(s) /\ s[(i + ReplyLen) + k] = s[i + ReplyLen]
        BY <1>6, <2>1, <2>3 DEF Runs
    <2>5. i + k \in 1 .. Len(t) /\ (i + k) + ReplyLen = (i + ReplyLen) + k
        BY <1>1, <2>4
    <2>6. t[i + k] = s[(i + k) + ReplyLen]
        BY <2>5
    <2> QED
        BY <2>4, <2>5, <2>6
<1> QED
    BY <1>4, <1>5, <1>6 DEF Runs

\* A reply comes behind the others.
LEMMA RunsAdded ==
    ASSUME NEW s \in Seq(Xid), Runs(s), NEW x \in Xid, x \notin Range(s), NEW t \in Seq(Xid),
           Len(t) = Len(s) + ReplyLen, \A i \in 1 .. Len(s) : t[i] = s[i],
           \A i \in 1 .. Len(t) : i > Len(s) => t[i] = x
    PROVE  Runs(t) /\ Range(t) = Range(s) \cup {x}
<1>1. /\ Len(s) \in Nat /\ Len(t) \in Nat /\ ReplyLen \in Nat \ {0, 1}
    BY RpcAssumption
<1>2. \A i \in 1 .. Len(s) : s[i] # x /\ i \in 1 .. Len(t)
    BY <1>1 DEF Range
<1>3. Len(t) \in 1 .. Len(t) /\ Len(t) > Len(s) /\ t[Len(t)] = x
    BY <1>1
<1>4. Range(t) = Range(s) \cup {x}
    <2>1. \A y \in Range(t) : y \in Range(s) \cup {x}
        BY <1>1 DEF Range
    <2>2. \A y \in Range(s) : y \in Range(t)
        BY <1>1, <1>2 DEF Range
    <2>3. x \in Range(t)
        BY <1>3 DEF Range
    <2> QED
        BY <2>1, <2>2, <2>3
<1>5. ASSUME NEW i \in 1 .. Len(t), NEW j \in 1 .. Len(t), i <= j, t[i] = t[j]
      PROVE  j - i < ReplyLen
    <2>1. CASE j \in 1 .. Len(s)
        <3>1. i \in 1 .. Len(s) /\ s[i] = s[j]
            BY <1>1, <1>5, <2>1
        <3> QED
            BY <1>5, <2>1, <3>1 DEF Runs
    <2>2. CASE j > Len(s)
        <3>1. t[j] = x
            BY <2>2
        <3>2. i > Len(s)
            BY <1>1, <1>2, <1>5, <3>1
        <3> QED
            BY <1>1, <2>2, <3>2
    <2> QED
        BY <1>1, <2>1, <2>2
<1>6. ASSUME NEW i \in 1 .. Len(t), Starts(t, i), NEW k \in 0 .. ReplyLen - 1
      PROVE  i + k \in 1 .. Len(t) /\ t[i + k] = t[i]
    <2>1. CASE i \in 1 .. Len(s)
        <3>1. Starts(s, i)
            <4>1. CASE i = 1
                BY <2>1, <4>1 DEF Starts
            <4>2. CASE i # 1
                <5>1. i - 1 \in 1 .. Len(s) /\ t[i - 1] # t[i]
                    BY <1>1, <1>6, <2>1, <4>2 DEF Starts
                <5> QED
                    BY <2>1, <5>1 DEF Starts
            <4> QED
                BY <4>1, <4>2
        <3>2. i + k \in 1 .. Len(s) /\ s[i + k] = s[i]
            BY <1>6, <2>1, <3>1 DEF Runs
        <3> QED
            BY <1>2, <2>1, <3>2
    <2>2. CASE i > Len(s)
        <3>1. i = Len(s) + 1
            <4> SUFFICES ASSUME i > Len(s) + 1
                         PROVE  FALSE
                BY <1>1, <2>2
            <4>1. i - 1 \in 1 .. Len(t) /\ i - 1 > Len(s) /\ i # 1
                BY <1>1
            <4>2. t[i - 1] = x /\ t[i] = x
                BY <2>2, <4>1
            <4> QED
                BY <1>6, <4>1, <4>2 DEF Starts
        <3>2. i + k \in 1 .. Len(t) /\ i + k > Len(s)
            BY <1>1, <3>1
        <3> QED
            BY <2>2, <3>2
    <2> QED
        BY <1>1, <2>1, <2>2
<1> QED
    BY <1>4, <1>5, <1>6 DEF Runs

LEMMA ConcatAt ==
    ASSUME NEW S, NEW s \in Seq(S), NEW t \in Seq(S)
    PROVE  /\ s \o t \in Seq(S) /\ Len(s \o t) = Len(s) + Len(t)
           /\ \A i \in 1 .. Len(s) : (s \o t)[i] = s[i]
           /\ \A i \in 1 .. Len(t) : (s \o t)[Len(s) + i] = t[i]
<1>1. Len(s) \in Nat /\ Len(t) \in Nat
    OBVIOUS
<1>2. \A i \in 1 .. Len(t) : /\ Len(s) + i \in 1 .. Len(s) + Len(t)
                             /\ Len(s) + i > Len(s) /\ (Len(s) + i) - Len(s) = i
    BY <1>1
<1> QED
    BY <1>1, <1>2

\* Sequences of one length that agree at every place.
LEMMA SameSeq ==
    ASSUME NEW S, NEW s \in Seq(S), NEW t \in Seq(S), Len(s) = Len(t),
           \A i \in 1 .. Len(s) : s[i] = t[i]
    PROVE  s = t
OBVIOUS

\* Moving the cut between two parts of a stream.
LEMMA Cut ==
    ASSUME NEW s \in Seq(Xid), NEW t \in Seq(Xid), NEW n \in 0 .. Len(t)
    PROVE  (s \o SubSeq(t, 1, n)) \o SubSeq(t, n + 1, Len(t)) = s \o t
<1> DEFINE u == SubSeq(t, 1, n)
           v == SubSeq(t, n + 1, Len(t))
           a == s \o u
           b == a \o v
           c == s \o t
<1>1. Len(s) \in Nat /\ Len(t) \in Nat /\ n \in Nat
    OBVIOUS
<1>2. u \in Seq(Xid) /\ Len(u) = n /\ \A i \in 1 .. n : u[i] = t[i]
    <2>1. 1 \in 1 .. Len(t) + 1 /\ n \in 1 - 1 .. Len(t) /\ (n - 1) + 1 = n
        BY <1>1
    <2>2. /\ u \in Seq(Xid) /\ Len(u) = (n - 1) + 1
          /\ \A i \in 1 .. (n - 1) + 1 : u[i] = t[(1 + i) - 1]
        BY <2>1, SubSeqFacts
    <2>3. \A i \in 1 .. n : (1 + i) - 1 = i
        BY <1>1
    <2> HIDE DEF u
    <2> QED
        BY <2>1, <2>2, <2>3
<1>3. v \in Seq(Xid) /\ Len(v) = Len(t) - n /\ \A i \in 1 .. Len(t) - n : v[i] = t[n + i]
    <2>1. n + 1 \in 1 .. Len(t) + 1 /\ Len(t) \in (n + 1) - 1 .. Len(t)
          /\ (Len(t) - (n + 1)) + 1 = Len(t) - n
        BY <1>1
    <2>2. /\ v \in Seq(Xid) /\ Len(v) = (Len(t) - (n + 1)) + 1
          /\ \A i \in 1 .. (Len(t) - (n + 1)) + 1 : v[i] = t[((n + 1) + i) - 1]
        BY <2>1, SubSeqFacts, Zenon
    <2>3. \A i \in 1 .. Len(t) - n : ((n + 1) + i) - 1 = n + i
        BY <1>1
    <2> HIDE DEF v
    <2> QED
        BY <2>1, <2>2, <2>3
<1> HIDE DEF u, v
<1>4. /\ a \in Seq(Xid) /\ Len(a) = Len(s) + n
      /\ \A i \in 1 .. Len(s) : a[i] = s[i]
      /\ \A i \in 1 .. n : a[Len(s) + i] = u[i]
    <2>1. u \in Seq(Xid)
        BY <1>2
    <2>2. /\ a \in Seq(Xid) /\ Len(a) = Len(s) + Len(u)
          /\ \A i \in 1 .. Len(s) : a[i] = s[i]
          /\ \A i \in 1 .. Len(u) : a[Len(s) + i] = u[i]
        BY <2>1, ConcatAt
    <2> HIDE DEF a
    <2> QED
        BY <1>2, <2>2
<1> HIDE DEF a
<1>5. /\ b \in Seq(Xid) /\ Len(b) = Len(a) + Len(v)
      /\ \A i \in 1 .. Len(a) : b[i] = a[i]
      /\ \A i \in 1 .. Len(v) : b[Len(a) + i] = v[i]
    <2>1. a \in Seq(Xid) /\ v \in Seq(Xid)
        BY <1>3, <1>4
    <2> QED
        BY <2>1, ConcatAt
<1>6. /\ c \in Seq(Xid) /\ Len(c) = Len(s) + Len(t)
      /\ \A i \in 1 .. Len(s) : c[i] = s[i]
      /\ \A i \in 1 .. Len(t) : c[Len(s) + i] = t[i]
    BY ConcatAt
<1> HIDE DEF b, c
<1>7. Len(b) = Len(c)
    BY <1>1, <1>3, <1>4, <1>5, <1>6
<1>10. Len(b) \in Nat
    BY <1>1, <1>6, <1>7
<1>8. \A i \in 1 .. Len(b) : b[i] = c[i]
    <2> TAKE i \in 1 .. Len(b)
    <2>1. CASE i \in 1 .. Len(s)
        <3>1. i \in 1 .. Len(a)
            BY <1>1, <1>4, <2>1
        <3> QED
            BY <1>4, <1>5, <1>6, <2>1, <3>1
    <2>2. CASE i \in Len(s) + 1 .. Len(s) + n
        <3>1. i - Len(s) \in 1 .. n /\ i = Len(s) + (i - Len(s)) /\ i \in 1 .. Len(a)
              /\ i - Len(s) \in 1 .. Len(t)
            BY <1>1, <1>4, <2>2
        <3>2. a[Len(s) + (i - Len(s))] = u[i - Len(s)] /\ u[i - Len(s)] = t[i - Len(s)]
              /\ c[Len(s) + (i - Len(s))] = t[i - Len(s)] /\ b[i] = a[i]
            BY <1>2, <1>4, <1>5, <1>6, <3>1
        <3> QED
            BY <3>1, <3>2
    <2>3. CASE i > Len(s) + n
        <3>1. PICK k \in Nat : k = i - (Len(s) + n)
            <4>1. i \in Nat
                BY <1>10
            <4>2. i - (Len(s) + n) \in Nat
                BY <1>1, <2>3, <4>1
            <4> QED
                BY <4>2, Zenon
        <3>2. /\ k \in 1 .. Len(v) /\ i = Len(a) + k /\ k \in 1 .. Len(t) - n
              /\ n + k \in 1 .. Len(t) /\ i = Len(s) + (n + k)
            <4>1. i \in Nat /\ i <= Len(s) + Len(t) /\ Len(v) = Len(t) - n /\ Len(a) = Len(s) + n
                BY <1>3, <1>4, <1>6, <1>7, <1>10
            <4> QED
                BY <1>1, <2>3, <3>1, <4>1
        <3>3. b[Len(a) + k] = v[k] /\ v[k] = t[n + k] /\ c[Len(s) + (n + k)] = t[n + k]
            BY <1>3, <1>5, <1>6, <3>2
        <3> QED
            BY <3>2, <3>3
    <2> QED
        BY <1>1, <2>1, <2>2, <2>3
<1>9. b = c
    BY <1>5, <1>6, <1>7, <1>8, SameSeq, Zenon
<1> QED
    BY <1>9, Zenon DEF a, b, c, u, v

\* The places in the send queue q, the server having k units of its first
\* request, where a request ends, and the requests that end there.
Ends(q, k) == {j \in 1 .. Len(q) : (k + j) % RequestLen = 0}
Whole(q, k) == {q[j] : j \in Ends(q, k)}
Apart(q, k) == \A i, j \in Ends(q, k) : q[i] = q[j] => i = j

\* r is q with n units of x behind it.
Longer(q, r, x, n) ==
    /\ r \in Seq(Xid) /\ Len(r) = Len(q) + n
    /\ \A i \in 1 .. Len(q) : r[i] = q[i]
    /\ \A i \in 1 .. Len(r) : i > Len(q) => r[i] = x

\* Units of request x are put behind the others, w of it being there.
Sending(q, k, w, n) ==
    /\ q \in Seq(Xid) /\ k \in Nat /\ w \in 0 .. RequestLen - 1 /\ n \in 0 .. RequestLen - w
    /\ (k + Len(q)) % RequestLen = w /\ Apart(q, k)

\* What the n units of request x that make r of q do to the requests in it.
Extended(q, k, w, n, x, r) ==
    /\ n < RequestLen - w => /\ Whole(r, k) = Whole(q, k)
                             /\ Apart(r, k) /\ (k + Len(r)) % RequestLen = w + n
    /\ n = RequestLen - w => /\ Whole(r, k) = Whole(q, k) \cup {x}
                             /\ x \notin Whole(q, k) => Apart(r, k)
                             /\ (k + Len(r)) % RequestLen = 0

LEMMA OutSent ==
    ASSUME NEW q, NEW k, NEW w, NEW n, Sending(q, k, w, n),
           NEW x \in Xid, NEW r, Longer(q, r, x, n)
    PROVE  Extended(q, k, w, n, x, r)
<1> SUFFICES /\ n < RequestLen - w => /\ Ends(r, k) = Ends(q, k) /\ Whole(r, k) = Whole(q, k)
                                      /\ Apart(r, k) /\ (k + Len(r)) % RequestLen = w + n
             /\ n = RequestLen - w => /\ Whole(r, k) = Whole(q, k) \cup {x}
                                      /\ x \notin Whole(q, k) => Apart(r, k)
                                      /\ (k + Len(r)) % RequestLen = 0
    BY DEF Extended
<1>1. /\ RequestLen \in Nat \ {0} /\ Len(q) \in Nat /\ Len(r) \in Nat
      /\ w \in Nat /\ n \in Nat /\ k + Len(q) \in Nat
    <2>1. RequestLen \in Nat \ {0}
        BY RpcAssumption
    <2>2. q \in Seq(Xid) /\ r \in Seq(Xid) /\ k \in Nat
        BY Zenon DEF Sending, Longer
    <2>3. Len(q) \in Nat /\ Len(r) \in Nat
        BY <2>2
    <2>4. w \in 0 .. RequestLen - 1 /\ n \in 0 .. RequestLen - w
        BY Zenon DEF Sending
    <2>5. w \in Nat /\ n \in Nat
        BY <2>1, <2>4
    <2> QED
        BY <2>1, <2>2, <2>3, <2>5
<1> USE DEF Sending, Longer
<1>2. \A i \in Nat : /\ w + i < RequestLen => (k + (Len(q) + i)) % RequestLen = w + i
                     /\ w + i = RequestLen => (k + (Len(q) + i)) % RequestLen = 0
    <2> TAKE i \in Nat
    <2>1. /\ w + i < RequestLen => ((k + Len(q)) + i) % RequestLen = w + i
          /\ w + i = RequestLen => ((k + Len(q)) + i) % RequestLen = 0
        BY <1>1, ModAdd, ZenonT(40)
    <2>2. (k + Len(q)) + i = k + (Len(q) + i)
        BY <1>1
    <2> QED
        BY <2>1, <2>2
<1>3. \A j \in 1 .. Len(q) : j \in 1 .. Len(r)
    BY <1>1
<1>4. \A j \in 1 .. Len(r) : j > Len(q) =>
        (j \in Ends(r, k) <=> n = RequestLen - w /\ j = Len(r))
    <2> TAKE j \in 1 .. Len(r)
    <2> HAVE j > Len(q)
    <2>1. PICK i \in Nat : j = Len(q) + i /\ i >= 1 /\ i <= n
        <3>1. j - Len(q) \in Nat /\ j = Len(q) + (j - Len(q)) /\ j - Len(q) >= 1 /\ j - Len(q) <= n
            BY <1>1
        <3> QED
            BY <3>1, Zenon
    <2>2. CASE w + i < RequestLen
        <3>1. (k + j) % RequestLen = w + i /\ w + i # 0
            <4>1. (k + (Len(q) + i)) % RequestLen = w + i
                BY <1>2, <2>2
            <4>2. w + i # 0
                BY <1>1, <2>1
            <4> QED
                BY <2>1, <4>1, <4>2
        <3>2. ~(n = RequestLen - w /\ j = Len(r))
            BY <1>1, <2>1, <2>2
        <3> QED
            BY <3>1, <3>2 DEF Ends
    <2>3. CASE w + i = RequestLen
        <3>1. (k + j) % RequestLen = 0
            BY <1>2, <2>1, <2>3
        <3>2. n = RequestLen - w /\ j = Len(r)
            BY <1>1, <2>1, <2>3
        <3> QED
            BY <3>1, <3>2 DEF Ends
    <2> QED
        BY <1>1, <2>1, <2>2, <2>3
<1>5. \A j \in 1 .. Len(q) : j \in Ends(r, k) <=> j \in Ends(q, k)
    BY <1>3 DEF Ends
<1>6. \A j \in Ends(q, k) : j \in 1 .. Len(q) /\ r[j] = q[j] /\ j \in Ends(r, k)
    BY <1>5 DEF Ends
<1>7. \A j \in Ends(r, k) : j \in 1 .. Len(r) /\ (j \in 1 .. Len(q) \/ j > Len(q))
    BY <1>1 DEF Ends
<1>8. ASSUME n < RequestLen - w
      PROVE  /\ Ends(r, k) = Ends(q, k) /\ Whole(r, k) = Whole(q, k)
             /\ Apart(r, k) /\ (k + Len(r)) % RequestLen = w + n
    <2>1. n # RequestLen - w /\ w + n < RequestLen
        BY <1>1, <1>8
    <2>2. Ends(r, k) = Ends(q, k)
        BY <1>4, <1>5, <1>6, <1>7, <2>1, Zenon
    <2>3. Whole(r, k) = Whole(q, k) /\ Apart(r, k)
        BY <1>6, <2>2 DEF Whole, Apart
    <2> QED
        BY <1>2, <2>1, <2>2, <2>3
<1>9. ASSUME n = RequestLen - w
      PROVE  /\ Whole(r, k) = Whole(q, k) \cup {x}
             /\ x \notin Whole(q, k) => Apart(r, k)
             /\ (k + Len(r)) % RequestLen = 0
    <2>1. n >= 1 /\ w + n = RequestLen /\ Len(r) > Len(q) /\ Len(r) \in 1 .. Len(r)
        BY <1>1, <1>9
    <2>2. r[Len(r)] = x /\ Len(r) \in Ends(r, k)
        BY <1>4, <1>9, <2>1
    <2>3. \A j \in Ends(r, k) : j \in Ends(q, k) \/ j = Len(r)
        BY <1>4, <1>5, <1>7
    <2>4. Whole(r, k) = Whole(q, k) \cup {x}
        BY <1>6, <2>2, <2>3 DEF Whole
    <2>5. ASSUME x \notin Whole(q, k)
          PROVE  Apart(r, k)
        BY <1>6, <2>2, <2>3, <2>5 DEF Whole, Apart
    <2> QED
        BY <1>2, <2>1, <2>4, <2>5
<1> QED
    BY <1>8, <1>9

\* The server acknowledges the first n units: it has all of the requests got,
\* and p units of the next.
Acked(q, k, n, r, p, got) ==
    /\ q \in Seq(Xid) /\ k \in Nat /\ n \in 0 .. Len(q) /\ Apart(q, k)
    /\ r \in Seq(Xid) /\ Len(r) = Len(q) - n /\ \A i \in 1 .. Len(r) : r[i] = q[n + i]
    /\ got = {q[i] : i \in {j \in 1 .. n : (k + j) % RequestLen = 0}}
    /\ p \in Nat /\ p = (k + n) % RequestLen
LEMMA OutAcked ==
    ASSUME NEW q, NEW k, NEW n, NEW r, NEW p, NEW got, Acked(q, k, n, r, p, got)
    PROVE  /\ Whole(r, p) \cup got = Whole(q, k) /\ Whole(r, p) \cap got = {}
           /\ Apart(r, p) /\ (p + Len(r)) % RequestLen = (k + Len(q)) % RequestLen
<1> USE DEF Acked
<1>1. RequestLen \in Nat \ {0} /\ Len(q) \in Nat /\ Len(r) \in Nat /\ n \in Nat /\ k + n \in Nat
    BY RpcAssumption
<1>2. \A i \in Nat : (p + i) % RequestLen = (k + (n + i)) % RequestLen
    <2> TAKE i \in Nat
    <2>1. ((k + n) + i) % RequestLen = (p + i) % RequestLen
        BY <1>1, ModAdd, Zenon
    <2>2. (k + n) + i = k + (n + i)
        BY <1>1
    <2> QED
        BY <2>1, <2>2
<1>3. \A j \in 1 .. Len(r) : /\ j \in Nat /\ n + j \in 1 .. Len(q) /\ n + j > n
                             /\ (j \in Ends(r, p) <=> n + j \in Ends(q, k))
    <2> TAKE j \in 1 .. Len(r)
    <2>1. j \in Nat /\ n + j \in 1 .. Len(q) /\ n + j > n
        BY <1>1
    <2> QED
        BY <1>2, <2>1, Zenon DEF Ends
<1>4. \A i \in 1 .. Len(q) : i > n => i - n \in 1 .. Len(r) /\ n + (i - n) = i
    BY <1>1
<1>5. \A i \in Ends(q, k) :
        \/ i \in 1 .. n /\ q[i] \in got
        \/ i - n \in Ends(r, p) /\ n + (i - n) = i /\ r[i - n] = q[i]
    <2> TAKE i \in Ends(q, k)
    <2>1. i \in 1 .. Len(q) /\ (k + i) % RequestLen = 0 /\ i \in Nat
        BY <1>1 DEF Ends
    <2>2. CASE i > n
        <3>1. i - n \in 1 .. Len(r) /\ n + (i - n) = i
            BY <1>4, <2>1, <2>2
        <3> QED
            BY <1>3, <3>1
    <2>3. CASE i <= n
        <3>1. i \in 1 .. n
            BY <1>1, <2>1, <2>3
        <3>2. i \in {j \in 1 .. n : (k + j) % RequestLen = 0}
            BY <2>1, <3>1
        <3>3. q[i] \in got
            BY <3>2
        <3> QED
            BY <3>1, <3>3
    <2> QED
        BY <1>1, <2>1, <2>2, <2>3
<1>6. \A j \in Ends(r, p) : j \in 1 .. Len(r) /\ n + j \in Ends(q, k) /\ r[j] = q[n + j] /\ n + j > n
    BY <1>3 DEF Ends
<1>7. \A x \in got : \E i \in Ends(q, k) : i <= n /\ x = q[i]
    BY <1>1 DEF Ends
<1>8. Whole(r, p) \cup got = Whole(q, k)
    <2>1. Whole(r, p) \subseteq Whole(q, k)
        BY <1>6 DEF Whole
    <2>2. got \subseteq Whole(q, k)
        BY <1>7, Zenon DEF Whole
    <2>3. \A i \in Ends(q, k) : q[i] \in Whole(r, p) \cup got
        BY <1>5 DEF Whole
    <2>4. Whole(q, k) \subseteq Whole(r, p) \cup got
        BY <2>3, Zenon DEF Whole
    <2> QED
        BY <2>1, <2>2, <2>4
<1>9. Whole(r, p) \cap got = {}
    <2> SUFFICES ASSUME NEW x \in got, x \in Whole(r, p)
                 PROVE  FALSE
        OBVIOUS
    <2>1. PICK j \in Ends(r, p) : x = r[j]
        BY DEF Whole
    <2>2. PICK i \in Ends(q, k) : i <= n /\ x = q[i]
        BY <1>7, Zenon
    <2>3. i = n + j
        BY <1>6, <2>1, <2>2, Zenon DEF Apart
    <2>4. i \in Nat
        BY <1>1 DEF Ends
    <2>5. n + j > n
        BY <1>6
    <2> QED
        BY <1>1, <2>2, <2>3, <2>4, <2>5
<1>10. Apart(r, p)
    <2> SUFFICES ASSUME NEW i \in Ends(r, p), NEW j \in Ends(r, p), r[i] = r[j]
                 PROVE  i = j
        BY DEF Apart
    <2>1. n + i = n + j
        BY <1>6 DEF Apart
    <2>2. i \in Nat /\ j \in Nat
        BY <1>1 DEF Ends
    <2> QED
        BY <1>1, <2>1, <2>2
<1>11. (p + Len(r)) % RequestLen = (k + Len(q)) % RequestLen
    <2>1. n + Len(r) = Len(q)
        BY <1>1
    <2> QED
        BY <1>1, <1>2, <2>1, Zenon
<1> QED
    BY <1>8, <1>9, <1>10, <1>11

LEMMA Assoc ==
    ASSUME NEW a \in Seq(Xid), NEW b \in Seq(Xid), NEW c \in Seq(Xid)
    PROVE  a \o (b \o c) = (a \o b) \o c
<1> DEFINE d == b \o c
           e == a \o b
           l == a \o d
           r == e \o c
<1>1. Len(a) \in Nat /\ Len(b) \in Nat /\ Len(c) \in Nat
    OBVIOUS
<1>2. /\ d \in Seq(Xid) /\ Len(d) = Len(b) + Len(c)
      /\ \A i \in 1 .. Len(b) : d[i] = b[i]
      /\ \A i \in 1 .. Len(c) : d[Len(b) + i] = c[i]
    BY ConcatAt
<1>3. /\ e \in Seq(Xid) /\ Len(e) = Len(a) + Len(b)
      /\ \A i \in 1 .. Len(a) : e[i] = a[i]
      /\ \A i \in 1 .. Len(b) : e[Len(a) + i] = b[i]
    BY ConcatAt
<1> HIDE DEF d, e
<1>4. /\ l \in Seq(Xid) /\ Len(l) = Len(a) + Len(d)
      /\ \A i \in 1 .. Len(a) : l[i] = a[i]
      /\ \A i \in 1 .. Len(d) : l[Len(a) + i] = d[i]
    <2>1. d \in Seq(Xid)
        BY <1>2
    <2> QED
        BY <2>1, ConcatAt
<1>5. /\ r \in Seq(Xid) /\ Len(r) = Len(e) + Len(c)
      /\ \A i \in 1 .. Len(e) : r[i] = e[i]
      /\ \A i \in 1 .. Len(c) : r[Len(e) + i] = c[i]
    <2>1. e \in Seq(Xid)
        BY <1>3
    <2> QED
        BY <2>1, ConcatAt
<1> HIDE DEF l, r
<1>6. Len(l) = Len(r)
    BY <1>1, <1>2, <1>3, <1>4, <1>5
<1>7. \A i \in 1 .. Len(l) : l[i] = r[i]
    <2> TAKE i \in 1 .. Len(l)
    <2>1. i \in Nat /\ i >= 1 /\ i <= (Len(a) + Len(b)) + Len(c)
        BY <1>1, <1>2, <1>4
    <2>2. CASE i <= Len(a)
        <3>1. i \in 1 .. Len(a) /\ i \in 1 .. Len(e)
            BY <1>1, <1>3, <2>1, <2>2
        <3> QED
            BY <1>3, <1>4, <1>5, <3>1
    <2>3. CASE i > Len(a) /\ i <= Len(a) + Len(b)
        <3>1. PICK k \in Nat : k = i - Len(a)
            BY <1>1, <2>1, <2>3
        <3>2. k \in 1 .. Len(b) /\ k \in 1 .. Len(d) /\ i = Len(a) + k /\ i \in 1 .. Len(e)
            BY <1>1, <1>2, <1>3, <2>1, <2>3, <3>1
        <3>3. l[Len(a) + k] = d[k] /\ d[k] = b[k] /\ e[Len(a) + k] = b[k] /\ r[i] = e[i]
            BY <1>2, <1>3, <1>4, <1>5, <3>2
        <3> QED
            BY <3>2, <3>3
    <2>4. CASE i > Len(a) + Len(b)
        <3>1. PICK k \in Nat : k = i - (Len(a) + Len(b))
            <4>1. i - (Len(a) + Len(b)) \in Nat
                BY <1>1, <2>1, <2>4
            <4> QED
                BY <4>1, Zenon
        <3>2. /\ k \in 1 .. Len(c) /\ Len(b) + k \in 1 .. Len(d) /\ i = Len(a) + (Len(b) + k)
              /\ i = Len(e) + k
            BY <1>1, <1>2, <1>3, <2>1, <2>4, <3>1
        <3>3. l[Len(a) + (Len(b) + k)] = d[Len(b) + k] /\ d[Len(b) + k] = c[k]
              /\ r[Len(e) + k] = c[k]
            BY <1>2, <1>4, <1>5, <3>2
        <3> QED
            BY <3>2, <3>3
    <2> QED
        BY <1>1, <2>1, <2>2, <2>3, <2>4
<1>8. l = r
    BY <1>4, <1>5, <1>6, <1>7, SameSeq
<1> QED
    BY <1>8 DEF l, r, d, e

\* The units of the replies that have left the server.
Stream == (inbuf \o tcpq_in) \o coming

\* Every request in waitpdu is on one side: in the send queue, with the
\* server, or among the replies.
Streams ==
    /\ (part + Len(tcpq_out)) % RequestLen = written
    /\ Apart(tcpq_out, part) /\ Runs(Stream)
    /\ Whole(tcpq_out, part) \cap server = {}
    /\ Whole(tcpq_out, part) \cap Range(Stream) = {}
    /\ server \cap Range(Stream) = {}
    /\ In(waitpdu) = Whole(tcpq_out, part) \cup server \cup Range(Stream)

Lasting == ~hup /\ dead = "no"
Flow == (Lasting => Streams) /\ \A i \in 1 .. Len(inbuf) : inbuf[i] = inbuf[1]

LEMMA InitFlow == Init => Flow
<1> SUFFICES ASSUME Init
             PROVE  Flow
    OBVIOUS
<1>1. RequestLen \in Nat \ {0} /\ ReplyLen \in Nat
    BY RpcAssumption
<1>2. /\ tcpq_out = <<>> /\ part = 0 /\ written = 0 /\ server = {} /\ inbuf = <<>>
      /\ tcpq_in = <<>> /\ coming = <<>> /\ waitpdu = Empty
    BY DEF Init
<1>3. Len(Stream) = 0 /\ Len(tcpq_out) = 0 /\ Len(inbuf) = 0
    BY <1>2 DEF Stream
<1>4. (0 + 0) % RequestLen = 0
    <2>1. RequestLen * 0 + 0 = 0 /\ 0 \in 0 .. RequestLen - 1
        BY <1>1
    <2> QED
        BY <1>1, <2>1, ModIs
<1>5. Ends(tcpq_out, part) = {}
    BY <1>3 DEF Ends
<1>6. Whole(tcpq_out, part) = {} /\ Apart(tcpq_out, part)
    BY <1>5 DEF Whole, Apart
<1>7. Range(Stream) = {} /\ Runs(Stream)
    <2>1. 1 .. Len(Stream) = {}
        BY <1>3
    <2>2. Stream \in Seq(Xid)
        BY <1>2 DEF Stream
    <2> QED
        <3>0. DOMAIN Stream = {}
            BY <2>1, <2>2
        <3>1. Range(Stream) = {}
            BY <3>0 DEF Range
        <3>2. Runs(Stream)
            BY <2>1 DEF Runs
        <3> QED
            BY <3>1, <3>2
<1>8. In(waitpdu) = {}
    BY <1>2 DEF In, Empty, Range, Hash
<1> QED
    BY <1>2, <1>3, <1>4, <1>6, <1>7, <1>8 DEF Flow, Streams

LEMMA SameFlow ==
    ASSUME Flow, Lasting' => Lasting,
           UNCHANGED <<part, tcpq_out, written, server, waitpdu, inbuf, tcpq_in, coming>>
    PROVE  Flow'
<1>1. Stream' = Stream
    BY DEF Stream
<1>2. Streams => Streams'
    BY <1>1 DEF Streams
<1> QED
    BY <1>2 DEF Flow

LEMMA StreamType ==
    ASSUME IInv
    PROVE  /\ inbuf \in Seq(Xid) /\ tcpq_in \in Seq(Xid) /\ coming \in Seq(Xid)
           /\ inbuf \o tcpq_in \in Seq(Xid) /\ Stream \in Seq(Xid)
<1>1. inbuf \in Seq(Xid) /\ tcpq_in \in Seq(Xid) /\ coming \in Seq(Xid)
    BY DEF IInv, TypeOK
<1>2. inbuf \o tcpq_in \in Seq(Xid)
    BY <1>1, ConcatLen
<1> QED
    BY <1>1, <1>2, ConcatLen DEF Stream

LEMMA ReadFlow ==
    ASSUME IInv, Flow, rpc_read_from_socket
    PROVE  Flow'
<1>1. /\ UNCHANGED <<part, tcpq_out, written, server, waitpdu, coming, dead>> /\ dead = "no"
    BY DEF rpc_read_from_socket, queues
<1>2. CASE UNCHANGED <<inbuf, tcpq_in, hup>>
    BY <1>1, <1>2, SameFlow DEF Lasting
<1>3. CASE ~hup /\ recv
    <2>1. Streams
        BY <1>1, <1>3 DEF Flow, Lasting
    <2>2. inbuf' \in Seq(Xid) /\ Len(inbuf') <= ReplyLen /\ tcpq_in' \in Seq(Xid)
        BY <1>3, RecvFacts
    <2>3. inbuf' \o tcpq_in' = inbuf \o tcpq_in
        <3>1. /\ inbuf \in Seq(Xid) /\ tcpq_in \in Seq(Xid) /\ Len(tcpq_in) \in Nat
              /\ Len(inbuf) \in Nat /\ Len(inbuf) <= ReplyLen /\ ReplyLen \in Nat \ {0, 1}
            BY RpcAssumption DEF IInv, TypeOK
        <3>2. Wanted \in Nat
            BY <3>1 DEF Wanted
        <3>3. PICK n \in 0 .. Len(tcpq_in) :
                  /\ inbuf' = inbuf \o SubSeq(tcpq_in, 1, n)
                  /\ tcpq_in' = SubSeq(tcpq_in, n + 1, Len(tcpq_in))
            <4> DEFINE n == IF Wanted < Len(tcpq_in) THEN Wanted ELSE Len(tcpq_in)
            <4>1. n \in 0 .. Len(tcpq_in)
                BY <3>1, <3>2
            <4>2. /\ inbuf' = inbuf \o SubSeq(tcpq_in, 1, n)
                  /\ tcpq_in' = SubSeq(tcpq_in, n + 1, Len(tcpq_in))
                BY <1>3 DEF recv
            <4> HIDE DEF n
            <4> QED
                BY <4>1, <4>2
        <3> QED
            BY <3>1, <3>3, Cut, Zenon
    <2>4. Stream' = Stream
        BY <1>1, <2>3 DEF Stream
    <2>5. Streams'
        BY <1>1, <2>1, <2>4 DEF Streams
    <2>6. \A i \in 1 .. Len(inbuf') : inbuf'[i] = inbuf'[1]
        <3> TAKE i \in 1 .. Len(inbuf')
        <3>1. Len(inbuf') \in Nat /\ i \in Nat /\ Len(inbuf' \o tcpq_in') \in Nat
              /\ coming \in Seq(Xid) /\ Len(coming) \in Nat /\ 1 \in 1 .. Len(inbuf')
            BY <2>2, StreamType, ConcatLen
        <3>2. /\ inbuf' \o tcpq_in' \in Seq(Xid)
              /\ Len(inbuf' \o tcpq_in') = Len(inbuf') + Len(tcpq_in')
              /\ \A k \in 1 .. Len(inbuf') : (inbuf' \o tcpq_in')[k] = inbuf'[k]
            BY <2>2, ConcatAt
        <3> DEFINE a == inbuf' \o tcpq_in'
        <3>3. /\ a \in Seq(Xid) /\ Len(a) = Len(inbuf') + Len(tcpq_in')
              /\ \A k \in 1 .. Len(inbuf') : a[k] = inbuf'[k]
            BY <3>2
        <3>4. Stream = a \o coming
            BY <2>3 DEF Stream
        <3> HIDE DEF a
        <3>5. /\ Stream \in Seq(Xid) /\ Len(Stream) = Len(a) + Len(coming)
              /\ \A k \in 1 .. Len(a) : Stream[k] = a[k]
            BY <3>1, <3>3, <3>4, ConcatAt, Zenon
        <3>6. Len(tcpq_in') \in Nat
            BY <2>2
        <3>7. i \in 1 .. Len(a) /\ 1 \in 1 .. Len(a) /\ i \in 1 .. Len(Stream) /\ i <= ReplyLen
            BY <2>2, <3>1, <3>3, <3>5, <3>6, RpcAssumption
        <3>8. Stream[i] = Stream[1]
            BY <2>1, <3>5, <3>7, FirstReply, Zenon DEF Streams
        <3> QED
            BY <3>1, <3>3, <3>5, <3>7, <3>8
    <2> QED
        BY <2>5, <2>6 DEF Flow
<1> QED
    BY <1>2, <1>3 DEF rpc_read_from_socket

\* When the first reply has been read whole, the rest of the stream follows.
LEMMA Taken ==
    ASSUME NEW a \in Seq(Xid), NEW b \in Seq(Xid), NEW c \in Seq(Xid), a # <<>>
    PROVE  /\ (a \o b) \o c \in Seq(Xid) /\ (<<>> \o b) \o c \in Seq(Xid)
           /\ Len((<<>> \o b) \o c) = Len((a \o b) \o c) - Len(a)
           /\ \A i \in 1 .. Len((<<>> \o b) \o c) :
                ((<<>> \o b) \o c)[i] = ((a \o b) \o c)[i + Len(a)]
           /\ (a \o b) \o c # <<>> /\ ((a \o b) \o c)[1] = a[1]
<1> DEFINE d == b \o c
           s == a \o d
<1>1. (a \o b) \o c = s
    BY Assoc
<1>2. (<<>> \o b) \o c = d
    OBVIOUS
<1>3. d \in Seq(Xid)
    BY ConcatLen
<1>4. Len(a) \in Nat /\ Len(a) # 0
    OBVIOUS
<1> HIDE DEF d
<1>5. /\ s \in Seq(Xid) /\ Len(s) = Len(a) + Len(d)
      /\ \A i \in 1 .. Len(a) : s[i] = a[i]
      /\ \A i \in 1 .. Len(d) : s[Len(a) + i] = d[i]
    BY <1>3, ConcatAt
<1> HIDE DEF s
<1>6. Len(d) \in Nat /\ Len(s) \in Nat /\ Len(s) # 0 /\ 1 \in 1 .. Len(a)
    BY <1>3, <1>4, <1>5
<1>7. \A i \in 1 .. Len(d) : i + Len(a) = Len(a) + i
    BY <1>4, <1>6
<1>8. Len(d) = Len(s) - Len(a)
    BY <1>4, <1>5, <1>6
<1>9. s # <<>> /\ s[1] = a[1]
    BY <1>5, <1>6
<1> QED
    BY <1>1, <1>2, <1>3, <1>5, <1>7, <1>8, <1>9, Zenon

LEMMA ProcessFlow ==
    ASSUME IInv, Flow, rpc_process_pdu
    PROVE  Flow'
<1>1. /\ pc = "reply" /\ dead = "no" /\ inbuf' = <<>>
      /\ UNCHANGED <<written, part, tcpq_out, server, tcpq_in, coming, hup>>
    BY DEF rpc_process_pdu, network
<1>2. \A i \in 1 .. Len(inbuf') : inbuf'[i] = inbuf'[1]
    BY <1>1
<1>3. ASSUME Lasting'
      PROVE  Streams'
    <2>1. Streams
        BY <1>1, <1>3 DEF Flow, Lasting
    <2>2. Len(inbuf) = ReplyLen /\ ReplyLen \in Nat \ {0, 1}
        BY <1>1, RpcAssumption DEF IInv, Service
    <2>3. PICK x \in Xid : x = inbuf[2]
        BY <2>2, StreamType
    <2>4. x = inbuf[1]
        BY <2>2, <2>3 DEF Flow
    <2>5. /\ Stream \in Seq(Xid) /\ Stream' \in Seq(Xid)
          /\ Len(Stream') = Len(Stream) - ReplyLen
          /\ \A i \in 1 .. Len(Stream') : Stream'[i] = Stream[i + ReplyLen]
          /\ Stream # <<>> /\ Stream[1] = x
        <3>1. Stream' = (<<>> \o tcpq_in) \o coming
            BY <1>1 DEF Stream
        <3>2. /\ inbuf \in Seq(Xid) /\ tcpq_in \in Seq(Xid) /\ coming \in Seq(Xid)
              /\ inbuf # <<>>
            BY <2>2, StreamType
        <3>3. /\ Stream \in Seq(Xid) /\ Stream' \in Seq(Xid)
              /\ Len(Stream') = Len(Stream) - Len(inbuf)
              /\ \A i \in 1 .. Len(Stream') : Stream'[i] = Stream[i + Len(inbuf)]
              /\ Stream # <<>> /\ Stream[1] = inbuf[1]
            BY <3>1, <3>2, Taken DEF Stream
        <3> QED
            BY <2>2, <2>4, <3>3
    <2>6. Runs(Stream') /\ Range(Stream') = Range(Stream) \ {x}
        BY <2>1, <2>5, RunsTaken DEF Streams
    <2>7. x \in Range(Stream)
        BY <2>5 DEF Range
    <2>8. Placed(outqueue, waitpdu, purged, blocked)
        BY <1>1, Parts DEF Queues
    <2>9. x \in Range(waitpdu[rpc_hash_xid(x)])
        <3>1. x \in In(waitpdu)
            BY <2>1, <2>7 DEF Streams
        <3> QED
            BY <2>8, <3>1, InBucket
    <2>10. In(waitpdu') = In(waitpdu) \ {x}
        <3>1. Unlinked(waitpdu, waitpdu', x)
            BY <2>3, <2>9 DEF rpc_process_pdu, Unlinked
        <3>2. /\ Placed(outqueue, waitpdu', purged, blocked \ {x})
              /\ In(waitpdu') = In(waitpdu) \ {x} /\ x \in In(waitpdu) /\ x \in blocked
            BY <2>8, <3>1, PlaceAnswered, Zenon
        <3> QED
            BY <3>2
    <2> QED
        BY <1>1, <2>1, <2>6, <2>7, <2>10 DEF Streams
<1> QED
    BY <1>2, <1>3 DEF Flow

LEMMA UnitsAt ==
    ASSUME NEW x \in Xid, NEW n \in Nat
    PROVE  /\ Units(x, n) \in Seq(Xid) /\ Len(Units(x, n)) = n
           /\ \A i \in 1 .. n : Units(x, n)[i] = x
BY DEF Units

\* n units of x behind the units of s.
LEMMA Behind ==
    ASSUME NEW s \in Seq(Xid), NEW x \in Xid, NEW n \in Nat
    PROVE  /\ s \o Units(x, n) \in Seq(Xid) /\ Len(s \o Units(x, n)) = Len(s) + n
           /\ \A i \in 1 .. Len(s) : (s \o Units(x, n))[i] = s[i]
           /\ \A i \in 1 .. Len(s) + n : i > Len(s) => (s \o Units(x, n))[i] = x
<1> DEFINE u == Units(x, n)
           r == s \o u
<1>1. u \in Seq(Xid) /\ Len(u) = n /\ \A i \in 1 .. n : u[i] = x
    BY UnitsAt
<1>2. u \in Seq(Xid)
    BY <1>1
<1> HIDE DEF u
<1>3. /\ r \in Seq(Xid) /\ Len(r) = Len(s) + Len(u)
      /\ \A i \in 1 .. Len(s) : r[i] = s[i]
      /\ \A i \in 1 .. Len(u) : r[Len(s) + i] = u[i]
    BY <1>2, ConcatAt
<1> HIDE DEF r
<1>4. ASSUME NEW i \in 1 .. Len(s) + n, i > Len(s)
      PROVE  r[i] = x
    <2>1. Len(s) \in Nat
        OBVIOUS
    <2>2. i - Len(s) \in 1 .. n /\ Len(s) + (i - Len(s)) = i
        BY <1>4, <2>1
    <2>3. r[Len(s) + (i - Len(s))] = u[i - Len(s)] /\ u[i - Len(s)] = x
        BY <1>1, <1>3, <2>2
    <2> QED
        BY <2>2, <2>3
<1>5. /\ r \in Seq(Xid) /\ Len(r) = Len(s) + n
      /\ \A i \in 1 .. Len(s) : r[i] = s[i]
      /\ \A i \in 1 .. Len(s) + n : i > Len(s) => r[i] = x
    BY <1>1, <1>3, <1>4
<1> QED
    BY <1>5 DEF r, u

LEMMA WriteFlow ==
    ASSUME IInv, Flow, rpc_write_to_socket
    PROVE  Flow'
<1> DEFINE left == RequestLen - written
           room == MaxSize - Len(tcpq_out)
           n == IF left < room THEN left ELSE room
<1>1. /\ dead = "no" /\ outqueue # <<>> /\ pico_sendto(Head(outqueue), n)
      /\ UNCHANGED <<inbuf, tcpq_in, part, server, coming, hup, dead>>
    BY DEF rpc_write_to_socket
<1>2. \/ n = left /\ Sent
      \/ n # left /\ written' = written + n /\ UNCHANGED <<outqueue, waitpdu, waitpdu_len>>
    BY DEF rpc_write_to_socket
<1>3. /\ n \in Nat /\ n \in 0 .. RequestLen - written /\ part \in Nat
      /\ RequestLen \in Nat /\ written \in 0 .. RequestLen - 1
    BY Parts, RpcAssumption DEF TypeQ, TypeN
<1>4. tcpq_out \in Seq(Xid) /\ outqueue \in Seq(Xid)
    BY DEF IInv, TypeOK
<1>5. PICK x \in Xid : x = Head(outqueue)
    BY <1>1, <1>4
<1>6. tcpq_out' = tcpq_out \o Units(x, n)
    BY <1>1, <1>5 DEF pico_sendto
<1> HIDE DEF n
<1>7. Longer(tcpq_out, tcpq_out', x, n)
    <2>1. /\ tcpq_out' \in Seq(Xid) /\ Len(tcpq_out') = Len(tcpq_out) + n
          /\ \A i \in 1 .. Len(tcpq_out) : tcpq_out'[i] = tcpq_out[i]
          /\ \A i \in 1 .. Len(tcpq_out) + n : i > Len(tcpq_out) => tcpq_out'[i] = x
        <3>1. n \in Nat
            BY <1>3
        <3> QED
            BY <1>4, <1>6, <3>1, Behind, Zenon
    <2> QED
        BY <2>1 DEF Longer
<1>8. Stream' = Stream
    BY <1>1 DEF Stream
<1>9. ASSUME Streams
      PROVE  Streams'
    <2>1. /\ n < RequestLen - written =>
                /\ Whole(tcpq_out', part) = Whole(tcpq_out, part) /\ Apart(tcpq_out', part)
                /\ (part + Len(tcpq_out')) % RequestLen = written + n
          /\ n = RequestLen - written =>
                /\ Whole(tcpq_out', part) = Whole(tcpq_out, part) \cup {x}
                /\ x \notin Whole(tcpq_out, part) => Apart(tcpq_out', part)
                /\ (part + Len(tcpq_out')) % RequestLen = 0
        <3>1. Sending(tcpq_out, part, written, n)
            BY <1>3, <1>4, <1>9 DEF Streams, Sending
        <3>2. Extended(tcpq_out, part, written, n, x, tcpq_out')
            BY <1>7, <3>1, OutSent, Zenon
        <3> QED
            BY <3>2 DEF Extended
    <2>2. CASE n = left /\ Sent
        <3>1. /\ written' = 0
              /\ waitpdu' = [waitpdu EXCEPT ![rpc_hash_xid(Head(outqueue))]
                                = Append(@, Head(outqueue))]
            BY <2>2 DEF Sent
        <3>2. Placed(outqueue, waitpdu, purged, blocked)
            BY <1>1, Parts DEF Queues
        <3>3. /\ Placed(Tail(outqueue), waitpdu', purged, blocked)
              /\ In(waitpdu') = In(waitpdu) \cup {Head(outqueue)}
              /\ Head(outqueue) \notin In(waitpdu)
            BY <1>1, <3>1, <3>2, PlaceSent, Zenon
        <3>4. In(waitpdu') = In(waitpdu) \cup {x} /\ x \notin In(waitpdu)
            BY <1>5, <3>3
        <3> QED
            BY <1>1, <1>8, <1>9, <2>1, <2>2, <3>1, <3>4, Zenon DEF Streams
    <2>3. CASE n # left /\ written' = written + n /\ UNCHANGED waitpdu
        <3>1. n < RequestLen - written
            BY <1>3, <2>3
        <3> QED
            BY <1>1, <1>8, <1>9, <2>1, <2>3, <3>1 DEF Streams
    <2> QED
        BY <1>2, <2>2, <2>3
<1> QED
    BY <1>1, <1>9 DEF Flow, Lasting

LEMMA AckFlow ==
    ASSUME IInv, Flow, tcp_ack
    PROVE  Flow'
<1>1. PICK n \in 1 .. Len(tcpq_out) :
          /\ Open
          /\ tcpq_out' = SubSeq(tcpq_out, n + 1, Len(tcpq_out))
          /\ server' = server \cup {tcpq_out[i] : i \in {j \in 1 .. n : (part + j) % RequestLen = 0}}
          /\ part' = (part + n) % RequestLen
          /\ UNCHANGED <<queues, service, socket, tcpq_in, coming, remote_closed, hup, dead>>
    BY Zenon DEF tcp_ack
<1>2. UNCHANGED <<inbuf, tcpq_in, coming, waitpdu, written, hup, dead>>
    BY <1>1, Zenon DEF queues, service
<1>3. /\ tcpq_out \in Seq(Xid) /\ Len(tcpq_out) \in Nat /\ part \in Nat
    BY DEF IInv, TypeOK
<1>4. IInv'
    BY AckIInv
<1>5. tcpq_out' \in Seq(Xid) /\ part' \in Nat
    BY <1>4 DEF IInv, TypeOK
<1>6. /\ Len(tcpq_out') = Len(tcpq_out) - n
      /\ \A i \in 1 .. Len(tcpq_out') : tcpq_out'[i] = tcpq_out[n + i]
    <2>1. n + 1 \in 1 .. Len(tcpq_out) + 1 /\ Len(tcpq_out) \in (n + 1) - 1 .. Len(tcpq_out)
          /\ (Len(tcpq_out) - (n + 1)) + 1 = Len(tcpq_out) - n
        BY <1>3
    <2>2. /\ Len(tcpq_out') = (Len(tcpq_out) - (n + 1)) + 1
          /\ \A i \in 1 .. (Len(tcpq_out) - (n + 1)) + 1 :
                tcpq_out'[i] = tcpq_out[((n + 1) + i) - 1]
        BY <1>1, <1>3, <2>1, SubSeqFacts, Zenon
    <2>3. \A i \in 1 .. Len(tcpq_out) - n : ((n + 1) + i) - 1 = n + i
        BY <1>3
    <2> QED
        BY <2>1, <2>2, <2>3
<1>7. PICK got : got = {tcpq_out[i] : i \in {j \in 1 .. n : (part + j) % RequestLen = 0}}
    BY Zenon
<1>8. server' = server \cup got
    BY <1>1, <1>7
<1>9. Stream' = Stream
    BY <1>2 DEF Stream
<1>10. ASSUME Streams
       PROVE  Streams'
    <2>1. n \in 0 .. Len(tcpq_out) /\ part' = (part + n) % RequestLen /\ Apart(tcpq_out, part)
        <3>1. n \in 0 .. Len(tcpq_out) /\ part' = (part + n) % RequestLen
            BY <1>1, <1>3
        <3>2. Apart(tcpq_out, part)
            BY <1>10, Zenon DEF Streams
        <3> QED
            BY <3>1, <3>2, Zenon
    <2>2. /\ Whole(tcpq_out', part') \cup got = Whole(tcpq_out, part)
          /\ Whole(tcpq_out', part') \cap got = {} /\ Apart(tcpq_out', part')
          /\ (part' + Len(tcpq_out')) % RequestLen = (part + Len(tcpq_out)) % RequestLen
        <3>1. Acked(tcpq_out, part, n, tcpq_out', part', got)
            BY <1>3, <1>5, <1>6, <1>7, <2>1 DEF Acked
        <3> QED
            BY <3>1, OutAcked
    <2> QED
        BY <1>2, <1>8, <1>9, <1>10, <2>2 DEF Streams
<1> QED
    BY <1>2, <1>10 DEF Flow, Lasting

LEMMA ReplyFlow ==
    ASSUME IInv, Flow, NEW x \in Xid, Reply(x)
    PROVE  Flow'
<1>1. /\ Open /\ server' = server \ {x} /\ coming = <<>> /\ x \in server
      /\ UNCHANGED <<queues, service, socket, tcpq_out, EV_WR, part, remote_closed, hup, dead>>
    BY DEF Reply
<1>2. UNCHANGED <<inbuf, tcpq_out, part, waitpdu, written, hup, dead>>
    BY <1>1 DEF queues, service
<1>3. PICK n \in 1 .. ReplyLen : tcpq_in' = tcpq_in \o Units(x, n)
                                 /\ coming' = Units(x, ReplyLen - n)
    BY DEF Reply
<1>4. n \in Nat /\ ReplyLen - n \in Nat /\ ReplyLen \in Nat
    BY RpcAssumption
<1> DEFINE a == inbuf \o tcpq_in
           b == a \o Units(x, n)
           c == b \o Units(x, ReplyLen - n)
<1>5. /\ inbuf \in Seq(Xid) /\ tcpq_in \in Seq(Xid) /\ a \in Seq(Xid) /\ Stream \in Seq(Xid)
      /\ Units(x, n) \in Seq(Xid)
    BY <1>4, StreamType, UnitsAt
<1>6. Stream = a
    BY <1>1, <1>5 DEF Stream
<1>7. Stream' = c
    <2>1. inbuf \o (tcpq_in \o Units(x, n)) = (inbuf \o tcpq_in) \o Units(x, n)
        BY <1>5, Assoc
    <2> QED
        BY <1>2, <1>3, <2>1 DEF Stream
<1> HIDE DEF a
<1>8. /\ b \in Seq(Xid) /\ Len(b) = Len(a) + n
      /\ \A i \in 1 .. Len(a) : b[i] = a[i]
      /\ \A i \in 1 .. Len(a) + n : i > Len(a) => b[i] = x
    BY <1>4, <1>5, Behind, Zenon
<1> HIDE DEF b
<1>9. /\ c \in Seq(Xid) /\ Len(c) = Len(b) + (ReplyLen - n)
      /\ \A i \in 1 .. Len(b) : c[i] = b[i]
      /\ \A i \in 1 .. Len(b) + (ReplyLen - n) : i > Len(b) => c[i] = x
    BY <1>4, <1>8, Behind, Zenon
<1> HIDE DEF c
<1>10. /\ Len(c) = Len(a) + ReplyLen
       /\ \A i \in 1 .. Len(a) : c[i] = a[i]
       /\ \A i \in 1 .. Len(c) : i > Len(a) => c[i] = x
    <2>1. Len(a) \in Nat /\ Len(b) \in Nat
        BY <1>5, <1>8
    <2>2. Len(c) = Len(a) + ReplyLen
        BY <1>4, <1>8, <1>9, <2>1
    <2>3. \A i \in 1 .. Len(a) : i \in 1 .. Len(b)
        BY <1>4, <1>8, <2>1
    <2>4. ASSUME NEW i \in 1 .. Len(c), i > Len(a)
          PROVE  c[i] = x
        <3>1. CASE i <= Len(b)
            <4>1. i \in 1 .. Len(b) /\ i \in 1 .. Len(a) + n
                BY <1>4, <1>8, <2>1, <2>2, <3>1
            <4> QED
                BY <1>8, <1>9, <2>4, <4>1
        <3>2. CASE i > Len(b)
            <4>1. i \in 1 .. Len(b) + (ReplyLen - n)
                BY <1>9
            <4> QED
                BY <1>9, <3>2, <4>1
        <3> QED
            BY <2>1, <2>2, <1>4, <3>1, <3>2
    <2> QED
        BY <1>8, <1>9, <2>2, <2>3, <2>4
<1>11. ASSUME Streams
       PROVE  Streams'
    <2>1. Runs(a) /\ x \notin Range(a)
        BY <1>1, <1>6, <1>11 DEF Streams
    <2>2. Runs(c) /\ Range(c) = Range(a) \cup {x}
        BY <1>5, <1>9, <1>10, <2>1, RunsAdded, Zenon
    <2> QED
        BY <1>1, <1>2, <1>6, <1>7, <1>11, <2>2 DEF Streams
<1> QED
    BY <1>2, <1>11 DEF Flow, Lasting

LEMMA DataInFlow ==
    ASSUME IInv, Flow, tcp_data_in
    PROVE  Flow'
<1>1. UNCHANGED <<queues, service, socket, tcpq_out, EV_WR, part, server, remote_closed,
                  hup, dead>>
    BY DEF tcp_data_in
<1>2. UNCHANGED <<inbuf, tcpq_out, part, server, waitpdu, written, hup, dead>>
    BY <1>1 DEF queues, service
<1>3. PICK n \in 1 .. Len(coming) : tcpq_in' = tcpq_in \o SubSeq(coming, 1, n)
                                    /\ coming' = SubSeq(coming, n + 1, Len(coming))
    BY Zenon DEF tcp_data_in
<1>4. /\ inbuf \in Seq(Xid) /\ tcpq_in \in Seq(Xid) /\ coming \in Seq(Xid)
      /\ inbuf \o tcpq_in \in Seq(Xid) /\ Len(coming) \in Nat
    BY StreamType
<1>5. n \in 0 .. Len(coming) /\ 1 \in 1 .. Len(coming) + 1 /\ n \in 1 - 1 .. Len(coming)
    BY <1>4
<1>6. SubSeq(coming, 1, n) \in Seq(Xid)
    BY <1>4, <1>5, SubSeqFacts
<1>7. inbuf \o (tcpq_in \o SubSeq(coming, 1, n)) = (inbuf \o tcpq_in) \o SubSeq(coming, 1, n)
    BY <1>4, <1>6, Assoc
<1>8. ((inbuf \o tcpq_in) \o SubSeq(coming, 1, n)) \o SubSeq(coming, n + 1, Len(coming)) = Stream
    BY <1>4, <1>5, Cut, Zenon DEF Stream
<1>9. Stream' = Stream
    BY <1>2, <1>3, <1>7, <1>8, Zenon DEF Stream
<1>10. Streams => Streams'
    BY <1>2, <1>9 DEF Streams
<1> QED
    BY <1>2, <1>10 DEF Flow, Lasting

LEMMA NextFlow == IInv /\ Flow /\ [Next]_vars => Flow'
<1> SUFFICES ASSUME IInv, Flow, [Next]_vars
             PROVE  Flow'
    OBVIOUS
<1>1. CASE UNCHANGED vars
    BY <1>1, SameFlow DEF vars, queues, service, socket, network, Lasting
<1>2. CASE Issue \/ nfslib_poll \/ rpc_service_end \/ rpc_purge_end \/ rpc_purge_all_pdus
           \/ tcp_closewait
    <2>1. /\ UNCHANGED <<part, tcpq_out, written, server, waitpdu, inbuf, tcpq_in, coming>>
          /\ hup => hup'
        BY <1>2 DEF Issue, nfslib_poll, rpc_service_end, rpc_purge_end, rpc_purge_all_pdus,
                    tcp_closewait, queues, service, network
    <2>2. dead = "no"
        BY <1>2 DEF Issue, nfslib_poll, rpc_service_end, rpc_purge_end, rpc_purge_all_pdus,
                    tcp_closewait, Open
    <2> QED
        BY <2>1, <2>2, SameFlow DEF Lasting
<1>3. CASE rpc_reconnect_requeue
    <2>1. hup' /\ inbuf' = inbuf
        BY <1>3 DEF rpc_reconnect_requeue, network, IInv, Service
    <2> QED
        BY <2>1 DEF Flow, Lasting
<1> QED
    BY <1>1, <1>2, <1>3, ReadFlow, ProcessFlow, WriteFlow, AckFlow, ReplyFlow, DataInFlow
       DEF Next, Poll

\* For any number of xids, buckets, coroutines and units: while the
\* connection lasts, a reply finds its request in the bucket rpc_process_pdu
\* looks in, no request waits that the server neither has nor will get nor has
\* answered, and rpc_read_from_socket keeps the record boundaries of the
\* stream however it is cut.
THEOREM EveryReplyExpected == Spec => []RepliesExpected
<1>1. Spec => [](IInv /\ Flow)
    BY Inductive, InitFlow, NextFlow, PTL DEF Spec
<1>2. IInv /\ Flow => RepliesExpected
    <2> SUFFICES ASSUME IInv, Flow
                 PROVE  RepliesExpected
        OBVIOUS
    <2> DEFINE due == server \cup Range(tcpq_in) \cup Range(coming) \cup Range(inbuf)
    <2>1. /\ inbuf \in Seq(Xid) /\ tcpq_in \in Seq(Xid) /\ coming \in Seq(Xid)
          /\ inbuf \o tcpq_in \in Seq(Xid) /\ tcpq_out \in Seq(Xid)
        BY StreamType DEF IInv, TypeOK
    <2>2. \A u \in Range(inbuf) : u = inbuf[1]
        BY <2>1 DEF Flow, Range
    <2>3. ASSUME is_connected, ~hup, dead = "no"
          PROVE  /\ \A x \in due : x \in Range(waitpdu[rpc_hash_xid(x)])
                 /\ Unanswered \subseteq due \cup Range(tcpq_out)
        <3>1. Streams
            BY <2>3 DEF Flow, Lasting
        <3>2. Range(Stream) = Range(inbuf) \cup Range(tcpq_in) \cup Range(coming)
            <4>1. Range(Stream) = Range(inbuf \o tcpq_in) \cup Range(coming)
                BY <2>1, ConcatSet, Zenon DEF Stream
            <4>2. Range(inbuf \o tcpq_in) = Range(inbuf) \cup Range(tcpq_in)
                BY <2>1, ConcatSet
            <4> QED
                BY <4>1, <4>2
        <3>3. Placed(outqueue, waitpdu, purged, Requests)
            BY Parts DEF Queues
        <3>4. In(waitpdu) = Whole(tcpq_out, part) \cup due
            BY <3>1, <3>2 DEF Streams
        <3>5. Whole(tcpq_out, part) \subseteq Range(tcpq_out)
            BY <2>1 DEF Whole, Ends, Range
        <3>6. Unanswered = In(waitpdu)
            BY Zenon DEF IInv, TypeOK, Unanswered, In, Hash
        <3>7. \A x \in due : x \in Range(waitpdu[rpc_hash_xid(x)])
            BY <3>3, <3>4, InBucket
        <3> QED
            BY <3>4, <3>5, <3>6, <3>7
    <2> QED
        BY <2>2, <2>3 DEF RepliesExpected
<1> QED
    BY <1>1, <1>2, PTL

=============================================================================
