----------------------------- MODULE FilesProofs -----------------------------
(***************************************************************************)
(* Proofs about Files for any number of processes, names, descriptors and  *)
(* vnodes.  For every client: coro_count is exact and proc_destroy frees   *)
(* nothing under a handler.  For clients that close what they hold and     *)
(* share no open file: libnfs is never given a handle it does not hold.    *)
(***************************************************************************)
EXTENDS Files, TLAPS, WellFoundedInduction

\* The calls that count themselves in coro_count.
Waits(c) == c.op \notin {"none", "load"}

\* The calls that are going on.
CallRec ==
  [op : Ops, step : Steps, name : Name \cup {""}, v : Nat, fh : Handle, fd : Fd]

\* The steps a call of each kind goes through, with n vnodes created.
CallOK(c, n) ==
  /\ c.op = "none" => c = NoCall
  /\ c.op = "open" => c.step \in {"lookup", "create", "reclaim", "open"}
  /\ c.op = "load" => c.step \in {"lookup", "stat", "open", "data"}
  /\ c.op = "rw" => c.step = "data"
  /\ c.op = "close" => c.step = "close"
  /\ c.op = "query" => c.step = "query"
  /\ c.op \in {"open", "load"} => c.name \in Name
  /\ c.v \in 0 .. n
  /\ c.step \notin {"none", "lookup", "query"} => c.v # 0

\* coro_count is the number of handlers only because a call keeps its kind
\* while it goes from step to step.
IInv ==
  /\ TypeOK
  /\ \A p \in Proc :
       /\ CallOK(call[p], Len(vn))
       /\ state[p] = "GONE" => ~Waits(call[p])
       /\ fault = "none" => coro_count[p] = IF Waits(call[p]) THEN 1 ELSE 0

-----------------------------------------------------------------------------
\* A list of vnodes that keeps its length, or gets one more.
LEMMA NoShorter == \A n \in Nat : n >= n /\ n + 1 >= n
OBVIOUS

\* A set of natural numbers that is not empty has a smallest one.
LEMMA Smallest ==
  ASSUME NEW S, S \subseteq Nat, S # {}
  PROVE  \E i \in S : \A j \in S : i <= j
<1> DEFINE R == OpToRel(<, Nat)
<1>1. PICK x \in S : \A y \in S : ~(<<y, x>> \in R)
  BY NatLessThanWellFounded, WFMin, Zenon
<1>2. \A y \in Nat : y < x => <<y, x>> \in R
  BY DEF OpToRel
<1> HIDE DEF R
<1>3. \A y \in S : ~(y < x)
  BY <1>1, <1>2, Zenon
<1> QED
  BY <1>3

\* A bounded one has a largest, the smallest of its bounds.
LEMMA Largest ==
  ASSUME NEW S, S \subseteq Nat, S # {}, NEW n \in Nat, \A i \in S : i <= n
  PROVE  Max(S) \in S /\ \A i \in S : i <= Max(S)
<1> DEFINE U == {u \in Nat : \A i \in S : i <= u}
<1>1. U \subseteq Nat /\ n \in U
  OBVIOUS
<1>2. PICK m \in U : \A u \in U : m <= u
  BY <1>1, Smallest, Zenon
<1>3. m \in S
  <2> SUFFICES ASSUME m \notin S PROVE FALSE
    OBVIOUS
  <2>1. \A i \in S : i <= m - 1
    BY <1>2
  <2>2. PICK i \in S : TRUE
    BY Zenon
  <2>3. m - 1 \in Nat
    BY <1>2, <2>1, <2>2
  <2> QED
    BY <1>2, <2>1, <2>3
<1>4. \A i \in S : i <= m
  BY <1>2
<1>5. \E x \in S : \A y \in S : x >= y
  BY <1>3, <1>4
<1>6. Max(S) \in S /\ \A y \in S : Max(S) >= y
  BY <1>5, Zenon DEF Max
<1> QED
  BY <1>6

LEMMA LeastMin ==
  ASSUME NEW S, S \subseteq Nat, S # {}
  PROVE  Min(S) \in S
BY Smallest, Zenon DEF Min

\* vnfs_lookup finds a vnode of that path, or none.
LEMMA FindFacts ==
  ASSUME TypeOK, NEW name
  PROVE  /\ Find(name) \in 0 .. Len(vn)
         /\ Find(name) # 0 => vn[Find(name)].path = name
<1> DEFINE S == Known(name) \cup {0}
<1>1. Len(vn) \in Nat /\ DOMAIN vn = 1 .. Len(vn)
  BY DEF TypeOK
<1>2. S \subseteq Nat /\ S # {} /\ \A i \in S : i <= Len(vn)
  BY <1>1 DEF Known
<1>3. Max(S) \in S
  <2> HIDE DEF S
  <2> QED
    BY <1>1, <1>2, Largest, Zenon
<1> QED
  BY <1>1, <1>3 DEF Find, Known

\* fdt_place enters the vnode in a descriptor that was free, or nowhere.
LEMMA PlacedFacts ==
  ASSUME NEW n \in Nat, NEW t \in [Fd -> 0 .. n], NEW v \in 0 .. n
  PROVE  /\ Placed(t, v) \in [Fd -> 0 .. n]
         /\ \/ Placed(t, v) = t
            \/ \E d \in Fd : /\ t[d] = 0
                             /\ Placed(t, v) = [t EXCEPT ![d] = v]
<1> DEFINE free == {fd \in Fd : t[fd] = 0}
<1>1. CASE free = {}
  BY <1>1 DEF Placed
<1>2. CASE free # {}
  <2>1. free \subseteq Nat
    BY FilesAssumption DEF Fd
  <2>2. Min(free) \in free
    <3> HIDE DEF free
    <3> QED
      BY <1>2, <2>1, LeastMin, Zenon
  <2>3. Placed(t, v) = [t EXCEPT ![Min(free)] = v]
    BY <1>2 DEF Placed
  <2> QED
    BY <2>2, <2>3
<1> QED
  BY <1>1, <1>2

\* Setting the handle of one vnode.
LEMMA SetHandle ==
  ASSUME TypeOK, NEW v \in 1 .. Len(vn), NEW h \in Handle
  PROVE  /\ [vn EXCEPT ![v].nfsfh = h] \in Seq(Vnode)
         /\ Len([vn EXCEPT ![v].nfsfh = h]) = Len(vn)
         /\ \A i \in 1 .. Len(vn) :
              /\ [vn EXCEPT ![v].nfsfh = h][i].path = vn[i].path
              /\ [vn EXCEPT ![v].nfsfh = h][i].nfsfh = IF i = v THEN h ELSE vn[i].nfsfh
<1> DEFINE w == [vn EXCEPT ![v].nfsfh = h]
<1>1. vn \in Seq(Vnode) /\ Len(vn) \in Nat /\ vn[v] \in Vnode
  BY DEF TypeOK
<1>2. /\ [vn[v] EXCEPT !.nfsfh = h] \in Vnode
      /\ [vn[v] EXCEPT !.nfsfh = h].path = vn[v].path
      /\ [vn[v] EXCEPT !.nfsfh = h].nfsfh = h
  BY <1>1 DEF Vnode
<1>3. w = [vn EXCEPT ![v] = [vn[v] EXCEPT !.nfsfh = h]]
  BY <1>1
<1>4. /\ w \in Seq(Vnode) /\ Len(w) = Len(vn)
      /\ \A i \in 1 .. Len(vn) : w[i] = IF i = v THEN [vn[v] EXCEPT !.nfsfh = h] ELSE vn[i]
  BY <1>1, <1>2, <1>3
<1> HIDE DEF w
<1>5. \A i \in 1 .. Len(vn) : /\ w[i].path = vn[i].path
                              /\ w[i].nfsfh = IF i = v THEN h ELSE vn[i].nfsfh
  BY <1>2, <1>4, Zenon
<1> QED
  BY <1>4, <1>5 DEF w

\* vnfs_creat
LEMMA NewVnode ==
  ASSUME TypeOK, NEW name \in Name
  PROVE  /\ WithVnode(name) \in Seq(Vnode)
         /\ Len(WithVnode(name)) = Len(vn) + 1
         /\ \A i \in 1 .. Len(vn) : WithVnode(name)[i] = vn[i]
         /\ WithVnode(name)[Len(vn) + 1].path = name
         /\ WithVnode(name)[Len(vn) + 1].nfsfh = JUNK
<1> DEFINE r == [path |-> name, nfsfh |-> JUNK]
<1>1. r \in Vnode /\ r.path = name /\ r.nfsfh = JUNK
  BY DEF Vnode, Handle
<1>2. WithVnode(name) = Append(vn, r)
  BY DEF WithVnode
<1>3. vn \in Seq(Vnode)
  BY DEF TypeOK
<1> HIDE DEF r
<1> QED
  BY <1>1, <1>2, <1>3

-----------------------------------------------------------------------------
LEMMA InitIInv == Init => IInv
<1> SUFFICES ASSUME Init PROVE IInv
  OBVIOUS
<1>1. vn = <<>> /\ Len(vn) = 0 /\ vn \in Seq(Vnode)
  BY DEF Init
<1>2. fdt \in [Proc -> [Fd -> 0 .. Len(vn)]]
  BY <1>1 DEF Init
<1>3. call \in [Proc -> Call]
  BY DEF Init, Call
<1>4. state \in [Proc -> {"RUNNING", "ZOMBIE", "GONE"}] /\ coro_count \in [Proc -> 0 .. 1]
  BY DEF Init
<1>5. TypeOK
  BY <1>1, <1>2, <1>3, <1>4, FilesAssumption DEF Init, TypeOK
<1>6. \A p \in Proc : call[p] = NoCall /\ state[p] = "RUNNING" /\ coro_count[p] = 0
  BY DEF Init
<1>7. CallOK(NoCall, Len(vn)) /\ ~Waits(NoCall)
  BY <1>1 DEF CallOK, NoCall, Waits
<1> QED
  BY <1>5, <1>6, <1>7 DEF IInv

\* Vnodes, handles and names on the server only come; state stays.
Grows ==
  /\ vn' \in Seq(Vnode)
  /\ Len(vn') >= Len(vn)
  /\ opened' \in Nat /\ opened' >= opened
  /\ handles' \subseteq 1 .. opened'
  /\ srv \subseteq srv' /\ srv' \subseteq Name
  /\ state' = state
  /\ fault' \in {"none", "badhandle", "freed", "null", "exit"}

\* What keeps IInv: process p goes from its call to the call c and may change
\* its own descriptors and count.
StepOf(p, c, t) ==
  /\ c \in Call
  /\ CallOK(c, Len(vn'))
  /\ state[p] = "GONE" => ~Waits(c)
  /\ call' = [call EXCEPT ![p] = c]
  /\ coro_count' = [coro_count EXCEPT ![p] = IF Waits(c) THEN 1 ELSE 0]
  /\ t \in [Fd -> 0 .. Len(vn')]
  /\ fdt' = [fdt EXCEPT ![p] = t]
  /\ Grows

LEMMA StepIInv ==
  ASSUME IInv, fault = "none", NEW p \in Proc, NEW c, NEW t, StepOf(p, c, t)
  PROVE  IInv'
<1>0. /\ TypeOK
      /\ \A q \in Proc :
           /\ CallOK(call[q], Len(vn))
           /\ state[q] = "GONE" => ~Waits(call[q])
           /\ coro_count[q] = IF Waits(call[q]) THEN 1 ELSE 0
  BY DEF IInv
<1>1. Len(vn) \in Nat /\ Len(vn') \in Nat /\ Len(vn') >= Len(vn)
  BY <1>0 DEF TypeOK, StepOf, Grows
<1>2. /\ call' \in [Proc -> Call]
      /\ \A q \in Proc : call'[q] = IF q = p THEN c ELSE call[q]
  BY <1>0 DEF TypeOK, StepOf, Grows
<1>3. fdt' \in [Proc -> [Fd -> 0 .. Len(vn')]]
  <2>1. 0 .. Len(vn) \subseteq 0 .. Len(vn')
    BY <1>1
  <2>2. \A q \in Proc : fdt[q] \in [Fd -> 0 .. Len(vn')]
    BY <1>0, <2>1 DEF TypeOK
  <2> QED
    BY <1>0, <2>2 DEF TypeOK, StepOf, Grows
<1>4. /\ coro_count' \in [Proc -> 0 .. 1]
      /\ \A q \in Proc : coro_count'[q] = IF q = p THEN (IF Waits(c) THEN 1 ELSE 0)
                                          ELSE coro_count[q]
  BY <1>0 DEF TypeOK, StepOf, Grows
<1>5. TypeOK'
  BY <1>0, <1>2, <1>3, <1>4 DEF TypeOK, StepOf, Grows
<1>6. ASSUME NEW q \in Proc
      PROVE  /\ CallOK(call'[q], Len(vn'))
             /\ state'[q] = "GONE" => ~Waits(call'[q])
             /\ coro_count'[q] = IF Waits(call'[q]) THEN 1 ELSE 0
  <2>1. CASE q = p
    BY <1>2, <1>4, <2>1 DEF StepOf, Grows
  <2>2. CASE q # p
    <3>1. CallOK(call[q], Len(vn'))
      BY <1>0, <1>1 DEF CallOK
    <3> QED
      BY <1>0, <1>2, <1>4, <2>2, <3>1 DEF StepOf, Grows
  <2> QED
    BY <2>1, <2>2
<1> QED
  BY <1>5, <1>6 DEF IInv

\* SOS stops with everything as it was.
LEMMA StopIInv ==
  ASSUME IInv, UNCHANGED <<vn, handles, opened, srv, fdt, state, coro_count, call>>,
         fault' \in {"none", "badhandle", "freed", "null", "exit"},
         fault' = "none" => fault = "none"
  PROVE  IInv'
<1>1. TypeOK'
  BY DEF IInv, TypeOK
<1> QED
  BY <1>1 DEF IInv

\* A call that is going on is a record with a kind and a step.
LEMMA CallFields ==
  ASSUME IInv, NEW p \in Proc, call[p].step # "none"
  PROVE  /\ call[p] \in CallRec
         /\ call[p].op \in Ops /\ call[p].step \in Steps
         /\ call[p].name \in Name \cup {""} /\ call[p].v \in Nat
         /\ call[p].fh \in Handle /\ call[p].fd \in Fd
<1>1. call[p] \in Call
  BY DEF IInv, TypeOK
<1>2. call[p] # NoCall
  <2>1. NoCall.step = "none"
    BY DEF NoCall
  <2> QED
    BY <2>1
<1>3. call[p] \in CallRec
  BY <1>1, <1>2, Zenon DEF Call, CallRec
<1> QED
  BY <1>3, Zenon DEF CallRec

LEMMA MakeCall ==
  ASSUME NEW op \in Ops, NEW step \in Steps, NEW name \in Name \cup {""}, NEW v \in Nat,
         NEW fh \in Handle, NEW fd \in Fd
  PROVE  [op |-> op, step |-> step, name |-> name, v |-> v, fh |-> fh, fd |-> fd] \in Call
BY Zenon DEF Call

\* A call that goes on to its next step.
LEMMA ChangeCall ==
  ASSUME NEW c \in CallRec
  PROVE  /\ \A step \in Steps, v \in Nat : [c EXCEPT !.step = step, !.v = v] \in Call
         /\ \A step \in Steps, fh \in Handle : [c EXCEPT !.step = step, !.fh = fh] \in Call
         /\ \A step \in Steps : [c EXCEPT !.step = step] \in Call
         /\ \A fh \in Handle : [c EXCEPT !.fh = fh] \in Call
BY Zenon DEF Call, CallRec

LEMMA NoCallFacts ==
  /\ NoCall \in Call /\ ~Waits(NoCall)
  /\ NoCall.op = "none" /\ NoCall.step = "none"
  /\ \A n \in Nat : CallOK(NoCall, n)
BY DEF NoCall, Call, Waits, CallOK

\* fdt and coro_count where a step leaves them alone.
LEMMA OwnTable ==
  ASSUME IInv, NEW p \in Proc, fdt' = fdt, Grows
  PROVE  fdt[p] \in [Fd -> 0 .. Len(vn')] /\ fdt' = [fdt EXCEPT ![p] = fdt[p]]
<1>1. Len(vn) \in Nat /\ Len(vn') \in Nat /\ Len(vn') >= Len(vn)
  BY DEF IInv, TypeOK, Grows
<1>2. fdt \in [Proc -> [Fd -> 0 .. Len(vn)]]
  BY DEF IInv, TypeOK
<1>3. 0 .. Len(vn) \subseteq 0 .. Len(vn')
  BY <1>1
<1>4. fdt[p] \in [Fd -> 0 .. Len(vn')]
  BY <1>2, <1>3
<1> QED
  BY <1>2, <1>4

LEMMA OwnCount ==
  ASSUME IInv, fault = "none", NEW p \in Proc, NEW c,
         \/ UNCHANGED coro_count /\ (Waits(c) <=> Waits(call[p]))
         \/ Enter(p) /\ Waits(c) /\ ~Waits(call[p])
         \/ Leave(p) /\ ~Waits(c) /\ Waits(call[p])
         \/ coro_count' = [coro_count EXCEPT ![p] = IF Waits(c) THEN 1 ELSE 0]
  PROVE  coro_count' = [coro_count EXCEPT ![p] = IF Waits(c) THEN 1 ELSE 0]
<1>1. /\ coro_count \in [Proc -> 0 .. 1]
      /\ coro_count[p] = IF Waits(call[p]) THEN 1 ELSE 0
  BY DEF IInv, TypeOK
<1>2. CASE UNCHANGED coro_count /\ (Waits(c) <=> Waits(call[p]))
  BY <1>1, <1>2
<1>3. CASE Enter(p) /\ Waits(c) /\ ~Waits(call[p])
  BY <1>1, <1>3 DEF Enter
<1>4. CASE Leave(p) /\ ~Waits(c) /\ Waits(call[p])
  BY <1>1, <1>4 DEF Leave
<1> QED
  BY <1>2, <1>3, <1>4

\* A step that ends or continues the call of p and leaves its descriptors.
LEMMA CallStep ==
  ASSUME IInv, fault = "none", NEW p \in Proc, NEW c \in Call,
         CallOK(c, Len(vn')), state[p] = "GONE" => ~Waits(c),
         call' = [call EXCEPT ![p] = c], fdt' = fdt, Grows,
         \/ UNCHANGED coro_count /\ (Waits(c) <=> Waits(call[p]))
         \/ Enter(p) /\ Waits(c) /\ ~Waits(call[p])
         \/ Leave(p) /\ ~Waits(c) /\ Waits(call[p])
         \/ coro_count' = [coro_count EXCEPT ![p] = IF Waits(c) THEN 1 ELSE 0]
  PROVE  StepOf(p, c, fdt[p])
<1>1. coro_count' = [coro_count EXCEPT ![p] = IF Waits(c) THEN 1 ELSE 0]
  BY OwnCount
<1>2. fdt[p] \in [Fd -> 0 .. Len(vn')] /\ fdt' = [fdt EXCEPT ![p] = fdt[p]]
  BY OwnTable
<1> QED
  BY <1>1, <1>2, Zenon DEF StepOf

\* The call VOP_EACHOPEN waits in.
OpenCall(name, v) ==
  [op |-> "open", step |-> "open", name |-> name, v |-> v, fh |-> NULL, fd |-> 0]

LEMMA EachOpenStep ==
  ASSUME IInv, fault = "none", NEW p \in Proc, NEW name \in Name, Grows,
         NEW v \in 1 .. Len(vn'), EachOpen(p, name, v, 0), state[p] # "GONE"
  PROVE  \/ state[p] = "ZOMBIE" /\ StepOf(p, NoCall, Placed(fdt[p], v))
         \/ StepOf(p, NoCall, fdt[p])
         \/ StepOf(p, OpenCall(name, v), fdt[p])
<1>0. Len(vn') \in Nat /\ 0 \in Fd
  BY FilesAssumption DEF Grows, Fd
<1>1. OpenCall(name, v) \in Call /\ Waits(OpenCall(name, v)) /\ CallOK(OpenCall(name, v), Len(vn'))
  <2>1. OpenCall(name, v) \in Call
    <3>1. "open" \in Ops /\ "open" \in Steps /\ name \in Name \cup {""}
      BY Zenon DEF Ops, Steps
    <3>2. NULL \in Handle /\ v \in Nat
      BY <1>0 DEF Handle, NULL
    <3> QED
      BY <1>0, <3>1, <3>2, MakeCall, Zenon DEF OpenCall
  <2>2. /\ OpenCall(name, v).op = "open" /\ OpenCall(name, v).step = "open"
        /\ OpenCall(name, v).name = name /\ OpenCall(name, v).v = v
    BY DEF OpenCall
  <2> QED
    BY <1>0, <2>1, <2>2 DEF Waits, CallOK
<1>2. CASE state[p] = "ZOMBIE"
  <2>1. /\ fdt' = [fdt EXCEPT ![p] = Placed(fdt[p], v)]
        /\ call' = [call EXCEPT ![p] = NoCall]
        /\ coro_count' = [coro_count EXCEPT ![p] = 0]
    BY <1>2 DEF EachOpen, Return
  <2>2. fdt[p] \in [Fd -> 0 .. Len(vn')]
    <3>1. Len(vn) \in Nat /\ Len(vn') >= Len(vn) /\ fdt[p] \in [Fd -> 0 .. Len(vn)]
      BY DEF IInv, TypeOK, Grows
    <3>2. 0 .. Len(vn) \subseteq 0 .. Len(vn')
      BY <1>0, <3>1
    <3> QED
      BY <3>1, <3>2
  <2>3. v \in 0 .. Len(vn')
    BY <1>0
  <2>4. Placed(fdt[p], v) \in [Fd -> 0 .. Len(vn')]
    BY <1>0, <2>2, <2>3, PlacedFacts, Zenon
  <2> QED
    BY <1>0, <1>2, <2>1, <2>4, NoCallFacts DEF StepOf
<1>3. CASE state[p] # "ZOMBIE" /\ name \in Refused
  <2>1. /\ fdt' = fdt /\ call' = [call EXCEPT ![p] = NoCall]
        /\ coro_count' = [coro_count EXCEPT ![p] = 0]
    BY <1>3 DEF EachOpen, Return
  <2> QED
    BY <1>0, <2>1, NoCallFacts, CallStep, Zenon
<1>4. CASE state[p] # "ZOMBIE" /\ name \notin Refused
  <2>1. /\ fdt' = fdt /\ call' = [call EXCEPT ![p] = OpenCall(name, v)]
        /\ coro_count' = [coro_count EXCEPT ![p] = 1]
    BY <1>4 DEF EachOpen, Await, OpenCall
  <2> QED
    BY <1>1, <2>1, CallStep, Zenon
<1> QED
  BY <1>2, <1>3, <1>4

\* A process that may make a system call is not in one.
LEMMA CallsFacts ==
  ASSUME IInv, NEW p \in Proc, Calls(p)
  PROVE  /\ fault = "none" /\ state[p] = "RUNNING" /\ call[p] = NoCall
         /\ ~Waits(call[p]) /\ coro_count[p] = 0
<1>1. fault = "none" /\ state[p] = "RUNNING" /\ call[p] = NoCall
  BY DEF Calls, Busy
<1>2. ~Waits(call[p])
  BY <1>1, NoCallFacts
<1> QED
  BY <1>1, <1>2 DEF IInv

LEMMA GrowsSame ==
  ASSUME IInv, UNCHANGED <<vn, handles, opened, srv, state>>,
         fault' \in {"none", "badhandle", "freed", "null", "exit"}
  PROVE  Grows
BY DEF IInv, TypeOK, Grows

LEMMA OpenIInv ==
  ASSUME IInv, NEW p \in Proc, NEW name \in Name, syscall_open(p, name)
  PROVE  IInv'
<1>0. /\ fault = "none" /\ state[p] = "RUNNING" /\ call[p] = NoCall
      /\ ~Waits(call[p]) /\ coro_count[p] = 0
  BY CallsFacts DEF syscall_open
<1>1. UNCHANGED <<vn, handles, opened, srv, state, fault>>
  BY DEF syscall_open
<1>2. Grows /\ Len(vn) \in Nat /\ vn' = vn
  BY <1>0, <1>1, GrowsSame DEF IInv, TypeOK
<1>3. CASE Find(name) # 0
  <2>1. Find(name) \in 1 .. Len(vn')
    BY <1>1, <1>2, <1>3, FindFacts DEF IInv
  <2>2. EachOpen(p, name, Find(name), 0)
    BY <1>0, <1>3 DEF syscall_open
  <2> HIDE DEF IInv
  <2> QED
    BY <1>0, <1>2, <2>1, <2>2, EachOpenStep, StepIInv
<1>4. CASE Find(name) = 0
  <2> DEFINE c == [op |-> "open", step |-> "lookup", name |-> name,
                   v |-> 0, fh |-> NULL, fd |-> 0]
  <2>1. call' = [call EXCEPT ![p] = c] /\ Enter(p) /\ fdt' = fdt
    BY <1>4 DEF syscall_open, Await
  <2>2. c \in Call /\ c.op = "open" /\ c.step = "lookup" /\ c.v = 0 /\ c.name = name
    <3>1. "open" \in Ops /\ "lookup" \in Steps /\ name \in Name \cup {""}
      BY Zenon DEF Ops, Steps
    <3>2. NULL \in Handle /\ 0 \in Nat /\ 0 \in Fd
      BY FilesAssumption DEF Handle, NULL, Fd
    <3> QED
      BY <3>1, <3>2, MakeCall, Zenon
  <2> HIDE DEF c
  <2>3. Waits(c) /\ CallOK(c, Len(vn'))
    BY <1>2, <2>2 DEF Waits, CallOK
  <2> QED
    BY <1>0, <1>2, <2>1, <2>2, <2>3, CallStep, StepIInv, Zenon
<1> QED
  BY <1>3, <1>4

LEMMA LoadIInv ==
  ASSUME IInv, NEW p \in Proc, NEW name \in Name, elf_load_fs(p, name)
  PROVE  IInv'
<1>0. /\ fault = "none" /\ state[p] = "RUNNING" /\ call[p] = NoCall
      /\ ~Waits(call[p]) /\ coro_count[p] = 0
  BY CallsFacts DEF elf_load_fs
<1>1. UNCHANGED <<vn, handles, opened, srv, fdt, state, coro_count, fault>>
  BY DEF elf_load_fs
<1>2. Grows /\ Len(vn) \in Nat
  BY <1>0, <1>1, GrowsSame DEF IInv, TypeOK
<1>3. Find(name) \in 0 .. Len(vn)
  BY FindFacts DEF IInv
<1> DEFINE c == [op |-> "load", step |-> IF Find(name) # 0 THEN "stat" ELSE "lookup",
                 name |-> name, v |-> Find(name), fh |-> NULL, fd |-> 0]
<1>4. call' = [call EXCEPT ![p] = c]
  BY DEF elf_load_fs, Await
<1>5. /\ c \in Call /\ c.op = "load" /\ c.v = Find(name) /\ c.name = name
      /\ c.step = IF Find(name) # 0 THEN "stat" ELSE "lookup"
  <2>1. /\ "load" \in Ops /\ (IF Find(name) # 0 THEN "stat" ELSE "lookup") \in Steps
        /\ name \in Name \cup {""}
    BY Zenon DEF Ops, Steps
  <2>2. NULL \in Handle /\ Find(name) \in Nat /\ 0 \in Fd
    BY <1>2, <1>3, FilesAssumption DEF Handle, NULL, Fd
  <2>3. c \in Call
    BY <2>1, <2>2, MakeCall, Zenon
  <2> QED
    BY <2>3
<1> HIDE DEF c
<1>6. ~Waits(c) /\ CallOK(c, Len(vn'))
  BY <1>1, <1>2, <1>3, <1>5 DEF Waits, CallOK
<1> QED
  BY <1>0, <1>1, <1>2, <1>4, <1>5, <1>6, CallStep, StepIInv, Zenon

\* A request with the handle it was given goes out, or SOS stops.
LEMMA RequestIInv ==
  ASSUME IInv, NEW p \in Proc, NEW c \in Call, fault = "none",
         Request(p, c), CallOK(c, Len(vn)), state[p] = "GONE" => ~Waits(c),
         UNCHANGED <<vn, handles, opened, srv, fdt, state>>,
         IF fault' = "none" /\ Waits(c) /\ ~Waits(call[p]) THEN Enter(p)
         ELSE UNCHANGED coro_count,
         Waits(call[p]) => Waits(c)
  PROVE  IInv'
<1>1. CASE c.fh \in handles
  <2>1. call' = [call EXCEPT ![p] = c] /\ fault' = "none"
    BY <1>1 DEF Request, Await
  <2>2. Grows
    BY <2>1, GrowsSame
  <2> QED
    BY <2>1, <2>2, CallStep, StepIInv, Zenon
<1>2. CASE c.fh \notin handles
  <2>1. fault' = "badhandle" /\ call' = call
    BY <1>2 DEF Request
  <2> QED
    BY <2>1, StopIInv
<1> QED
  BY <1>1, <1>2

LEMMA LookupIInv ==
  ASSUME IInv, NEW p \in Proc, fault = "none", nfs_lookup_cb(p)
  PROVE  IInv'
<1> DEFINE c == call[p]
           v == Len(vn) + 1
<1>0. c.step = "lookup"
  BY DEF nfs_lookup_cb
<1>1. /\ c \in CallRec
      /\ CallOK(c, Len(vn))
      /\ state[p] = "GONE" => ~Waits(c)
      /\ coro_count[p] = IF Waits(c) THEN 1 ELSE 0
  BY <1>0, CallFields, Zenon DEF IInv
<1>2. c.op \in {"open", "load"} /\ c.name \in Name /\ (c.op = "open" <=> Waits(c))
  <2>1. c.op \in Ops
    BY <1>0, CallFields, Zenon
  <2> QED
    BY <1>0, <1>1, <2>1 DEF CallOK, Waits, Ops
<1>3. Len(vn) \in Nat
  BY DEF IInv, TypeOK
<1>4. ASSUME vn' = WithVnode(c.name), UNCHANGED <<handles, opened, srv, state, fault>>
      PROVE  Grows /\ Len(vn') = v
  BY <1>2, <1>3, <1>4, NewVnode DEF IInv, TypeOK, Grows
<1>5. CASE c.name \in srv /\ c.op = "open"
  <2>1. vn' = WithVnode(c.name) /\ UNCHANGED <<handles, opened, srv, state, fault>>
    BY <1>5 DEF nfs_lookup_cb
  <2>2. EachOpen(p, c.name, v, coro_count[p] - 1)
    BY <1>5 DEF nfs_lookup_cb
  <2>3. coro_count[p] - 1 = 0 /\ state[p] # "GONE"
    BY <1>1, <1>2, <1>5
  <2>4. Grows /\ v \in 1 .. Len(vn') /\ EachOpen(p, c.name, v, 0)
    BY <1>3, <1>4, <2>1, <2>2, <2>3
  <2> HIDE DEF v, c
  <2> QED
    BY <1>2, <2>3, <2>4, EachOpenStep, StepIInv
<1>6. CASE c.name \in srv /\ c.op = "load"
  <2> DEFINE d == [c EXCEPT !.step = "stat", !.v = v]
  <2>1. /\ vn' = WithVnode(c.name) /\ UNCHANGED <<handles, opened, srv, state, fault>>
        /\ call' = [call EXCEPT ![p] = d] /\ UNCHANGED <<fdt, coro_count>>
    BY <1>6 DEF nfs_lookup_cb, Await
  <2>2. d \in Call /\ d.op = "load" /\ d.step = "stat" /\ d.v = v /\ d.name = c.name
    <3>1. "stat" \in Steps /\ v \in Nat
      BY <1>3 DEF Steps
    <3>2. d \in Call
      <4> HIDE DEF c, v
      <4> QED
        BY <1>1, <3>1, ChangeCall, Zenon
    <3> QED
      BY <1>1, <1>6, <3>2, Zenon DEF CallRec
  <2>3. Grows /\ Len(vn') = v
    BY <1>4, <2>1
  <2> HIDE DEF d
  <2>4. ~Waits(d) /\ CallOK(d, Len(vn')) /\ ~Waits(c)
    BY <1>2, <1>3, <1>6, <2>2, <2>3 DEF Waits, CallOK
  <2> QED
    BY <2>1, <2>2, <2>3, <2>4, CallStep, StepIInv, Zenon
<1>7. CASE c.name \notin srv /\ c.op = "open" /\ c.name \in Refused
  <2>1. Halt("badhandle")
    BY <1>7 DEF nfs_lookup_cb
  <2> QED
    BY <2>1, StopIInv DEF Halt
<1>8. CASE c.name \notin srv /\ c.op = "open" /\ c.name \notin Refused
  <2> DEFINE d == [c EXCEPT !.step = "create", !.v = v]
  <2>1. /\ vn' = WithVnode(c.name) /\ UNCHANGED <<handles, opened, srv, state, fault>>
        /\ call' = [call EXCEPT ![p] = d] /\ UNCHANGED <<fdt, coro_count>>
    BY <1>8 DEF nfs_lookup_cb, Await
  <2>2. d \in Call /\ d.op = "open" /\ d.step = "create" /\ d.v = v /\ d.name = c.name
    <3>1. "create" \in Steps /\ v \in Nat
      BY <1>3 DEF Steps
    <3>2. d \in Call
      <4> HIDE DEF c, v
      <4> QED
        BY <1>1, <3>1, ChangeCall, Zenon
    <3> QED
      BY <1>1, <1>8, <3>2, Zenon DEF CallRec
  <2>3. Grows /\ Len(vn') = v
    BY <1>4, <2>1
  <2> HIDE DEF d
  <2>4. Waits(d) /\ CallOK(d, Len(vn')) /\ Waits(c)
    BY <1>2, <1>3, <1>8, <2>2, <2>3 DEF Waits, CallOK
  <2> QED
    BY <1>1, <2>1, <2>2, <2>3, <2>4, CallStep, StepIInv, Zenon
<1>9. CASE c.name \notin srv /\ c.op = "load"
  <2>1. /\ call' = [call EXCEPT ![p] = NoCall]
        /\ UNCHANGED <<vn, handles, opened, srv, fdt, state, coro_count, fault>>
    BY <1>9 DEF nfs_lookup_cb, Return
  <2>2. Grows /\ ~Waits(c)
    BY <1>2, <1>9, <2>1, GrowsSame
  <2> QED
    BY <1>3, <2>1, <2>2, NoCallFacts, CallStep, StepIInv, Zenon
<1> QED
  BY <1>2, <1>5, <1>6, <1>7, <1>8, <1>9

\* The call of p that its callback resumes.
LEMMA Resumed ==
  ASSUME IInv, fault = "none", NEW p \in Proc, call[p].step # "none"
  PROVE  /\ call[p] \in CallRec
         /\ call[p].op \in Ops /\ call[p].fh \in Handle /\ call[p].fd \in Fd
         /\ CallOK(call[p], Len(vn)) /\ Len(vn) \in Nat
         /\ (state[p] = "GONE" => ~Waits(call[p]))
         /\ coro_count[p] = IF Waits(call[p]) THEN 1 ELSE 0
<1>1. Len(vn) \in Nat
  BY DEF IInv, TypeOK
<1> QED
  BY <1>1, CallFields, Zenon DEF IInv

LEMMA CreateIInv ==
  ASSUME IInv, NEW p \in Proc, fault = "none", nfs_create_cb(p)
  PROVE  IInv'
<1> DEFINE c == call[p]
           h == opened + 1
           d == [c EXCEPT !.step = "reclaim", !.fh = h]
<1>0. c.step = "create"
  BY DEF nfs_create_cb
<1>1. /\ c \in CallRec /\ c.op \in Ops /\ CallOK(c, Len(vn)) /\ Len(vn) \in Nat
      /\ (state[p] = "GONE" => ~Waits(c))
  BY <1>0, Resumed
<1>2. c.op = "open" /\ c.name \in Name /\ c.v \in 1 .. Len(vn) /\ Waits(c)
  BY <1>0, <1>1 DEF CallOK, Waits, Ops
<1>3. /\ opened' = h /\ handles' = handles \cup {h} /\ srv' = srv \cup {c.name}
      /\ vn' = [vn EXCEPT ![c.v].nfsfh = h] /\ call' = [call EXCEPT ![p] = d]
      /\ UNCHANGED <<fdt, state, coro_count, fault>>
  BY DEF nfs_create_cb, Await
<1>4. /\ opened \in Nat /\ handles \subseteq 1 .. opened /\ srv \subseteq Name /\ TypeOK
  BY DEF IInv, TypeOK
<1>5. h \in Handle /\ h \in Nat
  BY <1>4 DEF Handle
<1>6. vn' \in Seq(Vnode) /\ Len(vn') = Len(vn)
  <2> HIDE DEF c, h
  <2> QED
    BY <1>2, <1>3, <1>4, <1>5, SetHandle
<1>7. Grows
  BY <1>1, <1>2, <1>3, <1>4, <1>6 DEF Grows
<1>8. d \in Call /\ d.op = c.op /\ d.step = "reclaim" /\ d.v = c.v /\ d.name = c.name
  <2>1. "reclaim" \in Steps
    BY DEF Steps
  <2>2. d \in Call
    <3> HIDE DEF c, h
    <3> QED
      BY <1>1, <1>5, <2>1, ChangeCall, Zenon
  <2> QED
    BY <1>1, <2>2, Zenon DEF CallRec
<1> HIDE DEF d, h
<1>9. Waits(d) /\ CallOK(d, Len(vn'))
  BY <1>1, <1>2, <1>6, <1>8 DEF Waits, CallOK
<1> QED
  BY <1>1, <1>2, <1>3, <1>7, <1>8, <1>9, CallStep, StepIInv, Zenon

LEMMA ReclaimIInv ==
  ASSUME IInv, NEW p \in Proc, fault = "none", reclaim_cb(p)
  PROVE  IInv'
<1> DEFINE c == call[p]
<1>0. c.step = "reclaim"
  BY DEF reclaim_cb
<1>1. /\ c \in CallRec /\ c.op \in Ops /\ CallOK(c, Len(vn)) /\ Len(vn) \in Nat
      /\ (state[p] = "GONE" => ~Waits(c))
      /\ coro_count[p] = IF Waits(c) THEN 1 ELSE 0
  BY <1>0, Resumed
<1>2. c.op = "open" /\ c.name \in Name /\ c.v \in 1 .. Len(vn) /\ Waits(c)
  BY <1>0, <1>1 DEF CallOK, Waits, Ops
<1>3. CASE c.fh \notin handles
  <2>1. Halt("freed")
    BY <1>3 DEF reclaim_cb
  <2> QED
    BY <2>1, StopIInv DEF Halt
<1>4. CASE c.fh \in handles
  <2>1. /\ handles' = handles \ {c.fh} /\ vn' = Closed(c)
        /\ EachOpen(p, c.name, c.v, coro_count[p] - 1)
        /\ UNCHANGED <<opened, srv, state, fault>>
    BY <1>4 DEF reclaim_cb
  <2>2. TypeOK /\ NULL \in Handle
    BY DEF IInv, NULL, Handle
  <2>3. vn' \in Seq(Vnode) /\ Len(vn') = Len(vn)
    <3> HIDE DEF c
    <3> QED
      BY <1>2, <2>1, <2>2, SetHandle DEF Closed
  <2>4. Grows
    <3>1. opened \in Nat /\ handles \subseteq 1 .. opened /\ srv \subseteq Name
      BY <2>2 DEF TypeOK
    <3>2. handles' \subseteq 1 .. opened'
      BY <2>1, <3>1, Zenon
    <3>3. fault' = "none"
      BY <2>1
    <3> QED
      BY <1>1, <2>1, <2>3, <3>1, <3>2, <3>3 DEF Grows
  <2>5. coro_count[p] - 1 = 0 /\ state[p] # "GONE"
    BY <1>1, <1>2
  <2>6. c.v \in 1 .. Len(vn') /\ EachOpen(p, c.name, c.v, 0)
    BY <1>2, <2>1, <2>3, <2>5
  <2> HIDE DEF c
  <2> QED
    BY <1>2, <2>4, <2>5, <2>6, EachOpenStep, StepIInv
<1> QED
  BY <1>3, <1>4

LEMMA StatIInv ==
  ASSUME IInv, NEW p \in Proc, fault = "none", nfs_stat64_cb(p)
  PROVE  IInv'
<1> DEFINE c == call[p]
<1>0. c.step = "stat"
  BY DEF nfs_stat64_cb
<1>1. /\ c \in CallRec /\ c.op \in Ops /\ CallOK(c, Len(vn)) /\ Len(vn) \in Nat
  BY <1>0, Resumed
<1>2. c.op = "load" /\ c.name \in Name /\ c.v \in 1 .. Len(vn) /\ ~Waits(c)
  BY <1>0, <1>1 DEF CallOK, Waits, Ops
<1>3. UNCHANGED <<vn, handles, opened, srv, fdt, state, coro_count>>
  BY DEF nfs_stat64_cb
<1>4. vn[c.v].nfsfh \in Handle
  <2>1. vn[c.v] \in Vnode
    BY <1>1, <1>2 DEF IInv, TypeOK
  <2> QED
    BY <2>1 DEF Vnode
<1>5. CASE Request(p, [c EXCEPT !.step = "data", !.fh = vn[c.v].nfsfh])
  <2> DEFINE d == [c EXCEPT !.step = "data", !.fh = vn[c.v].nfsfh]
  <2>1. "data" \in Steps
    BY DEF Steps
  <2>2. d \in Call
    <3> HIDE DEF c
    <3> QED
      BY <1>1, <1>4, <2>1, ChangeCall, Zenon
  <2>3. d.op = "load" /\ d.step = "data" /\ d.v = c.v /\ d.name = c.name
    BY <1>1, <1>2, Zenon DEF CallRec
  <2> HIDE DEF d
  <2>4. ~Waits(d) /\ CallOK(d, Len(vn))
    BY <1>1, <1>2, <2>3 DEF Waits, CallOK
  <2>5. Request(p, d)
    BY <1>5 DEF d
  <2> QED
    BY <1>2, <1>3, <2>2, <2>4, <2>5, RequestIInv
<1>6. CASE Await(p, [c EXCEPT !.step = "open"]) /\ UNCHANGED fault
  <2> DEFINE d == [c EXCEPT !.step = "open"]
  <2>1. "open" \in Steps
    BY DEF Steps
  <2>2. d \in Call
    <3> HIDE DEF c
    <3> QED
      BY <1>1, <2>1, ChangeCall, Zenon
  <2>3. d.op = "load" /\ d.step = "open" /\ d.v = c.v /\ d.name = c.name
    BY <1>1, <1>2, Zenon DEF CallRec
  <2> HIDE DEF d
  <2>4. ~Waits(d) /\ CallOK(d, Len(vn'))
    BY <1>1, <1>2, <1>3, <2>3 DEF Waits, CallOK
  <2>5. call' = [call EXCEPT ![p] = d] /\ Grows
    BY <1>3, <1>6, GrowsSame DEF d, Await
  <2> QED
    BY <1>2, <1>3, <2>2, <2>4, <2>5, CallStep, StepIInv, Zenon
<1>7. CASE Return(p) /\ UNCHANGED fault
  <2>1. call' = [call EXCEPT ![p] = NoCall] /\ Grows
    BY <1>3, <1>7, GrowsSame DEF Return
  <2> QED
    BY <1>1, <1>2, <1>3, <2>1, NoCallFacts, CallStep, StepIInv, Zenon
<1> QED
  BY <1>5, <1>6, <1>7 DEF nfs_stat64_cb

LEMMA OpenedIInv ==
  ASSUME IInv, NEW p \in Proc, fault = "none", nfs_open_cb(p)
  PROVE  IInv'
<1> DEFINE c == call[p]
           ok == c.name \notin Unopenable
           h == IF ok THEN opened + 1 ELSE JUNK
<1>0. c.step = "open"
  BY DEF nfs_open_cb
<1>1. /\ c \in CallRec /\ c.op \in Ops /\ CallOK(c, Len(vn)) /\ Len(vn) \in Nat
      /\ (state[p] = "GONE" => ~Waits(c))
  BY <1>0, Resumed
<1>2. c.op \in {"open", "load"} /\ c.name \in Name /\ c.v \in 1 .. Len(vn)
  BY <1>0, <1>1 DEF CallOK, Ops
<1>3. /\ opened' = IF ok THEN h ELSE opened
      /\ handles' = IF ok THEN handles \cup {h} ELSE handles
      /\ vn' = [vn EXCEPT ![c.v].nfsfh = h]
      /\ UNCHANGED <<srv, state>>
  BY DEF nfs_open_cb
<1>4. /\ opened \in Nat /\ handles \subseteq 1 .. opened /\ srv \subseteq Name /\ TypeOK
  BY DEF IInv, TypeOK
<1>5. h \in Handle /\ (ok => h = opened + 1)
  <2>1. opened + 1 \in Handle /\ JUNK \in Handle
    BY <1>4 DEF Handle
  <2> QED
    BY <2>1
<1>6. vn' \in Seq(Vnode) /\ Len(vn') = Len(vn)
  <2> HIDE DEF c, h
  <2> QED
    BY <1>2, <1>3, <1>4, <1>5, SetHandle
<1>7. ASSUME fault' \in {"none", "badhandle"} PROVE Grows
  <2> HIDE DEF c, h, ok
  <2> QED
    BY <1>1, <1>3, <1>4, <1>5, <1>6, <1>7 DEF Grows
<1>8. CASE c.op = "open"
  <2>1. /\ fdt' = IF ok THEN [fdt EXCEPT ![p] = Placed(@, c.v)] ELSE fdt
        /\ call' = [call EXCEPT ![p] = NoCall] /\ Leave(p) /\ UNCHANGED fault
    BY <1>8 DEF nfs_open_cb, Return
  <2>2. Grows /\ Waits(c)
    BY <1>7, <1>8, <2>1 DEF Waits
  <2>3. CASE ok
    <3>1. coro_count' = [coro_count EXCEPT ![p] = IF Waits(NoCall) THEN 1 ELSE 0]
      BY <2>1, <2>2, NoCallFacts, OwnCount
    <3>2. fdt[p] \in [Fd -> 0 .. Len(vn')] /\ c.v \in 0 .. Len(vn')
      BY <1>1, <1>2, <1>4, <1>6 DEF TypeOK
    <3>3. Placed(fdt[p], c.v) \in [Fd -> 0 .. Len(vn')]
      <4> HIDE DEF c
      <4> QED
        BY <1>1, <1>6, <3>2, PlacedFacts
    <3>4. fdt' = [fdt EXCEPT ![p] = Placed(fdt[p], c.v)]
      BY <2>1, <2>3, <1>4 DEF TypeOK
    <3>5. StepOf(p, NoCall, Placed(fdt[p], c.v))
      BY <1>1, <1>6, <2>1, <2>2, <3>1, <3>3, <3>4, NoCallFacts, Zenon DEF StepOf
    <3> QED
      BY <3>5, StepIInv
  <2>4. CASE ~ok
    BY <1>1, <1>6, <2>1, <2>2, <2>4, NoCallFacts, CallStep, StepIInv, Zenon
  <2> QED
    BY <2>3, <2>4
<1>9. CASE c.op = "load"
  <2>1. /\ fault' = IF ok THEN fault ELSE "badhandle"
        /\ call' = IF ok THEN [call EXCEPT ![p].step = "data", ![p].fh = h] ELSE call
        /\ UNCHANGED <<fdt, coro_count>>
    BY <1>9 DEF nfs_open_cb
  <2>2. Grows
    BY <1>7, <2>1
  <2>3. CASE ok
    <3> DEFINE d == [c EXCEPT !.step = "data", !.fh = h]
    <3>1. "data" \in Steps
      BY DEF Steps
    <3>2. d \in Call
      <4> HIDE DEF c, h
      <4> QED
        BY <1>1, <1>5, <3>1, ChangeCall, Zenon
    <3>3. d.op = "load" /\ d.step = "data" /\ d.v = c.v /\ d.name = c.name
      BY <1>1, <1>9, Zenon DEF CallRec
    <3>4. call' = [call EXCEPT ![p] = d]
      BY <2>1, <2>3, <1>4, Zenon DEF TypeOK
    <3> HIDE DEF d
    <3>5. ~Waits(d) /\ CallOK(d, Len(vn')) /\ ~Waits(c)
      BY <1>1, <1>2, <1>6, <1>9, <3>3 DEF Waits, CallOK
    <3> QED
      BY <1>1, <2>1, <2>2, <3>2, <3>4, <3>5, CallStep, StepIInv, Zenon
  <2>4. CASE ~ok
    <3>1. fault' = "badhandle" /\ call' = call /\ UNCHANGED <<fdt, coro_count, state>>
      BY <1>3, <2>1, <2>4
    <3>2. TypeOK'
      BY <1>3, <1>4, <1>6, <2>2, <3>1 DEF TypeOK, Grows
    <3> QED
      BY <1>6, <3>1, <3>2 DEF IInv
  <2> QED
    BY <2>3, <2>4
<1> QED
  BY <1>2, <1>8, <1>9

\* A descriptor that is open names a vnode.
LEMMA OpenFile ==
  ASSUME TypeOK, NEW p \in Proc, NEW fd \in Fd, fdt[p][fd] # 0
  PROVE  /\ fdt[p][fd] \in 1 .. Len(vn) /\ Len(vn) \in Nat
         /\ vn[fdt[p][fd]].path \in Name /\ vn[fdt[p][fd]].nfsfh \in Handle
<1>1. fdt[p][fd] \in 1 .. Len(vn) /\ Len(vn) \in Nat
  BY DEF TypeOK
<1>2. vn[fdt[p][fd]] \in Vnode
  BY <1>1 DEF TypeOK
<1> QED
  BY <1>1, <1>2 DEF Vnode

\* syscall_read, syscall_write and syscall_close start alike.
LEMMA UseIInv ==
  ASSUME IInv, NEW p \in Proc, NEW fd \in Fd, Calls(p), fdt[p][fd] # 0,
         NEW op \in {"rw", "close"}, NEW step, step = IF op = "rw" THEN "data" ELSE "close",
         Request(p, [op |-> op, step |-> step, name |-> vn[fdt[p][fd]].path,
                     v |-> fdt[p][fd], fh |-> vn[fdt[p][fd]].nfsfh, fd |-> fd]),
         IF fault' = "none" THEN Enter(p) ELSE UNCHANGED coro_count,
         UNCHANGED <<vn, handles, opened, srv, fdt, state>>
  PROVE  IInv'
<1> DEFINE v == fdt[p][fd]
           d == [op |-> op, step |-> step, name |-> vn[v].path, v |-> v,
                 fh |-> vn[v].nfsfh, fd |-> fd]
<1>0. /\ fault = "none" /\ state[p] = "RUNNING" /\ ~Waits(call[p])
  BY CallsFacts
<1>1. v \in 1 .. Len(vn) /\ Len(vn) \in Nat /\ vn[v].path \in Name /\ vn[v].nfsfh \in Handle
  BY OpenFile DEF IInv
<1>2. op \in Ops /\ step \in Steps /\ vn[v].path \in Name \cup {""}
  BY <1>1, Zenon DEF Ops, Steps
<1>3. d \in Call
  <2>1. v \in Nat
    BY <1>1
  <2> HIDE DEF v
  <2> QED
    BY <1>1, <1>2, <2>1, MakeCall, Zenon
<1>4. d.op = op /\ d.step = step /\ d.v = v
  OBVIOUS
<1>5. Request(p, d)
  OBVIOUS
<1> HIDE DEF d
<1>6. Waits(d) /\ CallOK(d, Len(vn))
  BY <1>1, <1>4 DEF Waits, CallOK
<1> QED
  BY <1>0, <1>3, <1>5, <1>6, RequestIInv

LEMMA ReadWriteIInv ==
  ASSUME IInv, NEW p \in Proc, NEW fd \in Fd, syscall_readwrite(p, fd)
  PROVE  IInv'
BY UseIInv DEF syscall_readwrite

LEMMA CloseIInv ==
  ASSUME IInv, NEW p \in Proc, NEW fd \in Fd, syscall_close(p, fd)
  PROVE  IInv'
<1>1. CASE fdt[p][fd] = 0
  <2>1. fault' = "null" /\ call' = call /\ UNCHANGED <<vn, handles, opened, srv, fdt, state>>
    BY <1>1 DEF syscall_close
  <2>2. UNCHANGED coro_count
    BY <2>1 DEF syscall_close
  <2> QED
    BY <2>1, <2>2, StopIInv
<1>2. CASE fdt[p][fd] # 0
  BY <1>2, UseIInv DEF syscall_close
<1> QED
  BY <1>1, <1>2

LEMMA DataIInv ==
  ASSUME IInv, NEW p \in Proc, fault = "none", data_cb(p)
  PROVE  IInv'
<1> DEFINE c == call[p]
<1>0. c.step = "data"
  BY DEF data_cb
<1>1. /\ c \in CallRec /\ c.op \in Ops /\ CallOK(c, Len(vn)) /\ Len(vn) \in Nat
  BY <1>0, Resumed
<1>2. c.op \in {"rw", "load"} /\ c.v \in 1 .. Len(vn)
  BY <1>0, <1>1 DEF CallOK, Ops
<1>3. CASE Halt("freed")
  BY <1>3, StopIInv DEF Halt
<1>4. CASE c.fh \in handles /\ c.op = "rw" /\ ~Halt("freed")
  <2>1. /\ call' = [call EXCEPT ![p] = NoCall] /\ Leave(p)
        /\ UNCHANGED <<vn, handles, opened, srv, fdt, state, fault>>
    BY <1>4 DEF data_cb, Return
  <2>2. Grows /\ Waits(c)
    BY <1>4, <2>1, GrowsSame DEF Waits
  <2> QED
    BY <1>1, <2>1, <2>2, NoCallFacts, CallStep, StepIInv, Zenon
<1>5. CASE c.fh \in handles /\ c.op = "load"
  <2>0. ~Waits(c) /\ c.name \in Name
    BY <1>1, <1>5 DEF Waits, CallOK
  <2>1. /\ \/ Return(p) /\ UNCHANGED fault
           \/ Request(p, [c EXCEPT !.fh = vn[c.v].nfsfh])
        /\ UNCHANGED <<vn, handles, opened, srv, fdt, state, coro_count>>
    BY <1>5, Zenon DEF data_cb
  <2>2. CASE Return(p) /\ UNCHANGED fault
    <3>1. call' = [call EXCEPT ![p] = NoCall] /\ Grows
      BY <2>1, <2>2, GrowsSame DEF Return
    <3> QED
      BY <1>1, <2>0, <2>1, <3>1, NoCallFacts, CallStep, StepIInv, Zenon
  <2>3. CASE Request(p, [c EXCEPT !.fh = vn[c.v].nfsfh])
    <3> DEFINE d == [c EXCEPT !.fh = vn[c.v].nfsfh]
    <3>1. vn[c.v].nfsfh \in Handle
      <4>1. vn[c.v] \in Vnode
        BY <1>1, <1>2 DEF IInv, TypeOK
      <4> QED
        BY <4>1 DEF Vnode
    <3>2. d \in Call
      <4> HIDE DEF c
      <4> QED
        BY <1>1, <3>1, ChangeCall, Zenon
    <3>3. d.op = "load" /\ d.step = "data" /\ d.v = c.v /\ d.name = c.name
      BY <1>0, <1>1, <1>5, Zenon DEF CallRec
    <3> HIDE DEF d
    <3>4. ~Waits(d) /\ CallOK(d, Len(vn))
      BY <1>1, <1>2, <2>0, <3>3 DEF Waits, CallOK
    <3>5. Request(p, d)
      BY <2>3 DEF d
    <3> QED
      BY <2>0, <2>1, <3>2, <3>4, <3>5, RequestIInv
  <2> QED
    BY <2>1, <2>2, <2>3
<1>6. CASE c.fh \notin handles
  <2>1. Halt("freed")
    BY <1>6, Zenon DEF data_cb
  <2> QED
    BY <1>3, <2>1
<1> QED
  BY <1>2, <1>3, <1>4, <1>5, <1>6

LEMMA ClosedIInv ==
  ASSUME IInv, NEW p \in Proc, fault = "none", nfs_close_cb(p)
  PROVE  IInv'
<1> DEFINE c == call[p]
<1>0. c.step = "close"
  BY DEF nfs_close_cb
<1>1. /\ c \in CallRec /\ c.op \in Ops /\ c.fd \in Fd /\ CallOK(c, Len(vn)) /\ Len(vn) \in Nat
  BY <1>0, Resumed
<1>2. c.op = "close" /\ c.v \in 1 .. Len(vn) /\ Waits(c)
  BY <1>0, <1>1 DEF CallOK, Waits, Ops
<1>3. CASE c.fh \notin handles
  <2>1. Halt("freed")
    BY <1>3 DEF nfs_close_cb
  <2> QED
    BY <2>1, StopIInv DEF Halt
<1>4. CASE c.fh \in handles
  <2>1. /\ handles' = handles \ {c.fh} /\ vn' = Closed(c)
        /\ fdt' = [fdt EXCEPT ![p][c.fd] = 0]
        /\ call' = [call EXCEPT ![p] = NoCall] /\ Leave(p)
        /\ UNCHANGED <<opened, srv, state, fault>>
    BY <1>4 DEF nfs_close_cb, Return
  <2>2. TypeOK /\ NULL \in Handle
    BY DEF IInv, NULL, Handle
  <2>3. vn' \in Seq(Vnode) /\ Len(vn') = Len(vn)
    <3> HIDE DEF c
    <3> QED
      BY <1>2, <2>1, <2>2, SetHandle DEF Closed
  <2>4. Grows
    <3>1. opened \in Nat /\ handles \subseteq 1 .. opened /\ srv \subseteq Name
      BY <2>2 DEF TypeOK
    <3>2. handles' \subseteq 1 .. opened'
      BY <2>1, <3>1
    <3>3. fault' = "none"
      BY <2>1
    <3> QED
      BY <1>1, <2>1, <2>3, <3>1, <3>2, <3>3 DEF Grows
  <2>5. /\ fdt' = [fdt EXCEPT ![p] = [fdt[p] EXCEPT ![c.fd] = 0]]
        /\ [fdt[p] EXCEPT ![c.fd] = 0] \in [Fd -> 0 .. Len(vn')]
    BY <1>1, <2>1, <2>2, <2>3 DEF TypeOK
  <2>6. coro_count' = [coro_count EXCEPT ![p] = IF Waits(NoCall) THEN 1 ELSE 0]
    BY <1>2, <2>1, NoCallFacts, OwnCount
  <2>7. StepOf(p, NoCall, [fdt[p] EXCEPT ![c.fd] = 0])
    BY <1>1, <2>1, <2>3, <2>4, <2>5, <2>6, NoCallFacts DEF StepOf
  <2> QED
    BY <2>7, StepIInv
<1> QED
  BY <1>3, <1>4

LEMMA QueryIInv ==
  ASSUME IInv, NEW p \in Proc, syscall_query(p)
  PROVE  IInv'
<1> DEFINE d == [op |-> "query", step |-> "query", name |-> "", v |-> 0,
                 fh |-> NULL, fd |-> 0]
<1>0. /\ fault = "none" /\ state[p] = "RUNNING" /\ ~Waits(call[p])
  BY CallsFacts, Zenon DEF syscall_query
<1>1. /\ call' = [call EXCEPT ![p] = d] /\ Enter(p)
      /\ UNCHANGED <<vn, handles, opened, srv, fdt, state, fault>>
  BY Zenon DEF syscall_query, Await
<1>2. d \in Call
  <2>1. "query" \in Ops /\ "query" \in Steps /\ "" \in Name \cup {""}
    BY DEF Ops, Steps
  <2>2. NULL \in Handle /\ 0 \in Nat /\ 0 \in Fd
    BY FilesAssumption DEF Handle, NULL, Fd
  <2> QED
    BY <2>1, <2>2, MakeCall, Zenon
<1>3. d.op = "query" /\ d.step = "query" /\ d.v = 0
  OBVIOUS
<1> HIDE DEF d
<1>4. Len(vn) \in Nat
  BY DEF IInv, TypeOK
<1>5. Waits(d) /\ CallOK(d, Len(vn')) /\ Grows
  BY <1>0, <1>1, <1>3, <1>4, GrowsSame DEF Waits, CallOK
<1> QED
  BY <1>0, <1>1, <1>2, <1>5, CallStep, StepIInv, Zenon

LEMMA QueriedIInv ==
  ASSUME IInv, NEW p \in Proc, fault = "none", query_cb(p)
  PROVE  IInv'
<1> DEFINE c == call[p]
<1>0. c.step = "query"
  BY DEF query_cb
<1>1. /\ c.op \in Ops /\ CallOK(c, Len(vn)) /\ Len(vn) \in Nat
  BY <1>0, Resumed
<1>2. Waits(c)
  BY <1>0, <1>1 DEF CallOK, Waits, Ops
<1>3. /\ call' = [call EXCEPT ![p] = NoCall] /\ Leave(p)
      /\ UNCHANGED <<vn, handles, opened, srv, fdt, state, fault>>
  BY DEF query_cb, Return
<1>4. Grows
  BY <1>3, GrowsSame
<1> QED
  BY <1>1, <1>2, <1>3, <1>4, NoCallFacts, CallStep, StepIInv, Zenon

LEMMA ZombiefyIInv ==
  ASSUME IInv, NEW p \in Proc, zombiefy(p)
  PROVE  IInv'
<1>1. /\ state' = [state EXCEPT ![p] = "ZOMBIE"]
      /\ UNCHANGED <<vn, handles, opened, srv, fdt, coro_count, call, fault>>
  BY DEF zombiefy
<1>2. TypeOK'
  BY <1>1 DEF IInv, TypeOK
<1>3. \A q \in Proc : state'[q] = "GONE" => state[q] = "GONE"
  BY <1>1 DEF IInv, TypeOK
<1> QED
  BY <1>1, <1>2, <1>3 DEF IInv

LEMMA DestroyIInv ==
  ASSUME IInv, NEW p \in Proc, proc_destroy(p)
  PROVE  IInv'
<1>1. /\ fault = "none" /\ coro_count[p] = 0
      /\ state' = [state EXCEPT ![p] = "GONE"]
      /\ fdt' = [fdt EXCEPT ![p] = [fd \in Fd |-> 0]]
      /\ UNCHANGED <<vn, handles, opened, srv, coro_count, call, fault>>
  BY DEF proc_destroy
<1>2. Len(vn) \in Nat /\ TypeOK
  BY DEF IInv, TypeOK
<1>3. fdt' \in [Proc -> [Fd -> 0 .. Len(vn')]]
  <2>1. [fd \in Fd |-> 0] \in [Fd -> 0 .. Len(vn)]
    BY <1>2
  <2> QED
    BY <1>1, <1>2, <2>1 DEF TypeOK
<1>4. state' \in [Proc -> {"RUNNING", "ZOMBIE", "GONE"}]
  BY <1>1, <1>2 DEF TypeOK
<1>5. TypeOK'
  BY <1>1, <1>2, <1>3, <1>4 DEF TypeOK
<1>6. ~Waits(call[p])
  BY <1>1 DEF IInv
<1>7. \A q \in Proc : state'[q] = "GONE" => q = p \/ state[q] = "GONE"
  BY <1>1, <1>2 DEF TypeOK
<1> QED
  BY <1>1, <1>5, <1>6, <1>7 DEF IInv

LEMMA NextIInv == IInv /\ [Next]_vars => IInv'
<1> SUFFICES ASSUME IInv, [Next]_vars PROVE IInv'
  OBVIOUS
<1>1. CASE UNCHANGED vars
  BY <1>1, StopIInv DEF vars, IInv, TypeOK
<1>2. CASE Next
  <2> PICK p \in Proc :
        \/ \E name \in Name : syscall_open(p, name) \/ elf_load_fs(p, name)
        \/ \E fd \in Fd : syscall_readwrite(p, fd) \/ syscall_close(p, fd)
        \/ syscall_query(p)
        \/ Callback(p)
        \/ zombiefy(p)
        \/ proc_destroy(p)
    BY <1>2 DEF Next
  <2>1. CASE Callback(p)
    <3>1. CASE nfs_error(p)
      BY <3>1, StopIInv, Zenon DEF nfs_error, Halt
    <3> QED
      BY <2>1, <3>1, LookupIInv, CreateIInv, ReclaimIInv, StatIInv, OpenedIInv, DataIInv,
         ClosedIInv, QueriedIInv DEF Callback
  <2> QED
    BY <2>1, OpenIInv, LoadIInv, ReadWriteIInv, CloseIInv, QueryIInv, ZombiefyIInv, DestroyIInv
<1> QED
  BY <1>1, <1>2

LEMMA Inductive == Spec => []IInv
BY InitIInv, NextIInv, PTL DEF Spec

\* Every file system call takes coro_count down as often as up, whatever the
\* clients open, share, close or kill and whatever the server answers: the
\* count is the number of handlers that wait in the process's name, and
\* proc_destroy frees no open file under one.
THEOREM CountExact == Spec => []HandlersCounted
<1>1. IInv => HandlersCounted
  BY DEF IInv, HandlersCounted, Waits
<1> QED
  BY <1>1, Inductive, PTL

-----------------------------------------------------------------------------
\* What the server must grant: it can open every program, and it rejects no
\* name at once that it does not have.
Openable ==
  /\ Refused \subseteq Existing
  /\ Exec \cap (Refused \cup Unopenable) = {}

\* The calls that use a file by its name or by a descriptor.
Uses(c) == c.op \in {"open", "load", "rw", "close"}

Path(v) == vn[v].path

\* The call is about the file it names.
NamedAs(p, c) ==
  /\ c.op \in {"open", "load"} /\ c.v # 0 => Path(c.v) = c.name
  /\ c.op \in {"rw", "close"} => fdt[p][c.fd] = c.v /\ Path(c.v) = c.name

Named(p) == NamedAs(p, call[p])

\* Clients that share no open file: one call or one descriptor for each name,
\* whatever vnodes the name has, except for programs loaded side by side.
Sharing ==
  /\ \A p \in Proc : Named(p)
  /\ \A p, q \in Proc :
       p # q /\ Uses(call[p]) /\ Uses(call[q]) /\ call[p].name = call[q].name
         => call[p].op = "load" /\ call[q].op = "load"
  /\ \A p, q \in Proc, fd \in Fd :
       call[p].op \in {"open", "load"} /\ fdt[q][fd] # 0 => Path(fdt[q][fd]) # call[p].name
  /\ \A p, q \in Proc, fd, gd \in Fd :
       fdt[p][fd] # 0 /\ fdt[q][gd] # 0 /\ Path(fdt[p][fd]) = Path(fdt[q][gd])
         => p = q /\ fd = gd

\* The handle a pending call works on is open, and it is the vnode's unless
\* another load of the same program has opened the vnode since.
HandleAs(c) ==
  /\ c.step \in {"reclaim", "close"} \/ c.op = "rw" => c.fh = vn[c.v].nfsfh
  /\ c.step \in {"reclaim", "data", "close"} => c.fh \in handles
  /\ c.op = "load" /\ c.step \in {"open", "data"} => c.name \in Exec
  /\ c.op = "load" /\ c.step = "data" =>
       /\ vn[c.v].nfsfh \in handles
       /\ \A i \in 1 .. Len(vn) : vn[i].nfsfh = c.fh => Path(i) = c.name

HandleOK(p) == HandleAs(call[p])

\* No two vnodes keep the same handle.
Handled ==
  /\ \A p \in Proc : HandleOK(p)
  /\ \A p \in Proc, fd \in Fd :
       state[p] = "RUNNING" /\ fdt[p][fd] # 0 => vn[fdt[p][fd]].nfsfh \in handles
  /\ \A i \in 1 .. Len(vn) : vn[i].nfsfh <= opened
  /\ \A i, j \in 1 .. Len(vn) : i # j /\ vn[i].nfsfh > 0 => vn[i].nfsfh # vn[j].nfsfh

SInv == IInv /\ fault \in {"none", "exit"} /\ Sharing /\ Handled

\* A step of p leaves the calls, the descriptors and the paths of the others.
Frame(p, c, t) ==
  /\ \A q \in Proc : call'[q] = IF q = p THEN c ELSE call[q]
  /\ \A q \in Proc : fdt'[q] = IF q = p THEN t ELSE fdt[q]
  /\ Len(vn') >= Len(vn)
  /\ \A i \in 1 .. Len(vn) : vn'[i].path = vn[i].path

\* What p may come to use, and what it may put in its table.
NewUse(p, c) ==
  Uses(c) =>
    \/ Uses(call[p]) /\ c.name = call[p].name /\ c.op = call[p].op
    \/ c.op \in {"open", "load"} /\ Unused(c.name, c.op)
    \/ /\ c.op \in {"rw", "close"} /\ c.fd \in Fd
       /\ fdt[p][c.fd] # 0 /\ Path(fdt[p][c.fd]) = c.name

NewTable(p, c, t) ==
  \E d \in Fd :
    /\ \A fd \in Fd : fd # d => t[fd] \in {0, fdt[p][fd]}
    /\ \/ t[d] \in {0, fdt[p][d]}
       \/ /\ call[p].op = "open" /\ ~Uses(c)
          /\ t[d] \in 1 .. Len(vn') /\ vn'[t[d]].path = call[p].name

LEMMA SharingStep ==
  ASSUME IInv, Sharing, NEW p \in Proc, NEW c, NEW t, Frame(p, c, t),
         Named(p)', NewUse(p, c), NewTable(p, c, t)
  PROVE  Sharing'
<1>0. /\ Len(vn) \in Nat
      /\ \A q \in Proc : \A fd \in Fd : fdt[q][fd] \in 0 .. Len(vn)
      /\ \A q \in Proc : call[q].v \in 0 .. Len(vn)
      /\ \A q \in Proc : call[q].op \in {"rw", "close"} => call[q].v # 0 /\ call[q].fd \in Fd
  <2>1. Len(vn) \in Nat /\ \A q \in Proc : \A fd \in Fd : fdt[q][fd] \in 0 .. Len(vn)
    BY DEF IInv, TypeOK
  <2>2. ASSUME NEW q \in Proc
        PROVE  /\ call[q].v \in 0 .. Len(vn)
               /\ call[q].op \in {"rw", "close"} => call[q].v # 0 /\ call[q].fd \in Fd
    <3>1. CallOK(call[q], Len(vn))
      BY DEF IInv
    <3>2. call[q].op \in {"rw", "close"} => call[q].step # "none"
      BY <3>1 DEF CallOK
    <3>3. call[q].op \in {"rw", "close"} => call[q].fd \in Fd
      BY <3>2, CallFields, Zenon
    <3> QED
      BY <3>1, <3>3 DEF CallOK
  <2> QED
    BY <2>1, <2>2
<1>1. /\ \A q \in Proc : q # p => call'[q] = call[q] /\ fdt'[q] = fdt[q]
      /\ call'[p] = c /\ fdt'[p] = t
      /\ \A i \in 1 .. Len(vn) : vn'[i].path = vn[i].path
  BY DEF Frame
<1>u. \A q, r \in Proc :
        q # r /\ Uses(call[q]) /\ Uses(call[r]) /\ call[q].name = call[r].name
          => call[q].op = "load" /\ call[r].op = "load"
  BY Zenon DEF Sharing
<1>o. \A q, r \in Proc, fd \in Fd :
        call[q].op \in {"open", "load"} /\ fdt[r][fd] # 0 => Path(fdt[r][fd]) # call[q].name
  BY Zenon DEF Sharing
<1>d. \A q, r \in Proc, fd, gd \in Fd :
        fdt[q][fd] # 0 /\ fdt[r][gd] # 0 /\ Path(fdt[q][fd]) = Path(fdt[r][gd])
          => q = r /\ fd = gd
  BY Zenon DEF Sharing
<1>2. PICK d \in Fd :
        /\ \A fd \in Fd : fd # d => t[fd] \in {0, fdt[p][fd]}
        /\ \/ t[d] \in {0, fdt[p][d]}
           \/ /\ call[p].op = "open" /\ ~Uses(c)
              /\ t[d] \in 1 .. Len(vn') /\ vn'[t[d]].path = call[p].name
  BY DEF NewTable
<1> DEFINE Old(q, fd) == fdt'[q][fd] = fdt[q][fd] /\ vn'[fdt'[q][fd]].path = Path(fdt[q][fd])
           New(q, fd) == /\ q = p /\ fd = d /\ call[p].op = "open" /\ ~Uses(c)
                         /\ vn'[fdt'[q][fd]].path = call[p].name
<1>3. ASSUME NEW q \in Proc, NEW fd \in Fd, fdt'[q][fd] # 0
      PROVE  Old(q, fd) \/ New(q, fd)
  <2>1. fdt'[q][fd] = fdt[q][fd] => Old(q, fd)
    <3>1. fdt[q][fd] \in 0 .. Len(vn) /\ Len(vn) \in Nat
      BY <1>0, Zenon
    <3> QED
      BY <1>1, <1>3, <3>1 DEF Path
  <2>2. CASE q # p
    BY <1>1, <2>1, <2>2, Zenon
  <2>3. CASE q = p /\ fd # d
    BY <1>1, <1>2, <1>3, <2>1, <2>3
  <2>4. CASE q = p /\ fd = d
    BY <1>1, <1>2, <1>3, <2>1, <2>4
  <2> QED
    BY <2>2, <2>3, <2>4, Zenon
<1> HIDE DEF Old, New
<1>4. ASSUME NEW q \in Proc PROVE Named(q)'
  <2>1. CASE q = p
    BY <2>1
  <2>2. CASE q # p
    <3>1. Named(q) /\ call'[q] = call[q] /\ fdt'[q] = fdt[q] /\ call[q].v \in 0 .. Len(vn)
      BY <1>0, <1>1, <2>2, Zenon DEF Sharing
    <3>2. call[q].v # 0 => vn'[call[q].v].path = vn[call[q].v].path
      BY <1>0, <1>1
    <3> QED
      BY <1>0, <3>1, <3>2 DEF Named, NamedAs, Path
  <2> QED
    BY <2>1, <2>2
<1>5. ASSUME NEW r \in Proc, r # p, Uses(c), Uses(call[r]), c.name = call[r].name
      PROVE  c.op = "load" /\ call[r].op = "load"
  <2>1. CASE Uses(call[p]) /\ c.name = call[p].name /\ c.op = call[p].op
    BY <1>5, <2>1, Zenon DEF Sharing
  <2>2. CASE c.op \in {"open", "load"} /\ Unused(c.name, c.op)
    BY <1>5, <2>2 DEF Unused
  <2>3. CASE /\ c.op \in {"rw", "close"} /\ c.fd \in Fd
             /\ fdt[p][c.fd] # 0 /\ Path(fdt[p][c.fd]) = c.name
    <3>1. CASE call[r].op \in {"open", "load"}
      BY <1>5, <2>3, <3>1 DEF Sharing
    <3>2. CASE call[r].op \in {"rw", "close"}
      <4>1. /\ call[r].fd \in Fd /\ fdt[r][call[r].fd] # 0
            /\ Path(fdt[r][call[r].fd]) = call[r].name
        BY <1>0, <3>2, Zenon DEF Sharing, Named, NamedAs
      <4> QED
        BY <1>d, <1>5, <2>3, <4>1
    <3> QED
      BY <1>5, <3>1, <3>2 DEF Uses
  <2> QED
    BY <1>5, <2>1, <2>2, <2>3 DEF NewUse
<1>6. ASSUME NEW q \in Proc, NEW r \in Proc, q # r, Uses(call'[q]), Uses(call'[r]),
             call'[q].name = call'[r].name
      PROVE  call'[q].op = "load" /\ call'[r].op = "load"
  <2>1. CASE q # p /\ r # p
    BY <1>1, <1>6, <2>1, Zenon DEF Sharing
  <2>2. CASE q = p
    BY <1>1, <1>5, <1>6, <2>2
  <2>3. CASE r = p
    BY <1>1, <1>5, <1>6, <2>3
  <2> QED
    BY <2>1, <2>2, <2>3
<1>7. ASSUME NEW q \in Proc, NEW r \in Proc, NEW fd \in Fd,
             call'[q].op \in {"open", "load"}, fdt'[r][fd] # 0
      PROVE  vn'[fdt'[r][fd]].path # call'[q].name
  <2>1. CASE New(r, fd)
    <3>1. q # p
      BY <1>1, <1>7, <2>1 DEF New, Uses
    <3> QED
      BY <1>u, <1>1, <1>7, <2>1, <3>1 DEF New, Uses
  <2>2. CASE Old(r, fd) /\ q # p
    BY <1>o, <1>1, <1>7, <2>2 DEF Old
  <2>3. CASE Old(r, fd) /\ q = p
    <3>1. fdt[r][fd] # 0 /\ vn'[fdt'[r][fd]].path = Path(fdt[r][fd]) /\ call'[q] = c
      BY <1>1, <1>7, <2>3 DEF Old
    <3>2. Uses(c) /\ c.op \in {"open", "load"}
      BY <1>7, <3>1 DEF Uses
    <3>3. CASE Uses(call[p]) /\ c.name = call[p].name /\ c.op = call[p].op
      BY <1>o, <3>1, <3>2, <3>3
    <3>4. CASE Unused(c.name, c.op)
      BY <3>1, <3>2, <3>4, Zenon DEF Unused, Path
    <3> QED
      BY <3>2, <3>3, <3>4 DEF NewUse
  <2> QED
    BY <1>3, <1>7, <2>1, <2>2, <2>3
<1>8. ASSUME NEW q \in Proc, NEW r \in Proc, NEW fd \in Fd, NEW gd \in Fd,
             fdt'[q][fd] # 0, fdt'[r][gd] # 0,
             vn'[fdt'[q][fd]].path = vn'[fdt'[r][gd]].path
      PROVE  q = r /\ fd = gd
  <2>1. CASE Old(q, fd) /\ Old(r, gd)
    BY <1>d, <1>8, <2>1 DEF Old
  <2>2. CASE New(q, fd) /\ New(r, gd)
    BY <2>2 DEF New
  <2>3. CASE Old(q, fd) /\ New(r, gd)
    BY <1>o, <1>8, <2>3 DEF Old, New
  <2>4. CASE New(q, fd) /\ Old(r, gd)
    BY <1>o, <1>8, <2>4 DEF Old, New
  <2> QED
    BY <1>3, <1>8, <2>1, <2>2, <2>3, <2>4
<1>9. /\ \A q \in Proc : Named(q)'
      /\ \A q, r \in Proc :
           q # r /\ Uses(call'[q]) /\ Uses(call'[r]) /\ call'[q].name = call'[r].name
             => call'[q].op = "load" /\ call'[r].op = "load"
  BY <1>4, <1>6
<1>10. \A q, r \in Proc, fd \in Fd :
         call'[q].op \in {"open", "load"} /\ fdt'[r][fd] # 0
           => Path(fdt[r][fd])' # call'[q].name
  BY <1>7 DEF Path
<1>11. \A q, r \in Proc, fd, gd \in Fd :
         fdt'[q][fd] # 0 /\ fdt'[r][gd] # 0 /\ Path(fdt[q][fd])' = Path(fdt[r][gd])'
           => q = r /\ fd = gd
  BY <1>8 DEF Path
<1> QED
  BY <1>9, <1>10, <1>11, Zenon DEF Sharing

\* What IInv says of vnodes, handles and calls, in the form used below.
LEMMA Ranges ==
  ASSUME IInv
  PROVE  /\ Len(vn) \in Nat /\ opened \in Nat /\ handles \subseteq 1 .. opened
         /\ \A i \in 1 .. Len(vn) : vn[i].nfsfh \in Handle
         /\ \A q \in Proc : \A fd \in Fd : fdt[q][fd] \in 0 .. Len(vn)
         /\ \A q \in Proc : CallOK(call[q], Len(vn)) /\ call[q].v \in 0 .. Len(vn)
         /\ \A q \in Proc : call[q].step \in {"reclaim", "close", "data"} =>
              call[q].v # 0 /\ Uses(call[q]) /\ call[q].fd \in Fd
         /\ \A q \in Proc : call[q].op = "rw" => call[q].step = "data"
         /\ \A q \in Proc : call[q].step \in {"reclaim", "close"} => call[q].op \in {"open", "close"}
         /\ \A q \in Proc : call[q].op \in {"rw", "close"} =>
              call[q].v # 0 /\ call[q].fd \in Fd
<1>1. /\ Len(vn) \in Nat /\ opened \in Nat /\ handles \subseteq 1 .. opened
      /\ \A i \in 1 .. Len(vn) : vn[i] \in Vnode
      /\ \A q \in Proc : \A fd \in Fd : fdt[q][fd] \in 0 .. Len(vn)
  BY DEF IInv, TypeOK
<1>2. \A i \in 1 .. Len(vn) : vn[i].nfsfh \in Handle
  BY <1>1 DEF Vnode
<1>3. ASSUME NEW q \in Proc
      PROVE  /\ CallOK(call[q], Len(vn)) /\ call[q].v \in 0 .. Len(vn)
             /\ call[q].step \in {"reclaim", "close", "data"} =>
                  call[q].v # 0 /\ Uses(call[q]) /\ call[q].fd \in Fd
             /\ call[q].op = "rw" => call[q].step = "data"
             /\ call[q].step \in {"reclaim", "close"} => call[q].op \in {"open", "close"}
             /\ call[q].op \in {"rw", "close"} => call[q].v # 0 /\ call[q].fd \in Fd
  <2>1. CallOK(call[q], Len(vn))
    BY DEF IInv
  <2>2. call[q].op \in {"rw", "close"} => call[q].step \in {"close", "data"}
    BY <2>1 DEF CallOK
  <2>3. call[q].step \in {"reclaim", "close", "data"} => call[q].op \in Ops /\ call[q].fd \in Fd
    BY CallFields, Zenon
  <2> QED
    BY <2>1, <2>2, <2>3 DEF CallOK, Ops, Uses
<1> QED
  BY <1>1, <1>2, <1>3, Zenon

\* The vnode of a call that has one.
LEMMA VnodeOf ==
  ASSUME IInv, NEW q \in Proc, call[q].v # 0
  PROVE  call[q].v \in 1 .. Len(vn) /\ Len(vn) \in Nat /\ TypeOK
<1>1. call[q].v \in 0 .. Len(vn) /\ Len(vn) \in Nat
  BY Ranges, Zenon
<1>2. call[q].v \in 1 .. Len(vn)
  BY <1>1
<1>3. TypeOK
  BY Zenon DEF IInv
<1> QED
  BY <1>1, <1>2, <1>3

\* A step that opens and closes nothing.
LEMMA QuietHandled ==
  ASSUME SInv, NEW p \in Proc, NEW c, NEW t, Frame(p, c, t),
         handles' = handles, opened' = opened,
         Len(vn') \in Nat, \A i \in 1 .. Len(vn) : vn'[i] = vn[i],
         \A i \in 1 .. Len(vn') : i > Len(vn) => vn'[i].nfsfh = JUNK,
         HandleOK(p)', \A q \in Proc : state'[q] = "RUNNING" => state[q] = "RUNNING",
         \A fd \in Fd : state'[p] = "RUNNING" => t[fd] \in {0, fdt[p][fd]}
  PROVE  Handled'
<1>0. IInv /\ Sharing /\ Handled
  BY DEF SInv
<1>1. /\ Len(vn) \in Nat /\ opened \in Nat /\ handles \subseteq 1 .. opened
      /\ \A q \in Proc : \A fd \in Fd : fdt[q][fd] \in 0 .. Len(vn)
      /\ \A q \in Proc : call[q].v \in 0 .. Len(vn)
      /\ \A q \in Proc : call[q].step \in {"reclaim", "close", "data"} => call[q].v # 0
      /\ \A q \in Proc : call[q].op = "rw" => call[q].step = "data"
  BY <1>0, Ranges
<1>2. /\ \A q \in Proc : q # p => call'[q] = call[q] /\ fdt'[q] = fdt[q]
      /\ fdt'[p] = t /\ Len(vn') >= Len(vn)
  BY DEF Frame
<1>3. \A i \in 1 .. Len(vn') : i \in 1 .. Len(vn) \/ vn'[i].nfsfh = -1
  BY <1>1 DEF JUNK
<1>4. ASSUME NEW q \in Proc PROVE HandleOK(q)'
  <2>1. CASE q = p
    BY <2>1
  <2>2. CASE q # p
    <3> DEFINE e == call[q]
    <3>1. HandleOK(q) /\ call'[q] = e /\ e.v \in 0 .. Len(vn)
      BY <1>0, <1>1, <1>2, <2>2, Zenon DEF Handled
    <3>2. e.v # 0 => vn'[e.v] = vn[e.v]
      BY <1>1
    <3>3. /\ e.step \in {"reclaim", "close"} \/ e.op = "rw" => e.fh = vn'[e.v].nfsfh
          /\ e.step \in {"reclaim", "data", "close"} => e.fh \in handles'
          /\ e.op = "load" /\ e.step \in {"open", "data"} => e.name \in Exec
          /\ e.op = "load" /\ e.step = "data" => vn'[e.v].nfsfh \in handles'
      BY <1>1, <3>1, <3>2 DEF HandleOK, HandleAs
    <3>4. ASSUME e.op = "load", e.step = "data", NEW i \in 1 .. Len(vn'), vn'[i].nfsfh = e.fh
          PROVE  vn'[i].path = e.name
      <4>1. e.fh \in 1 .. opened
        BY <1>1, <3>1, <3>4, Zenon DEF HandleOK, HandleAs
      <4>2. i \in 1 .. Len(vn)
        BY <1>3, <3>4, <4>1
      <4> QED
        BY <3>1, <3>4, <4>2, Zenon DEF HandleOK, HandleAs, Path
    <3> QED
      BY <3>1, <3>3, <3>4, Zenon DEF HandleOK, HandleAs, Path
  <2> QED
    BY <2>1, <2>2
<1>5. ASSUME NEW q \in Proc, NEW fd \in Fd, state'[q] = "RUNNING", fdt'[q][fd] # 0
      PROVE  vn'[fdt'[q][fd]].nfsfh \in handles'
  <2>1. fdt'[q][fd] = fdt[q][fd]
    BY <1>2, <1>5
  <2>2. state[q] = "RUNNING" /\ fdt[q][fd] \in 0 .. Len(vn)
    BY <1>1, <1>5, Zenon
  <2>3. vn[fdt[q][fd]].nfsfh \in handles
    BY <1>0, <1>5, <2>1, <2>2, Zenon DEF Handled
  <2>4. Len(vn) \in Nat /\ fdt[q][fd] # 0
    BY <1>1, <1>5, <2>1
  <2>5. vn'[fdt[q][fd]] = vn[fdt[q][fd]]
    BY <2>2, <2>4
  <2> QED
    BY <2>1, <2>3, <2>5
<1>6. \A i \in 1 .. Len(vn') : vn'[i].nfsfh <= opened'
  BY <1>0, <1>1, <1>3 DEF Handled
<1>7. ASSUME NEW i \in 1 .. Len(vn'), NEW j \in 1 .. Len(vn'), i # j, vn'[i].nfsfh > 0
      PROVE  vn'[i].nfsfh # vn'[j].nfsfh
  <2>1. i \in 1 .. Len(vn) /\ vn'[i] = vn[i]
    BY <1>3, <1>7
  <2>2. CASE j \in 1 .. Len(vn)
    BY <1>0, <1>7, <2>1, <2>2 DEF Handled
  <2>3. CASE vn'[j].nfsfh = -1
    BY <1>7, <2>3
  <2> QED
    BY <1>3, <2>2, <2>3
<1> QED
  BY <1>4, <1>5, <1>6, <1>7 DEF Handled

\* A step of p that sets the handle of its vnode: it has opened the file, or
\* failed to, or closed it.
Sets(p, h) ==
  /\ Len(vn') = Len(vn)
  /\ \A i \in 1 .. Len(vn) : vn'[i].nfsfh = IF i = call[p].v THEN h ELSE vn[i].nfsfh
  /\ \/ h = opened + 1 /\ opened' = h /\ handles' = handles \cup {h}
     \/ h = JUNK /\ call[p].op = "open" /\ opened' = opened /\ handles' = handles
     \/ /\ h = NULL /\ call[p].op \in {"open", "close"} /\ opened' = opened
        /\ call[p].step \in {"reclaim", "close"} /\ handles' = handles \ {call[p].fh}

\* Its own table keeps to other vnodes, or gets the one just opened.
Keeps(p, t) ==
  \A fd \in Fd : state[p] = "RUNNING" /\ t[fd] # 0 =>
    (t[fd] = fdt[p][fd] /\ t[fd] # call[p].v) \/ vn'[t[fd]].nfsfh \in handles'

LEMMA SetHandled ==
  ASSUME SInv, NEW p \in Proc, NEW c, NEW t, Frame(p, c, t), NEW h, Sets(p, h), Keeps(p, t),
         call[p].op \in {"open", "load", "close"}, call[p].v # 0,
         HandleOK(p)', state' = state
  PROVE  Handled'
<1>s. /\ Len(vn') = Len(vn)
      /\ \A i \in 1 .. Len(vn) : vn'[i].nfsfh = IF i = call[p].v THEN h ELSE vn[i].nfsfh
      /\ \/ h = opened + 1 /\ opened' = h /\ handles' = handles \cup {h}
         \/ h = JUNK /\ call[p].op = "open" /\ opened' = opened /\ handles' = handles
         \/ /\ h = NULL /\ call[p].op \in {"open", "close"} /\ opened' = opened
            /\ call[p].step \in {"reclaim", "close"} /\ handles' = handles \ {call[p].fh}
  BY DEF Sets
<1>k. \A fd \in Fd : state[p] = "RUNNING" /\ t[fd] # 0 =>
        (t[fd] = fdt[p][fd] /\ t[fd] # call[p].v) \/ vn'[t[fd]].nfsfh \in handles'
  BY DEF Keeps
<1> DEFINE v == call[p].v
<1>0. IInv /\ Sharing /\ Handled
  BY DEF SInv
<1>1. /\ Len(vn) \in Nat /\ opened \in Nat /\ handles \subseteq 1 .. opened
      /\ \A i \in 1 .. Len(vn) : vn[i].nfsfh \in Handle
      /\ \A q \in Proc : \A fd \in Fd : fdt[q][fd] \in 0 .. Len(vn)
      /\ \A q \in Proc : call[q].v \in 0 .. Len(vn)
      /\ \A q \in Proc : call[q].step \in {"reclaim", "close", "data"} =>
           call[q].v # 0 /\ Uses(call[q])
      /\ \A q \in Proc : call[q].op = "rw" => call[q].step = "data"
      /\ \A q \in Proc : call[q].step \in {"reclaim", "close"} => call[q].op \in {"open", "close"}
      /\ \A q \in Proc : call[q].op \in {"rw", "close"} => call[q].v # 0 /\ call[q].fd \in Fd
  BY <1>0, Ranges, Zenon
<1>2. /\ \A q \in Proc : q # p => call'[q] = call[q] /\ fdt'[q] = fdt[q]
      /\ fdt'[p] = t /\ \A i \in 1 .. Len(vn) : vn'[i].path = vn[i].path
  BY DEF Frame
<1>3. v \in 1 .. Len(vn) /\ Path(v) = call[p].name /\ Uses(call[p])
  <2>1. Named(p) /\ v \in 0 .. Len(vn) /\ Len(vn) \in Nat
    BY <1>0, <1>1, Zenon DEF Sharing
  <2> QED
    BY <2>1 DEF Named, NamedAs, Uses
<1>4. /\ \A i \in 1 .. Len(vn) : vn[i].nfsfh <= opened
      /\ \A i, j \in 1 .. Len(vn) : i # j /\ vn[i].nfsfh > 0 => vn[i].nfsfh # vn[j].nfsfh
      /\ \A q \in Proc : HandleOK(q)
  BY <1>0 DEF Handled
<1>5. /\ h <= opened' /\ h \in Int
      /\ (h > 0 => h = opened + 1 /\ handles' = handles \cup {h})
      /\ opened' \in Nat /\ opened <= opened'
  <2>1. opened \in Nat
    BY <1>1
  <2> QED
    BY <1>s, <2>1 DEF JUNK, NULL
<1>a. \A x \in handles : x > 0 /\ x <= opened
  <2>1. opened \in Nat /\ handles \subseteq 1 .. opened
    BY <1>1
  <2> QED
    BY <2>1
\* Of the handles of the other vnodes none is closed.
<1>6. ASSUME NEW i \in 1 .. Len(vn), i # v, vn[i].nfsfh \in handles
      PROVE  vn[i].nfsfh \in handles'
  <2>1. CASE handles \subseteq handles'
    BY <1>6, <2>1
  <2>2. CASE call[p].step \in {"reclaim", "close"} /\ handles' = handles \ {call[p].fh}
    <3>1. call[p].fh = vn[v].nfsfh
      BY <1>4, <2>2, Zenon DEF HandleOK, HandleAs
    <3>2. vn[i].nfsfh > 0
      BY <1>a, <1>6, Zenon
    <3> QED
      BY <1>3, <1>4, <1>6, <2>2, <3>1, <3>2
  <2> QED
    BY <1>s, <2>1, <2>2
\* Another call on the same vnode is a load beside a load.
<1>7. ASSUME NEW q \in Proc, q # p, Uses(call[q]), call[q].name = call[p].name
      PROVE  call[p].op = "load" /\ call[q].op = "load"
  BY <1>0, <1>3, <1>7, Zenon DEF Sharing
<1>8. ASSUME NEW q \in Proc, q # p, Uses(call[q]), call[q].v # 0
      PROVE  Path(call[q].v) = call[q].name
  BY <1>0, <1>8, Zenon DEF Sharing, Named, NamedAs, Uses
<1>9. ASSUME NEW q \in Proc PROVE HandleOK(q)'
  <2>1. CASE q = p
    BY <2>1
  <2>2. CASE q # p
    <3> DEFINE e == call[q]
    <3>1. HandleOK(q) /\ call'[q] = e /\ e.v \in 0 .. Len(vn)
      BY <1>1, <1>2, <1>4, <2>2, Zenon
    <3>a. /\ Len(vn) \in Nat
          /\ e.step \in {"reclaim", "close", "data"} => e.v # 0 /\ Uses(e)
          /\ e.op = "rw" => e.step = "data"
          /\ e.step \in {"reclaim", "close"} => e.op \in {"open", "close"}
      BY <1>1, Zenon
    <3>2. ASSUME e.step \in {"reclaim", "close"} \/ e.op = "rw"
          PROVE  e.fh = vn'[e.v].nfsfh /\ e.fh \in handles'
      <4>1. e.v \in 1 .. Len(vn) /\ Uses(e) /\ e.op # "load" /\ e.fh = vn[e.v].nfsfh
            /\ e.fh \in handles
        <5>1. e.step \in {"reclaim", "close", "data"} /\ e.op # "load"
          BY <3>a, <3>2
        <5>2. e.v # 0 /\ Uses(e)
          BY <3>a, <5>1, Zenon
        <5>3. e.fh = vn[e.v].nfsfh /\ e.fh \in handles
          BY <3>1, <3>2, <5>1, Zenon DEF HandleOK, HandleAs
        <5>4. e.v \in 1 .. Len(vn)
          BY <3>a, <3>1, <5>2
        <5> QED
          BY <5>1, <5>2, <5>3, <5>4, Zenon
      <4>2. e.v # v
        BY <1>3, <1>7, <1>8, <2>2, <4>1, Zenon
      <4> QED
        BY <1>s, <1>6, <4>1, <4>2, Zenon
    <3>3. ASSUME e.op = "load", e.step = "data"
          PROVE  /\ e.fh \in handles' /\ vn'[e.v].nfsfh \in handles'
                 /\ \A i \in 1 .. Len(vn') : vn'[i].nfsfh = e.fh => vn'[i].path = e.name
      <4>1. /\ e.v \in 1 .. Len(vn) /\ Uses(e) /\ e.fh \in handles /\ vn[e.v].nfsfh \in handles
            /\ \A i \in 1 .. Len(vn) : vn[i].nfsfh = e.fh => Path(i) = e.name
        <5>1. e.v # 0 /\ Uses(e)
          BY <3>a, <3>3, Zenon
        <5>2. /\ e.fh \in handles /\ vn[e.v].nfsfh \in handles
              /\ \A i \in 1 .. Len(vn) : vn[i].nfsfh = e.fh => Path(i) = e.name
          BY <3>1, <3>3, Zenon DEF HandleOK, HandleAs
        <5>3. e.v \in 1 .. Len(vn)
          BY <3>a, <3>1, <5>1
        <5> QED
          BY <5>1, <5>2, <5>3, Zenon
      <4>2. e.fh \in handles'
        <5>1. CASE handles \subseteq handles'
          BY <4>1, <5>1
        <5>2. CASE /\ call[p].step \in {"reclaim", "close"} /\ call[p].op \in {"open", "close"}
                   /\ handles' = handles \ {call[p].fh}
          <6>1. call[p].fh = vn[v].nfsfh
            BY <1>4, <5>2, Zenon DEF HandleOK, HandleAs
          <6>2. call[p].fh # e.fh
            BY <1>3, <1>7, <2>2, <4>1, <5>2, <6>1, Zenon
          <6> QED
            BY <4>1, <5>2, <6>2
        <5> QED
          BY <1>s, <5>1, <5>2
      <4>3. vn'[e.v].nfsfh \in handles'
        <5>1. CASE e.v # v
          BY <1>s, <1>6, <4>1, <5>1, Zenon
        <5>2. CASE e.v = v
          <6>1. call[p].op = "load"
            BY <1>3, <1>7, <1>8, <2>2, <4>1, <5>2, Zenon
          <6>2. h \in handles'
            BY <1>s, <6>1
          <6> QED
            BY <1>s, <1>3, <5>2, <6>2, Zenon
        <5> QED
          BY <5>1, <5>2
      <4>4. ASSUME NEW i \in 1 .. Len(vn'), vn'[i].nfsfh = e.fh
            PROVE  vn'[i].path = e.name
        <5>1. e.fh > 0 /\ e.fh <= opened
          BY <1>a, <4>1
        <5>2. i # v
          <6>1. i = v => vn'[i].nfsfh = h
            BY <1>s, <1>3, Zenon
          <6>2. opened \in Nat
            BY <1>1
          <6> QED
            BY <1>5, <4>4, <5>1, <6>1, <6>2
        <5> QED
          BY <1>s, <1>2, <4>1, <4>4, <5>2, Zenon DEF Path
      <4> QED
        BY <4>2, <4>3, <4>4
    <3>4. e.step = "data" => e.op \in {"load", "rw"}
      <4>1. CallOK(e, Len(vn)) /\ (e.step = "data" => Uses(e))
        BY <1>0, <1>1, Ranges, Zenon
      <4> QED
        BY <4>1 DEF CallOK, Uses
    <3>5. e.step \in {"reclaim", "data", "close"} => e.fh \in handles'
      BY <3>2, <3>3, <3>4
    <3>6. e.op = "load" /\ e.step \in {"open", "data"} => e.name \in Exec
      BY <3>1, Zenon DEF HandleOK, HandleAs
    <3> QED
      BY <3>1, <3>2, <3>3, <3>5, <3>6, Zenon DEF HandleOK, HandleAs, Path
  <2> QED
    BY <2>1, <2>2
<1>10. ASSUME NEW q \in Proc, NEW fd \in Fd, state'[q] = "RUNNING", fdt'[q][fd] # 0
       PROVE  vn'[fdt'[q][fd]].nfsfh \in handles'
  <2>1. CASE q = p
    <3>1. fdt'[q][fd] = t[fd] /\ state[p] = "RUNNING"
      BY <1>2, <1>10, <2>1
    <3>2. CASE t[fd] = fdt[p][fd] /\ t[fd] # v
      <4>1. t[fd] \in 1 .. Len(vn) /\ vn[t[fd]].nfsfh \in handles
        <5>1. fdt[p][fd] \in 0 .. Len(vn) /\ Len(vn) \in Nat /\ fdt[p][fd] # 0
          BY <1>1, <1>10, <3>1, <3>2, Zenon
        <5>2. vn[fdt[p][fd]].nfsfh \in handles
          BY <1>0, <3>1, <5>1, Zenon DEF Handled
        <5> QED
          BY <3>2, <5>1, <5>2
      <4> QED
        BY <1>s, <1>6, <3>1, <3>2, <4>1
    <3> QED
      BY <1>k, <1>10, <3>1, <3>2
  <2>2. CASE q # p
    <3> DEFINE w == fdt[q][fd]
    <3>1. fdt'[q][fd] = w /\ w \in 1 .. Len(vn) /\ vn[w].nfsfh \in handles
      <4>1. fdt'[q][fd] = w /\ w \in 0 .. Len(vn) /\ Len(vn) \in Nat /\ w # 0
        BY <1>1, <1>2, <1>10, <2>2, Zenon
      <4>2. state[q] = "RUNNING"
        BY <1>10
      <4>3. vn[w].nfsfh \in handles
        BY <1>0, <4>1, <4>2, Zenon DEF Handled
      <4> QED
        BY <4>1, <4>3
    <3>2. w # v
      <4>1. CASE call[p].op \in {"open", "load"}
        BY <1>0, <1>3, <3>1, <4>1, Zenon DEF Sharing
      <4>2. CASE call[p].op = "close"
        <5>1. call[p].fd \in Fd /\ fdt[p][call[p].fd] = v
          BY <1>0, <1>1, <4>2, Zenon DEF Sharing, Named, NamedAs
        <5> QED
          <6>1. fdt[q][fd] # 0 /\ fdt[p][call[p].fd] # 0
            BY <3>1, <5>1
          <6>2. Path(fdt[p][call[p].fd]) = Path(fdt[q][fd]) => p = q
            BY <1>0, <5>1, <6>1, Zenon DEF Sharing
          <6> QED
            BY <2>2, <5>1, <6>2
      <4> QED
        BY <4>1, <4>2
    <3> QED
      BY <1>s, <1>6, <3>1, <3>2, Zenon
  <2> QED
    BY <2>1, <2>2, Zenon
<1>11. \A i \in 1 .. Len(vn') : vn'[i].nfsfh <= opened'
  <2>1. \A i \in 1 .. Len(vn) : vn[i].nfsfh \in Int /\ opened \in Nat
    BY <1>1 DEF Handle, JUNK
  <2>2. ASSUME NEW i \in 1 .. Len(vn) PROVE vn'[i].nfsfh <= opened'
    <3>1. vn'[i].nfsfh = h \/ vn'[i].nfsfh = vn[i].nfsfh
      BY <1>s, Zenon
    <3> QED
      BY <1>4, <1>5, <2>1, <3>1
  <2> QED
    BY <1>s, <2>2, Zenon
<1>12. ASSUME NEW i \in 1 .. Len(vn'), NEW j \in 1 .. Len(vn'), i # j, vn'[i].nfsfh > 0
       PROVE  vn'[i].nfsfh # vn'[j].nfsfh
  <2>1. CASE i = v
    <3>1. h = opened + 1 /\ vn'[j].nfsfh = vn[j].nfsfh /\ vn[j].nfsfh <= opened
      BY <1>s, <1>3, <1>4, <1>5, <1>12, <2>1, Zenon
    <3> QED
      <4>1. vn'[i].nfsfh = h /\ vn[j].nfsfh \in Handle /\ opened \in Nat
        BY <1>s, <1>1, <1>3, <1>12, <2>1, Zenon
      <4> QED
        BY <3>1, <4>1 DEF Handle, JUNK
  <2>2. CASE j = v
    <3>1. vn'[j].nfsfh = h /\ vn'[i].nfsfh = vn[i].nfsfh /\ vn[i].nfsfh <= opened
      BY <1>s, <1>3, <1>4, <1>12, <2>2, Zenon
    <3> QED
      <4>1. vn[i].nfsfh \in Handle /\ opened \in Nat
        BY <1>s, <1>1, <1>12, Zenon
      <4> QED
        BY <1>5, <1>12, <3>1, <4>1 DEF Handle, JUNK
  <2>3. CASE i # v /\ j # v
    BY <1>s, <1>4, <1>12, <2>3, Zenon
  <2> QED
    BY <2>1, <2>2, <2>3
<1> QED
  BY <1>9, <1>10, <1>11, <1>12, Zenon DEF Handled

LEMMA FrameOf ==
  ASSUME IInv, NEW p \in Proc, NEW c, NEW t, call' = [call EXCEPT ![p] = c],
         fdt' = [fdt EXCEPT ![p] = t] \/ (fdt' = fdt /\ t = fdt[p]),
         Len(vn') >= Len(vn), \A i \in 1 .. Len(vn) : vn'[i].path = vn[i].path
  PROVE  Frame(p, c, t) /\ call'[p] = c /\ fdt'[p] = t
<1>1. call \in [Proc -> Call] /\ fdt \in [Proc -> [Fd -> 0 .. Len(vn)]]
  BY DEF IInv, TypeOK
<1>2. \A q \in Proc : call'[q] = IF q = p THEN c ELSE call[q]
  BY <1>1
<1>3. \A q \in Proc : fdt'[q] = IF q = p THEN t ELSE fdt[q]
  BY <1>1
<1> QED
  BY <1>2, <1>3 DEF Frame

LEMMA SameTable ==
  ASSUME NEW p, NEW c
  PROVE  NewTable(p, c, fdt[p])
<1>1. 0 \in Fd
  BY FilesAssumption DEF Fd
<1> QED
  BY <1>1 DEF NewTable

\* A step that only changes the call of p.
LEMMA QuietCall ==
  ASSUME SInv, NEW p \in Proc, NEW c, call' = [call EXCEPT ![p] = c],
         UNCHANGED <<vn, handles, opened, fdt, state>>,
         NewUse(p, c), NamedAs(p, c), HandleAs(c)
  PROVE  Sharing' /\ Handled'
<1>0. IInv /\ Sharing /\ Len(vn) \in Nat
  BY DEF SInv, IInv, TypeOK
<1>1. Frame(p, c, fdt[p]) /\ call'[p] = c
  <2>1. /\ fdt' = fdt /\ Len(vn') >= Len(vn)
        /\ \A i \in 1 .. Len(vn) : vn'[i].path = vn[i].path
    BY <1>0
  <2> QED
    BY <1>0, <2>1, FrameOf, Zenon
<1>2. Named(p)'
  BY <1>1 DEF Named, NamedAs, Path
<1>3. HandleOK(p)'
  BY <1>1 DEF HandleOK, HandleAs, Path
<1>4. Sharing'
  BY <1>0, <1>1, <1>2, SameTable, SharingStep
<1>5. Handled'
  BY <1>0, <1>1, <1>3, QuietHandled
<1> QED
  BY <1>4, <1>5

\* A call that is over, or that uses no file.
LEMMA Idle ==
  ASSUME NEW c, NEW p, c.op \in {"none", "query"}, c.step \in {"none", "query"}
  PROVE  NewUse(p, c) /\ NamedAs(p, c) /\ HandleAs(c) /\ ~Uses(c)
BY DEF NewUse, Uses, NamedAs, HandleAs

LEMMA NoCallIdle ==
  ASSUME NEW p
  PROVE  /\ NewUse(p, NoCall) /\ NamedAs(p, NoCall) /\ HandleAs(NoCall) /\ ~Uses(NoCall)
BY NoCallFacts, Idle

LEMMA OpenCallFacts ==
  ASSUME NEW name, NEW v
  PROVE  /\ OpenCall(name, v).op = "open" /\ OpenCall(name, v).step = "open"
         /\ OpenCall(name, v).name = name /\ OpenCall(name, v).v = v
BY DEF OpenCall

\* The three ways VOP_EACHOPEN goes on.
LEMMA EachOpenWays ==
  ASSUME IInv, NEW p \in Proc, NEW name, NEW v, NEW n, EachOpen(p, name, v, n)
  PROVE  \/ /\ state[p] = "ZOMBIE" /\ call' = [call EXCEPT ![p] = NoCall]
            /\ fdt' = [fdt EXCEPT ![p] = Placed(fdt[p], v)]
         \/ fdt' = fdt /\ call' = [call EXCEPT ![p] = NoCall]
         \/ fdt' = fdt /\ call' = [call EXCEPT ![p] = OpenCall(name, v)]
BY Zenon DEF EachOpen, Return, Await, OpenCall

\* fdt_place of the vnode a call has looked up.
LEMMA PlacedTable ==
  ASSUME IInv, NEW p \in Proc, NEW v \in 1 .. Len(vn'), NEW c, ~Uses(c),
         Len(vn') \in Nat, Len(vn') >= Len(vn),
         call[p].op = "open", vn'[v].path = call[p].name
  PROVE  /\ NewTable(p, c, Placed(fdt[p], v))
         /\ \A fd \in Fd : Placed(fdt[p], v)[fd] \in {v, fdt[p][fd]}
<1>1. fdt[p] \in [Fd -> 0 .. Len(vn')] /\ v \in 0 .. Len(vn')
  <2>1. Len(vn) \in Nat /\ fdt[p] \in [Fd -> 0 .. Len(vn)]
    BY DEF IInv, TypeOK
  <2>2. 0 .. Len(vn) \subseteq 0 .. Len(vn')
    BY <2>1
  <2> QED
    BY <2>1, <2>2
<1>2. \/ Placed(fdt[p], v) = fdt[p]
      \/ \E d \in Fd : fdt[p][d] = 0 /\ Placed(fdt[p], v) = [fdt[p] EXCEPT ![d] = v]
  BY <1>1, PlacedFacts, Zenon
<1>3. CASE Placed(fdt[p], v) = fdt[p]
  BY <1>3, SameTable, Zenon
<1>4. ASSUME NEW d \in Fd, Placed(fdt[p], v) = [fdt[p] EXCEPT ![d] = v]
      PROVE  /\ NewTable(p, c, Placed(fdt[p], v))
             /\ \A fd \in Fd : Placed(fdt[p], v)[fd] \in {v, fdt[p][fd]}
  <2> DEFINE t == Placed(fdt[p], v)
  <2>1. t[d] = v /\ \A fd \in Fd : fd # d => t[fd] = fdt[p][fd]
    BY <1>1, <1>4
  <2> HIDE DEF t
  <2>2. NewTable(p, c, t)
    BY <2>1 DEF NewTable
  <2> QED
    BY <2>1, <2>2 DEF t
<1> QED
  BY <1>2, <1>3, <1>4, Zenon

LEMMA OpenSInv ==
  ASSUME SInv, Disciplined, NEW p \in Proc, NEW name \in Name, syscall_open(p, name)
  PROVE  Sharing' /\ Handled'
<1>0. IInv /\ TypeOK
  BY DEF SInv, IInv
<1>1. /\ fault = "none" /\ state[p] = "RUNNING" /\ Unused(name, "open")
      /\ UNCHANGED <<vn, handles, opened, state>>
  BY <1>0, CallsFacts, Zenon DEF syscall_open
<1>2. ASSUME NEW c, call' = [call EXCEPT ![p] = c], fdt' = fdt, c.op = "open",
             c.step \in {"lookup", "open"}, c.name = name, c.v # 0 => Path(c.v) = name
      PROVE  Sharing' /\ Handled'
  <2>1. NewUse(p, c) /\ NamedAs(p, c) /\ HandleAs(c)
    BY <1>1, <1>2 DEF NewUse, NamedAs, HandleAs
  <2> QED
    BY <1>1, <1>2, <2>1, QuietCall, Zenon
<1>3. CASE Find(name) # 0
  <2>1. EachOpen(p, name, Find(name), coro_count[p])
    BY <1>3 DEF syscall_open
  <2>2. Path(Find(name)) = name
    BY <1>0, <1>3, FindFacts DEF Path
  <2>3. \/ fdt' = fdt /\ call' = [call EXCEPT ![p] = NoCall]
        \/ fdt' = fdt /\ call' = [call EXCEPT ![p] = OpenCall(name, Find(name))]
    BY <1>0, <1>1, <2>1, EachOpenWays, Zenon
  <2>4. CASE fdt' = fdt /\ call' = [call EXCEPT ![p] = NoCall]
    BY <1>1, <2>4, NoCallIdle, QuietCall, Zenon
  <2>5. CASE fdt' = fdt /\ call' = [call EXCEPT ![p] = OpenCall(name, Find(name))]
    <3> DEFINE c == OpenCall(name, Find(name))
    <3>1. c.op = "open" /\ c.step = "open" /\ c.name = name /\ c.v = Find(name)
      BY OpenCallFacts
    <3>2. call' = [call EXCEPT ![p] = c] /\ fdt' = fdt
      BY <2>5
    <3> HIDE DEF c
    <3> QED
      BY <1>2, <2>2, <3>1, <3>2, Zenon
  <2> QED
    BY <2>3, <2>4, <2>5
<1>4. CASE Find(name) = 0
  <2> DEFINE c == [op |-> "open", step |-> "lookup", name |-> name,
                   v |-> 0, fh |-> NULL, fd |-> 0]
  <2>1. call' = [call EXCEPT ![p] = c] /\ fdt' = fdt
    BY <1>4 DEF syscall_open, Await
  <2>2. c.op = "open" /\ c.step = "lookup" /\ c.v = 0 /\ c.name = name
    OBVIOUS
  <2> HIDE DEF c
  <2> QED
    BY <1>2, <2>1, <2>2, Zenon
<1> QED
  BY <1>3, <1>4

LEMMA LoadSInv ==
  ASSUME SInv, Disciplined, NEW p \in Proc, NEW name \in Name, elf_load_fs(p, name)
  PROVE  Sharing' /\ Handled'
<1> DEFINE c == [op |-> "load", step |-> IF Find(name) # 0 THEN "stat" ELSE "lookup",
                 name |-> name, v |-> Find(name), fh |-> NULL, fd |-> 0]
<1>1. /\ Unused(name, "load") /\ call' = [call EXCEPT ![p] = c]
      /\ UNCHANGED <<vn, handles, opened, fdt, state>>
  BY DEF elf_load_fs, Await
<1>2. Find(name) # 0 => Path(Find(name)) = name
  BY FindFacts DEF SInv, IInv, Path
<1>3. c.op = "load" /\ c.step \in {"stat", "lookup"} /\ c.name = name /\ c.v = Find(name)
  OBVIOUS
<1> HIDE DEF c
<1>4. NewUse(p, c) /\ NamedAs(p, c) /\ HandleAs(c)
  BY <1>1, <1>2, <1>3, Zenon DEF NewUse, NamedAs, HandleAs
<1> QED
  BY <1>1, <1>4, QuietCall, Zenon

\* A call of p that has made a vnode for the name it looks up.
LEMMA VnodeSInv ==
  ASSUME SInv, NEW p \in Proc, call[p].op \in {"open", "load"}, call[p].name \in Name,
         vn' = WithVnode(call[p].name), UNCHANGED <<handles, opened, state>>,
         NEW c, NEW t, call' = [call EXCEPT ![p] = c],
         fdt' = [fdt EXCEPT ![p] = t] \/ (fdt' = fdt /\ t = fdt[p]),
         \/ c = NoCall
         \/ /\ c.op = call[p].op /\ c.name = call[p].name /\ c.v = Len(vn) + 1
            /\ c.step \in {"stat", "create"} \/ (c.op = "open" /\ c.step = "open"),
         \/ t = fdt[p]
         \/ /\ t = Placed(fdt[p], Len(vn) + 1) /\ state[p] = "ZOMBIE"
            /\ call[p].op = "open" /\ c = NoCall
  PROVE  Sharing' /\ Handled'
<1> DEFINE name == call[p].name
           v == Len(vn) + 1
<1>0. IInv /\ Sharing /\ TypeOK /\ Len(vn) \in Nat
  BY DEF SInv, IInv, TypeOK
<1>1. /\ Len(vn') = v /\ \A i \in 1 .. Len(vn) : vn'[i] = vn[i]
      /\ vn'[v].path = name /\ vn'[v].nfsfh = JUNK
  BY <1>0, NewVnode, Zenon
<1>2. Frame(p, c, t) /\ call'[p] = c /\ fdt'[p] = t
  <2>1. Len(vn') >= Len(vn)
    BY <1>0, <1>1, NoShorter, Zenon
  <2>2. \A i \in 1 .. Len(vn) : vn'[i].path = vn[i].path
    BY <1>1, Zenon
  <2> QED
    BY <1>0, <2>1, <2>2, FrameOf, Zenon
<1>3. NewUse(p, c) /\ Named(p)' /\ HandleOK(p)'
  <2>1. CASE c = NoCall
    BY <1>2, <2>1, NoCallFacts, Zenon DEF NewUse, Uses, Named, NamedAs, HandleOK, HandleAs
  <2>2. CASE /\ c.op = call[p].op /\ c.name = call[p].name /\ c.v = Len(vn) + 1
             /\ c.step \in {"stat", "create"} \/ (c.op = "open" /\ c.step = "open")
    <3>1. NewUse(p, c)
      BY <2>2, Zenon DEF NewUse, Uses
    <3>2. Named(p)'
      BY <1>1, <1>2, <2>2 DEF Named, NamedAs, Path
    <3>3. HandleOK(p)'
      BY <1>2, <2>2, Zenon DEF HandleOK, HandleAs
    <3> QED
      BY <3>1, <3>2, <3>3, Zenon
  <2> QED
    BY <2>1, <2>2, Zenon
<1>4. /\ NewTable(p, c, t)
      /\ \A fd \in Fd : state'[p] = "RUNNING" => t[fd] \in {0, fdt[p][fd]}
  <2>1. CASE t = fdt[p]
    BY <2>1, SameTable, Zenon
  <2>2. CASE t = Placed(fdt[p], v) /\ state[p] = "ZOMBIE" /\ call[p].op = "open" /\ c = NoCall
    <3>1. ~Uses(c) /\ v \in 1 .. Len(vn') /\ Len(vn') \in Nat /\ Len(vn') >= Len(vn)
      <4>1. ~Uses(c)
        BY <2>2, NoCallFacts, Zenon DEF Uses
      <4>2. v \in 1 .. Len(vn') /\ Len(vn') \in Nat /\ Len(vn') >= Len(vn)
        BY <1>0, <1>1
      <4> QED
        BY <4>1, <4>2
    <3>2. NewTable(p, c, t)
      <4> HIDE DEF v
      <4> QED
        BY <1>0, <1>1, <2>2, <3>1, PlacedTable, Zenon
    <3> QED
      BY <2>2, <3>2
  <2> QED
    BY <2>1, <2>2, Zenon
<1>5. Sharing'
  BY <1>0, <1>2, <1>3, <1>4, SharingStep, Zenon
<1>6. Handled'
  <2>1. /\ Len(vn') \in Nat /\ \A i \in 1 .. Len(vn') : i > Len(vn) => vn'[i].nfsfh = JUNK
    <3>1. Len(vn') \in Nat /\ \A i \in 1 .. Len(vn') : i > Len(vn) => i = v
      BY <1>0, <1>1
    <3> QED
      BY <1>1, <3>1, Zenon
  <2> QED
    BY <1>1, <1>2, <1>3, <1>4, <2>1, QuietHandled, Zenon
<1> QED
  BY <1>5, <1>6, Zenon

LEMMA LookupSInv ==
  ASSUME SInv, Openable, NEW p \in Proc, fault = "none", nfs_lookup_cb(p)
  PROVE  fault' = "none" /\ Sharing' /\ Handled'
<1> DEFINE c == call[p]
           v == Len(vn) + 1
<1>0. c.step = "lookup" /\ IInv
  BY DEF nfs_lookup_cb, SInv
<1>1. c \in CallRec /\ c.op \in Ops /\ CallOK(c, Len(vn)) /\ Len(vn) \in Nat
  BY <1>0, Resumed
<1>2. c.op \in {"open", "load"} /\ c.name \in Name
  BY <1>0, <1>1 DEF CallOK, Ops
<1>3. CASE c.name \in srv /\ c.op = "open"
  <2>1. /\ vn' = WithVnode(c.name) /\ UNCHANGED <<handles, opened, state, fault>>
        /\ EachOpen(p, c.name, v, coro_count[p] - 1)
    BY <1>3 DEF nfs_lookup_cb
  <2>2. \/ /\ state[p] = "ZOMBIE" /\ call' = [call EXCEPT ![p] = NoCall]
           /\ fdt' = [fdt EXCEPT ![p] = Placed(fdt[p], v)]
        \/ fdt' = fdt /\ call' = [call EXCEPT ![p] = NoCall]
        \/ fdt' = fdt /\ call' = [call EXCEPT ![p] = OpenCall(c.name, v)]
    BY <1>0, <2>1, EachOpenWays
  <2>3. CASE /\ state[p] = "ZOMBIE" /\ call' = [call EXCEPT ![p] = NoCall]
             /\ fdt' = [fdt EXCEPT ![p] = Placed(fdt[p], v)]
    BY <1>2, <1>3, <2>1, <2>3, VnodeSInv, Zenon
  <2>4. CASE fdt' = fdt /\ call' = [call EXCEPT ![p] = NoCall]
    BY <1>2, <2>1, <2>4, VnodeSInv, Zenon
  <2>5. CASE fdt' = fdt /\ call' = [call EXCEPT ![p] = OpenCall(c.name, v)]
    <3> DEFINE d == OpenCall(c.name, v)
    <3>1. d.op = "open" /\ d.step = "open" /\ d.name = c.name /\ d.v = v
      BY OpenCallFacts
    <3>2. call' = [call EXCEPT ![p] = d] /\ fdt' = fdt
      BY <2>5
    <3> HIDE DEF d
    <3> QED
      BY <1>2, <1>3, <2>1, <3>1, <3>2, VnodeSInv, Zenon
  <2> QED
    BY <2>2, <2>3, <2>4, <2>5
<1>4. ASSUME NEW step \in {"stat", "create"}, vn' = WithVnode(c.name),
             UNCHANGED <<handles, opened, fdt, state, fault>>,
             call' = [call EXCEPT ![p] = [c EXCEPT !.step = step, !.v = v]]
      PROVE  fault' = "none" /\ Sharing' /\ Handled'
  <2> DEFINE d == [c EXCEPT !.step = step, !.v = v]
  <2>1. d.op = c.op /\ d.step = step /\ d.name = c.name /\ d.v = v
    BY <1>1, Zenon DEF CallRec
  <2>2. call' = [call EXCEPT ![p] = d]
    BY <1>4
  <2> HIDE DEF d
  <2> QED
    BY <1>2, <1>4, <2>1, <2>2, VnodeSInv, Zenon
<1>5. CASE c.name \in srv /\ c.op = "load"
  BY <1>4, <1>5 DEF nfs_lookup_cb, Await
<1>6. CASE c.name \notin srv /\ c.op = "open"
  <2>1. c.name \notin Refused
    BY <1>0, <1>6 DEF IInv, TypeOK, Openable
  <2> QED
    BY <1>4, <1>6, <2>1 DEF nfs_lookup_cb, Await
<1>7. CASE c.name \notin srv /\ c.op = "load"
  <2>1. /\ call' = [call EXCEPT ![p] = NoCall]
        /\ UNCHANGED <<vn, handles, opened, fdt, state, fault>>
    BY <1>7 DEF nfs_lookup_cb, Return
  <2> QED
    BY <2>1, NoCallIdle, QuietCall, Zenon
<1> QED
  BY <1>2, <1>3, <1>5, <1>6, <1>7

\* A descriptor is not of the vnode that is being opened.
LEMMA NotOpening ==
  ASSUME SInv, NEW p \in Proc, call[p].op \in {"open", "load"}, call[p].v # 0,
         NEW fd \in Fd, fdt[p][fd] # 0
  PROVE  fdt[p][fd] # call[p].v
BY Zenon DEF SInv, Sharing, Named, NamedAs

LEMMA SetFrame ==
  ASSUME SInv, NEW p \in Proc, call[p].v # 0, NEW h \in Handle, NEW c, NEW t,
         vn' = [vn EXCEPT ![call[p].v].nfsfh = h], call' = [call EXCEPT ![p] = c],
         fdt' = [fdt EXCEPT ![p] = t] \/ (fdt' = fdt /\ t = fdt[p])
  PROVE  /\ Frame(p, c, t) /\ call'[p] = c /\ fdt'[p] = t
         /\ Len(vn') = Len(vn) /\ Len(vn) \in Nat /\ call[p].v \in 1 .. Len(vn)
         /\ \A i \in 1 .. Len(vn) :
              /\ vn'[i].path = vn[i].path
              /\ vn'[i].nfsfh = IF i = call[p].v THEN h ELSE vn[i].nfsfh
<1>0. IInv /\ TypeOK
  BY DEF SInv, IInv
<1>1. Len(vn) \in Nat /\ call[p].v \in 1 .. Len(vn)
  BY <1>0, Ranges
<1>2. /\ Len(vn') = Len(vn)
      /\ \A i \in 1 .. Len(vn) :
           /\ vn'[i].path = vn[i].path
           /\ vn'[i].nfsfh = IF i = call[p].v THEN h ELSE vn[i].nfsfh
  BY <1>0, <1>1, SetHandle
<1>3. Len(vn') >= Len(vn) /\ \A i \in 1 .. Len(vn) : vn'[i].path = vn[i].path
  BY <1>1, <1>2
<1>4. Frame(p, c, t) /\ call'[p] = c /\ fdt'[p] = t
  BY <1>0, <1>3, FrameOf, Zenon
<1> QED
  BY <1>1, <1>2, <1>4

LEMMA CreateSInv ==
  ASSUME SInv, NEW p \in Proc, fault = "none", nfs_create_cb(p)
  PROVE  fault' = "none" /\ Sharing' /\ Handled'
<1> DEFINE c == call[p]
           h == opened + 1
           d == [c EXCEPT !.step = "reclaim", !.fh = h]
<1>0. c.step = "create" /\ IInv /\ Sharing
  BY DEF nfs_create_cb, SInv
<1>1. c \in CallRec /\ c.op \in Ops /\ CallOK(c, Len(vn))
  BY <1>0, Resumed
<1>2. c.op = "open" /\ c.v # 0 /\ Path(c.v) = c.name
  BY <1>0, <1>1, Zenon DEF CallOK, Ops, Sharing, Named, NamedAs
<1>3. /\ opened' = h /\ handles' = handles \cup {h}
      /\ vn' = [vn EXCEPT ![c.v].nfsfh = h] /\ call' = [call EXCEPT ![p] = d]
      /\ UNCHANGED <<fdt, state, fault>>
  BY DEF nfs_create_cb, Await
<1>4. h \in Handle
  BY <1>0 DEF IInv, TypeOK, Handle
<1>5. d.op = "open" /\ d.step = "reclaim" /\ d.v = c.v /\ d.name = c.name /\ d.fh = h
  BY <1>1, <1>2, Zenon DEF CallRec
<1> HIDE DEF d, h
<1>6. /\ Frame(p, d, fdt[p]) /\ call'[p] = d /\ fdt'[p] = fdt[p]
      /\ Len(vn') = Len(vn) /\ c.v \in 1 .. Len(vn)
      /\ \A i \in 1 .. Len(vn) :
           /\ vn'[i].path = vn[i].path
           /\ vn'[i].nfsfh = IF i = c.v THEN h ELSE vn[i].nfsfh
  <2>1. /\ fdt' = fdt /\ vn' = [vn EXCEPT ![c.v].nfsfh = h]
        /\ call' = [call EXCEPT ![p] = d] /\ TypeOK
    BY <1>0, <1>3 DEF IInv
  <2>2. c.v \in 1 .. Len(vn) /\ Len(vn) \in Nat
    BY <1>0, <1>2, Ranges
  <2>3. /\ Len(vn') = Len(vn)
        /\ \A i \in 1 .. Len(vn) :
             /\ vn'[i].path = vn[i].path
             /\ vn'[i].nfsfh = IF i = c.v THEN h ELSE vn[i].nfsfh
    <3> HIDE DEF c
    <3> QED
      BY <1>4, <2>1, <2>2, SetHandle
  <2>4. Len(vn') >= Len(vn) /\ \A i \in 1 .. Len(vn) : vn'[i].path = vn[i].path
    BY <2>2, <2>3
  <2>5. Frame(p, d, fdt[p]) /\ call'[p] = d /\ fdt'[p] = fdt[p]
    BY <1>0, <2>1, <2>4, FrameOf, Zenon
  <2> QED
    BY <2>2, <2>3, <2>5
<1>7. NewUse(p, d) /\ Named(p)' /\ HandleOK(p)'
  <2>1. NewUse(p, d)
    BY <1>2, <1>5 DEF NewUse, Uses
  <2>2. Named(p)'
    BY <1>2, <1>5, <1>6, Zenon DEF Named, NamedAs, Path
  <2>3. HandleOK(p)'
    BY <1>3, <1>5, <1>6 DEF HandleOK, HandleAs
  <2> QED
    BY <2>1, <2>2, <2>3
<1>8. Sharing'
  BY <1>0, <1>6, <1>7, SameTable, SharingStep, Zenon
<1>9. Keeps(p, fdt[p])
  BY <1>2, NotOpening, Zenon DEF Keeps
<1>10. Handled'
  <2>1. Sets(p, h) /\ state' = state
    BY <1>3, <1>6 DEF h, Sets
  <2> QED
    BY <1>2, <1>6, <1>7, <1>9, <2>1, SetHandled, Zenon
<1> QED
  BY <1>3, <1>8, <1>10

LEMMA ReclaimSInv ==
  ASSUME SInv, NEW p \in Proc, fault = "none", reclaim_cb(p)
  PROVE  fault' = "none" /\ Sharing' /\ Handled'
<1> DEFINE c == call[p]
<1>0. c.step = "reclaim" /\ IInv /\ Sharing /\ Handled
  BY DEF reclaim_cb, SInv
<1>1. c \in CallRec /\ c.op \in Ops /\ CallOK(c, Len(vn))
  BY <1>0, Resumed
<1>2. c.op = "open" /\ c.v # 0 /\ Path(c.v) = c.name /\ c.fh \in handles
  BY <1>0, <1>1, Zenon DEF CallOK, Ops, Sharing, Named, NamedAs, Handled, HandleOK, HandleAs
<1>3. /\ handles' = handles \ {c.fh} /\ vn' = [vn EXCEPT ![c.v].nfsfh = NULL]
      /\ EachOpen(p, c.name, c.v, coro_count[p] - 1)
      /\ UNCHANGED <<opened, state, fault>>
  BY <1>2 DEF reclaim_cb, Closed
<1>4. NULL \in Handle
  BY DEF NULL, Handle
<1>5. ASSUME NEW d, NEW t, call' = [call EXCEPT ![p] = d],
             fdt' = [fdt EXCEPT ![p] = t] \/ (fdt' = fdt /\ t = fdt[p]),
             \/ d = NoCall
             \/ d.op = "open" /\ d.step = "open" /\ d.name = c.name /\ d.v = c.v,
             \/ t = fdt[p]
             \/ t = Placed(fdt[p], c.v) /\ state[p] = "ZOMBIE" /\ d = NoCall
      PROVE  Sharing' /\ Handled'
  <2>1. /\ Frame(p, d, t) /\ call'[p] = d /\ fdt'[p] = t
        /\ Len(vn') = Len(vn) /\ Len(vn) \in Nat /\ c.v \in 1 .. Len(vn)
        /\ \A i \in 1 .. Len(vn) :
             /\ vn'[i].path = vn[i].path
             /\ vn'[i].nfsfh = IF i = c.v THEN NULL ELSE vn[i].nfsfh
    BY <1>2, <1>3, <1>4, <1>5, SetFrame, Zenon
  <2>2. NewUse(p, d) /\ Named(p)' /\ HandleOK(p)'
    <3>1. CASE d = NoCall
      BY <2>1, <3>1, NoCallFacts, Zenon DEF NewUse, Uses, Named, NamedAs, HandleOK, HandleAs
    <3>2. CASE d.op = "open" /\ d.step = "open" /\ d.name = c.name /\ d.v = c.v
      <4>1. NewUse(p, d)
        BY <1>2, <3>2 DEF NewUse, Uses
      <4>2. Named(p)'
        BY <1>2, <2>1, <3>2, Zenon DEF Named, NamedAs, Path
      <4>3. HandleOK(p)'
        BY <2>1, <3>2, Zenon DEF HandleOK, HandleAs
      <4> QED
        BY <4>1, <4>2, <4>3
    <3> QED
      BY <1>5, <3>1, <3>2
  <2>3. NewTable(p, d, t)
    <3>1. CASE t = fdt[p]
      BY <3>1, SameTable
    <3>2. CASE t = Placed(fdt[p], c.v) /\ state[p] = "ZOMBIE" /\ d = NoCall
      <4>1. c.v \in 1 .. Len(vn') /\ Len(vn') \in Nat /\ Len(vn') >= Len(vn) /\ ~Uses(d)
            /\ vn'[c.v].path = c.name
        <5>1. ~Uses(d)
          BY <3>2, NoCallFacts, Zenon DEF Uses
        <5>2. vn'[c.v].path = c.name
          BY <1>2, <2>1, Zenon DEF Path
        <5>3. c.v \in 1 .. Len(vn') /\ Len(vn') \in Nat /\ Len(vn') >= Len(vn)
          BY <1>2, <2>1
        <5> QED
          BY <5>1, <5>2, <5>3, Zenon
      <4> QED
        BY <1>0, <1>2, <3>2, <4>1, PlacedTable
    <3> QED
      BY <1>5, <3>1, <3>2
  <2>4. Sharing'
    BY <1>0, <2>1, <2>2, <2>3, SharingStep
  <2>5. Keeps(p, t) /\ Sets(p, NULL)
    <3>1. Keeps(p, t)
      BY <1>2, <1>5, NotOpening DEF Keeps
    <3>2. Sets(p, NULL)
      BY <1>0, <1>2, <1>3, <2>1 DEF Sets
    <3> QED
      BY <3>1, <3>2
  <2>6. Handled'
    BY <1>0, <1>2, <1>3, <2>1, <2>2, <2>5, SetHandled
  <2> QED
    BY <2>4, <2>6
<1>6. \/ /\ state[p] = "ZOMBIE" /\ call' = [call EXCEPT ![p] = NoCall]
         /\ fdt' = [fdt EXCEPT ![p] = Placed(fdt[p], c.v)]
      \/ fdt' = fdt /\ call' = [call EXCEPT ![p] = NoCall]
      \/ fdt' = fdt /\ call' = [call EXCEPT ![p] = OpenCall(c.name, c.v)]
  BY <1>0, <1>3, EachOpenWays
<1>7. CASE /\ state[p] = "ZOMBIE" /\ call' = [call EXCEPT ![p] = NoCall]
           /\ fdt' = [fdt EXCEPT ![p] = Placed(fdt[p], c.v)]
  BY <1>3, <1>5, <1>7, Zenon
<1>8. CASE fdt' = fdt /\ call' = [call EXCEPT ![p] = NoCall]
  BY <1>3, <1>5, <1>8, Zenon
<1>9. CASE fdt' = fdt /\ call' = [call EXCEPT ![p] = OpenCall(c.name, c.v)]
  <2> DEFINE d == OpenCall(c.name, c.v)
  <2>1. d.op = "open" /\ d.step = "open" /\ d.name = c.name /\ d.v = c.v
    BY OpenCallFacts
  <2>2. call' = [call EXCEPT ![p] = d]
    BY <1>9
  <2> HIDE DEF d
  <2> QED
    BY <1>3, <1>5, <1>9, <2>1, <2>2, Zenon
<1> QED
  BY <1>6, <1>7, <1>8, <1>9

LEMMA StatSInv ==
  ASSUME SInv, Openable, NEW p \in Proc, fault = "none", nfs_stat64_cb(p)
  PROVE  fault' = "none" /\ Sharing' /\ Handled'
<1> DEFINE c == call[p]
           d == [c EXCEPT !.step = "open"]
<1>0. c.step = "stat" /\ IInv /\ Sharing
  BY DEF nfs_stat64_cb, SInv
<1>1. c \in CallRec /\ c.op \in Ops /\ CallOK(c, Len(vn))
  BY <1>0, Resumed
<1>2. c.op = "load" /\ c.v # 0 /\ Path(c.v) = c.name
  BY <1>0, <1>1, Zenon DEF CallOK, Ops, Sharing, Named, NamedAs
<1>3. UNCHANGED <<vn, handles, opened, fdt, state>>
  BY DEF nfs_stat64_cb
<1>4. CASE Return(p) /\ UNCHANGED fault
  <2>1. call' = [call EXCEPT ![p] = NoCall]
    BY <1>4 DEF Return
  <2> QED
    BY <1>3, <1>4, <2>1, NoCallIdle, QuietCall, Zenon
<1>5. CASE ~(Return(p) /\ UNCHANGED fault)
  <2>1. c.name \in Exec /\ c.name \notin Refused
    BY <1>5 DEF nfs_stat64_cb, Openable
  <2>2. call' = [call EXCEPT ![p] = d] /\ fault' = fault
    BY <1>5, <2>1 DEF nfs_stat64_cb, Await
  <2>3. d.op = "load" /\ d.step = "open" /\ d.v = c.v /\ d.name = c.name
    BY <1>1, <1>2, Zenon DEF CallRec
  <2> HIDE DEF d
  <2>4. NewUse(p, d) /\ NamedAs(p, d) /\ HandleAs(d)
    BY <1>2, <2>1, <2>3 DEF NewUse, Uses, NamedAs, HandleAs
  <2> QED
    BY <1>3, <2>2, <2>4, QuietCall, Zenon
<1> QED
  BY <1>4, <1>5

\* nfs_open_cb when the server has opened the file.
LEMMA OpenedSInv ==
  ASSUME SInv, NEW p \in Proc, fault = "none", nfs_open_cb(p), call[p].name \notin Unopenable
  PROVE  fault' = "none" /\ Sharing' /\ Handled'
<1> DEFINE c == call[p]
           h == opened + 1
<1>0. c.step = "open" /\ IInv /\ Sharing /\ Handled
  BY DEF nfs_open_cb, SInv
<1>1. c \in CallRec /\ c.op \in Ops /\ CallOK(c, Len(vn))
  BY <1>0, Resumed
<1>2. c.op \in {"open", "load"} /\ c.v # 0 /\ Path(c.v) = c.name
  BY <1>0, <1>1, Zenon DEF CallOK, Ops, Sharing, Named, NamedAs
<1>3. /\ opened' = h /\ handles' = handles \cup {h}
      /\ vn' = [vn EXCEPT ![c.v].nfsfh = h] /\ UNCHANGED state
  BY DEF nfs_open_cb
<1>4. h \in Handle /\ opened \in Nat
  BY <1>0 DEF IInv, TypeOK, Handle
<1>5. c.v \in 1 .. Len(vn) /\ Len(vn) \in Nat /\ TypeOK
      /\ \A i \in 1 .. Len(vn) : vn[i].nfsfh <= opened
  BY <1>0, <1>2, VnodeOf, Zenon DEF Handled
<1> HIDE DEF h
<1>6. /\ Len(vn') = Len(vn)
      /\ \A i \in 1 .. Len(vn) :
           /\ vn'[i].path = vn[i].path
           /\ vn'[i].nfsfh = IF i = c.v THEN h ELSE vn[i].nfsfh
  <2> HIDE DEF c
  <2> QED
    BY <1>3, <1>4, <1>5, SetHandle
<1>7. Len(vn') >= Len(vn) /\ \A i \in 1 .. Len(vn) : vn'[i].path = vn[i].path
  BY <1>5, <1>6
<1>8. Sets(p, h)
  BY <1>3, <1>6 DEF h, Sets
<1>9. CASE c.op = "open"
  <2> DEFINE t == Placed(fdt[p], c.v)
  <2>1. /\ fdt' = [fdt EXCEPT ![p] = t] /\ call' = [call EXCEPT ![p] = NoCall]
        /\ fault' = fault
    BY <1>9 DEF nfs_open_cb, Return
  <2>2. /\ NewTable(p, NoCall, t) /\ \A fd \in Fd : t[fd] \in {c.v, fdt[p][fd]}
    <3>1. c.v \in 1 .. Len(vn') /\ Len(vn') \in Nat /\ vn'[c.v].path = c.name
      BY <1>2, <1>5, <1>6 DEF Path
    <3> QED
      BY <1>0, <1>7, <1>9, <3>1, NoCallIdle, PlacedTable, Zenon
  <2> HIDE DEF t
  <2>3. Frame(p, NoCall, t) /\ call'[p] = NoCall
    BY <1>0, <1>7, <2>1, FrameOf, Zenon
  <2>4. NewUse(p, NoCall) /\ Named(p)' /\ HandleOK(p)'
    BY <2>3, NoCallFacts, Zenon DEF NewUse, Uses, Named, NamedAs, HandleOK, HandleAs
  <2>5. Keeps(p, t)
    BY <1>2, <1>3, <1>5, <1>6, <2>2, NotOpening DEF Keeps
  <2>6. Sharing'
    BY <1>0, <2>2, <2>3, <2>4, SharingStep, Zenon
  <2>7. Handled'
    BY <1>2, <1>3, <1>8, <2>3, <2>4, <2>5, SetHandled
  <2> QED
    BY <2>1, <2>6, <2>7
<1>10. CASE c.op = "load"
  <2> DEFINE d == [c EXCEPT !.step = "data", !.fh = h]
  <2>1. call' = [call EXCEPT ![p].step = "data", ![p].fh = h] /\ fdt' = fdt /\ fault' = fault
    BY <1>10 DEF nfs_open_cb, h
  <2>2. call' = [call EXCEPT ![p] = d]
    BY <1>5, <2>1, Zenon DEF TypeOK
  <2>3. d.op = "load" /\ d.step = "data" /\ d.v = c.v /\ d.name = c.name /\ d.fh = h
    BY <1>1, <1>10, Zenon DEF CallRec
  <2> HIDE DEF d
  <2>4. Frame(p, d, fdt[p]) /\ call'[p] = d
    BY <1>0, <1>7, <2>1, <2>2, FrameOf, Zenon
  <2>5. c.name \in Exec
    BY <1>0, <1>10 DEF Handled, HandleOK, HandleAs
  <2>6. NewUse(p, d) /\ Named(p)'
    BY <1>2, <1>5, <1>6, <1>10, <2>3, <2>4, Zenon DEF NewUse, Uses, Named, NamedAs, Path
  <2>7. HandleOK(p)'
    <3>1. vn'[d.v].nfsfh \in handles' /\ d.fh \in handles'
      BY <1>3, <1>5, <1>6, <2>3
    <3>2. ASSUME NEW i \in 1 .. Len(vn'), vn'[i].nfsfh = d.fh PROVE vn'[i].path = d.name
      <4>1. i = c.v
        BY <1>4, <1>5, <1>6, <2>3, <3>2 DEF h
      <4> QED
        BY <1>2, <1>5, <1>6, <2>3, <4>1, Zenon DEF Path
    <3> QED
      BY <2>3, <2>4, <2>5, <3>1, <3>2, Zenon DEF HandleOK, HandleAs, Path
  <2>8. Keeps(p, fdt[p])
    BY <1>2, NotOpening DEF Keeps
  <2>9. Sharing'
    BY <1>0, <2>4, <2>6, SameTable, SharingStep, Zenon
  <2>10. Handled'
    BY <1>2, <1>3, <1>8, <2>4, <2>7, <2>8, SetHandled
  <2> QED
    BY <2>1, <2>9, <2>10
<1> QED
  BY <1>2, <1>9, <1>10

\* nfs_open_cb when the server has refused.  It is not the loader's.
LEMMA RefusedSInv ==
  ASSUME SInv, Openable, NEW p \in Proc, fault = "none", nfs_open_cb(p),
         call[p].name \in Unopenable
  PROVE  fault' = "none" /\ Sharing' /\ Handled'
<1> DEFINE c == call[p]
<1>0. c.step = "open" /\ IInv /\ Sharing /\ Handled
  BY DEF nfs_open_cb, SInv
<1>1. c.op \in Ops /\ CallOK(c, Len(vn))
  BY <1>0, Resumed
<1>2. c.op = "open" /\ c.v # 0
  <2>1. c.op # "load"
    BY <1>0 DEF Handled, HandleOK, HandleAs, Openable
  <2> QED
    BY <1>0, <1>1, <2>1 DEF CallOK, Ops
<1>3. /\ opened' = opened /\ handles' = handles
      /\ vn' = [vn EXCEPT ![c.v].nfsfh = JUNK] /\ UNCHANGED <<state, fault>>
      /\ fdt' = fdt /\ call' = [call EXCEPT ![p] = NoCall]
  BY <1>2, Zenon DEF nfs_open_cb, Return
<1>4. JUNK \in Handle
  BY DEF Handle
<1>5. /\ Frame(p, NoCall, fdt[p]) /\ call'[p] = NoCall
      /\ Len(vn') = Len(vn)
      /\ \A i \in 1 .. Len(vn) : vn'[i].nfsfh = IF i = c.v THEN JUNK ELSE vn[i].nfsfh
  <2>1. c.v \in 1 .. Len(vn) /\ Len(vn) \in Nat /\ TypeOK
    BY <1>0, <1>2, VnodeOf, Zenon
  <2>2. /\ Len(vn') = Len(vn)
        /\ \A i \in 1 .. Len(vn) :
             /\ vn'[i].path = vn[i].path
             /\ vn'[i].nfsfh = IF i = c.v THEN JUNK ELSE vn[i].nfsfh
    <3> HIDE DEF c
    <3> QED
      BY <1>3, <1>4, <2>1, SetHandle
  <2>3. Len(vn') >= Len(vn) /\ \A i \in 1 .. Len(vn) : vn'[i].path = vn[i].path
    BY <2>1, <2>2
  <2>4. Frame(p, NoCall, fdt[p]) /\ call'[p] = NoCall
    BY <1>0, <1>3, <2>3, FrameOf, Zenon
  <2> QED
    BY <2>2, <2>4
<1>6. NewUse(p, NoCall) /\ Named(p)' /\ HandleOK(p)'
  BY <1>5, NoCallFacts, Zenon DEF NewUse, Uses, Named, NamedAs, HandleOK, HandleAs
<1>7. Sharing'
  BY <1>0, <1>5, <1>6, SameTable, SharingStep, Zenon
<1>8. Keeps(p, fdt[p])
  BY <1>2, NotOpening, Zenon DEF Keeps
<1>9. Sets(p, JUNK)
  BY <1>2, <1>3, <1>5 DEF Sets
<1>10. Handled'
  BY <1>2, <1>3, <1>5, <1>6, <1>8, <1>9, SetHandled
<1> QED
  BY <1>3, <1>7, <1>10

\* A read, a write or a close on an open descriptor finds its handle open.
LEMMA UseSInv ==
  ASSUME SInv, NEW p \in Proc, NEW fd \in Fd, Calls(p), fdt[p][fd] # 0,
         NEW op \in {"rw", "close"}, NEW step, step = IF op = "rw" THEN "data" ELSE "close",
         Request(p, [op |-> op, step |-> step, name |-> vn[fdt[p][fd]].path,
                     v |-> fdt[p][fd], fh |-> vn[fdt[p][fd]].nfsfh, fd |-> fd]),
         UNCHANGED <<vn, handles, opened, fdt, state>>
  PROVE  fault' = "none" /\ Sharing' /\ Handled'
<1> DEFINE v == fdt[p][fd]
           d == [op |-> op, step |-> step, name |-> vn[v].path, v |-> v,
                 fh |-> vn[v].nfsfh, fd |-> fd]
<1>0. fault = "none" /\ state[p] = "RUNNING" /\ IInv /\ Handled
  BY CallsFacts, Zenon DEF SInv
<1>1. vn[v].nfsfh \in handles
  BY <1>0, Zenon DEF Handled
<1>2. /\ d.op = op /\ d.step = step /\ d.name = Path(v) /\ d.v = v /\ d.fh = vn[v].nfsfh
      /\ d.fd = fd
  BY Zenon DEF Path
<1>3. Request(p, d)
  OBVIOUS
<1> HIDE DEF d
<1>4. call' = [call EXCEPT ![p] = d] /\ fault' = fault
  BY <1>1, <1>2, <1>3, Zenon DEF Request, Await
<1>5. NewUse(p, d) /\ NamedAs(p, d) /\ HandleAs(d)
  BY <1>1, <1>2, Zenon DEF NewUse, NamedAs, HandleAs
<1> QED
  BY <1>0, <1>4, <1>5, QuietCall, Zenon

LEMMA DataSInv ==
  ASSUME SInv, NEW p \in Proc, fault = "none", data_cb(p)
  PROVE  fault' = "none" /\ Sharing' /\ Handled'
<1> DEFINE c == call[p]
<1>0. c.step = "data" /\ IInv /\ Sharing /\ Handled
  BY DEF data_cb, SInv
<1>1. c \in CallRec /\ c.op \in Ops /\ CallOK(c, Len(vn))
  BY <1>0, Resumed, Zenon
<1>2. c.op \in {"rw", "load"} /\ c.v # 0 /\ c.fh \in handles /\ NamedAs(p, c) /\ HandleAs(c)
  <2>1. NamedAs(p, c) /\ HandleAs(c)
    BY <1>0, Zenon DEF Sharing, Named, Handled, HandleOK
  <2> QED
    BY <1>0, <1>1, <2>1, Zenon DEF CallOK, Ops, HandleAs
<1>3. CASE Return(p) /\ UNCHANGED <<vn, handles, opened, fdt, state, fault>>
  <2>1. call' = [call EXCEPT ![p] = NoCall]
    BY <1>3 DEF Return
  <2> QED
    BY <1>3, <2>1, NoCallIdle, QuietCall, Zenon
<1>4. CASE c.op = "rw"
  <2>1. fdt[p][c.fd] = c.v
    BY <1>2, <1>4 DEF NamedAs
  <2> QED
    BY <1>2, <1>3, <1>4, <2>1 DEF data_cb
<1>5. CASE c.op = "load"
  <2> DEFINE d == [c EXCEPT !.fh = vn[c.v].nfsfh]
  <2>1. /\ \/ Return(p) /\ UNCHANGED fault
           \/ Request(p, d)
        /\ UNCHANGED <<vn, handles, opened, fdt, state>>
    BY <1>2, <1>5, Zenon DEF data_cb
  <2>2. CASE Request(p, d)
    <3>1. vn[c.v].nfsfh \in handles
      BY <1>0, <1>2, <1>5 DEF HandleAs
    <3>2. /\ d.op = "load" /\ d.step = "data" /\ d.name = c.name /\ d.v = c.v
          /\ d.fh = vn[c.v].nfsfh
      BY <1>0, <1>1, <1>5, Zenon DEF CallRec
    <3> HIDE DEF d
    <3>3. call' = [call EXCEPT ![p] = d] /\ fault' = fault
      BY <2>2, <3>1, <3>2 DEF Request, Await
    <3>4. \A i \in 1 .. Len(vn) : vn[i].nfsfh = d.fh => Path(i) = d.name
      <4>1. c.v \in 1 .. Len(vn) /\ Path(c.v) = c.name
        BY <1>0, <1>2, <1>5, VnodeOf, Zenon DEF NamedAs
      <4>2. vn[c.v].nfsfh > 0
        <5>1. opened \in Nat /\ handles \subseteq 1 .. opened
          BY <1>0, Ranges
        <5>2. \A x \in handles : x > 0
          BY <5>1
        <5> QED
          BY <3>1, <5>2
      <4>3. \A i \in 1 .. Len(vn) : vn[i].nfsfh = vn[c.v].nfsfh => i = c.v
        BY <1>0, <4>1, <4>2 DEF Handled
      <4> QED
        BY <3>2, <4>1, <4>3
    <3>5. NewUse(p, d) /\ NamedAs(p, d)
      BY <1>2, <1>5, <3>2 DEF NewUse, Uses, NamedAs
    <3>6. HandleAs(d)
      BY <1>0, <1>2, <1>5, <3>1, <3>2, <3>4, Zenon DEF HandleAs
    <3> QED
      BY <2>1, <3>3, <3>5, <3>6, QuietCall, Zenon
  <2> QED
    BY <1>3, <2>1, <2>2
<1> QED
  BY <1>2, <1>4, <1>5, Zenon

LEMMA ClosedSInv ==
  ASSUME SInv, NEW p \in Proc, fault = "none", nfs_close_cb(p)
  PROVE  fault' = "none" /\ Sharing' /\ Handled'
<1> DEFINE c == call[p]
           t == [fdt[p] EXCEPT ![c.fd] = 0]
<1>0. c.step = "close" /\ IInv /\ Sharing /\ Handled
  BY DEF nfs_close_cb, SInv
<1>1. c.op \in Ops /\ CallOK(c, Len(vn)) /\ c.fd \in Fd
  BY <1>0, Resumed
<1>2. c.op = "close" /\ c.v # 0 /\ c.fh \in handles
  BY <1>0, <1>1 DEF CallOK, Ops, Handled, HandleOK, HandleAs
<1>3. /\ handles' = handles \ {c.fh} /\ vn' = [vn EXCEPT ![c.v].nfsfh = NULL]
      /\ fdt' = [fdt EXCEPT ![p][c.fd] = 0] /\ call' = [call EXCEPT ![p] = NoCall]
      /\ UNCHANGED <<opened, state, fault>>
  BY <1>2 DEF nfs_close_cb, Closed, Return
<1>4. NULL \in Handle /\ c.v \in 1 .. Len(vn) /\ Len(vn) \in Nat /\ TypeOK
  <2>1. NULL \in Handle
    BY DEF NULL, Handle
  <2> QED
    BY <1>0, <1>2, <2>1, VnodeOf, Zenon
<1>5. /\ fdt' = [fdt EXCEPT ![p] = t] /\ t[c.fd] = 0
      /\ \A fd \in Fd : fd # c.fd => t[fd] = fdt[p][fd]
  BY <1>1, <1>3, <1>4 DEF TypeOK
<1> HIDE DEF t
<1>6. /\ Len(vn') = Len(vn)
      /\ \A i \in 1 .. Len(vn) :
           /\ vn'[i].path = vn[i].path
           /\ vn'[i].nfsfh = IF i = c.v THEN NULL ELSE vn[i].nfsfh
  <2> HIDE DEF c
  <2> QED
    BY <1>3, <1>4, SetHandle
<1>7. Frame(p, NoCall, t) /\ call'[p] = NoCall
  <2>1. Len(vn) \in Nat /\ Len(vn') = Len(vn)
    BY <1>4, <1>6, Zenon
  <2>2. Len(vn') >= Len(vn)
    BY <2>1, NoShorter, Zenon
  <2>3. \A i \in 1 .. Len(vn) : vn'[i].path = vn[i].path
    BY <1>6, Zenon
  <2> QED
    BY <1>0, <1>3, <1>5, <2>2, <2>3, FrameOf, ZenonT(30)
<1>8. NewUse(p, NoCall) /\ Named(p)' /\ HandleOK(p)'
  BY <1>7, NoCallFacts, Zenon DEF NewUse, Uses, Named, NamedAs, HandleOK, HandleAs
<1>9. NewTable(p, NoCall, t)
  BY <1>1, <1>5, Zenon DEF NewTable
<1>10. Sharing'
  BY <1>0, <1>7, <1>8, <1>9, SharingStep, Zenon
<1>11. Keeps(p, t)
  <2>1. fdt[p][c.fd] = c.v
    BY <1>0, <1>2, Zenon DEF Sharing, Named, NamedAs
  <2>2. ASSUME NEW fd \in Fd, fd # c.fd, fdt[p][fd] # 0 PROVE fdt[p][fd] # c.v
    <3>1. fdt[p][fd] = fdt[p][c.fd] => fd = c.fd
      BY <1>0, <1>1, <1>2, <2>1, <2>2, Zenon DEF Sharing
    <3> QED
      BY <2>1, <2>2, <3>1
  <2> QED
    BY <1>5, <2>2 DEF Keeps
<1>12. Sets(p, NULL)
  BY <1>0, <1>2, <1>3, <1>6 DEF Sets
<1>13. Handled'
  BY <1>2, <1>3, <1>7, <1>8, <1>11, <1>12, SetHandled
<1> QED
  BY <1>3, <1>10, <1>13

LEMMA DestroySInv ==
  ASSUME SInv, NEW p \in Proc, proc_destroy(p)
  PROVE  Sharing' /\ Handled'
<1> DEFINE c == call[p]
           t == [fd \in Fd |-> 0]
<1>0. IInv /\ Sharing /\ Handled /\ TypeOK /\ Len(vn) \in Nat
  BY DEF SInv, IInv, TypeOK
<1>1. /\ fault = "none" /\ coro_count[p] = 0
      /\ state' = [state EXCEPT ![p] = "GONE"] /\ fdt' = [fdt EXCEPT ![p] = t]
      /\ UNCHANGED <<vn, handles, opened, call>>
  BY DEF proc_destroy
<1>2. \A fd \in Fd : t[fd] = 0
  OBVIOUS
<1> HIDE DEF t
<1>3. ~Waits(c) /\ CallOK(c, Len(vn))
  <2>1. CallOK(c, Len(vn)) /\ coro_count[p] = IF Waits(c) THEN 1 ELSE 0
    BY <1>0, <1>1, Zenon DEF IInv
  <2>2. coro_count[p] # 1
    BY <1>1
  <2> QED
    BY <2>1, <2>2, Zenon
<1>4. c.op \in {"none", "load"}
  BY <1>3 DEF Waits
<1>5. Frame(p, c, t) /\ call'[p] = c
  <2>1. /\ call' = [call EXCEPT ![p] = c] /\ Len(vn') >= Len(vn)
        /\ \A i \in 1 .. Len(vn) : vn'[i].path = vn[i].path
    BY <1>0, <1>1 DEF TypeOK
  <2> QED
    BY <1>0, <1>1, <2>1, FrameOf, Zenon
<1>6. NamedAs(p, c) /\ HandleAs(c)
  BY <1>0, Zenon DEF Sharing, Named, Handled, HandleOK
<1>7. Named(p)'
  BY <1>1, <1>4, <1>6, Zenon DEF Named, NamedAs, Path
<1>8. HandleOK(p)'
  BY <1>1, <1>6, Zenon DEF HandleOK, HandleAs, Path
<1>9. NewUse(p, c) /\ NewTable(p, c, t)
  <2>1. 0 \in Fd
    BY FilesAssumption DEF Fd
  <2> QED
    BY <1>2, <1>4, <2>1, Zenon DEF NewUse, NewTable, Uses
<1>10. Sharing'
  BY <1>0, <1>5, <1>7, <1>9, SharingStep
<1>11. \A q \in Proc : state'[q] = "RUNNING" => state[q] = "RUNNING"
  BY <1>0, <1>1 DEF TypeOK
<1>12. Handled'
  <2>1. /\ handles' = handles /\ opened' = opened
        /\ \A i \in 1 .. Len(vn) : vn'[i] = vn[i]
    BY <1>1, Zenon
  <2>2. Len(vn') \in Nat /\ \A i \in 1 .. Len(vn') : i > Len(vn) => vn'[i].nfsfh = JUNK
    BY <1>0, <1>1 DEF TypeOK
  <2>3. \A fd \in Fd : state'[p] = "RUNNING" => t[fd] \in {0, fdt[p][fd]}
    BY <1>2, Zenon
  <2> QED
    BY <1>0, <1>5, <1>8, <1>11, <2>1, <2>2, <2>3, QuietHandled, Zenon
<1> QED
  BY <1>10, <1>12

LEMMA ZombiefySInv ==
  ASSUME SInv, NEW p \in Proc, zombiefy(p)
  PROVE  Sharing' /\ Handled'
<1>1. /\ state' = [state EXCEPT ![p] = "ZOMBIE"]
      /\ UNCHANGED <<vn, handles, opened, fdt, call>>
  BY DEF zombiefy
<1>2. Sharing /\ Handled /\ \A q \in Proc : state'[q] = "RUNNING" => state[q] = "RUNNING"
  BY <1>1 DEF SInv, IInv, TypeOK
<1>3. Sharing'
  BY <1>1, <1>2, Zenon DEF Sharing, Named, NamedAs, Path
<1>4. Handled'
  BY <1>1, <1>2, Zenon DEF Handled, HandleOK, HandleAs, Path
<1> QED
  BY <1>3, <1>4

LEMMA QuerySInv ==
  ASSUME SInv, NEW p \in Proc, syscall_query(p)
  PROVE  Sharing' /\ Handled'
<1> DEFINE d == [op |-> "query", step |-> "query", name |-> "", v |-> 0,
                 fh |-> NULL, fd |-> 0]
<1>1. call' = [call EXCEPT ![p] = d] /\ UNCHANGED <<vn, handles, opened, fdt, state>>
  BY Zenon DEF syscall_query, Await
<1>2. d.op = "query" /\ d.step = "query"
  OBVIOUS
<1> HIDE DEF d
<1>3. NewUse(p, d) /\ NamedAs(p, d) /\ HandleAs(d)
  BY <1>2, Idle
<1> QED
  BY <1>1, <1>3, QuietCall, Zenon

LEMMA InitSInv == Init => SInv
<1> SUFFICES ASSUME Init PROVE SInv
  OBVIOUS
<1>1. /\ vn = <<>> /\ Len(vn) = 0 /\ fault = "none"
      /\ \A p \in Proc : call[p] = NoCall /\ \A fd \in Fd : fdt[p][fd] = 0
  BY DEF Init
<1>2. \A p \in Proc : NamedAs(p, NoCall) /\ HandleAs(NoCall) /\ ~Uses(NoCall)
  BY NoCallIdle
<1>3. NoCall.op = "none"
  BY NoCallFacts
<1>4. Sharing
  BY <1>1, <1>2, <1>3 DEF Sharing, Named
<1>5. Handled
  <2>1. \A p \in Proc : HandleOK(p)
    BY <1>1, <1>2, Zenon DEF HandleOK
  <2>2. 1 .. Len(vn) = {}
    BY <1>1
  <2> QED
    BY <1>1, <2>1, <2>2, Zenon DEF Handled
<1> QED
  BY <1>1, <1>4, <1>5, InitIInv DEF SInv

LEMMA NextSInv ==
  ASSUME Disciplined, Openable, SInv, [Next]_vars
  PROVE  SInv'
<1>1. IInv'
  BY NextIInv DEF SInv
<1> SUFFICES fault' \in {"none", "exit"} /\ Sharing' /\ Handled'
  BY <1>1 DEF SInv
<1>2. ASSUME UNCHANGED <<vn, handles, opened, fdt, call, state>> PROVE Sharing' /\ Handled'
  <2>1. Sharing'
    BY <1>2, Zenon DEF SInv, Sharing, Named, NamedAs, Path
  <2>2. Handled'
    BY <1>2, Zenon DEF SInv, Handled, HandleOK, HandleAs, Path
  <2> QED
    BY <2>1, <2>2
<1>3. CASE UNCHANGED vars
  BY <1>2, <1>3 DEF vars, SInv
<1>4. CASE Next
  <2> PICK p \in Proc :
        \/ \E name \in Name : syscall_open(p, name) \/ elf_load_fs(p, name)
        \/ \E fd \in Fd : syscall_readwrite(p, fd) \/ syscall_close(p, fd)
        \/ syscall_query(p)
        \/ Callback(p)
        \/ zombiefy(p)
        \/ proc_destroy(p)
    BY <1>4 DEF Next
  <2>1. ASSUME NEW name \in Name, syscall_open(p, name)
        PROVE  fault' \in {"none", "exit"} /\ Sharing' /\ Handled'
    <3>1. fault' = fault
      BY <2>1 DEF syscall_open
    <3> QED
      BY <2>1, <3>1, OpenSInv DEF SInv
  <2>2. ASSUME NEW name \in Name, elf_load_fs(p, name)
        PROVE  fault' \in {"none", "exit"} /\ Sharing' /\ Handled'
    <3>1. fault' = fault
      BY <2>2 DEF elf_load_fs
    <3> QED
      BY <2>2, <3>1, LoadSInv DEF SInv
  <2>3. ASSUME NEW fd \in Fd, syscall_readwrite(p, fd)
        PROVE  fault' = "none" /\ Sharing' /\ Handled'
    BY <2>3, UseSInv, Zenon DEF syscall_readwrite
  <2>4. ASSUME NEW fd \in Fd, syscall_close(p, fd)
        PROVE  fault' = "none" /\ Sharing' /\ Handled'
    BY <2>4, UseSInv, Zenon DEF syscall_close
  <2>5. CASE syscall_query(p)
    <3>1. fault' = fault
      BY <2>5, Zenon DEF syscall_query
    <3> QED
      BY <2>5, <3>1, QuerySInv DEF SInv
  <2>6. CASE Callback(p)
    <3>1. CASE nfs_error(p)
      BY <1>2, <3>1 DEF nfs_error, Halt
    <3>2. CASE query_cb(p)
      <4>1. /\ call' = [call EXCEPT ![p] = NoCall]
            /\ UNCHANGED <<vn, handles, opened, fdt, state, fault>>
        BY <3>2 DEF query_cb, Return
      <4> QED
        BY <4>1, NoCallIdle, QuietCall, Zenon DEF SInv
    <3>3. CASE nfs_open_cb(p)
      BY <2>6, <3>3, OpenedSInv, RefusedSInv DEF Callback
    <3> QED
      BY <2>6, <3>1, <3>2, <3>3, LookupSInv, CreateSInv, ReclaimSInv, StatSInv, DataSInv,
         ClosedSInv DEF Callback
  <2>7. CASE zombiefy(p)
    <3>1. fault' = fault
      BY <2>7 DEF zombiefy
    <3> QED
      BY <2>7, <3>1, ZombiefySInv DEF SInv
  <2>8. CASE proc_destroy(p)
    <3>1. fault' = fault
      BY <2>8 DEF proc_destroy
    <3> QED
      BY <2>8, <3>1, DestroySInv DEF SInv
  <2> QED
    BY <2>1, <2>2, <2>3, <2>4, <2>5, <2>6, <2>7, <2>8
<1> QED
  BY <1>3, <1>4

\* For clients that close what they hold and share no open file, and a server
\* that opens the programs: libnfs is never given a handle that is not open, no
\* handle is freed twice, and the descriptors of a live process can be used,
\* although each vnode has one nfsfh that every open overwrites, the loader
\* opens and never closes, and a killed process closes nothing.
THEOREM HandlesAlwaysSound ==
  ASSUME Disciplined, Openable
  PROVE  Spec => []HandlesSound
<1>1. SInv /\ [Next]_vars => SInv'
  BY NextSInv
<1>2. SInv => HandlesSound
  BY DEF SInv, Handled, HandlesSound
<1> QED
  BY <1>1, <1>2, InitSInv, PTL DEF Spec

=============================================================================
