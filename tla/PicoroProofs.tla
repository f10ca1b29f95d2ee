---------------------------- MODULE PicoroProofs ----------------------------
(***************************************************************************)
(* Proofs about Picoro for any number of stacks: the lists keep their      *)
(* shape, resumable() is exact and the idle list never runs empty.         *)
(***************************************************************************)
EXTENDS Picoro, TLAPS

\* The running list: "first" at the bottom, above it coroutines that are
\* inside their function, none twice.
RunningShape ==
  /\ running # <<>>
  /\ running[Len(running)] = First
  /\ \A i \in 1 .. Len(running) :
       i # Len(running) => running[i] \in Coro /\ pc[running[i]] = "body"
  /\ \A i, j \in 1 .. Len(running) : running[i] = running[j] => i = j

\* The idle list: a spare at the bottom, finished coroutines above it, none
\* twice, and no idle coroutine is missing from it.
IdleShape ==
  /\ \A i \in 1 .. Len(idle) :
       pc[idle[i]] = IF i = Len(idle) THEN "fresh" ELSE "done"
  /\ \A i, j \in 1 .. Len(idle) : idle[i] = idle[j] => i = j
  /\ \A c \in Coro : pc[c] \in {"fresh", "done"} =>
       \E i \in 1 .. Len(idle) : idle[i] = c
  /\ idle = <<>> => \A c \in Coro : pc[c] = "unborn"

\* ListsDisjoint and ResumableIsExact are not inductive: that the next field
\* of a listed coroutine is not NULL rests on which places its list holds.
IInv == TypeOK /\ RunningShape /\ IdleShape

-----------------------------------------------------------------------------
\* push() puts c on top and moves every other coroutine one place down.
LEMMA PushProperties ==
  ASSUME NEW S, NEW s \in Seq(S), NEW c \in S
  PROVE  /\ push(s, c) \in Seq(S)
         /\ push(s, c) # <<>>
         /\ Len(push(s, c)) = Len(s) + 1
         /\ push(s, c)[1] = c
         /\ \A i \in 2 .. Len(s) + 1 : push(s, c)[i] = s[i - 1]
BY DEF push

\* pop() removes the head and moves every other coroutine one place up.
LEMMA TailPlaces ==
  ASSUME NEW S, NEW s \in Seq(S), s # <<>>
  PROVE  /\ Tail(s) \in Seq(S)
         /\ Len(s) \in Nat \ {0}
         /\ Len(Tail(s)) = Len(s) - 1
         /\ Head(s) = s[1] /\ s[1] \in S
         /\ \A i \in 1 .. Len(s) - 1 : Tail(s)[i] = s[i + 1]
OBVIOUS

LEMMA OneElement ==
  ASSUME NEW S, NEW c \in S
  PROVE  <<c>> \in Seq(S) /\ <<c>> # <<>> /\ Len(<<c>>) = 1 /\ <<c>>[1] = c
OBVIOUS

LEMMA PushOnEmpty == ASSUME NEW c PROVE push(<<>>, c) = <<c>>
BY DEF push

LEMMA LenZero == ASSUME NEW S, NEW s \in Seq(S), Len(s) = 0 PROVE s = <<>>
OBVIOUS

LEMMA EmptyLen == ASSUME NEW s, Len(s) # 0 PROVE s # <<>>
OBVIOUS

LEMMA InitIInv == Init => IInv
<1> SUFFICES ASSUME Init PROVE IInv
  OBVIOUS
<1> USE DEF Init
<1>1. TypeOK
  BY DEF TypeOK, Places
<1>2. RunningShape
  BY DEF RunningShape
<1>3. IdleShape
  BY DEF IdleShape
<1> QED
  BY <1>1, <1>2, <1>3 DEF IInv

\* A coroutine inside its function or waiting for it is not idle.
LEMMA NextIInv == IInv /\ [Next]_vars => IInv'
<1> SUFFICES ASSUME IInv, [Next]_vars PROVE IInv'
  OBVIOUS
<1> USE CoroAssumption
<1>0. /\ running \in Seq(Coro \cup {First}) /\ idle \in Seq(Coro)
      /\ pc \in [Coro -> Places]
      /\ Len(running) \in Nat \ {0} /\ Len(idle) \in Nat
  BY DEF IInv, TypeOK, RunningShape
<1>1. ASSUME NEW c \in Coro, NEW spare \in Coro, CoroutineFirst(c, spare)
      PROVE  IInv'
  <2>1. /\ idle = <<>> /\ idle' = <<spare>>
        /\ pc[c] = "unborn" /\ pc[spare] = "unborn" /\ c # spare
        /\ pc' = [pc EXCEPT ![c] = "given", ![spare] = "fresh"]
        /\ running' = running
    BY <1>1 DEF CoroutineFirst, push, Unborn
  <2>2. /\ idle' \in Seq(Coro) /\ idle' # <<>>
        /\ Len(idle') = 1 /\ idle'[1] = spare
    BY <2>1, OneElement
  <2>3. \A d \in Coro : pc'[d] = IF d = c THEN "given"
                                 ELSE IF d = spare THEN "fresh" ELSE pc[d]
    BY <1>0, <2>1
  <2>4. TypeOK'
    BY <1>0, <2>1, <2>2 DEF TypeOK, Places
  <2>5. RunningShape'
    BY <1>0, <2>1, <2>3 DEF IInv, RunningShape
  <2>6. IdleShape'
    BY <1>0, <2>1, <2>2, <2>3 DEF IInv, IdleShape
  <2> QED
    BY <2>4, <2>5, <2>6 DEF IInv
<1>2. ASSUME NEW spare \in Coro, CoroutineFork(spare) PROVE IInv'
  <2>1. /\ idle # <<>> /\ pc[Head(idle)] = "fresh" /\ pc[spare] = "unborn"
        /\ pc' = [pc EXCEPT ![Head(idle)] = "given", ![spare] = "fresh"]
        /\ running' = running
        /\ idle' = push(Tail(idle), spare)
    BY <1>2 DEF CoroutineFork, Unborn
  <2>2. Len(idle) = 1 /\ idle[1] = Head(idle) /\ Head(idle) \in Coro
    <3>1. Len(idle) >= 1 /\ idle[1] = Head(idle) /\ Head(idle) \in Coro
      BY <1>0, <2>1, TailPlaces
    <3>2. 1 \in 1 .. Len(idle)
      BY <1>0, <3>1
    <3>3. pc[idle[1]] = IF 1 = Len(idle) THEN "fresh" ELSE "done"
      BY <3>2 DEF IInv, IdleShape
    <3> QED
      BY <1>0, <2>1, <3>1, <3>3
  <2>3. idle' = <<spare>>
    <3>1. Tail(idle) \in Seq(Coro) /\ Len(Tail(idle)) = 0
      BY <1>0, <2>1, <2>2, TailPlaces
    <3>2. Tail(idle) = <<>>
      BY <3>1, LenZero
    <3> QED
      BY <2>1, <3>2, PushOnEmpty
  <2>4. /\ idle' \in Seq(Coro) /\ idle' # <<>>
        /\ Len(idle') = 1 /\ idle'[1] = spare
    BY <2>3, OneElement
  <2>5. \A d \in Coro : pc'[d] = IF d = spare THEN "fresh"
                                 ELSE IF d = Head(idle) THEN "given" ELSE pc[d]
    BY <1>0, <2>1, <2>2
  <2>6. TypeOK'
    BY <1>0, <2>1, <2>2, <2>4 DEF TypeOK, Places
  <2>7. RunningShape'
    BY <1>0, <2>1, <2>2, <2>5 DEF IInv, RunningShape
  <2>8. IdleShape'
    <3>1. \A d \in Coro : pc[d] \in {"fresh", "done"} => d = Head(idle)
      BY <1>0, <2>2 DEF IInv, IdleShape
    <3>2. \A d \in Coro : pc'[d] \in {"fresh", "done"} => d = spare
      BY <2>5, <3>1
    <3>3. pc'[spare] = "fresh"
      BY <2>5
    <3> QED
      BY <2>4, <3>2, <3>3 DEF IdleShape
  <2> QED
    BY <2>6, <2>7, <2>8 DEF IInv
<1>3. CASE CoroutineReuse
  <2>1. /\ idle # <<>> /\ pc[Head(idle)] = "done"
        /\ pc' = [pc EXCEPT ![Head(idle)] = "given"]
        /\ running' = running
        /\ idle' = Tail(idle)
    BY <1>3 DEF CoroutineReuse
  <2>2. TypeOK'
    BY <1>0, <2>1, TailPlaces DEF TypeOK, Places
  <2>3. RunningShape'
    BY <1>0, <2>1, TailPlaces DEF IInv, RunningShape
  <2>4. Len(idle) > 1
    BY <1>0, <2>1, TailPlaces DEF IInv, IdleShape
  <2>5. \A i \in 1 .. Len(idle') : idle'[i] = idle[i + 1] /\ idle[i + 1] # Head(idle)
    BY <1>0, <2>1, TailPlaces DEF IInv, IdleShape
  <2>6. Len(idle') = Len(idle) - 1 /\ Head(idle) = idle[1]
    BY <1>0, <2>1, TailPlaces
  <2>7. \A i \in 1 .. Len(idle') : idle'[i] \in Coro /\ pc'[idle'[i]] = pc[idle[i + 1]]
    BY <1>0, <2>1, <2>5, <2>6
  <2>8. IdleShape'
    <3>1. (\A i \in 1 .. Len(idle) :
            pc[idle[i]] = IF i = Len(idle) THEN "fresh" ELSE "done")'
      <4> SUFFICES ASSUME NEW i \in 1 .. Len(idle')
                   PROVE  pc'[idle'[i]] = IF i = Len(idle') THEN "fresh" ELSE "done"
        OBVIOUS
      <4>1. i + 1 \in 1 .. Len(idle) /\ (i + 1 = Len(idle) <=> i = Len(idle'))
        BY <1>0, <2>6
      <4>2. pc[idle[i + 1]] = IF i + 1 = Len(idle) THEN "fresh" ELSE "done"
        BY <4>1 DEF IInv, IdleShape
      <4> QED
        BY <2>7, <4>1, <4>2
    <3>2. (\A i, j \in 1 .. Len(idle) : idle[i] = idle[j] => i = j)'
      BY <1>0, <2>5, <2>6 DEF IInv, IdleShape
    <3>3. ASSUME NEW c \in Coro, pc'[c] \in {"fresh", "done"}
          PROVE  \E i \in 1 .. Len(idle') : idle'[i] = c
      <4>1. c # Head(idle) /\ pc[c] \in {"fresh", "done"}
        BY <1>0, <2>1, <3>3, TailPlaces
      <4>2. PICK k \in 1 .. Len(idle) : idle[k] = c
        BY <4>1 DEF IInv, IdleShape
      <4>3. k - 1 \in 1 .. Len(idle') /\ idle'[k - 1] = c
        BY <1>0, <2>5, <2>6, <4>1, <4>2
      <4> QED
        BY <4>3
    <3> QED
      BY <1>0, <2>4, <2>6, <3>1, <3>2, <3>3 DEF IdleShape
  <2> QED
    BY <2>2, <2>3, <2>8 DEF IInv
<1>4. ASSUME NEW c \in Coro, Resume(c) PROVE IInv'
  <2>1. /\ pc[c] \in {"given", "body", "done"}
        /\ resumable(c)
        /\ running' = push(running, c)
        /\ pc' = [pc EXCEPT ![c] = "body"]
        /\ idle' = idle
    BY <1>4 DEF Resume, Visible
  <2>2. c \notin Elements(running)
    <3> SUFFICES ASSUME c \in Elements(running) PROVE FALSE
      OBVIOUS
    <3> DEFINE i == CHOOSE j \in 1 .. Len(running) : running[j] = c
    <3>1. i \in 1 .. Len(running) /\ running[i] = c
      BY DEF Elements
    <3>2. i # Len(running)
      BY <3>1 DEF IInv, RunningShape
    <3>3. next(c) = running[i + 1]
      BY <1>0, <3>1, <3>2 DEF next, NextOn
    <3>4. running[i + 1] # NULL
      BY <1>0, <3>1, <3>2
    <3> QED
      BY <2>1, <3>3, <3>4 DEF resumable
  <2>3. c \notin Elements(idle)
    <3> SUFFICES ASSUME c \in Elements(idle) PROVE FALSE
      OBVIOUS
    <3> DEFINE i == CHOOSE j \in 1 .. Len(idle) : idle[j] = c
    <3>1. i \in 1 .. Len(idle) /\ idle[i] = c
      BY DEF Elements
    <3>2. i # Len(idle)
      BY <2>1, <3>1 DEF IInv, IdleShape
    <3>3. next(c) = idle[i + 1]
      BY <1>0, <2>2, <3>1, <3>2 DEF next, NextOn
    <3>4. idle[i + 1] # NULL
      BY <1>0, <3>1, <3>2
    <3> QED
      BY <2>1, <3>3, <3>4 DEF resumable
  <2>4. /\ running' \in Seq(Coro \cup {First})
        /\ Len(running') = Len(running) + 1
        /\ running'[1] = c
        /\ \A i \in 2 .. Len(running) + 1 : running'[i] = running[i - 1]
        /\ running' # <<>>
    <3> DEFINE RS == Coro \cup {First}
    <3>1. c \in RS /\ running \in Seq(RS) /\ running' = push(running, c)
      BY <1>0, <2>1
    <3> HIDE DEF RS
    <3>2. /\ running' \in Seq(RS)
          /\ Len(running') = Len(running) + 1
          /\ running'[1] = c
          /\ \A i \in 2 .. Len(running) + 1 : running'[i] = running[i - 1]
          /\ running' # <<>>
      BY <3>1, PushProperties, ZenonT(40)
    <3> QED
      BY <3>2 DEF RS
  <2>5. TypeOK'
    BY <1>0, <2>1, <2>4 DEF TypeOK, Places
  <2>6. RunningShape'
    <3>1. \A i \in 1 .. Len(running) : running[i] # c
      BY <2>2 DEF Elements
    <3>2. running'[Len(running')] = First
      BY <1>0, <2>4 DEF IInv, RunningShape
    <3>3. (\A i \in 1 .. Len(running) :
             i # Len(running) => running[i] \in Coro /\ pc[running[i]] = "body")'
      <4> SUFFICES ASSUME NEW i \in 1 .. Len(running'), i # Len(running')
                   PROVE  running'[i] \in Coro /\ pc'[running'[i]] = "body"
        OBVIOUS
      <4>1. CASE i = 1
        BY <1>0, <2>1, <2>4, <4>1
      <4>2. CASE i # 1
        <5>1. running'[i] = running[i - 1] /\ i - 1 \in 1 .. Len(running)
              /\ i - 1 # Len(running)
          BY <1>0, <2>4, <4>2
        <5> QED
          BY <1>0, <2>1, <3>1, <5>1 DEF IInv, RunningShape
      <4> QED
        BY <4>1, <4>2
    <3>4. (\A i, j \in 1 .. Len(running) : running[i] = running[j] => i = j)'
      <4> SUFFICES ASSUME NEW i \in 1 .. Len(running'), NEW j \in 1 .. Len(running'),
                          running'[i] = running'[j]
                   PROVE  i = j
        OBVIOUS
      <4>1. /\ i # 1 => i - 1 \in 1 .. Len(running) /\ running'[i] = running[i - 1]
            /\ j # 1 => j - 1 \in 1 .. Len(running) /\ running'[j] = running[j - 1]
        BY <1>0, <2>4
      <4>2. i # 1 /\ j # 1 => i - 1 = j - 1
        BY <4>1 DEF IInv, RunningShape
      <4> QED
        BY <2>4, <3>1, <4>1, <4>2
    <3> QED
      BY <2>4, <3>2, <3>3, <3>4 DEF RunningShape
  <2>7. IdleShape'
    <3>1. \A i \in 1 .. Len(idle) : idle[i] # c
      BY <2>3 DEF Elements
    <3> QED
      BY <1>0, <2>1, <3>1 DEF IInv, IdleShape
  <2> QED
    BY <2>5, <2>6, <2>7 DEF IInv
<1>5. CASE Yield
  <2>1. running # <<>> /\ Head(running) # First /\ running' = Tail(running)
        /\ idle' = idle /\ pc' = pc
    BY <1>5 DEF Yield, IInv, RunningShape
  <2>2. Len(running) > 1
    BY <1>0, <2>1, TailPlaces DEF IInv, RunningShape
  <2>3. /\ running' \in Seq(Coro \cup {First})
        /\ Len(running') = Len(running) - 1
        /\ \A i \in 1 .. Len(running') : running'[i] = running[i + 1]
    BY <1>0, <2>1, TailPlaces
  <2>4. TypeOK'
    BY <1>0, <2>1, <2>3 DEF TypeOK
  <2>5. RunningShape'
    <3>1. running' # <<>> /\ running'[Len(running')] = First
      BY <1>0, <2>2, <2>3 DEF IInv, RunningShape
    <3>2. (\A i \in 1 .. Len(running) :
             i # Len(running) => running[i] \in Coro /\ pc[running[i]] = "body")'
      <4> SUFFICES ASSUME NEW i \in 1 .. Len(running'), i # Len(running')
                   PROVE  running'[i] \in Coro /\ pc'[running'[i]] = "body"
        OBVIOUS
      <4>1. /\ i + 1 \in 1 .. Len(running) /\ i + 1 # Len(running)
            /\ running'[i] = running[i + 1]
        BY <1>0, <2>3
      <4> QED
        BY <2>1, <4>1 DEF IInv, RunningShape
    <3>3. (\A i, j \in 1 .. Len(running) : running[i] = running[j] => i = j)'
      BY <1>0, <2>2, <2>3 DEF IInv, RunningShape
    <3> QED
      BY <3>1, <3>2, <3>3 DEF RunningShape
  <2>6. IdleShape'
    BY <2>1 DEF IInv, IdleShape
  <2> QED
    BY <2>4, <2>5, <2>6 DEF IInv
<1>6. CASE Return
  <2> DEFINE c == Head(running)
  <2>1. /\ running # <<>> /\ c # First
        /\ running' = Tail(running)
        /\ idle' = push(idle, c)
        /\ pc' = [pc EXCEPT ![c] = "done"]
    BY <1>6 DEF Return, IInv, RunningShape
  <2>2. Len(running) > 1 /\ c = running[1] /\ c \in Coro /\ pc[c] = "body"
    BY <1>0, <2>1, TailPlaces DEF IInv, RunningShape
  <2>3. /\ running' \in Seq(Coro \cup {First})
        /\ Len(running') = Len(running) - 1
        /\ \A i \in 1 .. Len(running') : running'[i] = running[i + 1]
    BY <1>0, <2>1, TailPlaces
  <2>4. /\ idle' \in Seq(Coro)
        /\ Len(idle') = Len(idle) + 1
        /\ idle'[1] = c
        /\ \A i \in 2 .. Len(idle) + 1 : idle'[i] = idle[i - 1]
    <3>1. c \in Coro /\ idle \in Seq(Coro) /\ idle' = push(idle, c)
      BY <1>0, <2>1, <2>2
    <3> HIDE DEF c
    <3> QED
      BY <3>1, PushProperties
  <2> HIDE DEF c
  <2>5. TypeOK'
    BY <1>0, <2>1, <2>2, <2>3, <2>4 DEF TypeOK, Places
  <2>6. \A i \in 1 .. Len(running') : running'[i] # c
    BY <1>0, <2>2, <2>3 DEF IInv, RunningShape
  <2>7. RunningShape'
    <3>1. running' # <<>> /\ running'[Len(running')] = First
      BY <1>0, <2>2, <2>3 DEF IInv, RunningShape
    <3>2. (\A i \in 1 .. Len(running) :
             i # Len(running) => running[i] \in Coro /\ pc[running[i]] = "body")'
      <4> SUFFICES ASSUME NEW i \in 1 .. Len(running'), i # Len(running')
                   PROVE  running'[i] \in Coro /\ pc'[running'[i]] = "body"
        OBVIOUS
      <4>1. /\ i + 1 \in 1 .. Len(running) /\ i + 1 # Len(running)
            /\ running'[i] = running[i + 1] /\ running'[i] # c
        BY <1>0, <2>3, <2>6
      <4>2. running[i + 1] \in Coro /\ pc[running[i + 1]] = "body"
        BY <4>1 DEF IInv, RunningShape
      <4> QED
        BY <1>0, <2>1, <4>1, <4>2
    <3>3. (\A i, j \in 1 .. Len(running) : running[i] = running[j] => i = j)'
      BY <1>0, <2>2, <2>3 DEF IInv, RunningShape
    <3> QED
      BY <3>1, <3>2, <3>3 DEF RunningShape
  <2>8. \A i \in 1 .. Len(idle) : idle[i] # c
    BY <1>0, <2>2 DEF IInv, IdleShape
  <2>9. Len(idle) > 0
    BY <1>0, <2>2 DEF IInv, IdleShape
  <2>10. IdleShape'
    <3>1. (\A i \in 1 .. Len(idle) :
            pc[idle[i]] = IF i = Len(idle) THEN "fresh" ELSE "done")'
      <4> SUFFICES ASSUME NEW i \in 1 .. Len(idle')
                   PROVE  pc'[idle'[i]] = IF i = Len(idle') THEN "fresh" ELSE "done"
        OBVIOUS
      <4>1. CASE i = 1
        BY <1>0, <2>1, <2>2, <2>4, <2>9, <4>1
      <4>2. CASE i # 1
        <5>1. idle'[i] = idle[i - 1] /\ i - 1 \in 1 .. Len(idle)
          <6>1. i \in 2 .. Len(idle) + 1 /\ i - 1 \in 1 .. Len(idle)
            BY <1>0, <2>4, <4>2
          <6> QED
            BY <2>4, <6>1
        <5>2. pc'[idle'[i]] = pc[idle[i - 1]]
          BY <1>0, <2>1, <2>8, <5>1
        <5> QED
          BY <1>0, <2>4, <5>1, <5>2 DEF IInv, IdleShape
      <4> QED
        BY <4>1, <4>2
    <3>2. (\A i, j \in 1 .. Len(idle) : idle[i] = idle[j] => i = j)'
      <4> SUFFICES ASSUME NEW i \in 1 .. Len(idle'), NEW j \in 1 .. Len(idle'),
                          idle'[i] = idle'[j]
                   PROVE  i = j
        OBVIOUS
      <4>1. /\ i # 1 => i - 1 \in 1 .. Len(idle) /\ idle'[i] = idle[i - 1]
            /\ j # 1 => j - 1 \in 1 .. Len(idle) /\ idle'[j] = idle[j - 1]
        BY <1>0, <2>4
      <4>2. i # 1 /\ j # 1 => i - 1 = j - 1
        BY <4>1 DEF IInv, IdleShape
      <4> QED
        BY <2>4, <2>8, <4>1, <4>2
    <3>3. ASSUME NEW d \in Coro, pc'[d] \in {"fresh", "done"}
          PROVE  \E i \in 1 .. Len(idle') : idle'[i] = d
      <4>1. CASE d = c
        BY <1>0, <2>4, <4>1
      <4>2. CASE d # c
        <5>1. PICK k \in 1 .. Len(idle) : idle[k] = d
          BY <1>0, <2>1, <3>3, <4>2 DEF IInv, IdleShape
        <5>2. k + 1 \in 1 .. Len(idle') /\ idle'[k + 1] = d
          BY <1>0, <2>4, <5>1
        <5> QED
          BY <5>2
      <4> QED
        BY <4>1, <4>2
    <3> QED
      BY <1>0, <2>4, <3>1, <3>2, <3>3 DEF IdleShape
  <2> QED
    BY <2>5, <2>7, <2>10 DEF IInv
<1>7. CASE UNCHANGED vars
  BY <1>7 DEF vars, IInv, TypeOK, RunningShape, IdleShape
<1> QED
  BY <1>1, <1>2, <1>3, <1>4, <1>5, <1>6, <1>7 DEF Next

LEMMA Inductive == Spec => []IInv
<1> QED
  BY InitIInv, NextIInv, PTL DEF Spec

\* The lists hold coroutines and every coroutine has a place, for any number
\* of stacks.
THEOREM TypeCorrect == Spec => []TypeOK
<1>1. IInv => TypeOK
  BY DEF IInv
<1> QED
  BY <1>1, Inductive, PTL

\* One unused coroutine under the finished ones: what makes "never NULL" in
\* the comment of picoro.c true.
THEOREM SpareStays == Spec => []SpareAtBottom
<1>1. IInv => SpareAtBottom
  BY DEF IInv, IdleShape, SpareAtBottom
<1> QED
  BY <1>1, Inductive, PTL

\* Once there is a spare there always is one: coroutine() forks its first
\* coroutine only once.
THEOREM IdleNeverEmpties == Spec => IdleStaysNonEmpty
<1>1. ASSUME IInv, [Next]_vars, idle # <<>> PROVE idle' # <<>>
  <2>1. idle \in Seq(Coro)
    BY <1>1 DEF IInv, TypeOK
  <2>2. CASE CoroutineReuse
    <3>1. /\ Len(idle) \in Nat \ {0} /\ Head(idle) = idle[1]
          /\ Tail(idle) \in Seq(Coro) /\ Len(Tail(idle)) = Len(idle) - 1
      BY <1>1, <2>1, TailPlaces
    <3>2. 1 \in 1 .. Len(idle) /\ pc[idle[1]] = "done"
      BY <2>2, <3>1 DEF CoroutineReuse
    <3>3. 1 # Len(idle)
      BY <1>1, <3>2 DEF IInv, IdleShape
    <3>4. Len(Tail(idle)) # 0
      BY <3>1, <3>3
    <3>5. Tail(idle) # <<>>
      BY <3>4, EmptyLen, Zenon
    <3> QED
      BY <2>2, <3>5 DEF CoroutineReuse
  <2>3. CASE Return
    BY <2>1, <2>3 DEF Return, push
  <2>4. ASSUME NEW spare \in Coro, CoroutineFork(spare) PROVE idle' # <<>>
    <3>1. Tail(idle) \in Seq(Coro)
      BY <1>1, <2>1, TailPlaces
    <3> QED
      BY <2>4, <3>1, PushProperties DEF CoroutineFork
  <2> QED
    BY <1>1, <2>2, <2>3, <2>4 DEF Next, vars, CoroutineFirst, Resume, Yield
<1> QED
  BY <1>1, Inductive, PTL DEF Spec, IdleStaysNonEmpty

\* No coroutine is on two lists, and "first" stays under all the others.
THEOREM Disjoint == Spec => []ListsDisjoint
<1>1. ASSUME IInv PROVE ListsDisjoint
  <2>1. /\ running \in Seq(Coro \cup {First}) /\ idle \in Seq(Coro)
        /\ Len(running) \in Nat \ {0} /\ Len(idle) \in Nat
    BY <1>1 DEF IInv, TypeOK, RunningShape
  <2>2. Elements(running) \cap Elements(idle) = {}
    <3> SUFFICES ASSUME NEW i \in 1 .. Len(running), NEW j \in 1 .. Len(idle),
                        running[i] = idle[j]
                 PROVE  FALSE
      BY DEF Elements
    <3>1. idle[j] \in Coro /\ pc[idle[j]] \in {"fresh", "done"}
      BY <1>1, <2>1 DEF IInv, IdleShape
    <3>2. running[i] = First \/ pc[running[i]] = "body"
      BY <1>1, <2>1 DEF IInv, RunningShape
    <3> QED
      BY <3>1, <3>2, CoroAssumption
  <2> QED
    BY <1>1, <2>2 DEF IInv, RunningShape, IdleShape, ListsDisjoint
<1> QED
  BY <1>1, Inductive, PTL

\* The places of the lists decide the NULL test of resumable().
LEMMA Exactness == ASSUME IInv PROVE ResumableIsExact
<1>1. /\ running \in Seq(Coro \cup {First}) /\ idle \in Seq(Coro)
      /\ Len(running) \in Nat \ {0} /\ Len(idle) \in Nat
  BY DEF IInv, TypeOK, RunningShape
<1> SUFFICES ASSUME NEW c \in Visible
             PROVE  resumable(c) <=> c \notin Elements(running) \cup Elements(idle)
  BY DEF ResumableIsExact
<1>2. c \in Coro /\ c # NULL /\ c # First /\ pc[c] # "fresh"
  BY CoroAssumption DEF Visible
<1>3. CASE c \in Elements(running)
  <2> DEFINE i == CHOOSE j \in 1 .. Len(running) : running[j] = c
  <2>1. i \in 1 .. Len(running) /\ running[i] = c
    BY <1>3 DEF Elements
  <2>2. i # Len(running)
    BY <1>2, <2>1 DEF IInv, RunningShape
  <2>3. next(c) = running[i + 1]
    BY <1>1, <1>3, <2>1, <2>2 DEF next, NextOn
  <2>4. running[i + 1] # NULL
    BY <1>1, <2>1, <2>2, CoroAssumption
  <2> QED
    BY <1>3, <2>3, <2>4 DEF resumable
<1>4. CASE c \in Elements(idle) /\ c \notin Elements(running)
  <2> DEFINE i == CHOOSE j \in 1 .. Len(idle) : idle[j] = c
  <2>1. i \in 1 .. Len(idle) /\ idle[i] = c
    BY <1>4 DEF Elements
  <2>2. i # Len(idle)
    BY <1>2, <2>1 DEF IInv, IdleShape
  <2>3. next(c) = idle[i + 1]
    BY <1>1, <1>4, <2>1, <2>2 DEF next, NextOn
  <2>4. idle[i + 1] # NULL
    BY <1>1, <2>1, <2>2, CoroAssumption
  <2> QED
    BY <1>4, <2>3, <2>4 DEF resumable
<1>5. CASE c \notin Elements(running) \cup Elements(idle)
  BY <1>2, <1>5 DEF resumable, next
<1> QED
  BY <1>3, <1>4, <1>5

\* The NULL test of resumable() decides exactly whether a coroutine that a
\* caller may hold is off both lists.
THEOREM ResumableExact == Spec => []ResumableIsExact
<1>1. IInv => ResumableIsExact
  BY Exactness
<1> QED
  BY <1>1, Inductive, PTL

-----------------------------------------------------------------------------
\* The coroutines that have a function and are not running it on the stack of
\* resume() calls: those their holders may resume.
Holdable ==
  {c \in Coro : pc[c] \in {"given", "body"} /\ c \notin Elements(running)}

LEMMA SuspendedIs == IInv => {c \in Visible : resumable(c)} = Holdable
<1> SUFFICES ASSUME IInv PROVE {c \in Visible : resumable(c)} = Holdable
  OBVIOUS
<1>1. ResumableIsExact
  BY Exactness
<1>2. \A c \in Coro : pc[c] = "done" => c \in Elements(idle)
  BY DEF IInv, IdleShape, Elements
<1>3. ASSUME NEW i \in 1 .. Len(idle) PROVE pc[idle[i]] \in {"fresh", "done"}
  BY DEF IInv, IdleShape
<1> QED
  BY <1>1, <1>2, <1>3 DEF ResumableIsExact, Visible, Holdable, Elements

LEMMA InitApi == Init => Api!Init
<1> SUFFICES ASSUME Init PROVE Api!Init
  OBVIOUS
<1>1. Visible = {}
  BY DEF Init, Visible
<1> QED
  BY <1>1 DEF Init, Api!Init

\* What a step of the lists does to the running list and to Holdable is a
\* step of the interface.
LEMMA NextApi ==
  ASSUME IInv, [Next]_vars
  PROVE  \/ /\ running' = running
            /\ \/ Holdable' = Holdable
               \/ \E c \in Coro \ (Elements(running) \cup Holdable) :
                    Holdable' = Holdable \cup {c}
         \/ \E c \in Holdable : running' = <<c>> \o running /\ Holdable' = Holdable \ {c}
         \/ /\ Head(running) # First
            /\ running' = Tail(running)
            /\ Holdable' \in {Holdable, Holdable \cup {Head(running)}}
<1>0. /\ running \in Seq(Coro \cup {First}) /\ idle \in Seq(Coro)
      /\ pc \in [Coro -> Places]
      /\ Len(running) \in Nat \ {0} /\ running # <<>>
  BY DEF IInv, TypeOK, RunningShape
<1>1. \A d \in Coro : d \in Elements(running) => pc[d] = "body"
  BY <1>0, CoroAssumption DEF IInv, RunningShape, Elements
<1>a. ASSUME NEW c \in Coro, pc[c] \notin {"given", "body"}, running' = running,
             \A d \in Coro : d # c => (pc'[d] \in {"given", "body"} <=> pc[d] \in {"given", "body"}),
             pc'[c] = "given"
      PROVE  /\ c \in Coro \ (Elements(running) \cup Holdable)
             /\ Holdable' = Holdable \cup {c}
  BY <1>1, <1>a DEF Holdable, Elements
<1>2. ASSUME NEW c \in Coro, NEW spare \in Coro, CoroutineFirst(c, spare)
      PROVE  /\ running' = running
             /\ c \in Coro \ (Elements(running) \cup Holdable)
             /\ Holdable' = Holdable \cup {c}
  BY <1>0, <1>a, <1>2 DEF CoroutineFirst, Unborn
<1>3. ASSUME NEW spare \in Coro, CoroutineFork(spare)
      PROVE  /\ running' = running
             /\ Head(idle) \in Coro \ (Elements(running) \cup Holdable)
             /\ Holdable' = Holdable \cup {Head(idle)}
  <2>1. Head(idle) \in Coro
    BY <1>0, <1>3, TailPlaces DEF CoroutineFork
  <2> QED
    BY <1>0, <1>a, <1>3, <2>1 DEF CoroutineFork, Unborn
<1>4. CASE CoroutineReuse
  <2>1. Head(idle) \in Coro
    BY <1>0, <1>4, TailPlaces DEF CoroutineReuse
  <2>2. /\ running' = running
        /\ Head(idle) \in Coro \ (Elements(running) \cup Holdable)
        /\ Holdable' = Holdable \cup {Head(idle)}
    BY <1>0, <1>a, <1>4, <2>1 DEF CoroutineReuse
  <2> QED
    BY <2>2
<1>5. ASSUME NEW c \in Coro, Resume(c)
      PROVE  /\ c \in Holdable
             /\ running' = <<c>> \o running /\ Holdable' = Holdable \ {c}
  <2>1. c \in {d \in Visible : resumable(d)}
    BY <1>5 DEF Resume
  <2>2. c \in Holdable
    BY <2>1, SuspendedIs
  <2>3. running' = push(running, c) /\ pc' = [pc EXCEPT ![c] = "body"]
    BY <1>5 DEF Resume
  <2>4. Elements(running') = Elements(running) \cup {c}
    <3>1. /\ Len(running') = Len(running) + 1 /\ running'[1] = c
          /\ \A i \in 2 .. Len(running) + 1 : running'[i] = running[i - 1]
      <4> DEFINE r == push(running, c)
                 S == Coro \cup {First}
      <4>0. running \in Seq(S) /\ c \in S
        BY <1>0
      <4> HIDE DEF S
      <4>1. /\ Len(r) = Len(running) + 1 /\ r[1] = c
            /\ \A i \in 2 .. Len(running) + 1 : r[i] = running[i - 1]
        BY <4>0, PushProperties
      <4>2. running' = r
        BY <2>3
      <4> HIDE DEF r
      <4> QED
        BY <4>1, <4>2
    <3>2. \A i \in 1 .. Len(running) :
            i + 1 \in 1 .. Len(running') /\ running[i] = running'[i + 1]
      BY <1>0, <3>1
    <3>3. Elements(running) \cup {c} \subseteq Elements(running')
      <4>1. 1 \in 1 .. Len(running') /\ running'[1] = c
        BY <1>0, <3>1
      <4> QED
        BY <3>2, <4>1 DEF Elements
    <3>4. Elements(running') \subseteq Elements(running) \cup {c}
      <4> SUFFICES ASSUME NEW i \in 1 .. Len(running'), i # 1
                   PROVE  running'[i] \in Elements(running)
        BY <3>1 DEF Elements
      <4>1. i - 1 \in 1 .. Len(running) /\ running'[i] = running[i - 1]
        BY <1>0, <3>1
      <4> QED
        BY <4>1 DEF Elements
    <3> QED
      BY <3>3, <3>4
  <2>5. Holdable' = Holdable \ {c}
    BY <1>0, <2>2, <2>3, <2>4 DEF Holdable
  <2> QED
    BY <2>2, <2>3, <2>5 DEF push
<1>6. ASSUME Head(running) # First, running' = Tail(running)
      PROVE  /\ Head(running) \in Coro
             /\ Elements(running) = Elements(running') \cup {Head(running)}
             /\ Head(running) \notin Elements(running')
  <2>1. /\ running' \in Seq(Coro \cup {First})
        /\ Len(running') = Len(running) - 1
        /\ Head(running) = running[1]
        /\ \A i \in 1 .. Len(running) - 1 : running'[i] = running[i + 1]
    BY <1>0, <1>6, TailPlaces
  <2>2. \A i \in 2 .. Len(running) : running[i] = running'[i - 1]
    BY <1>0, <2>1
  <2>3. \A i \in 2 .. Len(running) : running[i] # running[1]
    BY <1>0 DEF IInv, RunningShape
  <2>4. Head(running) \notin Elements(running')
    BY <1>0, <2>1, <2>3 DEF Elements
  <2>5. Elements(running) = Elements(running') \cup {Head(running)}
    <3>1. Elements(running') \cup {Head(running)} \subseteq Elements(running)
      <4>1. \A i \in 1 .. Len(running') :
              i + 1 \in 1 .. Len(running) /\ running'[i] = running[i + 1]
        BY <1>0, <2>1
      <4>2. 1 \in 1 .. Len(running)
        BY <1>0
      <4> QED
        BY <2>1, <4>1, <4>2 DEF Elements
    <3>2. ASSUME NEW i \in 1 .. Len(running), i # 1
          PROVE  i - 1 \in 1 .. Len(running') /\ running[i] = running'[i - 1]
      BY <1>0, <2>1, <2>2, <3>2
    <3> QED
      BY <2>1, <3>1, <3>2 DEF Elements
  <2> QED
    BY <1>0, <1>6, <2>1, <2>4, <2>5
<1>7. CASE Yield
  <2>1. Holdable' = Holdable \cup {Head(running)}
    BY <1>0, <1>1, <1>6, <1>7 DEF Yield, Holdable
  <2> QED
    BY <1>7, <2>1 DEF Yield
<1>8. CASE Return
  <2>1. Holdable' = Holdable
    BY <1>0, <1>1, <1>6, <1>8 DEF Return, Holdable
  <2> QED
    BY <1>8, <2>1 DEF Return
<1>9. CASE UNCHANGED vars
  BY <1>9 DEF vars, Holdable, Elements
<1> QED
  BY <1>2, <1>3, <1>4, <1>5, <1>7, <1>8, <1>9 DEF Next

\* picoro.c implements picoro.h: with the stack of resume() calls for the
\* active coroutines and the ones resumable() accepts for the suspended ones,
\* every step of the lists is a step of the interface, or none.
THEOREM Implements == Spec => ImplementsApi
<1>1. IInv' => ({c \in Visible : resumable(c)} = Holdable)'
  BY SuspendedIs, PTL
<1>2. ASSUME IInv, IInv', [Next]_vars PROVE [Api!Next]_(Api!vars)
  <2>1. /\ {c \in Visible : resumable(c)} = Holdable
        /\ {c \in Visible : resumable(c)}' = Holdable'
    BY <1>1, <1>2, SuspendedIs
  <2>2. Api!Active = Elements(running)
    BY <1>2 DEF Api!Active, Elements, IInv, TypeOK
  <2> QED
    BY <1>2, <2>1, <2>2, NextApi
    DEF Api!Next, Api!vars, Api!Create, Api!Resume, Api!Yield, Api!Return
<1> QED
  BY <1>2, InitApi, Inductive, PTL DEF Spec, ImplementsApi, Api!Spec
=============================================================================
