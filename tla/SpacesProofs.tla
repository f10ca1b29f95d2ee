----------------------------- MODULE SpacesProofs ----------------------------
(***************************************************************************)
(* Proofs about Spaces for any number of processes, any programs and any   *)
(* sizes of the page, of the area of mmap() and of the words.              *)
(***************************************************************************)
EXTENDS Spaces, TLAPS, FiniteSetTheorems, WellFoundedInduction

-----------------------------------------------------------------------------
(* Multiples of the page size *)

LEMMA Multiple ==
    ASSUME NEW R \in Nat \ {0}, NEW p \in Int, NEW q \in Int,
           NEW a \in 0 .. R - 1, NEW b \in 0 .. R - 1, R * p + a = R * q + b
    PROVE  p = q /\ a = b
<1>1. CASE p > q
    <2>1. PICK d \in Nat : p = q + d /\ d >= 1
        BY <1>1
    <2>2. R * p = R * q + R * d
        BY <2>1
    <2>3. R * d >= R
        BY <2>1
    <2> QED
        BY <2>2, <2>3
<1>2. CASE p < q
    <2>1. PICK d \in Nat : q = p + d /\ d >= 1
        BY <1>2
    <2>2. R * q = R * p + R * d
        BY <2>1
    <2>3. R * d >= R
        BY <2>1
    <2> QED
        BY <2>2, <2>3
<1> QED
    BY <1>1, <1>2

LEMMA Divided ==
    ASSUME NEW R \in Nat \ {0}, NEW m \in Nat
    PROVE  m \div R \in Nat /\ m % R \in 0 .. R - 1 /\ m = R * (m \div R) + (m % R)
OBVIOUS

\* What division by R gives of R * q + a.
LEMMA DivIs ==
    ASSUME NEW R \in Nat \ {0}, NEW q \in Int, NEW a \in 0 .. R - 1,
           NEW m \in Nat, m = R * q + a
    PROVE  m % R = a /\ m \div R = q
<1>1. m % R \in 0 .. R - 1 /\ m \div R \in Nat /\ m = R * (m \div R) + (m % R)
    BY Divided, Zenon
<1>2. PICK p \in Int, b \in 0 .. R - 1 : p = m \div R /\ b = m % R
    BY <1>1
<1>3. R * p + b = R * q + a
    BY <1>1, <1>2
<1>4. p = q /\ b = a
    BY <1>3, Multiple
<1> QED
    BY <1>2, <1>4

\* Sums and differences of multiples of R.
LEMMA Multiples ==
    ASSUME NEW R \in Nat \ {0}, NEW m \in Nat, NEW n \in Nat, m % R = 0, n % R = 0
    PROVE  /\ (m + n) % R = 0 /\ (m + n) \div R = (m \div R) + (n \div R)
           /\ n <= m => (m - n) % R = 0 /\ (m - n) \div R = (m \div R) - (n \div R)
<1>1. PICK p \in Nat, q \in Nat : /\ p = m \div R /\ q = n \div R
                                  /\ m = R * p + 0 /\ n = R * q + 0
    <2>1. m \div R \in Nat /\ m = R * (m \div R) + 0 /\ n \div R \in Nat /\ n = R * (n \div R) + 0
        BY Divided
    <2> QED
        BY <2>1, Zenon
<1>2. m + n \in Nat /\ m + n = R * (p + q) + 0 /\ p + q \in Int
    <2>1. R * (p + q) = R * p + R * q
        OBVIOUS
    <2> QED
        BY <1>1, <2>1
<1>3. (m + n) % R = 0 /\ (m + n) \div R = p + q
    <2>1. PICK k \in Nat, z \in Int : k = m + n /\ z = p + q /\ k = R * z + 0
        BY <1>2
    <2>2. k % R = 0 /\ k \div R = z
        BY <2>1, DivIs
    <2> QED
        BY <2>1, <2>2
<1>4. ASSUME n <= m
      PROVE  (m - n) % R = 0 /\ (m - n) \div R = p - q
    <2>1. R * (p - q) = R * p - R * q
        OBVIOUS
    <2>2. PICK k \in Nat, z \in Int : k = m - n /\ z = p - q /\ k = R * z + 0
        BY <1>1, <1>4, <2>1
    <2>3. k % R = 0 /\ k \div R = z
        BY <2>2, DivIs
    <2> QED
        BY <2>2, <2>3
<1> QED
    BY <1>1, <1>3, <1>4

\* The page an address is in.
LEMMA Aligned ==
    ASSUME NEW R \in Nat \ {0}, NEW m \in Nat
    PROVE  m - (m % R) \in Nat /\ (m - (m % R)) % R = 0 /\ m - (m % R) <= m
<1>1. PICK q \in Nat, a \in 0 .. R - 1 : q = m \div R /\ a = m % R /\ m = R * q + a
    BY Divided
<1>2. PICK k \in Nat, z \in Int : k = m - a /\ z = q /\ k = R * z + 0
    <2>1. R * q \in Nat
        OBVIOUS
    <2> QED
        BY <1>1, <2>1
<1>3. k % R = 0
    <2>1. 0 \in 0 .. R - 1 /\ k = R * z + 0
        BY <1>2
    <2>2. k % R = 0 /\ k \div R = z
        BY <2>1, DivIs
    <2> QED
        BY <2>2
<1> QED
    BY <1>1, <1>2, <1>3

\* Different multiples differ in their quotients.
LEMMA Quotients ==
    ASSUME NEW R \in Nat \ {0}, NEW m \in Nat, NEW n \in Nat, m % R = 0, n % R = 0
    PROVE  /\ m \div R = n \div R => m = n
           /\ m < n => m \div R < n \div R
           /\ m \div R \in Nat /\ R % R = 0 /\ R \div R = 1
<1>1. PICK p \in Nat, q \in Nat : /\ p = m \div R /\ q = n \div R
                                  /\ m = R * p + 0 /\ n = R * q + 0
    <2>1. m \div R \in Nat /\ m = R * (m \div R) + 0 /\ n \div R \in Nat /\ n = R * (n \div R) + 0
        BY Divided
    <2> QED
        BY <2>1, Zenon
<1>2. ASSUME m < n PROVE p < q
    <2>1. CASE p >= q
        <3>1. PICK d \in Nat : p = q + d
            BY <2>1
        <3>2. R * p = R * q + R * d /\ R * d >= 0
            BY <3>1
        <3> QED
            BY <1>1, <1>2, <3>2
    <2> QED
        BY <2>1
<1>3. R % R = 0 /\ R \div R = 1
    <2>1. R = R * 1 + 0 /\ R \in Nat
        OBVIOUS
    <2> QED
        BY <2>1, DivIs
<1> QED
    BY <1>1, <1>2, <1>3
-----------------------------------------------------------------------------
(* The free frames *)

\* A set of natural numbers that is not empty has a smallest one.
LEMMA Smallest ==
    ASSUME NEW S, S \subseteq Nat, S # {}
    PROVE  \E i \in S : \A j \in S : i <= j
<1> DEFINE R == OpToRel(<, Nat)
<1>1. PICK x \in S : \A y \in S : ~(<<y, x>> \in R)
    BY NatLessThanWellFounded, WFMin, Zenon
<1>2. \A y \in Nat : y < x => <<y, x>> \in R
    BY DEF OpToRel
<1> HIDE DEF R
<1>3. \A y \in S : ~(y < x)
    BY <1>1, <1>2, Zenon
<1> QED
    BY <1>3

\* Induction over the natural numbers, for a set.
LEMMA SetInduction ==
    ASSUME NEW S, 0 \in S, \A n \in Nat : n \in S => n + 1 \in S
    PROVE  Nat \subseteq S
<1> SUFFICES ASSUME ~(Nat \subseteq S) PROVE FALSE
    OBVIOUS
<1>1. PICK m \in Nat \ S : \A j \in Nat \ S : m <= j
    BY Smallest, Zenon
<1>2. m # 0 /\ m - 1 \in Nat
    BY <1>1
<1>3. m - 1 \in S
    BY <1>1, <1>2
<1>4. (m - 1) + 1 \in S
    BY <1>2, <1>3
<1> QED
    BY <1>1, <1>4

\* A finite set of numbers has an element with n smaller ones for each n below
\* its size.
LEMMA Ranked ==
    ASSUME NEW F, F \subseteq Nat, IsFiniteSet(F), NEW n \in Nat, n < Cardinality(F)
    PROVE  \E f \in F : Cardinality({g \in F : g < f}) = n
<1> DEFINE Below(f) == {g \in F : g < f}
           S == {k \in Nat : k < Cardinality(F) => \E f \in F : Cardinality(Below(f)) = k}
<1>0. Cardinality(F) \in Nat
    BY FS_CardinalityType
<1>1. 0 \in S
    <2>1. SUFFICES ASSUME 0 < Cardinality(F)
                   PROVE  \E f \in F : Cardinality(Below(f)) = 0
        OBVIOUS
    <2>2. F # {}
        BY <2>1, FS_EmptySet
    <2>3. PICK f \in F : \A j \in F : f <= j
        BY <2>2, Smallest, Zenon
    <2>4. Below(f) = {}
        <3>1. \A j \in F : j \in Nat /\ f \in Nat /\ ~(j < f)
            BY <2>3
        <3> QED
            BY <3>1, Zenon
    <2> QED
        BY <2>4, FS_EmptySet
<1>2. ASSUME NEW k \in Nat, k \in S
      PROVE  k + 1 \in S
    <2>1. SUFFICES ASSUME k + 1 < Cardinality(F)
                   PROVE  \E f \in F : Cardinality(Below(f)) = k + 1
        OBVIOUS
    <2>2. PICK f \in F : Cardinality(Below(f)) = k
        BY <1>0, <1>2, <2>1
    <2>3. IsFiniteSet(Below(f)) /\ f \notin Below(f)
        <3>1. Below(f) \in SUBSET F
            OBVIOUS
        <3>2. IsFiniteSet(Below(f))
            BY <3>1, FS_Subset
        <3> QED
            BY <3>2
    <2>4. Cardinality(Below(f) \cup {f}) = k + 1
        <3> HIDE DEF Below
        <3> QED
            BY <2>2, <2>3, FS_AddElement
    <2>5. F \ (Below(f) \cup {f}) # {}
        <3>1. Below(f) \cup {f} # F
            BY <1>0, <2>1, <2>4
        <3> QED
            BY <3>1
    <2>6. PICK h \in F \ (Below(f) \cup {f}) : \A j \in F \ (Below(f) \cup {f}) : h <= j
        <3>1. F \ (Below(f) \cup {f}) \subseteq Nat
            BY Zenon
        <3> QED
            BY <2>5, <3>1, Smallest, Zenon
    <2>7. h > f
        BY <2>6
    <2>8. Below(h) = Below(f) \cup {f}
        <3>1. ASSUME NEW j \in F
              PROVE  j < h <=> j < f \/ j = f
            <4>1. j \in Nat /\ h \in Nat /\ f \in Nat
                OBVIOUS
            <4>2. CASE j < f \/ j = f
                BY <2>7, <4>1, <4>2
            <4>3. CASE ~(j < f \/ j = f)
                <5>1. j \in F \ (Below(f) \cup {f})
                    BY <4>3
                <5> QED
                    BY <2>6, <4>1, <4>3, <5>1
            <4> QED
                BY <4>2, <4>3
        <3> QED
            BY <3>1, Zenon
    <2> QED
        BY <2>4, <2>6, <2>8
<1>3. Nat \subseteq S
    <2> HIDE DEF S
    <2> QED
        BY <1>1, <1>2, SetInduction
<1> QED
    BY <1>3

\* While there are more than n free frames, frame_alloc_important gives one, and
\* no frame twice.
LEMMA FramesFree ==
    ASSUME TypeOK, NEW n \in Nat, Cardinality(frames) + n < MaxFrames
    PROVE  /\ FreeFrame(n) \in Frame \ frames
           /\ Cardinality({g \in Frame \ frames : g < FreeFrame(n)}) = n
<1>1. frames \in SUBSET Frame /\ MaxFrames \in Nat
    BY SpacesAssumption DEF TypeOK
<1>2. IsFiniteSet(Frame) /\ Cardinality(Frame) = MaxFrames
    <2>1. IsFiniteSet(1 .. MaxFrames)
          /\ Cardinality(1 .. MaxFrames) = IF 1 > MaxFrames THEN 0 ELSE (MaxFrames - 1) + 1
        BY <1>1, FS_Interval
    <2> QED
        BY <1>1, <2>1 DEF Frame
<1>3. IsFiniteSet(frames) /\ Cardinality(frames) \in Nat
    BY <1>1, <1>2, FS_Subset, FS_CardinalityType
<1>4. IsFiniteSet(Frame \ frames) /\ Cardinality(Frame \ frames) = MaxFrames - Cardinality(frames)
    <2>1. Frame \cap frames = frames
        BY <1>1
    <2>2. IsFiniteSet(Frame \ frames)
          /\ Cardinality(Frame \ frames) = Cardinality(Frame) - Cardinality(Frame \cap frames)
        BY <1>2, FS_Difference
    <2> QED
        BY <1>2, <2>1, <2>2
<1>5. n < Cardinality(Frame \ frames) /\ Frame \ frames \subseteq Nat
    BY <1>1, <1>3, <1>4 DEF Frame
<1>6. \E f \in Frame \ frames : Cardinality({g \in Frame \ frames : g < f}) = n
    <2> DEFINE F == Frame \ frames
    <2>1. F \subseteq Nat /\ IsFiniteSet(F) /\ n < Cardinality(F)
        BY <1>4, <1>5
    <2> HIDE DEF F
    <2>2. \E f \in F : Cardinality({g \in F : g < f}) = n
        BY <2>1, Ranked, Zenon
    <2> QED
        BY <2>2 DEF F
<1> QED
    BY <1>6 DEF FreeFrame

-----------------------------------------------------------------------------
(* The list of regions *)

LEMMA Wrapped ==
    ASSUME NEW vbase \in Addr, NEW size \in Nat, NEW m \in {"rw", "rx"}
    PROVE  /\ NewRegion(vbase, size, m) \in Region
           /\ vbase + size < Word => NewRegion(vbase, size, m).vtop = vbase + size
<1>1. Word \in Nat \ {0} /\ vbase + size \in Nat
    BY WordAssumption DEF Addr
<1>2. (vbase + size) % Word \in Addr
    BY <1>1, Divided DEF Addr
<1>3. ASSUME vbase + size < Word
      PROVE  (vbase + size) % Word = vbase + size
    <2>1. PICK k \in Nat, z \in Int : k = vbase + size /\ z = 0 /\ k = Word * z + k
        BY <1>1
    <2>2. k \in 0 .. Word - 1
        BY <1>1, <1>3, <2>1
    <2>3. k % Word = k
        BY <1>1, <2>1, <2>2, DivIs
    <2> QED
        BY <2>1, <2>3
<1> QED
    BY <1>2, <1>3 DEF NewRegion, Region

\* as_seek_region finds the first region that holds the address, if any.
LEMMA SeekFacts ==
    ASSUME NEW s \in Seq(Region), NEW v \in Nat
    PROVE  \/ /\ as_seek_region(s, v) = 0
              /\ \A i \in DOMAIN s : ~In(s[i], v)
           \/ /\ as_seek_region(s, v) \in DOMAIN s
              /\ In(s[as_seek_region(s, v)], v)
<1>1. DOMAIN s = 1 .. Len(s) /\ Len(s) \in Nat
    OBVIOUS
<1>2. CASE \E i \in DOMAIN s : In(s[i], v)
    <2> DEFINE S == {i \in DOMAIN s : In(s[i], v)}
    <2>1. S \subseteq Nat /\ S # {}
        BY <1>1, <1>2
    <2>2. PICK i \in S : \A j \in S : i <= j
        <3> HIDE DEF S
        <3> QED
            BY <2>1, Smallest, Zenon
    <2>3. \A j \in 1 .. i - 1 : ~In(s[j], v)
        BY <1>1, <2>2
    <2>4. \E k \in DOMAIN s : In(s[k], v) /\ \A j \in 1 .. k - 1 : ~In(s[j], v)
        BY <2>2, <2>3
    <2> QED
        BY <1>2, <2>4, Zenon DEF as_seek_region
<1>3. CASE ~\E i \in DOMAIN s : In(s[i], v)
    BY <1>3 DEF as_seek_region
<1> QED
    BY <1>2, <1>3


\* What valid_new_region lets in has no address in common with a region.
LEMMA NotOverlapping ==
    ASSUME NEW r \in Region, NEW s \in Region, ~Overlaps(r, s)
    PROVE  Apart(r, s) /\ Apart(s, r)
<1>1. /\ r.vbase \in Int /\ r.vtop \in Int /\ s.vbase \in Int /\ s.vtop \in Int
    BY WordAssumption DEF Region, Addr
<1>2. ASSUME NEW a \in Int, In(r, a), In(s, a)
      PROVE  FALSE
    BY <1>1, <1>2 DEF Overlaps, In
<1> QED
    BY <1>2, WordAssumption DEF Apart, Addr

\* as_define_region adds a region at the head of the list, or leaves the list.
LEMMA DefineFacts ==
    ASSUME NEW s \in Seq(Region), NEW vbase \in Addr, NEW size \in Nat, NEW m \in {"rw", "rx"}
    PROVE  /\ as_define_region(s, vbase, size, m) \in Seq(Region)
           /\ Len(as_define_region(s, vbase, size, m)) \in {Len(s), Len(s) + 1}
           /\ ~Definable(s, vbase, size) => as_define_region(s, vbase, size, m) = s
           /\ Definable(s, vbase, size) =>
                /\ Len(as_define_region(s, vbase, size, m)) = Len(s) + 1
                /\ as_define_region(s, vbase, size, m)[1] = NewRegion(vbase, size, m)
                /\ \A i \in DOMAIN s : as_define_region(s, vbase, size, m)[i + 1] = s[i]
<1> DEFINE r == NewRegion(vbase, size, m)
           d == as_define_region(s, vbase, size, m)
<1>1. r \in Region
    BY Wrapped
<1>2. Len(s) \in Nat /\ DOMAIN s = 1 .. Len(s)
    OBVIOUS
<1>3. CASE Definable(s, vbase, size)
    <2>1. d = <<r>> \o s
        BY <1>3 DEF as_define_region
    <2> HIDE DEF r, d
    <2>2. <<r>> \in Seq(Region) /\ Len(<<r>>) = 1 /\ <<r>>[1] = r
        BY <1>1
    <2>3. d \in Seq(Region) /\ Len(d) = 1 + Len(s)
        BY <1>2, <2>1, <2>2
    <2>4. d[1] = r
        BY <1>2, <2>1, <2>2
    <2>5. ASSUME NEW i \in 1 .. Len(s)
          PROVE  d[i + 1] = s[i]
        BY <1>2, <2>1, <2>2
    <2>6. d \in Seq(Region) /\ Len(d) = Len(s) + 1 /\ d[1] = r /\ \A i \in DOMAIN s : d[i + 1] = s[i]
        BY <1>2, <2>3, <2>4, <2>5
    <2> QED
        BY <1>3, <2>6 DEF d, r
<1>4. CASE ~Definable(s, vbase, size)
    BY <1>4 DEF as_define_region
<1> QED
    BY <1>3, <1>4

LEMMA DefineApart ==
    ASSUME NEW s \in Seq(Region), NEW vbase \in Addr, NEW size \in Nat, NEW m \in {"rw", "rx"},
           AllApart(s)
    PROVE  AllApart(as_define_region(s, vbase, size, m))
<1> DEFINE r == NewRegion(vbase, size, m)
           d == as_define_region(s, vbase, size, m)
<1>1. r \in Region /\ Len(s) \in Nat /\ DOMAIN s = 1 .. Len(s) /\ \A i \in DOMAIN s : s[i] \in Region
    BY Wrapped
<1>2. CASE Definable(s, vbase, size)
    <2>1. d \in Seq(Region) /\ Len(d) = Len(s) + 1 /\ d[1] = r /\ \A i \in DOMAIN s : d[i + 1] = s[i]
        BY <1>2, DefineFacts
    <2>2. \A i \in DOMAIN s : Apart(r, s[i]) /\ Apart(s[i], r)
        <3>1. \A i \in DOMAIN s : ~Overlaps(r, s[i])
            <4>1. \A i \in DOMAIN s : ~Overlaps(NewRegion(vbase, size, "rw"), s[i])
                BY <1>2 DEF Definable, valid_new_region
            <4>2. /\ r.vbase = NewRegion(vbase, size, "rw").vbase
                  /\ r.vtop = NewRegion(vbase, size, "rw").vtop
                BY DEF NewRegion
            <4> HIDE DEF r
            <4> QED
                BY <4>1, <4>2 DEF Overlaps, In
        <3> HIDE DEF r
        <3> QED
            BY <1>1, <3>1, NotOverlapping
    <2> HIDE DEF r, d
    <2>3. ASSUME NEW i \in DOMAIN d, NEW j \in DOMAIN d, i # j
          PROVE  Apart(d[i], d[j])
        <3>0. DOMAIN d = 1 .. Len(s) + 1 /\ i \in Nat /\ j \in Nat
            BY <1>1, <2>1
        <3>1. CASE i = 1
            <4>1. j - 1 \in DOMAIN s /\ d[(j - 1) + 1] = s[j - 1] /\ (j - 1) + 1 = j
                BY <1>1, <2>1, <2>3, <3>0, <3>1
            <4> QED
                BY <2>1, <2>2, <3>1, <4>1
        <3>2. CASE j = 1
            <4>1. i - 1 \in DOMAIN s /\ d[(i - 1) + 1] = s[i - 1] /\ (i - 1) + 1 = i
                BY <1>1, <2>1, <2>3, <3>0, <3>2
            <4> QED
                BY <2>1, <2>2, <3>2, <4>1
        <3>3. CASE i # 1 /\ j # 1
            <4>1. i - 1 \in DOMAIN s /\ d[(i - 1) + 1] = s[i - 1] /\ (i - 1) + 1 = i
                BY <1>1, <2>1, <3>0, <3>3
            <4>2. j - 1 \in DOMAIN s /\ d[(j - 1) + 1] = s[j - 1] /\ (j - 1) + 1 = j
                BY <1>1, <2>1, <3>0, <3>3
            <4>3. i - 1 # j - 1
                BY <2>3, <3>0
            <4>4. Apart(s[i - 1], s[j - 1])
                BY <4>1, <4>2, <4>3 DEF AllApart
            <4> QED
                BY <4>1, <4>2, <4>4
        <3> QED
            BY <3>1, <3>2, <3>3
    <2>4. AllApart(d)
        BY <2>3 DEF AllApart
    <2> QED
        BY <2>4 DEF d
<1>3. CASE ~Definable(s, vbase, size)
    <2>1. d = s
        BY <1>3, DefineFacts
    <2> QED
        BY <2>1
<1> QED
    BY <1>2, <1>3

LEMMA SubSeqFacts ==
    ASSUME NEW S, NEW s \in Seq(S), NEW a \in 1 .. Len(s) + 1, NEW b \in a - 1 .. Len(s)
    PROVE  /\ SubSeq(s, a, b) \in Seq(S) /\ Len(SubSeq(s, a, b)) = (b - a) + 1
           /\ \A i \in 1 .. (b - a) + 1 : SubSeq(s, a, b)[i] = s[(a + i) - 1]
<1>1. Len(s) \in Nat /\ a \in Nat /\ b \in Nat /\ a >= 1 /\ b >= a - 1 /\ b <= Len(s)
    OBVIOUS
<1>2. \A i \in a .. b : s[i] \in S
    BY <1>1
<1> QED
    BY <1>1, <1>2

\* What as_destroy_region leaves: the head, unless it is the region that goes,
\* and the regions after the one that goes.
LEMMA DestroyFacts ==
    ASSUME NEW s \in Seq(Region), NEW v \in Nat
    PROVE  LET k == as_seek_region(s, v)
               d == as_destroy_region(s, v)
           IN  /\ d \in Seq(Region)
               /\ k = 0 => d = s
               /\ k = 1 => /\ Len(d) = Len(s) - 1
                           /\ \A i \in 1 .. Len(s) - 1 : d[i] = s[i + 1]
               /\ k > 1 => /\ Len(d) = (Len(s) - k) + 1
                           /\ d[1] = s[1]
                           /\ \A i \in 1 .. Len(s) - k : d[i + 1] = s[k + i]
<1>1. PICK k \in Nat : k = as_seek_region(s, v) /\ k \in 0 .. Len(s)
    BY SeekFacts
<1>2. PICK d : d = as_destroy_region(s, v)
    OBVIOUS
<1>3. Len(s) \in Nat /\ DOMAIN s = 1 .. Len(s) /\ \A i \in 1 .. Len(s) : s[i] \in Region
    OBVIOUS
<1>4. CASE k = 0
    BY <1>1, <1>4 DEF as_destroy_region
<1>5. CASE k = 1
    <2>1. d = Tail(s)
        BY <1>1, <1>2, <1>5 DEF as_destroy_region
    <2>2. s # <<>>
        BY <1>1, <1>3, <1>5
    <2>3. d \in Seq(Region) /\ Len(d) = Len(s) - 1 /\ \A i \in 1 .. Len(s) - 1 : d[i] = s[i + 1]
        BY <1>3, <2>1, <2>2
    <2> QED
        BY <1>1, <1>2, <1>5, <2>3
<1>6. CASE k > 1
    <2>1. d = <<s[1]>> \o SubSeq(s, k + 1, Len(s))
        BY <1>1, <1>2, <1>6 DEF as_destroy_region
    <2>2. PICK t : t = SubSeq(s, k + 1, Len(s))
        BY Zenon
    <2>3. /\ t \in Seq(Region) /\ Len(t) = (Len(s) - (k + 1)) + 1
          /\ \A i \in 1 .. (Len(s) - (k + 1)) + 1 : t[i] = s[((k + 1) + i) - 1]
        <3>1. k + 1 \in 1 .. Len(s) + 1 /\ Len(s) \in (k + 1) - 1 .. Len(s)
            BY <1>1, <1>3
        <3> QED
            BY <2>2, <3>1, SubSeqFacts
    <2>4. Len(t) = Len(s) - k /\ \A i \in 1 .. Len(s) - k : t[i] = s[k + i]
        <3>1. (Len(s) - (k + 1)) + 1 = Len(s) - k /\ \A i \in Nat : ((k + 1) + i) - 1 = k + i
            BY <1>3
        <3> QED
            BY <2>3, <3>1
    <2>5. <<s[1]>> \in Seq(Region) /\ Len(<<s[1]>>) = 1 /\ <<s[1]>>[1] = s[1]
        BY <1>1, <1>3, <1>6
    <2>6. d \in Seq(Region) /\ Len(d) = 1 + Len(t) /\ d[1] = s[1]
        BY <2>1, <2>2, <2>3, <2>5
    <2>7. \A i \in 1 .. Len(t) : d[i + 1] = t[i]
        BY <2>1, <2>2, <2>3, <2>5
    <2>8. /\ d \in Seq(Region) /\ Len(d) = (Len(s) - k) + 1 /\ d[1] = s[1]
          /\ \A i \in 1 .. Len(s) - k : d[i + 1] = s[k + i]
        BY <1>1, <1>3, <2>4, <2>6, <2>7
    <2> QED
        BY <1>1, <1>2, <1>6, <2>8
<1> QED
    BY <1>1, <1>4, <1>5, <1>6


\* as_destroy_region only takes regions away, and only the one that is found when
\* it is one of the first two.
LEMMA DestroyKeeps ==
    ASSUME NEW s \in Seq(Region), NEW v \in Nat
    PROVE  /\ AllApart(s) => AllApart(as_destroy_region(s, v))
           /\ as_seek_region(s, v) \in {1, 2} =>
                \A i \in DOMAIN s : i # as_seek_region(s, v) =>
                  \E j \in DOMAIN as_destroy_region(s, v) : as_destroy_region(s, v)[j] = s[i]
<1>1. PICK k \in Nat : k = as_seek_region(s, v) /\ k \in 0 .. Len(s)
    BY SeekFacts
<1>2. PICK d \in Seq(Region) :
         /\ d = as_destroy_region(s, v)
         /\ k = 0 => d = s
         /\ k = 1 => /\ Len(d) = Len(s) - 1
                     /\ \A i \in 1 .. Len(s) - 1 : d[i] = s[i + 1]
         /\ k > 1 => /\ Len(d) = (Len(s) - k) + 1
                     /\ d[1] = s[1]
                     /\ \A i \in 1 .. Len(s) - k : d[i + 1] = s[k + i]
    BY <1>1, DestroyFacts, Zenon
<1>3. /\ Len(s) \in Nat /\ DOMAIN s = 1 .. Len(s)
      /\ Len(d) \in Nat /\ DOMAIN d = 1 .. Len(d)
    OBVIOUS
<1>4. ASSUME AllApart(s), NEW i \in DOMAIN d, NEW j \in DOMAIN d, i # j
      PROVE  Apart(d[i], d[j])
    <2>1. CASE k = 0
        BY <1>2, <1>4, <2>1 DEF AllApart
    <2>2. CASE k = 1
        <3>1. /\ i \in 1 .. Len(s) - 1 /\ j \in 1 .. Len(s) - 1
              /\ i + 1 \in DOMAIN s /\ j + 1 \in DOMAIN s /\ i + 1 # j + 1
            BY <1>2, <1>3, <1>4, <2>2
        <3>2. Apart(s[i + 1], s[j + 1])
            BY <1>4, <3>1 DEF AllApart
        <3> QED
            BY <1>2, <2>2, <3>1, <3>2
    <2>3. CASE k > 1
        <3>0. /\ Len(d) = (Len(s) - k) + 1 /\ d[1] = s[1] /\ 1 \in 1 .. Len(s)
              /\ \A x \in 1 .. (Len(s) - k) + 1 : x # 1 =>
                   /\ x - 1 \in 1 .. Len(s) - k /\ (x - 1) + 1 = x /\ k + (x - 1) = (k + x) - 1
                   /\ (k + x) - 1 \in 1 .. Len(s) /\ (k + x) - 1 > 1
            <4>1. Len(d) = (Len(s) - k) + 1 /\ d[1] = s[1]
                BY <1>2, <2>3
            <4>2. k <= Len(s) /\ Len(s) \in Nat
                BY <1>1, <1>3
            <4> QED
                BY <2>3, <4>1, <4>2
        <3>1. ASSUME NEW x \in DOMAIN d
              PROVE  IF x = 1 THEN 1 \in DOMAIN s /\ d[x] = s[1]
                     ELSE (k + x) - 1 \in DOMAIN s /\ d[x] = s[(k + x) - 1] /\ (k + x) - 1 > 1
            <4>1. CASE x = 1
                BY <1>3, <3>0, <4>1
            <4>2. CASE x # 1
                <5>1. /\ x - 1 \in 1 .. Len(s) - k /\ (x - 1) + 1 = x
                      /\ k + (x - 1) = (k + x) - 1 /\ (k + x) - 1 \in DOMAIN s /\ (k + x) - 1 > 1
                    BY <1>3, <3>0, <4>2, Zenon
                <5>2. d[(x - 1) + 1] = s[k + (x - 1)]
                    BY <1>2, <2>3, <5>1, Zenon
                <5> QED
                    BY <4>2, <5>1, <5>2
            <4> QED
                BY <4>1, <4>2
        <3>2. PICK a \in DOMAIN s : d[i] = s[a] /\ a = IF i = 1 THEN 1 ELSE (k + i) - 1
            BY <3>1
        <3>3. PICK b \in DOMAIN s : d[j] = s[b] /\ b = IF j = 1 THEN 1 ELSE (k + j) - 1
            BY <3>1
        <3>4. a # b
            BY <1>3, <1>4, <2>3, <3>1, <3>2, <3>3
        <3> QED
            BY <1>4, <3>2, <3>3, <3>4 DEF AllApart
    <2> QED
        BY <2>1, <2>2, <2>3
<1>5. ASSUME k \in {1, 2}, NEW i \in DOMAIN s, i # k
      PROVE  \E j \in DOMAIN d : d[j] = s[i]
    <2>1. CASE k = 1
        <3>1. i - 1 \in 1 .. Len(s) - 1 /\ (i - 1) + 1 = i /\ i - 1 \in DOMAIN d
            BY <1>2, <1>3, <1>5, <2>1
        <3>2. d[i - 1] = s[(i - 1) + 1]
            BY <1>2, <2>1, <3>1
        <3> QED
            BY <3>1, <3>2
    <2>2. CASE k = 2
        <3>1. CASE i = 1
            BY <1>1, <1>2, <1>3, <2>2, <3>1
        <3>2. CASE i # 1
            <4>1. /\ i - 2 \in 1 .. Len(s) - k /\ (i - 2) + 1 \in DOMAIN d /\ k + (i - 2) = i
                BY <1>1, <1>2, <1>3, <1>5, <2>2, <3>2
            <4>2. d[(i - 2) + 1] = s[k + (i - 2)]
                BY <1>2, <2>2, <4>1
            <4> QED
                BY <4>1, <4>2
        <3> QED
            BY <3>1, <3>2
    <2> QED
        BY <1>5, <2>1, <2>2
<1>6. AllApart(s) => AllApart(d)
    BY <1>4 DEF AllApart
<1> QED
    BY <1>1, <1>2, <1>5, <1>6

-----------------------------------------------------------------------------
(* Regions are apart, for every client *)

\* While sys_mmap looks for a place: whole pages, as many as the file takes and
\* one more, and frames enough for them.  Nothing else runs meanwhile.
Searching ==
    search # NoSearch =>
      /\ search.proc \in Proc /\ search.addr \in Nat /\ search.length \in Nat
      /\ search.addr % Page = 0 /\ search.length % Page = 0
      /\ search.length = file[search.proc].length + Page
      /\ state[search.proc] = "NONE" /\ \A p \in Proc : state[p] # "BUILDING"
      /\ Cardinality(frames) + (search.length \div Page) <= MaxFrames

\* One program at a time is built, and its file is whole pages.
Loading ==
    /\ \A p, q \in Proc : state[p] = "BUILDING" /\ state[q] = "BUILDING" => p = q
    /\ \A p \in Proc : state[p] = "BUILDING" => search = NoSearch
    /\ \A p \in Proc : file[p].length % Page = 0 /\ file[p].base % Page = 0

IInv == RegionsApart /\ Searching /\ Loading

LEMMA InitIInv == Init => IInv
<1> SUFFICES ASSUME Init PROVE IInv
    OBVIOUS
<1>1. \A S : <<>> \in Seq(S)
    OBVIOUS
<1>2. NoFile \in [base : Nat, length : Nat, segments : Seq(Segment)]
    BY <1>1 DEF NoFile
<1>3. TypeOK
    BY <1>1, <1>2 DEF Init, TypeOK
<1>4. AllApart(<<>>)
    BY DEF AllApart
<1>5. 0 % Page = 0
    BY SpacesAssumption, DivIs
<1> QED
    BY <1>3, <1>4, <1>5 DEF Init, IInv, RegionsApart, Searching, Loading, NoFile


LEMMA MallocFacts ==
    ASSUME NEW size \in Nat
    PROVE  /\ MallocLen(size) \in Nat /\ MallocLen(size) % Page = 0
           /\ (MallocLen(size) + Page) % Page = 0
           /\ (MallocLen(size) + Page) \div Page = (MallocLen(size) \div Page) + 1
<1>1. Page \in Nat \ {0}
    BY SpacesAssumption
<1>2. PICK m \in Nat : m = (size + Page) - 1
    BY <1>1
<1>3. PICK n \in Nat : n = m - (m % Page) /\ n % Page = 0
    BY <1>1, Aligned, Zenon
<1>4. MallocLen(size) = n
    <2>1. MallocLen(size) = PAGE_ALIGN_4K(m)
        <3>1. size + (Page - 1) = m
            BY <1>1, <1>2
        <3> QED
            BY <3>1 DEF MallocLen
    <2> QED
        BY <1>3, <2>1 DEF PAGE_ALIGN_4K
<1>5. Page % Page = 0 /\ Page \div Page = 1
    BY <1>1, <1>3, Quotients
<1>6. (n + Page) % Page = 0 /\ (n + Page) \div Page = (n \div Page) + (Page \div Page)
    <2>1. PICK R \in Nat \ {0}, k \in Nat : R = Page /\ k = Page
        BY <1>1
    <2>2. (n + k) % R = 0 /\ (n + k) \div R = (n \div R) + (k \div R)
        BY <1>3, <1>5, <2>1, Multiples, Zenon
    <2> QED
        BY <2>1, <2>2
<1> QED
    BY <1>3, <1>4, <1>5, <1>6

\* sys_mmap gets a free frame of its own for each page of the place it found.
LEMMA NewFrames ==
    ASSUME IInv, search # NoSearch, NEW a \in PageIn(search.addr, search.length)
    PROVE  /\ a \in Pages /\ (a - search.addr) \div Page \in Nat
           /\ FreeFrame((a - search.addr) \div Page) \in Frame \ frames
           /\ \A b \in PageIn(search.addr, search.length) :
                FreeFrame((a - search.addr) \div Page) = FreeFrame((b - search.addr) \div Page) => a = b
<1>1. Page \in Nat \ {0} /\ MaxFrames \in Nat
    BY SpacesAssumption
<1>2. PICK base \in Nat, length \in Nat :
         /\ base = search.addr /\ length = search.length
         /\ base % Page = 0 /\ length % Page = 0
         /\ Cardinality(frames) + (length \div Page) <= MaxFrames
    BY DEF IInv, Searching
<1>3. TypeOK /\ Cardinality(frames) \in Nat
    <2>1. TypeOK /\ frames \in SUBSET Frame
        BY Zenon DEF IInv, RegionsApart, TypeOK
    <2>2. IsFiniteSet(Frame)
        BY <1>1, FS_Interval DEF Frame
    <2> QED
        BY <2>1, <2>2, FS_Subset, FS_CardinalityType
<1>4. ASSUME NEW b \in PageIn(base, length)
      PROVE  /\ b \in Pages /\ b - base \in Nat /\ (b - base) % Page = 0
             /\ (b - base) \div Page \in Nat
             /\ FreeFrame((b - base) \div Page) \in Frame \ frames
             /\ Cardinality({g \in Frame \ frames : g < FreeFrame((b - base) \div Page)})
                  = (b - base) \div Page
    <2>1. b \in Nat /\ b % Page = 0 /\ base <= b /\ b < base + length /\ b \in Pages
        BY WordAssumption DEF PageIn, Pages, Addr
    <2>2. (b - base) % Page = 0
        BY <1>1, <1>2, <2>1, Multiples, Zenon
    <2>3. PICK m \in Nat : m = b - base /\ m % Page = 0 /\ m < length
        BY <1>2, <2>1, <2>2
    <2>4. m \div Page < length \div Page /\ m \div Page \in Nat
        BY <1>1, <1>2, <2>3, Quotients
    <2>5. PICK n \in Nat : n = m \div Page
        BY <2>4
    <2>6. length \div Page \in Nat
        BY <1>1, <1>2, Divided
    <2>7. Cardinality(frames) + n < MaxFrames
        BY <1>1, <1>2, <1>3, <2>4, <2>5, <2>6
    <2>8. /\ FreeFrame(n) \in Frame \ frames
          /\ Cardinality({g \in Frame \ frames : g < FreeFrame(n)}) = n
        BY <1>3, <2>7, FramesFree
    <2> QED
        BY <2>1, <2>3, <2>5, <2>8
<1>5. ASSUME NEW b \in PageIn(base, length),
             FreeFrame((a - base) \div Page) = FreeFrame((b - base) \div Page)
      PROVE  a = b
    <2>1. a \in PageIn(base, length)
        BY <1>2
    <2>2. (a - base) \div Page = (b - base) \div Page
        BY <1>4, <1>5, <2>1, Zenon
    <2>3. PICK m \in Nat, n \in Nat : m = a - base /\ n = b - base /\ m % Page = 0 /\ n % Page = 0
        BY <1>4, <2>1, Zenon
    <2>4. m = n
        BY <1>1, <2>2, <2>3, Quotients
    <2>5. a \in Int /\ b \in Int
        BY WordAssumption DEF PageIn, Addr
    <2> QED
        BY <2>3, <2>4, <2>5
<1> QED
    BY <1>2, <1>4, <1>5, Zenon

LEMMA ElfLoadFsIInv ==
    ASSUME IInv, NEW p \in Proc, NEW prog \in Programs, elf_load_fs(p, prog)
    PROVE  IInv'
<1>1. prog.size \in Nat /\ prog.segments \in Seq(Segment)
    BY SpacesAssumption
<1>2. PICK n \in Nat : /\ n = MallocLen(prog.size) /\ n % Page = 0 /\ (n + Page) % Page = 0
                       /\ (n + Page) \div Page = (n \div Page) + 1
    BY <1>1, MallocFacts
<1>3. Page \in Nat \ {0} /\ MMAP_BOT \in Nat /\ MMAP_BOT % Page = 0 /\ 0 % Page = 0
    BY SpacesAssumption, WordAssumption, DivIs DEF Addr
<1>4. /\ search' = [proc |-> p, addr |-> MMAP_BOT, length |-> n + Page]
      /\ file' = [file EXCEPT ![p] = [base |-> 0, length |-> n, segments |-> prog.segments]]
      /\ UNCHANGED <<ks, pt, hw, frames, as, segs, state, fault>>
      /\ Cardinality(frames) + (n \div Page) + 1 <= MaxFrames
      /\ Free /\ state[p] = "NONE"
    BY <1>2 DEF elf_load_fs
<1>5. TypeOK'
    <2>1. search' \in [proc : Proc, addr : Nat, length : Nat]
        BY <1>2, <1>3, <1>4
    <2>2. file' \in [Proc -> [base : Nat, length : Nat, segments : Seq(Segment)]]
        <3>1. [base |-> 0, length |-> n, segments |-> prog.segments] \in
                [base : Nat, length : Nat, segments : Seq(Segment)]
            BY <1>1, <1>2
        <3> QED
            BY <1>4, <3>1 DEF IInv, RegionsApart, TypeOK
    <2> QED
        BY <1>4, <2>1, <2>2, Zenon DEF IInv, RegionsApart, TypeOK
<1>6. file \in [Proc -> [base : Nat, length : Nat, segments : Seq(Segment)]]
    BY DEF IInv, RegionsApart, TypeOK
<1>7. RegionsApart'
    BY <1>4, <1>5, Zenon DEF IInv, RegionsApart, AllApart
<1>8. Searching'
    <2>1. /\ search'.proc = p /\ search'.addr = MMAP_BOT /\ search'.length = n + Page
          /\ file'[p].length = n
        BY <1>4, <1>6
    <2>2. Cardinality(frames) + (((n + Page)) \div Page) <= MaxFrames
        <3>0. MaxFrames \in Nat
            BY SpacesAssumption
        <3>1. frames \in SUBSET Frame
            BY DEF IInv, RegionsApart, TypeOK
        <3>3. IsFiniteSet(Frame)
            BY <3>0, FS_Interval DEF Frame
        <3>2. Cardinality(frames) \in Nat /\ n \div Page \in Nat
            BY <1>2, <1>3, <3>1, <3>3, FS_Subset, FS_CardinalityType, Divided, Zenon
        <3> QED
            BY <1>2, <1>4, <3>2, SpacesAssumption
    <2>3. \A q \in Proc : state[q] # "BUILDING"
        BY <1>4 DEF Free
    <2>4. n + Page \in Nat
        BY <1>3
    <2> QED
        BY <1>2, <1>3, <1>4, <2>1, <2>2, <2>3, <2>4 DEF Searching
<1>9. Loading'
    <2>1. \A q \in Proc : file'[q].length % Page = 0 /\ file'[q].base % Page = 0
        BY <1>2, <1>3, <1>4, <1>6 DEF IInv, Loading
    <2> QED
        BY <1>4, <2>1 DEF Loading, Free
<1> QED
    BY <1>7, <1>8, <1>9 DEF IInv

LEMMA SkipIInv ==
    ASSUME IInv, sys_mmap_skip
    PROVE  IInv'
<1>1. PICK k : /\ k = as_seek_region(ks, search.addr) /\ k # 0
               /\ search' = [search EXCEPT !.addr = PAGE_ALIGN_4K(ks[k].vtop) + Page]
               /\ search # NoSearch
               /\ UNCHANGED <<ks, pt, hw, frames, file, as, segs, state, fault>>
    BY DEF sys_mmap_skip
<1>2. /\ ks \in Seq(Region) /\ search \in [proc : Proc, addr : Nat, length : Nat]
      /\ Page \in Nat \ {0}
    BY <1>1, SpacesAssumption DEF IInv, RegionsApart, TypeOK
<1>3. k \in DOMAIN ks
    BY <1>1, <1>2, SeekFacts
<1>4. PICK v \in Nat : v = ks[k].vtop
    <2>1. ks[k] \in Region
        BY <1>2, <1>3
    <2>2. ks[k].vtop \in Addr
        BY <2>1 DEF Region
    <2> QED
        BY <2>2, WordAssumption DEF Addr
<1>5. PICK n \in Nat : n = v - (v % Page) /\ n % Page = 0
    BY <1>2, Aligned, Zenon
<1>6. (n + Page) % Page = 0 /\ n + Page \in Nat
    <2>1. Page % Page = 0
        BY <1>2, <1>5, Quotients
    <2>2. PICK R \in Nat \ {0}, m \in Nat : R = Page /\ m = Page
        BY <1>2
    <2>3. (n + m) % R = 0
        BY <1>5, <2>1, <2>2, Multiples, Zenon
    <2> QED
        BY <1>2, <2>2, <2>3
<1>7. search' = [search EXCEPT !.addr = n + Page]
    BY <1>1, <1>4, <1>5 DEF PAGE_ALIGN_4K
<1>8. search' \in [proc : Proc, addr : Nat, length : Nat]
      /\ search'.proc = search.proc /\ search'.addr = n + Page /\ search'.length = search.length
    BY <1>2, <1>6, <1>7
<1>9. RegionsApart'
    BY <1>1, <1>8, Zenon DEF IInv, RegionsApart, TypeOK, AllApart
<1>10. Searching'
    BY <1>1, <1>6, <1>8 DEF IInv, Searching
<1>11. Loading'
    BY <1>1 DEF IInv, Searching, Loading
<1> QED
    BY <1>9, <1>10, <1>11 DEF IInv


LEMMA DefineIInv ==
    ASSUME IInv, sys_mmap_define
    PROVE  IInv'
<1>0. /\ search # NoSearch /\ search.addr < MMAP_TOP /\ UNCHANGED <<as, segs>>
    BY DEF sys_mmap_define
<1>1. TypeOK /\ Searching /\ Loading /\ AllApart(ks) /\ \A p \in Proc : AllApart(as[p])
    BY Zenon DEF IInv, RegionsApart
<1>2. CASE ~Definable(ks, search.addr, search.length)
    <2>1. fault' = "null" /\ UNCHANGED <<ks, pt, hw, frames, search, file, state>>
        BY <1>2 DEF sys_mmap_define
    <2>2. RegionsApart'
        BY <1>0, <1>1, <2>1, Zenon DEF RegionsApart, TypeOK, AllApart
    <2>3. Searching' /\ Loading'
        BY <1>0, <1>1, <2>1 DEF Searching, Loading
    <2> QED
        BY <2>2, <2>3 DEF IInv
<1>3. CASE Definable(ks, search.addr, search.length)
    <2>1. /\ ks' = as_define_region(ks, search.addr, search.length, "rw")
          /\ Mapped(search.proc, search.addr, search.length)
        BY <1>3 DEF sys_mmap_define
    <2>2. /\ search.addr \in Addr /\ search.length \in Nat /\ ks \in Seq(Region)
          /\ search.addr % Page = 0 /\ search.proc \in Proc
        <3>1. search.addr \in Nat /\ search.length \in Nat /\ search.addr % Page = 0 /\ search.proc \in Proc
            BY <1>0, <1>1 DEF Searching
        <3>2. search.addr \in Addr
            BY <1>0, <3>1, SpacesAssumption, WordAssumption DEF Addr
        <3> QED
            BY <1>1, <3>1, <3>2 DEF TypeOK
    <2>3. ks' \in Seq(Region) /\ AllApart(ks')
        BY <1>1, <2>1, <2>2, DefineFacts, DefineApart, Zenon
    <2>4. CASE search.addr + search.length > MMAP_TOP
        <3>1. fault' = "assert" /\ UNCHANGED <<pt, hw, frames, search, file, state>>
            BY <2>1, <2>4 DEF Mapped
        <3>2. RegionsApart'
            BY <1>0, <1>1, <2>3, <3>1, Zenon DEF RegionsApart, TypeOK, AllApart
        <3>3. Searching' /\ Loading'
            BY <1>0, <1>1, <3>1 DEF Searching, Loading
        <3> QED
            BY <3>2, <3>3 DEF IInv
    <2>5. CASE ~(search.addr + search.length > MMAP_TOP)
        <3> DEFINE where == PageIn(search.addr, search.length)
                   new == [a \in where |-> FreeFrame((a - search.addr) \div Page)]
        <3>1. /\ frames' = frames \cup {new[a] : a \in where}
              /\ pt' = [a \in Pages |-> IF a \in where THEN new[a] ELSE pt[a]]
              /\ hw' = [a \in Pages |-> IF a \in where /\ hw[a] = 0 THEN new[a] ELSE hw[a]]
              /\ file' = [file EXCEPT ![search.proc].base = search.addr]
              /\ state' = [state EXCEPT ![search.proc] = "LOADING"]
              /\ search' = NoSearch
              /\ fault' = fault
            BY <2>1, <2>5 DEF Mapped
        <3>2. \A a \in where : new[a] \in Frame
            BY <1>0, NewFrames
        <3> HIDE DEF where, new
        <3>3. frames' \subseteq Frame
            BY <1>1, <3>1, <3>2 DEF TypeOK
        <3>4. pt' \in [Pages -> Frame \cup {0}]
            BY <1>1, <3>1, <3>2 DEF TypeOK
        <3>5. hw' \in [Pages -> Frame \cup {0}]
            BY <1>1, <3>1, <3>2 DEF TypeOK
        <3>6. file' \in [Proc -> [base : Nat, length : Nat, segments : Seq(Segment)]]
            <4>1. search.addr \in Nat
                BY <2>2, WordAssumption DEF Addr
            <4> QED
                BY <1>1, <3>1, <4>1, Zenon DEF TypeOK
        <3>7. state' \in [Proc -> {"NONE", "LOADING", "BUILDING", "RUNNING"}]
            BY <1>1, <3>1, Zenon DEF TypeOK
        <3>8. TypeOK'
            BY <1>0, <1>1, <2>3, <3>1, <3>3, <3>4, <3>5, <3>6, <3>7, Zenon DEF TypeOK
        <3>9. RegionsApart'
            BY <1>0, <1>1, <2>3, <3>8, Zenon DEF RegionsApart, AllApart
        <3>10. Searching'
            BY <3>1 DEF Searching
        <3>11. Loading'
            <4>1. \A p \in Proc : state'[p] # "BUILDING"
                BY <1>0, <1>1, <3>1 DEF Searching, TypeOK
            <4>2. \A p \in Proc : file'[p].length % Page = 0 /\ file'[p].base % Page = 0
                BY <1>1, <2>2, <3>1 DEF Loading, TypeOK
            <4> QED
                BY <4>1, <4>2 DEF Loading
        <3> QED
            BY <3>9, <3>10, <3>11 DEF IInv
    <2> QED
        BY <2>4, <2>5
<1> QED
    BY <1>2, <1>3

\* The regions of proc_start are in the address space.
LEMMA FixedRegions ==
    /\ Stack.vbase \in Addr /\ Stack.size \in Nat /\ Stack.vbase + Stack.size < Word
    /\ Heap.vbase \in Addr /\ Heap.size \in Nat /\ Heap.vbase + Heap.size < Word
    /\ SharedBuf.vbase \in Addr /\ SharedBuf.size \in Nat /\ SharedBuf.vbase + SharedBuf.size < Word
    /\ Ipc.vbase \in Addr /\ Ipc.size \in Nat /\ Ipc.vbase + Ipc.size < Word
<1>1. /\ Word \in Nat /\ Page \in Nat /\ StackTop \in Nat /\ StackTop + Page < Word
      /\ StackSize \in Nat /\ StackSize <= StackTop /\ BufTop \in Nat /\ BufTop < Word
      /\ BufSize \in Nat /\ BufSize <= BufTop /\ IpcBuffer \in Nat /\ IpcBuffer + Page < Word
    BY SpacesAssumption, WordAssumption DEF Addr
<1> QED
    BY <1>1 DEF Stack, Heap, SharedBuf, Ipc, Addr

\* The four definitions of proc_start, one after the other.
LEMMA DefineAllSteps ==
    ASSUME NEW rs \in Seq(Region)
    PROVE  \E s1, s2, s3 \in Seq(Region) :
             /\ s1 = as_define_region(rs, Stack.vbase, Stack.size, "rw")
             /\ s2 = as_define_region(s1, Heap.vbase, Heap.size, "rw")
             /\ s3 = as_define_region(s2, SharedBuf.vbase, SharedBuf.size, "rw")
             /\ DefineAll(rs) = as_define_region(s3, Ipc.vbase, Ipc.size, "rw")
<1>1. PICK s1 \in Seq(Region) : s1 = as_define_region(rs, Stack.vbase, Stack.size, "rw")
    BY FixedRegions, DefineFacts
<1>2. PICK s2 \in Seq(Region) : s2 = as_define_region(s1, Heap.vbase, Heap.size, "rw")
    BY FixedRegions, DefineFacts
<1>3. PICK s3 \in Seq(Region) : s3 = as_define_region(s2, SharedBuf.vbase, SharedBuf.size, "rw")
    BY FixedRegions, DefineFacts
<1>4. DefineAll(rs) = as_define_region(s3, Ipc.vbase, Ipc.size, "rw")
    BY <1>1, <1>2, <1>3 DEF DefineAll
<1> QED
    BY <1>1, <1>2, <1>3, <1>4

LEMMA DefineAllApart ==
    ASSUME NEW rs \in Seq(Region), AllApart(rs)
    PROVE  DefineAll(rs) \in Seq(Region) /\ AllApart(DefineAll(rs))
<1>1. PICK s1, s2, s3 \in Seq(Region) :
             /\ s1 = as_define_region(rs, Stack.vbase, Stack.size, "rw")
             /\ s2 = as_define_region(s1, Heap.vbase, Heap.size, "rw")
             /\ s3 = as_define_region(s2, SharedBuf.vbase, SharedBuf.size, "rw")
             /\ DefineAll(rs) = as_define_region(s3, Ipc.vbase, Ipc.size, "rw")
    BY DefineAllSteps
<1>2. AllApart(s1)
    BY <1>1, FixedRegions, DefineApart
<1>3. AllApart(s2)
    BY <1>1, <1>2, FixedRegions, DefineApart
<1>4. AllApart(s3)
    BY <1>1, <1>3, FixedRegions, DefineApart
<1>5. AllApart(as_define_region(s3, Ipc.vbase, Ipc.size, "rw"))
    BY <1>4, FixedRegions, DefineApart
<1>6. as_define_region(s3, Ipc.vbase, Ipc.size, "rw") \in Seq(Region)
    BY FixedRegions, DefineFacts
<1> QED
    BY <1>1, <1>5, <1>6


LEMMA FailIInv ==
    ASSUME IInv, sys_mmap_fail \/ UNCHANGED vars
    PROVE  IInv'
<1>1. /\ UNCHANGED <<ks, pt, hw, frames, search, file, as, segs, state>>
      /\ fault' \in {fault, "assert"}
    BY Zenon DEF sys_mmap_fail, vars
<1>2. RegionsApart'
    BY <1>1, Zenon DEF IInv, RegionsApart, TypeOK, AllApart
<1>3. Searching' /\ Loading'
    BY <1>1 DEF IInv, Searching, Loading
<1> QED
    BY <1>2, <1>3 DEF IInv

LEMMA ElfLoadIInv ==
    ASSUME IInv, NEW p \in Proc, elf_load(p)
    PROVE  IInv'
<1>1. /\ Free /\ state' = [state EXCEPT ![p] = "BUILDING"]
      /\ UNCHANGED <<ks, pt, hw, frames, search, file, as, segs, fault>>
    BY DEF elf_load
<1>2. state \in [Proc -> {"NONE", "LOADING", "BUILDING", "RUNNING"}]
    BY DEF IInv, RegionsApart, TypeOK
<1>3. RegionsApart'
    BY <1>1, <1>2, Zenon DEF IInv, RegionsApart, TypeOK, AllApart
<1>4. search = NoSearch /\ \A q \in Proc : state[q] # "BUILDING"
    BY <1>1 DEF Free
<1>5. Searching' /\ Loading'
    BY <1>1, <1>2, <1>4 DEF IInv, Searching, Loading
<1> QED
    BY <1>3, <1>5 DEF IInv

LEMMA LoadSegmentIInv ==
    ASSUME IInv, NEW p \in Proc, load_segment(p)
    PROVE  IInv'
<1>1. PICK s : /\ s = file[p].segments[Len(segs[p]) + 1]
               /\ Len(segs[p]) < Len(file[p].segments)
               /\ segs' = [segs EXCEPT ![p] = Append(@, s)]
               /\ as' = [as EXCEPT ![p] = as_define_region(@, s.vaddr, s.size, s.accmode)]
               /\ UNCHANGED <<ks, pt, hw, frames, search, file, state, fault>>
    BY Zenon DEF load_segment
<1>2. /\ file[p].segments \in Seq(Segment) /\ segs \in [Proc -> Seq(Segment)]
      /\ as \in [Proc -> Seq(Region)] /\ AllApart(as[p])
    BY Zenon DEF IInv, RegionsApart, TypeOK
<1>3. s \in Segment
    <2>1. Len(segs[p]) + 1 \in 1 .. Len(file[p].segments)
        BY <1>1, <1>2
    <2> QED
        BY <1>1, <1>2, <2>1
<1>4. s.vaddr \in Addr /\ s.size \in Nat /\ s.accmode \in {"rw", "rx"}
    BY <1>3 DEF Segment
<1>5. PICK d \in Seq(Region) : d = as_define_region(as[p], s.vaddr, s.size, s.accmode) /\ AllApart(d)
    BY <1>2, <1>4, DefineFacts, DefineApart, Zenon
<1>6. as' = [as EXCEPT ![p] = d] /\ segs' \in [Proc -> Seq(Segment)]
    <2>1. as' = [as EXCEPT ![p] = d]
        BY <1>1, <1>5, Zenon
    <2>2. Append(segs[p], s) \in Seq(Segment)
        BY <1>2, <1>3
    <2>3. segs' = [segs EXCEPT ![p] = Append(segs[p], s)]
        BY <1>1, Zenon
    <2> QED
        BY <1>2, <2>1, <2>2, <2>3
<1>7. RegionsApart'
    <2>1. as' \in [Proc -> Seq(Region)] /\ \A q \in Proc : AllApart(as'[q])
        BY <1>2, <1>5, <1>6, Zenon DEF IInv, RegionsApart
    <2>2. AllApart(ks')
        BY <1>1 DEF IInv, RegionsApart
    <2>3. TypeOK'
        BY <1>1, <1>6, <2>1, Zenon DEF IInv, RegionsApart, TypeOK
    <2> QED
        BY <2>1, <2>2, <2>3 DEF RegionsApart
<1>8. Searching' /\ Loading'
    BY <1>1 DEF IInv, Searching, Loading
<1> QED
    BY <1>7, <1>8 DEF IInv

LEMMA EmptySpace == <<>> \in Seq(Region) /\ <<>> \in Seq(Segment) /\ AllApart(<<>>) /\ 0 % Page = 0
<1>1. <<>> \in Seq(Region) /\ <<>> \in Seq(Segment)
    OBVIOUS
<1>2. AllApart(<<>>)
    BY DEF AllApart
<1>3. 0 % Page = 0
    BY SpacesAssumption, DivIs
<1> QED
    BY <1>1, <1>2, <1>3

\* load_fails and as_destroy leave the process empty.
LEMMA EmptiedIInv ==
    ASSUME IInv, NEW p \in Proc, load_fails(p) \/ as_destroy(p)
    PROVE  IInv'
<1>1. /\ state' = [state EXCEPT ![p] = "NONE"]
      /\ as' = [as EXCEPT ![p] = <<>>]
      /\ segs' = [segs EXCEPT ![p] = <<>>]
      /\ file' = file \/ file' = [file EXCEPT ![p] = NoFile]
      /\ UNCHANGED <<ks, pt, hw, frames, search, fault>>
    BY Zenon DEF load_fails, as_destroy
<1>2. search = NoSearch
    BY Zenon DEF load_fails, as_destroy, Free, IInv, Loading
<1>3. /\ as \in [Proc -> Seq(Region)] /\ segs \in [Proc -> Seq(Segment)]
      /\ file \in [Proc -> [base : Nat, length : Nat, segments : Seq(Segment)]]
      /\ state \in [Proc -> {"NONE", "LOADING", "BUILDING", "RUNNING"}]
    BY Zenon DEF IInv, RegionsApart, TypeOK
<1>4. NoFile \in [base : Nat, length : Nat, segments : Seq(Segment)]
    BY EmptySpace DEF NoFile
<1>5. file' \in [Proc -> [base : Nat, length : Nat, segments : Seq(Segment)]]
    BY <1>1, <1>3, <1>4, Zenon
<1>6. as' \in [Proc -> Seq(Region)] /\ \A q \in Proc : AllApart(as'[q])
    BY <1>1, <1>3, EmptySpace, Zenon DEF IInv, RegionsApart
<1>7. segs' \in [Proc -> Seq(Segment)] /\ state' \in [Proc -> {"NONE", "LOADING", "BUILDING", "RUNNING"}]
    BY <1>1, <1>3, EmptySpace
<1>8. TypeOK'
    BY <1>1, <1>5, <1>6, <1>7, Zenon DEF IInv, RegionsApart, TypeOK
<1>9. RegionsApart'
    <2>1. AllApart(ks')
        BY <1>1 DEF IInv, RegionsApart
    <2> QED
        BY <1>6, <1>8, <2>1 DEF RegionsApart
<1>10. Searching'
    BY <1>1, <1>2 DEF Searching
<1>11. Loading'
    <2>1. \A q \in Proc : file'[q].length % Page = 0 /\ file'[q].base % Page = 0
        <3>1. NoFile.length % Page = 0 /\ NoFile.base % Page = 0
            BY EmptySpace DEF NoFile
        <3> HIDE DEF NoFile
        <3> QED
            BY <1>1, <1>3, <3>1, Zenon DEF IInv, Loading
    <2>2. \A q \in Proc : state'[q] = "BUILDING" => state[q] = "BUILDING"
        BY <1>1, <1>3
    <2> QED
        BY <1>1, <1>2, <2>1, <2>2 DEF IInv, Loading
<1> QED
    BY <1>9, <1>10, <1>11 DEF IInv

LEMMA ProcStartIInv ==
    ASSUME IInv, NEW p \in Proc, proc_start(p)
    PROVE  IInv'
<1>1. /\ as \in [Proc -> Seq(Region)] /\ segs \in [Proc -> Seq(Segment)]
      /\ file \in [Proc -> [base : Nat, length : Nat, segments : Seq(Segment)]]
      /\ state \in [Proc -> {"NONE", "LOADING", "BUILDING", "RUNNING"}]
      /\ ks \in Seq(Region) /\ AllApart(ks) /\ frames \subseteq Frame
      /\ pt \in [Pages -> Frame \cup {0}] /\ hw \in [Pages -> Frame \cup {0}]
    BY Zenon DEF IInv, RegionsApart, TypeOK
<1>2. search = NoSearch /\ search' = search
    BY DEF proc_start, IInv, Loading
<1>3. CASE as_seek_region(ks, file[p].base) = 0
    <2>1. fault' = "null" /\ UNCHANGED <<ks, pt, hw, frames, file, as, segs, state>>
        BY <1>3 DEF proc_start
    <2>2. RegionsApart'
        BY <1>2, <2>1, Zenon DEF IInv, RegionsApart, TypeOK, AllApart
    <2>3. Searching' /\ Loading'
        BY <1>2, <2>1 DEF IInv, Searching, Loading
    <2> QED
        BY <2>2, <2>3 DEF IInv
<1>4. CASE as_seek_region(ks, file[p].base) # 0
    <2>1. /\ sys_munmap(file[p].base, file[p].length)
          /\ file' = [file EXCEPT ![p] = NoFile]
          /\ state' = [state EXCEPT ![p] = IF AllDefinable(as[p]) THEN "RUNNING" ELSE "NONE"]
          /\ as' = [as EXCEPT ![p] = IF AllDefinable(@) THEN DefineAll(@) ELSE <<>>]
          /\ segs' = [segs EXCEPT ![p] = IF AllDefinable(as[p]) THEN @ ELSE <<>>]
          /\ fault' = fault
        BY <1>4, Zenon DEF proc_start
    <2>2. NoFile \in [base : Nat, length : Nat, segments : Seq(Segment)]
        BY EmptySpace DEF NoFile
    <2>3. file' \in [Proc -> [base : Nat, length : Nat, segments : Seq(Segment)]]
        BY <1>1, <2>1, <2>2
    <2>4. as' \in [Proc -> Seq(Region)] /\ \A q \in Proc : AllApart(as'[q])
        <3>1. PICK d \in Seq(Region) :
                 d = (IF AllDefinable(as[p]) THEN DefineAll(as[p]) ELSE <<>>) /\ AllApart(d)
            <4>1. as[p] \in Seq(Region) /\ AllApart(as[p])
                BY <1>1, Zenon DEF IInv, RegionsApart
            <4>2. DefineAll(as[p]) \in Seq(Region) /\ AllApart(DefineAll(as[p]))
                BY <4>1, DefineAllApart, Zenon
            <4> QED
                BY <4>2, EmptySpace, Zenon
        <3>2. as' = [as EXCEPT ![p] = d]
            BY <2>1, <3>1
        <3> QED
            BY <1>1, <3>1, <3>2, Zenon DEF IInv, RegionsApart
    <2>5. segs' \in [Proc -> Seq(Segment)]
        BY <1>1, <2>1, EmptySpace, Zenon
    <2>6. state' \in [Proc -> {"NONE", "LOADING", "BUILDING", "RUNNING"}]
        BY <1>1, <2>1
    <2>7. ks' \in Seq(Region) /\ AllApart(ks')
        <3>1. file[p].base \in Nat
            BY <1>1
        <3>2. ks' = as_destroy_region(ks, file[p].base)
            BY <2>1 DEF sys_munmap
        <3> QED
            BY <1>1, <3>1, <3>2, DestroyFacts, DestroyKeeps
    <2>8. frames' \subseteq Frame
        BY <1>1, <2>1 DEF sys_munmap
    <2>9. pt' \in [Pages -> Frame \cup {0}]
        BY <1>1, <2>1 DEF sys_munmap
    <2>10. hw' \in [Pages -> Frame \cup {0}]
        BY <1>1, <2>1 DEF sys_munmap
    <2>11. RegionsApart'
        <3>1. TypeOK'
            BY <1>2, <2>1, <2>3, <2>4, <2>5, <2>6, <2>7, <2>8, <2>9, <2>10, Zenon
            DEF IInv, RegionsApart, TypeOK
        <3> QED
            BY <2>4, <2>7, <3>1 DEF RegionsApart
    <2>12. Searching'
        BY <1>2 DEF Searching
    <2>13. Loading'
        <3>1. \A q \in Proc : file'[q].length % Page = 0 /\ file'[q].base % Page = 0
            <4>1. NoFile.length % Page = 0 /\ NoFile.base % Page = 0
                BY EmptySpace DEF NoFile
            <4> HIDE DEF NoFile
            <4> QED
                BY <1>1, <2>1, <4>1 DEF IInv, Loading
        <3>2. \A q \in Proc : state'[q] = "BUILDING" => state[q] = "BUILDING"
            BY <1>1, <2>1
        <3> QED
            BY <1>2, <3>1, <3>2 DEF IInv, Loading
    <2> QED
        BY <2>11, <2>12, <2>13 DEF IInv
<1> QED
    BY <1>3, <1>4

LEMMA NextIInv == IInv /\ [Next]_vars => IInv'
BY ElfLoadFsIInv, SkipIInv, DefineIInv, FailIInv, ElfLoadIInv, LoadSegmentIInv, EmptiedIInv,
   ProcStartIInv DEF Next

LEMMA Inductive == Spec => []IInv
<1> QED
    BY InitIInv, NextIInv, PTL DEF Spec

\* RegionsApart holds in every reachable state: whatever as_define_region and
\* as_destroy_region were called for before, with programs of any shape, no two
\* regions of an address space have an address in common, although regions
\* include their end and a size may wrap around the last address.
THEOREM AlwaysApart == Spec => []RegionsApart
<1>1. IInv => RegionsApart
    BY DEF IInv
<1> QED
    BY <1>1, Inductive, PTL


-----------------------------------------------------------------------------
(* The files in memory, when loads end in the order Disciplined asks for *)

\* The frames of the two tables are allocated, no frame is in a table twice, and
\* a frame that is in both is that of the same page.
Mappings ==
    /\ \A a \in Pages : (hw[a] # 0 => hw[a] \in frames) /\ (pt[a] # 0 => pt[a] \in frames)
    /\ \A a, b \in Pages : hw[a] # 0 /\ hw[a] = hw[b] => a = b
    /\ \A a, b \in Pages : pt[a] # 0 /\ pt[a] = pt[b] => a = b
    /\ \A a, b \in Pages : hw[a] # 0 /\ hw[a] = pt[b] => a = b

\* Region r is the one sys_mmap has defined for file f.
Home(r, f) == r.vbase = f.base /\ r.vtop = f.base + f.length + Page

Kept ==
    /\ \A p \in Proc : Held(p) =>
         /\ \E i \in DOMAIN ks : Home(ks[i], file[p])
         /\ \A a \in PageIn(file[p].base, file[p].length) : hw[a] # 0
    /\ \A p, q \in Proc : Held(p) /\ Held(q) /\ file[p].base = file[q].base => p = q
    /\ \A p \in Proc : state[p] = "BUILDING" => as_seek_region(ks, file[p].base) \in {1, 2}

FInv == Mappings /\ Kept

LEMMA InitFInv == Init => FInv
BY DEF Init, FInv, Mappings, Kept, Held

\* Steps that leave the memory of SOS alone and add no file.
LEMMA QuietFInv ==
    ASSUME FInv, UNCHANGED <<ks, pt, hw, frames>>,
           \A q \in Proc : state'[q] \in {"LOADING", "BUILDING"} =>
             state[q] \in {"LOADING", "BUILDING"} /\ file'[q] = file[q],
           \A q \in Proc : state'[q] = "BUILDING" =>
             as_seek_region(ks, file[q].base) \in {1, 2}
    PROVE  FInv'
<1>1. Mappings'
    BY DEF FInv, Mappings
<1>2. \A p \in Proc : Held(p)' => Held(p) /\ file'[p] = file[p]
    BY DEF Held
<1>3. \A p \in Proc : state'[p] = "BUILDING" => file'[p] = file[p]
    OBVIOUS
<1>4. Kept'
    BY <1>2, <1>3 DEF FInv, Kept
<1> QED
    BY <1>1, <1>4 DEF FInv

LEMMA QuietSteps ==
    ASSUME IInv, FInv, Disciplined,
           \/ \E p \in Proc :
                \/ \E prog \in Programs : elf_load_fs(p, prog)
                \/ elf_load(p)
                \/ load_segment(p)
                \/ load_fails(p)
                \/ as_destroy(p)
           \/ sys_mmap_skip
           \/ sys_mmap_fail
           \/ UNCHANGED vars
    PROVE  FInv'
<1>0. /\ file \in [Proc -> [base : Nat, length : Nat, segments : Seq(Segment)]]
      /\ state \in [Proc -> {"NONE", "LOADING", "BUILDING", "RUNNING"}]
    BY DEF IInv, RegionsApart, TypeOK
<1>1. UNCHANGED <<ks, pt, hw, frames>>
    BY Zenon DEF elf_load_fs, elf_load, load_segment, load_fails, as_destroy, sys_mmap_skip,
           sys_mmap_fail, vars
<1>2. \A q \in Proc : state'[q] \in {"LOADING", "BUILDING"} =>
             state[q] \in {"LOADING", "BUILDING"} /\ file'[q] = file[q]
    BY <1>0, Zenon DEF elf_load_fs, elf_load, load_segment, load_fails, as_destroy, sys_mmap_skip,
           sys_mmap_fail, vars
<1>3. \A q \in Proc : state'[q] = "BUILDING" => as_seek_region(ks, file[q].base) \in {1, 2}
    <2>1. \A q \in Proc : state'[q] = "BUILDING" => state[q] = "BUILDING" \/ elf_load(q)
        BY <1>0, Zenon DEF elf_load_fs, elf_load, load_segment, load_fails, as_destroy, sys_mmap_skip,
               sys_mmap_fail, vars
    <2> QED
        BY <2>1, Zenon DEF elf_load, FInv, Kept
<1> QED
    BY <1>1, <1>2, <1>3, QuietFInv

\* A region that is defined does not take another's place in the list.
LEMMA StillHome ==
    ASSUME NEW s \in Seq(Region), NEW d \in Seq(Region), NEW f, NEW i \in DOMAIN s, Home(s[i], f),
           \/ d = s
           \/ Len(d) = Len(s) + 1 /\ \A j \in DOMAIN s : d[j + 1] = s[j]
    PROVE  \E j \in DOMAIN d : Home(d[j], f)
<1>1. DOMAIN s = 1 .. Len(s) /\ Len(s) \in Nat /\ DOMAIN d = 1 .. Len(d)
    OBVIOUS
<1>2. CASE d = s
    BY <1>2
<1>3. CASE Len(d) = Len(s) + 1 /\ \A j \in DOMAIN s : d[j + 1] = s[j]
    <2>1. i + 1 \in DOMAIN d /\ d[i + 1] = s[i]
        BY <1>1, <1>3
    <2> QED
        BY <2>1
<1> QED
    BY <1>2, <1>3

LEMMA DefineFInv ==
    ASSUME IInv, FInv, sys_mmap_define
    PROVE  FInv'
<1>0. search # NoSearch /\ search.addr < MMAP_TOP /\ as_seek_region(ks, search.addr) = 0
    BY DEF sys_mmap_define
<1>1. TypeOK /\ Searching /\ Loading /\ ks \in Seq(Region)
    BY Zenon DEF IInv, RegionsApart, TypeOK
<1>2. PICK p \in Proc, base \in Addr, length \in Nat :
         /\ p = search.proc /\ base = search.addr /\ length = search.length
         /\ length = file[p].length + Page /\ state[p] = "NONE" /\ base \in Nat
         /\ \A q \in Proc : state[q] # "BUILDING"
    <2>1. search.addr \in Nat /\ search.length \in Nat
        BY <1>0, <1>1 DEF Searching
    <2>2. search.addr \in Addr
        BY <1>0, <2>1, SpacesAssumption, WordAssumption DEF Addr
    <2> QED
        BY <1>0, <1>1, <2>1, <2>2 DEF Searching
<1>3. CASE ~Definable(ks, base, length)
    <2>1. UNCHANGED <<ks, pt, hw, frames, search, file, state>>
        BY <1>2, <1>3 DEF sys_mmap_define
    <2> QED
        BY <1>2, <2>1, QuietFInv
<1>4. CASE Definable(ks, base, length)
    <2>1. ks' = as_define_region(ks, base, length, "rw") /\ Mapped(p, base, length)
        BY <1>2, <1>4 DEF sys_mmap_define
    <2>2. /\ ks' \in Seq(Region) /\ Len(ks') = Len(ks) + 1
          /\ ks'[1] = NewRegion(base, length, "rw")
          /\ \A i \in DOMAIN ks : ks'[i + 1] = ks[i]
        BY <1>1, <1>4, <2>1, DefineFacts
    <2>3. \A q \in Proc : Held(q) => \E i \in DOMAIN ks' : Home(ks'[i], file[q])
        <3>1. ASSUME NEW q \in Proc, Held(q)
              PROVE  \E i \in DOMAIN ks' : Home(ks'[i], file[q])
            <4>1. PICK i \in DOMAIN ks : Home(ks[i], file[q])
                BY <3>1 DEF FInv, Kept
            <4> QED
                BY <1>1, <2>2, <4>1, StillHome
        <3> QED
            BY <3>1
    <2>4. CASE base + length > MMAP_TOP
        <3>1. UNCHANGED <<pt, hw, frames, search, file, state>>
            BY <2>1, <2>4 DEF Mapped
        <3>2. Mappings'
            BY <3>1 DEF FInv, Mappings
        <3>3. \A q \in Proc : Held(q)' <=> Held(q)
            BY <3>1 DEF Held
        <3>4. Kept'
            BY <1>2, <2>3, <3>1, <3>3 DEF FInv, Kept
        <3> QED
            BY <3>2, <3>4 DEF FInv
    <2>5. CASE ~(base + length > MMAP_TOP)
        <3> DEFINE where == PageIn(base, length)
                   new == [a \in where |-> FreeFrame((a - base) \div Page)]
        <3>1. /\ frames' = frames \cup {new[a] : a \in where}
              /\ pt' = [a \in Pages |-> IF a \in where THEN new[a] ELSE pt[a]]
              /\ hw' = [a \in Pages |-> IF a \in where /\ hw[a] = 0 THEN new[a] ELSE hw[a]]
              /\ file' = [file EXCEPT ![p].base = base]
              /\ state' = [state EXCEPT ![p] = "LOADING"]
            BY <2>1, <2>5 DEF Mapped
        <3>2. ASSUME NEW a \in where
              PROVE  /\ a \in Pages /\ new[a] \in Frame /\ new[a] \notin frames /\ new[a] # 0
                     /\ \A b \in where : new[a] = new[b] => a = b
            <4>1. /\ a \in Pages /\ new[a] \in Frame \ frames
                  /\ \A b \in where : new[a] = new[b] => a = b
                BY <1>0, <1>2, NewFrames
            <4>2. 0 \notin Frame
                BY SpacesAssumption DEF Frame
            <4> QED
                BY <4>1, <4>2
        <3>3. \A a \in Pages : (hw[a] # 0 => hw[a] \in frames) /\ (pt[a] # 0 => pt[a] \in frames)
            BY DEF FInv, Mappings
        <3> HIDE DEF where, new
        <3>4. Mappings'
            <4>1. ASSUME NEW a \in Pages
                  PROVE  /\ hw'[a] = hw[a] \/ (a \in where /\ hw'[a] = new[a])
                         /\ pt'[a] = pt[a] \/ (a \in where /\ pt'[a] = new[a])
                BY <3>1
            <4>2. \A a \in Pages : (hw'[a] # 0 => hw'[a] \in frames') /\ (pt'[a] # 0 => pt'[a] \in frames')
                BY <3>1, <3>3, <4>1
            <4>3. \A a, b \in Pages : hw'[a] # 0 /\ hw'[a] = hw'[b] => a = b
                BY <3>2, <3>3, <4>1 DEF FInv, Mappings
            <4>4. \A a, b \in Pages : pt'[a] # 0 /\ pt'[a] = pt'[b] => a = b
                BY <3>2, <3>3, <4>1 DEF FInv, Mappings
            <4>5. \A a, b \in Pages : hw'[a] # 0 /\ hw'[a] = pt'[b] => a = b
                BY <3>2, <3>3, <4>1 DEF FInv, Mappings
            <4> QED
                BY <4>2, <4>3, <4>4, <4>5 DEF Mappings
        <3>5. /\ file \in [Proc -> [base : Nat, length : Nat, segments : Seq(Segment)]]
              /\ state \in [Proc -> {"NONE", "LOADING", "BUILDING", "RUNNING"}]
            BY <1>1 DEF TypeOK
        <3>6. /\ file'[p].base = base /\ file'[p].length = file[p].length
              /\ \A q \in Proc : q # p => file'[q] = file[q] /\ (Held(q)' <=> Held(q))
              /\ ~Held(p) /\ \A q \in Proc : state'[q] # "BUILDING"
            BY <1>2, <3>1, <3>5 DEF Held
        <3>7. \A a \in Pages : hw[a] # 0 => hw'[a] # 0
            BY <3>1
        <3>8. \E i \in DOMAIN ks' : Home(ks'[i], file'[p])
            <4>1. /\ Page \in Nat /\ file[p].length \in Nat /\ base \in Nat
                  /\ MMAP_TOP \in Addr /\ Word \in Nat
                BY <1>2, <3>5, SpacesAssumption, WordAssumption
            <4>2. base + length < Word /\ base + length = (base + file[p].length) + Page
                BY <1>2, <2>5, <4>1 DEF Addr
            <4>3. /\ NewRegion(base, length, "rw").vtop = base + length
                  /\ NewRegion(base, length, "rw").vbase = base
                <5>1. NewRegion(base, length, "rw").vtop = base + length
                    BY <4>2, Wrapped
                <5> QED
                    BY <5>1 DEF NewRegion
            <4>4. 1 \in DOMAIN ks'
                BY <1>1, <2>2
            <4> QED
                BY <2>2, <3>6, <4>2, <4>3, <4>4 DEF Home
        <3>9. \A a \in PageIn(file'[p].base, file'[p].length) : hw'[a] # 0
            <4>1. /\ Page \in Nat /\ file[p].length \in Nat /\ base \in Nat
                BY <1>2, <3>5, SpacesAssumption
            <4>2. PageIn(base, file[p].length) \subseteq where
                BY <1>2, <4>1, WordAssumption DEF PageIn, where, Addr
            <4>3. \A a \in where : a \in Pages /\ hw'[a] # 0
                BY <3>1, <3>2
            <4> QED
                BY <3>6, <4>2, <4>3
        <3>10. ASSUME NEW q \in Proc, q # p, Held(q)
               PROVE  /\ file[q].base # base
                      /\ \A a \in PageIn(file[q].base, file[q].length) : hw'[a] # 0
            <4>1. PICK i \in DOMAIN ks : Home(ks[i], file[q])
                BY <3>10 DEF FInv, Kept
            <4>2. ~In(ks[i], base)
                <5>1. 0 \notin DOMAIN ks
                    BY <1>1
                <5> QED
                    BY <1>0, <1>1, <1>2, <5>1, SeekFacts
            <4>3. file[q].base # base
                <5>1. file[q].base \in Nat /\ file[q].length \in Nat /\ Page \in Nat
                    BY <3>5, SpacesAssumption
                <5> QED
                    BY <1>2, <4>1, <4>2, <5>1 DEF Home, In
            <4>4. \A a \in PageIn(file[q].base, file[q].length) : a \in Pages /\ hw[a] # 0
                BY <3>10 DEF FInv, Kept, PageIn, Pages
            <4> QED
                BY <3>7, <4>3, <4>4
        <3>11. Kept'
            <4>1. ASSUME NEW q \in Proc, Held(q)'
                  PROVE  /\ \E i \in DOMAIN ks' : Home(ks'[i], file'[q])
                         /\ \A a \in PageIn(file'[q].base, file'[q].length) : hw'[a] # 0
                BY <2>3, <3>6, <3>8, <3>9, <3>10, <4>1
            <4>2. ASSUME NEW q \in Proc, NEW r \in Proc, Held(q)', Held(r)', file'[q].base = file'[r].base
                  PROVE  q = r
                BY <3>6, <3>10, <4>2 DEF FInv, Kept
            <4> QED
                BY <3>6, <4>1, <4>2 DEF Kept
        <3> QED
            BY <3>4, <3>11 DEF FInv
    <2> QED
        BY <2>4, <2>5
<1> QED
    BY <1>3, <1>4


LEMMA ProcStartFInv ==
    ASSUME IInv, FInv, NEW p \in Proc, proc_start(p)
    PROVE  FInv'
<1>1. /\ file \in [Proc -> [base : Nat, length : Nat, segments : Seq(Segment)]]
      /\ state \in [Proc -> {"NONE", "LOADING", "BUILDING", "RUNNING"}]
      /\ ks \in Seq(Region) /\ AllApart(ks)
      /\ pt \in [Pages -> Frame \cup {0}] /\ hw \in [Pages -> Frame \cup {0}]
    BY DEF IInv, RegionsApart, TypeOK
<1>2. PICK base \in Nat, length \in Nat, k \in {1, 2} :
         base = file[p].base /\ length = file[p].length /\ k = as_seek_region(ks, base)
    BY <1>1, Zenon DEF proc_start, FInv, Kept
<1>3. Held(p) /\ state[p] = "BUILDING"
    BY DEF proc_start, Held
<1> DEFINE gone == {pt[a] : a \in PageIn(base, length)}
<1>4. /\ frames' = frames \ gone
      /\ hw' = [a \in Pages |-> IF hw[a] \in gone THEN 0 ELSE hw[a]]
      /\ pt' = [a \in Pages |-> IF a \in PageIn(base, length) THEN 0 ELSE pt[a]]
      /\ ks' = as_destroy_region(ks, base)
      /\ file' = [file EXCEPT ![p] = NoFile]
      /\ state' = [state EXCEPT ![p] = IF AllDefinable(as[p]) THEN "RUNNING" ELSE "NONE"]
    <2>1. as_seek_region(ks, file[p].base) # 0
        BY <1>2
    <2>2. /\ sys_munmap(file[p].base, file[p].length)
          /\ file' = [file EXCEPT ![p] = NoFile]
          /\ state' = [state EXCEPT ![p] = IF AllDefinable(as[p]) THEN "RUNNING" ELSE "NONE"]
        BY <2>1, Zenon DEF proc_start
    <2>3. sys_munmap(base, length)
        BY <1>2, <2>2
    <2> QED
        BY <2>2, <2>3 DEF sys_munmap
<1>5. PageIn(base, length) \subseteq Pages
    BY DEF PageIn, Pages
<1>6. Mappings'
    <2>1. \A a \in Pages : /\ hw'[a] # 0 => hw'[a] = hw[a] /\ hw[a] \notin gone
                           /\ pt'[a] # 0 => pt'[a] = pt[a] /\ a \notin PageIn(base, length)
        BY <1>4
    <2>2. \A a \in Pages : pt'[a] # 0 => pt[a] \notin gone
        BY <1>5, <2>1 DEF FInv, Mappings
    <2> HIDE DEF gone
    <2>3. \A a \in Pages : (hw'[a] # 0 => hw'[a] \in frames') /\ (pt'[a] # 0 => pt'[a] \in frames')
        BY <1>4, <2>1, <2>2 DEF FInv, Mappings
    <2>4. \A a, b \in Pages : hw'[a] # 0 /\ hw'[a] = hw'[b] => a = b
        BY <2>1 DEF FInv, Mappings
    <2>5. \A a, b \in Pages : pt'[a] # 0 /\ pt'[a] = pt'[b] => a = b
        BY <2>1 DEF FInv, Mappings
    <2>6. \A a, b \in Pages : hw'[a] # 0 /\ hw'[a] = pt'[b] => a = b
        BY <2>1 DEF FInv, Mappings
    <2> QED
        BY <2>3, <2>4, <2>5, <2>6 DEF Mappings
<1>7. \A q \in Proc : /\ q = p => ~Held(q)'
                      /\ q # p => file'[q] = file[q] /\ (Held(q)' <=> Held(q))
                      /\ state'[q] # "BUILDING"
    <2>1. \A q \in Proc : q # p => state[q] # "BUILDING"
        BY <1>3 DEF IInv, Loading
    <2> QED
        BY <1>1, <1>4, <2>1 DEF Held
\* The region that goes is that of the file.
<1>8. PICK i \in DOMAIN ks : Home(ks[i], file[p])
    BY <1>3 DEF FInv, Kept
<1>9. Page \in Nat /\ Word \in Nat /\ \A j \in DOMAIN ks : ks[j] \in Region
    BY <1>1, SpacesAssumption, WordAssumption
<1>10. i = k
    <2>1. k \in DOMAIN ks /\ In(ks[k], base)
        BY <1>1, <1>2, SeekFacts
    <2>2. In(ks[i], base)
        BY <1>2, <1>8, <1>9 DEF Home, In
    <2>3. base \in Addr
        BY <1>2, <1>8, <1>9 DEF Home, Region
    <2> QED
        BY <1>1, <2>1, <2>2, <2>3 DEF AllApart, Apart
<1>11. ASSUME NEW q \in Proc, q # p, Held(q)
       PROVE  /\ \E j \in DOMAIN ks' : Home(ks'[j], file[q])
              /\ \A a \in PageIn(file[q].base, file[q].length) : hw'[a] # 0
    <2>1. PICK j \in DOMAIN ks : Home(ks[j], file[q])
        BY <1>11 DEF FInv, Kept
    <2>2. j # i
        BY <1>3, <1>8, <1>11, <2>1 DEF FInv, Kept, Home
    <2>3. \E x \in DOMAIN ks' : ks'[x] = ks[j]
        BY <1>1, <1>2, <1>4, <1>10, <2>2, DestroyKeeps
    <2>4. ASSUME NEW a \in PageIn(file[q].base, file[q].length)
          PROVE  hw'[a] # 0
        <3>1. a \in Pages /\ a \in Addr /\ hw[a] # 0
            BY <1>11 DEF FInv, Kept, PageIn, Pages
        <3>2. a \notin PageIn(base, length)
            <4>1. SUFFICES ASSUME a \in PageIn(base, length)
                           PROVE  FALSE
                OBVIOUS
            <4>2. file[q].base \in Nat /\ file[q].length \in Nat /\ a \in Nat
                BY <1>1, <3>1, WordAssumption DEF Addr
            <4>3. In(ks[i], a)
                BY <1>2, <1>8, <1>9, <4>1, <4>2 DEF Home, In, PageIn
            <4>4. In(ks[j], a)
                BY <1>9, <2>1, <4>2 DEF Home, In, PageIn
            <4> QED
                BY <1>1, <2>2, <3>1, <4>3, <4>4 DEF AllApart, Apart
        <3>3. hw[a] \notin gone
            BY <1>5, <3>1, <3>2 DEF FInv, Mappings
        <3> QED
            BY <1>4, <3>1, <3>3
    <2> QED
        BY <2>1, <2>3, <2>4
<1>12. Kept'
    BY <1>7, <1>11 DEF FInv, Kept
<1> QED
    BY <1>6, <1>12 DEF FInv

LEMMA NextFInv == Disciplined /\ IInv /\ FInv /\ [Next]_vars => FInv'
BY QuietSteps, DefineFInv, ProcStartFInv DEF Next

\* FilesKept holds in every reachable state when a load ends while its file is
\* one of the two newest: as_destroy_region then takes the region of that file
\* and no other, so that no region of a file that is still being read is lost,
\* and no mapping that sys_mmap ignores leaves a page of a file without a frame
\* of its own.
THEOREM FilesAlwaysKept == ASSUME Disciplined PROVE Spec => []FilesKept
<1>1. FInv /\ IInv => FilesKept
    <2> SUFFICES ASSUME FInv, IInv PROVE FilesKept
        OBVIOUS
    <2>1. ASSUME NEW p \in Proc, Held(p)
          PROVE  /\ \E i \in DOMAIN ks : /\ ks[i].vbase = file[p].base
                                         /\ ks[i].vtop = file[p].base + file[p].length + Page
                 /\ \A a \in PageIn(file[p].base, file[p].length) : hw[a] \in frames
        <3>1. \E i \in DOMAIN ks : Home(ks[i], file[p])
            BY <2>1 DEF FInv, Kept
        <3>2. \A a \in PageIn(file[p].base, file[p].length) : a \in Pages /\ hw[a] # 0
            BY <2>1 DEF FInv, Kept, PageIn, Pages
        <3>3. \A a \in PageIn(file[p].base, file[p].length) : hw[a] \in frames
            BY <3>2 DEF FInv, Mappings
        <3> QED
            BY <3>1, <3>3 DEF Home
    <2>2. \A a, b \in Pages : a # b /\ hw[a] # 0 => hw[a] # hw[b]
        BY DEF FInv, Mappings
    <2> QED
        BY <2>1, <2>2 DEF FilesKept
<1>2. Spec => [](IInv /\ FInv)
    <2>1. IInv /\ FInv /\ [Next]_vars => (IInv /\ FInv)'
        BY NextIInv, NextFInv
    <2> QED
        BY InitIInv, InitFInv, <2>1, PTL DEF Spec
<1> QED
    BY <1>1, <1>2, PTL


-----------------------------------------------------------------------------
(* The regions of a process that runs *)

SegRegion(s) == NewRegion(s.vaddr, s.size, s.accmode)

\* What the linker sees to: the segments of a program end before the last
\* address and are apart, with an address between them for the end of the region.
Linked(ss) ==
    /\ \A i \in DOMAIN ss : ss[i].vaddr + ss[i].size < Word
    /\ \A i, j \in DOMAIN ss : i # j => ~Overlaps(SegRegion(ss[i]), SegRegion(ss[j]))

WellLinked == \A prog \in Programs : Linked(prog.segments)

Has(rs, r) == \E k \in DOMAIN rs : rs[k] = r
FixedRegion(r) == NewRegion(r.vbase, r.size, "rw")

\* While a process is built, its regions are those of its segments so far; when it
\* runs, those of all its segments, of the stack, the heap and the two buffers.
Built(rs, ss, all) ==
    /\ Len(ss) <= Len(all)
    /\ \A i \in DOMAIN ss : ss[i] = all[i] /\ Has(rs, SegRegion(ss[i]))
    /\ \A k \in DOMAIN rs : \E i \in DOMAIN ss : rs[k] = SegRegion(ss[i])

Complete(rs, ss) ==
    /\ \A i \in DOMAIN ss : ss[i].vaddr + ss[i].size < Word /\ Has(rs, SegRegion(ss[i]))
    /\ \A r \in {Stack, Heap, SharedBuf, Ipc} : Has(rs, FixedRegion(r))

CInv ==
    /\ search # NoSearch => Linked(file[search.proc].segments)
    /\ \A p \in Proc :
         /\ Held(p) => Linked(file[p].segments)
         /\ state[p] \in {"NONE", "LOADING"} => as[p] = <<>> /\ segs[p] = <<>>
         /\ state[p] = "BUILDING" => Built(as[p], segs[p], file[p].segments)
         /\ state[p] = "RUNNING" => Complete(as[p], segs[p])

\* Nothing is built before the first segment is loaded.
LEMMA EmptyBuilt == \A all : Len(all) \in Nat => Built(<<>>, <<>>, all)
BY DEF Built

\* as_seek_region finds the region an address is in, as there is but one.
LEMMA CoveredBy ==
    ASSUME NEW rs \in Seq(Region), AllApart(rs), NEW v \in Addr, NEW n \in Nat,
           NEW m \in {"rw", "rx"}, v + n < Word, Has(rs, NewRegion(v, n, m)),
           NEW a \in v .. v + n - 1
    PROVE  Covered(rs, a, m)
<1>1. PICK k \in DOMAIN rs : rs[k] = NewRegion(v, n, m)
    BY DEF Has
<1>2. Word \in Nat /\ v \in Nat /\ a \in Nat /\ v <= a /\ a <= v + n /\ a \in Addr
    BY WordAssumption DEF Addr
<1>3. NewRegion(v, n, m).vtop = v + n
    BY Wrapped
<1>4. In(rs[k], a) /\ rs[k].accmode = m
    BY <1>1, <1>2, <1>3 DEF In, NewRegion
<1>5. as_seek_region(rs, a) \in DOMAIN rs /\ In(rs[as_seek_region(rs, a)], a)
    BY <1>2, <1>4, SeekFacts
<1>6. as_seek_region(rs, a) = k
    BY <1>2, <1>4, <1>5 DEF AllApart, Apart
<1>7. k # 0
    OBVIOUS
<1> QED
    BY <1>4, <1>6, <1>7 DEF Covered

LEMMA CoveredAll ==
    ASSUME IInv, CInv
    PROVE  RunningCovered
<1> SUFFICES ASSUME NEW p \in Proc, state[p] = "RUNNING"
             PROVE  /\ \A i \in DOMAIN segs[p] :
                         \A a \in segs[p][i].vaddr .. segs[p][i].vaddr + segs[p][i].size - 1 :
                           Covered(as[p], a, segs[p][i].accmode)
                    /\ \A r \in {Stack, Heap, SharedBuf, Ipc} :
                         \A a \in r.vbase .. r.vbase + r.size - 1 : Covered(as[p], a, "rw")
    BY Zenon DEF RunningCovered
<1>1. /\ as[p] \in Seq(Region) /\ AllApart(as[p]) /\ segs[p] \in Seq(Segment)
      /\ Complete(as[p], segs[p])
    BY Zenon DEF IInv, RegionsApart, TypeOK, CInv
<1>2. ASSUME NEW i \in DOMAIN segs[p],
             NEW a \in segs[p][i].vaddr .. segs[p][i].vaddr + segs[p][i].size - 1
      PROVE  Covered(as[p], a, segs[p][i].accmode)
    <2>1. PICK v \in Addr, n \in Nat, m \in {"rw", "rx"} :
             v = segs[p][i].vaddr /\ n = segs[p][i].size /\ m = segs[p][i].accmode
        <3>1. segs[p][i] \in Segment
            BY <1>1
        <3> QED
            BY <3>1 DEF Segment
    <2>2. v + n < Word /\ Has(as[p], NewRegion(v, n, m)) /\ a \in v .. v + n - 1
        BY <1>1, <2>1, Zenon DEF Complete, SegRegion
    <2>3. Covered(as[p], a, m)
        BY <1>1, <2>2, CoveredBy, Zenon
    <2> QED
        BY <2>1, <2>3
<1>3. ASSUME NEW r \in {Stack, Heap, SharedBuf, Ipc}, NEW a \in r.vbase .. r.vbase + r.size - 1
      PROVE  Covered(as[p], a, "rw")
    <2>1. PICK v \in Addr, n \in Nat : v = r.vbase /\ n = r.size /\ v + n < Word
        BY FixedRegions
    <2>2. Has(as[p], NewRegion(v, n, "rw")) /\ a \in v .. v + n - 1
        BY <1>1, <2>1, Zenon DEF Complete, FixedRegion
    <2> QED
        BY <1>1, <2>1, <2>2, CoveredBy, Zenon
<1> QED
    BY <1>2, <1>3, Zenon

\* A definition that succeeds adds its region.
LEMMA DefineHas ==
    ASSUME NEW s \in Seq(Region), NEW v \in Addr, NEW n \in Nat, NEW m \in {"rw", "rx"},
           NEW d, d = as_define_region(s, v, n, m), Len(d) # Len(s)
    PROVE  /\ d \in Seq(Region) /\ Len(d) = Len(s) + 1 /\ Has(d, NewRegion(v, n, m))
           /\ \A r : Has(s, r) => Has(d, r)
           /\ \A k \in DOMAIN d : d[k] = NewRegion(v, n, m) \/ Has(s, d[k])
<1>1. Definable(s, v, n)
    BY DefineFacts
<1>2. /\ d \in Seq(Region) /\ Len(d) = Len(s) + 1 /\ d[1] = NewRegion(v, n, m)
      /\ \A i \in DOMAIN s : d[i + 1] = s[i]
    BY <1>1, DefineFacts
<1>3. PICK l \in Nat : l = Len(s) /\ DOMAIN s = 1 .. l /\ DOMAIN d = 1 .. l + 1
    BY <1>2
<1>4. Has(d, NewRegion(v, n, m))
    <2>1. 1 \in 1 .. l + 1
        OBVIOUS
    <2> QED
        BY <1>2, <1>3, <2>1 DEF Has
<1>5. ASSUME NEW r, Has(s, r)
      PROVE  Has(d, r)
    <2>1. PICK k \in DOMAIN s : s[k] = r
        BY <1>5 DEF Has
    <2>2. k \in 1 .. l
        BY <1>3
    <2>3. k + 1 \in 1 .. l + 1
        BY <2>2
    <2>4. k + 1 \in DOMAIN d /\ d[k + 1] = r
        BY <1>2, <1>3, <2>1, <2>3
    <2> QED
        BY <2>4 DEF Has
<1>6. ASSUME NEW k \in DOMAIN d, k # 1
      PROVE  Has(s, d[k])
    <2>0. k \in 1 .. l + 1
        BY <1>3
    <2>1. k - 1 \in 1 .. l /\ (k - 1) + 1 = k
        BY <1>6, <2>0
    <2>2. d[k] = s[k - 1]
        BY <1>2, <1>3, <2>1
    <2> QED
        BY <1>3, <2>1, <2>2 DEF Has
<1> QED
    BY <1>2, <1>4, <1>5, <1>6

LEMMA DefineAllHas ==
    ASSUME NEW rs \in Seq(Region), AllDefinable(rs)
    PROVE  /\ \A r : Has(rs, r) => Has(DefineAll(rs), r)
           /\ \A r \in {Stack, Heap, SharedBuf, Ipc} : Has(DefineAll(rs), FixedRegion(r))
<1>1. PICK s1, s2, s3 \in Seq(Region) :
             /\ s1 = as_define_region(rs, Stack.vbase, Stack.size, "rw")
             /\ s2 = as_define_region(s1, Heap.vbase, Heap.size, "rw")
             /\ s3 = as_define_region(s2, SharedBuf.vbase, SharedBuf.size, "rw")
             /\ DefineAll(rs) = as_define_region(s3, Ipc.vbase, Ipc.size, "rw")
    BY DefineAllSteps
<1>2. Len(s1) \in {Len(rs), Len(rs) + 1}
    BY <1>1, FixedRegions, DefineFacts, Zenon
<1>3. Len(s2) \in {Len(s1), Len(s1) + 1}
    BY <1>1, FixedRegions, DefineFacts, Zenon
<1>4. Len(s3) \in {Len(s2), Len(s2) + 1}
    BY <1>1, FixedRegions, DefineFacts, Zenon
<1>5. PICK s4 : s4 = DefineAll(rs) /\ Len(s4) \in {Len(s3), Len(s3) + 1}
    <2> DEFINE e == as_define_region(s3, Ipc.vbase, Ipc.size, "rw")
    <2>1. Len(e) \in {Len(s3), Len(s3) + 1}
        BY <1>1, FixedRegions, DefineFacts, Zenon
    <2>2. e = DefineAll(rs)
        BY <1>1, Zenon
    <2> QED
        BY <2>1, <2>2, Zenon
<1>6. /\ Len(s4) = Len(rs) + 4 /\ Len(rs) \in Nat
      /\ Len(s1) \in Nat /\ Len(s2) \in Nat /\ Len(s3) \in Nat
    BY <1>5 DEF AllDefinable
<1>7. Len(s1) # Len(rs) /\ Len(s2) # Len(s1) /\ Len(s3) # Len(s2) /\ Len(s4) # Len(s3)
    BY <1>2, <1>3, <1>4, <1>5, <1>6
<1>8. Has(s1, FixedRegion(Stack)) /\ \A r : Has(rs, r) => Has(s1, r)
    BY <1>1, <1>7, FixedRegions, DefineHas DEF FixedRegion
<1>9. Has(s2, FixedRegion(Heap)) /\ \A r : Has(s1, r) => Has(s2, r)
    BY <1>1, <1>7, FixedRegions, DefineHas DEF FixedRegion
<1>10. Has(s3, FixedRegion(SharedBuf)) /\ \A r : Has(s2, r) => Has(s3, r)
    BY <1>1, <1>7, FixedRegions, DefineHas DEF FixedRegion
<1>11. Has(s4, FixedRegion(Ipc)) /\ \A r : Has(s3, r) => Has(s4, r)
    BY <1>1, <1>5, <1>7, FixedRegions, DefineHas DEF FixedRegion
<1>12. \A r \in {Stack, Heap, SharedBuf, Ipc} : Has(s4, FixedRegion(r))
    BY <1>8, <1>9, <1>10, <1>11
<1> QED
    BY <1>5, <1>8, <1>9, <1>10, <1>11, <1>12


LEMMA InitCInv == Init => CInv
BY DEF Init, CInv, Held

\* Steps that leave the regions and segments of every process alone.
LEMMA SameCInv ==
    ASSUME IInv, CInv, UNCHANGED <<as, segs>>,
           \A q \in Proc : \/ /\ state'[q] = state[q]
                              /\ file'[q] = file[q] \/ state[q] = "NONE"
                           \/ state[q] = "NONE" /\ state'[q] = "LOADING"
                                /\ Linked(file'[q].segments),
           search' # NoSearch => Linked(file'[search'.proc].segments)
    PROVE  CInv'
<1> SUFFICES ASSUME NEW q \in Proc
             PROVE  /\ Held(q)' => Linked(file'[q].segments)
                    /\ state'[q] \in {"NONE", "LOADING"} => as'[q] = <<>> /\ segs'[q] = <<>>
                    /\ state'[q] = "BUILDING" => Built(as'[q], segs'[q], file'[q].segments)
                    /\ state'[q] = "RUNNING" => Complete(as'[q], segs'[q])
    BY Zenon DEF CInv
<1>1. state \in [Proc -> {"NONE", "LOADING", "BUILDING", "RUNNING"}]
    BY DEF IInv, RegionsApart, TypeOK
<1>2. CASE state'[q] = state[q] /\ file'[q] = file[q]
    BY <1>2, Zenon DEF CInv, Held, Built
<1>3. CASE state'[q] = state[q] /\ state[q] = "NONE"
    BY <1>3, Zenon DEF CInv, Held
<1>4. CASE state[q] = "NONE" /\ state'[q] = "LOADING" /\ Linked(file'[q].segments)
    BY <1>4, Zenon DEF CInv, Held
<1> QED
    BY <1>2, <1>3, <1>4, Zenon

LEMMA SearchCInv ==
    ASSUME IInv, CInv, WellLinked,
           \/ \E p \in Proc, prog \in Programs : elf_load_fs(p, prog)
           \/ sys_mmap_skip
           \/ sys_mmap_define
           \/ sys_mmap_fail
           \/ UNCHANGED vars
    PROVE  CInv'
<1>0. /\ file \in [Proc -> [base : Nat, length : Nat, segments : Seq(Segment)]]
      /\ state \in [Proc -> {"NONE", "LOADING", "BUILDING", "RUNNING"}]
    BY DEF IInv, RegionsApart, TypeOK
<1>1. ASSUME NEW p \in Proc, NEW prog \in Programs, elf_load_fs(p, prog)
      PROVE  CInv'
    <2>1. /\ state' = state /\ UNCHANGED <<as, segs>> /\ state[p] = "NONE"
          /\ search' = [proc |-> p, addr |-> MMAP_BOT, length |-> MallocLen(prog.size) + Page]
          /\ file' = [file EXCEPT ![p] = [base |-> 0, length |-> MallocLen(prog.size),
                                          segments |-> prog.segments]]
        BY <1>1 DEF elf_load_fs
    <2>2. search'.proc = p /\ file'[p].segments = prog.segments /\ \A q \in Proc : q # p => file'[q] = file[q]
        BY <1>0, <2>1
    <2>3. Linked(file'[search'.proc].segments)
        BY <2>2 DEF WellLinked
    <2> QED
        BY <2>1, <2>2, <2>3, SameCInv
<1>2. ASSUME sys_mmap_skip
      PROVE  CInv'
    <2>1. UNCHANGED <<as, segs, state, file>> /\ search # NoSearch
        BY <1>2 DEF sys_mmap_skip
    <2>2. search'.proc = search.proc
        <3>1. search \in [proc : Proc, addr : Nat, length : Nat]
            BY <2>1 DEF IInv, RegionsApart, TypeOK
        <3> QED
            BY <1>2, <3>1 DEF sys_mmap_skip
    <2>3. Linked(file'[search'.proc].segments)
        BY <2>1, <2>2 DEF CInv
    <2> QED
        BY <2>1, <2>3, SameCInv
<1>3. ASSUME sys_mmap_define
      PROVE  CInv'
    <2>1. UNCHANGED <<as, segs>> /\ search # NoSearch
        BY <1>3 DEF sys_mmap_define
    <2>2. Linked(file[search.proc].segments) /\ search.proc \in Proc /\ state[search.proc] = "NONE"
        BY <2>1 DEF CInv, IInv, Searching
    <2>3. CASE UNCHANGED <<search, file, state>>
        BY <2>1, <2>2, <2>3, SameCInv
    <2>4. CASE /\ file' = [file EXCEPT ![search.proc].base = search.addr]
               /\ state' = [state EXCEPT ![search.proc] = "LOADING"]
               /\ search' = NoSearch
        <3>1. /\ file'[search.proc].segments = file[search.proc].segments
              /\ state'[search.proc] = "LOADING"
              /\ \A q \in Proc : q # search.proc => file'[q] = file[q] /\ state'[q] = state[q]
            BY <1>0, <2>2, <2>4
        <3> QED
            BY <2>1, <2>2, <2>4, <3>1, SameCInv
    <2> QED
        BY <1>3, <2>3, <2>4 DEF sys_mmap_define, Mapped
<1>4. ASSUME sys_mmap_fail \/ UNCHANGED vars
      PROVE  CInv'
    <2>1. UNCHANGED <<as, segs, state, file, search>>
        BY <1>4, Zenon DEF sys_mmap_fail, vars
    <2>2. search' # NoSearch => Linked(file'[search'.proc].segments)
        BY <2>1 DEF CInv
    <2> QED
        BY <2>1, <2>2, SameCInv
<1> QED
    BY <1>1, <1>2, <1>3, <1>4

\* Steps of one process.
LEMMA OneCInv ==
    ASSUME IInv, CInv, NEW p \in Proc, search' = search, search = NoSearch,
           \A q \in Proc : q # p =>
             as'[q] = as[q] /\ segs'[q] = segs[q] /\ file'[q] = file[q] /\ state'[q] = state[q],
           Held(p)' => Linked(file'[p].segments),
           state'[p] \in {"NONE", "LOADING"} => as'[p] = <<>> /\ segs'[p] = <<>>,
           state'[p] = "BUILDING" => Built(as'[p], segs'[p], file'[p].segments),
           state'[p] = "RUNNING" => Complete(as'[p], segs'[p])
    PROVE  CInv'
<1> SUFFICES ASSUME NEW q \in Proc, q # p
             PROVE  /\ Held(q)' => Linked(file'[q].segments)
                    /\ state'[q] \in {"NONE", "LOADING"} => as'[q] = <<>> /\ segs'[q] = <<>>
                    /\ state'[q] = "BUILDING" => Built(as'[q], segs'[q], file'[q].segments)
                    /\ state'[q] = "RUNNING" => Complete(as'[q], segs'[q])
    BY DEF CInv
<1>1. as'[q] = as[q] /\ segs'[q] = segs[q] /\ file'[q] = file[q] /\ state'[q] = state[q]
    BY Zenon
<1>2. Held(q)' <=> Held(q)
    BY <1>1, Zenon DEF Held
<1> QED
    BY <1>1, <1>2, Zenon DEF CInv

LEMMA ProcessCInv ==
    ASSUME IInv, CInv, NEW p \in Proc, elf_load(p) \/ load_fails(p) \/ as_destroy(p)
    PROVE  CInv'
<1>0. /\ file \in [Proc -> [base : Nat, length : Nat, segments : Seq(Segment)]]
      /\ state \in [Proc -> {"NONE", "LOADING", "BUILDING", "RUNNING"}]
      /\ as \in [Proc -> Seq(Region)] /\ segs \in [Proc -> Seq(Segment)]
    BY Zenon DEF IInv, RegionsApart, TypeOK
<1>1. search = NoSearch /\ search' = search
    BY Zenon DEF elf_load, load_fails, as_destroy, Free, IInv, Loading
<1>2. \A q \in Proc : q # p =>
         as'[q] = as[q] /\ segs'[q] = segs[q] /\ file'[q] = file[q] /\ state'[q] = state[q]
    BY <1>0, Zenon DEF elf_load, load_fails, as_destroy
<1>3. CASE elf_load(p)
    <2>1. /\ state[p] = "LOADING" /\ state'[p] = "BUILDING" /\ file' = file /\ as' = as /\ segs' = segs
        BY <1>0, <1>3 DEF elf_load
    <2>2. as'[p] = <<>> /\ segs'[p] = <<>> /\ Linked(file'[p].segments)
        BY <2>1, Zenon DEF CInv, Held
    <2>3. Len(file'[p].segments) \in Nat
        BY <1>0, <2>1
    <2>4. Built(as'[p], segs'[p], file'[p].segments)
        BY <2>2, <2>3, EmptyBuilt, Zenon
    <2> QED
        BY <1>1, <1>2, <2>1, <2>2, <2>4, OneCInv, Zenon
<1>4. CASE load_fails(p) \/ as_destroy(p)
    <2>1. state'[p] = "NONE" /\ as'[p] = <<>> /\ segs'[p] = <<>>
        BY <1>0, <1>4, Zenon DEF load_fails, as_destroy
    <2>2. ~Held(p)'
        BY <2>1 DEF Held
    <2> QED
        BY <1>1, <1>2, <2>1, <2>2, OneCInv, Zenon
<1> QED
    BY <1>3, <1>4

LEMMA LoadSegmentCInv ==
    ASSUME IInv, CInv, NEW p \in Proc, load_segment(p)
    PROVE  CInv'
<1>0. /\ file[p].segments \in Seq(Segment)
      /\ state \in [Proc -> {"NONE", "LOADING", "BUILDING", "RUNNING"}]
      /\ as \in [Proc -> Seq(Region)] /\ segs \in [Proc -> Seq(Segment)]
    BY Zenon DEF IInv, RegionsApart, TypeOK
<1>1. search = NoSearch /\ search' = search /\ file' = file /\ state' = state /\ state[p] = "BUILDING"
    BY DEF load_segment, IInv, Loading
<1> DEFINE n == Len(segs[p])
           s == file[p].segments[n + 1]
           d == as_define_region(as[p], s.vaddr, s.size, s.accmode)
<1>2. /\ n \in Nat /\ n < Len(file[p].segments)
      /\ segs' = [segs EXCEPT ![p] = Append(segs[p], s)]
      /\ as' = [as EXCEPT ![p] = d]
    <2>1. Len(segs[p]) \in Nat
        BY <1>0
    <2> QED
        BY <2>1 DEF load_segment
<1>3. n + 1 \in DOMAIN file[p].segments /\ s \in Segment
    BY <1>0, <1>2
<1>4. s.vaddr \in Addr /\ s.size \in Nat /\ s.accmode \in {"rw", "rx"}
    BY <1>3 DEF Segment
<1>5. Built(as[p], segs[p], file[p].segments) /\ Linked(file[p].segments)
    BY <1>1, Zenon DEF CInv, Held
<1>6. \A i \in DOMAIN segs[p] : i \in 1 .. n /\ i # n + 1 /\ i \in DOMAIN file[p].segments
    BY <1>0, <1>2
<1>7. Definable(as[p], s.vaddr, s.size)
    <2>1. \A i \in DOMAIN segs[p] : ~Overlaps(SegRegion(s), SegRegion(segs[p][i]))
        BY <1>2, <1>3, <1>5, <1>6, Zenon DEF Built, Linked
    <2>2. \A k \in DOMAIN as[p] : ~Overlaps(SegRegion(s), as[p][k])
        BY <1>5, <2>1, Zenon DEF Built
    <2>3. PICK r, t : r = SegRegion(s) /\ t = NewRegion(s.vaddr, s.size, "rw")
        OBVIOUS
    <2>4. r.vbase = t.vbase /\ r.vtop = t.vtop
        BY <2>3 DEF SegRegion, NewRegion
    <2>5. \A k \in DOMAIN as[p] : ~Overlaps(t, as[p][k])
        BY <2>2, <2>3, <2>4, Zenon DEF Overlaps, In
    <2> QED
        BY <2>3, <2>5, Zenon DEF Definable, valid_new_region
<1>8. /\ d \in Seq(Region) /\ Has(d, SegRegion(s))
      /\ \A r : Has(as[p], r) => Has(d, r)
      /\ \A k \in DOMAIN d : d[k] = SegRegion(s) \/ Has(as[p], d[k])
    <2>1. PICK rs \in Seq(Region), v \in Addr, l \in Nat, m \in {"rw", "rx"} :
             rs = as[p] /\ v = s.vaddr /\ l = s.size /\ m = s.accmode
        BY <1>0, <1>4, Zenon
    <2>2. d = as_define_region(rs, v, l, m) /\ Definable(rs, v, l)
        BY <1>7, <2>1, Zenon
    <2> HIDE DEF d
    <2>3. Len(d) = Len(rs) + 1
        BY <2>2, DefineFacts
    <2>4. Len(d) # Len(rs)
        <3>1. Len(rs) \in Nat
            OBVIOUS
        <3> QED
            BY <2>3, <3>1
    <2>5. /\ d \in Seq(Region) /\ Has(d, NewRegion(v, l, m))
          /\ \A r : Has(rs, r) => Has(d, r)
          /\ \A k \in DOMAIN d : d[k] = NewRegion(v, l, m) \/ Has(rs, d[k])
        BY <2>2, <2>4, DefineHas
    <2> QED
        BY <2>1, <2>5, Zenon DEF SegRegion
<1> HIDE DEF d
<1>9. PICK ss \in Seq(Segment) :
         /\ ss = Append(segs[p], s) /\ Len(ss) = n + 1 /\ DOMAIN ss = 1 .. n + 1
         /\ ss[n + 1] = s /\ \A i \in 1 .. n : ss[i] = segs[p][i]
         /\ DOMAIN segs[p] = 1 .. n
    <2>1. PICK t \in Seq(Segment) : t = segs[p] /\ Len(t) = n
        BY <1>0, <1>2
    <2>2. /\ Append(t, s) \in Seq(Segment) /\ Len(Append(t, s)) = n + 1
          /\ DOMAIN Append(t, s) = 1 .. n + 1 /\ Append(t, s)[n + 1] = s
          /\ \A i \in 1 .. n : Append(t, s)[i] = t[i]
          /\ DOMAIN t = 1 .. n
        BY <1>3, <2>1
    <2> QED
        BY <2>1, <2>2, Zenon
<1>10. as'[p] = d /\ segs'[p] = ss
    BY <1>0, <1>2, <1>9
<1>11. \A i \in 1 .. n + 1 : i \in 1 .. n \/ i = n + 1
    OBVIOUS
<1>12. Built(as'[p], segs'[p], file'[p].segments)
    <2>1. n + 1 <= Len(file[p].segments)
        BY <1>0, <1>2
    <2>2. \A i \in DOMAIN ss : ss[i] = file[p].segments[i]
        BY <1>2, <1>5, <1>9, <1>11, Zenon DEF Built
    <2>3. \A i \in DOMAIN ss : Has(d, SegRegion(ss[i]))
        BY <1>5, <1>8, <1>9, <1>11, Zenon DEF Built
    <2>4. ASSUME NEW k \in DOMAIN d
          PROVE  \E i \in DOMAIN ss : d[k] = SegRegion(ss[i])
        <3>1. CASE d[k] = SegRegion(s)
            <4>1. n + 1 \in DOMAIN ss
                BY <1>9
            <4> QED
                BY <1>9, <3>1, <4>1
        <3>2. CASE Has(as[p], d[k])
            <4>1. PICK i \in DOMAIN segs[p] : d[k] = SegRegion(segs[p][i])
                BY <1>5, <3>2, Zenon DEF Built, Has
            <4>2. i \in DOMAIN ss
                BY <1>9
            <4> QED
                BY <1>9, <4>1, <4>2
        <3> QED
            BY <1>8, <3>1, <3>2, Zenon
    <2> QED
        BY <1>1, <1>9, <1>10, <2>1, <2>2, <2>3, <2>4, ZenonT(30) DEF Built
<1>13. \A q \in Proc : q # p =>
         as'[q] = as[q] /\ segs'[q] = segs[q] /\ file'[q] = file[q] /\ state'[q] = state[q]
    BY <1>0, <1>1, <1>2
<1> QED
    BY <1>1, <1>5, <1>12, <1>13, OneCInv, Zenon

LEMMA ProcStartCInv ==
    ASSUME IInv, CInv, NEW p \in Proc, proc_start(p)
    PROVE  CInv'
<1>0. /\ file \in [Proc -> [base : Nat, length : Nat, segments : Seq(Segment)]]
      /\ state \in [Proc -> {"NONE", "LOADING", "BUILDING", "RUNNING"}]
      /\ as \in [Proc -> Seq(Region)] /\ segs \in [Proc -> Seq(Segment)]
    BY Zenon DEF IInv, RegionsApart, TypeOK
<1>1. search = NoSearch /\ search' = search /\ state[p] = "BUILDING"
    BY DEF proc_start, IInv, Loading
<1>2. CASE as_seek_region(ks, file[p].base) = 0
    <2>1. UNCHANGED <<file, as, segs, state>>
        BY <1>2 DEF proc_start
    <2> QED
        BY <1>1, <2>1, SameCInv
<1>3. CASE as_seek_region(ks, file[p].base) # 0
    <2>1. /\ file' = [file EXCEPT ![p] = NoFile]
          /\ state' = [state EXCEPT ![p] = IF AllDefinable(as[p]) THEN "RUNNING" ELSE "NONE"]
          /\ as' = [as EXCEPT ![p] = IF AllDefinable(as[p]) THEN DefineAll(as[p]) ELSE <<>>]
          /\ segs' = [segs EXCEPT ![p] = IF AllDefinable(as[p]) THEN segs[p] ELSE <<>>]
        BY <1>3, Zenon DEF proc_start
    <2>2. \A q \in Proc : q # p =>
             as'[q] = as[q] /\ segs'[q] = segs[q] /\ file'[q] = file[q] /\ state'[q] = state[q]
        BY <1>0, <2>1
    <2>3. CASE AllDefinable(as[p])
        <3>1. state'[p] = "RUNNING" /\ as'[p] = DefineAll(as[p]) /\ segs'[p] = segs[p]
            BY <1>0, <2>1, <2>3
        <3>2. Built(as[p], segs[p], file[p].segments) /\ Linked(file[p].segments)
            BY <1>1, Zenon DEF CInv, Held
        <3>3. /\ \A r : Has(as[p], r) => Has(DefineAll(as[p]), r)
              /\ \A r \in {Stack, Heap, SharedBuf, Ipc} : Has(DefineAll(as[p]), FixedRegion(r))
            BY <1>0, <2>3, DefineAllHas, Zenon
        <3>4. \A i \in DOMAIN segs[p] : i \in DOMAIN file[p].segments /\ segs[p][i] = file[p].segments[i]
            <4>1. PICK ss \in Seq(Segment), all \in Seq(Segment) : ss = segs[p] /\ all = file[p].segments
                BY <1>0
            <4>2. Len(ss) <= Len(all) /\ \A i \in DOMAIN ss : ss[i] = all[i]
                BY <3>2, <4>1, Zenon DEF Built
            <4>3. \A i \in DOMAIN ss : i \in DOMAIN all
                BY <4>2
            <4> QED
                BY <4>1, <4>2, <4>3
        <3>5. Complete(as'[p], segs'[p])
            BY <3>1, <3>2, <3>3, <3>4, Zenon DEF Complete, Built, Linked
        <3>6. ~Held(p)'
            BY <3>1 DEF Held
        <3> QED
            BY <1>1, <2>2, <3>1, <3>5, <3>6, OneCInv, Zenon
    <2>4. CASE ~AllDefinable(as[p])
        <3>1. state'[p] = "NONE" /\ as'[p] = <<>> /\ segs'[p] = <<>>
            BY <1>0, <2>1, <2>4
        <3>2. ~Held(p)'
            BY <3>1 DEF Held
        <3> QED
            BY <1>1, <2>2, <3>1, <3>2, OneCInv, Zenon
    <2> QED
        BY <2>3, <2>4, Zenon
<1> QED
    BY <1>2, <1>3

LEMMA NextCInv == WellLinked /\ IInv /\ CInv /\ [Next]_vars => CInv'
BY SearchCInv, ProcessCInv, LoadSegmentCInv, ProcStartCInv DEF Next

\* RunningCovered holds in every reachable state when the segments of each program
\* are WellLinked: the region that vm_fault finds for an address of a segment, the
\* stack, the heap or one of the buffers is the right one, whatever the order of
\* the segments, because load_segment defines a region for each and proc_start
\* gives up a process that it cannot define one of the others for.
THEOREM AlwaysCovered == ASSUME WellLinked PROVE Spec => []RunningCovered
<1>1. Spec => [](IInv /\ CInv)
    <2>1. IInv /\ CInv /\ [Next]_vars => (IInv /\ CInv)'
        BY NextIInv, NextCInv
    <2> QED
        BY InitIInv, InitCInv, <2>1, PTL DEF Spec
<1>2. IInv /\ CInv => RunningCovered
    BY CoveredAll
<1> QED
    BY <1>1, <1>2, PTL

=============================================================================
