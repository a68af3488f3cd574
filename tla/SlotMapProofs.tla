--------------------------- MODULE SlotMapProofs ---------------------------
(***************************************************************************)
(* Theorems about the way from a slot number to an LED, for any list of    *)
(* type descriptors, any firmware and any read of its pages.               *)
(***************************************************************************)
EXTENDS SlotMap, FiniteSetTheorems, SequenceTheorems, TLAPS

-----------------------------------------------------------------------------
(***************************************************************************)
(* Induction over data, from the cardinality of finite sets: a set of      *)
(* numbers that has 0 and the successors of its members has them all.      *)
(***************************************************************************)

LEMMA LastReached ==
  ASSUME NEW n \in Nat, NEW H \in SUBSET (0..n), 0 \in H,
         \A k \in 0..(n - 1) : k \in H => k + 1 \in H
  PROVE  n \in H
<1> SUFFICES ASSUME n \notin H PROVE FALSE
  OBVIOUS
<1> DEFINE next == [k \in H |-> k + 1]
<1>1. IsFiniteSet(H) /\ IsFiniteSet(H \ {0})
  <2>1. IsFiniteSet(0..n)
    BY FS_Interval
  <2> QED BY <2>1, FS_Subset
<1>2. next \in [H -> H \ {0}]
  OBVIOUS
<1>3. \A i, k \in H : next[i] = next[k] => i = k
  OBVIOUS
<1>4. next \in Injection(H, H \ {0})
  <2> HIDE DEF next
  <2> QED BY <1>2, <1>3 DEF Injection, IsInjective
<1>5. Cardinality(H) <= Cardinality(H \ {0})
  BY <1>1, <1>4, FS_Injection
<1>6. Cardinality(H \ {0}) = Cardinality(H) - 1 /\ Cardinality(H) \in Nat
  BY <1>1, FS_RemoveElement, FS_CardinalityType
<1> QED BY <1>5, <1>6

\* A set of numbers that has 0 and the successors of its members has them all.
LEMMA AllReached ==
  ASSUME NEW n \in Nat, NEW H \in SUBSET (0..n), 0 \in H,
         \A k \in 0..(n - 1) : k \in H => k + 1 \in H
  PROVE  H = 0..n
<1> SUFFICES ASSUME NEW m \in 0..n PROVE m \in H
  OBVIOUS
<1> DEFINE G == H \cap (0..m)
<1>1. G \in SUBSET (0..m) /\ 0 \in G /\ m \in Nat
  OBVIOUS
<1>2. \A k \in 0..(m - 1) : k \in G => k + 1 \in G
  OBVIOUS
<1>3. m \in G
  <2> HIDE DEF G
  <2> QED BY <1>1, <1>2, LastReached
<1> QED BY <1>3

\* A value that is computed step by step is there at every step.
Computes(f, n, start, step) == f[0] = start /\ \A k \in 1..n : f[k] = step[k][f[k - 1]]

LEMMA StepByStep ==
  ASSUME NEW n \in Nat, NEW S, NEW start \in S, NEW step \in [1..n -> [S -> S]]
  PROVE  \E f \in [0..n -> S] : Computes(f, n, start, step)
<1> DEFINE Until(m, f) == Computes(f, m, start, step)
           H == {m \in 0..n : \E f \in [0..m -> S] : Until(m, f)}
<1>1. 0 \in H
  <2> DEFINE g == [k \in 0..0 |-> start]
  <2>1. g \in [0..0 -> S]
    OBVIOUS
  <2>2. Until(0, g)
    <3>1. g[0] = start /\ 1..0 = {}
      OBVIOUS
    <3> QED BY <3>1 DEF Computes
  <2> HIDE DEF g, Until
  <2>3. 0 \in 0..n
    OBVIOUS
  <2> QED BY <2>1, <2>2, <2>3
<1>2. ASSUME NEW m \in 0..(n - 1), m \in H
      PROVE  m + 1 \in H
  <2>1. PICK f \in [0..m -> S] : Until(m, f)
    BY <1>2
  <2> DEFINE g == [k \in 0..(m + 1) |-> IF k = m + 1 THEN step[m + 1][f[m]] ELSE f[k]]
  <2>2. step[m + 1] \in [S -> S] /\ f[m] \in S
    OBVIOUS
  <2>3. g \in [0..(m + 1) -> S]
    BY <2>2
  <2>4. Until(m + 1, g)
    <3>1. g[0] = start
      BY <2>1 DEF Computes
    <3>2. ASSUME NEW k \in 1..(m + 1) PROVE g[k] = step[k][g[k - 1]]
      <4>1. CASE k = m + 1
        BY <4>1
      <4>2. CASE k # m + 1
        <5>1. k \in 1..m /\ k - 1 \in 0..m
          BY <4>2
        <5> QED BY <2>1, <5>1 DEF Computes
      <4> QED BY <4>1, <4>2
    <3> HIDE DEF g
    <3> QED BY <3>1, <3>2 DEF Computes
  <2>5. m + 1 \in 0..n
    OBVIOUS
  <2> HIDE DEF g, Until
  <2> QED BY <2>3, <2>4, <2>5
<1> HIDE DEF H
<1>3. n \in H
  <2>1. H \in SUBSET (0..n)
    BY DEF H
  <2> QED BY <1>1, <1>2, <2>1, LastReached
<1> QED BY <1>3 DEF H

\* The least of some numbers.
LEMMA MinIs ==
  ASSUME NEW S \in SUBSET Nat, S # {}
  PROVE  Min(S) \in S /\ \A k \in S : Min(S) <= k
<1> SUFFICES ASSUME \A k \in S : \E i \in S : ~(k <= i) PROVE FALSE
  BY DEF Min
<1>1. PICK n \in S : TRUE
  OBVIOUS
<1> DEFINE H == {k \in 0..n : \A i \in S : k <= i}
<1>2. 0 \in H
  OBVIOUS
<1>3. ASSUME NEW k \in 0..(n - 1), k \in H
      PROVE  k + 1 \in H
  <2>1. k \notin S
    BY <1>3
  <2>2. \A i \in S : k <= i /\ k # i
    BY <1>3, <2>1
  <2> QED BY <2>2
<1>4. n \in H
  <2>1. H \in SUBSET (0..n) /\ n \in Nat
    OBVIOUS
  <2> HIDE DEF H
  <2> QED BY <1>2, <1>3, <2>1, LastReached
<1> QED BY <1>4

\* What a concatenation is, piece by piece: whatever relates 0 to the empty one and goes from
\* k - 1 to k with the k-th piece.
LEMMA FlattenGrows ==
  ASSUME NEW S, NEW seqs \in Seq(Seq(S)), NEW R, <<0, <<>>>> \in R,
         \A k \in 1..Len(seqs) : \A w \in Seq(S) :
           <<k - 1, w>> \in R => <<k, w \o seqs[k]>> \in R
  PROVE  <<Len(seqs), FlattenSeq(seqs)>> \in R
<1> DEFINE W == Seq(S)
           n == Len(seqs)
<1>0. \A v, w \in W : v \o w \in W
  BY ConcatProperties
<1> HIDE DEF W
<1>1. CASE n = 0
  <2>1. seqs = <<>>
    BY <1>1
  <2> QED BY <1>1, <2>1 DEF FlattenSeq
<1>2. CASE n > 0
  <2> DEFINE Is(f) == f = [i \in 1..n |-> IF i = 1 THEN seqs[i] ELSE f[i - 1] \o seqs[i]]
             F == CHOOSE f : Is(f)
  <2>1. n \in Nat \ {0} /\ \A i \in 1..n : seqs[i] \in W
    BY <1>2 DEF W
  <2>2. FlattenSeq(seqs) = F[n]
    BY <1>2 DEF FlattenSeq
  <2>3. \E f : Is(f)
    <3> DEFINE step == [k \in 1..(n - 1) |-> [w \in W |-> w \o seqs[k + 1]]]
    <3>1. step \in [1..(n - 1) -> [W -> W]] /\ seqs[1] \in W /\ n - 1 \in Nat
      BY <1>0, <2>1
    <3>2. PICK h \in [0..(n - 1) -> W] :
            h[0] = seqs[1] /\ \A k \in 1..(n - 1) : h[k] = step[k][h[k - 1]]
      <4>1. ASSUME NEW m \in Nat, NEW st \in [1..m -> [W -> W]], NEW first \in W
            PROVE  \E h \in [0..m -> W] : Computes(h, m, first, st)
        BY StepByStep
      <4>2. PICK h \in [0..(n - 1) -> W] : Computes(h, n - 1, seqs[1], step)
        <5> HIDE DEF n, step
        <5> QED BY <3>1, <4>1
      <4> QED BY <4>2 DEF Computes
    <3> DEFINE f == [i \in 1..n |-> h[i - 1]]
    <3>3. ASSUME NEW i \in 1..n
          PROVE  h[i - 1] = IF i = 1 THEN seqs[i] ELSE f[i - 1] \o seqs[i]
      <4>1. CASE i = 1
        BY <3>2, <4>1
      <4>2. CASE i # 1
        <5>1. i - 1 \in 1..(n - 1) /\ i - 1 \in 1..n /\ (i - 1) - 1 \in 0..(n - 1)
              /\ (i - 1) + 1 = i
          BY <2>1, <4>2
        <5>2. h[i - 1] = step[i - 1][h[(i - 1) - 1]] /\ h[(i - 1) - 1] \in W
          BY <3>2, <5>1
        <5>3. step[i - 1][h[(i - 1) - 1]] = h[(i - 1) - 1] \o seqs[i]
          BY <5>1, <5>2
        <5>4. f[i - 1] = h[(i - 1) - 1]
          BY <5>1
        <5> QED BY <4>2, <5>2, <5>3, <5>4
      <4> QED BY <4>1, <4>2
    <3>4. Is(f)
      BY <3>3
    <3> QED BY <3>4
  <2>4. Is(F)
    BY <2>3
  <2> DEFINE H == {k \in 0..(n - 1) : F[k + 1] \in W /\ <<k + 1, F[k + 1]>> \in R}
  <2> HIDE DEF F, n
  <2>5. 0 \in H
    <3>1. F[1] = seqs[1] /\ 0 \in 0..(n - 1) /\ 1 \in 1..n /\ F[1] \in W
      BY <2>1, <2>4
    <3>2. <<>> \in Seq(S) /\ <<>> \o F[1] = F[1]
      BY <3>1 DEF W
    <3>3. <<1, <<>> \o seqs[1]>> \in R
      <4>1. 1 - 1 = 0
        OBVIOUS
      <4> QED BY <3>1, <3>2, <4>1 DEF n
    <3>4. 0 + 1 = 1
      OBVIOUS
    <3> QED BY <3>1, <3>2, <3>3, <3>4
  <2>6. ASSUME NEW k \in 0..((n - 1) - 1), k \in H
        PROVE  k + 1 \in H
    <3>1. k + 1 \in 0..(n - 1) /\ (k + 1) + 1 \in 1..n /\ (k + 1) + 1 # 1
          /\ ((k + 1) + 1) - 1 = k + 1
      BY <2>1
    <3>2. F[(k + 1) + 1] = F[k + 1] \o seqs[(k + 1) + 1]
      BY <2>4, <3>1
    <3>3. <<(k + 1) + 1, F[k + 1] \o seqs[(k + 1) + 1]>> \in R
      BY <2>6, <3>1 DEF n, W
    <3> QED BY <1>0, <2>1, <2>6, <3>1, <3>2, <3>3
  <2>7. n - 1 \in H
    <3>1. H \in SUBSET (0..(n - 1)) /\ n - 1 \in Nat
      BY <2>1
    <3> HIDE DEF H
    <3> QED BY <2>5, <2>6, <3>1, LastReached
  <2>8. <<n, F[n]>> \in R
    <3>1. (n - 1) + 1 = n
      BY <2>1
    <3> QED BY <2>7, <3>1
  <2> QED BY <2>2, <2>8 DEF n
<1>3. Len(seqs) \in Nat
  OBVIOUS
<1> QED BY <1>1, <1>2, <1>3

\* What holds of the pieces and of the concatenation of any two holds of all of them.
LEMMA FlattenIs ==
  ASSUME NEW S, NEW W \in SUBSET Seq(S), <<>> \in W, \A v, w \in W : v \o w \in W,
         NEW seqs \in Seq(W)
  PROVE  FlattenSeq(seqs) \in W
<1> DEFINE R == {<<k, w>> : k \in 0..Len(seqs), w \in W}
<1>1. seqs \in Seq(Seq(S)) /\ Len(seqs) \in Nat /\ \A k \in 1..Len(seqs) : seqs[k] \in W
  OBVIOUS
<1>2. \A k \in 0..Len(seqs), w \in W : <<k, w>> \in R
  OBVIOUS
<1>3. ASSUME NEW k \in 1..Len(seqs), NEW w, <<k - 1, w>> \in R
      PROVE  <<k, w \o seqs[k]>> \in R
  <2>1. w \in W
    BY <1>3
  <2>2. w \o seqs[k] \in W /\ k \in 0..Len(seqs)
    BY <1>1, <2>1
  <2> HIDE DEF R
  <2> QED BY <1>2, <2>2
<1>4. ASSUME NEW w, <<Len(seqs), w>> \in R PROVE w \in W
  BY <1>4
<1> HIDE DEF R
<1>5. <<0, <<>>>> \in R
  BY <1>1, <1>2
<1>6. <<Len(seqs), FlattenSeq(seqs)>> \in R
  BY <1>1, <1>3, <1>5, FlattenGrows
<1> QED BY <1>4, <1>6

-----------------------------------------------------------------------------
(***************************************************************************)
(* The pages.                                                              *)
(***************************************************************************)

IsShelf(s) == \E c \in Shelves : s \in ShelvesOf(c)

Indexes(s) == {GlobalIndex(s, x) : x \in Elements(s.types)}

SesLines(s) ==
  [is : {"type"}, type : {s.types[t].type : t \in DOMAIN s.types}, ti : DOMAIN s.types]
  \cup [is : {"element"}, index : Indexes(s)]
  \cup [is : {"slot"}, slot : SlotNumbers]
  \cup [is : {"address"}, address : BaysOf(s.types)]
  \cup [is : {"bad type", "bad element"}]

\* A number stands under the element that says it, an address under the number of its bay.
Follows(s, line, after) ==
  /\ after.is = "slot" => line.is \in {"element", "bad element"}
  /\ after.is = "address" =>
       line.is = "slot" /\ SlotOf(s, after.address) = line.slot

\* A page whose lines follow each other, and begin with neither of these.
Pages(s) ==
  {page \in Seq(SesLines(s)) :
     \A k \in 1..Len(page) :
       /\ k = 1 => page[k].is \notin {"slot", "address"}
       /\ k > 1 => Follows(s, page[k - 1], page[k])}

\* A shelf, field by field.
LEMMA ShelfIs ==
  ASSUME NEW s, IsShelf(s)
  PROVE  /\ s.types \in Seq([type : {"array", "device", "electronics", "expander"},
                             count : Nat])
         /\ \A x \in BaysOf(s.types) : x \in Elements(s.types)
              /\ s.number[x] \in SlotNumbers \cup {Nothing}
         /\ s.types \in Shelves /\ s \in ShelvesOf(s.types)
<1>1. PICK c \in Shelves : s \in ShelvesOf(c)
  BY DEF IsShelf
<1>2. s.types = c /\ s.number \in [BaysOf(c) -> SlotNumbers \cup {Nothing}]
  BY <1>1 DEF ShelvesOf
<1> QED BY <1>1, <1>2, SlotMapAssumption DEF SlotMapAssumption, BaysOf

LEMMA TypesAre ==
  ASSUME NEW s, IsShelf(s), NEW t \in DOMAIN s.types
  PROVE  s.types[t].count \in Nat
<1> DEFINE D == [type : {"array", "device", "electronics", "expander"}, count : Nat]
<1>1. s.types \in Seq(D)
  BY ShelfIs
<1>2. \A d \in D : d.count \in Nat
  OBVIOUS
<1> HIDE DEF D
<1>3. s.types[t] \in D
  BY <1>1
<1> QED BY <1>2, <1>3

LEMMA ElementsAre ==
  ASSUME NEW c
  PROVE  \A t \in DOMAIN c : \A e \in 1..c[t].count : <<t, e>> \in Elements(c)
<1> SUFFICES ASSUME NEW t \in DOMAIN c, NEW e \in 1..c[t].count
             PROVE  <<t, e>> \in Elements(c)
  OBVIOUS
<1> DEFINE OfType(u) == {<<u, f>> : f \in 1..c[u].count}
<1>1. <<t, e>> \in OfType(t)
  OBVIOUS
<1>2. Elements(c) = UNION {OfType(u) : u \in DOMAIN c}
  BY DEF Elements
<1> HIDE DEF OfType
<1> QED BY <1>1, <1>2

LEMMA NothingIsNoSlot == Nothing \notin SlotNumbers
<1> QED BY SlotMapAssumption DEF SlotMapAssumption

\* The empty page is one, and so are two pages one after the other.
LEMMA PagesJoin ==
  ASSUME NEW s
  PROVE  /\ <<>> \in Pages(s)
         /\ \A v, w \in Pages(s) : v \o w \in Pages(s)
<1>1. <<>> \in Pages(s)
  BY DEF Pages
<1>2. ASSUME NEW v \in Pages(s), NEW w \in Pages(s)
      PROVE  v \o w \in Pages(s)
  <2>1. /\ v \in Seq(SesLines(s)) /\ w \in Seq(SesLines(s))
        /\ Len(v) \in Nat /\ Len(w) \in Nat
    BY DEF Pages
  <2>2. /\ v \o w \in Seq(SesLines(s)) /\ Len(v \o w) = Len(v) + Len(w)
        /\ \A k \in 1..(Len(v) + Len(w)) :
             (v \o w)[k] = IF k <= Len(v) THEN v[k] ELSE w[k - Len(v)]
    BY <2>1, ConcatProperties
  <2> DEFINE vw == v \o w
  <2> HIDE DEF vw
  <2>3. ASSUME NEW k \in 1..Len(vw)
        PROVE  /\ k = 1 => vw[k].is \notin {"slot", "address"}
               /\ k > 1 => Follows(s, vw[k - 1], vw[k])
    <3>1. k \in 1..(Len(v) + Len(w)) /\ (k > 1 => k - 1 \in 1..(Len(v) + Len(w)))
      BY <2>1, <2>2 DEF vw
    <3>2. CASE k <= Len(v)
      <4>1. vw[k] = v[k] /\ (k > 1 => vw[k - 1] = v[k - 1]) /\ k \in 1..Len(v)
        BY <2>1, <2>2, <3>1, <3>2 DEF vw
      <4> QED BY <4>1 DEF Pages
    <3>3. CASE k = Len(v) + 1
      <4>1. vw[k] = w[1] /\ 1 \in 1..Len(w)
        BY <2>1, <2>2, <3>1, <3>3 DEF vw
      <4>2. vw[k].is \notin {"slot", "address"}
        BY <4>1 DEF Pages
      <4> QED BY <4>2 DEF Follows
    <3>4. CASE k > Len(v) + 1
      <4>1. /\ vw[k] = w[k - Len(v)] /\ vw[k - 1] = w[(k - Len(v)) - 1]
            /\ k - Len(v) \in 1..Len(w) /\ k - Len(v) > 1
        <5>1. k - 1 > Len(v) /\ (k - 1) - Len(v) = (k - Len(v)) - 1
          BY <2>1, <3>1, <3>4
        <5> QED BY <2>1, <2>2, <3>1, <3>4, <5>1 DEF vw
      <4>2. k > 1 /\ k # 1
        BY <2>1, <3>4
      <4> QED BY <4>1, <4>2 DEF Pages
    <3> QED BY <2>1, <3>1, <3>2, <3>3, <3>4
  <2> QED BY <2>2, <2>3 DEF Pages, vw
<1> QED BY <1>1, <1>2

\* Tuples, one after the other.
LEMMA Tuples ==
  ASSUME NEW a, NEW b, NEW d
  PROVE  /\ <<a>> \o <<b>> = <<a, b>>
         /\ <<a>> \o <<b, d>> = <<a, b, d>>
<1>1. <<a>> \in Seq({a, b, d}) /\ <<b>> \in Seq({a, b, d}) /\ <<b, d>> \in Seq({a, b, d})
      /\ <<a, b>> \in Seq({a, b, d}) /\ <<a, b, d>> \in Seq({a, b, d})
  OBVIOUS
<1>2. <<a>> \o <<b>> = <<a, b>>
  <2>1. /\ <<a>> \o <<b>> \in Seq({a, b, d}) /\ Len(<<a>> \o <<b>>) = 2
        /\ (<<a>> \o <<b>>)[1] = a /\ (<<a>> \o <<b>>)[2] = b
    BY <1>1, ConcatProperties
  <2>2. \A k \in 1..2 : k = 1 \/ k = 2
    OBVIOUS
  <2> DEFINE joined == <<a>> \o <<b>>
             right == <<a, b>>
  <2>3. Len(right) = 2 /\ right[1] = a /\ right[2] = b
    OBVIOUS
  <2> HIDE DEF joined, right
  <2>4. joined \in Seq({a, b, d}) /\ right \in Seq({a, b, d}) /\ Len(joined) = 2
        /\ joined[1] = a /\ joined[2] = b
    BY <1>1, <2>1 DEF joined, right
  <2>5. joined = right
    BY <2>2, <2>3, <2>4, SeqEqual
  <2> QED BY <2>5 DEF joined, right
<1>3. <<a>> \o <<b, d>> = <<a, b, d>>
  <2>1. /\ <<a>> \o <<b, d>> \in Seq({a, b, d}) /\ Len(<<a>> \o <<b, d>>) = 3
        /\ (<<a>> \o <<b, d>>)[1] = a /\ (<<a>> \o <<b, d>>)[2] = b
        /\ (<<a>> \o <<b, d>>)[3] = d
    BY <1>1, ConcatProperties
  <2>2. \A k \in 1..3 : k = 1 \/ k = 2 \/ k = 3
    OBVIOUS
  <2> DEFINE joined == <<a>> \o <<b, d>>
             right == <<a, b, d>>
  <2>3. Len(right) = 3 /\ right[1] = a /\ right[2] = b /\ right[3] = d
    OBVIOUS
  <2> HIDE DEF joined, right
  <2>4. joined \in Seq({a, b, d}) /\ right \in Seq({a, b, d}) /\ Len(joined) = 3
        /\ joined[1] = a /\ joined[2] = b /\ joined[3] = d
    BY <1>1, <2>1 DEF joined, right
  <2>5. joined = right
    BY <2>2, <2>3, <2>4, SeqEqual
  <2> QED BY <2>5 DEF joined, right
<1> QED BY <1>2, <1>3

\* The lines of a descriptor are a page.
LEMMA DescriptorIsAPage ==
  ASSUME NEW s, IsShelf(s), NEW x \in Elements(s.types)
  PROVE  DescriptorLines(s, x) \in Pages(s)
<1> DEFINE header == [is |-> "element", index |-> GlobalIndex(s, x)]
           number == [is |-> "slot", slot |-> SlotOf(s, x)]
           drive  == [is |-> "address", address |-> Address(x)]
<1>1. header \in SesLines(s)
  <2>1. GlobalIndex(s, x) \in Indexes(s)
    BY DEF Indexes
  <2> HIDE DEF Indexes
  <2> QED BY <2>1 DEF SesLines
<1>2. SlotOf(s, x) # Nothing => number \in SesLines(s) /\ x \in BaysOf(s.types)
  <2>1. SlotOf(s, x) # Nothing => SlotOf(s, x) \in SlotNumbers /\ x \in BaysOf(s.types)
    BY ShelfIs DEF SlotOf
  <2> QED BY <2>1 DEF SesLines
<1>3. SlotOf(s, x) # Nothing /\ Address(x) # Nothing =>
        drive \in SesLines(s) /\ drive.address = x
  BY <1>2 DEF Address, SesLines
<1>4. header.is = "element" /\ number.is = "slot" /\ drive.is = "address"
      /\ number.slot = SlotOf(s, x)
  OBVIOUS
<1> HIDE DEF header, number, drive
<1>5. CASE SlotOf(s, x) = Nothing
  <2>1. DescriptorLines(s, x) = <<header>>
    <3>1. DescriptorLines(s, x) = <<header>> \o <<>>
      BY <1>5 DEF DescriptorLines, header
    <3> QED BY <3>1, ConcatEmptySeq
  <2> QED BY <1>1, <1>4, <2>1 DEF Pages
<1>6. CASE SlotOf(s, x) # Nothing /\ Address(x) = Nothing
  <2>1. DescriptorLines(s, x) = <<header, number>>
    <3>1. DescriptorLines(s, x) = <<header>> \o (<<number>> \o <<>>)
      BY <1>6 DEF DescriptorLines, header, number
    <3>2. <<number>> \o <<>> = <<number>>
      BY ConcatEmptySeq
    <3> QED BY <3>1, <3>2, Tuples
  <2>2. <<header, number>> \in Seq(SesLines(s)) /\ Len(<<header, number>>) = 2
    BY <1>1, <1>2, <1>6
  <2>3. Follows(s, header, number)
    BY <1>4 DEF Follows
  <2> QED BY <1>4, <2>1, <2>2, <2>3 DEF Pages
<1>7. CASE SlotOf(s, x) # Nothing /\ Address(x) # Nothing
  <2>1. DescriptorLines(s, x) = <<header, number, drive>>
    <3>1. DescriptorLines(s, x) = <<header>> \o (<<number>> \o <<drive>>)
      BY <1>7 DEF DescriptorLines, header, number, drive
    <3> QED BY <3>1, Tuples
  <2>2. /\ <<header, number, drive>> \in Seq(SesLines(s))
        /\ Len(<<header, number, drive>>) = 3
    BY <1>1, <1>2, <1>3, <1>7
  <2>3. Follows(s, header, number) /\ Follows(s, number, drive)
    BY <1>3, <1>4, <1>7 DEF Follows
  <2>4. \A k \in 1..3 : k = 1 \/ k = 2 \/ k = 3
    OBVIOUS
  <2> QED BY <1>4, <2>1, <2>2, <2>3, <2>4 DEF Pages
<1> QED BY <1>5, <1>6, <1>7

\* The firmware's list is of elements of the shelf.
LEMMA EmittedAreElements ==
  ASSUME NEW s, IsShelf(s)
  PROVE  Emitted(s) \in Seq(Elements(s.types))
<1> DEFINE X == Elements(s.types)
           Of(t) == FlattenSeq([e \in 1..s.types[t].count |->
                                  IF Sent(s, <<t, e>>) THEN <<<<t, e>>>> ELSE <<>>])
<1>1. <<>> \in Seq(X) /\ \A v, w \in Seq(X) : v \o w \in Seq(X)
  BY ConcatProperties
<1>2. \A seqs \in Seq(Seq(X)) : FlattenSeq(seqs) \in Seq(X)
  <2>1. Seq(X) \in SUBSET Seq(X)
    OBVIOUS
  <2> HIDE DEF X
  <2> QED BY <1>1, <2>1, FlattenIs
<1>3. ASSUME NEW t \in DOMAIN s.types
      PROVE  Of(t) \in Seq(X)
  <2>1. s.types[t].count \in Nat
    BY TypesAre
  <2>2. \A e \in 1..s.types[t].count : <<t, e>> \in X
    BY ElementsAre
  <2> DEFINE piece(e) == IF Sent(s, <<t, e>>) THEN <<<<t, e>>>> ELSE <<>>
  <2>3. \A e \in 1..s.types[t].count : piece(e) \in Seq(X)
    <3> HIDE DEF X
    <3> QED BY <2>2
  <2> HIDE DEF X, piece
  <2>4. [e \in 1..s.types[t].count |-> piece(e)] \in Seq(Seq(X))
    BY <2>1, <2>3
  <2> QED BY <1>2, <2>4 DEF piece
<1>4. [t \in DOMAIN s.types |-> Of(t)] \in Seq(Seq(X))
  <2>1. DOMAIN s.types = 1..Len(s.types) /\ Len(s.types) \in Nat
    BY ShelfIs
  <2> HIDE DEF Of, X
  <2> QED BY <1>3, <2>1
<1>5. FlattenSeq([t \in DOMAIN s.types |-> Of(t)]) \in Seq(X)
  <2> HIDE DEF Of, X
  <2> QED BY <1>2, <1>4
<1> QED BY <1>5 DEF Emitted

\* A block of the page: its header, and the descriptors that are printed under it.
LEMMA BlockIsAPage ==
  ASSUME NEW s, IsShelf(s), NEW t \in DOMAIN s.types,
         NEW page \in [left : Seq(Elements(s.types)), lines : Pages(s)]
  PROVE  Block(s, page, t) \in [left : Seq(Elements(s.types)), lines : Pages(s)]
<1> DEFINE n == Min({s.types[t].count, Len(page.left)})
           header == [is |-> "type", type |-> s.types[t].type, ti |-> t]
           under == [k \in 1..n |-> DescriptorLines(s, page.left[k])]
<1>1. s.types[t].count \in Nat /\ Len(page.left) \in Nat
  <2>1. s.types[t].count \in Nat
    BY TypesAre
  <2>2. page.left \in Seq(Elements(s.types))
    OBVIOUS
  <2>3. \A q \in Seq(Elements(s.types)) : Len(q) \in Nat
    OBVIOUS
  <2> QED BY <2>1, <2>2, <2>3
<1>2. n \in Nat /\ n <= Len(page.left)
  <2>1. /\ {s.types[t].count, Len(page.left)} \in SUBSET Nat
        /\ {s.types[t].count, Len(page.left)} # {}
    BY <1>1
  <2>2. /\ n \in {s.types[t].count, Len(page.left)}
        /\ \A k \in {s.types[t].count, Len(page.left)} : n <= k
    BY <2>1, MinIs
  <2> HIDE DEF n
  <2> QED BY <1>1, <2>2
<1> HIDE DEF n
<1>3. under \in Seq(Pages(s))
  <2>1. \A k \in 1..n : page.left[k] \in Elements(s.types)
    <3>1. \A q \in Seq(Elements(s.types)) : \A k \in 1..Len(q) : q[k] \in Elements(s.types)
      OBVIOUS
    <3>2. page.left \in Seq(Elements(s.types)) /\ \A k \in 1..n : k \in 1..Len(page.left)
      BY <1>1, <1>2
    <3> QED BY <3>1, <3>2
  <2>2. \A k \in 1..n : DescriptorLines(s, page.left[k]) \in Pages(s)
    BY <2>1, DescriptorIsAPage
  <2> QED BY <1>2, <2>2
<1>4. FlattenSeq(under) \in Pages(s)
  <2>1. Pages(s) \in SUBSET Seq(SesLines(s))
    BY DEF Pages
  <2>2. <<>> \in Pages(s) /\ \A v, w \in Pages(s) : v \o w \in Pages(s)
    BY PagesJoin
  <2> HIDE DEF under
  <2> QED BY <1>3, <2>1, <2>2, FlattenIs
<1>5. <<header>> \in Pages(s)
  <2>1. header \in SesLines(s) /\ header.is = "type"
    BY DEF SesLines
  <2> HIDE DEF header
  <2>2. <<header>> \in Seq(SesLines(s)) /\ Len(<<header>>) = 1 /\ <<header>>[1] = header
    BY <2>1
  <2> QED BY <2>1, <2>2 DEF Pages
<1>6. page.lines \o <<header>> \o FlattenSeq(under) \in Pages(s)
  <2> HIDE DEF header, under
  <2>1. page.lines \in Pages(s)
    OBVIOUS
  <2>2. \A v, w \in Pages(s) : v \o w \in Pages(s)
    BY PagesJoin
  <2>3. page.lines \o <<header>> \in Pages(s)
    BY <1>5, <2>1, <2>2
  <2> QED BY <1>4, <2>2, <2>3
<1>7. SubSeq(page.left, n + 1, Len(page.left)) \in Seq(Elements(s.types))
  <2>1. \A q \in Seq(Elements(s.types)) : \A k \in Nat \ {0} :
          SubSeq(q, k, Len(q)) \in Seq(Elements(s.types))
    OBVIOUS
  <2>2. page.left \in Seq(Elements(s.types)) /\ n + 1 \in Nat \ {0}
    BY <1>2
  <2> QED BY <2>1, <2>2
<1>8. Block(s, page, t) =
        [left |-> SubSeq(page.left, n + 1, Len(page.left)),
         lines |-> page.lines \o <<header>> \o FlattenSeq(under)]
  BY DEF Block, n
<1> HIDE DEF header, under
<1> QED BY <1>6, <1>7, <1>8

\* The whole page of sg_ses is one.
LEMMA PageIsAPage ==
  ASSUME NEW s, IsShelf(s)
  PROVE  AesPage(s) \in Pages(s)
<1> DEFINE n == Len(s.types)
           P == [left : Seq(Elements(s.types)), lines : Pages(s)]
           start == [left |-> Emitted(s), lines |-> <<>>]
           Skipped(t) == s.noticed /\ t \in s.omitted
           Is(f) == f = [t \in 0..n |-> IF t = 0 THEN start
                                        ELSE IF Skipped(t) THEN f[t - 1]
                                        ELSE Block(s, f[t - 1], t)]
           F == CHOOSE f : Is(f)
           step == [t \in 1..n |-> [page \in P |-> IF Skipped(t) THEN page ELSE Block(s, page, t)]]
<1>1. n \in Nat /\ DOMAIN s.types = 1..n
  BY ShelfIs
<1>2. start \in P
  BY EmittedAreElements, PagesJoin
<1>3. \A t \in 1..n : \A page \in P : Block(s, page, t) \in P
  BY <1>1, BlockIsAPage
<1>4. step \in [1..n -> [P -> P]]
  <2> HIDE DEF P, n, Skipped
  <2> QED BY <1>3
<1>5. \A t \in 1..n : \A page \in P :
        step[t][page] = IF Skipped(t) THEN page ELSE Block(s, page, t)
  <2> HIDE DEF P, n, Skipped
  <2> QED OBVIOUS
<1>6. \E f \in [0..n -> P] : Computes(f, n, start, step)
  <2> HIDE DEF P, n, Skipped, start, step
  <2> QED BY <1>1, <1>2, <1>4, StepByStep
<1>7. PICK f \in [0..n -> P] : Computes(f, n, start, step)
  BY <1>6
<1> HIDE DEF P, Skipped, start, step, n
<1>8. Is(f)
  <2>1. ASSUME NEW t \in 0..n
        PROVE  f[t] = IF t = 0 THEN start
                      ELSE IF Skipped(t) THEN f[t - 1] ELSE Block(s, f[t - 1], t)
    <3>1. CASE t = 0
      BY <1>7, <3>1 DEF Computes
    <3>2. CASE t # 0
      <4>1. t \in 1..n /\ t - 1 \in 0..n
        BY <1>1, <3>2
      <4>2. f[t] = step[t][f[t - 1]] /\ f[t - 1] \in P
        BY <1>7, <4>1 DEF Computes
      <4> QED BY <1>5, <3>2, <4>1, <4>2
    <3> QED BY <3>1, <3>2
  <2> QED BY <2>1
<1>9. Is(F)
  BY <1>8
<1>10. AesPage(s) = F[n].lines
  BY DEF AesPage, n, start, Skipped
<1> HIDE DEF F
<1>11. F[n] \in P
  <2> DEFINE H == {t \in 0..n : F[t] \in P}
  <2>0. n \in Nat /\ H \in SUBSET (0..n)
    BY <1>1
  <2>1. 0 \in H
    BY <1>1, <1>2, <1>9
  <2>2. ASSUME NEW t \in 0..(n - 1), t \in H
        PROVE  t + 1 \in H
    <3>1. t + 1 \in 1..n /\ t + 1 \in 0..n /\ (t + 1) - 1 = t /\ t + 1 # 0
      BY <1>1
    <3>2. F[t + 1] = IF Skipped(t + 1) THEN F[t] ELSE Block(s, F[t], t + 1)
      BY <1>9, <3>1
    <3> QED BY <1>3, <2>2, <3>1, <3>2
  <2>3. n \in H
    <3> HIDE DEF H
    <3> QED BY <2>0, <2>1, <2>2, LastReached
  <2> QED BY <2>3
<1> QED BY <1>10, <1>11 DEF P

\* A read gives a page that is well-formed as far as it goes.
LEMMA ReadsArePages ==
  ASSUME NEW s, IsShelf(s), NEW r \in AesReads(s)
  PROVE  r.lines \in Pages(s) /\ r.read \in {"whole", "short", "garbled"}
<1> DEFINE page == AesPage(s)
<1>1. page \in Pages(s)
  BY PageIsAPage
<1> HIDE DEF page
<1>2. page \in Seq(SesLines(s)) /\ Len(page) \in Nat
  BY <1>1 DEF Pages
<1>3. CASE r = [lines |-> page, read |-> "whole"]
  BY <1>1, <1>3
<1>4. CASE \E k \in 0..(Len(page) - 1) : r = [lines |-> SubSeq(page, 1, k), read |-> "short"]
  <2>1. PICK k \in 0..(Len(page) - 1) : r = [lines |-> SubSeq(page, 1, k), read |-> "short"]
    BY <1>4
  <2>2. /\ SubSeq(page, 1, k) \in Seq(SesLines(s)) /\ Len(SubSeq(page, 1, k)) = k
        /\ \A i \in 1..k : SubSeq(page, 1, k)[i] = page[i]
    BY <1>2
  <2> DEFINE short == SubSeq(page, 1, k)
  <2> HIDE DEF short
  <2>3. short \in Pages(s)
    <3>1. short \in Seq(SesLines(s)) /\ Len(short) = k /\ \A i \in 1..k : short[i] = page[i]
      BY <2>2 DEF short
    <3>2. \A i \in 1..k : i \in 1..Len(page) /\ (i > 1 => i - 1 \in 1..k)
      BY <1>2
    <3> QED BY <1>1, <3>1, <3>2 DEF Pages
  <2> QED BY <2>1, <2>3 DEF short
<1>5. CASE \E k \in DOMAIN page : r = [lines |-> Garbled(page, k), read |-> "garbled"]
  <2>1. PICK k \in DOMAIN page : r = [lines |-> Garbled(page, k), read |-> "garbled"]
    BY <1>5
  <2>2. k \in 1..Len(page) /\ page[k] \in SesLines(s)
    BY <1>2
  <2> DEFINE line == IF page[k].is = "type" THEN [is |-> "bad type"]
                     ELSE IF page[k].is = "element" THEN [is |-> "bad element"] ELSE page[k]
             bad == [page EXCEPT ![k] = line]
  <2>3. /\ line \in SesLines(s)
        /\ line.is \notin {"slot", "address"} \/ line = page[k]
        /\ page[k].is \in {"element", "bad element"} => line.is \in {"element", "bad element"}
        /\ page[k].is = "slot" => line = page[k]
    BY <2>2 DEF SesLines
  <2>4. Garbled(page, k) = bad
    BY DEF Garbled
  <2> HIDE DEF line
  <2>5. /\ bad \in Seq(SesLines(s)) /\ Len(bad) = Len(page)
        /\ \A i \in 1..Len(page) : bad[i] = IF i = k THEN line ELSE page[i]
    <3>1. line \in SesLines(s)
      BY <2>3
    <3> QED BY <1>2, <2>2, <3>1, ExceptSeq
  <2> HIDE DEF bad
  <2>6. ASSUME NEW i \in 1..Len(bad)
        PROVE  /\ i = 1 => bad[i].is \notin {"slot", "address"}
               /\ i > 1 => Follows(s, bad[i - 1], bad[i])
    <3>1. i \in 1..Len(page) /\ (i > 1 => i - 1 \in 1..Len(page))
      BY <1>2, <2>5
    <3>2. i = 1 => bad[i].is \notin {"slot", "address"}
      BY <1>1, <2>3, <2>5, <3>1 DEF Pages
    <3>3. ASSUME i > 1 PROVE Follows(s, bad[i - 1], bad[i])
      <4>1. Follows(s, page[i - 1], page[i])
        BY <1>1, <3>1, <3>3 DEF Pages
      <4>2. /\ bad[i] = page[i] \/ bad[i].is \notin {"slot", "address"}
            /\ page[i - 1].is \in {"element", "bad element"} =>
                 bad[i - 1].is \in {"element", "bad element"}
            /\ page[i - 1].is = "slot" => bad[i - 1] = page[i - 1]
        BY <2>3, <2>5, <3>1, <3>3
      <4> QED BY <4>1, <4>2 DEF Follows
    <3> QED BY <3>2, <3>3
  <2>7. bad \in Pages(s)
    BY <2>5, <2>6 DEF Pages
  <2> QED BY <2>1, <2>4, <2>7
<1> QED BY <1>3, <1>4, <1>5 DEF AesReads, page

-----------------------------------------------------------------------------
(***************************************************************************)
(* The parser.                                                             *)
(***************************************************************************)

BlockEntries(s) ==
  [index : Indexes(s) \cup {Nothing}, slot : SlotNumbers \cup {Nothing},
   address : BaysOf(s.types) \cup {Nothing}]

AesBlocks(s) ==
  [type : {s.types[t].type : t \in DOMAIN s.types}, ti : DOMAIN s.types,
   entries : Seq(BlockEntries(s)), malformed : BOOLEAN]

ParserStates(s) ==
  {state \in [blocks : Seq(AesBlocks(s)), in_block : BOOLEAN, in_entry : BOOLEAN] :
     /\ state.in_block => Len(state.blocks) > 0
     /\ state.in_entry =>
          state.in_block /\ Len(state.blocks[Len(state.blocks)].entries) > 0}

\* An address is in the entry of its bay.
Attributed(s, e) ==
  e.address # Nothing => e.slot = SlotOf(s, e.address)

LastEntry(state) ==
  LET block == state.blocks[Len(state.blocks)] IN block.entries[Len(block.entries)]

\* What an open entry holds after a line.
Open(state, line) ==
  state.in_entry =>
    /\ line.is \in {"element", "slot", "address"}
    /\ line.is = "element" => LastEntry(state).slot = Nothing /\ LastEntry(state).address = Nothing
    /\ line.is = "slot" => LastEntry(state).slot = line.slot /\ LastEntry(state).address = Nothing

AllAttributed(s, state) ==
  \A k \in DOMAIN state.blocks : \A p \in DOMAIN state.blocks[k].entries :
    Attributed(s, state.blocks[k].entries[p])

\* The last block changed, with no open entry or with its last one open, and what a change
\* may do to the entries.
Closed(state, block) ==
  [blocks |-> [state.blocks EXCEPT ![Len(state.blocks)] = block], in_block |-> TRUE,
   in_entry |-> FALSE]

Opening(state, block) ==
  [blocks |-> [state.blocks EXCEPT ![Len(state.blocks)] = block], in_block |-> TRUE,
   in_entry |-> TRUE]

Attributes(s, old, block) ==
  \A p \in DOMAIN block.entries :
    \/ Attributed(s, block.entries[p])
    \/ p \in DOMAIN old.entries /\ block.entries[p] = old.entries[p]

\* The states the parser makes of one by changing or closing its last block.
LEMMA LastBlockChanges ==
  ASSUME NEW s, NEW state \in ParserStates(s), state.in_block, NEW block \in AesBlocks(s)
  PROVE  /\ Closed(state, block) \in ParserStates(s) /\ ~Closed(state, block).in_entry
         /\ Len(block.entries) > 0 => Opening(state, block) \in ParserStates(s)
         /\ LastEntry(Opening(state, block)) = block.entries[Len(block.entries)]
         /\ AllAttributed(s, state) /\ Attributes(s, state.blocks[Len(state.blocks)], block) =>
              AllAttributed(s, Closed(state, block)) /\ AllAttributed(s, Opening(state, block))
<1> DEFINE last == Len(state.blocks)
           blocks == [state.blocks EXCEPT ![last] = block]
<1>1. state.blocks \in Seq(AesBlocks(s)) /\ last \in Nat /\ last > 0
  BY DEF ParserStates
<1>2. /\ blocks \in Seq(AesBlocks(s)) /\ Len(blocks) = last
      /\ \A k \in 1..last : blocks[k] = IF k = last THEN block ELSE state.blocks[k]
  BY <1>1, ExceptSeq
<1>3. /\ Closed(state, block) = [blocks |-> blocks, in_block |-> TRUE, in_entry |-> FALSE]
      /\ Opening(state, block) = [blocks |-> blocks, in_block |-> TRUE, in_entry |-> TRUE]
  BY DEF Closed, Opening
<1> HIDE DEF blocks
<1>4. blocks[Len(blocks)] = block /\ Len(blocks) = last /\ last > 0
  BY <1>1, <1>2
<1> HIDE DEF last
<1>5. Closed(state, block) \in ParserStates(s) /\ ~Closed(state, block).in_entry
  BY <1>2, <1>3, <1>4 DEF ParserStates
<1>6. Len(block.entries) > 0 => Opening(state, block) \in ParserStates(s)
  BY <1>2, <1>3, <1>4 DEF ParserStates
<1>7. LastEntry(Opening(state, block)) = block.entries[Len(block.entries)]
  BY <1>3, <1>4 DEF LastEntry
<1>8. ASSUME AllAttributed(s, state), Attributes(s, state.blocks[last], block),
             NEW k \in DOMAIN blocks, NEW p \in DOMAIN blocks[k].entries
      PROVE  Attributed(s, blocks[k].entries[p])
  <2>1. k \in 1..last /\ k \in DOMAIN state.blocks
    BY <1>1, <1>2 DEF last
  <2>2. CASE k = last
    <3>1. blocks[k] = block
      BY <1>2, <2>1, <2>2
    <3> QED BY <1>8, <2>1, <2>2, <3>1 DEF AllAttributed, Attributes
  <2>3. CASE k # last
    <3>1. blocks[k] = state.blocks[k]
      BY <1>2, <2>1, <2>3
    <3> QED BY <1>8, <2>1, <3>1 DEF AllAttributed
  <2> QED BY <2>2, <2>3
<1>9. AllAttributed(s, state) /\ Attributes(s, state.blocks[last], block) =>
        AllAttributed(s, Closed(state, block)) /\ AllAttributed(s, Opening(state, block))
  BY <1>3, <1>8 DEF AllAttributed
<1> QED BY <1>5, <1>6, <1>7, <1>9 DEF last

\* A line on what has been parsed: blocks stay blocks, and what the open entry holds is what
\* the line, on a page where it follows the one before, has given it.
LEMMA LineIsParsed ==
  ASSUME NEW s, IsShelf(s), NEW state \in ParserStates(s), NEW line \in SesLines(s), NEW prev
  PROVE  /\ ParseLine(state, line) \in ParserStates(s)
         /\ AllAttributed(s, state) /\ Open(state, prev)
              /\ (state.in_entry => Follows(s, prev, line))
              => AllAttributed(s, ParseLine(state, line)) /\ Open(ParseLine(state, line), line)
<1> DEFINE last  == Len(state.blocks)
           block == state.blocks[last]
           open == Len(block.entries)
           new   == ParseLine(state, line)
           Fits  == /\ AllAttributed(s, state) /\ Open(state, prev)
                    /\ state.in_entry => Follows(s, prev, line)
<1>1. /\ state = [blocks |-> state.blocks, in_block |-> state.in_block,
                  in_entry |-> state.in_entry]
      /\ state.blocks \in Seq(AesBlocks(s)) /\ last \in Nat
      /\ state.in_block \in BOOLEAN /\ state.in_entry \in BOOLEAN
      /\ state.in_block => last > 0 /\ last \in 1..last
      /\ state.in_entry => state.in_block /\ open > 0
  BY DEF ParserStates
<1>2. state.in_block =>
        /\ block \in AesBlocks(s)
        /\ block = [type |-> block.type, ti |-> block.ti, entries |-> block.entries,
                    malformed |-> block.malformed]
        /\ block.entries \in Seq(BlockEntries(s)) /\ open \in Nat
        /\ block.type \in {s.types[t].type : t \in DOMAIN s.types}
        /\ block.ti \in DOMAIN s.types /\ block.malformed \in BOOLEAN
  <2>1. state.in_block => block \in AesBlocks(s)
    BY <1>1
  <2> HIDE DEF block
  <2> QED BY <2>1 DEF AesBlocks
<1>3. CASE line.is = "type"
  <2>1. new = [blocks |-> Append(state.blocks, NewBlock(line)), in_block |-> TRUE,
               in_entry |-> FALSE]
    BY <1>3 DEF ParseLine
  <2>2. NewBlock(line) \in AesBlocks(s) /\ NewBlock(line).entries = <<>>
    <3>1. /\ line.type \in {s.types[t].type : t \in DOMAIN s.types}
          /\ line.ti \in DOMAIN s.types
      BY <1>3 DEF SesLines
    <3> QED BY <3>1 DEF NewBlock, AesBlocks
  <2>3. /\ new.blocks \in Seq(AesBlocks(s)) /\ Len(new.blocks) = last + 1
        /\ \A k \in 1..last : new.blocks[k] = state.blocks[k]
        /\ new.blocks[last + 1] = NewBlock(line)
    BY <1>1, <2>1, <2>2, AppendProperties
  <2>4. new \in ParserStates(s)
    BY <1>1, <2>1, <2>3 DEF ParserStates
  <2>5. AllAttributed(s, state) => AllAttributed(s, new)
    <3> SUFFICES ASSUME AllAttributed(s, state), NEW k \in DOMAIN new.blocks,
                        NEW p \in DOMAIN new.blocks[k].entries
                 PROVE  Attributed(s, new.blocks[k].entries[p])
      BY DEF AllAttributed
    <3>1. k \in 1..(last + 1)
      BY <2>3
    <3>2. k # last + 1
      BY <2>2, <2>3
    <3> QED BY <1>1, <2>3, <3>1, <3>2 DEF AllAttributed
  <2>6. Open(new, line)
    BY <2>1 DEF Open
  <2> QED BY <2>4, <2>5, <2>6
<1>4. CASE line.is = "bad type"
  <2>1. new = [blocks |-> state.blocks, in_block |-> FALSE, in_entry |-> FALSE]
    BY <1>1, <1>4 DEF ParseLine
  <2>2. new \in ParserStates(s)
    BY <1>1, <2>1 DEF ParserStates
  <2> QED BY <2>1, <2>2 DEF AllAttributed, Open
<1>5. CASE line.is = "element" /\ state.in_block
  <2> DEFINE fresh == [NoEntry EXCEPT !.index = line.index]
             wider == [block EXCEPT !.entries = Append(@, fresh)]
  <2>1. new = Opening(state, wider)
    BY <1>1, <1>5 DEF ParseLine, Opening
  <2>2. fresh \in BlockEntries(s) /\ fresh.address = Nothing /\ fresh.slot = Nothing
    <3>1. line.index \in Indexes(s)
      BY <1>5 DEF SesLines
    <3> HIDE DEF Indexes
    <3> QED BY <3>1 DEF NoEntry, BlockEntries
  <2> HIDE DEF fresh
  <2>3. /\ Append(block.entries, fresh) \in Seq(BlockEntries(s))
        /\ Len(Append(block.entries, fresh)) = open + 1
        /\ \A p \in 1..open : Append(block.entries, fresh)[p] = block.entries[p]
        /\ Append(block.entries, fresh)[open + 1] = fresh
    BY <1>2, <1>5, <2>2, AppendProperties
  <2>4. wider.entries = Append(block.entries, fresh) /\ wider \in AesBlocks(s)
    BY <1>2, <1>5, <2>3 DEF AesBlocks
  <2>5. Len(wider.entries) = open + 1 /\ Len(wider.entries) > 0
        /\ wider.entries[Len(wider.entries)] = fresh
    BY <1>2, <1>5, <2>3, <2>4
  <2>6. Attributes(s, block, wider)
    <3> SUFFICES ASSUME NEW p \in DOMAIN wider.entries
                 PROVE  \/ Attributed(s, wider.entries[p])
                        \/ p \in DOMAIN block.entries /\ wider.entries[p] = block.entries[p]
      BY DEF Attributes
    <3>1. p \in 1..(open + 1)
      BY <2>3, <2>4
    <3>2. CASE p = open + 1
      <4>1. wider.entries[p] = fresh
        BY <2>3, <2>4, <3>2
      <4> QED BY <2>2, <4>1 DEF Attributed
    <3>3. CASE p # open + 1
      BY <1>2, <1>5, <2>3, <2>4, <3>1, <3>3
    <3> QED BY <3>2, <3>3
  <2> HIDE DEF wider
  <2>7. /\ new \in ParserStates(s) /\ LastEntry(new) = fresh
        /\ AllAttributed(s, state) => AllAttributed(s, new)
    <3> HIDE DEF new
    <3> QED BY <1>5, <2>1, <2>4, <2>5, <2>6, LastBlockChanges
  <2>8. Open(new, line)
    BY <1>5, <2>2, <2>7 DEF Open
  <2> QED BY <2>7, <2>8
<1>6. CASE line.is = "bad element" /\ state.in_block
  <2> DEFINE worse == [block EXCEPT !.malformed = TRUE]
  <2>1. new = Closed(state, worse)
    BY <1>1, <1>6 DEF ParseLine, BadElement, Closed
  <2>2. worse \in AesBlocks(s) /\ worse.entries = block.entries
    BY <1>2, <1>6 DEF AesBlocks
  <2> HIDE DEF worse
  <2>3. Attributes(s, block, worse)
    BY <2>2 DEF Attributes
  <2>4. /\ new \in ParserStates(s) /\ ~new.in_entry
        /\ AllAttributed(s, state) => AllAttributed(s, new)
    <3> HIDE DEF new
    <3> QED BY <1>6, <2>1, <2>2, <2>3, LastBlockChanges
  <2> QED BY <2>4 DEF Open
<1>7. CASE line.is = "slot" /\ state.in_entry
  <2> DEFINE old  == block.entries[open]
             told == [old EXCEPT !.slot = IF @ = Nothing THEN line.slot ELSE @]
             wiser == [block EXCEPT !.entries = [@ EXCEPT ![open] = told]]
  <2>0. open \in 1..open /\ state.in_block
    BY <1>1, <1>2, <1>7
  <2>1. new = Opening(state, wiser)
    BY <1>1, <1>2, <1>7, <2>0 DEF ParseLine, Opening
  <2>2. /\ told \in BlockEntries(s) /\ told.address = old.address
        /\ old.slot = Nothing => told.slot = line.slot
    <3>1. line.slot \in SlotNumbers
      BY <1>7 DEF SesLines
    <3>2. old \in BlockEntries(s)
      BY <1>2, <2>0
    <3> HIDE DEF old
    <3> QED BY <3>1, <3>2 DEF BlockEntries
  <2> HIDE DEF told
  <2>3. /\ [block.entries EXCEPT ![open] = told] \in Seq(BlockEntries(s))
        /\ Len([block.entries EXCEPT ![open] = told]) = open
        /\ \A p \in 1..open : [block.entries EXCEPT ![open] = told][p] =
                                 IF p = open THEN told ELSE block.entries[p]
    BY <1>2, <2>0, <2>2, ExceptSeq
  <2>4. wiser.entries = [block.entries EXCEPT ![open] = told] /\ wiser \in AesBlocks(s)
    BY <1>2, <2>0, <2>3 DEF AesBlocks
  <2>5. Len(wiser.entries) = open /\ Len(wiser.entries) > 0
        /\ wiser.entries[Len(wiser.entries)] = told
    BY <1>1, <1>7, <2>0, <2>3, <2>4
  <2>6. old.address = Nothing => Attributes(s, block, wiser)
    <3>0. SUFFICES ASSUME old.address = Nothing, NEW p \in DOMAIN wiser.entries
                 PROVE  \/ Attributed(s, wiser.entries[p])
                        \/ p \in DOMAIN block.entries /\ wiser.entries[p] = block.entries[p]
      BY DEF Attributes
    <3>1. p \in 1..open
      BY <2>3, <2>4
    <3>2. CASE p = open
      <4>1. wiser.entries[p] = told
        BY <2>3, <2>4, <3>1, <3>2
      <4> QED BY <2>2, <3>0, <4>1 DEF Attributed
    <3>3. CASE p # open
      BY <1>2, <2>0, <2>3, <2>4, <3>1, <3>3
    <3> QED BY <3>2, <3>3
  <2> HIDE DEF wiser, old
  <2>7. /\ new \in ParserStates(s) /\ LastEntry(new) = told
        /\ AllAttributed(s, state) /\ old.address = Nothing => AllAttributed(s, new)
    <3> HIDE DEF new
    <3> QED BY <2>0, <2>1, <2>4, <2>5, <2>6, LastBlockChanges
  <2>8. ASSUME Fits PROVE old.address = Nothing /\ old.slot = Nothing
    <3>1. prev.is = "element"
      BY <1>7, <2>8 DEF Open, Follows
    <3> QED BY <1>7, <2>8, <3>1 DEF Open, LastEntry, old
  <2>9. ASSUME Fits PROVE Open(new, line)
    BY <1>7, <2>2, <2>7, <2>8, <2>9 DEF Open
  <2> QED BY <2>7, <2>8, <2>9
<1>8. CASE line.is = "address" /\ state.in_entry
  <2> DEFINE old  == block.entries[open]
             told == [old EXCEPT !.address = IF @ = Nothing THEN line.address ELSE @]
             wiser == [block EXCEPT !.entries = [@ EXCEPT ![open] = told]]
  <2>0. open \in 1..open /\ state.in_block
    BY <1>1, <1>2, <1>8
  <2>1. new = Opening(state, wiser)
    BY <1>1, <1>2, <1>8, <2>0 DEF ParseLine, Opening
  <2>2. /\ told \in BlockEntries(s) /\ told.slot = old.slot
        /\ old.address = Nothing => told.address = line.address
    <3>1. line.address \in BaysOf(s.types)
      BY <1>8 DEF SesLines
    <3>2. old \in BlockEntries(s)
      BY <1>2, <2>0
    <3> HIDE DEF old
    <3> QED BY <3>1, <3>2 DEF BlockEntries
  <2> HIDE DEF told
  <2>3. /\ [block.entries EXCEPT ![open] = told] \in Seq(BlockEntries(s))
        /\ Len([block.entries EXCEPT ![open] = told]) = open
        /\ \A p \in 1..open : [block.entries EXCEPT ![open] = told][p] =
                                 IF p = open THEN told ELSE block.entries[p]
    BY <1>2, <2>0, <2>2, ExceptSeq
  <2>4. wiser.entries = [block.entries EXCEPT ![open] = told] /\ wiser \in AesBlocks(s)
    BY <1>2, <2>0, <2>3 DEF AesBlocks
  <2>5. Len(wiser.entries) = open /\ Len(wiser.entries) > 0
        /\ wiser.entries[Len(wiser.entries)] = told
    BY <1>1, <1>8, <2>0, <2>3, <2>4
  <2>6. Attributed(s, told) => Attributes(s, block, wiser)
    <3>0. SUFFICES ASSUME Attributed(s, told), NEW p \in DOMAIN wiser.entries
                 PROVE  \/ Attributed(s, wiser.entries[p])
                        \/ p \in DOMAIN block.entries /\ wiser.entries[p] = block.entries[p]
      BY DEF Attributes
    <3>1. p \in 1..open
      BY <2>3, <2>4
    <3>2. CASE p = open
      <4>1. wiser.entries[p] = told
        BY <2>3, <2>4, <3>1, <3>2
      <4> QED BY <3>0, <4>1
    <3>3. CASE p # open
      BY <1>2, <2>0, <2>3, <2>4, <3>1, <3>3
    <3> QED BY <3>2, <3>3
  <2> HIDE DEF wiser, old
  <2>7. /\ new \in ParserStates(s) /\ LastEntry(new) = told
        /\ AllAttributed(s, state) /\ Attributed(s, told) => AllAttributed(s, new)
    <3> HIDE DEF new
    <3> QED BY <2>0, <2>1, <2>4, <2>5, <2>6, LastBlockChanges
  <2>8. ASSUME Fits PROVE Attributed(s, told)
    <3>1. prev.is = "slot" /\ SlotOf(s, line.address) = prev.slot
      BY <1>8, <2>8 DEF Follows
    <3>2. old.address = Nothing /\ old.slot = prev.slot
      BY <1>8, <2>8, <3>1 DEF Open, LastEntry, old
    <3> QED BY <2>2, <3>1, <3>2 DEF Attributed
  <2>9. Open(new, line)
    BY <1>8 DEF Open
  <2> QED BY <2>7, <2>8, <2>9
<1>9. CASE /\ line.is # "type" /\ line.is # "bad type"
           /\ ~(line.is = "element" /\ state.in_block)
           /\ ~(line.is = "bad element" /\ state.in_block)
           /\ ~(line.is = "slot" /\ state.in_entry)
           /\ ~(line.is = "address" /\ state.in_entry)
  <2>1. new = state
    BY <1>9 DEF ParseLine
  <2>2. ~state.in_entry
    <3>1. line.is \in {"type", "element", "slot", "address", "bad type", "bad element"}
      BY DEF SesLines
    <3> QED BY <1>1, <1>9, <3>1
  <2> QED BY <2>1, <2>2 DEF Open
<1> QED BY <1>3, <1>4, <1>5, <1>6, <1>7, <1>8, <1>9

\* The parser reads a page line by line.
LEMMA ParserRuns ==
  ASSUME NEW s, IsShelf(s), NEW page \in Seq(SesLines(s))
  PROVE  \E F \in [0..Len(page) -> ParserStates(s)] :
           /\ F[0] = NoBlocks /\ \A k \in 1..Len(page) : F[k] = ParseLine(F[k - 1], page[k])
           /\ parse_additional_element_status(page) = F[Len(page)].blocks
<1> DEFINE n == Len(page)
           S == ParserStates(s)
           Is(f) == f = [k \in 0..n |-> IF k = 0 THEN NoBlocks
                                        ELSE ParseLine(f[k - 1], page[k])]
           F == CHOOSE f : Is(f)
           step == [k \in 1..n |-> [state \in S |-> ParseLine(state, page[k])]]
<1>1. n \in Nat /\ \A k \in 1..n : page[k] \in SesLines(s)
  OBVIOUS
<1>2. NoBlocks \in S
  BY DEF NoBlocks, ParserStates
<1>3. \A k \in 1..n : \A state \in S : ParseLine(state, page[k]) \in S
  BY <1>1, LineIsParsed
<1> HIDE DEF S
<1>4. step \in [1..n -> [S -> S]]
  <2> HIDE DEF n
  <2> QED BY <1>3
<1>5. \A k \in 1..n : \A state \in S : step[k][state] = ParseLine(state, page[k])
  OBVIOUS
<1>6. \E f \in [0..n -> S] : Computes(f, n, NoBlocks, step)
  <2> HIDE DEF n, step
  <2> QED BY <1>1, <1>2, <1>4, StepByStep
<1>7. PICK f \in [0..n -> S] : Computes(f, n, NoBlocks, step)
  BY <1>6
<1> HIDE DEF step, n
<1>8. Is(f)
  <2>1. ASSUME NEW k \in 0..n
        PROVE  f[k] = IF k = 0 THEN NoBlocks ELSE ParseLine(f[k - 1], page[k])
    <3>1. CASE k = 0
      BY <1>7, <3>1 DEF Computes
    <3>2. CASE k # 0
      <4>1. k \in 1..n /\ k - 1 \in 0..n
        BY <1>1, <3>2
      <4>2. f[k] = step[k][f[k - 1]] /\ f[k - 1] \in S
        BY <1>7, <4>1 DEF Computes
      <4> QED BY <1>5, <3>2, <4>1, <4>2
    <3> QED BY <3>1, <3>2
  <2> QED BY <2>1
<1>9. Is(F)
  BY <1>8
<1>10. parse_additional_element_status(page) = F[n].blocks
  BY DEF parse_additional_element_status, n
<1> HIDE DEF F
<1>11. F[0] = NoBlocks /\ \A k \in 1..n : F[k] = ParseLine(F[k - 1], page[k])
  BY <1>1, <1>9
<1>12. \A k \in 0..n : F[k] \in S
  <2> DEFINE H == {k \in 0..n : F[k] \in S}
  <2>1. n \in Nat /\ H \in SUBSET (0..n) /\ 0 \in H
    BY <1>1, <1>2, <1>11
  <2>2. ASSUME NEW k \in 0..(n - 1), k \in H PROVE k + 1 \in H
    <3>1. k + 1 \in 1..n /\ k + 1 \in 0..n /\ (k + 1) - 1 = k
      BY <1>1
    <3> QED BY <1>3, <1>11, <2>2, <3>1
  <2>3. H = 0..n
    <3> HIDE DEF H
    <3> QED BY <2>1, <2>2, AllReached
  <2> QED BY <2>3
<1>13. F \in [0..n -> S]
  BY <1>9, <1>12
<1> QED BY <1>10, <1>11, <1>13 DEF S, n

\* Whatever a read returned, the parser finds blocks, and every address in the entry of its
\* own bay.
LEMMA ParsedIsAttributed ==
  ASSUME NEW s, IsShelf(s), NEW page \in Pages(s)
  PROVE  LET blocks == parse_additional_element_status(page)
         IN /\ blocks \in Seq(AesBlocks(s))
            /\ \A k \in DOMAIN blocks : \A p \in DOMAIN blocks[k].entries :
                 Attributed(s, blocks[k].entries[p])
<1> DEFINE n == Len(page)
           S == ParserStates(s)
<1>1. /\ n \in Nat /\ \A k \in 1..n : page[k] \in SesLines(s)
      /\ \A k \in 1..n : k = 1 => page[k].is \notin {"slot", "address"}
      /\ \A k \in 1..n : k > 1 => Follows(s, page[k - 1], page[k])
  BY DEF Pages
<1>2. NoBlocks \in S /\ AllAttributed(s, NoBlocks) /\ ~NoBlocks.in_entry
  BY DEF NoBlocks, ParserStates, AllAttributed
<1>3. ASSUME NEW k \in 1..n, NEW state \in S, NEW prev, AllAttributed(s, state),
             Open(state, prev), state.in_entry => Follows(s, prev, page[k])
      PROVE  AllAttributed(s, ParseLine(state, page[k])) /\ Open(ParseLine(state, page[k]), page[k])
  BY <1>1, <1>3, LineIsParsed
<1>4. PICK F \in [0..n -> S] :
        /\ F[0] = NoBlocks /\ \A k \in 1..n : F[k] = ParseLine(F[k - 1], page[k])
        /\ parse_additional_element_status(page) = F[n].blocks
  <2>1. page \in Seq(SesLines(s))
    BY DEF Pages
  <2> QED BY <2>1, ParserRuns
<1> HIDE DEF S, n
<1>5. F[n] \in S /\ AllAttributed(s, F[n])
  <2> DEFINE Good(k) == /\ F[k] \in S /\ AllAttributed(s, F[k])
                        /\ k = 0 => ~F[k].in_entry
                        /\ k > 0 => Open(F[k], page[k])
             H == {k \in 0..n : Good(k)}
  <2>1. n \in Nat /\ H \in SUBSET (0..n)
    BY <1>1
  <2>2. 0 \in H
    <3>1. F[0] = NoBlocks
      BY <1>4
    <3> QED BY <1>1, <1>2, <3>1
  <2>3. ASSUME NEW k \in 0..(n - 1), k \in H
        PROVE  k + 1 \in H
    <3>1. k + 1 \in 1..n /\ k + 1 \in 0..n /\ (k + 1) - 1 = k /\ k + 1 # 0 /\ k + 1 > 0
      BY <1>1
    <3>2. F[k + 1] = ParseLine(F[k], page[k + 1])
      BY <1>4, <3>1
    <3>3. F[k] \in S /\ AllAttributed(s, F[k]) /\ (k = 0 => ~F[k].in_entry)
          /\ (k > 0 => Open(F[k], page[k]))
      BY <2>3
    <3>4. Open(F[k], page[k])
      <4>1. CASE k = 0
        BY <3>3, <4>1 DEF Open
      <4>2. CASE k # 0
        <5>1. k > 0
          BY <1>1, <4>2
        <5> QED BY <3>3, <5>1
      <4> QED BY <4>1, <4>2
    <3>5. F[k].in_entry => Follows(s, page[k], page[k + 1])
      <4> SUFFICES ASSUME F[k].in_entry PROVE Follows(s, page[k], page[k + 1])
        OBVIOUS
      <4>1. k + 1 > 1
        BY <1>1, <3>3
      <4> QED BY <1>1, <3>1, <4>1
    <3>6. F[k + 1] \in S /\ AllAttributed(s, F[k + 1]) /\ Open(F[k + 1], page[k + 1])
      BY <1>3, <1>4, <3>1, <3>2, <3>3, <3>4, <3>5
    <3> QED BY <3>1, <3>6
  <2>4. n \in H
    <3> HIDE DEF H
    <3> QED BY <2>1, <2>2, <2>3, LastReached
  <2> QED BY <2>4
<1> QED BY <1>4, <1>5 DEF S, ParserStates, AllAttributed

\* The entries that claim a slot, one by one.
LEMMA ClaimsAre ==
  ASSUME NEW blocks, NEW n
  PROVE  \A c \in Claims(blocks, n) :
           /\ c[1] \in DOMAIN blocks /\ c[2] \in DOMAIN blocks[c[1]].entries
           /\ blocks[c[1]].entries[c[2]].slot = n
<1> SUFFICES ASSUME NEW c \in Claims(blocks, n)
             PROVE  /\ c[1] \in DOMAIN blocks /\ c[2] \in DOMAIN blocks[c[1]].entries
                    /\ blocks[c[1]].entries[c[2]].slot = n
  OBVIOUS
<1> DEFINE Of(k) == {q \in DOMAIN blocks[k].entries : blocks[k].entries[q].slot = n}
<1>1. Claims(blocks, n) = UNION {{<<k, p>> : p \in Of(k)} : k \in DOMAIN blocks}
  BY DEF Claims
<1>2. PICK k \in DOMAIN blocks : c \in {<<k, p>> : p \in Of(k)}
  <2> HIDE DEF Of
  <2> QED BY <1>1
<1>3. PICK p \in Of(k) : c = <<k, p>>
  BY <1>2
<1> QED BY <1>2, <1>3

\* One claim is a claim.
LEMMA OneClaims ==
  ASSUME NEW blocks, NEW n, Cardinality(Claims(blocks, n)) = 1
  PROVE  (CHOOSE c \in Claims(blocks, n) : TRUE) \in Claims(blocks, n)
<1>1. Claims(blocks, n) # {}
  <2>1. Cardinality({}) = 0
    BY FS_EmptySet
  <2> QED BY <2>1
<1> QED BY <1>1

\* The addresses that poll_chassis() would keep of a page.
LEMMA AddressesAreTheSlots ==
  ASSUME NEW s, IsShelf(s), NEW c, NEW page \in Pages(s)
  PROVE  LET served == SlotSasAddresses(c, parse_additional_element_status(page))
         IN /\ DOMAIN served \subseteq SlotNumbers
            /\ \A n \in DOMAIN served :
                 served[n] \in BaysOf(s.types) /\ SlotOf(s, served[n]) = n
<1> DEFINE blocks == parse_additional_element_status(page)
           served == SlotSasAddresses(c, blocks)
           ti == array_slot_type_index(c)
           Entry(n) == LET claim == CHOOSE x \in Claims(blocks, n) : TRUE
                       IN blocks[claim[1]].entries[claim[2]]
           Claimed(n) == /\ Cardinality(Claims(blocks, n)) = 1
                         /\ \A x \in Claims(blocks, n) : x[1] = ChosenBlock(blocks, ti)
                         /\ Entry(n).address # Nothing
<1>1. /\ blocks \in Seq(AesBlocks(s))
      /\ \A k \in DOMAIN blocks : \A p \in DOMAIN blocks[k].entries :
           Attributed(s, blocks[k].entries[p])
  BY ParsedIsAttributed
<1> HIDE DEF blocks
<1>2. ASSUME NEW n, Claimed(n)
      PROVE  Entry(n).address \in BaysOf(s.types) /\ SlotOf(s, Entry(n).address) = n
  <2> DEFINE claim == CHOOSE x \in Claims(blocks, n) : TRUE
  <2>1. claim \in Claims(blocks, n)
    BY <1>2, OneClaims
  <2> HIDE DEF claim
  <2>2. /\ claim[1] \in DOMAIN blocks /\ claim[2] \in DOMAIN blocks[claim[1]].entries
        /\ blocks[claim[1]].entries[claim[2]].slot = n
    BY <2>1, ClaimsAre
  <2>3. Entry(n) = blocks[claim[1]].entries[claim[2]] /\ Entry(n).address # Nothing
    BY <1>2 DEF claim
  <2>4. blocks[claim[1]] \in AesBlocks(s)
    BY <1>1, <2>2
  <2>5. blocks[claim[1]].entries \in Seq(BlockEntries(s))
    BY <2>4 DEF AesBlocks
  <2>6. blocks[claim[1]].entries[claim[2]] \in BlockEntries(s)
    BY <2>2, <2>5
  <2> HIDE DEF Entry
  <2>7. Entry(n) \in BlockEntries(s) /\ Attributed(s, Entry(n)) /\ Entry(n).slot = n
    BY <1>1, <2>2, <2>3, <2>6
  <2> QED BY <2>3, <2>7 DEF BlockEntries, Attributed
<1>3. served = IF ti = Nothing \/ Misattributed(blocks) THEN <<>>
               ELSE [n \in {m \in SlotNumbers : Claimed(m)} |-> Entry(n).address]
  BY DEF SlotSasAddresses
<1> HIDE DEF Claimed, Entry, ti, served
<1>4. CASE ti = Nothing \/ Misattributed(blocks)
  BY <1>3, <1>4 DEF served, blocks
<1>5. CASE ~(ti = Nothing \/ Misattributed(blocks))
  <2>1. served = [n \in {m \in SlotNumbers : Claimed(m)} |-> Entry(n).address]
    BY <1>3, <1>5
  <2> QED BY <1>2, <2>1 DEF served, blocks
<1> QED BY <1>4, <1>5

\* The type descriptor that a configuration page gives, whole or cut short.
LEMMA ConfigurationIs ==
  ASSUME NEW s, IsShelf(s), NEW c \in Configurations(s), array_slot_type_index(c) # Nothing
  PROVE  /\ array_slot_type_index(c) \in DOMAIN s.types
         /\ c[array_slot_type_index(c)].count = s.types[array_slot_type_index(c)].count
         /\ c[array_slot_type_index(c)].count \in Nat \ {0}
         /\ s.types[array_slot_type_index(c)].type \in BAY_ELEMENT_TYPES
<1> DEFINE Of(type) == {t \in DOMAIN c : c[t].type = type /\ c[t].count > 0}
           D == [type : {"array", "device", "electronics", "expander"}, count : Nat]
           index == array_slot_type_index(c)
<1>1. PICK n \in 1..Len(s.types) : c = SubSeq(s.types, 1, n)
  BY DEF Configurations
<1>2. s.types \in Seq(D)
  BY ShelfIs
<1> HIDE DEF D
<1>3. Len(c) = n /\ DOMAIN c = 1..n /\ \A t \in 1..n : c[t] = s.types[t] /\ t \in DOMAIN s.types
  BY <1>1, <1>2
<1>4. index = IF Of("array") # {} THEN Min(Of("array"))
              ELSE IF Of("device") # {} THEN Min(Of("device")) ELSE Nothing
  BY DEF array_slot_type_index
<1>5. Of("array") \in SUBSET Nat /\ Of("device") \in SUBSET Nat
  BY <1>3
<1>6. \A type : \A t \in Of(type) : t \in DOMAIN c /\ c[t].count > 0 /\ c[t].type = type
  OBVIOUS
<1> HIDE DEF index, Of
<1>7. index \in DOMAIN c /\ c[index].count > 0 /\ c[index].type \in BAY_ELEMENT_TYPES
  <2>1. CASE Of("array") # {}
    <3>1. index \in Of("array")
      BY <1>4, <1>5, <2>1, MinIs
    <3> QED BY <1>6, <3>1 DEF BAY_ELEMENT_TYPES
  <2>2. CASE Of("array") = {}
    <3>1. Of("device") # {} /\ index = Min(Of("device"))
      BY <1>4, <2>2 DEF index
    <3>2. index \in Of("device")
      BY <1>5, <3>1, MinIs
    <3> QED BY <1>6, <3>2 DEF BAY_ELEMENT_TYPES
  <2> QED BY <2>1, <2>2
<1>8. index \in DOMAIN s.types /\ c[index] = s.types[index]
  BY <1>3, <1>7
<1>9. s.types[index].count \in Nat
  BY <1>8, TypesAre
<1> QED BY <1>7, <1>8, <1>9 DEF index

\* A map addresses slots, each by an element of the type descriptor or by none.
LEMMA MapsAreSound ==
  ASSUME NEW s, IsShelf(s), NEW page \in Pages(s), NEW ti, NEW count \in Nat
  PROVE  LET map == BuildSlotMap(parse_additional_element_status(page), ti, count)
         IN /\ DOMAIN map \subseteq SlotNumbers
            /\ \A n \in DOMAIN map : map[n] \in 1..count \cup {Nothing}
<1> DEFINE blocks == parse_additional_element_status(page)
           chosen == ChosenBlock(blocks, ti)
           Only(n) == CHOOSE c \in Claims(blocks, n) : TRUE
           Unambiguous(n) == /\ Cardinality(Claims(blocks, n)) = 1
                             /\ Only(n)[1] = chosen /\ Trusted(blocks[chosen], count)
           map == BuildSlotMap(blocks, ti, count)
<1>1. blocks \in Seq(AesBlocks(s))
  BY ParsedIsAttributed
<1> HIDE DEF blocks
<1>2. ASSUME NEW n, Unambiguous(n)
      PROVE  Only(n)[2] \in 1..count
  <2>1. Only(n) \in Claims(blocks, n)
    BY <1>2, OneClaims
  <2>2. Only(n)[1] = chosen /\ Trusted(blocks[chosen], count)
    BY <1>2
  <2> HIDE DEF chosen, Only
  <2>3. chosen \in DOMAIN blocks /\ Only(n)[2] \in DOMAIN blocks[chosen].entries
    BY <2>1, <2>2, ClaimsAre
  <2>4. blocks[chosen] \in AesBlocks(s)
    BY <1>1, <2>3
  <2>5. blocks[chosen].entries \in Seq(BlockEntries(s))
    BY <2>4 DEF AesBlocks
  <2>6. Len(blocks[chosen].entries) = count
    BY <2>2 DEF Trusted
  <2> QED BY <2>3, <2>5, <2>6
<1>3. map = IF Misattributed(blocks) THEN <<>>
            ELSE [n \in Addressable(blocks, ti) |->
                    IF Unambiguous(n) THEN Only(n)[2] ELSE Nothing]
  BY DEF BuildSlotMap
<1>4. Addressable(blocks, ti) \subseteq SlotNumbers
  BY DEF Addressable
<1> HIDE DEF Unambiguous, Only, map
<1>5. DOMAIN map \subseteq SlotNumbers /\ \A n \in DOMAIN map : map[n] \in 1..count \cup {Nothing}
  <2>1. CASE Misattributed(blocks)
    BY <1>3, <2>1
  <2>2. CASE ~Misattributed(blocks)
    <3>1. map = [n \in Addressable(blocks, ti) |->
                   IF Unambiguous(n) THEN Only(n)[2] ELSE Nothing]
      BY <1>3, <2>2
    <3> QED BY <1>2, <1>4, <3>1
  <2> QED BY <2>1, <2>2
<1> QED BY <1>5 DEF map, blocks

-----------------------------------------------------------------------------
(***************************************************************************)
(* The list of descriptors: which element stands at which place.           *)
(***************************************************************************)

\* A sequence of numbers that grows at each step has grown by as many at least.
LEMMA GrowsByOne ==
  ASSUME NEW a \in Nat, NEW b \in Nat, a <= b, NEW f, \A q \in a..b : f[q] \in Nat,
         \A q \in a..(b - 1) : f[q] < f[q + 1]
  PROVE  f[b] >= f[a] + (b - a)
<1> DEFINE H == {k \in 0..(b - a) : f[a + k] >= f[a] + k}
<1>1. b - a \in Nat /\ H \in SUBSET (0..(b - a)) /\ a \in a..b
  OBVIOUS
<1>2. 0 \in H
  <2>1. a + 0 = a /\ f[a] \in Nat
    BY <1>1
  <2> QED BY <1>1, <2>1
<1>3. ASSUME NEW k \in 0..((b - a) - 1), k \in H
      PROVE  k + 1 \in H
  <2>1. a + k \in a..(b - 1) /\ a + k \in a..b /\ (a + k) + 1 = a + (k + 1)
        /\ a + (k + 1) \in a..b /\ k + 1 \in 0..(b - a)
    OBVIOUS
  <2>2. f[a + k] \in Nat /\ f[a + (k + 1)] \in Nat /\ f[a] \in Nat /\ f[a + k] < f[a + (k + 1)]
    BY <1>1, <2>1
  <2>3. f[a + k] >= f[a] + k
    BY <1>3
  <2> QED BY <2>1, <2>2, <2>3
<1>4. b - a \in H
  <2> HIDE DEF H
  <2> QED BY <1>1, <1>2, <1>3, LastReached
<1>5. a + (b - a) = b
  OBVIOUS
<1> QED BY <1>4, <1>5

-----------------------------------------------------------------------------
(***************************************************************************)
(* The positions of the elements.                                          *)
(***************************************************************************)

Before(x, y) == x[1] < y[1] \/ (x[1] = y[1] /\ x[2] < y[2])

SentElements(s) == {x \in Elements(s.types) : Sent(s, x)}

\* The types that have a header on the page.
Headed(s) == {t \in DOMAIN s.types : ~(s.noticed /\ t \in s.omitted)}

Below(s, t) == {x \in Elements(s.types) : x[1] \in Headed(s) /\ x[1] < t}

\* How many descriptors are under the headers before that of t, if there are as many.
Place(s, t) == Cardinality(Below(s, t))

\* An element is a pair of a type and a number.
LEMMA ElementIs ==
  ASSUME NEW s, IsShelf(s), NEW x \in Elements(s.types)
  PROVE  /\ x = <<x[1], x[2]>> /\ x[1] \in DOMAIN s.types /\ x[1] \in Nat \ {0}
         /\ x[2] \in 1..s.types[x[1]].count /\ x[2] \in Nat \ {0}
<1> DEFINE OfType(u) == {<<u, f>> : f \in 1..s.types[u].count}
<1>1. Elements(s.types) = UNION {OfType(u) : u \in DOMAIN s.types}
  BY DEF Elements
<1>2. PICK t \in DOMAIN s.types : x \in OfType(t)
  <2> HIDE DEF OfType
  <2> QED BY <1>1
<1>3. PICK e \in 1..s.types[t].count : x = <<t, e>>
  BY <1>2
<1>4. s.types[t].count \in Nat /\ t \in Nat \ {0}
  <2>1. DOMAIN s.types = 1..Len(s.types) /\ Len(s.types) \in Nat
    BY ShelfIs
  <2> QED BY <2>1, TypesAre
<1> QED BY <1>2, <1>3, <1>4

\* The elements of a type up to a number, counted.
LEMMA NumbersOfType ==
  ASSUME NEW t, NEW n \in Nat
  PROVE  /\ IsFiniteSet({<<t, e>> : e \in 1..n})
         /\ Cardinality({<<t, e>> : e \in 1..n}) = n
<1> DEFINE f == [e \in 1..n |-> <<t, e>>]
           T == {<<t, e>> : e \in 1..n}
<1>1. f \in Bijection(1..n, T)
  BY DEF Bijection, Injection, Surjection, IsInjective
<1>2. ExistsBijection(1..n, T)
  <2> HIDE DEF f, T
  <2> QED BY <1>1 DEF ExistsBijection
<1>3. IsFiniteSet(1..n) /\ Cardinality(1..n) = n
  BY FS_Interval
<1> HIDE DEF T
<1> QED BY <1>2, <1>3, FS_Bijection DEF T

LEMMA ElementsAreFinite ==
  ASSUME NEW s, IsShelf(s)
  PROVE  IsFiniteSet(Elements(s.types))
<1> DEFINE OfType(u) == {<<u, f>> : f \in 1..s.types[u].count}
           D == DOMAIN s.types
           All == {OfType(u) : u \in D}
           f == [u \in D |-> OfType(u)]
<1>1. Elements(s.types) = UNION All
  BY DEF Elements
<1>2. ASSUME NEW u \in D PROVE IsFiniteSet(OfType(u))
  <2>1. s.types[u].count \in Nat
    BY TypesAre
  <2> QED BY <2>1, NumbersOfType
<1>3. IsFiniteSet(D)
  <2>1. D = 1..Len(s.types) /\ Len(s.types) \in Nat
    BY ShelfIs
  <2> QED BY <2>1, FS_Interval
<1>4. IsFiniteSet(All)
  <2> HIDE DEF D, OfType
  <2>1. f \in Surjection(D, All)
    BY DEF Surjection
  <2> HIDE DEF f, All
  <2> QED BY <1>3, <2>1, FS_Surjection
<1>5. \A T \in All : IsFiniteSet(T)
  <2> HIDE DEF OfType
  <2> QED BY <1>2
<1> HIDE DEF All
<1> QED BY <1>1, <1>4, <1>5, FS_UNION

\* Where a header's descriptors begin.
LEMMA PlaceIs ==
  ASSUME NEW s, IsShelf(s)
  PROVE  /\ \A t : IsFiniteSet(Below(s, t)) /\ Place(s, t) \in Nat
         /\ Place(s, 1) = 0
         /\ \A t \in DOMAIN s.types :
              Place(s, t + 1) = IF t \in Headed(s) THEN Place(s, t) + s.types[t].count
                                ELSE Place(s, t)
<1>1. \A t : IsFiniteSet(Below(s, t)) /\ Place(s, t) \in Nat
  <2> TAKE t
  <2>1. Below(s, t) \in SUBSET Elements(s.types)
    BY DEF Below
  <2>2. IsFiniteSet(Below(s, t))
    BY <2>1, ElementsAreFinite, FS_Subset
  <2> QED BY <2>2, FS_CardinalityType DEF Place
<1>2. Place(s, 1) = 0
  <2>1. Below(s, 1) = {}
    BY ElementIs DEF Below
  <2> QED BY <2>1, FS_EmptySet DEF Place
<1>3. ASSUME NEW t \in DOMAIN s.types
      PROVE  Place(s, t + 1) = IF t \in Headed(s) THEN Place(s, t) + s.types[t].count
                               ELSE Place(s, t)
  <2>0. t \in Nat \ {0} /\ s.types[t].count \in Nat
    <3>1. DOMAIN s.types = 1..Len(s.types) /\ Len(s.types) \in Nat
      BY ShelfIs
    <3> QED BY <3>1, TypesAre
  <2>1. CASE t \notin Headed(s)
    <3>1. Below(s, t + 1) = Below(s, t)
      BY <2>0, <2>1, ElementIs DEF Below
    <3> QED BY <2>1, <3>1 DEF Place
  <2>2. CASE t \in Headed(s)
    <3> DEFINE OfType == {<<t, e>> : e \in 1..s.types[t].count}
    <3>1. \A x \in OfType : x \in Elements(s.types) /\ x[1] = t
      BY ElementsAre
    <3>2. \A x \in Elements(s.types) : x[1] = t => x \in OfType
      BY ElementIs
    <3>3. IsFiniteSet(OfType) /\ Cardinality(OfType) = s.types[t].count
      BY <2>0, NumbersOfType
    <3> HIDE DEF OfType
    <3>4. Below(s, t + 1) = Below(s, t) \cup OfType
      <4>1. \A x \in Elements(s.types) : x[1] \in Nat
        BY ElementIs
      <4> QED BY <2>0, <2>2, <3>1, <3>2, <4>1 DEF Below
    <3>5. Below(s, t) \cap OfType = {}
      BY <2>0, <3>1 DEF Below
    <3>6. Cardinality(Below(s, t) \cap OfType) = 0
      BY <3>5, FS_EmptySet
    <3>7. Cardinality(Below(s, t) \cup OfType) =
            Cardinality(Below(s, t)) + Cardinality(OfType) - Cardinality(Below(s, t) \cap OfType)
      BY <1>1, <3>3, FS_Union
    <3>8. Place(s, t) \in Nat
      BY <1>1
    <3>9. Place(s, t + 1) = Place(s, t) + Cardinality(OfType) - 0
      BY <3>4, <3>6, <3>7 DEF Place
    <3> QED BY <2>0, <2>2, <3>3, <3>8, <3>9
  <2> QED BY <2>1, <2>2
<1> QED BY <1>1, <1>2, <1>3

\* The descriptors of one header are before those of the next.
LEMMA PlacesFollow ==
  ASSUME NEW s, IsShelf(s), NEW t \in Headed(s), NEW u \in Nat, t < u
  PROVE  Place(s, t) + s.types[t].count <= Place(s, u)
<1>1. t \in DOMAIN s.types /\ t \in Nat
  <2>1. DOMAIN s.types = 1..Len(s.types) /\ Len(s.types) \in Nat
    BY ShelfIs
  <2> QED BY <2>1 DEF Headed
<1>2. Below(s, t + 1) \in SUBSET Below(s, u)
  <2>1. \A x \in Elements(s.types) : x[1] \in Nat
    BY ElementIs
  <2> QED BY <1>1, <2>1 DEF Below
<1>3. Place(s, t + 1) <= Place(s, u)
  BY <1>2, PlaceIs, FS_Subset DEF Place
<1> QED BY <1>1, <1>3, PlaceIs

\* Every position before the descriptors of a header is under an earlier one.
LEMMA PositionsAreCovered ==
  ASSUME NEW s, IsShelf(s), NEW u \in DOMAIN s.types, NEW j \in 1..Place(s, u)
  PROVE  \E v \in Headed(s) :
           v < u /\ Place(s, v) < j /\ j <= Place(s, v) + s.types[v].count
<1> DEFINE n == Len(s.types)
           Covered(w) == \A i \in 1..Place(s, w) : \E v \in Headed(s) :
                           v < w /\ Place(s, v) < i /\ i <= Place(s, v) + s.types[v].count
           H == {k \in 0..n : Covered(k + 1)}
<1>1. n \in Nat /\ DOMAIN s.types = 1..n
  BY ShelfIs
<1>2. \A w : Place(s, w) \in Nat
  BY PlaceIs
<1>3. Place(s, 0 + 1) = 0
  BY PlaceIs
<1>4. \A t \in 1..n : /\ s.types[t].count \in Nat
                      /\ Place(s, t + 1) = IF t \in Headed(s) THEN Place(s, t) + s.types[t].count
                                           ELSE Place(s, t)
  BY <1>1, PlaceIs, TypesAre
<1>5. \A v \in Headed(s) : v \in 1..n
  BY <1>1 DEF Headed
<1> HIDE DEF n
<1>6. 0 \in H
  BY <1>1, <1>3
<1>7. ASSUME NEW k \in 0..(n - 1), k \in H
      PROVE  k + 1 \in H
  <2>1. k + 1 \in 1..n /\ k + 1 \in 0..n
    BY <1>1
  <2>2. ASSUME NEW i \in 1..Place(s, (k + 1) + 1)
        PROVE  \E v \in Headed(s) : v < (k + 1) + 1 /\ Place(s, v) < i
                                    /\ i <= Place(s, v) + s.types[v].count
    <3>1. CASE i <= Place(s, k + 1)
      <4>1. i \in 1..Place(s, k + 1)
        BY <1>2, <2>2, <3>1
      <4>2. PICK v \in Headed(s) : v < k + 1 /\ Place(s, v) < i
                                   /\ i <= Place(s, v) + s.types[v].count
        BY <1>7, <4>1
      <4>3. v < (k + 1) + 1
        BY <1>5, <2>1, <4>2
      <4> QED BY <4>2, <4>3
    <3>2. CASE i > Place(s, k + 1)
      <4>1. k + 1 \in Headed(s)
        BY <1>2, <1>4, <2>1, <2>2, <3>2
      <4>2. i <= Place(s, k + 1) + s.types[k + 1].count /\ k + 1 < (k + 1) + 1
        BY <1>2, <1>4, <2>1, <2>2, <4>1
      <4> QED BY <3>2, <4>1, <4>2
    <3> QED BY <1>2, <2>2, <3>1, <3>2
  <2> QED BY <2>1, <2>2
<1>8. n \in H /\ \A k \in 0..n : k \in H
  <2> SUFFICES ASSUME NEW k \in 0..n PROVE k \in H
    BY <1>1
  <2> DEFINE G == H \cap (0..k)
  <2>1. G \in SUBSET (0..k) /\ 0 \in G /\ k \in Nat
    BY <1>1, <1>6
  <2>2. \A i \in 0..(k - 1) : i \in G => i + 1 \in G
    BY <1>1, <1>7
  <2> HIDE DEF G, H
  <2>3. k \in G
    BY <2>1, <2>2, LastReached
  <2> QED BY <2>3 DEF G
<1>9. u - 1 \in 0..n /\ (u - 1) + 1 = u
  BY <1>1
<1>10. u - 1 \in H
  BY <1>8, <1>9
<1> QED BY <1>9, <1>10

\* A list has the elements of a set, each after those before it.
Lists(w, X) ==
  /\ \A i, j \in DOMAIN w : i < j => Before(w[i], w[j])
  /\ \A i \in DOMAIN w : w[i] \in X
  /\ \A x \in X : \E i \in DOMAIN w : w[i] = x

\* The lists of two sets, one wholly before the other, joined.
LEMMA ListsJoin ==
  ASSUME NEW S, NEW v \in Seq(S), NEW w \in Seq(S), NEW X, NEW Y,
         Lists(v, X), Lists(w, Y), \A x \in X, y \in Y : Before(x, y)
  PROVE  Lists(v \o w, X \cup Y)
<1> DEFINE m == Len(v)
           n == Len(w)
           vw == v \o w
<1>1. m \in Nat /\ n \in Nat /\ DOMAIN v = 1..m /\ DOMAIN w = 1..n
  OBVIOUS
<1>2. /\ vw \in Seq(S) /\ Len(vw) = m + n
      /\ \A i \in 1..(m + n) : vw[i] = IF i <= m THEN v[i] ELSE w[i - m]
  BY ConcatProperties
<1>3. DOMAIN vw = 1..(m + n)
  BY <1>2
<1> HIDE DEF m, n, vw
<1>4. \A i \in 1..(m + n) : \/ i \in 1..m /\ vw[i] = v[i]
                            \/ i > m /\ i - m \in 1..n /\ vw[i] = w[i - m]
  BY <1>1, <1>2
<1>5. \A i \in 1..m : i \in 1..(m + n) /\ vw[i] = v[i]
  BY <1>1, <1>2
<1>6. \A i \in 1..n : m + i \in 1..(m + n) /\ vw[m + i] = w[i]
  <2> TAKE i \in 1..n
  <2>1. m + i \in 1..(m + n) /\ ~(m + i <= m) /\ (m + i) - m = i
    BY <1>1
  <2> QED BY <1>2, <2>1
<1>7. ASSUME NEW i \in DOMAIN vw, NEW j \in DOMAIN vw, i < j
      PROVE  Before(vw[i], vw[j])
  <2>1. i \in 1..(m + n) /\ j \in 1..(m + n)
    BY <1>3
  <2>2. CASE j \in 1..m /\ vw[j] = v[j]
    <3>1. i \in 1..m /\ vw[i] = v[i]
      BY <1>1, <1>5, <1>7, <2>1, <2>2
    <3> QED BY <1>1, <1>7, <2>2, <3>1 DEF Lists
  <2>3. CASE j > m /\ j - m \in 1..n /\ vw[j] = w[j - m]
    <3>1. CASE i \in 1..m /\ vw[i] = v[i]
      BY <1>1, <2>3, <3>1 DEF Lists
    <3>2. CASE i > m /\ i - m \in 1..n /\ vw[i] = w[i - m]
      <4>1. i - m < j - m
        BY <1>1, <1>7, <2>1
      <4> QED BY <1>1, <2>3, <3>2, <4>1 DEF Lists
    <3> QED BY <1>4, <2>1, <3>1, <3>2
  <2> QED BY <1>4, <2>1, <2>2, <2>3
<1>8. \A i \in DOMAIN vw : vw[i] \in X \cup Y
  BY <1>1, <1>3, <1>4 DEF Lists
<1>9. \A x \in X \cup Y : \E i \in DOMAIN vw : vw[i] = x
  BY <1>1, <1>3, <1>5, <1>6 DEF Lists
<1> QED BY <1>7, <1>8, <1>9 DEF Lists, vw

\* The firmware's list: what is sent, in the order of types and numbers.
LEMMA EmittedLists ==
  ASSUME NEW s, IsShelf(s)
  PROVE  Lists(Emitted(s), SentElements(s))
<1> DEFINE X == Elements(s.types)
           n == Len(s.types)
           count(t) == s.types[t].count
           piece(t, e) == IF Sent(s, <<t, e>>) THEN <<<<t, e>>>> ELSE <<>>
           pieces(t) == [e \in 1..count(t) |-> piece(t, e)]
           Of(t) == FlattenSeq(pieces(t))
           UpTo(t, e) == {x \in SentElements(s) : x[1] = t /\ x[2] <= e}
           Types(t) == {x \in SentElements(s) : x[1] <= t}
<1>1. n \in Nat /\ DOMAIN s.types = 1..n /\ \A t \in 1..n : count(t) \in Nat
  BY ShelfIs, TypesAre
<1>2. \A x \in SentElements(s) : /\ x \in X /\ Sent(s, x) /\ x = <<x[1], x[2]>>
                                 /\ x[1] \in 1..n /\ x[2] \in 1..count(x[1])
  BY <1>1, ElementIs DEF SentElements
<1>3. \A t \in 1..n : \A e \in 1..count(t) : <<t, e>> \in X
  BY <1>1, ElementsAre
<1>4. \A t \in 1..n : \A e \in 1..count(t) : piece(t, e) \in Seq(X)
  <2> HIDE DEF X
  <2>1. <<>> \in Seq(X) /\ \A x \in X : <<x>> \in Seq(X)
    OBVIOUS
  <2> QED BY <1>3, <2>1
<1>5. \A x \in X : x \in SentElements(s) <=> Sent(s, x)
  BY DEF SentElements
<1> HIDE DEF X, n, count
<1>6. ASSUME NEW t \in 1..n
      PROVE  Of(t) \in Seq(X) /\ Lists(Of(t), UpTo(t, count(t)))
  <2> DEFINE R == {r \in (0..count(t)) \X Seq(X) : Lists(r[2], UpTo(t, r[1]))}
  <2>1. pieces(t) \in Seq(Seq(X)) /\ Len(pieces(t)) = count(t)
        /\ \A e \in 1..count(t) : pieces(t)[e] = piece(t, e)
    <3>1. count(t) \in Nat /\ \A e \in 1..count(t) : piece(t, e) \in Seq(X)
      BY <1>1, <1>4
    <3> HIDE DEF piece
    <3> QED BY <3>1
  <2>2. <<0, <<>>>> \in R
    <3>1. UpTo(t, 0) = {}
      BY <1>1, <1>2
    <3>2. <<>> \in Seq(X) /\ DOMAIN <<>> = {} /\ 0 \in 0..count(t)
      BY <1>1
    <3> HIDE DEF UpTo
    <3>3. Lists(<<>>, UpTo(t, 0))
      BY <3>1, <3>2 DEF Lists
    <3> QED BY <3>2, <3>3
  <2>3. ASSUME NEW e \in 1..count(t), NEW w \in Seq(X), <<e - 1, w>> \in R
        PROVE  <<e, w \o pieces(t)[e]>> \in R
    <3> DEFINE new == IF Sent(s, <<t, e>>) THEN {<<t, e>>} ELSE {}
    <3>1. Lists(w, UpTo(t, e - 1)) /\ e \in Nat \ {0} /\ e \in 0..count(t)
      <4>1. e \in Nat \ {0} /\ e \in 0..count(t)
        BY <1>1
      <4> HIDE DEF UpTo
      <4>2. Lists(<<e - 1, w>>[2], UpTo(t, <<e - 1, w>>[1]))
        BY <2>3
      <4> QED BY <4>1, <4>2
    <3>2. Lists(piece(t, e), new)
      <4>1. CASE Sent(s, <<t, e>>)
        <5>1. piece(t, e) = <<<<t, e>>>> /\ new = {<<t, e>>}
          BY <4>1
        <5>2. DOMAIN piece(t, e) = {1} /\ piece(t, e)[1] = <<t, e>>
          BY <5>1
        <5> HIDE DEF piece, new
        <5> QED BY <5>1, <5>2 DEF Lists
      <4>2. CASE ~Sent(s, <<t, e>>)
        <5>1. piece(t, e) = <<>> /\ new = {} /\ DOMAIN <<>> = {}
          BY <4>2
        <5> HIDE DEF piece, new
        <5> QED BY <5>1 DEF Lists
      <4> QED BY <4>1, <4>2
    <3>3. \A x \in UpTo(t, e - 1), y \in new : Before(x, y)
      BY <1>1, <1>2, <3>1 DEF Before
    <3>4. UpTo(t, e) = UpTo(t, e - 1) \cup new
      <4>1. \A x \in new : x \in SentElements(s) /\ x = <<t, e>> /\ Sent(s, x)
        BY <1>3, <1>5
      <4>2. \A x \in UpTo(t, e) : x[2] # e => x \in UpTo(t, e - 1)
        BY <1>1, <1>2, <3>1
      <4>3. \A x \in UpTo(t, e) : x[2] = e => x \in new
        BY <1>2
      <4>4. \A x \in UpTo(t, e - 1) : x \in UpTo(t, e)
        BY <1>1, <1>2, <3>1
      <4>5. \A x \in new : x \in UpTo(t, e)
        BY <3>1, <4>1
      <4> HIDE DEF UpTo, new
      <4> QED BY <4>2, <4>3, <4>4, <4>5
    <3> HIDE DEF new, UpTo
    <3>5. piece(t, e) \in Seq(X)
      BY <1>4
    <3> HIDE DEF piece
    <3>6. Lists(w \o piece(t, e), UpTo(t, e))
      BY <3>1, <3>2, <3>3, <3>4, <3>5, ListsJoin
    <3>7. w \o piece(t, e) \in Seq(X)
      BY <3>5, ConcatProperties
    <3> QED BY <2>1, <3>1, <3>6, <3>7
  <2> HIDE DEF pieces
  <2>4. <<Len(pieces(t)), Of(t)>> \in R
    <3> HIDE DEF R
    <3>1. \A e \in 1..Len(pieces(t)) : \A w \in Seq(X) :
            <<e - 1, w>> \in R => <<e, w \o pieces(t)[e]>> \in R
      BY <2>1, <2>3
    <3> QED BY <2>1, <2>2, <3>1, FlattenGrows
  <2> HIDE DEF Of, UpTo
  <2> QED BY <2>1, <2>4
<1> DEFINE all == [t \in 1..n |-> Of(t)]
           R == {r \in (0..n) \X Seq(X) : Lists(r[2], Types(r[1]))}
<1> HIDE DEF Of, UpTo
<1>7. all \in Seq(Seq(X)) /\ Len(all) = n /\ \A t \in 1..n : all[t] = Of(t)
  BY <1>1, <1>6
<1>8. <<0, <<>>>> \in R
  <2>1. Types(0) = {}
    BY <1>1, <1>2
  <2>2. <<>> \in Seq(X) /\ DOMAIN <<>> = {} /\ 0 \in 0..n
    BY <1>1
  <2> HIDE DEF Types
  <2>3. Lists(<<>>, Types(0))
    BY <2>1, <2>2 DEF Lists
  <2> QED BY <2>2, <2>3
<1>9. ASSUME NEW t \in 1..n, NEW w \in Seq(X), <<t - 1, w>> \in R
      PROVE  <<t, w \o all[t]>> \in R
  <2>1. Lists(w, Types(t - 1)) /\ t \in Nat \ {0} /\ t \in 0..n
    <3>1. t \in Nat \ {0} /\ t \in 0..n
      BY <1>1
    <3> HIDE DEF Types
    <3>2. Lists(<<t - 1, w>>[2], Types(<<t - 1, w>>[1]))
      BY <1>9
    <3> QED BY <3>1, <3>2
  <2>2. \A x \in UpTo(t, count(t)) : x \in SentElements(s) /\ x[1] = t
    BY DEF UpTo
  <2>3. \A x \in SentElements(s) : x[1] = t => x \in UpTo(t, count(t))
    BY <1>1, <1>2 DEF UpTo
  <2>4. Types(t) = Types(t - 1) \cup UpTo(t, count(t))
    BY <1>1, <1>2, <2>1, <2>2, <2>3
  <2>5. \A x \in Types(t - 1), y \in UpTo(t, count(t)) : Before(x, y)
    BY <1>1, <1>2, <2>1, <2>2 DEF Before
  <2> HIDE DEF Types
  <2>6. Of(t) \in Seq(X) /\ Lists(Of(t), UpTo(t, count(t)))
    BY <1>6
  <2>7. Lists(w \o Of(t), Types(t))
    BY <2>1, <2>4, <2>5, <2>6, ListsJoin
  <2>8. w \o Of(t) \in Seq(X)
    BY <2>6, ConcatProperties
  <2> QED BY <1>7, <2>1, <2>7, <2>8
<1> HIDE DEF all
<1>10. <<Len(all), FlattenSeq(all)>> \in R
  <2> HIDE DEF R
  <2>1. \A t \in 1..Len(all) : \A w \in Seq(X) :
          <<t - 1, w>> \in R => <<t, w \o all[t]>> \in R
    BY <1>7, <1>9
  <2> QED BY <1>7, <1>8, <2>1, FlattenGrows
<1>11. Lists(FlattenSeq(all), Types(n))
  <2> HIDE DEF Types
  <2> QED BY <1>7, <1>10
<1>12. Types(n) = SentElements(s)
  BY <1>1, <1>2
<1>13. Emitted(s) = FlattenSeq(all)
  BY <1>1 DEF Emitted, all, Of, pieces, piece, count
<1> HIDE DEF Types
<1> QED BY <1>11, <1>12, <1>13

\* The descriptor at a place under the header of a type.
At(s, t, p) == Emitted(s)[Place(s, t) + p]

NotAfter(s, x) == {y \in SentElements(s) : y = x \/ Before(y, x)}

\* The list has the sent elements, in their order.
LEMMA SentIs ==
  ASSUME NEW s, IsShelf(s)
  PROVE  /\ Emitted(s) \in Seq(Elements(s.types)) /\ Len(Emitted(s)) \in Nat
         /\ DOMAIN Emitted(s) = 1..Len(Emitted(s))
         /\ \A i \in 1..Len(Emitted(s)) : Emitted(s)[i] \in SentElements(s)
         /\ \A x \in SentElements(s) :
              /\ x \in Elements(s.types) /\ x[1] \in Headed(s)
              /\ \E i \in 1..Len(Emitted(s)) : Emitted(s)[i] = x
         /\ \A i, j \in 1..Len(Emitted(s)) : i < j => Before(Emitted(s)[i], Emitted(s)[j])
<1>1. Emitted(s) \in Seq(Elements(s.types)) /\ Lists(Emitted(s), SentElements(s))
  BY EmittedAreElements, EmittedLists
<1>2. Len(Emitted(s)) \in Nat /\ DOMAIN Emitted(s) = 1..Len(Emitted(s))
  <2>1. \A q \in Seq(Elements(s.types)) : Len(q) \in Nat /\ DOMAIN q = 1..Len(q)
    OBVIOUS
  <2> QED BY <1>1, <2>1
<1>3. \A x \in SentElements(s) : x \in Elements(s.types) /\ x[1] \in Headed(s)
  BY ElementIs DEF SentElements, Sent, Headed
<1> QED BY <1>1, <1>2, <1>3 DEF Lists

\* The rank of an element is its position.
LEMMA RankIs ==
  ASSUME NEW s, IsShelf(s), NEW j \in 1..Len(Emitted(s))
  PROVE  /\ IsFiniteSet(NotAfter(s, Emitted(s)[j]))
         /\ Cardinality(NotAfter(s, Emitted(s)[j])) = j
<1> DEFINE m == Len(Emitted(s))
           E == Emitted(s)
           f == [i \in 1..j |-> E[i]]
           N == NotAfter(s, E[j])
<1>1. /\ m \in Nat /\ \A i \in 1..m : E[i] \in SentElements(s)
      /\ \A i, k \in 1..m : i < k => Before(E[i], E[k])
      /\ \A x \in SentElements(s) : \E i \in 1..m : E[i] = x
  BY SentIs
<1>2. \A x \in SentElements(s) : x[1] \in Nat /\ x[2] \in Nat
  BY SentIs, ElementIs
<1> HIDE DEF m, E
<1>3. j \in 1..m /\ \A i \in 1..j : i \in 1..m
  BY <1>1 DEF m
<1>4. \A i, k \in 1..m : i < k => E[i] # E[k] /\ ~Before(E[k], E[i])
  BY <1>1, <1>2 DEF Before
<1>5. \A i \in 1..j : E[i] \in N
  BY <1>1, <1>3 DEF NotAfter
<1>6. \A y \in N : \E i \in 1..j : E[i] = y
  <2> TAKE y \in N
  <2>1. y \in SentElements(s) /\ (y = E[j] \/ Before(y, E[j]))
    BY DEF NotAfter
  <2>2. PICK i \in 1..m : E[i] = y
    BY <1>1, <2>1
  <2>3. ~(j < i)
    BY <1>3, <1>4, <2>1, <2>2
  <2> QED BY <1>1, <1>3, <2>2, <2>3
<1>7. f \in Bijection(1..j, N)
  <2>1. f \in [1..j -> N]
    <3> HIDE DEF N
    <3> QED BY <1>5
  <2>2. \A i, k \in 1..j : f[i] = f[k] => i = k
    <3> TAKE i, k \in 1..j
    <3>1. i \in 1..m /\ k \in 1..m /\ (i < k \/ k < i \/ i = k)
      BY <1>3
    <3> QED BY <1>4, <3>1
  <2>3. \A y \in N : \E i \in 1..j : f[i] = y
    <3> HIDE DEF N
    <3> QED BY <1>6
  <2> HIDE DEF f, N
  <2> QED BY <2>1, <2>2, <2>3 DEF Bijection, Injection, Surjection, IsInjective
<1>8. IsFiniteSet(1..j) /\ Cardinality(1..j) = j
  BY FS_Interval
<1>9. ExistsBijection(1..j, N)
  <2> HIDE DEF f, N
  <2> QED BY <1>7 DEF ExistsBijection
<1> HIDE DEF N
<1> QED BY <1>8, <1>9, FS_Bijection DEF N, E

\* What is before a place under a header, all of it.
UpTo(s, t, p) == Below(s, t) \cup {<<t, e>> : e \in 1..p}

\* How many elements go up to the p-th of a type: the position of that place.
LEMMA UpToIs ==
  ASSUME NEW s, IsShelf(s), NEW t \in Headed(s), NEW p \in Nat
  PROVE  IsFiniteSet(UpTo(s, t, p)) /\ Cardinality(UpTo(s, t, p)) = Place(s, t) + p
<1> DEFINE OfType == {<<t, e>> : e \in 1..p}
<1>0. t \in Nat
  <2>1. DOMAIN s.types = 1..Len(s.types) /\ Len(s.types) \in Nat
    BY ShelfIs
  <2> QED BY <2>1 DEF Headed
<1>1. IsFiniteSet(OfType) /\ Cardinality(OfType) = p
  BY NumbersOfType
<1>2. IsFiniteSet(Below(s, t)) /\ Place(s, t) \in Nat
  BY PlaceIs
<1>3. Below(s, t) \cap OfType = {}
  BY <1>0 DEF Below
<1> HIDE DEF OfType
<1>4. Cardinality(Below(s, t) \cap OfType) = 0
  BY <1>3, FS_EmptySet
<1>5. /\ IsFiniteSet(Below(s, t) \cup OfType)
      /\ Cardinality(Below(s, t) \cup OfType) =
           Cardinality(Below(s, t)) + Cardinality(OfType) - Cardinality(Below(s, t) \cap OfType)
  BY <1>1, <1>2, FS_Union
<1>6. UpTo(s, t, p) = Below(s, t) \cup OfType
  BY DEF UpTo, OfType
<1>7. Cardinality(UpTo(s, t, p)) = Place(s, t) + Cardinality(OfType) - 0
  BY <1>4, <1>5, <1>6 DEF Place
<1> QED BY <1>1, <1>2, <1>5, <1>6, <1>7

\* A descriptor is never printed in the place of a later element: what is left out moves
\* the others up.
LEMMA NotEarlier ==
  ASSUME NEW s, IsShelf(s), NEW t \in Headed(s), NEW p \in 1..s.types[t].count,
         Place(s, t) + p <= Len(Emitted(s))
  PROVE  /\ At(s, t, p) \in SentElements(s) /\ At(s, t, p) \in Elements(s.types)
         /\ ~Before(At(s, t, p), <<t, p>>)
<1> DEFINE x == At(s, t, p)
           j == Place(s, t) + p
<1>0. p \in Nat \ {0} /\ t \in DOMAIN s.types /\ t \in Nat /\ p - 1 \in Nat
  <2>1. DOMAIN s.types = 1..Len(s.types) /\ Len(s.types) \in Nat
    BY ShelfIs
  <2> QED BY <2>1 DEF Headed
<1>1. j \in 1..Len(Emitted(s)) /\ Place(s, t) \in Nat
  BY <1>0, PlaceIs, SentIs
<1>2. x = Emitted(s)[j] /\ x \in SentElements(s) /\ x \in Elements(s.types)
  BY <1>1, SentIs DEF At
<1>3. Cardinality(NotAfter(s, x)) = j
  BY <1>1, <1>2, RankIs
<1>4. ASSUME Before(x, <<t, p>>)
      PROVE  FALSE
  <2>1. \A y \in SentElements(s) : /\ y \in Elements(s.types) /\ y[1] \in Headed(s)
                                   /\ y = <<y[1], y[2]>> /\ y[1] \in Nat /\ y[2] \in Nat \ {0}
    BY SentIs, ElementIs
  <2>2. NotAfter(s, x) \in SUBSET UpTo(s, t, p - 1)
    <3> HIDE DEF x
    <3> SUFFICES ASSUME NEW y \in NotAfter(s, x) PROVE y \in UpTo(s, t, p - 1)
      OBVIOUS
    <3>1. y \in SentElements(s) /\ (y = x \/ Before(y, x)) /\ x \in SentElements(s)
      BY <1>2 DEF NotAfter
    <3>2. y[1] < t \/ (y[1] = t /\ y[2] < p)
      BY <1>0, <1>4, <2>1, <3>1 DEF Before
    <3>3. CASE y[1] < t
      BY <2>1, <3>1, <3>3 DEF UpTo, Below
    <3>4. CASE y[1] = t /\ y[2] < p
      <4>1. y = <<t, y[2]>> /\ y[2] \in 1..(p - 1)
        BY <1>0, <2>1, <3>1, <3>4
      <4> QED BY <4>1 DEF UpTo
    <3> QED BY <3>2, <3>3, <3>4
  <2>3. IsFiniteSet(UpTo(s, t, p - 1)) /\ Cardinality(UpTo(s, t, p - 1)) = Place(s, t) + (p - 1)
    BY <1>0, UpToIs
  <2>4. Cardinality(NotAfter(s, x)) <= Cardinality(UpTo(s, t, p - 1))
    BY <2>2, <2>3, FS_Subset
  <2> HIDE DEF x, j
  <2>5. j <= Place(s, t) + (p - 1)
    BY <1>3, <2>3, <2>4
  <2> QED BY <1>0, <1>1, <2>5 DEF j
<1> QED BY <1>2, <1>4

\* What is sent and has nothing missing before it is in its own place.
LEMMA InItsPlace ==
  ASSUME NEW s, IsShelf(s), NEW t \in Headed(s), NEW p \in 1..s.types[t].count,
         \A x \in UpTo(s, t, p) : x \in SentElements(s)
  PROVE  Place(s, t) + p <= Len(Emitted(s)) /\ At(s, t, p) = <<t, p>>
<1>0. p \in Nat \ {0} /\ t \in DOMAIN s.types /\ t \in Nat
  <2>1. DOMAIN s.types = 1..Len(s.types) /\ Len(s.types) \in Nat
    BY ShelfIs
  <2> QED BY <2>1 DEF Headed
<1>1. <<t, p>> \in UpTo(s, t, p)
  BY <1>0 DEF UpTo
<1>2. PICK i \in 1..Len(Emitted(s)) : Emitted(s)[i] = <<t, p>>
  BY <1>1, SentIs
<1>3. NotAfter(s, <<t, p>>) = UpTo(s, t, p)
  <2>1. \A y \in SentElements(s) : /\ y \in Elements(s.types) /\ y[1] \in Headed(s)
                                   /\ y = <<y[1], y[2]>> /\ y[1] \in Nat /\ y[2] \in Nat \ {0}
    BY SentIs, ElementIs
  <2>2. ASSUME NEW y \in NotAfter(s, <<t, p>>) PROVE y \in UpTo(s, t, p)
    <3>1. y \in SentElements(s) /\ (y = <<t, p>> \/ Before(y, <<t, p>>))
      BY DEF NotAfter
    <3>2. y[1] < t \/ (y[1] = t /\ y[2] <= p)
      BY <1>0, <2>1, <3>1 DEF Before
    <3>3. CASE y[1] < t
      BY <2>1, <3>1, <3>3 DEF UpTo, Below
    <3>4. CASE y[1] = t /\ y[2] <= p
      <4>1. y = <<t, y[2]>> /\ y[2] \in 1..p
        BY <1>0, <2>1, <3>1, <3>4
      <4> QED BY <4>1 DEF UpTo
    <3> QED BY <3>2, <3>3, <3>4
  <2>3. ASSUME NEW y \in UpTo(s, t, p) PROVE y \in NotAfter(s, <<t, p>>)
    <3>1. y \in SentElements(s)
      OBVIOUS
    <3>2. y[1] < t \/ (\E e \in 1..p : y = <<t, e>>)
      BY DEF UpTo, Below
    <3>3. y = <<t, p>> \/ Before(y, <<t, p>>)
      BY <1>0, <2>1, <3>1, <3>2 DEF Before
    <3> QED BY <3>1, <3>3 DEF NotAfter
  <2> QED BY <2>2, <2>3
<1>4. Cardinality(NotAfter(s, <<t, p>>)) = i
  BY <1>2, RankIs
<1>5. Cardinality(UpTo(s, t, p)) = Place(s, t) + p
  BY <1>0, UpToIs
<1>6. i = Place(s, t) + p
  BY <1>3, <1>4, <1>5
<1> QED BY <1>2, <1>6, SentIs DEF At

\* After an element comes the next of its type, if it is sent.
LEMMA NextFollows ==
  ASSUME NEW s, IsShelf(s), NEW i \in 1..Len(Emitted(s)), NEW t, NEW e \in Nat,
         Emitted(s)[i] = <<t, e>>, <<t, e + 1>> \in SentElements(s)
  PROVE  i + 1 \in 1..Len(Emitted(s)) /\ Emitted(s)[i + 1] = <<t, e + 1>>
<1> DEFINE E == Emitted(s)
           m == Len(E)
<1>1. /\ m \in Nat /\ \A k \in 1..m : E[k] \in SentElements(s)
      /\ \A h, k \in 1..m : h < k => Before(E[h], E[k])
      /\ \A x \in SentElements(s) : \E k \in 1..m : E[k] = x
  BY SentIs
<1>2. \A x \in SentElements(s) : x[1] \in Nat /\ x[2] \in Nat
  BY SentIs, ElementIs
<1>3. i \in 1..m /\ E[i] = <<t, e>>
  OBVIOUS
<1> HIDE DEF E, m
<1>4. PICK k \in 1..m : E[k] = <<t, e + 1>>
  BY <1>1
<1>5. t \in Nat
  BY <1>1, <1>2, <1>3
<1>6. ~(k < i) /\ k # i
  BY <1>1, <1>3, <1>4, <1>5 DEF Before
<1>7. ~(i + 1 < k)
  <2> SUFFICES ASSUME i + 1 < k PROVE FALSE
    OBVIOUS
  <2>1. i + 1 \in 1..m /\ i < i + 1
    BY <1>1, <1>3
  <2>2. Before(E[i], E[i + 1]) /\ Before(E[i + 1], E[k]) /\ E[i + 1] \in SentElements(s)
    BY <1>1, <1>3, <1>4, <2>1
  <2> QED BY <1>2, <1>3, <1>4, <1>5, <2>2 DEF Before
<1>8. k = i + 1
  BY <1>1, <1>3, <1>6, <1>7
<1> QED BY <1>4, <1>8 DEF E, m

SilentIn(s) == \E x \in BaysOf(s.types) : s.number[x] = Nothing

LackingIn(s) == (s.omitted # {} /\ ~s.noticed) \/ (s.sparse /\ SilentIn(s))

IsBayType(s, t) == s.types[t].type \in BAY_ELEMENT_TYPES

\* Headers, types and bays of a shelf.
LEMMA TypesOf ==
  ASSUME NEW s, IsShelf(s)
  PROVE  /\ Len(s.types) \in Nat /\ DOMAIN s.types = 1..Len(s.types)
         /\ \A t \in Headed(s) : t \in DOMAIN s.types /\ t \in Nat \ {0}
         /\ \A t \in DOMAIN s.types : IsBayType(s, t) => t \in Headed(s) /\ t \notin s.omitted
         /\ \A x \in BaysOf(s.types) : x \in Elements(s.types) /\ IsBayType(s, x[1])
         /\ \A x \in Elements(s.types) : IsBayType(s, x[1]) => x \in BaysOf(s.types)
<1>1. Len(s.types) \in Nat /\ DOMAIN s.types = 1..Len(s.types) /\ s \in ShelvesOf(s.types)
  BY ShelfIs
<1>2. s.omitted \in SUBSET {t \in DOMAIN s.types : s.types[t].type \in Optional}
  BY <1>1 DEF ShelvesOf
<1> QED BY <1>1, <1>2 DEF Headed, IsBayType, BAY_ELEMENT_TYPES, Optional, BaysOf

\* Where the firmware leaves nothing out unnoticed, every descriptor is under its own header.
LEMMA NothingMoved ==
  ASSUME NEW s, IsShelf(s), ~LackingIn(s), NEW t \in Headed(s), NEW p \in 1..s.types[t].count
  PROVE  Place(s, t) + p <= Len(Emitted(s)) /\ At(s, t, p) = <<t, p>>
<1>1. \A x \in Elements(s.types) : x[1] \in Headed(s) => x \in SentElements(s)
  <2> SUFFICES ASSUME NEW x \in Elements(s.types), x[1] \in Headed(s) PROVE Sent(s, x)
    BY DEF SentElements
  <2>1. x[1] \notin s.omitted
    BY DEF LackingIn, Headed
  <2>2. ~(s.sparse /\ x \in BaysOf(s.types) /\ s.number[x] = Nothing)
    BY DEF LackingIn, SilentIn
  <2> QED BY <2>1, <2>2 DEF Sent
<1>2. t \in DOMAIN s.types /\ s.types[t].count \in Nat
  BY TypesOf, TypesAre
<1>3. \A x \in UpTo(s, t, p) : x \in SentElements(s)
  <2> SUFFICES ASSUME NEW x \in UpTo(s, t, p) PROVE x \in SentElements(s)
    OBVIOUS
  <2>1. CASE x \in Below(s, t)
    BY <1>1, <2>1 DEF Below
  <2>2. CASE x \in {<<t, e>> : e \in 1..p}
    <3>1. PICK e \in 1..p : x = <<t, e>>
      BY <2>2
    <3>2. e \in 1..s.types[t].count /\ x[1] = t
      BY <1>2, <3>1
    <3>3. x \in Elements(s.types)
      BY <1>2, <3>1, <3>2, ElementsAre
    <3> QED BY <1>1, <3>2, <3>3
  <2> QED BY <2>1, <2>2 DEF UpTo
<1> QED BY <1>3, InItsPlace

\* A header with as many descriptors as it has elements, all of its own type, has its own.
LEMMA OwnTypeOwnPlace ==
  ASSUME NEW s, IsShelf(s), NEW t \in Headed(s),
         Place(s, t) + s.types[t].count <= Len(Emitted(s)),
         \A q \in 1..s.types[t].count : At(s, t, q)[1] = t
  PROVE  \A q \in 1..s.types[t].count : At(s, t, q) = <<t, q>>
<1> DEFINE n == s.types[t].count
           f == [q \in 1..n |-> At(s, t, q)[2]]
<1>1. n \in Nat /\ Place(s, t) \in Nat /\ Len(Emitted(s)) \in Nat
  BY TypesOf, TypesAre, PlaceIs, SentIs
<1>2. \A q \in 1..n : Place(s, t) + q \in 1..Len(Emitted(s))
  BY <1>1
<1>3. \A q \in 1..n : /\ At(s, t, q) \in Elements(s.types) /\ ~Before(At(s, t, q), <<t, q>>)
  BY <1>1, <1>2, NotEarlier
<1>4. \A q \in 1..n : /\ At(s, t, q) = <<t, f[q]>> /\ f[q] \in 1..n /\ f[q] >= q
  <2> TAKE q \in 1..n
  <2>1. At(s, t, q)[1] = t /\ f[q] = At(s, t, q)[2]
    OBVIOUS
  <2>2. /\ At(s, t, q) = <<At(s, t, q)[1], At(s, t, q)[2]>>
        /\ At(s, t, q)[2] \in 1..s.types[At(s, t, q)[1]].count
    BY <1>3, ElementIs
  <2>3. ~Before(At(s, t, q), <<t, q>>)
    BY <1>3
  <2> HIDE DEF f
  <2> QED BY <1>1, <2>1, <2>2, <2>3 DEF Before
<1>5. ASSUME NEW q \in 1..(n - 1) PROVE f[q] < f[q + 1]
  <2>1. q \in 1..n /\ q + 1 \in 1..n
    BY <1>1
  <2>2. Before(At(s, t, q), At(s, t, q + 1))
    <3>1. /\ Place(s, t) + q \in 1..Len(Emitted(s)) /\ Place(s, t) + (q + 1) \in 1..Len(Emitted(s))
          /\ Place(s, t) + q < Place(s, t) + (q + 1)
      BY <1>1, <1>2, <2>1
    <3> QED BY <3>1, SentIs DEF At
  <2>3. /\ At(s, t, q) = <<t, f[q]>> /\ At(s, t, q + 1) = <<t, f[q + 1]>>
        /\ f[q] \in Nat /\ f[q + 1] \in Nat /\ t \in Nat
    <3> HIDE DEF f, n
    <3>1. /\ At(s, t, q) = <<t, f[q]>> /\ At(s, t, q + 1) = <<t, f[q + 1]>>
          /\ f[q] \in 1..n /\ f[q + 1] \in 1..n
      BY <1>4, <2>1
    <3> QED BY <1>1, <3>1, TypesOf
  <2> HIDE DEF f
  <2> QED BY <2>2, <2>3 DEF Before
<1> SUFFICES ASSUME NEW q \in 1..n PROVE At(s, t, q) = <<t, q>>
  OBVIOUS
<1>6. f[n] >= f[q] + (n - q)
  <2> HIDE DEF f, n
  <2>1. q \in Nat /\ q <= n /\ \A k \in q..n : k \in 1..n /\ f[k] \in Nat
    BY <1>1, <1>4
  <2>2. \A k \in q..(n - 1) : f[k] < f[k + 1]
    BY <1>1, <1>5
  <2> QED BY <1>1, <2>1, <2>2, GrowsByOne
<1>7. n \in 1..n
  BY <1>1
<1> HIDE DEF f, n
<1> QED BY <1>1, <1>4, <1>6, <1>7

\* Nothing can follow the elements of the last type.
LEMMA LastIsUnmoved ==
  ASSUME NEW s, IsShelf(s), NEW t \in Headed(s), t = Len(s.types),
         Place(s, t) + s.types[t].count <= Len(Emitted(s))
  PROVE  \A q \in 1..s.types[t].count : At(s, t, q) = <<t, q>>
<1>1. ASSUME NEW q \in 1..s.types[t].count PROVE At(s, t, q)[1] = t
  <2>1. s.types[t].count \in Nat /\ Place(s, t) \in Nat /\ Len(Emitted(s)) \in Nat
    BY TypesOf, TypesAre, PlaceIs, SentIs
  <2>2. Place(s, t) + q <= Len(Emitted(s))
    BY <2>1
  <2>3. At(s, t, q) \in Elements(s.types) /\ ~Before(At(s, t, q), <<t, q>>)
    BY <2>2, NotEarlier
  <2>4. At(s, t, q)[1] \in 1..t /\ t \in Nat
    BY <2>3, ElementIs, TypesOf
  <2> QED BY <2>3, <2>4 DEF Before
<1> QED BY <1>1, OwnTypeOwnPlace

\* Elements of all types are counted; those of later types come behind.
LEMMA CountsFollow ==
  ASSUME NEW s, IsShelf(s), NEW t \in DOMAIN s.types, NEW u \in Nat, t < u
  PROVE  /\ CountBefore(s.types, t) \in Nat /\ CountBefore(s.types, u) \in Nat
         /\ CountBefore(s.types, t) + s.types[t].count <= CountBefore(s.types, u)
<1> DEFINE OfType == {<<t, e>> : e \in 1..s.types[t].count}
           First(v) == {x \in Elements(s.types) : x[1] < v}
<1>0. t \in Nat /\ s.types[t].count \in Nat
  BY TypesOf, TypesAre
<1>1. IsFiniteSet(OfType) /\ Cardinality(OfType) = s.types[t].count
  BY <1>0, NumbersOfType
<1>2. \A x \in OfType : x \in Elements(s.types) /\ x[1] = t
  BY ElementsAre
<1>3. \A v : IsFiniteSet(First(v)) /\ Cardinality(First(v)) \in Nat
  <2> TAKE v
  <2>1. First(v) \in SUBSET Elements(s.types)
    OBVIOUS
  <2> HIDE DEF First
  <2>2. IsFiniteSet(First(v))
    BY <2>1, ElementsAreFinite, FS_Subset
  <2> QED BY <2>2, FS_CardinalityType
<1> HIDE DEF OfType
<1>4. First(t) \cap OfType = {}
  BY <1>0, <1>2
<1>5. First(t) \cup OfType \in SUBSET First(u)
  BY <1>0, <1>2, ElementIs
<1>6. \A v : CountBefore(s.types, v) = Cardinality(First(v))
  BY DEF CountBefore
<1> HIDE DEF First
<1>7. Cardinality(First(t) \cap OfType) = 0
  BY <1>4, FS_EmptySet
<1>8. /\ IsFiniteSet(First(t) \cup OfType)
      /\ Cardinality(First(t) \cup OfType) =
           Cardinality(First(t)) + Cardinality(OfType) - Cardinality(First(t) \cap OfType)
  BY <1>1, <1>3, FS_Union
<1>9. Cardinality(First(t) \cup OfType) <= Cardinality(First(u))
  BY <1>3, <1>5, FS_Subset
<1>10. Cardinality(First(t)) \in Nat /\ Cardinality(First(u)) \in Nat
  BY <1>3
<1>11. Cardinality(First(t)) + s.types[t].count - 0 <= Cardinality(First(u))
  BY <1>1, <1>7, <1>8, <1>9
<1>12. /\ CountBefore(s.types, t) = Cardinality(First(t))
       /\ CountBefore(s.types, u) = Cardinality(First(u))
  BY <1>6
<1> QED BY <1>0, <1>10, <1>11, <1>12

\* The printed index jumps from one type to another, if overall elements count.
LEMMA IndexJumps ==
  ASSUME NEW s, IsShelf(s), s.indexed, s.overall = 1,
         NEW x \in Elements(s.types), NEW y \in Elements(s.types), x[1] < y[1]
  PROVE  /\ GlobalIndex(s, x) \in Int /\ GlobalIndex(s, y) \in Int
         /\ GlobalIndex(s, x) + 2 <= GlobalIndex(s, y)
<1>1. /\ x[1] \in DOMAIN s.types /\ x[1] \in Nat /\ x[2] \in 1..s.types[x[1]].count
      /\ y[1] \in Nat /\ y[2] \in Nat \ {0}
  BY ElementIs
<1>2. s.types[x[1]].count \in Nat
  BY <1>1, TypesAre
<1>3. /\ CountBefore(s.types, x[1]) \in Nat /\ CountBefore(s.types, y[1]) \in Nat
      /\ CountBefore(s.types, x[1]) + s.types[x[1]].count <= CountBefore(s.types, y[1])
  BY <1>1, CountsFollow
<1>4. /\ GlobalIndex(s, x) = CountBefore(s.types, x[1]) + x[2] - 1 + x[1]
      /\ GlobalIndex(s, y) = CountBefore(s.types, y[1]) + y[2] - 1 + y[1]
  BY <1>1, <1>3 DEF GlobalIndex
<1> QED BY <1>1, <1>2, <1>3, <1>4

\* So descriptors whose indexes follow each other are of one type.
LEMMA SteadyIndexOneType ==
  ASSUME NEW s, IsShelf(s), s.indexed, s.overall = 1, NEW t \in Headed(s),
         Place(s, t) + s.types[t].count <= Len(Emitted(s)),
         \A p, q \in 1..s.types[t].count :
           GlobalIndex(s, At(s, t, p)) - p = GlobalIndex(s, At(s, t, q)) - q
  PROVE  \A p, q \in 1..s.types[t].count : At(s, t, p)[1] = At(s, t, q)[1]
<1> DEFINE n == s.types[t].count
           x(q) == At(s, t, q)
           H == {k \in 0..(n - 1) : x(k + 1)[1] = x(1)[1]}
<1>1. n \in Nat /\ Place(s, t) \in Nat /\ Len(Emitted(s)) \in Nat
  BY TypesOf, TypesAre, PlaceIs, SentIs
<1>2. \A q \in 1..n : Place(s, t) + q \in 1..Len(Emitted(s))
  BY <1>1
<1>3. \A q \in 1..n : x(q) \in Elements(s.types)
  <2> TAKE q \in 1..n
  <2>1. Place(s, t) + q <= Len(Emitted(s))
    BY <1>1, <1>2
  <2> QED BY <2>1, NotEarlier
<1>4. ASSUME NEW q \in 1..(n - 1) PROVE x(q)[1] = x(q + 1)[1]
  <2>1. q \in 1..n /\ q + 1 \in 1..n
    BY <1>1
  <2>2. Before(x(q), x(q + 1))
    <3>1. /\ Place(s, t) + q \in 1..Len(Emitted(s)) /\ Place(s, t) + (q + 1) \in 1..Len(Emitted(s))
          /\ Place(s, t) + q < Place(s, t) + (q + 1)
      BY <1>1, <1>2, <2>1
    <3> QED BY <3>1, SentIs DEF At
  <2>3. GlobalIndex(s, x(q)) - q = GlobalIndex(s, x(q + 1)) - (q + 1)
    BY <2>1
  <2>4. x(q) \in Elements(s.types) /\ x(q + 1) \in Elements(s.types)
    BY <1>3, <2>1
  <2> HIDE DEF x
  <2>5. ~(x(q)[1] < x(q + 1)[1])
    <3> SUFFICES ASSUME x(q)[1] < x(q + 1)[1] PROVE FALSE
      OBVIOUS
    <3>1. /\ GlobalIndex(s, x(q)) \in Int /\ GlobalIndex(s, x(q + 1)) \in Int
          /\ GlobalIndex(s, x(q)) + 2 <= GlobalIndex(s, x(q + 1))
      BY <2>4, IndexJumps
    <3> QED BY <2>1, <2>3, <3>1
  <2> QED BY <2>2, <2>5 DEF Before
<1> HIDE DEF x, n
<1>5. CASE n = 0
  BY <1>5 DEF n
<1>6. CASE n > 0
  <2>1. H \in SUBSET (0..(n - 1)) /\ 0 \in H /\ n - 1 \in Nat
    BY <1>1, <1>6
  <2>2. ASSUME NEW k \in 0..((n - 1) - 1), k \in H PROVE k + 1 \in H
    <3>1. k + 1 \in 1..(n - 1) /\ k + 1 \in 0..(n - 1)
      BY <1>1
    <3>2. x(k + 1)[1] = x((k + 1) + 1)[1]
      BY <1>4, <3>1
    <3> QED BY <2>2, <3>1, <3>2
  <2>3. H = 0..(n - 1)
    <3> HIDE DEF H
    <3> QED BY <2>1, <2>2, AllReached
  <2>4. \A q \in 1..n : x(q)[1] = x(1)[1]
    <3> TAKE q \in 1..n
    <3>1. q - 1 \in 0..(n - 1) /\ (q - 1) + 1 = q
      BY <1>1
    <3>2. q - 1 \in H
      BY <2>3, <3>1
    <3> QED BY <3>1, <3>2
  <2>5. \A p, q \in 1..n : x(p)[1] = x(q)[1]
    BY <2>4
  <2> QED BY <2>5 DEF x, n
<1> QED BY <1>1, <1>5, <1>6

\* A type whose first element is in its place has all of them there, if all are sent.
LEMMA RestFollows ==
  ASSUME NEW s, IsShelf(s), NEW t \in Headed(s),
         \A e \in 1..s.types[t].count : <<t, e>> \in SentElements(s),
         Place(s, t) + 1 <= Len(Emitted(s)), At(s, t, 1) = <<t, 1>>
  PROVE  \A q \in 1..s.types[t].count :
           Place(s, t) + q \in 1..Len(Emitted(s)) /\ At(s, t, q) = <<t, q>>
<1> DEFINE n == s.types[t].count
           Right(q) == Place(s, t) + q \in 1..Len(Emitted(s)) /\ At(s, t, q) = <<t, q>>
           H == {k \in 0..(n - 1) : Right(k + 1)}
<1>1. n \in Nat /\ Place(s, t) \in Nat /\ Len(Emitted(s)) \in Nat
  BY TypesOf, TypesAre, PlaceIs, SentIs
<1>2. Right(1)
  BY <1>1
<1>3. ASSUME NEW q \in 1..(n - 1), Right(q) PROVE Right(q + 1)
  <2>1. q + 1 \in 1..n /\ q \in Nat /\ (Place(s, t) + q) + 1 = Place(s, t) + (q + 1)
    BY <1>1
  <2>2. <<t, q + 1>> \in SentElements(s)
    BY <2>1
  <2>3. Emitted(s)[Place(s, t) + q] = <<t, q>> /\ Place(s, t) + q \in 1..Len(Emitted(s))
    BY <1>3 DEF At
  <2>4. /\ (Place(s, t) + q) + 1 \in 1..Len(Emitted(s))
        /\ Emitted(s)[(Place(s, t) + q) + 1] = <<t, q + 1>>
    BY <2>1, <2>2, <2>3, NextFollows
  <2> QED BY <2>1, <2>4 DEF At
<1> HIDE DEF Right, n
<1>4. CASE n = 0
  BY <1>4 DEF n
<1>5. CASE n > 0
  <2>1. H \in SUBSET (0..(n - 1)) /\ 0 \in H /\ n - 1 \in Nat
    <3>1. 0 + 1 = 1
      OBVIOUS
    <3> QED BY <1>1, <1>2, <1>5, <3>1
  <2>2. ASSUME NEW k \in 0..((n - 1) - 1), k \in H PROVE k + 1 \in H
    <3>1. k + 1 \in 1..(n - 1) /\ k + 1 \in 0..(n - 1)
      BY <1>1
    <3> QED BY <1>3, <2>2, <3>1
  <2>3. H = 0..(n - 1)
    <3> HIDE DEF H
    <3> QED BY <2>1, <2>2, AllReached
  <2>4. \A q \in 1..n : Right(q)
    <3> TAKE q \in 1..n
    <3>1. q - 1 \in 0..(n - 1) /\ (q - 1) + 1 = q
      BY <1>1
    <3>2. q - 1 \in H
      BY <2>3, <3>1
    <3> QED BY <3>1, <3>2
  <2> QED BY <2>4 DEF Right, n
<1> QED BY <1>1, <1>4, <1>5

\* If every bay says a number, a bay type that has moved has pushed a bay that says its
\* number under an earlier header of something else.
LEMMA ShiftShows ==
  ASSUME NEW s, IsShelf(s), ~SilentIn(s), NEW t \in DOMAIN s.types, IsBayType(s, t),
         NEW p \in 1..s.types[t].count, At(s, t, p) # <<t, p>>
  PROVE  \E v \in Headed(s) : \E q \in 1..s.types[v].count :
           /\ v < t /\ ~IsBayType(s, v)
           /\ Place(s, v) + q \in 1..Len(Emitted(s))
           /\ SlotOf(s, At(s, v, q)) # Nothing
<1> DEFINE InPlace(u) == Place(s, u) + 1 <= Len(Emitted(s)) /\ At(s, u, 1) = <<u, 1>>
           Wrong == {u \in 1..t : IsBayType(s, u) /\ s.types[u].count > 0 /\ ~InPlace(u)}
<1>1. /\ Len(s.types) \in Nat /\ DOMAIN s.types = 1..Len(s.types)
      /\ \A u \in 1..t : u \in DOMAIN s.types /\ u \in Nat \ {0} /\ s.types[u].count \in Nat
      /\ t \in 1..t
  BY TypesOf, TypesAre
<1>2. ASSUME NEW u \in 1..t, IsBayType(s, u), NEW e \in 1..s.types[u].count
      PROVE  <<u, e>> \in SentElements(s) /\ <<u, e>> \in BaysOf(s.types)
             /\ s.number[<<u, e>>] # Nothing
  <2>1. <<u, e>> \in Elements(s.types) /\ u \notin s.omitted
    BY <1>1, <1>2, ElementsAre, TypesOf
  <2>2. <<u, e>> \in BaysOf(s.types) /\ <<u, e>>[1] = u
    BY <1>2, <2>1, TypesOf
  <2>3. s.number[<<u, e>>] # Nothing
    BY <2>2 DEF SilentIn
  <2> QED BY <2>1, <2>2, <2>3 DEF SentElements, Sent
<1>3. ASSUME NEW u \in 1..t, IsBayType(s, u), s.types[u].count > 0, u \notin Wrong
      PROVE  \A q \in 1..s.types[u].count : At(s, u, q) = <<u, q>>
  <2>1. u \in Headed(s) /\ InPlace(u)
    BY <1>1, <1>3, TypesOf
  <2>2. \A e \in 1..s.types[u].count : <<u, e>> \in SentElements(s)
    BY <1>2, <1>3
  <2> HIDE DEF Wrong
  <2> QED BY <2>1, <2>2, RestFollows
<1>4. t \in Wrong
  <2> SUFFICES ASSUME t \notin Wrong PROVE FALSE
    OBVIOUS
  <2>1. s.types[t].count > 0
    BY <1>1
  <2> HIDE DEF Wrong
  <2> QED BY <1>1, <1>3, <2>1
<1> DEFINE u == Min(Wrong)
<1>5. u \in Wrong /\ \A w \in Wrong : u <= w
  <2>1. Wrong \in SUBSET Nat
    BY <1>1
  <2> HIDE DEF Wrong
  <2> QED BY <1>4, <2>1, MinIs
<1>6. u \in 1..t /\ IsBayType(s, u) /\ s.types[u].count > 0 /\ ~InPlace(u) /\ u \in Headed(s)
      /\ u \in Nat \ {0} /\ s.types[u].count \in Nat /\ u \in DOMAIN s.types
  <2> HIDE DEF u
  <2> QED BY <1>1, <1>5, TypesOf
<1> HIDE DEF Wrong, u
<1>7. 1 \in 1..s.types[u].count
  BY <1>6
<1>8. <<u, 1>> \in SentElements(s) /\ SlotOf(s, <<u, 1>>) # Nothing
  BY <1>2, <1>6, <1>7 DEF SlotOf
<1>9. PICK j \in 1..Len(Emitted(s)) : Emitted(s)[j] = <<u, 1>>
  BY <1>8, SentIs
<1>10. Place(s, u) \in Nat /\ Len(Emitted(s)) \in Nat
  BY PlaceIs, SentIs
<1>11. j <= Place(s, u) + 1
  <2>1. NotAfter(s, <<u, 1>>) \in SUBSET UpTo(s, u, 1)
    <3> SUFFICES ASSUME NEW y \in NotAfter(s, <<u, 1>>) PROVE y \in UpTo(s, u, 1)
      OBVIOUS
    <3>1. y \in SentElements(s) /\ (y = <<u, 1>> \/ Before(y, <<u, 1>>))
      BY DEF NotAfter
    <3>2. /\ y \in Elements(s.types) /\ y[1] \in Headed(s)
          /\ y[1] \in Nat /\ y[2] \in Nat \ {0}
      BY <3>1, SentIs, ElementIs
    <3>3. y = <<u, 1>> \/ y[1] < u
      BY <1>6, <3>1, <3>2 DEF Before
    <3>4. CASE y = <<u, 1>>
      BY <3>4 DEF UpTo
    <3>5. CASE y[1] < u
      BY <3>2, <3>5 DEF UpTo, Below
    <3> QED BY <3>3, <3>4, <3>5
  <2>2. IsFiniteSet(UpTo(s, u, 1)) /\ Cardinality(UpTo(s, u, 1)) = Place(s, u) + 1
    BY <1>6, UpToIs
  <2>3. Cardinality(NotAfter(s, <<u, 1>>)) <= Cardinality(UpTo(s, u, 1))
    BY <2>1, <2>2, FS_Subset
  <2>4. Cardinality(NotAfter(s, <<u, 1>>)) = j
    BY <1>9, RankIs
  <2> QED BY <2>2, <2>3, <2>4
<1>12. j # Place(s, u) + 1
  BY <1>6, <1>9, <1>10 DEF At
<1>13. j \in 1..Place(s, u)
  BY <1>10, <1>11, <1>12
<1>14. PICK v \in Headed(s) : v < u /\ Place(s, v) < j /\ j <= Place(s, v) + s.types[v].count
  BY <1>6, <1>13, PositionsAreCovered
<1> DEFINE q == j - Place(s, v)
<1>15. /\ v \in DOMAIN s.types /\ v \in Nat \ {0} /\ Place(s, v) \in Nat
       /\ s.types[v].count \in Nat
  BY <1>14, TypesOf, TypesAre, PlaceIs
<1>16. q \in 1..s.types[v].count /\ Place(s, v) + q = j
  BY <1>10, <1>14, <1>15
<1> HIDE DEF q
<1>17. At(s, v, q) = <<u, 1>>
  BY <1>9, <1>16 DEF At
<1>18. ~IsBayType(s, v)
  <2> SUFFICES ASSUME IsBayType(s, v) PROVE FALSE
    OBVIOUS
  <2>1. v \in 1..t /\ v \notin Wrong /\ s.types[v].count > 0
    BY <1>1, <1>5, <1>6, <1>14, <1>15, <1>16
  <2>2. At(s, v, q) = <<v, q>>
    BY <1>3, <1>16, <2>1
  <2> QED BY <1>6, <1>14, <1>15, <1>17, <2>2
<1>19. v < t
  BY <1>1, <1>6, <1>14, <1>15
<1>20. SlotOf(s, At(s, v, q)) # Nothing
  BY <1>8, <1>17
<1>21. Place(s, v) + q \in 1..Len(Emitted(s))
  BY <1>16
<1> QED BY <1>14, <1>16, <1>18, <1>19, <1>20, <1>21

-----------------------------------------------------------------------------
(***************************************************************************)
(* The page as a run: what a line stands for, a header or the p-th         *)
(* descriptor under the header of t, and which line may follow it.         *)
(***************************************************************************)

Cursors == [t : Nat, p : Nat, is : {"start", "type", "element", "slot", "address"}]

TopOfPage == [t |-> 0, p |-> 0, is |-> "start"]

HeaderOf(t) == [t |-> t, p |-> 0, is |-> "type"]

LineAt(s, c) ==
  CASE c.is = "type" -> [is |-> "type", type |-> s.types[c.t].type, ti |-> c.t]
    [] c.is = "element" -> [is |-> "element", index |-> GlobalIndex(s, At(s, c.t, c.p))]
    [] c.is = "slot" -> [is |-> "slot", slot |-> SlotOf(s, At(s, c.t, c.p))]
    [] OTHER -> [is |-> "address", address |-> Address(At(s, c.t, c.p))]

Room(s, t, p) == p \in 1..s.types[t].count /\ Place(s, t) + p <= Len(Emitted(s))

\* All that is printed of a descriptor has been, up to the address.
ToldAt(s, c) == c.is = "element" => SlotOf(s, At(s, c.t, c.p)) = Nothing

\* Nothing more comes under the header.
FullAt(s, c) ==
  /\ ToldAt(s, c)
  /\ c.is # "start" => c.t \in Headed(s) /\ \A q : Room(s, c.t, q) => q <= c.p

NoHeader(s, t, u) == \A v \in Headed(s) : ~(t < v /\ v < u)

LeadsTo(s, c, d) ==
  \/ d.is = "type" /\ d.p = 0 /\ d.t \in Headed(s) /\ c.t < d.t /\ NoHeader(s, c.t, d.t)
       /\ FullAt(s, c)
  \/ d.is = "element" /\ d.t = c.t /\ d.p = c.p + 1 /\ Room(s, d.t, d.p) /\ ToldAt(s, c)
       /\ c.is # "start"
  \/ d.is = "slot" /\ d.t = c.t /\ d.p = c.p /\ c.is = "element"
       /\ SlotOf(s, At(s, d.t, d.p)) # Nothing
  \/ d.is = "address" /\ d.t = c.t /\ d.p = c.p /\ c.is = "slot"

RunBy(s, w, c, d, f) ==
  /\ f \in [0..Len(w) -> Cursors] /\ f[0] = c /\ f[Len(w)] = d
  /\ \A k \in 1..Len(w) : w[k] = LineAt(s, f[k]) /\ LeadsTo(s, f[k - 1], f[k])

IsRun(s, w, c, d) == \E f : RunBy(s, w, c, d, f)

LEMMA RunOfNone ==
  ASSUME NEW s, NEW c \in Cursors
  PROVE  IsRun(s, <<>>, c, c)
<1> DEFINE f == [k \in 0..0 |-> c]
<1>1. f \in [0..0 -> Cursors] /\ f[0] = c /\ Len(<<>>) = 0 /\ 1..0 = {}
  OBVIOUS
<1> HIDE DEF f
<1>2. RunBy(s, <<>>, c, c, f)
  BY <1>1 DEF RunBy
<1> QED BY <1>2 DEF IsRun

LEMMA RunOfOne ==
  ASSUME NEW s, NEW c \in Cursors, NEW d \in Cursors, LeadsTo(s, c, d)
  PROVE  IsRun(s, <<LineAt(s, d)>>, c, d)
<1> DEFINE f == [k \in 0..1 |-> IF k = 0 THEN c ELSE d]
           w == <<LineAt(s, d)>>
<1>1. /\ f \in [0..1 -> Cursors] /\ f[0] = c /\ f[1] = d /\ Len(w) = 1
      /\ w[1] = LineAt(s, d) /\ \A k \in 1..1 : k = 1 /\ k - 1 = 0
  OBVIOUS
<1> HIDE DEF f, w
<1>2. RunBy(s, w, c, d, f)
  BY <1>1 DEF RunBy
<1> QED BY <1>2 DEF IsRun, w

\* Runs in line with each other are a run.
LEMMA RunsJoin ==
  ASSUME NEW s, NEW S, NEW v \in Seq(S), NEW w \in Seq(S), NEW c, NEW d, NEW e,
         IsRun(s, v, c, d), IsRun(s, w, d, e)
  PROVE  IsRun(s, v \o w, c, e)
<1> DEFINE m == Len(v)
           n == Len(w)
           vw == v \o w
<1>1. /\ m \in Nat /\ n \in Nat /\ Len(vw) = m + n
      /\ \A k \in 1..(m + n) : vw[k] = IF k <= m THEN v[k] ELSE w[k - m]
  BY ConcatProperties
<1>2. PICK f : RunBy(s, v, c, d, f)
  BY DEF IsRun
<1>3. PICK g : RunBy(s, w, d, e, g)
  BY DEF IsRun
<1> HIDE DEF vw
<1>4. /\ f \in [0..m -> Cursors] /\ f[0] = c /\ f[m] = d
      /\ \A k \in 1..m : v[k] = LineAt(s, f[k]) /\ LeadsTo(s, f[k - 1], f[k])
  BY <1>2 DEF RunBy
<1>5. /\ g \in [0..n -> Cursors] /\ g[0] = d /\ g[n] = e
      /\ \A k \in 1..n : w[k] = LineAt(s, g[k]) /\ LeadsTo(s, g[k - 1], g[k])
  BY <1>3 DEF RunBy
<1> HIDE DEF m, n
<1> DEFINE h == [k \in 0..(m + n) |-> IF k <= m THEN f[k] ELSE g[k - m]]
<1>6. h \in [0..(m + n) -> Cursors]
  <2>1. \A k \in 0..(m + n) : k <= m => k \in 0..m
    BY <1>1
  <2>2. \A k \in 0..(m + n) : ~(k <= m) => k - m \in 0..n
    BY <1>1
  <2> QED BY <1>4, <1>5, <2>1, <2>2
<1>7. h[0] = c /\ h[m] = d
  BY <1>1, <1>4
<1>8. h[m + n] = e
  <2>1. CASE n = 0
    BY <1>1, <1>4, <1>5, <2>1
  <2>2. CASE n # 0
    <3>1. ~(m + n <= m) /\ (m + n) - m = n /\ m + n \in 0..(m + n)
      BY <1>1, <2>2
    <3> QED BY <1>5, <3>1
  <2> QED BY <2>1, <2>2
<1>9. ASSUME NEW k \in 1..(m + n)
      PROVE  vw[k] = LineAt(s, h[k]) /\ LeadsTo(s, h[k - 1], h[k])
  <2>0. k \in 0..(m + n) /\ k - 1 \in 0..(m + n)
    BY <1>1
  <2>1. CASE k <= m
    <3>1. k \in 1..m /\ k - 1 <= m /\ h[k] = f[k] /\ h[k - 1] = f[k - 1] /\ vw[k] = v[k]
      BY <1>1, <2>0, <2>1
    <3> HIDE DEF h
    <3> QED BY <1>4, <3>1
  <2>2. CASE k = m + 1
    <3>1. 1 \in 1..n /\ k - m = 1 /\ 1 - 1 = 0 /\ k - 1 = m /\ ~(k <= m)
      BY <1>1, <2>2
    <3>2. h[k] = g[1] /\ vw[k] = w[1] /\ h[k - 1] = d
      BY <1>1, <1>7, <2>0, <3>1
    <3>3. w[1] = LineAt(s, g[1]) /\ LeadsTo(s, g[1 - 1], g[1])
      BY <1>5, <3>1
    <3> HIDE DEF h
    <3> QED BY <1>5, <3>1, <3>2, <3>3
  <2>3. CASE k > m + 1
    <3>1. k - m \in 1..n /\ (k - m) - 1 = (k - 1) - m /\ ~(k <= m) /\ ~(k - 1 <= m)
      BY <1>1, <2>3
    <3>2. h[k] = g[k - m] /\ vw[k] = w[k - m] /\ h[k - 1] = g[(k - m) - 1]
      BY <1>1, <2>0, <3>1
    <3> HIDE DEF h
    <3> QED BY <1>5, <3>1, <3>2
  <2> QED BY <1>1, <2>1, <2>2, <2>3
<1> HIDE DEF h
<1>10. RunBy(s, vw, c, e, h)
  BY <1>1, <1>6, <1>7, <1>8, <1>9 DEF RunBy
<1> QED BY <1>10 DEF IsRun, vw

\* The lines of a descriptor, from the one before it under its header.
LEMMA DescriptorRuns ==
  ASSUME NEW s, IsShelf(s), NEW t \in Headed(s), NEW p \in Nat \ {0}, Room(s, t, p),
         NEW c \in Cursors, c.t = t, c.p = p - 1, c.is # "start", ToldAt(s, c)
  PROVE  \E d \in Cursors : /\ d.t = t /\ d.p = p /\ d.is # "start" /\ ToldAt(s, d)
                            /\ IsRun(s, DescriptorLines(s, At(s, t, p)), c, d)
<1> DEFINE x == At(s, t, p)
           C(is) == [t |-> t, p |-> p, is |-> is]
           S == SesLines(s)
           header == [is |-> "element", index |-> GlobalIndex(s, x)]
           number == [is |-> "slot", slot |-> SlotOf(s, x)]
           drive  == [is |-> "address", address |-> Address(x)]
           U == {header, number, drive}
<1>1. t \in Nat
  BY TypesOf
<1>2. C("element") \in Cursors /\ C("slot") \in Cursors /\ C("address") \in Cursors
  BY <1>1 DEF Cursors
<1>3. /\ LineAt(s, C("element")) = header /\ LineAt(s, C("slot")) = number
      /\ LineAt(s, C("address")) = drive
  BY DEF LineAt
<1>4. LeadsTo(s, c, C("element"))
  BY DEF LeadsTo
<1>5. IsRun(s, <<header>>, c, C("element"))
  BY <1>2, <1>3, <1>4, RunOfOne
<1>6. CASE SlotOf(s, x) = Nothing
  <2>1. DescriptorLines(s, x) = <<header>> \o <<>>
    BY <1>6 DEF DescriptorLines
  <2>2. <<header>> \o <<>> = <<header>>
    BY ConcatEmptySeq
  <2>3. ToldAt(s, C("element"))
    BY <1>6 DEF ToldAt
  <2> HIDE DEF header
  <2>4. IsRun(s, DescriptorLines(s, x), c, C("element"))
    BY <1>5, <2>1, <2>2
  <2> QED BY <1>2, <2>3, <2>4
<1>7. CASE SlotOf(s, x) # Nothing
  <2>1. LeadsTo(s, C("element"), C("slot"))
    BY <1>7 DEF LeadsTo
  <2>2. IsRun(s, <<number>>, C("element"), C("slot"))
    BY <1>2, <1>3, <2>1, RunOfOne
  <2>3. ToldAt(s, C("slot")) /\ ToldAt(s, C("address"))
    BY DEF ToldAt
  <2>4. LeadsTo(s, C("slot"), C("address"))
    BY DEF LeadsTo
  <2>5. IsRun(s, <<drive>>, C("slot"), C("address"))
    BY <1>2, <1>3, <2>4, RunOfOne
  <2>6. <<header>> \in Seq(U) /\ <<number>> \in Seq(U) /\ <<drive>> \in Seq(U)
        /\ <<number>> \o <<drive>> \in Seq(U)
    <3> HIDE DEF header, number, drive
    <3>1. <<header>> \in Seq(U) /\ <<number>> \in Seq(U) /\ <<drive>> \in Seq(U)
      OBVIOUS
    <3> HIDE DEF U
    <3> QED BY <3>1, ConcatProperties
  <2>7. CASE Address(x) = Nothing
    <3>1. DescriptorLines(s, x) = <<header>> \o (<<number>> \o <<>>)
      BY <1>7, <2>7 DEF DescriptorLines
    <3>2. <<number>> \o <<>> = <<number>>
      BY ConcatEmptySeq
    <3> HIDE DEF header, number, U
    <3>3. IsRun(s, <<header>> \o <<number>>, c, C("slot"))
      BY <1>5, <2>2, <2>6, RunsJoin
    <3>4. IsRun(s, DescriptorLines(s, x), c, C("slot"))
      BY <3>1, <3>2, <3>3
    <3> QED BY <1>2, <2>3, <3>4
  <2>8. CASE Address(x) # Nothing
    <3>1. DescriptorLines(s, x) = <<header>> \o (<<number>> \o <<drive>>)
      BY <1>7, <2>8 DEF DescriptorLines
    <3> HIDE DEF header, number, drive, U
    <3>2. IsRun(s, <<number>> \o <<drive>>, C("element"), C("address"))
      BY <2>2, <2>5, <2>6, RunsJoin
    <3>3. IsRun(s, <<header>> \o (<<number>> \o <<drive>>), c, C("address"))
      BY <1>5, <2>6, <3>2, RunsJoin
    <3>4. IsRun(s, DescriptorLines(s, x), c, C("address"))
      BY <3>1, <3>3
    <3> QED BY <1>2, <2>3, <3>4
  <2> QED BY <2>7, <2>8
<1> QED BY <1>6, <1>7

\* What is left of the list when the header of t is printed.
Rest(s, w, t) ==
  /\ Len(w) = IF Place(s, t) <= Len(Emitted(s)) THEN Len(Emitted(s)) - Place(s, t) ELSE 0
  /\ \A i \in 1..Len(w) : w[i] = At(s, t, i)

\* The page so far is a run that ends with all that comes under the headers before that of t.
PrintedUpTo(s, page, t) ==
  /\ Rest(s, page.left, t)
  /\ \E c \in Cursors : /\ IsRun(s, page.lines, TopOfPage, c) /\ FullAt(s, c)
                        /\ c.t < t /\ NoHeader(s, c.t, t)

\* The descriptors under one header, as far as they are left, are a run.
LEMMA DescriptorsRun ==
  ASSUME NEW s, IsShelf(s), NEW t \in Headed(s), NEW n \in Nat, n <= s.types[t].count,
         Place(s, t) + n <= Len(Emitted(s))
  PROVE  \E d \in Cursors :
           /\ d.t = t /\ d.p = n /\ d.is # "start" /\ ToldAt(s, d)
           /\ IsRun(s, FlattenSeq([k \in 1..n |-> DescriptorLines(s, At(s, t, k))]), HeaderOf(t), d)
<1> DEFINE S == SesLines(s)
           under == [k \in 1..n |-> DescriptorLines(s, At(s, t, k))]
           Reaches(k, w) == \E d \in Cursors : /\ d.t = t /\ d.p = k /\ d.is # "start"
                                               /\ ToldAt(s, d) /\ IsRun(s, w, HeaderOf(t), d)
           R == {r \in (0..n) \X Seq(S) : Reaches(r[1], r[2])}
<1>1. /\ s.types[t].count \in Nat /\ Place(s, t) \in Nat /\ Len(Emitted(s)) \in Nat
      /\ t \in Nat \ {0} /\ HeaderOf(t) \in Cursors
  BY TypesOf, TypesAre, PlaceIs, SentIs DEF HeaderOf, Cursors
<1>2. \A k \in 1..n : Room(s, t, k) /\ At(s, t, k) \in Elements(s.types)
  <2> TAKE k \in 1..n
  <2>1. k \in 1..s.types[t].count /\ Place(s, t) + k <= Len(Emitted(s))
    BY <1>1
  <2> QED BY <2>1, NotEarlier DEF Room
<1>3. \A k \in 1..n : DescriptorLines(s, At(s, t, k)) \in Seq(S)
  <2> TAKE k \in 1..n
  <2>1. DescriptorLines(s, At(s, t, k)) \in Pages(s)
    BY <1>2, DescriptorIsAPage
  <2> QED BY <2>1 DEF Pages
<1>4. under \in Seq(Seq(S)) /\ Len(under) = n
      /\ \A k \in 1..n : under[k] = DescriptorLines(s, At(s, t, k))
  <2> HIDE DEF S
  <2> QED BY <1>3
<1>5. <<0, <<>>>> \in R
  <2>1. Reaches(0, <<>>)
    <3>1. HeaderOf(t).t = t /\ HeaderOf(t).p = 0 /\ HeaderOf(t).is = "type"
      BY DEF HeaderOf
    <3>2. ToldAt(s, HeaderOf(t))
      BY <3>1 DEF ToldAt
    <3>3. IsRun(s, <<>>, HeaderOf(t), HeaderOf(t))
      BY <1>1, RunOfNone
    <3> QED BY <1>1, <3>1, <3>2, <3>3
  <2>2. <<>> \in Seq(S) /\ 0 \in 0..n
    OBVIOUS
  <2> HIDE DEF Reaches
  <2>3. <<0, <<>>>>[1] = 0 /\ <<0, <<>>>>[2] = <<>>
    OBVIOUS
  <2> QED BY <2>1, <2>2, <2>3
<1>6. ASSUME NEW k \in 1..n, NEW w \in Seq(S), <<k - 1, w>> \in R
      PROVE  <<k, w \o under[k]>> \in R
  <2>1. Reaches(k - 1, w)
    <3> HIDE DEF Reaches
    <3>1. Reaches(<<k - 1, w>>[1], <<k - 1, w>>[2])
      BY <1>6
    <3> QED BY <3>1
  <2>2. PICK c \in Cursors : /\ c.t = t /\ c.p = k - 1 /\ c.is # "start"
                             /\ ToldAt(s, c) /\ IsRun(s, w, HeaderOf(t), c)
    BY <2>1
  <2>3. k \in Nat \ {0} /\ k \in 0..n
    OBVIOUS
  <2>4. PICK d \in Cursors : /\ d.t = t /\ d.p = k /\ d.is # "start" /\ ToldAt(s, d)
                             /\ IsRun(s, DescriptorLines(s, At(s, t, k)), c, d)
    BY <1>2, <2>2, <2>3, DescriptorRuns
  <2>5. under[k] = DescriptorLines(s, At(s, t, k)) /\ under[k] \in Seq(S)
    BY <1>3, <1>4
  <2> HIDE DEF under, S
  <2>6. IsRun(s, w \o under[k], HeaderOf(t), d)
    BY <2>2, <2>4, <2>5, RunsJoin
  <2>7. Reaches(k, w \o under[k])
    BY <2>4, <2>6
  <2>8. w \o under[k] \in Seq(S)
    BY <2>5, ConcatProperties
  <2> HIDE DEF Reaches
  <2> QED BY <2>3, <2>7, <2>8
<1> HIDE DEF under, Reaches, S
<1>7. <<Len(under), FlattenSeq(under)>> \in R
  <2> HIDE DEF R
  <2>1. \A k \in 1..Len(under) : \A w \in Seq(S) :
          <<k - 1, w>> \in R => <<k, w \o under[k]>> \in R
    BY <1>4, <1>6
  <2> QED BY <1>4, <1>5, <2>1, FlattenGrows
<1>8. Reaches(n, FlattenSeq(under))
  BY <1>4, <1>7
<1> QED BY <1>8 DEF Reaches, under

\* So is the header with them.
LEMMA BlockRuns ==
  ASSUME NEW s, IsShelf(s), NEW t \in Headed(s),
         NEW page \in [left : Seq(Elements(s.types)), lines : Pages(s)], PrintedUpTo(s, page, t)
  PROVE  PrintedUpTo(s, Block(s, page, t), t + 1)
<1> DEFINE n == Min({s.types[t].count, Len(page.left)})
           S == SesLines(s)
           under == [k \in 1..n |-> DescriptorLines(s, page.left[k])]
           m == Len(Emitted(s))
           L == Len(page.left)
           count == s.types[t].count
           rest == SubSeq(page.left, n + 1, L)
<1>1. /\ count \in Nat /\ Place(s, t) \in Nat /\ m \in Nat
      /\ t \in Nat \ {0} /\ HeaderOf(t) \in Cursors /\ t \in DOMAIN s.types
  BY TypesOf, TypesAre, PlaceIs, SentIs DEF HeaderOf, Cursors
<1>2. /\ page.left \in Seq(Elements(s.types)) /\ L \in Nat /\ page.lines \in Seq(S)
      /\ L = IF Place(s, t) <= m THEN m - Place(s, t) ELSE 0
      /\ \A i \in 1..L : page.left[i] = At(s, t, i)
  <2>1. page.left \in Seq(Elements(s.types)) /\ page.lines \in Pages(s)
    OBVIOUS
  <2>2. \A q \in Seq(Elements(s.types)) : Len(q) \in Nat
    OBVIOUS
  <2> QED BY <2>1, <2>2 DEF PrintedUpTo, Rest, Pages
<1>3. n \in Nat /\ n <= L /\ n <= count /\ (n = L \/ n = count)
  <2>1. {count, L} \in SUBSET Nat /\ {count, L} # {}
    BY <1>1, <1>2
  <2>2. n \in {count, L} /\ \A k \in {count, L} : n <= k
    BY <2>1, MinIs
  <2> HIDE DEF n, count, L
  <2> QED BY <1>1, <1>2, <2>2
<1>4. PICK c \in Cursors : /\ IsRun(s, page.lines, TopOfPage, c) /\ FullAt(s, c)
                           /\ c.t < t /\ NoHeader(s, c.t, t)
  BY DEF PrintedUpTo
<1>5. Block(s, page, t) =
        [left |-> rest,
         lines |-> page.lines \o <<[is |-> "type", type |-> s.types[t].type, ti |-> t]>>
                     \o FlattenSeq(under)]
  BY DEF Block
<1>6. LineAt(s, HeaderOf(t)) = [is |-> "type", type |-> s.types[t].type, ti |-> t]
  BY DEF LineAt, HeaderOf
<1> DEFINE header == <<LineAt(s, HeaderOf(t))>>
<1>7. IsRun(s, header, c, HeaderOf(t))
  <2>1. LeadsTo(s, c, HeaderOf(t))
    BY <1>4 DEF LeadsTo, HeaderOf
  <2> QED BY <1>1, <2>1, RunOfOne
<1>8. header \in Seq(S)
  <2>1. [is |-> "type", type |-> s.types[t].type, ti |-> t] \in S
    <3>1. t \in DOMAIN s.types
      BY <1>1
    <3> QED BY <3>1 DEF SesLines
  <2> HIDE DEF S
  <2> QED BY <1>6, <2>1
<1>9. under = [k \in 1..n |-> DescriptorLines(s, At(s, t, k))]
  <2> HIDE DEF n, L
  <2>1. \A k \in 1..n : page.left[k] = At(s, t, k)
    BY <1>2, <1>3
  <2> QED BY <2>1
<1> HIDE DEF n, under
<1>10. n = 0 \/ Place(s, t) + n <= m
  <2> HIDE DEF L, count, m
  <2> QED BY <1>1, <1>2, <1>3
<1>11. under \in Seq(Seq(S))
  <2>1. \A k \in 1..n : At(s, t, k) \in Elements(s.types)
    <3> TAKE k \in 1..n
    <3>1. k \in 1..count /\ Place(s, t) + k <= m
      <4> HIDE DEF count, m, L
      <4> QED BY <1>1, <1>3, <1>10
    <3> QED BY <3>1, NotEarlier
  <2>2. \A k \in 1..n : DescriptorLines(s, At(s, t, k)) \in Seq(S)
    <3> TAKE k \in 1..n
    <3>1. DescriptorLines(s, At(s, t, k)) \in Pages(s)
      BY <2>1, DescriptorIsAPage
    <3> QED BY <3>1 DEF Pages
  <2> HIDE DEF S
  <2> QED BY <1>3, <1>9, <2>2
<1>12. FlattenSeq(under) \in Seq(S)
  <2>1. <<>> \in Seq(S) /\ \A v, w \in Seq(S) : v \o w \in Seq(S)
    BY ConcatProperties
  <2>2. Seq(S) \in SUBSET Seq(S)
    OBVIOUS
  <2> HIDE DEF S
  <2> QED BY <1>11, <2>1, <2>2, FlattenIs
<1>13. \E d \in Cursors : /\ d.t = t /\ d.p = n /\ d.is # "start" /\ ToldAt(s, d)
                          /\ IsRun(s, FlattenSeq(under), HeaderOf(t), d)
  <2>1. CASE n = 0
    <3>1. under = <<>>
      BY <1>9, <2>1
    <3>2. FlattenSeq(<<>>) = <<>>
      BY DEF FlattenSeq
    <3>3. HeaderOf(t).t = t /\ HeaderOf(t).p = 0 /\ HeaderOf(t).is = "type"
      BY DEF HeaderOf
    <3>4. ToldAt(s, HeaderOf(t))
      BY <3>3 DEF ToldAt
    <3>5. IsRun(s, <<>>, HeaderOf(t), HeaderOf(t))
      BY <1>1, RunOfNone
    <3> QED BY <1>1, <2>1, <3>1, <3>2, <3>3, <3>4, <3>5
  <2>2. CASE n # 0
    <3>1. Place(s, t) + n <= m
      BY <1>10, <2>2
    <3> QED BY <1>3, <1>9, <3>1, DescriptorsRun
  <2> QED BY <2>1, <2>2
<1>14. PICK d \in Cursors : /\ d.t = t /\ d.p = n /\ d.is # "start" /\ ToldAt(s, d)
                            /\ IsRun(s, FlattenSeq(under), HeaderOf(t), d)
  BY <1>13
<1> DEFINE new == Block(s, page, t)
<1> HIDE DEF header, S
<1>15. IsRun(s, new.lines, TopOfPage, d)
  <2>1. new.lines = page.lines \o header \o FlattenSeq(under)
    BY <1>5, <1>6 DEF header
  <2>2. IsRun(s, page.lines \o header, TopOfPage, HeaderOf(t))
    BY <1>2, <1>4, <1>7, <1>8, RunsJoin
  <2>3. page.lines \o header \in Seq(S)
    BY <1>2, <1>8, ConcatProperties
  <2>4. IsRun(s, (page.lines \o header) \o FlattenSeq(under), TopOfPage, d)
    BY <1>12, <1>14, <2>2, <2>3, RunsJoin
  <2> QED BY <2>1, <2>4
<1>16. FullAt(s, d)
  <2>1. ASSUME NEW q, Room(s, d.t, q) PROVE q <= d.p
    <3>1. q \in 1..count /\ Place(s, t) + q <= m
      BY <1>14, <2>1 DEF Room
    <3> HIDE DEF count, m, L
    <3> QED BY <1>1, <1>2, <1>3, <1>14, <3>1
  <2> QED BY <1>14, <2>1 DEF FullAt
<1>17. d.t < t + 1 /\ NoHeader(s, d.t, t + 1)
  <2>1. \A v \in Headed(s) : v \in Nat
    BY TypesOf
  <2>2. d.t = t /\ t \in Nat
    BY <1>1, <1>14
  <2>3. NoHeader(s, t, t + 1)
    BY <2>1, <2>2 DEF NoHeader
  <2> QED BY <2>2, <2>3
<1>18. Rest(s, new.left, t + 1)
  <2>1. Place(s, t + 1) = Place(s, t) + count
    BY <1>1, PlaceIs
  <2>2. new.left = rest
    <3> HIDE DEF rest
    <3> QED BY <1>5
  <2>3. /\ Len(rest) = L - n
        /\ \A i \in 1..(L - n) : rest[i] = page.left[n + i]
    <3> HIDE DEF L
    <3>1. \A q \in Seq(Elements(s.types)) : \A k \in 0..Len(q) :
            /\ Len(SubSeq(q, k + 1, Len(q))) = Len(q) - k
            /\ \A i \in 1..(Len(q) - k) : SubSeq(q, k + 1, Len(q))[i] = q[k + i]
      <4> DEFINE X == Elements(s.types)
      <4> HIDE DEF X
      <4>1. \A q \in Seq(X) : \A k \in 0..Len(q) :
              /\ Len(SubSeq(q, k + 1, Len(q))) = Len(q) - k
              /\ \A i \in 1..(Len(q) - k) : SubSeq(q, k + 1, Len(q))[i] = q[k + i]
        <5> TAKE q \in Seq(X)
        <5> TAKE k \in 0..Len(q)
        <5>1. Len(SubSeq(q, k + 1, Len(q))) = Len(q) - k
          OBVIOUS
        <5>2. ASSUME NEW i \in 1..(Len(q) - k)
              PROVE  SubSeq(q, k + 1, Len(q))[i] = q[k + i]
          <6>1. (k + 1) + i - 1 = k + i
            OBVIOUS
          <6> QED BY <6>1
        <5> QED BY <5>1, <5>2
      <4> QED BY <4>1 DEF X
    <3>2. n \in 0..L
      BY <1>2, <1>3
    <3> QED BY <1>2, <3>1, <3>2 DEF L
  <2> HIDE DEF rest, count, m, L
  <2>4. Len(rest) = IF Place(s, t + 1) <= m THEN m - Place(s, t + 1) ELSE 0
    BY <1>1, <1>2, <1>3, <2>1, <2>3
  <2>5. ASSUME NEW i \in 1..Len(rest) PROVE rest[i] = At(s, t + 1, i)
    <3>1. n = count /\ n + i \in 1..L /\ i \in 1..(L - n)
      BY <1>1, <1>2, <1>3, <2>3
    <3>2. rest[i] = At(s, t, n + i)
      BY <1>2, <2>3, <3>1
    <3>3. Place(s, t) + (n + i) = Place(s, t + 1) + i
      BY <1>1, <2>1, <3>1
    <3> QED BY <3>2, <3>3 DEF At
  <2> QED BY <2>2, <2>4, <2>5 DEF Rest, m
<1> HIDE DEF new
<1> QED BY <1>14, <1>15, <1>16, <1>17, <1>18 DEF PrintedUpTo, new

\* Nothing of the page is left to print.
AtTheEnd(s, c) == FullAt(s, c) /\ NoHeader(s, c.t, Len(s.types) + 1)

\* And so is the page, from its top to its end.
LEMMA PageIsARun ==
  ASSUME NEW s, IsShelf(s)
  PROVE  \E c \in Cursors : IsRun(s, AesPage(s), TopOfPage, c) /\ AtTheEnd(s, c)
<1> DEFINE n == Len(s.types)
           P == {page \in [left : Seq(Elements(s.types)), lines : Pages(s)] : TRUE}
           start == [left |-> Emitted(s), lines |-> <<>>]
           Skipped(t) == s.noticed /\ t \in s.omitted
           Is(f) == f = [t \in 0..n |-> IF t = 0 THEN start
                                        ELSE IF Skipped(t) THEN f[t - 1]
                                        ELSE Block(s, f[t - 1], t)]
           F == CHOOSE f : Is(f)
           step == [t \in 1..n |-> [page \in P |-> IF Skipped(t) THEN page ELSE Block(s, page, t)]]
           Good(t, page) == PrintedUpTo(s, page, t + 1)
<1>1. n \in Nat /\ DOMAIN s.types = 1..n
  BY ShelfIs
<1>2. start \in P
  BY EmittedAreElements, PagesJoin
<1>3. \A t \in 1..n : \A page \in P : Block(s, page, t) \in P
  BY <1>1, BlockIsAPage
<1>4. step \in [1..n -> [P -> P]]
  <2> HIDE DEF P, n, Skipped
  <2> QED BY <1>3
<1>5. \A t \in 1..n : \A page \in P :
        step[t][page] = IF Skipped(t) THEN page ELSE Block(s, page, t)
  <2> HIDE DEF P, n, Skipped
  <2> QED OBVIOUS
<1>6. \E f \in [0..n -> P] : Computes(f, n, start, step)
  <2> HIDE DEF P, n, Skipped, start, step
  <2> QED BY <1>1, <1>2, <1>4, StepByStep
<1>7. PICK f \in [0..n -> P] : Computes(f, n, start, step)
  BY <1>6
<1>8. Good(0, start)
  <2>1. Place(s, 0 + 1) = 0 /\ Len(Emitted(s)) \in Nat
    BY PlaceIs, SentIs
  <2>2. Rest(s, Emitted(s), 0 + 1)
    <3>1. \A i \in 1..Len(Emitted(s)) : 0 + i = i
      OBVIOUS
    <3> QED BY <2>1, <3>1 DEF Rest, At
  <2>3. TopOfPage \in Cursors /\ TopOfPage.t = 0 /\ TopOfPage.is = "start"
    BY DEF TopOfPage, Cursors
  <2>4. IsRun(s, <<>>, TopOfPage, TopOfPage)
    BY <2>3, RunOfNone
  <2>5. FullAt(s, TopOfPage)
    BY <2>3 DEF FullAt, ToldAt
  <2>6. NoHeader(s, TopOfPage.t, 0 + 1) /\ TopOfPage.t < 0 + 1
    BY <2>3, TypesOf DEF NoHeader
  <2> QED BY <2>2, <2>3, <2>4, <2>5, <2>6 DEF PrintedUpTo
<1>9. ASSUME NEW t \in 1..n, NEW page \in P, Good(t - 1, page)
      PROVE  Good(t, IF Skipped(t) THEN page ELSE Block(s, page, t))
  <2>1. t \in DOMAIN s.types /\ t \in Nat \ {0} /\ (t - 1) + 1 = t
    BY <1>1
  <2>2. PrintedUpTo(s, page, t)
    BY <1>9, <2>1
  <2>3. CASE Skipped(t)
    <3>1. t \notin Headed(s)
      BY <2>3 DEF Headed
    <3>2. Place(s, t + 1) = Place(s, t)
      BY <2>1, <3>1, PlaceIs
    <3>3. Rest(s, page.left, t + 1)
      <4>1. Rest(s, page.left, t)
        BY <2>2 DEF PrintedUpTo
      <4> QED BY <3>2, <4>1 DEF Rest, At
    <3>4. PICK c \in Cursors : /\ IsRun(s, page.lines, TopOfPage, c) /\ FullAt(s, c)
                               /\ c.t < t /\ NoHeader(s, c.t, t)
      BY <2>2 DEF PrintedUpTo
    <3>5. c.t < t + 1 /\ NoHeader(s, c.t, t + 1)
      <4>1. c.t \in Nat
        BY DEF Cursors
      <4>2. \A v \in Headed(s) : v \in Nat /\ v # t
        BY <3>1, TypesOf
      <4> QED BY <2>1, <3>4, <4>1, <4>2 DEF NoHeader
    <3> QED BY <2>3, <3>3, <3>4, <3>5 DEF PrintedUpTo
  <2>4. CASE ~Skipped(t)
    <3>1. t \in Headed(s)
      BY <2>1, <2>4 DEF Headed
    <3>2. page \in [left : Seq(Elements(s.types)), lines : Pages(s)]
      OBVIOUS
    <3>3. PrintedUpTo(s, Block(s, page, t), t + 1)
      BY <2>2, <3>1, <3>2, BlockRuns
    <3> QED BY <2>4, <3>3
  <2> QED BY <2>3, <2>4
<1> HIDE DEF P, Skipped, start, step, n, Good
<1>10. Is(f)
  <2>1. ASSUME NEW t \in 0..n
        PROVE  f[t] = IF t = 0 THEN start
                      ELSE IF Skipped(t) THEN f[t - 1] ELSE Block(s, f[t - 1], t)
    <3>1. CASE t = 0
      BY <1>7, <3>1 DEF Computes
    <3>2. CASE t # 0
      <4>1. t \in 1..n /\ t - 1 \in 0..n
        BY <1>1, <3>2
      <4>2. f[t] = step[t][f[t - 1]] /\ f[t - 1] \in P
        BY <1>7, <4>1 DEF Computes
      <4> QED BY <1>5, <3>2, <4>1, <4>2
    <3> QED BY <3>1, <3>2
  <2> QED BY <2>1
<1>11. Is(F)
  BY <1>10
<1>12. AesPage(s) = F[n].lines
  BY DEF AesPage, n, start, Skipped
<1> HIDE DEF F
<1>13. F[n] \in P /\ Good(n, F[n])
  <2> DEFINE H == {t \in 0..n : F[t] \in P /\ Good(t, F[t])}
  <2>0. n \in Nat /\ H \in SUBSET (0..n)
    BY <1>1
  <2>1. 0 \in H
    BY <1>1, <1>2, <1>8, <1>11
  <2>2. ASSUME NEW t \in 0..(n - 1), t \in H
        PROVE  t + 1 \in H
    <3>1. t + 1 \in 1..n /\ t + 1 \in 0..n /\ (t + 1) - 1 = t /\ t + 1 # 0
      BY <1>1
    <3>2. F[t + 1] = IF Skipped(t + 1) THEN F[t] ELSE Block(s, F[t], t + 1)
      BY <1>11, <3>1
    <3>3. F[t] \in P /\ Good(t, F[t])
      BY <2>2
    <3>4. Good(t + 1, F[t + 1])
      BY <1>9, <3>1, <3>2, <3>3
    <3> QED BY <1>3, <3>1, <3>2, <3>3, <3>4
  <2>3. n \in H
    <3> HIDE DEF H
    <3> QED BY <2>0, <2>1, <2>2, LastReached
  <2> QED BY <2>3
<1>14. PrintedUpTo(s, F[n], Len(s.types) + 1)
  BY <1>13 DEF Good, n
<1> QED BY <1>12, <1>14 DEF PrintedUpTo, AtTheEnd

-----------------------------------------------------------------------------
(***************************************************************************)
(* The parser, in step with the page.                                      *)
(***************************************************************************)

\* What a well-formed block says is of the descriptors that stand under its header.
BlockTracks(s, b) ==
  /\ b.ti \in Headed(s) /\ b.type = s.types[b.ti].type
  /\ ~b.malformed => \A p \in 1..Len(b.entries) :
       /\ Room(s, b.ti, p)
       /\ b.entries[p].index = GlobalIndex(s, At(s, b.ti, p))
       /\ b.entries[p].slot \in {Nothing, SlotOf(s, At(s, b.ti, p))}

\* A block that has them all, each with its number.
BlockComplete(s, b) ==
  \A q : Room(s, b.ti, q) =>
    q \in 1..Len(b.entries) /\ b.entries[q].slot = SlotOf(s, At(s, b.ti, q))

LastBlock(state) == state.blocks[Len(state.blocks)]

\* What the parser has found when the page has come to c.
Tracks(s, state, c) ==
  /\ c.is = "start" => c.t = 0
  /\ c.is = "element" => Room(s, c.t, c.p)
  /\ \A k \in 1..Len(state.blocks) :
       BlockTracks(s, state.blocks[k]) /\ state.blocks[k].ti <= c.t
  /\ \A i, j \in 1..Len(state.blocks) : i < j => state.blocks[i].ti < state.blocks[j].ti
  /\ state.in_block => /\ LastBlock(state).ti = c.t
                       /\ ~LastBlock(state).malformed => Len(LastBlock(state).entries) = c.p
  /\ ~state.in_block => \A k \in 1..Len(state.blocks) : state.blocks[k].ti < c.t

ToldUpTo(s, b, c) ==
  \A p \in 1..Len(b.entries) :
    b.entries[p].slot = IF p = c.p /\ c.is = "element" THEN Nothing ELSE SlotOf(s, At(s, c.t, p))

\* The same of a page that came without a fault.
Complete(s, state, c) ==
  /\ \A k \in 1..Len(state.blocks) :
       /\ ~state.blocks[k].malformed
       /\ state.blocks[k].ti < c.t => BlockComplete(s, state.blocks[k])
  /\ c.is # "start" => state.in_block
  /\ \A t \in Headed(s) : t <= c.t => \E k \in 1..Len(state.blocks) : state.blocks[k].ti = t
  /\ state.in_block => /\ c.p > 0 => state.in_entry
                       /\ ToldUpTo(s, LastBlock(state), c)

\* The state of a parser, field by field.
LEMMA ParserIs ==
  ASSUME NEW s, NEW state \in ParserStates(s)
  PROVE  /\ state.blocks \in Seq(AesBlocks(s)) /\ Len(state.blocks) \in Nat
         /\ DOMAIN state.blocks = 1..Len(state.blocks)
         /\ state.in_block \in BOOLEAN /\ state.in_entry \in BOOLEAN
         /\ state.in_block => Len(state.blocks) \in 1..Len(state.blocks)
         /\ state.in_entry => state.in_block /\ Len(LastBlock(state).entries) > 0
         /\ \A k \in 1..Len(state.blocks) :
              /\ state.blocks[k] \in AesBlocks(s) /\ state.blocks[k].ti \in DOMAIN s.types
              /\ state.blocks[k].entries \in Seq(BlockEntries(s))
              /\ Len(state.blocks[k].entries) \in Nat
              /\ state.blocks[k].malformed \in BOOLEAN
<1>1. /\ state.blocks \in Seq(AesBlocks(s)) /\ state.in_block \in BOOLEAN
      /\ state.in_entry \in BOOLEAN
      /\ state.in_block => Len(state.blocks) > 0
      /\ state.in_entry => state.in_block /\ Len(LastBlock(state).entries) > 0
  BY DEF ParserStates, LastBlock
<1>2. /\ Len(state.blocks) \in Nat /\ DOMAIN state.blocks = 1..Len(state.blocks)
      /\ \A k \in 1..Len(state.blocks) : state.blocks[k] \in AesBlocks(s)
  BY <1>1
<1>3. \A b \in AesBlocks(s) : /\ b.ti \in DOMAIN s.types /\ b.malformed \in BOOLEAN
                              /\ b.entries \in Seq(BlockEntries(s))
  BY DEF AesBlocks
<1>4. \A e \in Seq(BlockEntries(s)) : Len(e) \in Nat
  OBVIOUS
<1>5. \A k \in 1..Len(state.blocks) :
        /\ state.blocks[k] \in AesBlocks(s) /\ state.blocks[k].ti \in DOMAIN s.types
        /\ state.blocks[k].entries \in Seq(BlockEntries(s))
        /\ Len(state.blocks[k].entries) \in Nat
        /\ state.blocks[k].malformed \in BOOLEAN
  BY <1>2, <1>3, <1>4
<1>6. state.in_block => Len(state.blocks) \in 1..Len(state.blocks)
  BY <1>1, <1>2
<1> QED BY <1>1, <1>2, <1>5, <1>6

\* A new last block under the same header.
LEMMA LastTracks ==
  ASSUME NEW s, IsShelf(s), NEW state \in ParserStates(s), state.in_block,
         NEW c \in Cursors, NEW d \in Cursors, d.t = c.t, d.is # "start",
         d.is = "element" => Room(s, d.t, d.p), Tracks(s, state, c),
         NEW block \in AesBlocks(s), block.ti = LastBlock(state).ti, BlockTracks(s, block),
         ~block.malformed => Len(block.entries) = d.p,
         NEW new, new.blocks = [state.blocks EXCEPT ![Len(state.blocks)] = block], new.in_block
  PROVE  /\ Tracks(s, new, d)
         /\ Complete(s, state, c) /\ ~block.malformed /\ (d.p > 0 => new.in_entry)
              /\ ToldUpTo(s, block, d) => Complete(s, new, d)
<1> DEFINE last == Len(state.blocks)
           old == state.blocks
<1>1. /\ old \in Seq(AesBlocks(s)) /\ last \in Nat /\ last \in 1..last
      /\ \A k \in 1..last : old[k].ti \in Nat
  <2>1. \A t \in DOMAIN s.types : t \in Nat
    BY TypesOf
  <2> QED BY <2>1, ParserIs
<1>2. /\ Len(new.blocks) = last
      /\ \A k \in 1..last : new.blocks[k] = IF k = last THEN block ELSE old[k]
  BY <1>1, ExceptSeq
<1>3. /\ LastBlock(new) = block /\ LastBlock(state) = old[last]
      /\ \A k \in 1..last : new.blocks[k].ti = old[k].ti
  <2>1. LastBlock(new) = block
    BY <1>1, <1>2 DEF LastBlock
  <2>2. block.ti = old[last].ti
    BY DEF LastBlock
  <2>3. \A k \in 1..last : new.blocks[k].ti = old[k].ti
    BY <1>2, <2>2
  <2> QED BY <2>1, <2>3 DEF LastBlock
<1>4. /\ \A k \in 1..last : BlockTracks(s, old[k]) /\ old[k].ti <= c.t
      /\ \A i, j \in 1..last : i < j => old[i].ti < old[j].ti
      /\ LastBlock(state).ti = c.t
  BY DEF Tracks
<1> HIDE DEF last, old
<1>5. Tracks(s, new, d)
  <2>1. \A k \in 1..last : BlockTracks(s, new.blocks[k]) /\ new.blocks[k].ti <= d.t
    BY <1>2, <1>3, <1>4
  <2>2. \A i, j \in 1..last : i < j => new.blocks[i].ti < new.blocks[j].ti
    BY <1>3, <1>4
  <2>3. LastBlock(new).ti = d.t /\ (~LastBlock(new).malformed => Len(LastBlock(new).entries) = d.p)
    BY <1>3, <1>4
  <2> QED BY <1>2, <2>1, <2>2, <2>3 DEF Tracks
<1>6. ASSUME Complete(s, state, c), ~block.malformed, d.p > 0 => new.in_entry,
             ToldUpTo(s, block, d)
      PROVE  Complete(s, new, d)
  <2>1. /\ \A k \in 1..last : ~old[k].malformed /\ (old[k].ti < c.t => BlockComplete(s, old[k]))
        /\ \A t \in Headed(s) : t <= c.t => \E k \in 1..last : old[k].ti = t
    BY <1>6 DEF Complete, last, old
  <2>2. \A k \in 1..last : /\ ~new.blocks[k].malformed
                           /\ new.blocks[k].ti < d.t => BlockComplete(s, new.blocks[k])
    <3> TAKE k \in 1..last
    <3>1. CASE k = last
      <4>1. new.blocks[k] = block /\ ~(block.ti < d.t)
        BY <1>1, <1>2, <1>3, <1>4, <3>1
      <4> QED BY <1>6, <4>1
    <3>2. CASE k # last
      BY <1>2, <2>1, <3>2
    <3> QED BY <3>1, <3>2
  <2>3. \A t \in Headed(s) : t <= d.t => \E k \in 1..last : new.blocks[k].ti = t
    BY <1>3, <2>1
  <2> QED BY <1>2, <1>3, <1>6, <2>2, <2>3 DEF Complete
<1> QED BY <1>5, <1>6

\* When nothing more comes under a header, every block is complete.
LEMMA FullBlocks ==
  ASSUME NEW s, IsShelf(s), NEW state \in ParserStates(s), NEW c \in Cursors,
         Tracks(s, state, c), Complete(s, state, c), FullAt(s, c)
  PROVE  \A k \in 1..Len(state.blocks) : BlockComplete(s, state.blocks[k])
<1> DEFINE last == Len(state.blocks)
           old == state.blocks
<1>1. /\ last \in Nat /\ \A k \in 1..last : old[k].ti \in Nat
      /\ state.in_block => last \in 1..last
  <2>1. \A t \in DOMAIN s.types : t \in Nat
    BY TypesOf
  <2> QED BY <2>1, ParserIs
<1>2. c.t \in Nat /\ c.p \in Nat
  BY DEF Cursors
<1>3. /\ \A k \in 1..last : BlockTracks(s, old[k]) /\ old[k].ti <= c.t
      /\ \A i, j \in 1..last : i < j => old[i].ti < old[j].ti
      /\ state.in_block => /\ old[last].ti = c.t
                           /\ ~old[last].malformed => Len(old[last].entries) = c.p
      /\ c.is = "start" => c.t = 0
  BY DEF Tracks, LastBlock
<1>4. /\ \A k \in 1..last : ~old[k].malformed /\ (old[k].ti < c.t => BlockComplete(s, old[k]))
      /\ c.is # "start" => state.in_block
      /\ state.in_block => ToldUpTo(s, old[last], c)
  BY DEF Complete, LastBlock
<1> HIDE DEF last, old
<1> SUFFICES ASSUME NEW k \in 1..last PROVE BlockComplete(s, old[k])
  BY DEF last, old
<1>5. CASE old[k].ti < c.t
  BY <1>4, <1>5
<1>6. CASE ~(old[k].ti < c.t)
  <2>1. old[k].ti = c.t /\ old[k].ti \in Headed(s)
    BY <1>1, <1>2, <1>3, <1>6 DEF BlockTracks
  <2>2. c.t # 0
    BY <2>1, TypesOf
  <2>3. c.is # "start" /\ state.in_block
    BY <1>3, <1>4, <2>2
  <2>4. k = last
    BY <1>1, <1>2, <1>3, <2>1, <2>3
  <2>5. /\ ToldUpTo(s, old[last], c) /\ Len(old[last].entries) = c.p
        /\ ToldAt(s, c) /\ \A q : Room(s, c.t, q) => q <= c.p
    BY <1>3, <1>4, <2>3, <2>4 DEF FullAt
  <2>6. ASSUME NEW q, Room(s, c.t, q)
        PROVE  /\ q \in 1..Len(old[last].entries)
               /\ old[last].entries[q].slot = SlotOf(s, At(s, c.t, q))
    <3>1. q \in 1..c.p
      BY <1>2, <2>5, <2>6 DEF Room
    <3>2. old[last].entries[q].slot =
            IF q = c.p /\ c.is = "element" THEN Nothing ELSE SlotOf(s, At(s, c.t, q))
      BY <2>5, <3>1 DEF ToldUpTo
    <3> QED BY <2>5, <3>1, <3>2 DEF ToldAt
  <2> QED BY <2>1, <2>4, <2>6 DEF BlockComplete
<1> QED BY <1>5, <1>6

\* The block that a header begins.
LEMMA HeaderTracks ==
  ASSUME NEW s, IsShelf(s), NEW state \in ParserStates(s), NEW c \in Cursors, NEW d \in Cursors,
         d.is = "type", LeadsTo(s, c, d), Tracks(s, state, c)
  PROVE  /\ Tracks(s, ParseLine(state, LineAt(s, d)), d)
         /\ Complete(s, state, c) => Complete(s, ParseLine(state, LineAt(s, d)), d)
<1> DEFINE last == Len(state.blocks)
           old == state.blocks
           line == LineAt(s, d)
           new == ParseLine(state, line)
           block == NewBlock(line)
<1>1. /\ old \in Seq(AesBlocks(s)) /\ last \in Nat
      /\ \A k \in 1..last : old[k].ti \in Nat
      /\ state.in_block => last \in 1..last
  <2>1. \A t \in DOMAIN s.types : t \in Nat
    BY TypesOf
  <2> QED BY <2>1, ParserIs
<1>2. line = [is |-> "type", type |-> s.types[d.t].type, ti |-> d.t]
  BY DEF LineAt
<1>3. new = [blocks |-> Append(old, block), in_block |-> TRUE, in_entry |-> FALSE]
  BY <1>2 DEF ParseLine
<1>4. /\ d.p = 0 /\ d.t \in Headed(s) /\ c.t < d.t /\ NoHeader(s, c.t, d.t) /\ FullAt(s, c)
      /\ d.t \in Nat /\ c.t \in Nat /\ c.p \in Nat
  <2>1. d.p = 0 /\ d.t \in Headed(s) /\ c.t < d.t /\ NoHeader(s, c.t, d.t) /\ FullAt(s, c)
    BY DEF LeadsTo
  <2> QED BY <2>1 DEF Cursors
<1>5. /\ block.ti = d.t /\ block.type = s.types[d.t].type /\ block.entries = <<>>
      /\ ~block.malformed /\ Len(<<>>) = 0 /\ 1..0 = {}
  BY <1>2 DEF NewBlock
<1> HIDE DEF block, line
<1>6. /\ Len(new.blocks) = last + 1 /\ new.in_block
      /\ \A k \in 1..last : new.blocks[k] = old[k]
      /\ new.blocks[last + 1] = block
  <2>1. new.blocks = Append(old, block) /\ new.in_block
    BY <1>3
  <2> HIDE DEF new
  <2> QED BY <1>1, <2>1
<1> HIDE DEF new
<1>7. /\ \A k \in 1..last : BlockTracks(s, old[k]) /\ old[k].ti <= c.t
      /\ \A i, j \in 1..last : i < j => old[i].ti < old[j].ti
      /\ state.in_block => /\ old[last].ti = c.t
                           /\ ~old[last].malformed => Len(old[last].entries) = c.p
      /\ c.is = "start" => c.t = 0
  BY DEF Tracks, LastBlock
<1>8. LastBlock(new) = block
  BY <1>6 DEF LastBlock
<1> HIDE DEF last, old
<1>9. \A k \in 1..(last + 1) : k \in 1..last \/ k = last + 1
  BY <1>1
<1>10. Tracks(s, new, d)
  <2>1. BlockTracks(s, block)
    BY <1>4, <1>5 DEF BlockTracks
  <2>2. \A k \in 1..(last + 1) : BlockTracks(s, new.blocks[k]) /\ new.blocks[k].ti <= d.t
    BY <1>1, <1>4, <1>5, <1>6, <1>7, <1>9, <2>1
  <2>3. \A i, j \in 1..(last + 1) : i < j => new.blocks[i].ti < new.blocks[j].ti
    <3> TAKE i, j \in 1..(last + 1)
    <3>1. CASE j \in 1..last
      <4>1. i < j => i \in 1..last
        BY <1>1, <3>1
      <4> QED BY <1>6, <1>7, <3>1, <4>1
    <3>2. CASE j = last + 1
      <4>1. i < j => i \in 1..last
        BY <1>1, <3>2
      <4> QED BY <1>1, <1>4, <1>5, <1>6, <1>7, <3>2, <4>1
    <3> QED BY <1>9, <3>1, <3>2
  <2> QED BY <1>4, <1>5, <1>6, <1>8, <2>2, <2>3 DEF Tracks
<1>11. ASSUME Complete(s, state, c) PROVE Complete(s, new, d)
  <2>1. /\ \A k \in 1..last : ~old[k].malformed /\ (old[k].ti < c.t => BlockComplete(s, old[k]))
        /\ \A t \in Headed(s) : t <= c.t => \E k \in 1..last : old[k].ti = t
        /\ c.is # "start" => state.in_block
        /\ state.in_block => ToldUpTo(s, old[last], c)
    BY <1>11 DEF Complete, last, old, LastBlock
  <2>2. \A k \in 1..last : BlockComplete(s, old[k])
    BY <1>4, <1>11, FullBlocks DEF last, old
  <2>3. \A k \in 1..(last + 1) : /\ ~new.blocks[k].malformed
                                 /\ new.blocks[k].ti < d.t => BlockComplete(s, new.blocks[k])
    BY <1>4, <1>5, <1>6, <1>9, <2>1, <2>2
  <2>4. ASSUME NEW t \in Headed(s), t <= d.t
        PROVE  \E k \in 1..(last + 1) : new.blocks[k].ti = t
    <3>0. t \in Nat
      BY TypesOf
    <3>1. CASE t <= c.t
      <4>1. PICK k \in 1..last : old[k].ti = t
        BY <2>1, <3>1
      <4> QED BY <1>1, <1>6, <4>1
    <3>2. CASE ~(t <= c.t)
      <4>1. t = d.t
        BY <1>4, <2>4, <3>0, <3>2 DEF NoHeader
      <4>2. last + 1 \in 1..(last + 1)
        BY <1>1
      <4> QED BY <1>5, <1>6, <4>1, <4>2
    <3> QED BY <3>1, <3>2
  <2>5. ToldUpTo(s, block, d)
    BY <1>5 DEF ToldUpTo
  <2> QED BY <1>4, <1>6, <1>8, <2>3, <2>4, <2>5 DEF Complete
<1> QED BY <1>10, <1>11 DEF new, line

AsGarbled(line) ==
  IF line.is = "type" THEN [is |-> "bad type"]
  ELSE IF line.is = "element" THEN [is |-> "bad element"] ELSE line

\* What a move says of the line it comes to.
LEMMA MovesAre ==
  ASSUME NEW s, NEW c \in Cursors, NEW d \in Cursors, LeadsTo(s, c, d)
  PROVE  /\ d.is # "start" /\ c.t \in Nat /\ c.p \in Nat /\ d.t \in Nat /\ d.p \in Nat
         /\ d.is = "type" => /\ LineAt(s, d).is = "type" /\ c.t < d.t
         /\ d.is # "type" => d.t = c.t /\ c.is # "start"
         /\ d.is = "element" =>
              /\ LineAt(s, d) = [is |-> "element", index |-> GlobalIndex(s, At(s, d.t, d.p))]
              /\ d.p = c.p + 1 /\ Room(s, d.t, d.p) /\ ToldAt(s, c)
         /\ d.is = "slot" =>
              /\ LineAt(s, d) = [is |-> "slot", slot |-> SlotOf(s, At(s, d.t, d.p))]
              /\ d.p = c.p /\ c.is = "element" /\ SlotOf(s, At(s, d.t, d.p)) # Nothing
         /\ d.is = "address" =>
              /\ LineAt(s, d) = [is |-> "address", address |-> Address(At(s, d.t, d.p))]
              /\ d.p = c.p /\ c.is = "slot"
         /\ d.is \in {"type", "element", "slot", "address"}
<1>1. /\ c.t \in Nat /\ c.p \in Nat /\ d.t \in Nat /\ d.p \in Nat
      /\ d.is \in {"start", "type", "element", "slot", "address"}
  BY DEF Cursors
<1> QED BY <1>1 DEF LeadsTo, LineAt

\* A line that the parser passes over.
LEMMA IgnoredTracks ==
  ASSUME NEW s, IsShelf(s), NEW state \in ParserStates(s), NEW c \in Cursors, NEW d \in Cursors,
         d.t = c.t, d.is # "start", d.is = "element" => Room(s, d.t, d.p),
         ~state.in_block \/ d.p = c.p, Tracks(s, state, c)
  PROVE  /\ Tracks(s, state, d)
         /\ Complete(s, state, c) /\ d.p = c.p /\ c.is = "slot" /\ d.is = "address"
              => Complete(s, state, d)
<1>1. Tracks(s, state, d)
  BY DEF Tracks
<1>2. ASSUME Complete(s, state, c), d.p = c.p, c.is = "slot", d.is = "address"
      PROVE  Complete(s, state, d)
  BY <1>2 DEF Complete, ToldUpTo
<1> QED BY <1>1, <1>2

\* A header that no pattern matches: what follows it is passed over.
LEMMA BadHeaderTracks ==
  ASSUME NEW s, IsShelf(s), NEW state \in ParserStates(s), NEW c \in Cursors, NEW d \in Cursors,
         d.is = "type", LeadsTo(s, c, d), Tracks(s, state, c)
  PROVE  Tracks(s, ParseLine(state, [is |-> "bad type"]), d)
<1> DEFINE new == ParseLine(state, [is |-> "bad type"])
<1>1. new = [state EXCEPT !.in_block = FALSE, !.in_entry = FALSE]
  BY DEF ParseLine
<1>2. state = [blocks |-> state.blocks, in_block |-> state.in_block, in_entry |-> state.in_entry]
  BY DEF ParserStates
<1>3. new.blocks = state.blocks /\ ~new.in_block
  BY <1>1, <1>2
<1> HIDE DEF new
<1>4. c.t < d.t /\ c.t \in Nat /\ d.t \in Nat
  BY MovesAre
<1>5. \A k \in 1..Len(state.blocks) : state.blocks[k].ti \in Nat
  <2>1. \A t \in DOMAIN s.types : t \in Nat
    BY TypesOf
  <2> QED BY <2>1, ParserIs
<1>6. \A k \in 1..Len(state.blocks) : /\ BlockTracks(s, state.blocks[k])
                                      /\ state.blocks[k].ti <= d.t /\ state.blocks[k].ti < d.t
  BY <1>4, <1>5 DEF Tracks
<1>7. \A i, j \in 1..Len(state.blocks) : i < j => state.blocks[i].ti < state.blocks[j].ti
  BY DEF Tracks
<1> QED BY <1>3, <1>6, <1>7 DEF Tracks, new

\* The descriptor's first line, on which the entry begins.
LEMMA ElementTracks ==
  ASSUME NEW s, IsShelf(s), NEW state \in ParserStates(s), NEW c \in Cursors, NEW d \in Cursors,
         d.is = "element", LeadsTo(s, c, d), Tracks(s, state, c), state.in_block,
         LineAt(s, d) \in SesLines(s)
  PROVE  /\ Tracks(s, ParseLine(state, LineAt(s, d)), d)
         /\ Complete(s, state, c) => Complete(s, ParseLine(state, LineAt(s, d)), d)
<1> DEFINE last == Len(state.blocks)
           block == LastBlock(state)
           open == Len(block.entries)
           line == LineAt(s, d)
           new == ParseLine(state, line)
           x == At(s, d.t, d.p)
           fresh == [NoEntry EXCEPT !.index = line.index]
           wider == [block EXCEPT !.entries = Append(@, fresh)]
<1>1. /\ line = [is |-> "element", index |-> GlobalIndex(s, x)]
      /\ d.t = c.t /\ d.p = c.p + 1 /\ Room(s, d.t, d.p) /\ ToldAt(s, c) /\ c.is # "start"
      /\ c.p \in Nat /\ d.p \in Nat
  <2>1. /\ d.is # "type" => d.t = c.t /\ c.is # "start"
        /\ c.p \in Nat /\ d.p \in Nat
    BY MovesAre
  <2>2. /\ LineAt(s, d) = [is |-> "element", index |-> GlobalIndex(s, At(s, d.t, d.p))]
        /\ d.p = c.p + 1 /\ Room(s, d.t, d.p) /\ ToldAt(s, c)
    BY MovesAre
  <2> QED BY <2>1, <2>2
<1>2. /\ block \in AesBlocks(s) /\ block.entries \in Seq(BlockEntries(s)) /\ open \in Nat
      /\ last \in 1..last
  <2>1. last \in 1..last
    BY ParserIs
  <2> QED BY <2>1, ParserIs DEF LastBlock
<1>3. /\ block = [type |-> block.type, ti |-> block.ti, entries |-> block.entries,
                  malformed |-> block.malformed]
      /\ block.type \in {s.types[t].type : t \in DOMAIN s.types}
      /\ block.ti \in DOMAIN s.types /\ block.malformed \in BOOLEAN
  <2> HIDE DEF block
  <2> QED BY <1>2 DEF AesBlocks
<1>4. new = Opening(state, wider)
  <2>1. state = [blocks |-> state.blocks, in_block |-> state.in_block,
                 in_entry |-> state.in_entry]
    BY DEF ParserStates
  <2>2. line.is = "element"
    BY <1>1
  <2> HIDE DEF line
  <2> QED BY <2>1, <2>2 DEF ParseLine, Opening, LastBlock
<1>5. /\ fresh \in BlockEntries(s) /\ fresh.slot = Nothing /\ fresh.index = GlobalIndex(s, x)
  <2>1. line.index \in Indexes(s)
    <3>1. line \in SesLines(s)
      OBVIOUS
    <3>2. line.is = "element"
      BY <1>1
    <3> HIDE DEF line
    <3> QED BY <3>1, <3>2 DEF SesLines
  <2> HIDE DEF Indexes, x
  <2> QED BY <1>1, <2>1 DEF NoEntry, BlockEntries
<1> HIDE DEF fresh, line, x
<1>6. /\ Append(block.entries, fresh) \in Seq(BlockEntries(s))
      /\ Len(Append(block.entries, fresh)) = open + 1
      /\ \A p \in 1..open : Append(block.entries, fresh)[p] = block.entries[p]
      /\ Append(block.entries, fresh)[open + 1] = fresh
  <2> HIDE DEF block
  <2> QED BY <1>2, <1>5, AppendProperties
<1> HIDE DEF block, open
<1>7. /\ wider.entries = Append(block.entries, fresh) /\ wider \in AesBlocks(s)
      /\ wider.ti = block.ti /\ wider.type = block.type /\ wider.malformed = block.malformed
  BY <1>3, <1>6 DEF AesBlocks
<1> HIDE DEF wider
<1>8. BlockTracks(s, block) /\ block.ti = c.t /\ (~block.malformed => open = c.p)
  BY <1>2 DEF Tracks, LastBlock, block, last, open
<1>9. \A p \in 1..(open + 1) : p \in 1..open \/ p = open + 1
  BY <1>2
<1>10. BlockTracks(s, wider)
  <2>1. ASSUME ~wider.malformed, NEW p \in 1..Len(wider.entries)
        PROVE  /\ Room(s, wider.ti, p)
               /\ wider.entries[p].index = GlobalIndex(s, At(s, wider.ti, p))
               /\ wider.entries[p].slot \in {Nothing, SlotOf(s, At(s, wider.ti, p))}
    <3>1. CASE p \in 1..open
      <4>1. ~block.malformed /\ p \in 1..Len(block.entries) /\ wider.entries[p] = block.entries[p]
        BY <1>6, <1>7, <2>1, <3>1 DEF open
      <4> QED BY <1>7, <1>8, <4>1 DEF BlockTracks
    <3>2. CASE p = open + 1
      <4>1. p = d.p /\ wider.ti = d.t /\ wider.entries[p] = fresh
        BY <1>1, <1>6, <1>7, <1>8, <2>1, <3>2
      <4> QED BY <1>1, <1>5, <4>1 DEF x
    <3> QED BY <1>6, <1>7, <1>9, <2>1, <3>1, <3>2
  <2> QED BY <1>7, <1>8, <2>1 DEF BlockTracks
<1>11. /\ ~wider.malformed => Len(wider.entries) = d.p
       /\ new.in_block /\ new.in_entry
       /\ new.blocks = [state.blocks EXCEPT ![Len(state.blocks)] = wider]
  BY <1>1, <1>4, <1>6, <1>7, <1>8 DEF Opening
<1> HIDE DEF new
<1>12. ASSUME Complete(s, state, c) PROVE ~wider.malformed /\ ToldUpTo(s, wider, d)
  <2>1. ~block.malformed /\ ToldUpTo(s, block, c)
    BY <1>2, <1>12 DEF Complete, LastBlock, block, last
  <2>2. ASSUME NEW p \in 1..Len(wider.entries)
        PROVE  wider.entries[p].slot =
                 IF p = d.p /\ d.is = "element" THEN Nothing ELSE SlotOf(s, At(s, d.t, p))
    <3>1. CASE p \in 1..open
      <4>1. wider.entries[p] = block.entries[p] /\ p # d.p
        BY <1>1, <1>2, <1>6, <1>7, <1>8, <2>1, <3>1
      <4>2. block.entries[p].slot =
              IF p = c.p /\ c.is = "element" THEN Nothing ELSE SlotOf(s, At(s, c.t, p))
        BY <2>1, <3>1 DEF ToldUpTo, open
      <4> QED BY <1>1, <4>1, <4>2 DEF ToldAt
    <3>2. CASE p = open + 1
      <4>1. p = d.p /\ wider.entries[p] = fresh
        BY <1>1, <1>6, <1>7, <1>8, <2>1, <3>2
      <4> QED BY <1>5, <4>1
    <3> QED BY <1>6, <1>7, <1>9, <3>1, <3>2
  <2> QED BY <1>7, <2>1, <2>2 DEF ToldUpTo
<1>13. wider.ti = LastBlock(state).ti
  BY <1>7 DEF block
<1>14. /\ Tracks(s, new, d)
       /\ Complete(s, state, c) /\ ~wider.malformed /\ (d.p > 0 => new.in_entry)
              /\ ToldUpTo(s, wider, d) => Complete(s, new, d)
  BY <1>1, <1>7, <1>10, <1>11, <1>13, LastTracks
<1> QED BY <1>11, <1>12, <1>14 DEF new, line

\* An element line that no pattern matches: the block is marked and the entry closed.
LEMMA BadElementTracks ==
  ASSUME NEW s, IsShelf(s), NEW state \in ParserStates(s), NEW c \in Cursors, NEW d \in Cursors,
         d.is = "element", LeadsTo(s, c, d), Tracks(s, state, c), state.in_block
  PROVE  Tracks(s, ParseLine(state, [is |-> "bad element"]), d)
<1> DEFINE last == Len(state.blocks)
           block == LastBlock(state)
           new == ParseLine(state, [is |-> "bad element"])
           worse == [block EXCEPT !.malformed = TRUE]
<1>1. d.t = c.t /\ Room(s, d.t, d.p)
  BY MovesAre
<1>2. block \in AesBlocks(s) /\ last \in 1..last
  <2>1. last \in 1..last
    BY ParserIs
  <2> QED BY <2>1, ParserIs DEF LastBlock
<1>3. new = Closed(state, worse)
  <2>1. state = [blocks |-> state.blocks, in_block |-> state.in_block,
                 in_entry |-> state.in_entry]
    BY DEF ParserStates
  <2> QED BY <2>1 DEF ParseLine, BadElement, Closed, LastBlock
<1>4. BlockTracks(s, block)
  BY <1>2 DEF Tracks, LastBlock, last
<1>5. worse \in AesBlocks(s) /\ worse.ti = block.ti /\ worse.malformed /\ worse.type = block.type
  <2> HIDE DEF block
  <2> QED BY <1>2 DEF AesBlocks
<1> HIDE DEF worse
<1>6. BlockTracks(s, worse)
  BY <1>4, <1>5 DEF BlockTracks
<1> HIDE DEF new
<1>7. new.in_block /\ new.blocks = [state.blocks EXCEPT ![Len(state.blocks)] = worse]
  BY <1>3 DEF Closed
<1>8. Tracks(s, new, d)
  BY <1>1, <1>5, <1>6, <1>7, LastTracks
<1> QED BY <1>8 DEF new

\* The line with the number, or another that leaves the indexes and the other entries alone.
LEMMA SlotTracks ==
  ASSUME NEW s, IsShelf(s), NEW state \in ParserStates(s), NEW c \in Cursors, NEW d \in Cursors,
         d.is \in {"slot", "address"}, LeadsTo(s, c, d), Tracks(s, state, c), state.in_entry,
         LineAt(s, d) \in SesLines(s)
  PROVE  /\ Tracks(s, ParseLine(state, LineAt(s, d)), d)
         /\ Complete(s, state, c) => Complete(s, ParseLine(state, LineAt(s, d)), d)
<1> DEFINE last == Len(state.blocks)
           block == LastBlock(state)
           open == Len(block.entries)
           line == LineAt(s, d)
           new == ParseLine(state, line)
           old == block.entries[open]
           told == IF d.is = "slot"
                   THEN [old EXCEPT !.slot = IF @ = Nothing THEN line.slot ELSE @]
                   ELSE [old EXCEPT !.address = IF @ = Nothing THEN line.address ELSE @]
           wiser == [block EXCEPT !.entries = [@ EXCEPT ![open] = told]]
<1>1. /\ d.t = c.t /\ d.p = c.p /\ c.p \in Nat /\ d.is # "start" /\ d.is # "element"
      /\ d.is = "slot" => /\ line = [is |-> "slot", slot |-> SlotOf(s, At(s, c.t, c.p))]
                          /\ c.is = "element"
      /\ d.is = "address" => /\ line = [is |-> "address", address |-> Address(At(s, c.t, c.p))]
                             /\ c.is = "slot"
  <2>1. d.is # "type" /\ d.is # "start" /\ d.is # "element"
    OBVIOUS
  <2>2. d.t = c.t /\ c.p \in Nat
    BY <2>1, MovesAre
  <2>3. CASE d.is = "slot"
    <3>1. /\ LineAt(s, d) = [is |-> "slot", slot |-> SlotOf(s, At(s, d.t, d.p))]
          /\ d.p = c.p /\ c.is = "element"
      BY <2>3, MovesAre
    <3> QED BY <2>1, <2>2, <2>3, <3>1
  <2>4. CASE d.is = "address"
    <3>1. /\ LineAt(s, d) = [is |-> "address", address |-> Address(At(s, d.t, d.p))]
          /\ d.p = c.p /\ c.is = "slot"
      BY <2>4, MovesAre
    <3> QED BY <2>1, <2>2, <2>4, <3>1
  <2> QED BY <2>3, <2>4
<1>2. /\ state.in_block /\ last \in 1..last /\ open \in Nat /\ open > 0
      /\ block \in AesBlocks(s) /\ block.entries \in Seq(BlockEntries(s))
  <2>1. state.in_block /\ last \in 1..last /\ open > 0
    BY ParserIs
  <2> QED BY <2>1, ParserIs DEF LastBlock
<1>3. /\ block = [type |-> block.type, ti |-> block.ti, entries |-> block.entries,
                  malformed |-> block.malformed]
      /\ block.type \in {s.types[t].type : t \in DOMAIN s.types}
      /\ block.ti \in DOMAIN s.types /\ block.malformed \in BOOLEAN
  <2> HIDE DEF block
  <2> QED BY <1>2 DEF AesBlocks
<1>4. old \in BlockEntries(s) /\ open \in 1..open
  <2> HIDE DEF block
  <2> QED BY <1>2
<1>5. new = Opening(state, wiser)
  <2>1. state = [blocks |-> state.blocks, in_block |-> state.in_block,
                 in_entry |-> state.in_entry]
    BY DEF ParserStates
  <2>2. line.is = d.is
    BY <1>1
  <2> HIDE DEF line
  <2>3. CASE d.is = "slot"
    BY <1>2, <2>1, <2>2, <2>3 DEF ParseLine, Opening, LastBlock
  <2>4. CASE d.is = "address"
    BY <1>2, <2>1, <2>2, <2>4 DEF ParseLine, Opening, LastBlock
  <2> QED BY <2>3, <2>4
<1>6. /\ told \in BlockEntries(s) /\ told.index = old.index
      /\ d.is = "slot" => told.slot = IF old.slot = Nothing THEN SlotOf(s, At(s, c.t, c.p))
                                      ELSE old.slot
      /\ d.is = "address" => told.slot = old.slot
  <2>1. CASE d.is = "slot"
    <3>1. line.slot \in SlotNumbers /\ line.slot = SlotOf(s, At(s, c.t, c.p))
      <4>1. line.is = "slot" /\ line \in SesLines(s)
        BY <1>1, <2>1
      <4>2. line.slot = SlotOf(s, At(s, c.t, c.p))
        BY <1>1, <2>1
      <4> HIDE DEF line
      <4> QED BY <4>1, <4>2 DEF SesLines
    <3> HIDE DEF old, line
    <3> QED BY <1>4, <2>1, <3>1 DEF BlockEntries
  <2>2. CASE d.is = "address"
    <3>1. line.address \in BaysOf(s.types)
      <4>1. line.is = "address" /\ line \in SesLines(s)
        BY <1>1, <2>2
      <4> HIDE DEF line
      <4> QED BY <4>1 DEF SesLines
    <3> HIDE DEF old, line
    <3> QED BY <1>4, <2>2, <3>1 DEF BlockEntries
  <2> QED BY <2>1, <2>2
<1> HIDE DEF told, line
<1>7. /\ [block.entries EXCEPT ![open] = told] \in Seq(BlockEntries(s))
      /\ Len([block.entries EXCEPT ![open] = told]) = open
      /\ \A p \in 1..open : [block.entries EXCEPT ![open] = told][p] =
                               IF p = open THEN told ELSE block.entries[p]
  <2> HIDE DEF block
  <2> QED BY <1>2, <1>4, <1>6, ExceptSeq
<1> HIDE DEF block
<1>8. /\ wiser.entries = [block.entries EXCEPT ![open] = told] /\ wiser \in AesBlocks(s)
      /\ wiser.ti = block.ti /\ wiser.type = block.type /\ wiser.malformed = block.malformed
  BY <1>3, <1>7 DEF AesBlocks
<1> HIDE DEF wiser
<1>9. /\ Len(wiser.entries) = open
      /\ \A p \in 1..open : wiser.entries[p] = IF p = open THEN told ELSE block.entries[p]
  BY <1>7, <1>8
<1>10. BlockTracks(s, block) /\ block.ti = c.t /\ (~block.malformed => open = c.p)
  BY <1>2 DEF Tracks, LastBlock, block, last
<1>11. BlockTracks(s, wiser)
  <2>1. ASSUME ~wiser.malformed, NEW p \in 1..open
        PROVE  /\ Room(s, wiser.ti, p)
               /\ wiser.entries[p].index = GlobalIndex(s, At(s, wiser.ti, p))
               /\ wiser.entries[p].slot \in {Nothing, SlotOf(s, At(s, wiser.ti, p))}
    <3>1. /\ Room(s, wiser.ti, p)
          /\ block.entries[p].index = GlobalIndex(s, At(s, wiser.ti, p))
          /\ block.entries[p].slot \in {Nothing, SlotOf(s, At(s, wiser.ti, p))}
      BY <1>8, <1>10, <2>1 DEF BlockTracks
    <3>2. CASE p = open
      <4>1. wiser.entries[p] = told /\ old = block.entries[p] /\ p = c.p /\ wiser.ti = c.t
        BY <1>8, <1>9, <1>10, <2>1, <3>2
      <4> HIDE DEF old
      <4> QED BY <1>6, <3>1, <4>1
    <3>3. CASE p # open
      BY <1>9, <3>1, <3>3
    <3> QED BY <3>2, <3>3
  <2> QED BY <1>8, <1>9, <1>10, <2>1 DEF BlockTracks
<1>12. /\ ~wiser.malformed => Len(wiser.entries) = d.p
       /\ new.in_block /\ new.in_entry
       /\ new.blocks = [state.blocks EXCEPT ![Len(state.blocks)] = wiser]
  <2> HIDE DEF new
  <2> QED BY <1>1, <1>5, <1>8, <1>9, <1>10 DEF Opening
<1> HIDE DEF new
<1>13. ASSUME Complete(s, state, c) PROVE ~wiser.malformed /\ ToldUpTo(s, wiser, d)
  <2>1. ~block.malformed /\ ToldUpTo(s, block, c)
    BY <1>2, <1>13 DEF Complete, LastBlock, block, last
  <2>2. ASSUME NEW p \in 1..open PROVE wiser.entries[p].slot = SlotOf(s, At(s, d.t, p))
    <3>1. block.entries[p].slot =
            IF p = c.p /\ c.is = "element" THEN Nothing ELSE SlotOf(s, At(s, c.t, p))
      BY <2>1 DEF ToldUpTo
    <3>2. open = c.p
      BY <1>10, <2>1
    <3>3. CASE p = open
      <4>1. wiser.entries[p] = told /\ old = block.entries[p]
        BY <1>9, <3>3
      <4> HIDE DEF old
      <4> QED BY <1>1, <1>6, <3>1, <3>2, <3>3, <4>1
    <3>4. CASE p # open
      BY <1>1, <1>9, <3>1, <3>2, <3>4
    <3> QED BY <3>3, <3>4
  <2> QED BY <1>1, <1>8, <1>9, <2>1, <2>2 DEF ToldUpTo
<1>14. wiser.ti = LastBlock(state).ti
  BY <1>8 DEF block
<1>15. /\ Tracks(s, new, d)
       /\ Complete(s, state, c) /\ ~wiser.malformed /\ (d.p > 0 => new.in_entry)
              /\ ToldUpTo(s, wiser, d) => Complete(s, new, d)
  BY <1>1, <1>2, <1>8, <1>11, <1>12, <1>14, LastTracks
<1> QED BY <1>12, <1>13, <1>15 DEF new, line

\* A line, whole or garbled, keeps what is parsed in step.
LEMMA LineTracks ==
  ASSUME NEW s, IsShelf(s), NEW state \in ParserStates(s), NEW c \in Cursors, NEW d \in Cursors,
         LeadsTo(s, c, d), Tracks(s, state, c), NEW line \in SesLines(s),
         line = LineAt(s, d) \/ line = AsGarbled(LineAt(s, d))
  PROVE  /\ Tracks(s, ParseLine(state, line), d)
         /\ line = LineAt(s, d) /\ Complete(s, state, c) => Complete(s, ParseLine(state, line), d)
<1> DEFINE new == ParseLine(state, line)
<1>1. /\ d.is \in {"type", "element", "slot", "address"} /\ LineAt(s, d).is = d.is
      /\ d.is # "type" => d.t = c.t /\ c.is # "start"
      /\ d.is = "element" => Room(s, d.t, d.p)
      /\ d.is \in {"slot", "address"} => d.p = c.p
      /\ d.is = "slot" => c.is = "element"
      /\ d.is = "address" => c.is = "slot"
      /\ d.is # "start"
  <2>1. d.is \in {"type", "element", "slot", "address"} /\ d.is # "start"
    BY MovesAre
  <2>2. d.is # "type" => d.t = c.t /\ c.is # "start"
    BY MovesAre
  <2>3. d.is = "element" => Room(s, d.t, d.p)
    BY MovesAre
  <2>4. /\ d.is = "slot" => d.p = c.p /\ c.is = "element"
        /\ d.is = "address" => d.p = c.p /\ c.is = "slot"
    <3>1. ASSUME d.is = "slot" PROVE d.p = c.p /\ c.is = "element"
      BY <3>1 DEF LeadsTo
    <3>2. ASSUME d.is = "address" PROVE d.p = c.p /\ c.is = "slot"
      BY <3>2, MovesAre
    <3> QED BY <3>1, <3>2
  <2>5. LineAt(s, d).is = d.is
    BY <2>1 DEF LineAt
  <2> QED BY <2>1, <2>2, <2>3, <2>4, <2>5
<1>2. /\ Complete(s, state, c) /\ c.is # "start" => state.in_block
      /\ Complete(s, state, c) /\ c.is = "element" => state.in_entry
  <2>1. Complete(s, state, c) /\ c.is # "start" => state.in_block
    BY DEF Complete
  <2>2. ASSUME Complete(s, state, c), c.is = "element" PROVE state.in_entry
    <3>1. Room(s, c.t, c.p)
      BY <2>2 DEF Tracks
    <3>2. c.p > 0
      BY <3>1 DEF Room
    <3> QED BY <2>1, <2>2, <3>2 DEF Complete
  <2> QED BY <2>1, <2>2
<1>3. CASE d.is = "type" /\ line = LineAt(s, d)
  BY <1>3, HeaderTracks
<1>4. CASE d.is = "type" /\ line # LineAt(s, d)
  <2>1. line = [is |-> "bad type"]
    BY <1>1, <1>4 DEF AsGarbled
  <2> QED BY <1>4, <2>1, BadHeaderTracks
<1>5. CASE d.is = "element" /\ line = LineAt(s, d)
  <2>1. CASE state.in_block
    BY <1>5, <2>1, ElementTracks
  <2>2. CASE ~state.in_block
    <3>1. line.is = "element"
      BY <1>1, <1>5
    <3>2. new = state
      BY <2>2, <3>1, ParserIs DEF ParseLine
    <3>3. Tracks(s, state, d)
      BY <1>1, <1>5, <2>2, IgnoredTracks
    <3> HIDE DEF new
    <3> QED BY <1>1, <1>2, <1>5, <2>2, <3>2, <3>3 DEF new
  <2> QED BY <2>1, <2>2
<1>6. CASE d.is = "element" /\ line # LineAt(s, d)
  <2>1. line = [is |-> "bad element"]
    BY <1>1, <1>6 DEF AsGarbled
  <2>2. CASE state.in_block
    BY <1>6, <2>1, <2>2, BadElementTracks
  <2>3. CASE ~state.in_block
    <3>1. new = state
      BY <2>1, <2>3, ParserIs DEF ParseLine
    <3>2. Tracks(s, state, d)
      BY <1>1, <1>6, <2>3, IgnoredTracks
    <3> HIDE DEF new
    <3> QED BY <1>6, <3>1, <3>2 DEF new
  <2> QED BY <2>2, <2>3
<1>7. CASE d.is \in {"slot", "address"}
  <2>1. line = LineAt(s, d)
    BY <1>1, <1>7 DEF AsGarbled
  <2>2. CASE state.in_entry
    BY <1>7, <2>1, <2>2, SlotTracks
  <2>3. CASE ~state.in_entry
    <3>1. line.is \in {"slot", "address"}
      BY <1>1, <1>7, <2>1
    <3>2. new = state
      BY <2>3, <3>1 DEF ParseLine
    <3>3. Tracks(s, state, d)
      BY <1>1, <1>7, IgnoredTracks
    <3>4. Complete(s, state, c) => Complete(s, state, d)
      BY <1>1, <1>2, <1>7, <2>3, IgnoredTracks
    <3> HIDE DEF new
    <3> QED BY <3>2, <3>3, <3>4 DEF new
  <2> QED BY <2>2, <2>3
<1> QED BY <1>1, <1>3, <1>4, <1>5, <1>6, <1>7

\* A run, read line by line with at most those lines garbled, keeps the parser in step.
LEMMA ParsedTracks ==
  ASSUME NEW s, IsShelf(s), NEW w \in Seq(SesLines(s)), NEW m \in Nat, Len(w) <= m,
         NEW f \in [0..m -> Cursors], f[0] = TopOfPage,
         \A k \in 1..m : LeadsTo(s, f[k - 1], f[k]),
         \A k \in 1..Len(w) : w[k] = LineAt(s, f[k]) \/ w[k] = AsGarbled(LineAt(s, f[k]))
  PROVE  \E state \in ParserStates(s) :
           /\ state.blocks = parse_additional_element_status(w)
           /\ Tracks(s, state, f[Len(w)])
           /\ (\A k \in 1..Len(w) : w[k] = LineAt(s, f[k])) => Complete(s, state, f[Len(w)])
<1> DEFINE n == Len(w)
           S == ParserStates(s)
           Whole == \A k \in 1..n : w[k] = LineAt(s, f[k])
<1>1. n \in Nat /\ \A k \in 1..n : w[k] \in SesLines(s)
  OBVIOUS
<1>2. PICK F \in [0..n -> S] :
        /\ F[0] = NoBlocks /\ \A k \in 1..n : F[k] = ParseLine(F[k - 1], w[k])
        /\ parse_additional_element_status(w) = F[n].blocks
  BY ParserRuns
<1>3. Tracks(s, NoBlocks, TopOfPage) /\ Complete(s, NoBlocks, TopOfPage)
  <2>1. /\ NoBlocks.blocks = <<>> /\ Len(<<>>) = 0 /\ ~NoBlocks.in_block /\ 1..0 = {}
        /\ TopOfPage.t = 0 /\ TopOfPage.is = "start"
    BY DEF NoBlocks, TopOfPage
  <2>2. \A t \in Headed(s) : ~(t <= 0)
    BY TypesOf
  <2> QED BY <2>1, <2>2 DEF Tracks, Complete
<1>4. \A k \in 1..n : k - 1 \in 0..n /\ k \in 1..m /\ f[k - 1] \in Cursors /\ f[k] \in Cursors
  BY <1>1
<1> HIDE DEF n, S
<1> DEFINE Good(k) == Tracks(s, F[k], f[k]) /\ (Whole => Complete(s, F[k], f[k]))
           H == {k \in 0..n : Good(k)}
<1>5. H \in SUBSET (0..n) /\ 0 \in H
  BY <1>1, <1>2, <1>3
<1>6. ASSUME NEW k \in 0..(n - 1), k \in H PROVE k + 1 \in H
  <2>1. k + 1 \in 1..n /\ k + 1 \in 0..n /\ (k + 1) - 1 = k
    BY <1>1
  <2>2. /\ F[k] \in S /\ F[k + 1] = ParseLine(F[k], w[k + 1]) /\ LeadsTo(s, f[k], f[k + 1])
        /\ f[k] \in Cursors /\ f[k + 1] \in Cursors /\ w[k + 1] \in SesLines(s)
        /\ w[k + 1] = LineAt(s, f[k + 1]) \/ w[k + 1] = AsGarbled(LineAt(s, f[k + 1]))
    <3>1. F[k] \in S
      <4>1. k \in 0..n
        BY <1>1
      <4> QED BY <1>2, <4>1
    <3>2. LeadsTo(s, f[k], f[k + 1]) /\ f[k] \in Cursors /\ f[k + 1] \in Cursors
      BY <1>4, <2>1
    <3> QED BY <1>1, <1>2, <2>1, <3>1, <3>2 DEF n
  <2>3. Good(k)
    BY <1>6
  <2>4. Tracks(s, F[k + 1], f[k + 1])
    BY <2>2, <2>3, LineTracks DEF S
  <2>5. ASSUME Whole PROVE Complete(s, F[k + 1], f[k + 1])
    <3>1. w[k + 1] = LineAt(s, f[k + 1])
      BY <2>1, <2>5
    <3> QED BY <2>2, <2>3, <2>5, <3>1, LineTracks DEF S
  <2> QED BY <2>1, <2>4, <2>5
<1>7. n \in H
  <2> HIDE DEF H
  <2> QED BY <1>1, <1>5, <1>6, LastReached
<1>8. F[n] \in S /\ Good(n)
  BY <1>1, <1>2, <1>7
<1> QED BY <1>2, <1>8 DEF n, S

\* What a read shows: the parser is in step with the page as far as it came.
LEMMA ReadsTrack ==
  ASSUME NEW s, IsShelf(s), NEW r \in AesReads(s)
  PROVE  \E state \in ParserStates(s) : \E c \in Cursors :
           /\ state.blocks = parse_additional_element_status(r.lines) /\ Tracks(s, state, c)
           /\ r.read # "garbled" => Complete(s, state, c)
           /\ r.read = "whole" => AtTheEnd(s, c)
<1> DEFINE page == AesPage(s)
           m == Len(page)
<1>1. page \in Seq(SesLines(s)) /\ r.lines \in Seq(SesLines(s)) /\ m \in Nat
  <2>1. page \in Pages(s) /\ r.lines \in Pages(s)
    BY PageIsAPage, ReadsArePages
  <2>2. page \in Seq(SesLines(s)) /\ r.lines \in Seq(SesLines(s))
    BY <2>1 DEF Pages
  <2>3. \A q \in Seq(SesLines(s)) : Len(q) \in Nat
    OBVIOUS
  <2> QED BY <2>2, <2>3
<1>2. PICK end \in Cursors : IsRun(s, page, TopOfPage, end) /\ AtTheEnd(s, end)
  BY PageIsARun
<1> HIDE DEF page
<1>3. PICK f : RunBy(s, page, TopOfPage, end, f)
  BY <1>2 DEF IsRun
<1>4. /\ f \in [0..m -> Cursors] /\ f[0] = TopOfPage /\ f[m] = end
      /\ \A k \in 1..m : page[k] = LineAt(s, f[k]) /\ LeadsTo(s, f[k - 1], f[k])
  BY <1>3 DEF RunBy
<1>5. ASSUME Len(r.lines) <= m, NEW whole,
             \A k \in 1..Len(r.lines) :
               r.lines[k] = LineAt(s, f[k]) \/ r.lines[k] = AsGarbled(LineAt(s, f[k])),
             whole => \A k \in 1..Len(r.lines) : r.lines[k] = LineAt(s, f[k])
      PROVE  \E state \in ParserStates(s) :
               /\ state.blocks = parse_additional_element_status(r.lines)
               /\ Tracks(s, state, f[Len(r.lines)])
               /\ whole => Complete(s, state, f[Len(r.lines)])
  BY <1>1, <1>4, <1>5, ParsedTracks
<1>6. CASE r = [lines |-> page, read |-> "whole"]
  <2>1. r.lines = page /\ r.read = "whole"
    BY <1>6
  <2>2. \A k \in 1..Len(r.lines) : r.lines[k] = LineAt(s, f[k])
    BY <1>4, <2>1
  <2>3. PICK state \in ParserStates(s) :
          /\ state.blocks = parse_additional_element_status(r.lines)
          /\ Tracks(s, state, f[m]) /\ Complete(s, state, f[m])
    BY <1>1, <1>5, <2>1, <2>2
  <2> QED BY <1>2, <1>4, <2>3
<1>7. CASE \E k \in 0..(Len(page) - 1) : r = [lines |-> SubSeq(page, 1, k), read |-> "short"]
  <2>1. PICK k \in 0..(Len(page) - 1) : r = [lines |-> SubSeq(page, 1, k), read |-> "short"]
    BY <1>7
  <2>2. /\ Len(r.lines) = k /\ k <= m /\ k \in 0..m /\ r.read = "short"
        /\ \A i \in 1..k : r.lines[i] = page[i] /\ i \in 1..m
    BY <1>1, <2>1
  <2>3. \A i \in 1..Len(r.lines) : r.lines[i] = LineAt(s, f[i])
    BY <1>4, <2>2
  <2>4. PICK state \in ParserStates(s) :
          /\ state.blocks = parse_additional_element_status(r.lines)
          /\ Tracks(s, state, f[k]) /\ Complete(s, state, f[k])
    BY <1>1, <1>5, <2>2, <2>3
  <2>5. f[k] \in Cursors
    BY <1>4, <2>2
  <2> QED BY <2>2, <2>4, <2>5
<1>8. CASE \E k \in DOMAIN page : r = [lines |-> Garbled(page, k), read |-> "garbled"]
  <2>1. PICK k \in DOMAIN page : r = [lines |-> Garbled(page, k), read |-> "garbled"]
    BY <1>8
  <2>2. k \in 1..m /\ r.read = "garbled" /\ r.lines = Garbled(page, k)
    BY <1>1, <2>1
  <2>3. Garbled(page, k) = [page EXCEPT ![k] = AsGarbled(page[k])]
    BY DEF Garbled, AsGarbled
  <2>4. /\ Len(r.lines) = m
        /\ \A i \in 1..m : r.lines[i] = IF i = k THEN AsGarbled(page[k]) ELSE page[i]
    BY <1>1, <2>2, <2>3
  <2>5. \A i \in 1..Len(r.lines) :
          r.lines[i] = LineAt(s, f[i]) \/ r.lines[i] = AsGarbled(LineAt(s, f[i]))
    BY <1>4, <2>4
  <2>6. m <= m
    BY <1>1
  <2>7. PICK state \in ParserStates(s) :
          /\ state.blocks = parse_additional_element_status(r.lines)
          /\ Tracks(s, state, f[m])
    BY <1>5, <2>4, <2>5, <2>6
  <2> QED BY <1>2, <1>4, <2>2, <2>7
<1> QED BY <1>6, <1>7, <1>8 DEF AesReads, page

-----------------------------------------------------------------------------
(***************************************************************************)
(* What a map says of the shelf.                                           *)
(***************************************************************************)

\* The blocks of a read, apart from how they came about.
Showing(s, blocks, how) ==
  LET Has(v) == \E i \in 1..Len(blocks) : /\ blocks[i].ti = v /\ ~blocks[i].malformed
                                          /\ BlockComplete(s, blocks[i])
  IN /\ blocks \in Seq(AesBlocks(s))
     /\ \A k \in 1..Len(blocks) : BlockTracks(s, blocks[k])
     /\ \A i, j \in 1..Len(blocks) : blocks[i].ti = blocks[j].ti => i = j
     /\ how # "garbled" => \A k \in 1..Len(blocks) : \A v \in Headed(s) : v < blocks[k].ti => Has(v)
     /\ how = "whole" => \A v \in Headed(s) : Has(v)

\* What any read of the page shows.
LEMMA ReadsShow ==
  ASSUME NEW s, IsShelf(s), NEW r \in AesReads(s)
  PROVE  Showing(s, parse_additional_element_status(r.lines), r.read)
<1>1. PICK state \in ParserStates(s), c \in Cursors :
        /\ state.blocks = parse_additional_element_status(r.lines) /\ Tracks(s, state, c)
        /\ r.read # "garbled" => Complete(s, state, c)
        /\ r.read = "whole" => AtTheEnd(s, c)
  BY ReadsTrack
<1> DEFINE blocks == state.blocks
           Has(v) == \E i \in 1..Len(blocks) : /\ blocks[i].ti = v /\ ~blocks[i].malformed
                                               /\ BlockComplete(s, blocks[i])
<1>2. /\ blocks \in Seq(AesBlocks(s)) /\ Len(blocks) \in Nat /\ c.t \in Nat
      /\ \A k \in 1..Len(blocks) : blocks[k].ti \in Nat
  <2>1. \A t \in DOMAIN s.types : t \in Nat
    BY TypesOf
  <2>2. c.t \in Nat
    BY DEF Cursors
  <2> QED BY <2>1, <2>2, ParserIs
<1>3. /\ \A k \in 1..Len(blocks) : BlockTracks(s, blocks[k]) /\ blocks[k].ti <= c.t
      /\ \A i, j \in 1..Len(blocks) : i < j => blocks[i].ti < blocks[j].ti
  BY <1>1 DEF Tracks
<1>4. \A i, j \in 1..Len(blocks) : blocks[i].ti = blocks[j].ti => i = j
  <2> HIDE DEF blocks
  <2> TAKE i, j \in 1..Len(blocks)
  <2>1. i < j \/ j < i \/ i = j
    BY <1>2
  <2> QED BY <1>2, <1>3, <2>1
<1>5. \A v \in Headed(s) : v \in Nat /\ v <= Len(s.types) /\ Len(s.types) \in Nat
  BY TypesOf
<1>6. ASSUME r.read # "garbled", NEW k \in 1..Len(blocks), NEW v \in Headed(s), v < blocks[k].ti
      PROVE  Has(v)
  <2>1. Complete(s, state, c)
    BY <1>1, <1>6
  <2>2. v < c.t
    <3>1. blocks[k].ti <= c.t /\ blocks[k].ti \in Nat
      BY <1>2, <1>3
    <3> HIDE DEF blocks
    <3> QED BY <1>2, <1>5, <1>6, <3>1
  <2>3. PICK i \in 1..Len(blocks) : blocks[i].ti = v
    <3>1. v <= c.t
      BY <1>2, <1>5, <2>2
    <3> QED BY <2>1, <3>1 DEF Complete
  <2>4. ~blocks[i].malformed /\ BlockComplete(s, blocks[i])
    BY <2>1, <2>2, <2>3 DEF Complete
  <2> QED BY <2>3, <2>4
<1>7. ASSUME r.read = "whole", NEW v \in Headed(s) PROVE Has(v)
  <2>1. Complete(s, state, c) /\ AtTheEnd(s, c)
    BY <1>1, <1>7
  <2>2. v <= c.t
    BY <1>2, <1>5, <2>1 DEF AtTheEnd, NoHeader
  <2>3. PICK i \in 1..Len(blocks) : blocks[i].ti = v
    BY <2>1, <2>2 DEF Complete
  <2>4. ~blocks[i].malformed
    BY <2>1 DEF Complete
  <2>5. BlockComplete(s, blocks[i])
    BY <1>1, <2>1, FullBlocks DEF AtTheEnd
  <2> QED BY <2>3, <2>4, <2>5
<1> HIDE DEF Has
<1>8. Showing(s, blocks, r.read)
  <2> HIDE DEF blocks
  <2> QED BY <1>2, <1>3, <1>4, <1>6, <1>7 DEF Showing, Has
<1> QED BY <1>1, <1>8

\* The image of a finite set, and the union of finitely many finite sets.
LEMMA FiniteImage ==
  ASSUME NEW D, IsFiniteSet(D), NEW f
  PROVE  IsFiniteSet({f[u] : u \in D})
<1> DEFINE g == [u \in D |-> f[u]]
           T == {f[u] : u \in D}
<1>1. g \in Surjection(D, T)
  BY DEF Surjection
<1> HIDE DEF g, T
<1>2. IsFiniteSet(T)
  BY <1>1, FS_Surjection
<1> QED BY <1>2 DEF T

\* Two members of a set of at most one.
LEMMA AtMostOne ==
  ASSUME NEW S, IsFiniteSet(S), Cardinality(S) <= 1
  PROVE  \A a, b \in S : a = b
<1> SUFFICES ASSUME NEW a \in S, NEW b \in S, a # b PROVE FALSE
  OBVIOUS
<1>1. IsFiniteSet(S \ {a}) /\ Cardinality(S \ {a}) = Cardinality(S) - 1 /\ Cardinality(S) \in Nat
  BY FS_RemoveElement, FS_CardinalityType
<1>2. Cardinality(S \ {a}) \in Nat
  BY <1>1, FS_CardinalityType
<1>3. Cardinality(S \ {a}) = 0
  BY <1>1, <1>2
<1>4. S \ {a} = {}
  BY <1>1, <1>3, FS_EmptySet
<1> QED BY <1>4

\* The claims to a number, by block and position.
LEMMA ClaimsHave ==
  ASSUME NEW blocks, NEW n, NEW k \in DOMAIN blocks, NEW p \in DOMAIN blocks[k].entries,
         blocks[k].entries[p].slot = n
  PROVE  <<k, p>> \in Claims(blocks, n)
<1> DEFINE Of(i) == {q \in DOMAIN blocks[i].entries : blocks[i].entries[q].slot = n}
           Pairs(i) == {<<i, q>> : q \in Of(i)}
<1>1. <<k, p>> \in Pairs(k)
  OBVIOUS
<1>2. Claims(blocks, n) = UNION {Pairs(i) : i \in DOMAIN blocks}
  BY DEF Claims
<1> HIDE DEF Pairs
<1> QED BY <1>1, <1>2

LEMMA ClaimsAreFinite ==
  ASSUME NEW s, NEW blocks \in Seq(AesBlocks(s)), NEW n
  PROVE  IsFiniteSet(Claims(blocks, n))
<1> DEFINE D == DOMAIN blocks
           Of(i) == {q \in DOMAIN blocks[i].entries : blocks[i].entries[q].slot = n}
           Pairs(i) == {<<i, q>> : q \in Of(i)}
           f == [i \in D |-> Pairs(i)]
           All == {f[i] : i \in D}
<1>1. D = 1..Len(blocks) /\ Len(blocks) \in Nat
  OBVIOUS
<1>2. IsFiniteSet(D)
  BY <1>1, FS_Interval
<1>3. ASSUME NEW i \in D PROVE IsFiniteSet(f[i])
  <2>1. blocks[i] \in AesBlocks(s)
    OBVIOUS
  <2>2. blocks[i].entries \in Seq(BlockEntries(s))
    BY <2>1 DEF AesBlocks
  <2>3. DOMAIN blocks[i].entries = 1..Len(blocks[i].entries) /\ Len(blocks[i].entries) \in Nat
    BY <2>2
  <2>4. IsFiniteSet(DOMAIN blocks[i].entries)
    BY <2>3, FS_Interval
  <2>5. Of(i) \in SUBSET DOMAIN blocks[i].entries
    OBVIOUS
  <2>6. IsFiniteSet(Of(i))
    <3> HIDE DEF Of
    <3> QED BY <2>4, <2>5, FS_Subset
  <2> HIDE DEF Of
  <2> DEFINE g == [q \in Of(i) |-> <<i, q>>]
  <2>7. IsFiniteSet({g[q] : q \in Of(i)})
    <3> HIDE DEF g
    <3> QED BY <2>6, FiniteImage
  <2>8. {g[q] : q \in Of(i)} = Pairs(i)
    OBVIOUS
  <2> QED BY <2>7, <2>8
<1>4. Claims(blocks, n) = UNION All
  BY DEF Claims
<1> HIDE DEF D, f
<1>5. IsFiniteSet(All)
  BY <1>2, FiniteImage
<1>6. \A T \in All : IsFiniteSet(T)
  BY <1>3
<1> HIDE DEF All
<1> QED BY <1>4, <1>5, <1>6, FS_UNION

\* Entries with one offset have indexes that go with their positions.
LEMMA OffsetsAgree ==
  ASSUME NEW s, NEW block \in AesBlocks(s), Cardinality(Offsets(block)) <= 1,
         NEW p \in DOMAIN block.entries, NEW q \in DOMAIN block.entries,
         block.entries[p].index # Nothing, block.entries[q].index # Nothing
  PROVE  block.entries[p].index - p = block.entries[q].index - q
<1> DEFINE D == {i \in DOMAIN block.entries : block.entries[i].index # Nothing}
           f == [i \in D |-> block.entries[i].index - i]
<1>1. block.entries \in Seq(BlockEntries(s))
  BY DEF AesBlocks
<1>2. DOMAIN block.entries = 1..Len(block.entries) /\ Len(block.entries) \in Nat
  BY <1>1
<1>3. IsFiniteSet(D)
  <2>1. IsFiniteSet(DOMAIN block.entries)
    BY <1>2, FS_Interval
  <2> QED BY <2>1, FS_Subset
<1>4. IsFiniteSet({f[i] : i \in D})
  <2> HIDE DEF D, f
  <2> QED BY <1>3, FiniteImage
<1>5. Offsets(block) = {f[i] : i \in D}
  BY DEF Offsets
<1>6. p \in D /\ q \in D
  OBVIOUS
<1>7. f[p] = f[q]
  <2> HIDE DEF D, f
  <2> QED BY <1>4, <1>5, <1>6, AtMostOne
<1> QED BY <1>6, <1>7

\* What a map addresses, with the block it comes from.
MapsTo(blocks, ti, count, n, p, k) ==
  /\ k \in DOMAIN blocks /\ blocks[k].ti = ti /\ Trusted(blocks[k], count)
  /\ p \in DOMAIN blocks[k].entries /\ blocks[k].entries[p].slot = n
  /\ ~Misattributed(blocks) /\ Cardinality(Claims(blocks, n)) = 1

\* Every address of a map comes from an entry of a trusted block of its type.
LEMMA EntriesComeFrom ==
  ASSUME NEW s, IsShelf(s), NEW blocks \in Seq(AesBlocks(s)), NEW ti, NEW count,
         NEW n \in DOMAIN BuildSlotMap(blocks, ti, count),
         BuildSlotMap(blocks, ti, count)[n] # Nothing
  PROVE  /\ n \in SlotNumbers
         /\ \E k : MapsTo(blocks, ti, count, n, BuildSlotMap(blocks, ti, count)[n], k)
<1> DEFINE chosen == ChosenBlock(blocks, ti)
           Only(i) == CHOOSE c \in Claims(blocks, i) : TRUE
           Unambiguous(i) == /\ Cardinality(Claims(blocks, i)) = 1
                             /\ Only(i)[1] = chosen /\ Trusted(blocks[chosen], count)
           map == BuildSlotMap(blocks, ti, count)
           Same == {k \in DOMAIN blocks : blocks[k].ti = ti}
<1>1. map = IF Misattributed(blocks) THEN <<>>
            ELSE [i \in Addressable(blocks, ti) |->
                    IF Unambiguous(i) THEN Only(i)[2] ELSE Nothing]
  BY DEF BuildSlotMap
<1>2. Addressable(blocks, ti) \subseteq SlotNumbers
  BY DEF Addressable
<1>3. chosen = IF Same = {} THEN 0 ELSE Min(Same)
  BY DEF ChosenBlock
<1>4. n \in DOMAIN map /\ map[n] # Nothing
  OBVIOUS
<1> HIDE DEF Unambiguous, Only, map, chosen
<1>5. ~Misattributed(blocks)
  BY <1>1, <1>4
<1>6. n \in SlotNumbers /\ Unambiguous(n) /\ map[n] = Only(n)[2]
  <2>1. map = [i \in Addressable(blocks, ti) |-> IF Unambiguous(i) THEN Only(i)[2] ELSE Nothing]
    BY <1>1, <1>5
  <2> QED BY <1>2, <1>4, <2>1
<1>7. /\ Cardinality(Claims(blocks, n)) = 1 /\ Only(n)[1] = chosen
      /\ Trusted(blocks[chosen], count)
  BY <1>6 DEF Unambiguous
<1>8. Only(n) \in Claims(blocks, n)
  BY <1>7, OneClaims DEF Only
<1>9. /\ chosen \in DOMAIN blocks /\ map[n] \in DOMAIN blocks[chosen].entries
      /\ blocks[chosen].entries[map[n]].slot = n
  BY <1>6, <1>7, <1>8, ClaimsAre
<1>10. blocks[chosen].ti = ti
  <2>1. DOMAIN blocks = 1..Len(blocks)
    OBVIOUS
  <2>2. Same # {} /\ Same \in SUBSET Nat
    BY <1>3, <1>9, <2>1
  <2>3. Min(Same) \in Same
    <3> HIDE DEF Same
    <3> QED BY <2>2, MinIs
  <2> QED BY <1>3, <2>2, <2>3
<1>11. MapsTo(blocks, ti, count, n, map[n], chosen)
  BY <1>5, <1>7, <1>9, <1>10 DEF MapsTo
<1> QED BY <1>6, <1>11 DEF map

TwoBayTypesIn(s) == \E x, y \in BaysOf(s.types) : x[1] # y[1]

\* The address of a map is that of the bay of the number, or what the firmware did is such
\* that no check of the writer shows it.
Safe(s, how, ti, n, p) ==
  /\ SlotOf(s, <<ti, p>>) # n =>
       /\ LackingIn(s) /\ (SilentIn(s) \/ how = "garbled") /\ ti < Len(s.types)
       /\ s.indexed /\ s.overall = 1 => TwoBayTypesIn(s)
  /\ ~LackingIn(s) /\ how = "whole" =>
       \A x \in BaysOf(s.types) : s.number[x] = n => x = <<ti, p>>

\* No address of a map is of a wrong bay, apart from what no check shows.
LEMMA MapsAreSafe ==
  ASSUME NEW s, IsShelf(s), NEW blocks, NEW how, Showing(s, blocks, how),
         NEW ti \in DOMAIN s.types, IsBayType(s, ti), NEW n \in SlotNumbers, NEW p, NEW k,
         MapsTo(blocks, ti, s.types[ti].count, n, p, k)
  PROVE  Safe(s, how, ti, n, p)
<1> DEFINE b == blocks[k]
           count == s.types[ti].count
           m == Len(Emitted(s))
           x == At(s, ti, p)
<1>1. /\ ti \in Headed(s) /\ ti \in Nat \ {0} /\ count \in Nat /\ Place(s, ti) \in Nat /\ m \in Nat
      /\ Len(s.types) \in Nat /\ ti <= Len(s.types) /\ n # Nothing
  <2>1. ti \in Headed(s) /\ Len(s.types) \in Nat /\ DOMAIN s.types = 1..Len(s.types)
    BY TypesOf
  <2> QED BY <2>1, TypesAre, PlaceIs, SentIs, NothingIsNoSlot
<1>2. /\ blocks \in Seq(AesBlocks(s)) /\ DOMAIN blocks = 1..Len(blocks)
      /\ \A i \in 1..Len(blocks) : /\ blocks[i] \in AesBlocks(s)
                                   /\ blocks[i].entries \in Seq(BlockEntries(s))
  <2>1. blocks \in Seq(AesBlocks(s))
    BY DEF Showing
  <2>2. \A e \in AesBlocks(s) : e.entries \in Seq(BlockEntries(s))
    BY DEF AesBlocks
  <2> QED BY <2>1, <2>2
<1>3. /\ k \in 1..Len(blocks) /\ b.ti = ti /\ Cardinality(Offsets(b)) <= 1 /\ ~b.malformed
      /\ Len(b.entries) = count /\ p \in 1..count /\ b.entries[p].slot = n
      /\ DOMAIN b.entries = 1..count
  <2>1. /\ k \in 1..Len(blocks) /\ b.ti = ti /\ Trusted(b, count)
        /\ p \in DOMAIN b.entries /\ b.entries[p].slot = n
    BY <1>2 DEF MapsTo
  <2>2. DOMAIN b.entries = 1..Len(b.entries)
    BY <1>2, <2>1
  <2> QED BY <2>1, <2>2 DEF Trusted
<1> HIDE DEF b, m
<1>4. \A q \in 1..count : /\ Room(s, ti, q)
                          /\ b.entries[q].index = GlobalIndex(s, At(s, ti, q))
                          /\ b.entries[q].slot \in {Nothing, SlotOf(s, At(s, ti, q))}
  <2>1. BlockTracks(s, b)
    BY <1>3 DEF Showing, b
  <2> QED BY <1>3, <2>1 DEF BlockTracks
<1>5. Place(s, ti) + count <= m
  <2>1. count \in 1..count
    BY <1>1, <1>3
  <2> QED BY <1>4, <2>1 DEF Room, m
<1>6. SlotOf(s, x) = n /\ x \in BaysOf(s.types)
  <2>1. SlotOf(s, x) = n
    BY <1>1, <1>3, <1>4
  <2> QED BY <1>1, <2>1 DEF SlotOf
<1>7. \A q \in 1..count : At(s, ti, q) \in Elements(s.types)
  <2> TAKE q \in 1..count
  <2>1. Place(s, ti) + q <= Len(Emitted(s))
    BY <1>4 DEF Room
  <2> QED BY <1>1, <2>1, NotEarlier
<1>8. ASSUME SlotOf(s, <<ti, p>>) # n
      PROVE  /\ LackingIn(s) /\ (SilentIn(s) \/ how = "garbled") /\ ti < Len(s.types)
             /\ s.indexed /\ s.overall = 1 => TwoBayTypesIn(s)
  <2>1. x # <<ti, p>>
    BY <1>6, <1>8
  <2>2. LackingIn(s)
    BY <1>1, <1>3, <2>1, NothingMoved
  <2>3. ASSUME ~SilentIn(s), how # "garbled" PROVE FALSE
    <3>0. PICK v \in Headed(s) : \E r \in 1..s.types[v].count :
            /\ v < ti /\ ~IsBayType(s, v) /\ Place(s, v) + r \in 1..Len(Emitted(s))
            /\ SlotOf(s, At(s, v, r)) # Nothing
      BY <1>1, <1>3, <2>1, <2>3, ShiftShows
    <3>1. PICK q \in 1..s.types[v].count :
            /\ v < ti /\ ~IsBayType(s, v) /\ Place(s, v) + q \in 1..Len(Emitted(s))
            /\ SlotOf(s, At(s, v, q)) # Nothing
      BY <3>0
    <3>2. PICK i \in 1..Len(blocks) : blocks[i].ti = v /\ BlockComplete(s, blocks[i])
      BY <1>3, <2>3, <3>1 DEF Showing, b
    <3>3. Room(s, v, q)
      BY <3>1 DEF Room
    <3>4. q \in 1..Len(blocks[i].entries) /\ blocks[i].entries[q].slot # Nothing
      BY <3>1, <3>2, <3>3 DEF BlockComplete
    <3>5. blocks[i].type \notin BAY_ELEMENT_TYPES
      <4>1. BlockTracks(s, blocks[i])
        BY DEF Showing
      <4> QED BY <3>1, <3>2, <4>1 DEF BlockTracks, IsBayType
    <3>6. i \in DOMAIN blocks /\ q \in DOMAIN blocks[i].entries
      <4>1. blocks[i].entries \in Seq(BlockEntries(s))
        BY <1>2
      <4>2. DOMAIN blocks[i].entries = 1..Len(blocks[i].entries)
        BY <4>1
      <4> QED BY <1>2, <3>4, <4>2
    <3>7. Misattributed(blocks)
      BY <3>4, <3>5, <3>6 DEF Misattributed
    <3> QED BY <3>7 DEF MapsTo
  <2>4. ti < Len(s.types)
    <3>1. ti # Len(s.types)
      BY <1>1, <1>3, <1>5, <2>1, LastIsUnmoved DEF m
    <3> QED BY <1>1, <3>1
  <2>5. ASSUME s.indexed, s.overall = 1 PROVE TwoBayTypesIn(s)
    <3>1. ASSUME NEW q \in 1..count PROVE b.entries[q].index # Nothing
      <4>1. At(s, ti, q)[1] \in Nat /\ At(s, ti, q)[2] \in Nat /\ At(s, ti, q)[1] \in DOMAIN s.types
        BY <1>7, ElementIs
      <4>2. CountBefore(s.types, At(s, ti, q)[1]) \in Nat
        <5>1. At(s, ti, q)[1] < At(s, ti, q)[1] + 1 /\ At(s, ti, q)[1] + 1 \in Nat
          BY <4>1
        <5> QED BY <4>1, <5>1, CountsFollow
      <4>3. GlobalIndex(s, At(s, ti, q)) \in Nat
        <5>1. GlobalIndex(s, At(s, ti, q)) =
                CountBefore(s.types, At(s, ti, q)[1]) + At(s, ti, q)[2] - 1 + At(s, ti, q)[1]
          BY <2>5, <4>1, <4>2 DEF GlobalIndex
        <5>2. At(s, ti, q)[2] \in Nat \ {0}
          BY <1>7, ElementIs
        <5> QED BY <4>1, <4>2, <5>1, <5>2
      <4>4. Nothing \notin Nat
        BY SlotMapAssumption DEF SlotMapAssumption
      <4> QED BY <1>4, <4>3, <4>4
    <3>2. \A q, r \in 1..count :
            GlobalIndex(s, At(s, ti, q)) - q = GlobalIndex(s, At(s, ti, r)) - r
      <4> TAKE q, r \in 1..count
      <4>1. b \in AesBlocks(s)
        BY <1>2, <1>3 DEF b
      <4>2. b.entries[q].index - q = b.entries[r].index - r
        BY <1>3, <3>1, <4>1, OffsetsAgree
      <4> QED BY <1>4, <4>2
    <3>3. \A q, r \in 1..count : At(s, ti, q)[1] = At(s, ti, r)[1]
      BY <1>1, <1>5, <2>5, <3>2, SteadyIndexOneType DEF m
    <3>4. x[1] # ti
      <4> SUFFICES ASSUME x[1] = ti PROVE FALSE
        OBVIOUS
      <4>1. \A q \in 1..count : At(s, ti, q)[1] = ti
        BY <1>3, <3>3
      <4>2. x = <<ti, p>>
        BY <1>1, <1>3, <1>5, <4>1, OwnTypeOwnPlace DEF m
      <4> QED BY <2>1, <4>2
    <3>5. <<ti, p>> \in BaysOf(s.types) /\ <<ti, p>>[1] = ti
      <4>1. <<ti, p>> \in Elements(s.types)
        BY <1>3, ElementsAre
      <4> QED BY <4>1, TypesOf
    <3> HIDE DEF x
    <3> QED BY <1>6, <3>4, <3>5 DEF TwoBayTypesIn
  <2> QED BY <2>2, <2>3, <2>4, <2>5
<1>9. ASSUME ~LackingIn(s), how = "whole", NEW y \in BaysOf(s.types), s.number[y] = n
      PROVE  y = <<ti, p>>
  <2>1. /\ y \in Elements(s.types) /\ IsBayType(s, y[1]) /\ y = <<y[1], y[2]>>
        /\ y[1] \in DOMAIN s.types /\ y[2] \in 1..s.types[y[1]].count /\ y[1] \in Headed(s)
    <3>1. y \in Elements(s.types) /\ IsBayType(s, y[1])
      BY TypesOf
    <3> QED BY <3>1, ElementIs, TypesOf
  <2>2. Place(s, y[1]) + y[2] <= Len(Emitted(s)) /\ At(s, y[1], y[2]) = y
    BY <1>9, <2>1, NothingMoved
  <2>3. PICK i \in 1..Len(blocks) : blocks[i].ti = y[1] /\ BlockComplete(s, blocks[i])
    BY <1>9, <2>1 DEF Showing
  <2>4. Room(s, y[1], y[2])
    BY <2>1, <2>2 DEF Room
  <2>5. SlotOf(s, y) = n
    BY <1>9 DEF SlotOf
  <2>6. y[2] \in 1..Len(blocks[i].entries) /\ blocks[i].entries[y[2]].slot = n
    BY <2>2, <2>3, <2>4, <2>5 DEF BlockComplete
  <2>7. i \in DOMAIN blocks /\ y[2] \in DOMAIN blocks[i].entries
    <3>1. blocks[i].entries \in Seq(BlockEntries(s))
      BY <1>2
    <3>2. DOMAIN blocks[i].entries = 1..Len(blocks[i].entries)
      BY <3>1
    <3> QED BY <1>2, <2>6, <3>2
  <2>8. <<i, y[2]>> \in Claims(blocks, n)
    BY <2>6, <2>7, ClaimsHave
  <2>9. <<k, p>> \in Claims(blocks, n)
    BY ClaimsHave DEF MapsTo
  <2>10. <<i, y[2]>> = <<k, p>>
    <3>1. IsFiniteSet(Claims(blocks, n))
      BY <1>2, ClaimsAreFinite
    <3>2. Cardinality(Claims(blocks, n)) = 1
      BY DEF MapsTo
    <3>3. Cardinality(Claims(blocks, n)) <= 1
      BY <3>2
    <3> QED BY <2>8, <2>9, <3>1, <3>3, AtMostOne
  <2>11. i = k /\ y[2] = p /\ y[1] = ti
    <3>1. i = k /\ y[2] = p
      BY <2>10
    <3> QED BY <1>3, <2>3, <3>1 DEF b
  <2> QED BY <2>1, <2>11
<1> QED BY <1>8, <1>9 DEF Safe

-----------------------------------------------------------------------------
(***************************************************************************)
(* The inductive invariant of the caches.                                  *)
(***************************************************************************)

\* The count kept with the type index is that of the shelf, so that the element of a map is
\* one of the shelf's.
SlotMapInv ==
  /\ SlotMapTypeOK
  /\ AddressIsTheSlots
  /\ type_index # Nothing => type_index.count = shelf.types[type_index.index].count

LEMMA SlotMapStarts == slotmap_Init => SlotMapInv
<1> USE DEF slotmap_Init, SlotMapInv, SlotMapTypeOK, AddressIsTheSlots
<1> QED OBVIOUS

LEMMA SlotMapKept == SlotMapInv /\ [slotmap_Next]_slotmap_vars => SlotMapInv'
<1> SUFFICES ASSUME SlotMapInv, [slotmap_Next]_slotmap_vars PROVE SlotMapInv'
  OBVIOUS
<1>0. IsShelf(shelf)
  BY DEF SlotMapInv, SlotMapTypeOK, IsShelf
<1> USE DEF SlotMapInv, SlotMapTypeOK, AddressIsTheSlots
<1>1. CASE ReadConfiguration
  <2>1. PICK c \in Configurations(shelf) :
          type_index' = IF array_slot_type_index(c) = Nothing THEN Nothing
                        ELSE [index |-> array_slot_type_index(c),
                              count |-> c[array_slot_type_index(c)].count]
    BY <1>1 DEF ReadConfiguration
  <2>2. type_index = Nothing /\ UNCHANGED <<shelf, slot_element, read, addresses, commanded>>
    BY <1>1 DEF ReadConfiguration
  <2>3. \/ type_index' = Nothing
        \/ /\ type_index' \in [index : DOMAIN shelf.types, count : Nat \ {0}]
           /\ type_index'.count = shelf.types[type_index'.index].count
    BY <1>0, <2>1, ConfigurationIs
  <2>4. slot_element = Nothing /\ read = Nothing
    BY <2>2
  <2> QED BY <2>2, <2>3, <2>4
<1>2. CASE ReadSlotMap
  <2>1. PICK page \in AesReads(shelf) :
          /\ slot_element' = BuildSlotMap(parse_additional_element_status(page.lines),
                                          type_index.index, type_index.count)
          /\ read' = page.read
    BY <1>2 DEF ReadSlotMap
  <2>2. type_index # Nothing /\ UNCHANGED <<shelf, type_index, addresses, commanded>>
    BY <1>2 DEF ReadSlotMap
  <2>3. page.lines \in Pages(shelf) /\ page.read \in {"whole", "short", "garbled"}
    BY <1>0, ReadsArePages
  <2>4. type_index.count \in Nat
    BY <2>2
  <2>5. /\ DOMAIN slot_element' \subseteq SlotNumbers
        /\ \A n \in DOMAIN slot_element' :
             slot_element'[n] \in 1..type_index.count \cup {Nothing}
    BY <1>0, <2>1, <2>3, <2>4, MapsAreSound
  <2> QED BY <2>1, <2>2, <2>3, <2>5
<1>3. CASE WriterRestarts
  BY <1>3 DEF WriterRestarts
<1>4. CASE PollAddresses
  <2>1. UNCHANGED <<shelf, type_index, slot_element, read, commanded>>
    BY <1>4 DEF PollAddresses
  <2>2. DOMAIN addresses' \subseteq SlotNumbers
        /\ \A n \in DOMAIN addresses' :
             addresses'[n] \in BaysOf(shelf.types) /\ SlotOf(shelf, addresses'[n]) = n
    <3>1. CASE addresses' = <<>>
      BY <3>1
    <3>2. CASE \E c \in Configurations(shelf), page \in AesReads(shelf) :
            addresses' = SlotSasAddresses(c, parse_additional_element_status(page.lines))
      <4>1. PICK c \in Configurations(shelf), page \in AesReads(shelf) :
              addresses' = SlotSasAddresses(c, parse_additional_element_status(page.lines))
        BY <3>2
      <4>2. page.lines \in Pages(shelf)
        BY <1>0, ReadsArePages
      <4> QED BY <1>0, <4>1, <4>2, AddressesAreTheSlots
    <3> QED BY <1>4, <3>1, <3>2 DEF PollAddresses
  <2> QED BY <2>1, <2>2
<1>5. CASE \E n \in SlotNumbers : SesWrite(n)
  <2>1. PICK n \in SlotNumbers : SesWrite(n)
    BY <1>5
  <2>2. /\ n \in DOMAIN slot_element /\ slot_element[n] # Nothing /\ slot_element # Nothing
        /\ commanded' = [slot |-> n, element |-> <<type_index.index, slot_element[n]>>]
        /\ UNCHANGED <<shelf, type_index, slot_element, read, addresses>>
    BY <2>1 DEF SesWrite
  <2>3. /\ type_index \in [index : DOMAIN shelf.types, count : Nat \ {0}]
        /\ slot_element[n] \in 1..type_index.count
        /\ type_index.count = shelf.types[type_index.index].count
    BY <2>2
  <2>4. <<type_index.index, slot_element[n]>> \in Elements(shelf.types)
    BY <2>3, ElementsAre
  <2> QED BY <2>2, <2>4
<1>6. CASE UNCHANGED slotmap_vars
  BY <1>6 DEF slotmap_vars
<1> QED BY <1>1, <1>2, <1>3, <1>4, <1>5, <1>6 DEF slotmap_Next

LEMMA SlotMapInvariance == slotmap_Spec => []SlotMapInv
<1> QED BY SlotMapStarts, SlotMapKept, PTL DEF slotmap_Spec

\* SlotMapTypeCorrect: the caches of the SES writer hold an index and a map of the shelf they
\* were read from, and a command addresses one of its elements, however the pages came (locate.py).
THEOREM SlotMapTypeCorrect == slotmap_Spec => []SlotMapTypeOK
<1>1. SlotMapInv => SlotMapTypeOK
  BY DEF SlotMapInv
<1> QED BY <1>1, SlotMapInvariance, PTL

\* AddressesAreOfTheSlots: the SAS address served for a slot is that of a drive in a bay of
\* that number, whatever the page lost, omitted or garbled (state.py: _slot_sas_addresses(), over ses_parser.py).
THEOREM AddressesAreOfTheSlots == slotmap_Spec => []AddressIsTheSlots
<1>1. SlotMapInv => AddressIsTheSlots
  BY DEF SlotMapInv
<1> QED BY <1>1, SlotMapInvariance, PTL

-----------------------------------------------------------------------------
(***************************************************************************)
(* The wrong bay.                                                          *)
(***************************************************************************)

\* The map kept addresses bays of their numbers, apart from what no check shows, and the
\* last command took its element from that map.
MapIsSafe ==
  slot_element # Nothing =>
    \A n \in DOMAIN slot_element :
      slot_element[n] # Nothing => Safe(shelf, read, type_index.index, n, slot_element[n])

CommandIsOfTheMap ==
  commanded # Nothing =>
    /\ type_index # Nothing /\ slot_element # Nothing
    /\ commanded.slot \in DOMAIN slot_element /\ slot_element[commanded.slot] # Nothing
    /\ commanded.element = <<type_index.index, slot_element[commanded.slot]>>

WrongBayInv ==
  /\ SlotMapInv
  /\ type_index # Nothing => IsBayType(shelf, type_index.index)
  /\ MapIsSafe
  /\ CommandIsOfTheMap

LEMMA WrongBayStarts == slotmap_Init => WrongBayInv
<1> USE DEF slotmap_Init, WrongBayInv, MapIsSafe, CommandIsOfTheMap
<1> QED BY SlotMapStarts

\* What a read makes of the map.
LEMMA ReadMapIsSafe ==
  ASSUME WrongBayInv, ReadSlotMap
  PROVE  MapIsSafe'
<1>1. PICK page \in AesReads(shelf) :
        /\ slot_element' = BuildSlotMap(parse_additional_element_status(page.lines),
                                        type_index.index, type_index.count)
        /\ read' = page.read
  BY DEF ReadSlotMap
<1>2. type_index # Nothing /\ UNCHANGED <<shelf, type_index>>
  BY DEF ReadSlotMap
<1> DEFINE blocks == parse_additional_element_status(page.lines)
           ti == type_index.index
           map == BuildSlotMap(blocks, ti, shelf.types[ti].count)
<1>3. IsShelf(shelf) /\ ti \in DOMAIN shelf.types /\ IsBayType(shelf, ti)
  BY <1>2 DEF WrongBayInv, SlotMapInv, SlotMapTypeOK, IsShelf
<1>4. slot_element' = map
  BY <1>1, <1>2 DEF WrongBayInv, SlotMapInv
<1>5. Showing(shelf, blocks, page.read)
  BY <1>3, ReadsShow
<1>6. blocks \in Seq(AesBlocks(shelf))
  BY <1>5 DEF Showing
<1> HIDE DEF blocks, ti
<1>7. ASSUME NEW n \in DOMAIN map, map[n] # Nothing
      PROVE  Safe(shelf, page.read, ti, n, map[n])
  <2>1. n \in SlotNumbers
    BY <1>3, <1>6, <1>7, EntriesComeFrom
  <2>2. PICK k : MapsTo(blocks, ti, shelf.types[ti].count, n, map[n], k)
    BY <1>3, <1>6, <1>7, EntriesComeFrom
  <2> HIDE DEF map
  <2> QED BY <1>3, <1>5, <2>1, <2>2, MapsAreSafe
<1> HIDE DEF map
<1> QED BY <1>1, <1>2, <1>4, <1>7 DEF MapIsSafe, ti

LEMMA WrongBayKept == WrongBayInv /\ [slotmap_Next]_slotmap_vars => WrongBayInv'
<1> SUFFICES ASSUME WrongBayInv, [slotmap_Next]_slotmap_vars PROVE WrongBayInv'
  OBVIOUS
<1>0. SlotMapInv' /\ SlotMapInv
  BY SlotMapKept DEF WrongBayInv
<1>1. CASE ReadConfiguration
  <2>1. PICK c \in Configurations(shelf) :
          type_index' = IF array_slot_type_index(c) = Nothing THEN Nothing
                        ELSE [index |-> array_slot_type_index(c),
                              count |-> c[array_slot_type_index(c)].count]
    BY <1>1 DEF ReadConfiguration
  <2>2. type_index = Nothing /\ UNCHANGED <<shelf, slot_element, read, addresses, commanded>>
    BY <1>1 DEF ReadConfiguration
  <2>3. IsShelf(shelf) /\ slot_element = Nothing
    BY <1>0, <2>2 DEF SlotMapInv, SlotMapTypeOK, IsShelf
  <2>4. type_index' # Nothing => IsBayType(shelf, type_index'.index)
    BY <2>1, <2>3, ConfigurationIs DEF IsBayType
  <2>5. commanded = Nothing
    BY <2>3 DEF WrongBayInv, CommandIsOfTheMap
  <2> QED BY <1>0, <2>2, <2>3, <2>4, <2>5 DEF WrongBayInv, MapIsSafe, CommandIsOfTheMap
<1>2. CASE ReadSlotMap
  <2>1. slot_element = Nothing /\ UNCHANGED <<shelf, type_index, addresses, commanded>>
    BY <1>2 DEF ReadSlotMap
  <2>2. commanded = Nothing
    BY <2>1 DEF WrongBayInv, CommandIsOfTheMap
  <2>3. MapIsSafe'
    BY <1>2, ReadMapIsSafe
  <2> QED BY <1>0, <2>1, <2>2, <2>3 DEF WrongBayInv, CommandIsOfTheMap
<1>3. CASE WriterRestarts
  BY <1>0, <1>3 DEF WriterRestarts, WrongBayInv, MapIsSafe, CommandIsOfTheMap
<1>4. CASE PollAddresses
  BY <1>0, <1>4 DEF PollAddresses, WrongBayInv, MapIsSafe, CommandIsOfTheMap
<1>5. CASE \E n \in SlotNumbers : SesWrite(n)
  <2>1. PICK n \in SlotNumbers : SesWrite(n)
    BY <1>5
  <2>2. /\ n \in DOMAIN slot_element /\ slot_element[n] # Nothing /\ slot_element # Nothing
        /\ commanded' = [slot |-> n, element |-> <<type_index.index, slot_element[n]>>]
        /\ UNCHANGED <<shelf, type_index, slot_element, read, addresses>>
    BY <2>1 DEF SesWrite
  <2>3. type_index # Nothing
    BY <1>0, <2>2 DEF SlotMapInv, SlotMapTypeOK
  <2>4. CommandIsOfTheMap'
    BY <2>2, <2>3 DEF CommandIsOfTheMap
  <2> QED BY <1>0, <2>2, <2>4 DEF WrongBayInv, MapIsSafe
<1>6. CASE UNCHANGED slotmap_vars
  BY <1>0, <1>6 DEF slotmap_vars, WrongBayInv, MapIsSafe, CommandIsOfTheMap
<1> QED BY <1>1, <1>2, <1>3, <1>4, <1>5, <1>6 DEF slotmap_Next

\* The last command is that of the map, and the map is safe.
LEMMA WrongBayShown == WrongBayInv => WrongBayNeedsSilentShift
<1> SUFFICES ASSUME WrongBayInv, commanded # Nothing PROVE WrongBayNeedsSilentShift
  BY DEF WrongBayNeedsSilentShift, RightBay
<1> DEFINE n == commanded.slot
           ti == type_index.index
           p == slot_element[n]
<1>1. /\ slot_element # Nothing /\ n \in DOMAIN slot_element /\ p # Nothing
      /\ commanded.element = <<ti, p>>
  BY DEF WrongBayInv, CommandIsOfTheMap
<1>2. Safe(shelf, read, ti, n, p)
  BY <1>1 DEF WrongBayInv, MapIsSafe
<1>3. read \in {"whole", "short", "garbled"}
  BY <1>1 DEF WrongBayInv, SlotMapInv, SlotMapTypeOK
<1>4. /\ SilentIn(shelf) = Silent /\ LackingIn(shelf) = Lacking
      /\ TwoBayTypesIn(shelf) = TwoBayTypes
  BY DEF SilentIn, LackingIn, TwoBayTypesIn, Silent, Lacking, TwoBayTypes
<1>5. RightBay = (SlotOf(shelf, <<ti, p>>) = n)
  BY <1>1 DEF RightBay
<1> HIDE DEF p, n
<1>6. ASSUME ~RightBay
      PROVE  /\ Lacking /\ (Silent \/ read = "garbled") /\ ti < Len(shelf.types)
             /\ shelf.indexed /\ shelf.overall = 1 => TwoBayTypes
  BY <1>2, <1>4, <1>5, <1>6 DEF Safe
<1>7. ASSUME RightBay, ~Lacking
      PROVE  \/ read # "whole"
             \/ \A x \in BaysOf(shelf.types) : shelf.number[x] = n => x = commanded.element
  BY <1>1, <1>2, <1>4, <1>7 DEF Safe
<1> QED BY <1>6, <1>7 DEF WrongBayNeedsSilentShift, n

\* WrongBayIsSilentShift: an IDENT command lights a bay of another number only if the
\* firmware left descriptors out without sg_ses noticing, the bays' own type is not the last,
\* and the bay printed under a foreign header said no number or the read lost that line; a
\* slot that two bays claim is lit only after a read that lost one claim (locate.py:
\* _build_slot_map(), over ses_parser.py).
THEOREM WrongBayIsSilentShift == slotmap_Spec => []WrongBayNeedsSilentShift
<1>1. slotmap_Spec => []WrongBayInv
  BY WrongBayStarts, WrongBayKept, PTL DEF slotmap_Spec
<1> QED BY <1>1, WrongBayShown, PTL

=============================================================================
